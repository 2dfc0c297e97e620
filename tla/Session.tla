------------------------------ MODULE Session -------------------------------
(***************************************************************************)
(* What a job's task does with a connected agent: the upload of the sample *)
(* (Upload), then the Analyze call (Analysis) up to the result it returns. *)
(* spc is where run_job_inner stands, between connect_mtls and the end of  *)
(* run_analysis: upload, analyze, stream (reading events), ok, err.        *)
(***************************************************************************)
EXTENDS Upload, Analysis

VARIABLES
  spc,
  stream,       \* the event channel of the Analyze call: none, open, done
                \* (holds the Done event), ended (the sender is gone)
  result        \* what run_analysis of the controller returned: none,
                \* features, empty

svars == <<uvars, avars, spc, stream, result>>

SInit ==
  /\ UInit /\ AStart /\ file = "none"
  /\ spc = "upload" /\ stream = "none" /\ result = "none"

\* PathBuf::file_name keeps the last component, on Windows also of a path
\* that Linux took for a name.
safe_filename(n) == IF n \in {"nested", "absolute", "parent"} THEN "plain" ELSE n

\* analyze looks in the sample folder for the last component of the name as it
\* was given; upload_sample has trimmed it and followed the path in it.
sample_path_exists == disk # <<>> /\ safe_filename(name) = Trimmed(name)

Uploading ==
  /\ UNext
  /\ UNCHANGED <<avars, spc, stream, result>>

UploadReturns ==
  /\ spc = "upload"
  /\ up \in {"ok", "failed"}
  /\ spc' = IF up = "ok" THEN "analyze" ELSE "err"
  /\ UNCHANGED <<uvars, avars, stream, result>>

\* The Analyze call: the agent makes the channel and spawns run_analysis.
analyze ==
  /\ spc = "analyze" /\ link = "up"
  /\ spc' = "stream" /\ stream' = "open"
  /\ file' = IF sample_path_exists THEN "sample" ELSE "none"
  /\ UNCHANGED <<uvars, threads, command, logs, sample, code, opened, seen, kill, installed, answer>>
  /\ UNCHANGED result

\* run_analysis and its threads, from the moment the task is spawned.
InGuest == stream # "none" /\ UNCHANGED <<uvars, spc, stream, result>>

Analysing == InGuest /\ ANext

\* Mutant: Done is sent without waiting for run_analysis.
SendDoneEarly ==
  /\ stream = "open"
  /\ stream' = IF outcome = "panic" THEN "ended" ELSE "done"
  /\ UNCHANGED <<uvars, avars, spc, result>>

\* The spawned task sends Done, also for an Err; a panic only drops the sender.
SendDone ==
  /\ stream = "open" /\ mpc = "over"
  /\ stream' = IF outcome = "panic" THEN "ended" ELSE "done"
  /\ UNCHANGED <<uvars, avars, spc, result>>

\* Mutant: the end of the stream is taken for one more event without Done.
ReadEventDeaf ==
  /\ spc = "stream" /\ link = "up"
  /\ stream = "done" /\ spc' = "ok" /\ result' = outcome
  /\ UNCHANGED <<uvars, avars, stream>>

\* run_analysis of the controller: Done is the result, the end of the stream
\* without it an error.  message() waits without a timeout.
ReadEvent ==
  /\ spc = "stream" /\ link = "up"
  /\ \/ stream = "done" /\ spc' = "ok" /\ result' = outcome
     \/ stream = "ended" /\ spc' = "err" /\ UNCHANGED result
  /\ UNCHANGED <<uvars, avars, stream>>

\* The connection breaks in the Analyze call or in its stream.
StreamBreaks ==
  /\ "break" \in UploadFaults
  /\ spc \in {"analyze", "stream"}
  /\ spc' = "err"
  /\ UNCHANGED <<uvars, avars, stream, result>>

SNext == \/ Uploading \/ UploadReturns \/ analyze \/ Analysing
         \/ SendDone \/ ReadEvent \/ StreamBreaks

SSpec == SInit /\ [][SNext]_svars

(***************************************************************************)
(* The fairness of Upload and Analysis; the job's task is polled.          *)
(***************************************************************************)
SFairSpec ==
  /\ SSpec
  /\ WF_svars(UploadStep /\ UNCHANGED <<avars, spc, stream, result>>)
  /\ WF_svars(UploadReturns) /\ WF_svars(analyze) /\ WF_svars(SendDone) /\ WF_svars(ReadEvent)
  /\ WF_svars(InGuest /\ Main) /\ WF_svars(InGuest /\ CommandThread)
  /\ WF_svars(InGuest /\ LogReader) /\ WF_svars(InGuest /\ LogPipeCloses)

-----------------------------------------------------------------------------
(***************************************************************************)
(* What a session promises.                                                *)
(***************************************************************************)

\* Features returned to the job come from a run of the sample that was
\* submitted, all of it, unless a failed read cut it short (job.rs goes on as at
\* the end of the file).  What they say of the file itself is read from its path
\* after the run, so it is about this sample only if the sample left it alone.
ResultOfSample ==
  result = "features" =>
    /\ disk = Chunks(size) \/ readErr
    /\ sample \in {"running", "exited"} /\ file # "none"

\* The analysis finds every sample whose upload was acknowledged, except one
\* whose name upload_sample has trimmed and analyze has not, or whose path led
\* upload_sample out of the sample folder.
AckedIsFound ==
  stream # "none" /\ sample = "none" /\ file = "none" => name \in {"padded", "parent"}

\* The result that is published as completed although it is empty, for a
\* sample that was stored and never ran or has removed or replaced its file.
EmptyResultExplained ==
  result = "empty" => disk # <<>> /\ (sample \in {"none", "suspended"} \/ file = "tampered")

HangsInJoin == mpc = "join" /\ missedAt = "create"

\* Every session ends, with two exceptions, for which the controller waits
\* without limit: the command pipe's missed nudge, and a guest that has fallen
\* silent.
SessionEnds == spc = "upload" ~> (spc \in {"ok", "err"} \/ HangsInJoin \/ link = "silent")
-----------------------------------------------------------------------------
(***************************************************************************)
(* The inductive invariant.                                                *)
(***************************************************************************)
SessionTracks ==
  /\ spc \in {"upload", "analyze", "stream", "ok", "err"}
  /\ stream \in {"none", "open", "done", "ended"}
  /\ result \in {"none", "features", "empty", "panic"}
  /\ spc \in {"upload", "analyze"} => stream = "none"
  /\ spc = "analyze" \/ stream # "none" => up = "ok"
  /\ stream = "none" => mpc = "init" /\ result = "none"
  /\ stream # "none" /\ sample = "none"
       => file = IF sample_path_exists THEN "sample" ELSE "none"
  /\ stream # "none" /\ sample # "none" => sample_path_exists /\ file # "none"
  /\ stream \in {"done", "ended"} => mpc = "over"
  /\ result # "none" => mpc = "over" /\ result = outcome

\* What upload_sample and run_analysis keep, each for itself, and how they come
\* one after the other: the analysis begins after the acknowledgement, looks
\* for the file where the upload has left it, and the result is its outcome.
SInv == UInv /\ AInv /\ SessionTracks
=============================================================================
