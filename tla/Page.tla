-------------------------------- MODULE Page --------------------------------
(***************************************************************************)
(* The test page (frontend.html) as a user sees it: the button, the status *)
(* line and the result box, with the requests the page has under way.  The *)
(* server is JobLifecycle, which Controller implements: the page can count *)
(* on nothing else.                                                        *)
(*                                                                         *)
(* An event source and a fetch belong to the job whose id their URL has,   *)
(* while evtSource and currentJobId are globals that every handler shares. *)
(***************************************************************************)
EXTENDS JobLifecycle

CONSTANTS
  NoJob,        \* null
  PageFaults    \* "net": a request or its answer is lost

\* An id is a uuid: it is neither null nor a state of the button.
ASSUME PageAssumption ==
  /\ Jobs \cap {NoJob, "idle", "posting"} = {}
  /\ PageFaults \subseteq {"net"}

VARIABLES
  btn,          \* upload(): idle, posting, or the job the POST has created
  currentJobId,
  evtSource,    \* the job of the EventSource held in the global, or NoJob
  live,         \* the jobs with an EventSource that is not closed
  open,         \* those of them whose request the server is answering
  line,         \* the status line: the job it is about and the text's class
  fetch,        \* per job, fetchResult: none, sent, full (the answer has a
                \* result), bare (404), shown, lost
  box,          \* the job whose features the result box shows, or NoJob
  overtaken     \* history: an answer has filled the box after the page had
                \* gone on to another job

page  == <<btn, currentJobId, evtSource, live, open, line, fetch, box, overtaken>>
pvars == <<lifecycleVars, page>>

PInit ==
  /\ LInit
  /\ btn = "idle" /\ currentJobId = NoJob /\ evtSource = NoJob /\ live = {} /\ open = {}
  /\ line = [job |-> NoJob, text |-> "blank"]
  /\ fetch = [j \in Jobs |-> "none"]
  /\ box = NoJob /\ overtaken = FALSE

-----------------------------------------------------------------------------
\* The button is disabled until upload() ends.
upload ==
  /\ btn = "idle"
  /\ btn' = "posting"
  /\ UNCHANGED <<lifecycleVars, currentJobId, evtSource, live, open, line, fetch, box, overtaken>>

\* The server handles the POST.
Posted(j) ==
  /\ btn = "posting"
  /\ Submit(j)
  /\ btn' = j
  /\ UNCHANGED <<currentJobId, evtSource, live, open, line, fetch, box, overtaken>>

\* An error answer, or no answer: also of a POST that has created a job.
UploadFails ==
  /\ "net" \in PageFaults
  /\ btn # "idle"
  /\ btn' = "idle"
  /\ UNCHANGED <<lifecycleVars, currentJobId, evtSource, live, open, line, fetch, box, overtaken>>

\* Mutant: listen() does not close the source there was.
listen_more(j) == evtSource' = j /\ live' = live \cup {j} /\ UNCHANGED open

listen(j) ==
  /\ evtSource' = j
  /\ live' = (live \ {evtSource}) \cup {j}
  /\ open' = open \ {evtSource}

UploadReturns(j) ==
  /\ btn = j
  /\ btn' = "idle"
  /\ currentJobId' = j
  /\ line' = [job |-> j, text |-> "queued"]
  /\ listen(j)
  /\ UNCHANGED <<lifecycleVars, fetch, box, overtaken>>

\* The server has the job's sender until the outcome or DELETE.
Streaming(j) == phase[j] \in Stages \cup {"Failed"} /\ told[j] = "nothing"

\* The source's request arrives, the first or one made again: a receiver of
\* what comes next, or a 404, which closes an EventSource for good.
job_events(j) ==
  /\ j \in live \ open
  /\ IF Streaming(j)
     THEN open' = open \cup {j} /\ UNCHANGED live
     ELSE live' = live \ {j} /\ UNCHANGED open
  /\ UNCHANGED <<lifecycleVars, btn, currentJobId, evtSource, line, fetch, box, overtaken>>

\* Without its sender the stream ends once the events before are delivered.
StreamEnds(j) ==
  /\ j \in open
  /\ ~Streaming(j) /\ told[j] # "result"
  /\ open' = open \ {j}
  /\ UNCHANGED <<lifecycleVars, btn, currentJobId, evtSource, live, line, fetch, box, overtaken>>

\* The connection breaks; the outcome may be lost with it.
StreamDrops(j) ==
  /\ "net" \in PageFaults
  /\ j \in open
  /\ open' = open \ {j}
  /\ fetch' = IF told[j] = "result" THEN [fetch EXCEPT ![j] = "lost"] ELSE fetch
  /\ UNCHANGED <<lifecycleVars, btn, currentJobId, evtSource, live, line, box, overtaken>>

\* The "status" listener of j's source, for an event sent by now.  Completed
\* is never sent as a status.
StatusEvent(j) ==
  /\ j \in open
  /\ phase[j] # "Queued"
  /\ \E t \in {"running", "failed"} :
       /\ t = "failed" => phase[j] = "Failed"
       /\ line' = [job |-> j, text |-> t]
  /\ UNCHANGED <<lifecycleVars, btn, currentJobId, evtSource, live, open, fetch, box, overtaken>>

\* Mutant: the listener closes the source and does not ask for the result.
CompletedEvent_only(j) ==
  /\ j \in open
  /\ told[j] = "result"
  /\ line' = [job |-> j, text |-> "completed"]
  /\ live' = live \ {evtSource} /\ open' = open \ {evtSource}
  /\ UNCHANGED <<lifecycleVars, btn, currentJobId, evtSource, fetch, box, overtaken>>

\* The "completed" listener: it fetches its own job's result and closes the
\* global source.
CompletedEvent(j) ==
  /\ j \in open
  /\ told[j] = "result"
  /\ line' = [job |-> j, text |-> "completed"]
  /\ fetch' = [fetch EXCEPT ![j] = "sent"]
  /\ live' = live \ {evtSource} /\ open' = open \ {evtSource}
  /\ UNCHANGED <<lifecycleVars, btn, currentJobId, evtSource, box, overtaken>>

\* GET /jobs/{id} on the server; a job deleted meanwhile is a 404, whose empty
\* body makes res.json() throw.
get_job(j) ==
  /\ fetch[j] = "sent"
  /\ fetch' = [fetch EXCEPT ![j] = IF phase[j] = "Completed" THEN "full" ELSE "bare"]
  /\ UNCHANGED <<lifecycleVars, btn, currentJobId, evtSource, live, open, line, box, overtaken>>

FetchLost(j) ==
  /\ "net" \in PageFaults
  /\ fetch[j] \in {"sent", "full", "bare"}
  /\ fetch' = [fetch EXCEPT ![j] = "lost"]
  /\ UNCHANGED <<lifecycleVars, btn, currentJobId, evtSource, live, open, line, box, overtaken>>

\* Mutant: the box is emptied by an answer without a result.
fetchResult_clearing(j) ==
  /\ fetch[j] \in {"full", "bare"}
  /\ fetch' = [fetch EXCEPT ![j] = "shown"]
  /\ box' = IF fetch[j] = "full" THEN j ELSE NoJob
  /\ UNCHANGED <<overtaken, lifecycleVars, btn, currentJobId, evtSource, live, open, line>>

\* The answer is back; nothing asks which job the page is at by now.
fetchResult(j) ==
  /\ fetch[j] = "full"
  /\ fetch' = [fetch EXCEPT ![j] = "shown"]
  /\ box' = j
  /\ overtaken' = (overtaken \/ j # currentJobId)
  /\ UNCHANGED <<lifecycleVars, btn, currentJobId, evtSource, live, open, line>>

\* The server goes on with its jobs; POST is Posted's.
ServerStep ==
  /\ \E j \in Jobs : Advance(j) \/ Complete(j) \/ Fail(j) \/ Announce(j) \/ Cancel(j)
  /\ UNCHANGED page

PageStep(j) ==
  \/ UploadReturns(j) \/ job_events(j) \/ StreamEnds(j)
  \/ CompletedEvent(j) \/ get_job(j) \/ fetchResult(j)

PNext ==
  \/ upload \/ UploadFails \/ ServerStep
  \/ \E j \in Jobs : Posted(j) \/ PageStep(j) \/ StatusEvent(j) \/ StreamDrops(j) \/ FetchLost(j)

PSpec == PInit /\ [][PNext]_pvars

(***************************************************************************)
(* The browser runs the handlers whose events have arrived, and the server *)
(* answers; nobody has to upload or delete, and jobs need not end.         *)
(***************************************************************************)
PFairSpec == PSpec /\ \A j \in Jobs : WF_pvars(PageStep(j))

-----------------------------------------------------------------------------
(***************************************************************************)
(* What the page promises.                                                 *)
(***************************************************************************)

\* Everything the status line says is about the job submitted last: the
\* source of an earlier job is closed before its events can get there.
LineIsCurrent == line.job = currentJobId /\ live \subseteq {currentJobId}

\* The box shows the features of a job that has completed, and of the current
\* job once its answer is in, unless the answer for an earlier job came late.
BoxIsRight ==
  /\ box # NoJob => told[box] = "result"
  /\ currentJobId # NoJob /\ fetch[currentJobId] = "shown" => box = currentJobId \/ overtaken

\* A completed job's features come to the box of a page whose event stream is
\* open, unless the page goes on to another job, the job is deleted, a message
\* is lost or a late answer takes the box.
ResultIsShown ==
  \A j \in Jobs :
    (told[j] = "result" /\ j \in open) ~>
      (box = j \/ currentJobId # j \/ phase[j] = "Cancelled" \/ fetch[j] = "lost" \/ overtaken)
=============================================================================
