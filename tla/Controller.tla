----------------------------- MODULE Controller -----------------------------
(***************************************************************************)
(* The controller process: the task run_job started for every submitted    *)
(* job (job.rs), the HTTP handlers (routes.rs), the virtual machines       *)
(* (module VmManager) and the pages following the jobs (EventStream).      *)
(*                                                                         *)
(* pc[j] is where the task of job j stands:                                *)
(*   queued                    spawned, not polled yet                     *)
(*   create, teardown          inside the blocking calls of VmManager      *)
(*   setBoot, setUpload,       after a has() check, before the set_status  *)
(*   setAnalyze                it guards                                   *)
(*   bootstrap, connect,       awaiting the guest                          *)
(*   upload, analyze                                                       *)
(*   setResult, setFailed,     run_job_inner has returned ret[j]; run_job  *)
(*   emitError                 is publishing it                            *)
(*   done, panicked            the task is over                            *)
(*                                                                         *)
(* A task gives its runtime thread back only at an await.  Tokio has       *)
(* Workers threads; between awaits a task keeps the one it runs on, also   *)
(* while create_job_domain and teardown block it.                          *)
(***************************************************************************)
EXTENDS EventStream, VmManager, FiniteSets

CONSTANT Workers

ASSUME WorkersAssumption == Workers \in Nat \ {0}

VARIABLES pc, ret

vars == <<trackerVars, streamVars, vmVars, pc, ret>>

Awaiting == {"queued", "bootstrap", "connect", "upload", "analyze"}
Polling  == {"create", "setBoot", "setUpload", "setAnalyze", "teardown",
             "setResult", "setFailed", "emitError"}
PCs == {"idle", "done", "panicked"} \cup Awaiting \cup Polling

\* The places where the task awaits its guest.
Waits == Awaiting \ {"queued"}

\* The errors after which run_job_inner returns without calling teardown.
Leaky == {"failed to create VM", "mTLS bootstrap failed",
          "mTLS connect failed", "sample upload failed"}
Errors == Leaky \cup {"job cancelled", "analysis failed"}

ASSUME ErrorsAssumption == (Results \cup {NoResult}) \cap Errors = {}

\* A thread is there to poll one more task: a job's, or an HTTP handler's.
WorkerFree == Cardinality({j \in Jobs : pc[j] \in Polling}) < Workers

Init ==
  /\ TrackerInit /\ StreamInit /\ VmInit
  /\ pc = [j \in Jobs |-> "idle"]
  /\ ret = [j \in Jobs |-> NoResult]

At(j, p)      == pc[j] = p
Resume(j, p)  == pc[j] = p /\ WorkerFree
To(j, p)      == pc' = [pc EXCEPT ![j] = p]
Return(j, r)  == ret' = [ret EXCEPT ![j] = r]

\* `?` on an error: run_job_inner is left at once.
FailWith(j, e) ==
  /\ To(j, "setFailed")
  /\ Return(j, e)
  /\ UNCHANGED <<trackerVars, streamVars, vmVars>>

\* jd.teardown() before run_job_inner returns r.
TeardownThenReturn(j, r) ==
  /\ CallTeardown(j)
  /\ To(j, "teardown")
  /\ Return(j, r)
  /\ UNCHANGED <<trackerVars, streamVars>>

\* Mutant: the check for deletion is missing.
ContinueAlways(j, p) ==
  To(j, p) /\ UNCHANGED <<ret, trackerVars, streamVars, vmVars>>

\* Mutant: a deleted job's task waits for the job to come back.
ContinueOrWait(j, p) ==
  has(j) /\ To(j, p) /\ UNCHANGED <<ret, trackerVars, streamVars, vmVars>>

\* The end of a stage: go on to p, or clean up when the job was deleted.
ContinueUnlessCancelled(j, p) ==
  \/ has(j) /\ To(j, p) /\ UNCHANGED <<ret, trackerVars, streamVars, vmVars>>
  \/ ~has(j) /\ TeardownThenReturn(j, "job cancelled")

-----------------------------------------------------------------------------
(***************************************************************************)
(* The task of job j.                                                      *)
(***************************************************************************)
StartSpawn(j) ==
  /\ Resume(j, "queued")
  /\ set_status(j, "SpawningVm")
  /\ CallCreate(j)
  /\ To(j, "create")
  /\ UNCHANGED <<ret, streamVars>>

Created(j) ==
  /\ At(j, "create")
  /\ vm[j] = "ok"
  /\ ContinueUnlessCancelled(j, "setBoot")

CreateFailed(j) ==
  /\ At(j, "create")
  /\ vm[j] = "err"
  /\ FailWith(j, "failed to create VM")

\* The panic ends the task; the job stays as it is in the tracker.
CreatePanicked(j) ==
  /\ At(j, "create")
  /\ vm[j] = "panic"
  /\ To(j, "panicked")
  /\ UNCHANGED <<ret, trackerVars, streamVars, vmVars>>

SetStage(j, p, s, q) ==
  /\ At(j, p)
  /\ set_status(j, s)
  /\ To(j, q)
  /\ UNCHANGED <<ret, streamVars, vmVars>>

SetBootstrapping(j) == SetStage(j, "setBoot", "Bootstrapping", "bootstrap")
SetUploading(j)     == SetStage(j, "setUpload", "Uploading", "connect")
SetAnalyzing(j)     == SetStage(j, "setAnalyze", "Analyzing", "analyze")

\* A task knows its guest by address only, and an address may be leased again:
\* a call succeeds only while some guest is up, not necessarily the job's own
\* (module Bootstrap says which agent accepts whom).  Without an answer the
\* calls neither succeed nor fail: the dials are repeated for ever, and no
\* call has a timeout.  An answer on its way when the guest went down is taken
\* to arrive just before that.
BootstrapOk(j) ==
  /\ Resume(j, "bootstrap")
  /\ running # {}
  /\ ContinueUnlessCancelled(j, "setUpload")

BootstrapErr(j) ==
  /\ Resume(j, "bootstrap")
  /\ FailWith(j, "mTLS bootstrap failed")

ConnectOk(j) ==
  /\ Resume(j, "connect")
  /\ running # {}
  /\ To(j, "upload")
  /\ UNCHANGED <<ret, trackerVars, streamVars, vmVars>>

ConnectErr(j) ==
  /\ Resume(j, "connect")
  /\ FailWith(j, "mTLS connect failed")

UploadOk(j) ==
  /\ Resume(j, "upload")
  /\ running # {}
  /\ ContinueUnlessCancelled(j, "setAnalyze")

UploadErr(j) ==
  /\ Resume(j, "upload")
  /\ FailWith(j, "sample upload failed")

\* Mutant: the result is returned without tearing the machine down.
AnalyzeOkLeaking(j, r) ==
  /\ Resume(j, "analyze")
  /\ running # {}
  /\ To(j, "setResult")
  /\ Return(j, r)
  /\ UNCHANGED <<trackerVars, streamVars, vmVars>>

AnalyzeOk(j, r) ==
  /\ Resume(j, "analyze")
  /\ running # {}
  /\ TeardownThenReturn(j, r)

\* Mutant: `?` instead of the match that tears down.
AnalyzeErrLeaking(j) ==
  /\ Resume(j, "analyze")
  /\ FailWith(j, "analysis failed")

AnalyzeErr(j) ==
  /\ Resume(j, "analyze")
  /\ TeardownThenReturn(j, "analysis failed")

TeardownDone(j) ==
  /\ At(j, "teardown")
  /\ vm[j] = "gone"
  /\ To(j, IF ret[j] \in Results THEN "setResult" ELSE "setFailed")
  /\ UNCHANGED <<ret, trackerVars, streamVars, vmVars>>

PublishResult(j) ==
  /\ At(j, "setResult")
  /\ set_result(j, ret[j])
  /\ To(j, "done")
  /\ UNCHANGED <<ret, streamVars, vmVars>>

\* Mutant: only the error event tells of the failure.
MarkFailedSilently(j) ==
  /\ At(j, "setFailed")
  /\ To(j, "emitError")
  /\ UNCHANGED <<ret, trackerVars, streamVars, vmVars>>

MarkFailed(j) == SetStage(j, "setFailed", "Failed", "emitError")

PublishError(j) ==
  /\ At(j, "emitError")
  /\ emit_error(j, ret[j])
  /\ To(j, "done")
  /\ UNCHANGED <<ret, streamVars, vmVars>>

\* The steps of run_job, the good answers of the guest included.
TaskStep(j) ==
  \/ StartSpawn(j) \/ Created(j) \/ CreateFailed(j) \/ CreatePanicked(j)
  \/ SetBootstrapping(j) \/ BootstrapOk(j) \/ SetUploading(j) \/ ConnectOk(j)
  \/ UploadOk(j) \/ SetAnalyzing(j) \/ (\E r \in Results : AnalyzeOk(j, r))
  \/ TeardownDone(j) \/ PublishResult(j) \/ MarkFailed(j) \/ PublishError(j)

\* The errors a call to the guest may end with, at any time or never.
CallFails(j) ==
  BootstrapErr(j) \/ ConnectErr(j) \/ UploadErr(j) \/ AnalyzeErr(j)

\* The calls of VmManager, and what happens to the guest meanwhile.
HostStep(j) ==
  /\ CreateStep(j) \/ TeardownStep(j)
  /\ UNCHANGED <<pc, ret, trackerVars, streamVars>>

GuestStep(j) ==
  /\ GetLease(j) \/ GuestStops(j)
  /\ UNCHANGED <<pc, ret, trackerVars, streamVars>>

-----------------------------------------------------------------------------
(***************************************************************************)
(* The HTTP handlers.                                                      *)
(***************************************************************************)
\* POST /jobs from page c, and the page's reaction to the answer.
SubmitJob(c, j) ==
  /\ WorkerFree
  /\ pc[j] = "idle"
  /\ Insert(j)
  /\ Listen(c, j)
  /\ To(j, "queued")
  /\ UNCHANGED <<ret, vmVars>>

\* DELETE /jobs/{id} of a job that is there; otherwise nothing changes.
CancelJob(j) ==
  /\ WorkerFree
  /\ has(j)
  /\ Remove(j)
  /\ UNCHANGED <<pc, ret, streamVars, vmVars>>

\* GET /jobs/{id}/events and the response stream it returns.
StreamStep(c) ==
  /\ WorkerFree
  /\ subscribe(c) \/ recv(c) \/ EndStream(c)
  /\ UNCHANGED <<pc, ret, trackerVars, vmVars>>

LoseStream(c) == DropStream(c) /\ UNCHANGED <<pc, ret, trackerVars, vmVars>>

Next ==
  \/ \E j \in Jobs : \/ TaskStep(j) \/ CallFails(j) \/ HostStep(j)
                     \/ GuestStep(j) \/ CancelJob(j)
  \/ \E c \in Clients : \/ StreamStep(c) \/ LoseStream(c)
                        \/ \E j \in Jobs : SubmitJob(c, j)

Spec == Init /\ [][Next]_vars

(***************************************************************************)
(* Tokio polls every task that is ready and has a thread for it, and host  *)
(* commands end.  Nothing is assumed of a guest: it may leave a call       *)
(* without an answer for ever, although it is up.  Nobody has to submit or *)
(* delete a job, calls need not fail and connections need not break.       *)
(***************************************************************************)
Fairness ==
  /\ \A j \in Jobs : /\ WF_vars(pc[j] \notin Waits /\ TaskStep(j))
                     /\ WF_vars(HostStep(j))
  /\ \A c \in Clients : WF_vars(StreamStep(c))

FairSpec == Spec /\ Fairness

-----------------------------------------------------------------------------
(***************************************************************************)
(* Correctness.                                                            *)
(***************************************************************************)
EventType ==
  [name : {"status"}, data : {StatusText[s] : s \in JobStatus}]
    \cup [name : {"error"}, data : Errors]
    \cup [name : {"completed"}, data : Results]

\* The type of every variable: the tracker's map, the channels, the pages'
\* connections, the host's resources and the tasks.
TypeOK ==
  /\ status \in [Jobs -> JobStatus \cup {Absent}]
  /\ result \in [Jobs -> Results \cup {NoResult}]
  /\ tx \subseteq Jobs
  /\ events \in [Jobs -> Seq(EventType)]
  /\ VmTypeOK
  /\ conn \in [Clients -> ConnStates]
  /\ watch \in [Clients -> Jobs \cup {NoJob}]
  /\ from \in [Clients -> Nat]
  /\ next \in [Clients -> Nat]
  /\ got \in [Clients -> Nat]
  /\ shown \in [Clients -> FrontendStatuses \cup {"blank", "queued"}]
  /\ pc \in [Jobs -> PCs]
  /\ ret \in [Jobs -> Results \cup Errors \cup {NoResult}]

\* The stages during which the guest is being talked to.
InUse == {"setBoot", "bootstrap", "setUpload", "connect", "upload",
          "setAnalyze", "analyze"}

\* run_job_inner leaves create_job_domain and the guest calls by `?`, and
\* teardown ignores errors.  A machine, or a file of it, outlives its job's
\* task only after one of those four early returns or with a logged warning.
OrphanExplained ==
  \A j \in Jobs :
    pc[j] = "done" /\ Remains(j) => ret[j] \in Leaky \/ j \in warned

\* create_job_domain undoes its steps when one fails, by error paths of their
\* own for each: whichever of them ran and whatever the guest does, a job whose
\* create_job_domain succeeded talks to a guest that still has its domain and
\* both its files, until its own teardown.  (They are named by a fresh uuid, so
\* the property is about one job's own sequence of host commands.)
InUseIntact ==
  \A j \in Jobs : pc[j] \in InUse => j \in defined \cap overlay \cap nvram

\* set_result is called after teardown: what a page or a GET sees completed
\* has its result in the tracker and nothing of its machine left on the host
\* that was not warned about.
CompletedMeansDone ==
  \A j \in Jobs :
    (status[j] = "Completed" \/ \E i \in DOMAIN events[j] : events[j][i].name = "completed")
      => /\ Remains(j) => j \in warned
         /\ has(j) => status[j] = "Completed" /\ result[j] \in Results

\* set_result and emit_error take the sender out of the job: of a job that
\* was not deleted the channel closes exactly with its outcome, and no event
\* follows an outcome.
StreamEndsWithOutcome ==
  \A j \in Jobs :
    LET n == Len(events[j]) IN
    /\ has(j) => (j \in tx <=> \A i \in 1..n : ~IsOutcome(events[j][i]))
    /\ \A i \in 1..n : IsOutcome(events[j][i]) => i = n

\* However far a page falls behind, its receiver delivers every event sent
\* since it subscribed: the channel holds as many events as a job ever sends.
NoneMissed == \A c \in Clients : conn[c] = "open" => next[c] - from[c] = got[c]

\* Events of the page's present stream that the page has a listener for.
Heard(c) ==
  {i \in from[c]+1 .. next[c] :
     events[watch[c]][i].name \in {"status", "completed", "analysis_error"}}

\* A page that is connected, has read all there is and heard anything of it
\* shows what GET /jobs/{id} would answer, except while the machine is being
\* created; a page that closed its stream shows the final status.
ViewAgrees ==
  \A c \in Clients :
    LET j == watch[c] IN
    /\ conn[c] = "open" /\ next[c] = Len(events[j]) /\ Heard(c) # {} /\ has(j)
         => status[j] = "SpawningVm" \/ shown[c] = ApiStatus[status[j]]
    /\ conn[c] = "closed" /\ has(j) => shown[c] = ApiStatus[status[j]]

\* The stage of the job that a location of its task belongs to.
StageOf(p) ==
  CASE p \in {"queued", "create"} -> 1
    [] p \in {"setBoot", "bootstrap"} -> 2
    [] p \in {"setUpload", "connect", "upload"} -> 3
    [] p \in {"setAnalyze", "analyze"} -> 4
    [] OTHER -> 5

\* run_job_inner looks for the job after each stage: once DELETE has removed
\* it, the task never enters another stage, it can only wind up.
CancelHonoured ==
  [][\A j \in Jobs : pc[j] # "idle" /\ ~has(j) /\ StageOf(pc'[j]) # StageOf(pc[j])
                       => StageOf(pc'[j]) = 5]_vars

(***************************************************************************)
(* The controller implements JobLifecycle.                                 *)
(***************************************************************************)
phaseBar ==
  [j \in Jobs |-> IF pc[j] = "idle" THEN "none"
                  ELSE IF has(j) THEN status[j] ELSE "Cancelled"]

toldBar ==
  [j \in Jobs |->
     IF \E i \in DOMAIN events[j] : events[j][i].name = "completed" THEN "result"
     ELSE IF \E i \in DOMAIN events[j] : events[j][i].name = "error" THEN "error"
     ELSE "nothing"]

Lifecycle == INSTANCE JobLifecycle WITH phase <- phaseBar, told <- toldBar

\* What GET /jobs/{id} and the event stream report of a job moves only the
\* way JobLifecycle allows.
ImplementsLifecycle == Lifecycle!LSpec

-----------------------------------------------------------------------------
(***************************************************************************)
(* Two things the repository says that the code does not do.               *)
(***************************************************************************)
\* SETUP.md lists "analysis_error" among the events of the stream, and the
\* page has a listener for it that shows the failure: a page that received
\* the outcome of a job shows it.
OutcomeShown ==
  \A c \in Clients :
    conn[c] = "open" /\ got[c] > 0 /\ IsOutcome(events[watch[c]][next[c]])
      => shown[c] \in {"completed", "failed"}

\* The page expects the status texts of the API, "spawning_vm" among them: it
\* shows every status it was told.
StatusShown ==
  \A c \in Clients :
    LET j == watch[c] IN
    conn[c] = "open" /\ got[c] > 0 /\ next[c] = Len(events[j]) /\ has(j)
      => status[j] = "Failed" \/ shown[c] = ApiStatus[status[j]]

-----------------------------------------------------------------------------
\* The task waits for an answer of its guest for ever: message().await and the
\* other calls have no timeout, and a DELETE does not end the wait.
StuckInCall(j) == [](pc[j] \in Waits)

\* A job's task ends, by a panic of create_job_domain at worst, or one call to
\* its guest is never answered: neither the blocking host commands of other
\* jobs, nor a deletion, nor a failing call can keep it from its end.
JobEnds ==
  \A j \in Jobs :
    pc[j] = "queued" ~> (pc[j] \in {"done", "panicked"} \/ StuckInCall(j))

\* A page whose stream is open before the job is over comes to show how it
\* ended, unless the job is deleted, panics or waits for its guest for ever, or
\* the page goes on to another job.  (Stated for connections that do not break.)
OutcomeReachesPage ==
  \A c \in Clients : \A j \in Jobs :
    conn[c] = "open" /\ watch[c] = j /\ pc[j] \notin {"emitError", "done"}
      ~> \/ shown[c] \in {"completed", "failed"}
         \/ ~has(j) \/ pc[j] = "panicked" \/ StuckInCall(j)
         \/ watch[c] # j

-----------------------------------------------------------------------------
(***************************************************************************)
(* The inductive invariant: how the task, the machine, the tracker's entry *)
(* and the channel of one job are related.                                 *)
(***************************************************************************)
RetKnown ==
  \A j \in Jobs :
    /\ pc[j] = "setResult" => ret[j] \in Results
    /\ pc[j] \in {"setFailed", "emitError"} => ret[j] \in Errors
    /\ pc[j] = "teardown" => ret[j] \in Results \cup (Errors \ Leaky)

Watching ==
  \A c \in Clients : conn[c] # "none" => watch[c] \in Jobs

HostTracks ==
  \A j \in Jobs :
    /\ vm[j] = "nvram" => j \in overlay
    /\ vm[j] = "define" => j \in overlay \cap nvram
    /\ vm[j] \in {"start", "networks", "ip", "ok", "destroy"}
         => j \in overlay \cap nvram \cap defined
    /\ vm[j] = "undefine" => (j \in running => j \in warned)
    /\ vm[j] = "rm_overlay" => (j \in running \cup defined => j \in warned)
    /\ vm[j] = "rm_nvram" => (j \in running \cup defined \cup overlay => j \in warned)
    /\ vm[j] = "gone" => (Remains(j) => j \in warned)

TaskTracks ==
  \A j \in Jobs :
    /\ pc[j] \in {"idle", "queued"} => vm[j] = "idle"
    /\ pc[j] = "create" => vm[j] \in Creating \cup {"ok", "err", "panic"}
    /\ pc[j] \in InUse => vm[j] = "ok"
    /\ pc[j] = "teardown" => vm[j] \in Tearing \cup {"gone"}
    /\ pc[j] = "setResult" => vm[j] = "gone"
    /\ pc[j] \in {"setFailed", "emitError", "done"}
         => vm[j] = "gone" \/ (vm[j] \in {"ok", "err"} /\ ret[j] \in Leaky)
    /\ pc[j] = "panicked" => vm[j] = "panic"

\* The statuses an entry can have while the task is at p and will return r.
StatusAt(p, r) ==
  CASE p = "idle" -> {Absent}
    [] p = "queued" -> {Absent, "Queued"}
    [] p \in {"create", "setBoot", "panicked"} -> {Absent, "SpawningVm"}
    [] p \in {"bootstrap", "setUpload"} -> {Absent, "Bootstrapping"}
    [] p \in {"connect", "upload", "setAnalyze"} -> {Absent, "Uploading"}
    [] p = "analyze" -> {Absent, "Analyzing"}
    [] p \in {"teardown", "setResult"} /\ r \in Results -> {Absent, "Analyzing"}
    [] p = "emitError" -> {Absent, "Failed"}
    [] p = "done" -> {Absent, IF r \in Results THEN "Completed" ELSE "Failed"}
    [] OTHER -> {Absent, "SpawningVm", "Bootstrapping", "Uploading", "Analyzing"}

\* How many events the task can have sent when it is at p.
SentAt(p) ==
  CASE p \in {"idle", "queued"} -> 0
    [] p \in {"create", "setBoot", "panicked"} -> 1
    [] p \in {"bootstrap", "setUpload"} -> 2
    [] p \in {"connect", "upload", "setAnalyze"} -> 3
    [] p = "emitError" -> 5
    [] p = "done" -> 6
    [] OTHER -> 4

TrackerTracks ==
  \A j \in Jobs :
    /\ status[j] \in StatusAt(pc[j], ret[j])
    /\ j \in tx <=> has(j) /\ pc[j] # "done"
    /\ status[j] = "Completed" => result[j] \in Results

ChannelTracks ==
  \A j \in Jobs :
    /\ Len(events[j]) <= SentAt(pc[j])
    /\ \A i \in 1..Len(events[j]) : IsOutcome(events[j][i]) =>
         /\ i = Len(events[j]) /\ pc[j] = "done"
         /\ events[j][i].name = "completed" <=> ret[j] \in Results
    /\ has(j) /\ pc[j] = "done" =>
         Len(events[j]) > 0 /\ IsOutcome(events[j][Len(events[j])])

ReceiversTrack ==
  \A c \in Clients :
    conn[c] = "open" => /\ from[c] <= next[c]
                        /\ next[c] <= Len(events[watch[c]])
                        /\ got[c] = next[c] - from[c]

\* Where a task is determines what its machine, its entry in the tracker, its
\* channel and the receivers of it can look like: this is what every step of
\* run_job, of create_job_domain and teardown and of the handlers preserves.
IInv == /\ TypeOK /\ RetKnown /\ Watching /\ HostTracks /\ TaskTracks
        /\ TrackerTracks /\ ChannelTracks /\ ReceiversTrack

-----------------------------------------------------------------------------
(***************************************************************************)
(* What a page shows, in step with the channel and with the tracker.       *)
(***************************************************************************)
\* An event that changes the status line of a page, and what it then reads.
Displayed(e) ==
  e.name = "completed" \/ (e.name = "status" /\ e.data \in FrontendStatuses)
TextOf(e) == IF e.name = "completed" THEN "completed" ELSE e.data

\* The last event of job j that is not the error event; 0 if there is none.
LastNews(j) ==
  LET n == Len(events[j])
  IN  IF n > 0 /\ events[j][n].name = "error" THEN n - 1 ELSE n

\* The entry of a job says what its channel said last.
StatusTracks ==
  \A j \in Jobs :
    has(j) /\ status[j] # "Queued" =>
      /\ LastNews(j) > 0
      /\ IF status[j] = "Completed" THEN events[j][LastNews(j)].name = "completed"
         ELSE events[j][LastNews(j)] = StatusChanged(status[j])

\* The status line reads what the last displayed event of the stream said.
ShownTracks ==
  \A c \in Clients : conn[c] = "open" =>
    \A i \in from[c]+1 .. next[c] :
      /\ Displayed(events[watch[c]][i])
      /\ \A k \in i+1 .. next[c] : ~Displayed(events[watch[c]][k])
      => shown[c] = TextOf(events[watch[c]][i])

ClosedTracks ==
  \A c \in Clients : conn[c] = "closed" =>
    /\ shown[c] = "completed"
    /\ \E i \in DOMAIN events[watch[c]] : events[watch[c]][i].name = "completed"

\* The tracker's entry, the channel and every page following it agree, as far
\* as the page has read: what set_status, set_result and emit_error, the
\* event stream and the page's listeners preserve together.
ViewInv == IInv /\ StatusTracks /\ ShownTracks /\ ClosedTracks
=============================================================================
