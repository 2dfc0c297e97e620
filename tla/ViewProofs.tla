----------------------------- MODULE ViewProofs -----------------------------
(***************************************************************************)
(* Theorems about what can be seen of a job from outside: GET /jobs/{id}   *)
(* and the event stream implement JobLifecycle, and the page that follows  *)
(* a job agrees with them.  Both rest on the invariant of the controller.  *)
(***************************************************************************)
EXTENDS ControllerProofs

(***************************************************************************)
(* The refinement mapping, job by job.                                     *)
(***************************************************************************)
PhaseOf(p, s) == IF p = "idle" THEN "none" ELSE IF s # Absent THEN s ELSE "Cancelled"

ToldBy(s) ==
  IF \E i \in DOMAIN s : s[i].name = "completed" THEN "result"
  ELSE IF \E i \in DOMAIN s : s[i].name = "error" THEN "error"
  ELSE "nothing"

\* A channel without an outcome has announced nothing.
LEMMA NothingTold ==
  ASSUME NEW s \in Seq(EventType), \A i \in 1..Len(s) : ~IsOutcome(s[i])
  PROVE  ToldBy(s) = "nothing"
<1>1. DOMAIN s = 1..Len(s)
  OBVIOUS
<1> QED
  BY <1>1 DEF ToldBy, IsOutcome

\* The first outcome is the one announced.
LEMMA OutcomeTold ==
  ASSUME NEW s \in Seq(EventType), \A i \in 1..Len(s) : ~IsOutcome(s[i]),
         NEW e \in EventType
  PROVE  /\ e.name = "completed" => ToldBy(Append(s, e)) = "result"
         /\ e.name = "error" => ToldBy(Append(s, e)) = "error"
<1> DEFINE t == Append(s, e)
<1>1. /\ t \in Seq(EventType) /\ Len(t) = Len(s) + 1 /\ t[Len(s) + 1] = e
      /\ \A i \in 1..Len(s) : t[i] = s[i]
  BY AppendFacts
<1> HIDE DEF t
<1>2. DOMAIN t = 1..(Len(s) + 1) /\ Len(s) \in Nat
  BY <1>1
<1>3. \A i \in DOMAIN t : i \in 1..Len(s) \/ i = Len(s) + 1
  BY <1>2
<1>4. Len(s) + 1 \in DOMAIN t
  BY <1>2
<1>5. e.name = "completed" => ToldBy(t) = "result"
  BY <1>1, <1>4 DEF ToldBy
<1>6. ASSUME e.name = "error" PROVE ToldBy(t) = "error"
  <2>1. ~ \E i \in DOMAIN t : t[i].name = "completed"
    BY <1>1, <1>3, <1>6 DEF IsOutcome
  <2> QED
    BY <1>1, <1>4, <1>6, <2>1 DEF ToldBy
<1> QED
  BY <1>5, <1>6 DEF t

\* The mapping in terms of one job.
LEMMA Mapping ==
  /\ phaseBar = [j \in Jobs |-> PhaseOf(pc[j], status[j])]
  /\ phaseBar' = [j \in Jobs |-> PhaseOf(pc'[j], status'[j])]
  /\ toldBar = [j \in Jobs |-> ToldBy(events[j])]
  /\ toldBar' = [j \in Jobs |-> ToldBy(events'[j])]
  BY DEF phaseBar, toldBar, PhaseOf, ToldBy, has

\* Only job j is touched.
OthersStay(j) ==
  \A k \in Jobs \ {j} : pc'[k] = pc[k] /\ status'[k] = status[k] /\ events'[k] = events[k]

LEMMA OneMoves ==
  ASSUME NEW j \in Jobs, OthersStay(j)
  PROVE  /\ phaseBar' = [phaseBar EXCEPT ![j] = PhaseOf(pc'[j], status'[j])]
         /\ toldBar' = [toldBar EXCEPT ![j] = ToldBy(events'[j])]
         /\ phaseBar[j] = PhaseOf(pc[j], status[j])
         /\ toldBar[j] = ToldBy(events[j])
  BY Mapping DEF OthersStay

\* A step after which the job looks the same from outside.
LEMMA NoneMoves ==
  ASSUME NEW j \in Jobs, OthersStay(j),
         PhaseOf(pc'[j], status'[j]) = PhaseOf(pc[j], status[j]),
         ToldBy(events'[j]) = ToldBy(events[j])
  PROVE  UNCHANGED Lifecycle!lifecycleVars
  BY Mapping DEF OthersStay, Lifecycle!lifecycleVars

-----------------------------------------------------------------------------
\* Only the task's place changes.
LEMMA SilentMove ==
  ASSUME TaskTypeOK, NEW j \in Jobs, NEW p, pc[j] # "idle", p # "idle", To(j, p),
         UNCHANGED trackerVars
  PROVE  UNCHANGED Lifecycle!lifecycleVars
<1>1. OthersStay(j) /\ pc'[j] = p /\ status'[j] = status[j] /\ events'[j] = events[j]
  BY DEF To, TaskTypeOK, trackerVars, OthersStay
<1>2. PhaseOf(pc'[j], status'[j]) = PhaseOf(pc[j], status[j])
  BY <1>1 DEF PhaseOf
<1> QED
  BY <1>1, <1>2, NoneMoves

\* The channel of a job whose task is not done holds no outcome.
LEMMA NotTold ==
  /\ TrackerInv => \A j \in Jobs : pc[j] # "done" => ToldBy(events[j]) = "nothing"
  /\ TrackerInv' => \A j \in Jobs : pc'[j] # "done" => ToldBy(events'[j]) = "nothing"
<1>1. ASSUME TrackerInv, NEW j \in Jobs, pc[j] # "done"
      PROVE  ToldBy(events[j]) = "nothing"
  BY <1>1, NothingTold DEF TrackerInv, TrackerTypeOK, ChannelTracks
<1>2. ASSUME TrackerInv', NEW j \in Jobs, pc'[j] # "done"
      PROVE  ToldBy(events'[j]) = "nothing"
  BY <1>2, NothingTold DEF TrackerInv, TrackerTypeOK, ChannelTracks
<1> QED
  BY <1>1, <1>2

\* set_status moves the job to s if it is there, and announces no outcome.
LEMMA StatusMove ==
  ASSUME TrackerInv, TrackerInv', TaskTypeOK, NEW j \in Jobs, NEW p,
         pc[j] \notin {"idle", "done"}, p \notin {"idle", "done"}, To(j, p),
         NEW s \in JobStatus, set_status(j, s)
  PROVE  /\ ~has(j) => UNCHANGED Lifecycle!lifecycleVars
         /\ has(j) => Lifecycle!Become(j, s) /\ phaseBar[j] = status[j] /\ toldBar' = toldBar
<1>1. OthersStay(j) /\ pc'[j] = p
  <2>1. \A k \in Jobs \ {j} : events'[k] = events[k]
    BY DEF set_status, Send, TrackerInv, TrackerTypeOK
  <2>2. \A k \in Jobs \ {j} : status'[k] = status[k]
    BY DEF set_status, TrackerInv, TrackerTypeOK
  <2> QED
    BY <2>1, <2>2 DEF To, TaskTypeOK, OthersStay
<1>2. ToldBy(events'[j]) = "nothing" /\ ToldBy(events[j]) = "nothing"
  BY <1>1, NotTold
<1>3. CASE ~has(j)
  <2>1. status'[j] = status[j]
    BY <1>3 DEF set_status
  <2>2. PhaseOf(pc'[j], status'[j]) = PhaseOf(pc[j], status[j])
    BY <1>1, <2>1 DEF PhaseOf
  <2> QED
    BY <1>1, <1>2, <1>3, <2>2, NoneMoves
<1>4. CASE has(j)
  <2>1. status'[j] = s /\ s # Absent /\ status[j] # Absent
    BY <1>4 DEF set_status, has, TrackerInv, TrackerTypeOK, JobStatus, Absent
  <2>2. PhaseOf(pc'[j], status'[j]) = s /\ PhaseOf(pc[j], status[j]) = status[j]
    BY <1>1, <2>1 DEF PhaseOf
  <2>3. /\ phaseBar' = [phaseBar EXCEPT ![j] = s] /\ phaseBar[j] = status[j]
        /\ toldBar' = [toldBar EXCEPT ![j] = "nothing"] /\ toldBar[j] = "nothing"
    BY <1>1, <1>2, <2>2, OneMoves
  <2>4. toldBar' = toldBar
    BY <2>3, Mapping
  <2> QED
    BY <1>4, <2>3, <2>4 DEF Lifecycle!Become
<1> QED
  BY <1>3, <1>4

-----------------------------------------------------------------------------
\* A step that JobLifecycle allows, or does not see.
Allowed == Lifecycle!LNext \/ UNCHANGED Lifecycle!lifecycleVars

\* set_status is the step of JobLifecycle that leads to s, or changes nothing.
LEMMA StageMoves ==
  ASSUME TrackerInv, TrackerInv', TaskInv, NEW j \in Jobs,
         StartSpawn(j) \/ SetBootstrapping(j) \/ SetUploading(j) \/ SetAnalyzing(j)
           \/ MarkFailed(j)
  PROVE  Allowed
<1> USE DEF At, Resume
<1>0. TaskTypeOK /\ status[j] \in StatusAt(pc[j], ret[j])
  BY DEF TaskInv, TrackerInv, TrackerTracks
<1>a. ASSUME NEW q, NEW s \in JobStatus, NEW p, pc[j] = q, q \notin {"idle", "done"},
             p \notin {"idle", "done"}, To(j, p), set_status(j, s),
             status[j] \in {Absent} \cup DOMAIN Lifecycle!NextStage,
             has(j) => s = Lifecycle!NextStage[status[j]]
      PROVE  Allowed
  <2>1. CASE ~has(j)
    BY <1>0, <1>a, <2>1, StatusMove DEF Allowed
  <2>2. CASE has(j)
    <3>1. Lifecycle!Become(j, s) /\ phaseBar[j] = status[j] /\ toldBar' = toldBar
      BY <1>0, <1>a, <2>2, StatusMove
    <3>2. status[j] \in DOMAIN Lifecycle!NextStage
      BY <1>a, <2>2 DEF has
    <3>3. Lifecycle!Advance(j)
      BY <1>a, <2>2, <3>1, <3>2 DEF Lifecycle!Advance
    <3> QED
      BY <3>3 DEF Allowed, Lifecycle!LNext
  <2> QED
    BY <2>1, <2>2
<1>1. CASE StartSpawn(j)
  <2>1. status[j] \in {Absent, "Queued"}
    BY <1>0, <1>1, Tables DEF StartSpawn
  <2> QED
    BY <1>a, <1>1, <2>1 DEF StartSpawn, JobStatus, has, Lifecycle!NextStage
<1>2. CASE SetBootstrapping(j)
  <2>1. status[j] \in {Absent, "SpawningVm"}
    BY <1>0, <1>2, Tables DEF SetBootstrapping, SetStage
  <2> QED
    BY <1>a, <1>2, <2>1 DEF SetBootstrapping, SetStage, JobStatus, has, Lifecycle!NextStage
<1>3. CASE SetUploading(j)
  <2>1. status[j] \in {Absent, "Bootstrapping"}
    BY <1>0, <1>3, Tables DEF SetUploading, SetStage
  <2> QED
    BY <1>a, <1>3, <2>1 DEF SetUploading, SetStage, JobStatus, has, Lifecycle!NextStage
<1>4. CASE SetAnalyzing(j)
  <2>1. status[j] \in {Absent, "Uploading"}
    BY <1>0, <1>4, Tables DEF SetAnalyzing, SetStage
  <2> QED
    BY <1>a, <1>4, <2>1 DEF SetAnalyzing, SetStage, JobStatus, has, Lifecycle!NextStage
<1>5. CASE MarkFailed(j)
  <2>1. /\ pc[j] = "setFailed" /\ set_status(j, "Failed") /\ To(j, "emitError")
        /\ "Failed" \in JobStatus
    BY <1>5 DEF MarkFailed, SetStage, JobStatus
  <2>2. CASE ~has(j)
    BY <1>0, <2>1, <2>2, StatusMove DEF Allowed
  <2>3. CASE has(j)
    <3>1. Lifecycle!Become(j, "Failed") /\ phaseBar[j] = status[j] /\ toldBar' = toldBar
      BY <1>0, <2>1, <2>3, StatusMove
    <3>2. status[j] \in {"SpawningVm", "Bootstrapping", "Uploading", "Analyzing"}
      BY <1>0, <2>1, <2>3, Tables DEF has
    <3>3. Lifecycle!Fail(j)
      BY <3>1, <3>2 DEF Lifecycle!Fail, Lifecycle!Stages
    <3> QED
      BY <3>3 DEF Allowed, Lifecycle!LNext
  <2> QED
    BY <2>2, <2>3
<1> QED
  BY <1>1, <1>2, <1>3, <1>4, <1>5

\* set_result completes the job and announces it at once; emit_error announces
\* a failure that is already visible.  Of a deleted job neither is seen.
LEMMA OutcomeMoves ==
  ASSUME TrackerInv, TaskInv, NEW j \in Jobs, PublishResult(j) \/ PublishError(j)
  PROVE  Allowed
<1> USE DEF At
<1>0. /\ TaskTypeOK /\ TrackerTypeOK
      /\ status[j] \in StatusAt(pc[j], ret[j]) /\ (j \in tx <=> has(j) /\ pc[j] # "done")
  BY DEF TaskInv, TrackerInv, TrackerTracks
<1>1. To(j, "done") /\ pc[j] \in {"setResult", "emitError"} /\ pc'[j] = "done"
  BY <1>0 DEF PublishResult, PublishError, To, TaskTypeOK
<1>2. /\ \A i \in 1..Len(events[j]) : ~IsOutcome(events[j][i])
      /\ events[j] \in Seq(EventType) /\ ToldBy(events[j]) = "nothing"
  BY <1>0, <1>1, NotTold DEF TrackerInv, TrackerTypeOK, ChannelTracks
<1>3. PICK e \in EventType : /\ Send(j, e)
                             /\ PublishResult(j) => e.name = "completed"
                             /\ PublishError(j) => e.name = "error"
  <2>1. CASE PublishResult(j)
    <3>1. Completed(ret[j]) \in EventType /\ Send(j, Completed(ret[j]))
      BY <2>1 DEF PublishResult, set_result, TaskInv, RetKnown, EventType, Completed
    <3>2. ~PublishError(j)
      BY <2>1 DEF PublishResult, PublishError
    <3> QED
      BY <2>1, <3>1, <3>2 DEF Completed
  <2>2. CASE PublishError(j)
    <3>1. Error(ret[j]) \in EventType /\ Send(j, Error(ret[j]))
      BY <2>2 DEF PublishError, emit_error, TaskInv, RetKnown, EventType, Error
    <3>2. ~PublishResult(j)
      BY <2>2 DEF PublishResult, PublishError
    <3> QED
      BY <2>2, <3>1, <3>2 DEF Error
  <2> QED
    BY <2>1, <2>2
<1>4. OthersStay(j)
  <2>1. \A k \in Jobs \ {j} : events'[k] = events[k]
    BY <1>0, <1>3, SendFacts
  <2>2. \A k \in Jobs \ {j} : status'[k] = status[k]
    BY <1>0 DEF PublishResult, PublishError, set_result, emit_error, TrackerTypeOK
  <2> QED
    BY <1>0, <1>1, <2>1, <2>2 DEF OthersStay, To, TaskTypeOK
<1>5. CASE ~has(j)
  <2>1. status'[j] = status[j] /\ events'[j] = events[j]
    BY <1>0, <1>3, <1>5, SendFacts DEF PublishResult, PublishError, set_result, emit_error
  <2>2. PhaseOf(pc'[j], status'[j]) = PhaseOf(pc[j], status[j])
    BY <1>1, <2>1 DEF PhaseOf
  <2> QED
    BY <1>4, <2>1, <2>2, NoneMoves DEF Allowed
<1>6. CASE has(j)
  <2>1. events'[j] = Append(events[j], e)
    BY <1>0, <1>1, <1>3, <1>6 DEF Send, TrackerTypeOK
  <2>2. /\ phaseBar' = [phaseBar EXCEPT ![j] = PhaseOf(pc'[j], status'[j])]
        /\ toldBar' = [toldBar EXCEPT ![j] = ToldBy(events'[j])]
        /\ phaseBar[j] = status[j] /\ toldBar[j] = "nothing"
    BY <1>1, <1>2, <1>4, <1>6, OneMoves DEF PhaseOf, has
  <2>3. CASE PublishResult(j)
    <3>1. status[j] = "Analyzing"
      BY <1>0, <1>6, <2>3, Tables DEF PublishResult, TaskInv, RetKnown, has
    <3>2. status'[j] = "Completed"
      BY <1>0, <1>6, <2>3 DEF PublishResult, set_result, TrackerTypeOK
    <3>3. PhaseOf(pc'[j], status'[j]) = "Completed"
      BY <1>1, <3>2 DEF PhaseOf, Absent
    <3>4. ToldBy(events'[j]) = "result"
      BY <1>2, <1>3, <2>1, <2>3, OutcomeTold
    <3>5. Lifecycle!Complete(j)
      BY <2>2, <3>1, <3>3, <3>4 DEF Lifecycle!Complete, Lifecycle!Become, Lifecycle!Tell
    <3> QED
      BY <3>5 DEF Allowed, Lifecycle!LNext
  <2>4. CASE PublishError(j)
    <3>1. status[j] = "Failed" /\ status' = status
      BY <1>0, <1>6, <2>4, Tables DEF PublishError, emit_error, has
    <3>2. PhaseOf(pc'[j], status'[j]) = "Failed"
      BY <1>1, <3>1 DEF PhaseOf, Absent
    <3>3. ToldBy(events'[j]) = "error"
      BY <1>2, <1>3, <2>1, <2>4, OutcomeTold
    <3>4. phaseBar' = phaseBar
      BY <2>2, <3>1, <3>2, Mapping
    <3>5. Lifecycle!Announce(j)
      BY <2>2, <3>1, <3>3, <3>4 DEF Lifecycle!Announce, Lifecycle!Tell
    <3> QED
      BY <3>5 DEF Allowed, Lifecycle!LNext
  <2> QED
    BY <2>3, <2>4
<1> QED
  BY <1>5, <1>6

\* The other steps of a task are not seen from outside.
LEMMA TaskMoves ==
  ASSUME TrackerInv, TrackerInv', TaskInv, NEW j \in Jobs, TaskStep(j) \/ CallFails(j)
  PROVE  Allowed
<1> USE DEF At, Resume
<1>a. ASSUME NEW p, p # "idle", pc[j] # "idle", To(j, p), UNCHANGED trackerVars
      PROVE  Allowed
  BY <1>a, SilentMove DEF Allowed, TaskInv
<1>b. ASSUME NEW r, pc[j] # "idle", FailWith(j, r) \/ TeardownThenReturn(j, r)
      PROVE  Allowed
  BY <1>a, <1>b DEF FailWith, TeardownThenReturn
<1>c. ASSUME NEW p, p # "idle", pc[j] # "idle", ContinueUnlessCancelled(j, p)
      PROVE  Allowed
  BY <1>a, <1>b, <1>c DEF ContinueUnlessCancelled
<1>1. CASE StartSpawn(j) \/ SetBootstrapping(j) \/ SetUploading(j) \/ SetAnalyzing(j)
           \/ MarkFailed(j)
  BY <1>1, StageMoves
<1>2. CASE PublishResult(j) \/ PublishError(j)
  BY <1>2, OutcomeMoves
<1>3. CASE Created(j) \/ BootstrapOk(j) \/ UploadOk(j)
  BY <1>c, <1>3 DEF Created, BootstrapOk, UploadOk
<1>4. CASE CreatePanicked(j) \/ ConnectOk(j) \/ TeardownDone(j)
  BY <1>a, <1>4 DEF CreatePanicked, ConnectOk, TeardownDone
<1>5. CASE CreateFailed(j) \/ \E r \in Results : AnalyzeOk(j, r)
  BY <1>b, <1>5 DEF CreateFailed, AnalyzeOk
<1>6. CASE CallFails(j)
  BY <1>b, <1>6 DEF CallFails, BootstrapErr, ConnectErr, UploadErr, AnalyzeErr
<1> QED
  BY <1>1, <1>2, <1>3, <1>4, <1>5, <1>6 DEF TaskStep

\* POST /jobs makes a job appear, DELETE /jobs/{id} makes it go for good.
LEMMA HandlerMoves ==
  ASSUME TrackerInv, TaskInv, NEW j \in Jobs,
         CancelJob(j) \/ \E c \in Clients : SubmitJob(c, j)
  PROVE  Allowed
<1>0. TaskTypeOK /\ TrackerTypeOK /\ status[j] \in StatusAt(pc[j], ret[j])
  BY DEF TaskInv, TrackerInv, TrackerTracks
<1>1. OthersStay(j) /\ events' = events
  BY <1>0 DEF CancelJob, SubmitJob, Remove, Insert, To, OthersStay, TaskTypeOK, TrackerTypeOK
<1>2. /\ phaseBar' = [phaseBar EXCEPT ![j] = PhaseOf(pc'[j], status'[j])]
      /\ phaseBar[j] = PhaseOf(pc[j], status[j]) /\ toldBar' = toldBar
  BY <1>1, OneMoves, Mapping
<1>3. CASE CancelJob(j)
  <2>1. has(j) /\ pc'[j] = pc[j] /\ status'[j] = Absent
    BY <1>0, <1>3 DEF CancelJob, Remove, TrackerTypeOK
  <2>2. pc[j] # "idle"
    BY <1>0, <2>1 DEF StatusAt, has
  <2>3. status[j] \in JobStatus
    BY <1>0, <2>1 DEF TrackerTypeOK, has
  <2>4. PhaseOf(pc'[j], status'[j]) = "Cancelled" /\ PhaseOf(pc[j], status[j]) \in JobStatus
    BY <2>1, <2>2, <2>3 DEF PhaseOf, has
  <2>5. Lifecycle!Cancel(j)
    BY <1>2, <2>4 DEF Lifecycle!Cancel, Lifecycle!Become, JobStatus
  <2> QED
    BY <2>5 DEF Allowed, Lifecycle!LNext
<1>4. CASE \E c \in Clients : SubmitJob(c, j)
  <2>1. pc[j] = "idle" /\ pc'[j] = "queued" /\ status'[j] = "Queued"
    BY <1>0, <1>4 DEF SubmitJob, Insert, To, TaskTypeOK, TrackerTypeOK
  <2>2. PhaseOf(pc'[j], status'[j]) = "Queued" /\ PhaseOf(pc[j], status[j]) = "none"
    BY <2>1 DEF PhaseOf, Absent
  <2>3. Lifecycle!Submit(j)
    BY <1>2, <2>2 DEF Lifecycle!Submit, Lifecycle!Become
  <2> QED
    BY <2>3 DEF Allowed, Lifecycle!LNext
<1> QED
  BY <1>3, <1>4

\* What GET /jobs/{id} and the event stream report of a job moves only the way
\* JobLifecycle allows: the controller implements it, by the mapping phaseBar,
\* toldBar, whatever the host, the guests and the pages do meanwhile.
THEOREM LifecycleIsImplemented == Spec => ImplementsLifecycle
<1>1. Init => Lifecycle!LInit
  <2> SUFFICES ASSUME Init PROVE Lifecycle!LInit
    OBVIOUS
  <2>1. \A j \in Jobs : PhaseOf(pc[j], status[j]) = "none"
    BY DEF Init, PhaseOf
  <2>2. \A j \in Jobs : ToldBy(events[j]) = "nothing"
    <3>1. TrackerInv /\ \A j \in Jobs : pc[j] = "idle"
      BY InitInv, Parts DEF Init
    <3> QED
      BY <3>1, NotTold
  <2> QED
    BY <2>1, <2>2, Mapping DEF Lifecycle!LInit
<1>2. IInv /\ IInv' /\ [Next]_vars => [Lifecycle!LNext]_(Lifecycle!lifecycleVars)
  <2> SUFFICES ASSUME IInv, IInv', [Next]_vars PROVE Allowed
    BY DEF Allowed
  <2>1. TrackerInv /\ TaskInv
    BY Parts
  <2>2. TrackerInv'
    BY DEF IInv, TypeOK, TrackerInv, TrackerTypeOK
  <2>3. CASE UNCHANGED <<pc, trackerVars>>
    <3>1. UNCHANGED <<pc, status, events>>
      BY <2>3 DEF trackerVars
    <3>2. phaseBar' = phaseBar /\ toldBar' = toldBar
      BY <3>1, Mapping
    <3> QED
      BY <3>2 DEF Allowed, Lifecycle!lifecycleVars
  <2>4. ASSUME NEW j \in Jobs, HostStep(j) \/ GuestStep(j)
        PROVE  UNCHANGED <<pc, trackerVars>>
    BY <2>4 DEF HostStep, GuestStep
  <2>5. ASSUME NEW c \in Clients, StreamStep(c) \/ LoseStream(c)
        PROVE  UNCHANGED <<pc, trackerVars>>
    BY <2>5 DEF StreamStep, LoseStream
  <2>6. CASE UNCHANGED vars
    BY <2>3, <2>6 DEF vars
  <2> QED
    BY <2>1, <2>2, <2>3, <2>4, <2>5, <2>6, TaskMoves, HandlerMoves DEF Next
<1> QED
  BY <1>1, <1>2, Invariance, PTL DEF Spec, ImplementsLifecycle, Lifecycle!LSpec

-----------------------------------------------------------------------------
(***************************************************************************)
(* The entry of a job says what its channel said last.                     *)
(***************************************************************************)
LastIn(s) == IF Len(s) > 0 /\ s[Len(s)].name = "error" THEN Len(s) - 1 ELSE Len(s)

\* What channel s said last is status v.
Says(s, v) ==
  v \notin {Absent, "Queued"} =>
    /\ LastIn(s) > 0
    /\ IF v = "Completed" THEN s[LastIn(s)].name = "completed"
       ELSE s[LastIn(s)] = StatusChanged(v)

LEMMA StatusByJob ==
  /\ StatusTracks <=> \A j \in Jobs : Says(events[j], status[j])
  /\ StatusTracks' <=> \A j \in Jobs : Says(events'[j], status'[j])
  BY DEF StatusTracks, Says, LastIn, LastNews, has

\* A status event or a result is the last news; an error event is none.
LEMMA SaysAppended ==
  ASSUME NEW s \in Seq(EventType), NEW e \in EventType, NEW v \in JobStatus
  PROVE  /\ v # "Completed" /\ e = StatusChanged(v) => Says(Append(s, e), v)
         /\ v = "Completed" /\ e.name = "completed" => Says(Append(s, e), v)
         /\ /\ \A i \in 1..Len(s) : ~IsOutcome(s[i])
            /\ e.name = "error" /\ Says(s, v)
            => Says(Append(s, e), v)
<1> DEFINE t == Append(s, e)
<1>1. /\ Len(t) = Len(s) + 1 /\ t[Len(s) + 1] = e
      /\ \A i \in 1..Len(s) : t[i] = s[i]
      /\ Len(s) \in Nat
  BY AppendFacts
<1> HIDE DEF t
<1>2. CASE e.name # "error"
  <2>1. LastIn(t) = Len(s) + 1 /\ LastIn(t) > 0 /\ t[LastIn(t)] = e
    BY <1>1, <1>2 DEF LastIn
  <2> QED
    BY <1>2, <2>1 DEF Says, t
<1>3. CASE e.name = "error"
  <2>1. LastIn(t) = Len(s)
    BY <1>1, <1>3 DEF LastIn
  <2>2. ASSUME \A i \in 1..Len(s) : ~IsOutcome(s[i]), Says(s, v)
        PROVE  Says(t, v)
    <3>1. LastIn(s) = Len(s)
      BY <1>1, <2>2 DEF LastIn, IsOutcome
    <3>2. Len(s) > 0 => t[Len(s)] = s[Len(s)]
      BY <1>1
    <3> QED
      BY <2>1, <2>2, <3>1, <3>2 DEF Says
  <2> QED
    BY <1>3, <2>2 DEF t, StatusChanged
<1> QED
  BY <1>2, <1>3

\* Every step keeps entry and channel in agreement.
LEMMA StatusPreserved ==
  ASSUME TrackerInv, TaskInv, StatusTracks, [Next]_vars
  PROVE  StatusTracks'
<1> USE DEF At, Resume
<1>0. /\ TaskTypeOK /\ TrackerTypeOK
      /\ \A j \in Jobs : /\ status[j] \in StatusAt(pc[j], ret[j])
                         /\ j \in tx <=> has(j) /\ pc[j] # "done"
                         /\ events[j] \in Seq(EventType)
                         /\ Says(events[j], status[j])
  BY StatusByJob DEF TaskInv, TrackerInv, TrackerTracks, TrackerTypeOK
<1>a. CASE UNCHANGED <<status, events>>
  BY <1>0, <1>a, StatusByJob
<1>b. ASSUME NEW j \in Jobs, NEW e \in EventType, Send(j, e),
             \A k \in Jobs \ {j} : status'[k] = status[k],
             ~has(j) => status'[j] = Absent,
             has(j) => pc[j] # "done" /\ Says(Append(events[j], e), status'[j])
      PROVE  StatusTracks'
  <2>1. \A k \in Jobs \ {j} : Says(events'[k], status'[k])
    BY <1>0, <1>b, SendFacts
  <2>2. CASE ~has(j)
    BY <1>b, <2>1, <2>2, StatusByJob DEF Says
  <2>3. CASE has(j)
    <3>1. events'[j] = Append(events[j], e)
      BY <1>0, <1>b, <2>3 DEF Send, TrackerTypeOK
    <3> QED
      BY <1>b, <2>1, <2>3, <3>1, StatusByJob
  <2> QED
    BY <2>2, <2>3
<1>c. ASSUME NEW j \in Jobs, NEW s \in JobStatus, s # "Completed", pc[j] # "done",
             set_status(j, s)
      PROVE  StatusTracks'
  <2>1. StatusChanged(s) \in EventType
    BY DEF StatusChanged, EventType
  <2>2. Says(Append(events[j], StatusChanged(s)), s)
    BY <1>0, <1>c, <2>1, SaysAppended
  <2>3. /\ \A k \in Jobs \ {j} : status'[k] = status[k]
        /\ status'[j] = IF has(j) THEN s ELSE Absent
        /\ Send(j, StatusChanged(s))
    BY <1>0, <1>c DEF set_status, has, TrackerTypeOK
  <2> QED
    BY <1>b, <1>c, <2>1, <2>2, <2>3
<1>1. ASSUME NEW j \in Jobs, TaskStep(j)
      PROVE  StatusTracks'
  <2>1. CASE StartSpawn(j)
    BY <1>c, <2>1 DEF StartSpawn, JobStatus
  <2>2. CASE SetBootstrapping(j) \/ SetUploading(j) \/ SetAnalyzing(j) \/ MarkFailed(j)
    BY <1>c, <2>2 DEF SetBootstrapping, SetUploading, SetAnalyzing, MarkFailed,
       SetStage, JobStatus
  <2>3. CASE PublishResult(j)
    <3> DEFINE e == Completed(ret[j])
    <3>1. /\ pc[j] = "setResult" /\ Send(j, e) /\ e \in EventType
          /\ e.name = "completed" /\ "Completed" \in JobStatus
      BY <2>3 DEF PublishResult, set_result, TaskInv, RetKnown, EventType, Completed, JobStatus
    <3>2. /\ \A k \in Jobs \ {j} : status'[k] = status[k]
          /\ status'[j] = IF has(j) THEN "Completed" ELSE Absent
      BY <1>0, <2>3 DEF PublishResult, set_result, has, TrackerTypeOK
    <3>3. Says(Append(events[j], e), "Completed")
      BY <1>0, <3>1, SaysAppended
    <3> QED
      BY <1>b, <3>1, <3>2, <3>3
  <2>4. CASE PublishError(j)
    <3> DEFINE e == Error(ret[j])
    <3>1. pc[j] = "emitError" /\ Send(j, e) /\ e \in EventType /\ e.name = "error"
      BY <2>4 DEF PublishError, emit_error, TaskInv, RetKnown, EventType, Error
    <3>2. status' = status
      BY <2>4 DEF PublishError, emit_error
    <3>3. \A i \in 1..Len(events[j]) : ~IsOutcome(events[j][i])
      BY <3>1 DEF TrackerInv, ChannelTracks
    <3>4. has(j) => Says(Append(events[j], e), status[j])
      BY <1>0, <3>1, <3>3, SaysAppended DEF has, TrackerTypeOK
    <3> QED
      BY <1>b, <3>1, <3>2, <3>4 DEF has
  <2>5. CASE UNCHANGED trackerVars
    BY <1>a, <2>5 DEF trackerVars
  <2> QED
    BY <1>1, <2>1, <2>2, <2>3, <2>4, <2>5 DEF TaskStep, Created, CreateFailed,
       CreatePanicked, BootstrapOk, ConnectOk, UploadOk, AnalyzeOk, TeardownDone,
       FailWith, TeardownThenReturn, ContinueUnlessCancelled
<1>2. ASSUME NEW j \in Jobs, CallFails(j) \/ HostStep(j) \/ GuestStep(j)
      PROVE  UNCHANGED <<status, events>>
  BY <1>2 DEF CallFails, BootstrapErr, ConnectErr, UploadErr, AnalyzeErr, FailWith,
     TeardownThenReturn, HostStep, GuestStep, trackerVars
<1>3. ASSUME NEW c \in Clients, StreamStep(c) \/ LoseStream(c)
      PROVE  UNCHANGED <<status, events>>
  BY <1>3 DEF StreamStep, LoseStream, trackerVars
<1>4. ASSUME NEW j \in Jobs, CancelJob(j) \/ \E c \in Clients : SubmitJob(c, j)
      PROVE  StatusTracks'
  <2>1. /\ events' = events /\ status'[j] \in {Absent, "Queued"}
        /\ \A k \in Jobs \ {j} : status'[k] = status[k]
    BY <1>0, <1>4 DEF CancelJob, SubmitJob, Remove, Insert, TrackerTypeOK
  <2>2. Says(events'[j], status'[j])
    BY <2>1 DEF Says
  <2> QED
    BY <1>0, <2>1, <2>2, StatusByJob
<1>5. CASE UNCHANGED vars
  BY <1>a, <1>5 DEF vars, trackerVars
<1> QED
  BY <1>a, <1>1, <1>2, <1>3, <1>4, <1>5 DEF Next

-----------------------------------------------------------------------------
(***************************************************************************)
(* A page shows what it was told last.                                     *)
(***************************************************************************)
\* Sending to a channel leaves what was sent before.
LEMMA ChannelsKeep ==
  ASSUME TrackerInv, TrackerInv', [Next]_vars
  PROVE  \A j \in Jobs : /\ events[j] \in Seq(EventType) /\ events'[j] \in Seq(EventType)
                         /\ Len(events[j]) <= Len(events'[j])
                         /\ \A i \in 1..Len(events[j]) : events'[j][i] = events[j][i]
<1> TAKE j \in Jobs
<1>1. events[j] \in Seq(EventType) /\ events'[j] \in Seq(EventType)
  BY DEF TrackerInv, TrackerTypeOK
<1>2. CASE events'[j] = events[j]
  BY <1>1, <1>2
<1>3. ASSUME NEW e, events'[j] = Append(events[j], e)
      PROVE  /\ Len(events[j]) <= Len(events'[j])
             /\ \A i \in 1..Len(events[j]) : events'[j][i] = events[j][i]
  BY <1>1, <1>3
<1> QED
  BY <1>1, <1>2, <1>3, ChannelsGrow DEF TrackerInv

\* What ShownTracks and ClosedTracks say of one page.
ShownRight(s, f, n, t) ==
  \A i \in f+1 .. n :
    /\ Displayed(s[i])
    /\ \A k \in i+1 .. n : ~Displayed(s[k])
    => t = TextOf(s[i])

HasResult(s) == \E i \in DOMAIN s : s[i].name = "completed"

PageRight(d, s, f, n, t) ==
  /\ d = "open" => ShownRight(s, f, n, t)
  /\ d = "closed" => t = "completed" /\ HasResult(s)

LEMMA ShownByPage ==
  /\ ShownTracks /\ ClosedTracks
       <=> \A c \in Clients :
             PageRight(conn[c], events[watch[c]], from[c], next[c], shown[c])
  /\ ShownTracks' /\ ClosedTracks'
       <=> \A c \in Clients :
             PageRight(conn'[c], events'[watch'[c]], from'[c], next'[c], shown'[c])
  BY DEF ShownTracks, ClosedTracks, PageRight, ShownRight, HasResult, Displayed, TextOf

\* A page that does nothing while its channel grows stays right.
LEMMA PageStays ==
  ASSUME NEW d, NEW s \in Seq(EventType), NEW s2 \in Seq(EventType),
         NEW f \in Nat, NEW n \in Nat, NEW t,
         d = "open" => n <= Len(s), Len(s) <= Len(s2),
         \A i \in 1..Len(s) : s2[i] = s[i], PageRight(d, s, f, n, t)
  PROVE  PageRight(d, s2, f, n, t)
<1>1. ASSUME d = "open" PROVE ShownRight(s2, f, n, t)
  <2>1. ShownRight(s, f, n, t) /\ \A i \in f+1 .. n : s2[i] = s[i]
    BY <1>1 DEF PageRight
  <2>2. \A i \in f+1 .. n : \A k \in i+1 .. n : k \in f+1 .. n
    OBVIOUS
  <2> QED
    BY <2>1, <2>2 DEF ShownRight
<1>2. ASSUME d = "closed" PROVE t = "completed" /\ HasResult(s2)
  <2>1. PICK i \in DOMAIN s : s[i].name = "completed"
    BY <1>2 DEF PageRight, HasResult
  <2>2. i \in DOMAIN s2 /\ s2[i] = s[i]
    BY <2>1
  <2> QED
    BY <1>2, <2>1, <2>2 DEF PageRight, HasResult
<1> QED
  BY <1>1, <1>2 DEF PageRight

\* Reading the next event: either it is displayed, and is the last one that
\* was, or the last displayed one is still the same.
LEMMA PageReads ==
  ASSUME NEW s \in Seq(EventType), NEW f \in Nat, NEW n \in Nat, NEW t, NEW u,
         ShownRight(s, f, n, t),
         IF Displayed(s[n + 1]) THEN u = TextOf(s[n + 1]) ELSE u = t
  PROVE  ShownRight(s, f, n + 1, u)
<1> SUFFICES ASSUME NEW i \in f+1 .. n+1, Displayed(s[i]),
                    \A k \in i+1 .. n+1 : ~Displayed(s[k])
             PROVE  u = TextOf(s[i])
  BY DEF ShownRight
<1>1. CASE i = n + 1
  BY <1>1
<1>2. CASE i # n + 1
  <2>1. i \in f+1 .. n /\ n + 1 \in i+1 .. n+1
    BY <1>2
  <2>2. \A k \in i+1 .. n : k \in i+1 .. n+1
    OBVIOUS
  <2> QED
    BY <2>1, <2>2 DEF ShownRight
<1> QED
  BY <1>1, <1>2

\* Every step keeps every page in agreement with what it was told.
LEMMA ShownPreserved ==
  ASSUME TrackerInv, TrackerInv', TaskTypeOK, StreamInv, ShownTracks, ClosedTracks, [Next]_vars
  PROVE  ShownTracks' /\ ClosedTracks'
<1>0. \A c \in Clients :
        /\ PageRight(conn[c], events[watch[c]], from[c], next[c], shown[c])
        /\ from[c] \in Nat /\ next[c] \in Nat
        /\ conn[c] # "none" => watch[c] \in Jobs
        /\ conn[c] = "open" => next[c] <= Len(events[watch[c]])
  BY ShownByPage DEF StreamInv, StreamTypeOK, Watching, ReceiversTrack
<1>a. ASSUME NEW c \in Clients,
             UNCHANGED <<conn[c], watch[c], from[c], next[c], shown[c]>>
      PROVE  PageRight(conn'[c], events'[watch'[c]], from'[c], next'[c], shown'[c])
  <2>1. CASE conn[c] = "none"
    BY <1>a, <2>1 DEF PageRight
  <2>2. CASE conn[c] # "none"
    <3>1. watch[c] \in Jobs
      BY <1>0, <2>2
    <3> QED
      BY <1>0, <1>a, <3>1, ChannelsKeep, PageStays
  <2> QED
    BY <2>1, <2>2
<1>b. ASSUME NEW c \in Clients,
             \A d \in Clients \ {c} :
               UNCHANGED <<conn[d], watch[d], from[d], next[d], shown[d]>>,
             PageRight(conn'[c], events'[watch'[c]], from'[c], next'[c], shown'[c])
      PROVE  ShownTracks' /\ ClosedTracks'
  BY <1>a, <1>b, ShownByPage
<1>1. CASE UNCHANGED streamVars
  BY <1>a, <1>1, ShownByPage DEF streamVars
<1>2. ASSUME NEW c \in Clients, subscribe(c)
      PROVE  ShownTracks' /\ ClosedTracks'
  <2>1. \A d \in Clients \ {c} :
          UNCHANGED <<conn[d], watch[d], from[d], next[d], shown[d]>>
    BY <1>2 DEF subscribe, StreamInv, StreamTypeOK
  <2>2. CASE watch[c] \in tx
    <3>1. conn'[c] = "open" /\ from'[c] = next'[c] /\ from'[c] \in Nat
      BY <1>0, <1>2, <2>2, ChannelsKeep DEF subscribe, StreamInv, StreamTypeOK
    <3>2. ~ \E i \in from'[c]+1 .. next'[c] : TRUE
      BY <3>1
    <3>3. ShownRight(events'[watch'[c]], from'[c], next'[c], shown'[c])
      BY <3>2 DEF ShownRight
    <3> QED
      BY <1>b, <2>1, <3>1, <3>3 DEF PageRight
  <2>3. CASE watch[c] \notin tx
    <3>1. conn'[c] = "failed"
      BY <1>2, <2>3 DEF subscribe, StreamInv, StreamTypeOK
    <3> QED
      BY <1>b, <2>1, <3>1 DEF PageRight
  <2> QED
    BY <2>2, <2>3
<1>3. ASSUME NEW c \in Clients, recv(c), UNCHANGED trackerVars
      PROVE  ShownTracks' /\ ClosedTracks'
  <2> DEFINE s == events[watch[c]]
             n == next[c]
             e == s[n + 1]
  <2>1. ReadPosition(c) = n + 1
    BY <1>3, NoLag DEF recv
  <2>2. /\ conn[c] = "open" /\ n < Len(s) /\ Display(c, e)
        /\ next' = [next EXCEPT ![c] = n + 1] /\ UNCHANGED <<watch, from, events>>
    BY <1>3, <2>1 DEF recv, trackerVars
  <2>3. s \in Seq(EventType) /\ n \in Nat /\ from[c] \in Nat
    BY <1>0, <2>2, ChannelsKeep
  <2>4. e \in EventType /\ n + 1 \in DOMAIN s
    BY <2>2, <2>3
  <2> HIDE DEF s, n, e
  <2>5. \A d \in Clients \ {c} :
          UNCHANGED <<conn[d], watch[d], from[d], next[d], shown[d]>>
    <3>1. \A d \in Clients \ {c} : conn'[d] = conn[d]
      BY <2>2 DEF Display, StreamInv, StreamTypeOK
    <3>2. \A d \in Clients \ {c} : shown'[d] = shown[d]
      BY <2>2 DEF Display, StreamInv, StreamTypeOK
    <3> QED
      BY <2>2, <3>1, <3>2 DEF StreamInv, StreamTypeOK
  <2>6. e.name \in {"status", "error", "completed"}
    BY <2>4 DEF EventType
  <2>7. /\ IF Displayed(e) THEN shown'[c] = TextOf(e) ELSE shown'[c] = shown[c]
        /\ conn'[c] = IF e.name = "completed" THEN "closed" ELSE "open"
    <3>1. conn'[c] = IF e.name = "completed" THEN "closed" ELSE "open"
      BY <2>2, <2>6 DEF Display, StreamInv, StreamTypeOK
    <3>2. CASE e.name = "completed"
      BY <2>2, <3>1, <3>2 DEF Display, Displayed, TextOf, StreamInv, StreamTypeOK
    <3>3. CASE e.name = "status"
      BY <2>2, <3>1, <3>3 DEF Display, Displayed, TextOf, StreamInv, StreamTypeOK
    <3>4. CASE e.name = "error"
      BY <2>2, <3>1, <3>4 DEF Display, Displayed, TextOf, StreamInv, StreamTypeOK
    <3> QED
      BY <2>6, <3>2, <3>3, <3>4
  <2>8. /\ events'[watch'[c]] = s /\ from'[c] = from[c] /\ next'[c] = n + 1
    BY <2>2 DEF s, StreamInv, StreamTypeOK
  <2>9. ShownRight(s, from[c], n, shown[c])
    BY <1>0, <2>2 DEF PageRight, s, n
  <2>10. ShownRight(s, from[c], n + 1, shown'[c])
    BY <2>3, <2>7, <2>9, PageReads DEF e
  <2>11. e.name = "completed" => shown'[c] = "completed" /\ HasResult(s)
    BY <2>4, <2>7 DEF Displayed, TextOf, HasResult, e
  <2>12. PageRight(conn'[c], s, from[c], n + 1, shown'[c])
    BY <2>7, <2>10, <2>11 DEF PageRight
  <2> QED
    BY <1>b, <2>5, <2>8, <2>12
<1>4. ASSUME NEW c \in Clients,
             EndStream(c) \/ DropStream(c) \/ \E j \in Jobs : Listen(c, j)
      PROVE  ShownTracks' /\ ClosedTracks'
  <2>1. \A d \in Clients \ {c} :
          UNCHANGED <<conn[d], watch[d], from[d], next[d], shown[d]>>
    BY <1>4 DEF EndStream, DropStream, Listen, StreamInv, StreamTypeOK
  <2>2. conn'[c] = "connecting"
    BY <1>4 DEF EndStream, DropStream, Listen, StreamInv, StreamTypeOK
  <2> QED
    BY <1>b, <2>1, <2>2 DEF PageRight
<1>5. ASSUME NEW j \in Jobs, TaskStep(j)
      PROVE  UNCHANGED streamVars
  BY <1>5 DEF TaskStep, StartSpawn, Created, CreateFailed, CreatePanicked,
     SetBootstrapping, BootstrapOk, SetUploading, ConnectOk, UploadOk,
     SetAnalyzing, AnalyzeOk, TeardownDone, PublishResult, MarkFailed,
     PublishError, SetStage, FailWith, TeardownThenReturn, ContinueUnlessCancelled
<1>6. ASSUME NEW j \in Jobs, CallFails(j) \/ HostStep(j) \/ GuestStep(j) \/ CancelJob(j)
      PROVE  UNCHANGED streamVars
  BY <1>6 DEF CallFails, BootstrapErr, ConnectErr, UploadErr, AnalyzeErr, FailWith,
     TeardownThenReturn, HostStep, GuestStep, CancelJob
<1>7. ASSUME NEW c \in Clients, \/ StreamStep(c) \/ LoseStream(c)
                                \/ \E j \in Jobs : SubmitJob(c, j)
      PROVE  ShownTracks' /\ ClosedTracks'
  BY <1>2, <1>3, <1>4, <1>7 DEF StreamStep, LoseStream, SubmitJob
<1>8. CASE UNCHANGED vars
  BY <1>1, <1>8 DEF vars
<1> QED
  BY <1>1, <1>5, <1>6, <1>7, <1>8 DEF Next

\* The tracker, the channels and the pages agree in every reachable state.
THEOREM ViewInvariance == Spec => []ViewInv
<1>1. Init => StatusTracks /\ ShownTracks /\ ClosedTracks
  BY DEF Init, TrackerInit, StreamInit, StatusTracks, ShownTracks, ClosedTracks, has
<1>2. IInv /\ IInv' /\ [Next]_vars /\ StatusTracks /\ ShownTracks /\ ClosedTracks
        => StatusTracks' /\ ShownTracks' /\ ClosedTracks'
  <2> SUFFICES ASSUME IInv, IInv', [Next]_vars, StatusTracks, ShownTracks, ClosedTracks
               PROVE  StatusTracks' /\ ShownTracks' /\ ClosedTracks'
    OBVIOUS
  <2>1. TrackerInv /\ TaskInv /\ StreamInv /\ TaskTypeOK
    BY Parts DEF TaskInv
  <2>2. TrackerInv'
    BY DEF IInv, TypeOK, TrackerInv, TrackerTypeOK
  <2> QED
    BY <2>1, <2>2, StatusPreserved, ShownPreserved
<1> QED
  BY <1>1, <1>2, Invariance, PTL DEF Spec, ViewInv

\* A page that has read all there is and heard anything of it shows what
\* GET /jobs/{id} would answer, except while the machine is being created; a
\* page that closed its stream shows the final status.
THEOREM PagesAgree == Spec => []ViewAgrees
<1>1. ASSUME ViewInv, NEW c \in Clients, NEW j, j = watch[c],
             conn[c] = "open", next[c] = Len(events[j]), Heard(c) # {}, has(j)
      PROVE  status[j] = "SpawningVm" \/ shown[c] = ApiStatus[status[j]]
  <2> DEFINE s == events[j]
             n == Len(s)
             m == LastIn(s)
  <2>1. /\ j \in Jobs /\ s \in Seq(EventType) /\ n \in Nat /\ from[c] \in Nat /\ next[c] = n
        /\ status[j] \in JobStatus /\ status[j] \in StatusAt(pc[j], ret[j])
        /\ n <= SentAt(pc[j])
    BY <1>1 DEF ViewInv, IInv, TypeOK, Watching, TrackerTracks, ChannelTracks, has
  <2>2. PICK i \in from[c]+1 .. n : s[i].name \in {"status", "completed", "analysis_error"}
    BY <1>1 DEF Heard
  <2>3. status[j] # "Queued"
    <3>1. SUFFICES ASSUME status[j] = "Queued" PROVE FALSE
      OBVIOUS
    <3>2. pc[j] \in {"idle", "queued"}
      BY <2>1, <3>1 DEF StatusAt, Absent
    <3>3. n <= 0
      BY <2>1, <3>2, Tables
    <3> QED
      BY <2>1, <2>2, <3>3
  <2>4. Says(s, status[j])
    BY <1>1, <2>1, StatusByJob DEF ViewInv
  <2> HIDE DEF s, n, m
  <2>5. /\ m > 0
        /\ IF status[j] = "Completed" THEN s[m].name = "completed"
           ELSE s[m] = StatusChanged(status[j])
    BY <1>1, <2>3, <2>4 DEF Says, has, m
  <2>6. m \in from[c]+1 .. n /\ \A k \in m+1 .. n : ~Displayed(s[k])
    <3>1. CASE n > 0 /\ s[n].name = "error"
      <4>1. m = n - 1
        BY <3>1 DEF m, n, LastIn
      <4>2. i # n
        BY <2>2, <3>1
      <4>3. \A k \in m+1 .. n : k = n
        BY <2>1, <4>1
      <4> QED
        BY <2>1, <2>2, <3>1, <4>1, <4>2, <4>3 DEF Displayed
    <3>2. CASE ~(n > 0 /\ s[n].name = "error")
      <4>1. m = n
        BY <3>2 DEF m, n, LastIn
      <4> QED
        BY <2>1, <2>2, <4>1
    <3> QED
      BY <3>1, <3>2
  <2>7. ShownRight(s, from[c], n, shown[c])
    BY <1>1, <2>1, ShownByPage DEF ViewInv, PageRight, s
  <2>8. Displayed(s[m]) => shown[c] = TextOf(s[m])
    BY <2>6, <2>7 DEF ShownRight
  <2>9. CASE status[j] = "Completed"
    BY <2>5, <2>8, <2>9 DEF Displayed, TextOf, ApiStatus
  <2>10. CASE status[j] \in {"Bootstrapping", "Uploading", "Analyzing", "Failed"}
    BY <2>5, <2>8, <2>10 DEF Displayed, TextOf, ApiStatus, StatusChanged, StatusText,
       FrontendStatuses
  <2> QED
    BY <2>1, <2>3, <2>9, <2>10 DEF JobStatus
<1>2. ASSUME ViewInv, NEW c \in Clients, NEW j, j = watch[c], conn[c] = "closed", has(j)
      PROVE  shown[c] = ApiStatus[status[j]]
  <2>1. j \in Jobs
    BY <1>2 DEF ViewInv, IInv, Watching
  <2>2. shown[c] = "completed" /\ \E i \in DOMAIN events[j] : events[j][i].name = "completed"
    BY <1>2 DEF ViewInv, ClosedTracks
  <2>3. PICK i \in 1..Len(events[j]) : events[j][i].name = "completed"
    <3>1. events[j] \in Seq(EventType)
      BY <1>2, <2>1 DEF ViewInv, IInv, TypeOK
    <3>2. DOMAIN events[j] = 1..Len(events[j])
      BY <3>1
    <3> QED
      BY <2>2, <3>2
  <2>4. pc[j] = "done" /\ ret[j] \in Results
    BY <1>2, <2>1, <2>3 DEF ViewInv, IInv, ChannelTracks, IsOutcome
  <2>5. status[j] = "Completed"
    BY <1>2, <2>1, <2>4 DEF ViewInv, IInv, TrackerTracks, StatusAt, has
  <2> QED
    BY <2>2, <2>5 DEF ApiStatus
<1>3. ViewInv => ViewAgrees
  BY <1>1, <1>2 DEF ViewAgrees
<1> QED
  BY <1>3, ViewInvariance, PTL
=============================================================================
