-------------------------- MODULE ControllerProofs --------------------------
(***************************************************************************)
(* Proofs about module Controller, for every number of jobs, pages and     *)
(* runtime threads and every set of faults.                                *)
(***************************************************************************)
EXTENDS Controller, TLAPS

(***************************************************************************)
(* The steps of VmManager; every other step leaves the host alone.         *)
(***************************************************************************)
VmStep(j) ==
  \/ CallCreate(j) \/ CreateStep(j) \/ CallTeardown(j) \/ TeardownStep(j)
  \/ GetLease(j) \/ GuestStops(j)

\* Every step of the controller is a step of one job's machine or leaves all
\* machines as they are.
LEMMA HostFrame ==
  ASSUME Next
  PROVE  UNCHANGED vmVars \/ \E j \in Jobs : VmStep(j)
<1>1. CASE \E j \in Jobs : TaskStep(j)
  <2>1. PICK j \in Jobs : TaskStep(j)
    BY <1>1
  <2> QED
    BY <2>1 DEF TaskStep, StartSpawn, Created, CreateFailed, CreatePanicked,
       SetBootstrapping, BootstrapOk, SetUploading, ConnectOk, UploadOk,
       SetAnalyzing, AnalyzeOk, TeardownDone, PublishResult, MarkFailed,
       PublishError, SetStage, FailWith, TeardownThenReturn,
       ContinueUnlessCancelled, VmStep
<1>2. CASE \E j \in Jobs : CallFails(j)
  BY <1>2 DEF CallFails, BootstrapErr, ConnectErr, UploadErr, AnalyzeErr,
     FailWith, TeardownThenReturn, VmStep
<1>3. CASE \E j \in Jobs : HostStep(j) \/ GuestStep(j)
  BY <1>3 DEF HostStep, GuestStep, VmStep
<1>4. CASE \E j \in Jobs : CancelJob(j)
  BY <1>4 DEF CancelJob
<1>5. CASE \E c \in Clients : StreamStep(c) \/ LoseStream(c)
  BY <1>5 DEF StreamStep, LoseStream
<1>6. CASE \E c \in Clients : \E j \in Jobs : SubmitJob(c, j)
  BY <1>6 DEF SubmitJob
<1> QED
  BY <1>1, <1>2, <1>3, <1>4, <1>5, <1>6 DEF Next

\* The files, the definition and the warnings of a machine stay in step with
\* the progress of create_job_domain and teardown.
LEMMA HostPreserved ==
  ASSUME VmTypeOK, HostTracks, [Next]_vars
  PROVE  VmTypeOK' /\ HostTracks'
<1>1. CASE UNCHANGED vmVars
  BY <1>1 DEF vmVars, VmTypeOK, HostTracks, Remains
<1>2. ASSUME NEW k \in Jobs, VmStep(k)
      PROVE  VmTypeOK' /\ HostTracks'
  <2> USE DEF VmTypeOK, HostTracks, Remains, Goto, VmStates, Creating, Tearing
  <2>1. CASE CallCreate(k)
    BY <2>1 DEF CallCreate
  <2>2. CASE CreateOverlay(k)
    BY <2>2 DEF CreateOverlay
  <2>3. CASE CreateNvram(k)
    BY <2>3 DEF CreateNvram, Removals
  <2>4. CASE DefineDomain(k)
    BY <2>4 DEF DefineDomain, Abandon, Removals
  <2>5. CASE StartDomain(k)
    BY <2>5 DEF StartDomain, Abandon, Removals
  <2>6. CASE FindNetwork(k)
    BY <2>6 DEF FindNetwork, Abandon, Removals
  <2>7. CASE WaitForIp(k)
    BY <2>7 DEF WaitForIp, Abandon, Removals
  <2>8. CASE CallTeardown(k)
    BY <2>8 DEF CallTeardown
  <2>9. CASE Destroy(k)
    BY <2>9 DEF Destroy
  <2>10. CASE Undefine(k)
    BY <2>10 DEF Undefine
  <2>11. CASE RemoveOverlay(k)
    BY <2>11 DEF RemoveOverlay, Removals
  <2>12. CASE RemoveNvram(k)
    BY <2>12 DEF RemoveNvram, Removals
  <2>13. CASE GetLease(k)
    BY <2>13 DEF GetLease
  <2>14. CASE GuestStops(k)
    BY <2>14 DEF GuestStops
  <2> QED
    BY <1>2, <2>1, <2>2, <2>3, <2>4, <2>5, <2>6, <2>7, <2>8, <2>9, <2>10,
       <2>11, <2>12, <2>13, <2>14 DEF VmStep, CreateStep, TeardownStep
<1>3. CASE UNCHANGED vars
  BY <1>1, <1>3 DEF vars
<1> QED
  BY <1>1, <1>2, <1>3, HostFrame

-----------------------------------------------------------------------------
TaskTypeOK ==
  /\ pc \in [Jobs -> PCs]
  /\ ret \in [Jobs -> Results \cup Errors \cup {NoResult}]

TaskInv == TaskTypeOK /\ RetKnown /\ TaskTracks

\* The call a task is making and the machine's progress agree, and a value is
\* there when it is published.
LEMMA TaskPreserved ==
  ASSUME VmTypeOK, TaskInv, [Next]_vars
  PROVE  TaskInv'
<1> USE DEF TaskInv, TaskTypeOK, RetKnown, TaskTracks, VmTypeOK, PCs, Awaiting,
            Polling, InUse, Creating, Tearing, Errors, Leaky, To, Return, At, Resume
<1>a. ASSUME NEW j \in Jobs, NEW p \in InUse, vm[j] = "ok",
             pc' = [pc EXCEPT ![j] = p], UNCHANGED <<ret, vm>>
      PROVE  TaskInv'
  BY <1>a
<1>b. ASSUME NEW j \in Jobs, NEW e \in Leaky, vm[j] \in {"ok", "err"}, FailWith(j, e)
      PROVE  TaskInv'
  BY <1>b DEF FailWith, vmVars
<1>c. ASSUME NEW j \in Jobs, NEW r \in Results \cup (Errors \ Leaky),
             TeardownThenReturn(j, r)
      PROVE  TaskInv'
  BY <1>c DEF TeardownThenReturn, CallTeardown, Goto
<1>1. ASSUME NEW j \in Jobs, TaskStep(j)
      PROVE  TaskInv'
  <2>1. CASE StartSpawn(j)
    BY <2>1 DEF StartSpawn, CallCreate, Goto
  <2>2. ASSUME NEW p \in InUse, vm[j] = "ok", ContinueUnlessCancelled(j, p)
        PROVE  TaskInv'
    <3>1. CASE has(j) /\ To(j, p) /\ UNCHANGED <<ret, trackerVars, streamVars, vmVars>>
      BY <1>a, <2>2, <3>1 DEF vmVars
    <3>2. CASE TeardownThenReturn(j, "job cancelled")
      BY <1>c, <3>2
    <3> QED
      BY <2>2, <3>1, <3>2 DEF ContinueUnlessCancelled
  <2>3. CASE Created(j)
    BY <2>2, <2>3 DEF Created
  <2>4. CASE CreateFailed(j)
    BY <2>4 DEF CreateFailed, FailWith, vmVars
  <2>5. CASE CreatePanicked(j)
    BY <2>5 DEF CreatePanicked, vmVars
  <2>6. CASE SetBootstrapping(j) \/ SetUploading(j) \/ SetAnalyzing(j)
    <3>1. PICK p \in InUse : To(j, p)
      BY <2>6 DEF SetBootstrapping, SetUploading, SetAnalyzing, SetStage
    <3>2. vm[j] = "ok" /\ UNCHANGED <<ret, vm>>
      BY <2>6 DEF SetBootstrapping, SetUploading, SetAnalyzing, SetStage, vmVars
    <3> QED
      BY <1>a, <3>1, <3>2
  <2>7. CASE BootstrapOk(j) \/ UploadOk(j)
    <3>1. vm[j] = "ok"
      BY <2>7 DEF BootstrapOk, UploadOk
    <3> QED
      BY <2>2, <2>7, <3>1 DEF BootstrapOk, UploadOk
  <2>8. CASE ConnectOk(j)
    BY <2>8 DEF ConnectOk, vmVars
  <2>9. CASE \E r \in Results : AnalyzeOk(j, r)
    BY <1>c, <2>9 DEF AnalyzeOk
  <2>10. CASE TeardownDone(j)
    BY <2>10 DEF TeardownDone, vmVars
  <2>11. CASE PublishResult(j)
    BY <2>11 DEF PublishResult, vmVars
  <2>12. CASE MarkFailed(j)
    BY <2>12 DEF MarkFailed, SetStage, vmVars
  <2>13. CASE PublishError(j)
    BY <2>13 DEF PublishError, vmVars
  <2> QED
    BY <1>1, <2>1, <2>3, <2>4, <2>5, <2>6, <2>7, <2>8, <2>9, <2>10, <2>11,
       <2>12, <2>13 DEF TaskStep
<1>2. ASSUME NEW j \in Jobs, CallFails(j)
      PROVE  TaskInv'
  <2>1. CASE AnalyzeErr(j)
    BY <1>c, <2>1 DEF AnalyzeErr
  <2>2. CASE BootstrapErr(j) \/ ConnectErr(j) \/ UploadErr(j)
    <3>1. vm[j] = "ok"
      BY <2>2 DEF BootstrapErr, ConnectErr, UploadErr
    <3> QED
      BY <1>b, <2>2, <3>1 DEF BootstrapErr, ConnectErr, UploadErr
  <2> QED
    BY <1>2, <2>1, <2>2 DEF CallFails
<1>3. ASSUME NEW j \in Jobs, HostStep(j)
      PROVE  TaskInv'
  <2>1. pc' = pc /\ ret' = ret
    BY <1>3 DEF HostStep
  <2>2. CASE CreateStep(j)
    <3>1. vm[j] \in Creating
      BY <2>2 DEF CreateStep, CreateOverlay, CreateNvram, DefineDomain,
         StartDomain, FindNetwork, WaitForIp
    <3>2. PICK s \in Creating \cup {"ok", "err", "panic"} : vm' = [vm EXCEPT ![j] = s]
      BY <2>2 DEF CreateStep, CreateOverlay, CreateNvram, DefineDomain,
         StartDomain, FindNetwork, WaitForIp, Abandon, Goto
    <3>3. pc[j] = "create"
      BY <3>1
    <3> QED
      BY <2>1, <3>2, <3>3
  <2>3. CASE TeardownStep(j)
    <3>1. vm[j] \in Tearing
      BY <2>3 DEF TeardownStep, Destroy, Undefine, RemoveOverlay, RemoveNvram
    <3>2. PICK s \in Tearing \cup {"gone"} : vm' = [vm EXCEPT ![j] = s]
      BY <2>3 DEF TeardownStep, Destroy, Undefine, RemoveOverlay, RemoveNvram, Goto
    <3>3. pc[j] = "teardown"
      BY <3>1
    <3> QED
      BY <2>1, <3>2, <3>3
  <2> QED
    BY <1>3, <2>2, <2>3 DEF HostStep
<1>4. ASSUME NEW j \in Jobs, GuestStep(j)
      PROVE  TaskInv'
  BY <1>4 DEF GuestStep, GetLease, GuestStops
<1>5. ASSUME NEW j \in Jobs, CancelJob(j)
      PROVE  TaskInv'
  BY <1>5 DEF CancelJob, vmVars
<1>6. ASSUME NEW c \in Clients, StreamStep(c) \/ LoseStream(c)
      PROVE  TaskInv'
  BY <1>6 DEF StreamStep, LoseStream, vmVars
<1>7. ASSUME NEW c \in Clients, NEW j \in Jobs, SubmitJob(c, j)
      PROVE  TaskInv'
  BY <1>7 DEF SubmitJob, vmVars
<1>8. CASE UNCHANGED vars
  BY <1>8 DEF vars, vmVars
<1> QED
  BY <1>1, <1>2, <1>3, <1>4, <1>5, <1>6, <1>7, <1>8 DEF Next

-----------------------------------------------------------------------------
TrackerTypeOK ==
  /\ status \in [Jobs -> JobStatus \cup {Absent}]
  /\ result \in [Jobs -> Results \cup {NoResult}]
  /\ tx \subseteq Jobs
  /\ events \in [Jobs -> Seq(EventType)]

TrackerInv == TrackerTypeOK /\ TrackerTracks /\ ChannelTracks

\* Appending to a channel keeps what was sent and adds one event.
LEMMA AppendFacts ==
  ASSUME NEW S, NEW s \in Seq(S), NEW e \in S
  PROVE  /\ Append(s, e) \in Seq(S)
         /\ Len(Append(s, e)) = Len(s) + 1
         /\ \A i \in 1..Len(s) : Append(s, e)[i] = s[i]
         /\ Append(s, e)[Len(s) + 1] = e
  OBVIOUS

\* The task of job j goes to p, with r as what run_job_inner returns.
Move(j, p, r) == pc' = [pc EXCEPT ![j] = p] /\ ret' = [ret EXCEPT ![j] = r]

\* Whatever the tracker holds for a task at q, it may hold for one at p.
Allows(q, v, p, r) ==
  /\ q # "done" /\ p # "done" /\ p \in PCs
  /\ StatusAt(q, v) \subseteq StatusAt(p, r)
  /\ SentAt(q) \in Nat /\ SentAt(p) \in Nat /\ SentAt(q) <= SentAt(p)

\* A task that sets status s on its way from q may go to p.
AllowsSet(q, s, p, r) ==
  /\ q # "done" /\ p # "done" /\ p \in PCs /\ s \in JobStatus \ {"Completed"}
  /\ {Absent, s} \subseteq StatusAt(p, r)
  /\ SentAt(q) \in Nat /\ SentAt(p) \in Nat /\ SentAt(q) + 1 <= SentAt(p)

\* A task that moves without touching the tracker keeps in step with it when
\* its new place allows all that the old one did.
LEMMA TrackerMove ==
  ASSUME TrackerInv, TaskTypeOK, NEW j \in Jobs, NEW p, NEW r,
         Move(j, p, r), Allows(pc[j], ret[j], p, r), UNCHANGED trackerVars
  PROVE  TrackerInv'
<1> USE DEF TrackerInv, TrackerTypeOK, TaskTypeOK, trackerVars, Move, Allows
<1>1. TrackerTypeOK'
  OBVIOUS
<1>2. TrackerTracks'
  BY DEF TrackerTracks, has
<1>3. ChannelTracks'
  BY DEF ChannelTracks, IsOutcome, has
<1> QED
  BY <1>1, <1>2, <1>3

\* An event sent for job j, and nothing sent for the others.
LEMMA SendFacts ==
  ASSUME TrackerTypeOK, NEW j \in Jobs, NEW e \in EventType, Send(j, e)
  PROVE  /\ events' \in [Jobs -> Seq(EventType)]
         /\ \A k \in Jobs \ {j} : events'[k] = events[k]
         /\ j \notin tx => events'[j] = events[j]
         /\ j \in tx => /\ Len(events'[j]) = Len(events[j]) + 1
                        /\ \A i \in 1..Len(events[j]) : events'[j][i] = events[j][i]
                        /\ events'[j][Len(events[j]) + 1] = e
<1>1. events[j] \in Seq(EventType)
  BY DEF TrackerTypeOK
<1>2. CASE j \in tx
  <2>1. events' = [events EXCEPT ![j] = Append(events[j], e)]
    BY <1>2 DEF Send
  <2>2. events'[j] = Append(events[j], e)
    BY <2>1 DEF TrackerTypeOK
  <2> QED
    BY <1>1, <1>2, <2>1, <2>2, AppendFacts DEF TrackerTypeOK
<1>3. CASE j \notin tx
  BY <1>3 DEF Send, TrackerTypeOK
<1> QED
  BY <1>2, <1>3

\* set_status, made by a task that goes on from there.
LEMMA TrackerSetStatus ==
  ASSUME TrackerInv, TaskTypeOK, NEW j \in Jobs, NEW p, NEW s,
         Move(j, p, ret[j]), AllowsSet(pc[j], s, p, ret[j]), set_status(j, s)
  PROVE  TrackerInv'
<1> USE DEF Move, AllowsSet
<1> DEFINE e == StatusChanged(s)
<1>0. UNCHANGED <<result, tx>> /\ Send(j, e)
  BY DEF set_status
<1>1. e \in EventType /\ ~IsOutcome(e)
  BY DEF EventType, StatusChanged, IsOutcome
<1>2. /\ events' \in [Jobs -> Seq(EventType)]
      /\ \A k \in Jobs \ {j} : events'[k] = events[k]
      /\ j \notin tx => events'[j] = events[j]
      /\ j \in tx => /\ Len(events'[j]) = Len(events[j]) + 1
                     /\ \A i \in 1..Len(events[j]) : events'[j][i] = events[j][i]
                     /\ events'[j][Len(events[j]) + 1] = e
  BY <1>0, <1>1, SendFacts DEF TrackerInv
<1> HIDE DEF e
<1>3. /\ status' \in [Jobs -> JobStatus \cup {Absent}]
      /\ \A k \in Jobs \ {j} : status'[k] = status[k]
      /\ status'[j] = IF has(j) THEN s ELSE Absent
  BY DEF set_status, has, TrackerInv, TrackerTypeOK
<1>4. TrackerTypeOK'
  BY <1>0, <1>2, <1>3 DEF TrackerInv, TrackerTypeOK
<1>5. /\ \A k \in Jobs \ {j} : pc'[k] = pc[k] /\ ret'[k] = ret[k]
      /\ pc'[j] = p /\ ret'[j] = ret[j]
  BY DEF TaskTypeOK
<1>6. TrackerTracks'
  BY <1>0, <1>3, <1>5 DEF TrackerInv, TrackerTracks, has, JobStatus, Absent
<1>7. ChannelTracks'
  <2> SUFFICES ASSUME NEW k \in Jobs
               PROVE  /\ Len(events'[k]) <= SentAt(pc'[k])
                      /\ \A i \in 1..Len(events'[k]) : IsOutcome(events'[k][i]) =>
                           /\ i = Len(events'[k]) /\ pc'[k] = "done"
                           /\ events'[k][i].name = "completed" <=> ret'[k] \in Results
                      /\ has(k)' /\ pc'[k] = "done" =>
                           Len(events'[k]) > 0 /\ IsOutcome(events'[k][Len(events'[k])])
    BY DEF ChannelTracks, IsOutcome, has
  <2>1. CASE k # j
    BY <1>2, <1>3, <1>5, <2>1 DEF TrackerInv, ChannelTracks, has, IsOutcome
  <2>2. CASE k = j
    <3>1. Len(events[j]) \in Nat /\ Len(events[j]) <= SentAt(pc[j])
      BY DEF TrackerInv, TrackerTypeOK, ChannelTracks
    <3>2. \A i \in 1..Len(events[j]) : ~IsOutcome(events[j][i])
      BY DEF TrackerInv, ChannelTracks
    <3>3. CASE j \in tx
      <4>1. \A i \in 1..Len(events'[j]) : i = Len(events[j]) + 1 \/ i \in 1..Len(events[j])
        BY <1>2, <3>1, <3>3
      <4>2. \A i \in 1..Len(events'[j]) : ~IsOutcome(events'[j][i])
        BY <1>1, <1>2, <3>2, <3>3, <4>1
      <4> QED
        BY <1>2, <1>5, <2>2, <3>1, <3>3, <4>2
    <3>4. CASE j \notin tx
      BY <1>2, <1>5, <2>2, <3>1, <3>2, <3>4
    <3> QED
      BY <3>3, <3>4
  <2> QED
    BY <2>1, <2>2
<1> QED
  BY <1>4, <1>6, <1>7 DEF TrackerInv

\* The last critical section of a task: the outcome is sent, the sender is
\* gone and the status is final.
LEMMA TrackerFinish ==
  ASSUME TrackerInv, TaskTypeOK, NEW j \in Jobs, NEW e \in EventType,
         pc[j] # "done", SentAt(pc[j]) \in 0..5, Send(j, e), IsOutcome(e),
         pc' = [pc EXCEPT ![j] = "done"], ret' = ret,
         e.name = "completed" <=> ret[j] \in Results,
         tx' = tx \ {j},
         status' \in [Jobs -> JobStatus \cup {Absent}],
         result' \in [Jobs -> Results \cup {NoResult}],
         \A k \in Jobs \ {j} : status'[k] = status[k] /\ result'[k] = result[k],
         status'[j] = Absent <=> status[j] = Absent,
         status'[j] \in StatusAt("done", ret[j]),
         status'[j] = "Completed" => result'[j] \in Results
  PROVE  TrackerInv'
<1>1. /\ events' \in [Jobs -> Seq(EventType)]
      /\ \A k \in Jobs \ {j} : events'[k] = events[k]
      /\ j \notin tx => events'[j] = events[j]
      /\ j \in tx => /\ Len(events'[j]) = Len(events[j]) + 1
                     /\ \A i \in 1..Len(events[j]) : events'[j][i] = events[j][i]
                     /\ events'[j][Len(events[j]) + 1] = e
  BY SendFacts DEF TrackerInv
<1>2. TrackerTypeOK'
  BY <1>1 DEF TrackerInv, TrackerTypeOK
<1>3. /\ \A k \in Jobs \ {j} : pc'[k] = pc[k] /\ ret'[k] = ret[k]
      /\ pc'[j] = "done" /\ ret'[j] = ret[j]
  BY DEF TaskTypeOK
<1>4. TrackerTracks'
  BY <1>3 DEF TrackerInv, TrackerTracks, has
<1>5. ChannelTracks'
  <2> SUFFICES ASSUME NEW k \in Jobs
               PROVE  /\ Len(events'[k]) <= SentAt(pc'[k])
                      /\ \A i \in 1..Len(events'[k]) : IsOutcome(events'[k][i]) =>
                           /\ i = Len(events'[k]) /\ pc'[k] = "done"
                           /\ events'[k][i].name = "completed" <=> ret'[k] \in Results
                      /\ has(k)' /\ pc'[k] = "done" =>
                           Len(events'[k]) > 0 /\ IsOutcome(events'[k][Len(events'[k])])
    BY DEF ChannelTracks, IsOutcome, has
  <2>1. CASE k # j
    BY <1>1, <1>3, <2>1 DEF TrackerInv, ChannelTracks, has, IsOutcome
  <2>2. CASE k = j
    <3>1. Len(events[j]) \in Nat /\ Len(events[j]) <= SentAt(pc[j])
      BY DEF TrackerInv, TrackerTypeOK, ChannelTracks
    <3>2. \A i \in 1..Len(events[j]) : ~IsOutcome(events[j][i])
      BY DEF TrackerInv, ChannelTracks
    <3>3. SentAt("done") = 6
      BY DEF SentAt
    <3>4. j \in tx <=> has(j)'
      BY DEF TrackerInv, TrackerTracks, has
    <3>5. CASE j \in tx
      <4>1. \A i \in 1..Len(events'[j]) : i = Len(events[j]) + 1 \/ i \in 1..Len(events[j])
        BY <1>1, <3>1, <3>5
      <4>2. \A i \in 1..Len(events'[j]) : IsOutcome(events'[j][i]) => i = Len(events'[j])
        BY <1>1, <3>2, <3>5, <4>1
      <4> QED
        BY <1>1, <1>3, <2>2, <3>1, <3>3, <3>5, <4>2
    <3>6. CASE j \notin tx
      BY <1>1, <1>3, <2>2, <3>1, <3>2, <3>3, <3>4, <3>6
    <3> QED
      BY <3>5, <3>6
  <2> QED
    BY <2>1, <2>2
<1> QED
  BY <1>2, <1>4, <1>5 DEF TrackerInv

\* StatusAt and SentAt as tables.
LEMMA Tables ==
  /\ \A r : /\ StatusAt("queued", r) = {Absent, "Queued"}
            /\ StatusAt("create", r) = {Absent, "SpawningVm"}
            /\ StatusAt("setBoot", r) = {Absent, "SpawningVm"}
            /\ StatusAt("panicked", r) = {Absent, "SpawningVm"}
            /\ StatusAt("bootstrap", r) = {Absent, "Bootstrapping"}
            /\ StatusAt("setUpload", r) = {Absent, "Bootstrapping"}
            /\ StatusAt("connect", r) = {Absent, "Uploading"}
            /\ StatusAt("upload", r) = {Absent, "Uploading"}
            /\ StatusAt("setAnalyze", r) = {Absent, "Uploading"}
            /\ StatusAt("analyze", r) = {Absent, "Analyzing"}
            /\ StatusAt("setFailed", r) =
                 {Absent, "SpawningVm", "Bootstrapping", "Uploading", "Analyzing"}
            /\ StatusAt("emitError", r) = {Absent, "Failed"}
            /\ r \in Results =>
                 StatusAt("teardown", r) = {Absent, "Analyzing"} /\
                 StatusAt("setResult", r) = {Absent, "Analyzing"}
            /\ r \notin Results => StatusAt("teardown", r) = StatusAt("setFailed", r)
  /\ SentAt("idle") = 0 /\ SentAt("queued") = 0
  /\ SentAt("create") = 1 /\ SentAt("setBoot") = 1 /\ SentAt("panicked") = 1
  /\ SentAt("bootstrap") = 2 /\ SentAt("setUpload") = 2
  /\ SentAt("connect") = 3 /\ SentAt("upload") = 3 /\ SentAt("setAnalyze") = 3
  /\ SentAt("analyze") = 4 /\ SentAt("teardown") = 4 /\ SentAt("setResult") = 4
  /\ SentAt("setFailed") = 4 /\ SentAt("emitError") = 5 /\ SentAt("done") = 6
  BY DEF StatusAt, SentAt

\* The moves of the tasks, as far as the tables are concerned.
LEMMA MovesAllowed ==
  ASSUME NEW v
  PROVE  /\ Allows("create", v, "setBoot", v)
         /\ Allows("create", v, "panicked", v)
         /\ Allows("bootstrap", v, "setUpload", v)
         /\ Allows("connect", v, "upload", v)
         /\ Allows("upload", v, "setAnalyze", v)
         /\ \A r \in Results : Allows("analyze", v, "teardown", r)
         /\ \A q \in {"create", "bootstrap", "connect", "upload", "analyze"} :
              \A e \in Errors : Allows(q, v, "setFailed", e) /\ Allows(q, v, "teardown", e)
         /\ v \in Results => Allows("teardown", v, "setResult", v)
         /\ v \notin Results => Allows("teardown", v, "setFailed", v)
         /\ AllowsSet("queued", "SpawningVm", "create", v)
         /\ AllowsSet("setBoot", "Bootstrapping", "bootstrap", v)
         /\ AllowsSet("setUpload", "Uploading", "connect", v)
         /\ AllowsSet("setAnalyze", "Analyzing", "analyze", v)
         /\ AllowsSet("setFailed", "Failed", "emitError", v)
<1> USE DEF Allows, AllowsSet, PCs, Awaiting, Polling, JobStatus
<1>1. \A e \in Errors : e \notin Results
  BY ErrorsAssumption DEF ErrorsAssumption
<1>2. ASSUME NEW q \in {"create", "bootstrap", "connect", "upload", "analyze"}, NEW e \in Errors
      PROVE  Allows(q, v, "setFailed", e) /\ Allows(q, v, "teardown", e)
  <2>1. StatusAt("teardown", e) = StatusAt("setFailed", e)
    BY <1>1, Tables
  <2>2. StatusAt(q, v) \subseteq StatusAt("setFailed", e)
    BY Tables
  <2>3. SentAt(q) \in 1..4 /\ SentAt("setFailed") = 4 /\ SentAt("teardown") = 4
    BY Tables
  <2> QED
    BY <2>1, <2>2, <2>3
<1>3. \A r \in Results : Allows("analyze", v, "teardown", r)
  BY Tables
<1>4. /\ v \in Results => Allows("teardown", v, "setResult", v)
      /\ v \notin Results => Allows("teardown", v, "setFailed", v)
  BY Tables
<1>5. /\ Allows("create", v, "setBoot", v)
      /\ Allows("create", v, "panicked", v)
      /\ Allows("bootstrap", v, "setUpload", v)
      /\ Allows("connect", v, "upload", v)
      /\ Allows("upload", v, "setAnalyze", v)
  BY Tables
<1>6. /\ AllowsSet("queued", "SpawningVm", "create", v)
      /\ AllowsSet("setBoot", "Bootstrapping", "bootstrap", v)
      /\ AllowsSet("setUpload", "Uploading", "connect", v)
      /\ AllowsSet("setAnalyze", "Analyzing", "analyze", v)
      /\ AllowsSet("setFailed", "Failed", "emitError", v)
  BY Tables
<1> QED
  BY <1>2, <1>3, <1>4, <1>5, <1>6

\* Every step keeps the tracker's entry, the sender and the channel of a job
\* in step with its task.
LEMMA TrackerPreserved ==
  ASSUME TrackerInv, TaskInv, [Next]_vars
  PROVE  TrackerInv'
<1> USE DEF TaskInv, At, Resume
<1>0. TaskTypeOK /\ ErrorsAssumption
  BY ErrorsAssumption
<1>a. ASSUME NEW j \in Jobs, NEW e \in Errors,
             FailWith(j, e) \/ TeardownThenReturn(j, e),
             pc[j] \in {"create", "bootstrap", "connect", "upload", "analyze"}
      PROVE  TrackerInv'
  <2>1. PICK p \in {"setFailed", "teardown"} : Move(j, p, e) /\ UNCHANGED trackerVars
    BY <1>a DEF FailWith, TeardownThenReturn, Move, To, Return
  <2>2. Allows(pc[j], ret[j], p, e)
    BY <1>a, MovesAllowed
  <2> QED
    BY <1>0, <2>1, <2>2, TrackerMove
<1>b. ASSUME NEW j \in Jobs, NEW p, To(j, p), ret' = ret
      PROVE  Move(j, p, ret[j])
  BY <1>0, <1>b DEF TaskTypeOK, Move, To
<1>c. ASSUME NEW j \in Jobs, NEW p, To(j, p), UNCHANGED <<ret, trackerVars>>,
             Allows(pc[j], ret[j], p, ret[j])
      PROVE  TrackerInv'
  BY <1>0, <1>b, <1>c, TrackerMove
<1>d. ASSUME NEW j \in Jobs, NEW p, ContinueUnlessCancelled(j, p),
             pc[j] \in {"create", "bootstrap", "upload"},
             Allows(pc[j], ret[j], p, ret[j])
      PROVE  TrackerInv'
  <2>1. "job cancelled" \in Errors
    BY DEF Errors
  <2> QED
    BY <1>a, <1>c, <1>d, <2>1 DEF ContinueUnlessCancelled
<1>e. ASSUME NEW j \in Jobs, NEW p, NEW s, To(j, p), ret' = ret, set_status(j, s),
             AllowsSet(pc[j], s, p, ret[j])
      PROVE  TrackerInv'
  BY <1>0, <1>b, <1>e, TrackerSetStatus
<1>1. ASSUME NEW j \in Jobs, TaskStep(j)
      PROVE  TrackerInv'
  <2>1. CASE StartSpawn(j)
    BY <1>e, <2>1, MovesAllowed DEF StartSpawn
  <2>2. CASE Created(j)
    BY <1>d, <2>2, MovesAllowed DEF Created
  <2>3. CASE CreateFailed(j)
    BY <1>a, <2>3 DEF CreateFailed, Errors, Leaky
  <2>4. CASE CreatePanicked(j)
    BY <1>c, <2>4, MovesAllowed DEF CreatePanicked
  <2>5. CASE SetBootstrapping(j)
    BY <1>e, <2>5, MovesAllowed DEF SetBootstrapping, SetStage
  <2>6. CASE SetUploading(j)
    BY <1>e, <2>6, MovesAllowed DEF SetUploading, SetStage
  <2>7. CASE SetAnalyzing(j)
    BY <1>e, <2>7, MovesAllowed DEF SetAnalyzing, SetStage
  <2>8. CASE BootstrapOk(j)
    BY <1>d, <2>8, MovesAllowed DEF BootstrapOk
  <2>9. CASE ConnectOk(j)
    BY <1>c, <2>9, MovesAllowed DEF ConnectOk
  <2>10. CASE UploadOk(j)
    BY <1>d, <2>10, MovesAllowed DEF UploadOk
  <2>11. CASE \E r \in Results : AnalyzeOk(j, r)
    <3>1. PICK r \in Results : AnalyzeOk(j, r)
      BY <2>11
    <3>2. Move(j, "teardown", r) /\ UNCHANGED trackerVars /\ pc[j] = "analyze"
      BY <3>1 DEF AnalyzeOk, TeardownThenReturn, Move, To, Return
    <3>3. Allows(pc[j], ret[j], "teardown", r)
      BY <3>2, MovesAllowed
    <3> QED
      BY <1>0, <3>2, <3>3, TrackerMove
  <2>12. CASE TeardownDone(j)
    BY <1>c, <2>12, MovesAllowed DEF TeardownDone
  <2>13. CASE MarkFailed(j)
    BY <1>e, <2>13, MovesAllowed DEF MarkFailed, SetStage
  <2>14. CASE PublishResult(j)
    <3> DEFINE e == Completed(ret[j])
    <3>1. pc[j] = "setResult" /\ ret[j] \in Results /\ Send(j, e)
      BY <2>14 DEF PublishResult, set_result, RetKnown
    <3>2. e \in EventType /\ IsOutcome(e) /\ e.name = "completed"
      BY <3>1 DEF EventType, IsOutcome, Completed
    <3>3. tx' = tx \ {j}
      BY <2>14, <3>1 DEF PublishResult, set_result, TrackerInv, TrackerTracks
    <3>4. /\ status' \in [Jobs -> JobStatus \cup {Absent}]
          /\ result' \in [Jobs -> Results \cup {NoResult}]
          /\ \A k \in Jobs \ {j} : status'[k] = status[k] /\ result'[k] = result[k]
          /\ status'[j] = Absent <=> status[j] = Absent
          /\ status'[j] \in {Absent, "Completed"}
          /\ status'[j] = "Completed" => result'[j] \in Results
      <4>1. status[j] \in {Absent, "Analyzing"}
        BY <3>1, Tables DEF TrackerInv, TrackerTracks
      <4>2. CASE has(j)
        BY <2>14, <3>1, <4>2 DEF PublishResult, set_result, has, TrackerInv,
           TrackerTypeOK, JobStatus, Absent
      <4>3. CASE ~has(j)
        BY <2>14, <4>3 DEF PublishResult, set_result, has, TrackerInv,
           TrackerTypeOK, Absent
      <4> QED
        BY <4>2, <4>3
    <3>5. SentAt(pc[j]) \in 0..5 /\ status'[j] \in StatusAt("done", ret[j])
      BY <3>1, <3>4 DEF StatusAt, SentAt
    <3> HIDE DEF e
    <3> QED
      BY <1>0, <2>14, <3>1, <3>2, <3>3, <3>4, <3>5, TrackerFinish DEF PublishResult, To
  <2>15. CASE PublishError(j)
    <3> DEFINE e == Error(ret[j])
    <3>1. pc[j] = "emitError" /\ ret[j] \in Errors /\ Send(j, e)
      BY <2>15 DEF PublishError, emit_error, RetKnown
    <3>2. e \in EventType /\ IsOutcome(e) /\ e.name # "completed" /\ ret[j] \notin Results
      BY <1>0, <3>1 DEF EventType, IsOutcome, Error, ErrorsAssumption
    <3>3. tx' = tx \ {j} /\ status' = status /\ result' = result
      BY <2>15 DEF PublishError, emit_error
    <3>4. status[j] \in {Absent, "Failed"}
      BY <3>1, Tables DEF TrackerInv, TrackerTracks
    <3>5. SentAt(pc[j]) \in 0..5 /\ status'[j] \in StatusAt("done", ret[j])
      BY <3>1, <3>2, <3>3, <3>4 DEF StatusAt, SentAt
    <3> HIDE DEF e
    <3>6. status'[j] # "Completed"
      BY <3>3, <3>4 DEF Absent
    <3>7. pc[j] # "done" /\ pc' = [pc EXCEPT ![j] = "done"] /\ ret' = ret
      BY <2>15, <3>1 DEF PublishError, To
    <3>8. /\ status' \in [Jobs -> JobStatus \cup {Absent}]
          /\ result' \in [Jobs -> Results \cup {NoResult}]
      BY <3>3 DEF TrackerInv, TrackerTypeOK
    <3> QED
      BY <1>0, <3>1, <3>2, <3>3, <3>5, <3>6, <3>7, <3>8, TrackerFinish
  <2> QED
    BY <1>1, <2>1, <2>2, <2>3, <2>4, <2>5, <2>6, <2>7, <2>8, <2>9, <2>10,
       <2>11, <2>12, <2>13, <2>14, <2>15 DEF TaskStep
<1>2. ASSUME NEW j \in Jobs, CallFails(j)
      PROVE  TrackerInv'
  <2>1. CASE AnalyzeErr(j)
    BY <1>a, <2>1 DEF AnalyzeErr, Errors
  <2>2. CASE BootstrapErr(j) \/ ConnectErr(j) \/ UploadErr(j)
    BY <1>a, <2>2 DEF BootstrapErr, ConnectErr, UploadErr, Errors, Leaky
  <2> QED
    BY <1>2, <2>1, <2>2 DEF CallFails
<1>3. ASSUME UNCHANGED <<pc, ret, trackerVars>>
      PROVE  TrackerInv'
  BY <1>3 DEF trackerVars, TrackerInv, TrackerTypeOK, TrackerTracks, ChannelTracks, has
<1>4. ASSUME NEW j \in Jobs, HostStep(j) \/ GuestStep(j)
      PROVE  TrackerInv'
  BY <1>3, <1>4 DEF HostStep, GuestStep
<1>5. ASSUME NEW c \in Clients, StreamStep(c) \/ LoseStream(c)
      PROVE  TrackerInv'
  BY <1>3, <1>5 DEF StreamStep, LoseStream
<1>6. ASSUME NEW j \in Jobs, CancelJob(j)
      PROVE  TrackerInv'
  <2>1. /\ UNCHANGED <<pc, ret, events>>
        /\ status' = [status EXCEPT ![j] = Absent]
        /\ result' = [result EXCEPT ![j] = NoResult]
        /\ tx' = tx \ {j}
    BY <1>6 DEF CancelJob, Remove
  <2>2. \A p, r : Absent \in StatusAt(p, r)
    BY DEF StatusAt
  <2>3. TrackerTypeOK'
    BY <2>1 DEF TrackerInv, TrackerTypeOK
  <2>4. TrackerTracks'
    BY <2>1, <2>2 DEF TrackerInv, TrackerTypeOK, TrackerTracks, has, Absent
  <2>5. ChannelTracks'
    BY <2>1 DEF TrackerInv, TrackerTypeOK, ChannelTracks, has
  <2> QED
    BY <2>3, <2>4, <2>5 DEF TrackerInv
<1>7. ASSUME NEW c \in Clients, NEW j \in Jobs, SubmitJob(c, j)
      PROVE  TrackerInv'
  <2>1. /\ pc[j] = "idle" /\ pc' = [pc EXCEPT ![j] = "queued"] /\ UNCHANGED <<ret, events, result>>
        /\ status' = [status EXCEPT ![j] = "Queued"]
        /\ tx' = tx \cup {j}
    BY <1>7 DEF SubmitJob, Insert, To
  <2>2. TrackerTypeOK'
    BY <2>1 DEF TrackerInv, TrackerTypeOK, JobStatus
  <2>3. TrackerTracks'
    BY <1>0, <2>1, Tables DEF TrackerInv, TrackerTypeOK, TaskTypeOK, TrackerTracks, has, Absent
  <2>4. ChannelTracks'
    BY <1>0, <2>1, Tables DEF TrackerInv, TrackerTypeOK, TaskTypeOK, ChannelTracks, has, Absent
  <2> QED
    BY <2>2, <2>3, <2>4 DEF TrackerInv
<1> QED
  BY <1>1, <1>2, <1>3, <1>4, <1>5, <1>6, <1>7 DEF Next, vars

-----------------------------------------------------------------------------
StreamTypeOK ==
  /\ conn \in [Clients -> ConnStates]
  /\ watch \in [Clients -> Jobs \cup {NoJob}]
  /\ from \in [Clients -> Nat]
  /\ next \in [Clients -> Nat]
  /\ got \in [Clients -> Nat]
  /\ shown \in [Clients -> FrontendStatuses \cup {"blank", "queued"}]

StreamInv == StreamTypeOK /\ Watching /\ ReceiversTrack

\* A channel only grows.
LEMMA ChannelsGrow ==
  ASSUME TrackerTypeOK, [Next]_vars
  PROVE  \A j \in Jobs : events'[j] = events[j] \/ \E e : events'[j] = Append(events[j], e)
<1> USE DEF TrackerTypeOK
<1>1. CASE events' = events
  BY <1>1
<1>2. ASSUME NEW j \in Jobs, NEW e, Send(j, e)
      PROVE  \A k \in Jobs : events'[k] = events[k] \/ \E d : events'[k] = Append(events[k], d)
  BY <1>2 DEF Send
<1>3. ASSUME NEW j \in Jobs, TaskStep(j)
      PROVE  UNCHANGED events \/ \E e : Send(j, e)
  BY <1>3 DEF TaskStep, StartSpawn, Created, CreateFailed, CreatePanicked,
     SetBootstrapping, BootstrapOk, SetUploading, ConnectOk, UploadOk,
     SetAnalyzing, AnalyzeOk, TeardownDone, PublishResult, MarkFailed,
     PublishError, SetStage, FailWith, TeardownThenReturn,
     ContinueUnlessCancelled, trackerVars, set_status, set_result, emit_error
<1>4. ASSUME NEW j \in Jobs, CallFails(j) \/ HostStep(j) \/ GuestStep(j) \/ CancelJob(j)
      PROVE  UNCHANGED events
  BY <1>4 DEF CallFails, BootstrapErr, ConnectErr, UploadErr, AnalyzeErr, FailWith,
     TeardownThenReturn, HostStep, GuestStep, CancelJob, Remove, trackerVars
<1>5. ASSUME NEW c \in Clients, \/ StreamStep(c) \/ LoseStream(c)
                                \/ \E j \in Jobs : SubmitJob(c, j)
      PROVE  UNCHANGED events
  BY <1>5 DEF StreamStep, LoseStream, SubmitJob, Insert, trackerVars
<1>6. CASE UNCHANGED vars
  BY <1>1, <1>6 DEF vars, trackerVars
<1> QED
  BY <1>1, <1>2, <1>3, <1>4, <1>5, <1>6 DEF Next

\* A receiver never lags: it reads the event after the last one it read.
LEMMA NoLag ==
  ASSUME TrackerInv, TaskTypeOK, StreamInv, NEW c \in Clients, conn[c] = "open"
  PROVE  ReadPosition(c) = next[c] + 1
<1>1. watch[c] \in Jobs /\ next[c] \in Nat
  BY DEF StreamInv, StreamTypeOK, Watching
<1>2. SentAt(pc[watch[c]]) \in 0..6
  BY DEF SentAt
<1>3. Len(events[watch[c]]) \in Nat /\ Len(events[watch[c]]) <= 6
  BY <1>1, <1>2 DEF TrackerInv, TrackerTypeOK, ChannelTracks
<1> QED
  BY <1>1, <1>3 DEF ReadPosition, ChannelCapacity

\* Every step keeps the receivers within their channels and their counts right.
LEMMA StreamPreserved ==
  ASSUME TrackerInv, TrackerInv', TaskTypeOK, StreamInv, [Next]_vars
  PROVE  StreamInv'
<1>0. \A j \in Jobs : /\ Len(events[j]) \in Nat /\ Len(events'[j]) \in Nat
                      /\ Len(events[j]) <= Len(events'[j])
  <2> TAKE j \in Jobs
  <2>1. events[j] \in Seq(EventType) /\ events'[j] \in Seq(EventType)
    BY DEF TrackerInv, TrackerTypeOK
  <2>2. CASE events'[j] = events[j]
    BY <2>1, <2>2
  <2>3. ASSUME NEW e, events'[j] = Append(events[j], e)
        PROVE  Len(events[j]) <= Len(events'[j])
    <3>1. Len(Append(events[j], e)) = Len(events[j]) + 1
      BY <2>1
    <3> QED
      BY <2>1, <2>3, <3>1
  <2> QED
    BY <2>1, <2>2, <2>3, ChannelsGrow DEF TrackerInv
<1>1. CASE UNCHANGED streamVars
  <2>1. StreamTypeOK' /\ Watching'
    BY <1>1 DEF streamVars, StreamInv, StreamTypeOK, Watching
  <2>2. UNCHANGED <<conn, watch, from, next, got>>
    BY <1>1 DEF streamVars
  <2>3. ASSUME NEW c \in Clients, conn[c] = "open"
        PROVE  /\ from[c] <= next[c] /\ next[c] <= Len(events'[watch[c]])
               /\ got[c] = next[c] - from[c]
    <3>1. watch[c] \in Jobs /\ next[c] \in Nat
      BY <2>3 DEF StreamInv, StreamTypeOK, Watching
    <3>2. /\ from[c] <= next[c] /\ next[c] <= Len(events[watch[c]])
          /\ got[c] = next[c] - from[c]
      BY <2>3 DEF StreamInv, ReceiversTrack
    <3>3. /\ Len(events[watch[c]]) \in Nat /\ Len(events'[watch[c]]) \in Nat
          /\ Len(events[watch[c]]) <= Len(events'[watch[c]])
      BY <1>0, <3>1
    <3> QED
      BY <3>1, <3>2, <3>3
  <2>4. ReceiversTrack'
    BY <2>2, <2>3 DEF ReceiversTrack
  <2> QED
    BY <2>1, <2>4 DEF StreamInv
<1>2. ASSUME NEW c \in Clients, subscribe(c), UNCHANGED trackerVars
      PROVE  StreamInv'
  <2> DEFINE n == Len(events[watch[c]])
  <2>1. conn[c] = "connecting" /\ watch[c] \in Jobs /\ n \in Nat
    BY <1>0, <1>2 DEF subscribe, StreamInv, Watching
  <2>2. UNCHANGED <<watch, shown, events>>
    BY <1>2 DEF subscribe, trackerVars
  <2>3. CASE watch[c] \in tx
    <3>1. /\ conn' = [conn EXCEPT ![c] = "open"]
          /\ from' = [from EXCEPT ![c] = n]
          /\ next' = [next EXCEPT ![c] = n]
          /\ got' = [got EXCEPT ![c] = 0]
      BY <1>2, <2>3 DEF subscribe
    <3> HIDE DEF n
    <3>2. StreamTypeOK' /\ Watching'
      BY <2>1, <2>2, <3>1 DEF StreamInv, StreamTypeOK, Watching, ConnStates
    <3>3. ReceiversTrack'
      BY <2>1, <2>2, <3>1 DEF n, StreamInv, StreamTypeOK, ReceiversTrack
    <3> QED
      BY <3>2, <3>3 DEF StreamInv
  <2>4. CASE watch[c] \notin tx
    <3>1. conn' = [conn EXCEPT ![c] = "failed"] /\ UNCHANGED <<from, next, got>>
      BY <1>2, <2>4 DEF subscribe
    <3> QED
      BY <2>1, <2>2, <3>1 DEF StreamInv, StreamTypeOK, Watching, ReceiversTrack, ConnStates
  <2> QED
    BY <2>3, <2>4
<1>3. ASSUME NEW c \in Clients, recv(c), UNCHANGED trackerVars
      PROVE  StreamInv'
  <2> DEFINE e == events[watch[c]][ReadPosition(c)]
  <2>1. ReadPosition(c) = next[c] + 1
    BY <1>3, NoLag DEF recv
  <2>2. /\ Display(c, e)
        /\ next' = [next EXCEPT ![c] = next[c] + 1]
        /\ got' = [got EXCEPT ![c] = @ + 1]
        /\ UNCHANGED <<watch, from>> /\ events' = events
        /\ conn[c] = "open" /\ next[c] < Len(events[watch[c]])
    BY <1>3, <2>1 DEF recv, trackerVars
  <2> HIDE DEF e
  <2>3. conn' = conn \/ conn' = [conn EXCEPT ![c] = "closed"]
    BY <2>2 DEF Display
  <2>4. shown' \in [Clients -> FrontendStatuses \cup {"blank", "queued"}]
    BY <2>2 DEF Display, StreamInv, StreamTypeOK, FrontendStatuses
  <2>5. StreamTypeOK' /\ Watching'
    <3>1. StreamTypeOK'
      <4>1. conn' \in [Clients -> ConnStates]
        BY <2>3 DEF StreamInv, StreamTypeOK, ConnStates
      <4>2. next' \in [Clients -> Nat] /\ got' \in [Clients -> Nat]
        BY <2>2 DEF StreamInv, StreamTypeOK
      <4> QED
        BY <2>2, <2>4, <4>1, <4>2 DEF StreamInv, StreamTypeOK
    <3>2. Watching'
      BY <2>2, <2>3 DEF StreamInv, StreamTypeOK, Watching
    <3> QED
      BY <3>1, <3>2
  <2>6. ReceiversTrack'
    BY <1>0, <2>2, <2>3 DEF StreamInv, StreamTypeOK, Watching, ReceiversTrack
  <2> QED
    BY <2>5, <2>6 DEF StreamInv
<1>4. ASSUME NEW c \in Clients, EndStream(c) \/ DropStream(c), UNCHANGED trackerVars
      PROVE  StreamInv'
  <2>1. conn[c] = "open" /\ conn' = [conn EXCEPT ![c] = "connecting"]
        /\ UNCHANGED <<watch, from, next, got, shown, events>>
    BY <1>4 DEF EndStream, DropStream, trackerVars
  <2> QED
    BY <2>1 DEF StreamInv, StreamTypeOK, Watching, ReceiversTrack, ConnStates
<1>5. ASSUME NEW c \in Clients, NEW j \in Jobs, SubmitJob(c, j)
      PROVE  StreamInv'
  BY <1>0, <1>5 DEF SubmitJob, Listen, Insert, StreamInv, StreamTypeOK, Watching,
     ReceiversTrack, ConnStates
<1>6. ASSUME NEW j \in Jobs, TaskStep(j)
      PROVE  UNCHANGED streamVars
  BY <1>6 DEF TaskStep, StartSpawn, Created, CreateFailed, CreatePanicked,
     SetBootstrapping, BootstrapOk, SetUploading, ConnectOk, UploadOk,
     SetAnalyzing, AnalyzeOk, TeardownDone, PublishResult, MarkFailed,
     PublishError, SetStage, FailWith, TeardownThenReturn, ContinueUnlessCancelled
<1>7. ASSUME NEW j \in Jobs, CallFails(j) \/ HostStep(j) \/ GuestStep(j) \/ CancelJob(j)
      PROVE  UNCHANGED streamVars
  BY <1>7 DEF CallFails, BootstrapErr, ConnectErr, UploadErr, AnalyzeErr, FailWith,
     TeardownThenReturn, HostStep, GuestStep, CancelJob
<1>8. ASSUME NEW c \in Clients, StreamStep(c) \/ LoseStream(c)
      PROVE  StreamInv'
  BY <1>2, <1>3, <1>4, <1>8 DEF StreamStep, LoseStream
<1>9. CASE UNCHANGED vars
  BY <1>1, <1>9 DEF vars
<1> QED
  BY <1>1, <1>5, <1>6, <1>7, <1>8, <1>9 DEF Next

-----------------------------------------------------------------------------
\* The parts of the invariant make it up.
LEMMA Parts ==
  IInv <=> VmTypeOK /\ HostTracks /\ TaskInv /\ TrackerInv /\ StreamInv
  BY DEF IInv, TypeOK, TaskInv, TaskTypeOK, TrackerInv, TrackerTypeOK, StreamInv, StreamTypeOK

\* The controller starts in step.
LEMMA InitInv == Init => IInv
<1> SUFFICES ASSUME Init PROVE IInv
  OBVIOUS
<1>1. VmTypeOK /\ HostTracks
  BY DEF Init, VmInit, VmTypeOK, HostTracks, Remains, VmStates
<1>2. TaskInv
  BY DEF Init, VmInit, TaskInv, TaskTypeOK, RetKnown, TaskTracks, PCs, InUse
<1>3. TrackerInv
  <2>1. TrackerTypeOK
    BY DEF Init, TrackerInit, TrackerTypeOK
  <2>2. TrackerTracks
    BY DEF Init, TrackerInit, TrackerTracks, StatusAt, has, Absent
  <2>3. ChannelTracks
    <3>1. \A j \in Jobs : Len(events[j]) = 0 /\ pc[j] = "idle" /\ ~has(j)
      BY DEF Init, TrackerInit, has
    <3>2. \A j \in Jobs : SentAt(pc[j]) = 0
      BY <3>1, Tables
    <3>3. ASSUME NEW j \in Jobs, NEW i \in 1..Len(events[j]) PROVE FALSE
      <4>1. Len(events[j]) = 0
        BY <3>1
      <4>2. 1 <= i /\ i <= 0
        BY <4>1
      <4> QED
        BY <4>2
    <3>4. \A j \in Jobs : Len(events[j]) <= SentAt(pc[j])
      <4> TAKE j \in Jobs
      <4>1. Len(events[j]) = 0 /\ SentAt(pc[j]) = 0
        BY <3>1, <3>2
      <4> QED
        BY <4>1
    <3> QED
      BY <3>1, <3>3, <3>4 DEF ChannelTracks
  <2> QED
    BY <2>1, <2>2, <2>3 DEF TrackerInv
<1>4. StreamInv
  BY DEF Init, StreamInit, StreamInv, StreamTypeOK, Watching, ReceiversTrack, ConnStates
<1> QED
  BY <1>1, <1>2, <1>3, <1>4, Parts

\* IInv is inductive: every reachable state of the controller satisfies it.
THEOREM Invariance == Spec => []IInv
<1>1. Init => IInv
  BY InitInv
<1>2. IInv /\ [Next]_vars => IInv'
  <2> SUFFICES ASSUME IInv, [Next]_vars PROVE IInv'
    OBVIOUS
  <2>1. VmTypeOK /\ HostTracks /\ TaskInv /\ TrackerInv /\ StreamInv /\ TaskTypeOK
    BY Parts DEF TaskInv
  <2>2. VmTypeOK' /\ HostTracks'
    BY <2>1, HostPreserved
  <2>3. TaskInv'
    BY <2>1, TaskPreserved
  <2>4. TrackerInv'
    BY <2>1, TrackerPreserved
  <2>5. StreamInv'
    BY <2>1, <2>4, StreamPreserved
  <2> QED
    BY <2>2, <2>3, <2>4, <2>5 DEF IInv, TypeOK, TaskInv, TaskTypeOK, TrackerInv,
       TrackerTypeOK, StreamInv, StreamTypeOK
<1> QED
  BY <1>1, <1>2, PTL DEF Spec

\* Every variable of the controller keeps its type.
THEOREM TypeCorrect == Spec => []TypeOK
<1>1. IInv => TypeOK
  BY DEF IInv
<1> QED
  BY <1>1, Invariance, PTL

\* Whatever a job's task left on the host has one of the four early returns
\* or a logged warning behind it: IInv ties both to vm[j] = "gone".
THEOREM OrphansAreExplained == Spec => []OrphanExplained
<1>1. IInv => OrphanExplained
  BY DEF IInv, TaskTracks, HostTracks, OrphanExplained
<1> QED
  BY <1>1, Invariance, PTL

\* A guest that is being talked to has its domain and both its files.
THEOREM InUseStaysIntact == Spec => []InUseIntact
<1>1. IInv => InUseIntact
  BY DEF IInv, TaskTracks, HostTracks, InUseIntact
<1> QED
  BY <1>1, Invariance, PTL

\* A job that is reported completed has its result and its machine is gone.
THEOREM CompletionIsComplete == Spec => []CompletedMeansDone
<1>1. ASSUME IInv, NEW j \in Jobs,
             status[j] = "Completed" \/ \E i \in DOMAIN events[j] : events[j][i].name = "completed"
      PROVE  /\ Remains(j) => j \in warned
             /\ has(j) => status[j] = "Completed" /\ result[j] \in Results
  <2>1. pc[j] = "done" /\ ret[j] \in Results
    <3>1. CASE status[j] = "Completed"
      BY <1>1, <3>1 DEF IInv, TrackerTracks, StatusAt, Absent
    <3>2. ASSUME NEW i \in DOMAIN events[j], events[j][i].name = "completed"
          PROVE  pc[j] = "done" /\ ret[j] \in Results
      <4>1. i \in 1..Len(events[j]) /\ IsOutcome(events[j][i])
        BY <1>1, <3>2 DEF IInv, TypeOK, IsOutcome
      <4> QED
        BY <1>1, <3>2, <4>1 DEF IInv, ChannelTracks
    <3> QED
      BY <1>1, <3>1, <3>2
  <2>2. ret[j] \notin Leaky
    BY <2>1, ErrorsAssumption DEF ErrorsAssumption, Errors
  <2>3. vm[j] = "gone"
    BY <1>1, <2>1, <2>2 DEF IInv, TaskTracks
  <2>4. status[j] \in {Absent, "Completed"}
    BY <1>1, <2>1 DEF IInv, TrackerTracks, StatusAt
  <2> QED
    BY <1>1, <2>3, <2>4 DEF IInv, HostTracks, TrackerTracks, has
<1>2. IInv => CompletedMeansDone
  BY <1>1 DEF CompletedMeansDone
<1> QED
  BY <1>2, Invariance, PTL

\* The channel of a job that was not deleted closes exactly with its outcome.
THEOREM StreamsEndWithOutcome == Spec => []StreamEndsWithOutcome
<1>1. ASSUME IInv, NEW j \in Jobs
      PROVE  /\ has(j) => (j \in tx <=> \A i \in 1..Len(events[j]) : ~IsOutcome(events[j][i]))
             /\ \A i \in 1..Len(events[j]) : IsOutcome(events[j][i]) => i = Len(events[j])
  <2>1. Len(events[j]) \in Nat
    BY <1>1 DEF IInv, TypeOK
  <2> QED
    BY <1>1, <2>1 DEF IInv, TrackerTracks, ChannelTracks
<1>2. IInv => StreamEndsWithOutcome
  BY <1>1 DEF StreamEndsWithOutcome
<1> QED
  BY <1>2, Invariance, PTL

\* A connected page misses no event, however slow it is: a job sends at most
\* six events, and the channel holds 64.
THEOREM NoEventMissed == Spec => []NoneMissed
<1>1. IInv => NoneMissed
  BY DEF IInv, ReceiversTrack, NoneMissed
<1> QED
  BY <1>1, Invariance, PTL

-----------------------------------------------------------------------------
\* What CancelHonoured says of one job and one step.
WindsUp(j) ==
  pc[j] # "idle" /\ ~has(j) /\ StageOf(pc'[j]) # StageOf(pc[j]) => StageOf(pc'[j]) = 5

\* A deleted job's task never enters another stage: every action that ends a
\* stage looks for the job first.
THEOREM CancellationIsHonoured == Spec => CancelHonoured
<1>1. ASSUME TypeOK, [Next]_vars, NEW j \in Jobs
      PROVE  WindsUp(j)
  <2> USE DEF StageOf, WindsUp
  <2>0. pc \in [Jobs -> PCs]
    BY <1>1 DEF TypeOK
  <2>1. ASSUME NEW k \in Jobs, NEW p, pc' = [pc EXCEPT ![k] = p], StageOf(p) = 5
        PROVE  WindsUp(j)
    BY <2>0, <2>1
  <2>2. ASSUME NEW k \in Jobs, NEW p, pc' = [pc EXCEPT ![k] = p],
               pc[k] = "idle" \/ has(k) \/ StageOf(p) = StageOf(pc[k])
        PROVE  WindsUp(j)
    BY <2>0, <2>2
  <2>3. ASSUME NEW k \in Jobs, NEW p, ContinueUnlessCancelled(k, p)
        PROVE  WindsUp(j)
    BY <2>1, <2>2, <2>3 DEF ContinueUnlessCancelled, TeardownThenReturn, To
  <2>4. ASSUME NEW k \in Jobs, TaskStep(k)
        PROVE  WindsUp(j)
    <3>1. CASE Created(k) \/ BootstrapOk(k) \/ UploadOk(k)
      BY <2>3, <3>1 DEF Created, BootstrapOk, UploadOk
    <3>2. CASE StartSpawn(k) \/ SetBootstrapping(k) \/ SetUploading(k) \/ ConnectOk(k)
               \/ SetAnalyzing(k)
      BY <2>2, <3>2 DEF StartSpawn, SetBootstrapping, SetUploading, SetAnalyzing,
         ConnectOk, SetStage, Resume, At, To
    <3>3. CASE CreateFailed(k) \/ CreatePanicked(k) \/ TeardownDone(k) \/ PublishResult(k)
               \/ MarkFailed(k) \/ PublishError(k) \/ \E r \in Results : AnalyzeOk(k, r)
      BY <2>1, <3>3 DEF CreateFailed, CreatePanicked, TeardownDone, PublishResult,
         MarkFailed, PublishError, AnalyzeOk, SetStage, FailWith, TeardownThenReturn, To
    <3> QED
      BY <2>4, <3>1, <3>2, <3>3 DEF TaskStep
  <2>5. ASSUME NEW k \in Jobs, CallFails(k)
        PROVE  WindsUp(j)
    BY <2>1, <2>5 DEF CallFails, BootstrapErr, ConnectErr, UploadErr, AnalyzeErr,
       FailWith, TeardownThenReturn, To
  <2>6. ASSUME NEW k \in Jobs, NEW c \in Clients, SubmitJob(c, k)
        PROVE  WindsUp(j)
    BY <2>2, <2>6 DEF SubmitJob, To
  <2>7. CASE UNCHANGED pc
    BY <2>7
  <2>8. ASSUME NEW k \in Jobs, HostStep(k) \/ GuestStep(k) \/ CancelJob(k)
        PROVE  UNCHANGED pc
    BY <2>8 DEF HostStep, GuestStep, CancelJob
  <2>9. ASSUME NEW c \in Clients, StreamStep(c) \/ LoseStream(c)
        PROVE  UNCHANGED pc
    BY <2>9 DEF StreamStep, LoseStream
  <2> HIDE DEF StageOf, WindsUp
  <2> QED
    BY <1>1, <2>4, <2>5, <2>6, <2>7, <2>8, <2>9 DEF Next, vars
<1>2. TypeOK /\ [Next]_vars => [\A j \in Jobs : WindsUp(j)]_vars
  BY <1>1
<1>3. Spec => [][\A j \in Jobs : WindsUp(j)]_vars
  BY <1>2, TypeCorrect, PTL DEF Spec
<1> QED
  BY <1>3 DEF CancelHonoured, WindsUp

-----------------------------------------------------------------------------
(***************************************************************************)
(* How far the task of a job and its machine have come.                    *)
(***************************************************************************)
TaskRank ==
  [idle |-> 0, queued |-> 1, create |-> 2, setBoot |-> 3, bootstrap |-> 4,
   setUpload |-> 5, connect |-> 6, upload |-> 7, setAnalyze |-> 8, analyze |-> 9,
   teardown |-> 10, setResult |-> 11, setFailed |-> 11, emitError |-> 12,
   done |-> 13, panicked |-> 13]

VmRank ==
  [idle |-> 0, overlay |-> 1, nvram |-> 2, define |-> 3, start |-> 4,
   networks |-> 5, ip |-> 6, ok |-> 7, destroy |-> 8, undefine |-> 9,
   rm_overlay |-> 10, rm_nvram |-> 11, gone |-> 12, err |-> 12, panic |-> 12]

TaskAdvances(j) == pc'[j] = pc[j] \/ TaskRank[pc[j]] < TaskRank[pc'[j]]
VmAdvances(j)   == vm'[j] = vm[j] \/ VmRank[vm[j]] < VmRank[vm'[j]]

\* run_job, create_job_domain and teardown only go forward: no step of any
\* job, handler or guest takes a task or a machine back to an earlier point.
NeverBack == [][\A j \in Jobs : TaskAdvances(j) /\ VmAdvances(j)]_vars

\* A step to a later point of a task, and the steps of the machine.
LEMMA TaskGoesForward ==
  ASSUME TypeOK, NEW k \in Jobs, NEW p \in PCs, To(k, p),
         TaskRank[pc[k]] < TaskRank[p], NEW j \in Jobs
  PROVE  TaskAdvances(j)
BY DEF TypeOK, To, TaskAdvances

LEMMA VmGoesForward ==
  ASSUME TypeOK, NEW k \in Jobs, NEW s \in VmStates, Goto(k, s),
         VmRank[vm[k]] < VmRank[s], NEW j \in Jobs
  PROVE  VmAdvances(j)
BY DEF TypeOK, VmTypeOK, Goto, VmAdvances

\* create_job_domain and teardown make one call after the other.
LEMMA MachinesAdvance ==
  ASSUME TypeOK, [Next]_vars, NEW j \in Jobs
  PROVE  VmAdvances(j)
<1>1. CASE UNCHANGED vm
  BY <1>1 DEF VmAdvances
<1>2. ASSUME NEW k \in Jobs, VmStep(k)
      PROVE  VmAdvances(j)
  <2> USE DEF VmRank, VmStates, Creating, Tearing
  <2>1. CASE CallCreate(k) \/ CallTeardown(k)
    BY <2>1, VmGoesForward DEF CallCreate, CallTeardown
  <2>2. CASE CreateOverlay(k) \/ CreateNvram(k)
    BY <2>2, VmGoesForward DEF CreateOverlay, CreateNvram
  <2>3. CASE DefineDomain(k) \/ StartDomain(k)
    BY <2>3, VmGoesForward DEF DefineDomain, StartDomain, Abandon
  <2>4. CASE FindNetwork(k) \/ WaitForIp(k)
    BY <2>4, VmGoesForward DEF FindNetwork, WaitForIp, Abandon
  <2>5. CASE TeardownStep(k)
    BY <2>5, VmGoesForward DEF TeardownStep, Destroy, Undefine, RemoveOverlay, RemoveNvram
  <2>6. CASE GetLease(k) \/ GuestStops(k)
    BY <2>6, <1>1 DEF GetLease, GuestStops
  <2> QED
    BY <1>2, <2>1, <2>2, <2>3, <2>4, <2>5, <2>6 DEF VmStep, CreateStep
<1> QED
  BY <1>1, <1>2, HostFrame DEF vars, vmVars

\* run_job goes through its stages once, and leaves them only for its end.
LEMMA TasksAdvance ==
  ASSUME TypeOK, [Next]_vars, NEW j \in Jobs
  PROVE  TaskAdvances(j)
<1> USE DEF TaskRank, PCs, Awaiting, Polling
<1>1. ASSUME NEW k \in Jobs, NEW p \in PCs, ContinueUnlessCancelled(k, p),
             TaskRank[pc[k]] < TaskRank[p], TaskRank[p] < 10
      PROVE  TaskAdvances(j)
  <2>1. pc[k] \in PCs
    BY DEF TypeOK
  <2>2. TaskRank[pc[k]] < TaskRank["teardown"]
    BY <1>1, <2>1
  <2> QED
    BY <1>1, <2>2, TaskGoesForward DEF ContinueUnlessCancelled, TeardownThenReturn
<1>2. ASSUME NEW k \in Jobs, Created(k) \/ BootstrapOk(k) \/ UploadOk(k)
      PROVE  TaskAdvances(j)
  BY <1>1, <1>2 DEF Created, BootstrapOk, UploadOk, At, Resume
<1>3. ASSUME NEW k \in Jobs,
             \/ StartSpawn(k) \/ SetBootstrapping(k) \/ SetUploading(k)
             \/ ConnectOk(k) \/ SetAnalyzing(k) \/ MarkFailed(k)
      PROVE  TaskAdvances(j)
  BY <1>3, TaskGoesForward DEF StartSpawn, SetBootstrapping, SetUploading, ConnectOk,
     SetAnalyzing, MarkFailed, SetStage, At, Resume
<1>4. ASSUME NEW k \in Jobs, To(k, "setFailed"), TaskRank[pc[k]] < 11
      PROVE  TaskAdvances(j)
  BY <1>4, TaskGoesForward
<1>5. ASSUME NEW k \in Jobs, To(k, "teardown"), TaskRank[pc[k]] < 10
      PROVE  TaskAdvances(j)
  BY <1>5, TaskGoesForward
<1>6. ASSUME NEW k \in Jobs,
             CreatePanicked(k) \/ TeardownDone(k) \/ PublishResult(k) \/ PublishError(k)
      PROVE  TaskAdvances(j)
  <2>1. CASE CreatePanicked(k)
    BY <2>1, TaskGoesForward DEF CreatePanicked, At
  <2>2. CASE TeardownDone(k)
    <3>1. \/ At(k, "teardown") /\ To(k, "setResult")
          \/ At(k, "teardown") /\ To(k, "setFailed")
      BY <2>2 DEF TeardownDone
    <3> QED
      BY <3>1, TaskGoesForward DEF At
  <2>3. CASE PublishResult(k) \/ PublishError(k)
    BY <2>3, TaskGoesForward DEF PublishResult, PublishError, At
  <2> QED
    BY <1>6, <2>1, <2>2, <2>3
<1>7. ASSUME NEW k \in Jobs, CreateFailed(k) \/ BootstrapErr(k) \/ ConnectErr(k) \/ UploadErr(k)
      PROVE  TaskAdvances(j)
  <2>1. To(k, "setFailed")
    BY <1>7 DEF CreateFailed, BootstrapErr, ConnectErr, UploadErr, FailWith
  <2>2. pc[k] \in {"create", "bootstrap", "connect", "upload"}
    BY <1>7 DEF CreateFailed, BootstrapErr, ConnectErr, UploadErr, At, Resume
  <2> QED
    BY <1>4, <2>1, <2>2
<1>8. ASSUME NEW k \in Jobs, AnalyzeErr(k) \/ \E r \in Results : AnalyzeOk(k, r)
      PROVE  TaskAdvances(j)
  <2>1. To(k, "teardown") /\ pc[k] = "analyze"
    BY <1>8 DEF AnalyzeErr, AnalyzeOk, TeardownThenReturn, Resume
  <2> QED
    BY <1>5, <2>1
<1>9. ASSUME NEW k \in Jobs, NEW c \in Clients, SubmitJob(c, k)
      PROVE  TaskAdvances(j)
  BY <1>9, TaskGoesForward DEF SubmitJob
<1>10. CASE UNCHANGED pc
  BY <1>10 DEF TaskAdvances
<1>11. ASSUME NEW k \in Jobs, HostStep(k) \/ GuestStep(k) \/ CancelJob(k)
       PROVE  UNCHANGED pc
  BY <1>11 DEF HostStep, GuestStep, CancelJob
<1>12. ASSUME NEW c \in Clients, StreamStep(c) \/ LoseStream(c)
       PROVE  UNCHANGED pc
  BY <1>12 DEF StreamStep, LoseStream
<1> HIDE DEF TaskRank, PCs, Awaiting, Polling
<1>13. ASSUME NEW k \in Jobs, TaskStep(k) \/ CallFails(k)
       PROVE  TaskAdvances(j)
  BY <1>2, <1>3, <1>6, <1>7, <1>8, <1>13 DEF TaskStep, CallFails
<1> QED
  BY <1>9, <1>10, <1>11, <1>12, <1>13 DEF Next, vars

\* A job costs a bounded number of steps, whatever the other jobs, the pages
\* and the faults do: its task takes at most 13 and its machine at most 12.
\* What is left of JobEnds is that the next one is taken.
THEOREM JobsNeverGoBack == Spec => NeverBack
<1>1. TypeOK /\ [Next]_vars => [\A j \in Jobs : TaskAdvances(j) /\ VmAdvances(j)]_vars
  BY TasksAdvance, MachinesAdvance
<1> QED
  BY <1>1, TypeCorrect, PTL DEF Spec, NeverBack
=============================================================================
