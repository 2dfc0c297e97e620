---------------------------- MODULE JobLifecycle ----------------------------
(***************************************************************************)
(* What the HTTP interface promises about a job, whatever happens to its   *)
(* virtual machine: GET /jobs/{id} only ever moves forward through the     *)
(* stages of run_job_inner, DELETE is final, and the job's event stream    *)
(* announces at most one outcome, the one the job has.                     *)
(***************************************************************************)
CONSTANTS Jobs

VARIABLES
  phase,      \* what GET /jobs/{id} reports
  told        \* the outcome the event stream has announced

lifecycleVars == <<phase, told>>

Stages  == {"Queued", "SpawningVm", "Bootstrapping", "Uploading", "Analyzing"}
Phases  == Stages \cup {"none", "Completed", "Failed", "Cancelled"}
Outcome == {"nothing", "result", "error"}

\* The stage that may follow a stage.
NextStage == [Queued |-> "SpawningVm", SpawningVm |-> "Bootstrapping",
              Bootstrapping |-> "Uploading", Uploading |-> "Analyzing"]

LInit ==
  /\ phase = [j \in Jobs |-> "none"]
  /\ told = [j \in Jobs |-> "nothing"]

Become(j, p) == phase' = [phase EXCEPT ![j] = p]
Tell(j, o)   == told' = [told EXCEPT ![j] = o]

Submit(j) == phase[j] = "none" /\ Become(j, "Queued") /\ UNCHANGED told

Advance(j) ==
  /\ phase[j] \in DOMAIN NextStage
  /\ Become(j, NextStage[phase[j]])
  /\ UNCHANGED told

\* The result is announced in the step that makes it available.
Complete(j) ==
  /\ phase[j] = "Analyzing"
  /\ Become(j, "Completed")
  /\ Tell(j, "result")

\* A failure is visible first and announced afterwards.  A job that is still
\* queued cannot fail.
Fail(j) ==
  /\ phase[j] \in Stages \ {"Queued"}
  /\ Become(j, "Failed")
  /\ UNCHANGED told

Announce(j) ==
  /\ phase[j] = "Failed"
  /\ told[j] = "nothing"
  /\ Tell(j, "error")
  /\ UNCHANGED phase

Cancel(j) ==
  /\ phase[j] \notin {"none", "Cancelled"}
  /\ Become(j, "Cancelled")
  /\ UNCHANGED told

LNext ==
  \E j \in Jobs : \/ Submit(j) \/ Advance(j) \/ Complete(j)
                  \/ Fail(j) \/ Announce(j) \/ Cancel(j)

LSpec == LInit /\ [][LNext]_lifecycleVars
=============================================================================
