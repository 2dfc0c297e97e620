----------------------------- MODULE JobTracker -----------------------------
(***************************************************************************)
(* JobTracker of malbox-controller (job.rs): the map from job ids to jobs  *)
(* behind one RwLock.  Every method takes the lock once, so every operator *)
(* below is one critical section.                                          *)
(*                                                                         *)
(* A job's broadcast channel is the sequence of the events ever sent on    *)
(* it; a receiver is an index into that sequence (module EventStream).     *)
(***************************************************************************)
EXTENDS ControllerParameters, Naturals, Sequences

CONSTANTS
  Results,    \* values of AnalysisResult
  NoResult    \* Option::None

ASSUME ResultsAssumption == NoResult \notin Results

JobStatus == {"Queued", "SpawningVm", "Bootstrapping", "Uploading",
              "Analyzing", "Completed", "Failed"}

\* What jobs.get(id) = None looks like here.
Absent == "Absent"

VARIABLES
  status,     \* jobs[id].status, or Absent when the map has no such id
  result,     \* jobs[id].result
  tx,         \* the ids whose Job still holds its broadcast sender
  events      \* per id, the events sent so far

trackerVars == <<status, result, tx, events>>

\* format!("{:?}", status).to_lowercase(): what the event stream carries.
StatusText == [Queued |-> "queued", SpawningVm |-> "spawningvm",
               Bootstrapping |-> "bootstrapping", Uploading |-> "uploading",
               Analyzing |-> "analyzing", Completed |-> "completed",
               Failed |-> "failed"]

\* serde's rename_all = "snake_case": what GET /jobs/{id} carries.
ApiStatus == [Queued |-> "queued", SpawningVm |-> "spawning_vm",
              Bootstrapping |-> "bootstrapping", Uploading |-> "uploading",
              Analyzing |-> "analyzing", Completed |-> "completed",
              Failed |-> "failed"]

(***************************************************************************)
(* JobEvent, tagged with the SSE event name routes.rs gives each variant.  *)
(***************************************************************************)
StatusChanged(s) == [name |-> "status", data |-> StatusText[s]]
Error(m)         == [name |-> "error", data |-> m]
Completed(r)     == [name |-> "completed", data |-> r]

\* The last event of a channel on which an outcome was announced.
IsOutcome(e) == e.name \in {"error", "completed"}

-----------------------------------------------------------------------------
TrackerInit ==
  /\ status = [j \in Jobs |-> Absent]
  /\ result = [j \in Jobs |-> NoResult]
  /\ tx = {}
  /\ events = [j \in Jobs |-> <<>>]

has(j) == status[j] # Absent

\* tx.send, when the job still has its sender.
Send(j, e) ==
  events' = IF j \in tx THEN [events EXCEPT ![j] = Append(@, e)] ELSE events

\* The map insertion of submit; the task spawned there is module Controller's.
Insert(j) ==
  /\ status' = [status EXCEPT ![j] = "Queued"]
  /\ tx' = tx \cup {j}
  /\ UNCHANGED <<result, events>>

\* Removing the entry drops the Job, and with it the sender.
Remove(j) ==
  /\ status' = [status EXCEPT ![j] = Absent]
  /\ result' = [result EXCEPT ![j] = NoResult]
  /\ tx' = tx \ {j}
  /\ UNCHANGED events

\* Mutant: the entry is written even if the job was deleted meanwhile.
set_status_reviving(j, s) ==
  /\ status' = [status EXCEPT ![j] = s]
  /\ Send(j, StatusChanged(s))
  /\ UNCHANGED <<result, tx>>

\* Mutant: the event carries the status the job had before.
set_status_stale(j, s) ==
  /\ status' = IF has(j) THEN [status EXCEPT ![j] = s] ELSE status
  /\ events' = IF j \in tx THEN [events EXCEPT ![j] = Append(@, StatusChanged(status[j]))]
               ELSE events
  /\ UNCHANGED <<result, tx>>

set_status(j, s) ==
  /\ status' = IF has(j) THEN [status EXCEPT ![j] = s] ELSE status
  /\ Send(j, StatusChanged(s))
  /\ UNCHANGED <<result, tx>>

set_result(j, r) ==
  /\ Send(j, Completed(r))
  /\ IF has(j)
     THEN /\ status' = [status EXCEPT ![j] = "Completed"]
          /\ result' = [result EXCEPT ![j] = r]
          /\ tx' = tx \ {j}
     ELSE UNCHANGED <<status, result, tx>>

\* Mutant: the sender is dropped without sending the error.
emit_error_silent(j, m) ==
  /\ tx' = tx \ {j}
  /\ UNCHANGED <<status, result, events>>

emit_error(j, m) ==
  /\ Send(j, Error(m))
  /\ tx' = tx \ {j}
  /\ UNCHANGED <<status, result>>
=============================================================================
