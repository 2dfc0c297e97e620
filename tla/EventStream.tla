----------------------------- MODULE EventStream -----------------------------
(***************************************************************************)
(* GET /jobs/{id}/events (routes.rs, job_events) and the page that reads   *)
(* it (frontend.html).  A page holds one EventSource; conn[c] is its state *)
(* as the page and the server see it:                                      *)
(*   none        nothing was submitted from this page yet                  *)
(*   connecting  the request is on its way, or EventSource is retrying     *)
(*   open        the handler holds a broadcast receiver for the page       *)
(*   closed      the page called evtSource.close()                         *)
(*   failed      the server answered 404, after which EventSource gives up *)
(***************************************************************************)
EXTENDS JobTracker

CONSTANTS
  Clients,    \* the pages
  NoJob       \* currentJobId = null

ASSUME ClientsAssumption == NoJob \notin Jobs

VARIABLES
  conn,       \* see above
  watch,      \* the job whose events the page asked for
  from,       \* channel position at which the receiver was created
  next,       \* channel position of the receiver
  got,        \* number of events this receiver delivered
  shown       \* the text of the page's status line

streamVars == <<conn, watch, from, next, got, shown>>

ConnStates == {"none", "connecting", "open", "closed", "failed"}

\* Mutant: one status was forgotten.
FewerStatuses == {"completed", "failed", "spawning_vm", "bootstrapping", "uploading"}

\* The status texts that the page's "status" listener puts on its status line.
FrontendStatuses == {"completed", "failed", "analyzing", "spawning_vm",
                     "bootstrapping", "uploading"}

\* Mutant: a channel too small for the events of one job.
SmallCapacity == 2

\* broadcast::channel(64): a receiver more than this far behind loses events.
ChannelCapacity == 64

StreamInit ==
  /\ conn = [c \in Clients |-> "none"]
  /\ watch = [c \in Clients |-> NoJob]
  /\ from = [c \in Clients |-> 0]
  /\ next = [c \in Clients |-> 0]
  /\ got = [c \in Clients |-> 0]
  /\ shown = [c \in Clients |-> "blank"]

\* upload() got the job id: the status line is set and listen() replaces
\* whatever EventSource there was.
Listen(c, j) ==
  /\ watch' = [watch EXCEPT ![c] = j]
  /\ conn' = [conn EXCEPT ![c] = "connecting"]
  /\ shown' = [shown EXCEPT ![c] = "queued"]
  /\ UNCHANGED <<from, next, got>>

\* A receiver sees what is sent after it was created, nothing earlier.
subscribe(c) ==
  LET j == watch[c] IN
  /\ conn[c] = "connecting"
  /\ IF j \in tx
     THEN /\ conn' = [conn EXCEPT ![c] = "open"]
          /\ from' = [from EXCEPT ![c] = Len(events[j])]
          /\ next' = [next EXCEPT ![c] = Len(events[j])]
          /\ got' = [got EXCEPT ![c] = 0]
     ELSE /\ conn' = [conn EXCEPT ![c] = "failed"]
          /\ UNCHANGED <<from, next, got>>
  /\ UNCHANGED <<watch, shown>>

\* The position recv() reads at: a lagging receiver is moved up to the oldest
\* event the channel still holds, and the handler just carries on.
ReadPosition(c) ==
  LET oldest == Len(events[watch[c]]) - ChannelCapacity
  IN  IF next[c] < oldest THEN oldest + 1 ELSE next[c] + 1

\* What the page does with an event.  It has no listener for "error" that
\* looks at the data: onerror only logs, and only once the source is closed.
Display(c, e) ==
  /\ shown' = CASE e.name = "status" /\ e.data \in FrontendStatuses ->
                     [shown EXCEPT ![c] = e.data]
                [] e.name = "completed" -> [shown EXCEPT ![c] = "completed"]
                [] e.name = "analysis_error" -> [shown EXCEPT ![c] = "failed"]
                [] OTHER -> shown
  /\ conn' = IF e.name \in {"completed", "analysis_error"}
             THEN [conn EXCEPT ![c] = "closed"] ELSE conn

recv(c) ==
  /\ conn[c] = "open"
  /\ next[c] < Len(events[watch[c]])
  /\ Display(c, events[watch[c]][ReadPosition(c)])
  /\ next' = [next EXCEPT ![c] = ReadPosition(c)]
  /\ got' = [got EXCEPT ![c] = @ + 1]
  /\ UNCHANGED <<watch, from>>

\* RecvError::Closed ends the response; EventSource then connects again.
EndStream(c) ==
  /\ conn[c] = "open"
  /\ watch[c] \notin tx
  /\ next[c] = Len(events[watch[c]])
  /\ conn' = [conn EXCEPT ![c] = "connecting"]
  /\ UNCHANGED <<watch, from, next, got, shown>>

\* The connection breaks and EventSource connects again.
DropStream(c) ==
  /\ "drop" \in Faults
  /\ conn[c] = "open"
  /\ conn' = [conn EXCEPT ![c] = "connecting"]
  /\ UNCHANGED <<watch, from, next, got, shown>>
=============================================================================
