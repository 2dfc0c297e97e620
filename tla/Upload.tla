------------------------------- MODULE Upload -------------------------------
(***************************************************************************)
(* The upload of a sample: upload_sample of the controller (job.rs) with   *)
(* the reader task it spawns, the gRPC stream, and upload_sample of the    *)
(* agent (agent.rs).                                                       *)
(*                                                                         *)
(* A file is the sequence of the chunks the reader gets from it, chunk i   *)
(* being the number i.  A file name is one of a few kinds, which is all    *)
(* the two programs tell apart.                                            *)
(***************************************************************************)
EXTENDS Naturals, Sequences

CONSTANTS
  MaxChunks,    \* bound: chunks of a file
  Window,       \* bound: chunks on their way in the HTTP/2 stream
  UploadFaults  \* what may fail

UploadFaultKinds == {
  "open",       \* the controller cannot open the stored sample
  "read",       \* a read of it fails
  "disk",       \* the agent cannot create, write or flush its file
  "break",      \* the connection breaks, and both ends see it
  "silence"     \* nothing comes through any more and nobody is told: the
                \* guest is gone or the network drops everything
}

ASSUME UploadAssumption ==
  /\ MaxChunks \in Nat /\ Window \in Nat \ {0}
  /\ UploadFaults \subseteq UploadFaultKinds

(***************************************************************************)
(* submit_job keeps what Linux takes for the last component of the name,   *)
(* so a Windows path arrives as it is.                                     *)
(*   plain     a name, or a path that leads to one in the upload directory *)
(*   padded    begins with a space                                         *)
(*   blank     nothing but spaces                                          *)
(*   nested    has a directory in it that the agent does not have          *)
(*   absolute  replaces the upload directory in join()                     *)
(*   parent    leads out of it with "..", which starts_with() compares     *)
(*             with the directory without resolving it                     *)
(***************************************************************************)
Names == {"plain", "padded", "blank", "nested", "absolute", "parent"}

\* The agent's first_chunk.filename.trim().
Trimmed(n) == CASE n = "padded" -> "plain" [] n = "blank" -> "" [] OTHER -> n

\* Names under which File::create makes a file, in the directory or above it.
Creatable == {"plain", "parent"}

QueueCapacity == 4      \* mpsc::channel(4)

VARIABLES
  size,         \* chunks in the file on the controller's disk
  name,         \* sample_name
  up,           \* upload_sample of the controller: open, call, ok, failed
  rd,           \* the reader task: none, reading, ended
  pos,          \* chunks it has read
  readErr,      \* its read has failed
  queue,        \* the mpsc channel; gone with the call
  wire,         \* chunks sent and not yet received
  ag,           \* upload_sample of the agent: none, first, rest, ok, error
  disk,         \* chunks in the agent's file
  link          \* the connection: up, or silent

given == <<size, name, link>>
sender == <<up, rd, pos, readErr, queue>>
uvars == <<given, sender, wire, ag, disk>>

UInit ==
  /\ size \in 0..MaxChunks /\ name \in Names
  /\ up = "open" /\ rd = "none" /\ pos = 0 /\ readErr = FALSE
  /\ queue = <<>> /\ wire = <<>> /\ ag = "none" /\ disk = <<>>
  /\ link = "up"

-----------------------------------------------------------------------------
(***************************************************************************)
(* The controller.                                                         *)
(***************************************************************************)
OpenAndCall ==
  /\ up = "open"
  /\ \/ up' = "call" /\ rd' = "reading" /\ ag' = "first"
     \/ "open" \in UploadFaults /\ up' = "failed" /\ UNCHANGED <<rd, ag>>
  /\ UNCHANGED <<given, pos, readErr, queue, wire, disk>>

\* Mutant: try_send, and a full queue taken for a closed one.
ReadChunkImpatient ==
  /\ rd = "reading" /\ up = "call"
  /\ pos < size
  /\ pos' = pos + 1
  /\ \/ Len(queue) < QueueCapacity /\ queue' = Append(queue, pos + 1) /\ UNCHANGED rd
     \/ Len(queue) = QueueCapacity /\ rd' = "ended" /\ UNCHANGED queue
  /\ UNCHANGED <<given, up, readErr, wire, ag, disk>>

\* tx.send() waits for room.
ReadChunk ==
  /\ rd = "reading" /\ up = "call"
  /\ pos < size /\ Len(queue) < QueueCapacity
  /\ pos' = pos + 1
  /\ queue' = Append(queue, pos + 1)
  /\ UNCHANGED <<given, up, rd, readErr, wire, ag, disk>>

\* Mutant: the reader goes on while nobody takes the chunks any more.
ReaderEndsAtEof ==
  /\ rd = "reading"
  /\ pos = size
  /\ rd' = "ended"
  /\ UNCHANGED <<given, up, pos, readErr, queue, wire, ag, disk>>

\* The end of the file, a failed read and a send into a channel whose
\* receiver went with the call all break the loop in the same way.
ReaderEnds ==
  /\ rd = "reading"
  /\ \/ pos = size /\ UNCHANGED readErr
     \/ pos < size /\ up # "call" /\ UNCHANGED readErr
     \/ "read" \in UploadFaults /\ readErr' = TRUE
  /\ rd' = "ended"
  /\ UNCHANGED <<given, up, pos, queue, wire, ag, disk>>

\* The gRPC client takes a chunk from the channel when the stream has room.
Forward ==
  /\ up = "call"
  /\ queue # <<>> /\ Len(wire) < Window
  /\ wire' = Append(wire, Head(queue))
  /\ queue' = Tail(queue)
  /\ UNCHANGED <<given, up, rd, pos, readErr, ag, disk>>

\* The answer ends the call and drops the channel's receiver.
Answered ==
  /\ up = "call" /\ link = "up"
  /\ ag \in {"ok", "error"}
  /\ up' = IF ag = "ok" THEN "ok" ELSE "failed"
  /\ queue' = <<>> /\ wire' = <<>>
  /\ UNCHANGED <<given, rd, pos, readErr, ag, disk>>

-----------------------------------------------------------------------------
(***************************************************************************)
(* The agent.                                                              *)
(***************************************************************************)
EndOfStream == rd = "ended" /\ queue = <<>> /\ wire = <<>>

AgentTo(a) == ag' = a /\ UNCHANGED <<given, sender>>

\* Mutant: only the chunks of the loop are written.
FirstChunkDropped ==
  /\ ag = "first" /\ up = "call" /\ link = "up"
  /\ wire # <<>>
  /\ Trimmed(name) \in Creatable
  /\ AgentTo("rest") /\ disk' = <<>>
  /\ wire' = Tail(wire)

\* Mutant: the directories in the name are created as well.
FirstChunkNested ==
  /\ ag = "first" /\ up = "call" /\ link = "up"
  /\ wire # <<>>
  /\ wire' = Tail(wire)
  /\ \/ Trimmed(name) \in Creatable \cup {"nested"} /\ disk' = <<Head(wire)>> /\ AgentTo("rest")
     \/ Trimmed(name) \in {"", "absolute"} /\ UNCHANGED disk /\ AgentTo("error")

\* The stream's first message: the name is checked, the directory and the file
\* created and the chunk written.
FirstChunk ==
  /\ ag = "first" /\ up = "call" /\ link = "up"
  /\ wire # <<>>
  /\ wire' = Tail(wire)
  /\ \/ Trimmed(name) \in Creatable /\ disk' = <<Head(wire)>> /\ AgentTo("rest")
     \/ Trimmed(name) \in {"", "nested", "absolute"} /\ UNCHANGED disk /\ AgentTo("error")
     \/ "disk" \in UploadFaults /\ UNCHANGED disk /\ AgentTo("error")

\* "file stream is empty".
EmptyStream ==
  /\ ag = "first" /\ up = "call" /\ link = "up"
  /\ EndOfStream
  /\ AgentTo("error")
  /\ UNCHANGED <<wire, disk>>

NextChunk ==
  /\ ag = "rest" /\ up = "call" /\ link = "up"
  /\ wire # <<>>
  /\ wire' = Tail(wire)
  /\ \/ disk' = Append(disk, Head(wire)) /\ AgentTo("rest")
     \/ "disk" \in UploadFaults /\ UNCHANGED disk /\ AgentTo("error")

Flush ==
  /\ ag = "rest" /\ up = "call" /\ link = "up"
  /\ EndOfStream
  /\ \/ AgentTo("ok")
     \/ "disk" \in UploadFaults /\ AgentTo("error")
  /\ UNCHANGED <<wire, disk>>

\* Both ends see an error; what the agent has written stays.
ConnectionBreaks ==
  /\ "break" \in UploadFaults
  /\ up = "call"
  /\ up' = "failed" /\ queue' = <<>> /\ wire' = <<>>
  /\ ag' = IF ag \in {"first", "rest"} THEN "error" ELSE ag
  /\ UNCHANGED <<given, rd, pos, readErr, disk>>

\* From here on neither end hears of the other.  An end that is sending may get
\* an error in the end (ConnectionBreaks), one that waits for an answer never.
PeerFallsSilent ==
  /\ "silence" \in UploadFaults
  /\ link = "up"
  /\ link' = "silent"
  /\ UNCHANGED <<size, name, sender, wire, ag, disk>>

UploadStep == \/ OpenAndCall \/ ReadChunk \/ ReaderEnds \/ Forward \/ Answered
              \/ FirstChunk \/ EmptyStream \/ NextChunk \/ Flush

UNext == UploadStep \/ ConnectionBreaks \/ PeerFallsSilent

USpec == UInit /\ [][UNext]_uvars

(***************************************************************************)
(* The job's task, the reader task, the connection and the agent's handler *)
(* all run; nothing has to fail, and nothing runs on a silent connection.   *)
(***************************************************************************)
UFairSpec ==
  /\ USpec
  /\ WF_uvars(OpenAndCall \/ Answered) /\ WF_uvars(ReadChunk \/ ReaderEnds) /\ WF_uvars(Forward)
  /\ WF_uvars(FirstChunk \/ EmptyStream \/ NextChunk \/ Flush)

-----------------------------------------------------------------------------
(***************************************************************************)
(* What the upload promises.                                               *)
(***************************************************************************)
Chunks(n) == [i \in 1..n |-> i]

\* Nothing is lost, repeated or reordered between the reader task and the
\* agent's file while the call lasts, and no more than the channel and the
\* stream hold is on its way; afterwards the file holds a prefix.
InOrder ==
  /\ Len(queue) <= QueueCapacity /\ Len(wire) <= Window
  /\ disk = Chunks(Len(disk))
  /\ up = "call" /\ ag \in {"first", "rest"} => disk \o wire \o queue = Chunks(pos)

\* An acknowledged upload has stored the whole sample, and that is not empty;
\* only a failed read on the controller (job.rs breaks its loop as at the end
\* of the file) makes the agent acknowledge less.
AckMeansWhole ==
  up = "ok" => /\ disk # <<>>
               /\ disk = Chunks(size) \/ (readErr /\ Len(disk) < size)

\* upload_sample returns, whatever the file, its name and the faults, and the
\* reader task ends as well, also when the agent has refused the file while
\* chunks were waiting in the channel.  It waits for ever only for a guest that
\* has fallen silent: there is no timeout.
UploadEnds ==
  up = "open" ~> (up \in {"ok", "failed"} /\ rd # "reading") \/ link = "silent"
-----------------------------------------------------------------------------
(***************************************************************************)
(* The inductive invariant.                                                *)
(***************************************************************************)
UTypeOK ==
  /\ size \in 0..MaxChunks /\ name \in Names
  /\ up \in {"open", "call", "ok", "failed"}
  /\ rd \in {"none", "reading", "ended"}
  /\ pos \in 0..size /\ readErr \in BOOLEAN
  /\ queue \in Seq(Nat) /\ wire \in Seq(Nat) /\ disk \in Seq(Nat)
  /\ ag \in {"none", "first", "rest", "ok", "error"}
  /\ link \in {"up", "silent"}

\* What is on its way follows what is on the agent's disk.
InFlight ==
  up = "call" /\ ag \in {"first", "rest"} =>
    /\ pos = Len(disk) + Len(wire) + Len(queue)
    /\ \A i \in 1..Len(wire) : wire[i] = Len(disk) + i
    /\ \A i \in 1..Len(queue) : queue[i] = Len(disk) + Len(wire) + i

Bounded ==
  /\ Len(queue) <= QueueCapacity /\ Len(wire) <= Window
  /\ \A i \in 1..Len(disk) : disk[i] = i

HandlerTracks ==
  /\ up = "open" => ag = "none" /\ rd = "none" /\ pos = 0 /\ queue = <<>> /\ wire = <<>>
  /\ up = "call" => ag # "none"
  /\ up = "ok" => ag = "ok"
  /\ ag \in {"none", "first"} => disk = <<>>
  /\ ag \in {"rest", "ok"} => Len(disk) > 0 /\ Trimmed(name) \in Creatable
  /\ ag = "ok" => rd = "ended" /\ Len(disk) = pos
  /\ rd = "ended" /\ up \in {"call", "ok"} => pos = size \/ readErr

\* At every step of the two upload_sample functions, of the reader task and of
\* the connection: the chunks in the agent's file, on the wire and in the
\* channel are consecutive, and the agent acknowledges only after the reader
\* has ended and everything it read has come through.
UInv == UTypeOK /\ InFlight /\ Bounded /\ HandlerTracks
=============================================================================
