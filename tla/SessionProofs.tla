--------------------------- MODULE SessionProofs ---------------------------
(***************************************************************************)
(* Theorems about the upload of a sample, for files of any length, any     *)
(* window of the stream and any choice of faults, and about the session    *)
(* it is a part of, from the invariants of the upload and of the analysis. *)
(***************************************************************************)
EXTENDS Session, AnalysisProofs

USE DEF given, sender, AgentTo

-----------------------------------------------------------------------------
\* What the operators on sequences do to positions.
LEMMA Appended ==
  ASSUME NEW s \in Seq(Nat), NEW x \in Nat
  PROVE  /\ Append(s, x) \in Seq(Nat)
         /\ Len(Append(s, x)) = Len(s) + 1
         /\ \A i \in 1..Len(s) : Append(s, x)[i] = s[i]
         /\ Append(s, x)[Len(s) + 1] = x
  OBVIOUS

LEMMA Taken ==
  ASSUME NEW s \in Seq(Nat), s # <<>>
  PROVE  /\ Tail(s) \in Seq(Nat) /\ Head(s) \in Nat /\ Head(s) = s[1]
         /\ Len(s) \in Nat \ {0} /\ Len(Tail(s)) = Len(s) - 1
         /\ \A i \in 1..(Len(s) - 1) : Tail(s)[i] = s[i + 1]
  OBVIOUS

LEMMA Nothing == <<>> \in Seq(Nat) /\ Len(<<>>) = 0
  OBVIOUS

\* A sequence that holds i at position i is what was read of the file.
LEMMA IsChunks ==
  ASSUME NEW s \in Seq(Nat), \A i \in 1..Len(s) : s[i] = i
  PROVE  s = Chunks(Len(s))
  BY DEF Chunks

-----------------------------------------------------------------------------
\* Nothing is under way before the call.
LEMMA UInitOK == UInit => UInv
<1> SUFFICES ASSUME UInit PROVE UInv
  OBVIOUS
<1>1. readErr \in BOOLEAN
  BY Zenon DEF UInit
<1>2. UTypeOK
  BY <1>1, Nothing, UploadAssumption DEF UInit, UTypeOK
<1>3. InFlight /\ Bounded /\ HandlerTracks
  BY Nothing, UploadAssumption DEF UInit, InFlight, Bounded, HandlerTracks, QueueCapacity
<1> QED
  BY <1>2, <1>3 DEF UInv

\* The steps that move no chunk while the call lasts.
LEMMA CallPreserves ==
  ASSUME UInv, OpenAndCall \/ ReaderEnds \/ PeerFallsSilent
  PROVE  UInv'
<1> USE DEF UInv, UTypeOK
<1>1. readErr' \in BOOLEAN
  BY Zenon DEF OpenAndCall, ReaderEnds, PeerFallsSilent
<1>2. UTypeOK'
  BY <1>1 DEF OpenAndCall, ReaderEnds, PeerFallsSilent
<1>3. InFlight'
  <2>1. CASE ReaderEnds \/ PeerFallsSilent
    BY <2>1 DEF InFlight, ReaderEnds, PeerFallsSilent
  <2>2. CASE OpenAndCall
    <3>1. pos = 0 /\ disk = <<>> /\ wire = <<>> /\ queue = <<>>
      BY <2>2 DEF OpenAndCall, HandlerTracks
    <3>2. UNCHANGED <<pos, disk, wire, queue>>
      BY <2>2 DEF OpenAndCall
    <3> QED
      BY <3>1, <3>2, Nothing DEF InFlight
  <2> QED
    BY <2>1, <2>2
<1>4. Bounded' /\ HandlerTracks'
  BY DEF Bounded, HandlerTracks, OpenAndCall, ReaderEnds, PeerFallsSilent
<1> QED
  BY <1>2, <1>3, <1>4

\* The call ends, with an answer or without.
LEMMA EndPreserves ==
  ASSUME UInv, Answered \/ ConnectionBreaks
  PROVE  UInv'
<1> USE Nothing, UploadAssumption DEF UInv, UTypeOK
<1>1. UTypeOK'
  BY DEF Answered, ConnectionBreaks
<1>2. InFlight' /\ Bounded'
  BY DEF InFlight, Bounded, QueueCapacity, Answered, ConnectionBreaks
<1>3. HandlerTracks'
  BY DEF HandlerTracks, Answered, ConnectionBreaks
<1> QED
  BY <1>1, <1>2, <1>3

\* A chunk goes from the file into the channel.
LEMMA ReadPreserves ==
  ASSUME UInv, ReadChunk
  PROVE  UInv'
<1> USE DEF UInv, UTypeOK, ReadChunk
<1>1. /\ queue' \in Seq(Nat) /\ Len(queue') = Len(queue) + 1
      /\ \A i \in 1..Len(queue) : queue'[i] = queue[i]
      /\ queue'[Len(queue) + 1] = pos + 1
  BY Appended
<1>2. UTypeOK'
  BY <1>1
<1>3. InFlight'
  <2> SUFFICES ASSUME ag \in {"first", "rest"}
               PROVE  /\ pos' = Len(disk) + Len(wire) + Len(queue')
                      /\ \A i \in 1..Len(wire) : wire[i] = Len(disk) + i
                      /\ \A i \in 1..Len(queue') : queue'[i] = Len(disk) + Len(wire) + i
    BY DEF InFlight
  <2>1. /\ pos = Len(disk) + Len(wire) + Len(queue)
        /\ \A i \in 1..Len(wire) : wire[i] = Len(disk) + i
        /\ \A i \in 1..Len(queue) : queue[i] = Len(disk) + Len(wire) + i
    BY DEF InFlight
  <2>2. Len(disk) \in Nat /\ Len(wire) \in Nat /\ Len(queue) \in Nat /\ pos' = pos + 1
    OBVIOUS
  <2> HIDE DEF UInv, UTypeOK, ReadChunk
  <2> QED
    BY <1>1, <2>1, <2>2
<1>4. Bounded'
  BY <1>1 DEF Bounded, QueueCapacity
<1>5. HandlerTracks'
  BY DEF HandlerTracks
<1> QED
  BY <1>2, <1>3, <1>4, <1>5

\* A chunk goes from the channel into the stream.
LEMMA ForwardPreserves ==
  ASSUME UInv, Forward
  PROVE  UInv'
<1> USE DEF UInv, UTypeOK, Forward
<1>1. /\ queue' \in Seq(Nat) /\ Head(queue) \in Nat /\ Head(queue) = queue[1]
      /\ Len(queue) \in Nat \ {0} /\ Len(queue') = Len(queue) - 1
      /\ \A i \in 1..(Len(queue) - 1) : queue'[i] = queue[i + 1]
  BY Taken
<1>2. /\ wire' \in Seq(Nat) /\ Len(wire) \in Nat /\ Len(wire') = Len(wire) + 1
      /\ \A i \in 1..Len(wire) : wire'[i] = wire[i]
      /\ wire'[Len(wire) + 1] = queue[1]
  BY <1>1, Appended
<1>3. UTypeOK'
  BY <1>1, <1>2
<1>4. InFlight'
  <2> SUFFICES ASSUME ag \in {"first", "rest"}
               PROVE  /\ pos = Len(disk) + Len(wire') + Len(queue')
                      /\ \A i \in 1..Len(wire') : wire'[i] = Len(disk) + i
                      /\ \A i \in 1..Len(queue') : queue'[i] = Len(disk) + Len(wire') + i
    BY DEF InFlight
  <2>1. /\ pos = Len(disk) + Len(wire) + Len(queue)
        /\ \A i \in 1..Len(wire) : wire[i] = Len(disk) + i
        /\ \A i \in 1..Len(queue) : queue[i] = Len(disk) + Len(wire) + i
    BY DEF InFlight
  <2>2. Len(disk) \in Nat
    OBVIOUS
  <2> HIDE DEF UInv, UTypeOK, Forward
  <2>3. pos = Len(disk) + Len(wire') + Len(queue')
    BY <1>1, <1>2, <2>1, <2>2
  <2>4. ASSUME NEW i \in 1..Len(wire') PROVE wire'[i] = Len(disk) + i
    <3>1. queue[1] = Len(disk) + Len(wire) + 1
      BY <1>1, <2>1
    <3>2. CASE i \in 1..Len(wire)
      BY <1>2, <2>1, <3>2
    <3>3. CASE i = Len(wire) + 1
      BY <1>2, <2>2, <3>1, <3>3
    <3> QED
      BY <1>2, <3>2, <3>3
  <2>5. ASSUME NEW i \in 1..Len(queue') PROVE queue'[i] = Len(disk) + Len(wire') + i
    <3>1. i \in 1..(Len(queue) - 1) /\ i + 1 \in 1..Len(queue)
      BY <1>1
    <3>2. queue'[i] = Len(disk) + Len(wire) + (i + 1)
      BY <1>1, <2>1, <3>1
    <3> QED
      BY <1>1, <1>2, <2>2, <3>1, <3>2
  <2> QED
    BY <2>3, <2>4, <2>5
<1>5. Bounded'
  BY <1>1, <1>2, UploadAssumption DEF Bounded, QueueCapacity
<1>6. HandlerTracks'
  BY DEF HandlerTracks
<1> QED
  BY <1>3, <1>4, <1>5, <1>6

\* A chunk goes from the stream into the agent's file, or is refused.
LEMMA ReceivePreserves ==
  ASSUME UInv, FirstChunk \/ NextChunk
  PROVE  UInv'
<1> USE DEF UInv, UTypeOK
<1>1. /\ wire # <<>> /\ wire' = Tail(wire) /\ up = "call" /\ ag \in {"first", "rest"}
      /\ UNCHANGED <<given, sender>>
  BY DEF FirstChunk, NextChunk
<1>2. /\ wire' \in Seq(Nat) /\ Head(wire) \in Nat /\ Head(wire) = wire[1]
      /\ Len(wire) \in Nat \ {0} /\ Len(wire') = Len(wire) - 1
      /\ \A i \in 1..(Len(wire) - 1) : wire'[i] = wire[i + 1]
  BY <1>1, Taken
<1>3. CASE ag' = "error" /\ UNCHANGED disk
  BY <1>1, <1>2, <1>3, UploadAssumption DEF InFlight, Bounded, HandlerTracks
<1>4. CASE ag' = "rest" /\ disk' = Append(disk, Head(wire)) /\ Trimmed(name) \in Creatable
  <2>1. /\ disk' \in Seq(Nat) /\ Len(disk) \in Nat /\ Len(disk') = Len(disk) + 1
        /\ \A i \in 1..Len(disk) : disk'[i] = disk[i]
        /\ disk'[Len(disk) + 1] = wire[1]
    BY <1>2, <1>4, Appended
  <2>2. UTypeOK'
    BY <1>1, <1>2, <1>4, <2>1
  <2>3. InFlight'
    <3>1. /\ pos = Len(disk) + Len(wire) + Len(queue)
          /\ \A i \in 1..Len(wire) : wire[i] = Len(disk) + i
          /\ \A i \in 1..Len(queue) : queue[i] = Len(disk) + Len(wire) + i
      BY <1>1 DEF InFlight
    <3>2. Len(queue) \in Nat /\ pos' = pos /\ queue' = queue
      BY <1>1
    <3> HIDE DEF UInv, UTypeOK
    <3>3. pos' = Len(disk') + Len(wire') + Len(queue')
      BY <1>2, <2>1, <3>1, <3>2
    <3>4. ASSUME NEW i \in 1..Len(wire') PROVE wire'[i] = Len(disk') + i
      <4>1. i \in 1..(Len(wire) - 1) /\ i + 1 \in 1..Len(wire)
        BY <1>2
      <4>2. wire'[i] = Len(disk) + (i + 1)
        BY <1>2, <3>1, <4>1
      <4> QED
        BY <1>2, <2>1, <4>1, <4>2
    <3>5. ASSUME NEW i \in 1..Len(queue') PROVE queue'[i] = Len(disk') + Len(wire') + i
      BY <1>2, <2>1, <3>1, <3>2
    <3> QED
      BY <3>3, <3>4, <3>5 DEF InFlight
  <2>4. Bounded'
    BY <1>1, <1>2, <1>4, <2>1, UploadAssumption DEF InFlight, Bounded
  <2>5. HandlerTracks'
    BY <1>1, <1>4, <2>1 DEF HandlerTracks
  <2> QED  BY <2>2, <2>3, <2>4, <2>5
<1>5. CASE FirstChunk
  <2>1. disk = <<>>
    BY <1>5 DEF FirstChunk, HandlerTracks
  <2>2. <<Head(wire)>> = Append(disk, Head(wire))
    BY <1>2, <2>1
  <2> QED  BY <1>3, <1>4, <1>5, <2>2 DEF FirstChunk
<1>6. CASE NextChunk
  BY <1>3, <1>4, <1>6 DEF NextChunk, HandlerTracks
<1> QED
  BY <1>5, <1>6

\* The agent sees the end of the stream.
LEMMA FinishPreserves ==
  ASSUME UInv, EmptyStream \/ Flush
  PROVE  UInv'
<1> USE Nothing DEF UInv, UTypeOK, EmptyStream, Flush, EndOfStream
<1>1. UTypeOK'
  OBVIOUS
<1>2. InFlight' /\ Bounded'
  BY DEF InFlight, Bounded
<1>3. HandlerTracks'
  BY DEF InFlight, HandlerTracks
<1> QED
  BY <1>1, <1>2, <1>3

\* Every step keeps the invariant, in any system the upload is part of.
LEMMA UploadPreserves ==
  ASSUME UInv, [UNext]_uvars
  PROVE  UInv'
<1>1. CASE UNCHANGED uvars
  BY <1>1 DEF uvars, UInv, UTypeOK, InFlight, Bounded, HandlerTracks
<1> QED
  BY <1>1, CallPreserves, EndPreserves, ReadPreserves, ForwardPreserves, ReceivePreserves,
     FinishPreserves DEF UNext, UploadStep

-----------------------------------------------------------------------------
\* The invariant of the upload.
THEOREM UploadInvariant == USpec => []UInv
<1>1. UInit => UInv
  BY UInitOK
<1>2. UInv /\ [UNext]_uvars => UInv'
  BY UploadPreserves
<1> QED
  BY <1>1, <1>2, PTL DEF USpec

\* What the invariant says of an acknowledged upload.
LEMMA InvAck == UInv => AckMeansWhole
<1> SUFFICES ASSUME UInv, up = "ok"
             PROVE  disk # <<>> /\ (disk = Chunks(size) \/ (readErr /\ Len(disk) < size))
  BY DEF AckMeansWhole
<1> USE DEF UInv, UTypeOK
<1>1. disk = Chunks(pos) /\ Len(disk) = pos /\ Len(disk) > 0
  BY IsChunks DEF Bounded, HandlerTracks
<1>2. pos = size \/ readErr
  BY DEF HandlerTracks
<1> QED
  BY <1>1, <1>2

\* An acknowledged upload has stored the whole sample, or a read has failed.
THEOREM AcknowledgedIsWhole == USpec => []AckMeansWhole
  BY UploadInvariant, InvAck, PTL

\* No chunk is lost, repeated or reordered on its way into the agent's file.
THEOREM ChunksStayInOrder == USpec => []InOrder
<1>1. ASSUME UInv PROVE InOrder
  <2> USE <1>1 DEF UInv, UTypeOK
  <2>1. disk = Chunks(Len(disk))
    BY IsChunks DEF Bounded
  <2>2. ASSUME up = "call", ag \in {"first", "rest"}
        PROVE  disk \o wire \o queue = Chunks(pos)
    <3> DEFINE s == disk \o wire \o queue
    <3>1. s \in Seq(Nat) /\ Len(s) = pos
      BY <2>2 DEF InFlight
    <3>2. ASSUME NEW i \in 1..Len(s) PROVE s[i] = i
      <4>1. CASE i \in 1..Len(disk)
        BY <2>2, <4>1 DEF Bounded
      <4>2. CASE i - Len(disk) \in 1..Len(wire)
        <5>1. i \in Nat /\ Len(disk) \in Nat
          BY <3>1
        <5>2. PICK j \in 1..Len(wire) : j = i - Len(disk)
          BY <4>2
        <5>3. wire[j] = Len(disk) + j
          BY <2>2 DEF InFlight
        <5>4. s[i] = wire[j]
          BY <5>1, <5>2
        <5> QED  BY <5>1, <5>2, <5>3, <5>4
      <4>3. CASE i - Len(disk) - Len(wire) \in 1..Len(queue)
        BY <2>2, <4>3 DEF InFlight
      <4> QED
        BY <2>2, <3>1, <4>1, <4>2, <4>3 DEF InFlight
    <3> QED
      BY <3>1, <3>2, IsChunks
  <2> QED
    BY <2>1, <2>2 DEF InOrder, Bounded
<1> QED
  BY <1>1, UploadInvariant, PTL

-----------------------------------------------------------------------------
(***************************************************************************)
(* How many steps an upload has left: a chunk is read, forwarded and       *)
(* written, and the call, the reader task and the handler come to an end.  *)
(***************************************************************************)
CallLeft ==
  (CASE up = "open" -> 2 [] up = "call" -> 1 [] OTHER -> 0) + (IF link = "up" THEN 1 ELSE 0)

TaskLeft == CASE rd = "none" -> 2 [] rd = "reading" -> 1 [] OTHER -> 0

HandlerLeft == CASE ag = "none" -> 3 [] ag = "first" -> 2 [] ag = "rest" -> 1 [] OTHER -> 0

ChunksLeft == 3 * (size - pos) + 2 * Len(queue) + Len(wire)

UploadLeft == CallLeft + TaskLeft + HandlerLeft + ChunksLeft

\* Every step of the two upload_sample functions, of the reader task and of the
\* connection is one less that is left.
UploadAdvances == [][UploadLeft' < UploadLeft]_uvars

LEMMA UploadLeftTypes ==
  ASSUME UTypeOK
  PROVE  /\ CallLeft \in Nat /\ TaskLeft \in Nat /\ HandlerLeft \in Nat /\ ChunksLeft \in Nat
         /\ UploadLeft \in Nat /\ size - pos \in Nat /\ Len(queue) \in Nat /\ Len(wire) \in Nat
<1>1. CallLeft \in Nat /\ TaskLeft \in Nat /\ HandlerLeft \in Nat
  BY DEF CallLeft, TaskLeft, HandlerLeft
<1>2. size - pos \in Nat /\ Len(queue) \in Nat /\ Len(wire) \in Nat
  BY UploadAssumption DEF UTypeOK
<1>3. ChunksLeft \in Nat
  BY <1>2 DEF ChunksLeft
<1> QED
  BY <1>1, <1>2, <1>3 DEF UploadLeft

LEMMA LessLeft ==
  ASSUME UTypeOK, UTypeOK',
         CallLeft' <= CallLeft, TaskLeft' <= TaskLeft, HandlerLeft' <= HandlerLeft, ChunksLeft' <= ChunksLeft,
         \/ CallLeft' < CallLeft \/ TaskLeft' < TaskLeft
         \/ HandlerLeft' < HandlerLeft \/ ChunksLeft' < ChunksLeft
  PROVE  UploadLeft' < UploadLeft
<1> DEFINE c == CallLeft  t == TaskLeft  h == HandlerLeft  k == ChunksLeft
           cc == CallLeft'  tt == TaskLeft'  hh == HandlerLeft'  kk == ChunksLeft'
<1>1. UploadLeft = c + t + h + k /\ UploadLeft' = cc + tt + hh + kk
  BY DEF UploadLeft
<1>2. c \in Nat /\ t \in Nat /\ h \in Nat /\ k \in Nat
  BY UploadLeftTypes
<1>3. (CallLeft \in Nat /\ TaskLeft \in Nat /\ HandlerLeft \in Nat /\ ChunksLeft \in Nat)'
  BY UploadLeftTypes, PTL
<1>4. /\ cc \in Nat /\ tt \in Nat /\ hh \in Nat /\ kk \in Nat
      /\ cc <= c /\ tt <= t /\ hh <= h /\ kk <= k
      /\ cc < c \/ tt < t \/ hh < h \/ kk < k
  BY <1>3
<1> HIDE DEF c, t, h, k, cc, tt, hh, kk
<1> QED
  BY <1>1, <1>2, <1>4

LEMMA ChunksAdvance ==
  ASSUME UInv, UInv', UNext
  PROVE  UploadLeft' < UploadLeft
<1> USE DEF UInv
<1> DEFINE Parts == CallLeft \in Nat /\ TaskLeft \in Nat /\ HandlerLeft \in Nat /\ ChunksLeft \in Nat
           Lengths == size - pos \in Nat /\ Len(queue) \in Nat /\ Len(wire) \in Nat
<1>1. Parts /\ Parts'
  BY UploadLeftTypes, PTL
<1>2. Lengths /\ Lengths'
  BY UploadLeftTypes, PTL
<1>3. CASE OpenAndCall \/ Answered \/ ConnectionBreaks \/ PeerFallsSilent
  <2>1. CallLeft' < CallLeft /\ TaskLeft' <= TaskLeft /\ HandlerLeft' <= HandlerLeft
    BY <1>3 DEF OpenAndCall, Answered, ConnectionBreaks, PeerFallsSilent, CallLeft, TaskLeft,
       HandlerLeft, HandlerTracks
  <2>2. ChunksLeft' <= ChunksLeft
    <3>1. /\ size' - pos' = size - pos
          /\ Len(queue') <= Len(queue) /\ Len(wire') <= Len(wire)
      BY <1>3, <1>2, Nothing DEF OpenAndCall, Answered, ConnectionBreaks, PeerFallsSilent
    <3> QED
      BY <3>1, <1>2 DEF ChunksLeft
  <2> QED
    BY <2>1, <2>2, <1>1, LessLeft
<1>4. CASE ReaderEnds
  <2>1. TaskLeft' < TaskLeft
    BY <1>4 DEF ReaderEnds, TaskLeft
  <2>2. UNCHANGED <<CallLeft, HandlerLeft, ChunksLeft>>
    BY <1>4 DEF ReaderEnds, CallLeft, HandlerLeft, ChunksLeft
  <2> QED
    BY <2>1, <2>2, <1>1, LessLeft
<1>5. CASE ReadChunk \/ Forward
  <2>1. ChunksLeft' = ChunksLeft - 1
    <3>1. CASE ReadChunk
      <4>1. size' - pos' = (size - pos) - 1 /\ Len(queue') = Len(queue) + 1 /\ wire' = wire
        BY <3>1, Appended, UploadAssumption DEF ReadChunk, UTypeOK
      <4> QED
        BY <4>1, <1>2 DEF ChunksLeft
    <3>2. CASE Forward
      <4>1. size' - pos' = size - pos /\ Len(queue') = Len(queue) - 1 /\ Len(wire') = Len(wire) + 1
        BY <3>2, Appended, Taken DEF Forward, UTypeOK
      <4> QED
        BY <4>1, <1>2 DEF ChunksLeft
    <3> QED
      BY <1>5, <3>1, <3>2
  <2>2. UNCHANGED <<CallLeft, TaskLeft, HandlerLeft>>
    BY <1>5 DEF ReadChunk, Forward, CallLeft, TaskLeft, HandlerLeft
  <2> QED
    BY <2>1, <2>2, <1>1, LessLeft
<1>6. CASE FirstChunk \/ NextChunk
  <2>1. HandlerLeft' <= HandlerLeft
    <3>1. ag = "first" \/ (ag = "rest" /\ ag' # "first")
      BY <1>6 DEF FirstChunk, NextChunk
    <3>2. ag' \in {"rest", "error"}
      BY <1>6 DEF FirstChunk, NextChunk
    <3> QED
      BY <3>1, <3>2 DEF HandlerLeft
  <2>2. ChunksLeft' = ChunksLeft - 1
    <3>1. size' - pos' = size - pos /\ queue' = queue /\ Len(wire') = Len(wire) - 1
      BY <1>6, Taken DEF FirstChunk, NextChunk, UTypeOK
    <3> QED
      BY <3>1, <1>2 DEF ChunksLeft
  <2>3. UNCHANGED <<CallLeft, TaskLeft>>
    BY <1>6 DEF FirstChunk, NextChunk, CallLeft, TaskLeft
  <2> QED
    BY <2>1, <2>2, <2>3, <1>1, LessLeft
<1>7. CASE EmptyStream \/ Flush
  <2>1. HandlerLeft' < HandlerLeft
    BY <1>7 DEF EmptyStream, Flush, HandlerLeft
  <2>2. UNCHANGED <<CallLeft, TaskLeft, ChunksLeft>>
    BY <1>7 DEF EmptyStream, Flush, CallLeft, TaskLeft, ChunksLeft
  <2> QED
    BY <2>1, <2>2, <1>1, LessLeft
<1> QED
  BY <1>3, <1>4, <1>5, <1>6, <1>7 DEF UNext, UploadStep

\* An upload of n chunks is over after at most 3 n + 8 steps, whatever the
\* order of the reader task, the connection and the handler.
THEOREM UploadIsFinite == USpec => UploadAdvances /\ [](UploadLeft \in 0..(3 * size + 8))
<1>1. UInv => UploadLeft \in Nat
  BY UploadLeftTypes DEF UInv
<1>2. UInv /\ UInv' /\ [UNext]_uvars => [UploadLeft' < UploadLeft]_uvars
  BY ChunksAdvance
<1>3. UInit => UploadLeft <= 3 * size + 8
  BY UploadAssumption, Nothing DEF UInit, UploadLeft, CallLeft, TaskLeft, HandlerLeft, ChunksLeft
<1>4. UInv /\ UInv' /\ [UNext]_uvars /\ UploadLeft <= 3 * size + 8 => (UploadLeft <= 3 * size + 8)'
  <2> SUFFICES ASSUME UInv, UInv', [UNext]_uvars, UploadLeft <= 3 * size + 8
               PROVE  UploadLeft' <= 3 * size' + 8
    OBVIOUS
  <2>1. size' = size
    BY DEF uvars, UNext, UploadStep, OpenAndCall, ReadChunk, ReaderEnds, Forward, Answered,
       FirstChunk, EmptyStream, NextChunk, Flush, ConnectionBreaks, PeerFallsSilent
  <2>2. CASE UNCHANGED uvars
    BY <2>1, <2>2 DEF uvars, UploadLeft, CallLeft, TaskLeft, HandlerLeft, ChunksLeft
  <2>3. CASE UNext
    <3>1. UploadLeft' < UploadLeft
      BY <2>3, ChunksAdvance
    <3>2. UploadLeft \in Nat /\ (UploadLeft \in Nat)'
      BY <1>1, PTL
    <3>3. 3 * size + 8 \in Nat
      BY UploadAssumption DEF UInv, UTypeOK
    <3> QED
      BY <2>1, <3>1, <3>2, <3>3
  <2> QED
    BY <2>2, <2>3
<1>5. UploadLeft \in Nat /\ UploadLeft <= 3 * size + 8 /\ UInv => UploadLeft \in 0..(3 * size + 8)
  BY UploadAssumption DEF UInv, UTypeOK
<1> QED
  BY <1>1, <1>2, <1>3, <1>4, <1>5, UploadInvariant, PTL DEF USpec, UploadAdvances

-----------------------------------------------------------------------------
(***************************************************************************)
(* The session.                                                            *)
(***************************************************************************)
USE DEF threads, command, logs, files, opened, process, answer,
        MainTo, CmdTo, ReaderTo, Starting, Ending, NeverOpened, Own

\* Once acknowledged, the upload leaves the file alone: the reader task has
\* ended and the call is over.
LEMMA UploadIsOver ==
  ASSUME UInv, up = "ok", [UNext]_uvars
  PROVE  UNCHANGED <<up, disk, name>>
<1>1. ag = "ok" /\ rd = "ended"
  BY DEF UInv, HandlerTracks
<1> QED
  BY <1>1 DEF uvars, UNext, UploadStep, OpenAndCall, ReadChunk, ReaderEnds, Forward, Answered,
     FirstChunk, EmptyStream, NextChunk, Flush, ConnectionBreaks, PeerFallsSilent

\* Once over, the analysis keeps its outcome, whatever its threads still do.
LEMMA AnalysisIsOver ==
  ASSUME mpc = "over", [ANext]_avars
  PROVE  UNCHANGED <<mpc, outcome>>
  BY DEF avars, ANext, Main, Setup, Execute, register_process, spawn_reader, InjectAndResume,
     Close, PollExited, PollTimeout, drain_logservers, Stop, nudge_server, Join, BuildReport,
     PollAlive, CommandThread, CheckRun, CreatePipe, Connect, LogReader, ReaderConnect,
     read_header, ReadFrame, EndOfLog, Guest, MonitorLogs, SampleExits, FileTampered,
     LogPipeCloses, MonitorCommands

\* Whether there is a file changes only after the sample has been started, and
\* what was started is never forgotten.
LEMMA FileStays ==
  ASSUME SampleTracks, [ANext]_avars
  PROVE  /\ sample = "none" => file' = file
         /\ sample = "none" /\ sample' # "none" => file = "sample"
         /\ sample # "none" => sample' # "none" /\ (file # "none" => file' # "none")
  BY DEF SampleTracks, avars, ANext, Main, Setup, Execute, register_process, spawn_reader,
     InjectAndResume, Close, PollExited, PollTimeout, drain_logservers, Stop, nudge_server, Join,
     BuildReport, GiveUp,
     PollAlive, CommandThread, CheckRun, CreatePipe, Connect, LogReader, ReaderConnect,
     read_header, ReadFrame, EndOfLog, Guest, MonitorLogs, SampleExits, FileTampered,
     LogPipeCloses, MonitorCommands

\* A session starts with the upload.
LEMMA SInitOK == SInit => SInv
<1> SUFFICES ASSUME SInit PROVE SInv
  OBVIOUS
<1>2. UInv /\ AInv
  BY UInitOK, StartOK DEF SInit
<1>3. SessionTracks
  BY DEF SInit, AStart, SessionTracks
<1> QED
  BY <1>2, <1>3 DEF SInv

\* The Analyze call finds an analysis that has not begun, and fixes whether
\* there is a file for it.
LEMMA AnalyzePreserves ==
  ASSUME SInv, analyze
  PROVE  SInv'
<1> USE DEF SInv, analyze
<1>1. UInv'
  BY UploadPreserves
<1>2. file' \in {"none", "sample"}
  OBVIOUS
<1>3. mpc = "init" /\ outcome = "none" /\ sample = "none"
  BY DEF SessionTracks, AInv, AnswerTracks, SampleTracks
<1>4. AInv'
  BY <1>2, <1>3 DEF AInv, ATypeOK, SampleTracks, HandleTracks, CommandTracks, LogTracks,
     AnswerTracks, MonitorStays, ExitCodeTrue
<1>5. SessionTracks'
  BY <1>3 DEF SessionTracks, sample_path_exists, uvars
<1> QED
  BY <1>1, <1>4, <1>5

\* Every step of a session keeps the invariant.
LEMMA SessionPreserves ==
  ASSUME SInv, [SNext]_svars
  PROVE  SInv'
<1> USE DEF SInv
<1>1. CASE analyze
  BY <1>1, AnalyzePreserves
<1>2. CASE [SNext]_svars /\ ~analyze
  <2>1. [UNext]_uvars /\ [ANext]_avars
    BY <1>2 DEF SNext, svars, Uploading, UploadReturns, Analysing, InGuest, SendDone, ReadEvent,
       StreamBreaks
  <2>2. UInv' /\ AInv'
    BY <2>1, UploadPreserves, StepPreserves
  <2>3. SessionTracks'
    <3> USE DEF SessionTracks
    <3>1. CASE Uploading
      <4>1. up = "ok" => UNCHANGED <<up, disk, name>>
        BY <2>1, UploadIsOver
      <4> QED
        BY <3>1, <4>1 DEF Uploading, avars, sample_path_exists
    <3>2. CASE Analysing
      <4>1. mpc = "over" => UNCHANGED <<mpc, outcome>>
        BY <2>1, AnalysisIsOver
      <4>2. /\ sample = "none" => file' = file
            /\ sample = "none" /\ sample' # "none" => file = "sample"
            /\ sample # "none" => sample' # "none" /\ (file # "none" => file' # "none")
        BY <2>1, FileStays DEF AInv
      <4> QED
        BY <3>2, <4>1, <4>2 DEF Analysing, InGuest, uvars, sample_path_exists
    <3>3. CASE UploadReturns \/ SendDone \/ ReadEvent \/ StreamBreaks \/ UNCHANGED svars
      BY <3>3 DEF UploadReturns, SendDone, ReadEvent, StreamBreaks, svars, uvars, avars,
         sample_path_exists, AInv, ATypeOK
    <3> QED
      BY <1>2, <3>1, <3>2, <3>3 DEF SNext
  <2> QED
    BY <2>2, <2>3
<1> QED
  BY <1>1, <1>2

-----------------------------------------------------------------------------
\* The invariant of a session.
THEOREM SessionInvariant == SSpec => []SInv
<1>1. SInit => SInv
  BY SInitOK
<1>2. SInv /\ [SNext]_svars => SInv'
  BY SessionPreserves
<1> QED
  BY <1>1, <1>2, PTL DEF SSpec

\* Features come from a run of the sample submitted: the result is the outcome
\* of an analysis that began after the acknowledgement and found the file.
THEOREM ResultIsOfSample == SSpec => []ResultOfSample
<1>1. ASSUME SInv, result = "features"
      PROVE  /\ disk = Chunks(size) \/ readErr
             /\ sample \in {"running", "exited"} /\ file # "none"
  <2>1. up = "ok" /\ outcome = "features"
    BY <1>1 DEF SInv, SessionTracks
  <2>2. AckMeansWhole
    BY <1>1, InvAck DEF SInv
  <2>3. sample \in {"running", "exited"}
    BY <1>1, <2>1 DEF SInv, AInv, SampleTracks
  <2> QED
    BY <1>1, <2>1, <2>2, <2>3 DEF AckMeansWhole, SInv, SessionTracks
<1>2. SInv => ResultOfSample
  BY <1>1 DEF ResultOfSample
<1> QED
  BY <1>2, SessionInvariant, PTL

\* The analysis finds the file of every acknowledged upload but for a name that
\* only upload_sample has trimmed or whose path only upload_sample has followed.
THEOREM AcknowledgedIsFound == SSpec => []AckedIsFound
<1>1. ASSUME SInv, stream # "none", sample = "none", file = "none"
      PROVE  name \in {"padded", "parent"}
  <2>1. up = "ok" /\ ~sample_path_exists
    BY <1>1 DEF SInv, SessionTracks
  <2>2. disk # <<>>
    BY <1>1, <2>1, InvAck DEF SInv, AckMeansWhole
  <2>3. safe_filename(name) # Trimmed(name)
    BY <2>1, <2>2 DEF sample_path_exists
  <2>4. name \in Names /\ Trimmed(name) \in Creatable
    BY <1>1, <2>1 DEF SInv, UInv, UTypeOK, HandlerTracks
  <2> QED
    BY <2>3, <2>4 DEF Names, Creatable, Trimmed, safe_filename
<1>2. SInv => AckedIsFound
  BY <1>1 DEF AckedIsFound
<1> QED
  BY <1>2, SessionInvariant, PTL

\* An empty result published as completed comes from a sample that was stored
\* and never ran, or has removed or replaced its file.
THEOREM EmptyResultIsExplained == SSpec => []EmptyResultExplained
<1>1. ASSUME SInv, result = "empty"
      PROVE  disk # <<>> /\ (sample \in {"none", "suspended"} \/ file = "tampered")
  <2>1. up = "ok" /\ outcome = "empty"
    BY <1>1 DEF SInv, SessionTracks
  <2>2. disk # <<>>
    BY <1>1, <2>1, InvAck DEF SInv, AckMeansWhole
  <2> QED
    BY <1>1, <2>1, <2>2 DEF SInv, AInv, AnswerTracks
<1>2. SInv => EmptyResultExplained
  BY <1>1 DEF EmptyResultExplained
<1> QED
  BY <1>2, SessionInvariant, PTL

-----------------------------------------------------------------------------
\* The upload of a session is an upload as Upload specifies it, so that what is
\* proved of USpec holds in every session.
THEOREM SessionUploads == SSpec => USpec
<1>1. SInit => UInit
  BY DEF SInit
<1>2. [SNext]_svars => [UNext]_uvars
  BY DEF SNext, svars, Uploading, UploadReturns, analyze, Analysing, InGuest, SendDone, ReadEvent,
     StreamBreaks
<1> QED
  BY <1>1, <1>2, PTL DEF SSpec, USpec

(***************************************************************************)
(* How many steps a session has left: those of the upload, those of the    *)
(* analysis, and what the job's task and the Analyze call do around them.  *)
(***************************************************************************)
JobLeft == CASE spc = "upload" -> 6 [] spc = "analyze" -> 4 [] spc = "stream" -> 2 [] OTHER -> 0

StreamLeft == CASE stream = "none" -> 2 [] stream = "open" -> 1 [] OTHER -> 0

SessionLeft == JobLeft + StreamLeft + UploadLeft + AnalysisLeft

\* Every step of a session, whoever takes it, is one less that is left.
SessionAdvances == [][SessionLeft' < SessionLeft]_svars

LEMMA SessionLeftTypes ==
  ASSUME SInv
  PROVE  /\ JobLeft \in Nat /\ StreamLeft \in Nat /\ UploadLeft \in Nat /\ AnalysisLeft \in Nat
         /\ SessionLeft \in Nat
<1>1. JobLeft \in Nat /\ StreamLeft \in Nat
  BY DEF JobLeft, StreamLeft
<1>2. UploadLeft \in Nat /\ AnalysisLeft \in Nat
  BY UploadLeftTypes, LeftTypes DEF SInv, UInv, AInv
<1> QED
  BY <1>1, <1>2 DEF SessionLeft

LEMMA SessionStepsAdvance ==
  ASSUME SInv, SInv', SNext, ~UNCHANGED svars
  PROVE  SessionLeft' < SessionLeft
<1> DEFINE j == JobLeft  t == StreamLeft  u == UploadLeft  a == AnalysisLeft
           jj == JobLeft'  tt == StreamLeft'  uu == UploadLeft'  aa == AnalysisLeft'
<1>1. SessionLeft = j + t + u + a /\ SessionLeft' = jj + tt + uu + aa
  BY DEF SessionLeft
<1>2. j \in Nat /\ t \in Nat /\ u \in Nat /\ a \in Nat
  BY SessionLeftTypes
<1>3. (JobLeft \in Nat /\ StreamLeft \in Nat /\ UploadLeft \in Nat /\ AnalysisLeft \in Nat)'
  BY SessionLeftTypes, PTL
<1>4. jj \in Nat /\ tt \in Nat /\ uu \in Nat /\ aa \in Nat
  BY <1>3
<1>5. UNCHANGED uvars => uu = u
  BY DEF uvars, UploadLeft, CallLeft, TaskLeft, HandlerLeft, ChunksLeft
<1>6. UNCHANGED avars => aa = a
  BY DEF avars, AnalysisLeft, MainLeft, CommandLeft, ReaderLeft, PipeLeft, CallsLeft, SampleLeft
<1>7. \/ jj <= j /\ tt <= t /\ uu <= u /\ aa <= a /\ (jj < j \/ tt < t \/ uu < u \/ aa < a)
      \/ jj <= j - 2 /\ tt <= t /\ uu <= u /\ aa <= a + 1
  <2>1. CASE Uploading
    <3>1. uu < u
      BY <2>1, ChunksAdvance DEF Uploading, SInv
    <3>2. jj = j /\ tt = t /\ aa = a
      BY <2>1, <1>6 DEF Uploading, JobLeft, StreamLeft
    <3> QED
      BY <3>1, <3>2, <1>2, <1>4
  <2>2. CASE Analysing
    <3>1. ~UNCHANGED avars
      BY <2>2 DEF Analysing, InGuest, svars
    <3>2. aa < a
      BY <2>2, <3>1, StepsAdvance DEF Analysing, SInv
    <3>3. jj = j /\ tt = t /\ uu = u
      BY <2>2, <1>5 DEF Analysing, InGuest, JobLeft, StreamLeft
    <3> QED
      BY <3>2, <3>3, <1>2, <1>4
  <2>3. CASE UploadReturns \/ ReadEvent \/ StreamBreaks
    <3>1. jj < j /\ tt = t
      BY <2>3 DEF UploadReturns, ReadEvent, StreamBreaks, JobLeft, StreamLeft
    <3>2. uu = u /\ aa = a
      BY <2>3, <1>5, <1>6 DEF UploadReturns, ReadEvent, StreamBreaks
    <3> QED
      BY <3>1, <3>2, <1>2, <1>4
  <2>4. CASE SendDone
    <3>1. jj = j /\ tt < t
      BY <2>4 DEF SendDone, JobLeft, StreamLeft
    <3>2. uu = u /\ aa = a
      BY <2>4, <1>5, <1>6 DEF SendDone
    <3> QED
      BY <3>1, <3>2, <1>2, <1>4
  <2>5. CASE analyze
    <3>1. jj = j - 2 /\ tt < t
      BY <2>5 DEF analyze, JobLeft, StreamLeft, SInv, SessionTracks
    <3>2. uu = u
      BY <2>5, <1>5 DEF analyze
    <3>3. aa <= a + 1
      <4>1. UNCHANGED <<MainLeft, CommandLeft, ReaderLeft, PipeLeft, CallsLeft, commands>>
        BY <2>5 DEF analyze, MainLeft, CommandLeft, ReaderLeft, PipeLeft, CallsLeft
      <4> DEFINE s == SampleLeft  ss == SampleLeft'
                 r == 12 * (MainLeft + (MaxCommands - commands)) + CommandLeft + ReaderLeft + PipeLeft + CallsLeft
      <4>2. ss <= s + 1 /\ s \in Nat /\ ss \in Nat
        BY <2>5 DEF analyze, SampleLeft
      <4>3. r' = r
        BY <4>1
      <4>4. a = r + s /\ aa = r + ss
        BY <4>3 DEF AnalysisLeft
      <4>5. r \in Nat
        BY LeftTypes DEF SInv, AInv
      <4> HIDE DEF r, s, ss, a, aa
      <4> QED
        BY <4>2, <4>4, <4>5
    <3> QED
      BY <3>1, <3>2, <3>3, <1>2, <1>4
  <2> QED
    BY <2>1, <2>2, <2>3, <2>4, <2>5 DEF SNext
<1> HIDE DEF j, t, u, a, jj, tt, uu, aa
<1> QED
  BY <1>1, <1>2, <1>4, <1>7

\* A session is finite: nothing between the upload and the result goes round
\* for ever, so a task that does not get its result is waiting.
THEOREM SessionIsFinite == SSpec => SessionAdvances /\ [](SessionLeft \in Nat)
<1>1. SInv => SessionLeft \in Nat
  BY SessionLeftTypes
<1>2. SInv /\ SInv' /\ [SNext]_svars => [SessionLeft' < SessionLeft]_svars
  BY SessionStepsAdvance
<1> QED
  BY <1>1, <1>2, SessionInvariant, PTL DEF SSpec, SessionAdvances
=============================================================================
