----------------------------- MODULE LogProofs ------------------------------
(***************************************************************************)
(* Proofs about module LogStream, for every set of documents and logs of   *)
(* every length.                                                           *)
(***************************************************************************)
EXTENDS LogStream, SequenceTheorems, TLAPS

(***************************************************************************)
(* The inductive invariant: the registry holds, for every index, the last  *)
(* announcement the reader has seen.                                       *)
(***************************************************************************)
LogTypeOK ==
  /\ log \in Seq(Infos \cup Calls)
  /\ read \in 0..Len(log)
  /\ reader \in {"reading", "ended", "panicked"}
  /\ reader = "panicked" => read > 0

RegistryTracks ==
  /\ DOMAIN map \subseteq Indices
  /\ \A x \in Indices :
       IF get(map, x)
       THEN \E k \in Announcing(log, x, read) :
              map[x] = Schema(log[k]) /\ \A l \in Announcing(log, x, read) : l <= k
       ELSE Announcing(log, x, read) = {}

\* The schema of every call that was read is one of the documents before it.
InForce == \A i \in 1..read : IsCall(log, i) => Announced(log, i) \in 1..(i - 1)

\* Every round of read_loop and every document the monitor writes keep the
\* registry and the collector in step with the log.
LInv == LogTypeOK /\ RegistryTracks /\ InForce /\ CallsAreTheLog /\ PanicsAtFirstBreach

-----------------------------------------------------------------------------
Docs == Infos \cup Calls

\* Logs g and h agree on their first n documents.
Agree(g, h, n) == \A i \in 1..n : h[i] = g[i]

\* What a document says depends on the documents before it alone.
LEMMA SaidOnce ==
  ASSUME NEW g, NEW h, NEW n \in Nat, Agree(g, h, n), NEW i \in 1..n
  PROVE  /\ Announced(h, i) = Announced(g, i)
         /\ IsCall(h, i) <=> IsCall(g, i)
<1>1. h[i] = g[i] /\ \A k \in 1..(i - 1) : h[k] = g[k]
  BY DEF Agree
<1>2. Announcing(h, h[i].I, i - 1) = Announcing(g, g[i].I, i - 1)
  BY <1>1 DEF Announcing
<1> QED
  BY <1>1, <1>2 DEF Announced, IsCall

\* ... and so does its meaning, if its schema was announced.
LEMMA MeansOnce ==
  ASSUME NEW g, NEW h, NEW n \in Nat, Agree(g, h, n), NEW i \in 1..n,
         IsCall(g, i) => Announced(g, i) \in 1..(i - 1)
  PROVE  /\ Conforms(h, i) <=> Conforms(g, i)
         /\ IsCall(g, i) => Meaning(h, i) = Meaning(g, i)
<1>1. h[i] = g[i] /\ Announced(h, i) = Announced(g, i) /\ (IsCall(h, i) <=> IsCall(g, i))
  BY SaidOnce DEF Agree
<1>2. IsCall(g, i) => h[Announced(g, i)] = g[Announced(g, i)]
  BY DEF Agree
<1> QED
  BY <1>1, <1>2 DEF Conforms, Meaning

\* The last position of a set that has one.
LEMMA LatestIs ==
  ASSUME NEW S \in SUBSET Nat, NEW k \in S, \A l \in S : l <= k
  PROVE  Latest(S) = k
<1>1. Latest(S) = CHOOSE m \in S : \A l \in S : l <= m
  BY DEF Latest
<1>2. /\ Latest(S) \in S /\ \A l \in S : l <= Latest(S)
  BY <1>1
<1>3. Latest(S) <= k /\ k <= Latest(S) /\ Latest(S) \in Nat /\ k \in Nat
  BY <1>2
<1> QED
  BY <1>3

\* A registry that is in step with the log knows the schema of the next
\* document, if it has one.
LEMMA Current ==
  ASSUME LogTypeOK, RegistryTracks, read < Len(log), NEW d, d = log[read + 1],
         d.type = "call"
  PROVE  /\ IsCall(log, read + 1) <=> get(map, d.I)
         /\ get(map, d.I) => /\ Announced(log, read + 1) \in 1..read
                             /\ Schema(log[Announced(log, read + 1)]) = map[d.I]
                             /\ log[Announced(log, read + 1)] \in Infos
<1>1. d \in Calls /\ d.I \in Indices /\ read \in Nat
  BY LogAssumption DEF LogTypeOK, LogAssumption
<1> DEFINE S == Announcing(log, d.I, read)
<1>2. Announced(log, read + 1) = Latest(S)
  BY <1>1 DEF Announced
<1>3. S \in SUBSET (1..read)
  BY DEF Announcing
<1>4. CASE get(map, d.I)
  <2>1. PICK k \in S : map[d.I] = Schema(log[k]) /\ \A l \in S : l <= k
    BY <1>1, <1>4 DEF RegistryTracks
  <2>2. Latest(S) = k
    <3>1. S \in SUBSET Nat
      BY <1>1, <1>3
    <3> HIDE DEF S
    <3> QED
      BY <2>1, <3>1, LatestIs
  <2>3. k \in 1..read /\ k # 0
    BY <1>1, <1>3, <2>1
  <2>4. log[k] \in Infos
    <3>1. log[k] \in Infos \cup Calls /\ log[k].type = "info"
      BY <2>1, <2>3 DEF LogTypeOK, Announcing
    <3> QED
      BY <3>1, LogAssumption DEF LogAssumption
  <2> QED
    BY <1>2, <1>4, <2>1, <2>2, <2>3, <2>4 DEF IsCall
<1>5. CASE ~get(map, d.I)
  <2>1. S = {}
    BY <1>1, <1>5 DEF RegistryTracks
  <2>2. Latest(S) = 0
    BY <2>1 DEF Latest
  <2> QED
    BY <1>2, <1>5, <2>2 DEF IsCall
<1> QED
  BY <1>4, <1>5

\* Names and values from the third on, paired: the two definitions agree.
LEMMA ZipIs ==
  ASSUME NEW names \in Seq(STRING), NEW values \in Seq(Values),
         Len(names) >= 2, Len(values) >= 2
  PROVE  Zip(names, values) =
           SubSeq([n \in 1..Len(values) |->
                     <<IF n <= Len(names) THEN names[n] ELSE "", values[n]>>],
                  3, IF Len(values) < Len(names) THEN Len(values) ELSE Len(names))
<1> DEFINE s == [n \in 1..Len(values) |->
                  <<IF n <= Len(names) THEN names[n] ELSE "", values[n]>>]
           m == IF Len(values) < Len(names) THEN Len(values) ELSE Len(names)
<1>1. /\ Len(names) \in Nat /\ Len(values) \in Nat /\ m \in Nat
      /\ m <= Len(names) /\ m <= Len(values) /\ m >= 2
  OBVIOUS
<1>2. \A n \in 1..Len(values) :
        s[n] = <<IF n <= Len(names) THEN names[n] ELSE "", values[n]>>
  OBVIOUS
<1> HIDE DEF s, m
<1>3. \A k \in 1..(m - 2) :
        /\ k + 2 \in 1..Len(values) /\ k + 2 <= Len(names)
        /\ 3 + k - 1 = k + 2
  BY <1>1
<1>4. \A k \in 1..(m - 2) : s[k + 2] = <<names[k + 2], values[k + 2]>>
  BY <1>2, <1>3
<1>5. /\ SubSeq(s, 3, m) \in Seq({s[i] : i \in 3..m})
      /\ Len(SubSeq(s, 3, m)) = m - 2
      /\ \A k \in 1..(m - 2) : SubSeq(s, 3, m)[k] = s[k + 2]
  <2> DEFINE T == {s[i] : i \in 3..m}
  <2>1. \A i \in 3..m : s[i] \in T
    OBVIOUS
  <2> HIDE DEF T
  <2>2. /\ SubSeq(s, 3, m) \in Seq(T)
        /\ Len(SubSeq(s, 3, m)) = IF 3 <= m THEN m - 3 + 1 ELSE 0
        /\ \A k \in 1..(m - 3 + 1) : SubSeq(s, 3, m)[k] = s[3 + k - 1]
    BY <1>1, <2>1, SubSeqProperties
  <2>3. m - 3 + 1 = m - 2 /\ (IF 3 <= m THEN m - 3 + 1 ELSE 0) = m - 2
    BY <1>1
  <2> QED
    BY <1>3, <2>2, <2>3 DEF T
<1>6. SubSeq(s, 3, m) = [k \in 1..(m - 2) |-> SubSeq(s, 3, m)[k]]
  BY <1>5
<1>7. Zip(names, values) = [k \in 1..(m - 2) |-> <<names[k + 2], values[k + 2]>>]
  BY <1>1 DEF Zip, m
<1>8. Zip(names, values) = SubSeq(s, 3, m)
  BY <1>4, <1>5, <1>6, <1>7
<1> QED
  BY <1>8 DEF s, m

\* process_doc survives exactly the calls that keep to the protocol, and what
\* it makes of one is what the call means.
LEMMA Processed ==
  ASSUME LogTypeOK, RegistryTracks, read < Len(log), NEW d, d = log[read + 1],
         d.type = "call", get(map, d.I)
  PROVE  /\ Conforms(log, read + 1) <=> process_doc_survives(map[d.I], d)
         /\ Conforms(log, read + 1) => ApiCall(map[d.I], d) = Meaning(log, read + 1)
<1> DEFINE info == log[Announced(log, read + 1)]
<1>1. /\ IsCall(log, read + 1) /\ map[d.I] = Schema(info) /\ info \in Infos /\ d \in Calls
  <2>1. d \in Infos \cup Calls
    BY DEF LogTypeOK
  <2> QED
    BY <2>1, Current, LogAssumption DEF LogAssumption
<1>2. /\ map[d.I].names = info.names /\ map[d.I].api = info.api
      /\ info.names \in Seq(STRING) /\ d.args \in Seq(Values)
  BY <1>1, LogAssumption DEF LogAssumption, Schema
<1>3. Conforms(log, read + 1) <=> process_doc_survives(map[d.I], d)
  BY <1>1, <1>2 DEF Conforms, process_doc_survives
<1>4. ASSUME Conforms(log, read + 1)
      PROVE  ApiCall(map[d.I], d) = Meaning(log, read + 1)
  <2>1. Len(info.names) >= 2 /\ Len(d.args) >= 2
    BY <1>1, <1>4 DEF Conforms
  <2> QED
    BY <1>2, <2>1, ZipIs DEF ApiCall, Meaning
<1> QED
  BY <1>3, <1>4

\* The reader starts with nothing read and nothing known.
LEMMA LogInitOK == LogInit => LInv
<1> SUFFICES ASSUME LogInit PROVE LInv
  OBVIOUS
<1> USE DEF LogInit
<1>1. Len(log) = 0 /\ \A i \in 1..read : FALSE
  OBVIOUS
<1>2. LogTypeOK
  BY <1>1 DEF LogTypeOK
<1>3. RegistryTracks
  BY DEF RegistryTracks, get, Announcing
<1>4. InForce /\ PanicsAtFirstBreach
  BY <1>1 DEF InForce, PanicsAtFirstBreach
<1>5. CallsAreTheLog
  <2> DEFINE at == [k \in 1..0 |-> 0]
  <2>1. 0 \in 0..read /\ at \in [1..0 -> 1..read] /\ \A k \in 1..0 : FALSE
    OBVIOUS
  <2>2. Understood(log, read) = {} /\ {at[k] : k \in 1..0} = {}
    BY <1>1 DEF Understood
  <2>3. calls = [k \in 1..0 |-> Meaning(log, at[k])]
    BY DEF LogInit
  <2> QED
    BY <2>1, <2>2, <2>3 DEF CallsAreTheLog
<1> QED
  BY <1>2, <1>3, <1>4, <1>5 DEF LInv

\* What the monitor writes changes nothing about what was read.
LEMMA WritePreserves ==
  ASSUME LInv, WriteDoc
  PROVE  LInv'
<1>0. LogTypeOK /\ RegistryTracks /\ InForce /\ CallsAreTheLog /\ PanicsAtFirstBreach
  BY DEF LInv
<1>1. PICK d \in Docs : log' = Append(log, d)
  BY DEF WriteDoc, Docs
<1>2. UNCHANGED <<read, map, calls, reader>>
  BY DEF WriteDoc
<1>3. /\ log' \in Seq(Docs) /\ Len(log') = Len(log) + 1 /\ Len(log) \in Nat
      /\ \A i \in 1..Len(log) : log'[i] = log[i]
  BY <1>0, <1>1 DEF LogTypeOK, Docs
<1>4. read \in Nat /\ Agree(log, log', read)
  BY <1>0, <1>3 DEF LogTypeOK, Agree
<1>5. LogTypeOK'
  BY <1>0, <1>2, <1>3 DEF LogTypeOK, Docs
<1>6. RegistryTracks'
  <2>1. \A x : Announcing(log', x, read) = Announcing(log, x, read)
    BY <1>4 DEF Announcing, Agree
  <2>2. \A x : \A k \in Announcing(log, x, read) : log'[k] = log[k]
    BY <1>4 DEF Announcing, Agree
  <2> QED
    BY <1>0, <1>2, <2>1, <2>2 DEF RegistryTracks
<1>7. \A i \in 1..read : /\ Announced(log', i) = Announced(log, i)
                         /\ IsCall(log', i) <=> IsCall(log, i)
                         /\ Conforms(log', i) <=> Conforms(log, i)
                         /\ IsCall(log, i) => Meaning(log', i) = Meaning(log, i)
  BY <1>0, <1>4, SaidOnce, MeansOnce DEF InForce
<1>8. InForce'
  BY <1>0, <1>2, <1>7 DEF InForce
<1>9. PanicsAtFirstBreach'
  <2>1. reader = "panicked" => read \in 1..read
    BY <1>0, <1>4 DEF LogTypeOK
  <2> QED
    BY <1>0, <1>2, <1>7, <2>1 DEF PanicsAtFirstBreach
<1>10. CallsAreTheLog'
  <2>1. Understood(log', read) = Understood(log, read)
    BY <1>7 DEF Understood
  <2>2. PICK n \in 0..read : \E at \in [1..n -> 1..read] :
          /\ \A k, l \in 1..n : k < l => at[k] < at[l]
          /\ {at[k] : k \in 1..n} = Understood(log, read)
          /\ calls = [k \in 1..n |-> Meaning(log, at[k])]
    BY <1>0 DEF CallsAreTheLog
  <2>3. PICK at \in [1..n -> 1..read] :
          /\ \A k, l \in 1..n : k < l => at[k] < at[l]
          /\ {at[k] : k \in 1..n} = Understood(log, read)
          /\ calls = [k \in 1..n |-> Meaning(log, at[k])]
    BY <2>2
  <2>4. \A k \in 1..n : at[k] \in 1..read /\ IsCall(log, at[k])
    BY <2>3 DEF Understood
  <2>5. calls = [k \in 1..n |-> Meaning(log', at[k])]
    BY <1>7, <2>3, <2>4
  <2> QED
    BY <1>2, <2>1, <2>3, <2>5 DEF CallsAreTheLog
<1> QED
  BY <1>5, <1>6, <1>8, <1>9, <1>10 DEF LInv

\* One round of read_loop: the registry gains the document if it is an info,
\* and the collector gains it if it is a call that is understood.
LEMMA ReadPreserves ==
  ASSUME LInv, ReadDoc
  PROVE  LInv'
<1>0. LogTypeOK /\ RegistryTracks /\ InForce /\ CallsAreTheLog /\ PanicsAtFirstBreach
  BY DEF LInv
<1> DEFINE i == read + 1
           d == log[i]
<1>1. /\ reader = "reading" /\ read < Len(log) /\ read \in Nat /\ Len(log) \in Nat
      /\ read' = i /\ log' = log /\ d \in Infos \cup Calls
  BY <1>0 DEF ReadDoc, LogTypeOK
<1>2. /\ d.I \in Indices
      /\ d \in Infos <=> d.type = "info"
      /\ d \in Calls <=> d.type = "call"
      /\ d \in Infos => d.valid \in BOOLEAN
  BY <1>1, LogAssumption DEF LogAssumption
<1>3. \/ d.type = "info" /\ map' = ingest_info(map, d) /\ UNCHANGED <<calls, reader>>
      \/ d.type = "call" /\ ~get(map, d.I) /\ UNCHANGED <<map, calls, reader>>
      \/ /\ d.type = "call" /\ get(map, d.I) /\ ~process_doc_survives(map[d.I], d)
         /\ reader' = "panicked" /\ UNCHANGED <<map, calls>>
      \/ /\ d.type = "call" /\ get(map, d.I) /\ process_doc_survives(map[d.I], d)
         /\ calls' = Append(calls, ApiCall(map[d.I], d)) /\ UNCHANGED <<map, reader>>
  BY DEF ReadDoc
<1>4. /\ d.type = "call" => (IsCall(log, i) <=> get(map, d.I))
      /\ d.type # "call" => ~IsCall(log, i)
      /\ IsCall(log, i) => Announced(log, i) \in 1..read
      /\ IsCall(log, i) => (Conforms(log, i) <=> process_doc_survives(map[d.I], d))
      /\ IsCall(log, i) /\ Conforms(log, i) => ApiCall(map[d.I], d) = Meaning(log, i)
  BY <1>0, <1>1, Current, Processed DEF IsCall
<1>5. ~IsCall(log, i) => Conforms(log, i)
  BY DEF Conforms
<1>6. \A k \in 1..i : k \in 1..read \/ k = i
  BY <1>1
<1>7. LogTypeOK'
  <2>1. read' \in 0..Len(log) /\ read' > 0 /\ reader' \in {"reading", "ended", "panicked"}
    BY <1>1, <1>3
  <2> QED
    BY <1>0, <1>1, <2>1 DEF LogTypeOK
<1>8. RegistryTracks'
  <2>1. CASE d.type = "info" /\ d.valid
    <3>1. /\ DOMAIN map' = DOMAIN map \cup {d.I} /\ map'[d.I] = Schema(d)
          /\ \A x \in DOMAIN map \ {d.I} : map'[x] = map[x]
      BY <1>2, <1>3, <2>1 DEF ingest_info, insert
    <3>2. \A x \in Indices \ {d.I} : Announcing(log, x, i) = Announcing(log, x, read)
      BY <1>1, <1>6 DEF Announcing
    <3>3. i \in Announcing(log, d.I, i) /\ \A l \in Announcing(log, d.I, i) : l <= i
      BY <1>1, <2>1 DEF Announcing
    <3> HIDE DEF i, d
    <3>4. ASSUME NEW x \in Indices \ {d.I}
          PROVE  /\ get(map', x) <=> get(map, x)
                 /\ get(map, x) => map'[x] = map[x]
      BY <3>1 DEF get
    <3>5. get(map', d.I) /\ \E k \in Announcing(log, d.I, i) :
            map'[d.I] = Schema(log[k]) /\ \A l \in Announcing(log, d.I, i) : l <= k
      BY <3>1, <3>3 DEF get, d
    <3>6. DOMAIN map' \subseteq Indices
      BY <1>0, <1>2, <3>1 DEF RegistryTracks
    <3> QED
      BY <1>0, <1>1, <3>2, <3>4, <3>5, <3>6 DEF RegistryTracks
  <2>2. CASE ~(d.type = "info" /\ d.valid)
    <3>1. map' = map
      BY <1>2, <1>3, <2>2 DEF ingest_info
    <3>2. \A x \in Indices : Announcing(log, x, i) = Announcing(log, x, read)
      BY <1>1, <1>6, <2>2 DEF Announcing
    <3> QED
      BY <1>0, <1>1, <3>1, <3>2 DEF RegistryTracks
  <2> QED
    BY <2>1, <2>2
<1>9. InForce'
  <2>1. i - 1 = read
    BY <1>1
  <2> HIDE DEF i, d
  <2> QED
    BY <1>0, <1>1, <1>4, <1>6, <2>1 DEF InForce
<1>10. PanicsAtFirstBreach'
  <2>1. \A k \in 1..read : Conforms(log, k)
    BY <1>0, <1>1 DEF PanicsAtFirstBreach
  <2>2. Conforms(log, i) <=> reader' # "panicked"
    BY <1>1, <1>3, <1>4, <1>5
  <2> HIDE DEF i, d
  <2> QED
    BY <1>1, <1>6, <2>1, <2>2 DEF PanicsAtFirstBreach
<1>11. CallsAreTheLog'
  <2>1. PICK n \in 0..read : \E at \in [1..n -> 1..read] :
          /\ \A k, l \in 1..n : k < l => at[k] < at[l]
          /\ {at[k] : k \in 1..n} = Understood(log, read)
          /\ calls = [k \in 1..n |-> Meaning(log, at[k])]
    BY <1>0 DEF CallsAreTheLog
  <2>2. PICK at \in [1..n -> 1..read] :
          /\ \A k, l \in 1..n : k < l => at[k] < at[l]
          /\ {at[k] : k \in 1..n} = Understood(log, read)
          /\ calls = [k \in 1..n |-> Meaning(log, at[k])]
    BY <2>1
  <2>3. CASE ~(IsCall(log, i) /\ Conforms(log, i))
    <3>1. calls' = calls
      BY <1>3, <1>4, <2>3
    <3>2. Understood(log, i) = Understood(log, read)
      BY <1>1, <1>6, <2>3 DEF Understood
    <3>3. n \in 0..i /\ at \in [1..n -> 1..i]
      BY <1>1
    <3> HIDE DEF i, d
    <3> QED
      BY <1>1, <2>2, <3>1, <3>2, <3>3 DEF CallsAreTheLog
  <2>4. CASE IsCall(log, i) /\ Conforms(log, i)
    <3> DEFINE at2 == [k \in 1..(n + 1) |-> IF k = n + 1 THEN i ELSE at[k]]
    <3>1. calls' = Append(calls, Meaning(log, i))
      BY <1>3, <1>4, <2>4
    <3>2. Understood(log, i) = Understood(log, read) \cup {i}
      BY <1>1, <1>6, <2>4 DEF Understood
    <3>3. n \in Nat /\ \A k \in 1..(n + 1) : k \in 1..n \/ k = n + 1
      OBVIOUS
    <3>4. n + 1 \in 0..i /\ at2 \in [1..(n + 1) -> 1..i]
      BY <1>1
    <3>5. \A k, l \in 1..(n + 1) : k < l => at2[k] < at2[l]
      BY <1>1, <2>2
    <3>6. {at2[k] : k \in 1..(n + 1)} = Understood(log, read) \cup {i}
      <4>1. at2[n + 1] = i /\ \A k \in 1..n : at2[k] = at[k]
        OBVIOUS
      <4>2. 1..(n + 1) = (1..n) \cup {n + 1}
        BY <3>3
      <4> HIDE DEF at2, i, d
      <4>3. {at2[k] : k \in (1..n) \cup {n + 1}} = {at[k] : k \in 1..n} \cup {i}
        BY <4>1, Zenon
      <4> QED
        BY <2>2, <4>2, <4>3
    <3>7. calls' = [k \in 1..(n + 1) |-> Meaning(log, at2[k])]
      <4>1. calls \in Seq({Meaning(log, k) : k \in 1..i}) /\ Len(calls) = n
        BY <1>1, <2>2
      <4>2. calls' = [k \in 1..(n + 1) |-> IF k = n + 1 THEN Meaning(log, i) ELSE calls[k]]
        BY <3>1, <4>1
      <4> QED
        BY <2>2, <4>2
    <3> HIDE DEF i, d, at2
    <3> QED
      BY <1>1, <3>2, <3>4, <3>5, <3>6, <3>7 DEF CallsAreTheLog
  <2> QED
    BY <2>3, <2>4
<1> QED
  BY <1>7, <1>8, <1>9, <1>10, <1>11 DEF LInv

\* Every reachable state satisfies LInv: the registry holds what was announced
\* last, and the calls are those of the documents read.
THEOREM LogInvariant == LogSpec => []LInv
<1>1. LInv /\ [LogNext]_lvars => LInv'
  <2> SUFFICES ASSUME LInv, [LogNext]_lvars PROVE LInv'
    OBVIOUS
  <2>1. CASE StopReading
    <3>1. UNCHANGED <<log, read, map, calls>> /\ reader = "reading" /\ reader' = "ended"
      BY <2>1 DEF StopReading
    <3>2. RegistryTracks' /\ InForce' /\ CallsAreTheLog'
      BY <3>1 DEF LInv, RegistryTracks, InForce, CallsAreTheLog
    <3>3. LogTypeOK' /\ PanicsAtFirstBreach'
      BY <3>1 DEF LInv, LogTypeOK, PanicsAtFirstBreach
    <3> QED
      BY <3>2, <3>3 DEF LInv
  <2>2. CASE UNCHANGED lvars
    BY <2>2 DEF lvars, LInv, LogTypeOK, RegistryTracks, InForce, CallsAreTheLog,
       PanicsAtFirstBreach
  <2> QED
    BY <2>1, <2>2, ReadPreserves, WritePreserves DEF LogNext
<1> QED
  BY <1>1, LogInitOK, PTL DEF LogSpec

\* The collector holds exactly the calls of the documents read, in order, each
\* under the names in force when it was written.
THEOREM CollectorHoldsTheLog == LogSpec => []CallsAreTheLog
<1>1. LInv => CallsAreTheLog
  BY DEF LInv
<1> QED
  BY <1>1, LogInvariant, PTL

\* The reader panics exactly at the first document that breaks the protocol.
THEOREM PanicIsABreach == LogSpec => []PanicsAtFirstBreach
<1>1. LInv => PanicsAtFirstBreach
  BY DEF LInv
<1> QED
  BY <1>1, LogInvariant, PTL
=============================================================================
