---------------------------- MODULE ReportProofs ----------------------------
(***************************************************************************)
(* Theorems about the collector and the report, for any number of          *)
(* processes, any calls of register_process, and any file.                 *)
(***************************************************************************)
EXTENDS Report, FiniteSetTheorems, SequenceTheorems, TLAPS

-----------------------------------------------------------------------------
(***************************************************************************)
(* The inductive invariant.                                                *)
(***************************************************************************)
Known == DOMAIN procs

TableOK ==
  /\ Known \subseteq Pids /\ IsFiniteSet(Known)
  /\ \A p \in Known : /\ procs[p].parent_id \in {0} \cup Pids
                      /\ procs[p].first_seen_order \in Nat
  /\ child_links \in Seq(Pids \X Pids)
  /\ regs \in Seq([pid : Pids, parent : {0} \cup Pids])
  /\ file \in Files

\* What the table knows was registered, with that parent.
RegsTrack ==
  /\ \A i \in DOMAIN regs : regs[i].pid \in Known
  /\ \A p \in Known : \E i \in DOMAIN regs : regs[i] = [pid |-> p, parent |-> procs[p].parent_id]

\* first_seen_order is the number of processes there were, so a parent has a
\* smaller one.
OrdersTrack ==
  \A p \in Known :
    /\ procs[p].first_seen_order < Cardinality(Known)
    /\ procs[p].parent_id \in Known =>
         procs[procs[p].parent_id].first_seen_order < procs[p].first_seen_order

\* Each process has its one link if it has a parent.
LinksTrack ==
  /\ \A k \in DOMAIN child_links : /\ child_links[k][2] \in Known
                                   /\ procs[child_links[k][2]].parent_id = child_links[k][1]
  /\ \A k, l \in DOMAIN child_links : child_links[k][2] = child_links[l][2] => k = l
  /\ \A p \in Known : procs[p].parent_id # 0 => \E k \in DOMAIN child_links : child_links[k][2] = p

\* Going from the roots to the children leaves nobody out.
Rooted ==
  \A S \in SUBSET Known :
    root_pids \subseteq S /\ (\A p \in Known : procs[p].parent_id \in S => p \in S) => S = Known

\* Going from a process to a child of it comes to an end.
Founded ==
  \A W \in SUBSET Known : (\A p \in W : \E q \in W : procs[q].parent_id = p) => W = {}

FamilyTracks == Orderly => OrdersTrack /\ LinksTrack /\ Rooted /\ Founded

\* The report was made of the table, the links and the file as they are.
BuiltTracks ==
  /\ report.state \in {"none", "built", "panic", "error", "overflow"}
  /\ report.state = "built" => /\ report.processtree = build_tree
                               /\ report.processes \in processes
                               /\ report.r_type = detect_pe_type(file)
                               /\ detect_pe_type(file) # "panic"
                               /\ file.access # "gone"
  /\ report.state = "panic" => detect_pe_type(file) = "panic"
  /\ report.state = "error" => file.access = "gone"
  /\ report.state = "overflow" => Endless

RInv == TableOK /\ RegsTrack /\ FamilyTracks /\ BuiltTracks

-----------------------------------------------------------------------------
\* An empty collector.
LEMMA RInitOK == ReportInit => RInv
<1> SUFFICES ASSUME ReportInit PROVE RInv
  OBVIOUS
<1>1. /\ Known = {} /\ Len(child_links) = 0 /\ child_links \in Seq(Pids \X Pids)
      /\ DOMAIN child_links = {}
  BY DEF ReportInit, Known
<1>2. regs \in Seq([pid : Pids, parent : {0} \cup Pids]) /\ DOMAIN regs = {}
  BY DEF ReportInit
<1>3. TableOK /\ RegsTrack
  BY <1>1, <1>2, FS_EmptySet DEF TableOK, RegsTrack, ReportInit
<1>4. OrdersTrack /\ LinksTrack /\ Rooted /\ Founded
  BY <1>1 DEF OrdersTrack, LinksTrack, Rooted, Founded
<1>5. BuiltTracks
  BY DEF BuiltTracks, ReportInit, NoReport
<1> QED
  BY <1>3, <1>4, <1>5 DEF RInv, FamilyTracks

\* What register_process makes of the table, the links and the history.
LEMMA Registered ==
  ASSUME RInv, NEW pid \in Pids, NEW parent \in {0} \cup Pids, register_process(pid, parent)
  PROVE  /\ Known' = Known \cup {pid} /\ IsFiniteSet(Known') /\ Cardinality(Known) \in Nat
         /\ \A p \in Known : procs'[p] = procs[p]
         /\ pid \notin Known => /\ procs'[pid].parent_id = parent
                               /\ procs'[pid].first_seen_order = Cardinality(Known)
                               /\ Cardinality(Known') = Cardinality(Known) + 1
         /\ parent = 0 => child_links' = child_links
         /\ parent # 0 => child_links' = Append(child_links, <<parent, pid>>)
<1>1. Known' = Known \cup {pid}
  BY DEF register_process, Known
<1>2. IsFiniteSet(Known)
  BY DEF RInv, TableOK
<1>3. /\ IsFiniteSet(Known \cup {pid}) /\ Cardinality(Known) \in Nat
      /\ pid \notin Known => Cardinality(Known \cup {pid}) = Cardinality(Known) + 1
  BY <1>2, FS_AddElement, FS_CardinalityType
<1>4. /\ \A p \in Known : procs'[p] = procs[p]
      /\ pid \notin Known => /\ procs'[pid].parent_id = parent
                            /\ procs'[pid].first_seen_order = Cardinality(Known)
  BY <1>1 DEF register_process, Known
<1>5. /\ parent = 0 => child_links' = child_links
      /\ parent # 0 => child_links' = Append(child_links, <<parent, pid>>)
  BY DEF register_process
<1> QED
  BY <1>1, <1>3, <1>4, <1>5

\* The history grows at its end.
LEMMA Recorded ==
  ASSUME RInv, NEW pid \in Pids, NEW parent \in {0} \cup Pids, register_process(pid, parent)
  PROVE  /\ regs' \in Seq([pid : Pids, parent : {0} \cup Pids])
         /\ Len(regs) \in Nat /\ DOMAIN regs = 1..Len(regs) /\ DOMAIN regs' = 1..(Len(regs) + 1)
         /\ \A i \in 1..Len(regs) : regs'[i] = regs[i]
         /\ regs'[Len(regs) + 1] = [pid |-> pid, parent |-> parent]
<1>1. /\ regs \in Seq([pid : Pids, parent : {0} \cup Pids])
      /\ [pid |-> pid, parent |-> parent] \in [pid : Pids, parent : {0} \cup Pids]
      /\ regs' = Append(regs, [pid |-> pid, parent |-> parent])
  BY DEF RInv, TableOK, register_process
<1> QED
  BY <1>1, AppendProperties, LenProperties

\* What it means for the history to stay orderly: the process is new, it is not
\* its own parent, and nobody has it for a parent yet.
LEMMA OrderlyCall ==
  ASSUME RInv, NEW pid \in Pids, NEW parent \in {0} \cup Pids, register_process(pid, parent),
         Orderly'
  PROVE  /\ Orderly /\ pid \notin Known /\ parent # pid
         /\ \A p \in Known : procs[p].parent_id # pid
<1> DEFINE n == Len(regs)
<1>0. /\ n \in Nat /\ DOMAIN regs = 1..n /\ DOMAIN regs' = 1..(n + 1)
      /\ \A i \in 1..n : regs'[i] = regs[i]
      /\ regs'[n + 1] = [pid |-> pid, parent |-> parent]
  BY Recorded
<1>1. /\ n \in Nat /\ DOMAIN regs = 1..n /\ DOMAIN regs' = 1..(n + 1)
      /\ \A i \in 1..n : regs'[i] = regs[i]
      /\ regs'[n + 1].pid = pid /\ regs'[n + 1].parent = parent
  BY <1>0
<1>2. \A i, k \in 1..(n + 1) : /\ regs'[i].pid = regs'[k].pid => i = k
                               /\ regs'[i].parent = regs'[k].pid => k < i
  BY <1>1 DEF Orderly
<1>3. \A p \in Known : \E i \in 1..n : regs[i].pid = p /\ regs[i].parent = procs[p].parent_id
  <2> SUFFICES ASSUME NEW p \in Known
               PROVE  \E i \in 1..n : regs[i].pid = p /\ regs[i].parent = procs[p].parent_id
    OBVIOUS
  <2>1. PICK i \in DOMAIN regs : regs[i] = [pid |-> p, parent |-> procs[p].parent_id]
    BY DEF RInv, RegsTrack
  <2>2. regs[i].pid = p /\ regs[i].parent = procs[p].parent_id
    BY <2>1
  <2> QED
    BY <1>1, <2>2
<1> HIDE DEF n
<1>4. Orderly
  BY <1>1, <1>2 DEF Orderly
<1>5. pid \notin Known
  BY <1>1, <1>2, <1>3
<1>6. parent # pid
  BY <1>1, <1>2
<1>7. \A p \in Known : procs[p].parent_id # pid
  BY <1>1, <1>2, <1>3
<1> QED
  BY <1>4, <1>5, <1>6, <1>7

\* An orderly call keeps the family of processes in order.
LEMMA FamilyPreserves ==
  ASSUME RInv, NEW pid \in Pids, NEW parent \in {0} \cup Pids, register_process(pid, parent),
         Orderly'
  PROVE  (OrdersTrack /\ LinksTrack /\ Rooted /\ Founded)'
<1> USE ReportAssumption
<1>1. /\ pid \notin Known /\ parent # pid /\ parent \in Nat
      /\ \A p \in Known : procs[p].parent_id # pid
      /\ OrdersTrack /\ LinksTrack /\ Rooted /\ Founded
  BY OrderlyCall DEF RInv, FamilyTracks
<1>2. /\ Known' = Known \cup {pid}
      /\ Cardinality(Known') = Cardinality(Known) + 1 /\ Cardinality(Known) \in Nat
      /\ \A p \in Known : procs'[p] = procs[p]
      /\ procs'[pid].parent_id = parent /\ procs'[pid].first_seen_order = Cardinality(Known)
      /\ parent = 0 => child_links' = child_links
      /\ parent # 0 => child_links' = Append(child_links, <<parent, pid>>)
  BY <1>1, Registered
<1>3. OrdersTrack'
  <2> SUFFICES ASSUME NEW p \in Known \cup {pid}
               PROVE  /\ procs'[p].first_seen_order < Cardinality(Known) + 1
                      /\ procs'[p].parent_id \in Known \cup {pid} =>
                           procs'[procs'[p].parent_id].first_seen_order < procs'[p].first_seen_order
    BY <1>2 DEF OrdersTrack
  <2>1. CASE p = pid
    <3>1. procs'[p].first_seen_order = Cardinality(Known) /\ procs'[p].parent_id = parent
      BY <2>1, <1>2
    <3>2. parent \in Known => procs'[parent].first_seen_order < Cardinality(Known)
      BY <1>1, <1>2 DEF OrdersTrack
    <3> QED
      BY <3>1, <3>2, <1>1, <1>2
  <2>2. CASE p \in Known
    <3>1. procs[p].parent_id # pid /\ procs[p].first_seen_order \in Nat
      BY <2>2, <1>1 DEF RInv, TableOK
    <3>2. /\ procs[p].first_seen_order < Cardinality(Known)
          /\ procs[p].parent_id \in Known =>
               procs[procs[p].parent_id].first_seen_order < procs[p].first_seen_order
      BY <2>2, <1>1 DEF OrdersTrack
    <3> QED
      BY <2>2, <3>1, <3>2, <1>2
  <2> QED
    BY <2>1, <2>2
<1>4. LinksTrack'
  <2>1. CASE parent = 0
    BY <2>1, <1>1, <1>2 DEF LinksTrack
  <2>2. CASE parent # 0
    <3> DEFINE n == Len(child_links)
    <3>1. /\ n \in Nat /\ DOMAIN child_links = 1..n /\ DOMAIN child_links' = 1..(n + 1)
          /\ \A k \in 1..n : child_links'[k] = child_links[k]
          /\ child_links'[n + 1] = <<parent, pid>>
      <4>1. child_links \in Seq(Pids \X Pids) /\ <<parent, pid>> \in Pids \X Pids
        BY <2>2 DEF RInv, TableOK
      <4> QED
        BY <2>2, <1>2, <4>1, AppendProperties, LenProperties
    <3> HIDE DEF n
    <3>2. \A k \in 1..n : child_links[k][2] \in Known /\ child_links[k][2] # pid
      BY <3>1, <1>1 DEF LinksTrack
    <3>3. \A k \in 1..(n + 1) : /\ child_links'[k][2] \in Known'
                                /\ procs'[child_links'[k][2]].parent_id = child_links'[k][1]
      BY <3>1, <3>2, <1>1, <1>2 DEF LinksTrack
    <3>4. \A k, l \in 1..(n + 1) : child_links'[k][2] = child_links'[l][2] => k = l
      BY <3>1, <3>2, <1>1, <1>2 DEF LinksTrack
    <3>5. \A p \in Known' : procs'[p].parent_id # 0 => \E k \in 1..(n + 1) : child_links'[k][2] = p
      BY <3>1, <1>1, <1>2 DEF LinksTrack
    <3> QED
      BY <3>1, <3>3, <3>4, <3>5 DEF LinksTrack
  <2> QED
    BY <2>1, <2>2
<1>5. Rooted'
  <2> SUFFICES ASSUME NEW S \in SUBSET (Known \cup {pid}), root_pids' \subseteq S,
                      \A p \in Known \cup {pid} : procs'[p].parent_id \in S => p \in S
               PROVE  S = Known \cup {pid}
    BY <1>2 DEF Rooted
  <2>1. \A p \in Known : p \in root_pids => p \in S \ {pid}
    BY <1>1, <1>2 DEF root_pids, Known
  <2>2. \A p \in Known : procs[p].parent_id \in S \ {pid} => p \in S \ {pid}
    BY <1>1, <1>2
  <2>3. S \ {pid} = Known
    BY <1>1, <2>1, <2>2 DEF Rooted, root_pids, Known
  <2>4. pid \in S
    <3>1. CASE parent \in Known
      BY <3>1, <2>3, <1>2
    <3>2. CASE parent \notin Known
      BY <3>2, <1>1, <1>2 DEF root_pids, Known
    <3> QED
      BY <3>1, <3>2
  <2> QED
    BY <2>3, <2>4
<1>6. Founded'
  <2> SUFFICES ASSUME NEW W \in SUBSET (Known \cup {pid}),
                      \A p \in W : \E q \in W : procs'[q].parent_id = p
               PROVE  W = {}
    BY <1>2 DEF Founded
  <2>1. pid \notin W
    BY <1>1, <1>2
  <2>2. W \in SUBSET Known /\ \A p \in W : \E q \in W : procs[q].parent_id = p
    BY <2>1, <1>2
  <2> QED
    BY <2>2, <1>1 DEF Founded
<1> QED
  BY <1>3, <1>4, <1>5, <1>6

LEMMA RegisterPreserves ==
  ASSUME RInv, NEW pid \in Pids, NEW parent \in {0} \cup Pids, register_process(pid, parent)
  PROVE  RInv'
<1>1. /\ Known' = Known \cup {pid} /\ IsFiniteSet(Known') /\ Cardinality(Known) \in Nat
      /\ \A p \in Known : procs'[p] = procs[p]
      /\ pid \notin Known => /\ procs'[pid].parent_id = parent
                            /\ procs'[pid].first_seen_order = Cardinality(Known)
      /\ parent = 0 => child_links' = child_links
      /\ parent # 0 => child_links' = Append(child_links, <<parent, pid>>)
  BY Registered
<1>2. /\ regs' \in Seq([pid : Pids, parent : {0} \cup Pids])
      /\ Len(regs) \in Nat /\ DOMAIN regs = 1..Len(regs) /\ DOMAIN regs' = 1..(Len(regs) + 1)
      /\ \A i \in 1..Len(regs) : regs'[i] = regs[i]
      /\ regs'[Len(regs) + 1] = [pid |-> pid, parent |-> parent]
  BY Recorded
<1>3. TableOK'
  <2>1. child_links' \in Seq(Pids \X Pids)
    <3>1. CASE parent = 0
      BY <3>1, <1>1 DEF RInv, TableOK
    <3>2. CASE parent # 0
      <4>1. child_links \in Seq(Pids \X Pids) /\ <<parent, pid>> \in Pids \X Pids
        BY <3>2 DEF RInv, TableOK
      <4>2. Append(child_links, <<parent, pid>>) \in Seq(Pids \X Pids)
        BY <4>1, AppendProperties
      <4> QED
        BY <1>1, <3>2, <4>2, Zenon
    <3> QED
      BY <3>1, <3>2
  <2>2. \A p \in Known' : /\ procs'[p].parent_id \in {0} \cup Pids
                          /\ procs'[p].first_seen_order \in Nat
    <3>1. \A p \in Known : /\ procs[p].parent_id \in {0} \cup Pids
                           /\ procs[p].first_seen_order \in Nat
      BY DEF RInv, TableOK
    <3> QED
      BY <1>1, <3>1
  <2>3. Known' \subseteq Pids /\ file' \in Files
    BY <1>1 DEF RInv, TableOK, register_process
  <2> QED
    BY <1>1, <1>2, <2>1, <2>2, <2>3 DEF TableOK
<1>4. RegsTrack'
  <2>1. /\ \A i \in 1..Len(regs) : regs[i].pid \in Known
        /\ \A p \in Known : \E i \in 1..Len(regs) :
             regs[i] = [pid |-> p, parent |-> procs[p].parent_id]
    BY <1>2 DEF RInv, RegsTrack
  <2>2. \A i \in 1..(Len(regs) + 1) : regs'[i].pid \in Known'
    BY <1>1, <1>2, <2>1
  <2>3. \A p \in Known' : \E i \in 1..(Len(regs) + 1) :
           regs'[i] = [pid |-> p, parent |-> procs'[p].parent_id]
    <3> SUFFICES ASSUME NEW p \in Known'
                 PROVE  \E i \in 1..(Len(regs) + 1) :
                          regs'[i] = [pid |-> p, parent |-> procs'[p].parent_id]
      OBVIOUS
    <3>1. CASE p \in Known
      BY <3>1, <1>1, <1>2, <2>1
    <3>2. CASE p = pid /\ pid \notin Known
      BY <3>2, <1>1, <1>2
    <3> QED
      BY <3>1, <3>2, <1>1
  <2> QED
    BY <1>2, <2>2, <2>3 DEF RegsTrack
<1>5. FamilyTracks'
  BY FamilyPreserves DEF FamilyTracks
<1>6. BuiltTracks'
  BY DEF register_process, BuiltTracks, NoReport
<1> QED
  BY <1>3, <1>4, <1>5, <1>6 DEF RInv

\* What is left alone when the table is.
LEMMA TableStays ==
  ASSUME RInv, UNCHANGED <<procs, child_links, regs, file>>
  PROVE  /\ TableOK' /\ RegsTrack' /\ FamilyTracks'
         /\ UNCHANGED <<build_tree, processes, detect_pe_type(file)>> /\ Endless' = Endless
<1>1. TableOK' /\ RegsTrack'
  BY DEF RInv, TableOK, RegsTrack, Known
<1>2. FamilyTracks'
  BY DEF RInv, FamilyTracks, Orderly, OrdersTrack, LinksTrack, Rooted, Founded, root_pids, Known
<1>3. UNCHANGED <<build_tree, processes, detect_pe_type(file)>>
  BY DEF build_tree, build_node, children_map, root_pids, processes, detect_pe_type, Readable, TypeName
<1>4. Endless' = Endless
  BY DEF Endless, root_pids, children_map
<1> QED
  BY <1>1, <1>2, <1>3, <1>4

LEMMA BuildPreserves ==
  ASSUME RInv, build
  PROVE  RInv'
<1>1. UNCHANGED <<procs, child_links, regs, file>>
  BY DEF build
<1>2. BuiltTracks'
  BY <1>1, TableStays DEF build, BuiltTracks, NoReport
<1> QED
  BY <1>1, <1>2, TableStays DEF RInv

\* The invariant of the collector and the report.
THEOREM ReportInvariant == ReportSpec => []RInv
<1>1. ReportInit => RInv
  BY RInitOK
<1>2. RInv /\ [ReportNext]_rvars => RInv'
  <2> SUFFICES ASSUME RInv, [ReportNext]_rvars PROVE RInv'
    OBVIOUS
  <2>1. CASE UNCHANGED rvars
    <3>1. UNCHANGED <<procs, child_links, regs, file, report>>
      BY <2>1 DEF rvars
    <3> QED
      BY <3>1, TableStays DEF RInv, BuiltTracks
  <2> QED
    BY <2>1, RegisterPreserves, BuildPreserves DEF ReportNext
<1> QED
  BY <1>1, <1>2, PTL DEF ReportSpec

-----------------------------------------------------------------------------
\* build_node comes to an end when processes were registered as they start.
LEMMA TreeEnds == RInv /\ Orderly => ~Endless
<1> SUFFICES ASSUME RInv, Orderly, NEW W \in SUBSET Known, W # {},
                    \A p \in W : \E k \in children_map(p) : child_links[k][2] \in W
             PROVE  FALSE
  BY DEF Endless, Known
<1>1. LinksTrack /\ Founded
  BY DEF RInv, FamilyTracks
<1>2. ASSUME NEW p \in W PROVE \E q \in W : procs[q].parent_id = p
  <2>1. PICK k \in children_map(p) : child_links[k][2] \in W
    OBVIOUS
  <2>2. k \in DOMAIN child_links /\ child_links[k][1] = p
    BY DEF children_map
  <2> QED
    BY <1>1, <2>1, <2>2 DEF LinksTrack
<1> QED
  BY <1>1, <1>2 DEF Founded

\* Each process is at its place in the tree that is built.
LEMMA InvPlaced ==
  ASSUME RInv, Orderly
  PROVE  Placed(build_tree)
<1> DEFINE tree == build_tree
<1>0. LinksTrack /\ Rooted
  BY DEF RInv, FamilyTracks
<1>2. /\ tree.roots = root_pids
      /\ \A q \in Known : /\ DOMAIN tree.nodes[q] = {k \in DOMAIN child_links : child_links[k][1] = q}
                          /\ \A k \in DOMAIN tree.nodes[q] : tree.nodes[q][k] = child_links[k][2]
  BY DEF build_tree, build_node, children_map, Known
<1> HIDE DEF tree
<1>3. \A q \in Known : \A k \in DOMAIN tree.nodes[q] :
        /\ tree.nodes[q][k] \in Known \ tree.roots /\ procs[tree.nodes[q][k]].parent_id = q
        /\ \A l \in DOMAIN tree.nodes[q] : tree.nodes[q][k] = tree.nodes[q][l] => k = l
  BY <1>0, <1>2, ReportAssumption DEF RInv, LinksTrack, TableOK, root_pids, Known
<1>4. ASSUME NEW S \in SUBSET Known, tree.roots \subseteq S,
             \A q \in S : \A k \in DOMAIN tree.nodes[q] : tree.nodes[q][k] \in S
      PROVE  S = Known
  <2>1. ASSUME NEW p \in Known, procs[p].parent_id \in S PROVE p \in S
    <3>1. procs[p].parent_id \in Known /\ procs[p].parent_id # 0
      BY <2>1, ReportAssumption DEF RInv, TableOK
    <3>2. PICK k \in DOMAIN child_links : child_links[k][2] = p
      BY <1>0, <3>1 DEF LinksTrack
    <3>3. k \in DOMAIN tree.nodes[procs[p].parent_id]
      BY <1>0, <3>1, <3>2, <1>2 DEF LinksTrack
    <3> QED
      BY <3>1, <3>2, <3>3, <2>1, <1>2, <1>4
  <2> QED
    BY <1>0, <2>1, <1>2, <1>4 DEF Rooted
<1> QED
  BY <1>3, <1>4 DEF Placed, Known, tree

LEMMA InvTree == RInv => TreeHoldsAll
<1> SUFFICES ASSUME RInv PROVE TreeHoldsAll
  OBVIOUS
<1>1. Orderly => report.state # "overflow"
  BY TreeEnds DEF RInv, BuiltTracks
<1>2. ASSUME report.state = "built"
      PROVE  /\ Len(report.processes) = Cardinality(DOMAIN procs)
             /\ \A p \in DOMAIN procs : \E i \in DOMAIN report.processes : report.processes[i] = p
             /\ Orderly => /\ Placed(report.processtree)
                           /\ \A i, k \in DOMAIN report.processes :
                                procs[report.processes[i]].parent_id = report.processes[k] => k < i
  <2> DEFINE list == report.processes
  <2>1. report.processtree = build_tree /\ list \in processes
    BY <1>2 DEF RInv, BuiltTracks
  <2>2. /\ list \in [1..Cardinality(Known) -> Known] /\ Cardinality(Known) \in Nat
        /\ \A p \in Known : \E i \in DOMAIN list : list[i] = p
        /\ \A i, k \in DOMAIN list :
             i < k => procs[list[i]].first_seen_order <= procs[list[k]].first_seen_order
    BY <2>1, FS_CardinalityType DEF processes, RInv, TableOK, Known
  <2> HIDE DEF list
  <2>3. Len(list) = Cardinality(Known)
    BY <2>2
  <2>4. ASSUME Orderly, NEW i \in DOMAIN list, NEW k \in DOMAIN list,
               procs[list[i]].parent_id = list[k]
        PROVE  k < i
    <3>1. list[i] \in Known /\ list[k] \in Known /\ i \in Nat /\ k \in Nat
      BY <2>2
    <3>2. procs[list[k]].first_seen_order < procs[list[i]].first_seen_order
      BY <3>1, <2>4 DEF RInv, FamilyTracks, OrdersTrack
    <3> QED
      BY <3>1, <3>2, <2>2 DEF RInv, TableOK
  <2>5. Orderly => Placed(report.processtree)
    BY <2>1, InvPlaced
  <2> QED
    BY <2>2, <2>3, <2>4, <2>5 DEF Known, list
<1> QED
  BY <1>1, <1>2 DEF TreeHoldsAll

\* However register_process is called, the report lists every process; called as
\* processes start, build_tree returns, and everyone is in the tree, at one
\* place, under its parent, and in the list after it: nobody is lost, also not
\* a process whose parent was never registered.
THEOREM TreeIsComplete == ReportSpec => []TreeHoldsAll
  BY ReportInvariant, InvTree, PTL

\* detect_pe_type names the type of exactly the files that can be read and hold
\* the magic, and panics only for those that end between its two bytes.
THEOREM TypeIsDetected == ReportSpec => []TypeIsRight
<1>1. RInv => TypeIsRight
  <2> SUFFICES ASSUME RInv PROVE TypeIsRight
    OBVIOUS
  <2>1. file.len \in Nat /\ file.pe_offset \in Nat
    BY ReportAssumption DEF RInv, TableOK
  <2>2. TypeName(file) # "panic"
    BY DEF TypeName
  <2>3. CASE Readable(file) /\ file.len >= file.pe_offset + 26
    <3>1. detect_pe_type(file) = TypeName(file)
      BY <2>1, <2>3 DEF detect_pe_type
    <3> QED
      BY <3>1, <2>2, <2>3 DEF RInv, BuiltTracks, TypeIsRight
  <2>4. CASE ~(Readable(file) /\ file.len >= file.pe_offset + 26)
    <3>1. \/ detect_pe_type(file) = "unknown"
          \/ detect_pe_type(file) = "panic" /\ Readable(file) /\ file.len = file.pe_offset + 25
      BY <2>1, <2>4 DEF detect_pe_type
    <3> QED
      BY <3>1, <2>4 DEF RInv, BuiltTracks, TypeIsRight
  <2> QED
    BY <2>3, <2>4
<1> QED
  BY <1>1, ReportInvariant, PTL
=============================================================================
