------------------------------- MODULE Report -------------------------------
(***************************************************************************)
(* The collector's table of processes (collector.rs) and the report made   *)
(* of it and of the sample's file (report.rs).                             *)
(*                                                                         *)
(* run_analysis registers one process today, the sample with parent 0; the *)
(* collector and build_tree are written for the processes it starts as     *)
(* well.  They are modelled for any calls of register_process: the same    *)
(* pid twice, a child before its parent, a process as its own ancestor.    *)
(*                                                                         *)
(* A file is known by whether it is there and can be read, its length, the *)
(* pe_offset its header holds, and what the bytes found from there on say: *)
(* the optional header's magic and the DLL flag.                           *)
(***************************************************************************)
EXTENDS Naturals, Sequences, FiniteSets

CONSTANTS
  Pids,              \* pids of processes, registered or not
  MaxRegistrations,  \* bound: calls of register_process
  Files              \* the sample files considered

ASSUME ReportAssumption ==
  /\ Pids \subseteq Nat \ {0} /\ MaxRegistrations \in Nat
  /\ \A f \in Files : /\ f.access \in {"gone", "locked", "readable"}
                      /\ f.len \in Nat /\ f.pe_offset \in Nat /\ f.is_dll \in BOOLEAN

VARIABLES
  procs,        \* pid -> [parent_id, first_seen_order]
  child_links,  \* pairs parent, child in the order of registration
  regs,         \* the calls of register_process so far
  file,         \* what is at sample_path
  report        \* what was built: its state, processes, tree and type

rvars == <<procs, child_links, regs, file, report>>

NoReport == [state |-> "none", processes |-> <<>>, processtree |-> <<>>, r_type |-> "unknown"]

ReportInit ==
  /\ procs = <<>> /\ child_links = <<>> /\ regs = <<>>
  /\ file \in Files /\ report = NoReport

-----------------------------------------------------------------------------
\* entry().or_insert_with keeps the entry of a pid that is known; the link is
\* pushed in any case.
register_process(pid, parent) ==
  /\ report = NoReport
  /\ Len(regs) < MaxRegistrations
  /\ procs' = [p \in DOMAIN procs \cup {pid} |->
                 IF p \in DOMAIN procs THEN procs[p]
                 ELSE [parent_id |-> parent, first_seen_order |-> Cardinality(DOMAIN procs)]]
  /\ child_links' = IF parent # 0 THEN Append(child_links, <<parent, pid>>) ELSE child_links
  /\ regs' = Append(regs, [pid |-> pid, parent |-> parent])
  /\ UNCHANGED <<file, report>>

\* Report::build takes the processes out of a HashMap and sorts them.
processes ==
  {s \in [1..Cardinality(DOMAIN procs) -> DOMAIN procs] :
     /\ \A p \in DOMAIN procs : \E i \in DOMAIN s : s[i] = p
     /\ \A i, k \in DOMAIN s : i < k => procs[s[i]].first_seen_order <= procs[s[k]].first_seen_order}

\* The children of a process: the positions of its links, in whose order they
\* were pushed.
children_map(pid) == {k \in DOMAIN child_links : child_links[k][1] = pid}

\* Mutant: only processes without a parent are roots.
root_pids_orphanless == {p \in DOMAIN procs : procs[p].parent_id = 0}

root_pids == {p \in DOMAIN procs : procs[p].parent_id = 0 \/ procs[p].parent_id \notin DOMAIN procs}

\* A node is given by the pids of its children.
build_node(pid) == [k \in children_map(pid) |-> child_links[k][2]]

\* The nested vectors are given by the roots and the nodes that build_node
\* makes from there on; the roots come in the order of a HashMap.
build_tree == [roots |-> root_pids, nodes |-> [p \in DOMAIN procs |-> build_node(p)]]

\* build_node calls itself for every child: it does not return if it can go
\* down from a root for ever, through processes that each have a child of the
\* same kind.
Endless ==
  \E W \in SUBSET DOMAIN procs :
    /\ W \cap root_pids # {}
    /\ \A p \in W : \E k \in children_map(p) : child_links[k][2] \in W

TypeName(f) ==
  CASE f.magic = "pe32"  -> IF f.is_dll THEN "pe32 dll" ELSE "pe32 exe"
    [] f.magic = "pe32+" -> IF f.is_dll THEN "pe32+ dll" ELSE "pe32+ exe"
    [] OTHER -> "unknown"

\* fs::read succeeds and there is a DOS header.
Readable(f) == f.access = "readable" /\ f.len >= 64

\* Mutant: the bounds check lets one more length through.
detect_pe_type_late(f) ==
  CASE ~Readable(f) -> "unknown"
    [] Readable(f) /\ f.pe_offset + 24 > f.len -> "unknown"
    [] Readable(f) /\ f.pe_offset + 24 <= f.len /\ f.pe_offset + 25 >= f.len -> "panic"
    [] OTHER -> TypeName(f)

\* data[pe_offset + 25] is read although only pe_offset + 24 was checked.
detect_pe_type(f) ==
  CASE ~Readable(f) -> "unknown"
    [] Readable(f) /\ f.pe_offset + 24 >= f.len -> "unknown"
    [] Readable(f) /\ f.pe_offset + 24 < f.len /\ f.pe_offset + 25 >= f.len -> "panic"
    [] OTHER -> TypeName(f)

\* build_target_file and then Report::build.
build ==
  /\ report = NoReport
  /\ \/ /\ file.access = "gone"
        /\ report' = [NoReport EXCEPT !.state = "error"]
     \/ /\ file.access # "gone" /\ detect_pe_type(file) = "panic"
        /\ report' = [NoReport EXCEPT !.state = "panic"]
     \/ /\ file.access # "gone" /\ detect_pe_type(file) # "panic" /\ Endless
        /\ report' = [NoReport EXCEPT !.state = "overflow"]
     \/ /\ file.access # "gone" /\ detect_pe_type(file) # "panic" /\ ~Endless
        /\ \E s \in processes :
             report' = [state |-> "built", processes |-> s, processtree |-> build_tree,
                        r_type |-> detect_pe_type(file)]
  /\ UNCHANGED <<procs, child_links, regs, file>>

ReportNext ==
  \/ \E pid \in Pids, parent \in {0} \cup Pids : register_process(pid, parent)
  \/ build

ReportSpec == ReportInit /\ [][ReportNext]_rvars

-----------------------------------------------------------------------------
(***************************************************************************)
(* What the report promises.                                               *)
(***************************************************************************)
\* Processes are registered as they start: each pid once, and no process before
\* its parent, if that is registered at all.
Orderly ==
  \A i, k \in DOMAIN regs : /\ regs[i].pid = regs[k].pid => i = k
                            /\ regs[i].parent = regs[k].pid => k < i

Placed(tree) ==
  LET Child(q, k) == tree.nodes[q][k]
      Whole(S) == tree.roots \subseteq S /\ \A q \in S : \A k \in DOMAIN tree.nodes[q] : Child(q, k) \in S
  IN  /\ \A q \in DOMAIN procs : \A k \in DOMAIN tree.nodes[q] :
           /\ Child(q, k) \in DOMAIN procs \ tree.roots /\ procs[Child(q, k)].parent_id = q
           /\ \A l \in DOMAIN tree.nodes[q] : Child(q, k) = Child(q, l) => k = l
      /\ \A S \in SUBSET DOMAIN procs : Whole(S) => S = DOMAIN procs

\* However processes were registered, a report that is built lists each of them.
\* If they were registered as they start, build_tree returns, every process is at
\* one place of the tree and only one, a root or a child of its own parent, and
\* can be reached from a root, also when its parent is not monitored; in the
\* list a monitored parent comes before its children.  Without that, register_process
\* lets a process be its own ancestor, for which build_node never returns.
TreeHoldsAll ==
  LET list == report.processes
  IN  /\ report.state = "built" =>
           /\ Len(list) = Cardinality(DOMAIN procs)
           /\ \A p \in DOMAIN procs : \E i \in DOMAIN list : list[i] = p
      /\ Orderly =>
           /\ report.state # "overflow"
           /\ report.state = "built" =>
                /\ Placed(report.processtree)
                /\ \A i, k \in DOMAIN list : procs[list[i]].parent_id = list[k] => k < i

\* The type is named only for a file that can be read and holds the whole two
\* bytes of the magic, and for each of those; a file that ends between the two
\* bytes, and no other, makes detect_pe_type panic and loses the report, and so
\* does a file that is gone, by an error.
TypeIsRight ==
  LET whole == Readable(file) /\ file.len >= file.pe_offset + 26
  IN  /\ report.state = "built" =>
           file.access # "gone" /\ report.r_type = IF whole THEN TypeName(file) ELSE "unknown"
      /\ report.state = "panic" => Readable(file) /\ file.len = file.pe_offset + 25
      /\ report.state = "error" => file.access = "gone"
=============================================================================
