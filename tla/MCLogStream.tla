---------------------------- MODULE MCLogStream ----------------------------
(* Small instances of LogStream. *)
EXTENDS LogStream

MCIndices == {0, 1}

\* Two APIs, one with two arguments of its own and one with none; an info that
\* announces too few names, and one that cannot be ingested.
MCInfos ==
  {[type |-> "info", I |-> i, valid |-> v.valid, api |-> v.api, names |-> v.names] :
     i \in MCIndices,
     v \in {[valid |-> TRUE,  api |-> "open", names |-> <<"ok", "ret", "path", "mode">>],
            [valid |-> TRUE,  api |-> "exit", names |-> <<"ok", "ret">>],
            [valid |-> TRUE,  api |-> "odd",  names |-> <<"ok">>],
            [valid |-> FALSE, api |-> "bad",  names |-> <<"ok", "ret", "x">>]}}

Int32(n)  == [type |-> "i32", v |-> n]
Int64(n)  == [type |-> "i64", v |-> n]
Text(s)   == [type |-> "str", v |-> s]

\* Argument lists at and around the two that are always read.
MCArgs ==
  {<<>>, <<Int32(1)>>, <<Int32(1), Int32(0)>>,
   <<Int32(0), Int64(-1), Text("a")>>, <<Int32(1), Int64(7), Text("a"), Text("b")>>,
   <<Int32(1), Text("a")>>, <<Int64(1), Int32(0)>>}

Call(i, f, a) == [type |-> "call", I |-> i, T |-> 10, form |-> f, args |-> a]

MCCalls == {Call(i, "array", a) : i \in MCIndices, a \in MCArgs}
             \cup {Call(0, f, <<>>) : f \in {"missing", "scalar"}}

MCValues == {Int32(0), Int32(1), Int64(-1), Int64(1), Int64(7), Text("a"), Text("b")}
=============================================================================
