----------------------------- MODULE LogStream ------------------------------
(***************************************************************************)
(* What the log reader makes of the monitor's documents: SchemaRegistry    *)
(* and process_doc (bson_log.rs), read_loop (pipes/logserver.rs) and       *)
(* push_call (collector.rs).  Analysis has the threads and pipes around    *)
(* it and only counts the calls.                                           *)
(*                                                                         *)
(* A document is either an info, which names an API and its arguments, or  *)
(* a call of an API that an info has announced under the same index "I".   *)
(* The monitor's protocol: the first two arguments of every API are the    *)
(* success flag and the return value.                                      *)
(***************************************************************************)
EXTENDS Integers, Sequences

CONSTANTS
  Infos,        \* info documents the monitor may write:
                \*   [I, valid, api, names]; not valid if a field is missing
                \*   or has another type than ingest_info asks for
  Calls,        \* call documents: [I, T, form, args]; "args" is missing, is a
                \*   scalar or, if form is "array", the sequence args of values
  Values,       \* the values an argument may have: [type, v]
  Indices,      \* the values of "I"
  MaxDocs       \* bound: documents written

ASSUME LogAssumption ==
  /\ \A d \in Infos : /\ d.type = "info" /\ d.I \in Indices /\ d.valid \in BOOLEAN
                      /\ d.names \in Seq(STRING)
  /\ \A d \in Calls : /\ d.type = "call" /\ d.I \in Indices
                      /\ d.form \in {"missing", "scalar", "array"}
                      /\ d.args \in Seq(Values)
  /\ MaxDocs \in Nat

VARIABLES
  log,          \* the documents written so far
  read,         \* how many of them the reader has taken
  map,          \* SchemaRegistry: from the indices announced so far
  calls,        \* ProcInfo.calls
  reader        \* reading, ended, panicked

lvars == <<log, read, map, calls, reader>>

LogInit ==
  /\ log = <<>> /\ read = 0
  /\ map = [i \in {} |-> {}]
  /\ calls = <<>> /\ reader = "reading"

-----------------------------------------------------------------------------
Schema(d) == [api |-> d.api, names |-> d.names]

insert(m, i, schema) ==
  [k \in DOMAIN m \cup {i} |-> IF k = i THEN schema ELSE m[k]]

get(m, i) == i \in DOMAIN m

\* Mutant: the first announcement of an index is kept.
ingest_info_once(m, d) ==
  IF d.valid /\ ~get(m, d.I) THEN insert(m, d.I, Schema(d)) ELSE m

\* An info that lacks something is reported on the console and ignored.
ingest_info(m, d) == IF d.valid THEN insert(m, d.I, Schema(d)) ELSE m

\* Mutant: a call is expected to have an argument of its own.
process_doc_survives_args(schema, d) ==
  /\ d.form = "array"
  /\ Len(d.args) >= 3
  /\ d.args[2].type \in {"i32", "i64"} /\ d.args[1].type = "i32"
  /\ Len(schema.names) >= 2

\* What the unwraps and the indexing of process_doc need of a call with a
\* known schema; without it the thread panics.
process_doc_survives(schema, d) ==
  /\ d.form = "array"
  /\ Len(d.args) >= 2
  /\ d.args[2].type \in {"i32", "i64"} /\ d.args[1].type = "i32"
  /\ Len(schema.names) >= 2

\* arg_names[2..].zip(values[2..]), as long as the shorter of the two.
Zip(names, values) ==
  [k \in 1..(IF Len(names) < Len(values) THEN Len(names) ELSE Len(values)) - 2 |->
     <<names[k + 2], values[k + 2]>>]

ApiCall(schema, d) ==
  [api          |-> schema.api,
   status       |-> IF d.args[1].v = 1 THEN "success" ELSE "failed",
   return_value |-> d.args[2].v,
   thread_id    |-> d.T,
   arguments    |-> Zip(schema.names, d.args)]

\* One round of read_loop: read_bson_frame, process_doc, push_call.
ReadDoc ==
  /\ reader = "reading"
  /\ read < Len(log)
  /\ read' = read + 1
  /\ LET d == log[read + 1] IN
       \/ /\ d.type = "info"
          /\ map' = ingest_info(map, d)
          /\ UNCHANGED <<calls, reader>>
       \/ /\ d.type = "call" /\ ~get(map, d.I)
          /\ UNCHANGED <<map, calls, reader>>
       \/ /\ d.type = "call" /\ get(map, d.I)
          /\ ~process_doc_survives(map[d.I], d)
          /\ reader' = "panicked"
          /\ UNCHANGED <<map, calls>>
       \/ /\ d.type = "call" /\ get(map, d.I)
          /\ process_doc_survives(map[d.I], d)
          /\ calls' = Append(calls, ApiCall(map[d.I], d))
          /\ UNCHANGED <<map, reader>>
  /\ UNCHANGED log

\* The pipe is closed, or a frame is not a document.
StopReading ==
  /\ reader = "reading"
  /\ reader' = "ended"
  /\ UNCHANGED <<log, read, map, calls>>

\* The monitor (external).
WriteDoc ==
  /\ Len(log) < MaxDocs
  /\ \E d \in Infos \cup Calls : log' = Append(log, d)
  /\ UNCHANGED <<read, map, calls, reader>>

LogNext == ReadDoc \/ StopReading \/ WriteDoc

LogSpec == LogInit /\ [][LogNext]_lvars

-----------------------------------------------------------------------------
(***************************************************************************)
(* What a log g says, defined on the documents alone.                      *)
(***************************************************************************)
\* Where index x was announced among the first n documents.
Announcing(g, x, n) == {k \in 1..n : g[k].type = "info" /\ g[k].valid /\ g[k].I = x}

\* The last of a set of positions: 0 if there is none.
Latest(S) == IF S = {} THEN 0 ELSE CHOOSE k \in S : \A l \in S : l <= k

\* Where the schema of document i was announced last.
Announced(g, i) == Latest(Announcing(g, g[i].I, i - 1))

IsCall(g, i) == g[i].type = "call" /\ Announced(g, i) # 0

\* Document i keeps to the protocol: an API has its two leading arguments, and
\* a call of it brings them.
Conforms(g, i) ==
  IsCall(g, i) =>
    LET a == g[i].args IN
    /\ Len(g[Announced(g, i)].names) >= 2
    /\ g[i].form = "array"
    /\ Len(a) >= 2 /\ a[1].type = "i32" /\ a[2].type \in {"i32", "i64"}

\* The n-th value of call i under the n-th name of its announcement.
Meaning(g, i) ==
  LET info == g[Announced(g, i)]
      a    == g[i].args
  IN  [api          |-> info.api,
       status       |-> IF a[1].v = 1 THEN "success" ELSE "failed",
       return_value |-> a[2].v,
       thread_id    |-> g[i].T,
       arguments    |-> SubSeq([n \in 1..Len(a) |->
                                  <<IF n <= Len(info.names) THEN info.names[n] ELSE "", a[n]>>],
                               3, IF Len(a) < Len(info.names) THEN Len(a) ELSE Len(info.names))]

\* The calls among the first n documents that were not lost to a panic.
Understood(g, n) == {i \in 1..n : IsCall(g, i) /\ Conforms(g, i)}

\* The collector holds exactly the calls of the documents read, in their
\* order, each with the names that were in force when it was written: a later
\* info does not rename an earlier call and a broken one changes nothing.
CallsAreTheLog ==
  \E n \in 0..read : \E at \in [1..n -> 1..read] :
    /\ \A k, l \in 1..n : k < l => at[k] < at[l]
    /\ {at[k] : k \in 1..n} = Understood(log, read)
    /\ calls = [k \in 1..n |-> Meaning(log, at[k])]

\* The reader thread panics, and with it the rest of the log is lost, exactly
\* at the first document that breaks the protocol for an API it knows; a log
\* that keeps to the protocol is read to its end.
PanicsAtFirstBreach ==
  /\ reader = "panicked" => ~Conforms(log, read)
  /\ \A i \in 1..read : ~Conforms(log, i) => i = read /\ reader = "panicked"

=============================================================================
