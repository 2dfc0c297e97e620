----------------------------- MODULE MCSession -----------------------------
(* Small instances of Session. *)
EXTENDS Session

Codes == {0}

\* The faults that decide what becomes of the RPC; those of the pipes and of
\* the process handles are checked in Analysis.
SessionFaults == {"setup", "execute", "logpipe", "inject", "close", "open", "tamper", "pe",
                  "terminate"}
=============================================================================
