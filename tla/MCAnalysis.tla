----------------------------- MODULE MCAnalysis -----------------------------
(* Small instances of Analysis. *)
EXTENDS Analysis

\* An ordinary code, and the one that reads as "still active".
Codes == {0, STILL_ACTIVE}
=============================================================================
