------------------------------ MODULE MCPage -------------------------------
(* Small instances of Page. *)
EXTENDS Page
=============================================================================
