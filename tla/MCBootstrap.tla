---------------------------- MODULE MCBootstrap ----------------------------
(* Small instances of Bootstrap. *)
EXTENDS Bootstrap
=============================================================================
