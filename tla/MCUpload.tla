----------------------------- MODULE MCUpload ------------------------------
(* Small instances of Upload. *)
EXTENDS Upload
=============================================================================
