----------------------------- MODULE MCReport ------------------------------
(* Small instances of Report. *)
EXTENDS Report

\* Lengths around the 64 bytes of the DOS header and around the end of the
\* magic for each offset; offsets inside, right after and beyond the header.
\* One file has every magic, and is also one that is locked and one that is gone.
MCFiles ==
  [access : {"readable"}, len : {63, 64, 65, 66, 88, 89, 90}, pe_offset : {0, 39, 40, 64, 4096},
   magic : {"pe32", "other"}, is_dll : {FALSE}]
    \cup [access : {"readable"}, len : {90}, pe_offset : {64}, magic : {"pe32", "pe32+"}, is_dll : BOOLEAN]
    \cup [access : {"locked", "gone"}, len : {89, 90}, pe_offset : {64}, magic : {"pe32"}, is_dll : {FALSE}]
=============================================================================
