------------------------------- MODULE MCFatCache -------------------------------
(***************************************************************************)
(* A small instance of FatCache with users on several cores.               *)
(***************************************************************************)
EXTENDS FatCache

CONSTANTS d1, d2, u, v
=============================================================================
