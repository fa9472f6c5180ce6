------------------------------ MODULE MCTransport ------------------------------
(***************************************************************************)
(* A small instance of Transport: one task connects.                       *)
(***************************************************************************)
EXTENDS Transport

CONSTANTS c1, c2, client
=============================================================================
