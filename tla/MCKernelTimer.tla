--------------------------- MODULE MCKernelTimer ---------------------------
(***************************************************************************)
(* Small instances of KernelTimer.  Delay 0 is what MSEC2HZ makes of less  *)
(* than ten milliseconds.                                                  *)
(***************************************************************************)
EXTENDS KernelTimer

CONSTANTS u, v, w, a1, a2, a3

Three == u :> {0, 1} @@ v :> {1, 2} @@ w :> {2}
Two   == u :> {1} @@ v :> {1, 2}

=============================================================================
