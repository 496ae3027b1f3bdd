--------------------------- MODULE MCAccessWindow ---------------------------
(***************************************************************************)
(* The locked ring of FootprintMRC with feeders and rebalancer queries.    *)
(***************************************************************************)
EXTENDS AccessWindow

CONSTANTS q1, q2

(* spec.md 5: at most one rebalancer thread queries.                       *)
OneQuerier == {q1}

(* spec.md 1: a host may call the profiler from any thread.                *)
TwoQueriers == {q1, q2}
=============================================================================
