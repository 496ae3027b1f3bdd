-------------------------- MODULE MCPoolRebalancer --------------------------
(* One pool with two classes: one object per slab, and two per slab.       *)
EXTENDS PoolRebalancer

ApsOneTwo == (1 :> 1) @@ (2 :> 2)
====
