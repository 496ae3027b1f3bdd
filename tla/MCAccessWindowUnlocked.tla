----------------------- MODULE MCAccessWindowUnlocked -----------------------
(***************************************************************************)
(* The unlocked ring of FootprintMRC with request threads and one          *)
(* rebalancer thread (spec.md 5).                                          *)
(***************************************************************************)
EXTENDS AccessWindowUnlocked

CONSTANTS f1, f2, q1

OneFeeder == {f1}

TwoFeeders == {f1, f2}

OneQuerier == {q1}
=============================================================================
