-------------------------- MODULE AccessWindowSpec --------------------------
(***************************************************************************)
(* What the access window of FootprintMRC promises (spec.md 3, 4.A): the  *)
(* window is the sequence of the last K accesses fed, oldest first; feed   *)
(* appends one access and drops the oldest once K are held; reset empties  *)
(* it; a query analyses a copy of the window as it was at one instant.     *)
(* view[q] is the window query q is analysing, <<>> while q is idle.       *)
(***************************************************************************)
EXTENDS Naturals, Sequences

CONSTANTS K, Queriers, Keys, Classes

ASSUME K \in Nat \ {0}

Access == Keys \X Classes

VARIABLES window, view

absVars == <<window, view>>

AbsInit ==
  /\ window = <<>>
  /\ view = [q \in Queriers |-> <<>>]

(* The last K accesses after r is appended to w.                           *)
Slide(w, r) == IF Len(w) < K THEN Append(w, r) ELSE Append(Tail(w), r)

AbsFeed(r) ==
  /\ window' = Slide(window, r)
  /\ UNCHANGED view

AbsReset ==
  /\ window' = <<>>
  /\ UNCHANGED view

AbsSnapshot(q) ==
  /\ view' = [view EXCEPT ![q] = window]
  /\ UNCHANGED window

AbsFinish(q) ==
  /\ view' = [view EXCEPT ![q] = <<>>]
  /\ UNCHANGED window

AbsNext ==
  \/ \E r \in Access : AbsFeed(r)
  \/ AbsReset
  \/ \E q \in Queriers : AbsSnapshot(q) \/ AbsFinish(q)

AbsSpec == AbsInit /\ [][AbsNext]_absVars

AbsTypeOK ==
  /\ window \in Seq(Access) /\ Len(window) <= K
  /\ view \in [Queriers -> Seq(Access)]
=============================================================================
