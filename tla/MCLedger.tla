------------------------------ MODULE MCLedger ------------------------------
(* Instances of Ledger for model checking.                                 *)
EXTENDS Ledger, TLC

CONSTANTS r1, r2, a1, a2, a3, t1, t2, u1, k1

\* No hard usage limit, and one that three units of estimates fill.
Unlimited == [u \in Users |-> None]
ThreeEach == [u \in Users |-> 3]

\* A correction of one unit downwards.
Corrections == {-1}

Symmetry == Permutations(Requests) \cup Permutations(Attempts) \cup Permutations(Tenants)
=============================================================================
