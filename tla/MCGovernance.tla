---------------------------- MODULE MCGovernance ----------------------------
(***************************************************************************)
(* A small instance of the governance contract: two token holders, two     *)
(* proposals of any families.                                              *)
(***************************************************************************)
EXTENDS Governance, TLC

CONSTANTS v1, v2

MCInitialBalance == (v1 :> 4) @@ (v2 :> 1)

\* One snapshot above and one below what is there; below zero the contract takes too.
MCSupplies == {25, -8}

\* integer_sqrt is the floor of the square root, past the branch for small arguments.
ASSUME SqrtIsFloor ==
    \A x \in 0..300 :
        LET n == integer_sqrt(x) IN n * n <= x /\ x < (n + 1) * (n + 1)
=============================================================================
