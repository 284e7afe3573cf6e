------------------------------- MODULE Ballot -------------------------------
(***************************************************************************)
(* What an advanced governance proposal promises, without tallies, ledgers *)
(* or storage keys: voters cast ballots while it is open, each voter at    *)
(* most one; it is decided once, by the ballots cast; only a proposal that *)
(* passed is executed, and nothing happens to a closed one.                *)
(***************************************************************************)
EXTENDS Integers, Functions

CONSTANT Voters

VARIABLES
    phase,    \* "none" until the proposal exists
    ballots,  \* the ballots cast
    quorum    \* the weight that must take part for the result to bind

vars == <<phase, ballots, quorum>>

Supports == {"For", "Against", "Abstain"}

WeightOf(cast) == SumFunction([b \in cast |-> b.weight])
Backing(support) == {b \in ballots : b.support = support}

Passed ==
    /\ WeightOf(ballots) >= quorum
    /\ WeightOf(Backing("For")) > WeightOf(Backing("Against"))

Init ==
    /\ phase = "none"
    /\ ballots = {}
    /\ quorum = 0

Open ==
    /\ phase = "none"
    /\ phase' = "open"
    /\ quorum' \in Int
    /\ ballots' = ballots

Cast(v) ==
    /\ phase = "open"
    /\ \A b \in ballots : b.voter # v
    /\ \E b \in ballots' :
          /\ b.voter = v /\ b.support \in Supports /\ b.weight \in Nat
          /\ ballots' = ballots \union {b}
    /\ UNCHANGED <<phase, quorum>>

Decide ==
    /\ phase = "open"
    /\ phase' = IF Passed THEN "passed" ELSE "failed"
    /\ UNCHANGED <<ballots, quorum>>

Execute ==
    /\ phase = "passed"
    /\ phase' = "executed"
    /\ UNCHANGED <<ballots, quorum>>

Cancel ==
    /\ phase = "open"
    /\ phase' = "cancelled"
    /\ UNCHANGED <<ballots, quorum>>

Next ==
    \/ Open
    \/ \E v \in Voters : Cast(v)
    \/ Decide
    \/ Execute
    \/ Cancel

Spec == Init /\ [][Next]_vars
=============================================================================
