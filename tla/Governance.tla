----------------------------- MODULE Governance -----------------------------
(***************************************************************************)
(* The governance contract: the legacy families and the advanced proposals *)
(* over one id counter, one ledger and one token whose holders go on       *)
(* trading while proposals are voted on.                                   *)
(***************************************************************************)
EXTENDS GovernanceLegacy, Voting

vars == <<baseVars, legacyVars, votingVars>>

TypeOK == BaseTypeOK /\ LegacyTypeOK /\ VotingTypeOK

Init == BaseInit /\ LegacyInit /\ VotingInit

\* Resets the shared counter, whatever was created before.
initialize ==
    /\ ~initialized
    /\ initialized' = TRUE
    /\ nextProposalId' = 1
    /\ config' = Defaults
    /\ UNCHANGED <<ledger, balance, moves, legacyVars, advanced, voteRecord>>

Environment ==
    \/ CloseLedger
    \/ \E from, to \in Accounts : \E amount \in Amounts : Transfer(from, to, amount)

Next ==
    \/ initialize
    \/ LegacyNext /\ UNCHANGED votingVars
    \/ VotingNext /\ UNCHANGED legacyVars
    \/ Environment /\ UNCHANGED <<legacyVars, votingVars>>

Spec == Init /\ [][Next]_vars

----------------------------------------------------------------------------
(* properties *)

\* One counter serves three families in two storage classes, and two of them share their
\* vote keys: no id names two proposals, and an id still to be given out has neither a
\* proposal nor a taken vote slot, so nobody is locked out of a new proposal by an old vote.
IdsUnique ==
    /\ Used(proposal) \intersect Used(upgrade) = {}
    /\ (Used(proposal) \union Used(upgrade)) \intersect Used(advanced) = {}
    /\ \A id \in Ids :
          id >= nextProposalId =>
              /\ id \notin Used(proposal) \union Used(upgrade) \union Used(advanced)
              /\ \A v \in Accounts : vote[id][v] = None /\ voteRecord[id][v] = None

\* An executed legacy proposal has a closed, won vote behind it, an executed upgrade also the
\* admin's approval and its timelock as proposed; no later call undoes any of it.
ExecutionsWereDue ==
    /\ \A id \in Used(proposal) :
          proposal[id].executed => Majority(proposal[id]) /\ ledger >= proposal[id].end
    /\ \A id \in Used(upgrade) :
          /\ upgrade[id].approved => Majority(upgrade[id]) /\ ledger >= upgrade[id].end
          /\ upgrade[id].executed => upgrade[id].approved /\ ledger >= upgrade[id].timelock

\* A decided advanced proposal still satisfies what it was decided by: the tallies cannot
\* move after the decision, and an executed one had passed and waited out its timelock.
DecisionsStand ==
    \A id \in Used(advanced) :
        LET p == advanced[id]
        IN  /\ p.state \in {"Succeeded", "Executed"} => Passes(p) /\ ledger >= p.end
            /\ p.state = "Defeated" => ~Passes(p) /\ ledger >= p.end
            /\ p.state = "Executed" => ledger >= p.timelock

\* Each advanced proposal behaves as a ballot: its decision is the outcome of the vote
\* records, which live under other keys than the tallies the code decides by.
Phase(p) ==
    CASE p = None -> "none"
      [] p # None ->
            CASE p.state \in {"Pending", "Active"} -> "open"
              [] p.state = "Succeeded" -> "passed"
              [] p.state = "Defeated"  -> "failed"
              [] p.state = "Executed"  -> "executed"
              [] p.state = "Cancelled" -> "cancelled"

Ballots(id) ==
    {[voter |-> v, support |-> voteRecord[id][v].support, weight |-> voteRecord[id][v].weight] :
        v \in {v \in Accounts : voteRecord[id][v] # None}}

BallotOf(id) ==
    INSTANCE Ballot WITH Voters  <- Accounts,
                         phase   <- Phase(advanced[id]),
                         ballots <- Ballots(id),
                         quorum  <- IF advanced[id] = None THEN 0 ELSE advanced[id].quorum

\* (\A id \in Ids : BallotOf(id)!Spec, with the quantifier moved inside the box.)
ProposalsAreBallots ==
    /\ \A id \in Ids : BallotOf(id)!Init
    /\ [][\A id \in Ids : [BallotOf(id)!Next]_(BallotOf(id)!vars)]_vars
=============================================================================
