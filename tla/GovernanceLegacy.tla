-------------------------- MODULE GovernanceLegacy --------------------------
(***************************************************************************)
(* The simple proposals and the contract-upgrade proposals of the          *)
(* governance contract (contracts/governance/src/lib.rs).  The two         *)
(* families record who voted under the same key, DataKey::Vote(id, voter). *)
(***************************************************************************)
EXTENDS GovernanceBase

VARIABLES
    proposal,        \* DataKey::Proposal(id)
    upgrade,         \* DataKey::UpgradeProposal(id)
    timelockExpiry,  \* DataKey::TimelockExpiry(id)
    vote             \* DataKey::Vote(id, voter): "yes", "no" or None

legacyVars == <<proposal, upgrade, timelockExpiry, vote>>

Choices == {"yes", "no"}

ProposalRecord == [end : Nat, for : Nat, against : Nat, executed : BOOLEAN]
UpgradeProposalRecord ==
    [end : Nat, timelock : Nat, for : Nat, against : Nat, approved : BOOLEAN, executed : BOOLEAN]

LegacyTypeOK ==
    /\ proposal \in [Ids -> ProposalRecord \union {None}]
    /\ upgrade \in [Ids -> UpgradeProposalRecord \union {None}]
    /\ timelockExpiry \in [Ids -> Nat \union {None}]
    /\ vote \in [Ids -> [Accounts -> Choices \union {None}]]

LegacyInit ==
    /\ proposal = [id \in Ids |-> None]
    /\ upgrade = [id \in Ids |-> None]
    /\ timelockExpiry = [id \in Ids |-> None]
    /\ vote = [id \in Ids |-> [v \in Accounts |-> None]]

\* Mutant: votes against are taken off votes_for.
Tally_Nets(record, choice, weight) ==
    [record EXCEPT !.for = IF choice = "yes" THEN @ + weight ELSE @ - weight]

\* A vote for a record of either family, with the voter's balance as its weight.
Tally(record, choice, weight) ==
    [record EXCEPT !.for     = IF choice = "yes" THEN @ + weight ELSE @,
                   !.against = IF choice = "no" THEN @ + weight ELSE @]

MayVote(record, id, v) ==
    /\ ~VotingOver(record)
    /\ ~record.executed
    /\ vote[id][v] = None
    /\ balance[v] > 0

Majority(record) == record.for > record.against

----------------------------------------------------------------------------
(* simple proposals *)

create_proposal(id, end) ==
    /\ initialized
    /\ end > ledger
    /\ TakeId(id)
    /\ proposal' = [proposal EXCEPT ![id] =
                       [end |-> end, for |-> 0, against |-> 0, executed |-> FALSE]]
    /\ UNCHANGED <<ledger, initialized, balance, moves, upgrade, timelockExpiry, vote>>

vote_proposal(v, id, choice) ==
    /\ proposal[id] # None
    /\ MayVote(proposal[id], id, v)
    /\ vote' = [vote EXCEPT ![id][v] = choice]
    /\ proposal' = [proposal EXCEPT ![id] = Tally(@, choice, balance[v])]
    /\ UNCHANGED <<baseVars, upgrade, timelockExpiry>>

execute_proposal(id) ==
    /\ proposal[id] # None
    /\ VotingOver(proposal[id])
    /\ ~proposal[id].executed
    /\ Majority(proposal[id])
    /\ proposal' = [proposal EXCEPT ![id].executed = TRUE]
    /\ UNCHANGED <<baseVars, upgrade, timelockExpiry, vote>>

----------------------------------------------------------------------------
(* upgrade proposals *)

propose_upgrade(id, end, timelock) ==
    /\ initialized
    /\ end > ledger
    /\ timelock > end
    /\ TakeId(id)
    /\ upgrade' = [upgrade EXCEPT ![id] =
                      [end |-> end, timelock |-> timelock, for |-> 0, against |-> 0,
                       approved |-> FALSE, executed |-> FALSE]]
    /\ UNCHANGED <<ledger, initialized, balance, moves, proposal, timelockExpiry, vote>>

vote_upgrade(v, id, choice) ==
    /\ upgrade[id] # None
    /\ MayVote(upgrade[id], id, v)
    /\ vote' = [vote EXCEPT ![id][v] = choice]
    /\ upgrade' = [upgrade EXCEPT ![id] = Tally(@, choice, balance[v])]
    /\ UNCHANGED <<baseVars, proposal, timelockExpiry>>

\* By the stored admin, and again as often as the admin likes until the execution.
approve_upgrade(id) ==
    /\ upgrade[id] # None
    /\ VotingOver(upgrade[id])
    /\ ~upgrade[id].executed
    /\ Majority(upgrade[id])
    /\ upgrade' = [upgrade EXCEPT ![id].approved = TRUE]
    /\ timelockExpiry' = [timelockExpiry EXCEPT ![id] = upgrade[id].timelock]
    /\ UNCHANGED <<baseVars, proposal, vote>>

execute_upgrade(id) ==
    /\ upgrade[id] # None
    /\ upgrade[id].approved
    /\ ~upgrade[id].executed
    /\ timelockExpiry[id] # None
    /\ ledger >= timelockExpiry[id]
    /\ upgrade' = [upgrade EXCEPT ![id].executed = TRUE]
    /\ UNCHANGED <<baseVars, proposal, timelockExpiry, vote>>

LegacyNext ==
    \E id \in Ids :
       \/ \E end \in Ledgers : create_proposal(id, end)
       \/ \E end, timelock \in Ledgers : propose_upgrade(id, end, timelock)
       \/ \E v \in Accounts, choice \in Choices :
             vote_proposal(v, id, choice) \/ vote_upgrade(v, id, choice)
       \/ execute_proposal(id)
       \/ approve_upgrade(id)
       \/ execute_upgrade(id)
=============================================================================
