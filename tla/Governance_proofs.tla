-------------------------- MODULE Governance_proofs --------------------------
(***************************************************************************)
(* What holds of the governance contract for every set of holders, every   *)
(* token supply and every configuration.                                   *)
(***************************************************************************)
EXTENDS Governance, Sums, TLAPS

USE DEF Ids, Ledgers

----------------------------------------------------------------------------
(* types *)

\* A quorum is an integer, of whatever sign the supply snapshot is.
LEMMA QuorumType ==
    ASSUME config.supply \in Int, config.percentage \in Nat
    PROVE  quorum_required \in Int
  <1> DEFINE n == config.supply * config.percentage
  <1>1. n \in Int
    OBVIOUS
  <1>2. quorum_required = IF n >= 0 THEN n \div 100 ELSE -((-n) \div 100)
    BY DEF quorum_required
  <1> HIDE DEF n
  <1>3. n \div 100 \in Int /\ (-n) \div 100 \in Int
    BY <1>1
  <1>4. QED
    BY <1>2, <1>3

LEMMA InitTypes == Init => TypeOK
  <1> SUFFICES ASSUME Init PROVE TypeOK
    OBVIOUS
  <1>1. BaseTypeOK
    <2>1. ledger \in Ledgers
      BY BaseAssumption DEF Init, BaseInit
    <2>2. nextProposalId \in 1..(MaxId + 1) /\ moves \in 0..MaxMoves
      BY BaseAssumption DEF Init, BaseInit
    <2>3. QED
      BY <2>1, <2>2, BaseAssumption DEF Init, BaseInit, BaseTypeOK
  <1>2. LegacyTypeOK
    BY DEF Init, LegacyInit, LegacyTypeOK
  <1>3. config \in [delay : Nat, duration : Nat, percentage : Nat, supply : Int]
    BY VotingAssumption DEF Init, VotingInit
  <1>4. VotingTypeOK
    BY <1>3 DEF Init, VotingInit, VotingTypeOK
  <1>5. QED
    BY <1>1, <1>2, <1>4 DEF TypeOK

\* The tallies stay tallies, whoever votes for whatever.
LEMMA TallyType ==
    ASSUME NEW choice \in Choices, NEW weight \in Nat
    PROVE  /\ \A r \in ProposalRecord : Tally(r, choice, weight) \in ProposalRecord
           /\ \A r \in UpgradeProposalRecord : Tally(r, choice, weight) \in UpgradeProposalRecord
  <1> DEFINE for(r) == IF choice = "yes" THEN r.for + weight ELSE r.for
             against(r) == IF choice = "no" THEN r.against + weight ELSE r.against
  <1>1. ASSUME NEW r \in ProposalRecord
        PROVE  Tally(r, choice, weight) \in ProposalRecord
    <2>1. for(r) \in Nat /\ against(r) \in Nat
      BY DEF ProposalRecord
    <2>2. Tally(r, choice, weight) = [r EXCEPT !.for = for(r), !.against = against(r)]
      BY DEF Tally
    <2> HIDE DEF for, against
    <2>3. QED
      BY <2>1, <2>2 DEF ProposalRecord
  <1>2. ASSUME NEW r \in UpgradeProposalRecord
        PROVE  Tally(r, choice, weight) \in UpgradeProposalRecord
    <2>1. for(r) \in Nat /\ against(r) \in Nat
      BY DEF UpgradeProposalRecord
    <2>2. Tally(r, choice, weight) = [r EXCEPT !.for = for(r), !.against = against(r)]
      BY DEF Tally
    <2> HIDE DEF for, against
    <2>3. QED
      BY <2>1, <2>2 DEF UpgradeProposalRecord
  <1>3. QED
    BY <1>1, <1>2

LEMMA CountedType ==
    ASSUME NEW p \in VotingProposal, NEW support \in Supports, NEW weight \in Nat
    PROVE  Counted(p, support, weight) \in VotingProposal
  <1> DEFINE for     == IF support = "For" THEN p.for + weight ELSE p.for
             against == IF support = "Against" THEN p.against + weight ELSE p.against
             abstain == IF support = "Abstain" THEN p.abstain + weight ELSE p.abstain
  <1>1. for \in Nat /\ against \in Nat /\ abstain \in Nat
    BY DEF VotingProposal
  <1>2. Counted(p, support, weight) =
           [p EXCEPT !.for = for, !.against = against, !.abstain = abstain]
    BY DEF Counted
  <1> HIDE DEF for, against, abstain
  <1>3. QED
    BY <1>1, <1>2 DEF VotingProposal

LEMMA LegacyTypes ==
    ASSUME TypeOK, LegacyNext
    PROVE  LegacyTypeOK' /\ BaseTypeOK'
  <1> USE DEF TypeOK, BaseTypeOK, LegacyTypeOK
  <1>1. ASSUME NEW id \in Ids, NEW end \in Ledgers, create_proposal(id, end)
        PROVE  LegacyTypeOK' /\ BaseTypeOK'
    <2>1. [end |-> end, for |-> 0, against |-> 0, executed |-> FALSE] \in ProposalRecord
      BY BaseAssumption DEF ProposalRecord
    <2>2. nextProposalId' \in 1..(MaxId + 1)
      BY <1>1, BaseAssumption DEF create_proposal, TakeId
    <2>3. QED
      BY <1>1, <2>1, <2>2 DEF create_proposal
  <1>2. ASSUME NEW id \in Ids, NEW end \in Ledgers, NEW timelock \in Ledgers,
               propose_upgrade(id, end, timelock)
        PROVE  LegacyTypeOK' /\ BaseTypeOK'
    <2>1. [end |-> end, timelock |-> timelock, for |-> 0, against |-> 0,
           approved |-> FALSE, executed |-> FALSE] \in UpgradeProposalRecord
      BY BaseAssumption DEF UpgradeProposalRecord
    <2>2. nextProposalId' \in 1..(MaxId + 1)
      BY <1>2, BaseAssumption DEF propose_upgrade, TakeId
    <2>3. QED
      BY <1>2, <2>1, <2>2 DEF propose_upgrade
  <1>3. ASSUME NEW id \in Ids, NEW v \in Accounts, NEW choice \in Choices,
               vote_proposal(v, id, choice)
        PROVE  LegacyTypeOK' /\ BaseTypeOK'
    <2>1. Tally(proposal[id], choice, balance[v]) \in ProposalRecord
      BY <1>3, TallyType DEF vote_proposal
    <2>2. QED
      BY <1>3, <2>1 DEF vote_proposal, baseVars
  <1>4. ASSUME NEW id \in Ids, NEW v \in Accounts, NEW choice \in Choices,
               vote_upgrade(v, id, choice)
        PROVE  LegacyTypeOK' /\ BaseTypeOK'
    <2>1. Tally(upgrade[id], choice, balance[v]) \in UpgradeProposalRecord
      BY <1>4, TallyType DEF vote_upgrade
    <2>2. QED
      BY <1>4, <2>1 DEF vote_upgrade, baseVars
  <1>5. ASSUME NEW id \in Ids, execute_proposal(id)
        PROVE  LegacyTypeOK' /\ BaseTypeOK'
    <2>1. [proposal[id] EXCEPT !.executed = TRUE] \in ProposalRecord
      BY <1>5 DEF execute_proposal, ProposalRecord
    <2>2. QED
      BY <1>5, <2>1 DEF execute_proposal, baseVars
  <1>6. ASSUME NEW id \in Ids, approve_upgrade(id)
        PROVE  LegacyTypeOK' /\ BaseTypeOK'
    <2>1. [upgrade[id] EXCEPT !.approved = TRUE] \in UpgradeProposalRecord
      BY <1>6 DEF approve_upgrade, UpgradeProposalRecord
    <2>2. upgrade[id].timelock \in Nat
      BY <1>6 DEF approve_upgrade, UpgradeProposalRecord
    <2>3. QED
      BY <1>6, <2>1, <2>2 DEF approve_upgrade, baseVars
  <1>7. ASSUME NEW id \in Ids, execute_upgrade(id)
        PROVE  LegacyTypeOK' /\ BaseTypeOK'
    <2>1. [upgrade[id] EXCEPT !.executed = TRUE] \in UpgradeProposalRecord
      BY <1>7 DEF execute_upgrade, UpgradeProposalRecord
    <2>2. QED
      BY <1>7, <2>1 DEF execute_upgrade, baseVars
  <1>8. QED
    BY <1>1, <1>2, <1>3, <1>4, <1>5, <1>6, <1>7 DEF LegacyNext

LEMMA VotingTypes ==
    ASSUME TypeOK, VotingNext
    PROVE  VotingTypeOK' /\ BaseTypeOK'
  <1> USE DEF TypeOK, BaseTypeOK, VotingTypeOK
  <1>1. ASSUME NEW id \in Ids, NEW strategy \in Strategies, NEW end \in Ledgers,
               NEW d \in TimelockDelays, create_advanced_proposal(id, strategy, end, d)
        PROVE  VotingTypeOK' /\ BaseTypeOK'
    <2>1. /\ ledger + config.delay \in Nat
          /\ end \in Nat
          /\ end + d \in Nat
      BY BaseAssumption, VotingAssumption
    <2>3. quorum_required \in Int
      BY QuorumType
    <2>4. "Pending" \in States
      BY DEF States
    <2> DEFINE new == [start    |-> ledger + config.delay,
                       end      |-> end,
                       timelock |-> end + d,
                       quorum   |-> quorum_required,
                       strategy |-> strategy,
                       for |-> 0, against |-> 0, abstain |-> 0,
                       state    |-> "Pending"]
    <2>5. new \in VotingProposal
      BY <2>1, <2>3, <2>4 DEF VotingProposal
    <2>6. advanced' = [advanced EXCEPT ![id] = new] /\ UNCHANGED <<config, voteRecord>>
      BY <1>1 DEF create_advanced_proposal
    <2> HIDE DEF new
    <2>7. VotingTypeOK'
      BY <2>5, <2>6
    <2>8. BaseTypeOK'
      BY <1>1, BaseAssumption DEF create_advanced_proposal, TakeId
    <2>9. QED
      BY <2>7, <2>8
  <1>2. ASSUME NEW id \in Ids, NEW v \in Accounts, NEW support \in Supports,
               vote_advanced(v, id, support)
        PROVE  VotingTypeOK' /\ BaseTypeOK'
    <2> DEFINE weight == compute_weight(advanced[id].strategy, balance[v])
               tallied == Counted(advanced[id], support, weight)
    <2>1. /\ advanced[id] \in VotingProposal
          /\ weight \in Nat
          /\ advanced' = [advanced EXCEPT ![id] = [tallied EXCEPT !.state = "Active"]]
          /\ voteRecord' =
                [voteRecord EXCEPT ![id][v] = [support |-> support, weight |-> weight]]
          /\ UNCHANGED <<baseVars, config>>
      BY <1>2 DEF vote_advanced
    <2> HIDE DEF weight
    <2>2. tallied \in VotingProposal
      BY <2>1, CountedType
    <2>3. [tallied EXCEPT !.state = "Active"] \in VotingProposal
      BY <2>2 DEF VotingProposal, States
    <2>4. [support |-> support, weight |-> weight] \in VoteRecord
      BY <2>1 DEF VoteRecord
    <2> HIDE DEF tallied
    <2>5. QED
      BY <2>1, <2>3, <2>4 DEF baseVars
  <1>3. ASSUME NEW id \in Ids, NEW state \in States, advanced[id] # None,
               advanced' = [advanced EXCEPT ![id].state = state],
               UNCHANGED <<baseVars, config, voteRecord>>
        PROVE  VotingTypeOK' /\ BaseTypeOK'
    <2>1. [advanced[id] EXCEPT !.state = state] \in VotingProposal
      BY <1>3 DEF VotingProposal
    <2>2. QED
      BY <1>3, <2>1 DEF baseVars
  <1>4. ASSUME NEW id \in Ids, finalise_advanced_proposal(id)
        PROVE  VotingTypeOK' /\ BaseTypeOK'
    BY <1>3, <1>4 DEF finalise_advanced_proposal, States
  <1>5. ASSUME NEW id \in Ids, execute_advanced_proposal(id)
        PROVE  VotingTypeOK' /\ BaseTypeOK'
    BY <1>3, <1>5 DEF execute_advanced_proposal, States
  <1>6. ASSUME NEW id \in Ids, cancel_advanced_proposal(id)
        PROVE  VotingTypeOK' /\ BaseTypeOK'
    BY <1>3, <1>6 DEF cancel_advanced_proposal, States
  <1>7. ASSUME NEW c \in [delay : Nat, duration : Nat, percentage : Nat, supply : Int],
               Configure(c)
        PROVE  VotingTypeOK' /\ BaseTypeOK'
    BY <1>7, BaseAssumption DEF Configure, Move
  <1>8. ASSUME NEW n \in Delays, set_voting_delay(n)
        PROVE  VotingTypeOK' /\ BaseTypeOK'
    <2>1. [config EXCEPT !.delay = n] \in
             [delay : Nat, duration : Nat, percentage : Nat, supply : Int]
      BY VotingAssumption
    <2>2. QED
      BY <2>1, <1>7, <1>8 DEF set_voting_delay
  <1>9. ASSUME NEW n \in Durations, set_timelock_duration(n)
        PROVE  VotingTypeOK' /\ BaseTypeOK'
    <2>1. [config EXCEPT !.duration = n] \in
             [delay : Nat, duration : Nat, percentage : Nat, supply : Int]
      BY VotingAssumption
    <2>2. QED
      BY <2>1, <1>7, <1>9 DEF set_timelock_duration
  <1>10. ASSUME NEW n \in Percentages, set_quorum_percentage(n)
        PROVE  VotingTypeOK' /\ BaseTypeOK'
    <2>1. [config EXCEPT !.percentage = n] \in
             [delay : Nat, duration : Nat, percentage : Nat, supply : Int]
      BY VotingAssumption
    <2>2. QED
      BY <2>1, <1>7, <1>10 DEF set_quorum_percentage
  <1>11. ASSUME NEW n \in Supplies, set_total_supply_snapshot(n)
        PROVE  VotingTypeOK' /\ BaseTypeOK'
    <2>1. [config EXCEPT !.supply = n] \in
             [delay : Nat, duration : Nat, percentage : Nat, supply : Int]
      BY VotingAssumption
    <2>2. QED
      BY <2>1, <1>7, <1>11 DEF set_total_supply_snapshot
  <1>12. QED
    BY <1>1, <1>2, <1>4, <1>5, <1>6, <1>8, <1>9, <1>10, <1>11 DEF VotingNext

LEMMA NextTypes == TypeOK /\ [Next]_vars => TypeOK'
  <1> SUFFICES ASSUME TypeOK, [Next]_vars PROVE TypeOK'
    OBVIOUS
  <1>1. CASE initialize
    <2>1. Defaults \in [delay : Nat, duration : Nat, percentage : Nat, supply : Int]
      BY DEF Defaults, TypeOK, VotingTypeOK
    <2>2. 1 \in 1..(MaxId + 1)
      BY BaseAssumption
    <2>3. QED
      BY <1>1, <2>1, <2>2
         DEF initialize, TypeOK, BaseTypeOK, LegacyTypeOK, VotingTypeOK, legacyVars
  <1>2. CASE LegacyNext /\ UNCHANGED votingVars
    BY <1>2, LegacyTypes DEF TypeOK, VotingTypeOK, votingVars
  <1>3. CASE VotingNext /\ UNCHANGED legacyVars
    BY <1>3, VotingTypes DEF TypeOK, LegacyTypeOK, legacyVars
  <1>4. CASE Environment /\ UNCHANGED <<legacyVars, votingVars>>
    <2>1. ASSUME CloseLedger
          PROVE  BaseTypeOK'
      BY <2>1, BaseAssumption DEF CloseLedger, TypeOK, BaseTypeOK
    <2>2. ASSUME NEW from \in Accounts, NEW to \in Accounts, NEW amount \in Amounts,
                 Transfer(from, to, amount)
          PROVE  BaseTypeOK'
      <3>1. /\ amount \in 1..balance[from]
            /\ balance' = [balance EXCEPT ![from] = @ - amount, ![to] = @ + amount]
            /\ balance \in [Accounts -> Nat]
        BY <2>2 DEF Transfer, TypeOK, BaseTypeOK
      <3>2. balance' \in [Accounts -> Nat]
        BY <3>1
      <3>3. moves' \in 0..MaxMoves
        BY <2>2, BaseAssumption DEF Transfer, Move, TypeOK, BaseTypeOK
      <3>4. QED
        BY <2>2, <3>2, <3>3 DEF Transfer, TypeOK, BaseTypeOK
    <2>3. LegacyTypeOK' /\ VotingTypeOK'
      BY <1>4 DEF TypeOK, LegacyTypeOK, VotingTypeOK, legacyVars, votingVars
    <2>4. QED
      BY <2>1, <2>2, <2>3, <1>4 DEF Environment, TypeOK
  <1>5. CASE UNCHANGED vars
    BY <1>5 DEF vars, TypeOK, BaseTypeOK, LegacyTypeOK, VotingTypeOK,
                baseVars, legacyVars, votingVars
  <1>6. QED
    BY <1>1, <1>2, <1>3, <1>4, <1>5 DEF Next

\* Every slot of the contract's storage holds a record of its family or nothing, and the
\* tallies and ledgers in it are never negative, whatever sign the supply snapshots, and
\* with them the quorums, have.
THEOREM TypeCorrect == Spec => []TypeOK
  BY InitTypes, NextTypes, PTL DEF Spec

----------------------------------------------------------------------------
(* ids *)

\* Until initialize resets the counter there is nothing it could give out again.
IdInv == TypeOK /\ IdsUnique /\ (~initialized => nextProposalId = 1)

LEMMA InitIds == Init => IdInv
  <1> SUFFICES ASSUME Init PROVE IdInv
    OBVIOUS
  <1>1. Used(proposal) = {} /\ Used(upgrade) = {} /\ Used(advanced) = {}
    BY DEF Init, LegacyInit, VotingInit, Used
  <1>2. \A id \in Ids, v \in Accounts : vote[id][v] = None /\ voteRecord[id][v] = None
    BY DEF Init, LegacyInit, VotingInit
  <1>3. QED
    BY <1>1, <1>2, InitTypes DEF IdInv, IdsUnique, Init, BaseInit

\* A call that creates nothing and votes on what exists.
LEMMA KeepsIds ==
    ASSUME IdsUnique, TypeOK, nextProposalId' = nextProposalId,
           Used(proposal)' \subseteq Used(proposal),
           Used(upgrade)' \subseteq Used(upgrade),
           Used(advanced)' \subseteq Used(advanced),
           \A id \in Ids :
              \/ vote'[id] = vote[id]
              \/ id \in Used(proposal) \union Used(upgrade),
           \A id \in Ids : voteRecord'[id] = voteRecord[id] \/ id \in Used(advanced)
    PROVE  IdsUnique'
  BY DEF IdsUnique

\* A call that creates one proposal, of one family.
LEMMA CreatesId ==
    ASSUME IdsUnique, TypeOK, NEW new \in Ids, TakeId(new), UNCHANGED <<vote, voteRecord>>,
           \/ /\ Used(proposal)' \subseteq Used(proposal) \union {new}
              /\ UNCHANGED <<upgrade, advanced>>
           \/ /\ Used(upgrade)' \subseteq Used(upgrade) \union {new}
              /\ UNCHANGED <<proposal, advanced>>
           \/ /\ Used(advanced)' \subseteq Used(advanced) \union {new}
              /\ UNCHANGED <<proposal, upgrade>>
    PROVE  IdsUnique'
  <1>1. /\ new = nextProposalId /\ nextProposalId' = nextProposalId + 1
        /\ nextProposalId \in Nat
    BY BaseAssumption DEF TakeId, TypeOK, BaseTypeOK
  <1>2. new \notin Used(proposal) \union Used(upgrade) \union Used(advanced)
    BY <1>1 DEF IdsUnique
  <1>3. \A id \in Ids : id >= nextProposalId' => id >= nextProposalId /\ id # new
    BY <1>1
  <1>4. CASE /\ Used(proposal)' \subseteq Used(proposal) \union {new}
             /\ UNCHANGED <<upgrade, advanced>>
    <2>1. Used(upgrade)' = Used(upgrade) /\ Used(advanced)' = Used(advanced)
      BY <1>4 DEF Used
    <2>2. QED
      BY <1>2, <1>3, <1>4, <2>1 DEF IdsUnique
  <1>5. CASE /\ Used(upgrade)' \subseteq Used(upgrade) \union {new}
             /\ UNCHANGED <<proposal, advanced>>
    <2>1. Used(proposal)' = Used(proposal) /\ Used(advanced)' = Used(advanced)
      BY <1>5 DEF Used
    <2>2. QED
      BY <1>2, <1>3, <1>5, <2>1 DEF IdsUnique
  <1>6. CASE /\ Used(advanced)' \subseteq Used(advanced) \union {new}
             /\ UNCHANGED <<proposal, upgrade>>
    <2>1. Used(proposal)' = Used(proposal) /\ Used(upgrade)' = Used(upgrade)
      BY <1>6 DEF Used
    <2>2. QED
      BY <1>2, <1>3, <1>6, <2>1 DEF IdsUnique
  <1>7. QED
    BY <1>4, <1>5, <1>6

LEMMA LegacyIds ==
    ASSUME IdInv, LegacyNext, UNCHANGED votingVars
    PROVE  IdsUnique' /\ (~initialized' => nextProposalId' = 1)
  <1> USE DEF IdInv
  <1>0. Used(advanced)' = Used(advanced) /\ voteRecord' = voteRecord
    BY DEF votingVars, Used
  <1>1. ASSUME NEW id \in Ids, NEW end \in Ledgers, create_proposal(id, end)
        PROVE  IdsUnique' /\ (~initialized' => nextProposalId' = 1)
    <2>1. Used(proposal)' \subseteq Used(proposal) \union {id}
      BY <1>1 DEF create_proposal, Used, TypeOK, LegacyTypeOK
    <2>2. QED
      BY <1>1, <2>1, CreatesId DEF create_proposal, votingVars
  <1>2. ASSUME NEW id \in Ids, NEW end \in Ledgers, NEW timelock \in Ledgers,
               propose_upgrade(id, end, timelock)
        PROVE  IdsUnique' /\ (~initialized' => nextProposalId' = 1)
    <2>1. Used(upgrade)' \subseteq Used(upgrade) \union {id}
      BY <1>2 DEF propose_upgrade, Used, TypeOK, LegacyTypeOK
    <2>2. QED
      BY <1>2, <2>1, CreatesId DEF propose_upgrade, votingVars
  <1>3. ASSUME NEW id \in Ids, UNCHANGED baseVars,
               \/ /\ proposal[id] # None /\ UNCHANGED upgrade
                  /\ \E r : proposal' = [proposal EXCEPT ![id] = r]
               \/ /\ upgrade[id] # None /\ UNCHANGED proposal
                  /\ \E r : upgrade' = [upgrade EXCEPT ![id] = r],
               vote' = vote \/ \E f : vote' = [vote EXCEPT ![id] = f]
        PROVE  IdsUnique' /\ (~initialized' => nextProposalId' = 1)
    <2>1. id \in Used(proposal) \union Used(upgrade)
      BY <1>3 DEF Used
    <2>2. Used(proposal)' \subseteq Used(proposal) /\ Used(upgrade)' \subseteq Used(upgrade)
      BY <1>3 DEF Used, TypeOK, LegacyTypeOK
    <2>3. \A i \in Ids : vote'[i] = vote[i] \/ i \in Used(proposal) \union Used(upgrade)
      BY <1>3, <2>1 DEF TypeOK, LegacyTypeOK
    <2>4. QED
      BY <1>0, <1>3, <2>2, <2>3, KeepsIds DEF baseVars
  <1>4. ASSUME NEW id \in Ids, NEW v \in Accounts, NEW choice \in Choices,
               vote_proposal(v, id, choice)
        PROVE  IdsUnique' /\ (~initialized' => nextProposalId' = 1)
    BY <1>3, <1>4 DEF vote_proposal
  <1>5. ASSUME NEW id \in Ids, NEW v \in Accounts, NEW choice \in Choices,
               vote_upgrade(v, id, choice)
        PROVE  IdsUnique' /\ (~initialized' => nextProposalId' = 1)
    BY <1>3, <1>5 DEF vote_upgrade
  <1>6. ASSUME NEW id \in Ids, execute_proposal(id)
        PROVE  IdsUnique' /\ (~initialized' => nextProposalId' = 1)
    BY <1>3, <1>6 DEF execute_proposal
  <1>7. ASSUME NEW id \in Ids, approve_upgrade(id) \/ execute_upgrade(id)
        PROVE  IdsUnique' /\ (~initialized' => nextProposalId' = 1)
    BY <1>3, <1>7 DEF approve_upgrade, execute_upgrade
  <1>8. QED
    BY <1>1, <1>2, <1>4, <1>5, <1>6, <1>7 DEF LegacyNext

LEMMA VotingIds ==
    ASSUME ~EarlyCalls, IdInv, VotingNext, UNCHANGED legacyVars
    PROVE  IdsUnique' /\ (~initialized' => nextProposalId' = 1)
  <1> USE DEF IdInv
  <1>0. Used(proposal)' = Used(proposal) /\ Used(upgrade)' = Used(upgrade) /\ vote' = vote
    BY DEF legacyVars, Used
  <1>1. ASSUME NEW id \in Ids, NEW strategy \in Strategies, NEW end \in Ledgers,
               NEW d \in TimelockDelays, create_advanced_proposal(id, strategy, end, d)
        PROVE  IdsUnique' /\ (~initialized' => nextProposalId' = 1)
    <2>1. Used(advanced)' \subseteq Used(advanced) \union {id}
      BY <1>1 DEF create_advanced_proposal, Used, TypeOK, VotingTypeOK
    <2>2. IdsUnique'
      BY <1>0, <1>1, <2>1, CreatesId DEF create_advanced_proposal, legacyVars
    <2>3. QED
      BY <1>1, <2>2 DEF create_advanced_proposal, Callable
  <1>2. ASSUME NEW id \in Ids, UNCHANGED baseVars, advanced[id] # None,
               \E r : advanced' = [advanced EXCEPT ![id] = r],
               voteRecord' = voteRecord \/ \E f : voteRecord' = [voteRecord EXCEPT ![id] = f]
        PROVE  IdsUnique' /\ (~initialized' => nextProposalId' = 1)
    <2>1. Used(advanced)' \subseteq Used(advanced) /\ id \in Used(advanced)
      BY <1>2 DEF Used, TypeOK, VotingTypeOK
    <2>2. \A i \in Ids : voteRecord'[i] = voteRecord[i] \/ i \in Used(advanced)
      BY <1>2, <2>1 DEF TypeOK, VotingTypeOK
    <2>3. QED
      BY <1>0, <1>2, <2>1, <2>2, KeepsIds DEF baseVars
  <1>3. ASSUME NEW id \in Ids, NEW v \in Accounts, NEW support \in Supports,
               vote_advanced(v, id, support)
        PROVE  IdsUnique' /\ (~initialized' => nextProposalId' = 1)
    BY <1>2, <1>3 DEF vote_advanced
  <1>4. ASSUME NEW id \in Ids,
               \/ finalise_advanced_proposal(id)
               \/ execute_advanced_proposal(id)
               \/ cancel_advanced_proposal(id)
        PROVE  IdsUnique' /\ (~initialized' => nextProposalId' = 1)
    BY <1>2, <1>4 DEF finalise_advanced_proposal, execute_advanced_proposal,
                      cancel_advanced_proposal
  <1>5. ASSUME NEW c, Configure(c)
        PROVE  IdsUnique' /\ (~initialized' => nextProposalId' = 1)
    BY <1>0, <1>5, KeepsIds DEF Configure, Used
  <1>6. QED
    BY <1>1, <1>3, <1>4, <1>5
       DEF VotingNext, set_voting_delay, set_timelock_duration, set_quorum_percentage,
           set_total_supply_snapshot

LEMMA NextIds ==
    ASSUME ~EarlyCalls, IdInv, [Next]_vars
    PROVE  IdInv'
  <1>1. TypeOK'
    BY NextTypes DEF IdInv
  <1>2. CASE initialize
    <2>1. nextProposalId' = nextProposalId /\ initialized'
      BY <1>2 DEF initialize, IdInv
    <2>2. /\ Used(proposal)' = Used(proposal) /\ Used(upgrade)' = Used(upgrade)
          /\ Used(advanced)' = Used(advanced)
          /\ vote' = vote /\ voteRecord' = voteRecord
      BY <1>2 DEF initialize, legacyVars, Used
    <2>3. QED
      BY <1>1, <2>1, <2>2, KeepsIds DEF IdInv
  <1>3. CASE LegacyNext /\ UNCHANGED votingVars
    BY <1>1, <1>3, LegacyIds DEF IdInv
  <1>4. CASE VotingNext /\ UNCHANGED legacyVars
    BY <1>1, <1>4, VotingIds DEF IdInv
  <1>5. CASE \/ Environment /\ UNCHANGED <<legacyVars, votingVars>>
             \/ UNCHANGED vars
    <2>1. UNCHANGED <<initialized, nextProposalId, legacyVars, votingVars>>
      BY <1>5 DEF Environment, CloseLedger, Transfer, vars, baseVars
    <2>2. /\ Used(proposal)' = Used(proposal) /\ Used(upgrade)' = Used(upgrade)
          /\ Used(advanced)' = Used(advanced)
          /\ vote' = vote /\ voteRecord' = voteRecord
      BY <2>1 DEF legacyVars, votingVars, Used
    <2>3. QED
      BY <1>1, <2>1, <2>2, KeepsIds DEF IdInv
  <1>6. QED
    BY <1>2, <1>3, <1>4, <1>5 DEF Next

\* Called only once it is initialized, the contract never gives one id to two proposals of
\* any family, and no vote is recorded under an id before its proposal exists.
THEOREM IdsStayUnique == ASSUME ~EarlyCalls PROVE Spec => []IdsUnique
  <1>1. Init => IdInv
    BY InitIds
  <1>2. IdInv /\ [Next]_vars => IdInv'
    BY NextIds
  <1>3. IdInv => IdsUnique
    BY DEF IdInv
  <1>4. QED
    BY <1>1, <1>2, <1>3, PTL DEF Spec

----------------------------------------------------------------------------
(* executions of legacy proposals *)

\* What ExecutionsWereDue says of one record, and the timelock approve_upgrade copied.
ProposalDue(r) == r.executed => Majority(r) /\ ledger >= r.end
UpgradeDue(r, expiry) ==
    /\ r.approved => Majority(r) /\ ledger >= r.end /\ expiry = r.timelock
    /\ r.executed => r.approved /\ ledger >= r.timelock

DueInv ==
    /\ TypeOK
    /\ \A id \in Used(proposal) : ProposalDue(proposal[id])
    /\ \A id \in Used(upgrade) : UpgradeDue(upgrade[id], timelockExpiry[id])

LEMMA InitDue == Init => DueInv
  BY InitTypes DEF DueInv, Init, LegacyInit, Used

\* Ledgers only close, so what was due stays due.
LEMMA LedgerGrows == TypeOK /\ [Next]_vars => ledger \in Nat /\ ledger' \in Nat /\ ledger' >= ledger
  <1> SUFFICES ASSUME TypeOK, [Next]_vars
               PROVE  ledger \in Nat /\ ledger' \in Nat /\ ledger' >= ledger
    OBVIOUS
  <1>1. ledger \in Nat
    BY BaseAssumption DEF TypeOK, BaseTypeOK
  <1>2. CASE LegacyNext
    BY <1>1, <1>2 DEF LegacyNext, create_proposal, propose_upgrade, vote_proposal, vote_upgrade,
                      execute_proposal, approve_upgrade, execute_upgrade, baseVars
  <1>3. CASE VotingNext
    BY <1>1, <1>3 DEF VotingNext, create_advanced_proposal, vote_advanced,
                      finalise_advanced_proposal, execute_advanced_proposal,
                      cancel_advanced_proposal, Configure, set_voting_delay,
                      set_timelock_duration, set_quorum_percentage,
                      set_total_supply_snapshot, baseVars
  <1>4. QED
    BY <1>1, <1>2, <1>3 DEF Next, initialize, Environment, CloseLedger, Transfer, vars, baseVars

\* A step that replaces one simple proposal by one that is due.
LEMMA ProposalStep ==
    ASSUME DueInv, TypeOK', [Next]_vars, NEW id \in Ids, NEW r \in ProposalRecord,
           proposal' = [proposal EXCEPT ![id] = r], ProposalDue(r)
    PROVE  \A i \in Used(proposal)' : ProposalDue(proposal[i])'
  <1> SUFFICES ASSUME NEW i \in Used(proposal)' PROVE ProposalDue(proposal[i])'
    OBVIOUS
  <1>1. ledger \in Nat /\ ledger' \in Nat /\ ledger' >= ledger
    BY LedgerGrows DEF DueInv
  <1>2. i \in Ids /\ proposal'[i] # None /\ proposal'[i] \in ProposalRecord
    BY DEF Used, TypeOK, LegacyTypeOK
  <1>3. ProposalDue(proposal'[i])
    BY <1>2 DEF DueInv, Used, TypeOK, LegacyTypeOK
  <1>4. proposal'[i].end \in Nat
    BY <1>2 DEF ProposalRecord
  <1>5. QED
    BY <1>1, <1>3, <1>4 DEF ProposalDue, Majority

LEMMA UpgradeStep ==
    ASSUME DueInv, TypeOK', [Next]_vars, NEW id \in Ids, NEW r \in UpgradeProposalRecord,
           NEW expiry,
           upgrade' = [upgrade EXCEPT ![id] = r],
           timelockExpiry' = [timelockExpiry EXCEPT ![id] = expiry],
           UpgradeDue(r, expiry)
    PROVE  \A i \in Used(upgrade)' : UpgradeDue(upgrade[i], timelockExpiry[i])'
  <1> SUFFICES ASSUME NEW i \in Used(upgrade)' PROVE UpgradeDue(upgrade[i], timelockExpiry[i])'
    OBVIOUS
  <1>1. ledger \in Nat /\ ledger' \in Nat /\ ledger' >= ledger
    BY LedgerGrows DEF DueInv
  <1>2. i \in Ids /\ upgrade'[i] # None /\ upgrade'[i] \in UpgradeProposalRecord
    BY DEF Used, TypeOK, LegacyTypeOK
  <1>3. UpgradeDue(upgrade'[i], timelockExpiry'[i])
    BY <1>2 DEF DueInv, Used, TypeOK, LegacyTypeOK
  <1>4. upgrade'[i].end \in Nat /\ upgrade'[i].timelock \in Nat
    BY <1>2 DEF UpgradeProposalRecord
  <1>5. QED
    BY <1>1, <1>3, <1>4 DEF UpgradeDue, Majority

\* A step that writes no legacy record.
LEMMA QuietDue ==
    ASSUME DueInv, TypeOK', [Next]_vars
    PROVE  /\ UNCHANGED proposal => \A i \in Used(proposal)' : ProposalDue(proposal[i])'
           /\ UNCHANGED <<upgrade, timelockExpiry>> =>
                 \A i \in Used(upgrade)' : UpgradeDue(upgrade[i], timelockExpiry[i])'
  <1>1. ledger \in Nat /\ ledger' \in Nat /\ ledger' >= ledger
    BY LedgerGrows DEF DueInv
  <1>2. ASSUME UNCHANGED proposal, NEW i \in Used(proposal)'
        PROVE  ProposalDue(proposal[i])'
    <2>1. i \in Used(proposal) /\ proposal[i] \in ProposalRecord
      BY <1>2 DEF Used, DueInv, TypeOK, LegacyTypeOK
    <2>2. ProposalDue(proposal[i]) /\ proposal[i].end \in Nat
      BY <2>1 DEF DueInv, ProposalRecord
    <2>3. QED
      BY <1>1, <1>2, <2>2 DEF ProposalDue, Majority
  <1>3. ASSUME UNCHANGED <<upgrade, timelockExpiry>>, NEW i \in Used(upgrade)'
        PROVE  UpgradeDue(upgrade[i], timelockExpiry[i])'
    <2>1. i \in Used(upgrade) /\ upgrade[i] \in UpgradeProposalRecord
      BY <1>3 DEF Used, DueInv, TypeOK, LegacyTypeOK
    <2>2. /\ UpgradeDue(upgrade[i], timelockExpiry[i])
          /\ upgrade[i].end \in Nat /\ upgrade[i].timelock \in Nat
      BY <2>1 DEF DueInv, UpgradeProposalRecord
    <2>3. QED
      BY <1>1, <1>3, <2>2 DEF UpgradeDue, Majority
  <1>4. QED
    BY <1>2, <1>3

LEMMA LegacyDue ==
    ASSUME DueInv, TypeOK', LegacyNext, [Next]_vars
    PROVE  DueInv'
  <1> USE DEF DueInv
  <1>0. TypeOK /\ LegacyTypeOK /\ ledger \in Nat
    BY BaseAssumption DEF TypeOK, BaseTypeOK
  <1>1. ASSUME NEW id \in Ids, NEW end \in Ledgers, create_proposal(id, end)
        PROVE  DueInv'
    <2>1. [end |-> end, for |-> 0, against |-> 0, executed |-> FALSE] \in ProposalRecord
      BY BaseAssumption DEF ProposalRecord
    <2>2. QED
      BY <1>1, <2>1, ProposalStep, QuietDue DEF create_proposal, ProposalDue
  <1>2. ASSUME NEW id \in Ids, NEW end \in Ledgers, NEW timelock \in Ledgers,
               propose_upgrade(id, end, timelock)
        PROVE  DueInv'
    <2> DEFINE new == [end |-> end, timelock |-> timelock, for |-> 0, against |-> 0,
                       approved |-> FALSE, executed |-> FALSE]
    <2>1. new \in UpgradeProposalRecord
      BY BaseAssumption DEF UpgradeProposalRecord
    <2>2. UpgradeDue(new, timelockExpiry[id])
      BY DEF UpgradeDue
    <2>3. timelockExpiry' = [timelockExpiry EXCEPT ![id] = timelockExpiry[id]]
      BY <1>0, <1>2 DEF propose_upgrade, LegacyTypeOK
    <2>4. upgrade' = [upgrade EXCEPT ![id] = new] /\ UNCHANGED proposal
      BY <1>2 DEF propose_upgrade
    <2> HIDE DEF new
    <2>5. QED
      BY <2>1, <2>2, <2>3, <2>4, UpgradeStep, QuietDue
  <1>3. ASSUME NEW id \in Ids, NEW v \in Accounts, NEW choice \in Choices,
               vote_proposal(v, id, choice)
        PROVE  DueInv'
    <2> DEFINE old == proposal[id]
               r == Tally(old, choice, balance[v])
    <2>1. old \in ProposalRecord /\ ~old.executed
      BY <1>0, <1>3 DEF vote_proposal, MayVote, LegacyTypeOK
    <2>2. r \in ProposalRecord
      BY <2>1, TallyType DEF TypeOK, BaseTypeOK
    <2>3. r.executed = old.executed
      BY <2>1 DEF Tally, ProposalRecord
    <2>4. proposal' = [proposal EXCEPT ![id] = r] /\ UNCHANGED <<upgrade, timelockExpiry>>
      BY <1>3 DEF vote_proposal
    <2> HIDE DEF r
    <2>5. QED
      BY <2>1, <2>2, <2>3, <2>4, ProposalStep, QuietDue DEF ProposalDue
  <1>4. ASSUME NEW id \in Ids, NEW v \in Accounts, NEW choice \in Choices,
               vote_upgrade(v, id, choice)
        PROVE  DueInv'
    <2> DEFINE old == upgrade[id]
               r == Tally(old, choice, balance[v])
    <2>1. old \in UpgradeProposalRecord /\ ~old.executed /\ ledger < old.end
      BY <1>0, <1>4 DEF vote_upgrade, MayVote, VotingOver, LegacyTypeOK, UpgradeProposalRecord
    <2>2. ~old.approved
      BY <1>0, <1>4, <2>1 DEF UpgradeDue, Used, vote_upgrade, UpgradeProposalRecord
    <2>3. r \in UpgradeProposalRecord
      BY <2>1, TallyType DEF TypeOK, BaseTypeOK
    <2>4. r.approved = old.approved /\ r.executed = old.executed
      BY <2>1 DEF Tally, UpgradeProposalRecord
    <2>5. UpgradeDue(r, timelockExpiry[id])
      BY <2>1, <2>2, <2>4 DEF UpgradeDue
    <2>6. /\ upgrade' = [upgrade EXCEPT ![id] = r] /\ UNCHANGED proposal
          /\ timelockExpiry' = [timelockExpiry EXCEPT ![id] = timelockExpiry[id]]
      BY <1>0, <1>4 DEF vote_upgrade, LegacyTypeOK
    <2> HIDE DEF r
    <2>7. QED
      BY <2>3, <2>5, <2>6, UpgradeStep, QuietDue
  <1>5. ASSUME NEW id \in Ids, execute_proposal(id)
        PROVE  DueInv'
    <2> DEFINE old == proposal[id]
               r == [old EXCEPT !.executed = TRUE]
    <2>1. old \in ProposalRecord /\ Majority(old) /\ ledger >= old.end
      BY <1>0, <1>5 DEF execute_proposal, VotingOver, LegacyTypeOK
    <2>2. r \in ProposalRecord /\ r.for = old.for /\ r.against = old.against /\ r.end = old.end
      BY <2>1 DEF ProposalRecord
    <2>3. ProposalDue(r)
      BY <2>1, <2>2 DEF ProposalDue, Majority
    <2>4. proposal' = [proposal EXCEPT ![id] = r] /\ UNCHANGED <<upgrade, timelockExpiry>>
      BY <1>5 DEF execute_proposal
    <2> HIDE DEF r
    <2>5. QED
      BY <2>2, <2>3, <2>4, ProposalStep, QuietDue
  <1>6. ASSUME NEW id \in Ids, approve_upgrade(id)
        PROVE  DueInv'
    <2> DEFINE old == upgrade[id]
               r == [old EXCEPT !.approved = TRUE]
    <2>1. old \in UpgradeProposalRecord /\ Majority(old) /\ ledger >= old.end /\ ~old.executed
      BY <1>0, <1>6 DEF approve_upgrade, VotingOver, LegacyTypeOK
    <2>2. /\ r \in UpgradeProposalRecord
          /\ r.for = old.for /\ r.against = old.against /\ r.end = old.end
          /\ r.timelock = old.timelock /\ ~r.executed
      BY <2>1 DEF UpgradeProposalRecord
    <2>3. UpgradeDue(r, old.timelock)
      BY <2>1, <2>2 DEF UpgradeDue, Majority
    <2>4. /\ upgrade' = [upgrade EXCEPT ![id] = r] /\ UNCHANGED proposal
          /\ timelockExpiry' = [timelockExpiry EXCEPT ![id] = old.timelock]
      BY <1>6 DEF approve_upgrade
    <2> HIDE DEF r
    <2>5. QED
      BY <2>2, <2>3, <2>4, UpgradeStep, QuietDue
  <1>7. ASSUME NEW id \in Ids, execute_upgrade(id)
        PROVE  DueInv'
    <2> DEFINE old == upgrade[id]
               r == [old EXCEPT !.executed = TRUE]
    <2>1. /\ old \in UpgradeProposalRecord /\ old.approved
          /\ ledger >= timelockExpiry[id] /\ UpgradeDue(old, timelockExpiry[id])
      BY <1>0, <1>7 DEF execute_upgrade, LegacyTypeOK, Used
    <2>2. /\ r \in UpgradeProposalRecord
          /\ r.for = old.for /\ r.against = old.against /\ r.end = old.end
          /\ r.timelock = old.timelock /\ r.approved = old.approved
      BY <2>1 DEF UpgradeProposalRecord
    <2>3. UpgradeDue(r, timelockExpiry[id])
      BY <2>1, <2>2 DEF UpgradeDue, Majority
    <2>4. /\ upgrade' = [upgrade EXCEPT ![id] = r] /\ UNCHANGED proposal
          /\ timelockExpiry' = [timelockExpiry EXCEPT ![id] = timelockExpiry[id]]
      BY <1>0, <1>7 DEF execute_upgrade, LegacyTypeOK
    <2> HIDE DEF r
    <2>5. QED
      BY <2>2, <2>3, <2>4, UpgradeStep, QuietDue
  <1>8. QED
    BY <1>1, <1>2, <1>3, <1>4, <1>5, <1>6, <1>7 DEF LegacyNext

LEMMA NextDue == DueInv /\ [Next]_vars => DueInv'
  <1> SUFFICES ASSUME DueInv, [Next]_vars PROVE DueInv'
    OBVIOUS
  <1>1. TypeOK'
    BY NextTypes DEF DueInv
  <1>2. CASE LegacyNext
    BY <1>1, <1>2, LegacyDue
  <1>3. CASE ~LegacyNext
    <2>1. UNCHANGED legacyVars
      BY <1>3 DEF Next, initialize, Environment, vars
    <2>2. QED
      BY <1>1, <2>1, QuietDue DEF legacyVars, DueInv
  <1>4. QED
    BY <1>2, <1>3

\* Whatever the order of the calls, and initialized or not, a legacy proposal is executed
\* only after a closed and won vote, an upgrade only once approved and past the timelock it
\* was proposed with, and neither is ever found executed without.
THEOREM ExecutionsDue == Spec => []ExecutionsWereDue
  <1>1. DueInv => ExecutionsWereDue
    BY DEF DueInv, ExecutionsWereDue, ProposalDue, UpgradeDue
  <1>2. QED
    BY InitDue, NextDue, <1>1, PTL DEF Spec

----------------------------------------------------------------------------
(* decisions of advanced proposals *)

\* What DecisionsStand says of one proposal.
Decided(p) ==
    /\ p.state \in {"Succeeded", "Executed"} => Passes(p) /\ ledger >= p.end
    /\ p.state = "Defeated" => ~Passes(p) /\ ledger >= p.end
    /\ p.state = "Executed" => ledger >= p.timelock

DecisionInv == TypeOK /\ \A id \in Used(advanced) : Decided(advanced[id])

LEMMA InitDecisions == Init => DecisionInv
  BY InitTypes DEF DecisionInv, Init, VotingInit, Used

\* A step that leaves every advanced proposal alone, or replaces one by a decided one.
LEMMA DecisionStep ==
    ASSUME DecisionInv, TypeOK', [Next]_vars, NEW id \in Ids, NEW p \in VotingProposal,
           \/ advanced' = advanced
           \/ advanced' = [advanced EXCEPT ![id] = p] /\ Decided(p)
    PROVE  DecisionInv'
  <1> SUFFICES ASSUME NEW i \in Used(advanced)' PROVE Decided(advanced[i])'
    BY DEF DecisionInv
  <1>1. ledger \in Nat /\ ledger' \in Nat /\ ledger' >= ledger
    BY LedgerGrows DEF DecisionInv
  <1>2. i \in Ids /\ advanced'[i] # None /\ advanced'[i] \in VotingProposal
    BY DEF Used, TypeOK, VotingTypeOK
  <1>3. Decided(advanced'[i])
    BY <1>2 DEF DecisionInv, Used, TypeOK, VotingTypeOK
  <1>4. advanced'[i].end \in Nat /\ advanced'[i].timelock \in Nat
    BY <1>2 DEF VotingProposal
  <1>5. QED
    BY <1>1, <1>3, <1>4 DEF Decided, Passes, Participating

\* The state of a proposal moves without its tallies, its quorum or its ledgers.
LEMMA StateMoves ==
    ASSUME NEW p \in VotingProposal, NEW state \in States
    PROVE  LET q == [p EXCEPT !.state = state]
           IN  /\ q \in VotingProposal
               /\ q.state = state
               /\ q.end = p.end /\ q.timelock = p.timelock
               /\ Passes(q) <=> Passes(p)
  <1> DEFINE q == [p EXCEPT !.state = state]
  <1>1. /\ q \in VotingProposal /\ q.state = state /\ q.end = p.end /\ q.timelock = p.timelock
        /\ q.for = p.for /\ q.against = p.against /\ q.abstain = p.abstain
        /\ q.quorum = p.quorum
    BY DEF VotingProposal
  <1> HIDE DEF q
  <1>2. Passes(q) <=> Passes(p)
    BY <1>1 DEF Passes, Participating
  <1>3. QED
    BY <1>1, <1>2 DEF q

LEMMA VotingDecisions ==
    ASSUME DecisionInv, TypeOK', VotingNext, [Next]_vars
    PROVE  DecisionInv'
  <1>0. TypeOK /\ VotingTypeOK
    BY DEF DecisionInv, TypeOK
  <1>1. ASSUME NEW id \in Ids, NEW strategy \in Strategies, NEW end \in Ledgers,
               NEW d \in TimelockDelays, create_advanced_proposal(id, strategy, end, d)
        PROVE  DecisionInv'
    <2> DEFINE p == [start    |-> ledger + config.delay,
                     end      |-> end,
                     timelock |-> end + d,
                     quorum   |-> quorum_required,
                     strategy |-> strategy,
                     for |-> 0, against |-> 0, abstain |-> 0,
                     state    |-> "Pending"]
    <2>1. Decided(p)
      BY DEF Decided
    <2>2. advanced' = [advanced EXCEPT ![id] = p]
      BY <1>1 DEF create_advanced_proposal
    <2> HIDE DEF p
    <2>3. p \in VotingProposal
      <3>1. ledger \in Nat /\ end \in Nat /\ d \in Nat /\ config.delay \in Nat
        BY <1>0, BaseAssumption, VotingAssumption DEF TypeOK, BaseTypeOK, VotingTypeOK
      <3>3. quorum_required \in Int
        BY <1>0, QuorumType DEF VotingTypeOK
      <3>4. QED
        BY <3>1, <3>3 DEF p, VotingProposal, States
    <2>4. QED
      BY <2>1, <2>2, <2>3, DecisionStep
  <1>2. ASSUME NEW id \in Ids, NEW v \in Accounts, NEW support \in Supports,
               vote_advanced(v, id, support)
        PROVE  DecisionInv'
    <2> DEFINE weight == compute_weight(advanced[id].strategy, balance[v])
               tallied == Counted(advanced[id], support, weight)
               p == [tallied EXCEPT !.state = "Active"]
    <2>1. /\ advanced[id] \in VotingProposal
          /\ weight \in Nat
          /\ advanced' = [advanced EXCEPT ![id] = p]
      BY <1>0, <1>2 DEF vote_advanced, VotingTypeOK
    <2> HIDE DEF weight
    <2>2. tallied \in VotingProposal
      BY <2>1, CountedType
    <2> HIDE DEF tallied
    <2>3. p \in VotingProposal /\ p.state = "Active"
      BY <2>2 DEF VotingProposal, States
    <2> HIDE DEF p
    <2>4. Decided(p)
      BY <2>3 DEF Decided
    <2>5. QED
      BY <2>1, <2>3, <2>4, DecisionStep
  <1>3. ASSUME NEW id \in Ids,
               \/ finalise_advanced_proposal(id)
               \/ execute_advanced_proposal(id)
               \/ cancel_advanced_proposal(id)
        PROVE  DecisionInv'
    <2> DEFINE old == advanced[id]
    <2>1. old \in VotingProposal /\ Decided(old)
      BY <1>0, <1>3 DEF finalise_advanced_proposal, execute_advanced_proposal,
                        cancel_advanced_proposal, VotingTypeOK, DecisionInv, Used
    <2>2. PICK state \in States :
             /\ advanced' = [advanced EXCEPT ![id] = [old EXCEPT !.state = state]]
             /\ \/ state = "Succeeded" /\ Passes(old) /\ VotingOver(old)
                \/ state = "Defeated" /\ ~Passes(old) /\ VotingOver(old)
                \/ state = "Executed" /\ old.state = "Succeeded" /\ ledger >= old.timelock
                \/ state = "Cancelled"
      BY <1>3 DEF finalise_advanced_proposal, execute_advanced_proposal,
                  cancel_advanced_proposal, States
    <2> DEFINE p == [old EXCEPT !.state = state]
    <2>3. /\ p \in VotingProposal /\ p.state = state
          /\ p.end = old.end /\ p.timelock = old.timelock /\ (Passes(p) <=> Passes(old))
      BY <2>1, StateMoves
    <2>4. advanced' = [advanced EXCEPT ![id] = p]
      BY <2>2
    <2> HIDE DEF p
    <2>5. Decided(p)
      BY <2>1, <2>2, <2>3 DEF Decided, VotingOver
    <2>6. QED
      BY <2>3, <2>4, <2>5, DecisionStep
  <1>4. ASSUME NEW c, Configure(c)
        PROVE  DecisionInv'
    <2>1. ASSUME NEW i \in Used(advanced)' PROVE Decided(advanced[i])'
      BY <1>4, <2>1 DEF Configure, DecisionInv, Used, Decided, Passes, Participating
    <2>2. QED
      BY <2>1 DEF DecisionInv
  <1>5. QED
    BY <1>1, <1>2, <1>3, <1>4
       DEF VotingNext, set_voting_delay, set_timelock_duration, set_quorum_percentage,
           set_total_supply_snapshot

LEMMA NextDecisions == DecisionInv /\ [Next]_vars => DecisionInv'
  <1> SUFFICES ASSUME DecisionInv, [Next]_vars PROVE DecisionInv'
    OBVIOUS
  <1>1. TypeOK'
    BY NextTypes DEF DecisionInv
  <1>2. CASE VotingNext
    BY <1>1, <1>2, VotingDecisions
  <1>3. CASE ~VotingNext
    <2>1. advanced' = advanced
      BY <1>3 DEF Next, initialize, Environment, vars, votingVars
    <2>2. ASSUME NEW i \in Used(advanced)' PROVE Decided(advanced[i])'
      <3>1. i \in Used(advanced) /\ i \in Ids /\ advanced[i] \in VotingProposal
        BY <2>1 DEF Used, DecisionInv, TypeOK, VotingTypeOK
      <3>2. QED
        BY <1>1, <2>1, <3>1, DecisionStep DEF DecisionInv
    <2>3. QED
      BY <1>1, <2>2 DEF DecisionInv
  <1>4. QED
    BY <1>2, <1>3

\* Whatever the order of the calls, and initialized or not, the tallies of an advanced
\* proposal do not move once it is decided: a succeeded or executed one still passes, a
\* defeated one still fails, both were decided after the vote and executed after the timelock.
THEOREM DecisionsHold == Spec => []DecisionsStand
  <1>1. DecisionInv => DecisionsStand
    BY DEF DecisionInv, DecisionsStand, Decided
  <1>2. QED
    BY InitDecisions, NextDecisions, <1>1, PTL DEF Spec

----------------------------------------------------------------------------
(* advanced proposals as ballots *)

\* One voter's ballot, and the ballots of a proposal that support one answer.
BallotBy(id, v) ==
    [voter |-> v, support |-> voteRecord[id][v].support, weight |-> voteRecord[id][v].weight]
BallotsFor(id, support) == {b \in Ballots(id) : b.support = support}

Weight(cast) == SumFunction([b \in cast |-> b.weight])

\* The tallies of a proposal are the weights of its ballots; a proposal that does not exist
\* has no ballots.
Counts(id) ==
    /\ IsFiniteSet(Ballots(id))
    /\ advanced[id] = None => Ballots(id) = {}
    /\ advanced[id] # None =>
          /\ Participating(advanced[id]) = Weight(Ballots(id))
          /\ advanced[id].for = Weight(BallotsFor(id, "For"))
          /\ advanced[id].against = Weight(BallotsFor(id, "Against"))

CountInv == TypeOK /\ \A id \in Ids : Counts(id)

LEMMA NoWeight == Weight({}) = 0
  <1>1. DOMAIN [b \in {} |-> b.weight] = {}
    OBVIOUS
  <1>2. QED
    BY <1>1, SumEmpty DEF Weight, SumFunction

LEMMA WeightIsSum ==
    ASSUME NEW cast
    PROVE  Weight(cast) = SumFunctionOnSet([b \in cast |-> b.weight], cast)
  <1>1. DOMAIN [b \in cast |-> b.weight] = cast
    OBVIOUS
  <1>2. QED
    BY <1>1 DEF Weight, SumFunction

\* A new ballot adds its weight.
LEMMA WeightAdds ==
    ASSUME NEW cast, IsFiniteSet(cast), NEW b, b \notin cast,
           \A c \in cast \union {b} : c.weight \in Nat
    PROVE  Weight(cast \union {b}) = Weight(cast) + b.weight
  <1> DEFINE all == cast \union {b}
             f == [c \in cast |-> c.weight]
             g == [c \in all |-> c.weight]
  <1>1. \A c \in all : g[c] \in Int
    OBVIOUS
  <1>2. \A c \in cast : f[c] = g[c]
    OBVIOUS
  <1>3. g[b] = b.weight /\ b.weight \in Nat
    OBVIOUS
  <1>4. Weight(cast) = SumFunctionOnSet(f, cast) /\ Weight(all) = SumFunctionOnSet(g, all)
    BY WeightIsSum
  <1> HIDE DEF f, g
  <1>5. SumFunctionOnSet(g, cast \union {b}) = g[b] + SumFunctionOnSet(g, cast)
    BY <1>1, SumAdds
  <1>6. SumFunctionOnSet(f, cast) = SumFunctionOnSet(g, cast)
    BY <1>2, SumAgrees
  <1>7. SumFunctionOnSet(g, cast) \in Int
    BY <1>1, SumType
  <1>8. QED
    BY <1>3, <1>4, <1>5, <1>6, <1>7

\* What the stored votes say of a proposal's ballots.
LEMMA BallotFacts ==
    ASSUME TypeOK, NEW id \in Ids
    PROVE  /\ \A v \in Accounts : voteRecord[id][v] # None =>
                 /\ voteRecord[id][v] \in VoteRecord
                 /\ BallotBy(id, v) \in Ballots(id)
                 /\ BallotBy(id, v).support = voteRecord[id][v].support
           /\ \A b \in Ballots(id) :
                 /\ b.voter \in Accounts /\ voteRecord[id][b.voter] # None
                 /\ b = BallotBy(id, b.voter)
                 /\ b.weight \in Nat /\ b.support \in Supports
  <1>1. \A v \in Accounts : voteRecord[id][v] # None => voteRecord[id][v] \in VoteRecord
    BY DEF TypeOK, VotingTypeOK
  <1>2. \A v \in Accounts : voteRecord[id][v] # None => BallotBy(id, v) \in Ballots(id)
    BY DEF Ballots, BallotBy
  <1>3. ASSUME NEW b \in Ballots(id)
        PROVE  /\ b.voter \in Accounts /\ voteRecord[id][b.voter] # None
               /\ b = BallotBy(id, b.voter)
               /\ b.weight \in Nat /\ b.support \in Supports
    <2>1. PICK v \in Accounts : voteRecord[id][v] # None /\ b = BallotBy(id, v)
      BY DEF Ballots, BallotBy
    <2>2. /\ b.voter = v /\ b.weight = voteRecord[id][v].weight
          /\ b.support = voteRecord[id][v].support
      BY <2>1 DEF BallotBy
    <2>3. QED
      BY <1>1, <2>1, <2>2 DEF VoteRecord
  <1>4. QED
    BY <1>1, <1>2, <1>3 DEF BallotBy

LEMMA InitCounts == Init => CountInv
  <1> SUFFICES ASSUME Init PROVE CountInv
    OBVIOUS
  <1>1. ASSUME NEW id \in Ids PROVE Counts(id)
    <2>1. advanced[id] = None /\ Ballots(id) = {}
      BY DEF Init, VotingInit, Ballots
    <2>2. QED
      BY <2>1, FS_EmptySet DEF Counts
  <1>2. QED
    BY <1>1, InitTypes DEF CountInv

\* A proposal whose ballots and tallies a step leaves alone.
LEMMA KeepsCounts ==
    ASSUME NEW id \in Ids, Counts(id), voteRecord'[id] = voteRecord[id],
           \/ advanced'[id] = advanced[id]
           \/ /\ advanced[id] # None /\ advanced'[id] # None
              /\ advanced'[id].for = advanced[id].for
              /\ advanced'[id].against = advanced[id].against
              /\ advanced'[id].abstain = advanced[id].abstain
    PROVE  Counts(id)' /\ Ballots(id)' = Ballots(id)
  <1>1. Ballots(id)' = Ballots(id)
    BY DEF Ballots
  <1>2. \A s : BallotsFor(id, s)' = BallotsFor(id, s)
    BY <1>1 DEF BallotsFor
  <1>3. QED
    BY <1>1, <1>2 DEF Counts, Participating

\* A vote is one ballot more, of a voter who had none, and the tallies count it.
LEMMA VoteCounts ==
    ASSUME CountInv, TypeOK', NEW id \in Ids, NEW v \in Accounts, NEW support \in Supports,
           vote_advanced(v, id, support)
    PROVE  /\ Counts(id)'
           /\ voteRecord[id][v] = None
           /\ \E b : /\ b.voter = v /\ b.support \in Supports /\ b.weight \in Nat
                     /\ b \in Ballots(id)' /\ Ballots(id)' = Ballots(id) \union {b}
           /\ \A b \in Ballots(id) : b.voter # v
           /\ advanced[id].state \in {"Pending", "Active"} /\ advanced[id] # None
           /\ advanced'[id].state = "Active" /\ advanced'[id] # None
           /\ advanced'[id].quorum = advanced[id].quorum
  <1> DEFINE weight == compute_weight(advanced[id].strategy, balance[v])
             old == advanced[id]
             tallied == Counted(old, support, weight)
             new == [tallied EXCEPT !.state = "Active"]
             record == [support |-> support, weight |-> weight]
             b == [voter |-> v, support |-> support, weight |-> weight]
  <1>1. /\ old # None /\ old.state \in {"Pending", "Active"} /\ voteRecord[id][v] = None
        /\ weight \in Nat
        /\ advanced' = [advanced EXCEPT ![id] = new]
        /\ voteRecord' = [voteRecord EXCEPT ![id][v] = record]
    BY DEF vote_advanced
  <1>2. /\ TypeOK /\ Counts(id)
        /\ advanced \in [Ids -> VotingProposal \union {None}]
        /\ voteRecord \in [Ids -> [Accounts -> VoteRecord \union {None}]]
        /\ old \in VotingProposal
    BY <1>1 DEF CountInv, TypeOK, VotingTypeOK
  <1> HIDE DEF weight
  <1>3. tallied \in VotingProposal
    BY <1>1, <1>2, CountedType
  <1>4. /\ new \in VotingProposal /\ new.state = "Active" /\ new.quorum = old.quorum
        /\ new.for = IF support = "For" THEN old.for + weight ELSE old.for
        /\ new.against = IF support = "Against" THEN old.against + weight ELSE old.against
        /\ new.abstain = IF support = "Abstain" THEN old.abstain + weight ELSE old.abstain
    <2>1. /\ tallied.quorum = old.quorum
          /\ tallied.for = IF support = "For" THEN old.for + weight ELSE old.for
          /\ tallied.against = IF support = "Against" THEN old.against + weight ELSE old.against
          /\ tallied.abstain = IF support = "Abstain" THEN old.abstain + weight ELSE old.abstain
      BY <1>2 DEF Counted, VotingProposal
    <2> HIDE DEF tallied
    <2>2. QED
      BY <1>3, <2>1 DEF VotingProposal, States
  <1> HIDE DEF new
  <1>5. advanced'[id] = new /\ new # None
    BY <1>1, <1>2, <1>4, VotingAssumption
  <1>6. record \in VoteRecord /\ record # None
    BY <1>1, VotingAssumption DEF VoteRecord
  <1>7. /\ voteRecord'[id][v] = record
        /\ \A w \in Accounts : w # v => voteRecord'[id][w] = voteRecord[id][w]
    BY <1>1, <1>2
  <1>8. b = BallotBy(id, v)'
    BY <1>7 DEF BallotBy
  <1>9. \A w \in Accounts : w # v => BallotBy(id, w)' = BallotBy(id, w)
    BY <1>7 DEF BallotBy
  <1>10. /\ Ballots(id) = {BallotBy(id, w) : w \in {w \in Accounts : voteRecord[id][w] # None}}
         /\ Ballots(id)' =
              {BallotBy(id, w)' : w \in {w \in Accounts : voteRecord'[id][w] # None}}
    BY DEF Ballots, BallotBy
  <1>11. Ballots(id)' = Ballots(id) \union {b}
    BY <1>1, <1>6, <1>7, <1>8, <1>9, <1>10
  <1>12. /\ \A c \in Ballots(id) : c.voter # v /\ c.weight \in Nat
         /\ b \notin Ballots(id)
    BY <1>1, <1>2, BallotFacts
  <1>13. b.voter = v /\ b.support = support /\ b.weight = weight
    OBVIOUS
  <1> HIDE DEF b
  <1>14. IsFiniteSet(Ballots(id)) /\ IsFiniteSet(Ballots(id)')
    BY <1>2, <1>11, FS_AddElement DEF Counts
  <1>15. Weight(Ballots(id) \union {b}) = Weight(Ballots(id)) + weight
    BY <1>1, <1>12, <1>13, <1>14, WeightAdds
  <1>16. ASSUME NEW s
         PROVE  Weight(BallotsFor(id, s)') = 
                  IF s = support THEN Weight(BallotsFor(id, s)) + weight
                                 ELSE Weight(BallotsFor(id, s))
    <2>1. BallotsFor(id, s)' = {c \in Ballots(id)' : c.support = s}
      BY DEF BallotsFor
    <2>2. CASE s # support
      <3>1. BallotsFor(id, s)' = BallotsFor(id, s)
        BY <1>11, <1>13, <2>1, <2>2 DEF BallotsFor
      <3>2. QED
        BY <2>2, <3>1
    <2>3. CASE s = support
      <3>1. BallotsFor(id, s)' = BallotsFor(id, s) \union {b}
        BY <1>11, <1>13, <2>1, <2>3 DEF BallotsFor
      <3>2. IsFiniteSet(BallotsFor(id, s))
        BY <1>14, FS_Subset DEF BallotsFor
      <3>3. /\ b \notin BallotsFor(id, s)
            /\ \A c \in BallotsFor(id, s) \union {b} : c.weight \in Nat
        BY <1>1, <1>12, <1>13 DEF BallotsFor
      <3>4. Weight(BallotsFor(id, s) \union {b}) = Weight(BallotsFor(id, s)) + weight
        BY <1>13, <3>2, <3>3, WeightAdds
      <3>5. QED
        BY <2>3, <3>1, <3>4
    <2>4. QED
      BY <2>2, <2>3
  <1>17. /\ Participating(old) = Weight(Ballots(id))
         /\ old.for = Weight(BallotsFor(id, "For"))
         /\ old.against = Weight(BallotsFor(id, "Against"))
    BY <1>1, <1>2 DEF Counts
  <1>18. Participating(new) = Participating(old) + weight
    BY <1>1, <1>2, <1>4, SMTT(30) DEF Participating, Supports, VotingProposal
  <1>19. Counts(id)'
    <2>1. Weight(BallotsFor(id, "For")') = new.for
      BY <1>4, <1>16, <1>17
    <2>2. Weight(BallotsFor(id, "Against")') = new.against
      BY <1>4, <1>16, <1>17
    <2>3. Weight(Ballots(id)') = Participating(new)
      BY <1>11, <1>15, <1>17, <1>18
    <2>4. QED
      BY <1>5, <1>14, <2>1, <2>2, <2>3 DEF Counts, Participating, Weight
  <1>20. QED
    BY <1>1, <1>4, <1>5, <1>11, <1>12, <1>13, <1>19

\* What the step of a ballot is to be, with the proposal's quorum.
Quorum(id) == IF advanced[id] = None THEN 0 ELSE advanced[id].quorum

BallotStep(id) ==
    \/ UNCHANGED <<Phase(advanced[id]), Ballots(id), Quorum(id)>>
    \/ BallotOf(id)!Next

LEMMA BallotVars ==
    ASSUME NEW id \in Ids, BallotStep(id)
    PROVE  [BallotOf(id)!Next]_(BallotOf(id)!vars)
  BY DEF BallotStep, Quorum, BallotOf!vars

\* The contract decides by its tallies as the ballots would.
LEMMA DecidesByBallots ==
    ASSUME NEW id \in Ids, Counts(id), advanced[id] # None
    PROVE  BallotOf(id)!Passed <=> Passes(advanced[id])
  <1>1. /\ BallotOf(id)!Backing("For") = BallotsFor(id, "For")
        /\ BallotOf(id)!Backing("Against") = BallotsFor(id, "Against")
    BY DEF BallotOf!Backing, BallotsFor
  <1>2. \A f : BallotOf(id)!SumFunction(f) = SumFunction(f)
    BY DEF BallotOf!SumFunction, BallotOf!SumFunctionOnSet, BallotOf!FoldFunctionOnSet,
           BallotOf!MapThenFoldSet, SumFunction, SumFunctionOnSet, FoldFunctionOnSet,
           MapThenFoldSet
  <1>3. \A cast : BallotOf(id)!WeightOf(cast) = Weight(cast)
    BY <1>2 DEF BallotOf!WeightOf, Weight
  <1>4. QED
    BY <1>1, <1>3 DEF BallotOf!Passed, Passes, Counts

\* A step that changes the state of a proposal only.
LEMMA StateStep ==
    ASSUME CountInv, TypeOK', NEW id \in Ids, NEW state \in States, advanced[id] # None,
           advanced' = [advanced EXCEPT ![id].state = state], UNCHANGED voteRecord
    PROVE  /\ CountInv'
           /\ advanced'[id].state = state
           /\ UNCHANGED <<Ballots(id), Quorum(id)>>
           /\ advanced'[id] # None
           /\ \A i \in Ids : i # id => BallotStep(i)
  <1>1. /\ advanced \in [Ids -> VotingProposal \union {None}]
        /\ advanced[id] \in VotingProposal
    BY DEF CountInv, TypeOK, VotingTypeOK
  <1>2. /\ advanced'[id] = [advanced[id] EXCEPT !.state = state]
        /\ \A i \in Ids : i # id => advanced'[i] = advanced[i]
    BY <1>1
  <1>3. /\ advanced'[id] \in VotingProposal
        /\ advanced'[id].state = state /\ advanced'[id].quorum = advanced[id].quorum
        /\ advanced'[id].for = advanced[id].for
        /\ advanced'[id].against = advanced[id].against
        /\ advanced'[id].abstain = advanced[id].abstain
    BY <1>1, <1>2 DEF VotingProposal
  <1>4. advanced'[id] # None
    BY <1>3, VotingAssumption
  <1>5. \A i \in Ids : Counts(i)' /\ Ballots(i)' = Ballots(i)
    BY <1>2, <1>3, <1>4, KeepsCounts DEF CountInv
  <1>6. Quorum(id)' = Quorum(id)
    BY <1>3, <1>4 DEF Quorum
  <1>7. ASSUME NEW i \in Ids, i # id PROVE BallotStep(i)
    <2>1. advanced'[i] = advanced[i] /\ Ballots(i)' = Ballots(i)
      BY <1>2, <1>5, <1>7
    <2>2. Phase(advanced[i])' = Phase(advanced[i]) /\ Quorum(i)' = Quorum(i)
      BY <2>1 DEF Quorum
    <2>3. QED
      BY <2>1, <2>2 DEF BallotStep
  <1>8. QED
    BY <1>3, <1>4, <1>5, <1>6, <1>7 DEF CountInv

LEMMA PhaseIs ==
    ASSUME NEW p \in VotingProposal
    PROVE  /\ Phase(None) = "none"
           /\ p.state \in {"Pending", "Active"} => Phase(p) = "open"
           /\ p.state = "Succeeded" => Phase(p) = "passed"
           /\ p.state = "Defeated" => Phase(p) = "failed"
           /\ p.state = "Executed" => Phase(p) = "executed"
           /\ p.state = "Cancelled" => Phase(p) = "cancelled"
  <1>1. p # None
    BY VotingAssumption
  <1>2. QED
    BY <1>1 DEF Phase

\* What create_advanced_proposal stores is a proposal.
LEMMA NewProposal ==
    ASSUME TypeOK, NEW strategy \in Strategies, NEW end \in Ledgers, NEW d \in TimelockDelays
    PROVE  [start    |-> ledger + config.delay,
            end      |-> end,
            timelock |-> end + d,
            quorum   |-> quorum_required,
            strategy |-> strategy,
            for |-> 0, against |-> 0, abstain |-> 0,
            state    |-> "Pending"] \in VotingProposal
  <1>1. ledger \in Nat /\ end \in Nat /\ d \in Nat /\ config.delay \in Nat
    BY BaseAssumption, VotingAssumption DEF TypeOK, BaseTypeOK, VotingTypeOK
  <1>3. quorum_required \in Int
    BY QuorumType DEF TypeOK, VotingTypeOK
  <1>4. QED
    BY <1>1, <1>3 DEF VotingProposal, States

\* A step that touches no proposal and no vote.
LEMMA QuietBallots ==
    ASSUME CountInv, TypeOK', UNCHANGED <<advanced, voteRecord>>
    PROVE  CountInv' /\ \A i \in Ids : BallotStep(i)
  <1>1. ASSUME NEW i \in Ids PROVE Counts(i)' /\ BallotStep(i)
    <2>1. Counts(i)' /\ Ballots(i)' = Ballots(i)
      BY KeepsCounts DEF CountInv
    <2>2. QED
      BY <2>1 DEF BallotStep, Quorum
  <1>2. QED
    BY <1>1 DEF CountInv

LEMMA VotingBallots ==
    ASSUME ~EarlyCalls, IdInv, CountInv, TypeOK', VotingNext
    PROVE  CountInv' /\ \A i \in Ids : BallotStep(i)
  <1>0. /\ advanced \in [Ids -> VotingProposal \union {None}]
        /\ voteRecord \in [Ids -> [Accounts -> VoteRecord \union {None}]]
        /\ advanced' \in [Ids -> VotingProposal \union {None}]
    BY DEF CountInv, TypeOK, VotingTypeOK
  <1> DEFINE Goal == CountInv' /\ \A i \in Ids : BallotStep(i)
  <1> HIDE DEF Goal
  <1>1. ASSUME NEW id \in Ids, NEW strategy \in Strategies, NEW end \in Ledgers,
               NEW d \in TimelockDelays, create_advanced_proposal(id, strategy, end, d)
        PROVE  Goal
    <2> DEFINE p == [start    |-> ledger + config.delay,
                     end      |-> end,
                     timelock |-> end + d,
                     quorum   |-> quorum_required,
                     strategy |-> strategy,
                     for |-> 0, against |-> 0, abstain |-> 0,
                     state    |-> "Pending"]
    <2>1. advanced' = [advanced EXCEPT ![id] = p] /\ voteRecord' = voteRecord /\ TakeId(id)
      BY <1>1 DEF create_advanced_proposal
    <2>2. p.for = 0 /\ p.against = 0 /\ p.abstain = 0 /\ p.state = "Pending"
      OBVIOUS
    <2> HIDE DEF p
    <2>3. advanced'[id] = p /\ \A i \in Ids : i # id => advanced'[i] = advanced[i]
      BY <1>0, <2>1
    <2>4. p \in VotingProposal /\ p # None
      BY <1>1, VotingAssumption, NewProposal DEF CountInv, p
    <2>5. advanced[id] = None
      <3>1. id >= nextProposalId
        BY <2>1, BaseAssumption DEF TakeId, IdInv, TypeOK, BaseTypeOK
      <3>2. QED
        BY <3>1 DEF IdInv, IdsUnique, Used
    <2>6. ASSUME NEW i \in Ids, i # id PROVE Counts(i)' /\ BallotStep(i)
      <3>1. /\ advanced'[i] = advanced[i] /\ Counts(i)'
            /\ Ballots(i)' = Ballots(i)
        BY <2>1, <2>3, <2>6, KeepsCounts DEF CountInv
      <3>2. Quorum(i)' = Quorum(i)
        BY <3>1 DEF Quorum
      <3>3. QED
        BY <3>1, <3>2 DEF BallotStep
    <2>7. Ballots(id)' = {} /\ Ballots(id) = {}
      <3>1. Ballots(id)' = Ballots(id)
        BY <2>1 DEF Ballots
      <3>2. QED
        BY <2>5, <3>1 DEF CountInv, Counts
    <2>8. Counts(id)'
      <3>1. \A s : BallotsFor(id, s)' = {}
        BY <2>7 DEF BallotsFor
      <3>2. Participating(p) = 0
        BY <2>2 DEF Participating
      <3>3. QED
        BY <2>2, <2>3, <2>4, <2>7, <3>1, <3>2, NoWeight, FS_EmptySet DEF Counts, Participating
    <2>9. BallotStep(id)
      <3>1. Phase(advanced[id]) = "none" /\ Phase(advanced'[id]) = "open"
        BY <2>2, <2>3, <2>4, <2>5, PhaseIs
      <3>2. Quorum(id)' \in Int
        BY <2>3, <2>4 DEF Quorum, VotingProposal
      <3>3. BallotOf(id)!Open
        BY <2>7, <3>1, <3>2 DEF BallotOf!Open, Quorum
      <3>4. QED
        BY <3>3 DEF BallotStep, BallotOf!Next
    <2>10. QED
      BY <2>6, <2>8, <2>9 DEF Goal, CountInv
  <1>2. ASSUME NEW id \in Ids, NEW v \in Accounts, NEW support \in Supports,
               vote_advanced(v, id, support)
        PROVE  Goal
    <2>1. /\ voteRecord' = [voteRecord EXCEPT ![id] = voteRecord'[id]]
          /\ advanced' = [advanced EXCEPT ![id] = advanced'[id]]
      BY <1>0, <1>2 DEF vote_advanced
    <2>2. \A i \in Ids : i # id => advanced'[i] = advanced[i] /\ voteRecord'[i] = voteRecord[i]
      BY <1>0, <2>1
    <2>3. ASSUME NEW i \in Ids, i # id PROVE Counts(i)' /\ BallotStep(i)
      <3>1. /\ advanced'[i] = advanced[i] /\ Counts(i)'
            /\ Ballots(i)' = Ballots(i)
        BY <2>2, <2>3, KeepsCounts DEF CountInv
      <3>2. Quorum(i)' = Quorum(i)
        BY <3>1 DEF Quorum
      <3>3. QED
        BY <3>1, <3>2 DEF BallotStep
    <2>4. /\ Counts(id)'
          /\ \E b : /\ b.voter = v /\ b.support \in Supports /\ b.weight \in Nat
                    /\ b \in Ballots(id)' /\ Ballots(id)' = Ballots(id) \union {b}
          /\ \A b \in Ballots(id) : b.voter # v
          /\ advanced[id].state \in {"Pending", "Active"} /\ advanced[id] # None
          /\ advanced'[id].state = "Active" /\ advanced'[id] # None
          /\ advanced'[id].quorum = advanced[id].quorum
      BY <1>2, VoteCounts
    <2>5. Phase(advanced[id]) = "open" /\ Phase(advanced'[id]) = "open"
      BY <1>0, <2>4, PhaseIs
    <2>6. Quorum(id)' = Quorum(id)
      BY <2>4 DEF Quorum
    <2>7. BallotOf(id)!Cast(v)
      BY <2>4, <2>5, <2>6 DEF BallotOf!Cast, BallotOf!Supports, Supports, Quorum
    <2>8. BallotStep(id)
      BY <2>7 DEF BallotStep, BallotOf!Next
    <2>9. QED
      BY <2>3, <2>4, <2>8 DEF Goal, CountInv
  <1>3. ASSUME NEW id \in Ids, finalise_advanced_proposal(id)
        PROVE  Goal
    <2> DEFINE state == IF Passes(advanced[id]) THEN "Succeeded" ELSE "Defeated"
    <2>1. /\ advanced[id] # None /\ advanced[id].state \in {"Active", "Pending"}
          /\ advanced' = [advanced EXCEPT ![id].state = state] /\ UNCHANGED voteRecord
          /\ state \in States
      BY <1>3 DEF finalise_advanced_proposal, States
    <2> HIDE DEF state
    <2>2. /\ CountInv' /\ advanced'[id].state = state /\ advanced'[id] # None
          /\ UNCHANGED <<Ballots(id), Quorum(id)>>
          /\ \A i \in Ids : i # id => BallotStep(i)
      BY <2>1, StateStep
    <2>3. /\ Phase(advanced[id]) = "open"
          /\ Phase(advanced'[id]) = IF Passes(advanced[id]) THEN "passed" ELSE "failed"
      BY <1>0, <2>1, <2>2, PhaseIs DEF state
    <2>4. BallotOf(id)!Passed <=> Passes(advanced[id])
      BY <2>1, DecidesByBallots DEF CountInv
    <2>5. BallotOf(id)!Decide
      BY <2>2, <2>3, <2>4 DEF BallotOf!Decide, Quorum
    <2>6. QED
      BY <2>2, <2>5 DEF Goal, BallotStep, BallotOf!Next
  <1>4. ASSUME NEW id \in Ids, execute_advanced_proposal(id)
        PROVE  Goal
    <2>1. /\ advanced[id] # None /\ advanced[id].state = "Succeeded"
          /\ advanced' = [advanced EXCEPT ![id].state = "Executed"] /\ UNCHANGED voteRecord
          /\ "Executed" \in States
      BY <1>4 DEF execute_advanced_proposal, States
    <2>2. /\ CountInv' /\ advanced'[id].state = "Executed" /\ advanced'[id] # None
          /\ UNCHANGED <<Ballots(id), Quorum(id)>>
          /\ \A i \in Ids : i # id => BallotStep(i)
      BY <2>1, StateStep
    <2>3. Phase(advanced[id]) = "passed" /\ Phase(advanced'[id]) = "executed"
      BY <1>0, <2>1, <2>2, PhaseIs
    <2>4. BallotOf(id)!Execute
      BY <2>2, <2>3 DEF BallotOf!Execute, Quorum
    <2>5. QED
      BY <2>2, <2>4 DEF Goal, BallotStep, BallotOf!Next
  <1>5. ASSUME NEW id \in Ids, cancel_advanced_proposal(id)
        PROVE  Goal
    <2>1. /\ advanced[id] # None /\ advanced[id].state \in {"Pending", "Active"}
          /\ advanced' = [advanced EXCEPT ![id].state = "Cancelled"] /\ UNCHANGED voteRecord
          /\ "Cancelled" \in States
      BY <1>5 DEF cancel_advanced_proposal, States
    <2>2. /\ CountInv' /\ advanced'[id].state = "Cancelled" /\ advanced'[id] # None
          /\ UNCHANGED <<Ballots(id), Quorum(id)>>
          /\ \A i \in Ids : i # id => BallotStep(i)
      BY <2>1, StateStep
    <2>3. Phase(advanced[id]) = "open" /\ Phase(advanced'[id]) = "cancelled"
      BY <1>0, <2>1, <2>2, PhaseIs
    <2>4. BallotOf(id)!Cancel
      BY <2>2, <2>3 DEF BallotOf!Cancel, Quorum
    <2>5. QED
      BY <2>2, <2>4 DEF Goal, BallotStep, BallotOf!Next
  <1>6. ASSUME NEW c, Configure(c)
        PROVE  Goal
    <2>1. UNCHANGED <<advanced, voteRecord>>
      BY <1>6 DEF Configure
    <2>2. QED
      BY <2>1, QuietBallots DEF Goal
  <1>7. QED
    BY <1>1, <1>2, <1>3, <1>4, <1>5, <1>6
       DEF Goal, VotingNext, set_voting_delay, set_timelock_duration, set_quorum_percentage,
           set_total_supply_snapshot

LEMMA NextBallots ==
    ~EarlyCalls /\ IdInv /\ CountInv /\ [Next]_vars =>
        /\ CountInv'
        /\ [\A id \in Ids : [BallotOf(id)!Next]_(BallotOf(id)!vars)]_vars
  <1> SUFFICES ASSUME ~EarlyCalls, IdInv, CountInv, [Next]_vars
               PROVE  CountInv' /\ \A id \in Ids : [BallotOf(id)!Next]_(BallotOf(id)!vars)
    OBVIOUS
  <1>1. TypeOK'
    BY NextTypes DEF CountInv
  <1>2. CountInv' /\ \A id \in Ids : BallotStep(id)
    <2>1. CASE VotingNext
      BY <1>1, <2>1, VotingBallots
    <2>2. CASE ~VotingNext
      <3>1. UNCHANGED <<advanced, voteRecord>>
        BY <2>2 DEF Next, initialize, Environment, vars, votingVars
      <3>2. QED
        BY <1>1, <3>1, QuietBallots
    <2>3. QED
      BY <2>1, <2>2
  <1>3. QED
    BY <1>2, BallotVars

LEMMA InitBallots == Init => \A id \in Ids : BallotOf(id)!Init
  <1> SUFFICES ASSUME Init, NEW id \in Ids PROVE BallotOf(id)!Init
    OBVIOUS
  <1>1. advanced[id] = None /\ Ballots(id) = {}
    BY DEF Init, VotingInit, Ballots
  <1>2. QED
    BY <1>1 DEF BallotOf!Init, Phase

\* When nobody calls before initialize, every advanced proposal is a ballot: it is opened
\* once, by nobody's leftover votes; each vote is one ballot of a voter who had none; and the
\* decision the contract takes by its three tallies is the outcome of the ballots cast, for
\* every token distribution, weight strategy, quorum and order of the calls.
THEOREM BallotsRefined == ASSUME ~EarlyCalls PROVE Spec => ProposalsAreBallots
  <1>1. Init => IdInv /\ CountInv
    BY InitIds, InitCounts
  <1>2. IdInv /\ CountInv /\ [Next]_vars =>
           /\ IdInv' /\ CountInv'
           /\ [\A id \in Ids : [BallotOf(id)!Next]_(BallotOf(id)!vars)]_vars
    BY NextIds, NextBallots
  <1>3. Init => \A id \in Ids : BallotOf(id)!Init
    BY InitBallots
  <1>4. QED
    BY <1>1, <1>2, <1>3, PTL DEF Spec, ProposalsAreBallots
----------------------------------------------------------------------------
(* vote weights: the square root *)

\* Newton's step from n for the root of x, and the function the iteration is.
Descent(x, n) == (n + x \div n) \div 2
Iterates(f, x, m) ==
    f = [n \in 1..m |-> IF Descent(x, n) >= n THEN n ELSE f[Descent(x, n)]]

\* A set of natural numbers that is not empty has a least one.
LEMMA LeastNumber ==
    ASSUME NEW S \in SUBSET Nat, S # {}
    PROVE  \E n \in S : \A m \in S : n <= m
  <1>1. PICK n \in S : \A m \in S : <<m, n>> \notin OpToRel(<, Nat)
    BY NatLessThanWellFounded, WFMin
  <1>2. \A m \in S : ~(m < n)
    BY <1>1 DEF OpToRel
  <1>3. QED
    BY <1>2

\* What division by a positive number rounds off.
LEMMA Quotient ==
    ASSUME NEW x \in Nat, NEW n \in Nat \ {0}
    PROVE  /\ x \div n \in Nat
           /\ (x \div n) * n <= x /\ x < (x \div n) * n + n
  OBVIOUS

\* A step from a positive n is positive, and stays above the root: the arithmetic mean of n
\* and x / n is no less than the geometric one.
LEMMA DescentStep ==
    ASSUME NEW x \in Nat, NEW n \in 1..x
    PROVE  /\ Descent(x, n) \in Nat \ {0}
           /\ x < (Descent(x, n) + 1) * (Descent(x, n) + 1)
           /\ Descent(x, n) >= n => n * n <= x
  <1> DEFINE q == x \div n
             d == Descent(x, n)
  <1>1. q \in Nat /\ q * n <= x /\ x < q * n + n
    BY Quotient
  <1>2. q >= 1
    BY <1>1
  <1>3. d \in Nat /\ 2 * d <= n + q /\ n + q <= 2 * d + 1
    <2> HIDE DEF q
    <2>1. d = (n + q) \div 2
      BY DEF Descent, q
    <2>2. QED
      BY <1>1, <2>1
  <1> HIDE DEF q, d
  <1>4. d >= 1
    <2>1. q \in Nat /\ n >= 1
      BY <1>1
    <2>2. QED
      BY <1>2, <1>3, <2>1
  <1>5. x < (d + 1) * (d + 1)
    <2>1. x < n * (q + 1)
      BY <1>1
    <2>2. n + (q + 1) <= 2 * (d + 1)
      BY <1>1, <1>3
    <2>3. (n + (q + 1)) * (n + (q + 1)) <= (2 * (d + 1)) * (2 * (d + 1))
      BY <1>1, <1>3, <2>2
    <2>4. 4 * (n * (q + 1)) <= (n + (q + 1)) * (n + (q + 1))
      <3>1. 0 <= (n - (q + 1)) * (n - (q + 1))
        BY <1>1
      <3>2. QED
        BY <1>1, <3>1
    <2>5. QED
      BY <1>1, <1>3, <2>1, <2>3, <2>4
  <1>6. ASSUME d >= n PROVE n * n <= x
    <2>1. q >= n
      BY <1>1, <1>3, <1>6
    <2>2. n * n <= q * n
      BY <1>1, <2>1
    <2>3. QED
      BY <1>1, <2>2
  <1>7. QED
    BY <1>3, <1>4, <1>5, <1>6 DEF d

\* The iteration ends, so the function exists up to any start.
LEMMA IterationExists ==
    ASSUME NEW x \in Nat
    PROVE  \E f : Iterates(f, x, x)
  <1> DEFINE B == {m \in 0..x : \A f : ~Iterates(f, x, m)}
  <1>1. \A m \in 0..x : \E f : Iterates(f, x, m)
    <2> SUFFICES ASSUME B # {} PROVE FALSE
      OBVIOUS
    <2>0. B \in SUBSET Nat
      OBVIOUS
    <2>1. PICK m \in B : \A k \in B : m <= k
      <3> HIDE DEF B
      <3>1. QED
        BY <2>0, LeastNumber
    <2>2. m \in Nat /\ m <= x /\ \A f : ~Iterates(f, x, m)
      OBVIOUS
    <2>3. m # 0
      <3> DEFINE f == [n \in 1..0 |-> 0]
      <3>1. 1..0 = {}
        OBVIOUS
      <3>2. Iterates(f, x, 0)
        BY <3>1 DEF Iterates
      <3>3. QED
        BY <2>2, <3>2
    <2>4. m - 1 \in 0..x /\ m - 1 \notin B
      BY <2>1, <2>2, <2>3
    <2>5. PICK f : Iterates(f, x, m - 1)
      BY <2>4
    <2> HIDE DEF B
    <2> DEFINE g == [n \in 1..m |-> IF n < m THEN f[n]
                                    ELSE IF Descent(x, n) >= n THEN n ELSE f[Descent(x, n)]]
    <2>6. ASSUME NEW n \in 1..m
          PROVE  g[n] = IF Descent(x, n) >= n THEN n ELSE g[Descent(x, n)]
      <3> DEFINE d == Descent(x, n)
      <3>1. d \in Nat \ {0}
        BY <2>2, DescentStep
      <3>2. f = [k \in 1..(m - 1) |-> IF Descent(x, k) >= k THEN k ELSE f[Descent(x, k)]]
        BY <2>5 DEF Iterates
      <3> HIDE DEF d
      <3>3. CASE d >= n
        <4>1. g[n] = n
          <5>1. n < m => n \in 1..(m - 1)
            BY <2>2
          <5>2. QED
            BY <3>2, <3>3, <5>1 DEF d
        <4>2. QED
          BY <3>3, <4>1 DEF d
      <3>4. CASE ~(d >= n)
        <4>1. d \in 1..m /\ d < m
          BY <2>2, <3>1, <3>4
        <4>2. g[d] = f[d]
          BY <4>1
        <4>3. g[n] = f[d]
          <5>1. n < m => n \in 1..(m - 1)
            BY <2>2
          <5>2. QED
            BY <3>2, <3>4, <5>1 DEF d
        <4>4. QED
          BY <3>4, <4>2, <4>3 DEF d
      <3>5. QED
        BY <3>3, <3>4
    <2>7. g = [n \in 1..m |-> g[n]]
      OBVIOUS
    <2> HIDE DEF g
    <2>8. Iterates(g, x, m)
      BY <2>6, <2>7 DEF Iterates
    <2>9. QED
      BY <2>2, <2>8
  <1>2. QED
    BY <1>1

\* From a start above the root the iteration stops at its floor.
LEMMA IterationIsFloor ==
    ASSUME NEW x \in Nat, NEW f, Iterates(f, x, x)
    PROVE  \A n \in 1..x : x < (n + 1) * (n + 1) =>
             f[n] \in Nat /\ f[n] * f[n] <= x /\ x < (f[n] + 1) * (f[n] + 1)
  <1> DEFINE Floor(r) == r \in Nat /\ r * r <= x /\ x < (r + 1) * (r + 1)
             B == {n \in 1..x : x < (n + 1) * (n + 1) /\ ~Floor(f[n])}
  <1> SUFFICES ASSUME B # {} PROVE FALSE
    OBVIOUS
  <1>0. B \in SUBSET Nat
    OBVIOUS
  <1>1. PICK n \in B : \A k \in B : n <= k
    <2> HIDE DEF B
    <2>1. QED
      BY <1>0, LeastNumber
  <1>2. n \in 1..x /\ x < (n + 1) * (n + 1) /\ ~Floor(f[n])
    BY <1>1
  <1> DEFINE d == Descent(x, n)
  <1>3. d \in Nat \ {0} /\ x < (d + 1) * (d + 1) /\ (d >= n => n * n <= x)
    BY <1>2, DescentStep
  <1>4. f[n] = IF d >= n THEN n ELSE f[d]
    BY <1>2 DEF Iterates
  <1> HIDE DEF d, Floor
  <1>5. CASE d >= n
    BY <1>2, <1>3, <1>4, <1>5 DEF Floor
  <1>6. CASE ~(d >= n)
    <2>1. d \in 1..x /\ d < n
      BY <1>2, <1>3, <1>6
    <2>2. d \notin B
      BY <1>1, <1>2, <2>1
    <2>3. Floor(f[d])
      BY <1>3, <2>1, <2>2
    <2>4. QED
      BY <1>2, <1>4, <1>6, <2>3
  <1>7. QED
    BY <1>5, <1>6

\* integer_sqrt is the floor of the square root for every balance, whatever number of steps
\* its loop takes; the small arguments it answers without iterating are no exception.
THEOREM SqrtIsTheFloor ==
    \A x \in Nat : /\ integer_sqrt(x) \in Nat
                   /\ integer_sqrt(x) * integer_sqrt(x) <= x
                   /\ x < (integer_sqrt(x) + 1) * (integer_sqrt(x) + 1)
  <1> SUFFICES ASSUME NEW x \in Nat
               PROVE  /\ integer_sqrt(x) \in Nat
                      /\ integer_sqrt(x) * integer_sqrt(x) <= x
                      /\ x < (integer_sqrt(x) + 1) * (integer_sqrt(x) + 1)
    OBVIOUS
  <1> DEFINE newton == CHOOSE f : Iterates(f, x, x)
  <1>1. integer_sqrt(x) = CASE x <= 0 -> 0 [] 0 < x /\ x < 4 -> 1 [] OTHER -> newton[x]
    BY DEF integer_sqrt, Iterates, Descent
  <1>2. Iterates(newton, x, x)
    BY IterationExists
  <1> HIDE DEF newton
  <1>3. CASE x < 4
    <2>1. x = 0 \/ x = 1 \/ x = 2 \/ x = 3
      BY <1>3
    <2>2. integer_sqrt(x) = IF x = 0 THEN 0 ELSE 1
      BY <1>1, <2>1
    <2>3. QED
      BY <2>1, <2>2
  <1>4. CASE ~(x < 4)
    <2>1. integer_sqrt(x) = newton[x]
      BY <1>1, <1>4
    <2>2. x \in 1..x /\ x < (x + 1) * (x + 1)
      BY <1>4
    <2>3. QED
      BY <1>2, <2>1, <2>2, IterationIsFloor
  <1>5. QED
    BY <1>3, <1>4

\* A voter with any balance has a weight under every strategy, so the assertion of
\* cast_vote that the weight is not negative never stops a vote.
THEOREM WeightsAreNumbers ==
    \A strategy \in Strategies, tokens \in Nat : compute_weight(strategy, tokens) \in Nat
  BY SqrtIsTheFloor DEF compute_weight, Strategies
=============================================================================
