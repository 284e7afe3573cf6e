------------------------------- MODULE Voting -------------------------------
(***************************************************************************)
(* The advanced proposals of the governance contract                       *)
(* (contracts/governance/src/voting.rs, entered through lib.rs): weighted, *)
(* quadratic or flat votes, finalisation after the voting window,          *)
(* execution after a timelock.  Every call is one transaction: a failed    *)
(* assert! leaves nothing behind.  Delegation and the voting-power cache   *)
(* of the same file touch no proposal and are not modelled here.           *)
(***************************************************************************)
EXTENDS GovernanceBase, Integers

CONSTANTS
    DefaultSupply,   \* the total supply assumed until an admin sets a snapshot
    MaxAdvanced,     \* bound: advanced proposals among the MaxId
    Supplies,        \* bound: the snapshots an admin sets, of any sign
    Percentages,     \* bound: the quorum percentages an admin sets
    Delays,          \* bound: the voting delays an admin sets
    Durations,       \* bound: the timelock durations an admin sets
    TimelockDelays   \* bound: the timelock_delay arguments of create_advanced_proposal

Strategies == {"Weighted", "Quadratic", "Flat"}
Supports   == {"For", "Against", "Abstain"}
States     == {"Pending", "Active", "Succeeded", "Defeated", "Executed", "Cancelled"}

\* What is stored for a proposal and for a vote.
VotingProposal ==
    [start : Nat, end : Nat, timelock : Nat, quorum : Int, strategy : Strategies,
     for : Nat, against : Nat, abstain : Nat, state : States]
VoteRecord == [support : Supports, weight : Nat]

ASSUME VotingAssumption ==
    /\ DefaultSupply \in Nat
    /\ MaxAdvanced \in Nat
    /\ Supplies \subseteq Int
    /\ Percentages \subseteq Nat
    /\ Delays \subseteq Nat
    /\ Durations \subseteq Nat
    /\ TimelockDelays \subseteq Nat
    /\ None \notin VotingProposal \union VoteRecord

VARIABLES
    config,      \* VotingDelay, TimelockDuration, QuorumPercentage, TotalSupply
    advanced,    \* GovernanceKey::Proposal(id)
    voteRecord   \* GovernanceKey::VoteRecord(id, voter)

votingVars == <<config, advanced, voteRecord>>

VotingTypeOK ==
    /\ config \in [delay : Nat, duration : Nat, percentage : Nat, supply : Int]
    /\ advanced \in [Ids -> VotingProposal \union {None}]
    /\ voteRecord \in [Ids -> [Accounts -> VoteRecord \union {None}]]

VotingInit ==
    /\ config = [delay |-> 0, duration |-> 0, percentage |-> 20, supply |-> DefaultSupply]
    /\ advanced = [id \in Ids |-> None]
    /\ voteRecord = [id \in Ids |-> [v \in Accounts |-> None]]

----------------------------------------------------------------------------
(* vote weights *)

\* Newton's iteration from x downwards, until it stops descending.
integer_sqrt(x) ==
    LET newton[n \in 1..x] ==
          LET n1 == (n + x \div n) \div 2 IN IF n1 >= n THEN n ELSE newton[n1]
    IN  CASE x <= 0 -> 0
          [] 0 < x /\ x < 4 -> 1
          [] OTHER -> newton[x]

compute_weight(strategy, tokens) ==
    CASE strategy = "Weighted"  -> tokens
      [] strategy = "Quadratic" -> integer_sqrt(tokens)
      [] strategy = "Flat"      -> IF tokens > 0 THEN 1 ELSE 0

----------------------------------------------------------------------------
(* proposals *)

\* A percentage of the supply known at this moment, without its fraction; a negative
\* snapshot is not refused, and makes a quorum that any turnout meets.
quorum_required ==
    LET n == config.supply * config.percentage
    IN  IF n >= 0 THEN n \div 100 ELSE -((-n) \div 100)

\* The window opens config.delay ledgers from now, whatever its end is.
create_advanced_proposal(id, strategy, end, timelockDelay) ==
    /\ Callable
    /\ Cardinality(Used(advanced)) < MaxAdvanced
    /\ end > ledger
    /\ TakeId(id)
    /\ advanced' = [advanced EXCEPT ![id] =
                      [start    |-> ledger + config.delay,
                       end      |-> end,
                       timelock |-> end + timelockDelay,
                       quorum   |-> quorum_required,
                       strategy |-> strategy,
                       for |-> 0, against |-> 0, abstain |-> 0,
                       state    |-> "Pending"]]
    /\ UNCHANGED <<ledger, initialized, balance, moves, config, voteRecord>>

\* Mutant: an abstention supports the proposal.
Counted_AbstainIsFor(p, support, weight) ==
    [p EXCEPT !.for     = IF support # "Against" THEN @ + weight ELSE @,
              !.against = IF support = "Against" THEN @ + weight ELSE @]

\* The tallies with one more vote.
Counted(p, support, weight) ==
    [p EXCEPT !.for     = IF support = "For" THEN @ + weight ELSE @,
              !.against = IF support = "Against" THEN @ + weight ELSE @,
              !.abstain = IF support = "Abstain" THEN @ + weight ELSE @]

\* A vote weighs the voter's balance NOW.  Weight 0 is a vote too: it is recorded, and it
\* uses up the voter's only vote.
vote_advanced(v, id, support) ==
    /\ initialized
    /\ advanced[id] # None
    /\ advanced[id].start <= ledger /\ ~VotingOver(advanced[id])
    /\ advanced[id].state \in {"Pending", "Active"}
    /\ voteRecord[id][v] = None
    /\ LET weight == compute_weight(advanced[id].strategy, balance[v])
       IN  /\ weight \in Nat
           /\ advanced' = [advanced EXCEPT ![id] =
                              [Counted(@, support, weight) EXCEPT !.state = "Active"]]
           /\ voteRecord' = [voteRecord EXCEPT ![id][v] = [support |-> support, weight |-> weight]]
    /\ UNCHANGED <<baseVars, config>>

Participating(p) == p.for + p.against + p.abstain
Passes(p) == Participating(p) >= p.quorum /\ p.for > p.against

finalise_advanced_proposal(id) ==
    /\ Callable
    /\ advanced[id] # None
    /\ advanced[id].state \in {"Active", "Pending"}
    /\ VotingOver(advanced[id])
    /\ advanced' = [advanced EXCEPT ![id].state =
                       IF Passes(advanced[id]) THEN "Succeeded" ELSE "Defeated"]
    /\ UNCHANGED <<baseVars, config, voteRecord>>

execute_advanced_proposal(id) ==
    /\ Callable
    /\ advanced[id] # None
    /\ advanced[id].state = "Succeeded"
    /\ ledger >= advanced[id].timelock
    /\ advanced' = [advanced EXCEPT ![id].state = "Executed"]
    /\ UNCHANGED <<baseVars, config, voteRecord>>

\* Any caller: the contract does not store who proposed.
cancel_advanced_proposal(id) ==
    /\ Callable
    /\ advanced[id] # None
    /\ advanced[id].state \in {"Pending", "Active"}
    /\ advanced' = [advanced EXCEPT ![id].state = "Cancelled"]
    /\ UNCHANGED <<baseVars, config, voteRecord>>

----------------------------------------------------------------------------
(* configuration, by the stored admin *)

\* What initialize stores; the supply snapshot is left as it is.
Defaults == [config EXCEPT !.delay = 0, !.duration = 10, !.percentage = 20]

Configure(newConfig) ==
    /\ initialized
    /\ Move
    /\ config' = newConfig
    /\ UNCHANGED <<ledger, initialized, nextProposalId, balance, advanced, voteRecord>>

set_voting_delay(delay)           == Configure([config EXCEPT !.delay = delay])
\* Nothing reads the duration: a proposal's timelock is an argument of its creation.
set_timelock_duration(duration)   == Configure([config EXCEPT !.duration = duration])
set_quorum_percentage(percentage) == /\ percentage \in 1..100
                                     /\ Configure([config EXCEPT !.percentage = percentage])
set_total_supply_snapshot(supply) == Configure([config EXCEPT !.supply = supply])

VotingNext ==
    \/ \E id \in Ids :
          \/ \E strategy \in Strategies, end \in Ledgers, d \in TimelockDelays :
                create_advanced_proposal(id, strategy, end, d)
          \/ \E v \in Accounts, support \in Supports : vote_advanced(v, id, support)
          \/ finalise_advanced_proposal(id)
          \/ execute_advanced_proposal(id)
          \/ cancel_advanced_proposal(id)
    \/ \E n \in Delays : set_voting_delay(n)
    \/ \E n \in Durations : set_timelock_duration(n)
    \/ \E n \in Percentages : set_quorum_percentage(n)
    \/ \E n \in Supplies : set_total_supply_snapshot(n)
=============================================================================
