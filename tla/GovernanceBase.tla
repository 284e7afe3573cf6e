--------------------------- MODULE GovernanceBase ---------------------------
(***************************************************************************)
(* What the three proposal families of the governance contract share: the  *)
(* ledger sequence number, the token whose balances are the voting power,  *)
(* initialize, and ONE id counter.  DataKey::NextProposalId (lib.rs) and   *)
(* GovernanceKey::NextProposalId (voting.rs) are variants of two enums,    *)
(* but both serialise to the same instance-storage key, so they are one    *)
(* variable here.                                                          *)
(***************************************************************************)
EXTENDS Naturals, FiniteSets

CONSTANTS
    Accounts,        \* the addresses that hold tokens and vote
    InitialBalance,  \* their balances when the contract is deployed
    None,            \* an empty storage slot
    EarlyCalls,      \* may the contract be called before initialize?
    Amounts,         \* bound: the amounts transferred
    MaxMoves,        \* bound: transfers and changes of the configuration
    MaxLedger,       \* bound: the last ledger
    MaxId            \* bound: proposals created, over all families

ASSUME BaseAssumption ==
    /\ InitialBalance \in [Accounts -> Nat]
    /\ EarlyCalls \in BOOLEAN
    /\ Amounts \subseteq Nat
    /\ MaxMoves \in Nat
    /\ MaxLedger \in Nat \ {0}
    /\ MaxId \in Nat

VARIABLES
    ledger,          \* env.ledger().sequence()
    initialized,     \* instance storage has DataKey::Admin
    nextProposalId,  \* NextProposalId, unwrap_or(1) when unset
    balance,         \* token.balance(account)
    moves            \* transfers and changes of the configuration so far

baseVars == <<ledger, initialized, nextProposalId, balance, moves>>

Ids == 1..MaxId
Ledgers == 1..MaxLedger

\* Ids in use by a family stored as a function from Ids to records or None.
Used(family) == {id \in Ids : family[id] # None}

BaseTypeOK ==
    /\ ledger \in Ledgers
    /\ initialized \in BOOLEAN
    /\ nextProposalId \in 1..(MaxId + 1)
    /\ balance \in [Accounts -> Nat]
    /\ moves \in 0..MaxMoves

BaseInit ==
    /\ ledger = 1
    /\ initialized = FALSE
    /\ nextProposalId = 1
    /\ balance = InitialBalance
    /\ moves = 0

\* Mutant: the window counts as over one ledger early.
VotingOver_Early(record) == ledger + 1 >= record.end

VotingOver(record) == ledger >= record.end

\* A call that needs nothing initialize has stored.
Callable == initialized \/ EarlyCalls

\* Mutant: the id is read but the counter not moved.
TakeId_KeepsCounter(id) ==
    /\ id = nextProposalId
    /\ id <= MaxId
    /\ nextProposalId' = nextProposalId

\* The id of a new proposal of any family.
TakeId(id) ==
    /\ id = nextProposalId
    /\ id <= MaxId
    /\ nextProposalId' = nextProposalId + 1

\* Ledgers close, and the token moves, without asking the governance contract.
CloseLedger ==
    /\ ledger < MaxLedger
    /\ ledger' = ledger + 1
    /\ UNCHANGED <<initialized, nextProposalId, balance, moves>>

Move == moves < MaxMoves /\ moves' = moves + 1

Transfer(from, to, amount) ==
    /\ Move
    /\ from # to
    /\ amount \in 1..balance[from]
    /\ balance' = [balance EXCEPT ![from] = @ - amount, ![to] = @ + amount]
    /\ UNCHANGED <<ledger, initialized, nextProposalId>>
=============================================================================
