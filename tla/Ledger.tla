------------------------------- MODULE Ledger -------------------------------
(***************************************************************************)
(* What the Soroban contracts of src/contracts share: the accounts that    *)
(* call them, the ledger clock (env.ledger().sequence() and .timestamp(),  *)
(* one clock here because both only grow) and the idiom by which several   *)
(* of them keep an owner -> Vec<id> index beside the owner of an id.  A    *)
(* contract call is atomic: a panic rolls the whole invocation back, so    *)
(* every assertion and every require_auth of an entry point is a conjunct  *)
(* of its action.  Init is the state initialize leaves.                    *)
(***************************************************************************)
EXTENDS Integers, FiniteSets

CONSTANTS
  Accounts,    \* addresses that sign calls
  Admin,       \* the account a contract is initialised with
  None,        \* an absent storage entry
  MaxLedger    \* bound on the ledgers closed in a behaviour

ASSUME LedgerAssumption ==
  /\ Admin \in Accounts /\ IsFiniteSet(Accounts)
  /\ None \notin Accounts /\ None \notin Int
  /\ MaxLedger \in Nat

VARIABLE sequence    \* the ledger clock

LedgerInit == sequence = 0

CloseLedger == sequence < MaxLedger /\ sequence' = sequence + 1

Clock == 0 .. MaxLedger

(***************************************************************************)
(* The index of an owner is a Vec; what the properties tell apart is how   *)
(* often it names an id, so it is a bag: index[a][i] occurrences.  push    *)
(* adds one, removing the first position drops one when there is one.      *)
(***************************************************************************)
Pushed(index, a, i) == [index EXCEPT ![a][i] = @ + 1]

Dropped(index, a, i) == [index EXCEPT ![a][i] = IF @ > 0 THEN @ - 1 ELSE @]

EmptyIndex(ids) == [a \in Accounts |-> [i \in ids |-> 0]]

\* The index names an id once, for the account that owns it, and nobody else.
IndexAgrees(index, owner) ==
  \A a \in Accounts : \A i \in DOMAIN owner :
    index[a][i] = IF owner[i] = a THEN 1 ELSE 0

\* The ids a contract has not given out yet have no owner.
FreshIdsUnowned(owner, next) ==
  \A i \in DOMAIN owner : i >= next => owner[i] = None
=============================================================================
