--------------------------- MODULE SharedContract ---------------------------
(***************************************************************************)
(* contracts/shared: roles, authorised callers and their recorded calls,   *)
(* the public reentrancy flag, the emergency pause with its automatic end  *)
(* and the time-locked upgrade.  The admin never changes, so an action     *)
(* that needs it is simply one the admin signs.  Storage is split in the   *)
(* access part, shared, and the part that waits, upgrade: no entry point   *)
(* uses both.  plans keeps, for the property, every upgrade scheduled and, *)
(* at the end of its life, the ledger at which it was replaced, cancelled  *)
(* or executed.                                                            *)
(*                                                                         *)
(* multisig.rs: proposals that anybody creates and approves, and that      *)
(* execute with as many approvals as their own threshold, or the           *)
(* contract's when that is 0, before they expire.  approvals and votes are *)
(* the members and the length of the Vec; minimum keeps, for the property, *)
(* the threshold in force at the execution.                                *)
(***************************************************************************)
EXTENDS Ledger, Sequences

CONSTANTS
  Hashes,          \* WASM hashes, the zero hash excluded by schedule_upgrade
  MaxTimelock,     \* bound on timelock_ledgers
  MaxPause,        \* bound on auto_unpause_ledgers
  MaxPlans,        \* bound on the upgrades scheduled
  MaxCalls,        \* bound on the calls recorded
  MaxProposals,    \* bound on the proposals created
  MaxThreshold,    \* bound on a threshold
  MaxDelay         \* bound on timeout_ledgers

ASSUME SharedAssumption ==
  /\ None \notin Hashes /\ MaxTimelock \in Nat /\ MaxPause \in Nat
  /\ MaxPlans \in Nat /\ MaxCalls \in Nat

ASSUME MultisigAssumption ==
  MaxProposals \in Nat /\ MaxThreshold \in Nat \ {0} /\ MaxDelay \in Nat

VARIABLES
  shared,     \* roles, authorised callers, recorded calls, the lock
  upgrade,    \* the pause and the upgrades
  multisig    \* the proposals and the default threshold

Roles == {"Admin", "Instructor", "Student"}

SharedInit ==
  /\ shared = [role |-> [b \in Accounts |-> IF b = Admin THEN "Admin" ELSE "None"],
               authorized |-> {},         \* AuthorizedCallers
               calls |-> <<>>,            \* CrossContractCall
               locked |-> FALSE]          \* reentrancy flag
  /\ upgrade = [paused |-> FALSE, pauseTime |-> 0, autoUnpause |-> 0,
                pending |-> None,         \* PendingUpgrade
                history |-> <<>>,         \* UpgradeHistory
                plans |-> <<>>]

assign_role(a, r) == shared' = [shared EXCEPT !.role[a] = r]

\* The caller is added once; a second grant leaves the list as it is.
authorize_caller(target, caller) ==
  shared' = [shared EXCEPT !.authorized = @ \cup {<<target, caller>>}]

call_contract(caller, target) ==
  /\ <<target, caller>> \in shared.authorized
  /\ Len(shared.calls) < MaxCalls
  /\ shared' = [shared EXCEPT !.calls = Append(@, <<target, caller>>)]

acquire_reentrancy_lock ==
  /\ ~shared.locked
  /\ shared' = [shared EXCEPT !.locked = TRUE]

release_reentrancy_lock == shared' = [shared EXCEPT !.locked = FALSE]

\* The stored flag alone decides: a pause that is over still counts.
pause_contract(ledgers) ==
  /\ ~upgrade.paused
  /\ upgrade' = [upgrade EXCEPT !.paused = TRUE, !.pauseTime = sequence,
                              !.autoUnpause = sequence + ledgers]

unpause_contract ==
  /\ upgrade.paused
  /\ upgrade' = [upgrade EXCEPT !.paused = FALSE]

\* The last plan ends at the first of the events that can end it.
Ended(plans, at) ==
  [plans EXCEPT ![Len(plans)].until = IF @ = None THEN at ELSE @]

\* A mutant of schedule_upgrade: a pending upgrade keeps its timelock.
schedule_upgrade_KeepsClock(h, timelock) ==
  /\ timelock > 0
  /\ Len(upgrade.plans) < MaxPlans
  /\ LET after == IF upgrade.pending = None THEN sequence + timelock
                  ELSE upgrade.pending.after
         plan == [hash |-> h, at |-> sequence, after |-> after]
     IN  upgrade' = [upgrade EXCEPT
           !.pending = plan,
           !.plans = Append(IF upgrade.pending = None THEN @ ELSE Ended(@, sequence),
                            [hash |-> h, at |-> sequence, after |-> sequence + timelock,
                             until |-> None])]

\* Scheduling over a pending upgrade replaces it, timelock and all.
schedule_upgrade(h, timelock) ==
  /\ timelock > 0
  /\ Len(upgrade.plans) < MaxPlans
  /\ LET plan == [hash |-> h, at |-> sequence, after |-> sequence + timelock]
     IN  upgrade' = [upgrade EXCEPT
           !.pending = plan,
           !.plans = Append(IF upgrade.pending = None THEN @ ELSE Ended(@, sequence),
                            [hash |-> h, at |-> sequence, after |-> sequence + timelock,
                             until |-> None])]

execute_upgrade ==
  /\ upgrade.pending # None
  /\ sequence >= upgrade.pending.after
  /\ upgrade' = [upgrade EXCEPT
       !.history = Append(@, [hash |-> upgrade.pending.hash, at |-> sequence]),
       !.pending = None, !.plans = Ended(@, sequence)]

cancel_upgrade ==
  /\ upgrade.pending # None
  /\ upgrade' = [upgrade EXCEPT !.pending = None, !.plans = Ended(@, sequence)]

SharedNext ==
  \/ \E a, b \in Accounts :
       \/ \E r \in Roles : a = b /\ assign_role(a, r)
       \/ authorize_caller(a, b) \/ call_contract(a, b)
  \/ acquire_reentrancy_lock \/ release_reentrancy_lock

UpgradeNext ==
  \/ \E n \in 0 .. MaxPause : pause_contract(n)
  \/ unpause_contract
  \/ \E h \in Hashes, t \in 0 .. MaxTimelock : schedule_upgrade(h, t)
  \/ execute_upgrade \/ cancel_upgrade

Plan == [hash : Hashes, at : Clock, after : Nat]

SharedTypeOK ==
  /\ shared.role \in [Accounts -> Roles \cup {"None"}]
  /\ shared.authorized \subseteq Accounts \X Accounts
  /\ Len(shared.calls) <= MaxCalls
  /\ shared.locked \in BOOLEAN /\ upgrade.paused \in BOOLEAN
  /\ upgrade.pauseTime \in Clock /\ upgrade.autoUnpause \in Nat
  /\ upgrade.pending \in Plan \cup {None}
  /\ Len(upgrade.plans) <= MaxPlans /\ Len(upgrade.history) <= MaxPlans

(* Every upgrade executed was scheduled under that hash and stayed the      *)
(* pending one, neither cancelled nor replaced, for the whole of its own    *)
(* timelock, and no schedule is executed twice.                             *)
UpgradesWaited ==
  LET H == upgrade.history
      P == upgrade.plans
      Fulfils(p, h) == /\ p.hash = h.hash /\ p.until = h.at
                       /\ p.at < p.after /\ p.after <= h.at
  IN  \E plan \in [DOMAIN H -> DOMAIN P] :
        \A i \in DOMAIN H :
          /\ Fulfils(P[plan[i]], H[i])
          /\ \A j \in DOMAIN H : i < j => plan[i] < plan[j]

(* What is pending is the last schedule, under its own timelock.  *)
PendingIsLastPlan ==
  upgrade.pending # None =>
    LET p == upgrade.plans[Len(upgrade.plans)]
    IN  /\ p.until = None
        /\ upgrade.pending = [hash |-> p.hash, at |-> p.at, after |-> p.after]

-----------------------------------------------------------------------------
(* multisig.rs                                                             *)

MsIds == 0 .. MaxProposals - 1     \* NextProposalId starts at 1 in the code

MultiSigProposal ==
  [threshold : 0 .. MaxThreshold, expires : Nat, approvals : SUBSET Accounts,
   votes : Nat, executed : BOOLEAN, executedAt : Clock \cup {None}, minimum : Nat]

MultisigInit == multisig = [threshold |-> 1, proposals |-> [p \in MsIds |-> None]]

create_proposal(p, threshold, timeout) ==
  /\ multisig.proposals[p] = None
  /\ \A q \in MsIds : q < p => multisig.proposals[q] # None
  /\ multisig' = [multisig EXCEPT !.proposals[p] =
       [threshold |-> threshold, expires |-> sequence + timeout, approvals |-> {},
        votes |-> 0, executed |-> FALSE, executedAt |-> None, minimum |-> 0]]

\* Nobody checks that the approver is one of the contract's signers.
approve_proposal(p, approver) ==
  LET x == multisig.proposals[p]
  IN  /\ x # None
      /\ ~x.executed
      /\ sequence < x.expires
      /\ approver \notin x.approvals
      /\ multisig' = [multisig EXCEPT !.proposals[p].approvals = @ \cup {approver},
                                      !.proposals[p].votes = @ + 1]

set_threshold(n) ==
  /\ n > 0
  /\ multisig' = [multisig EXCEPT !.threshold = n]

\* An expired proposal, or one with too few approvals, returns false.
execute_proposal(p) ==
  LET x == multisig.proposals[p]
      effective == IF x.threshold > 0 THEN x.threshold ELSE multisig.threshold
  IN  /\ x # None
      /\ ~x.executed
      /\ sequence < x.expires
      /\ x.votes >= effective
      /\ multisig' = [multisig EXCEPT !.proposals[p].executed = TRUE,
                                      !.proposals[p].executedAt = sequence,
                                      !.proposals[p].minimum = effective]

MultisigNext ==
  \/ \E n \in 0 .. MaxThreshold : set_threshold(n)
  \/ \E p \in MsIds :
       \/ \E n \in 0 .. MaxThreshold, t \in 0 .. MaxDelay : create_proposal(p, n, t)
       \/ \E a \in Accounts : approve_proposal(p, a)
       \/ execute_proposal(p)

MultisigTypeOK ==
  /\ multisig.threshold \in 1 .. MaxThreshold
  /\ multisig.proposals \in [MsIds -> MultiSigProposal \cup {None}]

(* An executed proposal had the approval of that many different accounts    *)
(* before it expired, and the set of approvals is closed from then on.      *)
ExecutionsWereApproved ==
  \A p \in MsIds : multisig.proposals[p] # None =>
    LET x == multisig.proposals[p]
    IN  /\ x.votes = Cardinality(x.approvals)
        /\ x.executed =>
             /\ Cardinality(x.approvals) >= x.minimum /\ x.minimum >= 1
             /\ x.threshold > 0 => x.minimum = x.threshold
             /\ x.executedAt < x.expires
=============================================================================
