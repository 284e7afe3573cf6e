--------------------------- MODULE MultisigEscrow ---------------------------
(***************************************************************************)
(* market/src/multisig_escrow.rs: funds released to the payee by enough    *)
(* approvals before the expiry ledger, or returned to the payer after it.  *)
(* approvals is the set of accounts in the Vec and votes its length, which *)
(* the code compares with the threshold; likewise signers and slots.       *)
(* outflows counts the release and timeout events, for the property.       *)
(***************************************************************************)
EXTENDS Ledger

CONSTANTS
  MaxEscrows,     \* bound on the escrows created
  MaxSigners,     \* bound on the length of the signer list
  MaxTimeout      \* bound on timeout_ledgers

ASSUME MultisigEscrowAssumption ==
  MaxEscrows \in Nat /\ MaxSigners \in Nat /\ MaxTimeout \in Nat

VARIABLE escrows

EscrowIds == 0 .. MaxEscrows - 1     \* NextId starts at 1 in the code

MsEscrow ==
  [signers : SUBSET Accounts, threshold : 1 .. MaxSigners,
   approvals : SUBSET Accounts, votes : Nat, expires : Nat,
   status : {"Pending", "Released", "TimedOut"}, outflows : Nat]

EscrowsInit == escrows = [e \in EscrowIds |-> None]

create_ms_escrow(e, signers, slots, threshold, timeout) ==
  /\ escrows[e] = None /\ \A f \in EscrowIds : f < e => escrows[f] # None
  /\ signers # {} /\ Cardinality(signers) <= slots
  /\ threshold > 0 /\ threshold <= slots
  /\ escrows' = [escrows EXCEPT ![e] =
       [signers |-> signers, threshold |-> threshold, approvals |-> {},
        votes |-> 0, expires |-> sequence + timeout, status |-> "Pending",
        outflows |-> 0]]

\* A mutant of approve_ms_escrow: a signer may approve twice.
approve_ms_escrow_Repeats(e, signer) ==
  LET x == escrows[e]
      released == x.votes + 1 >= x.threshold
  IN  /\ x # None
      /\ x.status = "Pending"
      /\ sequence < x.expires
      /\ signer \in x.signers
      /\ escrows' = [escrows EXCEPT
           ![e].approvals = @ \cup {signer}, ![e].votes = @ + 1,
           ![e].status = IF released THEN "Released" ELSE @,
           ![e].outflows = IF released THEN @ + 1 ELSE @]

approve_ms_escrow(e, signer) ==
  LET x == escrows[e]
      released == x.votes + 1 >= x.threshold
  IN  /\ x # None
      /\ x.status = "Pending"
      /\ sequence < x.expires
      /\ signer \in x.signers
      /\ signer \notin x.approvals
      /\ escrows' = [escrows EXCEPT
           ![e].approvals = @ \cup {signer}, ![e].votes = @ + 1,
           ![e].status = IF released THEN "Released" ELSE @,
           ![e].outflows = IF released THEN @ + 1 ELSE @]

timeout_ms_escrow(e) ==
  LET x == escrows[e]
  IN  /\ x # None
      /\ x.status = "Pending"
      /\ sequence >= x.expires
      /\ escrows' = [escrows EXCEPT ![e].status = "TimedOut",
                                    ![e].outflows = @ + 1]

EscrowsNext ==
  \E e \in EscrowIds :
    \/ \E s \in SUBSET Accounts, n, k \in 1 .. MaxSigners, t \in 0 .. MaxTimeout :
         create_ms_escrow(e, s, n, k, t)
    \/ \E a \in Accounts : approve_ms_escrow(e, a)
    \/ timeout_ms_escrow(e)

EscrowsTypeOK == escrows \in [EscrowIds -> MsEscrow \cup {None}]

(* The money of an escrow leaves once: to the payee only with as many       *)
(* distinct approvals of its own signers as the threshold asks, back to the *)
(* payer only when there were too few.  The code compares the length of a   *)
(* Vec; distinctness rests on the check made when it was pushed.            *)
EscrowsPaidOnce ==
  \A e \in EscrowIds : escrows[e] # None =>
    LET x == escrows[e]
    IN  /\ x.outflows = IF x.status = "Pending" THEN 0 ELSE 1
        /\ x.approvals \subseteq x.signers
        /\ x.status = "Released" <=> Cardinality(x.approvals) >= x.threshold
=============================================================================
