------------------------------ MODULE Disputes ------------------------------
(***************************************************************************)
(* contracts/dispute: a claim on an amount goes from Open through Evidence *)
(* (once, by a party, and not necessarily) and Decision to Settled, the    *)
(* last two by whoever is the arbiter at that moment.  payouts keeps, for  *)
(* the property, what every settle call returned.                          *)
(***************************************************************************)
EXTENDS Ledger

CONSTANTS
  Claims,         \* amounts in dispute
  MaxDisputes     \* bound on the disputes opened

ASSUME DisputesAssumption == Claims \subseteq Nat /\ MaxDisputes \in Nat

VARIABLE disputes

DisputeIds == 0 .. MaxDisputes - 1     \* NextId starts at 1 in the code
Outcomes == {"FavourClaimant", "FavourRespondent", "Split"}

DisputesInit ==
  disputes = [arbiter |-> Admin, next |-> 0,
              parties |-> [d \in DisputeIds |-> {}],
              amount |-> [d \in DisputeIds |-> 0],
              status |-> [d \in DisputeIds |-> "Open"],
              outcome |-> [d \in DisputeIds |-> "None"],
              payouts |-> [d \in DisputeIds |-> {}]]

set_arbiter(a) == disputes' = [disputes EXCEPT !.arbiter = a]

open_dispute(claimant, respondent, x) ==
  LET d == disputes.next
  IN  /\ d < MaxDisputes
      /\ x > 0
      /\ disputes' = [disputes EXCEPT !.next = d + 1, !.amount[d] = x,
                                      !.parties[d] = {claimant, respondent}]

submit_evidence(caller, d) ==
  /\ d < disputes.next
  /\ disputes.status[d] = "Open"
  /\ caller \in disputes.parties[d]
  /\ disputes' = [disputes EXCEPT !.status[d] = "Evidence"]

record_decision(arbiter, d, o) ==
  /\ arbiter = disputes.arbiter
  /\ d < disputes.next
  /\ disputes.status[d] \in {"Open", "Evidence"}
  /\ disputes' = [disputes EXCEPT !.status[d] = "Decision", !.outcome[d] = o]

\* What settle pays to <<claimant, respondent>>.
Shares(x, o) ==
  CASE o = "FavourClaimant"   -> <<x, 0>>
    [] o = "FavourRespondent" -> <<0, x>>
    [] o = "Split"            -> <<x \div 2, x - (x \div 2)>>
    [] o = "None"             -> <<0, 0>>

settle(arbiter, d) ==
  /\ arbiter = disputes.arbiter
  /\ d < disputes.next
  /\ disputes.status[d] = "Decision"
  /\ disputes' = [disputes EXCEPT
       !.status[d] = "Settled",
       !.payouts[d] = @ \cup {<<sequence, Shares(disputes.amount[d], disputes.outcome[d])>>}]

DisputesNext ==
  \/ \E a \in Accounts : set_arbiter(a)
  \/ \E a, b \in Accounts, x \in Claims : open_dispute(a, b, x)
  \/ \E a \in Accounts, d \in DisputeIds :
       \/ submit_evidence(a, d) \/ settle(a, d)
       \/ \E o \in Outcomes : record_decision(a, d, o)

DisputesTypeOK ==
  /\ disputes.arbiter \in Accounts
  /\ disputes.next \in 0 .. MaxDisputes
  /\ disputes.parties \in [DisputeIds -> SUBSET Accounts]
  /\ disputes.amount \in [DisputeIds -> Claims \cup {0}]
  /\ disputes.status \in [DisputeIds -> {"Open", "Evidence", "Decision", "Settled"}]
  /\ disputes.outcome \in [DisputeIds -> Outcomes \cup {"None"}]

(* A dispute is paid once, when it settles and not before, the two shares   *)
(* are exactly the amount whatever the rounding, and they follow the        *)
(* outcome on record.                                                       *)
DisputesPaidOnce ==
  \A d \in DisputeIds :
    IF disputes.status[d] # "Settled" THEN disputes.payouts[d] = {}
    ELSE /\ Cardinality(disputes.payouts[d]) = 1
         /\ \A p \in disputes.payouts[d] :
              /\ p[2][1] + p[2][2] = disputes.amount[d]
              /\ disputes.outcome[d] # "None"
              /\ disputes.outcome[d] = "FavourClaimant" => p[2][2] = 0
              /\ disputes.outcome[d] = "FavourRespondent" => p[2][1] = 0
=============================================================================
