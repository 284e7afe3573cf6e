------------------------------- MODULE Grants -------------------------------
(***************************************************************************)
(* contracts/grants: applications, the admin's decision, and funds that    *)
(* are released milestone by milestone through the token contract.  Texts  *)
(* and amounts are left out: no entry point compares the amounts of the    *)
(* milestones with the amount of the grant.  sets and paid count, for the  *)
(* properties, the calls that wrote a milestone and those that paid it.    *)
(***************************************************************************)
EXTENDS Ledger, Functions

CONSTANTS
  MaxGrants,       \* bound on the applications
  MaxMilestones,   \* bound on the milestone count of a grant
  MaxSets,         \* bound on the times one milestone is written
  MaxReports       \* bound on the reports on one grant

ASSUME GrantsAssumption ==
  /\ MaxGrants \in Nat /\ MaxMilestones \in Nat
  /\ MaxSets \in Nat /\ MaxReports \in Nat

VARIABLE grants

GrantIds == 0 .. MaxGrants - 1     \* NextGrantId starts at 1 in the code
Milestones == 0 .. MaxMilestones - 1

GrantsInit ==
  grants = [next |-> 0,
            applicant |-> [g \in GrantIds |-> None],
            index |-> EmptyIndex(GrantIds),          \* ApplicantGrants
            status |-> [g \in GrantIds |-> "pending"],
            count |-> [g \in GrantIds |-> 0],        \* milestone_count
            milestone |-> [g \in GrantIds |-> [k \in Milestones |-> "unset"]],
            reports |-> [g \in GrantIds |-> 0],
            sets |-> [g \in GrantIds |-> [k \in Milestones |-> 0]],
            paid |-> [g \in GrantIds |-> [k \in Milestones |-> 0]]]

apply_for_grant(a, n) ==
  LET g == grants.next
  IN  /\ g < MaxGrants
      /\ n > 0
      /\ grants' = [grants EXCEPT !.next = g + 1, !.applicant[g] = a,
                                  !.index = Pushed(@, a, g), !.count[g] = n]

decide_grant(g, decision) ==
  /\ g < grants.next
  /\ grants.status[g] = "pending"
  /\ grants' = [grants EXCEPT !.status[g] = decision]

approve_grant(g) == decide_grant(g, "approved")
reject_grant(g) == decide_grant(g, "rejected")

\* Writes the whole record: a released milestone is unreleased again.
set_milestone(g, k) ==
  /\ g < grants.next
  /\ k < grants.count[g]
  /\ grants.sets[g][k] < MaxSets
  /\ grants' = [grants EXCEPT !.milestone[g][k] = "set", !.sets[g][k] = @ + 1]

\* A transfer that fails rolls the release back, so only success is a step.
release_milestone_funds(g, k) ==
  /\ g < grants.next
  /\ grants.status[g] = "approved"
  /\ grants.milestone[g][k] = "set"
  /\ grants' = [grants EXCEPT !.milestone[g][k] = "released",
                              !.paid[g][k] = @ + 1]

submit_report(a, g) ==
  /\ g < grants.next
  /\ grants.applicant[g] = a
  /\ grants.reports[g] < MaxReports
  /\ grants' = [grants EXCEPT !.reports[g] = @ + 1]

GrantsNext ==
  \/ \E a \in Accounts, n \in 1 .. MaxMilestones : apply_for_grant(a, n)
  \/ \E g \in GrantIds : approve_grant(g) \/ reject_grant(g)
  \/ \E g \in GrantIds, k \in Milestones :
       set_milestone(g, k) \/ release_milestone_funds(g, k)
  \/ \E g \in GrantIds, a \in Accounts : submit_report(a, g)

GrantsTypeOK ==
  grants \in [next : 0 .. MaxGrants,
              applicant : [GrantIds -> Accounts \cup {None}],
              index : [Accounts -> [GrantIds -> Nat]],
              status : [GrantIds -> {"pending", "approved", "rejected"}],
              count : [GrantIds -> 0 .. MaxMilestones],
              milestone : [GrantIds -> [Milestones -> {"unset", "set", "released"}]],
              reports : [GrantIds -> 0 .. MaxReports],
              sets : [GrantIds -> [Milestones -> 0 .. MaxSets]],
              paid : [GrantIds -> [Milestones -> 0 .. MaxSets]]]

(* A grant is in its applicant's list once and in nobody else's.  *)
GrantListsAgree ==
  /\ IndexAgrees(grants.index, grants.applicant)
  /\ FreshIdsUnowned(grants.applicant, grants.next)

(* Money leaves only for a milestone of an approved grant, and at most once *)
(* for each time the admin wrote that milestone.                            *)
GrantPaymentsAreDue ==
  \A g \in GrantIds, k \in Milestones :
    /\ grants.paid[g][k] > 0 => grants.status[g] = "approved" /\ k < grants.count[g]
    /\ grants.paid[g][k] + (IF grants.milestone[g][k] = "set" THEN 1 ELSE 0)
         <= grants.sets[g][k]

-----------------------------------------------------------------------------
(* contracts/scholarship_fund: donations, applications, the admin's        *)
(* decision and the distribution, which needs the balance at that moment   *)
(* and not at the approval.                                                *)

CONSTANTS
  Amounts,           \* amounts of a donation or an application
  MaxDonated,        \* bound on the donations of one donor
  MaxApplications    \* bound on the applications

ASSUME ScholarshipsAssumption ==
  /\ Amounts \subseteq Nat \ {0}
  /\ MaxDonated \in Nat /\ MaxApplications \in Nat

VARIABLE fund

Applications == 0 .. MaxApplications - 1

ScholarshipsInit ==
  fund = [balance |-> 0,                               \* FundBalance
          donated |-> [a \in Accounts |-> 0],          \* DonorTotal
          count |-> 0,                                 \* ApplicationCount
          amount |-> [i \in Applications |-> 0],       \* amount_requested
          status |-> [i \in Applications |-> "Pending"]]

donate(a, x) ==
  /\ fund.donated[a] + x <= MaxDonated
  /\ fund' = [fund EXCEPT !.balance = @ + x, !.donated[a] = @ + x]

apply_for_scholarship(x) ==
  /\ fund.count < MaxApplications
  /\ fund' = [fund EXCEPT !.count = @ + 1, !.amount[fund.count] = x]

decide_application(i, decision) ==
  /\ i < fund.count
  /\ fund.status[i] = "Pending"
  /\ fund' = [fund EXCEPT !.status[i] = decision]

approve_application(i) == decide_application(i, "Approved")
reject_application(i) == decide_application(i, "Rejected")

distribute_scholarship(i) ==
  /\ i < fund.count
  /\ fund.status[i] = "Approved"
  /\ fund.balance >= fund.amount[i]
  /\ fund' = [fund EXCEPT !.balance = @ - fund.amount[i],
                          !.status[i] = "Distributed"]

ScholarshipsNext ==
  \/ \E x \in Amounts :
       (\E a \in Accounts : donate(a, x)) \/ apply_for_scholarship(x)
  \/ \E i \in Applications :
       approve_application(i) \/ reject_application(i) \/ distribute_scholarship(i)

ScholarshipsTypeOK ==
  fund \in [balance : Int,
            donated : [Accounts -> 0 .. MaxDonated],
            count : 0 .. MaxApplications,
            amount : [Applications -> Amounts \cup {0}],
            status : [Applications -> {"Pending", "Approved", "Rejected", "Distributed"}]]

(* The balance is what was donated less the applications paid out, so no    *)
(* donation is spent twice and the fund never owes.                         *)
FundBalances ==
  LET Paid == {i \in Applications : fund.status[i] = "Distributed"}
  IN  /\ fund.balance >= 0
      /\ fund.balance + SumFunctionOnSet(fund.amount, Paid) = SumFunction(fund.donated)
=============================================================================
