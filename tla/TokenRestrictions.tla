-------------------------- MODULE TokenRestrictions -------------------------
(***************************************************************************)
(* contracts/token_restrictions: the lists, limits, approvals and override *)
(* that its two queries combine.  Amounts appear as the limit of a sender. *)
(***************************************************************************)
EXTENDS Ledger

CONSTANTS
  Limits,     \* limits and amounts
  MaxLog      \* bound on the override log

ASSUME TokenRestrictionsAssumption ==
  Limits \subseteq Nat \ {0} /\ None \notin Limits /\ MaxLog \in Nat

VARIABLE restrictions

RestrictionsInit ==
  restrictions = [whitelist |-> {}, blacklist |-> {}, pending |-> {},
                  limit |-> [a \in Accounts |-> None],     \* None: i128::MAX
                  override |-> FALSE, log |-> 0]

add_to_whitelist(a) ==
  restrictions' = [restrictions EXCEPT !.whitelist = @ \cup {a}]

remove_from_whitelist(a) ==
  restrictions' = [restrictions EXCEPT !.whitelist = @ \ {a}]

add_to_blacklist(a) ==
  restrictions' = [restrictions EXCEPT !.blacklist = @ \cup {a}]

remove_from_blacklist(a) ==
  restrictions' = [restrictions EXCEPT !.blacklist = @ \ {a}]

set_transfer_limit(a, x) ==
  /\ x > 0
  /\ restrictions' = [restrictions EXCEPT !.limit[a] = x]

\* Stores the flag TRUE under (from, to).
request_transfer_approval(from, to) ==
  restrictions' = [restrictions EXCEPT !.pending = @ \cup {<<from, to>>}]

approve_transfer(from, to) ==
  restrictions' = [restrictions EXCEPT !.pending = @ \ {<<from, to>>}]

\* activate_emergency_override and deactivate_emergency_override.
set_emergency_override(on) ==
  /\ restrictions.log < MaxLog
  /\ restrictions' = [restrictions EXCEPT !.override = on, !.log = @ + 1]

\* The stored flag, or TRUE when nothing is stored.
is_transfer_approved(from, to) ==
  LET flag == <<from, to>> \in restrictions.pending
  IN  IF flag THEN flag ELSE TRUE

can_transfer(from, to) ==
  \/ restrictions.override
  \/ /\ {from, to} \cap restrictions.blacklist = {}
     /\ from \in restrictions.whitelist <=> to \in restrictions.whitelist
     /\ is_transfer_approved(from, to)

can_transfer_amount(from, to, x) ==
  /\ can_transfer(from, to)
  /\ restrictions.limit[from] # None => x <= restrictions.limit[from]

RestrictionsNext ==
  \/ \E a \in Accounts :
       \/ add_to_whitelist(a) \/ remove_from_whitelist(a)
       \/ add_to_blacklist(a) \/ remove_from_blacklist(a)
       \/ \E x \in Limits : set_transfer_limit(a, x)
  \/ \E a, b \in Accounts : request_transfer_approval(a, b) \/ approve_transfer(a, b)
  \/ \E on \in BOOLEAN : set_emergency_override(on)

RestrictionsTypeOK ==
  restrictions \in [whitelist : SUBSET Accounts, blacklist : SUBSET Accounts,
                    pending : SUBSET (Accounts \X Accounts),
                    limit : [Accounts -> Limits \cup {None}],
                    override : BOOLEAN, log : 0 .. MaxLog]

(* A transfer whose approval was requested is blocked until the admin       *)
(* approves it, unless the emergency override is on, as the comment on      *)
(* request_transfer_approval says.  False of the code: the flag that marks  *)
(* the request is returned as the approval.                                 *)
RequestedTransfersWait ==
  \A a, b \in Accounts :
    <<a, b>> \in restrictions.pending /\ ~restrictions.override => ~can_transfer(a, b)
=============================================================================
