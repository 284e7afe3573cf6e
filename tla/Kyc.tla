--------------------------------- MODULE Kyc ---------------------------------
(***************************************************************************)
(* KycService: a customer's record, the provider's sessions and documents, *)
(* and the provider's webhooks.  stellarPublicKey is unique, so two calls  *)
(* can meet only on one customer, and one is followed.  The provider is    *)
(* external: it decides each session once and reports what it decided as   *)
(* often and as late as it likes, by the customer's alias or by the        *)
(* session.                                                                *)
(***************************************************************************)
EXTENDS Requests

CONSTANT MaxSessions      \* bound on the provider's sessions

SessionIds == 1 .. MaxSessions
Statuses == {"pending", "approved", "rejected"}

KycCustomer == [status : Statuses, providerId : SessionIds \cup {None}]

ASSUME KycAssumption == MaxSessions \in Nat /\ None \notin KycCustomer

VARIABLES
  customer,   \* the row [status, providerId], or None
  provider    \* its sessions and verdicts, and the session saved last

kycVars == <<customer, provider>>

KycInit ==
  /\ customer = None
  /\ provider = [opened |-> 0, verdict |-> [s \in SessionIds |-> "pending"],
                 linked |-> None]

\* The row a handler builds: a new one or its copy, pending in either case.
Pending(row) ==
  IF row = None THEN [status |-> "pending", providerId |-> None]
  ELSE [row EXCEPT !.status = "pending"]

upsertCustomer(c) ==
  /\ Reads(c, "create_session", None, customer, Pending(customer))
  /\ UNCHANGED kycVars

\* The provider answers, or fails and leaves the copy as it is.
createSession(c, ok) ==
  /\ At(c, "create_session")
  /\ ok => provider.opened < MaxSessions
  /\ provider' = IF ok THEN [provider EXCEPT !.opened = @ + 1] ELSE provider
  /\ IF ok THEN Waits(c, "link", None, call[c].seen,
                      [call[c].arg EXCEPT !.providerId = provider.opened + 1])
     ELSE Moves(c, "save")
  /\ UNCHANGED <<customer, raced>>

\* The upload itself touches nothing that is read back here.
uploadDocument(c) ==
  /\ customer # None
  /\ Reads(c, "save", None, customer, Pending(customer))
  /\ UNCHANGED kycVars

\* byAlias: the payload names the customer, otherwise its session.
handleWebhook(c, s, byAlias) ==
  /\ s <= provider.opened
  /\ customer # None
  /\ byAlias \/ customer.providerId = s
  /\ Reads(c, "save", None, customer, [customer EXCEPT !.status = provider.verdict[s]])
  /\ UNCHANGED kycVars

\* repo.save of any handler; a second insert breaks the unique key and fails.
SaveCustomer(c) ==
  /\ At(c, "save") \/ At(c, "link")
  /\ IF call[c].seen = None /\ customer # None
     THEN UNCHANGED <<kycVars, raced>>
     ELSE /\ customer' = call[c].arg
          /\ provider' = IF At(c, "link")
                         THEN [provider EXCEPT !.linked = call[c].arg.providerId]
                         ELSE provider
          /\ Trusts(c, customer)
  /\ Ends(c)

ProviderDecides(s, verdict) ==
  /\ s <= provider.opened
  /\ provider.verdict[s] = "pending"
  /\ provider' = [provider EXCEPT !.verdict[s] = verdict]
  /\ UNCHANGED <<customer, reqVars>>

isApproved == customer # None /\ customer.status = "approved"

KycNext ==
  \/ \E c \in Calls :
       \/ upsertCustomer(c) \/ uploadDocument(c) \/ SaveCustomer(c)
       \/ \E ok \in BOOLEAN : createSession(c, ok)
       \/ \E s \in SessionIds, byAlias \in BOOLEAN : handleWebhook(c, s, byAlias)
       \/ Fails(c) /\ UNCHANGED kycVars
  \/ \E s \in SessionIds, verdict \in {"approved", "rejected"} : ProviderDecides(s, verdict)

KycTypeOK ==
  /\ customer \in KycCustomer \cup {None}
  /\ provider \in [opened : 0 .. MaxSessions, verdict : [SessionIds -> Statuses],
                   linked : SessionIds \cup {None}]

(* Nobody passes the KYC gate whom the provider has not approved in some    *)
(* session, not even when webhooks, uploads and new sessions overwrite one  *)
(* another.                                                                 *)
ApprovalIsTheProviders ==
  isApproved => \E s \in SessionIds : s <= provider.opened /\ provider.verdict[s] = "approved"

(* Without a race the record names the session that was saved last, so the  *)
(* webhooks of that session find it.                                        *)
SessionStaysLinked ==
  ~raced /\ customer # None => customer.providerId = provider.linked
=============================================================================
