------------------------------- MODULE Payments -------------------------------
(***************************************************************************)
(* PaymentsService: courses bought through a Stripe checkout session or    *)
(* with a Stellar transaction, and subscriptions billed by Stripe.  Stripe *)
(* reports by events, which it sends again until they are answered, out of *)
(* order and while an earlier delivery is still being handled.             *)
(*                                                                         *)
(* Requests and deliveries are calls; the code between two awaits is one   *)
(* action.  A row of the payments table doubles as the marker that its     *)
(* event or transaction was handled: idempotencyKey is unique.             *)
(***************************************************************************)
EXTENDS Naturals

CONSTANTS
    Learners, Courses,
    Sessions,       \* checkout sessions Stripe may open
    Transactions,   \* Stellar transactions named in requests, by anybody and for any course
    Successful,     \* those that the ledger applied
    Subscriptions,  \* subscriptions Stripe may open
    Invoices,       \* invoices Stripe may draw up
    Anonymous,      \* invoices whose metadata name no user
    MaxCalls,       \* bound: requests and deliveries in a behaviour
    MaxFaults,      \* bound: failed calls of the database or of Stripe, crashes
    None

ASSUME PaymentsAssumption ==
    /\ Anonymous \subseteq Invoices /\ Successful \subseteq Transactions
    /\ MaxCalls \in Nat /\ MaxFaults \in Nat
    /\ None \notin Learners \cup Courses \cup Sessions \cup Subscriptions \cup Invoices

VARIABLES
    payments,  \* the payments table
    enrolled,  \* the enrollments table
    invoices,  \* the invoices table: all its rows are PAID
    status,    \* the subscriptions table: the status of a row, None without one
    stripe,    \* Stripe's side: who opened a session or a subscription, what
               \* each invoice bills, and the events it sends
    call,      \* the calls
    granted,   \* history: what grantEnrollment brought about, and for which payment
    lost,      \* history: payments during whose grant something failed
    answered,  \* history: events some delivery of which was answered 200
    faults     \* faults so far

vars == <<payments, enrolled, invoices, status, stripe, call,
          granted, lost, answered, faults>>

Calls == 1 .. MaxCalls

Events == [type : {"checkout.session.completed"}, of : Sessions]
          \cup [type : {"invoice.paid", "invoice.payment_failed"}, of : Invoices]
          \cup [type : {"customer.subscription.deleted"}, of : Subscriptions]

\* The values of idempotencyKey.
Keys == Sessions \cup Transactions \cup Events

Buyer == [learner : Learners, course : Courses \cup {None}]

Payment == [key : Keys, session : Sessions \cup {None}, status : {"pending", "completed"},
            learner : Learners \cup {None}, course : Courses \cup {None}]

Statuses == {"active", "past_due", "cancelled"}

\* Stripe's ids and event ids, and the ids the code makes of transactions, carry
\* different prefixes.
ASSUME KeysAssumption ==
    /\ Sessions \cap (Subscriptions \cup Transactions \cup Invoices) = {}
    /\ Events \cap (Sessions \cup Subscriptions \cup Transactions) = {}
    /\ None \notin Transactions \cup Events \cup Buyer \cup Statuses

Steps == {"idle", "finding", "opening", "inserting",               \* checkout
          "checking", "completing", "granting", "enrolling",       \* and its event
          "invoicing", "billing", "renewing", "marking", "updating",  \* the others
          "looking", "verifying", "recording",                     \* Stellar
          "subscribing", "storing", "seeking", "cancelling", "closing",
          "answered", "failed"}

\* learner, course: for whom; of: the event, transaction, session or subscription
\* at hand; found: an invoice row was loaded.
Call == [at : Steps, learner : Learners \cup {None}, course : Courses \cup {None},
         of : Keys \cup Subscriptions \cup {None}, found : BOOLEAN]

Idle == [at |-> "idle", learner |-> None, course |-> None, of |-> None,
         found |-> FALSE]

TypeOK ==
    /\ payments \subseteq Payment
    /\ enrolled \subseteq Learners \X Courses
    /\ invoices \subseteq Invoices
    /\ status \in [Subscriptions -> Statuses \cup {None}]
    /\ stripe \in [buyer : [Sessions \cup Subscriptions -> Buyer \cup {None}],
                   bills : [Invoices -> Subscriptions \cup {None}],
                   sent  : SUBSET Events]
    /\ call \in [Calls -> Call]
    /\ granted \subseteq [key : Keys, learner : Learners, course : Courses]
    /\ lost \subseteq Keys
    /\ answered \subseteq Events
    /\ faults \in 0 .. MaxFaults

Init ==
    /\ payments = {}
    /\ enrolled = {}
    /\ invoices = {}
    /\ status = [u \in Subscriptions |-> None]
    /\ stripe = [buyer |-> [x \in Sessions \cup Subscriptions |-> None],
                 bills |-> [i \in Invoices |-> None], sent |-> {}]
    /\ call = [j \in Calls |-> Idle]
    /\ granted = {} /\ lost = {} /\ answered = {}
    /\ faults = 0

-----------------------------------------------------------------------------
(* Helpers.                                                                *)

tables == <<payments, enrolled, invoices, status>>
history == <<granted, lost, answered>>

At(j, step) == call[j].at = step
GoTo(j, step) == call' = [call EXCEPT ![j].at = step]

\* Calls are numbered in the order they start.
Starts(j, c) ==
    /\ At(j, "idle")
    /\ \A i \in 1 .. (j - 1) : ~At(i, "idle")
    /\ call' = [call EXCEPT ![j] = c]

Settled(j) == call[j].at \in {"answered", "failed"}

\* A delivery answered 200 is one Stripe need not repeat.
Answer(j) ==
    /\ GoTo(j, "answered")
    /\ answered' = IF call[j].of \in Events THEN answered \cup {call[j].of} ELSE answered

HasKey(k) == \E p \in payments : p.key = k

Insert(p) == ~HasKey(p.key) /\ payments' = payments \cup {p}

\* What Stripe keeps, with some fields changed.
Opens(x, b) == stripe' = [stripe EXCEPT !.buyer[x] = b]
Sends(e) == stripe' = [stripe EXCEPT !.sent = @ \cup {e}]

Event(type, x) == [type |-> type, of |-> x]

-----------------------------------------------------------------------------
(* createCheckoutSession.                                                  *)

StartCheckout(j) ==
    /\ \E l \in Learners, c \in Courses :
         Starts(j, [Idle EXCEPT !.at = "finding", !.learner = l, !.course = c])
    /\ UNCHANGED <<tables, stripe, history, faults>>

\* One pending payment per learner and course, as far as this can be seen here.
FindPending(j) ==
    /\ At(j, "finding")
    /\ GoTo(j, IF \E p \in payments : /\ p.status = "pending" /\ p.learner = call[j].learner
                                      /\ p.course = call[j].course
               THEN "failed" ELSE "opening")
    /\ UNCHANGED <<tables, stripe, history, faults>>

OpenSession(j) ==
    /\ At(j, "opening")
    /\ \E s \in Sessions :
         /\ stripe.buyer[s] = None
         /\ Opens(s, [learner |-> call[j].learner, course |-> call[j].course])
         /\ call' = [call EXCEPT ![j].at = "inserting", ![j].of = s]
    /\ UNCHANGED <<tables, history, faults>>

\* The session's address is answered only once its row is stored.
InsertPending(j) ==
    /\ At(j, "inserting")
    /\ Insert([key |-> call[j].of, session |-> call[j].of, status |-> "pending",
               learner |-> call[j].learner, course |-> call[j].course])
    /\ GoTo(j, "answered")
    /\ UNCHANGED <<enrolled, invoices, status, stripe, history, faults>>

-----------------------------------------------------------------------------
(* handleStripeWebhook.                                                    *)

\* A delivery, the first or another one; a session's metadata name its buyer.
Deliver(j, e) ==
    /\ e \in stripe.sent
    /\ LET b == IF e.of \in Sessions THEN stripe.buyer[e.of]
                ELSE [learner |-> None, course |-> None]
       IN  Starts(j, [Idle EXCEPT !.at = "checking", !.of = e, !.learner = b.learner, !.course = b.course])
    /\ UNCHANGED <<tables, stripe, history, faults>>

Handler(e) ==
    CASE e.type = "checkout.session.completed" -> "completing"
      [] e.type = "invoice.paid"               -> "invoicing"
      [] OTHER                                 -> "updating"

\* Mutation: the marker is written with the check, before the event is handled.
CheckMarker_MarksFirst(j) ==
    /\ At(j, "checking")
    /\ LET e == call[j].of
       IN  \/ /\ HasKey(e)
              /\ Answer(j)
              /\ UNCHANGED <<payments, granted, lost>>
           \/ /\ Insert([key |-> e, session |-> None, status |-> "completed",
                         learner |-> None, course |-> None])
              /\ GoTo(j, Handler(e))
              /\ UNCHANGED history
    /\ UNCHANGED <<enrolled, invoices, status, stripe, faults>>

\* Events with a marker are skipped; so are paid invoices that name no user.
CheckMarker(j) ==
    /\ At(j, "checking")
    /\ LET e == call[j].of
       IN  IF HasKey(e) \/ (e.type = "invoice.paid" /\ e.of \in Anonymous)
           THEN Answer(j) /\ UNCHANGED <<granted, lost>>
           ELSE GoTo(j, Handler(e)) /\ UNCHANGED history
    /\ UNCHANGED <<tables, stripe, faults>>

\* Mutation: the enrollment is granted and the payment left pending.
CompletePayment_Pending(j) ==
    /\ At(j, "completing")
    /\ GoTo(j, "granting")
    /\ UNCHANGED <<tables, stripe, history, faults>>

\* onCheckoutCompleted: the payment is completed and marked in one update.
CompletePayment(j) ==
    /\ At(j, "completing")
    /\ payments' = {IF p.session = call[j].of.of
                    THEN [p EXCEPT !.status = "completed", !.key = call[j].of] ELSE p :
                       p \in payments}
    /\ GoTo(j, "granting")
    /\ UNCHANGED <<enrolled, invoices, status, stripe, history, faults>>

\* onInvoicePaid: the row of the invoice, if there is one, is loaded.
FindInvoice(j) ==
    /\ At(j, "invoicing")
    /\ call' = [call EXCEPT ![j].at = "billing", ![j].found = call[j].of.of \in invoices]
    /\ UNCHANGED <<tables, stripe, history, faults>>

\* It is saved as PAID; stripeInvoiceId is unique, so a second insert throws.
SaveInvoice(j) ==
    /\ At(j, "billing")
    /\ LET i == call[j].of.of
       IN  \/ /\ call[j].found \/ i \notin invoices
              /\ invoices' = invoices \cup {i}
              /\ GoTo(j, "renewing")
           \/ /\ ~call[j].found /\ i \in invoices
              /\ GoTo(j, "failed")
              /\ UNCHANGED invoices
    /\ UNCHANGED <<payments, enrolled, status, stripe, history, faults>>

\* An update touches the row of a subscription if there is one yet.
SetStatus(u, s) == status' = [status EXCEPT ![u] = IF @ = None THEN None ELSE s]

Renew(j) ==
    /\ At(j, "renewing")
    /\ SetStatus(stripe.bills[call[j].of.of], "active")
    /\ GoTo(j, "marking")
    /\ UNCHANGED <<payments, enrolled, invoices, stripe, history, faults>>

\* Mutation: the marker is written without the learner it stands for.
Mark_NoLearner(j) ==
    /\ At(j, "marking")
    /\ LET e == call[j].of
       IN  \/ /\ ~HasKey(e)
              /\ payments' = payments \cup {[key |-> e, session |-> None,
                                           status |-> "completed", course |-> None]}
              /\ Answer(j)
              /\ UNCHANGED <<granted, lost>>
           \/ /\ HasKey(e)
              /\ GoTo(j, "failed")
              /\ UNCHANGED <<payments, history>>
    /\ UNCHANGED <<enrolled, invoices, status, stripe, faults>>

\* The marker comes last.
Mark(j) ==
    /\ At(j, "marking")
    /\ LET e == call[j].of
           u == stripe.bills[e.of]
       IN  \/ /\ Insert([key |-> e, session |-> None, status |-> "completed",
                         learner |-> stripe.buyer[u].learner, course |-> None])
              /\ Answer(j)
              /\ UNCHANGED <<granted, lost>>
           \/ /\ HasKey(e)
              /\ GoTo(j, "failed")
              /\ UNCHANGED <<payments, history>>
    /\ UNCHANGED <<enrolled, invoices, status, stripe, faults>>

\* onInvoicePaymentFailed and onSubscriptionCancelled leave no marker.
UpdateSubscription(j) ==
    /\ At(j, "updating")
    /\ LET e == call[j].of
       IN  IF e.type = "invoice.payment_failed"
           THEN SetStatus(stripe.bills[e.of], "past_due") ELSE SetStatus(e.of, "cancelled")
    /\ Answer(j)
    /\ UNCHANGED <<payments, enrolled, invoices, stripe, granted, lost, faults>>

-----------------------------------------------------------------------------
(* verifyAndRecordStellarPayment.                                          *)

StartVerify(j) ==
    /\ \E l \in Learners, c \in Courses, t \in Transactions :
         Starts(j, [Idle EXCEPT !.at = "looking", !.learner = l, !.course = c, !.of = t])
    /\ UNCHANGED <<tables, stripe, history, faults>>

\* A transaction recorded for anyone and any course is answered as it is.
FindRecorded(j) ==
    /\ At(j, "looking")
    /\ GoTo(j, IF HasKey(call[j].of) THEN "answered" ELSE "verifying")
    /\ UNCHANGED <<tables, stripe, history, faults>>

\* Mutation: the answer is awaited and not looked at.
Verify_Unread(j) ==
    /\ At(j, "verifying")
    /\ GoTo(j, "recording")
    /\ UNCHANGED <<tables, stripe, history, faults>>

\* Only the success of the transaction is looked at: not its memo, payer or amount.
Verify(j) ==
    /\ At(j, "verifying")
    /\ GoTo(j, IF call[j].of \in Successful THEN "recording" ELSE "failed")
    /\ UNCHANGED <<tables, stripe, history, faults>>

\* Mutation: idempotencyKey is not unique.
RecordStellar_Anyway(j) ==
    /\ At(j, "recording")
    /\ payments' = payments \cup {[key |-> call[j].of, session |-> None,
                                 status |-> "completed", learner |-> call[j].learner,
                                 course |-> call[j].course]}
    /\ GoTo(j, "granting")
    /\ UNCHANGED <<enrolled, invoices, status, stripe, history, faults>>

\* Mutation: an answer for a payment that is there is taken for a grant.
RecordStellar_NoGrant(j) ==
    /\ At(j, "recording")
    /\ \/ /\ Insert([key |-> call[j].of, session |-> None, status |-> "completed",
                     learner |-> call[j].learner, course |-> call[j].course])
          /\ GoTo(j, "answered")
       \/ /\ HasKey(call[j].of)
          /\ GoTo(j, "failed")
          /\ UNCHANGED payments
    /\ UNCHANGED <<enrolled, invoices, status, stripe, history, faults>>

RecordStellar(j) ==
    /\ At(j, "recording")
    /\ \/ /\ Insert([key |-> call[j].of, session |-> None, status |-> "completed",
                     learner |-> call[j].learner, course |-> call[j].course])
          /\ GoTo(j, "granting")
       \/ /\ HasKey(call[j].of)
          /\ GoTo(j, "failed")
          /\ UNCHANGED payments
    /\ UNCHANGED <<enrolled, invoices, status, stripe, history, faults>>

-----------------------------------------------------------------------------
(* grantEnrollment.                                                        *)

Grants(j) ==
    granted' = granted \cup {[key |-> call[j].of, learner |-> call[j].learner,
                              course |-> call[j].course]}

FindEnrollment(j) ==
    /\ At(j, "granting")
    /\ \/ /\ <<call[j].learner, call[j].course>> \in enrolled
          /\ Grants(j)
          /\ Answer(j)
          /\ lost' = lost
       \/ /\ <<call[j].learner, call[j].course>> \notin enrolled
          /\ GoTo(j, "enrolling")
          /\ UNCHANGED history
    /\ UNCHANGED <<tables, stripe, faults>>

\* An insert that meets the row of another call throws, and is forgiven.
Enroll(j) ==
    /\ At(j, "enrolling")
    /\ enrolled' = enrolled \cup {<<call[j].learner, call[j].course>>}
    /\ Grants(j)
    /\ Answer(j)
    /\ UNCHANGED <<payments, invoices, status, stripe, lost, faults>>

\* EnrollmentsService.enroll and unenroll, which know nothing of payments.
ChangeEnrollment(p) ==
    /\ enrolled' = enrolled \cup {p} \/ enrolled' = enrolled \ {p}
    /\ UNCHANGED <<payments, invoices, status, stripe, call, history, faults>>

-----------------------------------------------------------------------------
(* createSubscription and cancelSubscription.                              *)

StartSubscribe(j) ==
    /\ \E l \in Learners : Starts(j, [Idle EXCEPT !.at = "subscribing", !.learner = l])
    /\ UNCHANGED <<tables, stripe, history, faults>>

Fault == faults < MaxFaults /\ faults' = faults + 1

\* Stripe opens the subscription, and may bill it before its row is stored.
OpenSubscription(j) ==
    /\ At(j, "subscribing")
    /\ \E u \in Subscriptions :
         /\ stripe.buyer[u] = None
         /\ Opens(u, [learner |-> call[j].learner, course |-> None])
         /\ \/ call' = [call EXCEPT ![j].at = "storing", ![j].of = u] /\ UNCHANGED faults
            \/ GoTo(j, "failed") /\ Fault      \* the reply is lost
    /\ UNCHANGED <<tables, history>>

StoreSubscription(j) ==
    /\ At(j, "storing")
    /\ status' = [status EXCEPT ![call[j].of] = "active"]
    /\ GoTo(j, "answered")
    /\ UNCHANGED <<payments, enrolled, invoices, stripe, history, faults>>

StartCancel(j) ==
    /\ \E l \in Learners : Starts(j, [Idle EXCEPT !.at = "seeking", !.learner = l])
    /\ UNCHANGED <<tables, stripe, history, faults>>

FindActive(j) ==
    LET active == {u \in Subscriptions : /\ status[u] = "active"
                                         /\ stripe.buyer[u].learner = call[j].learner}
    IN  /\ At(j, "seeking")
        /\ \/ \E u \in active : call' = [call EXCEPT ![j].at = "cancelling", ![j].of = u]
           \/ active = {} /\ GoTo(j, "failed")
        /\ UNCHANGED <<tables, stripe, history, faults>>

\* Mutation: the row is closed without asking Stripe.
CancelAtStripe_Skipped(j) ==
    /\ At(j, "cancelling")
    /\ GoTo(j, "closing")
    /\ UNCHANGED <<tables, stripe, history, faults>>

\* Stripe cancels, once.
CancelAtStripe(j) ==
    LET e == Event("customer.subscription.deleted", call[j].of)
    IN  /\ At(j, "cancelling")
        /\ \/ /\ e \notin stripe.sent
              /\ Sends(e)
              /\ \/ GoTo(j, "closing") /\ UNCHANGED faults
                 \/ GoTo(j, "failed") /\ Fault
           \/ /\ e \in stripe.sent
              /\ GoTo(j, "failed")
              /\ UNCHANGED <<stripe, faults>>
        /\ UNCHANGED <<tables, history>>

SaveCancelled(j) ==
    /\ At(j, "closing")
    /\ SetStatus(call[j].of, "cancelled")
    /\ GoTo(j, "answered")
    /\ UNCHANGED <<payments, enrolled, invoices, stripe, history, faults>>

-----------------------------------------------------------------------------
(* Stripe and faults.                                                      *)

\* Only the buyer who was answered a session's address can pay there.
CustomerPays(s) ==
    /\ \E j \in Calls : At(j, "answered") /\ call[j].of = s
    /\ Sends(Event("checkout.session.completed", s))
    /\ UNCHANGED <<tables, call, history, faults>>

\* An invoice is drawn up and paid, or its payment fails and may succeed later.
Bill(i, u) ==
    /\ stripe.buyer[u] # None /\ stripe.bills[i] \in {None, u}
    /\ Event("invoice.paid", i) \notin stripe.sent
    /\ \E type \in {"invoice.paid", "invoice.payment_failed"} :
         stripe' = [stripe EXCEPT !.bills[i] = u, !.sent = @ \cup {Event(type, i)}]
    /\ UNCHANGED <<tables, call, history, faults>>

\* Stripe ends a subscription, for want of payment or by an operator.
EndSubscription(u) ==
    /\ stripe.buyer[u] # None
    /\ Sends(Event("customer.subscription.deleted", u))
    /\ UNCHANGED <<tables, call, history, faults>>

\* Payments whose grant is under way in the calls S.
InGrant(S) == {call[j].of : j \in {i \in S : call[i].at \in {"granting", "enrolling"}}}

\* A call of the database or of Stripe throws, and with it the request; only the
\* insert of an enrollment is caught.
Throw(j) ==
    /\ Fault
    /\ ~At(j, "idle") /\ ~Settled(j)
    /\ IF At(j, "enrolling") THEN Answer(j) ELSE GoTo(j, "failed") /\ UNCHANGED answered
    /\ lost' = lost \cup InGrant({j})
    /\ UNCHANGED <<tables, stripe, granted>>

Crash ==
    /\ Fault
    /\ call' = [j \in Calls |-> IF At(j, "idle") \/ Settled(j) THEN call[j]
                                ELSE [call[j] EXCEPT !.at = "failed"]]
    /\ lost' = lost \cup InGrant(Calls)
    /\ UNCHANGED <<tables, stripe, granted, answered>>

Arrive(j) ==
    \/ StartCheckout(j) \/ StartVerify(j) \/ StartSubscribe(j) \/ StartCancel(j)
    \/ \E e \in stripe.sent : Deliver(j, e)

Step(j) ==
    \/ FindPending(j) \/ OpenSession(j) \/ InsertPending(j)
    \/ CheckMarker(j) \/ CompletePayment(j)
    \/ FindInvoice(j) \/ SaveInvoice(j) \/ Renew(j) \/ Mark(j) \/ UpdateSubscription(j)
    \/ FindRecorded(j) \/ Verify(j) \/ RecordStellar(j)
    \/ FindEnrollment(j) \/ Enroll(j)
    \/ OpenSubscription(j) \/ StoreSubscription(j)
    \/ FindActive(j) \/ CancelAtStripe(j) \/ SaveCancelled(j)

Next ==
    \/ \E j \in Calls : Arrive(j) \/ Step(j) \/ Throw(j)
    \/ \E p \in Learners \X Courses : ChangeEnrollment(p)
    \/ \E s \in Sessions : CustomerPays(s)
    \/ \E i \in Invoices, u \in Subscriptions : Bill(i, u)
    \/ \E u \in Subscriptions : EndSubscription(u)
    \/ Crash

Spec == Init /\ [][Next]_vars

-----------------------------------------------------------------------------
(* Properties.                                                             *)

\* One Stellar transaction, or one Stripe event, brings about the enrollment of
\* one learner in one course, however many requests and deliveries name it at the
\* same time: both pass the check for an earlier payment (lines 152 and 191), and
\* only the unique key of the row, written before the grant, tells them apart.
PaymentFundsOneEnrollment ==
    \A g, h \in granted : g.key = h.key => g = h

\* Nobody is enrolled on the strength of a payment that is not there: when
\* grantEnrollment has run there is a completed row for this learner and course.
\* For a checkout it is theirs: Stripe has reported the payment of a session that
\* this learner opened for this course, whatever other sessions, retries and late
\* events there are.  For a Stellar payment the transaction was applied, and that
\* is all: whoever names it first is enrolled, in the course they name (line 200).
GrantsWerePaid ==
    \A g \in granted :
      /\ \E p \in payments : /\ p.key = g.key /\ p.status = "completed"
                             /\ p.learner = g.learner /\ p.course = g.course
      /\ IF g.key \in Events
         THEN /\ g.key \in stripe.sent /\ g.key.type = "checkout.session.completed"
              /\ stripe.buyer[g.key.of] = [learner |-> g.learner, course |-> g.course]
         ELSE g.key \in Successful

\* A completed payment for a course ends in the enrollment unless a fault hit the
\* grant itself: that the marker is written first (lines 282-291) never makes a
\* redelivery or an overlapping delivery swallow the enrollment.
OnlyFaultsLoseGrants ==
    \A p \in payments :
      p.status = "completed" /\ p.course # None =>
        \/ \E g \in granted : g.key = p.key
        \/ p.key \in lost
        \/ p.key \in InGrant(Calls)

\* A paid invoice whose event was answered is in the tables, whatever was
\* redelivered, lost or overlapped: its marker comes after the effects, so a
\* delivery that broke off is done again.
AnsweredInvoicesAreRecorded ==
    \A i \in Invoices \ Anonymous :
      LET e == Event("invoice.paid", i)
      IN  /\ HasKey(e) => i \in invoices
          /\ e \in answered => HasKey(e)

\* The status of a subscription never runs ahead of Stripe: it is cancelled or past
\* due only if Stripe cancelled it or failed to bill it (cancelSubscription asks
\* Stripe first, lines 236-242).
StatusWasReported ==
    \A u \in Subscriptions :
      /\ status[u] = "cancelled" =>
           Event("customer.subscription.deleted", u) \in stripe.sent
      /\ status[u] = "past_due" =>
           \E i \in Invoices : /\ stripe.bills[i] = u
                               /\ Event("invoice.payment_failed", i) \in stripe.sent
=============================================================================
