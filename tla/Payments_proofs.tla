--------------------------- MODULE Payments_proofs ---------------------------
(***************************************************************************)
(* What holds of payments and subscriptions for any learners, courses,     *)
(* Stripe objects, calls and faults.  Calls overlap freely and share the   *)
(* tables without a transaction; what each has established at its await    *)
(* lasts because rows that are complete, events that were sent, invoices   *)
(* and what Stripe opened are only added to.                               *)
(***************************************************************************)
EXTENDS Payments, TLAPS

----------------------------------------------------------------------------
(* the invariant *)

Checkout == "checkout.session.completed"
Paid == "invoice.paid"
Unpaid == "invoice.payment_failed"
Deleted == "customer.subscription.deleted"

HasSession(s) == \E p \in payments : p.session = s

\* A row is a session's, pending under the session or complete under its event,
\* or the mark of a transaction or of a paid invoice.
SessionRow(p) ==
  /\ p.session \in Sessions /\ p.learner \in Learners /\ p.course \in Courses
  /\ stripe.buyer[p.session] = [learner |-> p.learner, course |-> p.course]
  /\ \/ p.status = "pending" /\ p.key = p.session
     \/ p.status = "completed" /\ p.key = Event(Checkout, p.session) /\ p.key \in stripe.sent

MarkRow(p) ==
  /\ p.session = None /\ p.status = "completed"
  /\ \/ p.key \in Successful
     \/ p.key \in Events /\ p.key.type = Paid /\ p.key.of \in invoices /\ p.course = None

RowsOK ==
  /\ \A p \in payments : SessionRow(p) \/ MarkRow(p)
  /\ \A p, q \in payments : p.key = q.key \/ (p.session = q.session /\ p.session # None) => p = q

\* Stripe reports sessions whose rows exist, and bills subscriptions it has opened.
StripeOK ==
  /\ \A e \in stripe.sent : e.type = Checkout => HasSession(e.of)
  /\ \A e \in stripe.sent : e.type \in {Paid, Unpaid} => stripe.bills[e.of] # None
  /\ \A i \in Invoices : stripe.bills[i] # None => stripe.buyer[stripe.bills[i]] # None

IsPaid(k, l, c) ==
  \E p \in payments : p.key = k /\ p.status = "completed" /\ p.learner = l /\ p.course = c

\* A grant has its row; what the row says of Stripe or of the ledger is RowsOK.
GrantsAreBacked == \A g \in granted : IsPaid(g.key, g.learner, g.course)

Delivering == {"checking", "completing", "invoicing", "billing", "renewing", "marking", "updating"}
Granting == {"granting", "enrolling"}
Verifying == {"looking", "verifying", "recording"}

\* What a call c has established at its await.
Knows(c) ==
  /\ c.at \in {"finding", "opening", "inserting"} \cup Granting \cup Verifying =>
       c.learner \in Learners /\ c.course \in Courses
  /\ c.at = "subscribing" => c.learner \in Learners
  /\ c.at = "inserting" =>
       /\ c.of \in Sessions /\ ~HasSession(c.of)
       /\ stripe.buyer[c.of] = [learner |-> c.learner, course |-> c.course]
  /\ c.at = "answered" /\ c.of \in Sessions => HasSession(c.of)
  /\ c.at \in Delivering => c.of \in stripe.sent
  /\ c.at \in {"checking", "completing"} /\ c.of.type = Checkout =>
       /\ c.learner = stripe.buyer[c.of.of].learner
       /\ c.course = stripe.buyer[c.of.of].course
  /\ c.at = "completing" => c.of.type = Checkout
  /\ c.at \in {"invoicing", "billing", "renewing", "marking"} => c.of.type = Paid
  /\ c.at \in {"renewing", "marking"} => c.of.of \in invoices
  /\ c.at = "updating" => c.of.type \in {Unpaid, Deleted}
  /\ c.at \in Granting =>
       /\ c.of \in Transactions \/ (c.of \in stripe.sent /\ c.of.type = Checkout)
       /\ IsPaid(c.of, c.learner, c.course)
  /\ c.at \in Verifying => c.of \in Transactions
  /\ c.at = "recording" => c.of \in Successful
  /\ c.at \in {"storing", "cancelling", "closing"} => c.of \in Subscriptions
  /\ c.at = "closing" => Event(Deleted, c.of) \in stripe.sent

Known(j) == Knows(call[j])

InsertsApart ==
  \A i, j \in Calls : i # j /\ At(i, "inserting") /\ At(j, "inserting") => call[i].of # call[j].of

AnswersMarked ==
  \A i \in Invoices \ Anonymous : Event(Paid, i) \in answered => HasKey(Event(Paid, i))

PaymentsInv ==
  /\ TypeOK /\ RowsOK /\ StripeOK
  /\ \A j \in Calls : Known(j)
  /\ InsertsApart
  /\ GrantsAreBacked /\ OnlyFaultsLoseGrants /\ AnswersMarked /\ StatusWasReported

----------------------------------------------------------------------------
(* what lasts *)

\* A step takes nothing back that a call may have established.
Grown ==
  /\ \A p \in payments : p.status = "completed" => p \in payments'
  /\ \A s \in Sessions : HasSession(s) => HasSession(s)'
  /\ invoices \subseteq invoices'
  /\ stripe.sent \subseteq stripe'.sent
  /\ \A x \in Sessions \cup Subscriptions :
       stripe.buyer[x] # None => stripe'.buyer[x] = stripe.buyer[x]
  /\ \A i \in Invoices : stripe.bills[i] # None => stripe'.bills[i] = stripe.bills[i]

LEMMA NothingGrown == UNCHANGED <<payments, invoices, stripe>> => Grown
  BY DEF Grown, HasSession

LEMMA Kinds ==
    ASSUME NEW e \in Events
    PROVE  /\ e = Event(e.type, e.of)
           /\ e.type \in {Checkout, Paid, Unpaid, Deleted}
           /\ e.type = Checkout => e.of \in Sessions
           /\ e.type \in {Paid, Unpaid} => e.of \in Invoices
           /\ e.type = Deleted => e.of \in Subscriptions
  BY DEF Events, Event, Checkout, Paid, Unpaid, Deleted

LEMMA Made ==
    /\ \A s \in Sessions : Event(Checkout, s) \in Events
    /\ \A i \in Invoices : Event(Paid, i) \in Events /\ Event(Unpaid, i) \in Events
    /\ \A u \in Subscriptions : Event(Deleted, u) \in Events
  BY DEF Events, Event, Checkout, Paid, Unpaid, Deleted

LEMMA BuyerSome == \A l \in Learners, c \in Courses \cup {None} :
                     /\ [learner |-> l, course |-> c] \in Buyer
                     /\ [learner |-> l, course |-> c] # None
  BY KeysAssumption DEF Buyer

\* A session row's session was opened, a sent session has its row, and its buyer.
LEMMA SessionOpened ==
    ASSUME PaymentsInv, NEW s \in Sessions, HasSession(s)
    PROVE  stripe.buyer[s] # None /\ stripe.buyer[s].learner \in Learners
           /\ stripe.buyer[s].course \in Courses
  <1>1. PICK p \in payments : p.session = s
    BY DEF HasSession
  <1>2. s # None
    BY PaymentsAssumption
  <1>3. SessionRow(p)
    BY <1>1, <1>2 DEF PaymentsInv, RowsOK, MarkRow
  <1>4. QED
    BY <1>1, <1>3, BuyerSome DEF SessionRow

\* What a call knows it still knows after steps of the others.
LEMMA KnowsLasts ==
    ASSUME PaymentsInv, Grown, NEW c \in Call, Knows(c),
           c.at = "inserting" => ~HasSession(c.of)'
    PROVE  Knows(c)'
  <1>1. stripe.sent \subseteq Events
    BY DEF PaymentsInv, TypeOK
  <1>2. c.at = "inserting" => stripe'.buyer[c.of] = [learner |-> c.learner, course |-> c.course]
    BY <1>1, BuyerSome DEF Knows, Grown
  <1>3. c.at = "answered" /\ c.of \in Sessions => HasSession(c.of)'
    BY <1>1 DEF Knows, Grown
  <1>4. c.at \in Delivering => c.of \in stripe'.sent
    BY <1>1 DEF Knows, Grown
  <1>5. ASSUME c.at \in {"checking", "completing"}, c.of.type = Checkout
        PROVE  stripe'.buyer[c.of.of] = stripe.buyer[c.of.of]
    <2>1. c.of \in stripe.sent /\ c.of \in Events
      BY <1>1, <1>5 DEF Knows, Delivering
    <2>2. c.of.of \in Sessions /\ HasSession(c.of.of)
      BY <1>5, <2>1, Kinds DEF PaymentsInv, StripeOK
    <2>3. stripe.buyer[c.of.of] # None
      BY <2>2, SessionOpened
    <2>4. QED
      BY <2>2, <2>3 DEF Grown
  <1>6. c.at \in {"renewing", "marking"} => c.of.of \in invoices'
    BY <1>1 DEF Knows, Grown
  <1>7. c.at \in Granting =>
          /\ c.of \in Transactions \/ (c.of \in stripe'.sent /\ c.of.type = Checkout)
          /\ IsPaid(c.of, c.learner, c.course)'
    <2>1. ASSUME IsPaid(c.of, c.learner, c.course) PROVE IsPaid(c.of, c.learner, c.course)'
      BY <2>1 DEF IsPaid, Grown
    <2>2. QED
      BY <1>1, <2>1 DEF Knows, Grown
  <1>8. c.at = "closing" => Event(Deleted, c.of) \in stripe'.sent
    BY <1>1 DEF Knows, Grown
  <1>10. QED
    BY <1>1, <1>2, <1>3, <1>4, <1>5, <1>6, <1>7, <1>8 DEF Knows

LEMMA RowLasts ==
    ASSUME PaymentsInv, Grown, NEW p \in payments
    PROVE  (SessionRow(p) \/ MarkRow(p))'
  <1>1. CASE SessionRow(p)
    <2>1. stripe.buyer[p.session] # None
      BY <1>1, BuyerSome DEF SessionRow
    <2>2. SessionRow(p)'
      BY <1>1, <2>1 DEF SessionRow, Grown
    <2>3. QED
      BY <2>2
  <1>2. CASE MarkRow(p)
    <2>1. MarkRow(p)'
      BY <1>2 DEF MarkRow, Grown
    <2>2. QED
      BY <2>1
  <1>3. QED
    BY <1>1, <1>2 DEF PaymentsInv, RowsOK

LEMMA RowsLast ==
    ASSUME PaymentsInv, Grown, UNCHANGED payments
    PROVE  RowsOK'
  BY RowLasts DEF PaymentsInv, RowsOK

LEMMA StripeLasts ==
    ASSUME PaymentsInv, Grown, UNCHANGED stripe
    PROVE  StripeOK'
  <1>1. \A e \in stripe.sent : e \in Events
    BY DEF PaymentsInv, TypeOK
  <1>2. \A e \in stripe.sent : e.type = Checkout => HasSession(e.of)'
    BY <1>1, Kinds DEF PaymentsInv, StripeOK, Grown
  <1>3. QED
    BY <1>2 DEF PaymentsInv, StripeOK

LEMMA GrantsLast ==
    ASSUME PaymentsInv, Grown, UNCHANGED granted
    PROVE  GrantsAreBacked'
  BY DEF PaymentsInv, GrantsAreBacked, IsPaid, Grown

\* The mark of an invoice tells of its row, and stays.
LEMMA MarkTold ==
    ASSUME PaymentsInv, NEW i \in Invoices, HasKey(Event(Paid, i))
    PROVE  i \in invoices /\ \E p \in payments : p.key = Event(Paid, i) /\ p.status = "completed"
  <1> DEFINE e == Event(Paid, i)
  <1>1. PICK p \in payments : p.key = e
    BY DEF HasKey
  <1>2. e \in Events /\ e.type = Paid /\ e.of = i
    BY Made DEF Event
  <1> HIDE DEF e
  <1>3. ~SessionRow(p)
    <2>1. p.key = p.session => p.session \notin Sessions
      BY <1>1, <1>2, KeysAssumption
    <2>2. p.key # Event(Checkout, p.session)
      BY <1>1, <1>2 DEF Event, Checkout, Paid
    <2>3. QED
      BY <2>1, <2>2 DEF SessionRow
  <1>4. MarkRow(p)
    BY <1>3 DEF PaymentsInv, RowsOK
  <1>5. i \in invoices
    BY <1>1, <1>2, <1>4, KeysAssumption, PaymentsAssumption DEF MarkRow
  <1>6. QED
    BY <1>1, <1>4, <1>5 DEF MarkRow, e

LEMMA MarksLast ==
    ASSUME PaymentsInv, Grown, NEW i \in Invoices, HasKey(Event(Paid, i))
    PROVE  HasKey(Event(Paid, i))'
  BY MarkTold DEF Grown, HasKey

LEMMA AnswersLast ==
    ASSUME PaymentsInv, Grown,
           \A i \in Invoices \ Anonymous :
             Event(Paid, i) \in answered' \ answered => HasKey(Event(Paid, i))'
    PROVE  AnswersMarked'
  BY MarksLast DEF PaymentsInv, AnswersMarked

LEMMA StatusLasts ==
    ASSUME PaymentsInv, Grown, UNCHANGED status
    PROVE  StatusWasReported'
  <1> SUFFICES ASSUME NEW u \in Subscriptions
               PROVE  /\ status[u] = "cancelled" =>
                           Event("customer.subscription.deleted", u) \in stripe'.sent
                      /\ status[u] = "past_due" =>
                           \E i \in Invoices :
                             /\ stripe'.bills[i] = u
                             /\ Event("invoice.payment_failed", i) \in stripe'.sent
    BY DEF StatusWasReported
  <1>1. u # None
    BY PaymentsAssumption
  <1>2. QED
    BY <1>1 DEF PaymentsInv, StatusWasReported, Grown

\* Nothing is lost while no grant is given up.
LEMMA LossesLast ==
    ASSUME PaymentsInv, granted \subseteq granted', lost \subseteq lost',
           \A p \in payments' : p.status = "completed" /\ p.course # None =>
             p \in payments \/ p.key \in InGrant(Calls)',
           \A j \in Calls : call[j].at \in Granting =>
             \/ call'[j].at \in Granting /\ call'[j].of = call[j].of
             \/ \E g \in granted' : g.key = call[j].of
             \/ call[j].of \in lost'
    PROVE  OnlyFaultsLoseGrants'
  <1> SUFFICES ASSUME NEW p \in payments', p.status = "completed", p.course # None
               PROVE  \/ \E g \in granted' : g.key = p.key
                      \/ p.key \in lost'
                      \/ p.key \in InGrant(Calls)'
    BY DEF OnlyFaultsLoseGrants
  <1>1. CASE p \in payments
    <2>1. \/ \E g \in granted : g.key = p.key
          \/ p.key \in lost
          \/ p.key \in InGrant(Calls)
      BY <1>1 DEF PaymentsInv, OnlyFaultsLoseGrants
    <2>2. ASSUME p.key \in InGrant(Calls)
          PROVE  \/ \E g \in granted' : g.key = p.key
                 \/ p.key \in lost'
                 \/ p.key \in InGrant(Calls)'
      <3>1. PICK j \in Calls : call[j].at \in Granting /\ call[j].of = p.key
        BY <2>2 DEF InGrant, Granting
      <3>2. call'[j].at \in Granting /\ call'[j].of = p.key => p.key \in InGrant(Calls)'
        BY DEF InGrant, Granting
      <3>3. QED
        BY <3>1, <3>2
    <2>3. QED
      BY <2>1, <2>2
  <1>2. QED
    BY <1>1

----------------------------------------------------------------------------
(* how steps are put together *)

\* One call moves on to x.
LEMMA Moves ==
    ASSUME PaymentsInv, NEW j \in Calls, NEW x \in Call, call' = [call EXCEPT ![j] = x],
           Grown, TypeOK', RowsOK', StripeOK', Knows(x)',
           GrantsAreBacked', OnlyFaultsLoseGrants', AnswersMarked', StatusWasReported',
           \A i \in Calls : i # j /\ At(i, "inserting") =>
             /\ \A p \in payments' : p.session # call[i].of
             /\ x.at = "inserting" => x.of # call[i].of
    PROVE  PaymentsInv'
  <1>1. \A i \in Calls : call'[i] = IF i = j THEN x ELSE call[i]
    BY DEF PaymentsInv, TypeOK
  <1>2. ASSUME NEW i \in Calls PROVE Known(i)'
    <2>1. CASE i = j
      BY <1>1, <2>1 DEF Known, Knows
    <2>2. CASE i # j
      <3>1. call[i] \in Call /\ Knows(call[i])
        BY DEF PaymentsInv, TypeOK, Known
      <3>2. PICK c \in Call : c = call[i]
        BY <3>1
      <3>3. Knows(c)
        BY <3>1, <3>2 DEF Knows
      <3>4. c.at = "inserting" => ~HasSession(c.of)'
        BY <2>2, <3>2 DEF At, HasSession
      <3>5. Knows(c)' /\ call'[i] = c
        BY <1>1, <2>2, <3>2, <3>3, <3>4, KnowsLasts
      <3>6. QED
        BY <3>5 DEF Known, Knows
    <2>3. QED
      BY <2>1, <2>2
  <1>3. InsertsApart'
    BY <1>1 DEF PaymentsInv, InsertsApart, At
  <1>4. QED
    BY <1>2, <1>3 DEF PaymentsInv

\* Sessions that are being inserted have no row while the rows are the same.
LEMMA NoneInserted ==
    ASSUME PaymentsInv, UNCHANGED payments, NEW i \in Calls, At(i, "inserting")
    PROVE  \A p \in payments' : p.session # call[i].of
  BY DEF PaymentsInv, Known, Knows, At, HasSession

\* One call moves on to x and touches nothing else; it is no grant given up.
LEMMA Quiet ==
    ASSUME PaymentsInv, NEW j \in Calls, NEW x \in Call, call' = [call EXCEPT ![j] = x],
           UNCHANGED <<tables, stripe, history, faults>>,
           Knows(x), x.at # "inserting",
           call[j].at \in Granting => x.at \in Granting /\ x.of = call[j].of
    PROVE  PaymentsInv'
  <1>1. Grown
    BY NothingGrown DEF tables
  <1>2. TypeOK'
    BY DEF PaymentsInv, TypeOK, tables, history
  <1>3. /\ RowsOK' /\ StripeOK' /\ GrantsAreBacked' /\ AnswersMarked' /\ StatusWasReported'
    BY <1>1, RowsLast, StripeLasts, GrantsLast, AnswersLast, StatusLasts DEF tables, history
  <1>4. \A i \in Calls : call'[i] = IF i = j THEN x ELSE call[i]
    BY DEF PaymentsInv, TypeOK
  <1>5. OnlyFaultsLoseGrants'
    BY <1>4, LossesLast DEF tables, history
  <1>6. Knows(x)'
    BY <1>1, KnowsLasts
  <1>7. QED
    BY <1>1, <1>2, <1>3, <1>5, <1>6, Moves, NoneInserted DEF tables

LEMMA Going ==
    ASSUME PaymentsInv, NEW j \in Calls, NEW step \in Steps, GoTo(j, step)
    PROVE  /\ [call[j] EXCEPT !.at = step] \in Call
           /\ call' = [call EXCEPT ![j] = [call[j] EXCEPT !.at = step]]
           /\ call[j] \in Call /\ Knows(call[j])
  BY DEF PaymentsInv, TypeOK, Call, GoTo, Known

----------------------------------------------------------------------------
(* the steps that only move a call on *)

LEMMA StartsQuietly ==
    ASSUME PaymentsInv, NEW j \in Calls, NEW x \in Call, Starts(j, x),
           UNCHANGED <<tables, stripe, history, faults>>,
           \/ x.at = "finding" /\ x.learner \in Learners /\ x.course \in Courses
           \/ /\ x.at = "looking" /\ x.learner \in Learners /\ x.course \in Courses
              /\ x.of \in Transactions
           \/ x.at = "subscribing" /\ x.learner \in Learners
           \/ x.at = "seeking"
    PROVE  PaymentsInv'
  <1>1. Knows(x)
    BY DEF Knows, Granting, Verifying, Delivering
  <1>2. call' = [call EXCEPT ![j] = x] /\ x.at # "inserting" /\ call[j].at \notin Granting
    BY DEF Starts, At, Granting
  <1>3. QED
    BY <1>1, <1>2, Quiet

LEMMA StartSteps ==
    ASSUME PaymentsInv, NEW j \in Calls,
           StartCheckout(j) \/ StartVerify(j) \/ StartSubscribe(j) \/ StartCancel(j)
    PROVE  PaymentsInv'
  <1>1. UNCHANGED <<tables, stripe, history, faults>>
    BY DEF StartCheckout, StartVerify, StartSubscribe, StartCancel
  <1>3. CASE StartCheckout(j)
    <2>1. PICK l \in Learners, c \in Courses :
            Starts(j, [Idle EXCEPT !.at = "finding", !.learner = l, !.course = c])
      BY <1>3 DEF StartCheckout
    <2>2. PICK x : x = [Idle EXCEPT !.at = "finding", !.learner = l, !.course = c]
      OBVIOUS
    <2>3. x \in Call /\ x.at = "finding" /\ x.learner = l /\ x.course = c
      BY <2>2 DEF Idle, Call, Steps, Keys
    <2>4. QED
      BY <1>1, <2>1, <2>2, <2>3, StartsQuietly
  <1>4. CASE StartVerify(j)
    <2>1. PICK l \in Learners, c \in Courses, t \in Transactions :
            Starts(j, [Idle EXCEPT !.at = "looking", !.learner = l, !.course = c, !.of = t])
      BY <1>4 DEF StartVerify
    <2>2. PICK x : x = [Idle EXCEPT !.at = "looking", !.learner = l, !.course = c, !.of = t]
      OBVIOUS
    <2>3. x \in Call /\ x.at = "looking" /\ x.learner = l /\ x.course = c /\ x.of = t
      BY <2>2 DEF Idle, Call, Steps, Keys
    <2>4. QED
      BY <1>1, <2>1, <2>2, <2>3, StartsQuietly
  <1>5. CASE StartSubscribe(j)
    <2>1. PICK l \in Learners : Starts(j, [Idle EXCEPT !.at = "subscribing", !.learner = l])
      BY <1>5 DEF StartSubscribe
    <2>2. PICK x : x = [Idle EXCEPT !.at = "subscribing", !.learner = l]
      OBVIOUS
    <2>3. x \in Call /\ x.at = "subscribing" /\ x.learner = l
      BY <2>2 DEF Idle, Call, Steps, Keys
    <2>4. QED
      BY <1>1, <2>1, <2>2, <2>3, StartsQuietly
  <1>6. CASE StartCancel(j)
    <2>1. PICK l \in Learners : Starts(j, [Idle EXCEPT !.at = "seeking", !.learner = l])
      BY <1>6 DEF StartCancel
    <2>2. PICK x : x = [Idle EXCEPT !.at = "seeking", !.learner = l]
      OBVIOUS
    <2>3. x \in Call /\ x.at = "seeking"
      BY <2>2 DEF Idle, Call, Steps, Keys
    <2>4. QED
      BY <1>1, <2>1, <2>2, <2>3, StartsQuietly
  <1>7. QED
    BY <1>3, <1>4, <1>5, <1>6

LEMMA DeliverStep ==
    ASSUME PaymentsInv, NEW j \in Calls, NEW e \in stripe.sent, Deliver(j, e)
    PROVE  PaymentsInv'
  <1> DEFINE b == IF e.of \in Sessions THEN stripe.buyer[e.of]
                  ELSE [learner |-> None, course |-> None]
             x == [Idle EXCEPT !.at = "checking", !.of = e, !.learner = b.learner, !.course = b.course]
  <1>1. e \in Events
    BY DEF PaymentsInv, TypeOK
  <1>2. b.learner \in Learners \cup {None} /\ b.course \in Courses \cup {None}
    <2>1. CASE e.of \in Sessions
      <3>1. e.type = Checkout
        BY <1>1, <2>1, Kinds, KeysAssumption
      <3>2. HasSession(e.of)
        BY <3>1 DEF PaymentsInv, StripeOK
      <3>3. QED
        BY <2>1, <3>2, SessionOpened
    <2>2. CASE e.of \notin Sessions
      BY <2>2
    <2>3. QED
      BY <2>1, <2>2
  <1>3. e.type = Checkout => b = stripe.buyer[e.of]
    BY <1>1, Kinds
  <1>4. call' = [call EXCEPT ![j] = x] /\ call[j].at = "idle"
        /\ UNCHANGED <<tables, stripe, history, faults>>
    BY DEF Deliver, Starts, At
  <1> HIDE DEF b
  <1>5. x \in Call
    BY <1>1, <1>2 DEF Call, Idle, Steps, Keys
  <1>6. Knows(x)
    BY <1>3 DEF Knows, Idle, Granting, Verifying, Delivering
  <1>7. x.at # "inserting"
    BY DEF Idle
  <1> HIDE DEF x
  <1>8. QED
    BY <1>4, <1>5, <1>6, <1>7, Quiet DEF Granting

LEMMA LookSteps ==
    ASSUME PaymentsInv, NEW j \in Calls, FindPending(j) \/ FindRecorded(j) \/ Verify(j)
    PROVE  PaymentsInv'
  <1>1. PICK step \in {"failed", "opening", "answered", "verifying", "recording"} :
          /\ GoTo(j, step)
          /\ step = "opening" => call[j].at = "finding"
          /\ step = "answered" => call[j].at = "looking"
          /\ step \in {"verifying", "recording"} => call[j].at \in {"looking", "verifying"}
          /\ step = "recording" => call[j].of \in Successful
          /\ call[j].at \in {"finding", "looking", "verifying"}
    BY DEF FindPending, FindRecorded, Verify, At
  <1>2. UNCHANGED <<tables, stripe, history, faults>>
    BY DEF FindPending, FindRecorded, Verify
  <1>3. step \in Steps
    BY DEF Steps
  <1> DEFINE x == [call[j] EXCEPT !.at = step]
  <1>4. x \in Call /\ call' = [call EXCEPT ![j] = x] /\ call[j] \in Call /\ Knows(call[j])
    BY <1>1, <1>3, Going
  <1>5. x.at = step /\ x.learner = call[j].learner /\ x.course = call[j].course /\ x.of = call[j].of
    BY <1>4 DEF Call
  <1> HIDE DEF x
  <1>6. Knows(x)
    BY <1>1, <1>4, <1>5, KeysAssumption DEF Knows, Granting, Verifying, Delivering
  <1>7. QED
    BY <1>1, <1>2, <1>4, <1>5, <1>6, Quiet DEF Granting

LEMMA FindInvoiceStep ==
    ASSUME PaymentsInv, NEW j \in Calls, FindInvoice(j)
    PROVE  PaymentsInv'
  <1>0. PICK b \in BOOLEAN :
          call' = [call EXCEPT ![j].at = "billing", ![j].found = b]
    <2>1. CASE call[j].of.of \in invoices
      <3>1. call' = [call EXCEPT ![j].at = "billing", ![j].found = TRUE]
        BY <2>1 DEF FindInvoice
      <3>2. QED
        BY <3>1
    <2>2. CASE call[j].of.of \notin invoices
      <3>1. (call[j].of.of \in invoices) = FALSE
        BY <2>2
      <3>2. call' = [call EXCEPT ![j].at = "billing", ![j].found = FALSE]
        BY <3>1 DEF FindInvoice
      <3>3. QED
        BY <3>2
    <2>3. QED
      BY <2>1, <2>2
  <1>1. PICK x : x = [call[j] EXCEPT !.at = "billing", !.found = b]
    OBVIOUS
  <1>2. call[j] \in Call /\ Knows(call[j]) /\ call[j].at = "invoicing"
    BY DEF PaymentsInv, TypeOK, Known, FindInvoice, At
  <1>3. x \in Call /\ x.at = "billing" /\ x.of = call[j].of
    BY <1>1, <1>2 DEF Call, Steps
  <1>4. call' = [call EXCEPT ![j] = x] /\ UNCHANGED <<tables, stripe, history, faults>>
    BY <1>0, <1>1 DEF FindInvoice
  <1>5. Knows(x)
    BY <1>2, <1>3 DEF Knows, Granting, Verifying, Delivering
  <1>6. QED
    BY <1>2, <1>3, <1>4, <1>5, Quiet DEF Granting

LEMMA FindActiveStep ==
    ASSUME PaymentsInv, NEW j \in Calls, FindActive(j)
    PROVE  PaymentsInv'
  <1>1. call[j] \in Call /\ call[j].at = "seeking"
        /\ UNCHANGED <<tables, stripe, history, faults>>
    BY DEF PaymentsInv, TypeOK, FindActive, At
  <1>2. CASE \E u \in Subscriptions : call' = [call EXCEPT ![j].at = "cancelling", ![j].of = u]
    <2>1. PICK u \in Subscriptions : call' = [call EXCEPT ![j].at = "cancelling", ![j].of = u]
      BY <1>2
    <2>2. PICK x : x = [call[j] EXCEPT !.at = "cancelling", !.of = u]
      OBVIOUS
    <2>3. x \in Call /\ x.at = "cancelling" /\ x.of = u
      BY <1>1, <2>2 DEF Call, Steps
    <2>4. call' = [call EXCEPT ![j] = x]
      BY <2>1, <2>2
    <2>5. Knows(x)
      BY <2>3 DEF Knows, Granting, Verifying, Delivering
    <2>6. QED
      BY <1>1, <2>3, <2>4, <2>5, Quiet DEF Granting
  <1>3. CASE GoTo(j, "failed")
    <2>1. PICK x : x = [call[j] EXCEPT !.at = "failed"]
      OBVIOUS
    <2>2. x \in Call /\ x.at = "failed" /\ call' = [call EXCEPT ![j] = x]
      BY <1>1, <1>3, <2>1 DEF Call, Steps, GoTo
    <2>3. Knows(x)
      BY <2>2 DEF Knows, Granting, Verifying, Delivering
    <2>4. QED
      BY <1>1, <2>2, <2>3, Quiet DEF Granting
  <1>4. QED
    BY <1>2, <1>3 DEF FindActive

\* One call is answered or given up, and the tables stay as they are.
LEMMA Settles ==
    ASSUME PaymentsInv, NEW j \in Calls, NEW step \in {"answered", "failed"}, GoTo(j, step),
           UNCHANGED <<tables, stripe, granted>>,
           step = "answered" => call[j].of \notin Sessions,
           lost \subseteq lost', lost' \subseteq Keys, faults' \in 0 .. MaxFaults,
           answered' \subseteq Events,
           \A i \in Invoices \ Anonymous :
             Event(Paid, i) \in answered' \ answered => HasKey(Event(Paid, i)),
           call[j].at \in Granting => call[j].of \in lost'
    PROVE  PaymentsInv'
  <1>1. step \in Steps
    BY DEF Steps
  <1>2. PICK x : x = [call[j] EXCEPT !.at = step]
    OBVIOUS
  <1>3. x \in Call /\ x.at = step /\ x.of = call[j].of /\ call' = [call EXCEPT ![j] = x]
    BY <1>1, <1>2, Going DEF Call
  <1>4. Grown
    BY NothingGrown DEF tables
  <1>5. TypeOK'
    BY <1>3 DEF PaymentsInv, TypeOK, tables
  <1>6. RowsOK' /\ StripeOK' /\ GrantsAreBacked' /\ StatusWasReported'
    BY <1>4, RowsLast, StripeLasts, GrantsLast, StatusLasts DEF tables
  <1>7. AnswersMarked'
    BY <1>4, AnswersLast DEF HasKey, tables
  <1>8. \A i \in Calls : call'[i] = IF i = j THEN x ELSE call[i]
    BY <1>3 DEF PaymentsInv, TypeOK
  <1>9. OnlyFaultsLoseGrants'
    BY <1>8, LossesLast DEF tables
  <1>10. Knows(x)'
    BY <1>3 DEF Knows, Granting, Verifying, Delivering
  <1>11. QED
    BY <1>3, <1>4, <1>5, <1>6, <1>7, <1>9, <1>10, Moves, NoneInserted DEF tables

LEMMA CheckMarkerStep ==
    ASSUME PaymentsInv, NEW j \in Calls, CheckMarker(j)
    PROVE  PaymentsInv'
  <1> DEFINE e == call[j].of
  <1>1. call[j] \in Call /\ Knows(call[j]) /\ call[j].at = "checking"
        /\ UNCHANGED <<tables, stripe, faults>>
    BY DEF PaymentsInv, TypeOK, Known, CheckMarker, At
  <1>2. e \in stripe.sent /\ e \in Events
    BY <1>1 DEF PaymentsInv, TypeOK, Knows, Delivering
  <1>3. CASE /\ HasKey(e) \/ (e.type = "invoice.paid" /\ e.of \in Anonymous)
             /\ Answer(j) /\ UNCHANGED <<granted, lost>>
    <2>1. answered' = answered \cup {e}
      BY <1>2, <1>3 DEF Answer
    <2>2. ASSUME NEW i \in Invoices \ Anonymous, Event(Paid, i) \in answered' \ answered
          PROVE  HasKey(Event(Paid, i))
      <3>1. e = Event(Paid, i)
        BY <2>1, <2>2
      <3>2. e.type = Paid /\ e.of = i
        BY <3>1 DEF Event
      <3>3. QED
        BY <1>3, <3>1, <3>2
    <2>3. e \notin Sessions
      BY <1>2, KeysAssumption
    <2>4. lost' \subseteq Keys /\ faults' \in 0 .. MaxFaults /\ answered' \subseteq Events
      BY <1>1, <1>2, <1>3, <2>1 DEF PaymentsInv, TypeOK
    <2>5. QED
      BY <1>1, <1>3, <2>2, <2>3, <2>4, Settles DEF Answer, Granting
  <1>4. CASE GoTo(j, Handler(e)) /\ UNCHANGED history
    <2>1. PICK step : step = Handler(e)
      OBVIOUS
    <2>2. /\ step \in {"completing", "invoicing", "updating"}
          /\ step = "completing" => e.type = Checkout
          /\ step = "invoicing" => e.type = Paid
          /\ step = "updating" => e.type \in {Unpaid, Deleted}
      BY <1>2, <2>1, Kinds DEF Handler, Checkout, Paid, Unpaid, Deleted
    <2>3. step \in Steps
      BY <2>2 DEF Steps
    <2>4. PICK x : x = [call[j] EXCEPT !.at = step]
      OBVIOUS
    <2>5. /\ x \in Call /\ x.at = step /\ x.of = e /\ call' = [call EXCEPT ![j] = x]
          /\ x.learner = call[j].learner /\ x.course = call[j].course
      BY <1>4, <2>1, <2>3, <2>4, Going DEF Call
    <2>6. Knows(x)
      BY <1>1, <1>2, <2>2, <2>5 DEF Knows, Granting, Verifying, Delivering
    <2>7. QED
      BY <1>1, <1>4, <2>2, <2>5, <2>6, Quiet DEF Granting
  <1>5. QED
    BY <1>3, <1>4 DEF CheckMarker

LEMMA ThrowStep ==
    ASSUME PaymentsInv, NEW j \in Calls, Throw(j)
    PROVE  PaymentsInv'
  <1>1. call[j] \in Call /\ Knows(call[j]) /\ UNCHANGED <<tables, stripe, granted>>
        /\ lost' = lost \cup InGrant({j})
    BY DEF PaymentsInv, TypeOK, Known, Throw
  <1>2. faults' \in 0 .. MaxFaults
    BY PaymentsAssumption DEF PaymentsInv, TypeOK, Throw, Fault
  <1>3. call[j].at \in Granting => call[j].of \in lost' /\ call[j].of \in Keys
        /\ call[j].of \notin Sessions /\ (call[j].of \in Events => call[j].of.type = Checkout)
    <2>1. ASSUME call[j].at \in Granting PROVE call[j].of \in InGrant({j})
      BY <2>1 DEF InGrant, Granting
    <2>2. ASSUME call[j].at \in Granting
          PROVE  \/ call[j].of \in Transactions
                 \/ call[j].of \in stripe.sent /\ call[j].of.type = Checkout
      BY <1>1, <2>2 DEF Knows
    <2>3. stripe.sent \subseteq Events
      BY DEF PaymentsInv, TypeOK
    <2>4. QED
      BY <1>1, <2>1, <2>2, <2>3, KeysAssumption DEF Keys
  <1>4. lost' \subseteq Keys /\ lost \subseteq lost'
    <2>1. InGrant({j}) \subseteq Keys
      BY <1>3 DEF InGrant, Granting
    <2>2. QED
      BY <1>1, <2>1 DEF PaymentsInv, TypeOK
  <1>5. CASE At(j, "enrolling")
    <2>1. Answer(j) /\ call[j].at \in Granting
      BY <1>5 DEF Throw, At, Granting
    <2>2. answered' \subseteq Events
      BY <2>1 DEF Answer, PaymentsInv, TypeOK
    <2>3. \A i \in Invoices : Event(Paid, i) \notin answered' \ answered
      BY <1>3, <2>1 DEF Answer, Event, Paid, Checkout
    <2>4. QED
      BY <1>1, <1>2, <1>3, <1>4, <2>1, <2>2, <2>3, Settles DEF Answer
  <1>6. CASE ~At(j, "enrolling")
    <2>1. GoTo(j, "failed") /\ UNCHANGED answered
      BY <1>6 DEF Throw
    <2>2. answered' \subseteq Events
      BY <2>1 DEF PaymentsInv, TypeOK
    <2>3. QED
      BY <1>1, <1>2, <1>3, <1>4, <2>1, <2>2, Settles
  <1>7. QED
    BY <1>5, <1>6

----------------------------------------------------------------------------
(* the steps of a checkout *)

LEMMA OpenSessionStep ==
    ASSUME PaymentsInv, NEW j \in Calls, OpenSession(j)
    PROVE  PaymentsInv'
  <1>1. PICK s \in Sessions :
          /\ stripe.buyer[s] = None
          /\ Opens(s, [learner |-> call[j].learner, course |-> call[j].course])
          /\ call' = [call EXCEPT ![j].at = "inserting", ![j].of = s]
    BY DEF OpenSession
  <1>2. /\ call[j] \in Call /\ call[j].learner \in Learners /\ call[j].course \in Courses
        /\ call[j].at = "opening" /\ UNCHANGED <<tables, history, faults>>
    BY DEF PaymentsInv, TypeOK, Known, Knows, OpenSession, At
  <1>3. PICK b \in Buyer : b = [learner |-> call[j].learner, course |-> call[j].course]
    BY <1>2, BuyerSome
  <1>4. PICK x : x = [call[j] EXCEPT !.at = "inserting", !.of = s]
    OBVIOUS
  <1>5. /\ x \in Call /\ x.at = "inserting" /\ x.of = s
        /\ x.learner = call[j].learner /\ x.course = call[j].course
        /\ call' = [call EXCEPT ![j] = x]
    BY <1>1, <1>2, <1>4 DEF Call, Steps, Keys
  <1>6. /\ stripe'.buyer = [stripe.buyer EXCEPT ![s] = b]
        /\ stripe'.bills = stripe.bills /\ stripe'.sent = stripe.sent
        /\ stripe' \in [buyer : [Sessions \cup Subscriptions -> Buyer \cup {None}],
                        bills : [Invoices -> Subscriptions \cup {None}],
                        sent  : SUBSET Events]
    BY <1>1, <1>3 DEF Opens, PaymentsInv, TypeOK
  <1>7. stripe.buyer \in [Sessions \cup Subscriptions -> Buyer \cup {None}]
        /\ stripe.bills \in [Invoices -> Subscriptions \cup {None}]
    BY DEF PaymentsInv, TypeOK
  <1>8. Grown
    BY <1>1, <1>2, <1>6, <1>7 DEF Grown, HasSession, tables
  <1>9. TypeOK'
    BY <1>2, <1>5, <1>6 DEF PaymentsInv, TypeOK, tables, history
  <1>10. RowsOK' /\ GrantsAreBacked' /\ AnswersMarked' /\ StatusWasReported'
    BY <1>2, <1>8, RowsLast, GrantsLast, AnswersLast, StatusLasts DEF tables, history
  <1>11. StripeOK'
    BY <1>2, <1>3, <1>6, <1>7, KeysAssumption DEF PaymentsInv, StripeOK, HasSession, tables
  <1>12. \A i \in Calls : call'[i] = IF i = j THEN x ELSE call[i]
    BY <1>5 DEF PaymentsInv, TypeOK
  <1>13. OnlyFaultsLoseGrants'
    BY <1>2, <1>12, LossesLast DEF tables, history, Granting
  <1>14. ~HasSession(s)
    BY <1>1, SessionOpened
  <1>15. Knows(x)'
    <2>1. ~HasSession(s)'
      BY <1>2, <1>14 DEF HasSession, tables
    <2>2. stripe'.buyer[s] = [learner |-> x.learner, course |-> x.course]
      BY <1>3, <1>5, <1>6, <1>7
    <2>3. QED
      BY <1>2, <1>5, <2>1, <2>2 DEF Knows, Granting, Verifying, Delivering
  <1>16. ASSUME NEW i \in Calls, At(i, "inserting") PROVE s # call[i].of
    <2>1. /\ stripe.buyer[call[i].of] = [learner |-> call[i].learner, course |-> call[i].course]
          /\ call[i].learner \in Learners /\ call[i].course \in Courses
      BY <1>16 DEF PaymentsInv, Known, Knows, At
    <2>2. stripe.buyer[call[i].of] # None
      BY <2>1, BuyerSome
    <2>3. QED
      BY <1>1, <2>2
  <1>17. QED
    BY <1>2, <1>5, <1>8, <1>9, <1>10, <1>11, <1>13, <1>15, <1>16, Moves, NoneInserted DEF tables

LEMMA RowsGrow ==
    ASSUME PaymentsInv, Grown, NEW p, payments' = payments \cup {p}, ~HasKey(p.key),
           (SessionRow(p) \/ MarkRow(p))', p.session # None => ~HasSession(p.session)
    PROVE  RowsOK'
  <1>1. \A q \in payments' : (SessionRow(q) \/ MarkRow(q))'
    BY RowLasts
  <1>2. \A q \in payments : q.key # p.key /\ (q.session = p.session => p.session = None)
    BY DEF HasKey, HasSession
  <1>3. QED
    BY <1>1, <1>2 DEF PaymentsInv, RowsOK

LEMMA InsertPendingStep ==
    ASSUME PaymentsInv, NEW j \in Calls, InsertPending(j)
    PROVE  PaymentsInv'
  <1> DEFINE s == call[j].of
  <1>1. /\ call[j] \in Call /\ call[j].learner \in Learners /\ call[j].course \in Courses
        /\ call[j].at = "inserting" /\ s \in Sessions /\ ~HasSession(s)
        /\ stripe.buyer[s] = [learner |-> call[j].learner, course |-> call[j].course]
    BY DEF PaymentsInv, TypeOK, Known, Knows, InsertPending, At
  <1>2. PICK p : p = [key |-> s, session |-> s, status |-> "pending",
                      learner |-> call[j].learner, course |-> call[j].course]
    OBVIOUS
  <1>3. /\ payments' = payments \cup {p} /\ ~HasKey(p.key)
        /\ UNCHANGED <<enrolled, invoices, status, stripe, history, faults>>
    BY <1>2 DEF InsertPending, Insert
  <1>4. PICK x : x = [call[j] EXCEPT !.at = "answered"]
    OBVIOUS
  <1>5. x \in Call /\ x.at = "answered" /\ x.of = s /\ call' = [call EXCEPT ![j] = x]
    BY <1>1, <1>4 DEF Call, Steps, InsertPending, GoTo
  <1>6. Grown
    BY <1>3 DEF Grown, HasSession
  <1>7. TypeOK'
    <2>1. p \in Payment
      BY <1>1, <1>2 DEF Payment, Keys
    <2>2. QED
      BY <1>3, <1>5, <2>1 DEF PaymentsInv, TypeOK, history
  <1>8. RowsOK'
    <2>1. SessionRow(p)'
      BY <1>1, <1>2, <1>3 DEF SessionRow
    <2>2. p.session # None => ~HasSession(p.session)
      BY <1>1, <1>2
    <2>3. QED
      BY <1>3, <1>6, <2>1, <2>2, RowsGrow
  <1>9. StripeOK' /\ GrantsAreBacked' /\ AnswersMarked' /\ StatusWasReported'
    BY <1>3, <1>6, StripeLasts, GrantsLast, AnswersLast, StatusLasts DEF history
  <1>10. \A i \in Calls : call'[i] = IF i = j THEN x ELSE call[i]
    BY <1>5 DEF PaymentsInv, TypeOK
  <1>11. OnlyFaultsLoseGrants'
    BY <1>1, <1>2, <1>3, <1>10, LossesLast DEF history, Granting
  <1>12. Knows(x)'
    <2>1. \E q \in payments' : q.session = x.of
      BY <1>2, <1>3, <1>5
    <2>2. QED
      BY <1>5, <2>1 DEF Knows, Granting, Verifying, Delivering, HasSession
  <1>13. ASSUME NEW i \in Calls, i # j, At(i, "inserting")
         PROVE  \A q \in payments' : q.session # call[i].of
    <2>1. call[i].of # s
      BY <1>1, <1>13 DEF PaymentsInv, InsertsApart, At
    <2>2. \A q \in payments : q.session # call[i].of
      BY <1>13 DEF PaymentsInv, Known, Knows, At, HasSession
    <2>3. QED
      BY <1>2, <1>3, <2>1, <2>2
  <1>14. QED
    BY <1>5, <1>6, <1>7, <1>8, <1>9, <1>11, <1>12, <1>13, Moves

LEMMA CompletePaymentStep ==
    ASSUME PaymentsInv, NEW j \in Calls, CompletePayment(j)
    PROVE  PaymentsInv'
  <1> DEFINE e == call[j].of
             s == e.of
  <1>1. /\ call[j] \in Call /\ call[j].at = "completing" /\ Knows(call[j])
        /\ UNCHANGED <<enrolled, invoices, status, stripe, history, faults>>
    BY DEF PaymentsInv, TypeOK, Known, CompletePayment, At
  <1>2. /\ e \in stripe.sent /\ e.type = Checkout /\ e \in Events /\ e \in Keys
        /\ call[j].learner = stripe.buyer[s].learner /\ call[j].course = stripe.buyer[s].course
    BY <1>1 DEF PaymentsInv, TypeOK, Knows, Delivering, Keys
  <1>3. s \in Sessions /\ HasSession(s) /\ e = Event(Checkout, s)
    BY <1>2, Kinds DEF PaymentsInv, StripeOK
  <1>4. PICK p \in payments : p.session = s
    BY <1>3 DEF HasSession
  <1>5. \A r \in payments : r.session = s => r = p
    BY <1>3, <1>4, PaymentsAssumption DEF PaymentsInv, RowsOK
  <1>6. SessionRow(p) /\ p \in Payment
    BY <1>3, <1>4, PaymentsAssumption DEF PaymentsInv, TypeOK, RowsOK, MarkRow
  <1>7. PICK q : q = [p EXCEPT !.status = "completed", !.key = e]
    OBVIOUS
  <1>8. payments' = (payments \ {p}) \cup {q}
    <2>1. payments' = {IF r.session = s THEN [r EXCEPT !.status = "completed", !.key = e] ELSE r :
                         r \in payments}
      BY DEF CompletePayment
    <2>2. QED
      BY <1>4, <1>5, <1>7, <2>1
  <1>9. /\ q \in Payment /\ q.key = e /\ q.session = s /\ q.status = "completed"
        /\ q.learner = call[j].learner /\ q.course = call[j].course
        /\ q.learner \in Learners /\ q.course \in Courses
        /\ stripe.buyer[s] = [learner |-> q.learner, course |-> q.course]
    <2>1. /\ p.learner \in Learners /\ p.course \in Courses
          /\ stripe.buyer[s] = [learner |-> p.learner, course |-> p.course]
      BY <1>4, <1>6 DEF SessionRow
    <2>2. /\ q \in Payment /\ q.key = e /\ q.session = s /\ q.status = "completed"
          /\ q.learner = p.learner /\ q.course = p.course
      BY <1>2, <1>4, <1>6, <1>7 DEF Payment
    <2>3. call[j].learner = p.learner /\ call[j].course = p.course
      BY <1>2, <2>1
    <2>4. QED
      BY <2>1, <2>2, <2>3
  <1>10. p.status = "completed" => q = p
    <2>1. p.status = "completed" => p.key = e
      BY <1>3, <1>4, <1>6 DEF SessionRow
    <2>2. QED
      BY <1>6, <1>7, <2>1 DEF Payment
  <1>11. \A r \in payments : r # p => r.key # e
    <2>1. ASSUME NEW r \in payments, r.key = e PROVE r.session = s
      <3>1. ~MarkRow(r)
        BY <1>2, <2>1, KeysAssumption, PaymentsAssumption DEF MarkRow, Checkout, Paid
      <3>2. SessionRow(r)
        BY <3>1 DEF PaymentsInv, RowsOK
      <3>3. r.key # r.session
        BY <1>2, <2>1, <3>2, KeysAssumption DEF SessionRow
      <3>4. r.key = Event(Checkout, r.session)
        BY <3>2, <3>3 DEF SessionRow
      <3>5. QED
        BY <1>3, <2>1, <3>4 DEF Event
    <2>2. QED
      BY <1>5, <2>1
  <1>12. Grown
    BY <1>1, <1>4, <1>8, <1>9, <1>10 DEF Grown, HasSession
  <1>13. PICK x : x = [call[j] EXCEPT !.at = "granting"]
    OBVIOUS
  <1>14. /\ x \in Call /\ x.at = "granting" /\ x.of = e /\ call' = [call EXCEPT ![j] = x]
         /\ x.learner = call[j].learner /\ x.course = call[j].course
    BY <1>1, <1>13 DEF Call, Steps, CompletePayment, GoTo
  <1>15. TypeOK'
    BY <1>1, <1>8, <1>9, <1>14 DEF PaymentsInv, TypeOK, history
  <1>16. RowsOK'
    <2>1. \A r \in payments : (SessionRow(r) \/ MarkRow(r))'
      BY <1>12, RowLasts
    <2>2. SessionRow(q)'
      BY <1>1, <1>2, <1>3, <1>9 DEF SessionRow
    <2>3. \A r \in payments \ {p} : r.key # q.key /\ r.session # q.session
      BY <1>5, <1>9, <1>11
    <2>4. QED
      BY <1>8, <2>1, <2>2, <2>3 DEF PaymentsInv, RowsOK
  <1>17. StripeOK' /\ GrantsAreBacked' /\ AnswersMarked' /\ StatusWasReported'
    BY <1>1, <1>12, StripeLasts, GrantsLast, AnswersLast, StatusLasts DEF history
  <1>18. \A i \in Calls : call'[i] = IF i = j THEN x ELSE call[i]
    BY <1>14 DEF PaymentsInv, TypeOK
  <1>19. OnlyFaultsLoseGrants'
    <2>1. e \in InGrant(Calls)'
      BY <1>14, <1>18 DEF InGrant
    <2>2. \A r \in payments' : r \in payments \/ r.key \in InGrant(Calls)'
      BY <1>8, <1>9, <2>1
    <2>3. QED
      BY <1>1, <1>18, <2>2, LossesLast DEF history, Granting
  <1>20. Knows(x)'
    <2>1. IsPaid(x.of, x.learner, x.course)'
      <3>1. \E r \in payments' : r.key = x.of /\ r.status = "completed"
                                 /\ r.learner = x.learner /\ r.course = x.course
        BY <1>8, <1>9, <1>14
      <3>2. QED
        BY <3>1 DEF IsPaid
    <2>2. x.of \in stripe'.sent /\ x.of.type = Checkout
      BY <1>1, <1>2, <1>14
    <2>3. QED
      BY <1>9, <1>14, <2>1, <2>2 DEF Knows, Granting, Verifying, Delivering
  <1>21. ASSUME NEW i \in Calls, At(i, "inserting")
         PROVE  \A r \in payments' : r.session # call[i].of
    <2>1. \A r \in payments : r.session # call[i].of
      BY <1>21 DEF PaymentsInv, Known, Knows, At, HasSession
    <2>2. QED
      BY <1>4, <1>8, <1>9, <2>1
  <1>22. QED
    BY <1>12, <1>14, <1>15, <1>16, <1>17, <1>19, <1>20, <1>21, Moves

----------------------------------------------------------------------------
(* the steps of invoices and subscriptions *)

LEMMA SaveInvoiceStep ==
    ASSUME PaymentsInv, NEW j \in Calls, SaveInvoice(j)
    PROVE  PaymentsInv'
  <1> DEFINE i0 == call[j].of.of
  <1>1. /\ call[j] \in Call /\ call[j].at = "billing" /\ Knows(call[j])
        /\ UNCHANGED <<payments, enrolled, status, stripe, history, faults>>
    BY DEF PaymentsInv, TypeOK, Known, SaveInvoice, At
  <1>2. call[j].of \in Events /\ call[j].of \in stripe.sent /\ call[j].of.type = Paid /\ i0 \in Invoices
    BY <1>1, Kinds DEF PaymentsInv, TypeOK, Knows, Delivering
  <1>3. CASE invoices' = invoices \cup {i0} /\ GoTo(j, "renewing")
    <2>1. PICK x : x = [call[j] EXCEPT !.at = "renewing"]
      OBVIOUS
    <2>2. /\ x \in Call /\ x.at = "renewing" /\ x.of = call[j].of
          /\ call' = [call EXCEPT ![j] = x]
      BY <1>1, <1>3, <2>1 DEF Call, Steps, GoTo
    <2>3. Grown
      BY <1>1, <1>3 DEF Grown, HasSession
    <2>4. TypeOK'
      BY <1>1, <1>2, <1>3, <2>2 DEF PaymentsInv, TypeOK, history
    <2>5. RowsOK' /\ StripeOK' /\ GrantsAreBacked' /\ AnswersMarked' /\ StatusWasReported'
      BY <1>1, <2>3, RowsLast, StripeLasts, GrantsLast, AnswersLast, StatusLasts DEF history
    <2>6. \A i \in Calls : call'[i] = IF i = j THEN x ELSE call[i]
      BY <2>2 DEF PaymentsInv, TypeOK
    <2>7. OnlyFaultsLoseGrants'
      BY <1>1, <2>6, LossesLast DEF history, Granting
    <2>8. x.of.of \in invoices'
      BY <1>3, <2>2
    <2>9. Knows(x)'
      BY <1>1, <1>2, <2>2, <2>8 DEF Knows, Granting, Verifying, Delivering
    <2>10. QED
      BY <1>1, <2>2, <2>3, <2>4, <2>5, <2>7, <2>9, Moves, NoneInserted
  <1>4. CASE GoTo(j, "failed") /\ UNCHANGED invoices
    BY <1>1, <1>4, Settles DEF PaymentsInv, TypeOK, tables, history, Granting
  <1>5. QED
    BY <1>3, <1>4 DEF SaveInvoice

\* The status of a subscription that is set to v.
LEMMA StatusMoves ==
    ASSUME PaymentsInv, UNCHANGED stripe, NEW u \in Subscriptions, NEW v \in Statuses,
           SetStatus(u, v) \/ status' = [status EXCEPT ![u] = v],
           v = "cancelled" => Event(Deleted, u) \in stripe.sent,
           v = "past_due" => \E i \in Invoices : stripe.bills[i] = u /\ Event(Unpaid, i) \in stripe.sent
    PROVE  status' \in [Subscriptions -> Statuses \cup {None}] /\ StatusWasReported'
  <1>1. status \in [Subscriptions -> Statuses \cup {None}] /\ StatusWasReported
    BY DEF PaymentsInv, TypeOK
  <1>2. PICK w \in {v, None} : status' = [status EXCEPT ![u] = w]
    BY DEF SetStatus
  <1>3. status' \in [Subscriptions -> Statuses \cup {None}]
    BY <1>1, <1>2
  <1>4. \A t \in Subscriptions : status'[t] = IF t = u THEN w ELSE status[t]
    BY <1>1, <1>2
  <1>5. None # "cancelled" /\ None # "past_due"
    BY KeysAssumption DEF Statuses
  <1>6. QED
    BY <1>1, <1>3, <1>4, <1>5 DEF StatusWasReported, Deleted, Unpaid

LEMMA RenewStep ==
    ASSUME PaymentsInv, NEW j \in Calls, Renew(j)
    PROVE  PaymentsInv'
  <1>1. /\ call[j] \in Call /\ call[j].at = "renewing" /\ Knows(call[j])
        /\ UNCHANGED <<payments, enrolled, invoices, stripe, history, faults>>
    BY DEF PaymentsInv, TypeOK, Known, Renew, At
  <1>2. /\ call[j].of \in Events /\ call[j].of \in stripe.sent /\ call[j].of.type = Paid
        /\ call[j].of.of \in Invoices
    BY <1>1, Kinds DEF PaymentsInv, TypeOK, Knows, Delivering
  <1>3. PICK u \in Subscriptions : u = stripe.bills[call[j].of.of]
    BY <1>2 DEF PaymentsInv, TypeOK, StripeOK
  <1>4. SetStatus(u, "active")
    BY <1>3 DEF Renew
  <1>5. status' \in [Subscriptions -> Statuses \cup {None}] /\ StatusWasReported'
    BY <1>1, <1>4, StatusMoves DEF Statuses
  <1>6. PICK x : x = [call[j] EXCEPT !.at = "marking"]
    OBVIOUS
  <1>7. x \in Call /\ x.at = "marking" /\ x.of = call[j].of /\ call' = [call EXCEPT ![j] = x]
    BY <1>1, <1>6 DEF Call, Steps, Renew, GoTo
  <1>8. Grown
    BY <1>1, NothingGrown
  <1>9. TypeOK'
    BY <1>1, <1>5, <1>7 DEF PaymentsInv, TypeOK, history
  <1>10. RowsOK' /\ StripeOK' /\ GrantsAreBacked' /\ AnswersMarked'
    BY <1>1, <1>8, RowsLast, StripeLasts, GrantsLast, AnswersLast DEF history
  <1>11. \A i \in Calls : call'[i] = IF i = j THEN x ELSE call[i]
    BY <1>7 DEF PaymentsInv, TypeOK
  <1>12. OnlyFaultsLoseGrants'
    BY <1>1, <1>11, LossesLast DEF history, Granting
  <1>13. Knows(x)'
    BY <1>1, <1>7 DEF Knows, Granting, Verifying, Delivering
  <1>14. QED
    BY <1>1, <1>5, <1>7, <1>8, <1>9, <1>10, <1>12, <1>13, Moves, NoneInserted

\* A mark is added for a key that has no row.
LEMMA MarkAdded ==
    ASSUME PaymentsInv, NEW p \in Payment, payments' = payments \cup {p}, ~HasKey(p.key),
           MarkRow(p), UNCHANGED <<invoices, stripe>>
    PROVE  /\ Grown /\ RowsOK' /\ StripeOK' /\ payments' \subseteq Payment
           /\ \A i \in Calls : At(i, "inserting") => \A q \in payments' : q.session # call[i].of
  <1>1. Grown
    BY DEF Grown, HasSession
  <1>2. MarkRow(p)'
    BY DEF MarkRow
  <1>3. p.session = None
    BY DEF MarkRow
  <1>4. RowsOK'
    BY <1>1, <1>2, <1>3, RowsGrow
  <1>5. StripeOK'
    BY <1>1, StripeLasts
  <1>6. ASSUME NEW i \in Calls, At(i, "inserting")
        PROVE  \A q \in payments' : q.session # call[i].of
    <2>1. call[i].of \in Sessions /\ \A q \in payments : q.session # call[i].of
      BY <1>6 DEF PaymentsInv, Known, Knows, At, HasSession
    <2>2. QED
      BY <1>3, <2>1, PaymentsAssumption
  <1>7. QED
    BY <1>1, <1>4, <1>5, <1>6 DEF PaymentsInv, TypeOK

LEMMA MarkStep ==
    ASSUME PaymentsInv, NEW j \in Calls, Mark(j)
    PROVE  PaymentsInv'
  <1> DEFINE e == call[j].of
             u == stripe.bills[e.of]
  <1>1. /\ call[j] \in Call /\ call[j].at = "marking" /\ Knows(call[j])
        /\ UNCHANGED <<enrolled, invoices, status, stripe, faults>>
    BY DEF PaymentsInv, TypeOK, Known, Mark, At
  <1>2. /\ e \in Events /\ e \in stripe.sent /\ e.type = Paid /\ e.of \in Invoices
        /\ e.of \in invoices /\ e \notin Sessions /\ e \in Keys
    BY <1>1, Kinds, KeysAssumption DEF PaymentsInv, TypeOK, Knows, Delivering, Keys
  <1>3. CASE /\ Insert([key |-> e, session |-> None, status |-> "completed",
                        learner |-> stripe.buyer[u].learner, course |-> None])
             /\ Answer(j) /\ UNCHANGED <<granted, lost>>
    <2>1. u \in Subscriptions /\ stripe.buyer[u] # None
      BY <1>2 DEF PaymentsInv, TypeOK, StripeOK
    <2>2. stripe.buyer[u].learner \in Learners
      BY <2>1 DEF PaymentsInv, TypeOK, Buyer
    <2>3. PICK p : p = [key |-> e, session |-> None, status |-> "completed",
                        learner |-> stripe.buyer[u].learner, course |-> None]
      OBVIOUS
    <2>4. p \in Payment /\ p.key = e /\ MarkRow(p) /\ p.course = None
      BY <1>2, <2>2, <2>3 DEF Payment, MarkRow
    <2>5. payments' = payments \cup {p} /\ ~HasKey(p.key)
      BY <1>3, <2>3 DEF Insert
    <2>6. /\ Grown /\ RowsOK' /\ StripeOK' /\ payments' \subseteq Payment
          /\ \A i \in Calls : At(i, "inserting") => \A q \in payments' : q.session # call[i].of
      BY <1>1, <2>4, <2>5, MarkAdded
    <2>7. PICK x : x = [call[j] EXCEPT !.at = "answered"]
      OBVIOUS
    <2>8. /\ x \in Call /\ x.at = "answered" /\ x.of = e /\ call' = [call EXCEPT ![j] = x]
          /\ answered' = answered \cup {e}
      BY <1>1, <1>2, <1>3, <2>7 DEF Call, Steps, Answer, GoTo
    <2>9. TypeOK'
      BY <1>1, <1>2, <1>3, <2>6, <2>8 DEF PaymentsInv, TypeOK
    <2>10. GrantsAreBacked' /\ StatusWasReported'
      BY <1>1, <1>3, <2>6, GrantsLast, StatusLasts
    <2>11. AnswersMarked'
      <3>1. ASSUME NEW i \in Invoices, Event(Paid, i) \in answered' \ answered
            PROVE  HasKey(Event(Paid, i))'
        <4>1. p \in payments' /\ p.key = Event(Paid, i)
          BY <2>4, <2>5, <2>8, <3>1
        <4>2. QED
          BY <4>1 DEF HasKey
      <3>2. QED
        BY <2>6, <3>1, AnswersLast
    <2>12. \A i \in Calls : call'[i] = IF i = j THEN x ELSE call[i]
      BY <2>8 DEF PaymentsInv, TypeOK
    <2>13. OnlyFaultsLoseGrants'
      BY <1>1, <1>3, <2>4, <2>5, <2>12, LossesLast DEF Granting
    <2>14. Knows(x)'
      BY <1>2, <2>8 DEF Knows, Granting, Verifying, Delivering
    <2>15. QED
      BY <2>6, <2>8, <2>9, <2>10, <2>11, <2>13, <2>14, Moves
  <1>4. CASE GoTo(j, "failed") /\ UNCHANGED <<payments, history>>
    BY <1>1, <1>4, Settles DEF PaymentsInv, TypeOK, tables, history, Granting
  <1>5. QED
    BY <1>3, <1>4 DEF Mark

LEMMA UpdateSubscriptionStep ==
    ASSUME PaymentsInv, NEW j \in Calls, UpdateSubscription(j)
    PROVE  PaymentsInv'
  <1> DEFINE e == call[j].of
  <1>1. /\ call[j] \in Call /\ call[j].at = "updating" /\ Knows(call[j]) /\ Answer(j)
        /\ UNCHANGED <<payments, enrolled, invoices, stripe, granted, lost, faults>>
    BY DEF PaymentsInv, TypeOK, Known, UpdateSubscription, At
  <1>2. e \in Events /\ e \in stripe.sent /\ e.type \in {Unpaid, Deleted} /\ e \notin Sessions
    BY <1>1, KeysAssumption DEF PaymentsInv, TypeOK, Knows, Delivering
  <1>3. status' \in [Subscriptions -> Statuses \cup {None}] /\ StatusWasReported'
    <2>1. CASE e.type = Unpaid
      <3>1. e = Event(Unpaid, e.of) /\ e.of \in Invoices
        BY <1>2, <2>1, Kinds
      <3>2. PICK u \in Subscriptions : u = stripe.bills[e.of]
        BY <1>2, <2>1, <3>1 DEF PaymentsInv, TypeOK, StripeOK
      <3>3. SetStatus(u, "past_due")
        BY <2>1, <3>2 DEF UpdateSubscription, Unpaid
      <3>4. QED
        BY <1>1, <1>2, <3>1, <3>2, <3>3, StatusMoves DEF Statuses
    <2>2. CASE e.type = Deleted
      <3>1. e = Event(Deleted, e.of) /\ e.of \in Subscriptions
        BY <1>2, <2>2, Kinds
      <3>2. SetStatus(e.of, "cancelled")
        BY <2>2 DEF UpdateSubscription, Deleted
      <3>3. QED
        BY <1>1, <1>2, <3>1, <3>2, StatusMoves DEF Statuses
    <2>3. QED
      BY <1>2, <2>1, <2>2
  <1>4. PICK x : x = [call[j] EXCEPT !.at = "answered"]
    OBVIOUS
  <1>5. /\ x \in Call /\ x.at = "answered" /\ x.of = e /\ call' = [call EXCEPT ![j] = x]
        /\ answered' = answered \cup {e}
    BY <1>1, <1>2, <1>4 DEF Call, Steps, Answer, GoTo
  <1>6. Grown
    BY <1>1, NothingGrown
  <1>7. TypeOK'
    BY <1>1, <1>2, <1>3, <1>5 DEF PaymentsInv, TypeOK
  <1>8. RowsOK' /\ StripeOK' /\ GrantsAreBacked'
    BY <1>1, <1>6, RowsLast, StripeLasts, GrantsLast
  <1>9. AnswersMarked'
    BY <1>2, <1>5, <1>6, AnswersLast DEF Event, Paid, Unpaid, Deleted
  <1>10. \A i \in Calls : call'[i] = IF i = j THEN x ELSE call[i]
    BY <1>5 DEF PaymentsInv, TypeOK
  <1>11. OnlyFaultsLoseGrants'
    BY <1>1, <1>10, LossesLast DEF Granting
  <1>12. Knows(x)'
    BY <1>2, <1>5 DEF Knows, Granting, Verifying, Delivering
  <1>13. QED
    BY <1>1, <1>3, <1>5, <1>6, <1>7, <1>8, <1>9, <1>11, <1>12, Moves, NoneInserted

----------------------------------------------------------------------------
(* the steps of Stellar payments and of enrollments *)

LEMMA RecordStellarStep ==
    ASSUME PaymentsInv, NEW j \in Calls, RecordStellar(j)
    PROVE  PaymentsInv'
  <1> DEFINE t == call[j].of
  <1>1. /\ call[j] \in Call /\ call[j].at = "recording" /\ Knows(call[j])
        /\ UNCHANGED <<enrolled, invoices, status, stripe, history, faults>>
    BY DEF PaymentsInv, TypeOK, Known, RecordStellar, At
  <1>2. /\ t \in Successful /\ t \in Transactions /\ t \in Keys
        /\ call[j].learner \in Learners /\ call[j].course \in Courses
    BY <1>1 DEF Knows, Verifying, Keys
  <1>3. CASE /\ Insert([key |-> t, session |-> None, status |-> "completed",
                        learner |-> call[j].learner, course |-> call[j].course])
             /\ GoTo(j, "granting")
    <2>1. PICK p : p = [key |-> t, session |-> None, status |-> "completed",
                        learner |-> call[j].learner, course |-> call[j].course]
      OBVIOUS
    <2>2. /\ p \in Payment /\ p.key = t /\ MarkRow(p) /\ p.status = "completed"
          /\ p.learner = call[j].learner /\ p.course = call[j].course
      BY <1>2, <2>1 DEF Payment, MarkRow
    <2>3. payments' = payments \cup {p} /\ ~HasKey(p.key)
      BY <1>3, <2>1 DEF Insert
    <2>4. /\ Grown /\ RowsOK' /\ StripeOK' /\ payments' \subseteq Payment
          /\ \A i \in Calls : At(i, "inserting") => \A q \in payments' : q.session # call[i].of
      BY <1>1, <2>2, <2>3, MarkAdded
    <2>5. PICK x : x = [call[j] EXCEPT !.at = "granting"]
      OBVIOUS
    <2>6. /\ x \in Call /\ x.at = "granting" /\ x.of = t /\ call' = [call EXCEPT ![j] = x]
          /\ x.learner = call[j].learner /\ x.course = call[j].course
      BY <1>1, <1>3, <2>5 DEF Call, Steps, GoTo
    <2>7. TypeOK'
      BY <1>1, <2>4, <2>6 DEF PaymentsInv, TypeOK, history
    <2>8. GrantsAreBacked' /\ AnswersMarked' /\ StatusWasReported'
      BY <1>1, <2>4, GrantsLast, AnswersLast, StatusLasts DEF history
    <2>9. \A i \in Calls : call'[i] = IF i = j THEN x ELSE call[i]
      BY <2>6 DEF PaymentsInv, TypeOK
    <2>10. OnlyFaultsLoseGrants'
      <3>1. t \in InGrant(Calls)'
        BY <2>6, <2>9 DEF InGrant
      <3>2. \A r \in payments' : r \in payments \/ r.key \in InGrant(Calls)'
        BY <2>2, <2>3, <3>1
      <3>3. QED
        BY <1>1, <2>9, <3>2, LossesLast DEF history, Granting
    <2>11. Knows(x)'
      <3>1. \E r \in payments' : r.key = x.of /\ r.status = "completed"
                                 /\ r.learner = x.learner /\ r.course = x.course
        BY <2>2, <2>3, <2>6
      <3>2. IsPaid(x.of, x.learner, x.course)'
        BY <3>1 DEF IsPaid
      <3>3. QED
        BY <1>2, <2>6, <3>2 DEF Knows, Granting, Verifying, Delivering
    <2>12. QED
      BY <2>4, <2>6, <2>7, <2>8, <2>10, <2>11, Moves
  <1>4. CASE GoTo(j, "failed") /\ UNCHANGED payments
    BY <1>1, <1>4, Settles DEF PaymentsInv, TypeOK, tables, history, Granting
  <1>5. QED
    BY <1>3, <1>4 DEF RecordStellar

LEMMA GrantSteps ==
    ASSUME PaymentsInv, NEW j \in Calls, call[j].at \in Granting, Grants(j), Answer(j),
           UNCHANGED <<payments, invoices, status, stripe, lost, faults>>,
           enrolled' \subseteq Learners \X Courses
    PROVE  PaymentsInv'
  <1> DEFINE k == call[j].of
  <1>1. /\ call[j] \in Call /\ call[j].learner \in Learners /\ call[j].course \in Courses
        /\ k \in Transactions \/ (k \in stripe.sent /\ k.type = Checkout)
        /\ IsPaid(k, call[j].learner, call[j].course)
    BY DEF PaymentsInv, TypeOK, Known, Knows
  <1>2. /\ k \in Keys /\ k \notin Sessions
        /\ k \in Events => k \in stripe.sent /\ k.type = Checkout
    BY <1>1, KeysAssumption DEF PaymentsInv, TypeOK, Keys
  <1>3. PICK g : g = [key |-> k, learner |-> call[j].learner, course |-> call[j].course]
    OBVIOUS
  <1>4. /\ g \in [key : Keys, learner : Learners, course : Courses]
        /\ g.key = k /\ g.learner = call[j].learner /\ g.course = call[j].course
        /\ granted' = granted \cup {g}
    BY <1>1, <1>2, <1>3 DEF Grants
  <1>5. PICK x : x = [call[j] EXCEPT !.at = "answered"]
    OBVIOUS
  <1>6. /\ x \in Call /\ x.at = "answered" /\ x.of = k /\ call' = [call EXCEPT ![j] = x]
        /\ answered' = IF k \in Events THEN answered \cup {k} ELSE answered
    BY <1>1, <1>5 DEF Call, Steps, Answer, GoTo
  <1>7. Grown
    BY NothingGrown
  <1>8. TypeOK'
    BY <1>4, <1>6 DEF PaymentsInv, TypeOK
  <1>9. RowsOK' /\ StripeOK' /\ StatusWasReported'
    BY <1>7, RowsLast, StripeLasts, StatusLasts
  <1>10. GrantsAreBacked'
    BY <1>1, <1>2, <1>4 DEF PaymentsInv, GrantsAreBacked, IsPaid
  <1>11. AnswersMarked'
    BY <1>2, <1>6, <1>7, AnswersLast DEF Event, Paid, Checkout
  <1>12. \A i \in Calls : call'[i] = IF i = j THEN x ELSE call[i]
    BY <1>6 DEF PaymentsInv, TypeOK
  <1>13. OnlyFaultsLoseGrants'
    BY <1>4, <1>12, LossesLast
  <1>14. Knows(x)'
    BY <1>2, <1>6 DEF Knows, Granting, Verifying, Delivering
  <1>15. QED
    BY <1>6, <1>7, <1>8, <1>9, <1>10, <1>11, <1>13, <1>14, Moves, NoneInserted

LEMMA EnrollSteps ==
    ASSUME PaymentsInv, NEW j \in Calls, FindEnrollment(j) \/ Enroll(j)
    PROVE  PaymentsInv'
  <1>1. /\ call[j] \in Call /\ Knows(call[j]) /\ call[j].at \in Granting
        /\ call[j].learner \in Learners /\ call[j].course \in Courses
    BY DEF PaymentsInv, TypeOK, Known, Knows, FindEnrollment, Enroll, At, Granting
  <1>2. CASE Enroll(j)
    <2>1. enrolled' \subseteq Learners \X Courses
      BY <1>1, <1>2 DEF Enroll, PaymentsInv, TypeOK
    <2>2. QED
      BY <1>1, <1>2, <2>1, GrantSteps DEF Enroll
  <1>3. CASE FindEnrollment(j) /\ Grants(j) /\ Answer(j) /\ lost' = lost
    <2>1. enrolled' \subseteq Learners \X Courses
      BY <1>3 DEF FindEnrollment, PaymentsInv, TypeOK, tables
    <2>2. QED
      BY <1>1, <1>3, <2>1, GrantSteps DEF FindEnrollment, tables
  <1>4. CASE FindEnrollment(j) /\ GoTo(j, "enrolling") /\ UNCHANGED history
    <2>1. PICK x : x = [call[j] EXCEPT !.at = "enrolling"]
      OBVIOUS
    <2>2. /\ x \in Call /\ x.at = "enrolling" /\ x.of = call[j].of /\ call' = [call EXCEPT ![j] = x]
          /\ x.learner = call[j].learner /\ x.course = call[j].course
      BY <1>1, <1>4, <2>1 DEF Call, Steps, GoTo
    <2>3. Knows(x)
      BY <1>1, <2>2 DEF Knows, Granting, Verifying, Delivering
    <2>4. QED
      BY <1>4, <2>2, <2>3, Quiet DEF FindEnrollment, Granting
  <1>5. QED
    BY <1>2, <1>3, <1>4 DEF FindEnrollment

----------------------------------------------------------------------------
(* the steps of createSubscription and cancelSubscription *)

LEMMA OpenSubscriptionStep ==
    ASSUME PaymentsInv, NEW j \in Calls, OpenSubscription(j)
    PROVE  PaymentsInv'
  <1>1. /\ call[j] \in Call /\ call[j].learner \in Learners /\ call[j].at = "subscribing"
        /\ UNCHANGED <<tables, history>>
    BY DEF PaymentsInv, TypeOK, Known, Knows, OpenSubscription, At
  <1>2. PICK u \in Subscriptions :
          /\ stripe.buyer[u] = None
          /\ Opens(u, [learner |-> call[j].learner, course |-> None])
          /\ \/ call' = [call EXCEPT ![j].at = "storing", ![j].of = u] /\ UNCHANGED faults
             \/ GoTo(j, "failed") /\ Fault
    BY DEF OpenSubscription
  <1>3. PICK b \in Buyer : b = [learner |-> call[j].learner, course |-> None]
    BY <1>1, BuyerSome
  <1>4. PICK x : /\ x \in Call /\ call' = [call EXCEPT ![j] = x]
                 /\ x.at = "failed" \/ (x.at = "storing" /\ x.of = u)
    <2>1. CASE call' = [call EXCEPT ![j].at = "storing", ![j].of = u]
      <3>1. PICK y : y = [call[j] EXCEPT !.at = "storing", !.of = u]
        OBVIOUS
      <3>2. y \in Call /\ y.at = "storing" /\ y.of = u /\ call' = [call EXCEPT ![j] = y]
        BY <1>1, <2>1, <3>1 DEF Call, Steps
      <3>3. QED
        BY <3>2
    <2>2. CASE GoTo(j, "failed")
      <3>1. PICK y : y = [call[j] EXCEPT !.at = "failed"]
        OBVIOUS
      <3>2. y \in Call /\ y.at = "failed" /\ call' = [call EXCEPT ![j] = y]
        BY <1>1, <2>2, <3>1 DEF Call, Steps, GoTo
      <3>3. QED
        BY <3>2
    <2>3. QED
      BY <1>2, <2>1, <2>2
  <1>5. /\ stripe'.buyer = [stripe.buyer EXCEPT ![u] = b]
        /\ stripe'.bills = stripe.bills /\ stripe'.sent = stripe.sent
        /\ stripe' \in [buyer : [Sessions \cup Subscriptions -> Buyer \cup {None}],
                        bills : [Invoices -> Subscriptions \cup {None}],
                        sent  : SUBSET Events]
    BY <1>2, <1>3 DEF Opens, PaymentsInv, TypeOK
  <1>6. stripe.buyer \in [Sessions \cup Subscriptions -> Buyer \cup {None}]
        /\ stripe.bills \in [Invoices -> Subscriptions \cup {None}]
    BY DEF PaymentsInv, TypeOK
  <1>7. Grown
    BY <1>1, <1>2, <1>5, <1>6 DEF Grown, HasSession, tables
  <1>8. faults' \in 0 .. MaxFaults
    BY <1>2, PaymentsAssumption DEF Fault, PaymentsInv, TypeOK
  <1>9. TypeOK'
    BY <1>1, <1>4, <1>5, <1>8 DEF PaymentsInv, TypeOK, tables, history
  <1>10. RowsOK' /\ GrantsAreBacked' /\ AnswersMarked' /\ StatusWasReported'
    BY <1>1, <1>7, RowsLast, GrantsLast, AnswersLast, StatusLasts DEF tables, history
  <1>11. StripeOK'
    BY <1>1, <1>3, <1>5, <1>6, KeysAssumption DEF PaymentsInv, StripeOK, HasSession, tables
  <1>12. \A i \in Calls : call'[i] = IF i = j THEN x ELSE call[i]
    BY <1>4 DEF PaymentsInv, TypeOK
  <1>13. OnlyFaultsLoseGrants'
    BY <1>1, <1>12, LossesLast DEF tables, history, Granting
  <1>14. Knows(x)'
    BY <1>4 DEF Knows, Granting, Verifying, Delivering
  <1>15. QED
    BY <1>1, <1>4, <1>7, <1>9, <1>10, <1>11, <1>13, <1>14, Moves, NoneInserted DEF tables

LEMMA StoreSteps ==
    ASSUME PaymentsInv, NEW j \in Calls, StoreSubscription(j) \/ SaveCancelled(j)
    PROVE  PaymentsInv'
  <1>1. /\ call[j] \in Call /\ call[j].of \in Subscriptions
        /\ call[j].at \in {"storing", "closing"}
        /\ call[j].at = "closing" => Event(Deleted, call[j].of) \in stripe.sent
        /\ GoTo(j, "answered")
        /\ UNCHANGED <<payments, enrolled, invoices, stripe, history, faults>>
    BY DEF PaymentsInv, TypeOK, Known, Knows, StoreSubscription, SaveCancelled, At
  <1>2. status' \in [Subscriptions -> Statuses \cup {None}] /\ StatusWasReported'
    <2>1. CASE StoreSubscription(j)
      BY <1>1, <2>1, StatusMoves DEF StoreSubscription, Statuses
    <2>2. CASE SaveCancelled(j)
      BY <1>1, <2>2, StatusMoves DEF SaveCancelled, Statuses, At
    <2>3. QED
      BY <2>1, <2>2
  <1>3. PICK x : x = [call[j] EXCEPT !.at = "answered"]
    OBVIOUS
  <1>4. x \in Call /\ x.at = "answered" /\ x.of \in Subscriptions /\ call' = [call EXCEPT ![j] = x]
    BY <1>1, <1>3 DEF Call, Steps, GoTo
  <1>5. Grown
    BY <1>1, NothingGrown
  <1>6. TypeOK'
    BY <1>1, <1>2, <1>4 DEF PaymentsInv, TypeOK, history
  <1>7. RowsOK' /\ StripeOK' /\ GrantsAreBacked' /\ AnswersMarked'
    BY <1>1, <1>5, RowsLast, StripeLasts, GrantsLast, AnswersLast DEF history
  <1>8. \A i \in Calls : call'[i] = IF i = j THEN x ELSE call[i]
    BY <1>4 DEF PaymentsInv, TypeOK
  <1>9. OnlyFaultsLoseGrants'
    BY <1>1, <1>8, LossesLast DEF history, Granting
  <1>10. Knows(x)'
    BY <1>4, KeysAssumption DEF Knows, Granting, Verifying, Delivering
  <1>11. QED
    BY <1>1, <1>2, <1>4, <1>5, <1>6, <1>7, <1>9, <1>10, Moves, NoneInserted

\* Stripe sends e, and nothing else of it changes.
LEMMA SentMore ==
    ASSUME PaymentsInv, NEW e \in Events, Sends(e), UNCHANGED <<payments, invoices>>,
           e.type \in {Checkout, Deleted}, e.type = Checkout => HasSession(e.of)
    PROVE  /\ Grown /\ StripeOK' /\ e \in stripe'.sent
           /\ stripe' \in [buyer : [Sessions \cup Subscriptions -> Buyer \cup {None}],
                           bills : [Invoices -> Subscriptions \cup {None}],
                           sent  : SUBSET Events]
  <1>1. /\ stripe'.buyer = stripe.buyer /\ stripe'.bills = stripe.bills
        /\ stripe'.sent = stripe.sent \cup {e}
        /\ stripe' \in [buyer : [Sessions \cup Subscriptions -> Buyer \cup {None}],
                        bills : [Invoices -> Subscriptions \cup {None}],
                        sent  : SUBSET Events]
    BY DEF Sends, PaymentsInv, TypeOK
  <1>2. Grown
    BY <1>1 DEF Grown, HasSession
  <1>3. StripeOK'
    BY <1>1 DEF PaymentsInv, StripeOK, HasSession, Checkout, Paid, Unpaid, Deleted
  <1>4. QED
    BY <1>1, <1>2, <1>3

LEMMA CancelAtStripeStep ==
    ASSUME PaymentsInv, NEW j \in Calls, CancelAtStripe(j)
    PROVE  PaymentsInv'
  <1> DEFINE e == Event("customer.subscription.deleted", call[j].of)
  <1>1. /\ call[j] \in Call /\ call[j].of \in Subscriptions /\ call[j].at = "cancelling"
        /\ UNCHANGED <<tables, history>>
    BY DEF PaymentsInv, TypeOK, Known, Knows, CancelAtStripe, At
  <1>2. e \in Events /\ e.type = Deleted /\ e = Event(Deleted, call[j].of)
    BY <1>1, Made DEF Event, Deleted
  <1>3. CASE Sends(e) /\ \/ GoTo(j, "closing") /\ UNCHANGED faults
                         \/ GoTo(j, "failed") /\ Fault
    <2>1. PICK d : d = e
      OBVIOUS
    <2>2. /\ Grown /\ StripeOK' /\ d \in stripe'.sent
          /\ stripe' \in [buyer : [Sessions \cup Subscriptions -> Buyer \cup {None}],
                          bills : [Invoices -> Subscriptions \cup {None}],
                          sent  : SUBSET Events]
      BY <1>1, <1>2, <1>3, <2>1, SentMore DEF tables, Checkout, Deleted
    <2>3. PICK step \in {"closing", "failed"} : GoTo(j, step)
      BY <1>3
    <2>4. PICK x : x = [call[j] EXCEPT !.at = step]
      OBVIOUS
    <2>5. x \in Call /\ x.at = step /\ x.of = call[j].of /\ call' = [call EXCEPT ![j] = x]
      BY <1>1, <2>3, <2>4 DEF Call, Steps, GoTo
    <2>6. faults' \in 0 .. MaxFaults
      BY <1>3, PaymentsAssumption DEF Fault, PaymentsInv, TypeOK
    <2>7. TypeOK'
      BY <1>1, <2>2, <2>5, <2>6 DEF PaymentsInv, TypeOK, tables, history
    <2>8. RowsOK' /\ GrantsAreBacked' /\ AnswersMarked' /\ StatusWasReported'
      BY <1>1, <2>2, RowsLast, GrantsLast, AnswersLast, StatusLasts DEF tables, history
    <2>9. \A i \in Calls : call'[i] = IF i = j THEN x ELSE call[i]
      BY <2>5 DEF PaymentsInv, TypeOK
    <2>10. OnlyFaultsLoseGrants'
      BY <1>1, <2>9, LossesLast DEF tables, history, Granting
    <2>11. d = Event(Deleted, x.of)
      BY <1>2, <2>1, <2>5
    <2>12. Knows(x)'
      BY <1>1, <2>2, <2>5, <2>11 DEF Knows, Granting, Verifying, Delivering
    <2>13. QED
      BY <1>1, <2>2, <2>5, <2>7, <2>8, <2>10, <2>12, Moves, NoneInserted DEF tables
  <1>4. CASE GoTo(j, "failed") /\ UNCHANGED <<stripe, faults>>
    BY <1>1, <1>4, Settles DEF PaymentsInv, TypeOK, history, Granting
  <1>5. QED
    BY <1>3, <1>4 DEF CancelAtStripe

----------------------------------------------------------------------------
(* the steps of Stripe, of others and of crashes *)

LEMMA Stays ==
    ASSUME PaymentsInv, Grown, StripeOK', UNCHANGED <<payments, invoices, status, call, history, faults>>,
           enrolled' \subseteq Learners \X Courses,
           stripe' \in [buyer : [Sessions \cup Subscriptions -> Buyer \cup {None}],
                        bills : [Invoices -> Subscriptions \cup {None}],
                        sent  : SUBSET Events]
    PROVE  PaymentsInv'
  <1>1. TypeOK'
    BY DEF PaymentsInv, TypeOK, history
  <1>2. RowsOK' /\ GrantsAreBacked' /\ AnswersMarked' /\ StatusWasReported'
    BY RowsLast, GrantsLast, AnswersLast, StatusLasts DEF history
  <1>3. OnlyFaultsLoseGrants'
    BY LossesLast DEF history
  <1>4. ASSUME NEW i \in Calls PROVE Known(i)'
    <2>1. PICK c \in Call : c = call[i]
      BY DEF PaymentsInv, TypeOK
    <2>2. Knows(c)
      BY <2>1 DEF PaymentsInv, Known, Knows
    <2>3. c.at = "inserting" => ~HasSession(c.of)'
      BY <2>2 DEF Knows, HasSession
    <2>4. Knows(c)' /\ call'[i] = c
      BY <2>1, <2>2, <2>3, KnowsLasts
    <2>5. QED
      BY <2>4 DEF Known, Knows
  <1>5. InsertsApart'
    BY DEF PaymentsInv, InsertsApart, At
  <1>6. QED
    BY <1>1, <1>2, <1>3, <1>4, <1>5 DEF PaymentsInv

LEMMA ChangeEnrollmentStep ==
    ASSUME PaymentsInv, NEW p \in Learners \X Courses, ChangeEnrollment(p)
    PROVE  PaymentsInv'
  <1>1. UNCHANGED <<payments, invoices, status, stripe, call, history, faults>>
    BY DEF ChangeEnrollment
  <1>2. Grown /\ StripeOK'
    BY <1>1, NothingGrown, StripeLasts
  <1>3. /\ enrolled' \subseteq Learners \X Courses
        /\ stripe' \in [buyer : [Sessions \cup Subscriptions -> Buyer \cup {None}],
                        bills : [Invoices -> Subscriptions \cup {None}],
                        sent  : SUBSET Events]
    BY <1>1 DEF ChangeEnrollment, PaymentsInv, TypeOK
  <1>4. QED
    BY <1>1, <1>2, <1>3, Stays

LEMMA CustomerPaysStep ==
    ASSUME PaymentsInv, NEW s \in Sessions, CustomerPays(s)
    PROVE  PaymentsInv'
  <1>1. HasSession(s) /\ UNCHANGED <<tables, call, history, faults>>
    BY DEF CustomerPays, PaymentsInv, Known, Knows, At
  <1>2. PICK e \in Events : e = Event(Checkout, s)
    BY Made
  <1>3. e.type = Checkout /\ e.of = s /\ Sends(e)
    BY <1>2 DEF Event, CustomerPays, Checkout
  <1>4. /\ Grown /\ StripeOK'
        /\ stripe' \in [buyer : [Sessions \cup Subscriptions -> Buyer \cup {None}],
                        bills : [Invoices -> Subscriptions \cup {None}],
                        sent  : SUBSET Events]
    BY <1>1, <1>3, SentMore DEF tables
  <1>5. enrolled' \subseteq Learners \X Courses
    BY <1>1 DEF PaymentsInv, TypeOK, tables
  <1>6. QED
    BY <1>1, <1>4, <1>5, Stays DEF tables

LEMMA EndSubscriptionStep ==
    ASSUME PaymentsInv, NEW u \in Subscriptions, EndSubscription(u)
    PROVE  PaymentsInv'
  <1>1. UNCHANGED <<tables, call, history, faults>>
    BY DEF EndSubscription
  <1>2. PICK e \in Events : e = Event(Deleted, u)
    BY Made
  <1>3. e.type = Deleted /\ Deleted # Checkout /\ Sends(e)
    BY <1>2 DEF Event, EndSubscription, Deleted, Checkout
  <1>4. /\ Grown /\ StripeOK'
        /\ stripe' \in [buyer : [Sessions \cup Subscriptions -> Buyer \cup {None}],
                        bills : [Invoices -> Subscriptions \cup {None}],
                        sent  : SUBSET Events]
    BY <1>1, <1>3, SentMore DEF tables
  <1>5. enrolled' \subseteq Learners \X Courses
    BY <1>1 DEF PaymentsInv, TypeOK, tables
  <1>6. QED
    BY <1>1, <1>4, <1>5, Stays DEF tables

LEMMA BillStep ==
    ASSUME PaymentsInv, NEW i \in Invoices, NEW u \in Subscriptions, Bill(i, u)
    PROVE  PaymentsInv'
  <1>1. /\ UNCHANGED <<tables, call, history, faults>>
        /\ stripe.buyer[u] # None /\ stripe.bills[i] \in {None, u}
    BY DEF Bill
  <1>2. PICK e \in Events : /\ e.type \in {Paid, Unpaid} /\ e.of = i
                            /\ stripe' = [stripe EXCEPT !.bills[i] = u, !.sent = @ \cup {e}]
    <2>1. PICK type \in {Paid, Unpaid} :
            stripe' = [stripe EXCEPT !.bills[i] = u, !.sent = @ \cup {Event(type, i)}]
      BY DEF Bill, Paid, Unpaid
    <2>2. Event(type, i) \in Events /\ Event(type, i).type = type /\ Event(type, i).of = i
      BY Made DEF Event
    <2>3. QED
      BY <2>1, <2>2
  <1>3. /\ stripe.bills \in [Invoices -> Subscriptions \cup {None}]
        /\ stripe \in [buyer : [Sessions \cup Subscriptions -> Buyer \cup {None}],
                       bills : [Invoices -> Subscriptions \cup {None}],
                       sent  : SUBSET Events]
    BY DEF PaymentsInv, TypeOK
  <1>4. /\ stripe'.buyer = stripe.buyer /\ stripe'.bills = [stripe.bills EXCEPT ![i] = u]
        /\ stripe'.sent = stripe.sent \cup {e}
    BY <1>2, <1>3
  <1>5. stripe' \in [buyer : [Sessions \cup Subscriptions -> Buyer \cup {None}],
                     bills : [Invoices -> Subscriptions \cup {None}],
                     sent  : SUBSET Events]
    BY <1>2, <1>3
  <1>6. Grown
    BY <1>1, <1>3, <1>4 DEF Grown, HasSession, tables
  <1>7. StripeOK'
    <2>1. u # None
      BY PaymentsAssumption
    <2>2. \A f \in stripe'.sent : f.type = Checkout => HasSession(f.of)'
      BY <1>1, <1>2, <1>4 DEF PaymentsInv, StripeOK, HasSession, tables, Checkout, Paid, Unpaid
    <2>3. ASSUME NEW f \in stripe'.sent, f.type \in {Paid, Unpaid} PROVE stripe'.bills[f.of] # None
      <3>1. CASE f = e
        BY <1>2, <1>3, <1>4, <2>1, <3>1
      <3>2. CASE f \in stripe.sent
        <4>1. f.of \in Invoices /\ stripe.bills[f.of] # None
          BY <1>3, <2>3, <3>2, Kinds DEF PaymentsInv, StripeOK
        <4>2. QED
          BY <1>3, <1>4, <2>1, <4>1
      <3>3. QED
        BY <1>4, <3>1, <3>2
    <2>4. \A h \in Invoices : stripe'.bills[h] # None => stripe'.buyer[stripe'.bills[h]] # None
      BY <1>1, <1>3, <1>4 DEF PaymentsInv, StripeOK
    <2>5. QED
      BY <2>2, <2>3, <2>4 DEF StripeOK
  <1>8. enrolled' \subseteq Learners \X Courses
    BY <1>1 DEF PaymentsInv, TypeOK, tables
  <1>9. QED
    BY <1>1, <1>5, <1>6, <1>7, <1>8, Stays DEF tables

LEMMA CrashStep ==
    ASSUME PaymentsInv, Crash
    PROVE  PaymentsInv'
  <1>1. UNCHANGED <<tables, stripe, granted, answered>> /\ lost' = lost \cup InGrant(Calls)
    BY DEF Crash
  <1>2. \A i \in Calls : /\ call[i] \in Call /\ Knows(call[i])
                         /\ call'[i] = IF At(i, "idle") \/ Settled(i) THEN call[i]
                                       ELSE [call[i] EXCEPT !.at = "failed"]
    BY DEF Crash, PaymentsInv, TypeOK, Known
  <1>3. ASSUME NEW i \in Calls
        PROVE  call'[i] \in Call /\ (call'[i] = call[i] \/ call'[i].at = "failed")
    <2>1. CASE call'[i] = call[i]
      BY <1>2, <2>1
    <2>2. CASE call'[i] = [call[i] EXCEPT !.at = "failed"]
      BY <1>2, <2>2 DEF Call, Steps
    <2>3. QED
      BY <1>2, <2>1, <2>2
  <1>4. Grown
    BY <1>1, NothingGrown DEF tables
  <1>5. InGrant(Calls) \subseteq Keys
    <2>1. ASSUME NEW i \in Calls, call[i].at \in Granting PROVE call[i].of \in Keys
      <3>1. call[i].of \in Transactions \/ call[i].of \in stripe.sent
        BY <1>2, <2>1 DEF Knows
      <3>2. QED
        BY <3>1 DEF PaymentsInv, TypeOK, Keys
    <2>2. QED
      BY <2>1 DEF InGrant, Granting
  <1>6. TypeOK'
    <2>1. faults' \in 0 .. MaxFaults
      BY PaymentsAssumption DEF Crash, Fault, PaymentsInv, TypeOK
    <2>2. call' \in [Calls -> Call]
      <3>1. call' = [i \in Calls |-> call'[i]]
        BY DEF Crash
      <3>2. QED
        BY <1>3, <3>1
    <2>3. QED
      BY <1>1, <1>5, <2>1, <2>2 DEF PaymentsInv, TypeOK, tables
  <1>7. RowsOK' /\ StripeOK' /\ GrantsAreBacked' /\ AnswersMarked' /\ StatusWasReported'
    BY <1>1, <1>4, RowsLast, StripeLasts, GrantsLast, AnswersLast, StatusLasts DEF tables
  <1>8. OnlyFaultsLoseGrants'
    <2>1. \A i \in Calls : call[i].at \in Granting => call[i].of \in lost'
      BY <1>1 DEF InGrant, Granting
    <2>2. QED
      BY <1>1, <2>1, LossesLast DEF tables
  <1>9. ASSUME NEW i \in Calls PROVE Known(i)'
    <2>1. CASE call'[i] = call[i]
      <3>1. PICK c \in Call : c = call[i]
        BY <1>2
      <3>2. Knows(c)
        BY <1>2, <3>1 DEF Knows
      <3>3. c.at = "inserting" => ~HasSession(c.of)'
        BY <1>1, <3>2 DEF Knows, HasSession, tables
      <3>4. Knows(c)' /\ call'[i] = c
        BY <1>4, <2>1, <3>1, <3>2, <3>3, KnowsLasts
      <3>5. QED
        BY <3>4 DEF Known, Knows
    <2>2. CASE call'[i].at = "failed"
      BY <2>2 DEF Known, Knows, Granting, Verifying, Delivering
    <2>3. QED
      BY <1>3, <2>1, <2>2
  <1>10. InsertsApart'
    BY <1>3 DEF PaymentsInv, InsertsApart, At
  <1>11. QED
    BY <1>6, <1>7, <1>8, <1>9, <1>10 DEF PaymentsInv

----------------------------------------------------------------------------
(* the invariant *)

LEMMA InitHolds == Init => PaymentsInv
  <1> SUFFICES ASSUME Init PROVE PaymentsInv
    OBVIOUS
  <1>1. /\ stripe.buyer = [y \in Sessions \cup Subscriptions |-> None]
        /\ stripe.bills = [i \in Invoices |-> None] /\ stripe.sent = {}
        /\ \A i \in Calls : call[i] = Idle
    BY DEF Init
  <1>2. Idle \in Call
    BY DEF Idle, Call, Steps
  <1>3. TypeOK
    BY <1>2, PaymentsAssumption DEF Init, TypeOK
  <1>4. RowsOK /\ StripeOK
    BY <1>1 DEF Init, RowsOK, StripeOK
  <1>5. GrantsAreBacked /\ OnlyFaultsLoseGrants /\ AnswersMarked
    BY DEF Init, GrantsAreBacked, OnlyFaultsLoseGrants, AnswersMarked
  <1>6. StatusWasReported
    BY KeysAssumption DEF Init, StatusWasReported, Statuses
  <1>7. \A i \in Calls : Known(i)
    BY <1>1 DEF Known, Knows, Idle, Granting, Verifying, Delivering
  <1>8. InsertsApart
    BY <1>1 DEF InsertsApart, At, Idle
  <1>9. QED
    BY <1>3, <1>4, <1>5, <1>6, <1>7, <1>8 DEF PaymentsInv

LEMMA CallSteps ==
    ASSUME PaymentsInv, NEW j \in Calls, Arrive(j) \/ Step(j) \/ Throw(j)
    PROVE  PaymentsInv'
  <1>1. CASE Arrive(j)
    BY <1>1, StartSteps, DeliverStep DEF Arrive
  <1>2. CASE Step(j)
    BY <1>2, LookSteps, OpenSessionStep, InsertPendingStep, CheckMarkerStep,
       CompletePaymentStep, FindInvoiceStep, SaveInvoiceStep, RenewStep, MarkStep,
       UpdateSubscriptionStep, RecordStellarStep, EnrollSteps, OpenSubscriptionStep,
       StoreSteps, FindActiveStep, CancelAtStripeStep DEF Step
  <1>3. CASE Throw(j)
    BY <1>3, ThrowStep
  <1>4. QED
    BY <1>1, <1>2, <1>3

LEMMA StutterHolds == PaymentsInv /\ UNCHANGED vars => PaymentsInv'
  <1> SUFFICES ASSUME PaymentsInv, UNCHANGED vars PROVE PaymentsInv'
    OBVIOUS
  <1>1. UNCHANGED <<payments, enrolled, invoices, status, stripe, call, history, faults>>
    BY DEF vars, history
  <1>2. Grown /\ StripeOK'
    BY <1>1, NothingGrown, StripeLasts
  <1>3. /\ enrolled' \subseteq Learners \X Courses
        /\ stripe' \in [buyer : [Sessions \cup Subscriptions -> Buyer \cup {None}],
                        bills : [Invoices -> Subscriptions \cup {None}],
                        sent  : SUBSET Events]
    BY <1>1 DEF PaymentsInv, TypeOK
  <1>4. QED
    BY <1>1, <1>2, <1>3, Stays

LEMMA NextHolds == PaymentsInv /\ [Next]_vars => PaymentsInv'
  BY CallSteps, ChangeEnrollmentStep, CustomerPaysStep, BillStep, EndSubscriptionStep,
     CrashStep, StutterHolds DEF Next

LEMMA InvHolds == Spec => []PaymentsInv
  BY InitHolds, NextHolds, PTL DEF Spec

----------------------------------------------------------------------------
(* the theorems *)

\* Every reachable state of payments.service.ts's tables, of Stripe and of the
\* requests and deliveries has its type.
THEOREM TypeCorrect == Spec => []TypeOK
  <1>1. PaymentsInv => TypeOK
    BY DEF PaymentsInv
  <1>2. QED
    BY <1>1, InvHolds, PTL

\* grantEnrollment never works for two learners or two courses on the strength of
\* one payment: its key is that of one row, and the row says for whom it was made.
THEOREM OnePaymentOneEnrollment == Spec => []PaymentFundsOneEnrollment
  <1>1. ASSUME PaymentsInv PROVE PaymentFundsOneEnrollment
    <2> SUFFICES ASSUME NEW g \in granted, NEW h \in granted, g.key = h.key PROVE g = h
      BY DEF PaymentFundsOneEnrollment
    <2>1. PICK p \in payments : p.key = g.key /\ p.learner = g.learner /\ p.course = g.course
      BY <1>1 DEF PaymentsInv, GrantsAreBacked, IsPaid
    <2>2. PICK q \in payments : q.key = h.key /\ q.learner = h.learner /\ q.course = h.course
      BY <1>1 DEF PaymentsInv, GrantsAreBacked, IsPaid
    <2>3. p = q
      BY <1>1, <2>1, <2>2 DEF PaymentsInv, RowsOK
    <2>4. \A r \in granted : r \in [key : Keys, learner : Learners, course : Courses]
      BY <1>1 DEF PaymentsInv, TypeOK
    <2>5. QED
      BY <2>1, <2>2, <2>3, <2>4
  <1>2. QED
    BY <1>1, InvHolds, PTL

\* Whatever grantEnrollment brought about has its completed row; the row of a checkout
\* is of a session that this learner opened for this course and Stripe reported paid,
\* the row of a Stellar payment is of a transaction that was applied.
THEOREM NothingGrantedUnpaid == Spec => []GrantsWerePaid
  <1>1. ASSUME PaymentsInv PROVE GrantsWerePaid
    <2> SUFFICES ASSUME NEW g \in granted
                 PROVE  /\ IsPaid(g.key, g.learner, g.course)
                        /\ IF g.key \in Events
                           THEN /\ g.key \in stripe.sent /\ g.key.type = Checkout
                                /\ stripe.buyer[g.key.of]
                                     = [learner |-> g.learner, course |-> g.course]
                           ELSE g.key \in Successful
      BY DEF GrantsWerePaid, IsPaid, Checkout
    <2>1. PICK p \in payments : /\ p.key = g.key /\ p.status = "completed"
                                /\ p.learner = g.learner /\ p.course = g.course
      BY <1>1 DEF PaymentsInv, GrantsAreBacked, IsPaid
    <2>2. g.course # None
      BY <1>1, PaymentsAssumption DEF PaymentsInv, TypeOK
    <2>3. CASE SessionRow(p)
      <3>1. g.key = Event(Checkout, p.session) /\ g.key \in stripe.sent
        BY <2>1, <2>3 DEF SessionRow
      <3>2. g.key.type = Checkout /\ g.key.of = p.session /\ g.key \in Events
        BY <2>3, <3>1, Made DEF Event, SessionRow
      <3>3. QED
        BY <2>1, <2>3, <3>1, <3>2 DEF SessionRow, IsPaid
    <2>4. CASE MarkRow(p)
      <3>1. g.key \in Successful
        BY <2>1, <2>2, <2>4 DEF MarkRow
      <3>2. g.key \notin Events
        BY <3>1, KeysAssumption, PaymentsAssumption
      <3>3. QED
        BY <2>1, <3>1, <3>2 DEF IsPaid
    <2>5. QED
      BY <1>1, <2>3, <2>4 DEF PaymentsInv, RowsOK
  <1>2. QED
    BY <1>1, InvHolds, PTL

\* A completed payment for a course is granted, being granted, or was hit by a fault
\* during its grant: no overlap or redelivery loses it.
THEOREM GrantsAreLostToFaultsOnly == Spec => []OnlyFaultsLoseGrants
  <1>1. PaymentsInv => OnlyFaultsLoseGrants
    BY DEF PaymentsInv
  <1>2. QED
    BY <1>1, InvHolds, PTL

\* The event of a paid invoice is answered only with its marker, and marked only
\* with its invoice in the table.
THEOREM InvoicesAreRecorded == Spec => []AnsweredInvoicesAreRecorded
  <1>1. ASSUME PaymentsInv PROVE AnsweredInvoicesAreRecorded
    <2>1. \A i \in Invoices : HasKey(Event(Paid, i)) => i \in invoices
      BY <1>1, MarkTold
    <2>2. QED
      BY <1>1, <2>1 DEF PaymentsInv, AnswersMarked, AnsweredInvoicesAreRecorded, Paid
  <1>2. QED
    BY <1>1, InvHolds, PTL

\* A subscription is cancelled or past due in the table only after Stripe said so.
THEOREM StatusesAreStripes == Spec => []StatusWasReported
  <1>1. PaymentsInv => StatusWasReported
    BY DEF PaymentsInv
  <1>2. QED
    BY <1>1, InvHolds, PTL
=============================================================================
