----------------------- MODULE WebhookDelivery_proofs ------------------------
(***************************************************************************)
(* What rows may say, whatever workers overlap, for any events, webhooks,  *)
(* sweeps, replays and numbers of attempts.  Workers overwrite each        *)
(* other's rows, so nothing ties a row to the worker that last posted it.  *)
(* What holds is that every copy, in the table, in a queue or in a         *)
(* worker's hands, speaks the truth about the posts made so far, which     *)
(* are only ever added to.                                                 *)
(***************************************************************************)
EXTENDS WebhookDelivery, TLAPS

----------------------------------------------------------------------------
(* copies that speak the truth *)

\* A counter never exceeds the failed posts, and the two end states have their reason.
Truth(d, status, attempts, known, failed) ==
  /\ status = "pending" => attempts < MaxAttempts /\ attempts <= failed[d]
  /\ status = "dlq" => failed[d] = MaxAttempts
  /\ status = "success" => d \in known

TrueRow(d, known, failed) ==
  row[d] # None => Truth(d, row[d].status, row[d].attempts, known, failed)

TrueCopy(c, known, failed) == c \in Copy /\ Truth(c.of, c.status, c.attempts, known, failed)

Waiting(c, known, failed) == TrueCopy(c, known, failed) /\ c.status = "pending"

\* A copy that is being posted counts the post under way.
Posting(c, failed) ==
  c \in Copy /\ c.status = "pending" /\ c.attempts \in 1 .. MaxAttempts
    /\ c.attempts - 1 <= failed[c.of]

Places == {"idle", "next", "resetting", "lookup", "posting", "saving", "done"}

\* What a worker holds at each of its awaits.
Holds(w, known, failed) ==
  /\ \A c \in worker[w].queue : Waiting(c, known, failed)
  /\ worker[w].at \in {"resetting", "lookup"} => Waiting(worker[w].copy, known, failed)
  /\ worker[w].at = "posting" => Posting(worker[w].copy, failed)
  /\ worker[w].at = "saving" => TrueCopy(worker[w].copy, known, failed)

WebhookInv ==
  /\ hook \in [Hooks -> {"active", "inactive", "deleted"}]
  /\ publisher \in [Events -> [at : {"idle", "saving", "done"}, todo : SUBSET Hooks]]
  /\ row \in [Deliveries -> DeliveryRow \cup {None}]
  /\ \A d \in Deliveries : TrueRow(d, acked, failures)
  /\ worker \in [Workers -> [at : Places, queue : SUBSET Copy, copy : Copy \cup {None}]]
  /\ \A w \in Workers : Holds(w, acked, failures)
  /\ acked \subseteq Deliveries
  /\ failures \in [Deliveries -> 0 .. MaxAttempts]
  /\ faults \in 0 .. MaxFaults

\* No post is forgotten, and the counter stops at MaxAttempts.
Grown(known, failed) ==
  /\ acked \subseteq known /\ known \subseteq Deliveries
  /\ failed \in [Deliveries -> 0 .. MaxAttempts]
  /\ \A d \in Deliveries : failures[d] <= failed[d]

\* The truth about fewer posts is the truth about more.
LEMMA TruthGrows ==
    ASSUME NEW known, NEW failed, WebhookInv, Grown(known, failed),
           NEW d \in Deliveries, NEW status, NEW attempts \in 0 .. MaxAttempts,
           Truth(d, status, attempts, acked, failures)
    PROVE  Truth(d, status, attempts, known, failed)
  <1>1. /\ failures[d] \in 0 .. MaxAttempts /\ failed[d] \in 0 .. MaxAttempts
        /\ failures[d] <= failed[d]
    BY DEF WebhookInv, Grown
  <1>2. QED
    BY <1>1, DeliveryAssumption DEF Truth, Grown

LEMMA HoldsGrows ==
    ASSUME NEW known, NEW failed, WebhookInv, Grown(known, failed), NEW w \in Workers
    PROVE  Holds(w, known, failed)
  <1>1. ASSUME NEW c, TrueCopy(c, acked, failures) PROVE TrueCopy(c, known, failed)
    <2>1. c.of \in Deliveries /\ c.attempts \in 0 .. MaxAttempts
      BY <1>1 DEF TrueCopy, Copy
    <2>2. QED
      BY <1>1, <2>1, TruthGrows DEF TrueCopy
  <1>2. ASSUME NEW c, Posting(c, failures) PROVE Posting(c, failed)
    <2>1. c.of \in Deliveries /\ c.attempts \in 1 .. MaxAttempts
      BY <1>2 DEF Posting, Copy
    <2>2. failures[c.of] \in Nat /\ failed[c.of] \in Nat /\ failures[c.of] <= failed[c.of]
      BY <2>1, DeliveryAssumption DEF WebhookInv, Grown
    <2>3. QED
      BY <1>2, <2>1, <2>2, DeliveryAssumption DEF Posting
  <1>3. Holds(w, acked, failures)
    BY DEF WebhookInv
  <1>4. QED
    BY <1>1, <1>2, <1>3 DEF Holds, Waiting

LEMMA RowGrows ==
    ASSUME NEW known, NEW failed, WebhookInv, Grown(known, failed), NEW d \in Deliveries
    PROVE  TrueRow(d, known, failed)
  <1>1. CASE row[d] # None
    <2>1. row[d] \in DeliveryRow /\ Truth(d, row[d].status, row[d].attempts, acked, failures)
      BY <1>1 DEF WebhookInv, TrueRow
    <2>2. row[d].attempts \in 0 .. MaxAttempts
      BY <2>1 DEF DeliveryRow
    <2>3. QED
      BY <2>1, <2>2, TruthGrows DEF TrueRow
  <1>2. QED
    BY <1>1 DEF TrueRow

----------------------------------------------------------------------------
(* what a step can touch: one worker, one row *)

LEMMA NothingGrown == WebhookInv => Grown(acked, failures)
  <1> SUFFICES ASSUME WebhookInv, NEW d \in Deliveries PROVE failures[d] <= failures[d]
    BY DEF WebhookInv, Grown
  <1>1. failures[d] \in Nat
    BY DeliveryAssumption DEF WebhookInv
  <1>2. QED
    BY <1>1

\* The rows may stay as they are.
LEMMA RowsStay ==
    ASSUME WebhookInv, Grown(acked', failures'), UNCHANGED row
    PROVE  row' \in [Deliveries -> DeliveryRow \cup {None}] /\ \A d \in Deliveries : TrueRow(d, acked, failures)'
  <1>1. ASSUME NEW d \in Deliveries PROVE TrueRow(d, acked, failures)'
    <2>1. TrueRow(d, acked', failures')
      BY RowGrows
    <2>2. QED
      BY <2>1 DEF TrueRow
  <1>2. QED
    BY <1>1 DEF WebhookInv

\* One worker moves on.
LEMMA WorkerMoves ==
    ASSUME WebhookInv, NEW w \in Workers,
           NEW x \in [at : Places, queue : SUBSET Copy, copy : Copy \cup {None}],
           worker' = [worker EXCEPT ![w] = x],
           Grown(acked', failures'), Holds(w, acked, failures)',
           row' \in [Deliveries -> DeliveryRow \cup {None}], \A d \in Deliveries : TrueRow(d, acked, failures)',
           UNCHANGED hook,
           publisher' \in [Events -> [at : {"idle", "saving", "done"}, todo : SUBSET Hooks]],
           faults' \in 0 .. MaxFaults
    PROVE  WebhookInv'
  <1>1. worker' \in [Workers -> [at : Places, queue : SUBSET Copy, copy : Copy \cup {None}]]
    BY DEF WebhookInv
  <1>2. ASSUME NEW v \in Workers PROVE Holds(v, acked, failures)'
    <2>1. CASE v = w
      BY <2>1
    <2>2. CASE v # w
      <3>1. worker'[v] = worker[v]
        BY <2>2 DEF WebhookInv
      <3>2. Holds(v, acked', failures')
        BY HoldsGrows
      <3>3. QED
        BY <3>1, <3>2 DEF Holds
    <2>3. QED
      BY <2>1, <2>2
  <1>3. QED
    BY <1>1, <1>2 DEF WebhookInv, Grown

\* One row is written with the truth, no post ends.
LEMMA RowWritten ==
    ASSUME WebhookInv, NEW d \in Deliveries, NEW r \in DeliveryRow,
           Truth(d, r.status, r.attempts, acked, failures),
           row' = [row EXCEPT ![d] = r], UNCHANGED <<acked, failures>>
    PROVE  row' \in [Deliveries -> DeliveryRow \cup {None}] /\ \A e \in Deliveries : TrueRow(e, acked, failures)'
  <1>1. row' \in [Deliveries -> DeliveryRow \cup {None}] /\ \A e \in Deliveries : row'[e] = IF e = d THEN r ELSE row[e]
    BY DEF WebhookInv
  <1>2. ASSUME NEW e \in Deliveries PROVE TrueRow(e, acked, failures)'
    <2>1. CASE e = d
      BY <1>1, <2>1 DEF TrueRow
    <2>2. CASE e # d
      BY <1>1, <2>2 DEF TrueRow, WebhookInv
    <2>3. QED
      BY <2>1, <2>2
  <1>3. QED
    BY <1>1, <1>2

----------------------------------------------------------------------------
(* the steps *)

LEMMA PublishStep ==
    ASSUME WebhookInv, NEW e \in Events, Publish(e) \/ PublishEnds(e)
    PROVE  WebhookInv'
  <1>1. /\ publisher' \in [Events -> [at : {"idle", "saving", "done"}, todo : SUBSET Hooks]]
        /\ UNCHANGED <<hook, row, worker, acked, failures, faults>>
    BY DEF Publish, PublishEnds, history, WebhookInv
  <1>2. QED
    BY <1>1 DEF WebhookInv, TrueRow, Holds

LEMMA PublishToStep ==
    ASSUME WebhookInv, NEW e \in Events, NEW h \in Hooks, PublishTo(e, h)
    PROVE  WebhookInv'
  <1> DEFINE d == <<e, h>>
             r == [status |-> "pending", attempts |-> 0, due |-> "null"]
             c == [of |-> d, status |-> "pending", attempts |-> 1, due |-> "null"]
             x == [worker[d] EXCEPT !.at = "posting", !.copy = c]
  <1>1. d \in Deliveries /\ d \in Workers
    BY DEF Deliveries, Workers
  <1>2. failures[d] \in Nat /\ MaxAttempts \in Nat /\ MaxAttempts >= 1
    BY <1>1, DeliveryAssumption DEF WebhookInv
  <1>3. r \in DeliveryRow /\ Truth(d, r.status, r.attempts, acked, failures)
    BY <1>2 DEF DeliveryRow, Status, Due, Truth
  <1>4. c \in Copy /\ Posting(c, failures)
    BY <1>1, <1>2 DEF Copy, Status, Due, Posting
  <1>5. /\ row' = [row EXCEPT ![d] = r] /\ UNCHANGED <<hook, acked, failures, faults>>
        /\ worker' = [worker EXCEPT ![d] = x]
        /\ publisher' = [publisher EXCEPT ![e].todo = @ \ {h}]
    <2>1. /\ row' = [row EXCEPT ![d] = r] /\ UNCHANGED <<hook, acked, failures, faults>>
          /\ publisher' = [publisher EXCEPT ![e].todo = @ \ {h}]
          /\ StartPost(d, [of |-> d, status |-> "pending", attempts |-> 0, due |-> "null"])
      BY DEF PublishTo, history
    <2>2. Goes(d, "posting", c)
      BY <2>1 DEF StartPost
    <2>3. worker' = [worker EXCEPT ![d] = x]
      BY <1>1, <2>2 DEF Goes, WebhookInv
    <2>4. QED
      BY <2>1, <2>3
  <1>6. row' \in [Deliveries -> DeliveryRow \cup {None}] /\ \A f \in Deliveries : TrueRow(f, acked, failures)'
    BY <1>1, <1>3, <1>5, RowWritten
  <1>7. publisher' \in [Events -> [at : {"idle", "saving", "done"}, todo : SUBSET Hooks]]
    BY <1>5 DEF WebhookInv
  <1>8. /\ x \in [at : Places, queue : SUBSET Copy, copy : Copy \cup {None}]
        /\ x.at = "posting" /\ x.copy = c /\ x.queue = worker[d].queue
    BY <1>1, <1>4 DEF WebhookInv, Places
  <1> HIDE DEF x, c, r, d
  <1>9. worker'[d] = x
    BY <1>1, <1>5 DEF WebhookInv
  <1>10. \A k \in worker[d].queue : Waiting(k, acked, failures)
    BY <1>1 DEF WebhookInv, Holds
  <1>11. Holds(d, acked, failures)'
    BY <1>4, <1>5, <1>8, <1>9, <1>10 DEF Holds
  <1>12. Grown(acked', failures') /\ faults' \in 0 .. MaxFaults
    BY <1>5, NothingGrown DEF WebhookInv
  <1>13. QED
    BY <1>1, <1>5, <1>6, <1>7, <1>8, <1>11, <1>12, WorkerMoves

\* A worker takes another place with a copy that is good there; its queue stays.
LEMMA Going ==
    ASSUME WebhookInv, NEW w \in Workers, NEW step \in Places, NEW c \in Copy \cup {None},
           Goes(w, step, c), Grown(acked', failures'),
           UNCHANGED <<hook, publisher>>, faults' \in 0 .. MaxFaults,
           row' \in [Deliveries -> DeliveryRow \cup {None}], \A d \in Deliveries : TrueRow(d, acked, failures)',
           step \in {"resetting", "lookup"} => Waiting(c, acked', failures'),
           step = "posting" => Posting(c, failures'),
           step = "saving" => TrueCopy(c, acked', failures')
    PROVE  WebhookInv'
  <1> DEFINE x == [worker[w] EXCEPT !.at = step, !.copy = c]
  <1>1. worker' = [worker EXCEPT ![w] = x]
    BY DEF Goes, WebhookInv
  <1>2. /\ x \in [at : Places, queue : SUBSET Copy, copy : Copy \cup {None}]
        /\ x.at = step /\ x.copy = c /\ x.queue = worker[w].queue
    BY DEF WebhookInv
  <1> HIDE DEF x
  <1>3. worker'[w] = x
    BY <1>1 DEF WebhookInv
  <1>4. \A k \in worker[w].queue : Waiting(k, acked', failures')
    BY HoldsGrows DEF Holds
  <1>5. Holds(w, acked, failures)'
    BY <1>2, <1>3, <1>4 DEF Holds
  <1>6. publisher' \in [Events -> [at : {"idle", "saving", "done"}, todo : SUBSET Hooks]]
    BY DEF WebhookInv
  <1>7. QED
    BY <1>1, <1>2, <1>5, <1>6, WorkerMoves

\* A worker that is through with a copy.
LEMMA Finishing ==
    ASSUME WebhookInv, NEW w \in Workers, Finish(w), UNCHANGED <<hook, publisher, acked, failures>>,
           faults' \in 0 .. MaxFaults,
           row' \in [Deliveries -> DeliveryRow \cup {None}], \A d \in Deliveries : TrueRow(d, acked, failures)'
    PROVE  WebhookInv'
  <1> DEFINE step == IF w \in Sweeps THEN "next" ELSE "done"
  <1>1. Goes(w, step, None) /\ step \in {"next", "done"} /\ step \in Places
    BY DEF Finish, Places
  <1>2. Grown(acked', failures')
    BY NothingGrown
  <1> HIDE DEF step
  <1>3. QED
    BY <1>1, <1>2, Going

LEMMA LookupStep ==
    ASSUME WebhookInv, NEW w \in Workers, Lookup(w)
    PROVE  WebhookInv'
  <1> DEFINE c == worker[w].copy
             d == [c EXCEPT !.attempts = @ + 1]
  <1>1. /\ UNCHANGED <<hook, row, publisher, acked, failures, faults>>
        /\ Finish(w) \/ StartPost(w, c)
        /\ At(w, "lookup")
    BY DEF Lookup, history
  <1>2. /\ Grown(acked', failures') /\ faults' \in 0 .. MaxFaults
        /\ row' \in [Deliveries -> DeliveryRow \cup {None}] /\ \A e \in Deliveries : TrueRow(e, acked, failures)'
    BY <1>1, NothingGrown, RowsStay DEF WebhookInv
  <1>3. CASE Finish(w)
    BY <1>1, <1>2, <1>3, Finishing
  <1>4. CASE StartPost(w, c)
    <2>1. Waiting(c, acked, failures)
      BY <1>1 DEF WebhookInv, Holds, At
    <2>2. /\ c \in Copy /\ c.status = "pending" /\ c.attempts \in 0 .. MaxAttempts
          /\ c.attempts < MaxAttempts /\ c.attempts <= failures[c.of] /\ c.of \in Deliveries
      BY <2>1 DEF Waiting, TrueCopy, Truth, Copy
    <2>3. failures[c.of] \in Nat /\ MaxAttempts \in Nat
      BY <2>2, DeliveryAssumption DEF WebhookInv
    <2>4. c.attempts + 1 \in 0 .. MaxAttempts
      BY <2>2, <2>3
    <2>5. /\ d \in Copy /\ d.status = "pending" /\ d.attempts = c.attempts + 1
          /\ d.of = c.of
      BY <2>2, <2>4 DEF Copy
    <2>6. Goes(w, "posting", d)
      BY <1>4 DEF StartPost
    <2> HIDE DEF c, d
    <2>7. Posting(d, failures')
      BY <1>1, <2>2, <2>3, <2>5 DEF Posting
    <2>8. QED
      BY <1>1, <1>2, <2>5, <2>6, <2>7, Going DEF Places
  <1>5. QED
    BY <1>1, <1>3, <1>4

LEMMA AnswerStep ==
    ASSUME WebhookInv, NEW w \in Workers, PostAnswered(w)
    PROVE  WebhookInv'
  <1> DEFINE c == worker[w].copy
  <1>1. At(w, "posting") /\ UNCHANGED <<hook, row, publisher, faults>>
    BY DEF PostAnswered
  <1>2. Posting(c, failures)
    BY <1>1 DEF WebhookInv, Holds, At
  <1>3. /\ c \in Copy /\ c.of \in Deliveries /\ c.attempts \in 1 .. MaxAttempts
        /\ c.status = "pending" /\ c.attempts - 1 <= failures[c.of]
    BY <1>2 DEF Posting, Copy
  <1>4. MaxAttempts \in Nat /\ failures[c.of] \in 0 .. MaxAttempts
    BY <1>3, DeliveryAssumption DEF WebhookInv
  <1>5. CASE /\ Goes(w, "saving", [c EXCEPT !.status = "success"])
             /\ acked' = acked \cup {c.of} /\ failures' = failures
    <2> DEFINE d == [c EXCEPT !.status = "success"]
    <2>1. d \in Copy /\ d.status = "success" /\ d.of = c.of
      BY <1>3 DEF Copy, Status
    <2>2. Goes(w, "saving", d)
      BY <1>5
    <2> HIDE DEF c, d
    <2>3. TrueCopy(d, acked', failures')
      BY <1>3, <1>5, <2>1 DEF TrueCopy, Truth
    <2>4. Grown(acked', failures')
      BY <1>3, <1>5, NothingGrown DEF Grown, WebhookInv
    <2>5. /\ row' \in [Deliveries -> DeliveryRow \cup {None}] /\ \A e \in Deliveries : TrueRow(e, acked, failures)'
          /\ faults' \in 0 .. MaxFaults
      BY <1>1, <2>4, RowsStay DEF WebhookInv
    <2>6. QED
      BY <1>1, <2>1, <2>2, <2>3, <2>4, <2>5, Going DEF Places
  <1>6. CASE /\ Goes(w, "saving", AfterFailure(c)) /\ acked' = acked
             /\ failures' = [failures EXCEPT ![c.of] = IF @ < MaxAttempts THEN @ + 1 ELSE @]
    <2> DEFINE d == AfterFailure(c)
               n == IF failures[c.of] < MaxAttempts THEN failures[c.of] + 1 ELSE failures[c.of]
    <2>1. n \in 0 .. MaxAttempts /\ c.attempts <= n /\ failures[c.of] <= n
      BY <1>3, <1>4
    <2>2. /\ d \in Copy /\ d.of = c.of /\ d.attempts = c.attempts
          /\ c.attempts < MaxAttempts => d.status = "pending"
          /\ ~(c.attempts < MaxAttempts) => d.status = "dlq"
      BY <1>3 DEF AfterFailure, Copy, Status, Due
    <2>3. /\ failures' \in [Deliveries -> 0 .. MaxAttempts] /\ failures'[c.of] = n
          /\ \A e \in Deliveries : e # c.of => failures'[e] = failures[e]
      BY <1>3, <1>6, <2>1 DEF WebhookInv
    <2>4. Goes(w, "saving", d)
      BY <1>6
    <2> HIDE DEF c, d, n
    <2>5. Truth(d.of, d.status, d.attempts, acked', failures')
      BY <1>3, <1>4, <2>1, <2>2, <2>3 DEF Truth
    <2>6. TrueCopy(d, acked', failures')
      BY <2>2, <2>5 DEF TrueCopy
    <2>7. ASSUME NEW e \in Deliveries PROVE failures[e] <= failures'[e]
      <3>1. failures[e] \in Nat
        BY DeliveryAssumption DEF WebhookInv
      <3>2. QED
        BY <2>1, <2>3, <3>1
    <2>8. Grown(acked', failures')
      BY <1>6, <2>3, <2>7 DEF Grown, WebhookInv
    <2>9. /\ row' \in [Deliveries -> DeliveryRow \cup {None}] /\ \A e \in Deliveries : TrueRow(e, acked, failures)'
          /\ faults' \in 0 .. MaxFaults
      BY <1>1, <2>8, RowsStay DEF WebhookInv
    <2>10. QED
      BY <1>1, <2>2, <2>4, <2>6, <2>8, <2>9, Going DEF Places
  <1>7. QED
    BY <1>5, <1>6 DEF PostAnswered

\* Writing a copy back writes the truth.
LEMMA CopyWritten ==
    ASSUME WebhookInv, NEW c, TrueCopy(c, acked, failures), UNCHANGED <<acked, failures>>,
           row' = [row EXCEPT ![c.of] = [status |-> c.status, attempts |-> c.attempts,
                                         due |-> c.due]]
    PROVE  row' \in [Deliveries -> DeliveryRow \cup {None}] /\ \A e \in Deliveries : TrueRow(e, acked, failures)'
  <1> DEFINE r == [status |-> c.status, attempts |-> c.attempts, due |-> c.due]
  <1>1. /\ c.of \in Deliveries /\ r \in DeliveryRow
        /\ Truth(c.of, r.status, r.attempts, acked, failures)
    BY DEF TrueCopy, Copy, DeliveryRow
  <1> HIDE DEF r
  <1>2. row' = [row EXCEPT ![c.of] = r]
    BY DEF r
  <1>3. QED
    BY <1>1, <1>2, RowWritten

LEMMA SaveStep ==
    ASSUME WebhookInv, NEW w \in Workers, SaveCopy(w) \/ (w \in Replays /\ ReplaySave(w))
    PROVE  WebhookInv'
  <1> DEFINE c == worker[w].copy
  <1>1. /\ UNCHANGED <<hook, publisher, acked, failures, faults>>
        /\ row' = [row EXCEPT ![c.of] = [status |-> c.status, attempts |-> c.attempts,
                                         due |-> c.due]]
        /\ \/ At(w, "saving") /\ Finish(w)
           \/ At(w, "resetting") /\ Goes(w, "lookup", c)
    BY DEF SaveCopy, ReplaySave, history
  <1>2. TrueCopy(c, acked, failures) /\ (At(w, "resetting") => Waiting(c, acked, failures))
    BY <1>1 DEF WebhookInv, Holds, At, Waiting
  <1> HIDE DEF c
  <1>3. /\ row' \in [Deliveries -> DeliveryRow \cup {None}] /\ \A e \in Deliveries : TrueRow(e, acked, failures)'
        /\ faults' \in 0 .. MaxFaults /\ Grown(acked', failures') /\ c \in Copy
    BY <1>1, <1>2, CopyWritten, NothingGrown DEF WebhookInv, TrueCopy
  <1>4. CASE Finish(w)
    BY <1>1, <1>3, <1>4, Finishing
  <1>5. CASE At(w, "resetting") /\ Goes(w, "lookup", c)
    BY <1>1, <1>2, <1>3, <1>5, Going DEF Places
  <1>6. QED
    BY <1>1, <1>4, <1>5

LEMMA SweepStep ==
    ASSUME WebhookInv, NEW w \in Sweeps, Sweep(w) \/ SweepNext(w)
    PROVE  WebhookInv'
  <1>1. w \in Workers /\ UNCHANGED <<hook, row, publisher, acked, failures, faults>>
    BY DEF Workers, Sweep, SweepNext, history
  <1>2. /\ Grown(acked', failures') /\ faults' \in 0 .. MaxFaults
        /\ publisher' \in [Events -> [at : {"idle", "saving", "done"}, todo : SUBSET Hooks]]
        /\ row' \in [Deliveries -> DeliveryRow \cup {None}] /\ \A e \in Deliveries : TrueRow(e, acked, failures)'
    BY <1>1, NothingGrown, RowsStay DEF WebhookInv
  <1>3. ASSUME NEW x, x \in [at : Places, queue : SUBSET Copy, copy : Copy \cup {None}],
               x.at \in {"idle", "next", "lookup"},
               \A c \in x.queue : Waiting(c, acked, failures),
               x.at = "lookup" => Waiting(x.copy, acked, failures),
               worker' = [worker EXCEPT ![w] = x]
        PROVE  WebhookInv'
    <2>1. worker'[w] = x
      BY <1>1, <1>3 DEF WebhookInv
    <2>2. Holds(w, acked, failures)'
      BY <1>1, <1>3, <2>1 DEF Holds
    <2>3. QED
      BY <1>1, <1>2, <1>3, <2>2, WorkerMoves
  <1>4. CASE Sweep(w)
    <2>1. PICK due \in SUBSET Eligible :
            worker' = [worker EXCEPT ![w] =
                          [at |-> "next", queue |-> {Loaded(d) : d \in due}, copy |-> None]]
      BY <1>4 DEF Sweep
    <2>2. ASSUME NEW d \in due PROVE Loaded(d) \in Copy /\ Waiting(Loaded(d), acked, failures)
      <3>1. d \in Deliveries /\ row[d] # None /\ row[d].status = "pending"
        BY DEF Eligible
      <3>2. row[d] \in DeliveryRow /\ Truth(d, row[d].status, row[d].attempts, acked, failures)
        BY <3>1 DEF WebhookInv, TrueRow
      <3>3. Loaded(d) \in Copy
        BY <3>1, <3>2 DEF Loaded, Copy, DeliveryRow
      <3>4. /\ Loaded(d).of = d /\ Loaded(d).status = row[d].status
            /\ Loaded(d).attempts = row[d].attempts
        BY DEF Loaded
      <3>5. QED
        BY <3>1, <3>2, <3>3, <3>4 DEF Waiting, TrueCopy
    <2> DEFINE Q == {Loaded(d) : d \in due}
               x == [at |-> "next", queue |-> Q, copy |-> None]
    <2>3. Q \in SUBSET Copy /\ \A c \in Q : Waiting(c, acked, failures)
      BY <2>2
    <2> HIDE DEF Q
    <2>4. /\ x \in [at : Places, queue : SUBSET Copy, copy : Copy \cup {None}]
          /\ x.at = "next" /\ x.queue = Q
      BY <2>3 DEF Places
    <2>5. worker' = [worker EXCEPT ![w] = x]
      BY <2>1 DEF Q
    <2> HIDE DEF x
    <2>6. QED
      BY <1>3, <2>3, <2>4, <2>5
  <1>5. CASE SweepNext(w)
    <2>1. /\ worker[w] \in [at : Places, queue : SUBSET Copy, copy : Copy \cup {None}]
          /\ \A c \in worker[w].queue : Waiting(c, acked, failures)
      BY <1>1 DEF WebhookInv, Holds
    <2>2. CASE worker' = [worker EXCEPT ![w] = Idle]
      BY <1>3, <2>2 DEF Idle, Places
    <2>3. ASSUME NEW c \in worker[w].queue,
                 worker' = [worker EXCEPT ![w] =
                              [at |-> "lookup", queue |-> @.queue \ {c}, copy |-> c]]
          PROVE  WebhookInv'
      <3> DEFINE x == [at |-> "lookup", queue |-> worker[w].queue \ {c}, copy |-> c]
      <3>1. /\ x \in [at : Places, queue : SUBSET Copy, copy : Copy \cup {None}]
            /\ x.at = "lookup" /\ x.queue \subseteq worker[w].queue /\ x.copy = c
        BY <2>1 DEF Places
      <3>2. worker' = [worker EXCEPT ![w] = x]
        BY <1>1, <2>3 DEF WebhookInv
      <3> HIDE DEF x
      <3>3. QED
        BY <1>3, <2>1, <3>1, <3>2
    <2>4. QED
      BY <1>5, <2>2, <2>3 DEF SweepNext
  <1>6. QED
    BY <1>4, <1>5

LEMMA ReplayStep ==
    ASSUME WebhookInv, NEW w \in Replays, NEW d \in Deliveries, Replay(w, d)
    PROVE  WebhookInv'
  <1> DEFINE c == [of |-> d, status |-> "pending", attempts |-> 0, due |-> "null"]
  <1>1. /\ w \in Workers /\ UNCHANGED <<hook, row, publisher, acked, failures, faults>>
        /\ Goes(w, "resetting", c)
    BY DEF Workers, Replay, history
  <1>2. /\ Grown(acked', failures') /\ faults' \in 0 .. MaxFaults
        /\ row' \in [Deliveries -> DeliveryRow \cup {None}] /\ \A e \in Deliveries : TrueRow(e, acked, failures)'
    BY <1>1, NothingGrown, RowsStay DEF WebhookInv
  <1>3. failures[d] \in Nat /\ MaxAttempts \in Nat /\ MaxAttempts >= 1
    BY DeliveryAssumption DEF WebhookInv
  <1>4. /\ c \in Copy /\ c.of = d /\ c.status = "pending" /\ c.attempts = 0
    BY <1>3 DEF Copy, Status, Due
  <1> HIDE DEF c
  <1>5. Waiting(c, acked', failures')
    BY <1>1, <1>3, <1>4 DEF Waiting, TrueCopy, Truth
  <1>6. QED
    BY <1>1, <1>2, <1>4, <1>5, Going DEF Places

\* What a crash or a failed save leaves: some workers hold nothing any more.
LEMMA Forgotten ==
    ASSUME WebhookInv, UNCHANGED <<hook, row, acked, failures>>, faults' \in 0 .. MaxFaults,
           publisher' \in [Events -> [at : {"idle", "saving", "done"}, todo : SUBSET Hooks]],
           DOMAIN worker' = Workers,
           worker' = [v \in Workers |-> worker'[v]],
           \A v \in Workers :
             worker'[v] \in {worker[v], Idle, [Idle EXCEPT !.at = "done"]}
    PROVE  WebhookInv'
  <1>1. ASSUME NEW v \in Workers
        PROVE  /\ worker'[v] \in [at : Places, queue : SUBSET Copy, copy : Copy \cup {None}]
               /\ Holds(v, acked, failures)'
    <2>1. CASE worker'[v] = worker[v]
      BY <2>1 DEF WebhookInv, Holds
    <2>2. CASE worker'[v] = Idle \/ worker'[v] = [Idle EXCEPT !.at = "done"]
      <3>1. /\ worker'[v] \in [at : Places, queue : SUBSET Copy, copy : Copy \cup {None}]
            /\ worker'[v].at \in {"idle", "done"} /\ worker'[v].queue = {}
        BY <2>2 DEF Idle, Places
      <3>2. QED
        BY <3>1 DEF Holds
    <2>3. QED
      BY <2>1, <2>2
  <1>2. worker' \in [Workers -> [at : Places, queue : SUBSET Copy, copy : Copy \cup {None}]]
    BY <1>1
  <1>3. row' \in [Deliveries -> DeliveryRow \cup {None}] /\ \A e \in Deliveries : TrueRow(e, acked, failures)'
    BY NothingGrown, RowsStay
  <1>4. QED
    BY <1>1, <1>2, <1>3 DEF WebhookInv

LEMMA FaultStep ==
    ASSUME WebhookInv, Crash \/ \E w \in Workers : SaveFails(w)
    PROVE  WebhookInv'
  <1>1. faults' \in 0 .. MaxFaults /\ UNCHANGED <<hook, row, acked, failures>>
    BY DeliveryAssumption DEF Crash, SaveFails, history, WebhookInv
  <1>2. CASE Crash
    <2>1. publisher' \in [Events -> [at : {"idle", "saving", "done"}, todo : SUBSET Hooks]]
      BY <1>2 DEF Crash, Restart, WebhookInv
    <2>2. /\ DOMAIN worker' = Workers /\ worker' = [v \in Workers |-> worker'[v]]
          /\ \A v \in Workers : worker'[v] \in {worker[v], Idle, [Idle EXCEPT !.at = "done"]}
      BY <1>2 DEF Crash, Restart
    <2>3. QED
      BY <1>1, <2>1, <2>2, Forgotten
  <1>3. ASSUME NEW w \in Workers, SaveFails(w) PROVE WebhookInv'
    <2>1. publisher' \in [Events -> [at : {"idle", "saving", "done"}, todo : SUBSET Hooks]]
      BY <1>3 DEF SaveFails, WebhookInv
    <2>2. /\ DOMAIN worker' = Workers /\ worker' = [v \in Workers |-> worker'[v]]
          /\ \A v \in Workers : worker'[v] \in {worker[v], Idle, [Idle EXCEPT !.at = "done"]}
      BY <1>3 DEF SaveFails, WebhookInv
    <2>3. QED
      BY <1>1, <2>1, <2>2, Forgotten
  <1>4. QED
    BY <1>2, <1>3

LEMMA OutsideStep ==
    ASSUME WebhookInv, \/ \E h \in Hooks : ChangeHook(h)
                       \/ \E d \in Deliveries : TimePasses(d)
    PROVE  WebhookInv'
  <1>1. ASSUME NEW h \in Hooks, ChangeHook(h) PROVE WebhookInv'
    <2>1. /\ hook' \in [Hooks -> {"active", "inactive", "deleted"}]
          /\ UNCHANGED <<row, publisher, worker, acked, failures, faults>>
      BY <1>1 DEF ChangeHook, history, WebhookInv
    <2>2. QED
      BY <2>1 DEF WebhookInv, TrueRow, Holds
  <1>2. ASSUME NEW d \in Deliveries, TimePasses(d) PROVE WebhookInv'
    <2> DEFINE r == [row[d] EXCEPT !.due = "now"]
    <2>1. /\ row[d] # None /\ row' = [row EXCEPT ![d] = r]
          /\ UNCHANGED <<hook, publisher, worker, acked, failures, faults>>
      BY <1>2 DEF TimePasses, history, WebhookInv
    <2>2. row[d] \in DeliveryRow /\ Truth(d, row[d].status, row[d].attempts, acked, failures)
      BY <2>1 DEF WebhookInv, TrueRow
    <2>3. r \in DeliveryRow /\ r.status = row[d].status /\ r.attempts = row[d].attempts
      BY <2>2 DEF DeliveryRow, Due
    <2> HIDE DEF r
    <2>4. row' \in [Deliveries -> DeliveryRow \cup {None}] /\ \A e \in Deliveries : TrueRow(e, acked, failures)'
      BY <2>1, <2>2, <2>3, RowWritten
    <2>5. QED
      BY <2>1, <2>4 DEF WebhookInv, Holds
  <1>3. QED
    BY <1>1, <1>2

LEMMA WebhookInit == Init => WebhookInv
  <1> SUFFICES ASSUME Init PROVE WebhookInv
    OBVIOUS
  <1>1. /\ hook \in [Hooks -> {"active", "inactive", "deleted"}]
        /\ publisher \in [Events -> [at : {"idle", "saving", "done"}, todo : SUBSET Hooks]]
        /\ row \in [Deliveries -> DeliveryRow \cup {None}]
        /\ acked \subseteq Deliveries
    BY DEF Init
  <1>2. failures \in [Deliveries -> 0 .. MaxAttempts] /\ faults \in 0 .. MaxFaults
    BY DeliveryAssumption DEF Init
  <1>3. \A d \in Deliveries : TrueRow(d, acked, failures)
    BY DEF Init, TrueRow
  <1>4. worker \in [Workers -> [at : Places, queue : SUBSET Copy, copy : Copy \cup {None}]]
    BY DEF Init, Idle, Places
  <1>5. \A w \in Workers : Holds(w, acked, failures)
    BY DEF Init, Idle, Holds
  <1>6. QED
    BY <1>1, <1>2, <1>3, <1>4, <1>5 DEF WebhookInv

LEMMA WebhookStep == WebhookInv /\ [Next]_vars => WebhookInv'
  <1> SUFFICES ASSUME WebhookInv, [Next]_vars PROVE WebhookInv'
    OBVIOUS
  <1>1. CASE UNCHANGED vars
    BY <1>1 DEF vars, WebhookInv, TrueRow, Holds
  <1>2. ASSUME NEW e \in Events, Publish(e) \/ PublishEnds(e) \/ \E h \in Hooks : PublishTo(e, h)
        PROVE  WebhookInv'
    BY <1>2, PublishStep, PublishToStep
  <1>3. ASSUME NEW r \in Replays, ReplaySave(r) \/ \E d \in Deliveries : Replay(r, d)
        PROVE  WebhookInv'
    <2>1. r \in Workers
      BY DEF Workers
    <2>2. QED
      BY <1>3, <2>1, SaveStep, ReplayStep
  <1>4. ASSUME NEW w \in Workers, WorkerStep(w) PROVE WebhookInv'
    BY <1>4, LookupStep, AnswerStep, SaveStep DEF WorkerStep
  <1>5. QED
    BY <1>1, <1>2, <1>3, <1>4, SweepStep, FaultStep, OutsideStep DEF Next

LEMMA WebhookInvHolds == Spec => []WebhookInv
  BY WebhookInit, WebhookStep, PTL DEF Spec

\* No step changes which webhooks, sweeps and replays there are.
LEMMA DeploymentStays == Spec => [](deployed \in Deployments)
  <1>1. Init => deployed \in Deployments
    BY DEF Init
  <1>2. deployed \in Deployments /\ [Next]_vars => (deployed \in Deployments)'
    <2> SUFFICES ASSUME deployed \in Deployments, [Next]_vars PROVE deployed' = deployed
      OBVIOUS
    <2>1. CASE UNCHANGED vars
      BY <2>1 DEF vars
    <2>2. CASE Next
      <3>1. ASSUME NEW e \in Events, Publish(e) \/ PublishEnds(e) \/ \E h \in Hooks : PublishTo(e, h)
            PROVE  deployed' = deployed
        BY <3>1 DEF Publish, PublishEnds, PublishTo
      <3>2. ASSUME NEW w, \/ Sweep(w) \/ SweepNext(w) \/ ReplaySave(w) \/ WorkerStep(w) \/ SaveFails(w)
                          \/ \E d \in Deliveries : Replay(w, d)
            PROVE  deployed' = deployed
        BY <3>2 DEF Sweep, SweepNext, ReplaySave, WorkerStep, Lookup, PostAnswered, SaveCopy,
                    SaveFails, Replay
      <3>3. ASSUME Crash \/ (\E h \in Hooks : ChangeHook(h)) \/ \E d \in Deliveries : TimePasses(d)
            PROVE  deployed' = deployed
        BY <3>3 DEF Crash, ChangeHook, TimePasses
      <3>4. QED
        BY <2>2, <3>1, <3>2, <3>3, ZenonT(30) DEF Next
    <2>3. QED
      BY <2>1, <2>2
  <1>3. QED
    BY <1>1, <1>2, PTL DEF Spec

----------------------------------------------------------------------------
(* The tables and what the workers hold have their types: the counter of a  *)
(* row never passes MAX_ATTEMPTS, however many workers post it.             *)
THEOREM TypeCorrect == Spec => []TypeOK
  <1>1. WebhookInv /\ deployed \in Deployments => TypeOK
    <2> SUFFICES ASSUME WebhookInv, deployed \in Deployments PROVE TypeOK
      OBVIOUS
    <2>1. QED
      BY DEF WebhookInv, TypeOK, Places
  <1>2. QED
    BY <1>1, WebhookInvHolds, DeploymentStays, PTL

(* A row is dead-lettered only after MAX_ATTEMPTS of its posts have failed, *)
(* with any number of sweeps and replays writing stale copies over it.      *)
THEOREM DeadLetters == Spec => []DeadLettersAreExhausted
  <1>1. WebhookInv => DeadLettersAreExhausted
    BY DEF WebhookInv, TrueRow, Truth, DeadLettersAreExhausted
  <1>2. QED
    BY <1>1, WebhookInvHolds, PTL

(* A row that says success was acknowledged by the endpoint.                *)
THEOREM SuccessesAcknowledged == Spec => []SuccessWasAcknowledged
  <1>1. WebhookInv => SuccessWasAcknowledged
    BY DEF WebhookInv, TrueRow, Truth, SuccessWasAcknowledged
  <1>2. QED
    BY <1>1, WebhookInvHolds, PTL
=============================================================================
