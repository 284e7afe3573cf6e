--------------------------- MODULE WebhookDelivery ---------------------------
(***************************************************************************)
(* The delivery pipeline of WebhooksService: publish() writes a row per    *)
(* active webhook and posts it at once; retryPending() runs every minute   *)
(* and posts every pending row whose time has come; replayDelivery() posts *)
(* a row again on the owner's request.  A post that fails is scheduled     *)
(* again or, after MAX_ATTEMPTS, dead-lettered.                            *)
(*                                                                         *)
(* Nothing marks a row as being posted.  setInterval does not wait for the *)
(* sweep before, so sweeps overlap, and a sweep takes up rows whose first  *)
(* post is still in flight: several workers hold copies of one row, and    *)
(* deliveryRepo.save() writes the whole copy back.  The code between two   *)
(* awaits is one action.                                                   *)
(***************************************************************************)
EXTENDS FiniteSets, Naturals

CONSTANTS
    Events,       \* calls of publish()
    Hooks,        \* webhooks subscribed to the events
    Sweeps,       \* runs of retryPending() that may overlap
    Replays,      \* calls of replayDelivery()
    Deployments,  \* which of these webhooks, sweeps and calls there are: TLC takes each in turn
    MaxAttempts,  \* MAX_ATTEMPTS, 5 in the code
    Take,         \* rows a sweep loads, 20 in the code
    MaxFaults,    \* bound: failed saves and crashes
    None          \* a missing row

ASSUME DeliveryAssumption ==
    /\ MaxAttempts \in Nat \ {0}
    /\ Take \in Nat \ {0}
    /\ MaxFaults \in Nat
    /\ IsFiniteSet(Events) /\ IsFiniteSet(Hooks)
    /\ Sweeps \cap Replays = {}

Deliveries == Events \X Hooks   \* an event has one delivery per webhook

\* publish() hands a delivery to a worker of its own (setImmediate).
Workers == Sweeps \cup Replays \cup Deliveries

VARIABLES
    deployed,  \* the deployment at hand
    hook,      \* the webhooks table: may be deactivated or deleted
    row,       \* the webhook_deliveries table
    publisher, \* per event, the webhooks publish() has loaded and not yet served
    worker,    \* the calls that post deliveries
    acked,     \* history: deliveries some post of which was answered 2xx
    failures,  \* history: failed posts per delivery, counted up to MaxAttempts
    faults     \* failed saves and crashes so far

vars == <<deployed, hook, row, publisher, worker, acked, failures, faults>>

Status == {"pending", "success", "dlq"}

\* nextRetryAt: null, in the future, or reached.
Due == {"null", "later", "now"}

DeliveryRow == [status : Status, attempts : 0 .. MaxAttempts, due : Due]

Copy == [of : Deliveries, status : Status, attempts : 0 .. MaxAttempts, due : Due]

Idle == [at |-> "idle", queue |-> {}, copy |-> None]

TypeOK ==
    /\ deployed \in Deployments
    /\ hook \in [Hooks -> {"active", "inactive", "deleted"}]
    /\ row \in [Deliveries -> DeliveryRow \cup {None}]
    /\ publisher \in [Events -> [at : {"idle", "saving", "done"}, todo : SUBSET Hooks]]
    /\ worker \in [Workers ->
         [at : {"idle", "next", "resetting", "lookup", "posting", "saving", "done"},
          queue : SUBSET Copy, copy : Copy \cup {None}]]
    /\ acked \subseteq Deliveries
    /\ failures \in [Deliveries -> 0 .. MaxAttempts]
    /\ faults \in 0 .. MaxFaults

Init ==
    /\ deployed \in Deployments
    /\ hook = [h \in Hooks |-> "active"]
    /\ row = [d \in Deliveries |-> None]
    /\ publisher = [e \in Events |-> [at |-> "idle", todo |-> {}]]
    /\ worker = [w \in Workers |-> Idle]
    /\ acked = {}
    /\ failures = [d \in Deliveries |-> 0]
    /\ faults = 0

-----------------------------------------------------------------------------
(* Helpers.                                                                *)

history == <<acked, failures>>

At(w, step) == worker[w].at = step

\* What the entity loaded from the row of d holds.
Loaded(d) == [of |-> d, status |-> row[d].status, attempts |-> row[d].attempts,
              due |-> row[d].due]

\* Rows the two conditions of retryPending's find select.
Eligible ==
    {d \in Deliveries : /\ row[d] # None
                        /\ row[d].status = "pending"
                        /\ row[d].due \in {"null", "now"}}

Goes(w, step, c) == worker' = [worker EXCEPT ![w].at = step, ![w].copy = c]

\* Where a worker goes after a copy: a sweep to its next one.
Finish(w) == Goes(w, IF w \in Sweeps THEN "next" ELSE "done", None)

\* What deliver() does before the post: the attempt is counted.
StartPost(w, c) == Goes(w, "posting", [c EXCEPT !.attempts = @ + 1])

-----------------------------------------------------------------------------
(* publish.                                                                *)

\* The active subscribed webhooks are loaded once.
Publish(e) ==
    /\ publisher[e].at = "idle"
    /\ publisher' = [publisher EXCEPT ![e] =
                        [at |-> "saving", todo |-> {h \in Hooks \cap deployed : hook[h] = "active"}]]
    /\ UNCHANGED <<deployed, hook, row, worker, history, faults>>

\* A row is saved and its post is started with the webhook loaded before.
PublishTo(e, h) ==
    /\ publisher[e].at = "saving" /\ h \in publisher[e].todo
    /\ row' = [row EXCEPT ![<<e, h>>] = [status |-> "pending", attempts |-> 0, due |-> "null"]]
    /\ publisher' = [publisher EXCEPT ![e].todo = @ \ {h}]
    /\ StartPost(<<e, h>>, [of |-> <<e, h>>, status |-> "pending", attempts |-> 0,
                            due |-> "null"])
    /\ UNCHANGED <<deployed, hook, history, faults>>

PublishEnds(e) ==
    /\ publisher[e] = [at |-> "saving", todo |-> {}]
    /\ publisher' = [publisher EXCEPT ![e].at = "done"]
    /\ UNCHANGED <<deployed, hook, row, worker, history, faults>>

-----------------------------------------------------------------------------
(* deliver, from the answer to the post on.                                *)

\* Mutant: "attempts <= MAX_ATTEMPTS".
AfterFailure_Late(c) ==
    IF c.attempts <= MaxAttempts
    THEN [c EXCEPT !.status = "pending", !.due = "later"]
    ELSE [c EXCEPT !.status = "dlq"]

\* Mutant: a failed row is dead-lettered one attempt early.
AfterFailure_Early(c) ==
    IF c.attempts < MaxAttempts - 1
    THEN [c EXCEPT !.status = "pending", !.due = "later"]
    ELSE [c EXCEPT !.status = "dlq"]

\* The status of a copy whose post failed: retried later or dead-lettered.
AfterFailure(c) ==
    IF c.attempts < MaxAttempts
    THEN [c EXCEPT !.status = "pending", !.due = "later"]
    ELSE [c EXCEPT !.status = "dlq"]

\* Mutant: the status is set before the answer is looked at.
PostAnswered_Unread(w) ==
    /\ At(w, "posting")
    /\ LET c == worker[w].copy
       IN  /\ Goes(w, "saving", [c EXCEPT !.status = "success"])
           /\ acked' = acked
           /\ failures' = failures
    /\ UNCHANGED <<deployed, hook, row, publisher, faults>>

\* The endpoint answers 2xx, or anything else, or nothing for ten seconds.
PostAnswered(w) ==
    /\ At(w, "posting")
    /\ LET c == worker[w].copy
       IN  \/ /\ Goes(w, "saving", [c EXCEPT !.status = "success"])
              /\ acked' = acked \cup {c.of}
              /\ failures' = failures
           \/ /\ Goes(w, "saving", AfterFailure(c))
              /\ acked' = acked
              /\ failures' = [failures EXCEPT ![c.of] =
                                IF @ < MaxAttempts THEN @ + 1 ELSE @]
    /\ UNCHANGED <<deployed, hook, row, publisher, faults>>

\* The copy is written back, over whatever other workers wrote meanwhile.
SaveCopy(w) ==
    /\ At(w, "saving")
    /\ LET c == worker[w].copy
       IN  row' = [row EXCEPT ![c.of] = [status |-> c.status, attempts |-> c.attempts,
                                         due |-> c.due]]
    /\ Finish(w)
    /\ UNCHANGED <<deployed, hook, publisher, history, faults>>

-----------------------------------------------------------------------------
(* retryPending.                                                           *)

\* The interval fires: up to Take of the eligible rows are loaded at once.
Sweep(s) ==
    /\ s \in deployed /\ At(s, "idle")
    /\ \E due \in SUBSET Eligible :
         /\ due # {}
         /\ Cardinality(due) = Take \/ (due = Eligible /\ Cardinality(due) <= Take)
         /\ worker' = [worker EXCEPT ![s] =
                          [at |-> "next", queue |-> {Loaded(d) : d \in due}, copy |-> None]]
    /\ UNCHANGED <<deployed, hook, row, publisher, history, faults>>

\* The next loaded copy, in any order: find gives none.
SweepNext(s) ==
    /\ At(s, "next")
    /\ \/ /\ worker[s].queue = {}
          /\ worker' = [worker EXCEPT ![s] = Idle]
       \/ \E c \in worker[s].queue :
            worker' = [worker EXCEPT ![s] =
                          [at |-> "lookup", queue |-> @.queue \ {c}, copy |-> c]]
    /\ UNCHANGED <<deployed, hook, row, publisher, history, faults>>

\* Mutant: a row whose webhook is found inactive is skipped.
Lookup_SkipsInactive(w) ==
    /\ At(w, "lookup")
    /\ LET c == worker[w].copy
       IN  IF hook[c.of[2]] # "active" THEN Finish(w) ELSE StartPost(w, c)
    /\ UNCHANGED <<deployed, hook, row, publisher, history, faults>>

\* The webhook is looked up by id alone; a deleted one leaves the row pending.
Lookup(w) ==
    /\ At(w, "lookup")
    /\ LET c == worker[w].copy
       IN  IF hook[c.of[2]] = "deleted" THEN Finish(w) ELSE StartPost(w, c)
    /\ UNCHANGED <<deployed, hook, row, publisher, history, faults>>

-----------------------------------------------------------------------------
(* replayDelivery.                                                         *)

\* A row of a webhook that exists is loaded, whatever its status, and reset.
Replay(r, d) ==
    /\ r \in deployed /\ At(r, "idle")
    /\ row[d] # None /\ hook[d[2]] # "deleted"
    /\ Goes(r, "resetting", [of |-> d, status |-> "pending", attempts |-> 0,
                             due |-> "null"])
    /\ UNCHANGED <<deployed, hook, row, publisher, history, faults>>

\* The reset row is saved; the webhook is looked up and the post started.
ReplaySave(r) ==
    /\ At(r, "resetting")
    /\ LET c == worker[r].copy
       IN  /\ row' = [row EXCEPT ![c.of] = [status |-> c.status, attempts |-> c.attempts,
                                            due |-> c.due]]
           /\ Goes(r, "lookup", c)
    /\ UNCHANGED <<deployed, hook, publisher, history, faults>>

-----------------------------------------------------------------------------
(* The owner, time, and faults.                                            *)

\* update() and delete(): the rows of a deleted webhook stay.
ChangeHook(h) ==
    /\ h \in deployed /\ hook[h] # "deleted"
    /\ \E s \in {"active", "inactive", "deleted"} : hook' = [hook EXCEPT ![h] = s]
    /\ UNCHANGED <<deployed, row, publisher, worker, history, faults>>

\* The backoff of a row passes.
TimePasses(d) ==
    /\ row[d] # None /\ row[d].due = "later"
    /\ row' = [row EXCEPT ![d].due = "now"]
    /\ UNCHANGED <<deployed, hook, publisher, worker, history, faults>>

\* Anything in memory is gone: queues, posts in flight, a publish half done.
Restart ==
    /\ publisher' = [e \in Events |-> IF publisher[e].at = "saving"
                                      THEN [at |-> "done", todo |-> {}] ELSE publisher[e]]
    /\ worker' = [w \in Workers |->
                    IF w \in Sweeps THEN Idle
                    ELSE IF worker[w].at = "idle" THEN Idle ELSE [Idle EXCEPT !.at = "done"]]

Crash ==
    /\ faults < MaxFaults
    /\ faults' = faults + 1
    /\ Restart
    /\ UNCHANGED <<deployed, hook, row, history>>

\* A save throws: the sweep, or the call, ends there.
SaveFails(w) ==
    /\ worker[w].at \in {"saving", "resetting"}
    /\ faults < MaxFaults
    /\ faults' = faults + 1
    /\ worker' = [worker EXCEPT ![w] = IF w \in Sweeps THEN Idle ELSE [Idle EXCEPT !.at = "done"]]
    /\ UNCHANGED <<deployed, hook, row, publisher, history>>

WorkerStep(w) == Lookup(w) \/ PostAnswered(w) \/ SaveCopy(w)

Next ==
    \/ \E e \in Events : Publish(e) \/ PublishEnds(e) \/ \E h \in Hooks : PublishTo(e, h)
    \/ \E s \in Sweeps : Sweep(s) \/ SweepNext(s)
    \/ \E r \in Replays : ReplaySave(r) \/ \E d \in Deliveries : Replay(r, d)
    \/ \E w \in Workers : WorkerStep(w) \/ SaveFails(w)
    \/ \E h \in Hooks : ChangeHook(h)
    \/ \E d \in Deliveries : TimePasses(d)
    \/ Crash

\* The interval keeps firing, posts end (they time out), time passes, and calls
\* that were started go on.
Fairness ==
    /\ \A s \in Sweeps : WF_vars(Sweep(s)) /\ WF_vars(SweepNext(s))
    /\ \A r \in Replays : WF_vars(ReplaySave(r))
    /\ \A w \in Workers : WF_vars(WorkerStep(w))
    /\ \A d \in Deliveries : WF_vars(TimePasses(d))

Spec == Init /\ [][Next]_vars /\ Fairness

-----------------------------------------------------------------------------
(* Properties.                                                             *)

\* A row is dead-lettered only after MAX_ATTEMPTS posts of it have failed,
\* although replays reset its counter and overlapping workers write stale
\* counters over one another (deliver, lines 194 and 210-222).
DeadLettersAreExhausted ==
    \A d \in Deliveries :
      row[d] # None /\ row[d].status = "dlq" => failures[d] = MaxAttempts

\* A row says SUCCESS only if the endpoint acknowledged a post of it: no stale
\* copy, retry or restart makes up a success (deliver, lines 200-208).
SuccessWasAcknowledged ==
    \A d \in Deliveries :
      row[d] # None /\ row[d].status = "success" => d \in acked

\* What a sweep takes up and leaves as it is: delete() leaves these rows behind.
Orphans ==
    {d \in Deliveries : row[d] # None /\ row[d].status = "pending" /\ hook[d[2]] = "deleted"}

\* Every row of a webhook that exists ends up delivered or dead-lettered for
\* good, even if the process restarts with its post in flight, however often
\* overlapping workers bring it back to PENDING, and although a sweep takes no
\* more than its limit and in no order: unless the pending rows of deleted
\* webhooks come to fill that limit, when a sweep may take up nothing else
\* (retryPending, lines 230-244).
EveryDeliverySettles ==
    <>[](Cardinality(Orphans) < Take) =>
      \A d \in Deliveries :
        <>[](\/ row[d] = None
             \/ row[d].status \in {"success", "dlq"}
             \/ hook[d[2]] = "deleted")
=============================================================================
