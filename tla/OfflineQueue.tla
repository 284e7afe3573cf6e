---------------------------- MODULE OfflineQueue ----------------------------
(***************************************************************************)
(* The service worker (apps/frontend/public/sw.js): a write request that   *)
(* finds no network is stored in IndexedDB and answered "queued"; a sync   *)
(* event sends what is stored.  And the indicator of useOfflineSync, whose *)
(* timers go on whatever happens meanwhile.  A call is a request of the    *)
(* page, a run of flushQueue, or the timers of one `online` event.  What   *)
(* the worker awaits are the network, the server and the browser's store:  *)
(* a reply may be lost, and the browser may end the worker at any await.   *)
(***************************************************************************)
EXTENDS Requests

CONSTANTS
  MaxWrites,     \* bound on the requests
  MaxArrivals,   \* bound on how often one reaches the server
  MaxSwitches    \* bound on how often the network goes down

ASSUME OfflineAssumption == MaxWrites \in Nat /\ MaxArrivals \in Nat /\ MaxSwitches \in Nat

VARIABLES
  writes,    \* the requests, the store, and how often each arrived
  browser    \* [online, switches, sync, indicator]

offlineVars == <<writes, browser>>

Writes == 0 .. MaxWrites - 1

OfflineInit ==
  /\ writes = [next |-> 0,
               queue |-> {},           \* the object store sync-queue
               queued |-> {},          \* answered 202, queued
               direct |-> {},          \* answered by the server
               deleted |-> {},         \* taken out of the store
               arrived |-> [w \in Writes |-> 0],
               unnoticed |-> [w \in Writes |-> 0]]   \* arrivals the worker did not learn of
  /\ browser = [online |-> TRUE, switches |-> 0,
                sync |-> FALSE,        \* progress-sync is registered
                indicator |-> "online"]

Written == 0 .. writes.next - 1

\* The page writes; the worker passes the request on.
fetch(c) ==
  /\ writes.next < MaxWrites
  /\ writes' = [writes EXCEPT !.next = @ + 1]
  /\ Reads(c, "fetch", writes.next, None, None)
  /\ UNCHANGED browser

\* The server gets the request of c; its reply arrives, or is lost.
Arrives(c) == writes.arrived[call[c].id] < MaxArrivals

fetch_answered(c) ==
  /\ At(c, "fetch") /\ browser.online /\ Arrives(c)
  /\ writes' = [writes EXCEPT !.arrived[call[c].id] = @ + 1, !.direct = @ \cup {call[c].id}]
  /\ Ends(c)
  /\ UNCHANGED <<browser, raced>>

\* fetch rejects: no network, or the reply was lost.
fetch_rejected(c, lost) ==
  /\ At(c, "fetch")
  /\ lost => browser.online /\ Arrives(c)
  /\ writes' = IF lost THEN [writes EXCEPT !.arrived[call[c].id] = @ + 1,
                                           !.unnoticed[call[c].id] = @ + 1]
               ELSE writes
  /\ Moves(c, "enqueue")
  /\ UNCHANGED <<browser, raced>>

\* The transaction completes, then the page is answered 202.
enqueueRequest(c) ==
  /\ At(c, "enqueue")
  /\ writes' = [writes EXCEPT !.queue = @ \cup {call[c].id}]
  /\ Moves(c, "answer")
  /\ UNCHANGED <<browser, raced>>
enqueueRequest_answer(c) ==
  /\ At(c, "answer")
  /\ writes' = [writes EXCEPT !.queued = @ \cup {call[c].id}]
  /\ Ends(c)
  /\ UNCHANGED <<browser, raced>>

\* ---- the sync event

Flushing == \E c \in Calls : call[c].at \in {"flush", "delete"}

\* The browser fires a registration once at a time; arg: what getAll answered.
flushQueue(c) ==
  /\ browser.sync /\ browser.online /\ ~Flushing
  /\ Reads(c, "flush", None, None, writes.queue)
  /\ browser' = [browser EXCEPT !.sync = FALSE]
  /\ UNCHANGED writes

NextItem(c) == CHOOSE w \in call[c].arg : \A v \in call[c].arg : w <= v

\* Any answer, an error too, takes the item out of the store.
flushQueue_sent(c) ==
  /\ At(c, "flush") /\ call[c].arg # {}
  /\ LET w == NextItem(c) IN
     /\ browser.online /\ writes.arrived[w] < MaxArrivals
     /\ writes' = [writes EXCEPT !.arrived[w] = @ + 1]
     /\ Waits(c, "delete", w, None, call[c].arg \ {w})
  /\ UNCHANGED <<browser, raced>>

\* The item stays for a later event, and no event is asked for.
flushQueue_rejected(c, lost) ==
  /\ At(c, "flush") /\ call[c].arg # {}
  /\ LET w == NextItem(c) IN
     /\ lost => browser.online /\ writes.arrived[w] < MaxArrivals
     /\ writes' = IF lost THEN [writes EXCEPT !.arrived[w] = @ + 1, !.unnoticed[w] = @ + 1]
                  ELSE writes
     /\ call' = [call EXCEPT ![c].arg = @ \ {w}]
  /\ UNCHANGED <<browser, raced>>

flushQueue_delete(c, ok) ==
  /\ At(c, "delete")
  /\ writes' = IF ok THEN [writes EXCEPT !.queue = @ \ {call[c].id},
                                         !.deleted = @ \cup {call[c].id}]
               ELSE [writes EXCEPT !.unnoticed[call[c].id] = @ + 1]
  /\ Waits(c, "flush", None, None, call[c].arg)
  /\ UNCHANGED <<browser, raced>>

flushQueue_end(c) ==
  /\ At(c, "flush") /\ call[c].arg = {}
  /\ Ends(c)
  /\ UNCHANGED <<writes, browser, raced>>

\* The browser ends the worker, and fires an unfinished sync event again.
WorkerEnds(c) ==
  /\ call[c].at \in {"fetch", "enqueue", "answer", "flush", "delete"}
  /\ Ends(c)
  /\ writes' = IF At(c, "delete") THEN [writes EXCEPT !.unnoticed[call[c].id] = @ + 1]
               ELSE writes
  /\ browser' = [browser EXCEPT !.sync = @ \/ call[c].at \in {"flush", "delete"}]
  /\ UNCHANGED raced

\* ---- the page

\* handleOnline up to its await; handleOffline.
GoesOnline(c) ==
  /\ ~browser.online
  /\ browser' = [browser EXCEPT !.online = TRUE]
  /\ Reads(c, "register", None, None, None)
  /\ UNCHANGED writes
GoesOffline ==
  /\ browser.online /\ browser.switches < MaxSwitches
  /\ browser' = [browser EXCEPT !.online = FALSE, !.switches = @ + 1, !.indicator = "offline"]
  /\ UNCHANGED <<writes, reqVars>>

\* register answers, or fails, which is ignored.
handleOnline_registered(c, ok) ==
  /\ At(c, "register")
  /\ browser' = [browser EXCEPT !.sync = @ \/ ok, !.indicator = "syncing"]
  /\ Moves(c, "two_seconds")
  /\ UNCHANGED <<writes, raced>>
FirstTimer(c) ==
  /\ At(c, "two_seconds")
  /\ browser' = [browser EXCEPT !.indicator = "synced"]
  /\ Moves(c, "three_seconds")
  /\ UNCHANGED <<writes, raced>>
SecondTimer(c) ==
  /\ At(c, "three_seconds")
  /\ browser' = [browser EXCEPT !.indicator = "online"]
  /\ Ends(c)
  /\ UNCHANGED <<writes, raced>>

OfflineNext ==
  \/ \E c \in Calls :
       \/ fetch(c) \/ fetch_answered(c) \/ enqueueRequest(c) \/ enqueueRequest_answer(c)
       \/ flushQueue(c) \/ flushQueue_sent(c) \/ flushQueue_end(c) \/ WorkerEnds(c)
       \/ \E b \in BOOLEAN : \/ fetch_rejected(c, b) \/ flushQueue_rejected(c, b)
                             \/ flushQueue_delete(c, b) \/ handleOnline_registered(c, b)
       \/ GoesOnline(c) \/ FirstTimer(c) \/ SecondTimer(c)
  \/ GoesOffline

OfflineTypeOK ==
  /\ writes.next \in 0 .. MaxWrites
  /\ writes.queue \cup writes.queued \cup writes.direct \cup writes.deleted \subseteq Written
  /\ writes.arrived \in [Writes -> 0 .. MaxArrivals]
  /\ browser.indicator \in {"online", "offline", "syncing", "synced"}

Deleting(w) == {c \in Calls : At(c, "delete") /\ call[c].id = w}
Timers == \E c \in Calls : call[c].at \in {"register", "two_seconds", "three_seconds"}

(* A request answered "queued" is in the store until it has reached the      *)
(* server.  It reaches it once, and once more for each arrival the worker    *)
(* did not learn of: a lost reply, a failed delete, an end of the worker.    *)
(* When the network is up and no timer runs, the indicator says so.          *)
QueuedWritesArrive ==
  /\ \A w \in Written :
       /\ w \in writes.queued => w \in writes.queue \/ writes.arrived[w] > 0
       /\ writes.arrived[w] = writes.unnoticed[w] + Cardinality(Deleting(w))
            + (IF w \in writes.direct \cup writes.deleted THEN 1 ELSE 0)
  /\ browser.online /\ ~Timers => browser.indicator = "online"
=============================================================================
