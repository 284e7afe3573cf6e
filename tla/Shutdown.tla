------------------------------ MODULE Shutdown ------------------------------
(***************************************************************************)
(* ShutdownMiddleware and GracefulShutdownService.  The middleware turns   *)
(* requests away once a signal has come, counts those it lets in, and      *)
(* gives one back on the 'finish' of the response and one on its 'close'.  *)
(* Each signal runs shutdown(): wait for the count to reach zero or for    *)
(* the drain timeout, run the cleanup handlers, exit.  A Node response     *)
(* (external) emits finish before close, and only close when the client    *)
(* goes away.                                                              *)
(***************************************************************************)
EXTENDS Requests

CONSTANT Signals          \* SIGTERM, SIGINT
ASSUME ShutdownAssumption == IsFiniteSet(Signals)

VARIABLE server

ShutdownInit ==
  server = [inFlightCount |-> 0, isShuttingDown |-> FALSE,
            drainResolve |-> None,                   \* the shutdown it resolves
            run |-> [s \in Signals |-> "none"],      \* where each shutdown() is
            timedOut |-> FALSE,                      \* some drain ended by its timeout
            twice |-> FALSE,                         \* a response gave back two counts
            late |-> FALSE,                          \* a request got in after a signal
            exited |-> FALSE]

InFlight == {c \in Calls : At(c, "handled")}

ShutdownMiddleware(c) ==
  /\ ~server.exited
  /\ ~server.isShuttingDown
  /\ server' = [server EXCEPT !.inFlightCount = @ + 1,
                   !.late = @ \/ \E s \in Signals : server.run[s] # "none"]
  /\ Reads(c, "handled", None, None, None)

\* A mutant of releaseRequest: the count may go below zero.
releaseRequest_Unclamped(s) ==
  LET count == s.inFlightCount - 1
  IN  [s EXCEPT !.inFlightCount = count,
         !.run = IF s.isShuttingDown /\ count = 0 /\ s.drainResolve # None
                    /\ s.run[s.drainResolve] = "draining"
                 THEN [@ EXCEPT ![s.drainResolve] = "cleaning"] ELSE @]

\* drainResolve is called again on every release at zero, to no further effect.
releaseRequest(s) ==
  LET count == IF s.inFlightCount > 0 THEN s.inFlightCount - 1 ELSE 0
  IN  [s EXCEPT !.inFlightCount = count,
         !.run = IF s.isShuttingDown /\ count = 0 /\ s.drainResolve # None
                    /\ s.run[s.drainResolve] = "draining"
                 THEN [@ EXCEPT ![s.drainResolve] = "cleaning"] ELSE @]

\* The handler answers: 'finish', and the response still has to close.
ResponseFinishes(c) ==
  /\ ~server.exited
  /\ At(c, "handled")
  /\ server' = releaseRequest(server)
  /\ Moves(c, "finished")
  /\ UNCHANGED raced

\* 'close' after 'finish', or alone when the client left first.
ResponseCloses(c) ==
  /\ ~server.exited
  /\ At(c, "handled") \/ At(c, "finished")
  /\ server' = [releaseRequest(server) EXCEPT !.twice = @ \/ At(c, "finished")]
  /\ Ends(c)
  /\ UNCHANGED raced

\* shutdown(): a later one takes over drainResolve and leaves the first its timeout.
shutdown(s) ==
  /\ ~server.exited
  /\ server.run[s] = "none"
  /\ server' = IF server.inFlightCount > 0
               THEN [server EXCEPT !.isShuttingDown = TRUE, !.drainResolve = s,
                                   !.run[s] = "draining"]
               ELSE [server EXCEPT !.isShuttingDown = TRUE, !.run[s] = "cleaning"]
  /\ UNCHANGED reqVars

DrainTimeout(s) ==
  /\ ~server.exited
  /\ server.run[s] = "draining"
  /\ server' = [server EXCEPT !.run[s] = "cleaning", !.timedOut = TRUE]
  /\ UNCHANGED reqVars

\* The cleanup handlers have run, failed ones included: process.exit(0).
CleanupEnds(s) ==
  /\ ~server.exited
  /\ server.run[s] = "cleaning"
  /\ server' = [server EXCEPT !.exited = TRUE]
  /\ UNCHANGED reqVars

ShutdownNext ==
  \/ \E c \in Calls : ShutdownMiddleware(c) \/ ResponseFinishes(c) \/ ResponseCloses(c)
  \/ \E s \in Signals : shutdown(s) \/ DrainTimeout(s) \/ CleanupEnds(s)

ShutdownTypeOK ==
  /\ server.inFlightCount \in 0 .. Cardinality(Calls)
  /\ server.drainResolve \in Signals \cup {None}
  /\ server.run \in [Signals -> {"none", "draining", "cleaning"}]
  /\ {server.isShuttingDown, server.timedOut, server.twice, server.late, server.exited}
       \subseteq BOOLEAN

Cleaning == \E s \in Signals : server.run[s] = "cleaning"

(* No request is admitted once a signal has come; the count never exceeds   *)
(* the requests in flight; and as long as no response gave back its count   *)
(* twice, cleanup waits for every request or for the drain timeout.         *)
DrainIsOrderly ==
  /\ ~server.late
  /\ server.inFlightCount <= Cardinality(InFlight)
  /\ ~server.twice => server.inFlightCount = Cardinality(InFlight)
  /\ Cleaning /\ ~server.twice /\ ~server.timedOut => InFlight = {}

(* "Tracks in-flight requests and delays shutdown until they complete (or   *)
(* the drain timeout is reached)."  False of the code: finish and close     *)
(* each release a request.                                                  *)
CleanupAwaitsRequests == Cleaning /\ ~server.timedOut => InFlight = {}
=============================================================================
