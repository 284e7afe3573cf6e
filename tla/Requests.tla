------------------------------ MODULE Requests ------------------------------
(***************************************************************************)
(* What the handlers of the backend share.  A handler runs between two of  *)
(* its awaits without interruption, so a call is a sequence of atomic      *)
(* steps, and calls interleave at the awaits.  Between the steps a call    *)
(* holds the copies it read, in `seen`; repository.save(entity) writes     *)
(* every column of the copy that differs from the row, which makes it a    *)
(* write of the whole row as the call saw it, while update, increment and  *)
(* delete touch only what they name.  No handler below opens a             *)
(* transaction, locks a row or checks a version.                           *)
(***************************************************************************)
EXTENDS Integers, FiniteSets

CONSTANTS
  Calls,    \* the calls that may be under way together
  None

ASSUME RequestsAssumption == Calls # {} /\ IsFiniteSet(Calls)

VARIABLES
  call,     \* where each call waits, on which row, with which copy
  raced     \* for the properties: some call wrote from a copy gone stale

reqVars == <<call, raced>>

Idle == [at |-> "idle", id |-> None, seen |-> None, arg |-> None]

RequestsInit == call = [c \in Calls |-> Idle] /\ raced = FALSE

At(c, step) == call[c].at = step

\* c runs up to its next await, where it holds the copy seen.
Waits(c, step, i, seen, a) ==
  call' = [call EXCEPT ![c] = [at |-> step, id |-> i, seen |-> seen, arg |-> a]]

\* c starts with a query that answers seen.
Reads(c, step, i, seen, a) ==
  At(c, "idle") /\ Waits(c, step, i, seen, a) /\ UNCHANGED raced

Moves(c, step) == call' = [call EXCEPT ![c].at = step]
Ends(c) == call' = [call EXCEPT ![c] = Idle]

\* c acts on what it read when the answer would now be `current`.
Trusts(c, current) == raced' = (raced \/ call[c].seen # current)

\* A query fails, or the client of an external service gives up: c ends where it waits.
Fails(c) == ~At(c, "idle") /\ Ends(c) /\ UNCHANGED raced

\* The process dies: every call of it is lost.
Dies == call' = [c \in Calls |-> Idle] /\ UNCHANGED raced

RequestsTypeOK ==
  /\ raced \in BOOLEAN
  /\ DOMAIN call = Calls /\ \A c \in Calls : DOMAIN call[c] = DOMAIN Idle
=============================================================================
