--------------------------- MODULE CircuitBreaker ---------------------------
(***************************************************************************)
(* The circuit breaker of the Stellar/Soroban client                       *)
(* (apps/backend/src/stellar/circuit-breaker.ts): one CircuitBreaker       *)
(* object shared by any number of concurrent call()s.  A call is admitted  *)
(* or refused in one synchronous step; an admitted call then awaits its    *)
(* protected function, retried by withRetryBackoff, and reports success or *)
(* failure to whatever state the breaker is in by THEN, which need not be  *)
(* the state that admitted it.                                             *)
(***************************************************************************)
EXTENDS Naturals

CONSTANTS
    Callers,           \* the requests that may be inside call() at one time
    FailureThreshold,  \* config.failureThreshold
    SuccessThreshold,  \* config.successThreshold
    MaxRetries         \* retryConfig.maxRetries of withRetryBackoff

ASSUME ThresholdAssumption ==
    /\ FailureThreshold \in Nat \ {0}
    /\ SuccessThreshold \in Nat \ {0}
    /\ MaxRetries \in Nat

VARIABLES
    state,         \* this.state
    failureCount,  \* this.failureCount, kept up to FailureThreshold: the code only
                   \* ever asks whether it has reached the threshold
    successCount,  \* this.successCount
    due,           \* Date.now() >= this.nextAttemptTime
    call,          \* per caller: inside call() or not, retries made, last answer
    history        \* not in the code: failures since the breaker last closed and
                   \* successes since it last went half-open (both up to a threshold)

counters == <<state, failureCount, successCount, due>>
breakerVars == <<state, failureCount, successCount, due, call, history>>

Answers == {"none", "ok", "fallback", "error"}

BreakerTypeOK ==
    /\ state \in {"CLOSED", "OPEN", "HALF_OPEN"}
    /\ failureCount \in 0..FailureThreshold
    /\ successCount \in 0..SuccessThreshold
    /\ due \in BOOLEAN
    /\ call \in [Callers -> [running : BOOLEAN, retries : 0..MaxRetries, answer : Answers]]
    /\ history \in [failed : 0..FailureThreshold, ok : 0..SuccessThreshold]

\* One more, up to the threshold it is compared with.
Count(n, threshold) == IF n < threshold THEN n + 1 ELSE threshold

BreakerInit ==
    /\ state = "CLOSED"
    /\ failureCount = 0
    /\ successCount = 0
    /\ due = FALSE
    /\ call = [c \in Callers |-> [running |-> FALSE, retries |-> 0, answer |-> "none"]]
    /\ history = [failed |-> 0, ok |-> 0]

Enter(c)     == call' = [call EXCEPT ![c] = [running |-> TRUE, retries |-> 0, answer |-> "none"]]
Return(c, a) == call' = [call EXCEPT ![c] = [running |-> FALSE, retries |-> 0, answer |-> a]]

----------------------------------------------------------------------------
(* call(), up to its first await *)

Refuse(c) ==
    /\ ~call[c].running
    /\ state = "OPEN" /\ ~due
    /\ Return(c, "fallback")
    /\ UNCHANGED <<counters, history>>

Admit(c) ==
    /\ ~call[c].running
    /\ state # "OPEN"
    /\ Enter(c)
    /\ UNCHANGED <<counters, history>>

\* Mutant: successes of an earlier probation still count.
Probe_KeepsSuccesses(c) ==
    /\ ~call[c].running
    /\ state = "OPEN" /\ due
    /\ state' = "HALF_OPEN"
    /\ Enter(c)
    /\ history' = [history EXCEPT !.ok = 0]
    /\ UNCHANGED <<failureCount, successCount, due>>

\* The first call after resetTimeout turns the breaker HALF_OPEN and goes through;
\* every later one goes through by Admit.
Probe(c) ==
    /\ ~call[c].running
    /\ state = "OPEN" /\ due
    /\ state' = "HALF_OPEN"
    /\ successCount' = 0
    /\ Enter(c)
    /\ history' = [history EXCEPT !.ok = 0]
    /\ UNCHANGED <<failureCount, due>>

----------------------------------------------------------------------------
(* the protected function settles *)

\* What the history records of a success.
SuccessHistory ==
    history' = [failed |-> IF state # "CLOSED" /\ state' = "CLOSED" THEN 0 ELSE history.failed,
                ok     |-> Count(history.ok, SuccessThreshold)]

\* Mutant: failureCount is cleared in CLOSED only, so it survives a recovery.
onSuccess_KeepsFailures ==
    /\ IF state = "HALF_OPEN"
       THEN /\ successCount' = successCount + 1
            /\ state' = IF successCount + 1 >= SuccessThreshold THEN "CLOSED" ELSE state
            /\ failureCount' = failureCount
       ELSE /\ failureCount' = 0
            /\ UNCHANGED <<state, successCount>>
    /\ due' = due
    /\ SuccessHistory

\* Mutant: each success starts the count of successes afresh.
onSuccess_NeverAccumulates ==
    /\ failureCount' = 0
    /\ IF state = "HALF_OPEN"
       THEN /\ successCount' = 1
            /\ state' = IF successCount' >= SuccessThreshold THEN "CLOSED" ELSE state
       ELSE UNCHANGED <<state, successCount>>
    /\ due' = due
    /\ SuccessHistory

onSuccess ==
    /\ failureCount' = 0
    /\ IF state = "HALF_OPEN"
       THEN /\ successCount' = successCount + 1
            /\ state' = IF successCount + 1 >= SuccessThreshold THEN "CLOSED" ELSE state
       ELSE UNCHANGED <<state, successCount>>
    /\ due' = due
    /\ SuccessHistory

\* HALF_OPEN trips on any failure; the other states when the threshold is reached.  A call
\* that fails late, in OPEN, can trip again and push nextAttemptTime further away.
onFailure ==
    LET failures == Count(failureCount, FailureThreshold)
        trips    == state = "HALF_OPEN" \/ failures >= FailureThreshold
    IN  /\ failureCount' = failures
        /\ state' = IF trips THEN "OPEN" ELSE state
        /\ due' = IF trips THEN FALSE ELSE due
        /\ successCount' = successCount
        /\ history' = [history EXCEPT !.failed = Count(@, FailureThreshold)]

Succeed(c) ==
    /\ call[c].running
    /\ onSuccess
    /\ Return(c, "ok")

\* withRetryBackoff: another attempt after a delay, the breaker is told nothing.
Retry(c) ==
    /\ call[c].running
    /\ call[c].retries < MaxRetries
    /\ call' = [call EXCEPT ![c].retries = @ + 1]
    /\ UNCHANGED <<counters, history>>

\* Mutant: a failure that does not open the breaker starts the call over.
GiveUp_StartsOver(c) ==
    /\ call[c].running
    /\ call[c].retries = MaxRetries
    /\ onFailure
    /\ IF state' = "OPEN" THEN Return(c, "fallback") ELSE Enter(c)

\* The last attempt failed: the breaker counts one failure for the whole call.
GiveUp(c) ==
    /\ call[c].running
    /\ call[c].retries = MaxRetries
    /\ onFailure
    /\ Return(c, IF state' = "OPEN" THEN "fallback" ELSE "error")

----------------------------------------------------------------------------
(* the clock and the operator *)

ResetTimeoutElapses ==
    /\ state = "OPEN" /\ ~due
    /\ due' = TRUE
    /\ UNCHANGED <<state, failureCount, successCount, call, history>>

\* reset(), also by CircuitBreakerFactory.reset and resetAll, with calls in flight.
Reset ==
    /\ state' = "CLOSED"
    /\ failureCount' = 0
    /\ successCount' = 0
    /\ due' = FALSE
    /\ history' = [failed |-> 0, ok |-> 0]
    /\ UNCHANGED call

TryFails(c) == Retry(c) \/ GiveUp(c)
Arrive(c)       == Admit(c) \/ Probe(c)

BreakerNext ==
    \/ \E c \in Callers :
          \/ Refuse(c)
          \/ Admit(c)
          \/ Probe(c)
          \/ Succeed(c)
          \/ Retry(c)
          \/ GiveUp(c)
    \/ ResetTimeoutElapses
    \/ Reset

BreakerSpec == BreakerInit /\ [][BreakerNext]_breakerVars

\* An await settles, the clock moves on, and requests keep arriving.
BreakerFairness ==
    /\ WF_breakerVars(ResetTimeoutElapses)
    /\ \A c \in Callers :
          /\ WF_breakerVars(Succeed(c) \/ TryFails(c))
          /\ WF_breakerVars(Arrive(c))

BreakerFairSpec == BreakerSpec /\ BreakerFairness

----------------------------------------------------------------------------
(* properties *)

\* A closed breaker is always below its threshold, and a half-open one has not yet seen
\* the successes that close it, although calls admitted in an earlier state report late.
CountersBelowThreshold ==
    /\ state = "CLOSED" => failureCount < FailureThreshold
    /\ state = "HALF_OPEN" => successCount < SuccessThreshold

\* A closed breaker opens only after FailureThreshold calls have failed since it closed:
\* failures of an earlier closed period, of the open one or of the probation never carry
\* over into the new period.
TripsOnlyAfterThreshold ==
    [][state = "CLOSED" /\ state' = "OPEN" => history'.failed = FailureThreshold]_breakerVars

\* However calls overlap, the breaker leaves HALF_OPEN for CLOSED only by an operator's
\* reset or after SuccessThreshold successes were reported in THIS probation.
ClosesOnlyAfterProbation ==
    [][state = "HALF_OPEN" /\ state' = "CLOSED" =>
          Reset \/ history'.ok = SuccessThreshold]_breakerVars

\* Every admitted call is answered: retries are bounded, whatever the breaker does meanwhile.
EveryCallAnswered == \A c \in Callers : call[c].running ~> call[c].answer # "none"

\* Once upstream has stopped failing the breaker closes for good: failures of calls that
\* were admitted long ago can push the reset timeout away, but not for ever.
Recovers ==
    <>[][\A c \in Callers : ~TryFails(c)]_breakerVars => <>[](state = "CLOSED")
=============================================================================
