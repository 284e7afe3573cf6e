-------------------------- MODULE SorobanRpc_proofs --------------------------
(***************************************************************************)
(* What holds of the circuit breaker on its own for every number of        *)
(* callers and every choice of the thresholds, and then of the Soroban RPC *)
(* client around it, for any number of overlapping invocations, retries,   *)
(* attempts and faults: the breaker inside it behaves as CircuitBreaker    *)
(* says, and the nested retry loops put no more on the network than their  *)
(* budget allows.                                                          *)
(***************************************************************************)
EXTENDS SorobanRpc, FiniteSetTheorems, SequenceTheorems, TLAPS

----------------------------------------------------------------------------
(* the breaker on its own *)

\* The history never falls behind the counters the code decides by.
HistoryCovers ==
    /\ state = "CLOSED" => failureCount <= history.failed
    /\ state = "HALF_OPEN" => successCount <= history.ok

BreakerInv == BreakerTypeOK /\ CountersBelowThreshold /\ HistoryCovers

LEMMA BreakerInitInv == BreakerInit => BreakerInv
  <1> SUFFICES ASSUME BreakerInit PROVE BreakerInv
    OBVIOUS
  <1>1. call \in [Callers -> [running : BOOLEAN, retries : 0..MaxRetries, answer : Answers]]
    BY ThresholdAssumption DEF BreakerInit, Answers
  <1>2. history \in [failed : 0..FailureThreshold, ok : 0..SuccessThreshold]
    BY ThresholdAssumption DEF BreakerInit
  <1>3. BreakerTypeOK
    BY <1>1, <1>2, ThresholdAssumption DEF BreakerInit, BreakerTypeOK
  <1>4. QED
    BY <1>3, ThresholdAssumption DEF BreakerInit, BreakerInv, CountersBelowThreshold, HistoryCovers

LEMMA ReturnType ==
    ASSUME BreakerTypeOK, NEW c \in Callers, NEW a \in Answers, Return(c, a)
    PROVE  call' \in [Callers -> [running : BOOLEAN, retries : 0..MaxRetries, answer : Answers]]
  BY ThresholdAssumption DEF BreakerTypeOK, Return

LEMMA EnterType ==
    ASSUME BreakerTypeOK, NEW c \in Callers, Enter(c)
    PROVE  call' \in [Callers -> [running : BOOLEAN, retries : 0..MaxRetries, answer : Answers]]
  BY ThresholdAssumption DEF BreakerTypeOK, Enter, Answers

LEMMA SuccessStep ==
    ASSUME BreakerInv, onSuccess
    PROVE  /\ state' \in {"CLOSED", "OPEN", "HALF_OPEN"}
           /\ failureCount' \in 0..FailureThreshold
           /\ successCount' \in 0..SuccessThreshold
           /\ due' \in BOOLEAN
           /\ history' \in [failed : 0..FailureThreshold, ok : 0..SuccessThreshold]
           /\ CountersBelowThreshold'
           /\ HistoryCovers'
           /\ state = "HALF_OPEN" /\ state' = "CLOSED" => history'.ok = SuccessThreshold
           /\ state = "CLOSED" => state' = "CLOSED"
  <1>1. /\ Count(history.ok, SuccessThreshold) \in 0..SuccessThreshold
        /\ successCount <= history.ok =>
              \/ Count(history.ok, SuccessThreshold) = SuccessThreshold
              \/ successCount + 1 <= Count(history.ok, SuccessThreshold)
    BY ThresholdAssumption DEF BreakerInv, BreakerTypeOK, Count
  <1>2. CASE state = "HALF_OPEN"
    BY <1>1, <1>2, ThresholdAssumption
       DEF BreakerInv, BreakerTypeOK, CountersBelowThreshold, HistoryCovers, onSuccess,
           SuccessHistory
  <1>3. CASE state # "HALF_OPEN"
    BY <1>1, <1>3, ThresholdAssumption
       DEF BreakerInv, BreakerTypeOK, CountersBelowThreshold, HistoryCovers, onSuccess,
           SuccessHistory
  <1>4. QED BY <1>2, <1>3

LEMMA FailureStep ==
    ASSUME BreakerInv, onFailure
    PROVE  /\ state' \in {"CLOSED", "OPEN", "HALF_OPEN"}
           /\ failureCount' \in 0..FailureThreshold
           /\ successCount' \in 0..SuccessThreshold
           /\ due' \in BOOLEAN
           /\ history' \in [failed : 0..FailureThreshold, ok : 0..SuccessThreshold]
           /\ CountersBelowThreshold'
           /\ HistoryCovers'
           /\ state = "CLOSED" /\ state' = "OPEN" => history'.failed = FailureThreshold
           /\ state = "HALF_OPEN" => state' = "OPEN"
  <1>1. /\ Count(failureCount, FailureThreshold) \in 0..FailureThreshold
        /\ Count(history.failed, FailureThreshold) \in 0..FailureThreshold
        /\ failureCount <= history.failed =>
              Count(failureCount, FailureThreshold) <= Count(history.failed, FailureThreshold)
    BY ThresholdAssumption DEF BreakerInv, BreakerTypeOK, Count
  <1>2. history' = [history EXCEPT !.failed = Count(@, FailureThreshold)]
    BY DEF onFailure
  <1>3. /\ history' \in [failed : 0..FailureThreshold, ok : 0..SuccessThreshold]
        /\ history'.failed = Count(history.failed, FailureThreshold)
        /\ history'.ok = history.ok
    BY <1>1, <1>2 DEF BreakerInv, BreakerTypeOK
  <1>4. /\ failureCount' = Count(failureCount, FailureThreshold)
        /\ successCount' = successCount
        /\ state = "HALF_OPEN" => state' = "OPEN" /\ due' = FALSE
        /\ failureCount' >= FailureThreshold => state' = "OPEN" /\ due' = FALSE
        /\ state # "HALF_OPEN" /\ ~(failureCount' >= FailureThreshold) =>
              state' = state /\ due' = due
    BY DEF onFailure
  <1>5. /\ state' \in {"CLOSED", "OPEN", "HALF_OPEN"}
        /\ due' \in BOOLEAN
    BY <1>4 DEF BreakerInv, BreakerTypeOK
  <1>6. CountersBelowThreshold'
    BY <1>1, <1>4, ThresholdAssumption DEF BreakerInv, BreakerTypeOK, CountersBelowThreshold
  <1>7. HistoryCovers'
    BY <1>1, <1>3, <1>4 DEF BreakerInv, BreakerTypeOK, HistoryCovers
  <1>8. state = "CLOSED" /\ state' = "OPEN" => history'.failed = FailureThreshold
    BY <1>1, <1>3, <1>4, ThresholdAssumption DEF BreakerInv, BreakerTypeOK, HistoryCovers
  <1>9. QED
    BY <1>1, <1>3, <1>4, <1>5, <1>6, <1>7, <1>8 DEF BreakerInv, BreakerTypeOK

LEMMA BreakerNextInv == BreakerInv /\ [BreakerNext]_breakerVars => BreakerInv'
  <1> SUFFICES ASSUME BreakerInv, [BreakerNext]_breakerVars PROVE BreakerInv'
    OBVIOUS
  <1>1. ASSUME NEW c \in Callers, Refuse(c) PROVE BreakerInv'
    BY <1>1, ReturnType
       DEF Refuse, counters, BreakerInv, BreakerTypeOK, CountersBelowThreshold, HistoryCovers, Answers
  <1>2. ASSUME NEW c \in Callers, Admit(c) PROVE BreakerInv'
    BY <1>2, EnterType
       DEF Admit, counters, BreakerInv, BreakerTypeOK, CountersBelowThreshold, HistoryCovers
  <1>3. ASSUME NEW c \in Callers, Probe(c) PROVE BreakerInv'
    BY <1>3, EnterType, ThresholdAssumption
       DEF Probe, BreakerInv, BreakerTypeOK, CountersBelowThreshold, HistoryCovers
  <1>4. ASSUME NEW c \in Callers, Succeed(c) PROVE BreakerInv'
    BY <1>4, ReturnType, SuccessStep DEF Succeed, BreakerInv, BreakerTypeOK, Answers
  <1>5. ASSUME NEW c \in Callers, Retry(c) PROVE BreakerInv'
    <2>1. call[c].retries + 1 \in 0..MaxRetries
      BY <1>5, ThresholdAssumption DEF Retry, BreakerInv, BreakerTypeOK
    <2>2. call' \in [Callers -> [running : BOOLEAN, retries : 0..MaxRetries, answer : Answers]]
      BY <1>5, <2>1 DEF Retry, BreakerInv, BreakerTypeOK
    <2>3. QED
      BY <1>5, <2>2 DEF Retry, counters, BreakerInv, BreakerTypeOK, CountersBelowThreshold, HistoryCovers
  <1>6. ASSUME NEW c \in Callers, GiveUp(c) PROVE BreakerInv'
    <2>1. (IF state' = "OPEN" THEN "fallback" ELSE "error") \in Answers
      BY DEF Answers
    <2>2. QED BY <1>6, <2>1, ReturnType, FailureStep DEF GiveUp, BreakerInv, BreakerTypeOK
  <1>7. CASE ResetTimeoutElapses
    BY <1>7 DEF ResetTimeoutElapses, BreakerInv, BreakerTypeOK, CountersBelowThreshold, HistoryCovers
  <1>8. CASE Reset
    <2>1. history' \in [failed : 0..FailureThreshold, ok : 0..SuccessThreshold]
      BY <1>8, ThresholdAssumption DEF Reset
    <2>2. BreakerTypeOK'
      BY <1>8, <2>1, ThresholdAssumption DEF Reset, BreakerInv, BreakerTypeOK
    <2>3. CountersBelowThreshold' /\ HistoryCovers'
      BY <1>8, ThresholdAssumption DEF Reset, CountersBelowThreshold, HistoryCovers
    <2>4. QED BY <2>2, <2>3 DEF BreakerInv
  <1>9. CASE UNCHANGED breakerVars
    BY <1>9 DEF breakerVars, BreakerInv, BreakerTypeOK, CountersBelowThreshold, HistoryCovers
  <1>10. QED BY <1>1, <1>2, <1>3, <1>4, <1>5, <1>6, <1>7, <1>8, <1>9 DEF BreakerNext

\* The counters, the state and the callers' frames keep their types: in particular
\* successCount, which the code increments without looking at it, never passes the threshold.
THEOREM BreakerTypeCorrect == BreakerSpec => []BreakerTypeOK
  <1>1. BreakerInv => BreakerTypeOK BY DEF BreakerInv
  <1>2. QED BY <1>1, BreakerInitInv, BreakerNextInv, PTL DEF BreakerSpec

\* CLOSED always means "fewer failures than the threshold", for any number of callers.
THEOREM CountersBelow == BreakerSpec => []CountersBelowThreshold
  <1>1. BreakerInv => CountersBelowThreshold BY DEF BreakerInv
  <1>2. QED BY <1>1, BreakerInitInv, BreakerNextInv, PTL DEF BreakerSpec

\* The breaker opens only after FailureThreshold failures of the current closed period.
THEOREM TripsAfterThreshold == BreakerSpec => TripsOnlyAfterThreshold
  <1>1. ASSUME BreakerInv, [BreakerNext]_breakerVars, state = "CLOSED", state' = "OPEN"
        PROVE  history'.failed = FailureThreshold
    <2>1. PICK c \in Callers : GiveUp(c) \/ Succeed(c)
      BY <1>1 DEF BreakerNext, breakerVars, counters, Refuse, Admit, Probe, Retry, ResetTimeoutElapses, Reset
    <2>2. QED BY <1>1, <2>1, SuccessStep, FailureStep DEF GiveUp, Succeed
  <1>2. BreakerInv /\ [BreakerNext]_breakerVars =>
           [state = "CLOSED" /\ state' = "OPEN" => history'.failed = FailureThreshold]_breakerVars
    BY <1>1
  <1>3. QED BY <1>2, BreakerInitInv, BreakerNextInv, PTL DEF BreakerSpec, TripsOnlyAfterThreshold

\* The breaker closes only by a reset or after a full probation of its own.
THEOREM ClosesAfterProbation == BreakerSpec => ClosesOnlyAfterProbation
  <1>1. ASSUME BreakerInv, [BreakerNext]_breakerVars, state = "HALF_OPEN", state' = "CLOSED"
        PROVE  Reset \/ history'.ok = SuccessThreshold
    <2>1. Reset \/ \E c \in Callers : GiveUp(c) \/ Succeed(c)
      BY <1>1 DEF BreakerNext, breakerVars, counters, Refuse, Admit, Probe, Retry, ResetTimeoutElapses
    <2>2. QED BY <1>1, <2>1, SuccessStep, FailureStep DEF GiveUp, Succeed
  <1>2. BreakerInv /\ [BreakerNext]_breakerVars =>
           [state = "HALF_OPEN" /\ state' = "CLOSED" =>
               Reset \/ history'.ok = SuccessThreshold]_breakerVars
    BY <1>1
  <1>3. QED BY <1>2, BreakerInitInv, BreakerNextInv, PTL DEF BreakerSpec, ClosesOnlyAfterProbation

----------------------------------------------------------------------------
(* the breaker inside the client *)

LEMMA BreakerSteps == [Next]_vars => [BreakerNext]_breakerVars
  <1> SUFFICES ASSUME [Next]_vars PROVE [BreakerNext]_breakerVars
    OBVIOUS
  <1>1. ASSUME NEW c \in Callers, invokeContract(c) PROVE [BreakerNext]_breakerVars
    BY <1>1 DEF invokeContract, Start, Arrive, BreakerNext, breakerVars
  <1>2. ASSUME NEW c \in Callers, Step(c) PROVE [BreakerNext]_breakerVars
    BY <1>2 DEF Step, Resume, StatusReply, AccountReply, RpcThrows, Reach, SendReply,
       SendReplyLost, AttemptFails, AttemptReturns, BreakerNext, breakerVars
  <1>3. CASE Apply
    BY <1>3 DEF Apply, breakerVars
  <1>4. CASE BreakerTimeout
    BY <1>4 DEF BreakerTimeout, BreakerNext
  <1>5. CASE UNCHANGED vars
    BY <1>5 DEF vars, breakerVars
  <1>6. QED
    BY <1>1, <1>2, <1>3, <1>4, <1>5 DEF Next

----------------------------------------------------------------------------
(* the invariant *)

TxRecord == [from : Callers, args : Callers, acked : BOOLEAN,
             status : {"PENDING", "SUCCESS", "FAILED", "REJECTED"}]

Frame == [at : Points, attempt : 1..MaxAttempts, seq : Nat, hash : Hashes \union {NoHash},
          lost : Nat, before : SUBSET Hashes]

Submitted(c) == Cardinality(SubmittedBy(c))
Budget == MaxAttempts * (MaxRetries + 1)

\* Points at which this attempt has not sent its transaction.
Unsent == {"account", "send", "sleep", "status"}

\* What is known of the hashes an invocation c with frame f holds.
HashesOK(c, f) ==
    /\ \A h \in f.before : tx[h].acked
    /\ lastSubmittedHash \notin f.before
    /\ f.at = "sent" => f.hash \in Hashes /\ tx[f.hash].from = c /\ ~tx[f.hash].acked
    /\ f.at = "status" => f.hash \in Hashes \ f.before

\* n transactions of an invocation whose frame is f and that made r retries: within the
\* lost replies and within the attempts so far.
CountOK(n, f, r) ==
    /\ f.at = "new" => n = 0 /\ f.attempt = 1
    /\ n <= f.lost + (IF f.at \in {"sent", "done"} THEN 1 ELSE 0)
    /\ f.at \in Unsent => n + 1 <= MaxAttempts * r + f.attempt
    /\ f.at = "sent" => n <= MaxAttempts * r + f.attempt
    /\ n <= Budget

RpcInv ==
    /\ TypeOK
    /\ tx \in Seq(TxRecord)
    /\ \A c \in Callers : HashesOK(c, frame[c]) /\ CountOK(Submitted(c), frame[c], call[c].retries)

LEMMA Arithmetic ==
    /\ Budget \in Nat
    /\ \A r \in 0..MaxRetries :
         /\ MaxAttempts * r \in Nat
         /\ MaxAttempts * (r + 1) = MaxAttempts * r + MaxAttempts
         /\ MaxAttempts * r + MaxAttempts <= Budget
  <1> USE AttemptAssumption, ThresholdAssumption
  <1>1. Budget \in Nat
    BY DEF Budget
  <1>2. ASSUME NEW r \in 0..MaxRetries
        PROVE  /\ MaxAttempts * r \in Nat
               /\ MaxAttempts * (r + 1) = MaxAttempts * r + MaxAttempts
               /\ MaxAttempts * r + MaxAttempts <= Budget
    <2>1. MaxAttempts * r \in Nat /\ MaxAttempts * (r + 1) = MaxAttempts * r + MaxAttempts
      OBVIOUS
    <2>2. PICK d \in Nat : MaxRetries = r + d
      <3>1. MaxRetries - r \in Nat /\ MaxRetries = r + (MaxRetries - r)
        OBVIOUS
      <3>2. QED
        BY <3>1
    <2>3. Budget = MaxAttempts * r + MaxAttempts * d + MaxAttempts /\ MaxAttempts * d \in Nat
      BY <2>2 DEF Budget
    <2>4. QED
      BY <2>1, <2>3
  <1>3. QED
    BY <1>1, <1>2

LEMMA Counts ==
    ASSUME RpcInv, NEW c \in Callers
    PROVE  IsFiniteSet(SubmittedBy(c)) /\ Submitted(c) \in Nat
  <1>1. Len(tx) \in Nat
    BY DEF RpcInv
  <1>2. IsFiniteSet(1..Len(tx))
    BY <1>1, FS_Interval
  <1>3. IsFiniteSet(SubmittedBy(c))
    BY <1>2, FS_Subset DEF SubmittedBy, Hashes
  <1>4. QED
    BY <1>3, FS_CardinalityType DEF Submitted

----------------------------------------------------------------------------
(* how steps are put together *)

\* The network keeps what it has: transactions stay, with their sender and their
\* acknowledgement.
NetworkGrows ==
    /\ tx' \in Seq(TxRecord) /\ Len(tx) <= Len(tx')
    /\ \A h \in Hashes : tx'[h].from = tx[h].from /\ (tx[h].acked => tx'[h].acked)

\* An invocation d that does not move keeps what it knows.
LEMMA OthersKeep ==
    ASSUME RpcInv, NetworkGrows, NEW d \in Callers, frame'[d] = frame[d],
           call'[d].retries = call[d].retries,
           lastSubmittedHash' \notin frame[d].before,
           frame[d].at = "sent" => tx'[frame[d].hash].acked = tx[frame[d].hash].acked,
           Submitted(d)' = Submitted(d)
    PROVE  /\ HashesOK(d, frame[d])' /\ CountOK(Submitted(d), frame[d], call[d].retries)'
           /\ frame[d] \in Frame'
  <1>1. frame[d] \in Frame /\ HashesOK(d, frame[d])
        /\ CountOK(Submitted(d), frame[d], call[d].retries)
    BY DEF RpcInv, TypeOK, Frame
  <1>2. Len(tx) \in Nat /\ Len(tx') \in Nat /\ Hashes \subseteq Hashes'
    BY DEF RpcInv, NetworkGrows, Hashes
  <1>3. frame[d] \in Frame'
    BY <1>1, <1>2 DEF Frame
  <1>4. HashesOK(d, frame[d])'
    BY <1>1, <1>2 DEF HashesOK, NetworkGrows, Frame
  <1>5. CountOK(Submitted(d), frame[d], call[d].retries)'
    BY <1>1 DEF CountOK
  <1>6. QED
    BY <1>3, <1>4, <1>5

\* Invocation c moves on to f; no other one does.
LEMMA Moves ==
    ASSUME RpcInv, NetworkGrows, BreakerTypeOK', NEW c \in Callers, NEW f,
           frame' = [frame EXCEPT ![c] = f], f \in Frame',
           \A d \in Callers \ {c} : call'[d] = call[d],
           fn' \in Callers \union {NoCaller}, accountSeq' \in Nat, faults' \in 0..MaxFaults,
           lastSubmittedHash' \in Hashes' \union {NoHash},
           HashesOK(c, f)', CountOK(Submitted(c)', f, call'[c].retries),
           \A d \in Callers \ {c} :
             /\ lastSubmittedHash' \notin frame[d].before
             /\ frame[d].at = "sent" => tx'[frame[d].hash].acked = tx[frame[d].hash].acked
             /\ Submitted(d)' = Submitted(d)
    PROVE  RpcInv'
  <1>1. \A d \in Callers : frame'[d] = IF d = c THEN f ELSE frame[d]
    BY DEF RpcInv, TypeOK
  <1>2. ASSUME NEW d \in Callers \ {c}
        PROVE  /\ HashesOK(d, frame[d])' /\ CountOK(Submitted(d), frame[d], call[d].retries)'
               /\ frame[d] \in Frame'
    BY <1>1, <1>2, OthersKeep
  <1>3. HashesOK(c, frame[c])' /\ CountOK(Submitted(c), frame[c], call[c].retries)'
    BY <1>1 DEF HashesOK, CountOK
  <1>4. \A d \in Callers : frame'[d] \in Frame'
    BY <1>1, <1>2
  <1>5. frame' \in [Callers -> Frame']
    BY <1>4 DEF RpcInv, TypeOK
  <1>6. \A h \in Hashes' : tx'[h] \in TxRecord
    BY DEF NetworkGrows, Hashes
  <1>7. TypeOK'
    BY <1>5, <1>6 DEF TypeOK, Frame, TxRecord
  <1>8. QED
    BY <1>2, <1>3, <1>7 DEF RpcInv, NetworkGrows

\* Invocation c moves on to f and the network stays as it is.
LEMMA Quiet ==
    ASSUME RpcInv, BreakerTypeOK', NEW c \in Callers, NEW f \in Frame,
           frame' = [frame EXCEPT ![c] = f], UNCHANGED network,
           \A d \in Callers \ {c} : call'[d] = call[d],
           fn' \in Callers \union {NoCaller}, faults' \in 0..MaxFaults,
           lastSubmittedHash' \in {lastSubmittedHash, NoHash},
           \A h \in f.before : tx[h].acked,
           lastSubmittedHash' \notin f.before,
           f.at # "sent", f.at = "status" => f.hash \in Hashes \ f.before,
           CountOK(Submitted(c), f, call'[c].retries)
    PROVE  RpcInv'
  <1>1. tx' = tx /\ accountSeq' = accountSeq
    BY DEF network
  <1>2. NetworkGrows /\ Hashes' = Hashes /\ accountSeq' \in Nat
    BY <1>1 DEF NetworkGrows, RpcInv, TypeOK, Hashes
  <1>3. lastSubmittedHash' \in Hashes' \union {NoHash}
    BY <1>2 DEF RpcInv, TypeOK
  <1>4. f \in Frame'
    BY <1>2 DEF Frame
  <1>5. \A d \in Callers : Submitted(d)' = Submitted(d)
    BY <1>1 DEF Submitted, SubmittedBy, Hashes
  <1>6. HashesOK(c, f)'
    BY <1>1, <1>2 DEF HashesOK
  <1>7. CountOK(Submitted(c)', f, call'[c].retries)
    BY <1>5
  <1>8. ASSUME NEW d \in Callers PROVE lastSubmittedHash' \notin frame[d].before
    BY DEF RpcInv, TypeOK, HashesOK, Hashes, NoHash
  <1>9. QED
    BY <1>1, <1>2, <1>3, <1>4, <1>5, <1>6, <1>7, <1>8, Moves

LEMMA BreakerMoves ==
    ASSUME BreakerTypeOK, NEW c \in Callers
    PROVE  /\ Retry(c) \/ GiveUp(c) \/ Succeed(c) \/ Refuse(c) \/ Arrive(c) =>
                \A d \in Callers \ {c} : call'[d] = call[d]
           /\ Retry(c) => /\ call[c].retries + 1 \in 0..MaxRetries
                             /\ call'[c].retries = call[c].retries + 1
           /\ GiveUp(c) \/ Succeed(c) \/ Refuse(c) \/ Arrive(c) => call'[c].retries = 0
  <1> USE AttemptAssumption, ThresholdAssumption DEF BreakerTypeOK
  <1>1. Retry(c) => /\ call[c].retries + 1 \in 0..MaxRetries
                       /\ call'[c].retries = call[c].retries + 1
                       /\ \A d \in Callers \ {c} : call'[d] = call[d]
    BY DEF Retry
  <1>2. GiveUp(c) => call'[c].retries = 0 /\ \A d \in Callers \ {c} : call'[d] = call[d]
    BY DEF GiveUp, Return
  <1>3. Succeed(c) => call'[c].retries = 0 /\ \A d \in Callers \ {c} : call'[d] = call[d]
    BY DEF Succeed, Return
  <1>4. Refuse(c) => call'[c].retries = 0 /\ \A d \in Callers \ {c} : call'[d] = call[d]
    BY DEF Refuse, Return
  <1>5. Arrive(c) => call'[c].retries = 0 /\ \A d \in Callers \ {c} : call'[d] = call[d]
    BY DEF Arrive, Admit, Probe, Enter
  <1>6. QED
    BY <1>1, <1>2, <1>3, <1>4, <1>5

LEMMA Known ==
    ASSUME RpcInv, NEW c \in Callers
    PROVE  /\ BreakerTypeOK /\ frame[c] \in Frame /\ HashesOK(c, frame[c])
           /\ CountOK(Submitted(c), frame[c], call[c].retries)
           /\ Submitted(c) \in Nat /\ call[c].retries \in 0..MaxRetries
           /\ MaxAttempts * call[c].retries \in Nat
           /\ MaxAttempts * call[c].retries + MaxAttempts <= Budget
  BY Counts, Arithmetic DEF RpcInv, TypeOK, BreakerTypeOK, Frame

\* An attempt fails: the next one, in this try of the breaker or in its next, may again
\* send one transaction, and when there is none the invocation is within its budget.
LEMMA AttemptFailsKeeps ==
    ASSUME RpcInv, BreakerTypeOK', NEW c \in Callers, NEW f \in Frame, AttemptFails(c, f),
           f.before = frame[c].before, f.attempt = frame[c].attempt,
           Submitted(c) <= f.lost,
           Submitted(c) <= MaxAttempts * call[c].retries + f.attempt,
           UNCHANGED network, faults' \in 0..MaxFaults
    PROVE  RpcInv'
  <1> DEFINE n == Submitted(c)
             r == call[c].retries
  <1>1. /\ n \in Nat /\ r \in 0..MaxRetries /\ MaxAttempts * r \in Nat
        /\ MaxAttempts * r + MaxAttempts <= Budget /\ Budget \in Nat
        /\ MaxAttempts * (r + 1) = MaxAttempts * r + MaxAttempts
        /\ BreakerTypeOK /\ HashesOK(c, frame[c]) /\ f.attempt \in 1..MaxAttempts /\ f.lost \in Nat
    BY Known, Arithmetic DEF Frame
  <1>2. PICK at \in {"sleep", "done"}, attempt \in 1..MaxAttempts :
          /\ Settle(c, f, at, attempt)
          /\ \A d \in Callers \ {c} : call'[d] = call[d]
          /\ \/ /\ at = "sleep" /\ f.attempt < MaxAttempts
                /\ attempt = f.attempt + 1 /\ call'[c].retries = r
             \/ /\ at = "sleep" /\ f.attempt = MaxAttempts
                /\ attempt = 1 /\ call'[c].retries = r + 1
             \/ /\ at = "done" /\ f.attempt = MaxAttempts /\ attempt = 1
    <2>1. CASE f.attempt < MaxAttempts /\ Settle(c, f, "sleep", f.attempt + 1) /\ UNCHANGED breakerVars
      <3>1. f.attempt + 1 \in 1..MaxAttempts
        BY <1>1, <2>1, AttemptAssumption, ThresholdAssumption
      <3>2. call' = call
        BY <2>1 DEF breakerVars
      <3>3. QED
        BY <2>1, <3>1, <3>2
    <2>2. CASE f.attempt = MaxAttempts /\ Retry(c) /\ Settle(c, f, "sleep", 1)
      BY <1>1, <2>2, BreakerMoves, AttemptAssumption, ThresholdAssumption
    <2>3. CASE f.attempt = MaxAttempts /\ GiveUp(c) /\ Settle(c, f, "done", 1)
      BY <1>1, <2>3, BreakerMoves, AttemptAssumption, ThresholdAssumption
    <2>4. QED
      BY <2>1, <2>2, <2>3 DEF AttemptFails
  <1>3. PICK g : g = [f EXCEPT !.at = at, !.attempt = attempt, !.hash = NoHash, !.seq = 0]
    OBVIOUS
  <1>4. /\ g \in Frame /\ g.at = at /\ g.attempt = attempt /\ g.lost = f.lost
        /\ g.before = f.before /\ frame' = [frame EXCEPT ![c] = g]
    BY <1>2, <1>3 DEF Frame, Settle, Points
  <1>5. /\ UNCHANGED <<fn, lastSubmittedHash>>
        /\ fn' \in Callers \union {NoCaller}
    BY DEF AttemptFails, RpcInv, TypeOK
  <1>6. CountOK(n, g, call'[c].retries)
    <2>1. n <= Budget /\ n <= MaxAttempts * r + MaxAttempts
      <3>1. PICK m \in Nat : m = MaxAttempts * r
        BY <1>1
      <3>2. n <= m + f.attempt /\ m + MaxAttempts <= Budget
        BY <1>1, <3>1
      <3>3. QED
        BY <1>1, <3>1, <3>2, AttemptAssumption, ThresholdAssumption
    <2>2. at = "sleep" => n + 1 <= MaxAttempts * call'[c].retries + attempt
      BY <1>1, <1>2
    <2>3. n <= g.lost + (IF g.at \in {"sent", "done"} THEN 1 ELSE 0)
      BY <1>1, <1>4
    <2>4. QED
      BY <1>2, <1>4, <2>1, <2>2, <2>3 DEF CountOK, Unsent
  <1>7. (\A h \in g.before : tx[h].acked) /\ lastSubmittedHash' \notin g.before
    BY <1>1, <1>4, <1>5 DEF HashesOK
  <1>8. QED
    BY <1>2, <1>4, <1>5, <1>6, <1>7, Quiet

----------------------------------------------------------------------------
(* the steps that leave the network as it is *)

LEMMA InvokeStep ==
    ASSUME RpcInv, BreakerTypeOK', NEW c \in Callers, invokeContract(c)
    PROVE  RpcInv'
  <1>1. /\ frame[c].at = "new" /\ lastSubmittedHash' = NoHash
        /\ fn' \in Callers \union {NoCaller} /\ UNCHANGED <<network, faults>>
        /\ faults' \in 0..MaxFaults
    BY DEF invokeContract, RpcInv, TypeOK
  <1>2. /\ BreakerTypeOK /\ frame[c] \in Frame /\ HashesOK(c, frame[c]) /\ Budget \in Nat
        /\ Submitted(c) = 0 /\ frame[c].attempt = 1
    BY <1>1, Known, Arithmetic DEF CountOK
  <1>3. \A h \in Hashes : NoHash # h
    BY DEF Hashes, NoHash
  <1>4. CASE Refuse(c) /\ frame' = [frame EXCEPT ![c].at = "done"]
    <2>1. PICK f : f = [frame[c] EXCEPT !.at = "done"]
      OBVIOUS
    <2>2. /\ f \in Frame /\ f.at = "done" /\ f.before = frame[c].before /\ f.lost \in Nat
          /\ frame' = [frame EXCEPT ![c] = f]
      BY <1>2, <1>4, <2>1 DEF Frame, Points
    <2>3. CountOK(Submitted(c), f, call'[c].retries)
      BY <1>2, <2>2 DEF CountOK, Unsent
    <2>4. (\A h \in f.before : tx[h].acked) /\ NoHash \notin f.before
      BY <1>2, <1>3, <2>2 DEF HashesOK, Frame
    <2>5. QED
      BY <1>1, <1>2, <1>4, <2>2, <2>3, <2>4, BreakerMoves, Quiet
  <1>5. CASE /\ Arrive(c)
             /\ frame' = [frame EXCEPT ![c].at = "account",
                                       ![c].before = {h \in Hashes : tx[h].acked}]
    <2>1. PICK f : f = [frame[c] EXCEPT !.at = "account", !.before = {h \in Hashes : tx[h].acked}]
      OBVIOUS
    <2>2. /\ f \in Frame /\ f.at = "account" /\ f.before = {h \in Hashes : tx[h].acked}
          /\ f.attempt = 1 /\ f.lost \in Nat
          /\ frame' = [frame EXCEPT ![c] = f]
      BY <1>2, <1>5, <2>1 DEF Frame, Points
    <2>3. call'[c].retries = 0
      BY <1>2, <1>5, BreakerMoves
    <2>4. CountOK(Submitted(c), f, call'[c].retries)
      BY <1>2, <2>2, <2>3, AttemptAssumption, ThresholdAssumption DEF CountOK, Unsent
    <2>5. (\A h \in f.before : tx[h].acked) /\ NoHash \notin f.before
      BY <1>3, <2>2
    <2>6. QED
      BY <1>1, <1>2, <1>5, <2>2, <2>4, <2>5, BreakerMoves, Quiet
  <1>6. QED
    BY <1>4, <1>5 DEF invokeContract, Start

LEMMA ResumeStep ==
    ASSUME RpcInv, BreakerTypeOK', NEW c \in Callers, Resume(c)
    PROVE  RpcInv'
  <1>1. /\ frame[c].at = "sleep" /\ UNCHANGED <<call, fn, lastSubmittedHash, network, faults>>
        /\ fn' \in Callers \union {NoCaller} /\ faults' \in 0..MaxFaults
        /\ lastSubmittedHash \in Hashes \union {NoHash}
    BY DEF Resume, breakerVars, RpcInv, TypeOK
  <1>2. /\ frame[c] \in Frame /\ HashesOK(c, frame[c])
        /\ CountOK(Submitted(c), frame[c], call[c].retries)
    BY Known
  <1>3. PICK at \in {"account", "status"} :
          /\ at = "status" => lastSubmittedHash # NoHash
          /\ frame' = [frame EXCEPT ![c].at = at, ![c].hash = lastSubmittedHash]
    BY DEF Resume
  <1>4. PICK f : f = [frame[c] EXCEPT !.at = at, !.hash = lastSubmittedHash]
    OBVIOUS
  <1>5. /\ f \in Frame /\ f.at = at /\ f.hash = lastSubmittedHash /\ f.before = frame[c].before
        /\ f.attempt = frame[c].attempt /\ f.lost = frame[c].lost
        /\ frame' = [frame EXCEPT ![c] = f]
    BY <1>1, <1>2, <1>3, <1>4 DEF Frame, Points
  <1>6. CountOK(Submitted(c), f, call'[c].retries)
    BY <1>1, <1>2, <1>5 DEF CountOK, Unsent
  <1>7. QED
    BY <1>1, <1>2, <1>3, <1>5, <1>6, Quiet DEF HashesOK

LEMMA StatusReplyStep ==
    ASSUME RpcInv, BreakerTypeOK', NEW c \in Callers, StatusReply(c)
    PROVE  RpcInv'
  <1>1. /\ frame[c].at = "status" /\ UNCHANGED <<network, faults>> /\ faults' \in 0..MaxFaults
        /\ lastSubmittedHash \in Hashes \union {NoHash} /\ fn \in Callers \union {NoCaller}
    BY DEF StatusReply, RpcInv, TypeOK
  <1>2. /\ BreakerTypeOK /\ frame[c] \in Frame /\ HashesOK(c, frame[c])
        /\ CountOK(Submitted(c), frame[c], call[c].retries)
        /\ Submitted(c) \in Nat /\ frame[c].lost \in Nat /\ frame[c].attempt \in Nat
        /\ MaxAttempts * call[c].retries \in Nat
    BY Known DEF Frame
  <1>3. /\ Submitted(c) <= frame[c].lost
        /\ Submitted(c) + 1 <= MaxAttempts * call[c].retries + frame[c].attempt
    BY <1>1, <1>2 DEF CountOK, Unsent
  <1>4. CASE AttemptReturns(c, lastSubmittedHash) /\ UNCHANGED <<fn, lastSubmittedHash>>
    <2>1. PICK f : f = [frame[c] EXCEPT !.at = "done", !.hash = lastSubmittedHash]
      OBVIOUS
    <2>2. /\ f \in Frame /\ f.at = "done" /\ f.before = frame[c].before /\ f.lost = frame[c].lost
          /\ frame' = [frame EXCEPT ![c] = f]
      BY <1>1, <1>2, <1>4, <2>1 DEF Frame, Points, AttemptReturns
    <2>3. CountOK(Submitted(c), f, call'[c].retries)
      BY <1>2, <1>3, <2>2 DEF CountOK, Unsent
    <2>4. \A d \in Callers \ {c} : call'[d] = call[d]
      BY <1>2, <1>4, BreakerMoves DEF AttemptReturns
    <2>5. QED
      BY <1>1, <1>2, <1>4, <2>2, <2>3, <2>4, Quiet DEF HashesOK
  <1>5. CASE AttemptFails(c, frame[c])
    <2>1. Submitted(c) <= MaxAttempts * call[c].retries + frame[c].attempt
      BY <1>2, <1>3
    <2>2. QED
      BY <1>1, <1>2, <1>3, <1>5, <2>1, AttemptFailsKeeps
  <1>6. CASE /\ frame' = [frame EXCEPT ![c].at = "account", ![c].hash = NoHash]
             /\ UNCHANGED <<breakerVars, fn, lastSubmittedHash>>
    <2>1. PICK f : f = [frame[c] EXCEPT !.at = "account", !.hash = NoHash]
      OBVIOUS
    <2>2. /\ f \in Frame /\ f.at = "account" /\ f.before = frame[c].before
          /\ f.lost = frame[c].lost /\ f.attempt = frame[c].attempt
          /\ frame' = [frame EXCEPT ![c] = f]
      BY <1>2, <1>6, <2>1 DEF Frame, Points
    <2>3. call' = call
      BY <1>6 DEF breakerVars
    <2>4. CountOK(Submitted(c), f, call'[c].retries)
      BY <1>1, <1>2, <2>2, <2>3 DEF CountOK, Unsent
    <2>5. QED
      BY <1>1, <1>2, <1>6, <2>2, <2>3, <2>4, Quiet DEF HashesOK
  <1>7. QED
    BY <1>4, <1>5, <1>6 DEF StatusReply

LEMMA AccountReplyStep ==
    ASSUME RpcInv, BreakerTypeOK', NEW c \in Callers, AccountReply(c)
    PROVE  RpcInv'
  <1>1. /\ frame[c].at = "account" /\ UNCHANGED <<call, fn, lastSubmittedHash, network, faults>>
        /\ fn' \in Callers \union {NoCaller} /\ faults' \in 0..MaxFaults
        /\ accountSeq + 1 \in Nat
    BY DEF AccountReply, breakerVars, RpcInv, TypeOK
  <1>2. /\ frame[c] \in Frame /\ HashesOK(c, frame[c])
        /\ CountOK(Submitted(c), frame[c], call[c].retries)
    BY Known
  <1>3. PICK f : f = [frame[c] EXCEPT !.at = "send", !.seq = accountSeq + 1]
    OBVIOUS
  <1>4. /\ f \in Frame /\ f.at = "send" /\ f.before = frame[c].before
        /\ f.attempt = frame[c].attempt /\ f.lost = frame[c].lost
        /\ frame' = [frame EXCEPT ![c] = f]
    BY <1>1, <1>2, <1>3 DEF Frame, Points, AccountReply
  <1>5. CountOK(Submitted(c), f, call'[c].retries)
    BY <1>1, <1>2, <1>4 DEF CountOK, Unsent
  <1>6. QED
    BY <1>1, <1>2, <1>4, <1>5, Quiet DEF HashesOK

LEMMA LossSteps ==
    ASSUME RpcInv, BreakerTypeOK', NEW c \in Callers, RpcThrows(c) \/ SendReplyLost(c)
    PROVE  RpcInv'
  <1>1. UNCHANGED network /\ faults' \in 0..MaxFaults
    BY AttemptAssumption, ThresholdAssumption DEF RpcThrows, SendReplyLost, RpcInv, TypeOK
  <1>2. /\ frame[c] \in Frame /\ CountOK(Submitted(c), frame[c], call[c].retries)
        /\ Submitted(c) \in Nat /\ frame[c].lost \in Nat /\ frame[c].attempt \in Nat
        /\ MaxAttempts * call[c].retries \in Nat
    BY Known DEF Frame
  <1>3. CASE RpcThrows(c)
    <2>1. frame[c].at \in {"status", "account", "send"} /\ AttemptFails(c, frame[c])
      BY <1>3 DEF RpcThrows
    <2>2. /\ Submitted(c) <= frame[c].lost
          /\ Submitted(c) <= MaxAttempts * call[c].retries + frame[c].attempt
      BY <1>2, <2>1 DEF CountOK, Unsent
    <2>3. QED
      BY <1>1, <1>2, <2>1, <2>2, AttemptFailsKeeps
  <1>4. CASE SendReplyLost(c)
    <2>1. PICK f : f = [frame[c] EXCEPT !.lost = @ + 1]
      OBVIOUS
    <2>2. /\ f \in Frame /\ f.before = frame[c].before /\ f.attempt = frame[c].attempt
          /\ f.lost = frame[c].lost + 1
      BY <1>2, <2>1 DEF Frame
    <2>3. AttemptFails(c, f) /\ frame[c].at = "sent"
      BY <1>4, <2>1 DEF SendReplyLost
    <2>4. /\ Submitted(c) <= f.lost
          /\ Submitted(c) <= MaxAttempts * call[c].retries + f.attempt
      BY <1>2, <2>2, <2>3 DEF CountOK, Unsent
    <2>5. QED
      BY <1>1, <2>2, <2>3, <2>4, AttemptFailsKeeps
  <1>5. QED
    BY <1>3, <1>4

----------------------------------------------------------------------------
(* the steps that change the network *)

\* A transaction that only changes its acknowledgement or its status.
LEMMA TxChanged ==
    ASSUME RpcInv, NEW h \in Hashes, NEW t \in TxRecord, t.from = tx[h].from,
           tx[h].acked => t.acked, tx' = [tx EXCEPT ![h] = t]
    PROVE  /\ NetworkGrows /\ Hashes' = Hashes
           /\ \A g \in Hashes : tx'[g] = IF g = h THEN t ELSE tx[g]
           /\ \A d \in Callers : Submitted(d)' = Submitted(d)
  <1>1. tx \in Seq(TxRecord) /\ h \in 1..Len(tx)
    BY DEF RpcInv, Hashes
  <1>2. /\ tx' \in Seq(TxRecord) /\ Len(tx') = Len(tx)
        /\ \A g \in 1..Len(tx) : tx'[g] = IF g = h THEN t ELSE tx[g]
    BY <1>1, ExceptSeq
  <1>3. Hashes' = Hashes /\ \A g \in Hashes : tx'[g] = IF g = h THEN t ELSE tx[g]
    BY <1>2 DEF Hashes
  <1>4. NetworkGrows
    BY <1>1, <1>2, <1>3 DEF NetworkGrows
  <1>5. \A d \in Callers : SubmittedBy(d)' = SubmittedBy(d)
    BY <1>3 DEF SubmittedBy
  <1>6. QED
    BY <1>3, <1>4, <1>5 DEF Submitted

LEMMA SendReplyStep ==
    ASSUME RpcInv, BreakerTypeOK', NEW c \in Callers, SendReply(c)
    PROVE  RpcInv'
  <1> DEFINE h == frame[c].hash
  <1>1. /\ BreakerTypeOK /\ frame[c] \in Frame /\ HashesOK(c, frame[c]) /\ frame[c].at = "sent"
        /\ CountOK(Submitted(c), frame[c], call[c].retries)
        /\ frame[c].lost \in Nat /\ Submitted(c) \in Nat
    BY Known DEF SendReply, Frame
  <1>2. h \in Hashes /\ tx[h].from = c /\ ~tx[h].acked /\ tx[h] \in TxRecord
    BY <1>1 DEF HashesOK, RpcInv, TypeOK, TxRecord
  <1>3. PICK t : t = [tx[h] EXCEPT !.acked = TRUE]
    OBVIOUS
  <1>4. t \in TxRecord /\ t.from = tx[h].from /\ t.acked /\ tx' = [tx EXCEPT ![h] = t]
    BY <1>2, <1>3 DEF TxRecord, SendReply
  <1>5. /\ NetworkGrows /\ Hashes' = Hashes
        /\ \A g \in Hashes : tx'[g] = IF g = h THEN t ELSE tx[g]
        /\ \A d \in Callers : Submitted(d)' = Submitted(d)
    BY <1>2, <1>4, TxChanged
  <1>6. PICK f : f = [frame[c] EXCEPT !.at = "done", !.hash = h]
    OBVIOUS
  <1>7. /\ f \in Frame /\ f.at = "done" /\ f.before = frame[c].before /\ f.lost = frame[c].lost
        /\ frame' = [frame EXCEPT ![c] = f]
    BY <1>1, <1>6 DEF Frame, Points, SendReply, AttemptReturns
  <1>8. f \in Frame'
    BY <1>5, <1>7 DEF Frame
  <1>9. \A d \in Callers : h \notin frame[d].before
    BY <1>2 DEF RpcInv, HashesOK
  <1>10. HashesOK(c, f)'
    <2>1. \A g \in f.before : tx'[g].acked
      BY <1>1, <1>4, <1>5, <1>7 DEF HashesOK, Frame
    <2>2. lastSubmittedHash' \notin f.before
      BY <1>7, <1>9 DEF SendReply
    <2>3. QED
      BY <1>7, <2>1, <2>2 DEF HashesOK
  <1>11. CountOK(Submitted(c)', f, call'[c].retries)
    BY <1>1, <1>5, <1>7 DEF CountOK, Unsent
  <1>12. \A d \in Callers \ {c} : call'[d] = call[d]
    BY <1>1, BreakerMoves DEF SendReply, AttemptReturns
  <1>13. ASSUME NEW d \in Callers \ {c}, frame[d].at = "sent"
         PROVE  tx'[frame[d].hash].acked = tx[frame[d].hash].acked
    <2>1. frame[d].hash \in Hashes /\ tx[frame[d].hash].from = d
      BY <1>13 DEF RpcInv, HashesOK
    <2>2. QED
      BY <1>2, <1>5, <2>1
  <1>14. /\ fn' \in Callers \union {NoCaller} /\ accountSeq' \in Nat /\ faults' \in 0..MaxFaults
         /\ lastSubmittedHash' \in Hashes' \union {NoHash} /\ lastSubmittedHash' = h
    BY <1>2, <1>5 DEF SendReply, RpcInv, TypeOK
  <1>15. QED
    BY <1>5, <1>7, <1>8, <1>9, <1>10, <1>11, <1>12, <1>13, <1>14, Moves

LEMMA ReachStep ==
    ASSUME RpcInv, BreakerTypeOK', NEW c \in Callers, Reach(c), fn \in Callers
    PROVE  RpcInv'
  <1>1. /\ frame[c] \in Frame /\ HashesOK(c, frame[c]) /\ frame[c].at = "send"
        /\ CountOK(Submitted(c), frame[c], call[c].retries)
        /\ frame[c].lost \in Nat /\ frame[c].attempt \in Nat /\ Submitted(c) \in Nat
        /\ MaxAttempts * call[c].retries \in Nat
        /\ MaxAttempts * call[c].retries + MaxAttempts <= Budget /\ Budget \in Nat
        /\ frame[c].attempt <= MaxAttempts
    BY Known, Arithmetic, AttemptAssumption, ThresholdAssumption DEF Reach, Frame
  <1>2. PICK t \in TxRecord : t.from = c /\ ~t.acked /\ tx' = Append(tx, t)
    <2>1. PICK status \in {"PENDING", "REJECTED"} :
            tx' = Append(tx, [from |-> c, args |-> fn, acked |-> FALSE, status |-> status])
      BY DEF Reach
    <2>2. PICK t : t = [from |-> c, args |-> fn, acked |-> FALSE, status |-> status]
      OBVIOUS
    <2>3. t \in TxRecord /\ t.from = c /\ ~t.acked
      BY <2>2 DEF TxRecord
    <2>4. QED
      BY <2>1, <2>2, <2>3
  <1>3. /\ tx' \in Seq(TxRecord) /\ Len(tx') = Len(tx) + 1 /\ Len(tx) \in Nat
        /\ \A h \in 1..Len(tx) : tx'[h] = tx[h]
        /\ tx'[Len(tx) + 1] = t
    BY <1>2, AppendProperties DEF RpcInv
  <1>4. NetworkGrows
    BY <1>3 DEF NetworkGrows, Hashes
  <1>5. Hashes' = Hashes \union {Len(tx')} /\ Len(tx') \notin Hashes
    BY <1>3 DEF Hashes
  <1>6. SubmittedBy(c)' = SubmittedBy(c) \union {Len(tx')} /\ Len(tx') \notin SubmittedBy(c)
    BY <1>2, <1>3, <1>5 DEF SubmittedBy, Hashes
  <1>7. Submitted(c)' = Submitted(c) + 1
    BY <1>6, Counts, FS_AddElement DEF Submitted
  <1>8. ASSUME NEW d \in Callers \ {c} PROVE Submitted(d)' = Submitted(d)
    <2>1. SubmittedBy(d)' = SubmittedBy(d)
      BY <1>2, <1>3, <1>5 DEF SubmittedBy, Hashes
    <2>2. QED
      BY <2>1 DEF Submitted
  <1>9. PICK f : f = [frame[c] EXCEPT !.at = "sent", !.seq = 0, !.hash = Len(tx')]
    OBVIOUS
  <1>10. /\ f \in Frame' /\ f.at = "sent" /\ f.before = frame[c].before /\ f.lost = frame[c].lost
         /\ f.attempt = frame[c].attempt /\ f.hash = Len(tx')
         /\ frame' = [frame EXCEPT ![c] = f]
    BY <1>1, <1>5, <1>9 DEF Frame, Points, Reach
  <1>11. /\ call' = call /\ lastSubmittedHash' = lastSubmittedHash
         /\ fn' \in Callers \union {NoCaller} /\ accountSeq' \in Nat /\ faults' \in 0..MaxFaults
         /\ lastSubmittedHash' \in Hashes' \union {NoHash}
    BY <1>5 DEF Reach, breakerVars, RpcInv, TypeOK
  <1>12. \A d \in Callers : lastSubmittedHash' \notin frame[d].before
    BY <1>11 DEF RpcInv, HashesOK
  <1>13. HashesOK(c, f)'
    <2>1. \A h \in f.before : tx'[h].acked
      BY <1>1, <1>3, <1>10 DEF HashesOK, Frame, Hashes
    <2>2. f.hash \in Hashes' /\ tx'[f.hash].from = c /\ ~tx'[f.hash].acked
      BY <1>2, <1>3, <1>5, <1>10
    <2>3. QED
      BY <1>10, <1>12, <2>1, <2>2 DEF HashesOK
  <1>14. CountOK(Submitted(c)', f, call'[c].retries)
    <2>1. /\ Submitted(c) <= frame[c].lost
          /\ Submitted(c) + 1 <= MaxAttempts * call[c].retries + frame[c].attempt
      BY <1>1 DEF CountOK, Unsent
    <2>2. Submitted(c) + 1 <= Budget
      <3>1. PICK m \in Nat : m = MaxAttempts * call[c].retries
        BY <1>1
      <3>2. QED
        BY <1>1, <2>1, <3>1, AttemptAssumption, ThresholdAssumption
    <2>3. QED
      BY <1>1, <1>7, <1>10, <1>11, <2>1, <2>2 DEF CountOK, Unsent
  <1>15. ASSUME NEW d \in Callers \ {c}, frame[d].at = "sent"
         PROVE  tx'[frame[d].hash].acked = tx[frame[d].hash].acked
    BY <1>3, <1>15 DEF RpcInv, HashesOK, Hashes
  <1>16. QED
    BY <1>4, <1>8, <1>10, <1>11, <1>12, <1>13, <1>14, <1>15, Moves

\* Nobody moves: the network applies a transaction, or the breaker's time has come.
LEMMA NobodyMoves ==
    ASSUME RpcInv, BreakerTypeOK', NetworkGrows, UNCHANGED <<call, fn, lastSubmittedHash, frame, faults>>,
           Hashes' = Hashes, accountSeq' \in Nat,
           \A h \in Hashes : tx'[h].acked = tx[h].acked,
           \A d \in Callers : Submitted(d)' = Submitted(d)
    PROVE  RpcInv'
  <1>1. ASSUME NEW d \in Callers
        PROVE  HashesOK(d, frame[d])' /\ CountOK(Submitted(d), frame[d], call[d].retries)'
    BY <1>1, OthersKeep DEF RpcInv, HashesOK
  <1>2. \A h \in Hashes' : tx'[h] \in TxRecord
    BY DEF NetworkGrows, Hashes
  <1>3. TypeOK'
    BY <1>2 DEF RpcInv, TypeOK, TxRecord
  <1>4. QED
    BY <1>1, <1>3 DEF RpcInv, NetworkGrows

LEMMA WorldSteps ==
    ASSUME RpcInv, BreakerTypeOK', Apply \/ BreakerTimeout \/ UNCHANGED vars
    PROVE  RpcInv'
  <1>1. CASE Apply
    <2>1. PICK h \in Hashes, outcome \in {"SUCCESS", "FAILED"} :
            /\ tx' = [tx EXCEPT ![h].status = outcome]
            /\ accountSeq' = accountSeq + 1
            /\ UNCHANGED <<breakerVars, fn, lastSubmittedHash, frame, faults>>
      BY <1>1 DEF Apply
    <2>2. PICK t : t = [tx[h] EXCEPT !.status = outcome]
      OBVIOUS
    <2>3. /\ t \in TxRecord /\ t.from = tx[h].from /\ t.acked = tx[h].acked
          /\ tx' = [tx EXCEPT ![h] = t]
      BY <2>1, <2>2 DEF TxRecord, RpcInv, TypeOK
    <2>4. /\ NetworkGrows /\ Hashes' = Hashes
          /\ \A g \in Hashes : tx'[g] = IF g = h THEN t ELSE tx[g]
          /\ \A d \in Callers : Submitted(d)' = Submitted(d)
      BY <2>3, TxChanged
    <2>5. \A g \in Hashes : tx'[g].acked = tx[g].acked
      BY <2>3, <2>4
    <2>6. accountSeq' \in Nat
      BY <2>1 DEF RpcInv, TypeOK
    <2>7. QED
      BY <2>1, <2>4, <2>5, <2>6, NobodyMoves DEF breakerVars
  <1>2. CASE BreakerTimeout \/ UNCHANGED vars
    <2>1. UNCHANGED <<call, fn, lastSubmittedHash, frame, tx, accountSeq, faults>>
      BY <1>2 DEF BreakerTimeout, ResetTimeoutElapses, network, vars, breakerVars
    <2>2. NetworkGrows /\ Hashes' = Hashes /\ accountSeq' \in Nat
      BY <2>1 DEF NetworkGrows, RpcInv, TypeOK, Hashes
    <2>3. \A d \in Callers : Submitted(d)' = Submitted(d)
      BY <2>1 DEF Submitted, SubmittedBy, Hashes
    <2>4. QED
      BY <2>1, <2>2, <2>3, NobodyMoves
  <1>3. QED
    BY <1>1, <1>2

----------------------------------------------------------------------------
(* the theorems *)

\* Whoever has begun finds the breaker created, with somebody's arguments.
FnKnown == \A c \in Callers : frame[c].at # "new" => fn \in Callers

ClientInv == BreakerInv /\ RpcInv /\ FnKnown

LEMMA FnStays == RpcInv /\ FnKnown /\ [Next]_vars => FnKnown'
  <1> SUFFICES ASSUME RpcInv, FnKnown, [Next]_vars, NEW d \in Callers, frame'[d].at # "new"
               PROVE  fn' \in Callers
    BY DEF FnKnown
  <1>1. frame \in [Callers -> Frame] /\ fn \in Callers \union {NoCaller}
    BY DEF RpcInv, TypeOK, Frame
  <1>2. frame[d].at # "new" => fn \in Callers
    BY DEF FnKnown
  <1>3. ASSUME NEW c \in Callers, invokeContract(c) PROVE fn' \in Callers
    BY <1>1, <1>3 DEF invokeContract
  <1>4. ASSUME NEW c \in Callers, Step(c) PROVE fn' \in Callers
    <2>1. frame[c].at # "new" /\ fn' = fn
      BY <1>4 DEF Step, Resume, StatusReply, AccountReply, RpcThrows, Reach, SendReply,
         SendReplyLost, AttemptFails
    <2>2. QED
      BY <2>1 DEF FnKnown
  <1>5. CASE Apply \/ BreakerTimeout \/ UNCHANGED vars
    BY <1>2, <1>5 DEF Apply, BreakerTimeout, vars
  <1>6. QED
    BY <1>3, <1>4, <1>5 DEF Next

LEMMA ClientInvInit == Init => ClientInv
  <1> SUFFICES ASSUME Init PROVE ClientInv
    OBVIOUS
  <1> USE AttemptAssumption, ThresholdAssumption
  <1>1. BreakerInv
    BY BreakerInitInv DEF Init
  <1>2. tx = <<>> /\ Hashes = {} /\ Len(tx) = 0
    BY DEF Init, Hashes
  <1>3. \A c \in Callers : Submitted(c) = 0
    BY <1>2, FS_EmptySet DEF Submitted, SubmittedBy
  <1>4. \A c \in Callers : frame[c] = [at |-> "new", attempt |-> 1, seq |-> 0, hash |-> NoHash,
                                       lost |-> 0, before |-> {}]
    BY DEF Init
  <1>5. 1 \in 1..MaxAttempts /\ Budget \in Nat
    BY Arithmetic
  <1>6. TypeOK
    BY <1>1, <1>2, <1>5 DEF Init, TypeOK, BreakerInv, Points, NoHash
  <1>7. ASSUME NEW c \in Callers
        PROVE  HashesOK(c, frame[c]) /\ CountOK(Submitted(c), frame[c], call[c].retries)
    BY <1>3, <1>4, <1>5 DEF HashesOK, CountOK, Unsent
  <1>8. tx \in Seq(TxRecord)
    BY <1>2
  <1>9. FnKnown
    BY <1>4 DEF FnKnown
  <1>10. QED
    BY <1>1, <1>6, <1>7, <1>8, <1>9 DEF ClientInv, RpcInv

LEMMA ClientInvStep == ClientInv /\ [Next]_vars => ClientInv'
  <1> SUFFICES ASSUME ClientInv, [Next]_vars PROVE ClientInv'
    OBVIOUS
  <1>1. BreakerInv' /\ BreakerTypeOK'
    BY BreakerSteps, BreakerNextInv DEF ClientInv, BreakerInv
  <1>2. RpcInv /\ FnKnown
    BY DEF ClientInv
  <1>3. ASSUME NEW c \in Callers, Step(c) PROVE RpcInv'
    <2>1. frame[c].at # "new" => fn \in Callers
      BY <1>2 DEF FnKnown
    <2>2. Reach(c) => fn \in Callers
      BY <2>1 DEF Reach
    <2>3. QED
      BY <1>1, <1>2, <1>3, <2>2, ResumeStep, StatusReplyStep, AccountReplyStep, LossSteps,
         ReachStep, SendReplyStep DEF Step
  <1>4. RpcInv'
    BY <1>1, <1>2, <1>3, InvokeStep, WorldSteps DEF Next
  <1>5. QED
    BY <1>1, <1>2, <1>4, FnStays DEF ClientInv

LEMMA ClientInvAlways == Spec => []ClientInv
  BY ClientInvInit, ClientInvStep, PTL DEF Spec

\* Every behaviour of the client is, for its breaker, a behaviour of CircuitBreaker: what is
\* proved of the breaker on its own holds of the one the RPC client shares.
THEOREM BreakerInside == Spec => BreakerSpec
  <1>1. Init => BreakerInit
    BY DEF Init
  <1>2. QED
    BY <1>1, BreakerSteps, PTL DEF Spec, BreakerSpec

\* Around the breaker, retryWithBackoff and the other invocations change nothing of what the
\* breaker promises: it opens only after its threshold of failures, closes only after a full
\* probation or a reset, and its counters stay below what they are compared with.
THEOREM BreakerPromisesInside ==
    Spec => /\ []CountersBelowThreshold
            /\ TripsOnlyAfterThreshold
            /\ ClosesOnlyAfterProbation
  BY BreakerInside, CountersBelow, TripsAfterThreshold, ClosesAfterProbation

\* The client keeps its types: every hash it holds names a transaction of the network, and no
\* attempt counter leaves its loop.
THEOREM TypeCorrect == Spec => []TypeOK
  <1>1. ClientInv => TypeOK
    BY DEF ClientInv, RpcInv
  <1>2. QED
    BY <1>1, ClientInvAlways, PTL

\* invokeContract puts one transaction on the network, and one more for each of its replies
\* that was lost, whatever other invocations do to the shared hash.
THEOREM OneSubmission == Spec => []OneSubmissionPerLostReply
  <1>1. ClientInv => OneSubmissionPerLostReply
    <2> SUFFICES ASSUME ClientInv, NEW c \in Callers
                 PROVE  Submitted(c) <= 1 + frame[c].lost
      BY DEF OneSubmissionPerLostReply, Submitted
    <2>1. CountOK(Submitted(c), frame[c], call[c].retries) /\ Submitted(c) \in Nat
          /\ frame[c].lost \in Nat
      BY Known DEF ClientInv, Frame
    <2>2. QED
      BY <2>1 DEF CountOK
  <1>2. QED
    BY <1>1, ClientInvAlways, PTL

\* The two nested retry loops submit at most MAX_RETRIES times the tries of the breaker.
THEOREM WithinBudget == Spec => []SubmissionBudget
  <1>1. ClientInv => SubmissionBudget
    BY DEF ClientInv, RpcInv, CountOK, Submitted, Budget, SubmissionBudget
  <1>2. QED
    BY <1>1, ClientInvAlways, PTL

\* A retry asks only about a hash acknowledged since its invocation began: no earlier
\* invocation's success is taken for its answer.
THEOREM StatusIsFresh == Spec => []FreshStatusCheck
  <1>1. ClientInv => FreshStatusCheck
    BY DEF ClientInv, RpcInv, HashesOK, FreshStatusCheck
  <1>2. QED
    BY <1>1, ClientInvAlways, PTL
=============================================================================
