----------------------------- MODULE SorobanRpc -----------------------------
(***************************************************************************)
(* invokeContract of SorobanRpcClientService                               *)
(* (apps/backend/src/stellar/soroban-rpc-client.service.ts) with every     *)
(* await a point where other invocations run.  One instance of the service *)
(* serves them all: they share one breaker, the function that breaker was  *)
(* created with, and one lastSubmittedHash.                                *)
(*                                                                         *)
(* Two retry loops are nested: the breaker's withRetryBackoff (MaxRetries  *)
(* further tries) around retryWithBackoff (MaxAttempts attempts).          *)
(***************************************************************************)
EXTENDS CircuitBreaker, Sequences, FiniteSets

CONSTANTS
    MaxAttempts,       \* MAX_RETRIES of retryWithBackoff
    MaxFaults,         \* bound: how many RPC calls throw in one behaviour
    NoCaller           \* the breaker has not been created yet

ASSUME AttemptAssumption ==
    /\ MaxAttempts \in Nat \ {0}
    /\ MaxFaults \in Nat
    /\ NoCaller \notin Callers

VARIABLES
    fn,                 \* whose arguments the breaker's fn closes over
    lastSubmittedHash,  \* this.lastSubmittedHash, NoHash for undefined
    frame,              \* per invocation: where it awaits and its locals
    tx,                 \* the transactions that reached the network; a hash is an index
    accountSeq,         \* the issuer account's sequence number on the ledger
    faults              \* RPC calls that may still throw

vars == <<breakerVars, fn, lastSubmittedHash, frame, tx, accountSeq, faults>>
network == <<tx, accountSeq>>

NoHash == 0
Hashes == 1..Len(tx)
Points == {"new", "account", "send", "sent", "sleep", "status", "done"}

TypeOK ==
    /\ BreakerTypeOK
    /\ fn \in Callers \union {NoCaller}
    /\ lastSubmittedHash \in Hashes \union {NoHash}
    /\ frame \in [Callers -> [at      : Points,
                              attempt : 1..MaxAttempts,
                              seq     : Nat,
                              hash    : Hashes \union {NoHash},
                              lost    : Nat,
                              before  : SUBSET Hashes]]
    /\ \A h \in Hashes :
          tx[h] \in [from : Callers, args : Callers, acked : BOOLEAN,
                     status : {"PENDING", "SUCCESS", "FAILED", "REJECTED"}]
    /\ accountSeq \in Nat
    /\ faults \in 0..MaxFaults

Init ==
    /\ BreakerInit
    /\ fn = NoCaller
    /\ lastSubmittedHash = NoHash
    /\ frame = [c \in Callers |-> [at |-> "new", attempt |-> 1, seq |-> 0, hash |-> NoHash,
                                   lost |-> 0, before |-> {}]]
    /\ tx = <<>>
    /\ accountSeq = 0
    /\ faults = MaxFaults

----------------------------------------------------------------------------
(* leaving an await *)

\* retryWithBackoff sleeps and tries again; when its attempts are used up the promise it
\* returned rejects, and the breaker retries the whole of it or gives up.
\* f is the frame of c at that moment; the hash and the sequence number were locals of the
\* attempt.
Settle(c, f, at, attempt) ==
    frame' = [frame EXCEPT ![c] = [f EXCEPT !.at = at, !.attempt = attempt,
                                            !.hash = NoHash, !.seq = 0]]

\* Mutant: retryWithBackoff with "attempt > MAX_RETRIES", one attempt too many.
AttemptFails_OneTooMany(c, f) ==
    /\ \/ /\ f.attempt <= MaxAttempts
          /\ Settle(c, f, "sleep", f.attempt + 1)
          /\ UNCHANGED breakerVars
       \/ /\ f.attempt > MaxAttempts
          /\ Retry(c)
          /\ Settle(c, f, "sleep", 1)
       \/ /\ f.attempt > MaxAttempts
          /\ GiveUp(c)
          /\ Settle(c, f, "done", 1)
    /\ UNCHANGED <<fn, lastSubmittedHash>>

AttemptFails(c, f) ==
    /\ \/ /\ f.attempt < MaxAttempts
          /\ Settle(c, f, "sleep", f.attempt + 1)
          /\ UNCHANGED breakerVars
       \/ /\ f.attempt = MaxAttempts
          /\ Retry(c)
          /\ Settle(c, f, "sleep", 1)
       \/ /\ f.attempt = MaxAttempts
          /\ GiveUp(c)
          /\ Settle(c, f, "done", 1)
    /\ UNCHANGED <<fn, lastSubmittedHash>>

\* Mutant: the retry loop goes round again although the attempt returned.
AttemptReturns_NoReturn(c, hash) ==
    IF frame[c].attempt < MaxAttempts
    THEN /\ frame' = [frame EXCEPT ![c].at = "sleep", ![c].attempt = @ + 1]
         /\ UNCHANGED breakerVars
    ELSE /\ Succeed(c)
         /\ frame' = [frame EXCEPT ![c].at = "done", ![c].hash = hash]

\* The attempt returns hash: both retry loops return it and the breaker counts a success.
AttemptReturns(c, hash) ==
    /\ Succeed(c)
    /\ frame' = [frame EXCEPT ![c].at = "done", ![c].hash = hash]

----------------------------------------------------------------------------
(* invokeContract *)

\* Admitted or refused by the breaker, as far as the first await.
Start(c) ==
    \/ /\ Refuse(c)
       /\ frame' = [frame EXCEPT ![c].at = "done"]
    \/ /\ Arrive(c)
       /\ frame' = [frame EXCEPT ![c].at = "account",
                                 ![c].before = {h \in Hashes : tx[h].acked}]

\* Mutant: the hash of an earlier invocation is not cleared.
invokeContract_KeepsHash(c) ==
    /\ frame[c].at = "new"
    /\ lastSubmittedHash' = lastSubmittedHash
    /\ fn' = IF fn = NoCaller THEN c ELSE fn
    /\ Start(c)
    /\ UNCHANGED <<network, faults>>

\* The shared hash is cleared, the breaker is created with this call's function if it does
\* not exist (and keeps the first one otherwise), and an admitted call finds the hash still
\* cleared, so it goes straight to getAccount.
invokeContract(c) ==
    /\ frame[c].at = "new"
    /\ lastSubmittedHash' = NoHash
    /\ fn' = IF fn = NoCaller THEN c ELSE fn
    /\ Start(c)
    /\ UNCHANGED <<network, faults>>

\* invokeContractOnceChecked on a retry: ask for the status of the last hash, if any.
Resume(c) ==
    /\ frame[c].at = "sleep"
    /\ frame' = [frame EXCEPT ![c].at = IF lastSubmittedHash = NoHash THEN "account" ELSE "status",
                              ![c].hash = lastSubmittedHash]
    /\ UNCHANGED <<breakerVars, fn, lastSubmittedHash, network, faults>>

\* Mutant: an unknown transaction is asked about again instead of being sent anew.
StatusReply_Polls(c) ==
    /\ frame[c].at = "status"
    /\ LET status == tx[frame[c].hash].status
       IN  \/ /\ status = "SUCCESS"
              /\ AttemptReturns(c, lastSubmittedHash)
              /\ UNCHANGED <<fn, lastSubmittedHash>>
           \/ /\ status = "FAILED"
              /\ AttemptFails(c, frame[c])
    /\ UNCHANGED <<network, faults>>

\* getTransaction answers about the hash that was asked for; what is returned on SUCCESS is
\* lastSubmittedHash as it is now.
StatusReply(c) ==
    /\ frame[c].at = "status"
    /\ LET status == tx[frame[c].hash].status
       IN  \/ /\ status = "SUCCESS"
              /\ AttemptReturns(c, lastSubmittedHash)
              /\ UNCHANGED <<fn, lastSubmittedHash>>
           \/ /\ status = "FAILED"
              /\ AttemptFails(c, frame[c])
           \/ /\ status \notin {"SUCCESS", "FAILED"}
              /\ frame' = [frame EXCEPT ![c].at = "account", ![c].hash = NoHash]
              /\ UNCHANGED <<breakerVars, fn, lastSubmittedHash>>
    /\ UNCHANGED <<network, faults>>

\* getAccount, then prepareTransaction: the transaction is built on the account's sequence
\* number as it was read.
AccountReply(c) ==
    /\ frame[c].at = "account"
    /\ frame' = [frame EXCEPT ![c].at = "send", ![c].seq = accountSeq + 1]
    /\ UNCHANGED <<breakerVars, fn, lastSubmittedHash, network, faults>>

\* getTransaction, getAccount, prepareTransaction or sendTransaction throws, and nothing
\* reached the network.
RpcThrows(c) ==
    /\ frame[c].at \in {"status", "account", "send"}
    /\ faults > 0 /\ faults' = faults - 1
    /\ AttemptFails(c, frame[c])
    /\ UNCHANGED network

\* sendTransaction resolves: its hash is stored and returned whatever the result's status is.
SendReply(c) ==
    /\ frame[c].at = "sent"
    /\ lastSubmittedHash' = frame[c].hash
    /\ AttemptReturns(c, frame[c].hash)
    /\ tx' = [tx EXCEPT ![frame[c].hash].acked = TRUE]
    /\ UNCHANGED <<fn, accountSeq, faults>>

\* sendTransaction throws although the transaction reached the network.
SendReplyLost(c) ==
    /\ frame[c].at = "sent"
    /\ faults > 0 /\ faults' = faults - 1
    /\ AttemptFails(c, [frame[c] EXCEPT !.lost = @ + 1])
    /\ UNCHANGED network

----------------------------------------------------------------------------
(* the network *)

\* A transaction is queued if its sequence number is the account's next one and no other
\* transaction of the account is queued; otherwise it is answered with an error status.
Reach(c) ==
    LET queued == /\ frame[c].seq = accountSeq + 1
                  /\ \A h \in Hashes : tx[h].status # "PENDING"
    IN  /\ frame[c].at = "send"
        /\ tx' = Append(tx, [from |-> c, args |-> fn, acked |-> FALSE,
                             status |-> IF queued THEN "PENDING" ELSE "REJECTED"])
        /\ frame' = [frame EXCEPT ![c].at = "sent", ![c].seq = 0, ![c].hash = Len(tx')]
        /\ UNCHANGED <<breakerVars, fn, lastSubmittedHash, accountSeq, faults>>

Apply ==
    \E h \in Hashes, outcome \in {"SUCCESS", "FAILED"} :
        /\ tx[h].status = "PENDING"
        /\ tx' = [tx EXCEPT ![h].status = outcome]
        /\ accountSeq' = accountSeq + 1
        /\ UNCHANGED <<breakerVars, fn, lastSubmittedHash, frame, faults>>

BreakerTimeout ==
    /\ ResetTimeoutElapses
    /\ UNCHANGED <<fn, lastSubmittedHash, frame, network, faults>>

Step(c) ==
    \/ Resume(c)
    \/ StatusReply(c)
    \/ AccountReply(c)
    \/ RpcThrows(c)
    \/ Reach(c)
    \/ SendReply(c)
    \/ SendReplyLost(c)

Next ==
    \/ \E c \in Callers : invokeContract(c) \/ Step(c)
    \/ Apply
    \/ BreakerTimeout

Spec == Init /\ [][Next]_vars

\* An await settles and a timer fires; the network need not ever apply anything.
FairSpec == Spec /\ \A c \in Callers : WF_vars(Step(c))

----------------------------------------------------------------------------
(* properties *)

SubmittedBy(c) == {h \in Hashes : tx[h].from = c}

\* Through both retry loops, whatever other invocations do to the shared hash: an
\* invocation puts at most one transaction on the network for each lost reply, and one more.
OneSubmissionPerLostReply ==
    \A c \in Callers : Cardinality(SubmittedBy(c)) <= 1 + frame[c].lost

\* The nested loops multiply, and nothing multiplies them further.
SubmissionBudget ==
    \A c \in Callers : Cardinality(SubmittedBy(c)) <= MaxAttempts * (MaxRetries + 1)

\* The hash a retry asks about was acknowledged during this invocation (its own start
\* cleared every earlier one), so a stale success is never taken for an answer.
FreshStatusCheck ==
    \A c \in Callers : frame[c].at = "status" => frame[c].hash \notin frame[c].before

\* Every invocation settles, although the network may never answer about a transaction.
EveryInvocationSettles ==
    \A c \in Callers : frame[c].at # "new" ~> frame[c].at = "done"

\* What the comment on invokeContract says: it submits an invocation with its arguments and
\* returns the hash of that transaction.
ReturnsItsTransaction ==
    \A c \in Callers :
        call[c].answer = "ok" =>
            /\ frame[c].hash # NoHash
            /\ tx[frame[c].hash].args = c
=============================================================================
