------------------------------ MODULE BatchJobs ------------------------------
(***************************************************************************)
(* BatchService and BatchProcessor: a row per batch, a Bull job with the   *)
(* same id, and a worker that runs the items one by one and writes the     *)
(* row at the end, or, for an export, treats the first item as the whole.  *)
(* The listeners onActive and onFailed start an update they do not await,  *)
(* so it can land at any later time.  A worker that dies, before or after  *)
(* that last write, leaves its job stalled, and the queue (external) hands *)
(* it out once more before it fails it.                                    *)
(***************************************************************************)
EXTENDS Requests

CONSTANTS
  MaxBatches,   \* bound on the batches
  MaxItemsEach  \* bound on the items of one
ASSUME BatchAssumption == MaxBatches \in Nat /\ MaxItemsEach \in Nat

VARIABLE batches

BatchIds == 0 .. MaxBatches - 1

\* No batch: no row yet.
NoBatch == [row |-> "none", export |-> FALSE, total |-> 0, processed |-> 0, failed |-> 0,
            job |-> "none",        \* the Bull job; written: its row is, and it is not over yet
            done |-> 0, errors |-> 0,       \* items run by the worker at hand
            stalls |-> 0,
            landing |-> {}]        \* updates under way that nobody awaits

BatchInit == batches = [b \in BatchIds |-> NoBatch]

createBatchJob(c, b, n, export) ==
  /\ At(c, "idle")
  /\ batches[b].row = "none"
  /\ batches' = [batches EXCEPT ![b].row = "pending", ![b].total = n, ![b].export = export]
  /\ Waits(c, "enqueue", b, None, None)
  /\ UNCHANGED raced

createBatchJob_enqueue(c) ==
  /\ At(c, "enqueue")
  /\ batches' = [batches EXCEPT ![call[c].id].job = "waiting"]
  /\ Ends(c)
  /\ UNCHANGED raced

onActive(b) ==
  /\ batches[b].job = "waiting"
  /\ batches' = [batches EXCEPT ![b].job = "active", ![b].done = 0, ![b].errors = 0,
                                ![b].landing = @ \cup {"processing"}]
  /\ UNCHANGED reqVars

\* One item of process*Batch; an error is collected, never thrown.
ProcessItem(b, ok) ==
  /\ batches[b].job = "active" /\ ~batches[b].export
  /\ batches[b].done + batches[b].errors < batches[b].total
  /\ batches' = IF ok THEN [batches EXCEPT ![b].done = @ + 1]
                ELSE [batches EXCEPT ![b].errors = @ + 1]
  /\ UNCHANGED reqVars

ProcessEnd(b) ==
  /\ batches[b].job = "active" /\ ~batches[b].export
  /\ batches[b].done + batches[b].errors = batches[b].total
  /\ batches' = [batches EXCEPT
       ![b].row = IF batches[b].errors = batches[b].total THEN "failed" ELSE "completed",
       ![b].processed = batches[b].done, ![b].failed = batches[b].errors,
       ![b].job = "written"]
  /\ UNCHANGED reqVars

\* processExportBatch: one request, the first; a success leaves failedItems alone.
ExportEnd(b, ok) ==
  /\ batches[b].job = "active" /\ batches[b].export
  /\ batches[b].total > 0
  /\ batches' = IF ok
       THEN [batches EXCEPT ![b].row = "completed", ![b].processed = 1, ![b].job = "written"]
       ELSE [batches EXCEPT ![b].row = "failed", ![b].processed = 0, ![b].failed = 1,
                            ![b].job = "written"]
  /\ UNCHANGED reqVars

\* The processor has returned, and the queue learns of it.
JobCompletes(b) ==
  /\ batches[b].job = "written"
  /\ batches' = [batches EXCEPT ![b].job = "completed"]
  /\ UNCHANGED reqVars

\* The final update is refused, or there is no first item to export: the processor
\* throws and Bull calls onFailed.
ProcessThrows(b) ==
  /\ batches[b].job = "active"
  /\ batches' = [batches EXCEPT ![b].job = "failed", ![b].landing = @ \cup {"failed"}]
  /\ UNCHANGED reqVars

WorkerDies(b) ==
  /\ batches[b].job \in {"active", "written"}
  /\ batches' = IF batches[b].stalls = 0
                THEN [batches EXCEPT ![b].job = "waiting", ![b].stalls = 1]
                ELSE [batches EXCEPT ![b].job = "failed", ![b].landing = @ \cup {"failed"}]
  /\ UNCHANGED reqVars

\* raced: the final update had been made when "processing" landed on the row.
UpdateLands(b, status) ==
  /\ status \in batches[b].landing
  /\ batches' = [batches EXCEPT ![b].row = status, ![b].landing = @ \ {status}]
  /\ raced' = (raced \/ (status = "processing" /\ batches[b].job \in {"written", "completed", "failed"}))
  /\ UNCHANGED call

UpdateIsRefused(b, status) ==
  /\ status \in batches[b].landing
  /\ batches' = [batches EXCEPT ![b].landing = @ \ {status}]
  /\ UNCHANGED reqVars

BatchNext ==
  \/ \E c \in Calls, b \in BatchIds, n \in 0 .. MaxItemsEach, export \in BOOLEAN :
       createBatchJob(c, b, n, export)
  \/ \E c \in Calls : createBatchJob_enqueue(c) \/ (Fails(c) /\ UNCHANGED batches)
  \/ \E b \in BatchIds :
       \/ onActive(b) \/ ProcessEnd(b) \/ JobCompletes(b) \/ ProcessThrows(b) \/ WorkerDies(b)
       \/ \E ok \in BOOLEAN : ProcessItem(b, ok) \/ ExportEnd(b, ok)
       \/ \E status \in {"processing", "failed"} : UpdateLands(b, status) \/ UpdateIsRefused(b, status)

BatchTypeOK ==
  batches \in [BatchIds ->
    [row : {"none", "pending", "processing", "completed", "failed"},
     export : BOOLEAN, total : 0 .. MaxItemsEach,
     processed : 0 .. MaxItemsEach, failed : 0 .. MaxItemsEach,
     job : {"none", "waiting", "active", "written", "completed", "failed"},
     done : 0 .. MaxItemsEach, errors : 0 .. MaxItemsEach, stalls : 0 .. 1,
     landing : SUBSET {"processing", "failed"}]]

(* A batch shown as completed did something.  The counts of a batch whose    *)
(* processor came to its end cover every item once, after a stall too.  An   *)
(* export counts as one item whatever its total, and may count a second time *)
(* only when a stalled worker had counted it as failed.                      *)
BatchCountsAreWhole ==
  \A b \in BatchIds :
    LET counted == batches[b].processed + batches[b].failed IN
    /\ batches[b].row = "completed" => batches[b].processed > 0
    /\ batches[b].job \in {"written", "completed"} =>
         IF batches[b].export
         THEN counted = 1 \/ (counted = 2 /\ batches[b].stalls = 1)
         ELSE counted = batches[b].total

(* Unless an update lands late, a batch whose job has ended is not shown as  *)
(* still running once nothing is under way.                                  *)
EndedBatchesShowIt ==
  ~raced => \A b \in BatchIds :
              batches[b].job = "completed" => batches[b].row \in {"completed", "failed"}
=============================================================================
