--------------------------- MODULE FetchPipeline ---------------------------
(***************************************************************************)
(* The bulk parent-transaction retrieval pipeline of btctool:              *)
(* tx_utils.fetch_utxo_dict_list (the coordinator) and                     *)
(* tx_utils.request_worker (one process per worker), sharing a             *)
(* multiprocessing.Manager queue, a result list and an error list.         *)
(*                                                                         *)
(* The queue carries the UTXO descriptors of the input list.  Two equal    *)
(* descriptors of the input are two distinct objects in the queue, so the  *)
(* model names an occurrence by its position 1..N in the input list; the   *)
(* value a worker fetches for occurrence i is the one of Input[i].         *)
(*                                                                         *)
(* Each step is one call on a shared object (queue.get, queue.put,         *)
(* list.append, queue.task_done, queue.empty, queue.join) or the network   *)
(* call, together with the local statements that follow it.                *)
(***************************************************************************)
EXTENDS Naturals, Sequences, FiniteSets, Functions

CONSTANTS
    Workers,     \* the processes started by fetch_utxo_dict_list
    Utxos,       \* UTXO descriptors
    Input,       \* utxo_id_list, the coordinator's argument
    MinTimeout,  \* min_timeout_secs of request_worker, in ticks
    MaxTimeout,  \* max_timeout_secs of request_worker, in ticks
    MaxErrors    \* bound of the model: a fetch may fail only while fewer
                 \* than MaxErrors error records exist

ASSUME ConstantsAssumption ==
    /\ Workers # {}
    /\ IsFiniteSet(Workers)
    /\ Input \in Seq(Utxos)
    /\ MinTimeout \in Nat \ {0}
    /\ MaxTimeout \in Nat
    /\ MinTimeout <= MaxTimeout
    /\ MaxErrors \in Nat

N == Len(Input)

\* The occurrences of the input list, as they travel through the queue.
Slots == 1..N

\* The value of item when a worker holds nothing.
NoItem == 0

\* The places of a worker in the loop of request_worker:
\*   "idle"    blocked in queue.get()
\*   "fetch"   holds an item, about to call fetch_utxo_dict
\*   "record"  the fetch raised and the item was put back: error_list.append next
\*   "sleep"   in time.sleep(timeout_secs), queue.task_done() next
\*   "dead"    terminated by the coordinator
WorkerStates == {"idle", "fetch", "record", "sleep", "dead"}

\* The places of the coordinator in the loop of fetch_utxo_dict_list.
CoordStates == {"empty", "join", "read", "stop", "done"}

VARIABLES
    queue,        \* the Manager queue: a FIFO of occurrences
    unfinished,   \* the queue's count of tasks not yet marked task_done
    pc,           \* pc[w]: where worker w is in its loop
    item,         \* item[w]: the occurrence worker w popped last
    timeout,      \* timeout[w]: timeout_secs of worker w
    results,      \* utxo_tx_list: the occurrences fetched, in append order
    errors,       \* len(error_list)
    cpc,          \* where the coordinator is
    qEmpty,       \* the coordinator's queue_empty
    resultCount,  \* the coordinator's result_count
    errorCount,   \* the coordinator's error_count
    barN          \* the progress bar's count (tqdm bar.n)

workerVars == <<pc, item, timeout>>
coordVars == <<cpc, qEmpty, resultCount, errorCount, barN>>
vars == <<queue, unfinished, results, errors, workerVars, coordVars>>

MinOf(a, b) == IF a <= b THEN a ELSE b

-----------------------------------------------------------------------------
(* fetch_utxo_dict_list up to the start of the workers: the queue is       *)
(* seeded with every descriptor of the input, then the workers start.      *)
Init ==
    /\ queue = [i \in Slots |-> i]
    /\ unfinished = N
    /\ pc = [w \in Workers |-> "idle"]
    /\ item = [w \in Workers |-> NoItem]
    /\ timeout = [w \in Workers |-> MinTimeout]
    /\ results = <<>>
    /\ errors = 0
    /\ cpc = "empty"
    /\ qEmpty = FALSE
    /\ resultCount = 0
    /\ errorCount = 0
    /\ barN = 0

-----------------------------------------------------------------------------
(* Worker w: utxo = queue.get() returns the head of the queue.             *)
Get(w) ==
    /\ pc[w] = "idle"
    /\ queue # <<>>
    /\ item' = [item EXCEPT ![w] = Head(queue)]
    /\ queue' = Tail(queue)
    /\ pc' = [pc EXCEPT ![w] = "fetch"]
    /\ UNCHANGED <<unfinished, timeout, results, errors, coordVars>>

(* Mutant of FetchOk: the item is put back on success too, as if the put  *)
(* sat in the finally clause.                                              *)
FetchOkRequeue(w) ==
    /\ pc[w] = "fetch"
    /\ results' = Append(results, item[w])
    /\ queue' = Append(queue, item[w])
    /\ unfinished' = unfinished + 1
    /\ timeout' = [timeout EXCEPT ![w] = MinTimeout]
    /\ pc' = [pc EXCEPT ![w] = "sleep"]
    /\ UNCHANGED <<item, errors, coordVars>>

(* Worker w: fetch_utxo_dict succeeds, its result is appended to the      *)
(* result list and timeout_secs is reset; the worker then sleeps.          *)
FetchOk(w) ==
    /\ pc[w] = "fetch"
    /\ results' = Append(results, item[w])
    /\ timeout' = [timeout EXCEPT ![w] = MinTimeout]
    /\ pc' = [pc EXCEPT ![w] = "sleep"]
    /\ UNCHANGED <<queue, unfinished, item, errors, coordVars>>

(* Mutant of FetchFail: the handler does not put the item back.          *)
FetchFailNoRequeue(w) ==
    /\ pc[w] = "fetch"
    /\ errors < MaxErrors
    /\ pc' = [pc EXCEPT ![w] = "record"]
    /\ UNCHANGED <<queue, unfinished, item, timeout, results, errors, coordVars>>

(* Mutant of FetchFail: the result is appended before the step that can  *)
(* raise, so a failed attempt leaves a result and also requeues the item.  *)
FetchFailAfterAppend(w) ==
    /\ pc[w] = "fetch"
    /\ errors < MaxErrors
    /\ results' = Append(results, item[w])
    /\ queue' = Append(queue, item[w])
    /\ unfinished' = unfinished + 1
    /\ pc' = [pc EXCEPT ![w] = "record"]
    /\ UNCHANGED <<item, timeout, errors, coordVars>>

(* Worker w: fetch_utxo_dict raises (HTTP error, timeout, bad JSON); the   *)
(* handler's first statement puts the item back on the queue.              *)
FetchFail(w) ==
    /\ pc[w] = "fetch"
    /\ errors < MaxErrors
    /\ queue' = Append(queue, item[w])
    /\ unfinished' = unfinished + 1
    /\ pc' = [pc EXCEPT ![w] = "record"]
    /\ UNCHANGED <<item, timeout, results, errors, coordVars>>

(* Mutant of RecordError: the handler also calls queue.task_done(), so   *)
(* the failed attempt is marked done twice (once more in finally).        *)
RecordErrorTaskDone(w) ==
    /\ pc[w] = "record"
    /\ errors' = errors + 1
    /\ unfinished' = unfinished - 1
    /\ timeout' = [timeout EXCEPT ![w] = MinOf(MaxTimeout, 2 * timeout[w])]
    /\ pc' = [pc EXCEPT ![w] = "sleep"]
    /\ UNCHANGED <<queue, item, results, coordVars>>

(* Worker w: the handler appends the exception to the error list and      *)
(* doubles timeout_secs, clamped to max_timeout_secs; then it sleeps.      *)
RecordError(w) ==
    /\ pc[w] = "record"
    /\ errors' = errors + 1
    /\ timeout' = [timeout EXCEPT ![w] = MinOf(MaxTimeout, 2 * timeout[w])]
    /\ pc' = [pc EXCEPT ![w] = "sleep"]
    /\ UNCHANGED <<queue, unfinished, item, results, coordVars>>

(* Worker w: after the sleep, the finally clause calls queue.task_done()   *)
(* and the loop returns to queue.get().                                    *)
TaskDone(w) ==
    /\ pc[w] = "sleep"
    /\ unfinished' = unfinished - 1
    /\ pc' = [pc EXCEPT ![w] = "idle"]
    /\ item' = [item EXCEPT ![w] = NoItem]
    /\ UNCHANGED <<queue, timeout, results, errors, coordVars>>

-----------------------------------------------------------------------------
(* Coordinator: queue_empty = queue.empty().                               *)
CheckEmpty ==
    /\ cpc = "empty"
    /\ qEmpty' = (queue = <<>>)
    /\ cpc' = IF queue = <<>> THEN "join" ELSE "read"
    /\ UNCHANGED <<queue, unfinished, results, errors, workerVars,
                   resultCount, errorCount, barN>>

(* Mutant of Join: the coordinator trusts queue.empty() and skips         *)
(* queue.join().                                                           *)
JoinSkipped ==
    /\ cpc = "join"
    /\ cpc' = "read"
    /\ UNCHANGED <<queue, unfinished, results, errors, workerVars,
                   qEmpty, resultCount, errorCount, barN>>

(* Coordinator: queue.join() returns once every task is marked done.       *)
Join ==
    /\ cpc = "join"
    /\ unfinished = 0
    /\ cpc' = "read"
    /\ UNCHANGED <<queue, unfinished, results, errors, workerVars,
                   qEmpty, resultCount, errorCount, barN>>

(* Mutant of ReadCounts: bar.update is given the new total instead of the *)
(* increment.                                                              *)
ReadCountsAbsolute ==
    LET newResultCount == Len(results)
        newErrorCount == errors
    IN  /\ cpc = "read"
        /\ IF qEmpty \/ newResultCount > resultCount \/ newErrorCount > errorCount
              THEN /\ barN' = barN + newResultCount
                   /\ resultCount' = newResultCount
                   /\ errorCount' = newErrorCount
              ELSE UNCHANGED <<barN, resultCount, errorCount>>
        /\ cpc' = IF qEmpty THEN "stop" ELSE "empty"
        /\ UNCHANGED <<queue, unfinished, results, errors, workerVars, qEmpty>>

(* Mutant of ReadCounts: the loop never breaks.                            *)
ReadCountsNoBreak ==
    LET newResultCount == Len(results)
        newErrorCount == errors
    IN  /\ cpc = "read"
        /\ IF qEmpty \/ newResultCount > resultCount \/ newErrorCount > errorCount
              THEN /\ barN' = barN + (newResultCount - resultCount)
                   /\ resultCount' = newResultCount
                   /\ errorCount' = newErrorCount
              ELSE UNCHANGED <<barN, resultCount, errorCount>>
        /\ cpc' = "empty"
        /\ UNCHANGED <<queue, unfinished, results, errors, workerVars, qEmpty>>

(* Coordinator: the counts are read; the bar advances by the new results   *)
(* when the queue was empty or a count grew; the loop breaks when the      *)
(* queue was empty.                                                        *)
ReadCounts ==
    LET newResultCount == Len(results)
        newErrorCount == errors
    IN  /\ cpc = "read"
        /\ IF qEmpty \/ newResultCount > resultCount \/ newErrorCount > errorCount
              THEN /\ barN' = barN + (newResultCount - resultCount)
                   /\ resultCount' = newResultCount
                   /\ errorCount' = newErrorCount
              ELSE UNCHANGED <<barN, resultCount, errorCount>>
        /\ cpc' = IF qEmpty THEN "stop" ELSE "empty"
        /\ UNCHANGED <<queue, unfinished, results, errors, workerVars, qEmpty>>

(* Coordinator: every worker process is terminated and the result list is *)
(* returned.                                                               *)
Stop ==
    /\ cpc = "stop"
    /\ pc' = [w \in Workers |-> "dead"]
    /\ cpc' = "done"
    /\ UNCHANGED <<queue, unfinished, item, timeout, results, errors,
                   qEmpty, resultCount, errorCount, barN>>

-----------------------------------------------------------------------------
WorkerStep(w) ==
    \/ Get(w)
    \/ FetchOk(w)
    \/ FetchFail(w)
    \/ RecordError(w)
    \/ TaskDone(w)

CoordinatorStep == CheckEmpty \/ Join \/ ReadCounts \/ Stop

Next == (\E w \in Workers : WorkerStep(w)) \/ CoordinatorStep

(* The workers and the coordinator are OS processes, so each one that can *)
(* take a step eventually does.  The transport is assumed to succeed       *)
(* eventually: a worker that keeps reaching the fetch eventually succeeds  *)
(* (strong fairness, since a failure disables the success).                *)
Fairness ==
    /\ \A w \in Workers : WF_vars(WorkerStep(w)) /\ SF_vars(FetchOk(w))
    /\ WF_vars(CoordinatorStep)

Spec == Init /\ [][Next]_vars /\ Fairness

-----------------------------------------------------------------------------
TypeOK ==
    /\ queue \in Seq(Slots)
    /\ unfinished \in Nat
    /\ pc \in [Workers -> WorkerStates]
    /\ item \in [Workers -> Slots \cup {NoItem}]
    /\ timeout \in [Workers -> MinTimeout..MaxTimeout]
    /\ results \in Seq(Slots)
    /\ errors \in Nat
    /\ cpc \in CoordStates
    /\ qEmpty \in BOOLEAN
    /\ resultCount \in Nat
    /\ errorCount \in Nat
    /\ barN \in Nat

(* No duplication (spec 8): each input occurrence is appended to the      *)
(* result list at most once, however the workers' fetches, requeues after *)
(* failure and task_done calls interleave.                                 *)
NoDuplicateFetch == IsInjective(results)

(* Completeness (spec 4.5): when fetch_utxo_dict_list returns, every      *)
(* input occurrence is in the result list; it relies on the worker        *)
(* putting a failed item back before task_done and on queue.join().       *)
AllFetchedOnReturn == cpc = "done" => Slots \subseteq Range(results)

(* The progress bar never counts more results than have been appended,    *)
(* and shows exactly the input's size when the coordinator returns.       *)
ProgressNeverAhead ==
    /\ barN <= Len(results)
    /\ cpc = "done" => barN = N

(* Termination: under the fairness above, fetch_utxo_dict_list returns.   *)
Termination == <>(cpc = "done")

-----------------------------------------------------------------------------
(* The pipeline implements its contract: the result list is the contract's *)
(* completed list and the coordinator's return is the contract's finish.  *)
Contract == INSTANCE PipelineContract WITH
    Tasks <- Slots,
    completed <- results,
    finished <- (cpc = "done")

(* Every step of the pipeline either completes a task not yet complete   *)
(* (FetchOk), finishes after every task is complete (Stop), or leaves the *)
(* result list and the return untouched; and the pipeline does finish.    *)
ImplementsContract == Contract!Spec

-----------------------------------------------------------------------------
(***************************************************************************)
(* The inductive invariant behind NoDuplicateFetch and AllFetchedOnReturn. *)
(***************************************************************************)

\* The workers between queue.get() and queue.task_done().
Busy == {w \in Workers : pc[w] \in {"fetch", "record", "sleep"}}

\* The workers holding an item that is neither in the queue nor fetched.
Fetching == {w \in Workers : pc[w] = "fetch"}

\* Every input occurrence is in exactly one place: the queue (once), the
\* hands of one fetching worker, or the result list.
Placement ==
    /\ IsInjective(queue)
    /\ \A w \in Fetching : item[w] \in Slots
    /\ Slots = Range(queue) \cup {item[w] : w \in Fetching} \cup Range(results)
    /\ Range(queue) \cap Range(results) = {}
    /\ \A w \in Fetching : item[w] \notin Range(queue) \cup Range(results)
    /\ \A v, w \in Fetching : item[v] = item[w] => v = w

\* The queue's unfinished-task count is the number of queued items plus the
\* number of workers that have not yet called task_done for their item.
UnfinishedCount == unfinished = Len(queue) + Cardinality(Busy)

\* Once queue.join() has returned, the queue is empty and no worker is busy.
Drained ==
    ((cpc = "read" /\ qEmpty) \/ cpc \in {"stop", "done"})
        => /\ queue = <<>>
           /\ \A w \in Workers : pc[w] \in {"idle", "dead"}

\* The coordinator's counts trail the shared lists.
CountsTrail ==
    /\ barN = resultCount
    /\ resultCount <= Len(results)

\* Every input occurrence is counted once: queued, being fetched, or fetched.
InFlightCount == Len(queue) + Cardinality(Fetching) + Len(results) = N

\* After the last read of the counts the coordinator's count is the final one.
FinalCounts == cpc \in {"stop", "done"} => resultCount = Len(results)

(* The inductive invariant: each input occurrence sits in exactly one of *)
(* the queue, a fetching worker or the result list; Manager's unfinished  *)
(* count matches the queue plus the workers before task_done; after join  *)
(* returns nothing is in flight; the progress counts trail the lists.     *)
IInv ==
    /\ TypeOK
    /\ NoDuplicateFetch
    /\ Placement
    /\ UnfinishedCount
    /\ Drained
    /\ CountsTrail
    /\ InFlightCount
    /\ FinalCounts

=============================================================================
