------------------------ MODULE InterruptiblePipeline ------------------------
(***************************************************************************)
(* The fetch pipeline under SIGINT.  request_worker is wrapped in          *)
(* utils.ignore_keyboard_interrupt: a KeyboardInterrupt raised anywhere in *)
(* the worker's loop leaves the loop (running the finally clause, and with *)
(* it queue.task_done, when it is raised inside the try) and is swallowed  *)
(* by the wrapper, so the process ends.  fetch_utxo_dict_list has no       *)
(* handler: a KeyboardInterrupt in the coordinator propagates out of it    *)
(* and the pipeline is abandoned.                                          *)
(*                                                                         *)
(* A signal is delivered to a set of processes (the terminal's Ctrl-C      *)
(* reaches the whole process group; kill -INT reaches one process).  A     *)
(* process that has received it raises at its next Python step, so its     *)
(* only step is the interrupt's; its ordinary steps are those of           *)
(* FetchPipeline.  A Manager call interrupted while the client waits for   *)
(* the reply has already been carried out by the Manager's server.         *)
(***************************************************************************)
EXTENDS FetchPipeline

CONSTANTS
    Coordinator,    \* the main process, running fetch_utxo_dict_list
    SignalTargets,  \* the sets of processes one SIGINT may reach
    MaxSignals      \* bound of the model: signals sent

ASSUME InterruptAssumption ==
    /\ Coordinator \notin Workers
    /\ SignalTargets \subseteq SUBSET (Workers \cup {Coordinator})
    /\ MaxSignals \in Nat

VARIABLES
    pending,   \* the processes that received SIGINT and have not yet raised
    signals    \* SIGINTs sent so far

sigVars == <<pending, signals>>
ivars == <<vars, sigVars>>

\* A worker process that still runs request_worker.
Alive(w) == pc[w] \in {"idle", "fetch", "record", "sleep"}

\* The coordinator is still inside fetch_utxo_dict_list.
CoordAlive == cpc \in {"empty", "join", "read", "stop"}

IInit ==
    /\ Init
    /\ pending = {}
    /\ signals = 0

\* The environment: one SIGINT reaches the processes of S that still run.
Deliver(S) ==
    /\ signals < MaxSignals
    /\ CoordAlive
    /\ pending' = pending \cup {p \in S : p = Coordinator \/ Alive(p)}
    /\ signals' = signals + 1
    /\ UNCHANGED vars

-----------------------------------------------------------------------------
(* Worker w raises KeyboardInterrupt while blocked in queue.get(), or     *)
(* just after it, before the try: the Manager has already dequeued the     *)
(* head, which no task_done will ever mark done.  The wrapper swallows     *)
(* the exception and the process ends.                                     *)
GetInterrupted(w) ==
    /\ w \in pending
    /\ pc[w] = "idle"
    /\ queue # <<>>
    /\ queue' = Tail(queue)
    /\ pc' = [pc EXCEPT ![w] = "exited"]
    /\ pending' = pending \ {w}
    /\ UNCHANGED <<unfinished, item, timeout, results, errors, coordVars, signals>>

(* Mutant of WorkerInterrupted: the wrapper sits inside the loop, so an    *)
(* interrupted worker goes back to queue.get() instead of ending.          *)
WorkerInterruptedInLoop(w) ==
    /\ w \in pending
    /\ Alive(w)
    /\ unfinished' = IF pc[w] = "idle" THEN unfinished ELSE unfinished - 1
    /\ pc' = [pc EXCEPT ![w] = "idle"]
    /\ item' = [item EXCEPT ![w] = NoItem]
    /\ pending' = pending \ {w}
    /\ UNCHANGED <<queue, timeout, results, errors, coordVars, signals>>

(* Mutant of WorkerInterrupted: queue.get() sits inside the try, so the   *)
(* finally clause marks a task done although none was taken.               *)
WorkerInterruptedGetInTry(w) ==
    /\ w \in pending
    /\ Alive(w)
    /\ unfinished' = unfinished - 1
    /\ pc' = [pc EXCEPT ![w] = "exited"]
    /\ item' = [item EXCEPT ![w] = NoItem]
    /\ pending' = pending \ {w}
    /\ UNCHANGED <<queue, timeout, results, errors, coordVars, signals>>

(* Mutant of WorkerInterrupted: the handler catches BaseException, so an *)
(* interrupt during the fetch puts the item back although the Manager may *)
(* already have appended its result, and the worker carries on.           *)
WorkerInterruptedCaught(w) ==
    /\ w \in pending
    /\ Alive(w)
    /\ IF pc[w] = "fetch"
          THEN /\ results' \in {results, Append(results, item[w])}
               /\ queue' = Append(queue, item[w])
               /\ unfinished' = unfinished + 1
               /\ pc' = [pc EXCEPT ![w] = "record"]
          ELSE UNCHANGED <<results, queue, unfinished, pc>>
    /\ pending' = pending \ {w}
    /\ UNCHANGED <<item, timeout, errors, coordVars, signals>>

(* Worker w raises KeyboardInterrupt where it is.  Blocked in queue.get() *)
(* nothing was taken.  Inside the try the exception is no Exception, so    *)
(* the handler is skipped, the item is not put back, and finally calls     *)
(* queue.task_done(); a result or error append that the interrupt cut off  *)
(* may already have been done by the Manager.  The process then ends.      *)
WorkerInterrupted(w) ==
    /\ w \in pending
    /\ Alive(w)
    /\ unfinished' = IF pc[w] = "idle" THEN unfinished ELSE unfinished - 1
    /\ \/ pc[w] \in {"idle", "sleep"} /\ UNCHANGED <<results, errors>>
       \/ pc[w] = "fetch" /\ UNCHANGED errors
          /\ results' \in {results, Append(results, item[w])}
       \/ pc[w] = "record" /\ UNCHANGED results
          /\ errors' \in {errors, errors + 1}
    /\ pc' = [pc EXCEPT ![w] = "exited"]
    /\ item' = [item EXCEPT ![w] = NoItem]
    /\ pending' = pending \ {w}
    /\ UNCHANGED <<queue, timeout, coordVars, signals>>

(* Mutant of CoordInterrupted: the coordinator swallows the interrupt as  *)
(* the workers do and carries on where it was.                             *)
CoordInterruptedIgnored ==
    /\ Coordinator \in pending
    /\ CoordAlive
    /\ pending' = pending \ {Coordinator}
    /\ UNCHANGED <<vars, signals>>

(* The coordinator raises KeyboardInterrupt where it is (in queue.empty(), *)
(* queue.join(), the reads of the lists, the sleep or the terminate loop): *)
(* no handler catches it, so fetch_utxo_dict_list returns nothing.         *)
CoordInterrupted ==
    /\ Coordinator \in pending
    /\ CoordAlive
    /\ cpc' = "aborted"
    /\ pending' = pending \ {Coordinator}
    /\ UNCHANGED <<queue, unfinished, results, errors, workerVars, qEmpty,
                   resultCount, errorCount, barN, signals>>

-----------------------------------------------------------------------------
\* An ordinary step of a worker or of the coordinator that has no signal
\* to raise.
WorkerRuns(w) == w \notin pending /\ WorkerStep(w) /\ UNCHANGED sigVars
CoordinatorRuns == Coordinator \notin pending /\ CoordinatorStep /\ UNCHANGED sigVars

INext ==
    \/ \E w \in Workers : WorkerRuns(w) \/ GetInterrupted(w) \/ WorkerInterrupted(w)
    \/ CoordinatorRuns
    \/ CoordInterrupted
    \/ \E S \in SignalTargets : Deliver(S)

(* The processes keep running as in FetchPipeline; a process with a       *)
(* pending signal raises (Python runs the signal handler at its next       *)
(* step).  Nothing forces a signal to be sent.                             *)
IFairness ==
    /\ \A w \in Workers :
          /\ WF_ivars(WorkerRuns(w) \/ WorkerInterrupted(w))
          /\ SF_ivars(w \notin pending /\ FetchOk(w) /\ UNCHANGED sigVars)
    /\ WF_ivars(CoordinatorRuns \/ CoordInterrupted)

ISpec == IInit /\ [][INext]_ivars /\ IFairness

-----------------------------------------------------------------------------
ITypeOK ==
    /\ queue \in Seq(Slots)
    /\ unfinished \in Nat
    /\ pc \in [Workers -> WorkerStates \cup {"exited"}]
    /\ item \in [Workers -> Slots \cup {NoItem}]
    /\ results \in Seq(Slots)
    /\ cpc \in CoordStates \cup {"aborted"}
    /\ pending \subseteq Workers \cup {Coordinator}
    /\ signals \in 0..MaxSignals

(* Spec 5, cancellation: an interrupt abandons the run, it never yields a *)
(* partial result.  Whatever the point at which Ctrl-C reaches the        *)
(* workers and the coordinator, and whatever the workers' finally clauses *)
(* do to the queue's task count, fetch_utxo_dict_list returns only with   *)
(* every input occurrence fetched.                                         *)
NoPartialReturn == cpc = "done" => Slots \subseteq Range(results)

(* The call ends and leaves no process behind: fetch_utxo_dict_list       *)
(* returns or raises, and every worker process has ended, either through  *)
(* the interrupt wrapper or by terminate().                               *)
RunEnds == <>[](cpc \in {"done", "aborted"} /\ \A w \in Workers : ~Alive(w))

\* The inductive invariant behind ITypeOK: a fetching worker holds an input
\* occurrence, and the Manager's unfinished count covers the queued items and
\* the workers between get and task_done (it exceeds them by the items an
\* interrupted get lost).
TInv ==
    /\ ITypeOK
    /\ \A w \in Workers : pc[w] = "fetch" => item[w] \in Slots
    /\ unfinished >= Len(queue) + Cardinality(Busy)

(* Spec 4.5 and 5 together: under Ctrl-C the pipeline still keeps the     *)
(* contract's safety part.  Whatever the interrupted workers' finally     *)
(* clauses and the Manager's half-done appends do, the result list only  *)
(* grows, by input occurrences it does not yet hold, and the call returns *)
(* only with all of them (an interrupted call never returns).            *)
InterruptedRunKeepsContract == Contract!SafeSpec

\* What survives of Placement under interrupts (an interrupted get loses
\* its occurrence): no occurrence is in two places among the queue, the
\* fetching workers' hands and the result list.
KeptApart ==
    /\ IsInjective(queue)
    /\ NoDuplicateFetch
    /\ Range(queue) \cap Range(results) = {}
    /\ \A w \in Fetching : item[w] \notin Range(queue) \cup Range(results)
    /\ \A v, w \in Fetching : item[v] = item[w] => v = w

-----------------------------------------------------------------------------
(***************************************************************************)
(* Why a Ctrl-C cannot produce a partial return.                           *)
(***************************************************************************)

\* Every SIGINT that reaches a worker also reaches the coordinator, as the
\* terminal's Ctrl-C does for its foreground process group.
GroupSignals == \A S \in SignalTargets : S \cap Workers # {} => Coordinator \in S

\* The coordinator has neither received the interrupt nor raised it.
CoordUndisturbed == Coordinator \notin pending /\ cpc # "aborted"

\* The inductive invariant: a pending interrupt keeps the coordinator
\* inside its loop until it raises; as long as the coordinator is
\* undisturbed no worker has been signalled (every signal that reaches a
\* worker reaches the coordinator too), so the run is one of FetchPipeline
\* and its inductive invariant holds.
SignalInv ==
    /\ Coordinator \in pending => CoordAlive
    /\ CoordUndisturbed => IInv /\ pending = {}

=============================================================================
