--------------------- MODULE InterruptiblePipelineProofs ---------------------
(***************************************************************************)
(* Proof that a Ctrl-C never makes fetch_utxo_dict_list return a partial  *)
(* result list, for every worker pool, input list and signal pattern in    *)
(* which a signal that reaches a worker reaches the coordinator too.  The  *)
(* argument rests on FetchPipeline's inductive invariant IInv.  Also:      *)
(* type correctness, and that the interrupted run keeps the safety part   *)
(* of PipelineContract.                                                    *)
(***************************************************************************)
EXTENDS InterruptiblePipeline, FetchPipelineProofs

\* A step of a worker leaves the coordinator where it is.
LEMMA WorkerStepKeepsCoordinator ==
    ASSUME NEW w \in Workers, WorkerStep(w)
    PROVE  cpc' = cpc
BY DEF WorkerStep, Get, FetchOk, FetchFail, RecordError, TaskDone, coordVars

\* The coordinator takes an ordinary step only from inside its loop.
LEMMA CoordinatorStepAlive ==
    ASSUME CoordinatorStep
    PROVE  CoordAlive
BY DEF CoordinatorStep, CheckEmpty, Join, ReadCounts, Stop, CoordAlive

LEMMA InitSignalInv == IInit => SignalInv
BY InitIInv DEF IInit, SignalInv, CoordUndisturbed

(* While the coordinator is undisturbed, every step is a step of          *)
(* FetchPipeline or a signal that reaches the coordinator.                 *)
LEMMA UndisturbedStep ==
    ASSUME GroupSignals, SignalInv, CoordUndisturbed, [INext]_ivars
    PROVE  SignalInv'
<1> USE InterruptAssumption
<1>1. IInv /\ pending = {}
  BY DEF SignalInv
<1>2. CASE \E w \in Workers : WorkerRuns(w)
  <2>1. PICK w \in Workers : WorkerRuns(w)
    BY <1>2
  <2>2. IInv' /\ pending' = {}
    BY <1>1, <2>1, NextIInv DEF WorkerRuns, Next, sigVars
  <2>3. QED
    BY <2>2 DEF SignalInv, CoordUndisturbed
<1>3. CASE \E w \in Workers : GetInterrupted(w) \/ WorkerInterrupted(w)
  BY <1>1, <1>3 DEF GetInterrupted, WorkerInterrupted
<1>4. CASE CoordinatorRuns
  <2>1. IInv' /\ pending' = {}
    BY <1>1, <1>4, NextIInv DEF CoordinatorRuns, Next, sigVars
  <2>2. QED
    BY <2>1 DEF SignalInv, CoordUndisturbed
<1>5. CASE CoordInterrupted
  BY <1>1, <1>5 DEF CoordInterrupted
<1>6. CASE \E S \in SignalTargets : Deliver(S)
  <2>1. PICK S \in SignalTargets : Deliver(S)
    BY <1>6
  <2>2. CASE Coordinator \in S
    <3>1. Coordinator \in pending' /\ cpc' = cpc /\ CoordAlive
      BY <2>1, <2>2 DEF Deliver, vars, coordVars
    <3>2. QED
      BY <3>1 DEF SignalInv, CoordUndisturbed, CoordAlive
  <2>3. CASE Coordinator \notin S
    <3>1. S \cap Workers = {}
      BY <2>2, <2>3 DEF GroupSignals
    <3>2. \A p \in S : p = Coordinator \/ p \in Workers
      OBVIOUS
    <3>3. pending' = {}
      BY <1>1, <2>1, <2>3, <3>1, <3>2 DEF Deliver
    <3>4. IInv'
      BY <1>1, <2>1, NextIInv DEF Deliver
    <3>5. QED
      BY <3>3, <3>4 DEF SignalInv
  <2>4. QED
    BY <2>2, <2>3
<1>7. CASE UNCHANGED ivars
  <2>1. IInv' /\ pending' = {}
    BY <1>1, <1>7, NextIInv DEF ivars, sigVars
  <2>2. QED
    BY <2>1 DEF SignalInv, CoordUndisturbed
<1>8. QED
  BY <1>2, <1>3, <1>4, <1>5, <1>6, <1>7 DEF INext

(* Once the coordinator has received the interrupt it stays disturbed:    *)
(* it either still has it pending, inside its loop, or has raised.         *)
LEMMA DisturbedStep ==
    ASSUME SignalInv, ~CoordUndisturbed, [INext]_ivars
    PROVE  SignalInv'
<1> USE InterruptAssumption
<1> SUFFICES /\ Coordinator \in pending' => CoordAlive'
             /\ ~CoordUndisturbed'
  BY DEF SignalInv
<1>1. Coordinator \in pending \/ cpc = "aborted"
  BY DEF CoordUndisturbed
<1>2. CASE \E w \in Workers : WorkerRuns(w)
  <2>1. PICK w \in Workers : WorkerRuns(w)
    BY <1>2
  <2>2. cpc' = cpc /\ pending' = pending
    BY <2>1, WorkerStepKeepsCoordinator DEF WorkerRuns, sigVars
  <2>3. QED
    BY <1>1, <2>2 DEF SignalInv, CoordUndisturbed, CoordAlive
<1>3. CASE \E w \in Workers : GetInterrupted(w) \/ WorkerInterrupted(w)
  <2>1. PICK w \in Workers : GetInterrupted(w) \/ WorkerInterrupted(w)
    BY <1>3
  <2>2. cpc' = cpc /\ pending' = pending \ {w} /\ w # Coordinator
    BY <2>1 DEF GetInterrupted, WorkerInterrupted, coordVars
  <2>3. QED
    BY <1>1, <2>2 DEF SignalInv, CoordUndisturbed, CoordAlive
<1>4. CASE CoordinatorRuns
  <2>1. Coordinator \notin pending /\ CoordAlive
    BY <1>4, CoordinatorStepAlive DEF CoordinatorRuns
  <2>2. QED
    BY <1>1, <2>1 DEF CoordAlive
<1>5. CASE CoordInterrupted
  BY <1>5 DEF CoordInterrupted, CoordUndisturbed
<1>6. CASE \E S \in SignalTargets : Deliver(S)
  <2>1. PICK S \in SignalTargets : Deliver(S)
    BY <1>6
  <2>2. cpc' = cpc /\ pending \subseteq pending' /\ CoordAlive
    BY <2>1 DEF Deliver, vars, coordVars
  <2>3. QED
    BY <1>1, <2>2 DEF CoordUndisturbed, CoordAlive
<1>7. CASE UNCHANGED ivars
  BY <1>1, <1>7 DEF SignalInv, CoordUndisturbed, CoordAlive, ivars, vars,
     sigVars, coordVars
<1>8. QED
  BY <1>2, <1>3, <1>4, <1>5, <1>6, <1>7 DEF INext

LEMMA NextSignalInv ==
    ASSUME GroupSignals, SignalInv, [INext]_ivars
    PROVE  SignalInv'
BY UndisturbedStep, DisturbedStep

(* Spec 5, cancellation: when every SIGINT that reaches a worker also     *)
(* reaches the coordinator (the terminal's Ctrl-C), an interrupt at any    *)
(* point abandons fetch_utxo_dict_list and never makes it return a list    *)
(* that misses an input occurrence, even though an interrupted worker      *)
(* drops its item and still calls task_done in its finally clause.         *)
THEOREM NoPartialReturnHolds ==
    ASSUME GroupSignals
    PROVE  ISpec => []NoPartialReturn
<1>1. SignalInv => NoPartialReturn
  <2> SUFFICES ASSUME SignalInv, cpc = "done" PROVE Slots \subseteq Range(results)
    BY DEF NoPartialReturn
  <2>1. CoordUndisturbed
    BY DEF SignalInv, CoordUndisturbed, CoordAlive
  <2>2. IInv
    BY <2>1 DEF SignalInv
  <2>3. QED
    BY <2>2, IInvAllFetched DEF AllFetchedOnReturn
<1>2. QED
  BY InitSignalInv, NextSignalInv, <1>1, PTL DEF ISpec

-----------------------------------------------------------------------------
(***************************************************************************)
(* Type correctness under interrupts: task_done is never called more      *)
(* often than items were taken, whatever processes the signals reach.      *)
(***************************************************************************)

\* The busy workers are finitely many, and one more or one fewer changes
\* their number by one.
LEMMA BusyCard ==
    IsFiniteSet(Busy) /\ Cardinality(Busy) \in Nat
BY ConstantsAssumption, FS_Subset, FS_CardinalityType DEF Busy

LEMMA BusyGrow ==
    ASSUME NEW w \in Workers, w \notin Busy
    PROVE  Cardinality(Busy \cup {w}) = Cardinality(Busy) + 1
BY BusyCard, FS_AddElement

LEMMA BusyShrink ==
    ASSUME NEW w \in Busy
    PROVE  Cardinality(Busy \ {w}) = Cardinality(Busy) - 1
BY BusyCard, FS_RemoveElement

\* What TInv says of the state, in the form the step lemmas use.
LEMMA TInvFacts ==
    ASSUME TInv
    PROVE  /\ pc \in [Workers -> WorkerStates \cup {"exited"}]
           /\ queue \in Seq(Slots)
           /\ Cardinality(Busy) \in Nat
           /\ unfinished \in Nat
           /\ unfinished >= Len(queue) + Cardinality(Busy)
BY BusyCard DEF TInv, ITypeOK

(* Each step keeps TInv.  The ordinary steps of a worker:                 *)
LEMMA GetTInv ==
    ASSUME TInv, NEW w \in Workers, Get(w), UNCHANGED sigVars
    PROVE  TInv'
<1>1. queue \in Seq(Slots) /\ queue # <<>> /\ pc \in [Workers -> WorkerStates \cup {"exited"}]
  BY TInvFacts DEF Get
<1>2. Head(queue) \in Slots /\ Tail(queue) \in Seq(Slots)
      /\ Len(Tail(queue)) = Len(queue) - 1
  BY <1>1
<1>3. Busy' = Busy \cup {w} /\ w \notin Busy
  BY <1>1 DEF Get, Busy
<1>4. Cardinality(Busy') = Cardinality(Busy) + 1
  BY <1>3, BusyGrow
<1>5. unfinished' = unfinished /\ Len(queue') = Len(queue) - 1
  BY <1>2 DEF Get
<1>6. unfinished' >= Len(queue') + Cardinality(Busy') /\ unfinished' \in Nat
  BY <1>4, <1>5, TInvFacts
<1>7. item' \in [Workers -> Slots \cup {NoItem}]
      /\ \A v \in Workers : pc'[v] = "fetch" => item'[v] \in Slots
  BY <1>2 DEF Get, TInv, ITypeOK
<1>8. QED
  BY <1>1, <1>2, <1>6, <1>7 DEF Get, TInv, ITypeOK, sigVars, coordVars, WorkerStates

\* A worker that moves between two busy places leaves the busy set alone.
LEMMA BusyMove ==
    ASSUME TInv, NEW w \in Workers, pc[w] \in {"fetch", "record", "sleep"},
           NEW s \in {"fetch", "record", "sleep"}, pc' = [pc EXCEPT ![w] = s]
    PROVE  Busy' = Busy /\ pc' \in [Workers -> WorkerStates \cup {"exited"}]
<1>1. pc \in [Workers -> WorkerStates \cup {"exited"}]
  BY TInvFacts
<1>2. pc' \in [Workers -> WorkerStates \cup {"exited"}]
  BY <1>1 DEF WorkerStates
<1>3. \A v \in Workers : (pc'[v] \in {"fetch", "record", "sleep"}) = (pc[v] \in {"fetch", "record", "sleep"})
  BY <1>1
<1>4. QED
  BY <1>2, <1>3 DEF Busy

LEMMA FetchOkTInv ==
    ASSUME TInv, NEW w \in Workers, FetchOk(w), UNCHANGED sigVars
    PROVE  TInv'
<1>1. item[w] \in Slots /\ results \in Seq(Slots)
  BY DEF FetchOk, TInv, ITypeOK
<1>2. Busy' = Busy /\ pc' \in [Workers -> WorkerStates \cup {"exited"}]
  BY BusyMove DEF FetchOk
<1>3. QED
  BY <1>1, <1>2 DEF FetchOk, TInv, ITypeOK, sigVars, coordVars

LEMMA FetchFailTInv ==
    ASSUME TInv, NEW w \in Workers, FetchFail(w), UNCHANGED sigVars
    PROVE  TInv'
<1>1. item[w] \in Slots /\ queue \in Seq(Slots)
  BY DEF FetchFail, TInv, ITypeOK
<1>2. queue' \in Seq(Slots) /\ Len(queue') = Len(queue) + 1
  BY <1>1 DEF FetchFail
<1>3. Busy' = Busy /\ pc' \in [Workers -> WorkerStates \cup {"exited"}]
  BY BusyMove DEF FetchFail
<1>4. unfinished' = unfinished + 1
  BY DEF FetchFail
<1>5. unfinished' >= Len(queue') + Cardinality(Busy') /\ unfinished' \in Nat
  BY <1>2, <1>3, <1>4, TInvFacts
<1>6. QED
  BY <1>2, <1>3, <1>5 DEF FetchFail, TInv, ITypeOK, sigVars, coordVars

LEMMA RecordErrorTInv ==
    ASSUME TInv, NEW w \in Workers, RecordError(w), UNCHANGED sigVars
    PROVE  TInv'
<1>1. Busy' = Busy /\ pc' \in [Workers -> WorkerStates \cup {"exited"}]
  BY BusyMove DEF RecordError
<1>2. QED
  BY <1>1 DEF RecordError, TInv, ITypeOK, sigVars, coordVars

LEMMA TaskDoneTInv ==
    ASSUME TInv, NEW w \in Workers, TaskDone(w), UNCHANGED sigVars
    PROVE  TInv'
<1>1. pc \in [Workers -> WorkerStates \cup {"exited"}]
  BY TInvFacts
<1>2. Busy' = Busy \ {w} /\ w \in Busy
  BY <1>1 DEF TaskDone, Busy
<1>3. Cardinality(Busy') = Cardinality(Busy) - 1
  BY <1>2, BusyShrink
<1>4. unfinished' = unfinished - 1 /\ queue' = queue /\ Cardinality(Busy) \in Nat
      /\ Cardinality(Busy) > 0
  BY <1>2, BusyCard, FS_EmptySet DEF TaskDone
<1>5. unfinished' >= Len(queue') + Cardinality(Busy') /\ unfinished' \in Nat
  BY <1>3, <1>4, TInvFacts
<1>6. QED
  BY <1>1, <1>5 DEF TaskDone, TInv, ITypeOK, sigVars, coordVars, NoItem, WorkerStates

LEMMA InitTInv == IInit => TInv
<1> SUFFICES ASSUME IInit PROVE TInv
  OBVIOUS
<1>1. Busy = {}
  BY DEF IInit, Init, Busy
<1>2. QED
  BY <1>1, FS_EmptySet, ConstantsAssumption, InterruptAssumption
  DEF IInit, Init, TInv, ITypeOK, Slots, N, NoItem, WorkerStates, CoordStates

(* The steps of the coordinator: the first three change neither the       *)
(* workers nor the queue; Stop marks every worker dead, so none is busy.   *)
LEMMA CoordTInv ==
    ASSUME TInv, CoordinatorStep, UNCHANGED sigVars
    PROVE  TInv'
<1>1. CASE CheckEmpty \/ Join \/ ReadCounts
  <2>1. UNCHANGED <<queue, unfinished, results, pc, item>> /\ cpc' \in CoordStates
    BY <1>1 DEF CheckEmpty, Join, ReadCounts, workerVars, CoordStates
  <2>2. Busy' = Busy
    BY <2>1 DEF Busy
  <2>3. QED
    BY <2>1, <2>2 DEF TInv, ITypeOK, sigVars, CoordStates
<1>2. CASE Stop
  <2>1. Busy' = {}
    BY <1>2 DEF Stop, Busy
  <2>2. Cardinality(Busy') = 0
    BY <2>1, FS_EmptySet
  <2>3. unfinished' >= Len(queue') + Cardinality(Busy') /\ unfinished' \in Nat
    BY <1>2, <2>2, TInvFacts DEF Stop
  <2>4. pc' \in [Workers -> WorkerStates \cup {"exited"}]
    BY <1>2 DEF Stop, WorkerStates
  <2>5. QED
    BY <1>2, <2>3, <2>4 DEF Stop, TInv, ITypeOK, sigVars, CoordStates
<1>3. QED
  BY <1>1, <1>2 DEF CoordinatorStep

(* The interrupts.  An interrupted get loses the dequeued item: the queue  *)
(* shrinks and the count stays, so the count only gains slack.            *)
LEMMA GetInterruptedTInv ==
    ASSUME TInv, NEW w \in Workers, GetInterrupted(w)
    PROVE  TInv'
<1>1. queue \in Seq(Slots) /\ queue # <<>> /\ pc \in [Workers -> WorkerStates \cup {"exited"}]
  BY TInvFacts DEF GetInterrupted
<1>2. queue' \in Seq(Slots) /\ Len(queue') = Len(queue) - 1 /\ unfinished' = unfinished
  BY <1>1 DEF GetInterrupted
<1>3. Busy' = Busy /\ pc' \in [Workers -> WorkerStates \cup {"exited"}]
  BY <1>1 DEF GetInterrupted, Busy
<1>4. unfinished' >= Len(queue') + Cardinality(Busy') /\ unfinished' \in Nat
  BY <1>2, <1>3, TInvFacts
<1>5. QED
  BY <1>2, <1>3, <1>4 DEF GetInterrupted, TInv, ITypeOK, coordVars

(* A worker interrupted in the try runs finally, whose task_done matches  *)
(* the get that made it busy; one interrupted in get() took nothing.       *)
LEMMA WorkerInterruptedTInv ==
    ASSUME TInv, NEW w \in Workers, WorkerInterrupted(w)
    PROVE  TInv'
<1>1. pc \in [Workers -> WorkerStates \cup {"exited"}] /\ pc[w] \in {"idle", "fetch", "record", "sleep"}
  BY TInvFacts DEF WorkerInterrupted, Alive
<1>2. pc' \in [Workers -> WorkerStates \cup {"exited"}]
      /\ item' \in [Workers -> Slots \cup {NoItem}]
      /\ \A v \in Workers : pc'[v] = "fetch" => item'[v] \in Slots
  BY <1>1 DEF WorkerInterrupted, TInv, ITypeOK
<1>3. results' \in Seq(Slots)
  <2>1. CASE pc[w] = "fetch"
    BY <2>1 DEF WorkerInterrupted, TInv, ITypeOK
  <2>2. CASE pc[w] # "fetch"
    BY <2>2 DEF WorkerInterrupted, TInv, ITypeOK
  <2>3. QED
    BY <2>1, <2>2
<1>4. unfinished' >= Len(queue') + Cardinality(Busy') /\ unfinished' \in Nat
  <2>1. queue' = queue
    BY DEF WorkerInterrupted
  <2>2. CASE pc[w] = "idle"
    <3>1. Busy' = Busy /\ unfinished' = unfinished
      BY <1>1, <2>2 DEF WorkerInterrupted, Busy
    <3>2. QED
      BY <2>1, <3>1, TInvFacts
  <2>3. CASE pc[w] # "idle"
    <3>1. Busy' = Busy \ {w} /\ w \in Busy /\ unfinished' = unfinished - 1
      BY <1>1, <2>3 DEF WorkerInterrupted, Busy
    <3>2. Cardinality(Busy') = Cardinality(Busy) - 1
      BY <3>1, BusyShrink
    <3>3. Cardinality(Busy) > 0
      BY <3>1, BusyCard, FS_EmptySet
    <3>4. QED
      BY <2>1, <3>1, <3>2, <3>3, TInvFacts
  <2>4. QED
    BY <2>2, <2>3
<1>5. QED
  BY <1>2, <1>3, <1>4 DEF WorkerInterrupted, TInv, ITypeOK, coordVars

LEMMA CoordInterruptedTInv ==
    ASSUME TInv, CoordInterrupted
    PROVE  TInv'
<1>1. Busy' = Busy
  BY DEF CoordInterrupted, workerVars, Busy
<1>2. QED
  BY <1>1 DEF CoordInterrupted, workerVars, TInv, ITypeOK

\* A SIGINT changes only the pending set and the signal count.
LEMMA DeliverTInv ==
    ASSUME TInv, NEW S \in SignalTargets, Deliver(S)
    PROVE  TInv'
<1>1. Busy' = Busy
  BY DEF Deliver, vars, workerVars, Busy
<1>2. pending' \subseteq Workers \cup {Coordinator} /\ signals' \in 0..MaxSignals
  BY InterruptAssumption DEF Deliver, TInv, ITypeOK
<1>3. QED
  BY <1>1, <1>2 DEF Deliver, vars, workerVars, coordVars, TInv, ITypeOK

LEMMA NextTInv == TInv /\ [INext]_ivars => TInv'
<1> SUFFICES ASSUME TInv, [INext]_ivars PROVE TInv'
  OBVIOUS
<1>1. ASSUME NEW w \in Workers, WorkerRuns(w) PROVE TInv'
  BY <1>1, GetTInv, FetchOkTInv, FetchFailTInv, RecordErrorTInv, TaskDoneTInv
  DEF WorkerRuns, WorkerStep
<1>2. CASE \E w \in Workers : WorkerRuns(w) \/ GetInterrupted(w) \/ WorkerInterrupted(w)
  BY <1>1, <1>2, GetInterruptedTInv, WorkerInterruptedTInv
<1>3. CASE CoordinatorRuns
  BY <1>3, CoordTInv DEF CoordinatorRuns
<1>4. CASE CoordInterrupted
  BY <1>4, CoordInterruptedTInv
<1>5. CASE \E S \in SignalTargets : Deliver(S)
  BY <1>5, DeliverTInv
<1>6. CASE UNCHANGED ivars
  <2>1. Busy' = Busy
    BY <1>6 DEF ivars, vars, workerVars, Busy
  <2>2. QED
    BY <1>6, <2>1 DEF ivars, vars, sigVars, workerVars, coordVars, TInv, ITypeOK
<1>7. QED
  BY <1>2, <1>3, <1>4, <1>5, <1>6 DEF INext

(* Type correctness under any pattern of interrupts.  The finally clause  *)
(* of request_worker never calls task_done more often than get handed out *)
(* items, whichever get, fetch, handler or sleep a SIGINT cuts short, so   *)
(* the Manager's unfinished count never goes below zero (queue.task_done   *)
(* would raise ValueError) and every variable keeps its type.              *)
THEOREM ITypeCorrect == ISpec => []ITypeOK
<1>1. TInv => ITypeOK
  BY DEF TInv
<1>2. QED
  BY InitTInv, NextTInv, <1>1, PTL DEF ISpec


-----------------------------------------------------------------------------
(***************************************************************************)
(* The contract under interrupts.  An interrupted get loses its item, so   *)
(* Placement's "every occurrence is somewhere" no longer holds, but its    *)
(* "no occurrence is in two places", KeptApart, does.                      *)
(***************************************************************************)

\* A step that leaves the queue and the results alone and starts no fetch.
LEMMA KAFrame ==
    ASSUME KeptApart, queue' = queue, results' = results,
           \A v \in Workers : pc'[v] = "fetch" => pc[v] = "fetch" /\ item'[v] = item[v]
    PROVE  KeptApart'
BY DEF KeptApart, NoDuplicateFetch, Fetching

\* An interrupted get: the queue loses its head.
LEMMA KATail ==
    ASSUME KeptApart, queue \in Seq(Slots), queue # <<>>, queue' = Tail(queue),
           results' = results,
           \A v \in Workers : pc'[v] = "fetch" => pc[v] = "fetch" /\ item'[v] = item[v]
    PROVE  KeptApart'
<1>1. IsInjective(queue)
  BY DEF KeptApart
<1>2. IsInjective(Tail(queue)) /\ Range(Tail(queue)) = Range(queue) \ {Head(queue)}
  BY <1>1, TailFacts
<1>3. QED
  BY <1>2 DEF KeptApart, NoDuplicateFetch, Fetching

\* The fetched item of worker w is appended to the results.
LEMMA KAResult ==
    ASSUME KeptApart, results \in Seq(Slots), NEW w \in Workers, pc[w] = "fetch",
           item[w] \in Slots, results' = Append(results, item[w]), queue' = queue,
           \A v \in Workers : pc'[v] = "fetch" => v # w /\ pc[v] = "fetch" /\ item'[v] = item[v]
    PROVE  KeptApart'
<1>1. item[w] \notin Range(results) /\ IsInjective(results)
  BY DEF KeptApart, NoDuplicateFetch, Fetching
<1>2. IsInjective(results') /\ Range(results') = Range(results) \cup {item[w]}
  BY <1>1, AppendFacts
<1>3. QED
  BY <1>2 DEF KeptApart, NoDuplicateFetch, Fetching

\* The item of worker w goes back on the queue.
LEMMA KARequeue ==
    ASSUME KeptApart, queue \in Seq(Slots), NEW w \in Workers, pc[w] = "fetch",
           item[w] \in Slots, queue' = Append(queue, item[w]), results' = results,
           \A v \in Workers : pc'[v] = "fetch" => v # w /\ pc[v] = "fetch" /\ item'[v] = item[v]
    PROVE  KeptApart'
<1>1. item[w] \notin Range(queue) /\ IsInjective(queue)
  BY DEF KeptApart, Fetching
<1>2. IsInjective(queue') /\ Range(queue') = Range(queue) \cup {item[w]}
  BY <1>1, AppendFacts
<1>3. QED
  BY <1>2 DEF KeptApart, NoDuplicateFetch, Fetching

\* A get hands the head of the queue to an idle worker.
LEMMA KAGet ==
    ASSUME TInv, KeptApart, NEW w \in Workers, Get(w)
    PROVE  KeptApart'
<1> DEFINE h == Head(queue)
<1>1. queue \in Seq(Slots) /\ queue # <<>> /\ pc \in [Workers -> WorkerStates \cup {"exited"}]
      /\ item \in [Workers -> Slots \cup {NoItem}]
  BY TInvFacts DEF Get, TInv, ITypeOK
<1>2. IsInjective(Tail(queue)) /\ Range(Tail(queue)) = Range(queue) \ {h}
      /\ h \in Range(queue)
  BY <1>1, TailFacts DEF KeptApart
<1>3. \A v \in Workers : pc'[v] = "fetch" => (v = w /\ item'[v] = h)
                                           \/ (v # w /\ pc[v] = "fetch" /\ item'[v] = item[v])
  BY <1>1 DEF Get
<1>4. h \notin Range(results) /\ \A v \in Fetching : item[v] # h
  BY <1>2 DEF KeptApart
<1>5. QED
  BY <1>1, <1>2, <1>3, <1>4 DEF Get, KeptApart, NoDuplicateFetch, Fetching


LEMMA InitKeptApart == IInit => KeptApart
<1> SUFFICES ASSUME IInit PROVE KeptApart
  OBVIOUS
<1>1. Fetching = {} /\ results = <<>> /\ queue = [i \in Slots |-> i]
  BY DEF IInit, Init, Fetching
<1>2. QED
  BY <1>1, RangeEmpty DEF KeptApart, NoDuplicateFetch, IsInjective

LEMMA NextKeptApart ==
    ASSUME TInv, KeptApart, [INext]_ivars
    PROVE  KeptApart'
<1>1. pc \in [Workers -> WorkerStates \cup {"exited"}] /\ queue \in Seq(Slots)
      /\ results \in Seq(Slots) /\ item \in [Workers -> Slots \cup {NoItem}]
      /\ \A v \in Workers : pc[v] = "fetch" => item[v] \in Slots
  BY TInvFacts DEF TInv, ITypeOK
<1>2. ASSUME NEW w \in Workers, WorkerRuns(w) PROVE KeptApart'
  <2>1. CASE Get(w)
    BY <2>1, KAGet
  <2>2. CASE FetchOk(w)
    BY <1>1, <2>2, KAResult DEF FetchOk
  <2>3. CASE FetchFail(w)
    BY <1>1, <2>3, KARequeue DEF FetchFail
  <2>4. CASE RecordError(w) \/ TaskDone(w)
    <3>1. pc[w] \in {"record", "sleep"} /\ pc'[w] \in {"sleep", "idle"}
      BY <1>1, <2>4 DEF RecordError, TaskDone
    <3>2. \A v \in Workers \ {w} : pc'[v] = pc[v] /\ item'[v] = item[v]
      BY <1>1, <2>4 DEF RecordError, TaskDone
    <3>3. queue' = queue /\ results' = results
      BY <2>4 DEF RecordError, TaskDone
    <3>4. QED
      BY <3>1, <3>2, <3>3, KAFrame
  <2>5. QED
    BY <1>2, <2>1, <2>2, <2>3, <2>4 DEF WorkerRuns, WorkerStep
<1>3. ASSUME NEW w \in Workers, GetInterrupted(w) PROVE KeptApart'
  BY <1>1, <1>3, KATail DEF GetInterrupted
<1>4. ASSUME NEW w \in Workers, WorkerInterrupted(w) PROVE KeptApart'
  <2>1. \A v \in Workers : pc'[v] = "fetch" => v # w /\ pc[v] = "fetch" /\ item'[v] = item[v]
    BY <1>1, <1>4 DEF WorkerInterrupted
  <2>2. queue' = queue
    BY <1>4 DEF WorkerInterrupted
  <2>3. CASE results' = results
    BY <2>1, <2>2, <2>3, KAFrame
  <2>4. CASE results' # results
    <3>1. pc[w] = "fetch" /\ results' = Append(results, item[w])
      BY <1>4, <2>4 DEF WorkerInterrupted
    <3>2. QED
      BY <1>1, <2>1, <2>2, <3>1, KAResult
  <2>5. QED
    BY <2>3, <2>4
<1>5. CASE CoordinatorRuns
  <2>1. CASE CheckEmpty \/ Join \/ ReadCounts
    BY <2>1, KAFrame DEF CheckEmpty, Join, ReadCounts, workerVars
  <2>2. CASE Stop
    BY <2>2, KAFrame DEF Stop
  <2>3. QED
    BY <1>5, <2>1, <2>2 DEF CoordinatorRuns, CoordinatorStep
<1>6. CASE CoordInterrupted \/ (\E S \in SignalTargets : Deliver(S)) \/ UNCHANGED ivars
  BY <1>6, KAFrame DEF CoordInterrupted, Deliver, ivars, vars, workerVars
<1>7. QED
  BY <1>2, <1>3, <1>4, <1>5, <1>6 DEF INext


\* While a worker is fetching, fetch_utxo_dict_list has not returned: an
\* undisturbed coordinator returns only after join (IInv's Drained), a
\* disturbed one never returns.
LEMMA NotDoneWhileFetching ==
    ASSUME SignalInv, NEW w \in Workers, pc[w] = "fetch"
    PROVE  cpc # "done"
<1>1. CASE CoordUndisturbed
  BY <1>1 DEF SignalInv, IInv, Drained
<1>2. CASE ~CoordUndisturbed
  BY <1>2 DEF SignalInv, CoordUndisturbed, CoordAlive
<1>3. QED
  BY <1>1, <1>2

\* Worker w's fetched item is appended: the contract's Complete.
LEMMA AppendIsComplete ==
    ASSUME SignalInv, TInv, KeptApart, NEW w \in Workers, pc[w] = "fetch",
           results' = Append(results, item[w]), cpc' = cpc
    PROVE  Contract!Complete(item[w])
<1>1. cpc # "done"
  BY NotDoneWhileFetching
<1>2. item[w] \in Slots /\ item[w] \notin Range(results)
  BY DEF TInv, KeptApart, Fetching
<1>3. QED
  BY <1>1, <1>2, ContractRange DEF Contract!Complete

\* Every step of the interruptible pipeline is a step of the contract or
\* leaves the result list and the return alone.
LEMMA IStepRefines ==
    ASSUME SignalInv, TInv, KeptApart, [INext]_ivars
    PROVE  [Contract!Next]_Contract!vars
<1>1. ASSUME NEW w \in Workers, WorkerRuns(w) PROVE [Contract!Next]_Contract!vars
  <2>1. CASE FetchOk(w)
    <3>1. item[w] \in Slots
      BY <2>1 DEF FetchOk, TInv
    <3>2. Contract!Complete(item[w])
      BY <2>1, AppendIsComplete DEF FetchOk, coordVars
    <3>3. QED
      BY <3>1, <3>2 DEF Contract!Next
  <2>2. CASE Get(w) \/ FetchFail(w) \/ RecordError(w) \/ TaskDone(w)
    BY <2>2 DEF Get, FetchFail, RecordError, TaskDone, coordVars, Contract!vars
  <2>3. QED
    BY <1>1, <2>1, <2>2 DEF WorkerRuns, WorkerStep
<1>2. ASSUME NEW w \in Workers, GetInterrupted(w) PROVE UNCHANGED Contract!vars
  BY <1>2 DEF GetInterrupted, coordVars, Contract!vars
<1>3. ASSUME NEW w \in Workers, WorkerInterrupted(w) PROVE [Contract!Next]_Contract!vars
  <2>1. cpc' = cpc
    BY <1>3 DEF WorkerInterrupted, coordVars
  <2>2. CASE results' = results
    BY <2>1, <2>2 DEF Contract!vars
  <2>3. CASE results' # results
    <3>1. pc[w] = "fetch" /\ results' = Append(results, item[w])
      BY <1>3, <2>3 DEF WorkerInterrupted
    <3>2. item[w] \in Slots
      BY <3>1 DEF TInv
    <3>3. Contract!Complete(item[w])
      BY <2>1, <3>1, AppendIsComplete
    <3>4. QED
      BY <3>2, <3>3 DEF Contract!Next
  <2>4. QED
    BY <2>2, <2>3
<1>4. CASE CoordinatorRuns
  <2>1. CoordUndisturbed
    BY <1>4, CoordinatorStepAlive DEF CoordinatorRuns, CoordUndisturbed, CoordAlive
  <2>2. IInv
    BY <2>1 DEF SignalInv
  <2>3. [Next]_vars
    BY <1>4 DEF CoordinatorRuns, Next
  <2>4. QED
    BY <2>2, <2>3, StepRefines
<1>5. CASE CoordInterrupted
  BY <1>5 DEF CoordInterrupted, CoordAlive, Contract!vars
<1>6. CASE (\E S \in SignalTargets : Deliver(S)) \/ UNCHANGED ivars
  BY <1>6 DEF Deliver, ivars, vars, coordVars, Contract!vars
<1>7. QED
  BY <1>1, <1>2, <1>3, <1>4, <1>5, <1>6 DEF INext

(* Spec 4.5 and 5: when every SIGINT that reaches a worker reaches the    *)
(* coordinator too (Ctrl-C at the terminal), the interrupted pipeline     *)
(* still implements the safety part of its contract: results are only    *)
(* appended, each an input occurrence not yet fetched (even when a worker *)
(* is interrupted after the Manager carried out its append), and the call *)
(* returns only with every occurrence fetched.                            *)
THEOREM InterruptedRunKeepsContractHolds ==
    ASSUME GroupSignals
    PROVE  ISpec => InterruptedRunKeepsContract
<1>1. IInit => Contract!Init
  BY DEF IInit, Init, Contract!Init
<1>2. SignalInv /\ TInv /\ KeptApart /\ [INext]_ivars
        => (SignalInv /\ TInv /\ KeptApart)'
  BY NextSignalInv, NextTInv, NextKeptApart
<1>3. IInit => SignalInv /\ TInv /\ KeptApart
  BY InitSignalInv, InitTInv, InitKeptApart
<1>4. QED
  BY <1>1, <1>2, <1>3, IStepRefines, PTL
  DEF ISpec, InterruptedRunKeepsContract, Contract!SafeSpec


(* Under every signal pattern, kill -INT of single workers included, no   *)
(* input occurrence is ever in two of the queue, a worker's hands and the *)
(* result list: an interrupted worker's finally clause never puts its     *)
(* item back, so a result the Manager appended for it cannot be fetched   *)
(* and appended a second time.                                            *)
THEOREM KeptApartHolds == ISpec => []KeptApart
<1>1. TInv /\ KeptApart /\ [INext]_ivars => (TInv /\ KeptApart)'
  BY NextTInv, NextKeptApart
<1>2. QED
  BY InitTInv, InitKeptApart, <1>1, PTL DEF ISpec

=============================================================================
