------------------------ MODULE FetchPipelineProofs ------------------------
(***************************************************************************)
(* Proofs about FetchPipeline, for every set of workers and every input   *)
(* list: the inductive invariant IInv, and from it type correctness, no   *)
(* duplicated result and completeness of the returned list.               *)
(***************************************************************************)
EXTENDS FetchPipeline, FiniteSetTheorems, TLAPS

-----------------------------------------------------------------------------
(* Lemmas on the queue and the result list as sequences.                  *)

LEMMA RangeEmpty == Range(<<>>) = {}
BY DEF Range

LEMMA AppendFacts ==
    ASSUME NEW S, NEW q \in Seq(S), NEW x \in S
    PROVE  /\ Append(q, x) \in Seq(S)
           /\ Len(Append(q, x)) = Len(q) + 1
           /\ Range(Append(q, x)) = Range(q) \cup {x}
           /\ IsInjective(q) /\ x \notin Range(q) => IsInjective(Append(q, x))
<1>1. Append(q, x) \in Seq(S) /\ Len(Append(q, x)) = Len(q) + 1
  OBVIOUS
<1>2. Range(Append(q, x)) = Range(q) \cup {x}
  <2>1. /\ DOMAIN Append(q, x) = 1..Len(q) + 1
        /\ \A i \in 1..Len(q) : Append(q, x)[i] = q[i]
        /\ Append(q, x)[Len(q) + 1] = x
        /\ DOMAIN q = 1..Len(q)
    OBVIOUS
  <2>2. Range(Append(q, x)) \subseteq Range(q) \cup {x}
    BY <2>1 DEF Range
  <2>3. Range(q) \cup {x} \subseteq Range(Append(q, x))
    BY <2>1 DEF Range
  <2>4. QED
    BY <2>2, <2>3
<1>3. IsInjective(q) /\ x \notin Range(q) => IsInjective(Append(q, x))
  BY DEF IsInjective, Range
<1>4. QED
  BY <1>1, <1>2, <1>3

LEMMA TailFacts ==
    ASSUME NEW S, NEW q \in Seq(S), q # <<>>, IsInjective(q)
    PROVE  /\ Tail(q) \in Seq(S)
           /\ Len(Tail(q)) = Len(q) - 1
           /\ Head(q) \in S
           /\ Range(Tail(q)) = Range(q) \ {Head(q)}
           /\ Head(q) \in Range(q)
           /\ IsInjective(Tail(q))
<1>1. /\ Tail(q) \in Seq(S)
      /\ Len(Tail(q)) = Len(q) - 1
      /\ Head(q) \in S
  OBVIOUS
<1>2. Head(q) \in Range(q)
  BY DEF Range
<1>3. Range(Tail(q)) = Range(q) \ {Head(q)}
  <2>1. /\ DOMAIN Tail(q) = 1..Len(q) - 1
        /\ \A i \in 1..Len(q) - 1 : Tail(q)[i] = q[i + 1]
        /\ DOMAIN q = 1..Len(q)
        /\ Head(q) = q[1]
        /\ Len(q) >= 1
    OBVIOUS
  <2>2. Range(Tail(q)) \subseteq Range(q) \ {Head(q)}
    <3>1. SUFFICES ASSUME NEW i \in 1..Len(q) - 1
                   PROVE  Tail(q)[i] \in Range(q) /\ Tail(q)[i] # Head(q)
      BY <2>1 DEF Range
    <3>2. i + 1 \in DOMAIN q /\ i + 1 # 1 /\ 1 \in DOMAIN q
      BY <2>1
    <3>3. QED
      BY <2>1, <3>2 DEF Range, IsInjective
  <2>3. Range(q) \ {Head(q)} \subseteq Range(Tail(q))
    <3>1. SUFFICES ASSUME NEW i \in 1..Len(q), q[i] # Head(q)
                   PROVE  q[i] \in Range(Tail(q))
      BY <2>1 DEF Range
    <3>2. i # 1 /\ i - 1 \in 1..Len(q) - 1
      BY <2>1, <3>1
    <3>3. Tail(q)[i - 1] = q[i]
      BY <2>1, <3>2
    <3>4. QED
      BY <2>1, <3>2, <3>3 DEF Range
  <2>4. QED
    BY <2>2, <2>3
<1>4. IsInjective(Tail(q))
  BY DEF IsInjective
<1>5. QED
  BY <1>1, <1>2, <1>3, <1>4

-----------------------------------------------------------------------------
(* The set of busy workers is finite, and changes by one worker at a time. *)

LEMMA BusyFinite ==
    ASSUME NEW p \in [Workers -> WorkerStates]
    PROVE  IsFiniteSet({w \in Workers : p[w] \in {"fetch", "record", "sleep"}})
BY ConstantsAssumption, FS_Subset


LEMMA BusyAdd ==
    ASSUME NEW p \in [Workers -> WorkerStates], NEW w \in Workers,
           p[w] \notin {"fetch", "record", "sleep"}
    PROVE  LET B == {v \in Workers : p[v] \in {"fetch", "record", "sleep"}}
           IN  Cardinality(B \cup {w}) = Cardinality(B) + 1
BY BusyFinite, FS_AddElement

LEMMA BusyRemove ==
    ASSUME NEW p \in [Workers -> WorkerStates], NEW w \in Workers,
           p[w] \in {"fetch", "record", "sleep"}
    PROVE  LET B == {v \in Workers : p[v] \in {"fetch", "record", "sleep"}}
           IN  Cardinality(B \ {w}) = Cardinality(B) - 1
BY BusyFinite, FS_RemoveElement

LEMMA FetchingFinite ==
    ASSUME NEW p \in [Workers -> WorkerStates]
    PROVE  IsFiniteSet({w \in Workers : p[w] = "fetch"})
BY ConstantsAssumption, FS_Subset

LEMMA FetchingAdd ==
    ASSUME NEW p \in [Workers -> WorkerStates], NEW w \in Workers, p[w] # "fetch"
    PROVE  LET F == {v \in Workers : p[v] = "fetch"}
           IN  /\ Cardinality(F \cup {w}) = Cardinality(F) + 1
               /\ Cardinality(F) \in Nat
BY FetchingFinite, FS_AddElement, FS_CardinalityType

LEMMA FetchingRemove ==
    ASSUME NEW p \in [Workers -> WorkerStates], NEW w \in Workers, p[w] = "fetch"
    PROVE  LET F == {v \in Workers : p[v] = "fetch"}
           IN  /\ Cardinality(F \ {w}) = Cardinality(F) - 1
               /\ Cardinality(F) \in Nat
BY FetchingFinite, FS_RemoveElement, FS_CardinalityType

-----------------------------------------------------------------------------
(* Each action preserves IInv.                                            *)

LEMMA GetPreserves ==
    ASSUME IInv, NEW w \in Workers, Get(w)
    PROVE  IInv'
<1> DEFINE h == Head(queue)
<1>1. /\ TypeOK
      /\ NoDuplicateFetch
      /\ Placement
      /\ UnfinishedCount
      /\ Drained
      /\ CountsTrail
  BY DEF IInv
<1>2. /\ queue' = Tail(queue)
      /\ item' = [item EXCEPT ![w] = h]
      /\ pc' = [pc EXCEPT ![w] = "fetch"]
      /\ pc[w] = "idle"
      /\ queue # <<>>
      /\ UNCHANGED <<unfinished, timeout, results, errors>>
      /\ UNCHANGED <<cpc, qEmpty, resultCount, errorCount, barN>>
  BY DEF Get, coordVars
<1>3. /\ queue' \in Seq(Slots)
      /\ Len(queue') = Len(queue) - 1
      /\ h \in Slots
      /\ Range(queue') = Range(queue) \ {h}
      /\ h \in Range(queue)
      /\ IsInjective(queue')
  BY <1>1, <1>2, TailFacts DEF TypeOK, Placement
<1>4. Fetching' = Fetching \cup {w}
  BY <1>1, <1>2 DEF Fetching, TypeOK
<1>5. Busy' = Busy \cup {w} /\ w \notin Busy
  BY <1>1, <1>2 DEF Busy, TypeOK
<1>6. TypeOK'
  BY <1>1, <1>2, <1>3 DEF TypeOK, WorkerStates, NoItem
<1>7. Placement'
  <2>1. \A v \in Fetching' : item'[v] = IF v = w THEN h ELSE item[v]
    BY <1>1, <1>2, <1>4 DEF TypeOK, Fetching
  <2>2. \A v \in Fetching : item[v] # h
    BY <1>1, <1>3 DEF Placement
  <2>3. h \notin Range(results)
    BY <1>1, <1>3 DEF Placement
  <2>4. {item'[v] : v \in Fetching'} = {item[v] : v \in Fetching} \cup {h}
    <3>1. w \in Fetching'
      BY <1>4
    <3>2. \A v \in Fetching : v \in Fetching' /\ v # w
      BY <1>1, <1>2, <1>4 DEF Fetching
    <3>3. QED
      BY <1>4, <2>1, <3>1, <3>2
  <2>5. IsInjective(queue')
    BY <1>3
  <2>6. \A v \in Fetching' : item'[v] \in Slots
    BY <1>1, <1>3, <1>4, <2>1 DEF Placement
  <2>7. Slots = Range(queue') \cup {item'[v] : v \in Fetching'} \cup Range(results')
    BY <1>1, <1>2, <1>3, <2>4 DEF Placement
  <2>8. Range(queue') \cap Range(results') = {}
    BY <1>1, <1>2, <1>3 DEF Placement
  <2>9. \A v \in Fetching' : item'[v] \notin Range(queue') \cup Range(results')
    BY <1>1, <1>2, <1>3, <1>4, <2>1, <2>3 DEF Placement
  <2>10. \A u, v \in Fetching' : item'[u] = item'[v] => u = v
    BY <1>1, <1>4, <2>1, <2>2 DEF Placement
  <2>11. QED
    BY <2>5, <2>6, <2>7, <2>8, <2>9, <2>10 DEF Placement
<1>8. UnfinishedCount'
  <2>1. Cardinality(Busy') = Cardinality(Busy) + 1
    BY <1>1, <1>5, BusyAdd DEF Busy, TypeOK
  <2>2. Cardinality(Busy) \in Nat
    BY <1>1, BusyFinite, FS_CardinalityType DEF Busy, TypeOK
  <2>3. QED
    BY <1>1, <1>2, <1>3, <2>1, <2>2 DEF UnfinishedCount, TypeOK
<1>9. Drained'
  BY <1>1, <1>2 DEF Drained
<1>10. (NoDuplicateFetch /\ CountsTrail)'
  BY <1>1, <1>2 DEF NoDuplicateFetch, CountsTrail
<1>11. (InFlightCount /\ FinalCounts)'
  <2>1. pc[w] # "fetch"
    BY <1>2
  <2>2. Cardinality(Fetching') = Cardinality(Fetching) + 1 /\ Cardinality(Fetching) \in Nat
    BY <1>1, <1>4, <2>1, FetchingAdd DEF Fetching, TypeOK
  <2>3. QED
    BY <1>1, <1>2, <1>3, <2>2 DEF IInv, InFlightCount, FinalCounts, TypeOK
<1>12. QED
  BY <1>6, <1>7, <1>8, <1>9, <1>10, <1>11 DEF IInv


LEMMA FetchOkPreserves ==
    ASSUME IInv, NEW w \in Workers, FetchOk(w)
    PROVE  IInv'
<1> DEFINE x == item[w]
<1>1. /\ TypeOK
      /\ NoDuplicateFetch
      /\ Placement
      /\ UnfinishedCount
      /\ Drained
      /\ CountsTrail
  BY DEF IInv
<1>2. /\ results' = Append(results, x)
      /\ timeout' = [timeout EXCEPT ![w] = MinTimeout]
      /\ pc' = [pc EXCEPT ![w] = "sleep"]
      /\ pc[w] = "fetch"
      /\ UNCHANGED <<queue, unfinished, item, errors>>
      /\ UNCHANGED <<cpc, qEmpty, resultCount, errorCount, barN>>
  BY DEF FetchOk, coordVars
<1>3. /\ w \in Fetching
      /\ x \in Slots
      /\ x \notin Range(queue) \cup Range(results)
  BY <1>1, <1>2 DEF Fetching, Placement
<1>4. /\ results' \in Seq(Slots)
      /\ Len(results') = Len(results) + 1
      /\ Range(results') = Range(results) \cup {x}
      /\ IsInjective(results')
  BY <1>1, <1>2, <1>3, AppendFacts DEF TypeOK, NoDuplicateFetch
<1>5. Fetching' = Fetching \ {w}
  BY <1>1, <1>2 DEF Fetching, TypeOK
<1>6. Busy' = Busy
  BY <1>1, <1>2 DEF Busy, TypeOK
<1>7. TypeOK'
  BY <1>1, <1>2, <1>4, ConstantsAssumption DEF TypeOK, WorkerStates
<1>8. Placement'
  <2>1. \A v \in Fetching' : item[v] # x
    BY <1>1, <1>3, <1>5 DEF Placement
  <2>2. {item'[v] : v \in Fetching'} = {item[v] : v \in Fetching} \ {x}
    BY <1>2, <1>3, <1>5, <2>1
  <2>3. Slots = Range(queue') \cup {item'[v] : v \in Fetching'} \cup Range(results')
    <3>1. x \in {item[v] : v \in Fetching}
      BY <1>3
    <3>2. QED
      BY <1>1, <1>2, <1>3, <1>4, <2>2, <3>1 DEF Placement
  <2>4. Range(queue') \cap Range(results') = {}
    BY <1>1, <1>2, <1>3, <1>4 DEF Placement
  <2>5. \A v \in Fetching' : item'[v] \notin Range(queue') \cup Range(results')
    BY <1>1, <1>2, <1>4, <1>5, <2>1 DEF Placement
  <2>6. QED
    BY <1>1, <1>2, <1>5, <2>3, <2>4, <2>5 DEF Placement
<1>9. Drained'
  BY <1>1, <1>2 DEF Drained
<1>10. (NoDuplicateFetch /\ UnfinishedCount /\ CountsTrail)'
  BY <1>1, <1>2, <1>4, <1>6 DEF NoDuplicateFetch, UnfinishedCount, CountsTrail, TypeOK
<1>11. (InFlightCount /\ FinalCounts)'
  <2>1. Cardinality(Fetching') = Cardinality(Fetching) - 1 /\ Cardinality(Fetching) \in Nat
    BY <1>1, <1>2, <1>5, FetchingRemove DEF Fetching, TypeOK
  <2>2. cpc \notin {"stop", "done"}
    BY <1>1, <1>2 DEF Drained
  <2>3. InFlightCount'
    <3>1. Len(queue) + Cardinality(Fetching) + Len(results) = N
      BY DEF IInv, InFlightCount
    <3>2. Len(queue) \in Nat /\ Len(results) \in Nat
      BY <1>1 DEF TypeOK
    <3>3. Len(queue') + Cardinality(Fetching') + Len(results') = N
      <4>1. Len(queue') = Len(queue)
        BY <1>2
      <4>2. Len(results') = Len(results) + 1
        BY <1>4
      <4>3. QED
        BY <2>1, <3>1, <3>2, <4>1, <4>2
    <3>4. QED
      BY <3>3 DEF InFlightCount
  <2>4. FinalCounts'
    BY <1>2, <2>2 DEF FinalCounts
  <2>5. QED
    BY <2>3, <2>4
<1>12. QED
  BY <1>7, <1>8, <1>9, <1>10, <1>11 DEF IInv

LEMMA FetchFailPreserves ==
    ASSUME IInv, NEW w \in Workers, FetchFail(w)
    PROVE  IInv'
<1> DEFINE x == item[w]
<1>1. /\ TypeOK
      /\ NoDuplicateFetch
      /\ Placement
      /\ UnfinishedCount
      /\ Drained
      /\ CountsTrail
  BY DEF IInv
<1>2. /\ queue' = Append(queue, x)
      /\ unfinished' = unfinished + 1
      /\ pc' = [pc EXCEPT ![w] = "record"]
      /\ pc[w] = "fetch"
      /\ UNCHANGED <<item, timeout, results, errors>>
      /\ UNCHANGED <<cpc, qEmpty, resultCount, errorCount, barN>>
  BY DEF FetchFail, coordVars
<1>3. /\ w \in Fetching
      /\ x \in Slots
      /\ x \notin Range(queue) \cup Range(results)
  BY <1>1, <1>2 DEF Fetching, Placement
<1>4. /\ queue' \in Seq(Slots)
      /\ Len(queue') = Len(queue) + 1
      /\ Range(queue') = Range(queue) \cup {x}
      /\ IsInjective(queue')
  BY <1>1, <1>2, <1>3, AppendFacts DEF TypeOK, Placement
<1>5. Fetching' = Fetching \ {w}
  BY <1>1, <1>2 DEF Fetching, TypeOK
<1>6. Busy' = Busy
  BY <1>1, <1>2 DEF Busy, TypeOK
<1>7. TypeOK'
  BY <1>1, <1>2, <1>4 DEF TypeOK, WorkerStates
<1>8. Placement'
  <2>1. \A v \in Fetching' : item[v] # x
    BY <1>1, <1>3, <1>5 DEF Placement
  <2>2. {item'[v] : v \in Fetching'} = {item[v] : v \in Fetching} \ {x}
    BY <1>2, <1>3, <1>5, <2>1
  <2>3. Slots = Range(queue') \cup {item'[v] : v \in Fetching'} \cup Range(results')
    <3>1. x \in {item[v] : v \in Fetching}
      BY <1>3
    <3>2. QED
      BY <1>1, <1>2, <1>3, <1>4, <2>2, <3>1 DEF Placement
  <2>4. Range(queue') \cap Range(results') = {}
    BY <1>1, <1>2, <1>3, <1>4 DEF Placement
  <2>5. \A v \in Fetching' : item'[v] \notin Range(queue') \cup Range(results')
    BY <1>1, <1>2, <1>4, <1>5, <2>1 DEF Placement
  <2>6. QED
    BY <1>1, <1>2, <1>4, <1>5, <2>3, <2>4, <2>5 DEF Placement
<1>9. Drained'
  BY <1>1, <1>2 DEF Drained
<1>10. UnfinishedCount'
  <2>1. Cardinality(Busy) \in Nat
    BY <1>1, BusyFinite, FS_CardinalityType DEF Busy, TypeOK
  <2>2. QED
    BY <1>1, <1>2, <1>4, <1>6, <2>1 DEF UnfinishedCount, TypeOK
<1>11. (NoDuplicateFetch /\ CountsTrail)'
  BY <1>1, <1>2 DEF NoDuplicateFetch, CountsTrail
<1>12. (InFlightCount /\ FinalCounts)'
  <2>1. Cardinality(Fetching') = Cardinality(Fetching) - 1 /\ Cardinality(Fetching) \in Nat
    BY <1>1, <1>2, <1>5, FetchingRemove DEF Fetching, TypeOK
  <2>2. QED
    BY <1>1, <1>2, <1>4, <2>1 DEF IInv, InFlightCount, FinalCounts, TypeOK
<1>13. QED
  BY <1>7, <1>8, <1>9, <1>10, <1>11, <1>12 DEF IInv

LEMMA RecordErrorPreserves ==
    ASSUME IInv, NEW w \in Workers, RecordError(w)
    PROVE  IInv'
<1>1. /\ TypeOK
      /\ NoDuplicateFetch
      /\ Placement
      /\ UnfinishedCount
      /\ Drained
      /\ CountsTrail
  BY DEF IInv
<1>2. /\ errors' = errors + 1
      /\ timeout' = [timeout EXCEPT ![w] = MinOf(MaxTimeout, 2 * timeout[w])]
      /\ pc' = [pc EXCEPT ![w] = "sleep"]
      /\ pc[w] = "record"
      /\ UNCHANGED <<queue, unfinished, item, results>>
      /\ UNCHANGED <<cpc, qEmpty, resultCount, errorCount, barN>>
  BY DEF RecordError, coordVars
<1>3. Fetching' = Fetching /\ Busy' = Busy
  BY <1>1, <1>2 DEF Fetching, Busy, TypeOK
<1>4. MinOf(MaxTimeout, 2 * timeout[w]) \in MinTimeout..MaxTimeout
  BY <1>1, ConstantsAssumption DEF TypeOK, MinOf
<1>5. TypeOK'
  BY <1>1, <1>2, <1>4 DEF TypeOK, WorkerStates
<1>6. Placement'
  BY <1>1, <1>2, <1>3 DEF Placement
<1>7. (NoDuplicateFetch /\ UnfinishedCount /\ Drained /\ CountsTrail)'
  BY <1>1, <1>2, <1>3 DEF NoDuplicateFetch, UnfinishedCount, Drained, CountsTrail
<1>8. (InFlightCount /\ FinalCounts)'
  BY <1>2, <1>3 DEF IInv, InFlightCount, FinalCounts
<1>9. QED
  BY <1>5, <1>6, <1>7, <1>8 DEF IInv

LEMMA TaskDonePreserves ==
    ASSUME IInv, NEW w \in Workers, TaskDone(w)
    PROVE  IInv'
<1>1. /\ TypeOK
      /\ NoDuplicateFetch
      /\ Placement
      /\ UnfinishedCount
      /\ Drained
      /\ CountsTrail
  BY DEF IInv
<1>2. /\ unfinished' = unfinished - 1
      /\ pc' = [pc EXCEPT ![w] = "idle"]
      /\ item' = [item EXCEPT ![w] = NoItem]
      /\ pc[w] = "sleep"
      /\ UNCHANGED <<queue, timeout, results, errors>>
      /\ UNCHANGED <<cpc, qEmpty, resultCount, errorCount, barN>>
  BY DEF TaskDone, coordVars
<1>3. Fetching' = Fetching /\ w \notin Fetching
  BY <1>1, <1>2 DEF Fetching, TypeOK
<1>4. Busy' = Busy \ {w} /\ w \in Busy
  BY <1>1, <1>2 DEF Busy, TypeOK
<1>5. Cardinality(Busy') = Cardinality(Busy) - 1 /\ Cardinality(Busy) \in Nat
  BY <1>1, <1>4, BusyRemove, BusyFinite, FS_CardinalityType DEF Busy, TypeOK
<1>6. Cardinality(Busy) >= 1
  <2>1. IsFiniteSet(Busy) /\ Busy # {}
    BY <1>1, <1>4, BusyFinite DEF Busy, TypeOK
  <2>2. Cardinality(Busy) # 0
    BY <2>1, FS_EmptySet
  <2>3. QED
    BY <1>5, <2>2
<1>7. TypeOK'
  BY <1>1, <1>2, <1>5, <1>6 DEF TypeOK, WorkerStates, UnfinishedCount
<1>8. Placement'
  <2>1. \A v \in Fetching' : item'[v] = item[v]
    BY <1>1, <1>2, <1>3 DEF TypeOK, Fetching
  <2>2. QED
    BY <1>1, <1>2, <1>3, <2>1 DEF Placement
<1>9. UnfinishedCount'
  BY <1>1, <1>2, <1>5 DEF UnfinishedCount, TypeOK
<1>10. (NoDuplicateFetch /\ Drained /\ CountsTrail)'
  BY <1>1, <1>2 DEF NoDuplicateFetch, Drained, CountsTrail
<1>11. (InFlightCount /\ FinalCounts)'
  BY <1>2, <1>3 DEF IInv, InFlightCount, FinalCounts
<1>12. QED
  BY <1>7, <1>8, <1>9, <1>10, <1>11 DEF IInv


(* The coordinator's steps leave the workers, the queue and the lists     *)
(* alone, except Stop, which finds no busy worker.                        *)
LEMMA CheckEmptyPreserves ==
    ASSUME IInv, CheckEmpty
    PROVE  IInv'
<1>1. /\ TypeOK
      /\ NoDuplicateFetch
      /\ Placement
      /\ UnfinishedCount
      /\ Drained
      /\ CountsTrail
  BY DEF IInv
<1>2. /\ cpc = "empty"
      /\ qEmpty' = (queue = <<>>)
      /\ cpc' = IF queue = <<>> THEN "join" ELSE "read"
      /\ UNCHANGED <<queue, unfinished, results, errors, pc, item, timeout>>
      /\ UNCHANGED <<resultCount, errorCount, barN>>
  BY DEF CheckEmpty, workerVars
<1>3. Fetching' = Fetching /\ Busy' = Busy
  BY <1>2 DEF Fetching, Busy
<1>4. Drained'
  BY <1>2 DEF Drained
<1>5. (InFlightCount /\ FinalCounts)'
  BY <1>2, <1>3 DEF IInv, InFlightCount, FinalCounts
<1>6. QED
  BY <1>1, <1>2, <1>3, <1>4, <1>5
     DEF IInv, TypeOK, CoordStates, NoDuplicateFetch, Placement, UnfinishedCount, CountsTrail

LEMMA JoinPreserves ==
    ASSUME IInv, Join
    PROVE  IInv'
<1>1. /\ TypeOK
      /\ NoDuplicateFetch
      /\ Placement
      /\ UnfinishedCount
      /\ Drained
      /\ CountsTrail
  BY DEF IInv
<1>2. /\ cpc = "join"
      /\ unfinished = 0
      /\ cpc' = "read"
      /\ UNCHANGED <<queue, unfinished, results, errors, pc, item, timeout>>
      /\ UNCHANGED <<qEmpty, resultCount, errorCount, barN>>
  BY DEF Join, workerVars
<1>3. Fetching' = Fetching /\ Busy' = Busy
  BY <1>2 DEF Fetching, Busy
<1>4. Len(queue) = 0 /\ Cardinality(Busy) = 0
  <2>1. Cardinality(Busy) \in Nat
    BY <1>1, BusyFinite, FS_CardinalityType DEF Busy, TypeOK
  <2>2. QED
    BY <1>1, <1>2, <2>1 DEF UnfinishedCount, TypeOK
<1>5. Busy = {}
  BY <1>1, <1>4, BusyFinite, FS_EmptySet DEF Busy, TypeOK
<1>6. queue = <<>> /\ \A w \in Workers : pc[w] \in {"idle", "dead"}
  BY <1>1, <1>4, <1>5 DEF Busy, TypeOK, WorkerStates
<1>7. Drained'
  BY <1>2, <1>6 DEF Drained
<1>8. (InFlightCount /\ FinalCounts)'
  BY <1>2, <1>3 DEF IInv, InFlightCount, FinalCounts
<1>9. QED
  BY <1>1, <1>2, <1>3, <1>7, <1>8
     DEF IInv, TypeOK, CoordStates, NoDuplicateFetch, Placement, UnfinishedCount, CountsTrail

LEMMA ReadCountsPreserves ==
    ASSUME IInv, ReadCounts
    PROVE  IInv'
<1>1. /\ TypeOK
      /\ NoDuplicateFetch
      /\ Placement
      /\ UnfinishedCount
      /\ Drained
      /\ CountsTrail
  BY DEF IInv
<1>2. /\ cpc = "read"
      /\ \/ /\ barN' = barN + (Len(results) - resultCount)
            /\ resultCount' = Len(results)
            /\ errorCount' = errors
         \/ UNCHANGED <<barN, resultCount, errorCount>>
      /\ cpc' = IF qEmpty THEN "stop" ELSE "empty"
      /\ UNCHANGED <<queue, unfinished, results, errors, pc, item, timeout, qEmpty>>
  BY DEF ReadCounts, workerVars
<1>3. Fetching' = Fetching /\ Busy' = Busy
  BY <1>2 DEF Fetching, Busy
<1>4. CountsTrail' /\ barN' \in Nat /\ resultCount' \in Nat /\ errorCount' \in Nat
  BY <1>1, <1>2 DEF CountsTrail, TypeOK
<1>5. Drained'
  BY <1>1, <1>2 DEF Drained
<1>6. (InFlightCount /\ FinalCounts)'
  <2>1. qEmpty => resultCount' = Len(results)
    BY DEF ReadCounts
  <2>2. QED
    BY <1>2, <1>3, <2>1 DEF IInv, InFlightCount, FinalCounts
<1>7. QED
  BY <1>1, <1>2, <1>3, <1>4, <1>5, <1>6
     DEF IInv, TypeOK, CoordStates, NoDuplicateFetch, Placement, UnfinishedCount

LEMMA StopPreserves ==
    ASSUME IInv, Stop
    PROVE  IInv'
<1>1. /\ TypeOK
      /\ NoDuplicateFetch
      /\ Placement
      /\ UnfinishedCount
      /\ Drained
      /\ CountsTrail
  BY DEF IInv
<1>2. /\ cpc = "stop"
      /\ pc' = [w \in Workers |-> "dead"]
      /\ cpc' = "done"
      /\ UNCHANGED <<queue, unfinished, item, timeout, results, errors>>
      /\ UNCHANGED <<qEmpty, resultCount, errorCount, barN>>
  BY DEF Stop
<1>3. queue = <<>> /\ \A w \in Workers : pc[w] \in {"idle", "dead"}
  BY <1>1, <1>2 DEF Drained
<1>4. Fetching = {} /\ Fetching' = {} /\ Busy = {} /\ Busy' = {}
  BY <1>2, <1>3 DEF Fetching, Busy
<1>5. Cardinality({}) = 0
  BY FS_EmptySet
<1>6. UnfinishedCount'
  BY <1>1, <1>2, <1>4, <1>5 DEF UnfinishedCount
<1>7. Placement'
  BY <1>1, <1>2, <1>4 DEF Placement
<1>8. (InFlightCount /\ FinalCounts)'
  BY <1>2, <1>4 DEF IInv, InFlightCount, FinalCounts
<1>9. QED
  BY <1>1, <1>2, <1>6, <1>7, <1>8
     DEF IInv, TypeOK, CoordStates, WorkerStates, NoDuplicateFetch, Drained, CountsTrail

-----------------------------------------------------------------------------
(* IInv is an inductive invariant of Spec.                                *)

LEMMA InitIInv == Init => IInv
<1> SUFFICES ASSUME Init PROVE IInv
  OBVIOUS
<1>1. N \in Nat
  BY ConstantsAssumption DEF N
<1>2. /\ queue \in Seq(Slots)
      /\ Len(queue) = N
      /\ IsInjective(queue)
      /\ Range(queue) = Slots
  BY <1>1 DEF Init, Slots, IsInjective, Range
<1>3. Fetching = {} /\ Busy = {}
  BY DEF Init, Fetching, Busy
<1>4. Cardinality({}) = 0
  BY FS_EmptySet
<1>5. TypeOK
  <2>1. unfinished \in Nat
    BY <1>1 DEF Init
  <2>2. /\ pc \in [Workers -> WorkerStates]
        /\ item \in [Workers -> Slots \cup {NoItem}]
        /\ timeout \in [Workers -> MinTimeout..MaxTimeout]
    BY ConstantsAssumption DEF Init, WorkerStates
  <2>3. results \in Seq(Slots)
    BY DEF Init
  <2>4. /\ errors \in Nat /\ resultCount \in Nat /\ errorCount \in Nat /\ barN \in Nat
        /\ cpc \in CoordStates /\ qEmpty \in BOOLEAN
    BY DEF Init, CoordStates
  <2>5. QED
    BY <1>2, <2>1, <2>2, <2>3, <2>4 DEF TypeOK
<1>6. Placement
  BY <1>2, <1>3, RangeEmpty DEF Init, Placement
<1>7. QED
  BY <1>2, <1>3, <1>4, <1>5, <1>6
     DEF Init, IInv, NoDuplicateFetch, IsInjective, UnfinishedCount, Drained, CountsTrail,
         InFlightCount, FinalCounts

LEMMA NextIInv == IInv /\ [Next]_vars => IInv'
<1> SUFFICES ASSUME IInv, [Next]_vars PROVE IInv'
  OBVIOUS
<1>1. ASSUME NEW w \in Workers, WorkerStep(w) PROVE IInv'
  BY <1>1, GetPreserves, FetchOkPreserves, FetchFailPreserves,
     RecordErrorPreserves, TaskDonePreserves DEF WorkerStep
<1>2. CASE CoordinatorStep
  BY <1>2, CheckEmptyPreserves, JoinPreserves, ReadCountsPreserves,
     StopPreserves DEF CoordinatorStep
<1>3. CASE UNCHANGED vars
  <2>1. Fetching' = Fetching /\ Busy' = Busy
    BY <1>3 DEF vars, workerVars, Fetching, Busy
  <2>2. QED
    BY <1>3, <2>1 DEF vars, workerVars, coordVars, IInv, TypeOK, NoDuplicateFetch,
       Placement, UnfinishedCount, Drained, CountsTrail, InFlightCount, FinalCounts
<1>4. QED
  BY <1>1, <1>2, <1>3 DEF Next

-----------------------------------------------------------------------------
(* The inductive invariant itself: at every point of every interleaving  *)
(* of the workers and the coordinator, each input occurrence is in exactly *)
(* one place (the Manager queue, a fetching worker, or the result list),  *)
(* and the Manager's unfinished count equals the queued items plus the    *)
(* workers between get and task_done.                                     *)
THEOREM IInvHolds == Spec => []IInv
BY InitIInv, NextIInv, PTL DEF Spec

(* Type correctness: every reachable state of the pipeline is well typed; *)
(* in particular the queue's unfinished-task count never goes negative,   *)
(* i.e. request_worker never calls task_done more often than put.         *)
THEOREM TypeCorrect == Spec => []TypeOK
<1>1. IInv => TypeOK
  BY DEF IInv
<1>2. QED
  BY InitIInv, NextIInv, <1>1, PTL DEF Spec

(* No duplication: for every number of workers and every input list, no  *)
(* input occurrence is appended twice to the result list, whatever the   *)
(* interleaving of fetches, requeues and task_done calls.                 *)
THEOREM NoDuplicateFetchHolds == Spec => []NoDuplicateFetch
<1>1. IInv => NoDuplicateFetch
  BY DEF IInv
<1>2. QED
  BY InitIInv, NextIInv, <1>1, PTL DEF Spec

(* Completeness: when fetch_utxo_dict_list returns, every input occurrence *)
(* is in the returned list.  The argument: queue.join() returns only when *)
(* the unfinished count is 0, which (UnfinishedCount) means an empty queue *)
(* and no worker between get and task_done; then (Placement) every        *)
(* occurrence is in the result list, and nothing changes until return.    *)
LEMMA IInvAllFetched == IInv => AllFetchedOnReturn
<1> SUFFICES ASSUME IInv, cpc = "done" PROVE Slots \subseteq Range(results)
  BY DEF AllFetchedOnReturn
<1>1. queue = <<>> /\ \A w \in Workers : pc[w] \in {"idle", "dead"}
  BY DEF IInv, Drained
<1>2. Fetching = {}
  BY <1>1 DEF Fetching
<1>3. QED
  BY <1>1, <1>2, RangeEmpty DEF IInv, Placement

(* Completeness (spec 4.5): fetch_utxo_dict_list returns only after every *)
(* input occurrence was fetched, for every worker pool and input list.    *)
THEOREM AllFetchedOnReturnHolds == Spec => []AllFetchedOnReturn
BY InitIInv, NextIInv, IInvAllFetched, PTL DEF Spec

(* The progress bar of fetch_utxo_dict_list never shows more transactions *)
(* than the result list holds, and when the function returns it shows    *)
(* exactly len(utxo_id_list): the returned list has one entry per input   *)
(* occurrence (spec 4.5: len(results) == len(items)).                     *)
THEOREM ProgressNeverAheadHolds == Spec => []ProgressNeverAhead
<1>1. IInv => ProgressNeverAhead
  <2> SUFFICES ASSUME IInv PROVE ProgressNeverAhead
    OBVIOUS
  <2>1. barN <= Len(results)
    BY DEF IInv, CountsTrail
  <2>2. ASSUME cpc = "done" PROVE barN = N
    <3>1. queue = <<>> /\ Fetching = {}
      BY <2>2 DEF IInv, Drained, Fetching
    <3>2. Cardinality({}) = 0
      BY FS_EmptySet
    <3>3. Len(results) = N
      BY <3>1, <3>2 DEF IInv, InFlightCount, TypeOK
    <3>4. QED
      BY <2>2, <3>3 DEF IInv, FinalCounts, CountsTrail
  <2>3. QED
    BY <2>1, <2>2 DEF ProgressNeverAhead
<1>2. QED
  BY InitIInv, NextIInv, <1>1, PTL DEF Spec

-----------------------------------------------------------------------------
(* Refinement: every step of the pipeline is a step of its contract or   *)
(* leaves the result list and the return untouched.                       *)

LEMMA ContractRange ==
    ASSUME NEW q
    PROVE  Contract!Range(q) = Range(q)
BY DEF Range, Contract!Range

LEMMA FetchOkIsComplete ==
    ASSUME IInv, NEW w \in Workers, FetchOk(w)
    PROVE  Contract!Complete(item[w])
<1>1. pc[w] = "fetch" /\ w \in Fetching
  BY DEF FetchOk, Fetching
<1>2. cpc # "done"
  BY <1>1 DEF IInv, Drained
<1>3. item[w] \in Slots /\ item[w] \notin Range(results)
  BY <1>1 DEF IInv, Placement
<1>4. results' = Append(results, item[w]) /\ cpc' = cpc
  BY DEF FetchOk, coordVars
<1>5. QED
  BY <1>2, <1>3, <1>4, ContractRange DEF Contract!Complete

LEMMA StopIsFinish ==
    ASSUME IInv, Stop
    PROVE  Contract!Finish
<1>1. queue = <<>> /\ \A w \in Workers : pc[w] \in {"idle", "dead"}
  BY DEF Stop, IInv, Drained
<1>2. {item[w] : w \in Fetching} = {}
  BY <1>1 DEF Fetching
<1>3. Slots \subseteq Range(results)
  <2>1. Slots = Range(queue) \cup {item[w] : w \in Fetching} \cup Range(results)
    BY DEF IInv, Placement
  <2>2. QED
    BY <1>1, <1>2, <2>1, RangeEmpty
<1>4. QED
  BY <1>3, ContractRange DEF Stop, Contract!Finish

LEMMA StepRefines ==
    IInv /\ [Next]_vars => [Contract!Next]_Contract!vars
<1> SUFFICES ASSUME IInv, [Next]_vars PROVE [Contract!Next]_Contract!vars
  OBVIOUS
<1>1. ASSUME NEW w \in Workers, FetchOk(w) PROVE Contract!Next
  <2>1. item[w] \in Slots
    BY <1>1 DEF FetchOk, Fetching, IInv, Placement
  <2>2. QED
    BY <1>1, <2>1, FetchOkIsComplete DEF Contract!Next
<1>2. CASE Stop
  BY <1>2, StopIsFinish DEF Contract!Next
<1>3. ASSUME NEW w \in Workers, Get(w) \/ FetchFail(w) \/ RecordError(w) \/ TaskDone(w)
      PROVE  UNCHANGED Contract!vars
  BY <1>3 DEF Get, FetchFail, RecordError, TaskDone, coordVars, Contract!vars
<1>4. CASE CheckEmpty \/ Join \/ ReadCounts
  BY <1>4 DEF CheckEmpty, Join, ReadCounts, Contract!vars
<1>5. CASE UNCHANGED vars
  BY <1>5 DEF vars, coordVars, Contract!vars
<1>6. QED
  BY <1>1, <1>2, <1>3, <1>4, <1>5 DEF Next, WorkerStep, CoordinatorStep

(* The pipeline implements the safety part of its contract for every set *)
(* of workers and every input: results are only ever appended, each one   *)
(* an input occurrence not yet fetched, and fetch_utxo_dict_list returns  *)
(* only once every occurrence has been fetched.                           *)
THEOREM RefinesContract == Spec => Contract!SafeSpec
<1>1. Init => Contract!Init
  BY DEF Init, Contract!Init
<1>2. QED
  BY <1>1, InitIInv, NextIInv, StepRefines, PTL DEF Spec, Contract!SafeSpec

=============================================================================
