--------------------------- MODULE DiscoveryProofs ---------------------------
(***************************************************************************)
(* Proofs about Discovery, for every page cap, fetch limit and number of  *)
(* outputs: type correctness, and that a scan of an address whose outputs *)
(* do not change returns the first min(fetch limit, available) of them.   *)
(***************************************************************************)
EXTENDS Discovery, SequenceTheorems, TLAPS

-----------------------------------------------------------------------------
(* Lemmas on the slices the endpoint returns.                             *)

\* A slice of a list is a list of the same elements, as long as its bounds say.
LEMMA SliceType ==
    ASSUME NEW S, NEW s \in Seq(S), NEW m \in 1..Len(s) + 1, NEW n \in m - 1..Len(s)
    PROVE  SubSeq(s, m, n) \in Seq(S) /\ Len(SubSeq(s, m, n)) = n - m + 1
BY SubSeqProperties

LEMMA IdsType ==
    ASSUME NEW k \in Nat
    PROVE  Ids(k) \in Seq(Nat \ {0}) /\ Len(Ids(k)) = k
BY DEF Ids

\* The first m of the first k outputs are the first m outputs.
LEMMA IdsPrefix ==
    ASSUME NEW k \in Nat, NEW m \in 0..k
    PROVE  SubSeq(Ids(k), 1, m) = Ids(m)
<1>0. Ids(k) \in Seq(Nat \ {0}) /\ Len(Ids(k)) = k
  BY IdsType
<1>1. SubSeq(Ids(k), 1, m) \in Seq(Nat \ {0}) /\ Len(SubSeq(Ids(k), 1, m)) = m
  BY <1>0, SliceType
<1>2. \A i \in 1..m : SubSeq(Ids(k), 1, m)[i] = i
  BY DEF Ids
<1>3. QED
  BY <1>1, <1>2, IdsType, SeqEqual DEF Ids

\* The outputs before s followed by the page from s + 1 to e are the
\* outputs before e.
LEMMA IdsExtend ==
    ASSUME NEW k \in Nat, NEW s \in 0..k, NEW e \in s..k
    PROVE  Ids(s) \o SubSeq(Ids(k), s + 1, e) = Ids(e)
<1> DEFINE a == Ids(s)
           b == SubSeq(Ids(k), s + 1, e)
<1>1. Ids(k) \in Seq(Nat \ {0}) /\ Len(Ids(k)) = k
      /\ a \in Seq(Nat \ {0}) /\ Len(a) = s
  BY IdsType
<1>2. b \in Seq(Nat \ {0}) /\ Len(b) = e - s /\ \A i \in 1..e - s : b[i] = s + i
  BY <1>1, SliceType DEF Ids
<1>3. /\ a \o b \in Seq(Nat \ {0})
      /\ Len(a \o b) = Len(a) + Len(b)
      /\ \A i \in 1..Len(a) + Len(b) : (a \o b)[i] = IF i <= Len(a) THEN a[i] ELSE b[i - Len(a)]
  BY <1>1, <1>2, ConcatProperties
<1>4. \A i \in 1..e : (a \o b)[i] = i
  BY <1>1, <1>2, <1>3 DEF Ids
<1>5. QED
  BY <1>1, <1>2, <1>3, <1>4, IdsType, SeqEqual DEF Ids

-----------------------------------------------------------------------------
(* Each step keeps DInv.                                                  *)

LEMMA InitDInv == Init => DInv
<1> SUFFICES ASSUME Init PROVE DInv
  OBVIOUS
<1>1. PICK n \in 0..MaxAvailable : listing = [i \in 1..n |-> i] /\ nextId = n + 1
  BY DEF Init
<1>2. listing = Ids(n) /\ Len(listing) = n /\ listing \in Seq(Nat \ {0})
  BY <1>1, IdsType, DiscoveryAssumption DEF Ids
<1>3. utxoList = Ids(0) /\ <<>> \in Seq(Nat \ {0})
  BY DEF Init, Ids
<1>4. requestLimit \in 0..PageCap
  BY DiscoveryAssumption DEF Init, MinOf
<1>5. QED
  BY <1>1, <1>2, <1>3, <1>4, DiscoveryAssumption DEF Init, DInv, TypeOK

\* A failed request changes only the limit and the request count.
LEMMA RequestFailedDInv ==
    ASSUME DInv, RequestFailed \/ RequestFailedFatal
    PROVE  DInv'
<1>1. requestLimit' \in 0..PageCap /\ requests' \in 0..MaxRequests
  BY DiscoveryAssumption DEF RequestFailed, RequestFailedFatal, Request, DInv, TypeOK
<1>2. QED
  BY <1>1 DEF RequestFailed, RequestFailedFatal, Request, DInv, TypeOK

\* The listing changes only through a deposit or a spend, which count as
\* churn, so DInv's statement about an unchanged address no longer applies.
LEMMA DepositDInv ==
    ASSUME DInv, Deposit
    PROVE  DInv'
<1>1. PICK p \in 0..Len(listing) :
        listing' = SubSeq(listing, 1, p) \o <<nextId>> \o SubSeq(listing, p + 1, Len(listing))
  BY DEF Deposit
<1> DEFINE a == SubSeq(listing, 1, p)
           b == SubSeq(listing, p + 1, Len(listing))
<1>2. listing \in Seq(Nat \ {0}) /\ nextId \in Nat \ {0}
  BY DEF DInv, TypeOK
<1>3. a \in Seq(Nat \ {0}) /\ b \in Seq(Nat \ {0}) /\ <<nextId>> \in Seq(Nat \ {0})
  BY <1>2, SliceType
<1>4. a \o <<nextId>> \in Seq(Nat \ {0})
  BY <1>3, ConcatProperties
<1>5. listing' \in Seq(Nat \ {0})
  BY <1>1, <1>3, <1>4, ConcatProperties
<1>6. TypeOK'
  BY <1>5, <1>2, DiscoveryAssumption DEF Deposit, DInv, TypeOK
<1>7. churn' # 0
  BY DEF Deposit, DInv, TypeOK
<1>8. QED
  BY <1>6, <1>7 DEF DInv

LEMMA SpendDInv ==
    ASSUME DInv, Spend
    PROVE  DInv'
<1>1. PICK p \in 1..Len(listing) :
        listing' = SubSeq(listing, 1, p - 1) \o SubSeq(listing, p + 1, Len(listing))
  BY DEF Spend
<1> DEFINE a == SubSeq(listing, 1, p - 1)
           b == SubSeq(listing, p + 1, Len(listing))
<1>2. listing \in Seq(Nat \ {0})
  BY DEF DInv, TypeOK
<1>3. a \in Seq(Nat \ {0}) /\ b \in Seq(Nat \ {0})
  BY <1>2, SliceType
<1>4. listing' \in Seq(Nat \ {0})
  BY <1>1, <1>3, ConcatProperties
<1>5. TypeOK'
  BY <1>4, DiscoveryAssumption DEF Spend, DInv, TypeOK
<1>6. churn' # 0
  BY DEF Spend, DInv, TypeOK
<1>7. QED
  BY <1>5, <1>6 DEF DInv

(* A successful request.  The page is the slice of the listing from      *)
(* skip + 1 to e == min(skip + limit, available); while the address does  *)
(* not change, the list collected so far followed by the page is the     *)
(* first e outputs, and the loop breaks with e = available or e >= the    *)
(* fetch limit, so the cut to the fetch limit gives the first             *)
(* min(fetch limit, available) outputs.                                   *)
LEMMA RequestOkDInv ==
    ASSUME DInv, RequestOk
    PROVE  DInv'
<1> DEFINE L == Len(listing)
           e == MinOf(skip + requestLimit, L)
           page == Page(skip, requestLimit)
           newList == utxoList \o page
           breakLoop == Len(newList) >= utxoFetchLimit \/ Len(page) < requestLimit
<1>1. /\ listing \in Seq(Nat \ {0}) /\ utxoList \in Seq(Nat \ {0})
      /\ skip \in Nat /\ requestLimit \in 0..PageCap /\ utxoFetchLimit \in Nat
      /\ L \in Nat /\ e \in Nat
  BY DiscoveryAssumption DEF DInv, TypeOK, MinOf
<1>2. page \in Seq(Nat \ {0}) /\ Len(page) = IF skip + 1 <= e THEN e - skip ELSE 0
  <2>1. \A i \in skip + 1..e : listing[i] \in Nat \ {0}
    BY <1>1 DEF MinOf
  <2>2. QED
    BY <1>1, <2>1, SubSeqProperties DEF Page
<1>3. newList \in Seq(Nat \ {0}) /\ Len(newList) = Len(utxoList) + Len(page)
  BY <1>1, <1>2, ConcatProperties
<1>4. utxoList' \in Seq(Nat \ {0})
  <2>1. SubSeq(newList, 1, MinOf(utxoFetchLimit, Len(newList))) \in Seq(Nat \ {0})
    BY <1>1, <1>3, SliceType DEF MinOf
  <2>2. QED
    BY <1>3, <2>1 DEF RequestOk
<1>5. TypeOK'
  <2>1. skip' \in Nat /\ count' \in Nat
    <3>1. Len(page) \in Nat /\ Len(newList) \in Nat /\ count \in Nat
      BY <1>2, <1>3 DEF DInv, TypeOK
    <3>2. skip' = skip + Len(page)
          /\ count' = IF breakLoop \/ Len(newList) > count THEN Len(newList) ELSE count
      BY DEF RequestOk
    <3>3. QED
      BY <1>1, <3>1, <3>2
  <2>2. requests' \in 0..MaxRequests /\ status' \in {"loop", "done", "failed"}
    BY DiscoveryAssumption DEF RequestOk, Request, DInv, TypeOK
  <2>3. QED
    BY <1>4, <2>1, <2>2 DEF RequestOk, DInv, TypeOK
<1>6. ASSUME churn' = 0
      PROVE  /\ listing' = Ids(Len(listing'))
             /\ status' = "loop" => skip' <= Len(listing') /\ utxoList' = Ids(skip')
             /\ status' = "done" => utxoList' = Ids(MinOf(utxoFetchLimit', Len(listing')))
  <2>1. churn = 0 /\ status = "loop" /\ UNCHANGED <<listing, utxoFetchLimit>>
    BY <1>6 DEF RequestOk, Request
  <2>2. listing = Ids(L) /\ skip <= L /\ utxoList = Ids(skip)
    BY <2>1 DEF DInv
  <2>3. e \in skip..L /\ Len(page) = e - skip
    <3>1. e \in skip..L
      BY <1>1, <2>2 DEF MinOf
    <3>2. QED
      BY <1>1, <1>2, <3>1
  <2>4. newList = Ids(e) /\ Len(newList) = e
    <3>1. page = SubSeq(Ids(L), skip + 1, e)
      BY <2>2 DEF Page
    <3>2. Ids(skip) \o SubSeq(Ids(L), skip + 1, e) = Ids(e)
      <4>1. \A k \in Nat : \A s \in 0..k : \A x \in s..k : Ids(s) \o SubSeq(Ids(k), s + 1, x) = Ids(x)
        BY IdsExtend
      <4>2. L \in Nat /\ skip \in 0..L /\ e \in skip..L
        BY <1>1, <2>2, <2>3
      <4>3. QED
        BY <4>1, <4>2
    <3>3. Len(Ids(e)) = e
      BY <1>1, IdsType
    <3>4. QED
      BY <2>2, <3>1, <3>2, <3>3
  <2>5. CASE breakLoop
    <3>1. MinOf(utxoFetchLimit, e) = MinOf(utxoFetchLimit, L)
      BY <1>1, <2>3, <2>4, <2>5 DEF MinOf
    <3>2. utxoList' = SubSeq(newList, 1, MinOf(utxoFetchLimit, Len(newList)))
          /\ status' = "done"
      BY <2>5 DEF RequestOk
    <3>3. SubSeq(Ids(e), 1, MinOf(utxoFetchLimit, e)) = Ids(MinOf(utxoFetchLimit, e))
      <4>1. \A k \in Nat : \A m \in 0..k : SubSeq(Ids(k), 1, m) = Ids(m)
        BY IdsPrefix
      <4>2. MinOf(utxoFetchLimit, e) \in 0..e
        BY <1>1 DEF MinOf
      <4>3. QED
        BY <1>1, <4>1, <4>2
    <3>4. QED
      BY <2>1, <2>2, <2>4, <3>1, <3>2, <3>3
  <2>6. CASE ~breakLoop
    <3>1. utxoList' = newList /\ skip' = skip + Len(page) /\ status' = "loop"
      BY <2>6 DEF RequestOk
    <3>2. QED
      BY <1>1, <2>1, <2>2, <2>3, <2>4, <3>1
  <2>7. QED
    BY <2>5, <2>6
<1>7. QED
  BY <1>5, <1>6 DEF DInv

LEMMA NextDInv == DInv /\ [Next]_vars => DInv'
<1> SUFFICES ASSUME DInv, [Next]_vars PROVE DInv'
  OBVIOUS
<1>1. CASE UNCHANGED vars
  BY <1>1 DEF vars, DInv, TypeOK
<1>2. QED
  BY <1>1, RequestFailedDInv, RequestOkDInv, DepositDInv, SpendDInv DEF Next

-----------------------------------------------------------------------------
(* Type correctness of fetch_utxo_id_list_for_address: for every page cap *)
(* and fetch limit, request_limit stays within 0..min(5_000, fetch limit) *)
(* through its halvings, skip and the counts stay natural numbers, and the *)
(* list holds only output names, whatever the address does meanwhile.     *)
THEOREM DiscoveryTypeCorrect == Spec => []TypeOK
<1>1. DInv => TypeOK
  BY DEF DInv
<1>2. QED
  BY InitDInv, NextDInv, <1>1, PTL DEF Spec

LEMMA DInvReturnsFirst == DInv => ReturnsFirstOutputs
<1> SUFFICES ASSUME DInv, status = "done", churn = 0
             PROVE  utxoList = SubSeq(listing, 1, MinOf(utxoFetchLimit, Len(listing)))
  BY DEF ReturnsFirstOutputs
<1>1. listing = Ids(Len(listing)) /\ utxoList = Ids(MinOf(utxoFetchLimit, Len(listing)))
  BY DEF DInv
<1>2. Len(listing) \in Nat /\ MinOf(utxoFetchLimit, Len(listing)) \in 0..Len(listing)
  BY DEF DInv, TypeOK, MinOf
<1>3. QED
  BY <1>1, <1>2, IdsPrefix

(* Spec 8: a scan of an address whose outputs do not change, if it        *)
(* returns, returns exactly the first min(fetch limit, available) outputs *)
(* in the endpoint's order, for every page cap, fetch limit and number of *)
(* outputs and whatever requests fail and halve request_limit: each       *)
(* success appends the page that starts at skip, and the cut to           *)
(* utxo_fetch_limit happens only when the loop breaks.                    *)
THEOREM ReturnsFirstOutputsHolds == Spec => []ReturnsFirstOutputs
BY InitDInv, NextDInv, DInvReturnsFirst, PTL DEF Spec

(* The duplicate of discovery_churn needs churn: a scan of an address     *)
(* whose outputs do not change never returns the same output twice,       *)
(* because what it returns is a prefix of the listing, in which every     *)
(* output appears once.                                                   *)
THEOREM NoDuplicateWithoutChurn ==
    Spec => [](status = "done" /\ churn = 0 => IsInjective(utxoList))
<1>1. DInv => (status = "done" /\ churn = 0 => IsInjective(utxoList))
  <2> SUFFICES ASSUME DInv, status = "done", churn = 0 PROVE IsInjective(utxoList)
    OBVIOUS
  <2>1. utxoList = Ids(MinOf(utxoFetchLimit, Len(listing)))
    BY DEF DInv
  <2>2. QED
    BY <2>1 DEF Ids, IsInjective
<1>2. QED
  BY InitDInv, NextDInv, <1>1, PTL DEF Spec


(* The scan invariant of fetch_utxo_id_list_for_address: while no deposit *)
(* or spend has touched the address, the listing the endpoint serves is   *)
(* its outputs in order, every page the loop has appended continues the  *)
(* list exactly where skip says it stopped, and a finished scan holds the *)
(* first min(fetch limit, outputs) of them, through every halving of     *)
(* request_limit after a failed request.                                 *)
THEOREM DInvHolds == Spec => []DInv
BY InitDInv, NextDInv, PTL DEF Spec


-----------------------------------------------------------------------------
(* Progress of the scan loop.                                             *)

\* The action RequestsProgress asks of every step.
ProgressStep ==
    requests' # requests /\ status' = "loop"
        => \/ requestLimit' < requestLimit
           \/ requestLimit' = requestLimit /\ skip' >= skip + requestLimit

\* A successful request that keeps the loop going read a full page.
LEMMA RequestOkProgress ==
    ASSUME TypeOK, RequestOk
    PROVE  ProgressStep
<1> DEFINE page == Page(skip, requestLimit)
           newList == utxoList \o page
           breakLoop == Len(newList) >= utxoFetchLimit \/ Len(page) < requestLimit
<1> SUFFICES ASSUME status' = "loop" PROVE requestLimit' = requestLimit /\ skip' >= skip + requestLimit
  BY DEF ProgressStep
<1>1. ~breakLoop
  BY DEF RequestOk
<1>2. page \in Seq(Nat \ {0}) /\ skip \in Nat /\ requestLimit \in Nat
  BY SliceType, DiscoveryAssumption DEF TypeOK, Page, MinOf
<1>3. Len(page) >= requestLimit
  BY <1>1, <1>2
<1>4. skip' = skip + Len(page) /\ requestLimit' = requestLimit
  BY DEF RequestOk
<1>5. QED
  BY <1>2, <1>3, <1>4

\* A failed request that can be retried halves a limit above 1.
LEMMA RequestFailedProgress ==
    ASSUME TypeOK, RequestFailed
    PROVE  ProgressStep
<1>1. requestLimit \in Nat /\ requestLimit > 1 /\ requestLimit' = requestLimit \div 2
  BY DiscoveryAssumption DEF TypeOK, RequestFailed
<1>2. requestLimit' < requestLimit
  BY <1>1
<1>3. QED
  BY <1>2 DEF ProgressStep

LEMMA NextProgress ==
    ASSUME TypeOK, [Next]_vars
    PROVE  ProgressStep
<1>1. CASE RequestOk
  BY <1>1, RequestOkProgress
<1>2. CASE RequestFailed
  BY <1>2, RequestFailedProgress
<1>3. CASE RequestFailedFatal
  BY <1>3 DEF RequestFailedFatal, ProgressStep
<1>4. CASE Deposit \/ Spend \/ UNCHANGED vars
  BY <1>4 DEF Deposit, Spend, vars, ProgressStep
<1>5. QED
  BY <1>1, <1>2, <1>3, <1>4 DEF Next

(* RequestsProgress for every page cap, fetch limit and listing: no step  *)
(* of fetch_utxo_id_list_for_address that keeps the loop going repeats a  *)
(* request without halving its limit or moving skip on by a full page,   *)
(* whatever the address does between the requests.                       *)
THEOREM RequestsProgressHolds == Spec => RequestsProgress
<1>1. DInv /\ [Next]_vars => ProgressStep
  BY NextProgress DEF DInv
<1>2. QED
  BY InitDInv, NextDInv, <1>1, PTL DEF Spec, RequestsProgress, ProgressStep

=============================================================================
