----------------------------- MODULE Discovery -----------------------------
(***************************************************************************)
(* UTXO discovery: utxo_utils.fetch_utxo_id_list_for_address, a single-   *)
(* threaded loop that pages through the listing endpoint with a request   *)
(* limit that is halved after every failed request.                       *)
(*                                                                         *)
(* The endpoint is modelled by the address's list of unspent outputs, in  *)
(* the server's order: a successful request returns the slice that starts *)
(* at skip and holds at most limit entries, with start = skip.  Between   *)
(* two requests the address may receive or spend outputs (Deposit,        *)
(* Spend): the endpoint has no snapshot across pages.  A UTXO is named by *)
(* a number; the fields of a descriptor are left out.                     *)
(***************************************************************************)
EXTENDS Naturals, Sequences, Functions

CONSTANTS
    PageCap,         \* the 5_000 of request_limit = min(5_000, utxo_fetch_limit)
    MaxFetchLimit,   \* the --utxo-fetch-limit values tried are 0..MaxFetchLimit
    MaxAvailable,    \* the address holds 0..MaxAvailable UTXOs at the start
    MaxChurn,        \* bound of the model: deposits and spends during the scan
    MaxRequests      \* bound of the model: requests sent; no scan of the code
                     \* reaches it, so a scan stuck at it breaks ScanEnds

ASSUME DiscoveryAssumption ==
    /\ PageCap \in Nat \ {0}
    /\ MaxFetchLimit \in Nat
    /\ MaxAvailable \in Nat
    /\ MaxChurn \in Nat
    /\ MaxRequests \in Nat

VARIABLES
    utxoFetchLimit,  \* args.utxo_fetch_limit
    listing,         \* the address's unspent outputs, in the endpoint's order
    nextId,          \* the name the next deposited output gets
    churn,           \* deposits and spends so far
    skip,            \* skip
    requestLimit,    \* request_limit
    utxoList,        \* utxo_list
    count,           \* count: what the progress bar shows
    requests,        \* requests.get calls so far
    status           \* "loop", then "done" (returned) or "failed" (raised)

vars == <<utxoFetchLimit, listing, nextId, churn, skip, requestLimit,
          utxoList, count, requests, status>>

\* Every pass of the loop sends one request.
Request ==
    /\ status = "loop"
    /\ requests < MaxRequests
    /\ requests' = requests + 1

MinOf(a, b) == IF a <= b THEN a ELSE b

\* The page a successful request at offset s with limit l returns.
Page(s, l) == SubSeq(listing, s + 1, MinOf(s + l, Len(listing)))

-----------------------------------------------------------------------------
(* Mutant of Init: request_limit starts at utxo_fetch_limit, without the  *)
(* min with the page cap.                                                  *)
InitUncapped ==
    /\ utxoFetchLimit \in 0..MaxFetchLimit
    /\ \E n \in 0..MaxAvailable :
          /\ listing = [i \in 1..n |-> i]
          /\ nextId = n + 1
    /\ churn = 0
    /\ skip = 0
    /\ requestLimit = utxoFetchLimit
    /\ utxoList = <<>>
    /\ count = 0
    /\ requests = 0
    /\ status = "loop"

(* The arguments and the address's outputs at the start, then the locals  *)
(* of fetch_utxo_id_list_for_address before its loop.                     *)
Init ==
    /\ utxoFetchLimit \in 0..MaxFetchLimit
    /\ \E n \in 0..MaxAvailable :
          /\ listing = [i \in 1..n |-> i]
          /\ nextId = n + 1
    /\ churn = 0
    /\ skip = 0
    /\ requestLimit = MinOf(PageCap, utxoFetchLimit)
    /\ utxoList = <<>>
    /\ count = 0
    /\ requests = 0
    /\ status = "loop"

(* Mutant of RequestFailed: the same request is retried without halving.  *)
RequestFailedNoHalving ==
    /\ Request
    /\ requestLimit > 1
    /\ UNCHANGED <<utxoFetchLimit, listing, nextId, churn, skip, requestLimit,
                   utxoList, count, status>>

(* A request fails (resp.ok is false) and the limit can still be halved: *)
(* request_limit //= 2 and the same skip is requested again.               *)
RequestFailed ==
    /\ Request
    /\ requestLimit > 1
    /\ requestLimit' = requestLimit \div 2
    /\ UNCHANGED <<utxoFetchLimit, listing, nextId, churn, skip, utxoList,
                   count, status>>

(* A request fails with request_limit <= 1: the function raises.           *)
RequestFailedFatal ==
    /\ Request
    /\ requestLimit <= 1
    /\ status' = "failed"
    /\ UNCHANGED <<utxoFetchLimit, listing, nextId, churn, skip, requestLimit,
                   utxoList, count>>

(* Mutant of RequestOk: the list is returned without the final cut to    *)
(* utxo_fetch_limit entries.                                               *)
RequestOkNoTruncate ==
    LET page == Page(skip, requestLimit)
        newList == utxoList \o page
        breakLoop == Len(newList) >= utxoFetchLimit \/ Len(page) < requestLimit
    IN  /\ Request
        /\ skip' = skip + Len(page)
        /\ count' = IF breakLoop \/ Len(newList) > count THEN Len(newList) ELSE count
        /\ utxoList' = newList
        /\ status' = IF breakLoop THEN "done" ELSE "loop"
        /\ UNCHANGED <<utxoFetchLimit, listing, nextId, churn, requestLimit>>

(* A request succeeds: the page is appended, skip becomes start + count,  *)
(* the bar is updated when the list grew or the loop ends, and the loop   *)
(* ends when the list reached the fetch limit or the page was short; on   *)
(* the way out the list is cut to utxo_fetch_limit entries.               *)
RequestOk ==
    LET page == Page(skip, requestLimit)
        newList == utxoList \o page
        breakLoop == Len(newList) >= utxoFetchLimit \/ Len(page) < requestLimit
    IN  /\ Request
        /\ skip' = skip + Len(page)
        /\ count' = IF breakLoop \/ Len(newList) > count THEN Len(newList) ELSE count
        /\ utxoList' = IF breakLoop
                          THEN SubSeq(newList, 1, MinOf(utxoFetchLimit, Len(newList)))
                          ELSE newList
        /\ status' = IF breakLoop THEN "done" ELSE "loop"
        /\ UNCHANGED <<utxoFetchLimit, listing, nextId, churn, requestLimit>>

(* The address receives an output, listed at any position.                *)
Deposit ==
    /\ status = "loop"
    /\ churn < MaxChurn
    /\ \E p \in 0..Len(listing) :
          listing' = SubSeq(listing, 1, p) \o <<nextId>> \o SubSeq(listing, p + 1, Len(listing))
    /\ nextId' = nextId + 1
    /\ churn' = churn + 1
    /\ UNCHANGED <<utxoFetchLimit, skip, requestLimit, utxoList, count, requests, status>>

(* An output of the address is spent and leaves the listing.              *)
Spend ==
    /\ status = "loop"
    /\ churn < MaxChurn
    /\ \E p \in 1..Len(listing) :
          listing' = SubSeq(listing, 1, p - 1) \o SubSeq(listing, p + 1, Len(listing))
    /\ churn' = churn + 1
    /\ UNCHANGED <<utxoFetchLimit, nextId, skip, requestLimit, utxoList, count,
                   requests, status>>

Next ==
    \/ RequestFailed
    \/ RequestFailedFatal
    \/ RequestOk
    \/ Deposit
    \/ Spend

(* The loop runs in one thread with nothing to wait for but the request.  *)
Spec == Init /\ [][Next]_vars /\ WF_vars(RequestFailed \/ RequestFailedFatal \/ RequestOk)

-----------------------------------------------------------------------------
TypeOK ==
    /\ utxoFetchLimit \in 0..MaxFetchLimit
    /\ listing \in Seq(Nat \ {0})
    /\ nextId \in Nat \ {0}
    /\ churn \in 0..MaxChurn
    /\ skip \in Nat
    /\ requestLimit \in 0..PageCap
    /\ utxoList \in Seq(Nat \ {0})
    /\ count \in Nat
    /\ requests \in 0..MaxRequests
    /\ status \in {"loop", "done", "failed"}

(* Discovery termination (spec 8): when the address's outputs do not      *)
(* change during the scan, a scan that returns yields exactly the first   *)
(* min(fetch_limit, available) outputs in the endpoint's order, whatever  *)
(* the failures and halvings of the request limit along the way.          *)
ReturnsFirstOutputs ==
    (status = "done" /\ churn = 0)
        => utxoList = SubSeq(listing, 1, MinOf(utxoFetchLimit, Len(listing)))

(* A returned list never names the same output twice (spec 3: a UTXO     *)
(* descriptor is unique by txid and output index).                        *)
NoDuplicateUtxo == status = "done" => IsInjective(utxoList)

(* The scan always ends, by returning or by raising: failures halve the   *)
(* limit, which never grows back, and every success advances skip or      *)
(* ends the loop.                                                         *)
ScanEnds == <>(status # "loop")

(* The measure behind ScanEnds (utxo_utils.py lines 14-55): every request *)
(* after which the loop goes on either halved request_limit (a failed     *)
(* request; the limit never grows back) or left it as it was and moved    *)
(* skip on by at least a whole page of request_limit outputs, since a     *)
(* short page ends the loop.  A retry of the same page with the same      *)
(* limit, or a page counted short that does not end the loop, is a step   *)
(* that makes no progress and can repeat forever.                         *)
RequestsProgress ==
    [][requests' # requests /\ status' = "loop"
         => \/ requestLimit' < requestLimit
            \/ requestLimit' = requestLimit /\ skip' >= skip + requestLimit]_vars


-----------------------------------------------------------------------------
\* The outputs an address holds at the start are named 1..n in the
\* endpoint's order; Ids(k) is the list of the first k of them.
Ids(k) == [i \in 1..k |-> i]

\* The inductive invariant behind ReturnsFirstOutputs: while nothing is
\* deposited or spent, the loop has collected exactly the outputs before
\* skip, and a returned list is the first min(fetch limit, available).
DInv ==
    /\ TypeOK
    /\ churn = 0 =>
          /\ listing = Ids(Len(listing))
          /\ status = "loop" => skip <= Len(listing) /\ utxoList = Ids(skip)
          /\ status = "done" => utxoList = Ids(MinOf(utxoFetchLimit, Len(listing)))

=============================================================================
