\* request_limit starts at min(PageCap, fetch limit) and can halve 4 -> 2 -> 1;
\* fetch limits 0..5 and 0..6 available outputs give empty, short, exact and
\* multi-page listings, with the fetch limit below, at and above the number of
\* outputs; one deposit or spend may happen during the scan.
CONSTANTS
    PageCap = 4
    MaxFetchLimit = 5
    MaxAvailable = 6
    MaxChurn = 1
    MaxRequests = 12

SPECIFICATION Spec

INVARIANT TypeOK
INVARIANT ReturnsFirstOutputs
INVARIANT DInv
PROPERTY ScanEnds
PROPERTY RequestsProgress

\* fetch_utxo_id_list_for_address returns or raises: those states have no successor.
CHECK_DEADLOCK FALSE
