\* A deposit or spend between two page requests: two pages of two outputs.
CONSTANTS
    PageCap = 2
    MaxFetchLimit = 4
    MaxAvailable = 4
    MaxChurn = 1
    MaxRequests = 12

SPECIFICATION Spec

INVARIANT NoDuplicateUtxo

CHECK_DEADLOCK FALSE
