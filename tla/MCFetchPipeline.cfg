\* Two worker processes, three queued descriptors (one duplicated), and at
\* most two failed fetches: enough for a requeued item to be taken by the
\* other worker while the first one sleeps, and for the coordinator to see
\* an empty queue while a fetch is still in flight.
CONSTANTS
    Workers = {w1, w2}
    u1 = u1
    u2 = u2
    Utxos = {u1, u2}
    Input <- MCInput
    MinTimeout = 1
    MaxTimeout = 1
    MaxErrors = 2

SPECIFICATION Spec

INVARIANT TypeOK
INVARIANT IInv
INVARIANT NoDuplicateFetch
INVARIANT AllFetchedOnReturn
INVARIANT ProgressNeverAhead
PROPERTY Termination
PROPERTY ImplementsContract

\* fetch_utxo_dict_list returns: the state after Stop has no successor.
CHECK_DEADLOCK FALSE
