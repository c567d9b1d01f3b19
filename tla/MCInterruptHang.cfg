\* Two workers, three queued descriptors (one duplicated), at most one
\* failed fetch, and one SIGINT sent to a single worker (kill -INT).
CONSTANTS
    Workers = {w1, w2}
    Coordinator = main
    u1 = u1
    u2 = u2
    Utxos = {u1, u2}
    Input <- MCInput
    MinTimeout = 1
    MaxTimeout = 1
    MaxErrors = 1
    SignalTargets <- MCOneWorker
    MaxSignals = 1

SPECIFICATION ISpec

PROPERTY RunEnds

\* The run stops for good once the call returned or raised.
CHECK_DEADLOCK FALSE
