\* Two workers, three queued descriptors (one duplicated), at most one
\* failed fetch, and one Ctrl-C at any point of the run.
CONSTANTS
    Workers = {w1, w2}
    Coordinator = main
    u1 = u1
    u2 = u2
    Utxos = {u1, u2}
    Input <- MCInput
    MinTimeout = 1
    MaxTimeout = 1
    MaxErrors = 1
    SignalTargets <- MCProcessGroup
    MaxSignals = 1

SPECIFICATION ISpec

INVARIANT ITypeOK
INVARIANT NoPartialReturn
INVARIANT KeptApart
PROPERTY InterruptedRunKeepsContract
PROPERTY RunEnds

\* The run stops for good once the call returned or raised.
CHECK_DEADLOCK FALSE
