\* Four commands are enough for dl, tx, sg and one more command over the
\* files they left; one fee rate, the default 10 sats/vbyte.
CONSTANTS
    u1 = u1
    u2 = u2
    u3 = u3
    Utxos <- MCUtxos
    Value <- MCValue
    Reported <- MCReported
    KnownTypes <- MCKnownTypes
    FeeRates = {10}
    DlLists <- MCDlLists
    WriteFaults = TRUE
    MaxCommands = 4

SPECIFICATION Spec

INVARIANT TypeOK
PROPERTY ErrorsLeaveFilesIntact

\* The commands run out: after the last one there is nothing left to do.
CHECK_DEADLOCK FALSE
