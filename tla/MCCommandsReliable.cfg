\* Writes that always complete: no disk full, no interrupt during json.dump.
CONSTANTS
    u1 = u1
    u2 = u2
    u3 = u3
    Utxos <- MCUtxos
    Value <- MCValue
    Reported <- MCReported
    KnownTypes <- MCKnownTypes
    FeeRates = {10}
    DlLists <- MCDlLists
    WriteFaults = FALSE
    MaxCommands = 4

SPECIFICATION Spec

INVARIANT FilesIntactBetweenCommands

\* The commands run out: after the last one there is nothing left to do.
CHECK_DEADLOCK FALSE
