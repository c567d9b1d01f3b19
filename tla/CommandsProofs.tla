---------------------------- MODULE CommandsProofs ----------------------------
(***************************************************************************)
(* Proofs about the btctool commands and their files, for every set of    *)
(* descriptors, fee rates and dl results: a command that fails before it  *)
(* opens its output file leaves every file as it was, and, when writes    *)
(* complete, no file is ever left truncated between commands.             *)
(***************************************************************************)
EXTENDS Commands, TLAPS

\* The three file states are told apart by their st field.
LEMMA FileStates ==
    /\ Absent.st = "absent" /\ Partial.st = "partial"
    /\ \A d : Holding(d).st = "ok"
    /\ DOMAIN Output = {"dl", "tx", "sg"}
    /\ \A c \in DOMAIN Output : Output[c] \in Files
BY DEF Absent, Partial, Holding, Output, Files

-----------------------------------------------------------------------------
(* ErrorsLeaveFilesIntact needs no invariant: only Open and Dump change a *)
(* file, Open keeps the writing command running, and Dump is the step the *)
(* property leaves out.                                                   *)
LEMMA StepLeavesFiles ==
    ASSUME [Next]_vars
    PROVE  (cmd # "none" \/ commands' # commands) /\ cmd' = "none" /\ pc # "dump"
              => files' = files
<1> SUFFICES ASSUME cmd' = "none", pc # "dump" PROVE files' = files
  OBVIOUS
<1>1. CASE Open
  BY <1>1, FileStates DEF Open
<1>2. CASE Dump
  BY <1>2 DEF Dump
<1>3. QED
  BY <1>1, <1>2 DEF Next, vars, DlFetched, DlFails, TxLoaded, TxLoadFails, TxBuilt,
     TxBuildFails, SgLoaded, SgLoadFails, SgSigned, SgSignFails, DumpFails, Exit

(* Spec 7, errors (b) to (e): a btctool command that raises, or returns   *)
(* after an error it printed, before it has opened its output file        *)
(* (missing argument, fatal discovery, unreadable utxo.json or            *)
(* trezor_tx.json, unknown script type, signer error) leaves utxo.json,   *)
(* trezor_tx.json and signed_tx.txt as they were, for every input.        *)
THEOREM ErrorsLeaveFilesIntactHolds == Spec => ErrorsLeaveFilesIntact
<1>1. [Next]_vars => [(cmd # "none" \/ commands' # commands) /\ cmd' = "none" /\ pc # "dump"
                        => files' = files]_vars
  BY StepLeavesFiles
<1>2. QED
  BY <1>1, PTL DEF Spec, ErrorsLeaveFilesIntact

-----------------------------------------------------------------------------
(* With writes that complete, CInv is inductive.                          *)

LEMMA InitCInv == Init => CInv
BY FileStates DEF Init, CInv, Files

\* While a command has not reached its write, no file is partial.
LEMMA NoPartialBeforeWrite ==
    ASSUME CInv, pc = "work" \/ pc = "open"
    PROVE  \A f \in Files : files[f].st # "partial"
BY DEF CInv

\* A step that changes no file and ends at "work" or "open", with a command
\* that writes when it is at "open", keeps CInv.
LEMMA QuietStep ==
    ASSUME CInv, pc = "work" \/ pc = "open", files' = files,
           pc' \in {"work", "open"}, cmd' = "none" => pc' = "work",
           pc' = "open" => cmd' \in DOMAIN Output
    PROVE  CInv'
BY NoPartialBeforeWrite DEF CInv

LEMMA OpenCInv ==
    ASSUME CInv, Open
    PROVE  CInv'
<1>1. cmd \in DOMAIN Output /\ Output[cmd] \in Files
  BY FileStates DEF Open
<1>2. \A f \in Files : files'[f] = IF f = Output[cmd] THEN Partial ELSE files[f]
  BY <1>1 DEF Open, CInv
<1>3. \A f \in Files \ {Output[cmd]} : files[f].st # "partial"
  BY NoPartialBeforeWrite DEF Open
<1>4. QED
  BY <1>1, <1>2, <1>3, FileStates DEF Open, CInv

LEMMA DumpCInv ==
    ASSUME CInv, Dump
    PROVE  CInv'
<1>1. cmd \in DOMAIN Output /\ Output[cmd] \in Files
  BY FileStates DEF Dump
<1>2. \A f \in Files : files'[f] = IF f = Output[cmd] THEN Holding(data) ELSE files[f]
  BY <1>1 DEF Dump, CInv
<1>3. \A f \in Files \ {Output[cmd]} : files[f].st # "partial"
  BY DEF Dump, CInv
<1>4. QED
  BY <1>1, <1>2, <1>3, FileStates DEF Dump, Exit, CInv

LEMMA NextCInv ==
    ASSUME ~WriteFaults, CInv, [Next]_vars
    PROVE  CInv'
<1>1. CASE DlFetched \/ TxLoaded \/ SgLoaded
  BY <1>1, QuietStep, FileStates DEF CInv, DlFetched, TxLoaded, SgLoaded, Start
<1>2. CASE DlFails \/ TxLoadFails \/ SgLoadFails
  BY <1>2, QuietStep DEF CInv, DlFails, TxLoadFails, SgLoadFails, Start, Exit
<1>3. CASE TxBuilt \/ TxBuildFails \/ SgSigned \/ SgSignFails
  BY <1>3, QuietStep, FileStates DEF TxBuilt, TxBuildFails, SgSigned, SgSignFails, Exit
<1>4. CASE Open
  BY <1>4, OpenCInv
<1>5. CASE Dump
  BY <1>5, DumpCInv
<1>6. CASE UNCHANGED vars
  BY <1>6 DEF vars, CInv
<1>7. QED
  BY <1>1, <1>2, <1>3, <1>4, <1>5, <1>6 DEF Next, DumpFails

(* Spec 7, with writes that complete (no disk full, no interrupt inside   *)
(* json.dump or f.write): whatever sequence of dl, tx and sg commands     *)
(* runs and whichever of them fails, no file is left truncated between   *)
(* two commands, because every command opens its output file only after  *)
(* everything that can fail has been done.  MCCommandsWriteFault shows    *)
(* that a write failing after open() breaks this.                        *)
THEOREM FilesIntactWithReliableWrites ==
    ASSUME ~WriteFaults
    PROVE  Spec => []FilesIntactBetweenCommands
<1>1. CInv => FilesIntactBetweenCommands
  BY DEF CInv, FilesIntactBetweenCommands
<1>2. CInv /\ [Next]_vars => CInv'
  BY NextCInv
<1>3. QED
  BY InitCInv, <1>1, <1>2, PTL DEF Spec


=============================================================================
