------------------------------ MODULE Commands ------------------------------
(***************************************************************************)
(* The btctool commands (commands.py) and the files that connect them:    *)
(* dl writes utxo.json, tx reads it and writes trezor_tx.json (the        *)
(* request document built by meat.build_trezor_tx), sg reads that and     *)
(* writes signed_tx.txt.  One command runs at a time, as from one shell;  *)
(* the files persist from one command to the next.                        *)
(*                                                                         *)
(* A file is absent, partial (open(..., 'w') truncated it and the write   *)
(* did not finish) or ok, holding a document.  json.load rejects a       *)
(* partial file (a strict prefix of a JSON document is not one), so a     *)
(* command that reads it raises before writing anything.  Discovery and the fetch      *)
(* pipeline are abstracted to the set of lists dl can obtain; the signer  *)
(* to "returns a signature or raises".                                    *)
(***************************************************************************)
EXTENDS Naturals, Integers, Sequences, SequencesExt

CONSTANTS
    Utxos,          \* the UTXO descriptors (with their parent transactions)
    Value,          \* Value[u]: utxo_id['value'], in sats
    Reported,       \* Reported[u]: utxo_tx["vout"][output_n]["scriptPubKey"]["type"]
    KnownTypes,     \* the keys of BITCOIN_CORE_INPUT_TYPES
    FeeRates,       \* the --est-fee-sats-per-vbyte values tried
    DlLists,        \* the lists load_utxo_id_list + load_utxo_dict_list can return
    WriteFaults,    \* TRUE: a write may fail after open() truncated the file
    MaxCommands     \* bound of the model: commands run

ASSUME CommandsAssumption ==
    /\ Value \in [Utxos -> Nat]
    /\ FeeRates \subseteq Nat
    /\ DlLists \subseteq Seq(Utxos)
    /\ WriteFaults \in BOOLEAN
    /\ MaxCommands \in Nat

Files == {"utxo", "request", "signed"}

\* The file states; the document of an absent or partial file is <<>>.
Absent == [st |-> "absent", doc |-> <<>>]
Partial == [st |-> "partial", doc |-> <<>>]
Holding(d) == [st |-> "ok", doc |-> d]

\* The file each command writes.
Output == [dl |-> "utxo", tx |-> "request", sg |-> "signed"]

VARIABLES
    files,      \* files[f]: Absent, Partial or Holding(the document)
    cmd,        \* the running command, or "none"
    pc,         \* its next step: "work", "open" or "dump"
    data,       \* what it has loaded or built so far
    status,     \* <<command, "ok" or "error">>: how the last command exited
    commands    \* commands started so far

vars == <<files, cmd, pc, data, status, commands>>

\* A file json.load accepts.
Loadable(f) == files[f].st = "ok"

\* Sum of the input amounts (tx_inputs_amount).
InputsAmount(inputs) == FoldLeft(LAMBDA acc, u : acc + Value[u], 0, inputs)

\* The single output: inputs minus the fee heuristic rate * 100 per input.
OutputAmount(inputs, rate) == InputsAmount(inputs) - rate * 100 * Len(inputs)

\* The rows of the filtered frame, in file order, mapped back through their
\* original index.
Selected(list, keep) ==
    LET idx == SetToSortSeq(keep, <)
    IN  [k \in 1..Len(idx) |-> list[idx[k]]]

\* The script types build_tx_input_dict finds in BITCOIN_CORE_INPUT_TYPES.
TypesKnown(inputs) == \A i \in DOMAIN inputs : Reported[inputs[i]] \in KnownTypes

Init ==
    /\ files = [f \in Files |-> Absent]
    /\ cmd = "none"
    /\ pc = "work"
    /\ data = <<>>
    /\ status = <<"none", "ok">>
    /\ commands = 0

\* The user starts a command.
Start ==
    /\ cmd = "none"
    /\ commands < MaxCommands
    /\ commands' = commands + 1

\* Command c returns (outcome "ok") or raises ("error").
Exit(c, outcome) ==
    /\ cmd' = "none"
    /\ pc' = "work"
    /\ status' = <<c, outcome>>

-----------------------------------------------------------------------------
(* dl: discovery and the fetch pipeline return a list, then the list is   *)
(* written to utxo.json.                                                   *)
DlFetched ==
    /\ Start
    /\ \E list \in DlLists : data' = list
    /\ cmd' = "dl"
    /\ pc' = "open"
    /\ UNCHANGED <<files, status>>

\* The address is missing or discovery raises: nothing is written.
DlFails ==
    /\ Start
    /\ Exit("dl", "error")
    /\ UNCHANGED <<files, data>>

-----------------------------------------------------------------------------
(* tx: utxo.json is loaded and filtered by the query (a subset of the     *)
(* rows); the chosen fee rate goes with the selected descriptors.         *)
TxLoaded ==
    /\ Start
    /\ Loadable("utxo")
    /\ \E keep \in SUBSET DOMAIN files["utxo"].doc, rate \in FeeRates :
          data' = [inputs |-> Selected(files["utxo"].doc, keep), rate |-> rate]
    /\ cmd' = "tx"
    /\ UNCHANGED <<files, pc, status>>

\* utxo.json is absent or partial: open() or json.load raises.
TxLoadFails ==
    /\ Start
    /\ ~Loadable("utxo")
    /\ Exit("tx", "error")
    /\ UNCHANGED <<files, data>>

(* Mutant of TxBuilt: trezor_tx.json is opened before the request is     *)
(* built, so a build error leaves it truncated.                           *)
TxBuiltOpenFirst ==
    /\ cmd = "tx"
    /\ pc = "work"
    /\ files' = [files EXCEPT !["request"] = Partial]
    /\ IF TypesKnown(data.inputs)
          THEN /\ data' = [inputs |-> data.inputs,
                           amount |-> OutputAmount(data.inputs, data.rate)]
               /\ pc' = "dump"
               /\ UNCHANGED <<cmd, status>>
          ELSE /\ Exit("tx", "error")
               /\ UNCHANGED data
    /\ UNCHANGED commands

(* Mutant of TxBuilt: the request is written without its output.         *)
TxBuiltNoOutput ==
    /\ cmd = "tx"
    /\ pc = "work"
    /\ TypesKnown(data.inputs)
    /\ data' = [inputs |-> data.inputs]
    /\ pc' = "open"
    /\ UNCHANGED <<files, cmd, status, commands>>

\* build_trezor_tx: every input's script type is in the table; the request
\* holds the inputs in order and the one output.
TxBuilt ==
    /\ cmd = "tx"
    /\ pc = "work"
    /\ TypesKnown(data.inputs)
    /\ data' = [inputs |-> data.inputs, amount |-> OutputAmount(data.inputs, data.rate)]
    /\ pc' = "open"
    /\ UNCHANGED <<files, cmd, status, commands>>

\* BITCOIN_CORE_INPUT_TYPES[reported_type] raises KeyError: the command
\* ends before trezor_tx.json is opened.
TxBuildFails ==
    /\ cmd = "tx"
    /\ pc = "work"
    /\ ~TypesKnown(data.inputs)
    /\ Exit("tx", "error")
    /\ UNCHANGED <<files, data, commands>>

-----------------------------------------------------------------------------
(* sg: trezor_tx.json is loaded and handed to the signer.                 *)
SgLoaded ==
    /\ Start
    /\ Loadable("request")
    /\ data' = files["request"].doc
    /\ cmd' = "sg"
    /\ UNCHANGED <<files, pc, status>>

SgLoadFails ==
    /\ Start
    /\ ~Loadable("request")
    /\ Exit("sg", "error")
    /\ UNCHANGED <<files, data>>

SgSigned ==
    /\ cmd = "sg"
    /\ pc = "work"
    /\ data' = [signed |-> data]
    /\ pc' = "open"
    /\ UNCHANGED <<files, cmd, status, commands>>

\* The signer raises: the error is printed and, serialized_tx being None,
\* nothing is written; sg returns normally.
SgSignFails ==
    /\ cmd = "sg"
    /\ pc = "work"
    /\ Exit("sg", "ok")
    /\ UNCHANGED <<files, data, commands>>

-----------------------------------------------------------------------------
(* The write shared by the three commands: open(..., 'w') truncates the   *)
(* file, then json.dump (f.write for sg) fills it.                        *)
Open ==
    /\ cmd \in DOMAIN Output
    /\ pc = "open"
    /\ files' = [files EXCEPT ![Output[cmd]] = Partial]
    /\ pc' = "dump"
    /\ UNCHANGED <<cmd, data, status, commands>>

Dump ==
    /\ cmd \in DOMAIN Output
    /\ pc = "dump"
    /\ files' = [files EXCEPT ![Output[cmd]] = Holding(data)]
    /\ Exit(cmd, "ok")
    /\ UNCHANGED <<data, commands>>

\* The write raises (disk full, KeyboardInterrupt): the file stays partial.
DumpFails ==
    /\ WriteFaults
    /\ cmd \in DOMAIN Output
    /\ pc = "dump"
    /\ Exit(cmd, "error")
    /\ UNCHANGED <<files, data, commands>>

Next ==
    \/ DlFetched \/ DlFails
    \/ TxLoaded \/ TxLoadFails \/ TxBuilt \/ TxBuildFails
    \/ SgLoaded \/ SgLoadFails \/ SgSigned \/ SgSignFails
    \/ Open \/ Dump \/ DumpFails

Spec == Init /\ [][Next]_vars

-----------------------------------------------------------------------------
Request == [inputs : Seq(Utxos), amount : Int]

\* What each file holds when it is ok.
Documents ==
    [utxo |-> Seq(Utxos), request |-> Request, signed |-> [signed : Request]]

TypeOK ==
    /\ DOMAIN files = Files
    /\ \A f \in Files :
          \/ files[f] \in {Absent, Partial}
          \/ files[f].st = "ok" /\ files[f].doc \in Documents[f]
    /\ cmd \in {"none", "dl", "tx", "sg"}
    /\ pc \in {"work", "open", "dump"}
    /\ status \in {"none", "dl", "tx", "sg"} \X {"ok", "error"}
    /\ commands \in 0..MaxCommands

(* Spec 7, errors (b) to (e): a command that fails before it opens its    *)
(* output file (missing argument, fatal discovery, unreadable input,      *)
(* unknown script type in build_trezor_tx, signer error in sg) ends with  *)
(* every persisted file as it was.                                         *)
ErrorsLeaveFilesIntact ==
    [][(cmd # "none" \/ commands' # commands) /\ cmd' = "none" /\ pc # "dump"
         => files' = files]_vars

(* Spec 7: a command that fails (a missing argument, a fatal discovery,   *)
(* an unknown script type, a signer error) terminates without corrupting  *)
(* the files earlier commands wrote: between two commands no file is left *)
(* truncated.                                                              *)
FilesIntactBetweenCommands ==
    cmd = "none" => \A f \in Files : files[f].st # "partial"

(* Spec 2 and 4.7: tx writes a signer-ready request document, so its one  *)
(* output never has a negative amount.                                     *)
RequestSignerReady ==
    Loadable("request") => files["request"].doc.amount >= 0

\* The inductive invariant behind FilesIntactBetweenCommands when writes do
\* not fail: between commands the next step is "work"; only a command that
\* writes is ever at "open" or "dump"; and a file is partial only between
\* the open() and the dump of the command that writes it.
CInv ==
    /\ DOMAIN files = Files
    /\ \A f \in Files : files[f] \in {Absent, Partial} \/ files[f].st = "ok"
    /\ cmd = "none" => pc = "work"
    /\ pc \in {"open", "dump"} => cmd \in DOMAIN Output
    /\ \A f \in Files : files[f].st = "partial" => pc = "dump" /\ f = Output[cmd]

=============================================================================
