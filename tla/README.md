# Formal models of btctool (src/misc/btctool)

btctool builds a UTXO-consolidation transaction for one Bitcoin address:

1. **Discovery** (`utxo_utils.fetch_utxo_id_list_for_address`) pages through the
   BitGo "unspents" endpoint with `limit`/`skip`. It halves the page size after
   every failed request and raises once the size is 1. It stops at the fetch
   limit or at a short page, then cuts the list to the fetch limit.
2. **Fetch pipeline** (`tx_utils.fetch_utxo_dict_list`, `request_worker`,
   `fetch_utxo_dict`) fetches the parent transaction of every descriptor.
   - Five worker processes share a `multiprocessing.Manager` queue, a result
     list and an error list.
   - A failed fetch puts its descriptor back, records an error and sleeps.
     Every `get` is balanced by `task_done` in a `finally`.
   - The coordinator loops: it checks `queue.empty()`, then `queue.join()`,
     then reads the two list lengths, advances the progress bar by the
     growth, and leaves after the join. It then terminates the workers.
3. **Transaction assembler** (`meat.build_trezor_tx`, `tx_utils.build_tx_input_dict`,
   `get_outputs`) maps the fetched pairs to a Trezor request document.
   - The script type comes from a fixed table; an unknown type raises
     `KeyError`.
   - The fee is `rate * 100 * inputs`, and the single output gets the rest.
4. **Commands** (`commands.py`): `dl` runs 1+2 and writes `utxo.json`; `ls`
   lists/filters it; `tx` runs 3 on a filtered subset and writes
   `trezor_tx.json`; `sg` signs it (`sign.py`) and writes `signed_tx.txt`.

5. **Interrupt wrapper** (`utils.ignore_keyboard_interrupt`) wraps
   `request_worker`. A `KeyboardInterrupt` anywhere in a worker ends its loop
   and, once swallowed, its process. The coordinator has no handler: there
   the interrupt propagates out of `fetch_utxo_dict_list`.

They interact only through return values (1 → 2 inside `dl`) and through the
persisted files (`dl` → `tx` → `sg`).

## Modules

| Module | Models | State | Actions |
|---|---|---|---|
| `FetchPipeline` | `tx_utils.py` 92–158 | `queue` (FIFO of input positions), `unfinished` (Manager's unfinished-task count), per worker `pc`/`item`/`timeout`, `results`, `errors` (its length), coordinator `cpc`, `qEmpty`, `resultCount`, `errorCount`, `barN` (tqdm's `n`) | worker: `Get`, `FetchOk`, `FetchFail` (exception + `queue.put`), `RecordError` (error append + backoff + sleep), `TaskDone`; coordinator: `CheckEmpty`, `Join`, `ReadCounts`, `Stop` (terminate + return) |
| `PipelineContract` | spec 4.5, abstract | `completed`, `finished` | `Complete(t)`, `Finish` |
| `Discovery` | `utxo_utils.py` 5–56 | the arguments, the server's `listing`, `skip`, `requestLimit`, `utxoList`, `count`, `status` | `RequestFailed`, `RequestFailedFatal`, `RequestOk`; environment: `Deposit`, `Spend` |
| `Commands` | `commands.py` 22–33, 73–116, `meat.py` 11–21, 63–96, `tx_utils.py` 41–57, `sign.py`, `btctool.py` `main` | `files` (per file: absent, partial or ok with its document), the running `cmd` and its step `pc`, the `data` it has loaded or built, the exit `status` of the last command, `commands` run | `dl`: `DlFetched`, `DlFails`; `tx`: `TxLoaded`, `TxLoadFails`, `TxBuilt`, `TxBuildFails`; `sg`: `SgLoaded`, `SgLoadFails`, `SgSigned`, `SgSignFails`; the shared write: `Open` (`open(..., 'w')` truncates), `Dump`, `DumpFails` |
| `InterruptiblePipeline` | `utils.py`, `tx_utils.py` 92–156 under SIGINT; EXTENDS `FetchPipeline` | `FetchPipeline`'s state, plus `pending` (processes that received SIGINT and have not yet raised) and `signals` | environment: `Deliver(S)`; worker: `GetInterrupted` (interrupted in or right after the Manager's `get`; the item is gone and no `task_done` follows), `WorkerInterrupted` (raised where it is; `task_done` in `finally` when inside the try; a cut-off append may already be done); coordinator: `CoordInterrupted` (raises, `cpc = "aborted"`); every `FetchPipeline` step of a process with no pending signal |
| `MCFetchPipeline`, `MCCommands`, `MCInterruptiblePipeline` | model values for TLC | | |
| `InterruptiblePipelineProofs` | TLAPS proofs about `InterruptiblePipeline` | | |
| `FetchPipelineProofs` | TLAPS proofs about `FetchPipeline` | | |
| `DiscoveryProofs` | TLAPS proofs about `Discovery` | | |
| `CommandsProofs` | TLAPS proofs about `Commands` | | |

Abstractions:
- **Descriptors.** A descriptor is named by its position in the input list,
  so a descriptor listed twice is two occurrences. Fetched data is left out.
- **Failure.** `fetch_utxo_dict` either succeeds or raises. Any exception
  leads to the same path at tx_utils.py:108.
- **Sleeps.** A sleep is the step that ends in state `sleep`. Its length is
  `timeout`, which is doubled and capped as at line 111.
- **Discovery listing.** The endpoint is a list of output ids in server
  order; a page is the slice `skip+1 .. skip+limit`. `Deposit` and `Spend`
  model the address receiving or spending outputs between two requests.
  They are the only way the listing changes.
- **Commands.** One command runs at a time. A command is several steps, so
  that a failure can fall between truncating the output file and filling
  it. `dl`'s result is any list of `DlLists`; the pipeline is modelled
  separately. `filter_utxos` with a pandas query is any subset of rows, in
  file order, mapped back by index. A request document is its inputs (in
  order) and its one output amount. The signer returns a signature or raises.
  `json.load` accepts only an `ok` file: a strict prefix of a JSON document
  is not a document.

## Runs

| Run | Checks | Shows |
|---|---|---|
| `fetch_pipeline` (MCFetchPipeline.cfg, pass) | `TypeOK`, `IInv`, `NoDuplicateFetch`, `AllFetchedOnReturn`, `ProgressNeverAhead`, `Termination`, `ImplementsContract` | With 2 workers, input `<<u1,u2,u1>>` and up to 2 failed fetches, every interleaving of worker steps, requeues and coordinator checks keeps each occurrence in exactly one place. The function returns only with all occurrences fetched, once each. The bar ends at the input's size. The run always ends. The pipeline refines `PipelineContract`. |
| `discovery` (MCDiscovery.cfg, pass) | `TypeOK`, `ReturnsFirstOutputs`, `DInv`, `ScanEnds`, `RequestsProgress` | Page cap 4, fetch limits 0..5, listings of 0..6 outputs, any pattern of failures. If the listing does not change, the scan returns exactly its first `min(limit, available)` entries; every scan returns or raises. `DInv` is the inductive invariant of the proof of `ReturnsFirstOutputs`. Every request that keeps the loop going halves the limit or advances `skip` by a full page. |
| `discovery_churn` (MCDiscoveryChurn.cfg, violation) | `NoDuplicateUtxo` | One deposit between two page requests makes the next page repeat an output already appended, and the code returns the duplicate. |
| `commands` (MCCommands.cfg, pass) | `TypeOK`, `ErrorsLeaveFilesIntact` | Up to four commands in any order, with UTXOs of known and unknown script types and failing loads, builds, signer calls and writes: every command that ends before its final write (spec §7 errors b–e) leaves all three files exactly as they were. |
| `commands_write_fault` (MCCommandsWriteFault.cfg, violation) | `FilesIntactBetweenCommands` | A `dl` whose write raises after `open` leaves `utxo.json` partial. TLC's shortest trace starts from an absent file; the same steps on a good file destroy it. Afterwards `tx` cannot load the file. |
| `commands_reliable` (MCCommandsReliable.cfg, pass) | `FilesIntactBetweenCommands` | The `commands` instance with writes that always complete. No sequence of commands, failing anywhere, leaves a file truncated between commands. So the truncation in `commands_write_fault` comes only from a write that fails after `open`. |
| `commands_fee` (MCCommandsFee.cfg, violation) | `RequestSignerReady` | `tx` selecting the 500-sat output at 10 sats/vbyte writes a request whose output amount is −500. |
| `interrupt` (MCInterruptiblePipeline.cfg, pass) | `ITypeOK`, `NoPartialReturn`, `RunEnds`, `KeptApart`, `InterruptedRunKeepsContract` | One Ctrl-C to the whole process group, at any point of the run of `fetch_utxo_dict_list`. The call never returns a list that misses an input occurrence. It always ends, by returning or raising, and no worker process is left running. `ITypeOK` includes `unfinished >= 0`: `task_done` is never called more often than `get`. The interrupted run still implements the safety part of `PipelineContract`. |
| `interrupt_one_worker` (MCInterruptOneWorker.cfg, violation) | `NoPartialReturn` | `kill -INT` of a worker while it fetches the last item. The item is dropped, but `finally: task_done` runs, so `join` returns and the call returns `<<1, 2>>` for three inputs, with no error. |
| `interrupt_hang` (MCInterruptHang.cfg, violation) | `RunEnds` | `kill -INT` of a worker blocked in `queue.get()` after the Manager dequeued the last item. No `task_done` follows, so the coordinator blocks in `join` forever. |

Bounds, and why they are enough:
- **fetch_pipeline.**
  - Two workers are the smallest pool in which a requeued item can be taken
    by another worker while the first one sleeps.
  - The repeated `u1` exercises duplicate descriptors.
  - Two failures let a retry itself fail.
  - `MaxErrors` bounds only failures; successes are unbounded.
  - `MinTimeout = MaxTimeout = 1` as in the code (both 0.5 s).
- **discovery.**
  - Cap 4 gives the halving chain 4→2→1→fatal.
  - Limits 0..5 against listings 0..6 put the fetch limit below, at and
    above both the page size and the listing.
  - `MaxRequests = 12` is a bound of the model that no scan reaches (at most
    7 requests happen). It keeps every request a real step for the liveness
    check.
- **discovery_churn.** Page cap 2 and 4 outputs give two pages.
- **interrupt.** The `fetch_pipeline` instance with one failed fetch
  (enough for the interrupt to hit a worker in the error handler, after its
  requeue) and one signal. A signal can be delivered in every state of the
  run, and a signalled worker raises in whichever place it is. The
  single-worker runs use the same instance with `SignalTargets` = each
  worker alone.
- **commands.** Three UTXOs: one of a known type worth 500 sats (below
  one input's fee at 10 sats/vbyte), one known, and one `multisig` (not in
  the table). Two `dl` results, one of which includes the unknown type.
  Four commands allow `dl`, `tx`, `sg` followed by a failing rerun of any of
  them. `MCCommands` also checks spec §8's fee example (100,000 sats, two
  inputs, 10 sats/vbyte → 98,000) as an ASSUME.
- **commands_reliable.** The same instance with `WriteFaults = FALSE`.
  Every failure path except the failing write is still reachable.

Fairness:
- Every worker and the coordinator are OS processes that keep running, so
  each has weak fairness.
- `FetchOk` has strong fairness. This is the assumption that the
  transaction API eventually answers: the code retries forever
  (tx_utils.py:108), and termination holds only under that assumption.
- Under interrupts (`InterruptiblePipeline`) the same fairness holds, and
  a process with a pending signal raises at its next step (weak fairness
  on the interrupt step). Python runs the handler at the next bytecode, and
  a blocking system call returns with EINTR. Signals themselves are not
  forced: a run need not be interrupted.
- Discovery has weak fairness on its requests. No retry is unbounded there,
  because the limit halves on every failure.

Each property of a passing run has a mutant in `PROJECT.json`: a plausible bug
in the mapped code that TLC finds. Examples are a requeue after `append`, a
skipped `join`, an absolute bar update, a missing `break`, halving dropped and
truncation dropped.

## Findings

- **Discovery returns duplicate UTXOs under churn** (`discovery_churn`,
  utxo_utils.py:26). `skip = start + count` with no key check means a
  deposit that sorts before the current offset makes the next page repeat
  an entry. Spec §3 says descriptors are unique by (txid, output index).
  The disabled parallel version checked this (utxo_utils.py:120–122). A
  duplicate becomes a double-spending input of the assembled transaction.
- **A failing write destroys the previous file** (`commands_write_fault`,
  commands.py:32, 88, 115). Each command opens its output with
  `open(..., 'w')`, which truncates the file before `json.dump`/`f.write`
  fills it. A write that raises (disk full, Ctrl-C) leaves the file
  partial, so the previous, good result is lost. Spec §7 promises that
  failures do not corrupt previously persisted files, but its error list
  has no write failure. Errors (b)–(e) are safe (run `commands`): they
  all happen before the file is opened.
- **Negative output amount** (`commands_fee`, meat.py:72–73). The fee is
  `rate * 100 * inputs` with no check against the input sum. Spec §2 calls
  the request signer-ready, yet the request can carry a negative amount.
- **An interrupted worker makes the pipeline return a partial list**
  (`interrupt_one_worker`, tx_utils.py:114). `KeyboardInterrupt` is not an
  `Exception`, so the handler that requeues is skipped, but `finally` still
  calls `task_done`. If the signal reaches that worker and not the
  coordinator (`kill -INT` of the worker), `join` returns and the list
  misses that descriptor, with no error. Spec §5 says an interrupt
  abandons the run, and §4.5 promises one result per input. With the
  terminal's Ctrl-C, which also reaches the coordinator, this cannot happen
  (run `interrupt`, theorem `NoPartialReturnHolds`).
- **An interrupted `queue.get()` hangs the coordinator** (`interrupt_hang`,
  tx_utils.py:102). `get` is a round trip to the Manager's server, outside
  the try. Interrupted after the server dequeued, the item is lost with no
  `task_done`, and `join` never returns. Spec §5 allows a worker to block
  forever only at the final pop after drain.
- **Spec divergence, noted but not a run.** After a successful fetch the
  worker sleeps `min_timeout_secs` (tx_utils.py:105–106); spec §4.3 says the
  backoff is reset to zero delay. Time is not modelled, so no run shows it.

## Proofs (TLAPS: `FetchPipelineProofs`, `InterruptiblePipelineProofs`, `DiscoveryProofs`, `CommandsProofs`)

All theorems hold for every finite non-empty set of workers, every input
sequence and every bound, under `ConstantsAssumption`:
- `IInvHolds`: `Spec => []IInv` (the inductive invariant below).
- `TypeCorrect`: `Spec => []TypeOK`.
- `NoDuplicateFetchHolds`: `Spec => []NoDuplicateFetch`.
- `AllFetchedOnReturnHolds`: `Spec => []AllFetchedOnReturn`.
- `ProgressNeverAheadHolds`: `Spec => []ProgressNeverAhead`. The bar never
  passes the results collected, and it shows `len(utxo_id_list)` on return.
- `RefinesContract`: `Spec => Contract!SafeSpec`. Every step is a
  `Complete`, the `Finish`, or a stutter of `<<results, cpc = "done">>`.

The invariants are not inductive alone. `NoDuplicateFetch` needs to know
that a fetching worker's item is in neither the queue nor the results.
`AllFetchedOnReturn` needs `join` to mean that nothing is in flight. So the
proofs go through `IInv`, which TLC also checks as an invariant:
- **Placement.** Each position is in exactly one of: the queue (once), the
  hand of exactly one fetching worker, or the results.
- **UnfinishedCount.** `unfinished = Len(queue) + |Busy|`: the Manager's
  counter equals the queued items plus the workers between `get` and
  `task_done`. This is what makes `unfinished = 0` at `join` imply an empty
  system.
- **Drained.** After the join, the queue is empty and every worker is idle.
- **CountsTrail.** The coordinator's counts trail the lists.
- **InFlightCount.** `Len(queue) + |Fetching| + Len(results) = N`: every
  input occurrence is queued, being fetched, or fetched. With `Drained`
  this gives `Len(results) = N` after the join.
- **FinalCounts.** After the last read of the counts, `resultCount` is
  `Len(results)`: nothing is appended after the join. Together these give
  the bar's final value.

The proof has one lemma per action (`GetPreserves` … `StopPreserves`) that
shows `IInv` is preserved. Small lemmas about `Range`, `Append`, `Tail` and
the cardinality of `Busy` support them. `InitIInv` and `NextIInv` combine
with PTL.

`InterruptiblePipelineProofs` proves `NoPartialReturnHolds`:
`ISpec => []NoPartialReturn` under `GroupSignals` (every signal that
reaches a worker reaches the coordinator too, as a terminal Ctrl-C does).
Its inductive invariant `SignalInv` says two things:
- a coordinator with a pending interrupt is still inside its loop;
- while the coordinator is undisturbed (no pending interrupt, not
  aborted), no process has a pending signal and `FetchPipeline`'s `IInv`
  holds.

`UndisturbedStep` shows that every step from an undisturbed state is a
`FetchPipeline` step (so `NextIInv` applies) or a signal that reaches the
coordinator. `DisturbedStep` shows that a disturbed coordinator never
becomes undisturbed: only `CoordInterrupted` removes its pending signal, and
it aborts. A `"done"` coordinator is therefore undisturbed, and
`IInvAllFetched` gives the result. The single-worker runs show that
`GroupSignals` is needed. TLC checked `SignalInv` as an invariant of the
`interrupt` instance before it was proved.

`ITypeCorrect` proves `ISpec => []ITypeOK` with no assumption on the
signals. `ITypeOK` alone is not inductive: `unfinished >= 0` after a
`task_done` needs the count to exceed the items still to be marked done.
The inductive invariant `TInv` adds two facts:
- a fetching worker holds an input occurrence;
- `unfinished >= Len(queue) + Cardinality(Busy)`.

The inequality is not an equality because an interrupted `get` loses an
item and never marks it done. One lemma per action shows `TInv` is kept.
`BusyGrow`, `BusyShrink` and `BusyMove` give the size of the busy set
after a worker's move. TLC checked `TInv` on both signal patterns before it
was proved.

`KeptApartHolds` proves `ISpec => []KeptApart` with no assumption on the
signals. `KeptApart` is the half of `Placement` that survives interrupts:
the queue and the results are injective, they share no occurrence, and
every fetching worker's item is in neither and in no other worker's hand.
The other half, "every occurrence is somewhere", fails, because an
interrupted `get` loses its item. `KAGet`, `KAResult`, `KARequeue`, `KATail`
and `KAFrame` cover the ways a step can move an occurrence. An interrupted
fetch may append the result, as the Manager may already have done; that is
`KAResult`, the same move as a successful fetch.

`InterruptedRunKeepsContractHolds` proves, under `GroupSignals`,
`ISpec => InterruptedRunKeepsContract`, i.e. `Contract!SafeSpec` for the
interrupted pipeline. `IStepRefines` maps each step:
- an append, by a successful or an interrupted fetch, is a `Complete`.
  The item is new by `KeptApart`, and the run has not returned by
  `NotDoneWhileFetching`. An undisturbed coordinator returns only after
  `join` (`IInv`'s `Drained`), and a disturbed one never returns.
- a coordinator step happens only when the coordinator is undisturbed.
  There `IInv` holds, and `FetchPipeline`'s `StepRefines` applies.
- every other step, `CoordInterrupted` included, leaves `results` and
  `cpc = "done"` alone.

The invariant is `SignalInv /\ TInv /\ KeptApart`. Mutant
`WorkerInterruptedCaught` catches `BaseException` in the handler. It puts
an item back after the Manager appended it, and breaks both properties.

`DiscoveryProofs` proves these theorems for every page cap, fetch limit and
initial listing, under `DiscoveryAssumption`:
- `DiscoveryTypeCorrect`: `Spec => []TypeOK`, deposits and spends included.
- `ReturnsFirstOutputsHolds`: `Spec => []ReturnsFirstOutputs`.
- `NoDuplicateWithoutChurn`: without churn a returned list has no
  duplicate. The duplicate of `discovery_churn` needs a deposit or spend
  during the scan.
- `DInvHolds`: `Spec => []DInv`, the inductive invariant itself.
- `RequestsProgressHolds`: `Spec => RequestsProgress`. Every request
  after which the loop goes on either halves `request_limit` or keeps it
  and moves `skip` on by at least `request_limit`. A page that does not end
  the loop is not short, so `skip' = skip + Len(page) >= skip + limit`
  (`RequestOkProgress`). A retried request has a limit above 1, and halving
  makes it smaller (`RequestFailedProgress`). This is the decreasing
  measure behind `ScanEnds`: with no churn `skip <= Len(listing)` (`DInv`),
  so the pair (limit, outputs left) decreases lexicographically. The
  theorem only needs `TypeOK`. `ScanEnds` itself is still checked by TLC
  only.

All of them go through `DInv`, which TLC also checks in the `discovery` run.
While `churn = 0` it says:
- the listing is `Ids(n)`, the outputs `1..n` in order;
- in the loop, `skip <= Len(listing)` and `utxoList = Ids(skip)`;
- once returned, `utxoList = Ids(min(fetch limit, Len(listing)))`.

`ReturnsFirstOutputs` alone is not inductive, because it says nothing
about the loop. The key step is `RequestOkDInv`. Let
`e = min(skip + limit, available)`. The page is the slice from
`skip + 1` to `e`, so the new list is `Ids(e)` (lemma `IdsExtend`). The loop
breaks when `e >= fetch limit` or the page is short. A short page means
`e = available`, so in both cases `min(fetch limit, e)` is
`min(fetch limit, available)`, and the cut gives that prefix
(lemma `IdsPrefix`). A failed request changes only the limit. A deposit
or spend makes `churn > 0`, and churn never decreases.

`CommandsProofs` proves two theorems under `CommandsAssumption`:
- `ErrorsLeaveFilesIntactHolds`: `Spec => ErrorsLeaveFilesIntact`. No
  invariant is needed. `StepLeavesFiles` shows that every step satisfies
  the action. Only `Open` and `Dump` change a file. `Open` keeps its
  command running, and `Dump` is the step the property excludes.
- `FilesIntactWithReliableWrites`: `Spec => []FilesIntactBetweenCommands`
  under the hypothesis `~WriteFaults`. The inductive invariant `CInv` says:
  - between commands the next step is `"work"`;
  - only a command that writes reaches `"open"` or `"dump"`;
  - a file is partial only at `"dump"`, and only the running command's
    output file.

  TLC checked `CInv` on the `commands_reliable` instance before it was
  proved; it is not a run property, since beyond the type and control
  shape it only restates `FilesIntactBetweenCommands`. With `WriteFaults = TRUE` the
  theorem is false, as `commands_write_fault` shows. The hypothesis is the
  fault model, not a fact about the code.

Only model-checked:
- liveness (`Termination`, `ScanEnds`, `RunEnds`) and the fairness part of
  `ImplementsContract`, because TLAPS does not handle ENABLED or fairness
  reasoning;
- `TypeOK` of `Commands`. The request document's `amount` is
  `InputsAmount`, a `FoldLeft`. That is a recursive function over subsets
  (`Folds!MapThenFoldSet`). Showing that its value is an integer takes
  induction over the input list. The induction theorems take an operator
  parameter, which the installed provers cannot instantiate.

## Not modelled (yet), and plan

- `ls` and `cl` only print and change no file.
- `get_outputs`, the protobuf conversion in `build_trezor_tx` and the
  Trezor device protocol in `sign.py` are data formatting. Only their
  outcomes (a document, or an exception) are modelled.

- utxo_utils.py 59–220 and tx_utils.py 161–264 are disabled code inside
  `'''` string literals (a parallel discovery and an old `sign_tx`). They
  are never executed, so nothing models them.
- Signals other than SIGINT (SIGKILL, SIGTERM) end a process with no
  `finally`. Their effect on the queue is the `GetInterrupted` case: an
  item with no `task_done`.

Plan:
1. Couple `Discovery`'s result to `Commands`' `DlLists`, so that the
   churn duplicate flows into a request with a repeated input.
