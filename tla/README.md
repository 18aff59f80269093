# TLA+ models of the HeraJVM Cell SPU controller

The models cover `src/tools/bootImageRunner/spuCtrl.C`, the host (PPE) side
of HeraJVM's Cell support. It also uses `spuDefs.h`, the mailbox codes and
local-store layout, and `cellspu/bootloader.c`, the SPU boot stub.
spuCtrl.C boots the SPUs, loads the Java runtime into their local stores and
keeps a copy of the VM's global offset table (the JTOC) in each of them. It
also runs one support thread per SPU, which takes migration requests from a
shared work list and drives each migration through the SPU's mailboxes.

## The system

### Parts and how they interact

| Part | Code | Runs in |
|---|---|---|
| Boot | `startSpuThreads`, `waitForSpus`, `loadRuntimeOnSpus`, `waitForRuntime`, `bootloader.c main` | control thread, one thread per SPU context, the SPUs |
| GOT coherence | `reloadJtoc`, `loadTocTables`, `waitForProxyload` | every support thread, concurrently, no lock |
| Work queue | `migrateToSubArch`, `chooseThreadID`, `spu_support_thread`, `doMigration`, `releaseThread`, `updateStatus`, `checkIdComplete`, `subArchGet*Return` | VM threads (callers) and the support threads, under `spu_data->lock` and `condVar` |
| Migration protocol | `prepareMigration`, `runMigratedMethod`, `supportSPU` and its handlers | one support thread with its SPU, through three mailboxes |
| Processor bind | `sysVirtualSubArchProcessorBind` | a VM thread, on an SPU's mailboxes |
| Life cycle | `initSpuCtrl`, `spuCtrlFunc`, `stopSpuThreads` | the VM's main thread and the control thread |

A migration goes through the system as follows:

1. A VM thread calls `migrateToSubArch`. Under the lock it claims a free
   slot of `threads[]`, fills in the request, pushes the slot on the
   `workToDo` LIFO and broadcasts `condVar`.
2. A support thread pops the slot. If the slot's `procAffinity` names
   another SPU, the thread pushes it back and broadcasts.
3. Otherwise `doMigration` runs. `prepareMigration` first brings the SPU's
   JTOC copy up to date with `reloadJtoc` and re-DMAs the TOC tables. It
   waits for the DMAs with `waitForProxyload`, then sends the method and
   its parameters, waiting for an ACK after each.
4. `runMigratedMethod` sends the run code. `supportSPU` then serves the
   SPU's console and trap requests until a return message arrives.
5. `doMigration` marks the slot complete and calls `releaseThread`.
6. The VM thread polls `subArchCheckStatus`, then reads the result with
   `subArchGet*Return`, which clears `in_use`.

The VM grows the JTOC concurrently. It publishes new numeric and reference
offsets, then sets `boot_record->jtocDirty`.

### State

| State | Code |
|---|---|
| slot table | `threads[i].in_use`, `.complete`, `.procAffinity`, request fields, `.retVal[2]`, `.next` |
| work list | `workToDo` |
| host JTOC state | `boot_record->jtocNumericOffset`, `jtocReferenceOffset`, `jtocDirty` |
| per-SPU JTOC state | `spus[n].jtocDirty`, `.jtocStart`, `.jtocEnd` (the cached window) |
| local store and DMA queue | the SPU's JTOC mirror and the DMAs outstanding on tag group 15 |
| mailboxes | SPU inbound, 4 words; outbound, 1 word; outbound interrupt, 1 word |
| life cycle | `exit_signal`, `global_spu_data` |

### Hard behaviours

- **Unlocked JTOC updates.** Every support thread reads and writes the JTOC
  dirty flags with no lock, while the VM updates the offsets.
- **Hand-computed DMA batches.** `reloadJtoc` splits each JTOC extension
  into 4-, 8- and 16n-byte DMAs by hand, so as to meet the MFC's alignment
  rules.
- **Condition-variable scheduling.** The work list is a LIFO scheduled by a
  condition variable. Items bound to an SPU by affinity are re-queued.
- **Non-blocking mailbox writes.** `SPE_MBOX_ANY_NONBLOCKING` writes can be
  partial, and the code does not check for it.
- **Two-message returns.** A long or double return value arrives as two
  messages.
- **exit(1) on every error.** Every error path ends the process, so the
  models treat it as a terminal state.

## Modules

| Module | Models | Kind |
|---|---|---|
| `GotReload` | the DMA batches `reloadJtoc` and `loadRuntimeOnSpus` compute | pure operators, plus reference definitions |
| `GotCoherence` | JTOC coherence across all support threads and the VM | state machine; EXTENDS `GotReload` |
| `WorkQueue` | slot table, work list, support-thread scheduling, polling and harvesting | state machine |
| `MigrationProtocol` | one SPU's mailbox protocol, migration after migration | state machine, with the SPU runtime as its environment |
| `MigrationCall` | what one migration promises its caller: the arguments go in, one result of the run type comes back | abstract specification; `MigrationProtocol` refines it |
| `ProcessorBind` | `sysVirtualSubArchProcessorBind` writing to an SPU's mailboxes beside the support thread | composition; EXTENDS `MigrationProtocol` |
| `SpuCtrl` | boot (`initSpuCtrl`, `startSpuThreads`, `waitForSpus`, `loadRuntimeOnSpus`, `waitForRuntime`, `bootloader.c`) and the life cycle (`spuCtrlFunc`, `stopSpuThreads`) | state machine, with liveness |
| `MC*` | constants for TLC | model values, definitions, symmetry |

### GotReload

A gap `[lo, hi)` between the cached bound and the new bound is a record
`[lo, hi, xfers]`. Each `if` of `reloadJtoc` is one operator, named
`RaiseLoToLong`, `RaiseLoToQuad`, `LowerHiToLong`, `LowerHiToQuad` or
`CopyBulk`. Each operator takes a gap state to a gap state and appends the
`spe_mfcio_get` it issues.

`NumericCopies` and `ReferenceCopies` compose these operators in the code's
order. The numeric side raises `lo` first; the reference side lowers `hi`
first.

`BootCopy` is the 16-byte-rounded boot copy that `loadRuntimeOnSpus` makes.

The batches are checked against two reference definitions:
- `ExactBatch`: the batch writes exactly the wanted slots, none of them
  twice;
- `DmaValid`: each transfer is 1, 2, 4 or 8 bytes and naturally aligned, or
  a multiple of 16 bytes up to 16 KiB and 16-aligned, with the same low four
  bits on host and local addresses.

`LONG_BOUNDARY`, `QUAD_BOUNDARY`, `FLOOR16` and `CEIL16` come from
`spuCtrl.h`, which is not in the repository. They are taken as 8-byte and
16-byte boundaries, as spec.md's scenario E uses them.

### GotCoherence

The variables map to the code as follows:

| Variable | Code |
|---|---|
| `numOff`, `refOff`, `hostDirty` | the boot-record fields |
| `dirty`, `cacheS`, `cacheE` | `spus[n].jtocDirty`, `.jtocStart`, `.jtocEnd` |
| `mirror` | the host slots whose copy has landed in the SPU |
| `inflight` | slots of DMAs issued and not yet complete |
| `tocPending` | the TOC-table DMAs |
| `pc` | each support thread's position in `prepareMigration` |
| `snap` | the offsets the thread read |

Each shared-memory step of the code is one action:
- `StartPrepare`;
- `Fanout`: lines 510-516;
- `ReadOffsets` or `SkipReload`: 517-524;
- `CopyJtoc`: 525-640, which clears the host flag, issues the batch and
  commits the window;
- `LoadTocTables`;
- `WaitForProxyload` or `SkipWait`: 643-658;
- `SendMethod`.

The environment actions are:
- `DmaComplete`: the MFC completes the tag group;
- `VMExtend` and `VMSetDirty`: the VM, modelled from spec.md.

`Init` is the state `loadRuntimeOnSpus` leaves: every SPU holds the boot
copy and every flag is clear.

### WorkQueue

Each section under `spu_data->lock` is one action: `Submit`, which is
`migrateToSubArch` with `chooseThreadID`, then `TakeWork`, `WaitWork` and
`Requeue`. Each unlocked access to a slot is an action of its own:
- `StartMigration` reads the request;
- `ReturnValue`, `MarkComplete` and `ReleaseThread` are the steps of
  `doMigration`;
- `Poll` and `Harvest` are the caller's steps for a call that returns a
  value. A void call (`cret[c] = "V"`) ends with `PollVoid`. The code has
  no `subArchGet*Return` for void, so nothing the caller can call clears
  its slot's `in_use`.

`pthread_cond_broadcast` moves every waiting thread back to the loop head,
where it re-tests `workToDo`; this is the code's `while` loop.

The data is abstracted as follows:
- a request's fields are the caller that wrote them, and its `retType` is
  the caller's `cret`, void or a value type;
- a return value is the request whose run produced it.

The migration itself is `MigrationProtocol`'s. The `exit(1)` paths are
`SubmitNoFreeSlot` and `HarvestNotComplete`; each ends in the `Exited`
stutter.

`releaseThread(t)` is the function of that name; `ReleaseThread` passes it
the SPU index, as `doMigration` does.

`AffinityMatches(a, w)` is the test `procAffinity == (char)-1 ||
procAffinity == spuId` of `spu_support_thread`. `FairSpec` adds weak
fairness of each support thread's steps (`WorkerStep(w)`) for the liveness
run.

### MigrationProtocol

The host variables map to the code as follows:

| Variable | Code |
|---|---|
| `hpc` | the support thread's position |
| `i` | `prepareMigration`'s loop index |
| `retVal`, `complete` | the slot's fields |
| `inbox`, `intr`, `outbox` | the three mailboxes |

`InboxWrite` writes as many words as fit, as `SPE_MBOX_ANY_NONBLOCKING`
does. `OutboxTake` reads only what is there, as the non-blocking
`spe_out_mbox_read` does.

One action per host step:

| Step | Actions |
|---|---|
| send and ACK | `HostSendMethod`/`HostMethodAck`, `HostSendParam`/`HostParamAck`, `HostSendRun`/`HostRunAck` |
| `supportSPU` switch | `HostConsole`, `HostFakeTrap`, `HostReturnUpper`, `HostReturn`, `HostFatalSignal` |
| completion | `HostComplete` |

A NACK or an unknown code leads to `exit(1)`.

The SPU runtime is the environment, modelled from spec.md 4.5 and 6. Its
actions are `SpuLoadMethod` (ACK, or NACK with an error word), `SpuLoadParam`,
`SpuRun`, `SpuConsole`, `SpuFakeTrap`, `SpuGetAck`, `SpuReturn`,
`SpuReturnLower` and `SpuFault`. It writes a payload to the outbound mailbox
before it writes the code to the interrupt mailbox, and it blocks while a
mailbox is full.

`HostStep` (every host action after `HostStart`) and `SpuCommandLoop` (the
runtime's command loop) are the steps `FairSpec` makes weakly fair.

### MigrationCall and the refinement

`MigrationCall` states what a caller of `migrateToSubArch` is promised: a
call with arguments and a return type is computed, and completes with a
result that is a word sequence of that type's length (none for void, two for
long and double), or the process fails. `MigrationProtocol` defines the
mapping:
- `AbsSt`: `exited` is `Failed`; an idle host is `Idle`; a host serving or
  done with an idle SPU has `Computed`; anything else is `Called`;
- `AbsResult`: the `retVal` words that `ReturnWords` says the run type
  returns;
- `args`, `rtype`, `done` are `params`, `retType`, `complete`.

`MigrationCallSpec == Abstract!Spec` is checked as a property of `FairSpec`.
It holds only if `HostStart` clears `complete` for the new request, and
every migration eventually completes under the fairness of the two loops.

### ProcessorBind

`ProcessorBind` adds a VM thread running `sysVirtualSubArchProcessorBind`
to the migration protocol, on the same mailboxes:
- `BindWrite` writes `SET_PROCESSOR_REG` and the processor object with the
  same non-blocking write the support thread uses;
- `BindAwaitAck` reads the outbound mailbox; a word other than ACK makes it
  read the rest and `exit(1)`;
- `SpuSetProcessor` is the runtime's handler (from spec.md): it consumes
  both words, sets the register (`procSet`) and replies ACK.

Nothing in the code serialises the bind against a migration on that SPU.

### SpuCtrl

Each SPU context is a `bootloader.c` run plus its host thread; the control
thread (`cpc`) runs `spuCtrlFunc`; `vpc` is the VM's main thread, which
calls `initSpuCtrl` and later `stopSpuThreads`.

| Variable | Code |
|---|---|
| `spc`, `sphys` | the boot stub's position and the phys id it read |
| `intr`, `inbox` | each SPU's outbound interrupt mailbox and inbound mailbox |
| `ci`, `msg`, `ids` | `waitForSpus`'s loop index, the word read, the ids received |
| `spus` | the `spus[]` order after the selection sort |
| `recPhys` | the phys id `waitForRuntime` reads back from each runtime |
| `image` | each context's runtime DMAs on `PROXY_TAG_GROUP`: none, issued, landed |
| `bootRec` | the boot record's `oolRuntimeCodeLength` and `runtimeEntryLength` |
| `global`, `bootDone` | `global_spu_data` and `boot_record->subArchBootComplete` |
| `exited` | `exit(1)` |

At the start there is no control thread and no context. `InitSpuCtrl` is
`initSpuCtrl` creating the control thread. `CreateContext` is one pass of
`startSpuThreads`' loop: it creates a context, loads the bootloader and
starts the context's boot thread, which may run before the next context
exists. `initJavaThreads` and `registerEventHandlers` follow the last pass
in the same step, since nothing here reads what they create.

The boot stub sends its context id as two words (`SendIdHi`, `SendIdLo`),
reads its phys id (`readMailbox`, a blocking read of the inbound mailbox
channel), then waits for `RUNTIME_COPY_COMPLETE` and jumps to the
runtime, which reports `JAVA_VM_STARTED` and its phys id (modelled from
spec.md). The controller's actions are `IdentifySpu` (one SPU's id, with
`PhysIdOf`, which gives -1 as `FAILED` when `getPhysID` fails), `SortSpus`
(the selection sort as the recursive operator `SortOrder`, with sentinel
`0xefffffff` as `SENTINEL`), the two loops of `loadRuntimeOnSpus`
(`LoadRuntime` issues a context's runtime code, entry method, JTOC and
TOC-table DMAs; `LoadRuntimeTooLong` is `CodeTooLong` or `EntryTooLong`,
the code's `>=` checks against `CODE_ENTRYPOINT` and `CODE_ENTRYPOINT_END`
of `spuDefs.h`, failing after the DMA it guards is issued; `Release` waits for the context's tag group and writes
`RUNTIME_COPY_COMPLETE`), the MFC's `DmaLand`, `CheckRuntime`, `Publish`, `CtrlWait`,
`Shutdown`, and the VM's `StopBeforeBoot`, `StopSignal`, `StopJoined`.
`CtrlWait` is `pthread_cond_wait` with no predicate, so `SpuriousWakeup`
may end it, and `StopSignal` only wakes a thread already waiting.

`SENTINEL = 1000` and `FAILED = 1001` keep the code's order (the sentinel
below `0xffffffff`, both above every phys id) within TLC's integers.

## Runs

| Run | Cfg | Expect | What it shows |
|---|---|---|---|
| `got_pass` | `MCGotCoherence.cfg` | pass | From every window an SPU caches, every reload batch up to 11 slots a side is exact (`ReloadCopiesExactly`) and MFC-valid (`ReloadTransfersValid`). A thread sends `LOAD_STATIC_METHOD` only after its cached window has landed (`GotFencedBeforeMethodLoad`), whatever two threads and the VM do. |
| `got_stale_flag` | `MCGotCoherence_StaleGotNoticed.cfg` | violation | A VM update between `reloadJtoc`'s read of the offsets and its clearing of `jtocDirty` is lost. `waitForProxyload` then clears the SPU's own flag, so the mirror stays stale. |
| `got_toc_fence` | `MCGotCoherence_TocFencedBeforeMethodLoad.cfg` | violation | With a clean JTOC, `waitForProxyload` does not wait, so the TOC-table DMAs are unfenced at `LOAD_STATIC_METHOD`. |
| `queue_pass` | `MCWorkQueue.cfg` | pass | Void and int calls from three callers, every request bound to SPU 1: queued work is never left with every support thread asleep (`NoLostWakeup`), through submissions, re-queues and the wrong-slot release. |
| `queue_double_claim` | `MCWorkQueue_NoDoubleClaim.cfg` | violation | `releaseThread(spu_data, spuId)` frees the slot numbered like the SPU, and a second caller claims a slot that has not been harvested (8 steps). The same release can free a slot still on `workToDo`; pushing it again makes the list a cycle. |
| `queue_progress` | `MCWorkQueue_Progress.cfg` | pass | Two callers and unpinned work, so several items are on the LIFO list: while work is queued, some support thread eventually starts a migration (or the process has exited) (`QueuedWorkIsRun`), under weak fairness of the support threads. Which caller's work runs is not promised (see below). |
| `protocol_pass` | `MCMigrationProtocol.cfg` | pass | The host writes the method triple, then the parameters last first, then the run code, and afterwards only ACKs (`HostTrace`). It never overruns the inbound mailbox (`NoWordDropped`). `retVal` holds exactly the words the SPU returned (`ReturnValueCaptured`). The protocol implements `MigrationCall` (`MigrationCallSpec`). |
| `bind_steals_ack` | `MCProcessorBind.cfg` | violation | The processor bind can read the ACK of the support thread's `LOAD_STATIC_METHOD` and return before the SPU has set the register (`BindReturnsAfterSet`, 5 steps). |
| `boot_pass` | `MCSpuCtrl.cfg` | pass | With every phys id readable: after the sort `spus[]` is ordered by phys id (`SpusSortedByPhysId`); every boot thread has read its `&spus[i].ctx` before `waitForSpus` frees that array (`BootArgsReadBeforeFree`); once `subArchBootComplete` is set every SPU runs the runtime with its own phys id (`BootRunsEveryRuntime`); a bootloader jumps only into an image whose DMAs have landed and whose code and entry method lie inside their local-store regions (`RuntimeLandedBeforeJump`); and boot completes when the code is shorter than `0x700` and the entry method shorter than `0x900`, as spec.md's layout table gives them (`BootCompletes`). |
| `boot_phys_id_fails` | `MCSpuCtrl_PhysIdFail.cfg` | violation | A failed `getPhysID` returns -1, which is `0xffffffff` unsigned, above the sort's sentinel `0xefffffff`. The sort then picks index 0 again and `spus[]` holds a context twice (`SpusSortedByPhysId`). |
| `stop_lost_signal` | `MCSpuCtrl_StopReturns.cfg` | violation | If `stopSpuThreads` signals `exit_signal` before `spuCtrlFunc` waits, the signal is lost and the join never returns (`StopReturns`). |
| `ctrl_spurious_wakeup` | `MCSpuCtrl_Spurious.cfg` | violation | `spuCtrlFunc` waits with no predicate, so a spurious wakeup destroys the SPU contexts while the VM runs (`ShutdownOnlyAfterStop`). |

Each property of a passing run has a mutant in PROJECT.json: a plausible
bug in the code it is about, which TLC finds. The mutants are:
- clearing the worker flag at the commit, as spec.md 4.3 words it;
- an 8-byte step where 4 bytes are left;
- skipping the 4-byte copy that realigns the fixed end of a gap;
- taking the start from the reference offset;
- a submission without the broadcast;
- sending the parameters in index order;
- storing every final word in `retVal[0]`;
- sending the next parameter before its ACK;
- a new migration that keeps the previous `complete` flag;
- a selection sort that does not reset its minimum each round;
- `waitForSpus` moving to the sort one id early;
- `loadRuntimeOnSpus` not waiting for a full mailbox;
- a mailbox read of one word where `waitForSpus` and `waitForRuntime`
  read two;
- `(char)-1` read as 255, as with an unsigned `char`;
- `RUNTIME_COPY_COMPLETE` written without the tag-group wait.

`RuntimeLandedBeforeJump` is also broken by an entry-method check that
leaves out its base, `runtimeEntryLength >= CODE_ENTRYPOINT_END`
(`EntryTooLongUnbased`). The checker is given the fence mutant.

### Bounds and why they are enough

**GotCoherence.**
- Two SPUs: the two races need one thread fanning out while another is
  between its read and its commit.
- `SlotCounts = {0, 1, 2, 11}`: the VM grows each side of the GOT to 0,
  1, 2 or 11 slots of 4 bytes. With `JtocPtr = 4096`, a cached bound then
  lies at every residue mod 16 (0, 4, 8, and 44, which is 12).
- `ReloadCopiesExactly` and `ReloadTransfersValid` look wider than the
  windows the VM publishes. From the window each SPU has cached, they
  check the batch for growth to every window of 0 to 11 slots a side.
  The results per cached window form a constant function (`ExactFrom`,
  `ValidFrom`), so TLC computes it once. These gaps take every step of
  `reloadJtoc` that can copy:
  - the 4-byte and the 4- or 8-byte head copies at the moving end,
    including the 4-byte end case at line 545;
  - the 4- and 8-byte copies that realign the fixed end;
  - 16- and 32-byte bulk transfers.
  The one step not reached is the 4-byte variant of the fixed end's quad
  step. It cannot copy: a 4-byte gap left there is taken by the long step
  before it. Each reached case was confirmed with a TLC run of an
  invariant that forbids it.
- A dense bound of 0..3 slots keeps every gap inside one 16-byte line, so
  that no fixed-end or bulk copy is ever issued.
- Size: 3.2 million states, about 2 minutes.

**WorkQueue.**
- Two SPUs, two slots and three callers: this is enough for the table to
  fill, and for a slot index to equal an SPU index.
- Every request is bound to SPU 1, so SPU 0 re-queues what it takes.
- With affinity -1 as well, the model has 16.9 million states and takes 14
  minutes. That setting was checked once and `NoLostWakeup` held.
- Callers make void and int calls. Void calls never free their slot, so
  `SubmitNoFreeSlot` is reached.
- The progress run has two support threads, three slots, two callers,
  affinity -1 and int calls only. This gives about 425,000 states in about
  1 minute; with void calls as well it runs past 15 minutes.
- With two callers, per-caller progress ("a submitted request is eventually
  complete") is violated, and TLC finds two ways:
  - a caller that keeps resubmitting keeps an older request at the tail of
    the LIFO list;
  - the `releaseThread` bug pushes a slot that is still on the list, and
    the support threads run round the resulting cycle.
  spec.md keeps LIFO on purpose and promises no per-caller order, so the
  run checks system progress (`QueuedWorkIsRun`).

**MigrationProtocol.**
- Up to 3 parameters: enough to tell their order, and their six words
  overrun the 4-word inbox if a handshake were skipped.
- Every return type.
- Up to two console requests per migration.
- Two values per returned word.
- The bind composition uses one parameter, one return value and one
  request: the race needs only the first ACK.

**SpuCtrl.**
- Three SPU contexts with phys ids drawn from 0..3: every order of three
  distinct ids, so the sort has real work, and a free id.
- The interrupt mailbox holds one word and the inbound mailbox four, as the
  hardware does; with three contexts the boot stubs contend for the
  controller.
- Runtime code lengths `0x6FC` and `0x700`, and entry-method lengths
  `0x8FC`, `0x900` and `0x910`. Each check is met on both sides of its
  boundary:
  - `0x6FC` and `0x8FC` are the longest lengths accepted, and `0x700` and
    `0x900` the shortest rejected;
  - `0x900` would end exactly at `CODE_ENTRYPOINT_END`, so a `<=` reading
    of the layout makes `BootCompletes` fail there (checked once);
  - `0x910` would run past `CODE_ENTRYPOINT_END`, which is what the
    unbased-check mutant needs.
  One record of the six fits, and the failed checks are reached with the
  first context's DMAs issued.
- Size: about 64,000 states, 27 seconds.

### Fairness

- **SpuCtrl:** each SPU's boot stub, the control thread, the VM's call of
  `initSpuCtrl` at start-up and its join are weakly fair: each runs on its own hardware thread or pthread and is
  runnable when enabled. The MFC completes every DMA it was given
  (`DmaLand` is weakly fair). A spurious wakeup and the VM's decision to stop
  get no fairness: neither is promised to happen.
- **MigrationProtocol:** `FairSpec` makes the host's steps after
  `HostStart` and the SPU's command loop weakly fair. Starting a new
  migration and the runtime's own choices (console, trap, fault) are not.
- **WorkQueue:** each support thread's steps are weakly fair. No strong
  fairness is assumed: `spu_data->lock` is a pthread mutex, which is not
  fair, so a thread that is repeatedly enabled may still never get it.
  Work pinned to one SPU can therefore starve while another SPU re-queues
  it forever; the progress run uses unpinned work for that reason. The
  callers get no fairness.

## Not modelled

The hazards these parts carry are listed in PROJECT.json.

- console formatting, which is output only;
- libspe resource creation, event handlers and `spe_context_run`, which are
  I/O with `exit(1)` on failure;
- the contents of the runtime image `loadRuntimeOnSpus` copies: which
  bytes land is data; when they land is modelled (`image`);
- weak memory: the models assume every thread sees every store in program
  order. `doMigration` stores `retVal` then `complete` with no barrier and
  the VM reads them with none (spuCtrl.C:1028, 1075); on the PowerPC that
  data race can show `complete` before `retVal`. A store-buffer model of
  the support threads would be needed;
- a runtime that sends `RETURN_VALUE_L_LOWER` without the upper word: the
  host accepts it (spuCtrl.C:990), but the runtime is modelled from
  spec.md, which always sends the upper word first;
- the uninitialised `ctrlArgs` read at line 388, which is undefined
  behaviour with no outcome the build defines;
- the rest of `spuDefs.h`'s local-store layout (caches, statics, the TOC
  tables' and stack's places): no host code computes with it beyond
  `JTOC_PTR` and the code and entry-method bounds, which are modelled;
- `readMailboxCnt` in `bootloader.c`, which nothing calls;
- the clipping of the SPU count in `startSpuThreads`: `N` is the count
  after it;
- multi-word console payloads: how the SPU runtime sends them through a
  1-word mailbox is not in the repository;
- the 16 KiB limit on a single bulk JTOC DMA: reaching it needs JTOC
  growth of more than 4096 slots, beyond TLC's reach in `GotCoherence`;
  `DmaValid` states the limit;
- progress of pinned work, which needs the fairness the mutex does not
  give (see Fairness);
- progress of each caller's own request: LIFO order and the
  `releaseThread` cycle both break it (see Bounds), and spec.md promises
  no per-caller order;
- the slot leak of void calls (spuCtrl.C:497, 1031): the model has it
  (`PollVoid` leaves `in_use` set, and TLC reaches a slot in use with no
  caller), but asserting it would take a violation run of its own;
- `WorkQueue` as a refinement of `MigrationCall`: it does not refine it
  while `releaseThread` frees the wrong slot.
