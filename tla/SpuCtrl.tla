-------------------------------- MODULE SpuCtrl --------------------------------
(***************************************************************************)
(* The SPU control thread's life (spuCtrl.C: initSpuCtrl, spuCtrlFunc,     *)
(* startSpuThreads, waitForSpus, loadRuntimeOnSpus, waitForRuntime,        *)
(* stopSpuThreads), the SPU bootloader it talks to (cellspu/bootloader.c)  *)
(* and the VM thread that starts and stops it.                             *)
(*                                                                         *)
(* Each SPU context c starts in bootloader.c main: it sends its 64-bit     *)
(* SPE id as two words through its outbound interrupt mailbox (1 word      *)
(* deep), reads its physical id and the copy-complete signal from its      *)
(* inbound mailbox and jumps into the Java runtime, which reports          *)
(* JAVA_VM_STARTED and its physical id.  The control thread reads the      *)
(* contexts in creation order, looks each physical id up (getPhysID), then *)
(* reorders the contexts by physical id before releasing them.  The        *)
(* runtime image DMAs are abstracted to one tag group per context; their   *)
(* JTOC part is GotCoherence's.                                            *)
(***************************************************************************)
EXTENDS Integers, Sequences, FiniteSets

CONSTANTS
    N,              \* no_spu_threads
    PhysIds,        \* the physical SPU numbers the kernel may report
    PhysIdCanFail,  \* the phys-id file may be missing (getPhysID returns -1)
    CodeLengths,    \* the boot record's possible oolRuntimeCodeLength
    EntryLengths    \* the boot record's possible runtimeEntryLength

ASSUME /\ N \in Nat \ {0} /\ PhysIds \subseteq Nat /\ PhysIdCanFail \in BOOLEAN
       /\ CodeLengths \subseteq Nat /\ EntryLengths \subseteq Nat

Ctx == 0 .. N - 1   \* the contexts, by creation index

\* spuDefs.h
RUNTIME_COPY_COMPLETE == 16
JAVA_VM_STARTED == 17

\* The sort's sentinel 0xefffffff and getPhysID's -1 read as an unsigned
\* int, 0xffffffff.  Both exceed TLC's integers; what the code depends on is
\* their order: every real physical id < SENTINEL < FAILED.
SENTINEL == 1000
FAILED == 1001

INBOX_DEPTH == 4

\* spuDefs.h: the local-store layout of the runtime's code.  The runtime
\* code goes below the entry method, the entry method below the object
\* cache table.
RUNTIME_CODE_START == 0      \* 0x0
CODE_ENTRYPOINT == 1792      \* 0x700
CODE_ENTRYPOINT_END == 4096  \* 0x1000

\* The two words of context c's 64-bit SPE id (id >> 32, then (int) id).
IdHi(c) == 50 + c
IdLo(c) == 60 + c

VARIABLES
    physOf,   \* the physical SPU each context runs on
    spc,      \* each SPU: bootloader, then Java runtime
    sphys,    \* bootloader's phys_id
    intr,     \* each context's outbound interrupt mailbox (1 word)
    inbox,    \* each context's inbound mailbox (4 words)
    cpc,      \* the control thread
    ci,       \* its loop index i
    msg,      \* words read so far by a 2-word blocking mailbox read
    ids,      \* waitForSpus's phys_ids[] (a local, dead after the sort)
    spus,     \* spu_data->spus[]: position -> context
    recPhys,  \* spus[...].phys_id, stored with the context's SpuData
    vpc,      \* the VM thread that calls stopSpuThreads
    global,   \* global_spu_data != NULL
    bootDone, \* boot_record->subArchBootComplete
    exited,   \* the process called exit(1)
    image,    \* each context's runtime DMAs on PROXY_TAG_GROUP
    bootRec   \* the boot record's oolRuntimeCodeLength and runtimeEntryLength

vars == <<physOf, spc, sphys, intr, inbox, cpc, ci, msg, ids, spus, recPhys,
          vpc, global, bootDone, exited, image, bootRec>>

Words == Nat
SPcs == {"None", "Boot", "Hi", "Lo", "Phys", "Copy", "Jump", "Started", "Java", "Quit"}
CPcs == {"None", "Start", "WaitSpus", "Sort", "Load", "Release", "WaitRuntime", "Publish", "Wait",
         "Waiting", "Shutdown", "Done"}

TypeOK ==
    /\ physOf \in [Ctx -> PhysIds]
    /\ spc \in [Ctx -> SPcs] /\ sphys \in [Ctx -> Words]
    /\ intr \in [Ctx -> Seq(Words)] /\ inbox \in [Ctx -> Seq(Words)]
    /\ cpc \in CPcs /\ ci \in 0 .. N /\ msg \in Seq(Words)
    /\ ids \in [Ctx -> Words] /\ spus \in [Ctx -> Ctx]
    /\ recPhys \in [Ctx -> Words]
    /\ vpc \in {"Init", "Run", "Join", "Returned"}
    /\ global \in BOOLEAN /\ bootDone \in BOOLEAN /\ exited \in BOOLEAN
    /\ image \in [Ctx -> {"None", "Issued", "Landed"}]
    /\ bootRec \in [code : CodeLengths, entry : EntryLengths]

\* Process start: no control thread, no SPU context, global_spu_data NULL.
\* physOf is where the kernel will run each context once created.
Init ==
    /\ physOf \in {f \in [Ctx -> PhysIds] :
                       \A a, b \in Ctx : a # b => f[a] # f[b]}
    /\ spc = [c \in Ctx |-> "None"] /\ sphys = [c \in Ctx |-> 0]
    /\ intr = [c \in Ctx |-> <<>>] /\ inbox = [c \in Ctx |-> <<>>]
    /\ cpc = "None" /\ ci = 0 /\ msg = <<>>
    /\ ids = [c \in Ctx |-> 0] /\ spus = [k \in Ctx |-> k]
    /\ recPhys = [c \in Ctx |-> 0]
    /\ vpc = "Init" /\ global = FALSE /\ bootDone = FALSE /\ exited = FALSE
    /\ image = [c \in Ctx |-> "None"]
    /\ bootRec \in [code : CodeLengths, entry : EntryLengths]

(***************************************************************************)
(* The sort of waitForSpus, as operators.                                  *)
(***************************************************************************)
\* The inner loop: the first index holding the least value below
\* SENTINEL, or 0 when there is none (current_idx's initial value).
Pick(a) ==
    IF \E j \in Ctx : a[j] < SENTINEL
    THEN CHOOSE j \in Ctx : /\ a[j] < SENTINEL
                            /\ \A k \in Ctx : a[k] > a[j] \/ (a[k] = a[j] /\ k >= j)
    ELSE 0

\* Mutant: the chosen entry not overwritten with the sentinel.
SortOrderNoReset(a, n) ==
    [k \in 0 .. n - 1 |-> Pick(a)]

\* The outer loop: the creation indices in the order they are copied to
\* new_spus, each chosen entry then overwritten with the sentinel.
RECURSIVE SortOrderRec(_, _, _)
SortOrderRec(a, k, n) ==
    IF k = n THEN <<>>
    ELSE <<Pick(a)>> \o SortOrderRec([a EXCEPT ![Pick(a)] = SENTINEL], k + 1, n)

SortOrder(a, n) ==
    LET s == SortOrderRec(a, 0, n) IN [k \in 0 .. n - 1 |-> s[k + 1]]

(***************************************************************************)
(* Start-up.                                                               *)
(***************************************************************************)
\* initSpuCtrl, on the VM thread: create the control thread, which runs
\* spuCtrlFunc, and return.
InitSpuCtrl ==
    /\ vpc = "Init"
    /\ vpc' = "Run" /\ cpc' = "Start"
    /\ UNCHANGED <<physOf, spc, sphys, intr, inbox, ci, msg, ids, spus, recPhys,
                   global, bootDone, exited, image, bootRec>>

\* startSpuThreads, one pass of its loop: create context i in the gang,
\* load the bootloader and start a boot thread given &spus[i].ctx.  The
\* boot thread may run before the next context exists.  After the last
\* pass spuCtrlFunc runs initJavaThreads and registerEventHandlers (no
\* state read here) and calls waitForSpus.
CreateContext ==
    /\ ~exited /\ cpc = "Start"
    /\ spc' = [spc EXCEPT ![ci] = "Boot"]
    /\ ci' = IF ci + 1 = N THEN 0 ELSE ci + 1
    /\ cpc' = IF ci + 1 = N THEN "WaitSpus" ELSE cpc
    /\ UNCHANGED <<physOf, sphys, intr, inbox, msg, ids, spus, recPhys, vpc,
                   global, bootDone, exited, image, bootRec>>

(***************************************************************************)
(* The SPUs.                                                               *)
(***************************************************************************)
\* spu_bootstrap_thread reads the context through its argument, a pointer
\* into the SpuData array, and runs it: the bootloader starts.
BootThreadRun(c) ==
    /\ ~exited /\ spc[c] = "Boot"
    /\ spc' = [spc EXCEPT ![c] = "Hi"]
    /\ UNCHANGED <<physOf, sphys, intr, inbox, cpc, ci, msg, ids, spus, recPhys,
                   vpc, global, bootDone, exited, image, bootRec>>

\* writeMailbox blocks while the 1-word interrupt mailbox is full.
SpuWrite(c, w, from, to) ==
    /\ ~exited /\ spc[c] = from /\ intr[c] = <<>>
    /\ intr' = [intr EXCEPT ![c] = <<w>>]
    /\ spc' = [spc EXCEPT ![c] = to]
    /\ UNCHANGED <<physOf, sphys, inbox, cpc, ci, msg, ids, spus, recPhys,
                   vpc, global, bootDone, exited, image, bootRec>>

\* bootloader main: send the SPE id, upper word first.
SendIdHi(c) == SpuWrite(c, IdHi(c), "Hi", "Lo")
SendIdLo(c) == SpuWrite(c, IdLo(c), "Lo", "Phys")

\* readMailbox: rdch on the inbound mailbox channel blocks while it is
\* empty, then takes its oldest word, Head(inbox[c]).
readMailbox(c) ==
    /\ inbox[c] # <<>>
    /\ inbox' = [inbox EXCEPT ![c] = Tail(@)]

\* phys_id = readMailbox(): blocks until the host writes it.
ReadPhysId(c) ==
    /\ ~exited /\ spc[c] = "Phys" /\ readMailbox(c)
    /\ sphys' = [sphys EXCEPT ![c] = Head(inbox[c])]
    /\ spc' = [spc EXCEPT ![c] = "Copy"]
    /\ UNCHANGED <<physOf, intr, cpc, ci, msg, ids, spus, recPhys, vpc,
                   global, bootDone, exited, image, bootRec>>

\* cpy_complete = readMailbox(): jump to the runtime, or quit.
ReadCopyComplete(c) ==
    /\ ~exited /\ spc[c] = "Copy" /\ readMailbox(c)
    /\ spc' = [spc EXCEPT ![c] = IF Head(inbox[c]) = RUNTIME_COPY_COMPLETE
                                 THEN "Jump" ELSE "Quit"]
    /\ UNCHANGED <<physOf, sphys, intr, cpc, ci, msg, ids, spus, recPhys, vpc,
                   global, bootDone, exited, image, bootRec>>

\* The Java runtime, entered with phys_id in register 0, reports itself.
RuntimeStarted(c) == SpuWrite(c, JAVA_VM_STARTED, "Jump", "Started")
RuntimePhysId(c) == SpuWrite(c, sphys[c], "Started", "Java")

(***************************************************************************)
(* The control thread.                                                     *)
(***************************************************************************)
\* Mutant: a read count of 1, not 2.
ReadWordCountOne(phase) ==
    /\ ~exited /\ cpc = phase /\ Len(msg) < 1 /\ intr[spus[ci]] # <<>>
    /\ msg' = Append(msg, Head(intr[spus[ci]]))
    /\ intr' = [intr EXCEPT ![spus[ci]] = <<>>]
    /\ UNCHANGED <<physOf, spc, sphys, inbox, cpc, ci, ids, spus, recPhys,
                   vpc, global, bootDone, exited, image, bootRec>>

\* spe_out_intr_mbox_read(spus[i].ctx, message_data, 2, ALL_BLOCKING),
\* one word at a time as the 1-word mailbox delivers them.
ReadWord(phase) ==
    /\ ~exited /\ cpc = phase /\ Len(msg) < 2 /\ intr[spus[ci]] # <<>>
    /\ msg' = Append(msg, Head(intr[spus[ci]]))
    /\ intr' = [intr EXCEPT ![spus[ci]] = <<>>]
    /\ UNCHANGED <<physOf, spc, sphys, inbox, cpc, ci, ids, spus, recPhys,
                   vpc, global, bootDone, exited, image, bootRec>>

ReadIdWord == ReadWord("WaitSpus")
ReadRuntimeWord == ReadWord("WaitRuntime")

\* getPhysID: the phys-id file of the SPE whose id was read; -1 when it
\* cannot be opened.
PhysIdOf(hi, lo) ==
    IF \E c \in Ctx : <<IdHi(c), IdLo(c)>> = <<hi, lo>>
    THEN LET c == CHOOSE c \in Ctx : <<IdHi(c), IdLo(c)>> = <<hi, lo>>
         IN  IF PhysIdCanFail THEN {physOf[c], FAILED} ELSE {physOf[c]}
    ELSE {FAILED}

\* Mutant: the identify loop stops one context early.
IdentifySpuOffByOne ==
    /\ ~exited /\ cpc = "WaitSpus" /\ Len(msg) = 2
    /\ Len(inbox[spus[ci]]) < INBOX_DEPTH
    /\ \E p \in PhysIdOf(msg[1], msg[2]) :
          /\ ids' = [ids EXCEPT ![ci] = p]
          /\ recPhys' = [recPhys EXCEPT ![spus[ci]] = p]
          /\ inbox' = [inbox EXCEPT ![spus[ci]] = Append(@, p)]
    /\ msg' = <<>> /\ ci' = ci + 1
    /\ cpc' = IF ci + 1 = N - 1 THEN "Sort" ELSE cpc
    /\ UNCHANGED <<physOf, spc, sphys, intr, spus, vpc, global, bootDone,
                   exited, image, bootRec>>

\* waitForSpus: record the physical id and write it to the context,
\* blocking while its inbound mailbox is full.
IdentifySpu ==
    /\ ~exited /\ cpc = "WaitSpus" /\ Len(msg) = 2
    /\ Len(inbox[spus[ci]]) < INBOX_DEPTH
    /\ \E p \in PhysIdOf(msg[1], msg[2]) :
          /\ ids' = [ids EXCEPT ![ci] = p]
          /\ recPhys' = [recPhys EXCEPT ![spus[ci]] = p]
          /\ inbox' = [inbox EXCEPT ![spus[ci]] = Append(@, p)]
    /\ msg' = <<>> /\ ci' = ci + 1
    /\ cpc' = IF ci + 1 = N THEN "Sort" ELSE cpc
    /\ UNCHANGED <<physOf, spc, sphys, intr, spus, vpc, global, bootDone,
                   exited, image, bootRec>>

\* waitForSpus: rebuild the SpuData array in the sort's order.
SortSpus ==
    /\ ~exited /\ cpc = "Sort"
    /\ spus' = [k \in Ctx |-> spus[SortOrder(ids, N)[k]]]
    /\ cpc' = "Load" /\ ci' = 0
    /\ UNCHANGED <<physOf, spc, sphys, intr, inbox, msg, ids, recPhys, vpc,
                   global, bootDone, exited, image, bootRec>>

(***************************************************************************)
(* loadRuntimeOnSpus.  The runtime code, the entry method, the JTOC window *)
(* and the TOC tables (GotCoherence's BootCopy and LoadTocTables) are one  *)
(* image here: DMAs on PROXY_TAG_GROUP that the MFC completes in its own   *)
(* time.                                                                   *)
(***************************************************************************)
\* Mutant: the entry method's length compared without its base address.
EntryTooLongUnbased(rec) == rec.entry >= CODE_ENTRYPOINT_END

\* The two length checks of the first loop, each made just after the DMA
\* it guards has been issued.
CodeTooLong(rec) == RUNTIME_CODE_START + rec.code >= CODE_ENTRYPOINT
EntryTooLong(rec) == CODE_ENTRYPOINT + rec.entry >= CODE_ENTRYPOINT_END

\* The first loop, for spus[i]: issue the DMAs; both checks pass.
LoadRuntime ==
    /\ ~exited /\ cpc = "Load"
    /\ ~CodeTooLong(bootRec) /\ ~EntryTooLong(bootRec)
    /\ image' = [image EXCEPT ![spus[ci]] = "Issued"]
    /\ ci' = IF ci + 1 = N THEN 0 ELSE ci + 1
    /\ cpc' = IF ci + 1 = N THEN "Release" ELSE cpc
    /\ UNCHANGED <<physOf, spc, sphys, intr, inbox, msg, ids, spus, recPhys, vpc,
                   global, bootDone, exited, bootRec>>

\* The runtime code, or the entry method, is too long: its DMA (and the
\* code's, before the entry method's check) is already issued; "too
\* long", exit(1).  Earlier contexts hold their whole image.
LoadRuntimeTooLong ==
    /\ ~exited /\ cpc = "Load"
    /\ CodeTooLong(bootRec) \/ EntryTooLong(bootRec)
    /\ image' = [image EXCEPT ![spus[ci]] = "Issued"]
    /\ exited' = TRUE
    /\ UNCHANGED <<physOf, spc, sphys, intr, inbox, cpc, ci, msg, ids, spus,
                   recPhys, vpc, global, bootDone, bootRec>>

\* The MFC completes context c's DMAs.
DmaLand(c) ==
    /\ image[c] = "Issued"
    /\ image' = [image EXCEPT ![c] = "Landed"]
    /\ UNCHANGED <<physOf, spc, sphys, intr, inbox, cpc, ci, msg, ids, spus,
                   recPhys, vpc, global, bootDone, exited, bootRec>>

\* Mutant: boot declared complete without waiting for the runtimes.
ReleaseSkippingWait ==
    /\ ~exited /\ cpc = "Release" /\ image[spus[ci]] = "Landed"
    /\ inbox' = [inbox EXCEPT ![spus[ci]] = Append(@, RUNTIME_COPY_COMPLETE)]
    /\ ci' = IF ci + 1 = N THEN N ELSE ci + 1
    /\ cpc' = IF ci + 1 = N THEN "Publish" ELSE cpc
    /\ UNCHANGED <<physOf, spc, sphys, intr, msg, ids, spus, recPhys, vpc,
                   global, bootDone, exited, image, bootRec>>

\* Mutant: the copy-complete signal written without the tag-group wait.
ReleaseUnfenced ==
    /\ ~exited /\ cpc = "Release"
    /\ inbox' = [inbox EXCEPT ![spus[ci]] =
                    IF Len(@) < INBOX_DEPTH THEN Append(@, RUNTIME_COPY_COMPLETE)
                    ELSE @]
    /\ ci' = IF ci + 1 = N THEN 0 ELSE ci + 1
    /\ cpc' = IF ci + 1 = N THEN "WaitRuntime" ELSE cpc
    /\ UNCHANGED <<physOf, spc, sphys, intr, msg, ids, spus, recPhys, vpc,
                   global, bootDone, exited, image, bootRec>>

\* The second loop, for spus[i]: spe_mfcio_tag_status_read(SPE_TAG_ALL)
\* blocks until its DMAs are complete; then tell it to jump,
\* SPE_MBOX_ANY_NONBLOCKING (a full mailbox takes nothing).
Release ==
    /\ ~exited /\ cpc = "Release" /\ image[spus[ci]] = "Landed"
    /\ inbox' = [inbox EXCEPT ![spus[ci]] =
                    IF Len(@) < INBOX_DEPTH THEN Append(@, RUNTIME_COPY_COMPLETE)
                    ELSE @]
    /\ ci' = IF ci + 1 = N THEN 0 ELSE ci + 1
    /\ cpc' = IF ci + 1 = N THEN "WaitRuntime" ELSE cpc
    /\ UNCHANGED <<physOf, spc, sphys, intr, msg, ids, spus, recPhys, vpc,
                   global, bootDone, exited, image, bootRec>>

\* waitForRuntime compares with spus[i].phys_id.
ExpectedPhys(k) == recPhys[spus[k]]

\* waitForRuntime: JAVA_VM_STARTED and the SPU's phys id, or exit(1).
CheckRuntime ==
    /\ ~exited /\ cpc = "WaitRuntime" /\ Len(msg) = 2
    /\ IF msg = <<JAVA_VM_STARTED, ExpectedPhys(ci)>>
       THEN /\ ci' = ci + 1 /\ msg' = <<>>
            /\ cpc' = IF ci + 1 = N THEN "Publish" ELSE cpc
            /\ UNCHANGED exited
       ELSE exited' = TRUE /\ UNCHANGED <<ci, msg, cpc>>
    /\ UNCHANGED <<physOf, spc, sphys, intr, inbox, ids, spus, recPhys, vpc,
                   global, bootDone, image, bootRec>>

\* spuCtrlFunc: publish global_spu_data, start the support threads (the
\* WorkQueue), set subArchBootComplete.
Publish ==
    /\ ~exited /\ cpc = "Publish"
    /\ global' = TRUE /\ bootDone' = TRUE /\ cpc' = "Wait"
    /\ UNCHANGED <<physOf, spc, sphys, intr, inbox, ci, msg, ids, spus,
                   recPhys, vpc, exited, image, bootRec>>

\* Lock exit_mutex and wait on exit_signal, releasing the mutex.
CtrlWait ==
    /\ ~exited /\ cpc = "Wait"
    /\ cpc' = "Waiting"
    /\ UNCHANGED <<physOf, spc, sphys, intr, inbox, ci, msg, ids, spus,
                   recPhys, vpc, global, bootDone, exited, image, bootRec>>

\* pthread_cond_wait may return with no signal (POSIX allows it); the code
\* does not re-test a condition.
SpuriousWakeup ==
    /\ ~exited /\ cpc = "Waiting"
    /\ cpc' = "Shutdown"
    /\ UNCHANGED <<physOf, spc, sphys, intr, inbox, ci, msg, ids, spus,
                   recPhys, vpc, global, bootDone, exited, image, bootRec>>

\* Cancel every boot and support thread, destroy the contexts and gang.
Shutdown ==
    /\ ~exited /\ cpc = "Shutdown"
    /\ cpc' = "Done"
    /\ UNCHANGED <<physOf, spc, sphys, intr, inbox, ci, msg, ids, spus,
                   recPhys, vpc, global, bootDone, exited, image, bootRec>>

(***************************************************************************)
(* The VM thread that ends the subarchitecture.                            *)
(***************************************************************************)
\* stopSpuThreads: global_spu_data is NULL, nothing to stop.
StopBeforeBoot ==
    /\ ~exited /\ vpc = "Run" /\ ~global
    /\ vpc' = "Returned"
    /\ UNCHANGED <<physOf, spc, sphys, intr, inbox, cpc, ci, msg, ids, spus,
                   recPhys, global, bootDone, exited, image, bootRec>>

\* stopSpuThreads: signal exit_signal under exit_mutex; only a thread
\* already waiting is woken.
StopSignal ==
    /\ ~exited /\ vpc = "Run" /\ global
    /\ cpc' = IF cpc = "Waiting" THEN "Shutdown" ELSE cpc
    /\ vpc' = "Join"
    /\ UNCHANGED <<physOf, spc, sphys, intr, inbox, ci, msg, ids, spus,
                   recPhys, global, bootDone, exited, image, bootRec>>

\* pthread_join(ctrl_thread) returns once spuCtrlFunc has returned.
StopJoined ==
    /\ ~exited /\ vpc = "Join" /\ cpc = "Done"
    /\ vpc' = "Returned"
    /\ UNCHANGED <<physOf, spc, sphys, intr, inbox, cpc, ci, msg, ids, spus,
                   recPhys, global, bootDone, exited, image, bootRec>>

SpuStep(c) ==
    \/ BootThreadRun(c) \/ SendIdHi(c) \/ SendIdLo(c) \/ ReadPhysId(c) \/ ReadCopyComplete(c)
    \/ RuntimeStarted(c) \/ RuntimePhysId(c)

CtrlStep ==
    \/ CreateContext \/ ReadIdWord \/ IdentifySpu \/ SortSpus \/ LoadRuntime \/ LoadRuntimeTooLong
    \/ Release \/ ReadRuntimeWord
    \/ CheckRuntime \/ Publish \/ CtrlWait \/ Shutdown

Next ==
    \/ \E c \in Ctx : SpuStep(c) \/ DmaLand(c)
    \/ CtrlStep \/ SpuriousWakeup
    \/ InitSpuCtrl \/ StopBeforeBoot \/ StopSignal \/ StopJoined

\* The SPUs run on their own cores and the control and VM threads are
\* runnable OS threads: each keeps taking its enabled steps; the MFC
\* completes every DMA issued; the VM's start-up does call initSpuCtrl.
\* Nothing makes a spurious wakeup happen, and the VM need never stop.
Fairness ==
    /\ \A c \in Ctx : WF_vars(SpuStep(c)) /\ WF_vars(DmaLand(c))
    /\ WF_vars(CtrlStep)
    /\ WF_vars(InitSpuCtrl) /\ WF_vars(StopJoined)

Spec == Init /\ [][Next]_vars /\ Fairness

(***************************************************************************)
(* Properties.                                                             *)
(***************************************************************************)
\* The control thread has returned from waitForSpus.
PastSort == cpc \notin {"None", "Start", "WaitSpus", "Sort"}

\* waitForSpus: once sorted, the SpuData array holds every context exactly
\* once, in strictly increasing order of the physical id recorded for it.
\* Several identify/sort steps and the selection sort's sentinel are
\* involved; a failed getPhysID (-1, above the sentinel) breaks it.
SpusSortedByPhysId ==
    PastSort =>
        /\ \A c \in Ctx : \E k \in Ctx : spus[k] = c
        /\ \A k \in Ctx : k + 1 \in Ctx => recPhys[spus[k]] < recPhys[spus[k + 1]]

\* waitForSpus frees the SpuData array when it installs the sorted copy,
\* but each boot thread was given &spus[i].ctx in the old array: every boot
\* thread has read its context through that pointer before the free.
BootArgsReadBeforeFree ==
    PastSort => \A c \in Ctx : spc[c] # "Boot"

\* subArchBootComplete is set only when every SPU has left the bootloader
\* and runs the Java runtime, knowing the physical SPU it really runs on.
BootRunsEveryRuntime ==
    bootDone => \A c \in Ctx : spc[c] = "Java" /\ sphys[c] = physOf[c]

\* The boot record's runtime code and entry method are within the sizes
\* spec.md's layout table gives them: the code shorter than 0x700, the
\* entry method shorter than 0x900 (its region is 0x700 up to 0x1000).
ImageFitsLayout ==
    /\ RUNTIME_CODE_START + bootRec.code < CODE_ENTRYPOINT
    /\ CODE_ENTRYPOINT + bootRec.entry < CODE_ENTRYPOINT_END

\* When the runtime image fits, the handshake of the bootloaders,
\* waitForSpus, loadRuntimeOnSpus and waitForRuntime always gets to
\* subArchBootComplete.
BootCompletes == ImageFitsLayout => <>bootDone

\* A bootloader jumps into the Java runtime only once loadRuntimeOnSpus's
\* DMAs of the whole image into its local store have completed and the
\* image lies inside its local-store regions: RUNTIME_COPY_COMPLETE reaches
\* an SPU after the fence of its own context, which after the sort is
\* spus[i], and only when the length checks kept the code and entry-method
\* DMAs out of the regions above them.
RuntimeLandedBeforeJump ==
    \A c \in Ctx : spc[c] \in {"Jump", "Started", "Java"} =>
        /\ image[c] = "Landed"
        /\ RUNTIME_CODE_START + bootRec.code <= CODE_ENTRYPOINT
        /\ CODE_ENTRYPOINT + bootRec.entry <= CODE_ENTRYPOINT_END

\* stopSpuThreads, once it has signalled the control thread, returns from
\* pthread_join: the control thread is woken and finishes.
StopReturns == (vpc = "Join") ~> (vpc = "Returned")

\* The control thread cancels the support threads and destroys the SPU
\* contexts only after stopSpuThreads has asked it to.
ShutdownOnlyAfterStop ==
    cpc \in {"Shutdown", "Done"} => vpc \in {"Join", "Returned"}
================================================================================
