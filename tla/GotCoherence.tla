----------------------------- MODULE GotCoherence -----------------------------
(***************************************************************************)
(* Coherence of the per-SPU JTOC mirrors with the host GOT while the VM    *)
(* grows it (spuCtrl.C: reloadJtoc, loadTocTables, waitForProxyload, the   *)
(* start of prepareMigration).  Every support thread runs this preparation *)
(* concurrently with the others and with the VM, with no lock: the host    *)
(* flag boot_record->jtocDirty and the per-SPU flags spus[i].jtocDirty are *)
(* plain shared memory.  One action per shared-memory step of the code.    *)
(***************************************************************************)
EXTENDS Integers, FiniteSets, Sequences, GotReload

CONSTANTS
    Workers,    \* the SPUs (indices of spu_data->spus)
    SlotCounts  \* bound: the numbers of slots each side of the GOT may have

ASSUME JtocPtr % 16 = 0 /\ SlotCounts \subseteq Nat /\ 0 \in SlotCounts

NumOffsets == {-4 * k : k \in SlotCounts}
RefOffsets == { 4 * k : k \in SlotCounts}

VARIABLES
    numOff, refOff,   \* boot_record->jtocNumericOffset / jtocReferenceOffset
    hostDirty,        \* boot_record->jtocDirty
    vmPc,             \* the VM between publishing offsets and setting the flag
    dirty,            \* spus[w].jtocDirty
    cacheS, cacheE,   \* spus[w].jtocStart / jtocEnd: the cached window
    mirror,           \* host slots whose copy has landed in w's local store
    inflight,         \* host slots of JTOC DMAs issued to w, not yet landed
    tocPending,       \* a TIB / statics-size table DMA to w not yet landed
    pc,               \* where w's support thread is in prepareMigration
    snap              \* the offsets w's thread read (locals jtocNumOff/RefOff)

vars == <<numOff, refOff, hostDirty, vmPc, dirty, cacheS, cacheE,
          mirror, inflight, tocPending, pc, snap>>

Pcs == {"Idle", "Fanout", "Check", "Copy", "LoadToc", "Wait", "Send"}

TypeOK ==
    /\ numOff \in NumOffsets /\ refOff \in RefOffsets
    /\ hostDirty \in BOOLEAN /\ vmPc \in {"Idle", "Written"}
    /\ dirty \in [Workers -> BOOLEAN] /\ tocPending \in [Workers -> BOOLEAN]
    /\ cacheS \in [Workers -> {JtocPtr + n : n \in NumOffsets}]
    /\ cacheE \in [Workers -> {JtocPtr + r : r \in RefOffsets}]
    /\ mirror \in [Workers -> SUBSET Int] /\ inflight \in [Workers -> SUBSET Int]
    /\ pc \in [Workers -> Pcs]
    /\ snap \in [Workers -> NumOffsets \X RefOffsets]

\* The locals jtocNumOff / jtocRefOff out of scope (their value is dead).
NoSnap == <<0, 0>>

Goto(w, from, to) == pc[w] = from /\ pc' = [pc EXCEPT ![w] = to]

\* State after loadRuntimeOnSpus and its DMA fence: every SPU holds the
\* boot window of the offsets published at boot, all flags clear.
Init ==
    /\ numOff \in NumOffsets /\ refOff \in RefOffsets
    /\ hostDirty = FALSE /\ vmPc = "Idle"
    /\ dirty = [w \in Workers |-> FALSE]
    /\ cacheS = [w \in Workers |-> JtocPtr + numOff]
    /\ cacheE = [w \in Workers |-> JtocPtr + refOff]
    /\ mirror = [w \in Workers |-> Words(BootCopy(numOff, refOff))]
    /\ inflight = [w \in Workers |-> {}]
    /\ tocPending = [w \in Workers |-> FALSE]
    /\ pc = [w \in Workers |-> "Idle"]
    /\ snap = [w \in Workers |-> NoSnap]

(***************************************************************************)
(* The VM (not in the repository): it grows the GOT by publishing new      *)
(* offsets, then sets boot_record->jtocDirty.                              *)
(***************************************************************************)
VMExtend ==
    /\ vmPc = "Idle"
    /\ \E n \in NumOffsets, r \in RefOffsets :
          /\ n <= numOff /\ r >= refOff /\ <<n, r>> # <<numOff, refOff>>
          /\ numOff' = n /\ refOff' = r
    /\ vmPc' = "Written"
    /\ UNCHANGED <<hostDirty, dirty, cacheS, cacheE, mirror,
                   inflight, tocPending, pc, snap>>

VMSetDirty ==
    /\ vmPc = "Written"
    /\ hostDirty' = TRUE /\ vmPc' = "Idle"
    /\ UNCHANGED <<numOff, refOff, dirty, cacheS, cacheE, mirror,
                   inflight, tocPending, pc, snap>>

(***************************************************************************)
(* A support thread w preparing a migration.                               *)
(***************************************************************************)
\* doMigration calls prepareMigration, which calls reloadJtoc.
StartPrepare(w) ==
    /\ Goto(w, "Idle", "Fanout")
    /\ UNCHANGED <<numOff, refOff, hostDirty, vmPc, dirty, cacheS,
                   cacheE, mirror, inflight, tocPending, snap>>

\* reloadJtoc: a dirty host GOT marks every SPU's mirror dirty.
Fanout(w) ==
    /\ Goto(w, "Fanout", "Check")
    /\ dirty' = IF hostDirty THEN [x \in Workers |-> TRUE] ELSE dirty
    /\ UNCHANGED <<numOff, refOff, hostDirty, vmPc, cacheS, cacheE,
                   mirror, inflight, tocPending, snap>>

\* reloadJtoc: w's mirror is dirty, so read the published offsets.
ReadOffsets(w) ==
    /\ dirty[w]
    /\ Goto(w, "Check", "Copy")
    /\ snap' = [snap EXCEPT ![w] = <<numOff, refOff>>]
    /\ UNCHANGED <<numOff, refOff, hostDirty, vmPc, dirty, cacheS,
                   cacheE, mirror, inflight, tocPending>>

\* reloadJtoc: w's mirror is clean, nothing to copy.
SkipReload(w) ==
    /\ ~dirty[w]
    /\ Goto(w, "Check", "LoadToc")
    /\ UNCHANGED <<numOff, refOff, hostDirty, vmPc, dirty, cacheS,
                   cacheE, mirror, inflight, tocPending, snap>>

\* Mutant: the new start taken from the reference offset.
NewSFromRefOff(w) == JtocPtr + snap[w][2]

\* The window of the offsets w's thread read.
NewS(w) == JtocPtr + snap[w][1]
NewE(w) == JtocPtr + snap[w][2]

\* The batch reloadJtoc issues to extend w's cached window.
Batch(w) == ReloadCopies(cacheS[w], cacheE[w], NewS(w), NewE(w))

\* Mutant: the worker flag cleared at the commit, as spec.md 4.3 words it.
CopyJtocClearingDirty(w) ==
    /\ Goto(w, "Copy", "LoadToc")
    /\ hostDirty' = FALSE
    /\ inflight' = [inflight EXCEPT ![w] = @ \cup
                        UNION {Words(Batch(w)[i]) : i \in DOMAIN Batch(w)}]
    /\ cacheS' = [cacheS EXCEPT ![w] = NewS(w)]
    /\ cacheE' = [cacheE EXCEPT ![w] = NewE(w)]
    /\ dirty' = [dirty EXCEPT ![w] = FALSE]
    /\ snap' = [snap EXCEPT ![w] = NoSnap]
    /\ UNCHANGED <<numOff, refOff, vmPc, mirror, tocPending>>

\* reloadJtoc: clear the host flag (the jtocLastCached* writes, read by no
\* code here, are left out), issue the numeric and reference batches, and
\* commit the new window.
CopyJtoc(w) ==
    /\ Goto(w, "Copy", "LoadToc")
    /\ hostDirty' = FALSE
    /\ inflight' = [inflight EXCEPT ![w] = @ \cup
                        UNION {Words(Batch(w)[i]) : i \in DOMAIN Batch(w)}]
    /\ cacheS' = [cacheS EXCEPT ![w] = NewS(w)]
    /\ cacheE' = [cacheE EXCEPT ![w] = NewE(w)]
    /\ snap' = [snap EXCEPT ![w] = NoSnap]
    /\ UNCHANGED <<numOff, refOff, vmPc, dirty, mirror, tocPending>>

\* loadTocTables: re-DMA the TIB and statics-size tables.
LoadTocTables(w) ==
    /\ Goto(w, "LoadToc", "Wait")
    /\ tocPending' = [tocPending EXCEPT ![w] = TRUE]
    /\ UNCHANGED <<numOff, refOff, hostDirty, vmPc, dirty, cacheS,
                   cacheE, mirror, inflight, snap>>

\* waitForProxyload, w dirty: block on the tag group, then mark clean.
WaitForProxyload(w) ==
    /\ dirty[w]
    /\ inflight[w] = {} /\ ~tocPending[w]
    /\ Goto(w, "Wait", "Send")
    /\ dirty' = [dirty EXCEPT ![w] = FALSE]
    /\ UNCHANGED <<numOff, refOff, hostDirty, vmPc, cacheS, cacheE,
                   mirror, inflight, tocPending, snap>>

\* waitForProxyload, w clean: no wait at all.
SkipWait(w) ==
    /\ ~dirty[w]
    /\ Goto(w, "Wait", "Send")
    /\ UNCHANGED <<numOff, refOff, hostDirty, vmPc, dirty, cacheS,
                   cacheE, mirror, inflight, tocPending, snap>>

\* prepareMigration writes LOAD_STATIC_METHOD; the SPU starts using its
\* mirror.  The rest of the migration is MigrationProtocol's.
SendMethod(w) ==
    /\ Goto(w, "Send", "Idle")
    /\ UNCHANGED <<numOff, refOff, hostDirty, vmPc, dirty, cacheS,
                   cacheE, mirror, inflight, tocPending, snap>>

\* The MFC completes the transfers outstanding on w's tag group.
DmaComplete(w) ==
    /\ inflight[w] # {} \/ tocPending[w]
    /\ mirror' = [mirror EXCEPT ![w] = @ \cup inflight[w]]
    /\ inflight' = [inflight EXCEPT ![w] = {}]
    /\ tocPending' = [tocPending EXCEPT ![w] = FALSE]
    /\ UNCHANGED <<numOff, refOff, hostDirty, vmPc, dirty, cacheS,
                   cacheE, pc, snap>>

Next ==
    \/ VMExtend \/ VMSetDirty
    \/ \E w \in Workers :
          \/ StartPrepare(w) \/ Fanout(w) \/ ReadOffsets(w) \/ SkipReload(w)
          \/ CopyJtoc(w) \/ LoadTocTables(w) \/ WaitForProxyload(w)
          \/ SkipWait(w) \/ SendMethod(w) \/ DmaComplete(w)

Spec == Init /\ [][Next]_vars

-----------------------------------------------------------------------------
(***************************************************************************)
(* Properties.                                                             *)
(***************************************************************************)

\* When a support thread sends LOAD_STATIC_METHOD, every GOT slot of the
\* SPU's cached window has landed in its local store: reloadJtoc's batch
\* covers the window and waitForProxyload fenced it, however other threads'
\* fan-outs and the VM interleave.
GotFencedBeforeMethodLoad ==
    \A w \in Workers :
        pc[w] = "Send" => WindowWords(cacheS[w], cacheE[w]) \subseteq mirror[w]

\* The windows an SPU may have cached, and every window it may grow one to
\* whose sides hold at most the model's largest number of slots.
MaxSlotCount == CHOOSE m \in SlotCounts : \A k \in SlotCounts : k <= m
CachedWindows == {<<JtocPtr + n, JtocPtr + r>> : n \in NumOffsets, r \in RefOffsets}
GrowthsOf(o) ==
    {<<JtocPtr - 4 * n, JtocPtr + 4 * r>> : n \in 0 .. MaxSlotCount, r \in 0 .. MaxSlotCount}
        \cap {g \in Int \X Int : g[1] <= o[1] /\ o[2] <= g[2]}
BatchOf(o, g) == ReloadCopies(o[1], o[2], g[1], g[2])

\* For each cached window, whether every growth of it is copied exactly /
\* in transfers the MFC accepts (computed once: it depends on no variable).
ExactFrom ==
    [o \in CachedWindows |->
        \A g \in GrowthsOf(o) :
            ExactBatch(BatchOf(o, g), WindowWords(g[1], g[2]) \ WindowWords(o[1], o[2]))]
ValidFrom ==
    [o \in CachedWindows |->
        \A g \in GrowthsOf(o) : \A i \in DOMAIN BatchOf(o, g) : DmaValid(BatchOf(o, g)[i])]

\* Whatever window an SPU has cached, the batch reloadJtoc computes to grow
\* it to any larger window (every alignment of the four bounds, gaps of up
\* to 44 bytes a side) writes exactly the slots between the two, each once.
ReloadCopiesExactly == \A w \in Workers : ExactFrom[<<cacheS[w], cacheE[w]>>]

\* Every transfer of those batches is one the MFC accepts (size and
\* alignment).
ReloadTransfersValid == \A w \in Workers : ValidFrom[<<cacheS[w], cacheE[w]>>]

\* An idle SPU whose mirror misses published GOT slots will reload before
\* its next migration: the VM is about to set the host flag, or the host
\* flag or the SPU's own flag is set.
StaleGotNoticed ==
    \A w \in Workers :
        (pc[w] = "Idle" /\ ~(cacheS[w] <= JtocPtr + numOff
                             /\ JtocPtr + refOff <= cacheE[w]))
            => hostDirty \/ dirty[w] \/ vmPc = "Written"

\* When LOAD_STATIC_METHOD is sent, the TIB and statics-size tables DMA'd
\* by loadTocTables have landed (spec.md 4.5: the wait fences GOT and TOC).
TocFencedBeforeMethodLoad ==
    \A w \in Workers : pc[w] = "Send" => ~tocPending[w]
=============================================================================
