------------------------------ MODULE GotReload ------------------------------
(***************************************************************************)
(* The DMA batch computations of the global offset table (JTOC) mirror     *)
(* kept in each SPU's local store (spuCtrl.C, reloadJtoc and               *)
(* loadRuntimeOnSpus).  Pure operators, no state.                          *)
(*                                                                         *)
(* Addresses are byte addresses.  The host GOT middle is at JtocPtr        *)
(* (boot_record->jtocStart + jtocMiddleOffset); a host address a is        *)
(* mirrored at local address JTOC_PTR + (a - JtocPtr).  Numeric entries    *)
(* lie below the middle, references above it; every offset the VM         *)
(* publishes is a multiple of the 4-byte GOT slot.                         *)
(*                                                                         *)
(* A transfer is a record [host, local, len]: one spe_mfcio_get.           *)
(***************************************************************************)
EXTENDS Integers, Sequences, FiniteSets

CONSTANT JtocPtr    \* host address of the GOT middle

\* spuDefs.h:70: JTOC_TABLE_START + JTOC_TABLE_LENGTH / 2 = 0x35000 + 0x800
JTOC_PTR == 219136

\* LONG_BOUNDARY / QUAD_BOUNDARY (spuCtrl.h, not in the repository): an
\* 8-byte ("long") and a 16-byte ("quad") boundary, as spec.md's scenario E
\* uses them (a 4-byte head at 0x0FF4 followed by 8 bytes to reach 0x1000).
LONG_BOUNDARY(a) == a % 8 = 0
QUAD_BOUNDARY(a) == a % 16 = 0

FLOOR16(a) == a - (a % 16)
CEIL16(a)  == IF a % 16 = 0 THEN a ELSE a - (a % 16) + 16

\* One spe_mfcio_get of len bytes from host address a into the mirror.
Xfer(a, len) == [host |-> a, local |-> JTOC_PTR + (a - JtocPtr), len |-> len]

(***************************************************************************)
(* reloadJtoc copies the gap between a cached bound and a new bound, the   *)
(* gap being [lo, hi).  The numeric side (lo = new jtocStart, hi = old     *)
(* jtocStart) first realigns lo upwards then hi downwards; the reference   *)
(* side (lo = old jtocEnd, hi = new jtocEnd) first realigns hi downwards   *)
(* then lo upwards.  Each step is one `if' of the code; a gap state is     *)
(* [lo, hi, xfers], xfers the transfers issued so far, in order.           *)
(***************************************************************************)
Take(st, a, len) == Append(st.xfers, Xfer(a, len))

\* Mutant: always an 8-byte step.
StepLenAlways8(st) == 8

\* A 4- or 8-byte step: 4 when exactly 4 bytes of gap are left.
StepLen(st) == IF st.lo + 4 = st.hi THEN 4 ELSE 8

RaiseLoToLong(st) ==
    IF st.lo < st.hi /\ ~LONG_BOUNDARY(st.lo)
    THEN [st EXCEPT !.lo = @ + 4, !.xfers = Take(st, st.lo, 4)]
    ELSE st

RaiseLoToQuad(st) ==
    IF st.lo < st.hi /\ ~QUAD_BOUNDARY(st.lo)
    THEN [st EXCEPT !.lo = @ + StepLen(st), !.xfers = Take(st, st.lo, StepLen(st))]
    ELSE st

\* Mutant: no 4-byte copy realigning the fixed end.
LowerHiToLongSkipped(st) == st

LowerHiToLong(st) ==
    IF st.lo < st.hi /\ ~LONG_BOUNDARY(st.hi)
    THEN [st EXCEPT !.hi = @ - 4, !.xfers = Take(st, st.hi - 4, 4)]
    ELSE st

LowerHiToQuad(st) ==
    IF st.lo < st.hi /\ ~QUAD_BOUNDARY(st.hi)
    THEN [st EXCEPT !.hi = @ - StepLen(st),
                    !.xfers = Take(st, st.hi - StepLen(st), StepLen(st))]
    ELSE st

\* The aligned middle of the gap in one transfer.
CopyBulk(st) ==
    IF st.lo < st.hi
    THEN [st EXCEPT !.xfers = Take(st, st.lo, st.hi - st.lo)]
    ELSE st

Gap(lo, hi) == [lo |-> lo, hi |-> hi, xfers |-> <<>>]

\* Numeric side: new jtocStart newS below the cached oldS.
NumericCopies(newS, oldS) ==
    CopyBulk(LowerHiToQuad(LowerHiToLong(
        RaiseLoToQuad(RaiseLoToLong(Gap(newS, oldS)))))).xfers

\* Reference side: new jtocEnd newE above the cached oldE.
ReferenceCopies(oldE, newE) ==
    CopyBulk(RaiseLoToQuad(RaiseLoToLong(
        LowerHiToQuad(LowerHiToLong(Gap(oldE, newE)))))).xfers

\* All transfers of one reloadJtoc, from cached window [oldS, oldE) to the
\* window [newS, newE) of the published offsets.
ReloadCopies(oldS, oldE, newS, newE) ==
    NumericCopies(newS, oldS) \o ReferenceCopies(oldE, newE)

\* loadRuntimeOnSpus: the whole window, rounded out to 16 bytes, at boot.
BootCopy(numOff, refOff) ==
    LET s == FLOOR16(JtocPtr + numOff)
        e == CEIL16(JtocPtr + refOff)
    IN  [host |-> s, local |-> FLOOR16(JTOC_PTR + numOff), len |-> e - s]

-----------------------------------------------------------------------------
(***************************************************************************)
(* Reference definitions the computations are checked against.           *)
(***************************************************************************)

\* The 4-byte GOT slots a transfer writes.
Words(x) == {x.host + 4 * i : i \in 0 .. (x.len \div 4) - 1}

\* The slots of the host window [s, e).
WindowWords(s, e) == {a \in s .. (e - 1) : (a - s) % 4 = 0}

\* The MFC's rules for one transfer: 1, 2, 4 or 8 bytes naturally aligned,
\* or a multiple of 16 bytes up to 16 KiB, 16-byte aligned; host and local
\* addresses agree in their low four bits.
DmaValid(x) ==
    /\ \/ x.len \in {1, 2, 4, 8}
       \/ x.len % 16 = 0 /\ 16 <= x.len /\ x.len <= 16384
    /\ x.host % 16 = x.local % 16
    /\ x.host % (IF x.len < 16 THEN x.len ELSE 16) = 0

\* A batch writes exactly the slots wanted, none of them twice.
ExactBatch(xs, wanted) ==
    /\ \A i, j \in DOMAIN xs : i # j => Words(xs[i]) \cap Words(xs[j]) = {}
    /\ UNION {Words(xs[i]) : i \in DOMAIN xs} = wanted
=============================================================================
