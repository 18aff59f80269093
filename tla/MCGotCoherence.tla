---------------------------- MODULE MCGotCoherence ----------------------------
EXTENDS GotCoherence, TLC

\* A GOT middle on a 16-byte boundary.  The VM grows each side to 0, 1, 2
\* or 11 slots: a cached bound then lies at every residue of a slot
\* address modulo 16 (0, 4, 8 and 44, which is 12), and the gap from it to
\* any window of up to 11 slots a side (the batch properties) takes
\* every step of reloadJtoc that can copy: the 4-byte and 4- or 8-byte
\* head copies at the moving end, the 4- and 8-byte copies at the fixed
\* end, and a 16- or 32-byte bulk transfer between them.  (The 4-byte
\* variant of the fixed end's quad step cannot copy: a 4-byte gap left
\* there is taken by the long step before it.)
MCJtocPtr == 4096
MCSlotCounts == {0, 1, 2, 11}

\* The SPUs (model values in the cfg) are interchangeable.
MCSymmetry == Permutations(Workers)
=============================================================================
