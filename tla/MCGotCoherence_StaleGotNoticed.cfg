CONSTANTS
    Workers = {w1, w2}
    JtocPtr <- MCJtocPtr
    SlotCounts <- MCSlotCounts
SPECIFICATION Spec
SYMMETRY MCSymmetry
INVARIANT StaleGotNoticed
