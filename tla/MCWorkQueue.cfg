CONSTANTS
    Workers <- MCWorkers
    Slots <- MCSlots
    Affinities <- MCAffinities
    RetTypes <- MCRetTypes
    Callers = {c1, c2, c3}
    NULL = NULL
SPECIFICATION Spec
SYMMETRY MCSymmetry
INVARIANTS
    NoLostWakeup
