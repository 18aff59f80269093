CONSTANTS
    N <- MCN
    PhysIds <- MCPhysIds
    PhysIdCanFail = TRUE
    CodeLengths <- MCCodeLengths
    EntryLengths <- MCEntryLengths
SPECIFICATION Spec
INVARIANTS
    SpusSortedByPhysId
CHECK_DEADLOCK FALSE
