CONSTANTS
    N <- MCN
    PhysIds <- MCPhysIds
    PhysIdCanFail = FALSE
    CodeLengths <- MCCodeLengths
    EntryLengths <- MCEntryLengths
SPECIFICATION Spec
INVARIANTS
    ShutdownOnlyAfterStop
CHECK_DEADLOCK FALSE
