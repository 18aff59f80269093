CONSTANTS
    N <- MCN
    PhysIds <- MCPhysIds
    PhysIdCanFail = FALSE
    CodeLengths <- MCCodeLengths
    EntryLengths <- MCEntryLengths
SPECIFICATION Spec
PROPERTIES
    StopReturns
CHECK_DEADLOCK FALSE
