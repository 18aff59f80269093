CONSTANTS
    N <- MCN
    PhysIds <- MCPhysIds
    PhysIdCanFail = FALSE
    CodeLengths <- MCCodeLengths
    EntryLengths <- MCEntryLengths
SPECIFICATION Spec
INVARIANTS
    SpusSortedByPhysId
    BootArgsReadBeforeFree
    BootRunsEveryRuntime
    RuntimeLandedBeforeJump
PROPERTIES
    BootCompletes
\* The process may stop: after stopSpuThreads returns, or after
\* stopSpuThreads found no global_spu_data, the VM exits; a control thread
\* that missed the exit signal waits for ever (MCSpuCtrl_StopReturns).
CHECK_DEADLOCK FALSE
