CONSTANTS
    Workers <- MCWorkers
    Slots <- MCSlots3
    Affinities <- MCAnyAffinity
    RetTypes <- MCIntOnly
    Callers = {c1, c2}
    NULL = NULL
SPECIFICATION FairSpec
PROPERTIES
    QueuedWorkIsRun
