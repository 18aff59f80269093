CONSTANTS
    MaxParams <- MCMaxParams
    RetWords <- MCRetWords
    MaxRequests <- MCMaxRequests
SPECIFICATION FairSpec
INVARIANTS
    HostTrace
    ReturnValueCaptured
    NoWordDropped
PROPERTIES
    MigrationCallSpec
