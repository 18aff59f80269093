CONSTANTS
    MaxParams <- MCMaxParams
    RetWords <- MCRetWords
    MaxRequests <- MCMaxRequests
SPECIFICATION CompSpec
INVARIANTS
    BindReturnsAfterSet
CHECK_DEADLOCK FALSE
