--------------------------- MODULE MCProcessorBind ---------------------------
EXTENDS ProcessorBind

\* As MCMigrationProtocol, with one bind of the same SPU.
MCMaxParams == 1
MCRetWords == {201}
MCMaxRequests == 1
=============================================================================
