------------------------- MODULE MCMigrationProtocol -------------------------
EXTENDS MigrationProtocol, TLC

\* Up to three parameters (enough to tell their order, and their six words
\* overrun the 4-word inbox if a handshake were skipped); two console
\* requests in a migration; two values per returned word.
MCMaxParams == 3
MCRetWords == {201, 202}
MCMaxRequests == 2
=============================================================================
