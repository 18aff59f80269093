------------------------------ MODULE MCWorkQueue ------------------------------
EXTENDS WorkQueue, TLC

\* Two SPUs and two slots, both also SPU indices; three callers, so that
\* the table fills.
MCWorkers == {0, 1}
MCSlots == {0, 1}
\* Every request bound to SPU 1, so that SPU 0 re-queues what it takes.
\* (Adding -1, any SPU, takes the three-caller model past 16 million
\* states.)
MCAffinities == {1}

\* Requests any SPU may run: two SPUs, three slots (one more than the
\* SPUs, so a slot exists that no releaseThread clears) and, in the cfg,
\* two callers, so that the LIFO list holds several items.
MCAnyAffinity == {-1}
MCSlots3 == {0, 1, 2}

\* A void call, whose slot no harvest frees, and one returning an int.
MCRetTypes == {"V", "I"}
\* Calls returning an int only (void calls, which never free their slot,
\* take the two-caller liveness model past 15 minutes).
MCIntOnly == {"I"}

MCSymmetry == Permutations(Callers)
=============================================================================
