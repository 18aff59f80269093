------------------------------- MODULE MCSpuCtrl -------------------------------
EXTENDS SpuCtrl

\* Three SPU contexts on three of four physical SPUs: every order of the
\* physical ids against creation order, with a gap in the numbering.
MCN == 3
MCPhysIds == 0 .. 3

\* Runtime code and entry-method lengths (multiples of 4) on either side
\* of their checks: 0x6FC the longest code accepted, 0x700 the shortest
\* rejected; 0x8FC the longest entry method accepted, 0x900 the shortest
\* rejected (it would still end exactly at CODE_ENTRYPOINT_END), 0x910 one
\* that would run past CODE_ENTRYPOINT_END.
MCCodeLengths == {1788, 1792}          \* 0x6FC, 0x700
MCEntryLengths == {2300, 2304, 2320}   \* 0x8FC, 0x900, 0x910
================================================================================
