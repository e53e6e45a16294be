------------------------------- MODULE MCMmu --------------------------------
EXTENDS Mmu

\* The program in pages, for PAGE_SIZE = 1, with and without room for an mmap
\* below, and in half pages, for PAGE_SIZE = 2.
HighSegment == <<5, 5>>
PageSegment == <<3, 3>>
HalfPageSegment == <<6, 7>>
=============================================================================
