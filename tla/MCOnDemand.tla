----------------------------- MODULE MCOnDemand -----------------------------
EXTENDS OnDemand

\* Nothing, one page and as many as are behind one entry of the PDPE table.
MCRequests == {0, 1, 4}
MCTouched == {5, 9}

\* Six pages: a pool of four and one of two, which is at the head of the list
\* and serves both pages that are touched before it is empty.
MCRegions == {<<1, 6>>}
=============================================================================
