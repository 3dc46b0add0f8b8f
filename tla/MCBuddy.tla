------------------------------ MODULE MCBuddy ------------------------------
\* Orders are small numbers: the pool is 16 units in blocks of 2 or more.
EXTENDS Buddy
=============================================================================
