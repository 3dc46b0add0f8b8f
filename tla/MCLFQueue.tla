----------------------------- MODULE MCLFQueue -----------------------------
\* LFQueue for TLC: the threads are model values.
EXTENDS LFQueue
=============================================================================
