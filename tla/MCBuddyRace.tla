---------------------------- MODULE MCBuddyRace ----------------------------
\* BuddyRace for TLC: the processes are model values.
EXTENDS BuddyRace
=============================================================================
