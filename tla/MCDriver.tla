------------------------------ MODULE MCDriver ------------------------------
EXTENDS Driver

MCIntMin == -8
MCThread == 0 .. 2
=============================================================================
