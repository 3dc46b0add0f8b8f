------------------------------- MODULE MCList -------------------------------
EXTENDS List
=============================================================================
