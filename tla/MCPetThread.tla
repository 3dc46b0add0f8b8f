---------------------------- MODULE MCPetThread ----------------------------
\* Threads are numbers and the values are model values: nothing to define.
EXTENDS PetThread
=============================================================================
