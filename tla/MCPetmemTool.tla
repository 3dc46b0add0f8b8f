---------------------------- MODULE MCPetmemTool ----------------------------
EXTENDS PetmemTool
=============================================================================
