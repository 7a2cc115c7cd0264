------------------------------ MODULE MCPrefork ------------------------------
EXTENDS Prefork
=============================================================================
