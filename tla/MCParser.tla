------------------------------ MODULE MCParser ------------------------------
EXTENDS Parser
=============================================================================
