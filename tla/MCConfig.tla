------------------------------ MODULE MCConfig ------------------------------
EXTENDS Config
=============================================================================
