------------------------------ MODULE MCHubLink -----------------------------
EXTENDS HubLink, TLC
=============================================================================
