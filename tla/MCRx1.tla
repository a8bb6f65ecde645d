-------------------------------- MODULE MCRx1 --------------------------------
EXTENDS Rx1
=============================================================================
