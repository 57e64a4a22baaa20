-------------------------------- MODULE MCHub --------------------------------
EXTENDS HubProperties

CONSTANTS c1, c2, r1, r2
=============================================================================
