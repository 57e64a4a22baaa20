------------------------------ MODULE MCSession ------------------------------
EXTENDS SessionInvariant

CONSTANTS e1, p1

BothBackends == {"go", "node"}
=============================================================================
