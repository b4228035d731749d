--------------------------- MODULE MCHandleManager ---------------------------
EXTENDS HandleManager
CONSTANTS t1, t2, t3, a1, a2, i1, i2, i3
=============================================================================
