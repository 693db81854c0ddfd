--------------------------- MODULE MCBackoffTimer ---------------------------
EXTENDS BackoffTimer

MCDeltas == {0, 1, 3, 10}
=============================================================================
