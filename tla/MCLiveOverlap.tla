--------------------------- MODULE MCLiveOverlap ----------------------------
EXTENDS LiveOverlap
CONSTANTS p1, p2, o1, o2
=============================================================================
