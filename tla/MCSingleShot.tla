---------------------------- MODULE MCSingleShot ----------------------------
EXTENDS SingleShot, TLC
=============================================================================
