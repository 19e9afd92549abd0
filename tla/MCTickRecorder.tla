--------------------------- MODULE MCTickRecorder ---------------------------
(* The recorder, and another client that competes for its connection.      *)
EXTENDS TickRecorder
CONSTANTS w1, w2
=============================================================================
