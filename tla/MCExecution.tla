---------------------------- MODULE MCExecution ----------------------------
(* The platform loop, and requests that approve what it staged.            *)
EXTENDS Execution
=============================================================================
