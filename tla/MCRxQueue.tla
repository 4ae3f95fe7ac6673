------------------------------ MODULE MCRxQueue ------------------------------
(* RxQueue for TLC: everything is given in the configurations.             *)
EXTENDS RxQueue
=============================================================================
