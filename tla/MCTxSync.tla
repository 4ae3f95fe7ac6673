------------------------------- MODULE MCTxSync -------------------------------
(* TxSync for TLC: everything is given in the configuration.               *)
EXTENDS TxSync
=============================================================================
