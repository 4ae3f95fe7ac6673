------------------------------ MODULE MCI2cSlave -----------------------------
(* I2cSlave for TLC: everything is given in the configurations.            *)
EXTENDS I2cSlave
=============================================================================
