------------------------------ MODULE MCCcdBus ------------------------------
(* Small instances of CcdBus for TLC.                                      *)
EXTENDS CcdBus
=============================================================================
