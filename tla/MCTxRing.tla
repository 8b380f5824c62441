------------------------------ MODULE MCTxRing ------------------------------
(* Instances of TxRing for TLC.                                            *)
EXTENDS TxRing
=============================================================================
