------------------------------- MODULE MCTxPath -------------------------------
(* TxPath for TLC: one program thread beside the RX thread, frames of one and *)
(* two units, a window of two.                                               *)
EXTENDS TxPath

CONSTANTS a1

MCApp == {a1}
MCFrameSizes == 1 .. 2
=============================================================================
