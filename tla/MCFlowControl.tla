---------------------------- MODULE MCFlowControl ----------------------------
(* FlowControl for TLC: three claimers, frames of 1, 2 and 3 units, a window *)
(* too small for all of them, updates that free one unit or two, and HELLO   *)
(* windows of the same sizes.                                                *)
EXTENDS FlowControl

CONSTANTS t1, t2, t3

MCThreads == {t1, t2, t3}
MCFrameSizes == 1 .. 3
MCGrants == 1 .. 2
=============================================================================
