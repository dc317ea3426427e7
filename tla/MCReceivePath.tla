----------------------------- MODULE MCReceivePath -----------------------------
(* ReceivePath for TLC.  States count up to the codes of the commands, credits *)
(* look like them.  A text is empty, or it reads like a frame with a report:   *)
(* as the data of a frame of the port DATA it is one once the port is lost,    *)
(* and as a debug text that has lost its version byte it is a HELLO, of the    *)
(* right length.                                                               *)
EXTENDS ReceivePath

MCApplied == {6, 9}
MCSizes == {9}
MCTexts == {<<>>, Envelope(DEVICE_STATE, [i \in 1 .. 37 |-> 7])}
=============================================================================
