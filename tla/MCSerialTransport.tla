--------------------------- MODULE MCSerialTransport ---------------------------
(* SerialTransport for TLC: the owner and one more program thread, and two   *)
(* sessions.                                                                 *)
EXTENDS SerialTransport

CONSTANTS a1, a2

MCApp == {a1, a2}
=============================================================================
