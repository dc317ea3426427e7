--------------------------- MODULE MCTransmitSession ---------------------------
(* TransmitSession for TLC: the program and the RX thread, PTT and the option  *)
(* that allows it, a device that boots when connect resets it.                 *)
EXTENDS TransmitSession

MCApp == {Owner}
MCFields == {"squelch"}
MCNoSetters == {}
MCValues == {0}
MCOptions == {"TX_ALLOWED"}
MCBootStates ==
    {[applied |-> 0, flags |-> {"SQUELCHED"}, settings |-> [f \in MCFields |-> 0]]}
=============================================================================
