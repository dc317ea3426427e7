---------------------------- MODULE MCStateTracker ----------------------------
(* StateTracker for TLC: one program thread beside the RX thread, one        *)
(* setting with a value that cannot be packed, one option, numbers up to two  *)
(* on the wire, and reports that lag behind, agree with or run ahead of the   *)
(* host and differ in every edge.                                             *)
EXTENDS StateTracker

CONSTANT a1

MCOneApp == {a1}
MCFields == {"squelch"}
MCSetters == {{"squelch"}}
MCValues == 0 .. 1
MCEncodable == {0}
MCOptions == {"TX_ALLOWED"}

State(n, fl) == [applied |-> n, flags |-> fl, settings |-> [f \in MCFields |-> 0]]

MCReports ==
    {State(0, {"SQUELCHED", "TX_ALLOWED"}), State(1, {"PHYS_PTT_DOWN", "PTT"})}
=============================================================================
