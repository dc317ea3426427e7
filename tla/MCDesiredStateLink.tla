-------------------------- MODULE MCDesiredStateLink --------------------------
(* DesiredStateLink for TLC: one program thread beside the RX thread, PTT to   *)
(* tell configurations apart, a device that boots twice at most.               *)
EXTENDS DesiredStateLink

CONSTANT a1

MCOneApp == {a1}
MCFields == {"squelch"}
MCSetters == {{"squelch"}}
MCOneValue == {0}
MCNoOptions == {}
MCNoSetters == {}

\* A device boots with nothing applied or, if it keeps count, with one.
MCBootStates ==
    {[applied |-> n, flags |-> {"SQUELCHED"}, settings |-> [f \in MCFields |-> 0]] : n \in 0 .. 1}
MCFreshBootStates == {s \in MCBootStates : s.applied = 0}
=============================================================================
