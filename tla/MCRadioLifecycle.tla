---------------------------- MODULE MCRadioLifecycle ----------------------------
(* RadioLifecycle for TLC: the owner alone or with one more program thread,   *)
(* two sessions, two resets.                                                  *)
EXTENDS RadioLifecycle

CONSTANTS a1, a2

MCOneApp == {a1}
MCTwoApps == {a1, a2}

\* What happens after a join has given up is left to SerialTransport's own run:
\* the properties of this one promise nothing then.
MCJoined == ~gaveUp
=============================================================================
