----------------------------- MODULE FrameChannel -----------------------------
(***************************************************************************)
(* What KISS framing promises of a serial line: frames arrive whole, once  *)
(* and in the order they were written.  A fault of the line may spoil the  *)
(* frame it falls into and a neighbour, which then do not arrive, and may  *)
(* make up to two frames nobody has written; it does nothing to the rest.  *)
(***************************************************************************)
EXTENDS Integers, Sequences

CONSTANTS
    Frames,    \* what is written
    AnyFrame,  \* what may arrive after a fault
    None       \* nothing has arrived yet

VARIABLES
    sent,     \* the frames written, in order
    hurt,     \* the numbers of those a fault has reached
    done,     \* the number of the last one that has arrived
    out,      \* what arrived last
    faults,   \* how often the line has failed
    garbage   \* how many frames have arrived that were not written so

channelVars == <<sent, hurt, done, out, faults, garbage>>

Init ==
    /\ sent = <<>>
    /\ hurt = {}
    /\ done = 0
    /\ out = None
    /\ faults = 0
    /\ garbage = 0

Send(f) ==
    /\ sent' = Append(sent, f)
    /\ UNCHANGED <<hurt, done, out, faults, garbage>>

\* A fault reaches the frame on the line, the one before, both or neither.
Fault ==
    /\ faults' = faults + 1
    /\ \E spoilt \in SUBSET {Len(sent) - 1, Len(sent)} : hurt' = hurt \cup spoilt

\* The next frame no fault has reached arrives as it was written.
Deliver ==
    \E k \in done + 1 .. Len(sent) :
        /\ k \notin hurt'
        /\ \A j \in done + 1 .. k - 1 : j \in hurt'
        /\ done' = k
        /\ out' = sent[k]
        /\ UNCHANGED garbage

Garbage ==
    /\ garbage < 2 * faults'
    /\ garbage' = garbage + 1
    /\ out' \in AnyFrame
    /\ UNCHANGED done

Line ==
    /\ Fault \/ UNCHANGED <<faults, hurt>>
    /\ Deliver \/ Garbage \/ UNCHANGED <<done, out, garbage>>
    /\ UNCHANGED sent

Next == (\E f \in Frames : Send(f)) \/ Line

Spec == Init /\ [][Next]_channelVars
=============================================================================
