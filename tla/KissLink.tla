------------------------------- MODULE KissLink -------------------------------
(***************************************************************************)
(* KISS framing (kv4p/protocol/kiss.py): encode_kiss_frame at one end of a *)
(* serial line, KissParser at the other, byte by byte.  A byte is taken by *)
(* the parser as it is emitted, or lost; bytes nobody wrote may come in    *)
(* between; and open() may put a new parser in place at any byte.          *)
(*                                                                         *)
(* The writer is in the "gap" between frames, or about to emit the FEND    *)
(* that opens one ("open"), its "command", the payload's i-th byte or the  *)
(* FEND that closes it ("body"), or the second byte of an "escape".        *)
(***************************************************************************)
EXTENDS Integers, Sequences

CONSTANTS
    FEND, FESC, TFEND, TFESC,   \* the four bytes KISS gives a meaning
    Plain,       \* the other bytes
    Commands,    \* KISS commands, written unescaped
    Payloads,    \* the payloads written
    None,        \* no byte or frame has been seen yet
    MaxSends,    \* bound of the model: frames written
    MaxFaults    \* bound of the model: faults of the line

Bytes == {FEND, FESC, TFEND, TFESC} \cup Plain
Frames == [command : Commands, payload : Payloads]
AnyFrame == [command : Bytes, payload : Seq(Bytes)]

ASSUME KissAssumption ==
    /\ FEND \notin {FESC, TFEND, TFESC}
    /\ FESC \notin {TFEND, TFESC}
    /\ TFEND # TFESC
    /\ Plain \cap {FEND, FESC, TFEND, TFESC} = {}
    /\ Commands \subseteq Bytes \ {FEND, FESC}
    /\ Payloads \subseteq Seq(Bytes)
    /\ None \notin Bytes
    /\ MaxSends \in Nat /\ MaxFaults \in Nat

VARIABLES
    phase, i,             \* the writer
    inFrame, escaped, buf,   \* the parser: _in_frame, _escaped, _buf
    out,      \* the last call of on_frame
    prev,     \* history: the byte this parser has been fed last
    sent,     \* history: the frames written
    hurt,     \* history: the frames a fault has reached, see Reached
    done,     \* history: the last of the others to have been delivered
    faults,   \* history: faults of the line
    garbage   \* history: deliveries that are of no frame written

writerVars == <<phase, i, sent>>
parserVars == <<inFrame, escaped, buf, out, prev, done, garbage>>
vars == <<writerVars, parserVars, hurt, faults>>

Inside == phase \in {"command", "body", "escape"}

\* The frame the parser's bytes are of: the one being emitted or the last.
Current == IF phase = "open" THEN Len(sent) - 1 ELSE Len(sent)

Frame == sent[Len(sent)]

WriterTypeOK ==
    /\ phase \in {"gap", "open", "command", "body", "escape"}
    /\ sent \in Seq(Frames)
    /\ phase # "gap" => sent # <<>>
    /\ i \in Nat \ {0}
    /\ phase \in {"open", "command"} => i = 1
    /\ phase = "body" => i <= Len(Frame.payload) + 1
    /\ phase = "escape" => i <= Len(Frame.payload) /\ Frame.payload[i] \in {FEND, FESC}

ParserTypeOK ==
    /\ inFrame \in BOOLEAN /\ escaped \in BOOLEAN
    /\ buf \in Seq(Bytes)
    /\ ~inFrame => buf = <<>> /\ escaped = FALSE
    /\ out \in AnyFrame \cup {None}
    /\ prev \in Bytes \cup {None}

HistoryTypeOK ==
    /\ hurt \subseteq -1 .. Len(sent)
    /\ done \in 0 .. Len(sent)
    /\ faults \in Nat
    /\ garbage \in Nat

\* Types; outside a frame the parser keeps no byte and waits for none, and the
\* writer does not go past its payload.
TypeOK == WriterTypeOK /\ ParserTypeOK /\ HistoryTypeOK

Init ==
    /\ phase = "gap"
    /\ i = 1
    /\ inFrame = FALSE
    /\ escaped = FALSE
    /\ buf = <<>>
    /\ out = None
    /\ prev = None
    /\ sent = <<>>
    /\ hurt = {}
    /\ done = 0
    /\ faults = 0
    /\ garbage = 0

-----------------------------------------------------------------------------
(* encode_kiss_frame                                                       *)

Write(f) ==
    /\ phase = "gap"
    /\ phase' = "open"
    /\ i' = 1
    /\ sent' = Append(sent, f)
    /\ UNCHANGED <<parserVars, hurt, faults>>

Opens(b) ==
    /\ phase = "open"
    /\ b = FEND
    /\ phase' = "command"
    /\ UNCHANGED i

Names(b) ==
    /\ phase = "command"
    /\ b = Frame.command
    /\ phase' = "body"
    /\ UNCHANGED i

Copies(b) ==
    /\ phase = "body"
    /\ i <= Len(Frame.payload)
    /\ b = Frame.payload[i]
    /\ b \notin {FEND, FESC}
    /\ i' = i + 1
    /\ UNCHANGED phase

Escapes(b) ==
    /\ phase = "body"
    /\ i <= Len(Frame.payload)
    /\ Frame.payload[i] \in {FEND, FESC}
    /\ b = FESC
    /\ phase' = "escape"
    /\ UNCHANGED i

Stands(b) ==
    /\ phase = "escape"
    /\ b = IF Frame.payload[i] = FEND THEN TFEND ELSE TFESC
    /\ phase' = "body"
    /\ i' = i + 1

Closes(b) ==
    /\ phase = "body"
    /\ i = Len(Frame.payload) + 1
    /\ b = FEND
    /\ phase' = "gap"
    /\ UNCHANGED i

Emit(b) ==
    /\ Opens(b) \/ Names(b) \/ Copies(b) \/ Escapes(b) \/ Stands(b) \/ Closes(b)
    /\ UNCHANGED sent

-----------------------------------------------------------------------------
(* KissParser                                                              *)

\* FEND as it would be if it did not end an escape.
DelimiterKeepsEscape(b) ==
    /\ b = FEND
    /\ inFrame' = TRUE
    /\ buf' = <<>>
    /\ UNCHANGED escaped

\* FEND as it would be if it ended the frame and did not begin one.
DelimiterLeaves(b) ==
    /\ b = FEND
    /\ inFrame' = (~inFrame \/ buf = <<>>)
    /\ escaped' = FALSE
    /\ buf' = <<>>

Delimiter(b) ==
    /\ b = FEND
    /\ inFrame' = TRUE
    /\ escaped' = FALSE
    /\ buf' = <<>>

Ignored(b) ==
    /\ b # FEND
    /\ ~inFrame
    /\ UNCHANGED <<inFrame, escaped, buf>>

Unescaped(b) ==
    /\ b # FEND /\ inFrame /\ escaped
    /\ escaped' = FALSE
    /\ buf' = IF b = TFEND THEN Append(buf, FEND)
              ELSE IF b = TFESC THEN Append(buf, FESC) ELSE buf
    /\ UNCHANGED inFrame

Escape(b) ==
    /\ b = FESC /\ inFrame /\ ~escaped
    /\ escaped' = TRUE
    /\ UNCHANGED <<inFrame, buf>>

\* Data as it would be if bytes before the first FEND were kept.
DataAnywhere(b) ==
    /\ b \notin {FEND, FESC} /\ ~escaped
    /\ buf' = Append(buf, b)
    /\ UNCHANGED <<inFrame, escaped>>

Data(b) ==
    /\ b \notin {FEND, FESC} /\ inFrame /\ ~escaped
    /\ buf' = Append(buf, b)
    /\ UNCHANGED <<inFrame, escaped>>

Completes(b) == b = FEND /\ inFrame /\ buf # <<>>

\* on_frame, before the buffer is cleared.  The current frame is delivered, or
\* something that is none.
Deliver ==
    /\ out' = [command |-> Head(buf), payload |-> Tail(buf)]
    /\ \/ Current \notin hurt' /\ Current > done /\ done' = Current /\ UNCHANGED garbage
       \/ (Current \in hurt' \/ Current <= done) /\ garbage' = garbage + 1 /\ UNCHANGED done

FeedByte(b) ==
    /\ Delimiter(b) \/ Ignored(b) \/ Unescaped(b) \/ Escape(b) \/ Data(b)
    /\ Completes(b) => Deliver
    /\ ~Completes(b) => UNCHANGED <<out, done, garbage>>
    /\ prev' = b

-----------------------------------------------------------------------------
(* The line.                                                               *)

Transfer ==
    /\ UNCHANGED <<hurt, faults>>
    /\ \E b \in Bytes : Emit(b) /\ FeedByte(b)

\* The frame a fault falls into: one being emitted, or one that waits in the
\* parser for its FEND.
Reached == IF Inside THEN {Len(sent)} ELSE IF prev = FEND THEN {} ELSE {Current}

\* Any of the FENDs between two frames may be lost, as long as one arrives.
Lose ==
    /\ faults' = faults + 1
    /\ \E b \in Bytes : Emit(b)
    /\ hurt' = hurt \cup
         IF phase' = "gap" THEN {}
         ELSE IF Inside THEN {Len(sent)}
         ELSE IF prev = FEND THEN {} ELSE {Len(sent) - 1, Len(sent)}
    /\ UNCHANGED parserVars

\* A FEND between frames does no harm.
Noise(b) ==
    /\ faults' = faults + 1
    /\ hurt' = hurt \cup IF b = FEND /\ ~Inside THEN {} ELSE Reached
    /\ FeedByte(b)
    /\ UNCHANGED writerVars

\* close() and open(): a new parser comes in wherever the line is.
NewParser ==
    /\ faults' = faults + 1
    /\ hurt' = hurt \cup Reached
    /\ inFrame' = FALSE
    /\ escaped' = FALSE
    /\ buf' = <<>>
    /\ prev' = None
    /\ UNCHANGED <<writerVars, out, done, garbage>>

Next ==
    \/ \E f \in Frames : Len(sent) < MaxSends /\ Write(f)
    \/ Transfer
    \/ faults < MaxFaults /\ (Lose \/ (\E b \in Bytes : Noise(b)) \/ NewParser)

Spec == Init /\ [][Next]_vars

-----------------------------------------------------------------------------

\* The framing keeps what a channel of frames promises: each frame arrives as
\* it was written, once and in order, but for those a fault has fallen into,
\* and one fault adds at most two frames that are none (kiss.py, whole).
Channel == INSTANCE FrameChannel
ImplementsChannel == Channel!Spec

\* A frame no fault has reached is delivered by the first FEND after it, its own
\* or the one that opens the next (kiss.py, lines 28-37): whatever happened to
\* the frames before, the parser is never left waiting for anything else.
NothingHeldBack ==
    \A k \in 1 .. Len(sent) :
        \/ k \in hurt \/ k <= done
        \/ k = Len(sent) /\ phase # "gap"
        \/ k = Current /\ ~Inside /\ prev # FEND
=============================================================================
