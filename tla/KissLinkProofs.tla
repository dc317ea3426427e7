---------------------------- MODULE KissLinkProofs ----------------------------
(***************************************************************************)
(* KissLink implements FrameChannel, for any payloads, any number of       *)
(* frames and any faults.                                                  *)
(*                                                                         *)
(* The parser's state follows the writer's as long as no fault reaches the *)
(* frame between them: FollowsInside while it is emitted, FollowsWhole when *)
(* only its FEND is missing.  After any FEND the parser is where a frame   *)
(* begins (Aligned), so what a fault has spoilt ends there.  Budget counts *)
(* the deliveries that faults still may cause.                             *)
(***************************************************************************)
EXTENDS KissLink, SequenceTheorems, TLAPS

\* s is the command of f and the first n bytes of its payload.
Matches(s, f, n) ==
    /\ Len(s) = n + 1
    /\ s[1] = f.command
    /\ \A j \in 1 .. n : s[j + 1] = f.payload[j]

Numbered ==
    /\ phase = "open" => Len(sent) \notin hurt
    /\ phase # "gap" => done < Len(sent)

Aligned == prev = FEND => inFrame /\ ~escaped /\ buf = <<>>

FollowsInside ==
    Inside /\ Len(sent) \notin hurt =>
        /\ phase = "command" => inFrame /\ ~escaped /\ buf = <<>>
        /\ phase = "body" => inFrame /\ ~escaped /\ Matches(buf, Frame, i - 1)
        /\ phase = "escape" => inFrame /\ escaped /\ Matches(buf, Frame, i - 1)

FollowsWhole ==
    ~Inside /\ prev # FEND /\ Current \notin hurt /\ Current > done =>
        inFrame /\ ~escaped /\ Matches(buf, sent[Current], Len(sent[Current].payload))

Budget ==
    /\ garbage <= 2 * faults
    /\ Inside /\ Len(sent) \in hurt => garbage < 2 * faults
    /\ ~Inside /\ buf # <<>> /\ (Current \in hurt \/ Current <= done) => garbage < 2 * faults

IInv ==
    /\ TypeOK /\ NothingHeldBack
    /\ Numbered /\ Aligned /\ FollowsInside /\ FollowsWhole /\ Budget
-----------------------------------------------------------------------------
(* Sequences.                                                              *)

LEMMA MatchesFirst ==
    ASSUME NEW f \in Frames
    PROVE  Matches(Append(<<>>, f.command), f, 0)
BY DEF Matches, Frames

LEMMA MatchesMore ==
    ASSUME NEW f \in Frames, NEW s \in Seq(Bytes), NEW n \in Nat,
           n < Len(f.payload), Matches(s, f, n)
    PROVE  Matches(Append(s, f.payload[n + 1]), f, n + 1)
<1> DEFINE t == Append(s, f.payload[n + 1])
<1>1. Len(t) = n + 2 /\ t[1] = f.command
  BY DEF Matches
<1>2. ASSUME NEW j \in 1 .. n + 1 PROVE t[j + 1] = f.payload[j]
  BY <1>1 DEF Matches
<1>3. QED BY <1>1, <1>2 DEF Matches

LEMMA MatchesAll ==
    ASSUME NEW f \in Frames, NEW s \in Seq(Bytes), Matches(s, f, Len(f.payload))
    PROVE  s # <<>> /\ [command |-> Head(s), payload |-> Tail(s)] = f
<1>1. f.payload \in Seq(Bytes) /\ Len(f.payload) \in Nat
  BY KissAssumption DEF Frames
<1>2. s # <<>> /\ Head(s) = f.command
  BY <1>1 DEF Matches
<1>3. Tail(s) \in Seq(Bytes) /\ Len(Tail(s)) = Len(f.payload)
  BY <1>1, <1>2 DEF Matches
<1>4. \A j \in 1 .. Len(f.payload) : Tail(s)[j] = f.payload[j]
  BY <1>1, <1>2 DEF Matches
<1>5. Tail(s) = f.payload
  BY <1>1, <1>3, <1>4, SeqEqual
<1>6. QED BY <1>2, <1>5 DEF Frames

-----------------------------------------------------------------------------
(* The parser.                                                             *)

LEMMA FeedFend ==
    ASSUME TypeOK, FeedByte(FEND)
    PROVE  /\ inFrame' /\ ~escaped' /\ buf' = <<>> /\ prev' = FEND
           /\ buf # <<>> => Deliver
           /\ buf = <<>> => UNCHANGED <<out, done, garbage>>
BY KissAssumption
   DEF FeedByte, Delimiter, Ignored, Unescaped, Escape, Data, Completes, TypeOK, WriterTypeOK, ParserTypeOK, HistoryTypeOK

LEMMA FeedOther ==
    ASSUME TypeOK, NEW b \in Bytes \ {FEND}, FeedByte(b)
    PROVE  /\ UNCHANGED <<inFrame, out, done, garbage>>
           /\ prev' = b
           /\ buf' \in Seq(Bytes) /\ escaped' \in BOOLEAN
           /\ ~inFrame => buf' = <<>> /\ ~escaped'
           /\ inFrame /\ ~escaped /\ b = FESC => escaped' /\ buf' = buf
           /\ inFrame /\ ~escaped /\ b # FESC => ~escaped' /\ buf' = Append(buf, b)
           /\ inFrame /\ escaped => ~escaped'
           /\ inFrame /\ escaped /\ b = TFEND => buf' = Append(buf, FEND)
           /\ inFrame /\ escaped /\ b = TFESC => buf' = Append(buf, FESC)
<1>1. b # FEND /\ FEND \in Bytes /\ FESC \in Bytes
  BY DEF Bytes
<1>2. prev' = b /\ UNCHANGED <<out, done, garbage>>
  BY <1>1 DEF FeedByte, Completes
<1>3. Ignored(b) \/ Unescaped(b) \/ Escape(b) \/ Data(b)
  BY <1>1 DEF FeedByte, Delimiter
<1>4. buf \in Seq(Bytes) /\ inFrame \in BOOLEAN /\ escaped \in BOOLEAN /\ (~inFrame => buf = <<>> /\ ~escaped)
  BY DEF TypeOK, WriterTypeOK, ParserTypeOK, HistoryTypeOK
<1>5. CASE Ignored(b)
  BY <1>1, <1>2, <1>4, <1>5 DEF Ignored
<1>6. CASE Unescaped(b)
  <2>1. TFEND # TFESC /\ Append(buf, FEND) \in Seq(Bytes) /\ Append(buf, FESC) \in Seq(Bytes)
    BY <1>1, <1>4, KissAssumption
  <2>2. buf' \in {buf, Append(buf, FEND), Append(buf, FESC)} /\ inFrame /\ inFrame' = inFrame /\ escaped' = FALSE /\ escaped
    BY <1>6 DEF Unescaped
  <2>3. /\ b = TFEND => buf' = Append(buf, FEND)
        /\ b = TFESC => buf' = Append(buf, FESC)
    BY <1>6, <2>1 DEF Unescaped
  <2>4. QED BY <1>2, <1>4, <2>1, <2>2, <2>3
<1>7. CASE Escape(b)
  BY <1>1, <1>2, <1>4, <1>7 DEF Escape
<1>8. CASE Data(b)
  BY <1>1, <1>2, <1>4, <1>8 DEF Data
<1>9. QED BY <1>3, <1>5, <1>6, <1>7, <1>8

\* What is delivered, and what that does to the history.
LEMMA Delivering ==
    ASSUME TypeOK, Deliver, buf # <<>>
    PROVE  /\ out' \in AnyFrame
           /\ out' = [command |-> Head(buf), payload |-> Tail(buf)]
           /\ \/ Current \notin hurt' /\ Current > done /\ done' = Current /\ garbage' = garbage
              \/ (Current \in hurt' \/ Current <= done) /\ garbage' = garbage + 1 /\ done' = done
BY DEF Deliver, TypeOK, WriterTypeOK, ParserTypeOK, HistoryTypeOK, AnyFrame
-----------------------------------------------------------------------------
(* The invariant, action by action.                                        *)

LEMMA InvInit == Init => IInv
<1> SUFFICES ASSUME Init PROVE IInv
  OBVIOUS
<1> USE DEF Init
<1>1. ~Inside /\ Current = 0 /\ None # FEND
  BY KissAssumption DEF Inside, Current, Bytes
<1>2. <<>> \in Seq(Bytes) /\ <<>> \in Seq(Frames) /\ Len(<<>>) = 0
  OBVIOUS
<1>3. TypeOK
  <2>1. WriterTypeOK
    BY <1>2 DEF WriterTypeOK
  <2>2. ParserTypeOK
    BY <1>2 DEF ParserTypeOK
  <2>3. HistoryTypeOK
    BY <1>2 DEF HistoryTypeOK
  <2>4. QED BY <2>1, <2>2, <2>3 DEF TypeOK
<1>4. NothingHeldBack /\ Numbered /\ Aligned /\ FollowsInside
  BY <1>1, <1>2 DEF NothingHeldBack, Numbered, Aligned, FollowsInside
<1>5. FollowsWhole /\ Budget
  BY <1>1 DEF FollowsWhole, Budget
<1>6. QED BY <1>3, <1>4, <1>5 DEF IInv

LEMMA SentLast ==
    ASSUME TypeOK, NEW f \in Frames, sent' = Append(sent, f)
    PROVE  /\ sent' \in Seq(Frames)
           /\ Len(sent') = Len(sent) + 1
           /\ sent'[Len(sent')] = f
           /\ \A k \in 1 .. Len(sent) : sent'[k] = sent[k]
BY DEF TypeOK, WriterTypeOK, ParserTypeOK, HistoryTypeOK

LEMMA InvWrite ==
    ASSUME IInv, NEW f \in Frames, Write(f)
    PROVE  IInv'
<1> USE DEF IInv, Write, parserVars
<1>1. TypeOK /\ TypeOK' /\ ~Inside /\ ~Inside'
  BY SentLast DEF TypeOK, WriterTypeOK, ParserTypeOK, HistoryTypeOK, Inside
<1>2. Len(sent) \in Nat /\ Len(sent') = Len(sent) + 1 /\ (\A k \in 1 .. Len(sent) : sent'[k] = sent[k])
  BY SentLast DEF TypeOK, WriterTypeOK, ParserTypeOK, HistoryTypeOK
<1>3. Current = Len(sent) /\ Current' = Len(sent)
  BY <1>2 DEF Current
<1>4. Numbered' /\ Aligned' /\ Budget'
  BY <1>1, <1>2, <1>3 DEF Numbered, Aligned, Budget, TypeOK, WriterTypeOK, ParserTypeOK, HistoryTypeOK
<1>5. NothingHeldBack'
  BY <1>1, <1>2, <1>3 DEF NothingHeldBack
<1>6. FollowsInside'
  BY <1>1 DEF FollowsInside
<1>7. FollowsWhole'
  BY <1>1, <1>2, <1>3 DEF FollowsWhole, Matches, TypeOK, WriterTypeOK, ParserTypeOK, HistoryTypeOK
<1>8. QED BY <1>1, <1>4, <1>5, <1>6, <1>7

\* The FEND that ends the current frame is all that is missing.
Complete == Inside => phase = "body" /\ i = Len(Frame.payload) + 1

LEMMA Numbers ==
    ASSUME IInv
    PROVE  /\ Len(sent) \in Nat /\ garbage \in Nat /\ faults \in Nat /\ done \in 0 .. Len(sent)
           /\ out \in AnyFrame \cup {None} /\ buf \in Seq(Bytes)
           /\ hurt \subseteq -1 .. Len(sent)
           /\ Current \in Int /\ Current <= Len(sent)
           /\ Inside => Current = Len(sent) /\ Frame = sent[Current] /\ Current > done
           /\ Current > done => Current \in 1 .. Len(sent) /\ sent[Current] \in Frames
BY DEF IInv, TypeOK, WriterTypeOK, ParserTypeOK, HistoryTypeOK, Current, Frame, Inside, Numbered

\* A complete frame that is neither spoilt nor delivered waits in the parser.
LEMMA Waits ==
    ASSUME IInv, Complete, Current \notin hurt, Current > done
    PROVE  /\ inFrame /\ ~escaped
           /\ Matches(buf, sent[Current], Len(sent[Current].payload))
           /\ ~Inside => prev # FEND
<1>1. Current \in 1 .. Len(sent) /\ (Inside => Current = Len(sent) /\ Frame = sent[Current])
  BY Numbers
<1>2. CASE Inside
  <2>1. phase = "body" /\ Len(sent) \notin hurt /\ i - 1 = Len(Frame.payload)
    BY <1>1, <1>2 DEF Complete, IInv, TypeOK, WriterTypeOK
  <2>2. QED BY <1>1, <1>2, <2>1 DEF IInv, FollowsInside
<1>3. CASE ~Inside
  <2>1. prev # FEND
    <3>1. phase \in {"gap", "open"}
      BY <1>3 DEF IInv, TypeOK, WriterTypeOK, Inside
    <3>2. Current = Len(sent) => phase = "gap"
      BY <3>1, Numbers DEF Current
    <3>3. QED BY <1>1, <1>3, <3>2, Numbers DEF IInv, NothingHeldBack
  <2>2. QED BY <1>3, <2>1 DEF IInv, FollowsWhole
<1>4. QED BY <1>2, <1>3

LEMMA InvNewParser ==
    ASSUME IInv, NewParser
    PROVE  IInv'
<1> USE DEF IInv, NewParser, writerVars
<1>1. TypeOK'
  <2>1. Reached \subseteq -1 .. Len(sent)
    BY DEF TypeOK, WriterTypeOK, ParserTypeOK, HistoryTypeOK, Reached, Current
  <2>2. <<>> \in Seq(Bytes)
    OBVIOUS
  <2>3. WriterTypeOK'
    BY DEF TypeOK, WriterTypeOK, Frame
  <2>4. ParserTypeOK'
    BY <2>2 DEF TypeOK, ParserTypeOK
  <2>5. HistoryTypeOK'
    BY <2>1 DEF TypeOK, HistoryTypeOK
  <2>6. QED BY <2>3, <2>4, <2>5 DEF TypeOK
<1>2. UNCHANGED <<Inside, Current>> /\ Len(sent) \in Nat /\ None # FEND
  BY KissAssumption DEF Inside, Current, TypeOK, WriterTypeOK, ParserTypeOK, HistoryTypeOK, Bytes
<1>3. Numbered' /\ Aligned' /\ Budget'
  BY <1>2 DEF Numbered, Aligned, Budget, TypeOK, WriterTypeOK, ParserTypeOK, HistoryTypeOK, Reached, Inside, Current
<1>4. NothingHeldBack'
  BY <1>2 DEF NothingHeldBack, Reached, Inside
<1>5. FollowsInside'
  BY <1>2 DEF FollowsInside, Reached
<1>6. ~Inside => Current \in hurt' \/ Current <= done
  <2>1. SUFFICES ASSUME ~Inside, Current \notin hurt', Current > done PROVE FALSE
    BY Numbers
  <2>2. Reached = {}
    BY <2>1 DEF Reached
  <2>3. prev # FEND
    BY <2>1, Waits DEF Complete
  <2>4. QED BY <2>1, <2>2, <2>3 DEF Reached
<1>7. FollowsWhole'
  BY <1>2, <1>6, Numbers DEF FollowsWhole
<1>8. QED BY <1>1, <1>3, <1>4, <1>5, <1>7
-----------------------------------------------------------------------------
(* A FEND is fed: what waited in the parser is delivered.                  *)

\* Every FEND that is fed, wherever it comes from: hurt' and faults' are set by
\* the step it is part of.
FendMeets ==
    /\ hurt \subseteq hurt' /\ faults' \in Nat /\ faults <= faults'
    /\ \/ hurt' = hurt /\ Complete
       \/ Len(sent) \in hurt' /\ Inside /\ faults < faults'

Outcome ==
    \/ Current > done /\ done' = Current /\ Current \notin hurt' /\ out' = sent[Current]
       /\ garbage' = garbage
    \/ done' = done /\ out' = out /\ garbage' = garbage
    \/ done' = done /\ out' \in AnyFrame /\ garbage' = garbage + 1

LEMMA FendDelivers ==
    ASSUME IInv, FeedByte(FEND), FendMeets
    PROVE  /\ garbage' \in Nat /\ garbage' <= 2 * faults' /\ garbage' <= garbage + 1
           /\ done' \in 0 .. Len(sent) /\ done <= done'
           /\ Current \in hurt' \/ Current <= done'
           /\ Outcome
<1> USE DEF FendMeets, Outcome
<1>1. TypeOK
  BY DEF IInv
<1>2. /\ buf # <<>> => Deliver
      /\ buf = <<>> => UNCHANGED <<out, done, garbage>>
  BY <1>1, FeedFend
<1>3. garbage <= 2 * faults
  BY DEF IInv, Budget
<1>4. CASE buf = <<>>
  <2>1. Current \in hurt' \/ Current <= done
    <3>1. SUFFICES ASSUME Current \notin hurt', Current > done PROVE FALSE
      BY Numbers
    <3>2. Complete /\ Current \notin hurt
      BY <3>1, Numbers
    <3>3. Matches(buf, sent[Current], Len(sent[Current].payload)) /\ sent[Current] \in Frames
      BY <3>1, <3>2, Waits, Numbers
    <3>4. QED BY <1>4, <3>3, MatchesAll, Numbers
  <2>2. QED BY <1>2, <1>3, <1>4, <2>1, Numbers
<1>5. CASE buf # <<>> /\ (Current \in hurt' \/ Current <= done)
  <2>1. garbage + 1 <= 2 * faults'
    <3>1. CASE hurt' = hurt
      BY <1>5, <3>1, Numbers DEF IInv, Budget
    <3>2. CASE faults < faults'
      BY <1>3, <3>2, Numbers
    <3>3. QED BY <3>1, <3>2
  <2>2. /\ out' \in AnyFrame /\ garbage' = garbage + 1 /\ done' = done
    BY <1>1, <1>2, <1>5, Delivering, Numbers
  <2>3. QED BY <1>5, <2>1, <2>2, Numbers
<1>6. CASE buf # <<>> /\ Current \notin hurt' /\ Current > done
  <2>1. Matches(buf, sent[Current], Len(sent[Current].payload)) /\ sent[Current] \in Frames
    BY <1>6, Waits, Numbers
  <2>2. [command |-> Head(buf), payload |-> Tail(buf)] = sent[Current]
    BY <2>1, MatchesAll, Numbers
  <2>3. /\ out' \in AnyFrame /\ out' = sent[Current]
        /\ done' = Current /\ garbage' = garbage
    <3>1. Deliver /\ ~(Current \in hurt' \/ Current <= done)
      BY <1>2, <1>6, Numbers
    <3>2. QED BY <1>1, <1>6, <2>2, <3>1, Delivering
  <2>4. QED BY <1>3, <1>6, <2>3, Numbers
<1>7. QED BY <1>4, <1>5, <1>6, Numbers
-----------------------------------------------------------------------------
(* A byte is emitted, or fed.                                              *)

LEMMA EmitTypes ==
    ASSUME IInv, NEW b, Emit(b)
    PROVE  /\ WriterTypeOK' /\ sent' = sent /\ Frame' = Frame
           /\ b \in Bytes /\ Frame \in Frames /\ Len(Frame.payload) \in Nat
           /\ b = FEND <=> Opens(b) \/ Closes(b)
           /\ phase # "gap" /\ (Inside <=> ~Opens(b)) /\ (Inside' <=> ~Closes(b))
<1>1. WriterTypeOK
  BY DEF IInv, TypeOK
<1>2. sent' = sent /\ Frame' = Frame
  BY DEF Emit, Frame
<1>3. phase # "gap" /\ (Inside <=> ~Opens(b)) /\ (Inside' <=> ~Closes(b))
  BY DEF Emit, Opens, Names, Copies, Escapes, Stands, Closes, Inside
<1>4. Frame \in Frames /\ Frame.payload \in Seq(Bytes) /\ Len(Frame.payload) \in Nat
  <2>1. Frame \in Frames
    BY <1>1, <1>3 DEF WriterTypeOK, Frame
  <2>2. QED BY <2>1, KissAssumption DEF Frames
<1>5. i \in Nat \ {0}
  BY <1>1 DEF WriterTypeOK
<1>6. b \in Bytes /\ (b = FEND <=> Opens(b) \/ Closes(b))
  <2>1. CASE Opens(b) \/ Closes(b)
    BY <2>1 DEF Opens, Closes, Bytes
  <2>2. CASE Names(b)
    BY <1>4, <2>2, KissAssumption DEF Names, Opens, Closes, Frames
  <2>3. CASE Copies(b)
    BY <1>4, <1>5, <2>3 DEF Copies, Opens, Closes
  <2>4. CASE Escapes(b) \/ Stands(b)
    BY <2>4, KissAssumption DEF Escapes, Stands, Bytes, Opens, Closes
  <2>5. QED BY <2>1, <2>2, <2>3, <2>4 DEF Emit
<1>7. WriterTypeOK'
  <2>1. CASE Opens(b)
    BY <1>1, <1>2, <1>3, <2>1 DEF Opens, WriterTypeOK, Write
  <2>2. CASE Names(b) \/ Copies(b)
    BY <1>1, <1>2, <1>3, <1>4, <2>2 DEF Names, Copies, WriterTypeOK
  <2>3. CASE Escapes(b) \/ Stands(b)
    BY <1>1, <1>2, <1>3, <1>4, <2>3 DEF Escapes, Stands, WriterTypeOK
  <2>4. CASE Closes(b)
    BY <1>1, <1>2, <2>4 DEF Closes, WriterTypeOK
  <2>5. QED BY <2>1, <2>2, <2>3, <2>4 DEF Emit
<1>8. QED BY <1>2, <1>3, <1>4, <1>6, <1>7

LEMMA FeedTypes ==
    ASSUME TypeOK, NEW b \in Bytes, FeedByte(b)
    PROVE  ParserTypeOK' /\ prev' = b
<1>1. CASE b = FEND
  <2>1. inFrame' /\ ~escaped' /\ buf' = <<>> /\ prev' = FEND
    BY <1>1, FeedFend
  <2>2. out' \in AnyFrame \cup {None}
    <3>1. CASE buf # <<>>
      BY <1>1, <3>1, FeedFend, Delivering
    <3>2. CASE buf = <<>>
      BY <1>1, <3>2, FeedFend DEF TypeOK, ParserTypeOK
    <3>3. QED BY <3>1, <3>2
  <2>3. inFrame' = TRUE /\ escaped' = FALSE
    BY <1>1, KissAssumption
       DEF FeedByte, Delimiter, Ignored, Unescaped, Escape, Data
  <2>4. buf' \in Seq(Bytes)
    BY <2>1
  <2>5. QED BY <1>1, <2>1, <2>2, <2>3, <2>4 DEF ParserTypeOK, Bytes
<1>2. CASE b # FEND
  <2>1. /\ UNCHANGED <<inFrame, out>> /\ prev' = b
        /\ buf' \in Seq(Bytes) /\ escaped' \in BOOLEAN
        /\ ~inFrame => buf' = <<>> /\ ~escaped'
    BY <1>2, FeedOther
  <2>2. ~escaped' => escaped' = FALSE
    BY <2>1
  <2>3. QED BY <2>1, <2>2 DEF TypeOK, ParserTypeOK
<1>3. QED BY <1>1, <1>2

\* The history after a step that leaves sent alone.
LEMMA HistoryTypes ==
    ASSUME IInv, sent' = sent, hurt' \subseteq -1 .. Len(sent), done' \in 0 .. Len(sent),
           faults' \in Nat, garbage' \in Nat
    PROVE  HistoryTypeOK'
BY DEF HistoryTypeOK

-----------------------------------------------------------------------------
(* A byte arrives.                                                         *)

LEMMA InvOpens ==
    ASSUME IInv, NEW b \in Bytes, Emit(b), Opens(b), FeedByte(b), UNCHANGED <<hurt, faults>>
    PROVE  IInv'
<1>1. b = FEND /\ phase = "open" /\ phase' = "command" /\ ~Inside /\ Inside' /\ sent' = sent
  BY DEF Opens, Inside, Emit
<1>2. Current = Len(sent) - 1
  BY <1>1 DEF Current
<1>3. FeedByte(FEND) /\ Complete
  BY <1>1 DEF Complete
<1>4. /\ garbage' \in Nat /\ garbage' <= 2 * faults'
      /\ done' \in 0 .. Len(sent) /\ done <= done'
      /\ Current \in hurt' \/ Current <= done'
      /\ done' = Current \/ done' = done
  <2>1. FendMeets
    BY <1>3, Numbers DEF FendMeets
  <2>2. QED BY <1>3, <2>1, FendDelivers DEF Outcome
<1>5. inFrame' /\ ~escaped' /\ buf' = <<>> /\ prev' = FEND
  BY <1>3, FeedFend DEF IInv
<1>6. TypeOK'
  BY <1>4, EmitTypes, FeedTypes, HistoryTypes, Numbers DEF TypeOK, IInv
<1>7. Len(sent) \notin hurt /\ done < Len(sent)
  BY <1>1 DEF IInv, Numbered
<1>8. Numbered' /\ Aligned' /\ Budget'
  BY <1>1, <1>2, <1>4, <1>5, <1>7, Numbers DEF Numbered, Aligned, Budget
<1>9. FollowsInside' /\ FollowsWhole'
  BY <1>1, <1>5 DEF FollowsInside, FollowsWhole
<1>10. NothingHeldBack'
  BY <1>1, <1>2, <1>4, Numbers DEF IInv, NothingHeldBack
<1>11. QED BY <1>6, <1>8, <1>9, <1>10 DEF IInv

LEMMA InvCloses ==
    ASSUME IInv, NEW b \in Bytes, Emit(b), Closes(b), FeedByte(b), UNCHANGED <<hurt, faults>>
    PROVE  IInv'
<1>1. b = FEND /\ Inside /\ phase' = "gap" /\ ~Inside' /\ sent' = sent
  BY DEF Closes, Inside, Emit
<1>2. Current = Len(sent) /\ Current' = Len(sent)
  BY <1>1 DEF Current, Inside
<1>3. FeedByte(FEND) /\ Complete
  BY <1>1 DEF Complete, Closes
<1>4. /\ garbage' \in Nat /\ garbage' <= 2 * faults'
      /\ done' \in 0 .. Len(sent) /\ done <= done'
      /\ Current \in hurt' \/ Current <= done'
  <2>1. FendMeets
    BY <1>3, Numbers DEF FendMeets
  <2>2. QED BY <1>3, <2>1, FendDelivers DEF Outcome
<1>5. inFrame' /\ ~escaped' /\ buf' = <<>> /\ prev' = FEND
  BY <1>3, FeedFend DEF IInv
<1>6. TypeOK'
  BY <1>4, EmitTypes, FeedTypes, HistoryTypes, Numbers DEF TypeOK, IInv
<1>7. Numbered' /\ Aligned' /\ Budget'
  BY <1>1, <1>4, <1>5 DEF Numbered, Aligned, Budget
<1>8. FollowsInside' /\ FollowsWhole'
  BY <1>1, <1>5 DEF FollowsInside, FollowsWhole
<1>9. NothingHeldBack'
  BY <1>1, <1>2, <1>4, Numbers DEF IInv, NothingHeldBack
<1>10. QED BY <1>6, <1>7, <1>8, <1>9 DEF IInv

\* Inside a frame all but FollowsInside stays as it is.
LEMMA InvInside ==
    ASSUME IInv, NEW b \in Bytes, Emit(b), ~Opens(b), ~Closes(b), FeedByte(b),
           UNCHANGED <<hurt, faults>>, FollowsInside'
    PROVE  IInv'
<1>1. b # FEND /\ Inside /\ Inside' /\ sent' = sent
  BY EmitTypes
<1>2. phase # "gap" /\ phase' # "gap" /\ phase' # "open" /\ phase # "open"
  BY <1>1 DEF Inside
<1>3. UNCHANGED <<inFrame, out, done, garbage>> /\ prev' # FEND
  BY <1>1, FeedOther DEF IInv
<1>4. TypeOK'
  BY <1>1, <1>3, EmitTypes, FeedTypes, HistoryTypes, Numbers DEF TypeOK, IInv
<1>5. Numbered' /\ Aligned' /\ Budget' /\ FollowsWhole'
  BY <1>1, <1>2, <1>3 DEF IInv, Numbered, Aligned, Budget, FollowsWhole
<1>6. NothingHeldBack'
  BY <1>1, <1>2, <1>3 DEF IInv, NothingHeldBack
<1>7. QED BY <1>4, <1>5, <1>6 DEF IInv

LEMMA InvTransfer ==
    ASSUME IInv, Transfer
    PROVE  IInv'
<1>1. PICK b \in Bytes : Emit(b) /\ FeedByte(b)
  BY DEF Transfer
<1>2. UNCHANGED <<hurt, faults>>
  BY DEF Transfer
<1>3. CASE Opens(b)
  BY <1>1, <1>2, <1>3, InvOpens
<1>4. CASE Closes(b)
  BY <1>1, <1>2, <1>4, InvCloses
<1>5. CASE ~Opens(b) /\ ~Closes(b)
  <2>1. /\ b # FEND /\ Inside /\ Inside' /\ sent' = sent /\ Frame' = Frame /\ Frame \in Frames
        /\ i \in Nat \ {0} /\ buf \in Seq(Bytes)
    BY <1>1, <1>5, EmitTypes, Numbers DEF IInv, TypeOK, WriterTypeOK
  <2>2. /\ inFrame' = inFrame
        /\ inFrame /\ ~escaped /\ b = FESC => escaped' /\ buf' = buf
        /\ inFrame /\ ~escaped /\ b # FESC => ~escaped' /\ buf' = Append(buf, b)
        /\ inFrame /\ escaped => ~escaped'
        /\ inFrame /\ escaped /\ b = TFEND => buf' = Append(buf, FEND)
        /\ inFrame /\ escaped /\ b = TFESC => buf' = Append(buf, FESC)
    BY <1>1, <2>1, FeedOther DEF IInv
  <2>3. SUFFICES ASSUME Len(sent) \notin hurt
                 PROVE  FollowsInside'
    BY <1>1, <1>2, <1>5, <2>1, InvInside DEF FollowsInside
  <2>4. /\ phase = "command" => inFrame /\ ~escaped /\ buf = <<>>
        /\ phase = "body" => inFrame /\ ~escaped /\ Matches(buf, Frame, i - 1)
        /\ phase = "escape" => inFrame /\ escaped /\ Matches(buf, Frame, i - 1)
    BY <2>1, <2>3 DEF IInv, FollowsInside
  <2>5. CASE Names(b)
    <3>1. phase' = "body" /\ i' = 1 /\ b = Frame.command /\ b # FESC
      BY <2>1, <2>5, KissAssumption DEF Names, Frames, IInv, TypeOK, WriterTypeOK
    <3>2. inFrame' /\ ~escaped' /\ buf' = Append(<<>>, Frame.command)
      BY <2>2, <2>4, <2>5, <3>1 DEF Names
    <3>3. Matches(buf', Frame, 0)
      BY <2>1, <3>2, MatchesFirst
    <3>4. QED BY <2>1, <3>1, <3>2, <3>3 DEF FollowsInside
  <2>6. CASE Copies(b)
    <3>1. /\ phase = "body" /\ phase' = "body" /\ i' = i + 1
          /\ i - 1 < Len(Frame.payload) /\ b = Frame.payload[i] /\ b # FESC
      BY <1>1, <2>1, <2>6, EmitTypes DEF Copies
    <3>2. inFrame' /\ ~escaped' /\ buf' = Append(buf, Frame.payload[i])
      BY <2>2, <2>4, <3>1
    <3>3. Matches(buf', Frame, i)
      <4>1. Matches(Append(buf, Frame.payload[(i - 1) + 1]), Frame, (i - 1) + 1)
        BY <2>1, <2>4, <3>1, MatchesMore
      <4>2. QED BY <2>1, <3>2, <4>1
    <3>4. QED BY <2>1, <3>1, <3>2, <3>3 DEF FollowsInside
  <2>7. CASE Escapes(b)
    <3>1. phase = "body" /\ phase' = "escape" /\ i' = i /\ b = FESC
      BY <2>7 DEF Escapes
    <3>2. inFrame' /\ escaped' /\ buf' = buf
      BY <2>2, <2>4, <3>1
    <3>3. QED BY <2>1, <2>4, <3>1, <3>2 DEF FollowsInside
  <2>8. CASE Stands(b)
    <3>1. /\ phase = "escape" /\ phase' = "body" /\ i' = i + 1
          /\ b = IF Frame.payload[i] = FEND THEN TFEND ELSE TFESC
      BY <2>8 DEF Stands
    <3>2. i - 1 < Len(Frame.payload) /\ Frame.payload[i] \in {FEND, FESC}
      BY <1>1, <2>1, <3>1, EmitTypes DEF IInv, TypeOK, WriterTypeOK
    <3>3. inFrame' /\ ~escaped' /\ buf' = Append(buf, Frame.payload[i])
      BY <2>2, <2>4, <3>1, <3>2, KissAssumption
    <3>4. Matches(buf', Frame, i)
      <4>1. Matches(Append(buf, Frame.payload[(i - 1) + 1]), Frame, (i - 1) + 1)
        BY <2>1, <2>4, <3>1, <3>2, MatchesMore
      <4>2. QED BY <2>1, <3>3, <4>1
    <3>5. QED BY <2>1, <3>1, <3>3, <3>4 DEF FollowsInside
  <2>9. QED BY <1>1, <1>5, <2>5, <2>6, <2>7, <2>8 DEF Emit
<1>6. QED BY <1>3, <1>4, <1>5
-----------------------------------------------------------------------------
(* Faults.                                                                 *)

LEMMA InvLose ==
    ASSUME IInv, Lose
    PROVE  IInv'
<1>1. PICK b \in Bytes : Emit(b)
  BY DEF Lose
<1>2. /\ faults' = faults + 1 /\ UNCHANGED <<inFrame, escaped, buf, out, prev, done, garbage>>
      /\ hurt' = hurt \cup IF phase' = "gap" THEN {} ELSE IF Inside THEN {Len(sent)}
                            ELSE IF prev = FEND THEN {} ELSE {Len(sent) - 1, Len(sent)}
  BY DEF Lose, parserVars
<1>3. hurt' \subseteq -1 .. Len(sent) /\ faults' \in Nat /\ garbage < 2 * faults'
  BY <1>2, Numbers DEF IInv, Budget
<1>4. TypeOK'
  <2>1. ParserTypeOK'
    BY <1>2 DEF IInv, TypeOK, ParserTypeOK
  <2>2. sent' = sent
    BY <1>1, EmitTypes
  <2>3. HistoryTypeOK'
    BY <1>2, <1>3, <2>2, HistoryTypes, Numbers
  <2>4. QED BY <1>1, <2>1, <2>3, EmitTypes DEF TypeOK
<1>5. sent' = sent /\ Frame' = Frame
  BY <1>1, EmitTypes
<1>6. Budget'
  BY <1>2, <1>3, Numbers DEF Budget
<1>7. Aligned'
  BY <1>2 DEF IInv, Aligned
<1>8. CASE Opens(b)
  <2>1. phase = "open" /\ phase' = "command" /\ ~Inside /\ Inside' /\ Current = Len(sent) - 1
    BY <1>8 DEF Opens, Inside, Current
  <2>2. Len(sent) \notin hurt /\ done < Len(sent)
    BY <2>1 DEF IInv, Numbered
  <2>3. Numbered' /\ FollowsWhole'
    BY <1>2, <1>5, <2>1, <2>2 DEF Numbered, FollowsWhole
  <2>4. FollowsInside'
    BY <1>2, <1>5, <2>1, Numbers DEF IInv, Aligned, FollowsInside
  <2>5. NothingHeldBack'
    BY <1>2, <1>5, <2>1, Numbers DEF IInv, NothingHeldBack
  <2>6. QED BY <1>4, <1>6, <1>7, <2>3, <2>4, <2>5 DEF IInv
<1>9. CASE Closes(b)
  <2>1. /\ Inside /\ phase' = "gap" /\ ~Inside' /\ hurt' = hurt
        /\ Current = Len(sent) /\ Current' = Len(sent) /\ Complete
    BY <1>2, <1>5, <1>9 DEF Closes, Inside, Current, Complete
  <2>2. Len(sent) \notin hurt =>
          /\ inFrame /\ ~escaped /\ buf # <<>>
          /\ Matches(buf, sent[Current], Len(sent[Current].payload))
    BY <2>1, Waits, MatchesAll, Numbers
  <2>3. Numbered' /\ FollowsInside'
    BY <2>1 DEF Numbered, FollowsInside
  <2>4. FollowsWhole'
    BY <1>2, <1>5, <2>1, <2>2 DEF FollowsWhole
  <2>5. NothingHeldBack'
    BY <1>2, <1>5, <2>1, <2>2 DEF IInv, NothingHeldBack, Aligned
  <2>6. QED BY <1>4, <1>6, <1>7, <2>3, <2>4, <2>5 DEF IInv
<1>10. CASE ~Opens(b) /\ ~Closes(b)
  <2>1. Inside /\ Inside' /\ phase' # "gap" /\ phase' # "open" /\ Len(sent) \in hurt'
    BY <1>1, <1>2, <1>10, EmitTypes DEF Inside
  <2>2. Numbered' /\ FollowsInside' /\ FollowsWhole'
    BY <1>2, <1>5, <2>1, Numbers DEF Numbered, FollowsInside, FollowsWhole
  <2>3. NothingHeldBack'
    BY <1>2, <1>5, <2>1 DEF IInv, NothingHeldBack
  <2>4. QED BY <1>4, <1>6, <1>7, <2>2, <2>3 DEF IInv
<1>11. QED BY <1>8, <1>9, <1>10

LEMMA InvNoise ==
    ASSUME IInv, NEW b \in Bytes, Noise(b)
    PROVE  IInv'
<1>1. /\ faults' = faults + 1 /\ FeedByte(b) /\ UNCHANGED <<phase, i, sent>>
      /\ hurt' = hurt \cup IF b = FEND /\ ~Inside THEN {} ELSE Reached
  BY DEF Noise, writerVars
<1>2. /\ Reached \subseteq -1 .. Len(sent) /\ hurt' \subseteq -1 .. Len(sent)
      /\ faults' \in Nat /\ garbage < 2 * faults'
  <2>1. Reached \subseteq -1 .. Len(sent)
    BY Numbers DEF Reached, Current
  <2>2. hurt' \subseteq -1 .. Len(sent)
    BY <1>1, <2>1, Numbers
  <2>3. faults' \in Nat /\ garbage < 2 * faults'
    BY <1>1, Numbers DEF IInv, Budget
  <2>4. QED BY <2>1, <2>2, <2>3
<1>3. WriterTypeOK' /\ ParserTypeOK' /\ prev' = b
  BY <1>1, FeedTypes DEF IInv, TypeOK, WriterTypeOK, Frame
<1>4. (Inside <=> Inside') /\ Current' = Current
  BY <1>1 DEF Inside, Current
<1>5. Inside => Len(sent) \in hurt'
  BY <1>1 DEF Reached
<1>6. phase = "open" => Len(sent) \notin hurt'
  BY <1>1, Numbers DEF IInv, Numbered, Reached, Current, Inside
<1>7. CASE b = FEND
  <2>1. FeedByte(FEND) /\ FendMeets
    BY <1>1, <1>2, <1>5, <1>7, Numbers DEF FendMeets, Complete
  <2>2. /\ garbage' \in Nat /\ garbage' <= 2 * faults' /\ garbage' <= garbage + 1
        /\ done' \in 0 .. Len(sent) /\ done <= done'
        /\ Current \in hurt' \/ Current <= done'
        /\ done' = done \/ (done' = Current /\ Current \notin hurt')
    BY <2>1, FendDelivers DEF Outcome
  <2>3. inFrame' /\ ~escaped' /\ buf' = <<>>
    BY <2>1, FeedFend DEF IInv
  <2>4. TypeOK'
    BY <1>1, <1>2, <1>3, <2>2, HistoryTypes DEF TypeOK
  <2>5. Numbered'
    <3>1. phase # "gap" => done' < Len(sent)
      BY <1>5, <2>2, Numbers DEF IInv, Numbered, Inside, Current, TypeOK, WriterTypeOK
    <3>2. QED BY <1>1, <1>6, <3>1 DEF Numbered
  <2>6. Budget'
    BY <1>1, <1>2, <2>2, <2>3, Numbers DEF IInv, Budget
  <2>7. Aligned' /\ FollowsInside' /\ FollowsWhole'
    BY <1>1, <1>3, <1>4, <1>5, <1>7, <2>3 DEF Aligned, FollowsInside, FollowsWhole
  <2>8. NothingHeldBack'
    BY <1>1, <1>4, <2>2, Numbers DEF IInv, NothingHeldBack
  <2>9. QED BY <2>4, <2>5, <2>6, <2>7, <2>8 DEF IInv
<1>8. CASE b # FEND
  <2>1. UNCHANGED <<out, done, garbage>>
    BY <1>1, <1>8, FeedOther DEF IInv
  <2>2. TypeOK'
    BY <1>1, <1>2, <1>3, <2>1, HistoryTypes, Numbers DEF TypeOK
  <2>3. Numbered'
    BY <1>1, <1>6, <2>1 DEF IInv, Numbered
  <2>4. Budget'
    BY <1>2, <2>1, Numbers DEF Budget
  <2>5. Aligned' /\ FollowsInside'
    BY <1>1, <1>3, <1>4, <1>5, <1>8 DEF Aligned, FollowsInside
  <2>6. FollowsWhole'
    <3>1. SUFFICES ASSUME ~Inside, Current \notin hurt', Current > done PROVE FALSE
      BY <1>1, <1>4, <2>1 DEF FollowsWhole
    <3>2. prev = FEND
      BY <1>1, <1>8, <3>1 DEF Reached
    <3>3. QED BY <1>1, <3>1, <3>2, Waits DEF Complete
  <2>7. NothingHeldBack'
    BY <1>1, <1>3, <1>4, <1>8, <2>1 DEF IInv, NothingHeldBack
  <2>8. QED BY <2>2, <2>3, <2>4, <2>5, <2>6, <2>7 DEF IInv
<1>9. QED BY <1>7, <1>8

-----------------------------------------------------------------------------
(* The theorems.                                                           *)

LEMMA InvNext == IInv /\ [Next]_vars => IInv'
<1> SUFFICES ASSUME IInv, [Next]_vars PROVE IInv'
  OBVIOUS
<1>1. CASE \E f \in Frames : Len(sent) < MaxSends /\ Write(f)
  BY <1>1, InvWrite
<1>2. CASE Transfer
  BY <1>2, InvTransfer
<1>3. CASE Lose
  BY <1>3, InvLose
<1>4. CASE \E b \in Bytes : Noise(b)
  BY <1>4, InvNoise
<1>5. CASE NewParser
  BY <1>5, InvNewParser
<1>6. CASE UNCHANGED vars
  <2>1. UNCHANGED <<phase, i, sent, inFrame, escaped, buf, out, prev, done, garbage, hurt, faults>>
    BY <1>6 DEF vars, writerVars, parserVars
  <2>2. TypeOK' /\ NothingHeldBack'
    BY <2>1 DEF IInv, TypeOK, WriterTypeOK, ParserTypeOK, HistoryTypeOK, Frame,
                NothingHeldBack, Current, Inside
  <2>3. Numbered' /\ Aligned' /\ FollowsInside' /\ FollowsWhole' /\ Budget'
    BY <2>1 DEF IInv, Numbered, Aligned, FollowsInside, FollowsWhole, Budget, Current, Inside,
                Frame, Matches
  <2>4. QED BY <2>2, <2>3 DEF IInv
<1>7. QED BY <1>1, <1>2, <1>3, <1>4, <1>5, <1>6 DEF Next

LEMMA InvAlways == Spec => []IInv
BY InvInit, InvNext, PTL DEF Spec

\* The types of writer, parser and history (kiss.py, whole).
THEOREM KissTypes == Spec => []TypeOK
BY InvAlways, PTL DEF IInv

\* No frame the line has left alone waits in the parser for more than the next
\* FEND (kiss.py, lines 28-37).
THEOREM KissHoldsNothingBack == Spec => []NothingHeldBack
BY InvAlways, PTL DEF IInv
-----------------------------------------------------------------------------
(* The refinement.                                                         *)

LEMMA ChannelInit == Init => Channel!Init
BY DEF Init, Channel!Init

\* The frames that are skipped by a delivery have been spoilt.
LEMMA Skipped ==
    ASSUME IInv, Current \in done + 1 .. Len(sent), hurt \subseteq hurt'
    PROVE  \A j \in done + 1 .. Current - 1 : j \in hurt'
<1>1. ASSUME NEW j \in done + 1 .. Current - 1 PROVE j \in hurt'
  <2>1. j \in 1 .. Len(sent) /\ ~(j <= done) /\ j # Current /\ j # Len(sent)
    BY Numbers
  <2>2. j \in hurt
    BY <2>1 DEF IInv, NothingHeldBack
  <2>3. QED BY <2>2
<1>2. QED BY <1>1

\* A FEND is one step of the channel, whatever it ends.
LEMMA FendIsLine ==
    ASSUME IInv, FeedByte(FEND), FendMeets, sent' = sent,
           Channel!Fault \/ UNCHANGED <<faults, hurt>>
    PROVE  Channel!Line
<1>1. Outcome /\ garbage' \in Nat /\ garbage' <= 2 * faults' /\ hurt \subseteq hurt'
  BY FendDelivers DEF FendMeets
<1>2. CASE Current > done /\ done' = Current /\ Current \notin hurt' /\ out' = sent[Current]
           /\ garbage' = garbage
  <2>1. Current \in done + 1 .. Len(sent)
    BY <1>2, Numbers
  <2>2. Channel!Deliver
    BY <1>1, <1>2, <2>1, Skipped DEF Channel!Deliver
  <2>3. QED BY <2>2 DEF Channel!Line
<1>3. CASE done' = done /\ out' = out /\ garbage' = garbage
  BY <1>3 DEF Channel!Line
<1>4. CASE done' = done /\ out' \in AnyFrame /\ garbage' = garbage + 1
  <2>1. garbage < 2 * faults'
    <3>1. faults' \in Nat
      BY DEF FendMeets
    <3>2. QED BY <1>1, <1>4, <3>1, Numbers
  <2>2. Channel!Garbage
    BY <1>4, <2>1 DEF Channel!Garbage
  <2>3. QED BY <2>2 DEF Channel!Line
<1>5. QED BY <1>1, <1>2, <1>3, <1>4 DEF Outcome

LEMMA OtherIsUnseen ==
    ASSUME IInv, NEW b \in Bytes, b # FEND, FeedByte(b)
    PROVE  UNCHANGED <<done, out, garbage>>
BY FeedOther DEF IInv

\* What a fault spoils is the frame on the line or the one before.
LEMMA FaultIsFault ==
    ASSUME IInv, faults' = faults + 1, NEW S \in SUBSET {Len(sent) - 1, Len(sent)},
           hurt' = hurt \cup S
    PROVE  Channel!Fault
BY DEF Channel!Fault

LEMMA ReachedOne ==
    ASSUME IInv
    PROVE  Reached \in SUBSET {Len(sent) - 1, Len(sent)}
BY DEF Reached, Current

LEMMA ChannelNext == IInv /\ [Next]_vars => [Channel!Next]_Channel!channelVars
<1> SUFFICES ASSUME IInv, [Next]_vars PROVE [Channel!Next]_Channel!channelVars
  OBVIOUS
<1>1. ASSUME NEW f \in Frames, Write(f) PROVE Channel!Next
  BY <1>1 DEF Write, parserVars, Channel!Send, Channel!Next
<1>2. CASE Transfer
  <2>1. PICK b \in Bytes : Emit(b) /\ FeedByte(b)
    BY <1>2 DEF Transfer
  <2>2. hurt' = hurt /\ faults' = faults /\ sent' = sent
    BY <1>2, <2>1 DEF Transfer, Emit
  <2>3. CASE b = FEND
    <3>1. FeedByte(FEND) /\ Complete
      BY <2>1, <2>3, EmitTypes DEF Complete, Closes
    <3>2. FendMeets
      BY <2>2, <3>1, Numbers DEF FendMeets
    <3>3. QED BY <2>2, <3>1, <3>2, FendIsLine DEF Channel!Next
  <2>4. CASE b # FEND
    BY <2>1, <2>2, <2>4, OtherIsUnseen DEF Channel!channelVars
  <2>5. QED BY <2>3, <2>4
<1>3. CASE Lose
  <2> DEFINE S == IF phase' = "gap" THEN {} ELSE IF Inside THEN {Len(sent)}
                  ELSE IF prev = FEND THEN {} ELSE {Len(sent) - 1, Len(sent)}
  <2>1. /\ S \in SUBSET {Len(sent) - 1, Len(sent)} /\ hurt' = hurt \cup S
        /\ faults' = faults + 1 /\ UNCHANGED <<sent, done, out, garbage>>
    BY <1>3 DEF Lose, parserVars, Emit
  <2>2. Channel!Fault
    BY <2>1, FaultIsFault
  <2>3. QED BY <2>1, <2>2 DEF Channel!Line, Channel!Next
<1>4. ASSUME NEW b \in Bytes, Noise(b) PROVE Channel!Next
  <2> DEFINE S == IF b = FEND /\ ~Inside THEN {} ELSE Reached
  <2>1. /\ S \in SUBSET {Len(sent) - 1, Len(sent)} /\ hurt' = hurt \cup S
        /\ faults' = faults + 1 /\ FeedByte(b) /\ sent' = sent
    BY <1>4, ReachedOne DEF Noise, writerVars
  <2>2. Channel!Fault
    BY <2>1, FaultIsFault
  <2>3. CASE b = FEND
    <3>1. FendMeets
      BY <2>1, <2>3, Numbers DEF FendMeets, Complete, Reached
    <3>2. QED BY <2>1, <2>2, <2>3, <3>1, FendIsLine DEF Channel!Next
  <2>4. CASE b # FEND
    BY <2>1, <2>2, <2>4, OtherIsUnseen DEF Channel!Line, Channel!Next
  <2>5. QED BY <2>3, <2>4
<1>5. CASE NewParser
  <2>1. Channel!Fault /\ UNCHANGED <<sent, done, out, garbage>>
    BY <1>5, ReachedOne, FaultIsFault DEF NewParser, writerVars
  <2>2. QED BY <2>1 DEF Channel!Line, Channel!Next
<1>6. CASE UNCHANGED vars
  BY <1>6 DEF vars, writerVars, parserVars, Channel!channelVars
<1>7. QED BY <1>1, <1>2, <1>3, <1>4, <1>5, <1>6 DEF Next

\* KISS framing implements the channel of frames (kiss.py, whole).
THEOREM KissImplementsChannel == Spec => ImplementsChannel
<1>1. Init => Channel!Init
  BY ChannelInit
<1>2. IInv /\ [Next]_vars => [Channel!Next]_Channel!channelVars
  BY ChannelNext
<1>3. QED BY <1>1, <1>2, InvAlways, PTL DEF Spec, ImplementsChannel, Channel!Spec
=============================================================================
