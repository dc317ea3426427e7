--------------------------- MODULE ReceivePathProofs ---------------------------
(***************************************************************************)
(* What the host takes from frames, for any bytes, texts and sizes: the    *)
(* parsers hand on whole fields (TypeOK), and window and tracker speak of  *)
(* the same HELLO (WindowOfHello).  Both hold of any sequence of bytes     *)
(* that gets to _on_kiss_frame, and so of every fault of the line.         *)
(*                                                                         *)
(* That nothing is invented (NothingInvented) rests on the shapes of the   *)
(* frames: what is left of a frame without a byte of its body is taken by  *)
(* no handler, and what follows a frame adds nothing to it.  Without one   *)
(* of its first seven bytes a frame may pass for another, and is excused.  *)
(***************************************************************************)
EXTENDS ReceivePath, SequenceTheorems, FiniteSetTheorems, TLAPS

HostTypeOK ==
    /\ hello \in Seq(Byte) \cup {None} /\ (hello # None => Len(hello) = VERSION_SIZE)
    /\ device \in Seq(Byte) \cup {None} /\ (device # None => Len(device) = DEVICE_STATE_SIZE)
    /\ base \in Seq(Byte) \cup {None}
    /\ credits \in Seq(Seq(Byte))
    /\ \A i \in DOMAIN credits : credits[i] \in Seq(Byte) /\ Len(credits[i]) = UPDATE_SIZE
    /\ boots \in Nat
    /\ heard \in 0 .. boots

IInv ==
    /\ HostTypeOK
    /\ WindowOfHello
    /\ boots \in 0 .. MaxBoots
    /\ frame \in Seq(Byte)
    /\ sent \in Seq(Seq(Byte))
    /\ misread \subseteq Commands

-----------------------------------------------------------------------------
(* Bytes.                                                                  *)

LEMMA SubSeqOfBytes ==
    ASSUME NEW s \in Seq(Byte), NEW m \in Nat \ {0}, NEW n \in Nat, n <= Len(s)
    PROVE  /\ SubSeq(s, m, n) \in Seq(Byte)
           /\ Len(SubSeq(s, m, n)) = IF m <= n THEN n - m + 1 ELSE 0
           /\ \A j \in 1 .. n - m + 1 : SubSeq(s, m, n)[j] = s[m + j - 1]
OBVIOUS

LEMMA FieldOfBytes ==
    ASSUME NEW s \in Seq(Byte), NEW m \in Nat \ {0}, NEW n \in Nat, m <= n, n <= Len(s)
    PROVE  SubSeq(s, m, n) \in Seq(Byte) /\ Len(SubSeq(s, m, n)) = n - m + 1
BY SubSeqOfBytes

\* A field of a field is a field.
LEMMA FieldOfField ==
    ASSUME NEW s \in Seq(Byte), NEW v \in Seq(Byte), Len(s) >= 17, v = SubSeq(s, 1, 17)
    PROVE  SubSeq(v, 4, 7) = SubSeq(s, 4, 7)
<1>1. Len(v) = 17 /\ \A j \in 1 .. 17 : v[j] = s[j]
  BY SubSeqOfBytes
<1>2. /\ SubSeq(v, 4, 7) \in Seq(Byte) /\ Len(SubSeq(v, 4, 7)) = 4
      /\ \A j \in 1 .. 4 : SubSeq(v, 4, 7)[j] = v[j + 3]
  BY <1>1, SubSeqOfBytes
<1>3. /\ SubSeq(s, 4, 7) \in Seq(Byte) /\ Len(SubSeq(s, 4, 7)) = 4
      /\ \A j \in 1 .. 4 : SubSeq(s, 4, 7)[j] = s[j + 3]
  BY SubSeqOfBytes
<1>4. \A j \in 1 .. 4 : SubSeq(v, 4, 7)[j] = SubSeq(s, 4, 7)[j]
  BY <1>1, <1>2, <1>3
<1>5. QED BY <1>2, <1>3, <1>4, SeqEqual

\* What a handler parses is a sequence of bytes.
LEMMA BodyOfBytes ==
    ASSUME NEW f \in Seq(Byte), NEW command \in Nat, Length(f, command) > 0
    PROVE  Body(f) \in Seq(Byte) /\ Length(f, command) = Len(Body(f))
<1>1. Routed(f, command) /\ Length(f, command) = Len(Body(f))
  BY DEF Length
<1>2. f # <<>> /\ Decode(Tail(f)) # None
  BY <1>1 DEF Routed
<1>3. Tail(f) \in Seq(Byte)
  BY <1>2
<1>4. Len(Tail(f)) >= 6 /\ Body(f) = SubSeq(Tail(f), 7, Len(Tail(f)))
  BY <1>2, <1>3 DEF Decode, Body, HEADER_LEN
<1>5. QED BY <1>1, <1>3, <1>4, SubSeqOfBytes

-----------------------------------------------------------------------------
(* The handlers.                                                           *)

LEMMA HelloPreserves ==
    ASSUME NEW f \in Seq(Byte), HandleHello(f)
    PROVE  /\ hello' \in Seq(Byte) /\ Len(hello') = VERSION_SIZE
           /\ device' \in Seq(Byte) /\ Len(device') = DEVICE_STATE_SIZE
           /\ base' \in Seq(Byte) /\ base' = SubSeq(hello', 4, 7)
           /\ credits' = <<>> /\ heard' = boots
<1>1. Length(f, HELLO) = 43
  <2>1. Length(f, HELLO) \in Int
    BY DEF Length, HandleHello
  <2>2. QED BY <2>1 DEF HandleHello, VERSION_SIZE, DEVICE_STATE_SIZE
<1>2. Body(f) \in Seq(Byte) /\ Len(Body(f)) = 43
  <2>1. Length(f, HELLO) > 0 /\ HELLO \in Nat
    BY <1>1 DEF HELLO
  <2>2. QED BY <1>1, <2>1, BodyOfBytes
<1> DEFINE b == Body(f)
<1>3. hello' = SubSeq(b, 1, 17) /\ device' = SubSeq(b, 18, 43) /\ base' = SubSeq(b, 4, 7)
  BY <1>2 DEF HandleHello, VERSION_SIZE
<1> HIDE DEF b
<1>4. b \in Seq(Byte) /\ Len(b) = 43
  BY <1>2 DEF b
<1>5. /\ SubSeq(b, 1, 17) \in Seq(Byte) /\ Len(SubSeq(b, 1, 17)) = 17
      /\ SubSeq(b, 18, 43) \in Seq(Byte) /\ Len(SubSeq(b, 18, 43)) = 26
      /\ SubSeq(b, 4, 7) \in Seq(Byte)
  <2>1. SubSeq(b, 1, 17) \in Seq(Byte)
    <3>1. 1 \in Nat \ {0} /\ 17 \in Nat /\ 1 <= 17 /\ 17 <= Len(b)
      BY <1>4
    <3>2. QED BY <1>4, <3>1, FieldOfBytes, Zenon
  <2>2. SubSeq(b, 18, 43) \in Seq(Byte)
    <3>1. 18 \in Nat \ {0} /\ 43 \in Nat /\ 18 <= 43 /\ 43 <= Len(b)
      BY <1>4
    <3>2. QED BY <1>4, <3>1, FieldOfBytes, Zenon
  <2>3. SubSeq(b, 4, 7) \in Seq(Byte)
    <3>1. 4 \in Nat \ {0} /\ 7 \in Nat /\ 4 <= 7 /\ 7 <= Len(b)
      BY <1>4
    <3>2. QED BY <1>4, <3>1, FieldOfBytes, Zenon
  <2>4. QED BY <1>4, <2>1, <2>2, <2>3
<1>6. hello' \in Seq(Byte) /\ Len(hello') = 17
  BY <1>3, <1>5
<1>7. device' \in Seq(Byte) /\ Len(device') = 26 /\ base' \in Seq(Byte)
  BY <1>3, <1>5
<1>8. base' = SubSeq(hello', 4, 7)
  BY <1>3, <1>4, <1>5, <1>6, FieldOfField
<1>9. QED
  BY <1>6, <1>7, <1>8 DEF HandleHello, VERSION_SIZE, DEVICE_STATE_SIZE

LEMMA DeviceStatePreserves ==
    ASSUME NEW f \in Seq(Byte), HandleDeviceState(f)
    PROVE  /\ device' \in Seq(Byte) /\ Len(device') = DEVICE_STATE_SIZE
           /\ UNCHANGED <<hello, base, credits, heard>>
<1>1. Length(f, DEVICE_STATE) \in Nat
  BY DEF Length
<1>2. Length(f, DEVICE_STATE) > 0 /\ DEVICE_STATE \in Nat
  BY <1>1 DEF HandleDeviceState, DEVICE_STATE_SIZE, DEVICE_STATE
<1>3. Body(f) \in Seq(Byte) /\ Len(Body(f)) >= DEVICE_STATE_SIZE
  BY <1>2, BodyOfBytes DEF HandleDeviceState
<1>4. 1 \in Nat \ {0} /\ DEVICE_STATE_SIZE \in Nat
      /\ 1 <= DEVICE_STATE_SIZE /\ DEVICE_STATE_SIZE <= Len(Body(f))
  BY <1>3 DEF DEVICE_STATE_SIZE
<1>5. SubSeq(Body(f), 1, DEVICE_STATE_SIZE) \in Seq(Byte)
  BY <1>3, <1>4, FieldOfBytes, Zenon
<1>6. Len(SubSeq(Body(f), 1, DEVICE_STATE_SIZE)) = DEVICE_STATE_SIZE
  BY <1>3, <1>4
<1>7. QED BY <1>5, <1>6 DEF HandleDeviceState

LEMMA WindowUpdatePreserves ==
    ASSUME HostTypeOK, NEW f \in Seq(Byte), HandleWindowUpdate(f)
    PROVE  /\ credits' \in Seq(Seq(Byte))
           /\ \A i \in DOMAIN credits' : credits'[i] \in Seq(Byte) /\ Len(credits'[i]) = UPDATE_SIZE
           /\ UNCHANGED <<hello, device, base, heard>>
<1>1. Length(f, WINDOW_UPDATE) \in Nat
  BY DEF Length
<1>2. Length(f, WINDOW_UPDATE) > 0 /\ WINDOW_UPDATE \in Nat
  BY <1>1 DEF HandleWindowUpdate, UPDATE_SIZE, WINDOW_UPDATE
<1>3. Body(f) \in Seq(Byte) /\ Len(Body(f)) >= UPDATE_SIZE
  BY <1>2, BodyOfBytes DEF HandleWindowUpdate
<1>4. 1 \in Nat \ {0} /\ UPDATE_SIZE \in Nat
      /\ 1 <= UPDATE_SIZE /\ UPDATE_SIZE <= Len(Body(f))
  BY <1>3 DEF UPDATE_SIZE
<1> DEFINE c == SubSeq(Body(f), 1, UPDATE_SIZE)
<1>5. c \in Seq(Byte)
  BY <1>3, <1>4, FieldOfBytes, Zenon
<1>6. Len(c) = UPDATE_SIZE
  BY <1>3, <1>4
<1>7. credits' = Append(credits, c) /\ UNCHANGED <<hello, device, base, heard>>
  BY DEF HandleWindowUpdate
<1> HIDE DEF c
<1>8. QED BY <1>5, <1>6, <1>7 DEF HostTypeOK

\* Whatever _on_kiss_frame is called with.
LEMMA OnKissFramePreserves ==
    ASSUME HostTypeOK, WindowOfHello, NEW f \in Seq(Byte), OnKissFrame(f),
           boots' \in {boots, boots + 1}
    PROVE  HostTypeOK' /\ WindowOfHello'
<1>1. boots' \in Nat /\ boots <= boots'
  BY DEF HostTypeOK
<1>2. CASE HandleHello(f)
  <2>1. /\ hello' \in Seq(Byte) /\ Len(hello') = VERSION_SIZE
        /\ device' \in Seq(Byte) /\ Len(device') = DEVICE_STATE_SIZE
        /\ base' \in Seq(Byte) /\ base' = SubSeq(hello', 4, 7)
        /\ credits' = <<>> /\ heard' = boots
    BY <1>2, HelloPreserves
  <2>2. hello' # None
    BY <2>1, ReceiveAssumption
  <2>3. HostTypeOK'
    BY <1>1, <2>1 DEF HostTypeOK
  <2>4. QED BY <2>1, <2>2, <2>3 DEF WindowOfHello
<1>3. CASE HandleDeviceState(f)
  <2>1. /\ device' \in Seq(Byte) /\ Len(device') = DEVICE_STATE_SIZE
        /\ UNCHANGED <<hello, base, credits, heard>>
    BY <1>3, DeviceStatePreserves
  <2>2. QED BY <1>1, <2>1 DEF HostTypeOK, WindowOfHello
<1>4. CASE HandleWindowUpdate(f)
  <2>1. /\ credits' \in Seq(Seq(Byte))
        /\ \A i \in DOMAIN credits' : credits'[i] \in Seq(Byte) /\ Len(credits'[i]) = UPDATE_SIZE
        /\ UNCHANGED <<hello, device, base, heard>>
    BY <1>4, WindowUpdatePreserves
  <2>2. QED BY <1>1, <2>1 DEF HostTypeOK, WindowOfHello
<1>5. CASE Passes(f)
  BY <1>1, <1>5 DEF HostTypeOK, WindowOfHello, Passes, hostVars
<1>6. QED BY <1>2, <1>3, <1>4, <1>5 DEF OnKissFrame

-----------------------------------------------------------------------------
(* The device and the line: bytes, whatever they are.                      *)

\* One sequence after another.
LEMMA Concat ==
    ASSUME NEW a \in Seq(Byte), NEW b \in Seq(Byte)
    PROVE  /\ a \o b \in Seq(Byte) /\ Len(a \o b) = Len(a) + Len(b)
           /\ \A j \in 1 .. Len(a) : (a \o b)[j] = a[j]
           /\ \A j \in 1 .. Len(b) : (a \o b)[Len(a) + j] = b[j]
OBVIOUS

\* The bytes of a vendor frame.
LEMMA EnvelopeShape ==
    ASSUME NEW c \in Byte, NEW b \in Seq(Byte)
    PROVE  LET e == Envelope(c, b)
           IN /\ e \in Seq(Byte) /\ Len(e) = Len(b) + 7
              /\ e[1] = 6 /\ e[2] = 75 /\ e[3] = 52 /\ e[4] = 86 /\ e[5] = 80 /\ e[6] = 1 /\ e[7] = c
              /\ \A j \in 1 .. Len(b) : e[7 + j] = b[j]
<1> DEFINE k == <<6>>
           l == <<75, 52, 86, 80>>
           m == <<1, c>>
           g == k \o l
           h == g \o m
           e == h \o b
<1>1. k \in Seq(Byte) /\ l \in Seq(Byte) /\ m \in Seq(Byte)
  BY DEF Byte
<1>2. Len(k) = 1 /\ Len(l) = 4 /\ Len(m) = 2
  OBVIOUS
<1>3. k[1] = 6 /\ l[1] = 75 /\ l[2] = 52 /\ l[3] = 86 /\ l[4] = 80 /\ m[1] = 1 /\ m[2] = c
  OBVIOUS
<1>4. Envelope(c, b) = e
  BY DEF Envelope, SETHARDWARE, PREFIX
<1> HIDE DEF k, l, m
<1>5. /\ g \in Seq(Byte) /\ Len(g) = Len(k) + Len(l)
      /\ \A j \in 1 .. Len(k) : g[j] = k[j]
      /\ \A j \in 1 .. Len(l) : g[Len(k) + j] = l[j]
  BY <1>1, Concat, Zenon
<1> HIDE DEF g
<1>6. /\ h \in Seq(Byte) /\ Len(h) = Len(g) + Len(m)
      /\ \A j \in 1 .. Len(g) : h[j] = g[j]
      /\ \A j \in 1 .. Len(m) : h[Len(g) + j] = m[j]
  BY <1>1, <1>5, Concat, Zenon
<1> HIDE DEF h
<1>7. /\ e \in Seq(Byte) /\ Len(e) = Len(h) + Len(b)
      /\ \A j \in 1 .. Len(h) : e[j] = h[j]
      /\ \A j \in 1 .. Len(b) : e[Len(h) + j] = b[j]
  BY <1>6, Concat, Zenon
<1> HIDE DEF e
<1>8. Len(g) = 5 /\ Len(h) = 7 /\ Len(e) = Len(b) + 7
  BY <1>2, <1>5, <1>6, <1>7
<1>9. g[1] = 6 /\ g[2] = 75 /\ g[3] = 52 /\ g[4] = 86 /\ g[5] = 80
  BY <1>2, <1>3, <1>5
<1>10. h[1] = 6 /\ h[2] = 75 /\ h[3] = 52 /\ h[4] = 86 /\ h[5] = 80 /\ h[6] = 1 /\ h[7] = c
  BY <1>2, <1>3, <1>6, <1>8, <1>9
<1>11. e[1] = 6 /\ e[2] = 75 /\ e[3] = 52 /\ e[4] = 86 /\ e[5] = 80 /\ e[6] = 1 /\ e[7] = c
  BY <1>7, <1>8, <1>10
<1>12. \A j \in 1 .. Len(b) : e[7 + j] = b[j]
  BY <1>7, <1>8
<1>13. QED BY <1>4, <1>7, <1>8, <1>11, <1>12, Zenon

LEMMA ZerosShape ==
    ASSUME NEW n \in Nat
    PROVE  Zeros(n) \in Seq(Byte) /\ Len(Zeros(n)) = n
BY DEF Zeros, Byte

\* What the device says is as long as the host expects.
LEMMA StateBodyShape ==
    ASSUME NEW s \in Byte
    PROVE  StateBody(s) \in Seq(Byte) /\ Len(StateBody(s)) = 26
<1> DEFINE a == <<s, 0, 0, 0, 255, 255, 255, 255>>
           z == Zeros(18)
<1>1. a \in Seq(Byte) /\ Len(a) = 8
  BY DEF Byte
<1>2. z \in Seq(Byte) /\ Len(z) = 18
  BY ZerosShape
<1>3. StateBody(s) = a \o z
  BY DEF StateBody
<1> HIDE DEF a, z
<1>4. a \o z \in Seq(Byte) /\ Len(a \o z) = Len(a) + Len(z)
  BY <1>1, <1>2, Concat, Zenon
<1>5. Len(a \o z) = 26
  BY <1>1, <1>2, <1>4
<1>6. QED BY <1>3, <1>4, <1>5, Zenon

LEMMA HelloBodyShape ==
    ASSUME NEW size \in Byte, NEW s \in Byte
    PROVE  HelloBody(size, s) \in Seq(Byte) /\ Len(HelloBody(size, s)) = 43
<1> DEFINE a == <<17, 0, 68, size, 0, 0, 0>>
           z == Zeros(10)
           b == StateBody(s)
           v == a \o z
<1>1. a \in Seq(Byte) /\ Len(a) = 7
  BY DEF Byte
<1>2. z \in Seq(Byte) /\ Len(z) = 10
  BY ZerosShape
<1>3. b \in Seq(Byte) /\ Len(b) = 26
  BY StateBodyShape
<1>4. HelloBody(size, s) = v \o b
  BY DEF HelloBody
<1> HIDE DEF a, z, b
<1>5. v \in Seq(Byte) /\ Len(v) = Len(a) + Len(z)
  BY <1>1, <1>2, Concat, Zenon
<1> HIDE DEF v
<1>6. v \o b \in Seq(Byte) /\ Len(v \o b) = Len(v) + Len(b)
  BY <1>3, <1>5, Concat, Zenon
<1>7. Len(v \o b) = 43
  BY <1>1, <1>2, <1>3, <1>5, <1>6
<1>8. QED BY <1>4, <1>6, <1>7, Zenon

LEMMA ReportsOfBytes == Reports \subseteq Seq(Byte)
<1> SUFFICES ASSUME NEW f \in Reports PROVE f \in Seq(Byte)
  OBVIOUS
<1>1. {DEVICE_STATE, WINDOW_UPDATE, AUDIO, DEBUG, DATA} \subseteq Byte
  BY DEF Byte, DEVICE_STATE, WINDOW_UPDATE, AUDIO, DEBUG, DATA
<1>2. CASE \E s \in Applied : f = Envelope(DEVICE_STATE, StateBody(s))
  BY <1>1, <1>2, EnvelopeShape, StateBodyShape, ReceiveAssumption
<1>3. CASE \E n \in Sizes : f = Envelope(WINDOW_UPDATE, UpdateBody(n))
  <2>1. \A n \in Sizes : UpdateBody(n) \in Seq(Byte)
    BY ReceiveAssumption DEF UpdateBody, Byte
  <2>2. QED BY <1>1, <1>3, <2>1, EnvelopeShape
<1>4. CASE \E c \in {AUDIO, DEBUG}, text \in Texts : f = Envelope(c, text)
  <2>1. PICK c \in Byte, text \in Seq(Byte) : f = Envelope(c, text)
    BY <1>1, <1>4, ReceiveAssumption
  <2>2. QED BY <2>1, EnvelopeShape
<1>5. CASE \E text \in Texts : f = <<DATA>> \o text
  BY <1>1, <1>5, ReceiveAssumption
<1>6. QED BY <1>2, <1>3, <1>4, <1>5 DEF Reports

\* A sequence without one of its bytes.
LEMMA RemoveAtShape ==
    ASSUME NEW f \in Seq(Byte), NEW i \in 1 .. Len(f)
    PROVE  LET e == RemoveAt(f, i)
           IN /\ e \in Seq(Byte) /\ Len(e) = Len(f) - 1
              /\ \A j \in 1 .. i - 1 : e[j] = f[j]
              /\ \A j \in i .. Len(f) - 1 : e[j] = f[j + 1]
<1> DEFINE a == SubSeq(f, 1, i - 1)
           b == SubSeq(f, i + 1, Len(f))
           e == a \o b
<1>1. /\ 1 \in Nat \ {0} /\ i - 1 \in Nat /\ i - 1 <= Len(f)
      /\ i + 1 \in Nat \ {0} /\ Len(f) \in Nat /\ Len(f) <= Len(f)
  OBVIOUS
<1>2. /\ a \in Seq(Byte)
      /\ Len(a) = IF 1 <= i - 1 THEN i - 1 - 1 + 1 ELSE 0
      /\ \A j \in 1 .. i - 1 - 1 + 1 : a[j] = f[1 + j - 1]
  BY <1>1, SubSeqOfBytes, Zenon
<1>3. /\ b \in Seq(Byte)
      /\ Len(b) = IF i + 1 <= Len(f) THEN Len(f) - (i + 1) + 1 ELSE 0
      /\ \A j \in 1 .. Len(f) - (i + 1) + 1 : b[j] = f[i + 1 + j - 1]
  BY <1>1, SubSeqOfBytes, Zenon
<1>4. RemoveAt(f, i) = e
  BY DEF RemoveAt
<1> HIDE DEF a, b
<1>5. Len(a) = i - 1 /\ Len(b) = Len(f) - i
  BY <1>1, <1>2, <1>3
<1>6. /\ e \in Seq(Byte) /\ Len(e) = Len(a) + Len(b)
      /\ \A j \in 1 .. Len(a) : e[j] = a[j]
      /\ \A j \in 1 .. Len(b) : e[Len(a) + j] = b[j]
  BY <1>2, <1>3, Concat, Zenon
<1> HIDE DEF e
<1>7. Len(e) = Len(f) - 1
  BY <1>1, <1>5, <1>6
<1>8. ASSUME NEW j \in 1 .. i - 1 PROVE e[j] = f[j]
  <2>1. j \in 1 .. Len(a) /\ j \in 1 .. i - 1 - 1 + 1 /\ 1 + j - 1 = j
    BY <1>5
  <2>2. e[j] = a[j] /\ a[j] = f[1 + j - 1]
    BY <1>2, <1>6, <2>1
  <2>3. QED BY <2>1, <2>2
<1>9. ASSUME NEW j \in i .. Len(f) - 1 PROVE e[j] = f[j + 1]
  <2> DEFINE k == j - (i - 1)
  <2>1. k \in 1 .. Len(b) /\ Len(a) + k = j /\ k \in 1 .. Len(f) - (i + 1) + 1 /\ i + 1 + k - 1 = j + 1
    BY <1>1, <1>5
  <2> HIDE DEF k
  <2>2. e[Len(a) + k] = b[k] /\ b[k] = f[i + 1 + k - 1]
    BY <1>3, <1>6, <2>1
  <2>3. QED BY <2>1, <2>2
<1>10. QED BY <1>4, <1>6, <1>7, <1>8, <1>9

-----------------------------------------------------------------------------
(* The steps.                                                              *)

LEMMA IInvInit == Init => IInv
<1> SUFFICES ASSUME Init PROVE IInv
  OBVIOUS
<1>1. HostTypeOK
  BY DEF Init, HostTypeOK
<1>2. QED BY <1>1, ReceiveAssumption DEF Init, IInv, WindowOfHello

LEMMA IInvNext == IInv /\ [Next]_vars => IInv'
<1> SUFFICES ASSUME IInv, [Next]_vars PROVE IInv'
  OBVIOUS
<1> USE DEF IInv
<1>1. ASSUME NEW f \in Reports, Sends(f) PROVE IInv'
  BY <1>1, ReportsOfBytes DEF Sends, hostVars, HostTypeOK, WindowOfHello
<1>2. ASSUME NEW f \in Reports, RunsOn(f) PROVE IInv'
  <2>1. f \in Seq(Byte) /\ frame \o f \in Seq(Byte)
    BY ReportsOfBytes
  <2>2. OnKissFrame(frame \o f) /\ boots' = boots /\ misread' = misread
        /\ frame' = <<>> /\ sent' = Append(sent, f)
    BY <1>2 DEF RunsOn
  <2>3. HostTypeOK' /\ WindowOfHello'
    BY <2>1, <2>2, OnKissFramePreserves
  <2>4. QED BY <2>1, <2>2, <2>3
<1>3. CASE Arrives
  <2>1. HostTypeOK' /\ WindowOfHello'
    BY <1>3, OnKissFramePreserves DEF Arrives
  <2>2. QED BY <1>3, <2>1 DEF Arrives
<1>4. CASE LosesByte
  <2>1. PICK i \in DOMAIN frame : OnKissFrame(RemoveAt(frame, i))
    BY <1>4 DEF LosesByte
  <2>2. boots' = boots /\ frame' = <<>> /\ sent' = sent /\ misread' \subseteq Commands
    BY <1>4 DEF LosesByte, PassesFor
  <2>3. HostTypeOK' /\ WindowOfHello'
    BY <2>1, <2>2, RemoveAtShape, OnKissFramePreserves
  <2>4. QED BY <2>2, <2>3
<1>5. ASSUME NEW size \in Sizes, NEW s \in Applied, Boots(size, s) PROVE IInv'
  <2>1. boots' = boots + 1 /\ boots < MaxBoots /\ sent' = <<frame'>> /\ misread' = {}
        /\ frame' = Envelope(HELLO, HelloBody(size, s))
    BY <1>5 DEF Boots
  <2>2. frame' \in Seq(Byte) /\ sent' \in Seq(Seq(Byte))
    <3>1. HELLO \in Byte
      BY DEF HELLO, Byte
    <3>2. frame' \in Seq(Byte)
      BY <2>1, <3>1, EnvelopeShape, HelloBodyShape, ReceiveAssumption
    <3>3. QED BY <2>1, <3>2
  <2>3. PICK k \in 0 .. Len(frame), text \in Texts : OnKissFrame(SubSeq(frame, 1, k) \o text)
    BY <1>5 DEF Boots
  <2>4. SubSeq(frame, 1, k) \o text \in Seq(Byte)
    <3>1. SubSeq(frame, 1, k) \in Seq(Byte)
      OBVIOUS
    <3>2. QED BY <3>1, ReceiveAssumption
  <2>5. HostTypeOK' /\ WindowOfHello'
    BY <2>1, <2>3, <2>4, OnKissFramePreserves
  <2>6. QED BY <2>1, <2>2, <2>5, ReceiveAssumption
<1>6. CASE UNCHANGED vars
  BY <1>6 DEF vars, hostVars, deviceVars, HostTypeOK, WindowOfHello
<1>7. QED BY <1>1, <1>2, <1>3, <1>4, <1>5, <1>6 DEF Next

LEMMA IInvAlways == Spec => []IInv
BY IInvInit, IInvNext, PTL DEF Spec

\* Whatever bytes come, what the parsers hand on is as long as they say, and
\* the HELLO last taken is of a boot there has been.
THEOREM FieldsAreWhole == Spec => []TypeOK
<1>1. IInv => TypeOK
  BY DEF IInv, HostTypeOK, TypeOK
<1>2. QED BY <1>1, IInvAlways, PTL

\* The window starts from the size that the HELLO the tracker holds announces.
THEOREM WindowIsOfHello == Spec => []WindowOfHello
<1>1. IInv => WindowOfHello
  BY DEF IInv
<1>2. QED BY <1>1, IInvAlways, PTL

-----------------------------------------------------------------------------
(* The handlers, byte by byte.                                             *)

\* What _on_kiss_frame has found in a frame that it hands to a handler.
LEMMA RoutedShape ==
    ASSUME NEW f \in Seq(Byte), NEW command, Routed(f, command)
    PROVE  /\ Len(f) >= 7
           /\ f[1] % 16 = 6 /\ f[2] = 75 /\ f[3] = 52 /\ f[4] = 86 /\ f[5] = 80 /\ f[6] = 1
           /\ f[7] = command
           /\ Body(f) \in Seq(Byte) /\ Len(Body(f)) = Len(f) - 7
           /\ \A j \in 1 .. Len(f) - 7 : Body(f)[j] = f[7 + j]
<1>1. f # <<>> /\ f[1] % 16 = 6 /\ Decode(Tail(f)) # None /\ Decode(Tail(f)).command = command
  BY DEF Routed, SETHARDWARE
<1> DEFINE p == Tail(f)
<1>2. p \in Seq(Byte) /\ Len(p) = Len(f) - 1 /\ \A j \in 1 .. Len(f) - 1 : p[j] = f[j + 1]
  BY <1>1
<1>3. Decode(p) # None /\ Decode(p).command = command /\ Body(f) = Decode(p).body
  BY <1>1 DEF Body
<1> HIDE DEF p
<1>4. Len(p) >= 6 /\ SubSeq(p, 1, 4) = <<75, 52, 86, 80>> /\ p[5] = 1 /\ p[6] = command
      /\ Decode(p).body = SubSeq(p, 7, Len(p))
  BY <1>2, <1>3 DEF Decode, HEADER_LEN, PREFIX
<1>5. p[1] = 75 /\ p[2] = 52 /\ p[3] = 86 /\ p[4] = 80
  <2> DEFINE q == SubSeq(p, 1, 4)
  <2>1. 1 \in Nat \ {0} /\ 4 \in Nat /\ 4 <= Len(p)
    BY <1>2, <1>4
  <2>2. \A j \in 1 .. 4 - 1 + 1 : q[j] = p[1 + j - 1]
    BY <1>2, <2>1, SubSeqOfBytes, Zenon
  <2>3. q = <<75, 52, 86, 80>>
    BY <1>4
  <2> HIDE DEF q
  <2>4. q[1] = p[1] /\ q[2] = p[2] /\ q[3] = p[3] /\ q[4] = p[4]
    BY <2>2
  <2>5. QED BY <2>3, <2>4
<1>6. /\ Body(f) \in Seq(Byte) /\ Len(Body(f)) = Len(p) - 6
      /\ \A j \in 1 .. Len(p) - 6 : Body(f)[j] = p[6 + j]
  <2>1. Body(f) = SubSeq(p, 7, Len(p))
    BY <1>3, <1>4
  <2>2. 7 \in Nat \ {0} /\ Len(p) \in Nat
    BY <1>2
  <2> DEFINE q == SubSeq(p, 7, Len(p))
  <2>3. /\ q \in Seq(Byte)
        /\ Len(q) = IF 7 <= Len(p) THEN Len(p) - 7 + 1 ELSE 0
        /\ \A j \in 1 .. Len(p) - 7 + 1 : q[j] = p[7 + j - 1]
    <3>1. Len(p) <= Len(p)
      BY <2>2
    <3>2. QED BY <1>2, <2>2, <3>1, SubSeqOfBytes, Zenon
  <2>4. Body(f) = q
    BY <2>1
  <2> HIDE DEF q
  <2>5. QED BY <1>4, <2>2, <2>3, <2>4
<1>7. Len(f) \in Nat /\ Len(f) >= 7
  BY <1>2, <1>4
<1>8. f[2] = p[1] /\ f[3] = p[2] /\ f[4] = p[3] /\ f[5] = p[4] /\ f[6] = p[5] /\ f[7] = p[6]
  BY <1>2, <1>7
<1>9. \A j \in 1 .. Len(f) - 7 : Body(f)[j] = f[7 + j]
  <2> SUFFICES ASSUME NEW j \in 1 .. Len(f) - 7 PROVE Body(f)[j] = f[7 + j]
    OBVIOUS
  <2>1. Body(f)[j] = p[6 + j]
    BY <1>2, <1>6, <1>7
  <2>2. p[6 + j] = f[(6 + j) + 1]
    BY <1>2, <1>7
  <2>3. QED BY <2>1, <2>2
<1>10. QED BY <1>1, <1>2, <1>4, <1>5, <1>6, <1>7, <1>8, <1>9

\* A handler takes the bytes after the envelope.
LEMMA FieldOfBody ==
    ASSUME NEW f \in Seq(Byte), NEW b \in Seq(Byte), Len(f) >= 7, Len(b) = Len(f) - 7,
           \A j \in 1 .. Len(f) - 7 : b[j] = f[7 + j],
           NEW m \in Nat \ {0}, NEW n \in Nat, m <= n, n <= Len(b)
    PROVE  SubSeq(b, m, n) = SubSeq(f, m + 7, n + 7)
<1> DEFINE x == SubSeq(b, m, n)
           y == SubSeq(f, m + 7, n + 7)
<1>1. /\ x \in Seq(Byte) /\ Len(x) = n - m + 1
      /\ \A j \in 1 .. n - m + 1 : x[j] = b[m + j - 1]
  BY SubSeqOfBytes
<1>2. m + 7 \in Nat \ {0} /\ n + 7 \in Nat /\ n + 7 <= Len(f)
  OBVIOUS
<1>3. /\ y \in Seq(Byte) /\ Len(y) = n - m + 1
      /\ \A j \in 1 .. n - m + 1 : y[j] = f[m + 7 + j - 1]
  BY <1>2, SubSeqOfBytes
<1> HIDE DEF x, y
<1>4. ASSUME NEW j \in 1 .. Len(x) PROVE x[j] = y[j]
  <2> DEFINE i == m + j - 1
  <2>1. j \in 1 .. n - m + 1 /\ i \in 1 .. Len(f) - 7 /\ 7 + i = m + 7 + j - 1
    BY <1>1
  <2>2. x[j] = b[i] /\ y[j] = f[7 + i]
    BY <1>1, <1>3, <2>1
  <2> HIDE DEF i
  <2>3. b[i] = f[7 + i]
    BY <2>1
  <2>4. QED BY <2>2, <2>3
<1>5. x = y
  BY <1>1, <1>3, <1>4, SeqEqual
<1>6. QED BY <1>5 DEF x, y

\* A handler that takes a frame has found its command, and enough after it.
LEMMA HelloTakes ==
    ASSUME NEW f \in Seq(Byte), HandleHello(f)
    PROVE  /\ Routed(f, HELLO) /\ Len(f) = 50
           /\ hello' = SubSeq(f, 8, 24) /\ device' = SubSeq(f, 25, 50)
           /\ credits' = <<>> /\ heard' = boots
<1>1. Length(f, HELLO) = 43
  <2>1. Length(f, HELLO) \in Int
    BY DEF Length, HandleHello
  <2>2. QED BY <2>1 DEF HandleHello, VERSION_SIZE, DEVICE_STATE_SIZE
<1>2. Routed(f, HELLO) /\ Len(Body(f)) = 43
  BY <1>1 DEF Length
<1> DEFINE b == Body(f)
<1>3. /\ Len(f) >= 7 /\ b \in Seq(Byte) /\ Len(b) = Len(f) - 7
      /\ \A j \in 1 .. Len(f) - 7 : b[j] = f[7 + j]
  BY <1>2, RoutedShape
<1>4. hello' = SubSeq(b, 1, 17) /\ device' = SubSeq(b, 18, 43)
      /\ credits' = <<>> /\ heard' = boots
  BY <1>2 DEF HandleHello, VERSION_SIZE
<1>5. Len(b) = 43
  BY <1>2
<1> HIDE DEF b
<1>6. Len(f) = 50
  <2>1. Len(f) \in Nat /\ Len(b) \in Nat /\ Len(b) = Len(f) - 7
    BY <1>3
  <2>2. Len(f) - 7 = 43
    BY <1>5, <2>1, Zenon
  <2>3. \A n \in Nat : n - 7 = 43 => n = 50
    OBVIOUS
  <2>4. QED BY <2>1, <2>2, <2>3, Zenon
<1>7. SubSeq(b, 1, 17) = SubSeq(f, 1 + 7, 17 + 7)
  <2>1. 1 \in Nat \ {0} /\ 17 \in Nat /\ 1 <= 17 /\ 17 <= Len(b)
    BY <1>5
  <2>2. QED BY <1>3, <2>1, FieldOfBody, Zenon
<1>8. SubSeq(b, 18, 43) = SubSeq(f, 18 + 7, 43 + 7)
  <2>1. 18 \in Nat \ {0} /\ 43 \in Nat /\ 18 <= 43 /\ 43 <= Len(b)
    BY <1>5
  <2>2. QED BY <1>3, <2>1, FieldOfBody, Zenon
<1>9. hello' = SubSeq(f, 8, 24)
  BY <1>4, <1>7
<1>10. device' = SubSeq(f, 25, 50)
  BY <1>4, <1>8
<1>11. QED BY <1>2, <1>4, <1>6, <1>9, <1>10

LEMMA StateTakes ==
    ASSUME NEW f \in Seq(Byte), HandleDeviceState(f)
    PROVE  /\ Routed(f, DEVICE_STATE) /\ Len(f) >= 33
           /\ device' = SubSeq(f, 8, 33)
           /\ UNCHANGED <<hello, base, credits, heard>>
<1>1. Routed(f, DEVICE_STATE) /\ Len(Body(f)) >= 26
  <2>1. Length(f, DEVICE_STATE) >= 26
    BY DEF HandleDeviceState, DEVICE_STATE_SIZE
  <2>2. QED BY <2>1 DEF Length
<1> DEFINE b == Body(f)
<1>2. /\ Len(f) >= 7 /\ b \in Seq(Byte) /\ Len(b) = Len(f) - 7
      /\ \A j \in 1 .. Len(f) - 7 : b[j] = f[7 + j]
  BY <1>1, RoutedShape
<1>3. device' = SubSeq(b, 1, 26) /\ UNCHANGED <<hello, base, credits, heard>>
  BY DEF HandleDeviceState, DEVICE_STATE_SIZE
<1>4. Len(b) >= 26
  BY <1>1
<1> HIDE DEF b
<1>5. SubSeq(b, 1, 26) = SubSeq(f, 1 + 7, 26 + 7)
  <2>1. 1 \in Nat \ {0} /\ 26 \in Nat /\ 1 <= 26 /\ 26 <= Len(b)
    BY <1>2, <1>4
  <2>2. QED BY <1>2, <2>1, FieldOfBody, Zenon
<1>6. QED BY <1>1, <1>2, <1>3, <1>4, <1>5

LEMMA UpdateTakes ==
    ASSUME NEW f \in Seq(Byte), HandleWindowUpdate(f)
    PROVE  /\ Routed(f, WINDOW_UPDATE) /\ Len(f) >= 11
           /\ credits' = Append(credits, SubSeq(f, 8, 11))
           /\ UNCHANGED <<hello, device, base, heard>>
<1>1. Routed(f, WINDOW_UPDATE) /\ Len(Body(f)) >= 4
  <2>1. Length(f, WINDOW_UPDATE) >= 4
    BY DEF HandleWindowUpdate, UPDATE_SIZE
  <2>2. QED BY <2>1 DEF Length
<1> DEFINE b == Body(f)
<1>2. /\ Len(f) >= 7 /\ b \in Seq(Byte) /\ Len(b) = Len(f) - 7
      /\ \A j \in 1 .. Len(f) - 7 : b[j] = f[7 + j]
  BY <1>1, RoutedShape
<1>3. credits' = Append(credits, SubSeq(b, 1, 4)) /\ UNCHANGED <<hello, device, base, heard>>
  BY DEF HandleWindowUpdate, UPDATE_SIZE
<1>4. Len(b) >= 4
  BY <1>1
<1> HIDE DEF b
<1>5. SubSeq(b, 1, 4) = SubSeq(f, 1 + 7, 4 + 7)
  <2>1. 1 \in Nat \ {0} /\ 4 \in Nat /\ 1 <= 4 /\ 4 <= Len(b)
    BY <1>2, <1>4
  <2>2. QED BY <1>2, <2>1, FieldOfBody, Zenon
<1>6. QED BY <1>1, <1>2, <1>3, <1>4, <1>5

-----------------------------------------------------------------------------
(* The shapes of the frames.                                               *)

\* The seven bytes before a body, and whatever follows.
Vendor(f, command) ==
    /\ f \in Seq(Byte) /\ Len(f) >= 7
    /\ f[1] = 6 /\ f[2] = 75 /\ f[3] = 52 /\ f[4] = 86 /\ f[5] = 80 /\ f[6] = 1
    /\ f[7] = command

\* A HELLO has 43 bytes, a state 26, a credit 4.
HelloFrame(f) == Vendor(f, HELLO) /\ Len(f) = 50

StateFrame(f) ==
    /\ Vendor(f, DEVICE_STATE) /\ Len(f) = 33
    /\ SubSeq(f, 8, 33) \in Seq(Byte) /\ f = Envelope(DEVICE_STATE, SubSeq(f, 8, 33))

UpdateFrame(f) ==
    /\ Vendor(f, WINDOW_UPDATE) /\ Len(f) = 11
    /\ SubSeq(f, 8, 11) \in Seq(Byte) /\ f = Envelope(WINDOW_UPDATE, SubSeq(f, 8, 11))

\* Text, sent with a command that changes no state or as data.
TextFrame(f) ==
    \/ Vendor(f, AUDIO)
    \/ Vendor(f, DEBUG)
    \/ f \in Seq(Byte) /\ Len(f) >= 1 /\ f[1] = 0

\* What is put into an envelope is found in it.
LEMMA EnvelopeVendor ==
    ASSUME NEW c \in Byte, NEW b \in Seq(Byte)
    PROVE  /\ Vendor(Envelope(c, b), c)
           /\ Len(Envelope(c, b)) = Len(b) + 7
           /\ \A j \in 1 .. Len(b) : Envelope(c, b)[7 + j] = b[j]
<1> DEFINE e == Envelope(c, b)
<1>1. /\ e \in Seq(Byte) /\ Len(e) = Len(b) + 7
      /\ e[1] = 6 /\ e[2] = 75 /\ e[3] = 52 /\ e[4] = 86 /\ e[5] = 80 /\ e[6] = 1 /\ e[7] = c
      /\ \A j \in 1 .. Len(b) : e[7 + j] = b[j]
  BY EnvelopeShape
<1> HIDE DEF e
<1>2. Len(e) >= 7
  <2>1. Len(b) \in Nat /\ Len(e) = Len(b) + 7
    BY <1>1
  <2>2. \A n \in Nat : n + 7 >= 7
    OBVIOUS
  <2>3. QED BY <2>1, <2>2
<1>3. Vendor(e, c)
  BY <1>1, <1>2 DEF Vendor
<1>4. QED BY <1>1, <1>3 DEF e

\* A body is what follows the seven bytes.
LEMMA EnvelopeBody ==
    ASSUME NEW c \in Byte, NEW b \in Seq(Byte)
    PROVE  SubSeq(Envelope(c, b), 8, Len(b) + 7) = b
<1> DEFINE n == Len(b)
           e == Envelope(c, b)
           x == SubSeq(e, 8, n + 7)
<1>1. /\ e \in Seq(Byte) /\ Len(e) = n + 7
      /\ \A j \in 1 .. n : e[7 + j] = b[j]
  BY EnvelopeVendor DEF Vendor
<1> HIDE DEF e
<1>2. 8 \in Nat \ {0} /\ n + 7 \in Nat /\ n + 7 <= Len(e)
  BY <1>1
<1>3. /\ x \in Seq(Byte) /\ Len(x) = n
      /\ \A j \in 1 .. n : x[j] = e[8 + j - 1]
  BY <1>1, <1>2, SubSeqOfBytes
<1> HIDE DEF x
<1>4. ASSUME NEW j \in 1 .. n PROVE x[j] = b[j]
  <2>1. x[j] = e[8 + j - 1]
    BY <1>3
  <2>2. 8 + j - 1 = 7 + j
    OBVIOUS
  <2>3. QED BY <1>1, <2>1, <2>2
<1>5. x = b
  BY <1>3, <1>4, SeqEqual
<1>6. QED BY <1>5 DEF x, e

LEMMA CodesOfCommands ==
    /\ HELLO = 6 /\ DEVICE_STATE = 11 /\ WINDOW_UPDATE = 9 /\ AUDIO = 7 /\ DEBUG = 1 /\ DATA = 0
    /\ {HELLO, DEVICE_STATE, WINDOW_UPDATE, AUDIO, DEBUG, DATA} \subseteq Byte
BY DEF HELLO, DEVICE_STATE, WINDOW_UPDATE, AUDIO, DEBUG, DATA, Byte

\* What the device sends is of one of these shapes.
LEMMA HelloIsHelloFrame ==
    ASSUME NEW size \in Sizes, NEW s \in Applied
    PROVE  HelloFrame(Envelope(HELLO, HelloBody(size, s)))
<1> DEFINE b == HelloBody(size, s)
<1>1. size \in Byte /\ s \in Byte /\ HELLO \in Byte
  BY CodesOfCommands, ReceiveAssumption
<1>2. b \in Seq(Byte) /\ Len(b) = 43
  BY <1>1, HelloBodyShape
<1> HIDE DEF b
<1>3. Vendor(Envelope(HELLO, b), HELLO) /\ Len(Envelope(HELLO, b)) = Len(b) + 7
  BY <1>1, <1>2, EnvelopeVendor, Zenon
<1>4. Len(Envelope(HELLO, b)) = 50
  BY <1>2, <1>3
<1>5. QED BY <1>3, <1>4 DEF HelloFrame, b

LEMMA StateIsStateFrame ==
    ASSUME NEW s \in Applied
    PROVE  StateFrame(Envelope(DEVICE_STATE, StateBody(s)))
<1> DEFINE b == StateBody(s)
           e == Envelope(DEVICE_STATE, b)
<1>1. s \in Byte /\ DEVICE_STATE \in Byte
  BY CodesOfCommands, ReceiveAssumption
<1>2. b \in Seq(Byte) /\ Len(b) = 26
  BY <1>1, StateBodyShape
<1> HIDE DEF b
<1>3. Vendor(e, DEVICE_STATE) /\ Len(e) = Len(b) + 7
  BY <1>1, <1>2, EnvelopeVendor, Zenon
<1>4. SubSeq(e, 8, Len(b) + 7) = b
  BY <1>1, <1>2, EnvelopeBody
<1>5. Len(e) = 33
  BY <1>2, <1>3
<1>6. SubSeq(e, 8, 33) = b
  <2>1. Len(b) + 7 = 33
    BY <1>2
  <2>2. QED BY <1>4, <2>1
<1>7. e = Envelope(DEVICE_STATE, SubSeq(e, 8, 33))
  BY <1>6
<1> HIDE DEF e
<1>8. QED BY <1>2, <1>3, <1>5, <1>6, <1>7 DEF StateFrame, e, b

LEMMA UpdateIsUpdateFrame ==
    ASSUME NEW n \in Sizes
    PROVE  UpdateFrame(Envelope(WINDOW_UPDATE, UpdateBody(n)))
<1> DEFINE b == UpdateBody(n)
           e == Envelope(WINDOW_UPDATE, b)
<1>1. n \in Byte /\ WINDOW_UPDATE \in Byte
  BY CodesOfCommands, ReceiveAssumption
<1>2. b \in Seq(Byte) /\ Len(b) = 4
  BY <1>1 DEF UpdateBody, Byte
<1> HIDE DEF b
<1>3. Vendor(e, WINDOW_UPDATE) /\ Len(e) = Len(b) + 7
  BY <1>1, <1>2, EnvelopeVendor, Zenon
<1>4. SubSeq(e, 8, Len(b) + 7) = b
  BY <1>1, <1>2, EnvelopeBody
<1>5. Len(e) = 11
  BY <1>2, <1>3
<1>6. SubSeq(e, 8, 11) = b
  <2>1. Len(b) + 7 = 11
    BY <1>2
  <2>2. QED BY <1>4, <2>1
<1>7. e = Envelope(WINDOW_UPDATE, SubSeq(e, 8, 11))
  BY <1>6
<1> HIDE DEF e
<1>8. QED BY <1>2, <1>3, <1>5, <1>6, <1>7 DEF UpdateFrame, e, b

LEMMA TextIsTextFrame ==
    ASSUME NEW c \in {AUDIO, DEBUG}, NEW text \in Texts
    PROVE  TextFrame(Envelope(c, text))
<1>1. c \in Byte /\ text \in Seq(Byte)
  BY CodesOfCommands, ReceiveAssumption
<1>2. Vendor(Envelope(c, text), c)
  BY <1>1, EnvelopeVendor
<1>3. QED BY <1>2 DEF TextFrame

LEMMA DataIsTextFrame ==
    ASSUME NEW text \in Texts
    PROVE  TextFrame(<<DATA>> \o text)
<1> DEFINE d == <<DATA>>
           e == d \o text
<1>1. d \in Seq(Byte) /\ Len(d) = 1 /\ d[1] = 0
  BY CodesOfCommands
<1>2. text \in Seq(Byte)
  BY ReceiveAssumption
<1> HIDE DEF d
<1>3. /\ e \in Seq(Byte) /\ Len(e) = Len(d) + Len(text)
      /\ \A j \in 1 .. Len(d) : e[j] = d[j]
      /\ \A j \in 1 .. Len(text) : e[Len(d) + j] = text[j]
  BY <1>1, <1>2, Concat, Zenon
<1> HIDE DEF e
<1>4. Len(e) = 1 + Len(text) /\ e[1] = 0
  BY <1>1, <1>3
<1>5. Len(e) >= 1
  BY <1>2, <1>4
<1>6. QED BY <1>3, <1>4, <1>5 DEF TextFrame, e, d

LEMMA ReportShapes ==
    ASSUME NEW f \in Reports
    PROVE  StateFrame(f) \/ UpdateFrame(f) \/ TextFrame(f)
<1>1. CASE \E s \in Applied : f = Envelope(DEVICE_STATE, StateBody(s))
  BY <1>1, StateIsStateFrame
<1>2. CASE \E n \in Sizes : f = Envelope(WINDOW_UPDATE, UpdateBody(n))
  BY <1>2, UpdateIsUpdateFrame
<1>3. CASE \E c \in {AUDIO, DEBUG}, text \in Texts : f = Envelope(c, text)
  BY <1>3, TextIsTextFrame
<1>4. CASE \E text \in Texts : f = <<DATA>> \o text
  BY <1>4, DataIsTextFrame
<1>5. QED BY <1>1, <1>2, <1>3, <1>4 DEF Reports

-----------------------------------------------------------------------------
(* What a frame is taken for.                                              *)

\* A frame as the device sends it.
Shaped(f) == HelloFrame(f) \/ StateFrame(f) \/ UpdateFrame(f) \/ TextFrame(f)

\* No handler that changes state takes f.
Ignored(f) == ~HandleHello(f) /\ ~HandleDeviceState(f) /\ ~HandleWindowUpdate(f)

LEMMA IgnoredPasses ==
    ASSUME NEW f, OnKissFrame(f), Ignored(f)
    PROVE  UNCHANGED <<hostVars, heard>>
BY DEF OnKissFrame, Ignored, Passes

\* What a handler takes has an envelope, its command, and its length.
LEMMA TakenShape ==
    ASSUME NEW e \in Seq(Byte), ~Ignored(e)
    PROVE  /\ Len(e) >= 7 /\ e[1] % 16 = 6 /\ e[5] = 80 /\ e[6] = 1
           /\ \/ HandleHello(e) /\ e[7] = 6 /\ Len(e) = 50
              \/ HandleDeviceState(e) /\ e[7] = 11 /\ Len(e) >= 33
              \/ HandleWindowUpdate(e) /\ e[7] = 9 /\ Len(e) >= 11
<1>1. CASE HandleHello(e)
  <2>1. Routed(e, HELLO) /\ Len(e) = 50
    BY <1>1, HelloTakes
  <2>2. Len(e) >= 7 /\ e[1] % 16 = 6 /\ e[5] = 80 /\ e[6] = 1 /\ e[7] = HELLO
    BY <2>1, RoutedShape
  <2>3. QED BY <1>1, <2>1, <2>2, CodesOfCommands
<1>2. CASE HandleDeviceState(e)
  <2>1. Routed(e, DEVICE_STATE) /\ Len(e) >= 33
    BY <1>2, StateTakes
  <2>2. Len(e) >= 7 /\ e[1] % 16 = 6 /\ e[5] = 80 /\ e[6] = 1 /\ e[7] = DEVICE_STATE
    BY <2>1, RoutedShape
  <2>3. QED BY <1>2, <2>1, <2>2, CodesOfCommands
<1>3. CASE HandleWindowUpdate(e)
  <2>1. Routed(e, WINDOW_UPDATE) /\ Len(e) >= 11
    BY <1>3, UpdateTakes
  <2>2. Len(e) >= 7 /\ e[1] % 16 = 6 /\ e[5] = 80 /\ e[6] = 1 /\ e[7] = WINDOW_UPDATE
    BY <2>1, RoutedShape
  <2>3. QED BY <1>3, <2>1, <2>2, CodesOfCommands
<1>4. QED BY <1>1, <1>2, <1>3 DEF Ignored

\* A frame that has lost a byte of its body is ignored.
LEMMA LossIgnored ==
    ASSUME NEW f, Shaped(f), NEW i \in DOMAIN f, i > 7
    PROVE  RemoveAt(f, i) \in Seq(Byte) /\ Ignored(RemoveAt(f, i))
<1> DEFINE e == RemoveAt(f, i)
<1>1. f \in Seq(Byte) /\ Len(f) \in Nat /\ i \in 1 .. Len(f) /\ Len(f) >= 8
  BY DEF Shaped, HelloFrame, StateFrame, UpdateFrame, TextFrame, Vendor
<1>2. /\ e \in Seq(Byte) /\ Len(e) = Len(f) - 1
      /\ \A j \in 1 .. i - 1 : e[j] = f[j]
  BY <1>1, RemoveAtShape
<1> HIDE DEF e
<1>3. SUFFICES ASSUME ~Ignored(e) PROVE FALSE
  BY <1>2 DEF e
<1>4. /\ e[1] % 16 = 6
      /\ \/ e[7] = 6 /\ Len(e) = 50
         \/ e[7] = 11 /\ Len(e) >= 33
         \/ e[7] = 9 /\ Len(e) >= 11
  BY <1>2, <1>3, TakenShape, Zenon
<1>5. e[1] = f[1] /\ e[7] = f[7]
  <2>1. 1 \in 1 .. i - 1 /\ 7 \in 1 .. i - 1
    BY <1>1
  <2>2. QED BY <1>2, <2>1
<1>6. CASE HelloFrame(f)
  <2>1. f[7] = 6 /\ Len(e) = 49
    BY <1>2, <1>6, CodesOfCommands DEF HelloFrame, Vendor
  <2>2. QED BY <1>4, <1>5, <2>1
<1>7. CASE StateFrame(f)
  <2>1. f[7] = 11 /\ Len(e) = 32
    BY <1>2, <1>7, CodesOfCommands DEF StateFrame, Vendor
  <2>2. QED BY <1>4, <1>5, <2>1
<1>8. CASE UpdateFrame(f)
  <2>1. f[7] = 9 /\ Len(e) = 10
    BY <1>2, <1>8, CodesOfCommands DEF UpdateFrame, Vendor
  <2>2. QED BY <1>4, <1>5, <2>1
<1>9. CASE TextFrame(f)
  <2>1. f[7] = 7 \/ f[7] = 1 \/ f[1] = 0
    BY <1>9, CodesOfCommands DEF TextFrame, Vendor
  <2>2. QED BY <1>4, <1>5, <2>1
<1>10. QED BY <1>6, <1>7, <1>8, <1>9 DEF Shaped

\* A field of what a frame opens is the frame's.
LEMMA FieldOfOpening ==
    ASSUME NEW f \in Seq(Byte), NEW e \in Seq(Byte), Len(e) >= Len(f),
           \A j \in 1 .. Len(f) : e[j] = f[j],
           NEW m \in Nat \ {0}, NEW n \in Nat, m <= n, n <= Len(f)
    PROVE  SubSeq(e, m, n) = SubSeq(f, m, n)
<1> DEFINE x == SubSeq(e, m, n)
           y == SubSeq(f, m, n)
<1>1. /\ y \in Seq(Byte) /\ Len(y) = n - m + 1
      /\ \A j \in 1 .. n - m + 1 : y[j] = f[m + j - 1]
  BY SubSeqOfBytes
<1>2. /\ x \in Seq(Byte) /\ Len(x) = n - m + 1
      /\ \A j \in 1 .. n - m + 1 : x[j] = e[m + j - 1]
  BY SubSeqOfBytes
<1> HIDE DEF x, y
<1>3. ASSUME NEW j \in 1 .. Len(x) PROVE x[j] = y[j]
  <2>1. j \in 1 .. n - m + 1 /\ m + j - 1 \in 1 .. Len(f)
    BY <1>2
  <2>2. QED BY <1>1, <1>2, <2>1
<1>4. x = y
  BY <1>1, <1>2, <1>3, SeqEqual
<1>5. QED BY <1>4 DEF x, y

\* What the bytes of a frame, and what may follow them, are taken for.
LEMMA OpeningTaken ==
    ASSUME NEW f, Shaped(f), NEW e \in Seq(Byte), Len(e) >= Len(f),
           \A j \in 1 .. Len(f) : e[j] = f[j], OnKissFrame(e)
    PROVE  \/ /\ HelloFrame(f) /\ hello' = SubSeq(f, 8, 24) /\ device' = SubSeq(f, 25, 50)
              /\ credits' = <<>> /\ heard' = boots
           \/ f = Envelope(DEVICE_STATE, device') /\ UNCHANGED <<hello, credits, heard>>
           \/ \E c \in Seq(Byte) : /\ f = Envelope(WINDOW_UPDATE, c) /\ credits' = Append(credits, c)
                                   /\ UNCHANGED <<hello, device, heard>>
           \/ UNCHANGED <<hello, device, credits, heard>>
<1>1. f \in Seq(Byte) /\ Len(f) \in Nat
  BY DEF Shaped, HelloFrame, StateFrame, UpdateFrame, TextFrame, Vendor
<1>2. CASE Ignored(e)
  BY <1>2, IgnoredPasses DEF hostVars
<1>3. CASE ~Ignored(e)
  <2>1. /\ Len(e) >= 7 /\ e[1] % 16 = 6 /\ e[5] = 80 /\ e[6] = 1
        /\ \/ HandleHello(e) /\ e[7] = 6 /\ Len(e) = 50
           \/ HandleDeviceState(e) /\ e[7] = 11 /\ Len(e) >= 33
           \/ HandleWindowUpdate(e) /\ e[7] = 9 /\ Len(e) >= 11
    BY <1>3, TakenShape, Zenon
  <2>2. ASSUME NEW c, Vendor(f, c) PROVE e[7] = c
    <3>1. 7 \in 1 .. Len(f)
      BY <1>1, <2>2 DEF Vendor
    <3>2. QED BY <2>2, <3>1 DEF Vendor
  <2>3. CASE HelloFrame(f)
    <3>1. Vendor(f, 6) /\ Len(f) = 50
      BY <2>3, CodesOfCommands DEF HelloFrame
    <3>2. HandleHello(e)
      BY <2>1, <2>2, <3>1
    <3>3. /\ hello' = SubSeq(e, 8, 24) /\ device' = SubSeq(e, 25, 50)
          /\ credits' = <<>> /\ heard' = boots
      BY <3>2, HelloTakes, Zenon
    <3>4. SubSeq(e, 8, 24) = SubSeq(f, 8, 24)
      <4>1. 8 \in Nat \ {0} /\ 24 \in Nat /\ 8 <= 24 /\ 24 <= Len(f)
        BY <3>1
      <4>2. QED BY <1>1, <4>1, FieldOfOpening, Zenon
    <3>5. SubSeq(e, 25, 50) = SubSeq(f, 25, 50)
      <4>1. 25 \in Nat \ {0} /\ 50 \in Nat /\ 25 <= 50 /\ 50 <= Len(f)
        BY <3>1
      <4>2. QED BY <1>1, <4>1, FieldOfOpening, Zenon
    <3>6. QED BY <2>3, <3>3, <3>4, <3>5, Zenon
  <2>4. CASE StateFrame(f)
    <3>1. Vendor(f, 11) /\ Len(f) = 33 /\ f = Envelope(DEVICE_STATE, SubSeq(f, 8, 33))
      BY <2>4, CodesOfCommands DEF StateFrame
    <3>2. HandleDeviceState(e)
      BY <2>1, <2>2, <3>1
    <3>3. device' = SubSeq(e, 8, 33) /\ UNCHANGED <<hello, credits, heard>>
      BY <3>2, StateTakes
    <3>4. SubSeq(e, 8, 33) = SubSeq(f, 8, 33)
      <4>1. 8 \in Nat \ {0} /\ 33 \in Nat /\ 8 <= 33 /\ 33 <= Len(f)
        BY <3>1
      <4>2. QED BY <1>1, <4>1, FieldOfOpening, Zenon
    <3>5. f = Envelope(DEVICE_STATE, device')
      BY <3>1, <3>3, <3>4
    <3>6. QED BY <3>3, <3>5, Zenon
  <2>5. CASE UpdateFrame(f)
    <3>1. /\ Vendor(f, 9) /\ Len(f) = 11
          /\ SubSeq(f, 8, 11) \in Seq(Byte) /\ f = Envelope(WINDOW_UPDATE, SubSeq(f, 8, 11))
      BY <2>5, CodesOfCommands DEF UpdateFrame
    <3>2. HandleWindowUpdate(e)
      BY <2>1, <2>2, <3>1
    <3>3. credits' = Append(credits, SubSeq(e, 8, 11)) /\ UNCHANGED <<hello, device, heard>>
      BY <3>2, UpdateTakes
    <3>4. SubSeq(e, 8, 11) = SubSeq(f, 8, 11)
      <4>1. 8 \in Nat \ {0} /\ 11 \in Nat /\ 8 <= 11 /\ 11 <= Len(f)
        BY <3>1
      <4>2. QED BY <1>1, <4>1, FieldOfOpening, Zenon
    <3>5. credits' = Append(credits, SubSeq(f, 8, 11))
      BY <3>3, <3>4
    <3>6. QED BY <3>1, <3>3, <3>5, Zenon
  <2>6. ~TextFrame(f)
    <3>1. ~Vendor(f, AUDIO) /\ ~Vendor(f, DEBUG)
      BY <2>1, <2>2, CodesOfCommands
    <3>2. Len(f) >= 1 => f[1] = e[1]
      BY <1>1
    <3>3. ~(Len(f) >= 1 /\ f[1] = 0)
      BY <2>1, <3>2
    <3>4. QED BY <3>1, <3>3 DEF TextFrame
  <2>7. QED BY <2>3, <2>4, <2>5, <2>6 DEF Shaped
<1>4. QED BY <1>2, <1>3

-----------------------------------------------------------------------------
(* Counting.                                                               *)

\* How often x is in s.
Count(s, x) == Cardinality({i \in DOMAIN s : s[i] = x})

\* One more, or none.
LEMMA CountOfAppend ==
    ASSUME NEW S, NEW s \in Seq(S), NEW y \in S, NEW x
    PROVE  /\ Count(s, x) \in Nat
           /\ Count(Append(s, y), x) = Count(s, x) + IF y = x THEN 1 ELSE 0
<1> DEFINE n == Len(s)
           t == Append(s, y)
           I == {i \in DOMAIN s : s[i] = x}
           J == {i \in DOMAIN t : t[i] = x}
<1>1. /\ n \in Nat /\ DOMAIN s = 1 .. n /\ DOMAIN t = 1 .. n + 1
      /\ t[n + 1] = y /\ \A i \in 1 .. n : t[i] = s[i]
  OBVIOUS
<1> HIDE DEF n, t
<1>2. IsFiniteSet(I)
  <2>1. IsFiniteSet(1 .. n)
    BY <1>1, FS_Interval
  <2>2. I \subseteq 1 .. n
    BY <1>1
  <2>3. QED BY <2>1, <2>2, FS_Subset
<1>3. Cardinality(I) \in Nat
  BY <1>2, FS_CardinalityType
<1>4. CASE y = x
  <2>1. J = I \cup {n + 1}
    BY <1>1, <1>4
  <2>2. n + 1 \notin I
    BY <1>1
  <2>3. Cardinality(J) = Cardinality(I) + 1
    BY <1>2, <2>1, <2>2, FS_AddElement
  <2>4. QED BY <1>3, <1>4, <2>3 DEF Count, t
<1>5. CASE y # x
  <2>1. J = I
    BY <1>1, <1>5
  <2>2. \A k \in Nat : k = k + 0
    OBVIOUS
  <2>3. Cardinality(J) = Cardinality(I) + 0
    BY <1>3, <2>1, <2>2, Zenon
  <2>4. QED BY <1>3, <1>5, <2>3 DEF Count, t
<1>6. QED BY <1>4, <1>5

LEMMA CountOfEmpty == ASSUME NEW x PROVE Count(<<>>, x) = 0
<1>1. {i \in DOMAIN <<>> : <<>>[i] = x} = {}
  OBVIOUS
<1>2. QED BY <1>1, FS_EmptySet DEF Count

-----------------------------------------------------------------------------
(* What the host knows.                                                    *)

\* What the device has sent since it booted: a HELLO, then reports; the frame on
\* the line is the last of it.
Spoken ==
    /\ boots = 0 => sent = <<>> /\ frame = <<>>
    /\ boots > 0 => /\ sent # <<>> /\ HelloFrame(sent[1])
                    /\ \A i \in 2 .. Len(sent) : sent[i] \in Reports
    /\ frame # <<>> => sent # <<>> /\ frame = sent[Len(sent)]

\* A credit on the line has been sent and not been taken.
InFlight(c) == IF frame = Envelope(WINDOW_UPDATE, c) THEN 1 ELSE 0

CreditsKnown ==
    \A c \in Seq(Byte) : Count(credits, c) + InFlight(c) <= Count(sent, Envelope(WINDOW_UPDATE, c))

\* The three parts of NothingInvented, with the credit on the line already spoken
\* for.
HelloKnown == hello = SubSeq(sent[1], 8, 24)

DeviceKnown ==
    \/ device = SubSeq(sent[1], 25, 50)
    \/ \E i \in DOMAIN sent : sent[i] = Envelope(DEVICE_STATE, device)

Known ==
    /\ HelloKnown \/ HELLO \in misread
    /\ DeviceKnown \/ misread \cap {HELLO, DEVICE_STATE} # {}
    /\ CreditsKnown \/ WINDOW_UPDATE \in misread

\* The invariant that the steps preserve.
KInv ==
    /\ IInv
    /\ Spoken
    /\ heard = boots /\ boots > 0 => Known

LEMMA ReportIsNotHello ==
    ASSUME NEW f \in Reports
    PROVE  Shaped(f) /\ ~HelloFrame(f) /\ f \in Seq(Byte)
<1>1. StateFrame(f) \/ UpdateFrame(f) \/ TextFrame(f)
  BY ReportShapes
<1>2. StateFrame(f) => ~HelloFrame(f)
  BY CodesOfCommands DEF StateFrame, HelloFrame, Vendor
<1>3. UpdateFrame(f) => ~HelloFrame(f)
  BY CodesOfCommands DEF UpdateFrame, HelloFrame, Vendor
<1>4. TextFrame(f) => ~HelloFrame(f)
  BY CodesOfCommands DEF TextFrame, HelloFrame, Vendor
<1>5. QED BY <1>1, <1>2, <1>3, <1>4, ReportsOfBytes DEF Shaped

LEMMA UpdateIsVendor ==
    ASSUME NEW c \in Seq(Byte)
    PROVE  /\ Vendor(Envelope(WINDOW_UPDATE, c), WINDOW_UPDATE)
           /\ Envelope(WINDOW_UPDATE, c) # <<>>
<1>1. Vendor(Envelope(WINDOW_UPDATE, c), WINDOW_UPDATE)
  BY CodesOfCommands, EnvelopeVendor
<1>2. Len(Envelope(WINDOW_UPDATE, c)) >= 7
  BY <1>1 DEF Vendor
<1>3. QED BY <1>1, <1>2

\* The frame in flight is the last one sent, and a HELLO only if it is the first.
LEMMA FrameIsLast ==
    ASSUME IInv, Spoken, frame # <<>>
    PROVE  /\ boots > 0 /\ sent # <<>> /\ Len(sent) \in Nat \ {0} /\ frame = sent[Len(sent)]
           /\ Shaped(frame) /\ (HelloFrame(frame) => Len(sent) = 1)
<1>1. boots > 0 /\ sent # <<>> /\ Len(sent) \in Nat \ {0} /\ frame = sent[Len(sent)]
  <2>1. boots \in Nat /\ sent \in Seq(Seq(Byte))
    BY DEF IInv, HostTypeOK
  <2>2. boots > 0 /\ sent # <<>> /\ frame = sent[Len(sent)]
    BY <2>1 DEF Spoken
  <2>3. QED BY <2>1, <2>2
<1>2. CASE Len(sent) = 1
  BY <1>1, <1>2 DEF Spoken, Shaped
<1>3. CASE Len(sent) # 1
  <2>1. Len(sent) \in 2 .. Len(sent)
    <3>1. \A k \in Nat \ {0} : k # 1 => k \in 2 .. k
      OBVIOUS
    <3>2. QED BY <1>1, <1>3, <3>1, Zenon
  <2>2. frame \in Reports
    BY <1>1, <2>1 DEF Spoken
  <2>3. QED BY <1>1, <2>2, ReportIsNotHello
<1>4. QED BY <1>1, <1>2, <1>3

LEMMA InFlightType ==
    ASSUME NEW c
    PROVE  InFlight(c) \in {0, 1}
BY DEF InFlight

\* More may be sent: what has been said stays said.
LEMMA SaidStaysSaid ==
    ASSUME IInv, Spoken, boots > 0, NEW n \in Reports, sent' = Append(sent, n)
    PROVE  /\ sent' \in Seq(Seq(Byte)) /\ sent' # <<>> /\ sent'[1] = sent[1]
           /\ Len(sent') = Len(sent) + 1 /\ sent'[Len(sent')] = n
           /\ \A i \in 2 .. Len(sent') : sent'[i] \in Reports
           /\ \A i \in DOMAIN sent : i \in DOMAIN sent' /\ sent'[i] = sent[i]
<1>1. sent \in Seq(Seq(Byte)) /\ sent # <<>> /\ n \in Seq(Byte)
      /\ \A i \in 2 .. Len(sent) : sent[i] \in Reports
  BY ReportsOfBytes DEF IInv, Spoken
<1>2. /\ sent' \in Seq(Seq(Byte)) /\ Len(sent') = Len(sent) + 1 /\ sent'[Len(sent) + 1] = n
      /\ \A i \in 1 .. Len(sent) : sent'[i] = sent[i]
  BY <1>1
<1>3. Len(sent) \in Nat \ {0} /\ DOMAIN sent = 1 .. Len(sent) /\ DOMAIN sent' = 1 .. Len(sent) + 1
  BY <1>1, <1>2
<1>4. sent'[1] = sent[1]
  BY <1>2, <1>3
<1>5. sent' # <<>> /\ sent'[Len(sent')] = n
  BY <1>2, <1>3
<1>6. ASSUME NEW i \in 2 .. Len(sent') PROVE sent'[i] \in Reports
  <2>1. i \in 2 .. Len(sent) \/ i = Len(sent) + 1
    BY <1>2, <1>3
  <2>2. i \in 2 .. Len(sent) => i \in 1 .. Len(sent)
    BY <1>3
  <2>3. QED BY <1>1, <1>2, <2>1, <2>2
<1>7. \A i \in DOMAIN sent : i \in DOMAIN sent' /\ sent'[i] = sent[i]
  BY <1>2, <1>3
<1>8. QED BY <1>2, <1>4, <1>5, <1>6, <1>7

LEMMA CountsOfSent ==
    ASSUME IInv, NEW n \in Seq(Byte), NEW c
    PROVE  /\ Count(sent, c) \in Nat /\ Count(credits, c) \in Nat
           /\ Count(Append(sent, n), c) = Count(sent, c) + IF n = c THEN 1 ELSE 0
           /\ Count(Append(credits, n), c) = Count(credits, c) + IF n = c THEN 1 ELSE 0
<1>1. sent \in Seq(Seq(Byte)) /\ credits \in Seq(Seq(Byte))
  BY DEF IInv, HostTypeOK
<1>2. /\ Count(sent, c) \in Nat
      /\ Count(Append(sent, n), c) = Count(sent, c) + IF n = c THEN 1 ELSE 0
  BY <1>1, CountOfAppend
<1>3. /\ Count(credits, c) \in Nat
      /\ Count(Append(credits, n), c) = Count(credits, c) + IF n = c THEN 1 ELSE 0
  BY <1>1, CountOfAppend
<1>4. QED BY <1>2, <1>3

\* What a frame may be taken for ...
Outcome ==
    \/ /\ HelloFrame(frame) /\ hello' = SubSeq(frame, 8, 24) /\ device' = SubSeq(frame, 25, 50)
       /\ credits' = <<>> /\ heard' = boots
    \/ frame = Envelope(DEVICE_STATE, device') /\ UNCHANGED <<hello, credits, heard>>
    \/ \E c \in Seq(Byte) : /\ frame = Envelope(WINDOW_UPDATE, c) /\ credits' = Append(credits, c)
                            /\ UNCHANGED <<hello, device, heard>>
    \/ UNCHANGED <<hello, device, credits, heard>>

\* ... and without a byte of its envelope.
Mistaken ==
    \/ HELLO \in misread' /\ credits' = <<>> /\ heard' = boots
    \/ DEVICE_STATE \in misread' /\ UNCHANGED <<hello, credits, heard>>
    \/ WINDOW_UPDATE \in misread' /\ UNCHANGED <<hello, device, heard>>

\* The frame is gone, whatever it has been taken for, and another may have been sent.
LEMMA OutcomeKnown ==
    ASSUME KInv, frame # <<>>, frame' = <<>>, boots' = boots, IInv', Outcome \/ Mistaken,
           misread \subseteq misread',
           sent' = sent \/ \E n \in Reports : sent' = Append(sent, n)
    PROVE  KInv'
<1>1. /\ boots > 0 /\ sent # <<>> /\ Len(sent) \in Nat \ {0} /\ frame = sent[Len(sent)]
      /\ Shaped(frame) /\ (HelloFrame(frame) => Len(sent) = 1)
  BY FrameIsLast DEF KInv
<1>2. /\ sent # <<>> /\ HelloFrame(sent[1])
      /\ \A i \in 2 .. Len(sent) : sent[i] \in Reports
  BY <1>1 DEF KInv, Spoken
<1>3. /\ sent' # <<>> /\ sent'[1] = sent[1]
      /\ \A i \in 2 .. Len(sent') : sent'[i] \in Reports
      /\ \A i \in DOMAIN sent : i \in DOMAIN sent' /\ sent'[i] = sent[i]
  <2>1. CASE sent' = sent
    BY <1>2, <2>1
  <2>2. ASSUME NEW n \in Reports, sent' = Append(sent, n)
        PROVE  /\ sent' # <<>> /\ sent'[1] = sent[1]
               /\ \A i \in 2 .. Len(sent') : sent'[i] \in Reports
               /\ \A i \in DOMAIN sent : i \in DOMAIN sent' /\ sent'[i] = sent[i]
    BY <1>1, <2>2, SaidStaysSaid DEF KInv
  <2>3. QED BY <2>1, <2>2
<1>4. Spoken'
  BY <1>1, <1>2, <1>3 DEF Spoken
<1>5. Len(sent) \in DOMAIN sent
  <2>1. sent \in Seq(Seq(Byte))
    BY DEF KInv, IInv
  <2>2. QED BY <1>1, <2>1
<1>6. ASSUME NEW x PROVE Count(sent, x) \in Nat /\ Count(sent', x) \in Nat /\ Count(sent, x) <= Count(sent', x)
  <2>1. Count(sent, x) \in Nat
    <3>1. <<>> \in Seq(Byte)
      OBVIOUS
    <3>2. QED BY <3>1, CountsOfSent DEF KInv
  <2>2. CASE sent' = sent
    BY <2>1, <2>2
  <2>3. ASSUME NEW n \in Reports, sent' = Append(sent, n)
        PROVE  Count(sent', x) \in Nat /\ Count(sent, x) <= Count(sent', x)
    <3>1. n \in Seq(Byte)
      BY ReportsOfBytes
    <3>2. Count(sent', x) = Count(sent, x) + IF n = x THEN 1 ELSE 0
      BY <2>3, <3>1, CountsOfSent DEF KInv
    <3>3. QED BY <2>1, <3>2
  <2>4. QED BY <2>1, <2>2, <2>3
<1>7. ASSUME NEW c \in Seq(Byte) PROVE InFlight(c)' = 0
  <2>1. Envelope(WINDOW_UPDATE, c) # <<>>
    BY UpdateIsVendor
  <2>2. QED BY <2>1 DEF InFlight
<1>9. ASSUME NEW c \in Seq(Byte)
      PROVE  Count(credits, c) \in Nat /\ InFlight(c) \in {0, 1}
  <2>1. Count(credits, c) \in Nat
    BY CountsOfSent DEF KInv
  <2>2. QED BY <2>1, InFlightType
<1>10. ASSUME HelloKnown, hello' = hello PROVE HelloKnown'
  BY <1>3, <1>10 DEF HelloKnown
<1>11. ASSUME DeviceKnown, device' = device PROVE DeviceKnown'
  BY <1>3, <1>11 DEF DeviceKnown
<1>12. ASSUME CreditsKnown, credits' = credits PROVE CreditsKnown'
  <2>1. ASSUME NEW c \in Seq(Byte)
        PROVE  Count(credits', c) + InFlight(c)' <= Count(sent', Envelope(WINDOW_UPDATE, c))
    <3> DEFINE u == Envelope(WINDOW_UPDATE, c)
    <3>1. Count(credits, c) + InFlight(c) <= Count(sent, u)
      BY <1>12 DEF CreditsKnown
    <3>2. Count(credits', c) = Count(credits, c)
      BY <1>12
    <3>3. Count(sent, u) \in Nat /\ Count(sent', u) \in Nat /\ Count(sent, u) <= Count(sent', u)
      BY <1>6
    <3>4. Count(credits, c) \in Nat /\ InFlight(c) \in {0, 1}
      BY <1>9
    <3> HIDE DEF u
    <3>5. Count(credits, c) + 0 <= Count(sent', u)
      BY <3>1, <3>3, <3>4
    <3>6. QED BY <1>7, <3>2, <3>5 DEF u
  <2>2. QED BY <2>1 DEF CreditsKnown, Count
<1>13. ASSUME credits' = <<>> PROVE CreditsKnown'
  <2>1. ASSUME NEW c \in Seq(Byte)
        PROVE  Count(credits', c) + InFlight(c)' <= Count(sent', Envelope(WINDOW_UPDATE, c))
    <3>1. Count(credits', c) = 0
      BY <1>13, CountOfEmpty
    <3>2. Count(sent', Envelope(WINDOW_UPDATE, c)) \in Nat
      BY <1>6
    <3>3. QED BY <1>7, <3>1, <3>2
  <2>2. QED BY <2>1 DEF CreditsKnown, Count
<1>14. ASSUME NEW d \in Seq(Byte), frame = Envelope(WINDOW_UPDATE, d), credits' = Append(credits, d),
              CreditsKnown
       PROVE  CreditsKnown'
  <2>1. ASSUME NEW c \in Seq(Byte)
        PROVE  Count(credits', c) + InFlight(c)' <= Count(sent', Envelope(WINDOW_UPDATE, c))
    <3> DEFINE u == Envelope(WINDOW_UPDATE, c)
    <3>1. Count(credits, c) + InFlight(c) <= Count(sent, u)
      BY <1>14 DEF CreditsKnown
    <3>2. Count(credits', c) = Count(credits, c) + IF d = c THEN 1 ELSE 0
      BY <1>14, CountsOfSent DEF KInv
    <3>3. Count(sent, u) \in Nat /\ Count(sent', u) \in Nat /\ Count(sent, u) <= Count(sent', u)
      BY <1>6
    <3>4. Count(credits, c) \in Nat /\ InFlight(c) \in {0, 1}
      BY <1>9
    <3>5. d = c => InFlight(c) = 1
      BY <1>14 DEF InFlight
    <3> HIDE DEF u
    <3>6. Count(credits', c) + 0 <= Count(sent', u)
      BY <3>1, <3>2, <3>3, <3>4, <3>5
    <3>7. QED BY <1>7, <3>6 DEF u
  <2>2. QED BY <2>1 DEF CreditsKnown, Count
<1>15. CASE /\ HelloFrame(frame) /\ hello' = SubSeq(frame, 8, 24) /\ device' = SubSeq(frame, 25, 50)
            /\ credits' = <<>> /\ heard' = boots
  <2>1. frame = sent'[1]
    BY <1>1, <1>3, <1>15
  <2>2. HelloKnown' /\ DeviceKnown'
    BY <1>15, <2>1 DEF HelloKnown, DeviceKnown
  <2>3. QED BY <1>4, <1>13, <1>15, <2>2 DEF KInv, Known
<1>16. CASE frame = Envelope(DEVICE_STATE, device') /\ UNCHANGED <<hello, credits, heard>>
  <2>1. DeviceKnown'
    BY <1>1, <1>3, <1>5, <1>16 DEF DeviceKnown
  <2>2. SUFFICES ASSUME Known PROVE Known'
    BY <1>4, <1>16 DEF KInv
  <2>3. QED BY <1>10, <1>12, <1>16, <2>1, <2>2 DEF Known
<1>17. ASSUME NEW d \in Seq(Byte), frame = Envelope(WINDOW_UPDATE, d), credits' = Append(credits, d),
              UNCHANGED <<hello, device, heard>>
       PROVE  KInv'
  <2>1. SUFFICES ASSUME Known PROVE Known'
    BY <1>4, <1>17 DEF KInv
  <2>2. QED BY <1>10, <1>11, <1>14, <1>17, <2>1 DEF Known
<1>18. CASE UNCHANGED <<hello, device, credits, heard>>
  <2>1. SUFFICES ASSUME Known PROVE Known'
    BY <1>4, <1>18 DEF KInv
  <2>2. QED BY <1>10, <1>11, <1>12, <1>18, <2>1 DEF Known
<1>19. CASE Mistaken
  <2>1. CASE HELLO \in misread' /\ credits' = <<>> /\ heard' = boots
    BY <1>4, <1>13, <2>1 DEF KInv, Known
  <2>2. CASE DEVICE_STATE \in misread' /\ UNCHANGED <<hello, credits, heard>>
    <3>1. SUFFICES ASSUME Known PROVE Known'
      BY <1>4, <2>2 DEF KInv
    <3>2. QED BY <1>10, <1>12, <2>2, <3>1 DEF Known
  <2>3. CASE WINDOW_UPDATE \in misread' /\ UNCHANGED <<hello, device, heard>>
    <3>1. SUFFICES ASSUME Known PROVE Known'
      BY <1>4, <2>3 DEF KInv
    <3>2. QED BY <1>10, <1>11, <2>3, <3>1 DEF Known
  <2>4. QED BY <1>19, <2>1, <2>2, <2>3 DEF Mistaken
<1>20. QED BY <1>15, <1>16, <1>17, <1>18, <1>19 DEF Outcome

\* A handler takes what has the whole envelope of its command.
LEMMA TakenEnvelope ==
    ASSUME NEW e \in Seq(Byte), NEW c \in Commands, Routed(e, c)
    PROVE  \A j \in 2 .. HEADER_LEN + 1 : e[j] = Envelope(c, <<>>)[j]
<1> DEFINE v == Envelope(c, <<>>)
<1>1. c \in Byte /\ <<>> \in Seq(Byte)
  BY CodesOfCommands DEF Commands
<1>2. Vendor(v, c)
  BY <1>1, EnvelopeVendor
<1> HIDE DEF v
<1>3. v[2] = 75 /\ v[3] = 52 /\ v[4] = 86 /\ v[5] = 80 /\ v[6] = 1 /\ v[7] = c
  BY <1>2 DEF Vendor
<1>4. e[2] = 75 /\ e[3] = 52 /\ e[4] = 86 /\ e[5] = 80 /\ e[6] = 1 /\ e[7] = c
  BY RoutedShape
<1>5. \A j \in 2 .. 7 : j = 2 \/ j = 3 \/ j = 4 \/ j = 5 \/ j = 6 \/ j = 7
  OBVIOUS
<1>6. \A j \in 2 .. 7 : e[j] = v[j]
  BY <1>3, <1>4, <1>5
<1>7. QED BY <1>6 DEF HEADER_LEN, v

\* Such a frame is taken for nothing, or for what it passes for.
LEMMA MistakenOutcome ==
    ASSUME frame \in Seq(Byte), NEW i \in DOMAIN frame, i <= 7, OnKissFrame(RemoveAt(frame, i)),
           misread' = misread \cup PassesFor(i)
    PROVE  Outcome \/ Mistaken
<1> DEFINE e == RemoveAt(frame, i)
<1>1. ASSUME NEW c \in Commands, Fits(e, c), Routed(e, c) PROVE c \in misread'
  <2>1. e \in Seq(Byte)
    BY RemoveAtShape
  <2>2. \A j \in 2 .. HEADER_LEN + 1 : e[j] = Envelope(c, <<>>)[j]
    BY <1>1, <2>1, TakenEnvelope
  <2>3. i <= HEADER_LEN + 1
    BY DEF HEADER_LEN
  <2>4. c \in PassesFor(i)
    BY <1>1, <2>2, <2>3 DEF PassesFor
  <2>5. QED BY <2>4
<1>2. OnKissFrame(e) /\ e \in Seq(Byte)
  BY RemoveAtShape
<1> HIDE DEF e
<1>3. CASE HandleHello(e)
  <2>1. Length(e, HELLO) \in Int
    BY <1>3 DEF HandleHello, VERSION_SIZE, DEVICE_STATE_SIZE, Length
  <2>2. Fits(e, HELLO)
    BY <1>3, <2>1 DEF HandleHello, Fits, VERSION_SIZE, DEVICE_STATE_SIZE
  <2>3. Routed(e, HELLO)
    BY <1>2, <1>3, HelloTakes
  <2>4. HELLO \in misread'
    BY <1>1, <2>2, <2>3 DEF Commands
  <2>5. QED BY <1>3, <2>4 DEF HandleHello, Mistaken
<1>4. CASE HandleDeviceState(e)
  <2>1. Routed(e, DEVICE_STATE) /\ Fits(e, DEVICE_STATE)
    BY <1>2, <1>4, StateTakes DEF HandleDeviceState, Fits
  <2>2. DEVICE_STATE \in misread'
    BY <1>1, <2>1 DEF Commands
  <2>3. QED BY <1>4, <2>2 DEF HandleDeviceState, Mistaken
<1>5. CASE HandleWindowUpdate(e)
  <2>1. Routed(e, WINDOW_UPDATE) /\ Fits(e, WINDOW_UPDATE)
    BY <1>2, <1>5, UpdateTakes DEF HandleWindowUpdate, Fits
  <2>2. WINDOW_UPDATE \in misread'
    BY <1>1, <2>1 DEF Commands
  <2>3. QED BY <1>5, <2>2 DEF HandleWindowUpdate, Mistaken
<1>6. CASE Passes(e)
  BY <1>6 DEF Passes, hostVars, Outcome
<1>7. QED BY <1>2, <1>3, <1>4, <1>5, <1>6 DEF OnKissFrame

\* The frame, or the frame and what has run into it.
LEMMA OpeningOutcome ==
    ASSUME KInv, frame # <<>>, NEW e \in Seq(Byte), Len(e) >= Len(frame),
           \A j \in 1 .. Len(frame) : e[j] = frame[j], OnKissFrame(e)
    PROVE  Outcome
BY FrameIsLast, OpeningTaken DEF KInv, Outcome

\* Only a HELLO is heard, and only in the boot there has been.
LEMMA HeardOnce ==
    ASSUME NEW f, OnKissFrame(f)
    PROVE  heard' \in {heard, boots}
BY DEF OnKissFrame, HandleHello, HandleDeviceState, HandleWindowUpdate, Passes

LEMMA KInvInit == Init => KInv
BY IInvInit DEF Init, KInv, Spoken

LEMMA KInvNext == KInv /\ [Next]_vars => KInv'
<1> SUFFICES ASSUME KInv, [Next]_vars PROVE KInv'
  OBVIOUS
<1>1. IInv /\ IInv' /\ Spoken /\ boots \in Nat /\ heard \in 0 .. boots
      /\ sent \in Seq(Seq(Byte)) /\ frame \in Seq(Byte)
  BY IInvNext DEF KInv, IInv, HostTypeOK
<1>2. ASSUME NEW f \in Reports, Sends(f) PROVE KInv'
  <2>1. /\ boots > 0 /\ frame = <<>> /\ frame' = f /\ sent' = Append(sent, f)
        /\ UNCHANGED <<hello, device, credits, boots, heard, misread>>
    BY <1>2 DEF Sends, hostVars
  <2>2. /\ sent' # <<>> /\ sent'[1] = sent[1] /\ sent'[Len(sent')] = f
        /\ \A i \in 2 .. Len(sent') : sent'[i] \in Reports
        /\ \A i \in DOMAIN sent : i \in DOMAIN sent' /\ sent'[i] = sent[i]
    BY <1>1, <2>1, SaidStaysSaid
  <2>3. Spoken'
    BY <1>1, <2>1, <2>2 DEF Spoken
  <2>4. SUFFICES ASSUME Known PROVE Known'
    BY <1>1, <2>1, <2>3 DEF KInv
  <2>5. HelloKnown => HelloKnown'
    BY <2>1, <2>2 DEF HelloKnown
  <2>6. DeviceKnown => DeviceKnown'
    BY <2>1, <2>2 DEF DeviceKnown
  <2>7. ASSUME CreditsKnown, NEW c \in Seq(Byte)
        PROVE  Count(credits', c) + InFlight(c)' <= Count(sent', Envelope(WINDOW_UPDATE, c))
    <3> DEFINE u == Envelope(WINDOW_UPDATE, c)
    <3>1. Count(credits, c) + InFlight(c) <= Count(sent, u)
      BY <2>7 DEF CreditsKnown
    <3>2. Count(credits', c) = Count(credits, c) /\ Count(credits, c) \in Nat /\ Count(sent, u) \in Nat
      BY <1>1, <2>1, CountsOfSent, UpdateIsVendor, ReportsOfBytes
    <3>3. Count(sent', u) = Count(sent, u) + IF f = u THEN 1 ELSE 0
      BY <1>1, <2>1, CountsOfSent, ReportsOfBytes
    <3>4. InFlight(c)' = (IF f = u THEN 1 ELSE 0) /\ InFlight(c) \in {0, 1}
      BY <2>1, InFlightType DEF InFlight
    <3> HIDE DEF u
    <3>5. Count(credits', c) + InFlight(c)' <= Count(sent', u)
      BY <3>1, <3>2, <3>3, <3>4
    <3>6. QED BY <3>5 DEF u
  <2>8. CreditsKnown => CreditsKnown'
    BY <2>7 DEF CreditsKnown, Count
  <2>9. QED BY <2>1, <2>4, <2>5, <2>6, <2>8 DEF Known
<1>3. ASSUME NEW f \in Reports, RunsOn(f) PROVE KInv'
  <2>1. /\ frame # <<>> /\ frame' = <<>> /\ sent' = Append(sent, f) /\ boots' = boots
        /\ misread' = misread
        /\ OnKissFrame(frame \o f)
    BY <1>3 DEF RunsOn
  <2> DEFINE e == frame \o f
  <2>2. f \in Seq(Byte)
    BY ReportsOfBytes
  <2>3. /\ e \in Seq(Byte) /\ Len(e) = Len(frame) + Len(f)
        /\ \A j \in 1 .. Len(frame) : e[j] = frame[j]
    BY <1>1, <2>2, Concat, Zenon
  <2> HIDE DEF e
  <2>4. Len(e) >= Len(frame)
    BY <1>1, <2>2, <2>3
  <2>5. Outcome
    BY <2>1, <2>3, <2>4, OpeningOutcome DEF e
  <2>6. QED BY <1>1, <2>1, <2>5, OutcomeKnown
<1>4. CASE Arrives
  <2>1. /\ frame # <<>> /\ frame' = <<>> /\ OnKissFrame(frame)
        /\ boots' = boots /\ sent' = sent /\ misread' = misread
    BY <1>4 DEF Arrives
  <2>2. Outcome
    BY <1>1, <2>1, OpeningOutcome
  <2>3. QED BY <1>1, <2>1, <2>2, OutcomeKnown
<1>5. CASE LosesByte
  <2>1. frame # <<>> /\ frame' = <<>> /\ boots' = boots /\ sent' = sent
    BY <1>5 DEF LosesByte
  <2>2. PICK i \in DOMAIN frame :
             OnKissFrame(RemoveAt(frame, i)) /\ misread' = misread \cup PassesFor(i)
    BY <1>5 DEF LosesByte
  <2>3. CASE i <= 7
    <3>1. Outcome \/ Mistaken
      BY <1>1, <2>2, <2>3, MistakenOutcome
    <3>2. QED BY <1>1, <2>1, <2>2, <3>1, OutcomeKnown
  <2>4. CASE i > 7
    <3>1. Ignored(RemoveAt(frame, i))
      BY <1>1, <2>1, <2>2, <2>4, FrameIsLast, LossIgnored
    <3>2. Outcome
      BY <2>2, <3>1, IgnoredPasses DEF Outcome, hostVars
    <3>3. QED BY <1>1, <2>1, <2>2, <3>2, OutcomeKnown
  <2>5. i \in Int
    BY <1>1
  <2>6. QED BY <2>3, <2>4, <2>5
<1>6. ASSUME NEW size \in Sizes, NEW s \in Applied, Boots(size, s) PROVE KInv'
  <2>1. boots' = boots + 1 /\ sent' = <<frame'>> /\ frame' = Envelope(HELLO, HelloBody(size, s))
    BY <1>6 DEF Boots
  <2>2. HelloFrame(frame')
    BY <2>1, HelloIsHelloFrame
  <2>3. Spoken'
    BY <1>1, <2>1, <2>2 DEF Spoken
  <2>4. heard' # boots'
    <3>1. heard' \in {heard, boots}
      BY <1>6, HeardOnce DEF Boots
    <3>2. QED BY <1>1, <2>1, <3>1
  <2>5. QED BY <1>1, <2>3, <2>4 DEF KInv
<1>7. CASE UNCHANGED vars
  <2>1. UNCHANGED <<hello, device, credits, boots, frame, sent, heard, misread>>
    BY <1>7 DEF vars, hostVars, deviceVars
  <2>2. Spoken' /\ (Known => Known')
    BY <1>1, <2>1 DEF Spoken, Known, HelloKnown, DeviceKnown, CreditsKnown, InFlight, Count
  <2>3. QED BY <1>1, <2>1, <2>2 DEF KInv
<1>8. QED BY <1>2, <1>3, <1>4, <1>5, <1>6, <1>7 DEF Next

\* Once the HELLO of this boot has been taken, version, state and credits are
\* what the device has said since it booted, whatever bytes frames have lost,
\* whatever frames have run into one, and whatever a reset has broken off: but
\* for what a command changes that a frame with a spoilt envelope has passed for.
THEOREM NothingIsInvented == Spec => []NothingInvented
<1>1. KInv => NothingInvented
  <2> SUFFICES ASSUME KInv, heard = boots, boots > 0
               PROVE  /\ HelloKnown \/ HELLO \in misread
                      /\ DeviceKnown \/ misread \cap {HELLO, DEVICE_STATE} # {}
                      /\ \/ \A c \in ToSet(credits) :
                               Count(credits, c) <= Count(sent, Envelope(WINDOW_UPDATE, c))
                         \/ WINDOW_UPDATE \in misread
    BY DEF NothingInvented, HelloKnown, DeviceKnown, Count
  <2>1. Known
    BY DEF KInv
  <2>2. ASSUME CreditsKnown, NEW c \in ToSet(credits)
        PROVE  Count(credits, c) <= Count(sent, Envelope(WINDOW_UPDATE, c))
    <3> DEFINE u == Envelope(WINDOW_UPDATE, c)
    <3>1. c \in Seq(Byte)
      BY DEF ToSet, KInv, IInv, HostTypeOK
    <3>2. Count(credits, c) + InFlight(c) <= Count(sent, u)
      BY <2>2, <3>1 DEF CreditsKnown
    <3>3. Count(credits, c) \in Nat /\ Count(sent, u) \in Nat /\ InFlight(c) \in {0, 1}
      BY <3>1, CountsOfSent, InFlightType DEF KInv
    <3> HIDE DEF u
    <3>4. Count(credits, c) <= Count(sent, u)
      BY <3>2, <3>3
    <3>5. QED BY <3>4 DEF u
  <2>3. QED BY <2>1, <2>2 DEF Known
<1>2. QED BY <1>1, KInvInit, KInvNext, PTL DEF Spec
=============================================================================
