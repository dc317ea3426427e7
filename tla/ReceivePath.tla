------------------------------ MODULE ReceivePath ------------------------------
(***************************************************************************)
(* From KISS frame to state: _on_kiss_frame of Kv4pRadio, the vendor       *)
(* envelope, and the parsers of HELLO, DEVICE_STATE and WINDOW_UPDATE, on  *)
(* the bytes of frames as the line delivers them.                          *)
(*                                                                         *)
(* There is no checksum.  What keeps a spoilt frame out are the envelope,  *)
(* the lengths, and the HELLO that follows every boot.  The line may drop  *)
(* a byte, or let two frames run into one; a device that is reset breaks   *)
(* off its frame, and what its loader prints is taken for the rest of it.  *)
(***************************************************************************)
EXTENDS Integers, SequencesExt

CONSTANTS
    None,        \* no HELLO, no state yet
    Applied,     \* low bytes of the applied_sequence a device reports
    Sizes,       \* low bytes of the windows and credits it announces
    Texts,       \* sound, debug text, AX.25 data, what a loader prints: any bytes
    MaxFrames,   \* bound of the model: frames of one boot
    MaxBoots     \* bound of the model: boots

Byte == 0 .. 255

ASSUME ReceiveAssumption ==
    /\ Applied \subseteq Byte /\ Sizes \subseteq Byte
    /\ Texts \subseteq Seq(Byte)
    /\ None \notin Seq(Byte)
    /\ MaxFrames \in Nat /\ MaxBoots \in Nat

(* Bytes of a frame: the KISS command, then the payload.                   *)

DATA == 0
SETHARDWARE == 6
AUDIO == 7   \* COMMAND_AUDIO_OPUS
DEBUG == 1   \* COMMAND_DEBUG_INFO
HELLO == 6
WINDOW_UPDATE == 9
DEVICE_STATE == 11
PREFIX == <<75, 52, 86, 80>>   \* "KV4P"
HEADER_LEN == 6
VERSION_SIZE == 17
DEVICE_STATE_SIZE == 26
UPDATE_SIZE == 4
Commands == {HELLO, DEVICE_STATE, WINDOW_UPDATE}   \* those that change state

Envelope(command, body) == <<SETHARDWARE>> \o PREFIX \o <<1, command>> \o body

Zeros(n) == [i \in 1 .. n |-> 0]

\* applied_sequence, memory_id (-1), and the rest.
StateBody(s) == <<s, 0, 0, 0, 255, 255, 255, 255>> \o Zeros(18)

\* ver, radio_module_status, window_size, and the rest; then the state.
HelloBody(size, s) == <<17, 0, 68, size, 0, 0, 0>> \o Zeros(10) \o StateBody(s)

UpdateBody(size) == <<size, 0, 0, 0>>

VARIABLES
    hello,    \* the version part of the tracker's HELLO
    device,   \* the tracker's device state
    base,     \* the window_size the window has been reset to
    credits,  \* what has been added to it since
    boots,    \* the device: how often it has booted
    frame,    \* the frame it sends
    sent,     \* history: the frames it has sent since it booted, in order
    heard,    \* history: the boot in which a HELLO has last been taken
    misread   \* history: what frames of this boot with a spoilt envelope passed for

hostVars == <<hello, device, base, credits>>
deviceVars == <<boots, frame, sent>>
vars == <<hostVars, deviceVars, heard, misread>>

TypeOK ==
    /\ hello \in Seq(Byte) \cup {None} /\ hello # None => Len(hello) = VERSION_SIZE
    /\ device \in Seq(Byte) \cup {None} /\ device # None => Len(device) = DEVICE_STATE_SIZE
    /\ base \in Seq(Byte) \cup {None}
    /\ \A i \in DOMAIN credits : credits[i] \in Seq(Byte) /\ Len(credits[i]) = UPDATE_SIZE
    /\ boots \in 0 .. MaxBoots
    /\ frame \in Seq(Byte)
    /\ sent \in Seq(Seq(Byte))
    /\ heard \in 0 .. boots
    /\ misread \subseteq Commands

Init ==
    /\ hello = None
    /\ device = None
    /\ base = None
    /\ credits = <<>>
    /\ boots = 0
    /\ frame = <<>>
    /\ sent = <<>>
    /\ heard = 0
    /\ misread = {}

-----------------------------------------------------------------------------
(* The host: what it does with the frame f.                                *)

\* decode_vendor_payload without the check of the protocol's version.
DecodeAnyVersion(p) ==
    IF Len(p) < HEADER_LEN \/ SubSeq(p, 1, 4) # PREFIX THEN None
    ELSE [command |-> p[6], body |-> SubSeq(p, 7, Len(p))]

Decode(p) ==
    IF Len(p) < HEADER_LEN \/ SubSeq(p, 1, 4) # PREFIX \/ p[5] # 1 THEN None
    ELSE [command |-> p[6], body |-> SubSeq(p, 7, Len(p))]

\* _on_kiss_frame: does f go to the handler of the command?
Routed(f, command) ==
    f # <<>> /\ f[1] % 16 = SETHARDWARE /\ Decode(Tail(f)) # None
    /\ Decode(Tail(f)).command = command

Body(f) == Decode(Tail(f)).body

\* What that handler has to parse, by its length.
Length(f, command) == IF Routed(f, command) THEN Len(Body(f)) ELSE 0

\* Whether the handler of that command makes do with what it has to parse.
Fits(f, command) ==
    \/ command = HELLO /\ Length(f, command) = VERSION_SIZE + DEVICE_STATE_SIZE
    \/ command = DEVICE_STATE /\ Length(f, command) >= DEVICE_STATE_SIZE
    \/ command = WINDOW_UPDATE /\ Length(f, command) >= UPDATE_SIZE

\* HandleHello as it would be if the window were reset before the state is parsed.
HandleHelloHalf(f) ==
    /\ Length(f, HELLO) >= VERSION_SIZE
    /\ base' = SubSeq(Body(f), 4, 7)
    /\ credits' = <<>>
    /\ IF Len(Body(f)) = VERSION_SIZE + DEVICE_STATE_SIZE
       THEN /\ hello' = SubSeq(Body(f), 1, VERSION_SIZE)
            /\ device' = SubSeq(Body(f), VERSION_SIZE + 1, Len(Body(f)))
            /\ heard' = boots
       ELSE UNCHANGED <<hello, device, heard>>

\* The state is the last 26 bytes, and all before it has to be a version; then
\* the window is reset and the tracker seeded.
HandleHello(f) ==
    /\ Length(f, HELLO) - DEVICE_STATE_SIZE = VERSION_SIZE
    /\ hello' = SubSeq(Body(f), 1, VERSION_SIZE)
    /\ device' = SubSeq(Body(f), VERSION_SIZE + 1, Len(Body(f)))
    /\ base' = SubSeq(Body(f), 4, 7)
    /\ credits' = <<>>
    /\ heard' = boots

\* HandleDeviceState as it would be if the payload were not cut to size.
HandleDeviceStateWhole(f) ==
    /\ Length(f, DEVICE_STATE) >= DEVICE_STATE_SIZE
    /\ device' = Body(f)
    /\ UNCHANGED <<hello, base, credits, heard>>

\* Of a longer payload the first bytes are used.
HandleDeviceState(f) ==
    /\ Length(f, DEVICE_STATE) >= DEVICE_STATE_SIZE
    /\ device' = SubSeq(Body(f), 1, DEVICE_STATE_SIZE)
    /\ UNCHANGED <<hello, base, credits, heard>>

HandleWindowUpdate(f) ==
    /\ Length(f, WINDOW_UPDATE) >= UPDATE_SIZE
    /\ credits' = Append(credits, SubSeq(Body(f), 1, UPDATE_SIZE))
    /\ UNCHANGED <<hello, device, base, heard>>

\* AX.25 data, audio and debug text change no state; other ports, foreign
\* envelopes and unknown commands are ignored; short payloads raise, and
\* _on_kiss_frame logs it.
Passes(f) ==
    /\ \A command \in Commands : ~Fits(f, command)
    /\ UNCHANGED <<hostVars, heard>>

OnKissFrame(f) ==
    HandleHello(f) \/ HandleDeviceState(f) \/ HandleWindowUpdate(f) \/ Passes(f)

-----------------------------------------------------------------------------
(* The device and the line (external).                                     *)

Reports ==
    {Envelope(DEVICE_STATE, StateBody(s)) : s \in Applied}
    \cup {Envelope(WINDOW_UPDATE, UpdateBody(n)) : n \in Sizes}
    \cup {Envelope(c, text) : c \in {AUDIO, DEBUG}, text \in Texts}
    \cup {<<DATA>> \o text : text \in Texts}

\* After its HELLO it reports states, frees bytes and passes on what it hears.
Sends(f) ==
    /\ frame = <<>>
    /\ boots > 0 /\ Len(sent) < MaxFrames
    /\ frame' = f
    /\ sent' = Append(sent, f)
    /\ UNCHANGED <<hostVars, boots, heard, misread>>

Arrives ==
    /\ frame # <<>>
    /\ frame' = <<>>
    /\ OnKissFrame(frame)
    /\ UNCHANGED <<boots, sent, misread>>

\* What the frame passes for without its i-th byte, if that is one of the port, the
\* prefix, the version or the command, and the bytes after it complete the envelope
\* of another command.
PassesFor(i) ==
    {command \in Commands :
        LET rest == RemoveAt(frame, i)
        IN  /\ i <= HEADER_LEN + 1
            /\ Fits(rest, command)
            /\ \A j \in 2 .. HEADER_LEN + 1 : rest[j] = Envelope(command, <<>>)[j]}

LosesByte ==
    /\ frame # <<>>
    /\ frame' = <<>>
    /\ \E i \in DOMAIN frame :
          /\ OnKissFrame(RemoveAt(frame, i))
          /\ misread' = misread \cup PassesFor(i)
    /\ UNCHANGED <<boots, sent>>

\* The FENDs between this frame and the next are lost.
RunsOn(next) ==
    /\ frame # <<>> /\ Len(sent) < MaxFrames
    /\ frame' = <<>>
    /\ sent' = Append(sent, next)
    /\ OnKissFrame(frame \o next)
    /\ UNCHANGED <<boots, misread>>

\* A reset, whatever it is sending; then the loader's text, up to the FEND of
\* the HELLO.
Boots(size, s) ==
    /\ boots < MaxBoots
    /\ boots' = boots + 1
    /\ frame' = Envelope(HELLO, HelloBody(size, s))
    /\ sent' = <<frame'>>
    /\ misread' = {}
    /\ \E k \in 0 .. Len(frame), text \in Texts : OnKissFrame(SubSeq(frame, 1, k) \o text)

-----------------------------------------------------------------------------

Next ==
    \/ \E f \in Reports : Sends(f) \/ RunsOn(f)
    \/ Arrives
    \/ LosesByte
    \/ \E size \in Sizes, s \in Applied : Boots(size, s)

Spec == Init /\ [][Next]_vars

-----------------------------------------------------------------------------

\* Once the HELLO of this boot has been taken, what the host knows is what the
\* device has said since it booted: the HELLO itself, a state it has reported,
\* credits it has given and no more of them (kv4p/__init__.py, lines 367-419).
\* Frames run together add nothing, a frame that has lost a byte adds nothing,
\* and the HELLO does away with what the frame that the reset broke off has been
\* taken for.  There is one exception, and nothing in the code guards against it:
\* a frame that has lost a byte of its envelope, and whose next bytes complete
\* another, is handled as that other, if it is long enough.  A DEVICE_STATE without
\* its command whose number begins with the code of WINDOW_UPDATE is a credit of
\* 4 GB.  The exception excuses what the other command changes, and nothing else.
NothingInvented ==
    heard = boots /\ boots > 0 =>
        /\ \/ hello = SubSeq(sent[1], 8, 24)
           \/ HELLO \in misread
        /\ \/ device = SubSeq(sent[1], 25, 50)
           \/ \E i \in DOMAIN sent : sent[i] = Envelope(DEVICE_STATE, device)
           \/ misread \cap {HELLO, DEVICE_STATE} # {}
        /\ \/ \A c \in ToSet(credits) :
                 Cardinality({i \in DOMAIN credits : credits[i] = c})
                   <= Cardinality({i \in DOMAIN sent : sent[i] = Envelope(WINDOW_UPDATE, c)})
           \/ WINDOW_UPDATE \in misread

\* A HELLO is taken whole or not at all: the window starts from the size that
\* the HELLO the tracker holds has announced, whatever else has arrived in its
\* place (lines 402-405, hello.py, lines 18-26).
WindowOfHello ==
    base = IF hello = None THEN None ELSE SubSeq(hello, 4, 7)
=============================================================================
