----------------------------- MODULE StateTracker -----------------------------
(***************************************************************************)
(* DeviceStateTracker (kv4p/state_tracker.py): the HELLO handshake, the    *)
(* cached device state, and the host's desired state, of which every       *)
(* setter sends a numbered snapshot.                                       *)
(*                                                                         *)
(* A setter mutates and numbers under the lock, lets go of the lock to     *)
(* write, and takes it again to leave (lines 200-211):                     *)
(*   "idle" -> "built" -> "sending" -> "written" or "failed" -> "idle"     *)
(* The RX thread handles HELLO and DEVICE_STATE, reporting three edges to  *)
(* callbacks; stage is what it does next:                                  *)
(*   "event" set hello_event   "store" enter on_device_state               *)
(*   "sql", "phy", "tx" compare that edge                                  *)
(*   "notify" call on_device_state, at the end of DEVICE_STATE only        *)
(*   "idle" the handler has ended, but for a callback it may still be in   *)
(***************************************************************************)
EXTENDS Integers, FiniteSets

CONSTANTS
    App,          \* the program's threads
    Rx,           \* the transport's RX thread, the only one to handle frames
    None,         \* Python's None, and the owner of a free lock
    Fields,       \* the six settings: rx and tx frequency, bandwidth, ...
    Setters,      \* the sets of fields one setter call may write
    Values,       \* what they are set to
    Encodable,    \* the values struct.pack takes
    Options,      \* the HOST_STATE_* bits of set_flag
    MaxSequence,  \* the largest number the snapshot's field carries, 2^32-1
    Reports,      \* the device states the RX thread may receive
    MaxHellos     \* bound of the model: HELLOs handled

Threads == App \cup {Rx}
DeviceBits == {"PHYS_PTT_DOWN", "TX_ACTIVE", "SQUELCHED"}
HostBits == Options \cup {"VALID", "PTT"}
HostWords == {w \in SUBSET HostBits : "VALID" \in w}   \* what self._flags may be
Settings == [Fields -> Values]
Edges == {"sql", "phy", "tx"}

DeviceStates ==
    [applied : 0 .. MaxSequence, flags : SUBSET (HostBits \cup DeviceBits), settings : Settings]

\* boot is not in the code: the HELLO after which the snapshot was built.
Snapshots ==
    [boot : Nat, sequence : Nat, flags : HostWords, settings : Settings]

ASSUME TrackerAssumption ==
    /\ Rx \notin App
    /\ None \notin Threads \cup DeviceStates \cup Snapshots \cup BOOLEAN
    /\ Options \cap (DeviceBits \cup {"VALID", "PTT"}) = {}
    /\ Setters \subseteq SUBSET Fields
    /\ 0 \in Values
    /\ MaxSequence \in Nat
    /\ Reports \subseteq DeviceStates
    /\ MaxHellos \in Nat

VARIABLES
    lock,         \* the owner of self._lock
    pc,           \* where each thread is in a setter
    snap,         \* the snapshot it sends
    hello,        \* the boot of the device whose HELLO is self._hello; 0 is None
    event,        \* self._hello_event
    deviceState,  \* self._device_state
    sequence,     \* self._sequence
    flags,        \* self._flags
    settings,     \* self._freq_rx ... self._ctcss_tx
    stage,        \* what the RX thread does next
    plain,        \* it handles DEVICE_STATE and has on_device_state to call
    inCallback,   \* the RX thread is inside a callback
    last,         \* self._last_sql_open, _last_phy_ptt, _last_tx_active
    cut           \* history: a callback raised and ended the handler early

hostVars == <<hello, sequence, flags, settings>>
callVars == <<lock, pc, snap>>
rxVars == <<event, deviceState, stage, plain, inCallback, last, cut>>
trackerVars == <<hostVars, callVars, rxVars>>

\* Types.  They say two things that could go wrong: the lock is held exactly by
\* the thread that is between Prepare and Release, and flags and snapshots
\* contain the host's bits only, never what the device reports of itself in
\* the same word, and always declare the settings valid (lines 85-87).
TypeOK ==
    /\ lock \in Threads \cup {None}
    /\ pc \in [Threads -> {"idle", "built", "sending", "written", "failed"}]
    /\ snap \in [Threads -> Snapshots \cup {None}]
    /\ \A t \in Threads : snap[t] = None <=> pc[t] = "idle"
    /\ \A t \in Threads : lock = t <=> pc[t] = "built"
    /\ hello \in Nat
    /\ event \in BOOLEAN
    /\ deviceState \in DeviceStates \cup {None}
    /\ hello > 0 => deviceState # None
    /\ sequence \in Nat
    /\ flags \in HostWords
    /\ settings \in Settings
    /\ stage \in {"idle", "event", "store", "notify"} \cup Edges
    /\ stage # "idle" => deviceState # None
    /\ plain \in BOOLEAN
    /\ inCallback \in BOOLEAN
    /\ last \in [Edges -> BOOLEAN \cup {None}]
    /\ cut \in BOOLEAN

Init ==
    /\ lock = None
    /\ pc = [t \in Threads |-> "idle"]
    /\ snap = [t \in Threads |-> None]
    /\ hello = 0
    /\ event = FALSE
    /\ deviceState = None
    /\ sequence = 0
    /\ flags = {"VALID"}
    /\ settings = [f \in Fields |-> 0]
    /\ stage = "idle"
    /\ plain = FALSE
    /\ inCallback = FALSE
    /\ last = [e \in Edges |-> None]
    /\ cut = FALSE

-----------------------------------------------------------------------------
(* Setters.  Kv4pRadio lets them through once a HELLO has been handled; the *)
(* RX thread calls them from inside a callback.                             *)

MayCall(t) ==
    /\ hello > 0
    /\ pc[t] = "idle"
    /\ lock = None
    /\ t = Rx => inCallback

Applied == IF deviceState = None THEN 0 ELSE deviceState.applied

Larger(a, b) == IF a > b THEN a ELSE b

\* Prepare as it would be had the number been taken from the device alone.
PrepareAfterApplied(t, fl, st) ==
    /\ MayCall(t)
    /\ flags' = fl
    /\ settings' = st
    /\ sequence' = Applied + 1
    /\ snap' = [snap EXCEPT ![t] =
                  [boot |-> hello, sequence |-> Applied + 1, flags |-> fl, settings |-> st]]
    /\ lock' = t
    /\ pc' = [pc EXCEPT ![t] = "built"]
    /\ UNCHANGED <<hello, rxVars>>

\* Under the lock: the new flags fl or settings st, the next number, and the
\* snapshot of both.
Prepare(t, fl, st) ==
    LET next == Larger(sequence, Applied) + 1
    IN  /\ MayCall(t)
        /\ flags' = fl
        /\ settings' = st
        /\ sequence' = next
        /\ snap' = [snap EXCEPT ![t] =
                      [boot |-> hello, sequence |-> next, flags |-> fl, settings |-> st]]
        /\ lock' = t
        /\ pc' = [pc EXCEPT ![t] = "built"]
        /\ UNCHANGED <<hello, rxVars>>

\* set_frequency, set_bandwidth, set_squelch and set_ctcss: what is not None
\* is overwritten, the rest of the settings is sent along.
SetSettings(t, fs, new) ==
    Prepare(t, flags, [f \in Fields |-> IF f \in fs THEN new[f] ELSE settings[f]])

With(bit, enabled) == IF enabled THEN flags \cup {bit} ELSE flags \ {bit}

SetFlag(t, bit, enabled) == Prepare(t, With(bit, enabled), settings)

RequestPtt(t, enabled) ==
    /\ With("PTT", enabled) # flags
    /\ Prepare(t, With("PTT", enabled), settings)

\* The flag already has that value: nothing is sent (lines 155-156).
RequestPttUnchanged(t, enabled) ==
    /\ MayCall(t)
    /\ With("PTT", enabled) = flags
    /\ UNCHANGED trackerVars

\* Release as it would be if the lock were kept during the write.
KeepLock(t) ==
    /\ pc[t] = "built"
    /\ pc' = [pc EXCEPT ![t] = "sending"]
    /\ UNCHANGED <<hostVars, lock, snap, rxVars>>

Release(t) ==
    /\ pc[t] = "built"
    /\ lock' = None
    /\ pc' = [pc EXCEPT ![t] = "sending"]
    /\ UNCHANGED <<hostVars, snap, rxVars>>

Packable(s) ==
    /\ s.sequence <= MaxSequence
    /\ \A f \in Fields : s.settings[f] \in Encodable

Transmit(t) ==
    /\ pc[t] = "sending"
    /\ Packable(snap[t])
    /\ pc' = [pc EXCEPT ![t] = "written"]
    /\ UNCHANGED <<hostVars, lock, snap, rxVars>>

\* struct.pack or the transport raises: the flags and settings stay mutated.
Raise(t) ==
    /\ pc[t] = "sending"
    /\ pc' = [pc EXCEPT ![t] = "failed"]
    /\ UNCHANGED <<hostVars, lock, snap, rxVars>>

\* The lock is taken again, also on the way of an exception, and let go on
\* leaving the setter.
Reacquire(t) ==
    /\ pc[t] \in {"written", "failed"}
    /\ lock = None
    /\ pc' = [pc EXCEPT ![t] = "idle"]
    /\ snap' = [snap EXCEPT ![t] = None]
    /\ UNCHANGED <<hostVars, lock, rxVars>>

-----------------------------------------------------------------------------
(* The RX thread.                                                          *)

RxFree == stage = "idle" /\ ~inCallback

\* HostFlags as it would be had the device's own bits not been masked out.
AllFlags(fl) == fl \cup {"VALID"}

HostFlags(fl) == (fl \ DeviceBits) \cup {"VALID"}

\* on_hello up to the end of its critical section, for the HELLO of boot n.
OnHello(n, m) ==
    /\ RxFree
    /\ lock = None
    /\ hello' = n
    /\ deviceState' = m
    /\ sequence' = m.applied
    /\ flags' = HostFlags(m.flags)
    /\ settings' = m.settings
    /\ stage' = "event"
    /\ plain' = FALSE
    /\ cut' = FALSE
    /\ UNCHANGED <<callVars, event, inCallback, last>>

SetEvent ==
    /\ stage = "event"
    /\ event' = TRUE
    /\ stage' = "store"
    /\ UNCHANGED <<hostVars, callVars, deviceState, plain, inCallback, last, cut>>

\* on_device_state, called at the end of on_hello with the same state ...
Store ==
    /\ stage = "store"
    /\ lock = None
    /\ sequence' = Larger(sequence, deviceState.applied)
    /\ stage' = "sql"
    /\ UNCHANGED <<hello, flags, settings, callVars, event, deviceState, plain, inCallback, last, cut>>

\* OnDeviceState as it would be if the report's number were taken as it is.
DeviceStateRewinds(m) ==
    /\ RxFree
    /\ lock = None
    /\ deviceState' = m
    /\ sequence' = m.applied
    /\ stage' = "sql"
    /\ plain' = TRUE
    /\ cut' = FALSE
    /\ UNCHANGED <<hello, flags, settings, callVars, event, inCallback, last>>

\* ... and for a DEVICE_STATE frame, which may come before any HELLO.
OnDeviceState(m) ==
    /\ RxFree
    /\ lock = None
    /\ deviceState' = m
    /\ sequence' = Larger(sequence, m.applied)
    /\ stage' = "sql"
    /\ plain' = TRUE
    /\ cut' = FALSE
    /\ UNCHANGED <<hello, flags, settings, callVars, event, inCallback, last>>

Bit(e, fl) ==
    \/ e = "sql" /\ "SQUELCHED" \notin fl
    \/ e = "phy" /\ "PHYS_PTT_DOWN" \in fl
    \/ e = "tx" /\ "TX_ACTIVE" \in fl

After == [sql |-> "phy", phy |-> "tx", tx |-> IF plain THEN "notify" ELSE "idle"]

\* Compare as it would be had the value not been remembered for every edge.
CompareOnce(e) ==
    /\ stage = e
    /\ ~inCallback
    /\ last[e] = None => last' = [last EXCEPT ![e] = Bit(e, deviceState.flags)]
    /\ last[e] # None => UNCHANGED last
    /\ inCallback' = (last[e] # Bit(e, deviceState.flags))
    /\ stage' = After[e]
    /\ UNCHANGED <<hostVars, callVars, event, deviceState, plain, cut>>

\* One edge: remembered, and reported if it differs from the one before.
Compare(e) ==
    /\ stage = e
    /\ ~inCallback
    /\ last' = [last EXCEPT ![e] = Bit(e, deviceState.flags)]
    /\ inCallback' = (last[e] # Bit(e, deviceState.flags))
    /\ stage' = After[e]
    /\ UNCHANGED <<hostVars, callVars, event, deviceState, plain, cut>>

\* The user's on_device_state, which HELLO does not call (__init__.py line 410).
Notify ==
    /\ stage = "notify"
    /\ ~inCallback
    /\ inCallback' = TRUE
    /\ stage' = "idle"
    /\ plain' = FALSE
    /\ UNCHANGED <<hostVars, callVars, event, deviceState, last, cut>>

CallbackReturns ==
    /\ inCallback
    /\ pc[Rx] = "idle"
    /\ inCallback' = FALSE
    /\ UNCHANGED <<hostVars, callVars, event, deviceState, stage, plain, last, cut>>

\* The exception ends the handler; _on_kiss_frame logs it (lines 387-390).
CallbackRaises ==
    /\ inCallback
    /\ pc[Rx] = "idle"
    /\ inCallback' = FALSE
    /\ stage' = "idle"
    /\ plain' = FALSE
    /\ cut' = (stage \notin {"notify", "idle"})
    /\ UNCHANGED <<hostVars, callVars, event, deviceState, last>>

-----------------------------------------------------------------------------

Setter(t) ==
    \/ \E fs \in Setters : \E new \in [fs -> Values] : SetSettings(t, fs, new)
    \/ \E bit \in Options, enabled \in BOOLEAN : SetFlag(t, bit, enabled)
    \/ \E enabled \in BOOLEAN : RequestPtt(t, enabled) \/ RequestPttUnchanged(t, enabled)

RxStep ==
    \/ SetEvent
    \/ Store
    \/ \E e \in Edges : Compare(e)
    \/ Notify
    \/ CallbackReturns
    \/ CallbackRaises

\* MaxSequence also bounds the model: one number past it is explored.
Next ==
    \/ \E t \in Threads : sequence <= MaxSequence /\ Setter(t)
    \/ \E t \in Threads : Release(t) \/ Transmit(t) \/ Raise(t) \/ Reacquire(t)
    \/ \E m \in Reports : hello < MaxHellos /\ OnHello(hello + 1, m)
    \/ \E m \in Reports : OnDeviceState(m)
    \/ RxStep

Spec == Init /\ [][Next]_trackerVars

\* A thread inside a critical section leaves it, and the RX thread gets the
\* lock if it keeps finding it free.  Nothing is assumed of a write: the port
\* may hang for ever.
FairSpec ==
    /\ Spec
    /\ \A t \in Threads : WF_trackerVars(Release(t))
    /\ SF_trackerVars(Store)

-----------------------------------------------------------------------------

\* Of the snapshots built since the last HELLO no two have the same number,
\* however setters, HELLOs and reports interleave, and the one that bears the
\* tracker's number carries the tracker's state.  So a device that keeps the
\* highest number ends up with what the host wants, although the writes happen
\* outside the lock in any order (lines 201-207).
NewestIsCurrent ==
    \A t \in Threads : snap[t] # None /\ snap[t].boot = hello =>
        /\ snap[t].sequence <= sequence
        /\ snap[t].sequence = sequence =>
              snap[t].flags = flags /\ snap[t].settings = settings
        /\ \A u \in Threads \ {t} : snap[u] # None /\ snap[u].boot = hello =>
              snap[u].sequence # snap[t].sequence

Passed(e) ==
    \/ stage \in {"notify", "idle"}
    \/ stage = "tx" /\ e # "tx"
    \/ stage = "phy" /\ e = "sql"

\* What the callbacks were last told is what the cached device state says, for
\* every edge the handler has passed, unless a callback raised (lines 118-136).
EdgesReported ==
    deviceState # None /\ ~cut =>
        \A e \in Edges : Passed(e) => last[e] = Bit(e, deviceState.flags)

\* "the caller's send callback may block on flow control / serial writes and
\* must not hold up readers" (lines 204-206): the RX thread gets through
\* on_device_state even if every setter hangs in its write.
StoredWhileWriterHangs == stage = "store" ~> stage # "store"
=============================================================================
