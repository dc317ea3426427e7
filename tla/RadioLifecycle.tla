---------------------------- MODULE RadioLifecycle ----------------------------
(***************************************************************************)
(* connect, disconnect, reset and `with radio:` of Kv4pRadio               *)
(* (kv4p/__init__.py) on top of SerialTransport, whose steps they are made *)
(* of, with the HELLO that the RX thread delivers in between.              *)
(*                                                                         *)
(* A call of a thread is "connecting", "resetting", "waiting" for HELLO,   *)
(* "unkeying" (disconnect's set_ptt) or "disconnecting"; "done" is a       *)
(* connect or reset that has returned, "failed" one that has raised, and   *)
(* "left" a `with` that has raised from __enter__.                         *)
(***************************************************************************)
EXTENDS SerialTransport, Sequences

CONSTANT MaxBoots   \* bound of the model: resets of the device

VARIABLES
    op,        \* what each thread is doing
    entering,  \* the owner's connect is that of __enter__
    isOpen,    \* self._open
    error,     \* self._transport_error is not None
    half,      \* history: a call has raised and left _open set
    event,     \* the tracker's hello_event
    heard,     \* the boot of the tracker's HELLO; 0 is None
    boot,      \* the device: how often it has been reset
    hellos,    \* the boots whose HELLO has been sent and not handled
    since      \* history: the boot a reset has led to

radioVars == <<entering, isOpen, error, half>>
helloVars == <<event, heard, boot, hellos, since>>
vars == <<serialVars, op, radioVars, helloVars>>

LifecycleTypeOK ==
    /\ TypeOK
    /\ op \in [Threads -> {"idle", "connecting", "resetting", "waiting", "unkeying",
                           "disconnecting", "done", "failed", "left"}]
    /\ {entering, isOpen, error, half, event} \subseteq BOOLEAN
    /\ heard \in 0 .. boot
    /\ boot \in Nat
    /\ hellos \in Seq(1 .. boot)
    /\ since \in [Threads -> 0 .. boot]

LifecycleInit ==
    /\ Init
    /\ op = [t \in Threads |-> "idle"]
    /\ entering = FALSE
    /\ isOpen = FALSE
    /\ error = FALSE
    /\ half = FALSE
    /\ event = FALSE
    /\ heard = 0
    /\ boot = 0
    /\ hellos = <<>>
    /\ since = [t \in Threads |-> 0]

Become(t, what) == op' = [op EXCEPT ![t] = what]

IsReady == isOpen /\ ~error /\ heard > 0

-----------------------------------------------------------------------------
(* connect, also as __enter__ calls it.                                    *)

ConnectAlready(t) ==
    /\ op[t] = "idle"
    /\ MayCall(t)
    /\ isOpen
    /\ Become(t, "done")
    /\ since' = [since EXCEPT ![t] = 0]
    /\ UNCHANGED <<serialVars, radioVars, event, heard, boot, hellos>>

\* The error of an earlier connection is forgotten before the port is opened.
Connect(t, with) ==
    /\ op[t] = "idle"
    /\ ~isOpen
    /\ entering' = with
    /\ error' = FALSE
    /\ OpenPort(t)
    /\ Become(t, "connecting")
    /\ UNCHANGED <<isOpen, half, helloVars>>

\* ConnectFails as it would be if _open were set before the port is opened.
ConnectFailsOpen(t, with) ==
    /\ op[t] = "idle"
    /\ MayCall(t)
    /\ ~isOpen
    /\ entering' = with
    /\ error' = FALSE
    /\ isOpen' = TRUE
    /\ Become(t, "failed")
    /\ UNCHANGED <<serialVars, half, helloVars>>

\* serial.Serial() raises.
ConnectFails(t, with) ==
    /\ op[t] = "idle"
    /\ MayCall(t)
    /\ ~isOpen
    /\ entering' = with
    /\ error' = FALSE
    /\ Become(t, "failed")
    /\ UNCHANGED <<serialVars, isOpen, half, helloVars>>

\* It has a port, and raises over rts or dtr.
ConnectRaises(t) ==
    /\ op[t] = "connecting"
    /\ OpenRaises(t)
    /\ Become(t, "failed")
    /\ UNCHANGED <<radioVars, helloVars>>

Connected(t) ==
    /\ op[t] = "connecting"
    /\ OpenStart(t)
    /\ isOpen' = TRUE
    /\ Become(t, "resetting")
    /\ UNCHANGED <<entering, error, half, helloVars>>

(* reset: the pulse under the write lock, then hello_event.wait(timeout).  *)

Reset(t) ==
    /\ op[t] = "idle"
    /\ MayCall(t)
    /\ isOpen
    /\ Become(t, "resetting")
    /\ UNCHANGED <<serialVars, radioVars, helloVars>>

PulseBegins(t) ==
    /\ op[t] = "resetting"
    /\ ResetBegin(t)
    /\ UNCHANGED <<op, radioVars, helloVars>>

\* The device boots, and says HELLO once.
PulseEnds(t) ==
    /\ op[t] = "resetting"
    /\ ResetEnd(t)
    /\ serial # None /\ Working(serial)
    /\ boot' = boot + 1
    /\ hellos' = Append(hellos, boot')
    /\ since' = [since EXCEPT ![t] = boot']
    /\ Become(t, "waiting")
    /\ UNCHANGED <<radioVars, event, heard>>

PulseRaises(t) ==
    /\ op[t] = "resetting"
    /\ \/ Refuse(t)
       \/ ResetEnd(t) /\ (serial = None \/ ~Working(serial))
    /\ Become(t, "failed")
    /\ half' = isOpen
    /\ UNCHANGED <<entering, isOpen, error, helloVars>>

HelloSeen(t) ==
    /\ op[t] = "waiting"
    /\ event
    /\ Become(t, "done")
    /\ UNCHANGED <<serialVars, radioVars, helloVars>>

HelloMissed(t) ==
    /\ op[t] = "waiting"
    /\ ~event
    /\ Become(t, "failed")
    /\ half' = isOpen
    /\ UNCHANGED <<serialVars, entering, isOpen, error, helloVars>>

\* The caller takes the result, or the exception passes through __enter__.
Finish(t) ==
    /\ op[t] \in {"done", "left", "failed"}
    /\ ~(op[t] = "failed" /\ t = Owner /\ entering)
    /\ Become(t, "idle")
    /\ entering' = (t # Owner /\ entering)
    /\ UNCHANGED <<serialVars, isOpen, error, half, helloVars>>

-----------------------------------------------------------------------------
(* disconnect                                                              *)

\* The PTT bit may be set, and set_ptt(False) then has a snapshot to write.
Disconnecting(t) ==
    /\ isOpen
    /\ \E what \in {"disconnecting"} \cup IF IsReady THEN {"unkeying"} ELSE {} : Become(t, what)
    /\ UNCHANGED <<serialVars, radioVars, helloVars>>

Disconnect(t) ==
    /\ op[t] = "idle"
    /\ MayCall(t)
    /\ Disconnecting(t)

\* LeaveEnter as it would be without the except clause.
LeaveEnterOpen ==
    /\ op[Owner] = "failed" /\ entering
    /\ Become(Owner, "left")
    /\ UNCHANGED <<serialVars, radioVars, helloVars>>

\* __enter__: connect has raised; disconnect, and let the exception go on.
LeaveEnter ==
    /\ op[Owner] = "failed" /\ entering
    /\ \/ Disconnecting(Owner)
       \/ ~isOpen /\ Become(Owner, "left") /\ UNCHANGED <<serialVars, radioVars, helloVars>>

UnkeyBegins(t) ==
    /\ op[t] = "unkeying"
    /\ WriteBegin(t)
    /\ UNCHANGED <<op, radioVars, helloVars>>

\* Written or raised: disconnect logs the exception and goes on.
UnkeyEnds(t) ==
    /\ op[t] = "unkeying"
    /\ WriteEnd(t) \/ Refuse(t)
    /\ Become(t, "disconnecting")
    /\ UNCHANGED <<radioVars, helloVars>>

Closing(t) ==
    /\ op[t] = "disconnecting"
    /\ CloseStop(t) \/ ClosePort(t)
    /\ UNCHANGED <<op, radioVars, helloVars>>

Disconnected(t) ==
    /\ op[t] = "disconnecting"
    /\ Join(t) \/ JoinTimesOut(t)
    /\ isOpen' = FALSE
    /\ half' = FALSE
    /\ Become(t, IF t = Owner /\ entering THEN "left" ELSE "idle")
    /\ UNCHANGED <<entering, error, helloVars>>

\* close() has raised in the RX thread: _open stays True.
DisconnectRaises(t) ==
    /\ op[t] = "disconnecting"
    /\ JoinSelf(t)
    /\ Become(t, "idle")
    /\ half' = isOpen
    /\ UNCHANGED <<entering, isOpen, error, helloVars>>

-----------------------------------------------------------------------------
(* Senders and the RX thread.                                              *)

Send(t) ==
    /\ op[t] = "idle"
    /\ WriteBegin(t) \/ WriteEnd(t) \/ Refuse(t)
    /\ UNCHANGED <<op, radioVars, helloVars>>

\* _on_transport_error
TransportError(r) ==
    /\ Report(r)
    /\ error' = TRUE
    /\ UNCHANGED <<op, entering, isOpen, half, helloVars>>

HandleHello(r) ==
    /\ Deliver(r)
    /\ hellos # <<>>
    /\ heard' = Head(hellos)
    /\ event' = TRUE
    /\ hellos' = Tail(hellos)
    /\ UNCHANGED <<op, radioVars, boot, since>>

\* The RX thread's other steps; a callback it is in has no call open.
Rx(r) ==
    /\ op[r] = "idle"
    /\ \/ Test(r) \/ Load(r) \/ Read(r) \/ ReadFails(r) \/ LookWhy(r)
       \/ Deliver(r) \/ FeedEnds(r) \/ CallbackReturns(r) \/ CallbackRaises(r)
    /\ UNCHANGED <<op, radioVars, helloVars>>

CableGone(p) == Unplug(p) /\ UNCHANGED <<op, radioVars, helloVars>>

PortFreed(p) == Finalize(p) /\ UNCHANGED <<op, radioVars, helloVars>>

LoseHello ==
    /\ hellos # <<>>
    /\ hellos' = Tail(hellos)
    /\ UNCHANGED <<serialVars, op, radioVars, event, heard, boot, since>>

-----------------------------------------------------------------------------

DisconnectStep(t) ==
    \/ UnkeyBegins(t) \/ UnkeyEnds(t)
    \/ Closing(t) \/ Disconnected(t) \/ DisconnectRaises(t)

ResetStep(t) ==
    \/ PulseBegins(t) \/ PulseEnds(t) \/ PulseRaises(t)
    \/ HelloSeen(t) \/ HelloMissed(t)
    \/ Finish(t)

\* The bound: resets under way count.
MayBoot == boot + Cardinality({t \in Threads : op[t] \in {"connecting", "resetting"}}) < MaxBoots

LifecycleNext ==
    \/ ConnectAlready(Owner)
    \/ MayBoot /\ \E with \in BOOLEAN : Connect(Owner, with)
    \/ \E with \in BOOLEAN : ConnectFails(Owner, with)
    \/ ConnectRaises(Owner) \/ Connected(Owner)
    \/ LeaveEnter
    \/ \E t \in Threads : (MayBoot /\ Reset(t)) \/ ResetStep(t) \/ Send(t)
    \/ \E t \in Sessions \cup {Owner} : Disconnect(t) \/ DisconnectStep(t)
    \/ \E r \in Sessions : TransportError(r) \/ HandleHello(r) \/ Rx(r)
    \/ \E p \in Sessions : CableGone(p) \/ PortFreed(p)
    \/ LoseHello

LifecycleSpec == LifecycleInit /\ [][LifecycleNext]_vars

-----------------------------------------------------------------------------

\* A transport error the radio holds against its caller is one of the port it
\* has open now, or had open last, and never a trace of an earlier one that the
\* close of that port, or a late report, has left (lines 126 and 421-424), as
\* long as no join gave up.
ErrorIsCurrent == ~gaveUp /\ error => sessions \in broken

\* A `with` whose __enter__ raises, wherever connect fails, leaves no port open
\* and no RX thread behind, as long as no join gave up (lines 111-116) and open()
\* did not raise over rts or dtr, when disconnect finds nothing to close.
EnterCleansUp ==
    op[Owner] = "left" /\ ~gaveUp =>
        /\ ~isOpen
        /\ ports \subseteq Left
        /\ \A r \in Sessions : rx[r] \in {"unborn", "dead"}

\* connect() returns at once if _open is set (lines 124-125).  It may: between
\* calls _open says that there is a port, an RX thread and a HELLO, until a
\* connect or reset has timed out, a disconnect has raised in a callback, or a
\* join gave up.
OpenMeansReady ==
    isOpen /\ ~half /\ ~gaveUp /\ (\A t \in Threads : op[t] \in {"idle", "done"}) =>
        heard > 0 /\ serial # None /\ thread # None

\* "Hardware-reset the radio and wait for it to re-announce itself via HELLO"
\* (line 148): when reset has returned, the HELLO of that boot has been handled.
FreshHello == \A t \in Threads : op[t] = "done" => heard >= since[t]
=============================================================================
