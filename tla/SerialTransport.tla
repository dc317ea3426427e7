---------------------------- MODULE SerialTransport ----------------------------
(***************************************************************************)
(* Kv4pSerialTransport (kv4p/transports/serial.py): a serial port, the RX  *)
(* thread that reads it, and the calls that open, use and close it while   *)
(* that thread runs.  Only the write lock is shared between callers; stop, *)
(* _serial, _thread and _parser are attributes each thread reads when it   *)
(* comes to them.                                                          *)
(*                                                                         *)
(* The n-th successful open() makes port n and RX thread n.  An RX thread  *)
(* is "unborn", at the loop's "test", about to "load" self._serial, in     *)
(* "read", after an exception ("failed"), in on_error ("reporting"), in    *)
(* the parser ("feed"), in a callback of a frame, or "dead".               *)
(* A call has "opened" the port and not yet set rts and dtr, is "stopping" *)
(* (stop is set, the port not closed), "joining", "writing" or "pulsing".  *)
(***************************************************************************)
EXTENDS Integers, FiniteSets

CONSTANTS
    App,      \* the program's threads
    Owner,    \* the one that opens and closes
    None,     \* Python's None, and the owner of a free lock
    MaxOpens  \* bound of the model: open() calls that succeed

Sessions == 1 .. MaxOpens
Threads == App \cup Sessions

ASSUME SerialAssumption ==
    /\ MaxOpens \in Nat
    /\ Owner \in App
    /\ App \cap Int = {}
    /\ None \notin Threads

VARIABLES
    sessions,  \* how many ports have been opened
    ports,     \* the ports that are open
    broken,    \* the ports whose device has gone
    serial,    \* self._serial
    thread,    \* self._thread
    stop,      \* self._stop
    lock,      \* the owner of self._write_lock
    step,      \* where each thread is in a call
    rx,        \* where each RX thread is
    at,        \* the port it reads
    reported,  \* history: the RX threads that have called on_error
    gaveUp     \* history: a join() has given up on a thread

portVars == <<sessions, ports, broken, serial, thread, stop, gaveUp>>
rxVars == <<rx, at, reported>>
serialVars == <<portVars, lock, step, rxVars>>

\* Types.  The write lock is held exactly by the thread that writes or pulses.
TypeOK ==
    /\ sessions \in 0 .. MaxOpens
    /\ ports \subseteq 1 .. sessions
    /\ broken \subseteq 1 .. sessions
    /\ serial \in (1 .. sessions) \cup {None}
    /\ thread \in (1 .. sessions) \cup {None}
    /\ stop \in BOOLEAN
    /\ lock \in Threads \cup {None}
    /\ step \in [Threads -> {"idle", "opened", "stopping", "joining", "writing", "pulsing"}]
    /\ \A t \in Threads : lock = t <=> step[t] \in {"writing", "pulsing"}
    /\ rx \in [Sessions -> {"unborn", "test", "load", "read", "failed", "reporting",
                            "feed", "callback", "dead"}]
    /\ at \in [Sessions -> Sessions \cup {None}]
    /\ reported \subseteq 1 .. sessions
    /\ gaveUp \in BOOLEAN

Init ==
    /\ sessions = 0
    /\ ports = {}
    /\ broken = {}
    /\ serial = None
    /\ thread = None
    /\ stop = FALSE
    /\ lock = None
    /\ step = [t \in Threads |-> "idle"]
    /\ rx = [r \in Sessions |-> "unborn"]
    /\ at = [r \in Sessions |-> None]
    /\ reported = {}
    /\ gaveUp = FALSE

-----------------------------------------------------------------------------
(* Calls.  The RX thread makes them from inside a callback.                *)

MayCall(t) ==
    /\ step[t] = "idle"
    /\ t \in Sessions => rx[t] = "callback"

GoTo(t, place) == step' = [step EXCEPT ![t] = place]

Working(p) == p \in ports \ broken

\* open() up to the port.  One that raises here changes nothing but _parser.
OpenPort(t) ==
    /\ MayCall(t)
    /\ sessions < MaxOpens
    /\ sessions' = sessions + 1
    /\ ports' = ports \cup {sessions'}
    /\ serial' = sessions'
    /\ GoTo(t, "opened")
    /\ UNCHANGED <<broken, thread, stop, gaveUp, lock, rxVars>>

\* rts or dtr raises: open() leaves the port behind, in self._serial.
OpenRaises(t) ==
    /\ step[t] = "opened"
    /\ GoTo(t, "idle")
    /\ UNCHANGED <<portVars, lock, rxVars>>

\* A port object nobody refers to any more closes its port (external).
Finalize(p) ==
    /\ p \in ports
    /\ p # serial
    /\ \A r \in Sessions : rx[r] = "read" => at[r] # p
    /\ ports' = ports \ {p}
    /\ UNCHANGED <<sessions, broken, serial, thread, stop, gaveUp, lock, step, rxVars>>

\* ... and from stop.clear() on.
OpenStart(t) ==
    /\ step[t] = "opened"
    /\ stop' = FALSE
    /\ thread' = sessions
    /\ rx' = [rx EXCEPT ![sessions] = "test"]
    /\ GoTo(t, "idle")
    /\ UNCHANGED <<sessions, ports, broken, serial, gaveUp, lock, at, reported>>

\* CloseStop as it would be without stop.set().
CloseWithoutStop(t) ==
    /\ MayCall(t)
    /\ GoTo(t, "stopping")
    /\ UNCHANGED <<portVars, lock, rxVars>>

\* close() does not take the write lock.
CloseStop(t) ==
    /\ MayCall(t)
    /\ stop' = TRUE
    /\ GoTo(t, "stopping")
    /\ UNCHANGED <<sessions, ports, broken, serial, thread, gaveUp, lock, rxVars>>

\* ClosePort as it would be under the write lock.
ClosePortLocked(t) ==
    /\ step[t] = "stopping"
    /\ lock = None
    /\ serial' = None
    /\ ports' = ports \ {serial}
    /\ GoTo(t, "joining")
    /\ UNCHANGED <<sessions, broken, thread, stop, gaveUp, lock, rxVars>>

ClosePort(t) ==
    /\ step[t] = "stopping"
    /\ serial' = None
    /\ ports' = ports \ {serial}
    /\ GoTo(t, "joining")
    /\ UNCHANGED <<sessions, broken, thread, stop, gaveUp, lock, rxVars>>

\* Join as it would be without the join().
JoinNobody(t) ==
    /\ step[t] = "joining"
    /\ thread # t
    /\ thread' = None
    /\ GoTo(t, "idle")
    /\ UNCHANGED <<sessions, ports, broken, serial, stop, gaveUp, lock, rxVars>>

\* join() ends when the thread has, and close() returns.
Join(t) ==
    /\ step[t] = "joining"
    /\ thread # t
    /\ thread # None => rx[thread] = "dead"
    /\ thread' = None
    /\ GoTo(t, "idle")
    /\ UNCHANGED <<sessions, ports, broken, serial, stop, gaveUp, lock, rxVars>>

\* The 2 s pass while the thread is with the callbacks of what it has read, or
\* because open() has cleared stop meanwhile; the thread is let go.
JoinTimesOut(t) ==
    /\ step[t] = "joining"
    /\ thread \notin {t, None}
    /\ rx[thread] \in {"feed", "callback"} \/ ~stop
    /\ rx[thread] # "dead"
    /\ thread' = None
    /\ gaveUp' = TRUE
    /\ GoTo(t, "idle")
    /\ UNCHANGED <<sessions, ports, broken, serial, stop, lock, rxVars>>

\* "cannot join current thread": close() raises, _thread stays.
JoinSelf(t) ==
    /\ step[t] = "joining"
    /\ thread = t
    /\ GoTo(t, "idle")
    /\ UNCHANGED <<portVars, lock, rxVars>>

\* write_frame and flush, under the lock.
WriteBegin(t) ==
    /\ MayCall(t)
    /\ lock = None
    /\ serial # None
    /\ lock' = t
    /\ GoTo(t, "writing")
    /\ UNCHANGED <<portVars, rxVars>>

\* WriteEnd as it would be if an exception left the lock locked.
WriteEndLocked(t) ==
    /\ step[t] = "writing"
    /\ \/ lock' = None
       \/ ~Working(serial) /\ UNCHANGED lock
    /\ GoTo(t, "idle")
    /\ UNCHANGED <<portVars, rxVars>>

\* The write is over, or raised: the port may have gone since it was looked at.
WriteEnd(t) ==
    /\ step[t] = "writing"
    /\ lock' = None
    /\ GoTo(t, "idle")
    /\ UNCHANGED <<portVars, rxVars>>

\* Neither write_frame, flush nor reset finds a port: they raise.
Refuse(t) ==
    /\ MayCall(t)
    /\ lock = None
    /\ serial = None
    /\ UNCHANGED serialVars

ResetBegin(t) ==
    /\ MayCall(t)
    /\ lock = None
    /\ serial # None
    /\ lock' = t
    /\ GoTo(t, "pulsing")
    /\ UNCHANGED <<portVars, rxVars>>

\* The pulse is over, or self._serial is no longer there to end it.
ResetEnd(t) ==
    /\ step[t] = "pulsing"
    /\ lock' = None
    /\ GoTo(t, "idle")
    /\ UNCHANGED <<portVars, rxVars>>

-----------------------------------------------------------------------------
(* The RX thread.                                                          *)

RxGoTo(r, place) == rx' = [rx EXCEPT ![r] = place]

Test(r) ==
    /\ rx[r] = "test"
    /\ RxGoTo(r, IF stop THEN "dead" ELSE "load")
    /\ UNCHANGED <<portVars, lock, step, at, reported>>

\* self._serial is None once close() has been there: AttributeError.
Load(r) ==
    /\ rx[r] = "load"
    /\ at' = [at EXCEPT ![r] = serial]
    /\ RxGoTo(r, IF serial = None THEN "failed" ELSE "read")
    /\ UNCHANGED <<portVars, lock, step, reported>>

\* read(512) returns some bytes, or none after 0.2 s.
Read(r) ==
    /\ rx[r] = "read"
    /\ at[r] \notin broken
    /\ \E place \in {"feed", "test"} : RxGoTo(r, place)
    /\ UNCHANGED <<portVars, lock, step, at, reported>>

ReadFails(r) ==
    /\ rx[r] = "read"
    /\ ~Working(at[r])
    /\ RxGoTo(r, "failed")
    /\ UNCHANGED <<portVars, lock, step, at, reported>>

LookWhy(r) ==
    /\ rx[r] = "failed"
    /\ RxGoTo(r, IF stop THEN "dead" ELSE "reporting")
    /\ UNCHANGED <<portVars, lock, step, at, reported>>

Report(r) ==
    /\ rx[r] = "reporting"
    /\ RxGoTo(r, "dead")
    /\ reported' = reported \cup {r}
    /\ UNCHANGED <<portVars, lock, step, at>>

\* A frame is complete.
Deliver(r) ==
    /\ rx[r] = "feed"
    /\ RxGoTo(r, "callback")
    /\ UNCHANGED <<portVars, lock, step, at, reported>>

FeedEnds(r) ==
    /\ rx[r] = "feed"
    /\ RxGoTo(r, "test")
    /\ UNCHANGED <<portVars, lock, step, at, reported>>

CallbackReturns(r) ==
    /\ rx[r] = "callback"
    /\ step[r] = "idle"
    /\ RxGoTo(r, "feed")
    /\ UNCHANGED <<portVars, lock, step, at, reported>>

\* on_frame raises; feed() is outside of the try (line 124).
CallbackRaises(r) ==
    /\ rx[r] = "callback"
    /\ step[r] = "idle"
    /\ RxGoTo(r, "dead")
    /\ UNCHANGED <<portVars, lock, step, at, reported>>

\* The cable is pulled, or the device goes away (external).
Unplug(p) ==
    /\ Working(p)
    /\ broken' = broken \cup {p}
    /\ UNCHANGED <<sessions, ports, serial, thread, stop, gaveUp, lock, step, rxVars>>

-----------------------------------------------------------------------------

\* What of the RX thread is bound to happen: all but that a callback returns.
RxStep(r) ==
    \/ Test(r) \/ Load(r) \/ Read(r) \/ ReadFails(r) \/ LookWhy(r) \/ Report(r)
    \/ Deliver(r) \/ FeedEnds(r)

CloseStep(t) == ClosePort(t) \/ Join(t) \/ JoinTimesOut(t) \/ JoinSelf(t)

Next ==
    \/ thread = None /\ OpenPort(Owner)
    \/ OpenRaises(Owner) \/ OpenStart(Owner)
    \/ \E t \in Sessions \cup {Owner} : thread # None /\ CloseStop(t)
    \/ \E t \in Sessions \cup {Owner} : CloseStep(t)
    \/ \E t \in Threads : WriteBegin(t) \/ WriteEnd(t) \/ ResetBegin(t) \/ ResetEnd(t)
                        \/ Refuse(t)
    \/ \E r \in Sessions : RxStep(r) \/ CallbackReturns(r) \/ CallbackRaises(r)
    \/ \E p \in Sessions : Unplug(p) \/ Finalize(p)

Spec == Init /\ [][Next]_serialVars

\* Every thread runs on, but a write may hang, and a callback never return.
FairSpec ==
    /\ Spec
    /\ \A t \in Threads : WF_serialVars(CloseStep(t))
    /\ \A r \in Sessions : WF_serialVars(RxStep(r))

-----------------------------------------------------------------------------

\* "It is not called on a normal close()" (transports/__init__.py, lines 23-26):
\* however close() and the read loop meet, on_error is called only by the RX
\* thread of a port that has failed by itself, as long as no join gave up.
CloseIsSilent == ~gaveUp => reported \subseteq broken

\* The ports open() has raised over, whose RX thread was never started.
Left == {p \in 1 .. sessions : rx[p] = "unborn"}

\* "Stop RX thread and close serial port" (line 61): from the end of close() to
\* the next open() no RX thread is alive, unless the join gave up, and no port is
\* open but one that an open() has raised over (lines 46-48).
ClosedMeansStopped ==
    ~gaveUp /\ thread = None /\ step[Owner] = "idle" =>
        /\ \A r \in Sessions : rx[r] \in {"unborn", "dead"}
        /\ ports \subseteq Left
        /\ serial \in Left \cup {None}

\* close() returns or raises, even if a callback never returns, a writer hangs
\* with the write lock, or the RX thread itself has called (lines 60-75).
CloseReturns ==
    \A t \in Sessions \cup {Owner} : step[t] \in {"stopping", "joining"} ~> step[t] = "idle"

\* A port is read by the RX thread that was started for it and by no other: an
\* earlier one that is late sees stop or the end of its own port, not the port of
\* the next open(), unless the join gave up on it (lines 49, 62-64 and 112-115).
OwnPortOnly == \A r \in Sessions : rx[r] = "read" /\ ~gaveUp => at[r] = r

\* "Called from the transport's background thread when it dies unexpectedly"
\* (kv4p/__init__.py, line 422): if the RX thread is dead and nobody has closed
\* the transport, on_error has been called.
DeathReported ==
    thread # None /\ ~stop /\ rx[thread] = "dead" => thread \in reported
=============================================================================
