---------------------------- MODULE TransmitSession ----------------------------
(***************************************************************************)
(* A transmission from connect to disconnect, as a program makes it        *)
(* (examples/send_audio_file.py, README.rst) and Kv4pRadio.disconnect ends *)
(* it, on top of the link between tracker and device.  Callbacks of the RX *)
(* thread may key and unkey as well, until the port is closed under them.  *)
(*                                                                         *)
(* The program has opened the port and is about to pulse the device's      *)
(* reset line ("reset"), waits for HELLO ("connect"), is in set_tx_allowed *)
(* ("allow"), in set_ptt(True) ("key"), sends audio ("play"), is in        *)
(* set_ptt(False) ("unkey"), in that of disconnect ("leave"), about to     *)
(* close ("closing"), has closed the port and waits for the RX thread      *)
(* ("joining"), or is through ("closed"), and may connect again.           *)
(*                                                                         *)
(* A read that fails ends the RX thread and is remembered as               *)
(* _transport_error: from then on every call of the radio raises, and      *)
(* disconnect goes straight to close.                                      *)
(***************************************************************************)
EXTENDS DesiredStateLink

CONSTANTS
    Owner,    \* the program's thread
    MaxCalls  \* bound of the model: callbacks call while numbers are below it

\* A device that has booted does not transmit of itself: reset() is there to
\* recover one that has hung (kv4p/__init__.py, line 150).
ASSUME SessionAssumption ==
    /\ App = {Owner}
    /\ "TX_ALLOWED" \in Options
    /\ MaxCalls \in Nat
    /\ \A s \in BootStates : "PTT" \notin s.flags

VARIABLES
    place,     \* where the program is
    error,     \* self._transport_error is set: the RX thread has ended
    unsent,    \* history: a snapshot without PTT could not be sent, and none is newer
    rekeyed,   \* history: a callback keyed after disconnect has unkeyed
    abandoned  \* history: disconnect has left PTT in the host's flags

pastVars == <<unsent, rekeyed, abandoned>>
sessionVars == <<place, error, pastVars>>
allVars == <<vars, sessionVars>>

Places == {"reset", "connect", "allow", "key", "play", "unkey", "leave", "closing", "joining",
           "closed"}

PortOpen == place \notin {"joining", "closed"}
Hears == PortOpen /\ ~error

\* disconnect is in its set_ptt(False), or past it.
Leaving ==
    \/ place \in {"closing", "joining", "closed"}
    \/ place = "leave" /\ pc[Owner] # "idle"

\* Nothing the device says is heard when the port is closed or the RX thread has
\* ended, not even the HELLO of a boot.
Boots ==
    \E s \in BootStates, k \in 0 .. Len(wire) :
        IF Hears THEN Reboot(s, k) ELSE BootUp(s, k) /\ UNCHANGED inbox

\* Between its calls the program's thread is in no setter, wherever an exception
\* has taken it ...
Away == place \in {"reset", "connect", "play", "closing", "joining", "closed"} => pc[Owner] = "idle"

\* ... and an RX thread that has ended has left no handler and no callback behind.
Ended == error => inbox = <<>> /\ RxFree

\* Types, and that the program, the RX thread and the tracker agree on who is in a
\* call (send_audio_file.py lines 58-73, kv4p/transports/serial.py lines 112-121).
SessionTypeOK ==
    /\ LinkTypeOK
    /\ Away
    /\ Ended
    /\ place \in Places
    /\ error \in BOOLEAN
    /\ unsent \in BOOLEAN
    /\ rekeyed \in BOOLEAN
    /\ abandoned \in BOOLEAN

SessionInit ==
    /\ LinkInit
    /\ place = "reset"
    /\ error = FALSE
    /\ unsent = FALSE
    /\ rekeyed = FALSE
    /\ abandoned = FALSE

-----------------------------------------------------------------------------
(* The program.  Each call leads to the next, or by an exception elsewhere. *)

Then == [allow |-> "key", key |-> "play", unkey |-> "leave", leave |-> "closing"]
Else == [allow |-> "leave", key |-> "leave", unkey |-> "leave", leave |-> "closing"]

\* connect() of a radio that has been disconnected.  The tracker keeps what it
\* has of the session before, and hello_event stays set.
Open ==
    /\ place = "closed" /\ RxFree
    /\ place' = "reset"
    /\ error' = FALSE
    /\ UNCHANGED <<vars, pastVars>>

Pulse ==
    /\ place = "reset"
    /\ Boots
    /\ place' = "connect"
    /\ unsent' = FALSE /\ rekeyed' = FALSE /\ abandoned' = FALSE
    /\ UNCHANGED error

Connected ==
    /\ place = "connect"
    /\ event
    /\ place' = "allow"
    /\ UNCHANGED <<vars, error, pastVars>>

\* No HELLO is heard in time: `with` disconnects (__enter__).  Nothing in connect
\* looks at the error.
ConnectFails ==
    /\ place = "connect" /\ ~event
    /\ place' = "leave"
    /\ UNCHANGED <<vars, error, pastVars>>

\* is_ready: without it _require_ready raises before the tracker is touched,
\* and disconnect does not call set_ptt.
Ready == ~error /\ hello > 0

Refused ==
    /\ ~Ready
    /\ place \in {"allow", "key", "unkey", "leave"} /\ pc[Owner] = "idle"
    /\ place' = Else[place]
    /\ abandoned' = (abandoned \/ (place = "leave" /\ "PTT" \in flags))
    /\ UNCHANGED <<vars, error, unsent, rekeyed>>

SetPtt(enabled) ==
    \/ RequestPtt(Owner, enabled) /\ UNCHANGED place
    \/ RequestPttUnchanged(Owner, enabled) /\ place' = Then[place]

\* CallBegins as it would be if disconnect did not unkey.
CallBeginsButLast ==
    /\ Ready
    /\ \/ place = "allow" /\ SetFlag(Owner, "TX_ALLOWED", TRUE) /\ UNCHANGED place
       \/ place = "key" /\ SetPtt(TRUE)
       \/ place = "unkey" /\ SetPtt(FALSE)
       \/ place = "leave" /\ place' = "closing" /\ UNCHANGED trackerVars
    /\ unsent' = (unsent /\ sequence' = sequence)
    /\ UNCHANGED <<linkVars, error, rekeyed, abandoned>>

CallBegins ==
    /\ Ready
    /\ \/ place = "allow" /\ SetFlag(Owner, "TX_ALLOWED", TRUE) /\ UNCHANGED place
       \/ place = "key" /\ SetPtt(TRUE)
       \/ place \in {"unkey", "leave"} /\ SetPtt(FALSE)
    /\ unsent' = (unsent /\ sequence' = sequence)
    /\ UNCHANGED <<linkVars, error, rekeyed, abandoned>>

CallEnds ==
    /\ Reacquire(Owner)
    /\ place' = IF pc[Owner] = "written" THEN Then[place] ELSE Else[place]
    /\ UNCHANGED <<linkVars, error, pastVars>>

\* All is sent, or a send raised: the example unkeys in any case, the README's
\* `with` leaves that to disconnect.
Play ==
    /\ place = "play"
    /\ place' \in {"unkey", "leave"}
    /\ UNCHANGED <<vars, error, pastVars>>

\* What the RX thread has not read is lost; what has been written is not.
ClosePort ==
    /\ place = "closing"
    /\ place' = "joining"
    /\ inbox' = <<>>
    /\ UNCHANGED <<trackerVars, wire, fw, mishaps, error, pastVars>>

\* The RX thread has ended, or 2 s have passed.
Joined ==
    /\ place = "joining"
    /\ place' = "closed"
    /\ UNCHANGED <<vars, error, pastVars>>

-----------------------------------------------------------------------------
(* Both threads, and the RX thread's callbacks.                            *)

CallbackCalls(enabled) ==
    /\ place # "closed" /\ sequence < MaxCalls
    /\ RequestPtt(Rx, enabled) \/ RequestPttUnchanged(Rx, enabled)
    /\ unsent' = (unsent /\ sequence' = sequence)
    /\ rekeyed' = (rekeyed \/ (Leaving /\ enabled /\ flags' # flags))
    /\ UNCHANGED <<linkVars, place, error, abandoned>>

Sends(t) ==
    /\ PortOpen
    /\ Write(t)
    /\ UNCHANGED sessionVars

SendFails(t) ==
    /\ WriteFails(t)
    /\ unsent' = (unsent \/ "PTT" \notin snap[t].flags)
    /\ UNCHANGED <<place, error, rekeyed, abandoned>>

\* The read raises and the port is not being closed: the RX thread reports it and
\* ends (serial.py, lines 112-121).  Nothing is read any more; what is written may
\* still get through.
ReadFails ==
    /\ PortOpen /\ RxFree /\ ~error
    /\ error' = TRUE
    /\ inbox' = <<>>
    /\ UNCHANGED <<trackerVars, wire, fw, mishaps, place, pastVars>>

Handles ==
    /\ HandleHello \/ HandleDeviceState
    /\ UNCHANGED sessionVars

Continues ==
    /\ (\E t \in Threads : Release(t)) \/ Reacquire(Rx) \/ RxStep
    /\ UNCHANGED <<linkVars, sessionVars>>

Unheard == Apply \/ PassOver \/ Lose \/ Boots

Device ==
    /\ IF Hears THEN DeviceStep ELSE Unheard
    /\ UNCHANGED sessionVars

-----------------------------------------------------------------------------

OwnerStep ==
    \/ Open \/ Pulse \/ Connected \/ ConnectFails
    \/ CallBegins \/ Refused \/ CallEnds \/ Play
    \/ ClosePort \/ Joined

SessionNext ==
    \/ OwnerStep
    \/ \E enabled \in BOOLEAN : CallbackCalls(enabled)
    \/ \E t \in Threads : Sends(t) \/ SendFails(t)
    \/ ReadFails
    \/ Handles
    \/ Continues
    \/ Device

SessionSpec == SessionInit /\ [][SessionNext]_allVars

\* The program's thread runs, HELLO's timeout included, and gets the lock if it is
\* free again and again, nobody stays in a critical section, and the program's writes return or raise.
\* Nothing is owed by a callback, which may hang in its write.
FairSession ==
    /\ SessionSpec
    /\ SF_allVars(OwnerStep)
    /\ WF_allVars((\E t \in Threads : Release(t)) /\ UNCHANGED <<linkVars, sessionVars>>)
    /\ WF_allVars(Sends(Owner) \/ SendFails(Owner))

-----------------------------------------------------------------------------

\* The program is through, no callback is in a call, and no snapshot underway.
Over == place = "closed" /\ pc[Rx] = "idle" /\ wire = <<>>

\* When the program is through and everything written has been handled, the
\* device does not transmit, whichever call of the program raised and whatever
\* callbacks did meanwhile (kv4p/__init__.py, lines 132-145, send_audio_file.py,
\* lines 58-73), in the first session or a later one, and wherever the device has
\* booted in between: with five exceptions.  The last snapshot without PTT could
\* not be sent; one was lost; a callback has keyed after disconnect had unkeyed; the
\* device has taken a snapshot that was built before the host heard of this boot; or the
\* RX thread had reported an error while PTT was requested, and disconnect, which
\* unkeys a radio that is ready only (line 138), has not even tried to.
UnkeyedOnExit ==
    /\ Over
    /\ ~unsent /\ "frame" \notin mishaps
    /\ fw.from = fw.boot
    /\ ~rekeyed
    /\ ~abandoned
    => "PTT" \notin fw.state.flags

\* Every session comes to its end: again and again the port is closed, or the reset
\* of the next session is still to come.  No exception, no device that keeps silent
\* or cannot be read any more, and no callback that keys, waits for the lock or
\* hangs, keeps the program from closing it.
SessionEnds == []<>(place \in {"reset", "closed"})
=============================================================================
