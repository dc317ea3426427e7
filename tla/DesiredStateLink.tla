--------------------------- MODULE DesiredStateLink ---------------------------
(***************************************************************************)
(* DeviceStateTracker and a device, joined by a serial line: snapshots in  *)
(* one direction, HELLO and DEVICE_STATE in the other.                     *)
(*                                                                         *)
(* The device is not in this repository.  It is modelled from what the     *)
(* source relies on: it applies a snapshot whose number is above the last  *)
(* one it applied and passes over the others (the host counts on with      *)
(* max(sequence, applied_sequence) + 1, state_tracker.py line 202), it     *)
(* reports what it has applied, and it sends HELLO once, when it boots.    *)
(* It boots when reset() pulses the line, or by itself.                    *)
(***************************************************************************)
EXTENDS StateTracker, Sequences

CONSTANTS
    BootStates,  \* what the device may report of itself after booting
    MaxBoots,    \* bound of the model: boots
    MaxWire,     \* bound of the model: snapshots underway
    MaxInbox     \* bound of the model: reports underway

ASSUME LinkAssumption == BootStates \subseteq DeviceStates

VARIABLES
    wire,     \* snapshots written and not yet handled by the device
    inbox,    \* HELLO and DEVICE_STATE frames not yet handled by the RX thread
    fw,       \* the device: its boot, and the snapshot it has applied last
    mishaps   \* history: what has gone wrong so far

linkVars == <<wire, inbox, fw, mishaps>>
vars == <<trackerVars, linkVars>>

\* A configuration as both sides understand it: the host's bits and settings.
ConfigOf(s) == [flags |-> HostFlags(s.flags), settings |-> s.settings]

\* from is not in the code: the boot the device's configuration is meant for.
Firmware(boot, from, s) == [boot |-> boot, from |-> from, state |-> s]

Frame(kind) == [kind |-> kind, boot |-> fw.boot, state |-> fw.state]

Sendable == {s \in Snapshots : s.sequence <= MaxSequence}

Frames == [kind : {"hello", "state"}, boot : Nat, state : DeviceStates]

\* Types.  That wire carries only Sendable snapshots says that no number is
\* sent that the field could not hold.
LinkTypeOK ==
    /\ TypeOK
    /\ wire \in Seq(Sendable)
    /\ inbox \in Seq(Frames)
    /\ fw \in [boot : Nat, from : Nat, state : DeviceStates]
    /\ mishaps \subseteq {"write", "frame"}

LinkInit ==
    /\ Init
    /\ wire = <<>>
    /\ inbox = <<>>
    /\ \E s \in BootStates : fw = Firmware(0, 0, s)
    /\ mishaps = {}

-----------------------------------------------------------------------------
(* The host.                                                               *)

Write(t) ==
    /\ Len(wire) < MaxWire
    /\ Transmit(t)
    /\ wire' = Append(wire, snap[t])
    /\ UNCHANGED <<inbox, fw, mishaps>>

WriteFails(t) ==
    /\ Raise(t)
    /\ mishaps' = mishaps \cup {"write"}
    /\ UNCHANGED <<wire, inbox, fw>>

Receive(kind) ==
    /\ inbox # <<>>
    /\ Head(inbox).kind = kind
    /\ inbox' = Tail(inbox)
    /\ UNCHANGED <<wire, fw, mishaps>>

HandleHello ==
    /\ Receive("hello")
    /\ OnHello(Head(inbox).boot, Head(inbox).state)

HandleDeviceState ==
    /\ Receive("state")
    /\ OnDeviceState(Head(inbox).state)

-----------------------------------------------------------------------------
(* The device and the line.                                                *)

Take ==
    /\ wire # <<>>
    /\ wire' = Tail(wire)

Apply ==
    /\ Take
    /\ Head(wire).sequence > fw.state.applied
    /\ fw' = Firmware(fw.boot, Head(wire).boot,
                [applied |-> Head(wire).sequence, flags |-> Head(wire).flags,
                 settings |-> Head(wire).settings])
    /\ UNCHANGED <<trackerVars, inbox, mishaps>>

PassOver ==
    /\ Take
    /\ Head(wire).sequence <= fw.state.applied
    /\ UNCHANGED <<trackerVars, inbox, fw, mishaps>>

\* Snapshots are not flow controlled (line 429): one may find no room.
Lose ==
    /\ Take
    /\ mishaps' = mishaps \cup {"frame"}
    /\ UNCHANGED <<trackerVars, inbox, fw>>

Report ==
    /\ Len(inbox) < MaxInbox
    /\ inbox' = Append(inbox, Frame("state"))
    /\ UNCHANGED <<trackerVars, wire, fw, mishaps>>

\* What was underway to the old boot is lost up to some frame; the rest
\* reaches the new one.
BootUp(s, k) ==
    /\ fw.boot < MaxBoots
    /\ fw' = Firmware(fw.boot + 1, fw.boot + 1, s)
    /\ wire' = SubSeq(wire, k + 1, Len(wire))
    /\ UNCHANGED <<trackerVars, mishaps>>

Reboot(s, k) ==
    /\ BootUp(s, k)
    /\ inbox' = Append(inbox, [kind |-> "hello", boot |-> fw.boot + 1, state |-> s])

-----------------------------------------------------------------------------

HostStep ==
    \/ \E t \in Threads :
          /\ \/ sequence <= MaxSequence /\ Setter(t)
             \/ Release(t)
             \/ Reacquire(t)
          /\ UNCHANGED linkVars
    \/ RxStep /\ UNCHANGED linkVars
    \/ \E t \in Threads : Write(t) \/ WriteFails(t)
    \/ HandleHello
    \/ HandleDeviceState

DeviceStep ==
    \/ Apply
    \/ PassOver
    \/ Lose
    \/ Report
    \/ \E s \in BootStates, k \in 0 .. Len(wire) : Reboot(s, k)

LinkNext == HostStep \/ DeviceStep

LinkSpec == LinkInit /\ [][LinkNext]_vars

-----------------------------------------------------------------------------
(* The register this link implements.                                      *)

SnapshotOffer(s) == [boot |-> s.boot, version |-> s.sequence, config |-> ConfigOf(s)]
StateOffer(b, s) == [boot |-> b, version |-> s.applied, config |-> ConfigOf(s)]

latest ==
    [boot |-> hello, version |-> sequence,
     config |-> [flags |-> flags, settings |-> settings]]

offers ==
    {SnapshotOffer(snap[t]) : t \in {u \in Threads : snap[u] # None}}
    \cup {SnapshotOffer(wire[i]) : i \in DOMAIN wire}
    \cup {StateOffer(inbox[i].boot, inbox[i].state) :
             i \in {j \in DOMAIN inbox : inbox[j].kind = "hello"}}

Register == INSTANCE SettingsRegister WITH
    Configs <- [flags : HostWords, settings : Settings],
    latest <- latest,
    adopted <- StateOffer(fw.from, fw.state),
    offers <- offers

\* The tracker, the line and the device together are a settings register: each
\* of their steps is one of its steps or changes nothing it can see.  A snapshot
\* taken late is there an offer to an earlier boot, of which the register says
\* nothing more.
ImplementsRegister == Register!Spec

\* The code has no defence against a snapshot of an earlier boot: on_hello starts
\* to count anew, and one built before that HELLO, still in a setter or on the
\* wire, may reach the device after it with a number the host has yet to give
\* out.  Two exceptions are named after it: the device runs on such a snapshot,
\* or on what it booted with, and the host has yet to hear of that boot.
TakenBeforeHello == fw.from < hello
BootUnheard == fw.from > hello

\* A device whose applied_sequence is the host's number runs on the host's
\* configuration, unless it took a snapshot built before the last HELLO, or the
\* host has yet to hear of its boot (kv4p/__init__.py lines 160-164).
AcknowledgedMeansAgreed ==
    hello > 0 /\ fw.state.applied = sequence =>
        \/ ConfigOf(fw.state) = latest.config
        \/ TakenBeforeHello
        \/ BootUnheard

\* Nothing underway, and the host has heard of the device's boot.
Quiet ==
    /\ \A t \in Threads : pc[t] = "idle"
    /\ wire = <<>>
    /\ inbox = <<>>
    /\ hello > 0
    /\ fw.boot = hello

\* When everything has been delivered, no write failed and the line lost
\* nothing, the device is not behind the host (state_tracker.py lines 200-211).
\* It runs on the host's newest configuration, whatever order the writes came
\* in, unless it took a snapshot built before its HELLO.  Such a device may be
\* ahead of the host and pass over what it is sent; but once it has reported
\* its number the host has caught up, and the next snapshot will be applied.
Converged ==
    Quiet /\ mishaps = {} =>
        /\ fw.state.applied >= sequence
        /\ ~TakenBeforeHello =>
              fw.state.applied = sequence /\ ConfigOf(fw.state) = latest.config
        /\ Applied = fw.state.applied => sequence = fw.state.applied

\* "each set_*() call sends a full HostDesiredState snapshot (the protocol
\* always wants the complete state, not a delta)" (kv4p/__init__.py lines
\* 163-164): once all is delivered, a set_ptt(False) that finds nothing to do
\* leaves a device that has been told so.
PttStands ==
    Quiet /\ ~TakenBeforeHello /\ "frame" \notin mishaps /\ "PTT" \notin flags =>
        "PTT" \notin fw.state.flags
=============================================================================
