# Verification of python-kv4p

TLA+ models, TLC runs and TLAPS proofs for `kv4p/`, the host side of the
KV4P-HT radio protocol: a Python library that talks to an ESP32 radio over a
serial line.

    tlc -workers 2 -config MCLink.cfg MCDesiredStateLink     # one run
    tlapm DesiredStateLinkProofs.tla                         # one set of proofs

Runs, seeded bugs, the map from definitions to source lines, hazards and
theorems are listed in `PROJECT.json`.

## The system

A program calls `Kv4pRadio` from any of its threads. The serial transport has
one more thread, `kv4p-rx`, which reads the port, parses KISS frames and runs
every handler and every user callback. Callbacks may call the radio again, so
the RX thread is a sender, too.

| Component | State | Operations | Talks to |
|---|---|---|---|
| `FlowControlWindow` (flow_control.py) | a byte counter behind a condition variable | `claim`, `add`, `reset` | claimed by senders; added to and reset by the RX thread |
| `DeviceStateTracker` (state_tracker.py) | the HELLO, the last DEVICE_STATE, the desired flags and settings, the sequence number, the last reported edges, an `RLock`, `hello_event` | setters; `on_hello`, `on_device_state`; `wait_for_hello` | setters call the radio's `_send_desired_state` with the lock released; handlers call user callbacks |
| `Kv4pRadio` transmit path | none of its own | `send_tx_audio`, `send_ax25_frame`, `_claim_and_write` | window, then transport |
| `Kv4pRadio` lifecycle | `_open`, `_transport_error` | `connect`, `disconnect`, `reset`, `__enter__`, `__exit__` | transport, tracker |
| `Kv4pRadio` frame routing | the dispatch table, the user's callbacks | `_on_kiss_frame` and the `_handle_*` | from the parser to tracker and window |
| Serial transport | `_serial`, `_thread`, `_stop`, `_parser`, `_write_lock` | `open`, `close`, `reset`, `write_frame`, `flush`, the read loop | the port, the parser, `on_error` |
| KISS framing | the parser's buffer and two flags | `feed`, `encode_kiss_frame` | between transport and routing |
| Payloads and vendor envelope | none | `from_bytes`, `to_bytes`, `decode_vendor_payload` | routing, tracker |
| Examples | a program of one thread | `connect`, setters, sends, `disconnect` | the radio |
| Dummy transport | `_on_frame`, `written` | as the serial one; `reset` starts a delivery thread | routing |

What is hard about it:

* The tracker lets go of its lock to write a snapshot. Snapshots of several
  threads may therefore be written in another order than they were built, while
  HELLO and DEVICE_STATE change the state between. The numbers have to make up
  for it.
* The device reboots, by itself or by `reset()`, and the host hears of it when
  HELLO has come through. Until then both speak of different boots.
* `claim` and `write_frame` are two critical sections, and a HELLO resets the
  window between them.
* Callbacks run on the only thread that can deliver what a call inside them may
  wait for.
* `_serial`, `_thread` and `_stop` are read and written by several threads
  without a lock, and `join(timeout=2)` may give up.
* A write may raise or hang, after the state has been changed.
* There is no checksum. A line that drops bytes and a device that is reset in the
  middle of a frame leave it to KISS, the envelope and the payloads' lengths to
  keep what is spoilt out of the window and the tracker.

What makes each component correct: the window is never overdrawn, forgets no
sleeper and lets every claim return; snapshots are numbered so that the newest
wins and a number acknowledged is a configuration applied; callbacks hear of
every edge; sends end and are accounted for; closing is silent, complete and
always ends; an error belongs to the connection it is held against; a `with`
that raises leaves nothing behind; `reset` and `connect` return after the HELLO
they wait for; a fault of the line costs the frames it touches and nothing more;
what the host knows is what the device has said; a program that has disconnected
leaves the device unkeyed. Some of these do not hold, or not always; see Findings
and the exceptions named under Modules.

## Modules

    FlowControl --------INSTANCE--> TxPath
    StateTracker -------EXTENDS---> DesiredStateLink --refines--> SettingsRegister
                                    DesiredStateLink --EXTENDS--> TransmitSession
    SerialTransport ----EXTENDS---> RadioLifecycle
    KissLink -----------refines---> FrameChannel
    ReceivePath

**FlowControl** is `FlowControlWindow`. A step is one critical section: `claim`
is a loop over `Grant`, `Refuse` and `Sleep`, with `TimeOut` the return of
`wait(timeout=...)` and `Deadline` the passing of `time.monotonic()` over the
deadline at any point. `Add` and `Reset` wake every sleeper.

**TxPath** is `_claim_and_write` under `send_tx_audio` and `send_ax25_frame`,
with the window as an instance of FlowControl. Claim and write are separate
steps; the RX thread handles WINDOW_UPDATE and HELLO in between, and sends from
inside its own AX.25 callback. The device (external) holds what it was sent,
frees any part of it, and announces its window when it boots. `Total` adds bytes
up as the number of points under a function, so that sums can be reasoned about
with the theorems on cardinalities.

**StateTracker** is `DeviceStateTracker`. A setter is `Prepare` (mutate, number
and build, under the lock), `Release`, `Transmit` or `Raise`, and `Reacquire`.
The RX thread's handler is a sequence of stages: `OnHello`, `SetEvent`, `Store`,
one `Compare` per edge, `Notify`; each may be interrupted by setters, and a
callback may call setters, return or raise. The six settings are a function from
fields to values, and a setter writes a set of fields. `Encodable` are the
values that `struct.pack` takes. Each snapshot carries the boot it was built
for, which the code does not have and only the properties read.

**DesiredStateLink** puts a device and a line around the tracker: snapshots wait
in `wire`, HELLO and DEVICE_STATE in `inbox`. The device is external and assumed
to do what the host relies on: apply a snapshot with a number above the last,
report what it has applied, say HELLO once per boot. Snapshots are not flow
controlled, so the line may lose one; a reboot loses some of what is underway
and lets the rest through to the new boot.

A snapshot built before a HELLO can reach the boot that sent it, with a number the host
has yet to give out: the device then passes over what it is sent, and when the host
has counted up to that number it takes a foreign configuration for acknowledged. The
code has no defence. `AcknowledgedMeansAgreed` and `Converged` name the case as their
exception (`TakenBeforeHello`), and TLC refutes either without it (a trace of 19 and of
14 states). `Converged` says what is left then: the device is not behind the host, and
once it has reported its number the host is level with it, so that the next snapshot
is applied.

**SettingsRegister** is what the three promise together: a configuration with a
version per boot, offers of it that may be forgotten, and a device that adopts
any of them and, if it has the latest version of its boot, has the latest
configuration. DesiredStateLink implements it under a refinement mapping
(`Register`), in which a snapshot taken late is an offer to an earlier boot; the
register promises nothing of a device that has adopted one.

**SerialTransport** is the port, the RX thread's loop and the calls, with a step
for every access to an attribute another thread may change: the loop's test of
`stop`, the load of `self._serial`, the read, the second test after an
exception. `close()` is `CloseStop`, `ClosePort` and `Join`, `JoinSelf` or
`JoinTimesOut`: the join may give up on a thread that is in the parser or a
callback, or that an `open()` has revived meanwhile. The history variable `gaveUp`
records it, and the properties that hold only without it say so. `open()` is
`OpenPort`, then `OpenStart` or, when `rts` or `dtr` cannot be set, `OpenRaises`;
the port left behind goes when its object is finalized (`Finalize`, external).

**RadioLifecycle** makes `connect`, `reset`, `disconnect` and `__enter__` out of
SerialTransport's steps and adds `_open`, `_transport_error`, `hello_event` and
a device that says HELLO after a reset pulse. The history variable `half` is set
when a call raises and leaves `_open` set: a connect or reset without HELLO, a
disconnect inside a callback.

**TransmitSession** is a program (examples/send_audio_file.py) on top of
DesiredStateLink: it connects, allows TX, keys, plays, unkeys and disconnects, and
an exception anywhere takes it where its finally clauses, or `with`, would.
`Open` and `Pulse` are another `connect` on the same radio, whose tracker still holds
the HELLO of the session before; and the device may boot by itself at any time.
`disconnect` is `set_ptt(False)`, whose exception is logged, `ClosePort`, after
which nothing is written and nothing read, and `Joined`. The device may boot while
nobody reads, too, and nobody hears of it (`Unheard`); it boots unkeyed, whatever
else it boots with (`SessionAssumption`). Callbacks key and unkey beside it.

A read may fail at any time the port is open (`ReadFails`): the RX thread sets
`_transport_error` and ends, what it has not read is lost, what is written still gets
to the device. From then on every call of the program is refused before the tracker is
touched, and `disconnect` goes straight to `close` (`Ready`, `Refused`; kv4p/__init__.py
lines 138, 235, 286, 443-446). A connect that hears no HELLO in time raises, and `with`
disconnects (`ConnectFails`). That the read fails and that it is reported are one step
here; RadioLifecycle takes a late report apart, and the exceptions of open() and of the
reset pulse are modelled there only.

`UnkeyedOnExit` names its five exceptions: a snapshot without PTT could not be sent
(`unsent`, also one a callback was still writing when the port was closed under it); the
line has lost a snapshot; a callback keyed during `disconnect` (`rekeyed`); the device
has taken a snapshot built before the host heard of its boot; and a read error came while
PTT was requested, so that `disconnect` has not tried to unkey (`abandoned`). The fourth
needs a PTT snapshot that is on its way when the device boots, or a second `connect`,
which does not wait for HELLO; the HELLO then clears PTT from the host's flags, so that
nothing unkeys the device. TLC finds a counterexample, of 15 to 19 states, when any of
the five is left out. They are what the code does, and listed as hazards.

**KissLink** is `encode_kiss_frame` and `KissParser`, byte by byte. The parser
takes each byte as it is written, so what the line does to frames shows at once:
`Transfer` is a byte that arrives, `Lose` one that does not, `Noise` one that
nobody wrote, and `NewParser` the parser of another `open()`. Bytes are the four
that KISS gives a meaning and any number of plain ones.

**FrameChannel** is what that promises: frames no fault has reached arrive whole,
once and in order, and a fault spoils at most the frame it falls into and the one
before, and makes at most two frames that are none. KissLink keeps the same
history, so the refinement is by name, without a mapping. `NothingHeldBack` adds
what a channel without a clock cannot say: nothing but a FEND is needed for
delivery.

**ReceivePath** is `_on_kiss_frame`, the envelope and the parsers of HELLO,
DEVICE_STATE and WINDOW_UPDATE on the bytes of frames: which frame gets to which
handler, which payloads it refuses, and which bytes it takes. The window is the
size it was last reset to and the credits since; adding them up is FlowControl's.
The line (external) loses a byte, or the FENDs between two frames; a device that
is reset breaks off its frame, and what its loader prints is taken for the rest.
There is no checksum, so one thing gets through: a frame that has lost a byte of its
envelope, and whose next bytes complete another. A DEVICE_STATE without its command
has the low byte of its sequence number in that place, and if that is 9, the code of
WINDOW_UPDATE, the window is credited with more than 4 GB; a debug text without the
version has 1, the code of DEBUG_INFO, for the version and its own first byte for the
command. Nothing in the code stands against it. The history variable `misread` holds
the commands such frames have been taken for in this boot (`PassesFor`), and
`NothingInvented` excuses what those commands change and nothing else; TLC refutes it
without any one of the excuses. A frame loses one byte at most.

Only one program thread, the owner, opens; it and the callbacks of the RX thread
close: `_open` is not protected by a lock, and the library does not offer more. All
threads may send and reset. A callback that calls `connect` is not modelled.

## Runs

| Run | Instance | Shows |
|---|---|---|
| `flow_control` | 3 claimers, frames of 1-3, window of 2, add and reset of 1 or 2 | window never negative, no lost wake-up, every claim returns |
| `tx_path` | 1 program thread and the RX thread, frames of 1-2, device window 2, 2 boots, 2 frames to the host | every byte between two HELLOs accounted for; sends return, also from callbacks |
| `state_tracker` | 1 program thread and the RX thread, 1 field with a value that cannot be packed, 1 option and PTT, numbers to 2, 2 reports, 2 HELLOs, writes without fairness | numbering, edges, types; the RX thread gets past a writer that hangs |
| `link` | 1 program thread and the RX thread, PTT, 2 boots, 2 snapshots underway, numbers to 2 | acknowledged means agreed and what is delivered converges, under reordering, unless a snapshot was taken late; refinement of the register |
| `serial` | 2 sessions, 2 program threads, opens that raise half-way, callbacks and writes that may hang | silent and complete close, which returns; no RX thread on another's port |
| `lifecycle` | 2 sessions, 2 resets, 2 program threads | current error, clean `with`, and a HELLO behind `_open` until a call has raised |
| `session` | the program and the RX thread, PTT and TX_ALLOWED, 2 boots, a second `connect`, 1 snapshot underway and no reports but HELLO, callbacks that key and unkey while numbers are below 3, a read error and a HELLO timeout anywhere | unkeyed on exit from either session but for five exceptions; the program gets to the end |
| `kiss` | 3 frames, each of 4 payloads of up to 2 bytes with every special byte, 2 faults | refinement of the channel; nothing held back; an idle parser is clean |
| `receive` | 3 frames a boot, 2 boots, any byte lost, texts that are empty or read like a frame, low bytes that look like them | nothing invented but what a spoilt envelope passes for; HELLO whole or not at all |

The other three runs are the findings below. Every property of a passing run has a
seeded bug in `PROJECT.json` that breaks it. The `lifecycle` run does not go on from
a state in which a join has given up (`MCJoined`): its properties promise nothing
from there on, and `serial` does go on.

Why the bounds are enough. For the window: three claimers of different sizes are
the least in which an add fits one sleeper and not another while a third takes
the bytes first. For the tracker: the conflict is between two snapshots, or a
snapshot and a HELLO or report, so two threads that may call setters, two HELLOs
and three numbers reach every pairing, and the report numbers lag, match and
lead. For the link: a second boot is needed for a snapshot to cross a reboot, and
two threads (the RX thread is one) for two snapshots to cross each other; the
proofs remove these bounds. For the transport: what can go wrong crosses from one
session into the next, so two sessions are the least. For the session: the
program makes at most four calls that send, and callbacks may call before, during and
after each of the first three, since the callbacks of a HELLO may take as long as the
session; two boots are what a second session and a reboot during the
first need; one snapshot underway and no DEVICE_STATE are enough because order on the line
and reports are the `link` run's subject. For KISS: a fault reaches
two frames, so two faults next to each other reach three; the proofs remove these
bounds. For reception: a frame and the one it runs into, after a boot and before
the next; the text reads like a report and is, behind its first byte, as long as the
body of HELLO, so that it passes for a report without its port and for a HELLO without
its version, and behind a broken frame for more. Where a bound cuts the system off
(`MaxWindow`, `MaxHellos`, `MaxBoots`, `MaxWire`, `MaxInbox`, `MaxOpens`, `MaxCalls`,
`MaxSends`, `MaxFaults`, `MaxFrames`) it is in a guard; `MaxSequence` is also the limit
of the 32-bit field, and one number beyond it is explored. Deadlock is not checked in
three runs, which stop where the system really may: `session`, whose program ends, and
`kiss` and `receive`, whose writer and device have nothing more to say.

Fairness is assumed only of threads and the clock. FlowControl: a thread in `claim` is
scheduled and its deadline comes, and no byte need ever be freed. TxPath: the
same, and a write ends; the device and the RX thread owe nothing. StateTracker:
a critical section ends and `Store` gets the lock if it is free again and again;
writes owe nothing. SerialTransport: threads run, reads time out after 0.2 s as
configured, and join times out; writes and callbacks owe nothing.
TransmitSession: the program's thread runs, its wait for HELLO times out, and it gets the lock if it is free again
and again (strong fairness: an `RLock` is no queue, but callbacks hold it for
moments); critical sections end; and the program's own writes return or raise, since
a program cannot leave a call that hangs. A callback's write may hang.

## Findings

Where a comment, a docstring or a test of the repository says otherwise than the
code does. Each is a run that TLC ends with a counterexample.

* `link_ptt`: not each `set_*()` sends a snapshot (kv4p/__init__.py:163-164).
  After a failed PTT-off the next one is taken for done.
* `serial_death`: an exception in the AX.25 callback ends the RX thread, and
  `_on_transport_error` is not called (kv4p/__init__.py:422).
* `reset_stale_hello`: `reset()` does not wait for the HELLO of its own boot
  (kv4p/__init__.py:148), since `hello_event` is never cleared.

Seen as well, and kept as hazards: a frame claimed before a HELLO and written after
it is charged to no window, so the device may be sent more than it announced;
`hello_event` is set before the callbacks of that HELLO have run, though a test
expects them to have when `connect()` returns (tests/test_radio_with_dummy.py:190-192);
an RX thread that `join` gave up on is revived by the next `open()` and reads its
port beside the new one; a `connect()` after one that timed out returns at once
without HELLO (README.rst:42-43), because `_open` is already set; a `disconnect()`
inside a callback raises in `close()` and leaves `_open` set; after a read error
`disconnect()` does not try to unkey, and no call can; the snapshot taken late and the
lost command byte described above.

## Proofs

For every value of the constants allowed by the modules' assumptions (those in
`FlowAssumption`, `TxAssumption`, `TrackerAssumption`, `LinkAssumption`,
`SessionAssumption`, `KissAssumption`, `ReceiveAssumption` and `SerialAssumption`), without the runs' bounds on threads, settings, sessions, boots,
bytes or frames. The models' bounds stay in guards, as constants of any size. Every
safety property and every refinement that a passing run checks is a theorem.

* `FlowControl` holds its own proofs: `TypeCorrect` and `NoWakeupIsLost`. Both are
  inductive with the types: each step that can raise the window above a sleeper's
  need also wakes that sleeper.
* `TxPathProofs`: `BytesAccounted` and `PathTypeCorrect`, by `Ledger`, which is the
  types and the accounts together. Neither stands alone: that no WINDOW_UPDATE frees
  more than there is follows from the accounts, and the accounts need the types to
  add up. The lemmas on `Total` say what a write, an update and a HELLO change about
  a sum.
* `SettingsRegister` holds its own proof: `AlwaysAgree`. The invariant says the same of
  every offer as the property says of the adopted configuration, and that a boot not
  yet heard of has no offers but its own.
* `DesiredStateLinkProofs`, on the tracker: `TypeCorrect`; `NewestStaysCurrent`, by
  `Numbered`, which adds that no thread holds a snapshot of a HELLO yet to come, since
  the property only compares snapshots of the present one; `EdgesStayReported`, by
  `Reported`, which adds that a handler cut short by an exception is over.
* `DesiredStateLinkProofs`, on the link: `LinkTypeCorrect`; `LinkImplementsRegister`,
  by `BootOrder`, which says that HELLOs are heard in the order of the boots and
  nothing on the way is from a boot yet to come; each host or device step is then
  one step of the register or leaves it unchanged. `AcknowledgedAgree` follows
  from it and `AlwaysAgree`: without the two cases it excepts, the device has adopted an
  offer to the boot the host knows of. `LinkConverges` adds where the newest
  configuration is: in the boot the host has heard of, and while nothing was lost, the
  device has applied its number or the snapshot is on its way (`Covered`). A report
  cannot break that: none is ahead of its boot (`ReportsBehind`), and the cached state is
  not ahead of the host (`Counted`), which is also why a report puts the host level with
  a device that took a snapshot late.
* `TransmitSessionProofs`: `SessionTypes` and `SessionUnkeys`. The session's steps
  are the link's (`SessionLink`) and the program's own, so the types come from
  `LinkTypeCorrect`'s lemmas; that the program's thread is in no setter between its calls
  (`Away`) and that an ended RX thread has left nothing behind (`Ended`) are part of them.
  For `SessionUnkeys`, a program that leaves and has not abandoned PTT has cleared it
  in the host's flags (`LeavesUnkeyed`), which no HELLO undoes (`BootsUnkeyed`); and
  whenever the flags are clear (`Unkeying`), a snapshot without PTT is underway that is
  newer than all with PTT and than what the device has applied, or nothing that keys is
  left to be applied. The exceptions the property names are hypotheses of these.
* `KissLinkProofs`: `KissTypes`; `KissHoldsNothingBack` and
  `KissImplementsChannel`. Their invariant, `IInv`, ties the parser to the writer:
  while no fault has reached the frame being written, the parser's buffer is its
  command and payload up to the byte to come; after any FEND the parser stands
  where a frame begins; and a delivery that is no frame is paid for by a fault. The
  properties alone are not inductive, since they say nothing of a frame half-way
  through.
* `ReceivePathProofs`: `FieldsAreWhole` and `WindowIsOfHello`. Every frame that
  arrives is some sequence of bytes, and the handlers' steps keep both for any
  sequence, so nothing has to be known of the line. A HELLO longer than the 17 bytes
  the tracker keeps is cut, and the window read from the whole is the one in the cut
  (`FieldOfField`).
* `ReceivePathProofs`: `NothingIsInvented`. The frames a device sends have four shapes
  (`Shaped`). Without a byte of its body a frame of any shape is taken by no handler
  (`LossIgnored`); without one of its first seven, by none or by that of a command in
  `misread` (`MistakenOutcome`); with bytes behind it, it is taken for what it is or not
  at all (`OpeningTaken`). The bytes of text and sound are arbitrary. The invariant,
  `KInv`, adds that the frame on the line is the last one sent (`Spoken`) and that a
  credit on the line is not yet counted (`InFlight`), without which a credit might be
  taken twice.
* `RadioLifecycleProofs`, on the transport: `TypeCorrect`, `ClosingIsSilent`,
  `PortsAreRead` and `ClosedIsStopped`. The invariant, `Kept`, is what the three have in
  common and the code never writes down: while no join has given up, the one RX thread
  that runs is `self._thread`, `self._serial` is its port or None, and a port is taken
  away only after `stop` is set (`StopFirst`). An exception in the read loop with `stop`
  clear then means that the port has failed by itself.
* `RadioLifecycleProofs`, on the radio: `LifecycleTypes`, `ErrorStaysCurrent`,
  `EnterIsClean` and `OpenStaysReady`. It takes what each transport step does from the
  lemmas before and adds `RadioKept`: `_open` is set exactly while there is an RX thread,
  that thread is of the port opened last, and whoever has set `stop`, or still waits for
  the first HELLO, is in its call, or a call has raised.

Model-checked only: liveness (`ClaimReturns`, `SendReturns`,
`StoredWhileWriterHangs`, `CloseReturns`, `SessionEnds`), which needs
fairness and ENABLED, beyond this prover.

## Not modelled

The dummy transport: a double for tests, whose threads deliver the same canned HELLO
through handlers that are modelled elsewhere. Two of them at a time run the tracker's
handlers side by side, as no serial transport does; noted as a hazard. Left out for good:
logging; the codec chosen from the firmware version; the frequency range check and the
names of bandwidths, which restrict a caller's values and nothing else; the properties
that read a field under the lock; an interrupt (`KeyboardInterrupt`) at an arbitrary
point; the other examples, which only print; documentation and packaging.

## Plan

1. KissLink under FlowControl's sizes: a claim is as long as the bytes written.
2. Action properties of the tracker and the transport that state what the invariants
   say of two states in a row: numbers of one boot grow, a stopped thread stays
   stopped until the next `open`.
