-------------------------------- MODULE TxPath --------------------------------
(***************************************************************************)
(* The flow-controlled transmit path of Kv4pRadio (kv4p/__init__.py):      *)
(* send_tx_audio and send_ax25_frame claim bytes from FlowControlWindow    *)
(* and then, in a second critical section, write the frame.  The RX thread *)
(* delivers WINDOW_UPDATE and HELLO to the window between the two, and     *)
(* runs the user's on_ax25_frame callback, which may send as well.         *)
(*                                                                         *)
(* The device is modelled as the source uses it: it holds the bytes        *)
(* written, frees them in any portions with one WINDOW_UPDATE each, and    *)
(* when it boots it forgets what it held and announces its window once, in *)
(* HELLO.  Desired-state frames are not flow controlled and are absent.    *)
(***************************************************************************)
EXTENDS Integers, Sequences, FiniteSets

CONSTANTS
    App,           \* the program's threads
    Rx,            \* the transport's RX thread
    FrameSizes,    \* sizes of the frames they send
    InitialSize,   \* the window assumed before the first HELLO
    DeviceWindow,  \* the window a HELLO announces
    MaxBoots,      \* bound of the model: boots of the device
    MaxInbox       \* bound of the model: messages the RX thread is behind

ASSUME TxAssumption ==
    /\ IsFiniteSet(App)
    /\ FrameSizes \subseteq Nat \ {0}
    /\ InitialSize \in Nat /\ DeviceWindow \in Nat
    /\ MaxBoots \in Nat

Threads == App \cup {Rx}

VARIABLES size, pc, need, late   \* FlowControlWindow
VARIABLES
    ready,      \* is_ready: a HELLO has been handled
    callback,   \* the RX thread is inside on_ax25_frame
    held,       \* device: bytes it has been sent and has not freed
    inbox,      \* device to host: updates and HELLOs not handled yet
    boots,      \* device: how often it has booted
    budget      \* history: bytes that should be somewhere, see Accounted

flowVars == <<size, pc, need, late>>
deviceVars == <<held, inbox, boots>>
vars == <<flowVars, ready, callback, deviceVars, budget>>

Flow == INSTANCE FlowControl WITH Grants <- {DeviceWindow}, MaxWindow <- DeviceWindow

Update(n) == [kind |-> "update", size |-> n]
Hello == [kind |-> "hello", size |-> DeviceWindow]

\* Types of the composition.  It contains the window's own: no interleaving of
\* senders, updates and HELLOs overdraws it.
TypeOK ==
    /\ Flow!TypeOK
    /\ ready \in BOOLEAN
    /\ callback \in BOOLEAN
    /\ held \in Nat
    /\ \A i \in DOMAIN inbox : inbox[i] \in {Update(n) : n \in 1 .. budget} \cup {Hello}
    /\ boots \in 0 .. MaxBoots

Init ==
    /\ Flow!Init
    /\ ready = FALSE
    /\ callback = FALSE
    /\ held = 0
    /\ inbox = <<>>
    /\ boots = 0
    /\ budget = InitialSize

-----------------------------------------------------------------------------
(* Sending.  The RX thread sends only from inside its callback.            *)

MaySend(t) == t = Rx => callback

SendTxAudio(t, n) ==
    /\ MaySend(t)
    /\ ready
    /\ Flow!Claim(t, n)
    /\ UNCHANGED <<ready, callback, deviceVars, budget>>

\* Unlike audio, AX.25 frames do not wait for the handshake (line 248).
SendAx25Frame(t, n) ==
    /\ MaySend(t)
    /\ Flow!Claim(t, n)
    /\ UNCHANGED <<ready, callback, deviceVars, budget>>

Claiming(t) ==
    /\ Flow!ClaimStep(t) \/ Flow!Deadline(t)
    /\ UNCHANGED <<ready, callback, deviceVars, budget>>

Write(t) ==
    /\ pc[t] = "granted"
    /\ Flow!Return(t)
    /\ held' = held + need[t]
    /\ UNCHANGED <<ready, callback, inbox, boots, budget>>

\* write_frame raises: the exception passes through the sender and nobody
\* gives the claimed bytes back.
WriteRaises(t) ==
    /\ pc[t] = "granted"
    /\ Flow!Return(t)
    /\ budget' = budget - need[t]
    /\ UNCHANGED <<ready, callback, deviceVars>>

\* claim() returned False: the frame is dropped with a warning.
Drop(t) ==
    /\ pc[t] = "refused"
    /\ Flow!Return(t)
    /\ UNCHANGED <<ready, callback, deviceVars, budget>>

SendEnds(t) == Write(t) \/ WriteRaises(t) \/ Drop(t)

-----------------------------------------------------------------------------
(* Bytes on their way: claimed and not written, freed and not credited.    *)

\* The sum of f's values, as the number of the points below its graph.
Total(f) == Cardinality(UNION {{x} \X (1 .. f[x]) : x \in DOMAIN f})

InHand(st, n) == Total([t \in Threads |-> IF st[t] = "granted" THEN n[t] ELSE 0])

Credits(q) == Total([i \in DOMAIN q |-> IF q[i].kind = "update" THEN q[i].size ELSE 0])

(* Receiving.                                                              *)

Receive(kind) ==
    /\ ~callback
    /\ inbox # <<>>
    /\ Head(inbox).kind = kind
    /\ inbox' = Tail(inbox)

HandleWindowUpdate ==
    /\ Receive("update")
    /\ Flow!Add(Head(inbox).size)
    /\ UNCHANGED <<ready, callback, held, boots, budget>>

\* HandleHello as it would be if the new window were added to the old.
HandleHelloAdding ==
    /\ Receive("hello")
    /\ Flow!Add(Head(inbox).size)
    /\ ready' = TRUE
    /\ budget' = Head(inbox).size + InHand(pc, need) + held + Credits(inbox')
    /\ UNCHANGED <<callback, held, boots>>

\* The window is set to what the new boot announces.  What is in hand, held or
\* freed by the new boot already has been paid for out of the old window.
HandleHello ==
    /\ Receive("hello")
    /\ Flow!Reset(Head(inbox).size)
    /\ ready' = TRUE
    /\ budget' = Head(inbox).size + InHand(pc, need) + held + Credits(inbox')
    /\ UNCHANGED <<callback, held, boots>>

Ax25FrameArrives ==
    /\ ~callback
    /\ callback' = TRUE
    /\ UNCHANGED <<flowVars, ready, deviceVars, budget>>

CallbackReturns ==
    /\ callback
    /\ pc[Rx] = "idle"
    /\ callback' = FALSE
    /\ UNCHANGED <<flowVars, ready, deviceVars, budget>>

-----------------------------------------------------------------------------
(* The device (external).                                                  *)

Free(n) ==
    /\ n <= held
    /\ Len(inbox) < MaxInbox
    /\ held' = held - n
    /\ inbox' = Append(inbox, Update(n))
    /\ UNCHANGED <<flowVars, ready, callback, boots, budget>>

\* reset() pulses RTS, or the device boots by itself.
Boot ==
    /\ boots < MaxBoots
    /\ boots' = boots + 1
    /\ held' = 0
    /\ inbox' = Append(inbox, Hello)
    /\ budget' = budget - held
    /\ UNCHANGED <<flowVars, ready, callback>>

-----------------------------------------------------------------------------

Next ==
    \/ \E t \in Threads, n \in FrameSizes : SendTxAudio(t, n) \/ SendAx25Frame(t, n)
    \/ \E t \in Threads : Claiming(t) \/ SendEnds(t)
    \/ HandleWindowUpdate
    \/ HandleHello
    \/ Ax25FrameArrives
    \/ CallbackReturns
    \/ \E n \in 1 .. held : Free(n)
    \/ Boot

\* The scheduler runs every thread and the clock moves on.  The device owes
\* nothing, and the RX thread need not get round to its inbox.
Spec ==
    /\ Init /\ [][Next]_vars
    /\ \A t \in Threads :
          /\ WF_vars(Flow!ClaimStep(t) /\ Claiming(t))
          /\ WF_vars(Flow!Deadline(t) /\ Claiming(t))
          /\ WF_vars(SendEnds(t))

-----------------------------------------------------------------------------

\* Between two HELLOs no byte of the window is lost or invented: each is in the
\* window, claimed, held by the device or on its way back.  A refused claim
\* costs nothing, and a granted one is charged once (_claim_and_write, lines
\* 434-440).  The steps that write budget are all the exceptions there are.
Accounted == size + InHand(pc, need) + held + Credits(inbox) = budget

\* A send ends, also one the RX thread makes from its own callback, where no
\* WINDOW_UPDATE can arrive because that thread is the one that would read it.
SendReturns == \A t \in Threads : pc[t] = "running" ~> pc[t] = "idle"
=============================================================================
