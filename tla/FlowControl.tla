----------------------------- MODULE FlowControl -----------------------------
(***************************************************************************)
(* FlowControlWindow (kv4p/flow_control.py): a byte counter behind a       *)
(* condition variable.  Threads claim bytes and sleep when there are too   *)
(* few; the RX thread adds what a WINDOW_UPDATE frees, or resets the       *)
(* counter on HELLO, and wakes every sleeper.                              *)
(*                                                                         *)
(* One step is one critical section.  claim() is a loop, so a thread runs  *)
(* it once when it calls and once more each time it is woken:              *)
(*   "idle"     outside claim()                                            *)
(*   "running"  about to evaluate `self._size < size` with the lock        *)
(*   "asleep"   inside self._lock.wait()                                   *)
(*   "granted"  claim() returned True     "refused"  it returned False     *)
(***************************************************************************)
EXTENDS Integers, TLAPS

CONSTANTS
    Threads,       \* the threads that call claim()
    FrameSizes,    \* the sizes they claim
    InitialSize,   \* window before the first HELLO (2048 in the code)
    Grants,        \* sizes a WINDOW_UPDATE frees, and window sizes of HELLO
    MaxWindow      \* bound of the model: add() past it is not explored

ASSUME FlowAssumption ==
    /\ FrameSizes \subseteq Nat \ {0}
    /\ Grants \subseteq Nat
    /\ InitialSize \in Nat
    /\ MaxWindow \in Nat

VARIABLES
    size,   \* self._size
    pc,     \* where each thread is in claim()
    need,   \* the size each thread claims
    late    \* the thread's deadline has passed

flowVars == <<size, pc, need, late>>

\* Types; that size is a natural says that no interleaving of claimers takes
\* the window below zero (the `while` at line 32 is read again on each wake).
TypeOK ==
    /\ size \in Nat
    /\ pc \in [Threads -> {"idle", "running", "asleep", "granted", "refused"}]
    /\ need \in [Threads -> Nat]
    /\ late \in [Threads -> BOOLEAN]

Init ==
    /\ size = InitialSize
    /\ pc = [t \in Threads |-> "idle"]
    /\ need = [t \in Threads |-> 0]
    /\ late = [t \in Threads |-> FALSE]

-----------------------------------------------------------------------------

Claim(t, n) ==
    /\ pc[t] = "idle"
    /\ pc' = [pc EXCEPT ![t] = "running"]
    /\ need' = [need EXCEPT ![t] = n]
    /\ late' = [late EXCEPT ![t] = FALSE]
    /\ UNCHANGED size

\* Grant as it would be with `if` in place of `while` (see TypeOK).
GrantUnchecked(t) ==
    /\ pc[t] = "running"
    /\ size' = size - need[t]
    /\ pc' = [pc EXCEPT ![t] = "granted"]
    /\ UNCHANGED <<need, late>>

Grant(t) ==
    /\ pc[t] = "running"
    /\ size >= need[t]
    /\ size' = size - need[t]
    /\ pc' = [pc EXCEPT ![t] = "granted"]
    /\ UNCHANGED <<need, late>>

Refuse(t) ==
    /\ pc[t] = "running"
    /\ size < need[t]
    /\ late[t]
    /\ pc' = [pc EXCEPT ![t] = "refused"]
    /\ UNCHANGED <<size, need, late>>

Sleep(t) ==
    /\ pc[t] = "running"
    /\ size < need[t]
    /\ ~late[t]
    /\ pc' = [pc EXCEPT ![t] = "asleep"]
    /\ UNCHANGED <<size, need, late>>

\* time.monotonic() reaches the deadline, wherever the thread then is.
Deadline(t) ==
    /\ pc[t] \in {"running", "asleep"}
    /\ ~late[t]
    /\ late' = [late EXCEPT ![t] = TRUE]
    /\ UNCHANGED <<size, pc, need>>

\* TimeOut as it would be with wait() in place of wait(timeout=remaining).
WaitForever(t) == FALSE

\* wait(timeout=remaining) gives up and the loop condition is read again.
TimeOut(t) ==
    /\ pc[t] = "asleep"
    /\ late[t]
    /\ pc' = [pc EXCEPT ![t] = "running"]
    /\ UNCHANGED <<size, need, late>>

NotifyAll ==
    pc' = [t \in Threads |-> IF pc[t] = "asleep" THEN "running" ELSE pc[t]]

\* Add as it would be with notify() in place of notify_all().
AddNotifyOne(n) ==
    /\ size' = size + n
    /\ pc' \in {[pc EXCEPT ![t] = IF @ = "asleep" THEN "running" ELSE @] : t \in Threads}
    /\ UNCHANGED <<need, late>>

Add(n) ==
    /\ size' = size + n
    /\ NotifyAll
    /\ UNCHANGED <<need, late>>

Reset(n) ==
    /\ size' = n
    /\ NotifyAll
    /\ UNCHANGED <<need, late>>

\* claim() has returned and its caller is done with the result.
Return(t) ==
    /\ pc[t] \in {"granted", "refused"}
    /\ pc' = [pc EXCEPT ![t] = "idle"]
    /\ UNCHANGED <<size, need, late>>

ClaimStep(t) == Grant(t) \/ Refuse(t) \/ Sleep(t) \/ TimeOut(t)

Next ==
    \/ \E t \in Threads, n \in FrameSizes : Claim(t, n)
    \/ \E t \in Threads : ClaimStep(t) \/ Deadline(t) \/ Return(t)
    \/ \E n \in Grants : size + n <= MaxWindow /\ Add(n)
    \/ \E n \in Grants : Reset(n)

Spec == Init /\ [][Next]_flowVars

\* The lock is handed on and the clock moves on.  Nobody need add bytes.
FairSpec ==
    /\ Spec
    /\ \A t \in Threads : WF_flowVars(ClaimStep(t)) /\ WF_flowVars(Deadline(t))

-----------------------------------------------------------------------------

\* A thread sleeps only while its claim does not fit: every change that could
\* let it through has woken it (notify_all under the lock, lines 20 and 26).
NoLostWakeup == \A t \in Threads : pc[t] = "asleep" => size < need[t]

\* claim() returns, granted or refused, even when no byte is ever freed and
\* however the claimers overtake each other (timeout=1.0, lines 30 and 34-36).
ClaimReturns ==
    \A t \in Threads : pc[t] = "running" ~> pc[t] \in {"granted", "refused"}

-----------------------------------------------------------------------------
(* Proofs, for any set of threads, frame sizes and window sizes.           *)

LEMMA NextType == TypeOK /\ [Next]_flowVars => TypeOK'
  <1> SUFFICES ASSUME TypeOK, [Next]_flowVars PROVE TypeOK'
    OBVIOUS
  <1> USE FlowAssumption
  <1>1. CASE UNCHANGED flowVars
    BY <1>1 DEF TypeOK, flowVars
  <1>2. ASSUME NEW t \in Threads, NEW n \in FrameSizes, Claim(t, n) PROVE TypeOK'
    BY <1>2 DEF TypeOK, Claim
  <1>3. ASSUME NEW t \in Threads, Grant(t) PROVE TypeOK'
    <2>1. size \in Nat /\ need[t] \in Nat
      BY DEF TypeOK
    <2>2. size' \in Nat
      BY <1>3, <2>1 DEF Grant
    <2> QED  BY <1>3, <2>2 DEF TypeOK, Grant
  <1>4. ASSUME NEW t \in Threads, Refuse(t) \/ Sleep(t) \/ TimeOut(t) \/ Return(t) PROVE TypeOK'
    BY <1>4 DEF TypeOK, Refuse, Sleep, TimeOut, Return
  <1>5. ASSUME NEW t \in Threads, Deadline(t) PROVE TypeOK'
    BY <1>5 DEF TypeOK, Deadline
  <1>6. ASSUME NEW n \in Grants, Add(n) \/ Reset(n) PROVE TypeOK'
    <2>1. n \in Nat
      OBVIOUS
    <2>2. size' \in Nat
      BY <1>6, <2>1 DEF TypeOK, Add, Reset
    <2>3. pc' \in [Threads -> {"idle", "running", "asleep", "granted", "refused"}]
      BY <1>6 DEF TypeOK, Add, Reset, NotifyAll
    <2> QED  BY <1>6, <2>2, <2>3 DEF TypeOK, Add, Reset
  <1> QED  BY <1>1, <1>2, <1>3, <1>4, <1>5, <1>6 DEF Next, ClaimStep

\* The window is never overdrawn, whatever is claimed, freed and reset.
THEOREM TypeCorrect == Spec => []TypeOK
  <1>1. Init => TypeOK
    BY FlowAssumption DEF Init, TypeOK
  <1>2. TypeOK /\ [Next]_flowVars => TypeOK'
    BY NextType
  <1> QED  BY <1>1, <1>2, PTL DEF Spec

-----------------------------------------------------------------------------

\* NoLostWakeup is inductive: only Grant, Add and Reset write size.  The first
\* lowers it, the others leave nobody asleep.
LEMMA NextAwake == TypeOK /\ NoLostWakeup /\ [Next]_flowVars => NoLostWakeup'
  <1> SUFFICES ASSUME TypeOK, NoLostWakeup, [Next]_flowVars,
                      NEW t \in Threads, pc'[t] = "asleep"
               PROVE  size' < need'[t]
    BY DEF NoLostWakeup
  <1>1. CASE UNCHANGED flowVars
    BY <1>1 DEF NoLostWakeup, flowVars
  <1>2. ASSUME NEW u \in Threads, NEW n \in FrameSizes, Claim(u, n)
        PROVE  size' < need'[t]
    <2>1. u # t
      BY <1>2 DEF Claim, TypeOK
    <2> QED  BY <1>2, <2>1 DEF Claim, TypeOK, NoLostWakeup
  <1>3. ASSUME NEW u \in Threads, Grant(u) PROVE size' < need'[t]
    <2>1. u # t
      BY <1>3 DEF Grant, TypeOK
    <2>2. size \in Nat /\ need[u] \in Nat /\ need[t] \in Nat
      BY DEF TypeOK
    <2>3. size < need[t]
      BY <1>3, <2>1 DEF Grant, TypeOK, NoLostWakeup
    <2>4. size' = size - need[u] /\ need' = need
      BY <1>3 DEF Grant
    <2> QED  BY <2>2, <2>3, <2>4
  <1>4. ASSUME NEW u \in Threads, Sleep(u) PROVE size' < need'[t]
    BY <1>4 DEF Sleep, TypeOK, NoLostWakeup
  <1>5. ASSUME NEW u \in Threads, Refuse(u) \/ TimeOut(u) \/ Return(u) \/ Deadline(u)
        PROVE  size' < need'[t]
    BY <1>5 DEF Refuse, TimeOut, Return, Deadline, TypeOK, NoLostWakeup
  <1>6. ASSUME NEW n \in Grants, Add(n) \/ Reset(n) PROVE FALSE
    BY <1>6 DEF Add, Reset, NotifyAll
  <1> QED  BY <1>1, <1>2, <1>3, <1>4, <1>5, <1>6 DEF Next, ClaimStep

\* Nobody sleeps on a claim that fits.
THEOREM NoWakeupIsLost == Spec => []NoLostWakeup
  <1>1. Init => NoLostWakeup
    BY DEF Init, NoLostWakeup
  <1>2. TypeOK /\ NoLostWakeup /\ [Next]_flowVars => NoLostWakeup'
    BY NextAwake
  <1> QED  BY <1>1, <1>2, TypeCorrect, PTL DEF Spec
=============================================================================
