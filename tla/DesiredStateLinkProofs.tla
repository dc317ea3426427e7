------------------------ MODULE DesiredStateLinkProofs ------------------------
(***************************************************************************)
(* The tracker, and the link around it, for any number of threads,         *)
(* settings, options, reports, boots and frames underway, and without the  *)
(* bounds of their runs.  First what StateTracker's own specification      *)
(* promises; then that the link implements the settings register, and that *)
(* it converges.                                                           *)
(***************************************************************************)
EXTENDS DesiredStateLink, TLAPS

-----------------------------------------------------------------------------
(* THE TRACKER.                                                            *)

(* What a setter hands to Prepare.                                         *)

\* A step of a setter is a Prepare of host bits and settings, or nothing.
LEMMA SetterPrepares ==
    ASSUME TypeOK, NEW t \in Threads, Setter(t), trackerVars' # trackerVars
    PROVE  \E fl \in HostWords, st \in Settings : Prepare(t, fl, st)
  <1>1. CASE \E fs \in Setters : \E new \in [fs -> Values] : SetSettings(t, fs, new)
    <2>0. PICK fs \in Setters : \E new \in [fs -> Values] : SetSettings(t, fs, new)
      BY <1>1
    <2>1. PICK new \in [fs -> Values] : SetSettings(t, fs, new)
      BY <2>0
    <2> DEFINE st == [f \in Fields |-> IF f \in fs THEN new[f] ELSE settings[f]]
    <2>2. st \in Settings
      BY TrackerAssumption DEF TypeOK, Settings
    <2>3. Prepare(t, flags, st)
      BY <2>1 DEF SetSettings
    <2>4. flags \in HostWords
      BY DEF TypeOK
    <2> HIDE DEF st
    <2> QED  BY <2>2, <2>3, <2>4
  <1>2. CASE \E bit \in Options, enabled \in BOOLEAN : SetFlag(t, bit, enabled)
    <2>1. PICK bit \in Options, enabled \in BOOLEAN : SetFlag(t, bit, enabled)
      BY <1>2
    <2>2. With(bit, enabled) \in HostWords /\ settings \in Settings
      BY TrackerAssumption DEF TypeOK, With, HostWords, HostBits
    <2>3. Prepare(t, With(bit, enabled), settings)
      BY <2>1 DEF SetFlag
    <2> QED  BY <2>2, <2>3
  <1>3. CASE \E enabled \in BOOLEAN : RequestPtt(t, enabled)
    <2>1. PICK enabled \in BOOLEAN : RequestPtt(t, enabled)
      BY <1>3
    <2>2. With("PTT", enabled) \in HostWords /\ settings \in Settings
      BY DEF TypeOK, With, HostWords, HostBits
    <2> QED  BY <2>1, <2>2 DEF RequestPtt
  <1>4. CASE \E enabled \in BOOLEAN : RequestPttUnchanged(t, enabled)
    BY <1>4 DEF RequestPttUnchanged
  <1> QED  BY <1>1, <1>2, <1>3, <1>4 DEF Setter

-----------------------------------------------------------------------------
(* Types.                                                                  *)

LEMMA InitType == Init => TypeOK
  <1> SUFFICES ASSUME Init PROVE TypeOK
    OBVIOUS
  <1>1. settings \in Settings
    BY TrackerAssumption DEF Init, Settings
  <1>2. last \in [Edges -> BOOLEAN \cup {None}]
    BY DEF Init
  <1>3. \A t \in Threads : pc[t] = "idle" /\ snap[t] = None /\ lock # t
    BY TrackerAssumption DEF Init
  <1>4. /\ lock \in Threads \cup {None}
        /\ pc \in [Threads -> {"idle", "built", "sending", "written", "failed"}]
        /\ snap \in [Threads -> Snapshots \cup {None}]
    BY DEF Init
  <1>5. flags \in HostWords
    BY DEF Init, HostWords, HostBits
  <1>6. event \in BOOLEAN /\ plain \in BOOLEAN /\ inCallback \in BOOLEAN /\ cut \in BOOLEAN
    BY Zenon DEF Init
  <1>7. hello = 0 /\ sequence = 0 /\ deviceState = None /\ stage = "idle"
    BY DEF Init
  <1> QED  BY <1>1, <1>2, <1>3, <1>4, <1>5, <1>6, <1>7 DEF TypeOK

LEMMA PrepareType ==
    ASSUME TypeOK, NEW t \in Threads, NEW fl \in HostWords, NEW st \in Settings,
           Prepare(t, fl, st)
    PROVE  TypeOK'
  <1> DEFINE next == Larger(sequence, Applied) + 1
  <1> DEFINE s == [boot |-> hello, sequence |-> next, flags |-> fl, settings |-> st]
  <1>1. Applied \in Nat
    BY TrackerAssumption DEF TypeOK, Applied, DeviceStates
  <1>2. next \in Nat
    BY <1>1 DEF TypeOK, Larger
  <1>3. s \in Snapshots
    BY <1>2 DEF TypeOK, Snapshots
  <1>4. s # None
    BY <1>3, TrackerAssumption
  <1>5. /\ flags' = fl /\ settings' = st /\ sequence' = next
        /\ snap' = [snap EXCEPT ![t] = s]
        /\ lock' = t /\ pc' = [pc EXCEPT ![t] = "built"]
        /\ UNCHANGED <<hello, rxVars>> /\ lock = None /\ pc[t] = "idle"
    BY DEF Prepare, MayCall
  <1> HIDE DEF next, s
  <1>6. snap' \in [Threads -> Snapshots \cup {None}]
    BY <1>3, <1>5 DEF TypeOK
  <1>7. \A u \in Threads : snap'[u] = None <=> pc'[u] = "idle"
    BY <1>4, <1>5 DEF TypeOK
  <1>8. \A u \in Threads : lock' = u <=> pc'[u] = "built"
    BY <1>5, TrackerAssumption DEF TypeOK
  <1>9. /\ lock' \in Threads \cup {None}
        /\ pc' \in [Threads -> {"idle", "built", "sending", "written", "failed"}]
        /\ sequence' \in Nat /\ flags' \in HostWords /\ settings' \in Settings
    BY <1>2, <1>5 DEF TypeOK
  <1>10. UNCHANGED <<hello, event, deviceState, stage, plain, inCallback, last, cut>>
    BY <1>5 DEF rxVars
  <1> QED  BY <1>6, <1>7, <1>8, <1>9, <1>10 DEF TypeOK

LEMMA SendType ==
    ASSUME TypeOK, NEW t \in Threads, Release(t) \/ Transmit(t) \/ Raise(t) \/ Reacquire(t)
    PROVE  TypeOK'
  <1>1. CASE Release(t)
    <2>1. \A u \in Threads : lock' = u <=> pc'[u] = "built"
      BY <1>1, TrackerAssumption DEF TypeOK, Release
    <2> QED  BY <1>1, <2>1 DEF TypeOK, Release, hostVars, rxVars
  <1>2. CASE Transmit(t) \/ Raise(t)
    BY <1>2 DEF TypeOK, Transmit, Raise, hostVars, rxVars
  <1>3. CASE Reacquire(t)
    BY <1>3 DEF TypeOK, Reacquire, hostVars, rxVars
  <1> QED  BY <1>1, <1>2, <1>3

LEMMA RxType ==
    ASSUME TypeOK,
           \/ \E m \in DeviceStates : \E n \in Nat : OnHello(n, m)
           \/ \E m \in DeviceStates : OnDeviceState(m)
           \/ RxStep
    PROVE  TypeOK'
  <1>1. CASE \E m \in DeviceStates : \E n \in Nat : OnHello(n, m)
    <2>0. PICK m \in DeviceStates : \E n \in Nat : OnHello(n, m)
      BY <1>1
    <2>1. PICK n \in Nat : OnHello(n, m)
      BY <2>0
    <2>2. m \in DeviceStates /\ m # None /\ m.applied \in Nat /\ m.settings \in Settings
      BY TrackerAssumption DEF DeviceStates
    <2>3. HostFlags(m.flags) \in HostWords
      BY <2>2 DEF DeviceStates, HostFlags, HostWords, HostBits
    <2>4. /\ hello' \in Nat /\ deviceState' \in DeviceStates /\ deviceState' # None
          /\ sequence' \in Nat /\ flags' \in HostWords /\ settings' \in Settings
          /\ stage' = "event" /\ plain' = FALSE /\ cut' = FALSE
          /\ UNCHANGED <<lock, pc, snap, event, inCallback, last>>
      BY <2>1, <2>2, <2>3 DEF TypeOK, OnHello, callVars
    <2> QED  BY <2>4 DEF TypeOK
  <1>2. CASE \E m \in DeviceStates : OnDeviceState(m)
    <2>1. PICK m \in DeviceStates : OnDeviceState(m)
      BY <1>2
    <2>2. m \in DeviceStates /\ m # None /\ m.applied \in Nat
      BY TrackerAssumption DEF DeviceStates
    <2> QED  BY <2>1, <2>2 DEF TypeOK, OnDeviceState, callVars, Larger, Edges
  <1>3. CASE SetEvent
    BY <1>3 DEF TypeOK, SetEvent, hostVars, callVars
  <1>4. CASE Store
    <2>1. deviceState.applied \in Nat
      BY <1>4, TrackerAssumption DEF TypeOK, Store, DeviceStates
    <2> QED  BY <1>4, <2>1 DEF TypeOK, Store, callVars, Larger, Edges
  <1>5. CASE \E e \in Edges : Compare(e)
    <2>1. PICK e \in Edges : Compare(e)
      BY <1>5
    <2>2. Bit(e, deviceState.flags) \in BOOLEAN
      BY Zenon DEF Bit
    <2>3. After[e] \in {"idle", "notify"} \cup Edges
      BY DEF After, Edges
    <2>4. last' \in [Edges -> BOOLEAN \cup {None}]
      BY <2>1, <2>2 DEF TypeOK, Compare
    <2>5. inCallback' \in BOOLEAN
      BY <2>1 DEF Compare
    <2>6. stage' \in {"idle", "event", "store", "notify"} \cup Edges /\ deviceState' # None
      BY <2>1, <2>3 DEF TypeOK, Compare, Edges
    <2> QED  BY <2>1, <2>4, <2>5, <2>6 DEF TypeOK, Compare, hostVars, callVars
  <1>6. CASE CallbackReturns
    BY <1>6 DEF TypeOK, CallbackReturns, hostVars, callVars
  <1>7. CASE CallbackRaises
    BY <1>7 DEF TypeOK, CallbackRaises, hostVars, callVars
  <1>8. CASE Notify
    BY <1>8 DEF TypeOK, Notify, hostVars, callVars
  <1> QED  BY <1>1, <1>2, <1>3, <1>4, <1>5, <1>6, <1>7, <1>8 DEF RxStep

LEMMA NextType == TypeOK /\ [Next]_trackerVars => TypeOK'
  <1> SUFFICES ASSUME TypeOK, [Next]_trackerVars PROVE TypeOK'
    OBVIOUS
  <1>1. CASE UNCHANGED trackerVars
    BY <1>1 DEF TypeOK, trackerVars, hostVars, callVars, rxVars
  <1>2. ASSUME NEW t \in Threads, Setter(t), trackerVars' # trackerVars PROVE TypeOK'
    BY <1>2, SetterPrepares, PrepareType
  <1>3. ASSUME NEW t \in Threads, Release(t) \/ Transmit(t) \/ Raise(t) \/ Reacquire(t)
        PROVE  TypeOK'
    BY <1>3, SendType
  <1>4. ASSUME NEW m \in Reports, OnHello(hello + 1, m) \/ OnDeviceState(m) PROVE TypeOK'
    <2>1. m \in DeviceStates /\ hello + 1 \in Nat
      BY TrackerAssumption DEF TypeOK
    <2> QED  BY <1>4, <2>1, RxType
  <1>5. CASE RxStep
    BY <1>5, RxType
  <1> QED  BY <1>1, <1>2, <1>3, <1>4, <1>5 DEF Next

\* Every reachable state is well typed: each thread's program counter, lock and
\* snapshot agree, and the tracker never handles a report it has not stored.
THEOREM TypeCorrect == Spec => []TypeOK
  <1>1. Init => TypeOK
    BY InitType
  <1>2. TypeOK /\ [Next]_trackerVars => TypeOK'
    BY NextType
  <1> QED  BY <1>1, <1>2, PTL DEF Spec

-----------------------------------------------------------------------------
(* Numbering.  A snapshot built before a HELLO is out of the comparison, so *)
(* the invariant also says that none comes from a HELLO yet to be handled.  *)

BootsPast == \A t \in Threads : snap[t] # None => snap[t].boot <= hello

Numbered == TypeOK /\ BootsPast /\ NewestIsCurrent

LEMMA PrepareNumbered ==
    ASSUME Numbered, NEW t \in Threads, NEW fl \in HostWords, NEW st \in Settings,
           Prepare(t, fl, st)
    PROVE  (BootsPast /\ NewestIsCurrent)'
  <1> DEFINE next == Larger(sequence, Applied) + 1
  <1> DEFINE s == [boot |-> hello, sequence |-> next, flags |-> fl, settings |-> st]
  <1> USE DEF Numbered
  <1>1. Applied \in Nat
    BY TrackerAssumption DEF TypeOK, Applied, DeviceStates
  <1>2. sequence \in Nat /\ next \in Nat /\ sequence < next /\ hello \in Nat
    BY <1>1 DEF TypeOK, Larger
  <1>3. snap' = [snap EXCEPT ![t] = s] /\ sequence' = next /\ hello' = hello
        /\ flags' = fl /\ settings' = st
    BY DEF Prepare
  <1>4. s.boot = hello /\ s.sequence = next /\ s.flags = fl /\ s.settings = st
    OBVIOUS
  <1> HIDE DEF next, s
  <1>5. snap'[t] = s /\ \A u \in Threads \ {t} : snap'[u] = snap[u]
    BY <1>3 DEF TypeOK
  <1>6. \A u \in Threads : snap[u] # None => snap[u] \in Snapshots
    BY DEF TypeOK
  <1>7. BootsPast'
    BY <1>2, <1>3, <1>4, <1>5 DEF BootsPast
  <1>8. \A u \in Threads \ {t} : snap'[u] # None /\ snap'[u].boot = hello' =>
             snap'[u].sequence \in Nat /\ snap'[u].sequence < next
    BY <1>2, <1>3, <1>5, <1>6 DEF NewestIsCurrent, Snapshots
  <1>9. ASSUME NEW u \in Threads, snap'[u] # None, snap'[u].boot = hello'
        PROVE  /\ snap'[u].sequence <= sequence'
               /\ snap'[u].sequence = sequence' =>
                     snap'[u].flags = flags' /\ snap'[u].settings = settings'
               /\ \A w \in Threads \ {u} : snap'[w] # None /\ snap'[w].boot = hello' =>
                     snap'[w].sequence # snap'[u].sequence
    <2>1. CASE u = t
      BY <1>2, <1>3, <1>4, <1>5, <1>8, <2>1
    <2>2. CASE u # t
      <3>1. snap'[u].sequence \in Nat /\ snap'[u].sequence < next
        BY <1>8, <1>9, <2>2
      <3>2. ASSUME NEW w \in Threads \ {u}, snap'[w] # None, snap'[w].boot = hello'
            PROVE  snap'[w].sequence # snap'[u].sequence
        BY <1>2, <1>3, <1>4, <1>5, <1>9, <2>2, <3>1, <3>2 DEF NewestIsCurrent
      <3> QED  BY <1>2, <1>3, <3>1, <3>2
    <2> QED  BY <2>1, <2>2
  <1>10. NewestIsCurrent'
    BY <1>9 DEF NewestIsCurrent
  <1> QED  BY <1>7, <1>10

\* A step that keeps flags, settings and HELLO count, only forgets snapshots
\* and does not lower the number, keeps the order.
LEMMA KeepNumbered ==
    ASSUME Numbered, hello' = hello, flags' = flags, settings' = settings,
           sequence' \in Nat, sequence' >= sequence,
           \A t \in Threads : snap'[t] # None => snap'[t] = snap[t]
    PROVE  (BootsPast /\ NewestIsCurrent)'
  <1>1. sequence \in Nat /\ \A t \in Threads : snap[t] # None => snap[t].sequence \in Nat
    BY DEF Numbered, TypeOK, Snapshots
  <1>2. BootsPast'
    BY DEF Numbered, BootsPast
  <1>3. NewestIsCurrent'
    BY <1>1 DEF Numbered, NewestIsCurrent
  <1> QED  BY <1>2, <1>3

LEMMA NextNumbered == Numbered /\ [Next]_trackerVars => Numbered'
  <1> SUFFICES ASSUME Numbered, [Next]_trackerVars PROVE (BootsPast /\ NewestIsCurrent)'
    BY NextType DEF Numbered
  <1>0. TypeOK /\ sequence \in Nat
    BY DEF Numbered, TypeOK
  <1>1. CASE UNCHANGED trackerVars
    BY <1>0, <1>1, KeepNumbered DEF trackerVars, hostVars, callVars
  <1>2. ASSUME NEW t \in Threads, Setter(t), trackerVars' # trackerVars
        PROVE  (BootsPast /\ NewestIsCurrent)'
    BY <1>0, <1>2, SetterPrepares, PrepareNumbered
  <1>3. ASSUME NEW t \in Threads, Release(t) \/ Transmit(t) \/ Raise(t)
        PROVE  (BootsPast /\ NewestIsCurrent)'
    BY <1>0, <1>3, KeepNumbered DEF Release, Transmit, Raise, hostVars
  <1>4. ASSUME NEW t \in Threads, Reacquire(t) PROVE (BootsPast /\ NewestIsCurrent)'
    <2>1. \A u \in Threads : snap'[u] # None => snap'[u] = snap[u]
      BY <1>0, <1>4 DEF TypeOK, Reacquire
    <2> QED  BY <1>0, <1>4, <2>1, KeepNumbered DEF Reacquire, hostVars
  <1>5. ASSUME NEW m \in Reports, OnHello(hello + 1, m) PROVE (BootsPast /\ NewestIsCurrent)'
    <2>1. hello \in Nat /\ hello' = hello + 1 /\ snap' = snap
      BY <1>0, <1>5 DEF TypeOK, OnHello, callVars
    <2>2. \A t \in Threads : snap[t] # None => snap[t].boot \in Nat
      BY <1>0 DEF TypeOK, Snapshots
    <2>3. \A t \in Threads : snap'[t] # None => snap'[t].boot < hello' /\ snap'[t].boot \in Nat
      BY <2>1, <2>2 DEF Numbered, BootsPast
    <2> QED  BY <2>1, <2>3 DEF BootsPast, NewestIsCurrent
  <1>6. ASSUME NEW m \in Reports, OnDeviceState(m) PROVE (BootsPast /\ NewestIsCurrent)'
    <2>1. m.applied \in Nat
      BY TrackerAssumption DEF DeviceStates
    <2>2. sequence' \in Nat /\ sequence' >= sequence
      BY <1>0, <1>6, <2>1 DEF OnDeviceState, Larger
    <2> QED  BY <1>6, <2>2, KeepNumbered DEF OnDeviceState, callVars
  <1>7. CASE Store
    <2>1. deviceState.applied \in Nat
      BY <1>0, <1>7, TrackerAssumption DEF TypeOK, Store, DeviceStates
    <2>2. sequence' \in Nat /\ sequence' >= sequence
      BY <1>0, <1>7, <2>1 DEF Store, Larger
    <2> QED  BY <1>7, <2>2, KeepNumbered DEF Store, callVars
  <1>8. CASE SetEvent \/ (\E e \in Edges : Compare(e)) \/ Notify \/ CallbackReturns
             \/ CallbackRaises
    <2>1. UNCHANGED <<hostVars, callVars>>
      BY <1>8 DEF SetEvent, Compare, Notify, CallbackReturns, CallbackRaises
    <2> QED  BY <1>0, <2>1, KeepNumbered DEF hostVars, callVars
  <1> QED  BY <1>1, <1>2, <1>3, <1>4, <1>5, <1>6, <1>7, <1>8 DEF Next, RxStep

\* However setters, HELLOs and reports interleave, the snapshots of one HELLO
\* have different numbers and the newest number carries the host's state.
THEOREM NewestStaysCurrent == Spec => []NewestIsCurrent
  <1>1. Init => Numbered
    <2> SUFFICES ASSUME Init PROVE BootsPast /\ NewestIsCurrent
      BY InitType DEF Numbered
    <2>1. \A t \in Threads : snap[t] = None
      BY DEF Init
    <2> QED  BY <2>1 DEF BootsPast, NewestIsCurrent
  <1>2. Numbered /\ [Next]_trackerVars => Numbered'
    BY NextNumbered
  <1>3. Numbered => NewestIsCurrent
    BY DEF Numbered
  <1> QED  BY <1>1, <1>2, <1>3, PTL DEF Spec

-----------------------------------------------------------------------------
(* Edges.  A handler that was cut short is over: the next frame clears cut. *)

Reported == TypeOK /\ EdgesReported /\ (cut => RxFree)

LEMMA NextReported == Reported /\ [Next]_trackerVars => Reported'
  <1> SUFFICES ASSUME Reported, [Next]_trackerVars
               PROVE  (EdgesReported /\ (cut => RxFree))'
    BY NextType DEF Reported
  <1>0. TypeOK /\ EdgesReported /\ (cut => RxFree)
    BY DEF Reported
  <1>1. CASE UNCHANGED <<deviceState, stage, inCallback, last, cut>>
    BY <1>0, <1>1 DEF EdgesReported, Passed, RxFree
  <1>2. ASSUME NEW t \in Threads, Setter(t), trackerVars' # trackerVars
        PROVE  UNCHANGED <<deviceState, stage, inCallback, last, cut>>
    BY <1>0, <1>2, SetterPrepares DEF Prepare, rxVars
  <1>3. ASSUME NEW t \in Threads, Release(t) \/ Transmit(t) \/ Raise(t) \/ Reacquire(t)
        PROVE  UNCHANGED <<deviceState, stage, inCallback, last, cut>>
    BY <1>3 DEF Release, Transmit, Raise, Reacquire, rxVars
  <1>4. CASE \/ \E m \in Reports : OnHello(hello + 1, m) \/ OnDeviceState(m)
             \/ SetEvent \/ Store
    <2>1. stage' \in {"event", "store", "sql"} /\ cut' = FALSE
      BY <1>0, <1>4 DEF OnHello, OnDeviceState, SetEvent, Store, RxFree
    <2> QED  BY <2>1 DEF EdgesReported, Passed
  <1>5. ASSUME NEW e \in Edges, Compare(e) PROVE (EdgesReported /\ (cut => RxFree))'
    <2>1. cut = FALSE /\ cut' = FALSE
      BY <1>0, <1>5 DEF Compare, RxFree, Edges, TypeOK
    <2>2. deviceState' = deviceState /\ deviceState # None
      BY <1>0, <1>5 DEF Compare, TypeOK, Edges
    <2>3. \A x \in Edges : Passed(x)' => x = e \/ Passed(x)
      BY <1>5 DEF Compare, Passed, After, Edges
    <2>4. last'[e] = Bit(e, deviceState.flags) /\ \A x \in Edges \ {e} : last'[x] = last[x]
      BY <1>0, <1>5 DEF Compare, TypeOK
    <2>5. \A x \in Edges : Passed(x)' => last'[x] = Bit(x, deviceState.flags)
      BY <1>0, <2>1, <2>2, <2>3, <2>4 DEF EdgesReported
    <2> QED  BY <2>1, <2>2, <2>5 DEF EdgesReported
  <1>6. CASE CallbackReturns
    BY <1>0, <1>6 DEF CallbackReturns, EdgesReported, Passed, RxFree
  <1>7. CASE CallbackRaises
    <2>1. CASE stage \in {"notify", "idle"}
      BY <1>0, <1>7, <2>1 DEF CallbackRaises, EdgesReported, Passed, RxFree
    <2>2. CASE stage \notin {"notify", "idle"}
      BY <1>7, <2>2 DEF CallbackRaises, EdgesReported, RxFree
    <2> QED  BY <2>1, <2>2
  <1>8. CASE Notify
    BY <1>0, <1>8 DEF Notify, EdgesReported, Passed, RxFree
  <1> QED
    BY <1>1, <1>2, <1>3, <1>4, <1>5, <1>6, <1>7, <1>8
    DEF Next, RxStep, trackerVars, rxVars

\* The callbacks and the cached device state agree on every edge the handler
\* has passed, unless a callback raised.
THEOREM EdgesStayReported == Spec => []EdgesReported
  <1>1. Init => Reported
    <2> SUFFICES ASSUME Init PROVE EdgesReported /\ (cut => RxFree)
      BY InitType DEF Reported
    <2> QED  BY DEF Init, EdgesReported
  <1>2. Reported /\ [Next]_trackerVars => Reported'
    BY NextReported
  <1>3. Reported => EdgesReported
    BY DEF Reported
  <1> QED  BY <1>1, <1>2, <1>3, PTL DEF Spec

-----------------------------------------------------------------------------
(* THE LINK.                                                               *)

\* Boots are heard of in order, and nothing is from a boot yet to come.
BootOrder ==
    /\ BootsPast
    /\ \A i \in DOMAIN wire : wire[i].boot <= hello
    /\ hello <= fw.boot /\ fw.from <= fw.boot
    /\ \A i \in DOMAIN inbox : inbox[i].kind = "hello" =>
          /\ hello < inbox[i].boot /\ inbox[i].boot <= fw.boot
          /\ \A j \in DOMAIN inbox : j < i /\ inbox[j].kind = "hello" =>
                inbox[j].boot < inbox[i].boot

LinkInv == LinkTypeOK /\ BootOrder

\* HostStep without the run's bound on numbers, which no proof needs.
HostMove ==
    \/ \E t \in Threads : (Setter(t) \/ Release(t) \/ Reacquire(t)) /\ UNCHANGED linkVars
    \/ RxStep /\ UNCHANGED linkVars
    \/ \E t \in Threads : Write(t) \/ WriteFails(t)
    \/ HandleHello
    \/ HandleDeviceState

LEMMA HostMoves == HostStep => HostMove
  BY Zenon DEF HostStep, HostMove

-----------------------------------------------------------------------------
(* Sequences: what the two ends of a channel do to its contents.           *)

LEMMA TailElements ==
    ASSUME NEW S, NEW q \in Seq(S), q # <<>>
    PROVE  /\ Tail(q) \in Seq(S) /\ Head(q) \in S /\ Head(q) = q[1] /\ 1 \in DOMAIN q
           /\ \A i \in DOMAIN Tail(q) : i + 1 \in DOMAIN q /\ Tail(q)[i] = q[i + 1] /\ i \in Nat
           /\ \A i \in DOMAIN q : i \in Nat /\ i >= 1
  OBVIOUS

LEMMA AppendElements ==
    ASSUME NEW S, NEW q \in Seq(S), NEW x \in S
    PROVE  /\ Append(q, x) \in Seq(S)
           /\ \A i \in DOMAIN Append(q, x) :
                 \/ i \in DOMAIN q /\ Append(q, x)[i] = q[i]
                 \/ i = Len(q) + 1 /\ Append(q, x)[i] = x
           /\ \A i \in DOMAIN q : i < Len(q) + 1
           /\ Len(q) + 1 \notin DOMAIN q
  OBVIOUS

LEMMA SuffixElements ==
    ASSUME NEW S, NEW q \in Seq(S), NEW k \in 0 .. Len(q)
    PROVE  /\ SubSeq(q, k + 1, Len(q)) \in Seq(S)
           /\ \A i \in DOMAIN SubSeq(q, k + 1, Len(q)) :
                 i + k \in DOMAIN q /\ SubSeq(q, k + 1, Len(q))[i] = q[i + k]
  OBVIOUS

-----------------------------------------------------------------------------
(* Types.                                                                  *)

LEMMA LinkInitType == LinkInit => LinkTypeOK
  <1> SUFFICES ASSUME LinkInit PROVE LinkTypeOK
    OBVIOUS
  <1>1. TypeOK
    BY InitType DEF LinkInit
  <1>2. PICK s \in BootStates : fw = Firmware(0, 0, s)
    BY DEF LinkInit
  <1>3. fw \in [boot : Nat, from : Nat, state : DeviceStates]
    BY <1>2, LinkAssumption DEF Firmware
  <1>4. wire \in Seq(Sendable) /\ inbox \in Seq(Frames) /\ mishaps \subseteq {"write", "frame"}
    BY DEF LinkInit
  <1> QED  BY <1>1, <1>3, <1>4 DEF LinkTypeOK

LEMMA HostType == LinkTypeOK /\ HostMove => LinkTypeOK'
  <1> SUFFICES ASSUME LinkTypeOK, HostMove PROVE LinkTypeOK'
    OBVIOUS
  <1>0. TypeOK /\ (UNCHANGED trackerVars => TypeOK')
    BY NextType DEF LinkTypeOK
  <1>1. ASSUME NEW t \in Threads, Setter(t) \/ Release(t) \/ Reacquire(t), UNCHANGED linkVars
        PROVE  LinkTypeOK'
    <2>1. TypeOK'
      BY <1>0, <1>1, SetterPrepares, PrepareType, SendType
    <2> QED  BY <1>1, <2>1 DEF LinkTypeOK, linkVars
  <1>2. CASE RxStep /\ UNCHANGED linkVars
    BY <1>0, <1>2, RxType DEF LinkTypeOK, linkVars
  <1>3. ASSUME NEW t \in Threads, Write(t) PROVE LinkTypeOK'
    <2>1. TypeOK' /\ Transmit(t)
      BY <1>0, <1>3, SendType DEF Write
    <2>2. snap[t] \in Sendable
      BY <1>0, <2>1 DEF Transmit, Packable, Sendable, TypeOK
    <2>3. wire' \in Seq(Sendable)
      BY <1>3, <2>2, AppendElements DEF Write, LinkTypeOK
    <2> QED  BY <1>3, <2>1, <2>3 DEF Write, LinkTypeOK
  <1>4. ASSUME NEW t \in Threads, WriteFails(t) PROVE LinkTypeOK'
    <2>1. TypeOK'
      BY <1>0, <1>4, SendType DEF WriteFails
    <2> QED  BY <1>4, <2>1 DEF WriteFails, LinkTypeOK
  <1>5. CASE HandleHello \/ HandleDeviceState
    <2>1. inbox # <<>> /\ inbox' = Tail(inbox) /\ UNCHANGED <<wire, fw, mishaps>>
      BY <1>5 DEF HandleHello, HandleDeviceState, Receive
    <2>2. inbox' \in Seq(Frames) /\ Head(inbox) \in Frames
      BY <2>1, TailElements DEF LinkTypeOK
    <2>3. Head(inbox).boot \in Nat /\ Head(inbox).state \in DeviceStates
      BY <2>2 DEF Frames
    <2>4. TypeOK'
      BY <1>0, <1>5, <2>3, RxType DEF HandleHello, HandleDeviceState
    <2> QED  BY <2>1, <2>2, <2>4 DEF LinkTypeOK
  <1> QED  BY <1>1, <1>2, <1>3, <1>4, <1>5 DEF HostMove

LEMMA DeviceType == LinkTypeOK /\ DeviceStep => LinkTypeOK'
  <1> SUFFICES ASSUME LinkTypeOK, DeviceStep PROVE LinkTypeOK'
    OBVIOUS
  <1>0. TypeOK'
    <2>1. UNCHANGED trackerVars
      BY DEF DeviceStep, Apply, PassOver, Lose, Report, Reboot, BootUp
    <2> QED  BY <2>1, NextType DEF LinkTypeOK
  <1>1. CASE Apply
    <2>1. wire # <<>> /\ wire' = Tail(wire)
      BY <1>1 DEF Apply, Take
    <2>2. wire' \in Seq(Sendable) /\ Head(wire) \in Sendable
      BY <2>1, TailElements DEF LinkTypeOK
    <2> DEFINE s == [applied |-> Head(wire).sequence, flags |-> Head(wire).flags,
                     settings |-> Head(wire).settings]
    <2>3. s \in DeviceStates /\ Head(wire).boot \in Nat
      BY <2>2, TrackerAssumption DEF DeviceStates, Sendable, Snapshots, HostWords
    <2>4. fw' = Firmware(fw.boot, Head(wire).boot, s)
      BY <1>1 DEF Apply
    <2> HIDE DEF s
    <2>5. fw' \in [boot : Nat, from : Nat, state : DeviceStates]
      BY <2>3, <2>4 DEF Firmware, LinkTypeOK
    <2> QED  BY <1>0, <1>1, <2>2, <2>5 DEF Apply, LinkTypeOK
  <1>2. CASE PassOver \/ Lose
    <2>1. wire # <<>> /\ wire' = Tail(wire)
      BY <1>2 DEF PassOver, Lose, Take
    <2>2. wire' \in Seq(Sendable)
      BY <2>1, TailElements DEF LinkTypeOK
    <2> QED  BY <1>0, <1>2, <2>2 DEF PassOver, Lose, LinkTypeOK
  <1>3. CASE Report
    <2>1. Frame("state") \in Frames
      BY DEF Frame, Frames, LinkTypeOK
    <2>2. inbox' \in Seq(Frames)
      BY <1>3, <2>1, AppendElements DEF Report, LinkTypeOK
    <2> QED  BY <1>0, <1>3, <2>2 DEF Report, LinkTypeOK
  <1>4. ASSUME NEW s \in BootStates, NEW k \in 0 .. Len(wire), Reboot(s, k)
        PROVE  LinkTypeOK'
    <2>1. s \in DeviceStates /\ fw.boot + 1 \in Nat
      BY LinkAssumption DEF LinkTypeOK
    <2>2. inbox' \in Seq(Frames)
      BY <1>4, <2>1, AppendElements DEF Reboot, BootUp, Frames, LinkTypeOK
    <2>3. fw' \in [boot : Nat, from : Nat, state : DeviceStates]
      BY <1>4, <2>1 DEF Reboot, BootUp, Firmware
    <2>4. wire' \in Seq(Sendable)
      BY <1>4, SuffixElements DEF Reboot, BootUp, LinkTypeOK
    <2> QED  BY <1>0, <1>4, <2>2, <2>3, <2>4 DEF Reboot, BootUp, LinkTypeOK
  <1> QED  BY <1>1, <1>2, <1>3, <1>4 DEF DeviceStep

LEMMA LinkNextType == LinkTypeOK /\ [LinkNext]_vars => LinkTypeOK'
  <1>1. LinkTypeOK /\ UNCHANGED vars => LinkTypeOK'
    BY NextType DEF LinkTypeOK, vars, linkVars
  <1> QED  BY <1>1, HostMoves, HostType, DeviceType DEF LinkNext

\* The composition is well typed: in particular no number is sent that the
\* field could not hold, and every device state handled is one that was sent.
THEOREM LinkTypeCorrect == LinkSpec => []LinkTypeOK
  <1> QED  BY LinkInitType, LinkNextType, PTL DEF LinkSpec

-----------------------------------------------------------------------------
(* Boots.                                                                  *)

\* The host's steps leave the device alone, and their snapshots are of the boot
\* the host knows of.
LEMMA HostOrder == LinkInv /\ HostMove => BootOrder'
  <1> SUFFICES ASSUME LinkInv, HostMove PROVE BootOrder'
    OBVIOUS
  <1>0. LinkTypeOK /\ TypeOK /\ BootOrder /\ BootsPast /\ hello \in Nat
    BY DEF LinkInv, LinkTypeOK, TypeOK, BootOrder
  <1>1. ASSUME UNCHANGED linkVars, hello' = hello,
               \A t \in Threads : snap'[t] # None =>
                  snap'[t] = snap[t] \/ snap'[t].boot = hello
        PROVE  BootOrder'
    <2>1. BootsPast'
      BY <1>0, <1>1 DEF BootsPast
    <2> QED  BY <1>0, <1>1, <2>1 DEF BootOrder, linkVars
  <1>2. ASSUME NEW t \in Threads, Setter(t), UNCHANGED linkVars PROVE BootOrder'
    <2>1. CASE trackerVars' = trackerVars
      BY <1>1, <1>2, <2>1 DEF trackerVars, hostVars, callVars
    <2>2. CASE trackerVars' # trackerVars
      <3>1. PICK fl \in HostWords : \E st \in Settings : Prepare(t, fl, st)
        BY <1>0, <1>2, <2>2, SetterPrepares
      <3>2. PICK st \in Settings : Prepare(t, fl, st)
        BY <3>1
      <3>3. hello' = hello /\ snap'[t].boot = hello
            /\ \A u \in Threads \ {t} : snap'[u] = snap[u]
        BY <1>0, <3>2 DEF Prepare, TypeOK
      <3> QED  BY <1>1, <1>2, <3>3
    <2> QED  BY <2>1, <2>2
  <1>3. ASSUME NEW t \in Threads, Release(t) \/ Reacquire(t), UNCHANGED linkVars
        PROVE  BootOrder'
    <2>1. hello' = hello /\ \A u \in Threads : snap'[u] # None => snap'[u] = snap[u]
      BY <1>0, <1>3 DEF Release, Reacquire, hostVars, TypeOK
    <2> QED  BY <1>1, <1>3, <2>1
  <1>4. CASE RxStep /\ UNCHANGED linkVars
    <2>1. hello' = hello /\ snap' = snap
      BY <1>4 DEF RxStep, SetEvent, Store, Compare, Notify, CallbackReturns, CallbackRaises,
                  hostVars, callVars
    <2> QED  BY <1>1, <1>4, <2>1
  <1>5. ASSUME NEW t \in Threads, Write(t) PROVE BootOrder'
    <2>1. Transmit(t) /\ wire' = Append(wire, snap[t]) /\ UNCHANGED <<inbox, fw, mishaps>>
      BY <1>5 DEF Write
    <2>2. hello' = hello /\ snap' = snap /\ snap[t] # None /\ snap[t] \in Sendable
      BY <1>0, <2>1 DEF Transmit, Packable, hostVars, TypeOK, Sendable
    <2>3. snap[t].boot <= hello
      BY <1>0, <2>2 DEF BootsPast
    <2>4. \A i \in DOMAIN wire' :
             \/ i \in DOMAIN wire /\ wire'[i] = wire[i]
             \/ wire'[i] = snap[t]
      BY <1>0, <2>1, <2>2, AppendElements DEF LinkTypeOK
    <2>5. \A i \in DOMAIN wire' : wire'[i].boot <= hello'
      BY <1>0, <2>2, <2>3, <2>4 DEF BootOrder
    <2>6. BootsPast'
      BY <1>0, <2>2 DEF BootsPast
    <2> QED  BY <1>0, <2>1, <2>2, <2>5, <2>6 DEF BootOrder
  <1>6. ASSUME NEW t \in Threads, WriteFails(t) PROVE BootOrder'
    <2>1. UNCHANGED <<hello, snap, wire, inbox, fw>>
      BY <1>6 DEF WriteFails, Raise, hostVars
    <2> QED  BY <1>0, <2>1 DEF BootOrder, BootsPast
  <1>7. CASE HandleHello \/ HandleDeviceState
    <2>1. inbox # <<>> /\ inbox' = Tail(inbox) /\ UNCHANGED <<wire, fw>> /\ snap' = snap
      BY <1>7 DEF HandleHello, HandleDeviceState, Receive, OnHello, OnDeviceState, callVars
    <2>2. /\ 1 \in DOMAIN inbox /\ Head(inbox) = inbox[1]
          /\ \A i \in DOMAIN inbox' : i + 1 \in DOMAIN inbox /\ inbox'[i] = inbox[i + 1]
                                    /\ i \in Nat
          /\ \A i \in DOMAIN inbox : i \in Nat /\ i >= 1
      BY <1>0, <2>1, TailElements DEF LinkTypeOK
    <2>3. hello' \in Nat /\ hello <= hello' /\ hello' <= fw.boot
          /\ \A i \in DOMAIN inbox' : inbox'[i].kind = "hello" => hello' < inbox'[i].boot
      <3>1. CASE HandleHello
        <4>1. hello' = inbox[1].boot /\ inbox[1].kind = "hello"
          BY <2>2, <3>1 DEF HandleHello, Receive, OnHello
        <4>2. inbox[1] \in Frames
          BY <1>0, <2>1, <2>2, TailElements DEF LinkTypeOK
        <4>3. hello' \in Nat /\ hello < hello' /\ hello' <= fw.boot
          BY <1>0, <2>2, <4>1, <4>2 DEF BootOrder, Frames
        <4>4. ASSUME NEW i \in DOMAIN inbox', inbox'[i].kind = "hello"
              PROVE  hello' < inbox'[i].boot
          <5>1. i + 1 \in DOMAIN inbox /\ inbox'[i] = inbox[i + 1] /\ i \in Nat /\ i >= 1
            BY <2>1, <2>2, TailElements, <1>0 DEF LinkTypeOK
          <5>2. 1 < i + 1 /\ inbox[i + 1].kind = "hello"
            BY <4>4, <5>1
          <5> QED  BY <1>0, <2>2, <4>1, <5>1, <5>2 DEF BootOrder
        <4> QED  BY <1>0, <4>3, <4>4 DEF BootOrder
      <3>2. CASE HandleDeviceState
        BY <1>0, <2>2, <3>2 DEF HandleDeviceState, OnDeviceState, BootOrder
      <3> QED  BY <1>7, <3>1, <3>2
    <2>4. BootsPast'
      <3>1. \A t \in Threads : snap[t] # None => snap[t].boot \in Nat
        BY <1>0 DEF TypeOK, Snapshots
      <3> QED  BY <1>0, <2>1, <2>3, <3>1 DEF BootsPast
    <2>5. \A i \in DOMAIN wire' : wire'[i].boot <= hello'
      <3>1. \A i \in DOMAIN wire : wire[i].boot \in Nat
        BY <1>0 DEF LinkTypeOK, Sendable, Snapshots
      <3> QED  BY <1>0, <2>1, <2>3, <3>1 DEF BootOrder
    <2>6. \A i \in DOMAIN inbox' : inbox'[i].kind = "hello" =>
             /\ inbox'[i].boot <= fw'.boot
             /\ \A j \in DOMAIN inbox' : j < i /\ inbox'[j].kind = "hello" =>
                   inbox'[j].boot < inbox'[i].boot
      BY <1>0, <2>1, <2>2 DEF BootOrder
    <2>7. fw'.from <= fw'.boot /\ hello' <= fw'.boot
      BY <1>0, <2>1, <2>3 DEF BootOrder
    <2> QED  BY <2>3, <2>4, <2>5, <2>6, <2>7 DEF BootOrder
  <1> QED  BY <1>2, <1>3, <1>4, <1>5, <1>6, <1>7 DEF HostMove

LEMMA DeviceOrder == LinkInv /\ DeviceStep => BootOrder'
  <1> SUFFICES ASSUME LinkInv, DeviceStep PROVE BootOrder'
    OBVIOUS
  <1>0. LinkTypeOK /\ BootOrder /\ hello \in Nat /\ fw.boot \in Nat
    BY DEF LinkInv, LinkTypeOK, TypeOK
  <1>1. BootsPast' /\ hello' = hello
    BY <1>0 DEF DeviceStep, Apply, PassOver, Lose, Report, Reboot, BootUp, BootOrder, BootsPast,
                trackerVars, hostVars, callVars
  <1>2. CASE Apply \/ PassOver \/ Lose
    <2>1. wire # <<>> /\ wire' = Tail(wire) /\ inbox' = inbox /\ fw'.boot = fw.boot
          /\ (fw'.from = fw.from \/ fw'.from = Head(wire).boot)
      BY <1>2 DEF Apply, PassOver, Lose, Take, Firmware
    <2>2. /\ 1 \in DOMAIN wire /\ Head(wire) = wire[1] /\ Head(wire) \in Sendable
          /\ \A i \in DOMAIN wire' : i + 1 \in DOMAIN wire /\ wire'[i] = wire[i + 1]
      BY <1>0, <2>1, TailElements DEF LinkTypeOK
    <2>3. Head(wire).boot \in Nat /\ Head(wire).boot <= hello
      BY <1>0, <2>2 DEF BootOrder, Sendable, Snapshots
    <2>4. fw'.from <= fw'.boot
      BY <1>0, <2>1, <2>3 DEF BootOrder, LinkTypeOK
    <2>5. \A i \in DOMAIN wire' : wire'[i].boot <= hello'
      BY <1>0, <1>1, <2>2 DEF BootOrder
    <2> QED  BY <1>0, <1>1, <2>1, <2>4, <2>5 DEF BootOrder
  <1>3. CASE Report
    <2>1. Frame("state") \in Frames /\ Frame("state").kind = "state"
      BY <1>0 DEF Frame, Frames, LinkTypeOK
    <2>2. inbox' = Append(inbox, Frame("state")) /\ UNCHANGED <<wire, fw>>
      BY <1>3 DEF Report
    <2>3. \A i \in DOMAIN inbox' : inbox'[i].kind = "hello" =>
             i \in DOMAIN inbox /\ inbox'[i] = inbox[i]
      BY <1>0, <2>1, <2>2, AppendElements DEF LinkTypeOK
    <2> QED  BY <1>0, <1>1, <2>2, <2>3 DEF BootOrder
  <1>4. ASSUME NEW s \in BootStates, NEW k \in 0 .. Len(wire), Reboot(s, k)
        PROVE  BootOrder'
    <2> DEFINE m == [kind |-> "hello", boot |-> fw.boot + 1, state |-> s]
    <2>1. fw'.boot = fw.boot + 1 /\ fw'.from = fw.boot + 1 /\ inbox' = Append(inbox, m)
      BY <1>4 DEF Reboot, BootUp, Firmware
    <2>2. m \in Frames /\ m.boot = fw.boot + 1
      BY <1>0, LinkAssumption DEF Frames
    <2> HIDE DEF m
    <2>3. /\ \A i \in DOMAIN inbox' :
                \/ i \in DOMAIN inbox /\ inbox'[i] = inbox[i]
                \/ i = Len(inbox) + 1 /\ inbox'[i] = m
          /\ \A i \in DOMAIN inbox : i < Len(inbox) + 1
      BY <1>0, <2>1, <2>2, AppendElements DEF LinkTypeOK
    <2>4. /\ \A i \in DOMAIN inbox : inbox[i].boot \in Nat
          /\ Len(inbox) \in Nat
          /\ \A i \in DOMAIN inbox : i \in Nat
      <3>1. inbox \in Seq(Frames)
        BY <1>0 DEF LinkTypeOK
      <3>2. Len(inbox) \in Nat /\ DOMAIN inbox = 1 .. Len(inbox)
            /\ \A i \in DOMAIN inbox : inbox[i] \in Frames
        BY <3>1
      <3> QED  BY <3>2 DEF Frames
    <2>5. \A i \in DOMAIN wire' : wire'[i].boot <= hello'
      <3>1. \A i \in DOMAIN wire' : i + k \in DOMAIN wire /\ wire'[i] = wire[i + k]
        BY <1>0, <1>4, SuffixElements DEF Reboot, BootUp, LinkTypeOK
      <3> QED  BY <1>0, <1>1, <3>1 DEF BootOrder
    <2>6. ASSUME NEW i \in DOMAIN inbox', inbox'[i].kind = "hello"
          PROVE  /\ hello' < inbox'[i].boot /\ inbox'[i].boot <= fw'.boot
                 /\ \A j \in DOMAIN inbox' : j < i /\ inbox'[j].kind = "hello" =>
                       inbox'[j].boot < inbox'[i].boot
      <3>1. CASE i \in DOMAIN inbox /\ inbox'[i] = inbox[i]
        <4>1. \A j \in DOMAIN inbox' : j < i => j \in DOMAIN inbox /\ inbox'[j] = inbox[j]
          BY <2>3, <2>4, <3>1
        <4>2. inbox[i].boot \in Nat
          BY <2>4, <3>1
        <4> QED  BY <1>0, <1>1, <2>1, <2>6, <3>1, <4>1, <4>2 DEF BootOrder
      <3>2. CASE i = Len(inbox) + 1 /\ inbox'[i] = m
        <4>1. \A j \in DOMAIN inbox' : j < i => j \in DOMAIN inbox /\ inbox'[j] = inbox[j]
          BY <2>3, <2>4, <3>2
        <4>2. \A j \in DOMAIN inbox' : j < i /\ inbox'[j].kind = "hello" =>
                 inbox'[j].boot <= fw.boot /\ inbox'[j].boot \in Nat
          BY <1>0, <2>4, <4>1 DEF BootOrder
        <4>3. hello <= fw.boot
          BY <1>0 DEF BootOrder
        <4> QED  BY <1>0, <1>1, <2>1, <2>2, <3>2, <4>2, <4>3
      <3> QED  BY <2>3, <3>1, <3>2
    <2>7. hello' <= fw'.boot /\ fw'.from <= fw'.boot
      BY <1>0, <1>1, <2>1 DEF BootOrder
    <2> QED  BY <1>1, <2>5, <2>6, <2>7 DEF BootOrder
  <1> QED  BY <1>2, <1>3, <1>4 DEF DeviceStep

LEMMA LinkInitInv == LinkInit => LinkInv
  <1> SUFFICES ASSUME LinkInit PROVE BootOrder
    BY LinkInitType DEF LinkInv
  <1>1. hello = 0 /\ wire = <<>> /\ inbox = <<>> /\ \A t \in Threads : snap[t] = None
    BY DEF LinkInit, Init
  <1>2. fw.boot = 0 /\ fw.from = 0
    BY DEF LinkInit, Firmware
  <1> QED  BY <1>1, <1>2 DEF BootOrder, BootsPast

LEMMA LinkNextInv == LinkInv /\ [LinkNext]_vars => LinkInv'
  <1>1. LinkInv /\ UNCHANGED vars => BootOrder'
    BY DEF LinkInv, BootOrder, BootsPast, vars, linkVars, trackerVars, hostVars, callVars
  <1> QED  BY <1>1, LinkNextType, HostMoves, HostOrder, DeviceOrder DEF LinkInv, LinkNext

-----------------------------------------------------------------------------
(* Refinement.                                                             *)

Adopted == StateOffer(fw.from, fw.state)
Known == offers \cup {Adopted}

LEMMA MappedTypes ==
    ASSUME LinkTypeOK
    PROVE  /\ latest \in Register!Offers
           /\ Adopted \in Register!Offers
           /\ \A s \in Sendable : SnapshotOffer(s) \in Register!Offers
           /\ \A t \in Threads : snap[t] # None => SnapshotOffer(snap[t]) \in Register!Offers
           /\ \A n \in Nat, s \in DeviceStates : StateOffer(n, s) \in Register!Offers
  <1>1. \A s \in Snapshots : SnapshotOffer(s) \in Register!Offers
    <2> SUFFICES ASSUME NEW s \in Snapshots PROVE SnapshotOffer(s) \in Register!Offers
      OBVIOUS
    <2>1. HostFlags(s.flags) \in HostWords /\ s.settings \in Settings
      BY DEF Snapshots, HostFlags, HostWords, HostBits
    <2> QED  BY <2>1 DEF SnapshotOffer, ConfigOf, Register!Offers, Snapshots
  <1>2. \A n \in Nat, s \in DeviceStates : StateOffer(n, s) \in Register!Offers
    <2> SUFFICES ASSUME NEW n \in Nat, NEW s \in DeviceStates
                 PROVE  StateOffer(n, s) \in Register!Offers
      OBVIOUS
    <2>1. HostFlags(s.flags) \in HostWords /\ s.settings \in Settings /\ s.applied \in Nat
      BY TrackerAssumption DEF DeviceStates, HostFlags, HostWords, HostBits
    <2> QED  BY <2>1 DEF StateOffer, ConfigOf, Register!Offers
  <1>3. latest \in Register!Offers
    BY DEF LinkTypeOK, TypeOK, latest, Register!Offers
  <1>4. Adopted \in Register!Offers
    BY <1>2 DEF LinkTypeOK, Adopted
  <1> QED  BY <1>1, <1>2, <1>3, <1>4 DEF Sendable, LinkTypeOK, TypeOK

\* Offers come from the hands, the wire and the HELLOs of the inbox: if those
\* hold nothing new, some offers may have gone and none is added.
LEMMA NothingNew ==
    ASSUME NEW X,
           \A t \in Threads : snap'[t] # None =>
              SnapshotOffer(snap'[t]) \in Known \cup X,
           \A i \in DOMAIN wire' : SnapshotOffer(wire'[i]) \in Known \cup X,
           \A i \in DOMAIN inbox' : inbox'[i].kind = "hello" =>
              StateOffer(inbox'[i].boot, inbox'[i].state) \in Known \cup X
    PROVE  offers' \subseteq Known \cup X
  BY DEF offers, SnapshotOffer, StateOffer, ConfigOf, HostFlags

LEMMA OffersInclude ==
    /\ \A t \in Threads : snap[t] # None => SnapshotOffer(snap[t]) \in offers
    /\ \A i \in DOMAIN wire : SnapshotOffer(wire[i]) \in offers
    /\ \A i \in DOMAIN inbox : inbox[i].kind = "hello" =>
          StateOffer(inbox[i].boot, inbox[i].state) \in offers
  BY DEF offers

\* A step that leaves the line and the device alone and takes up no snapshot.
LEMMA HandsOnly ==
    ASSUME UNCHANGED linkVars,
           \A t \in Threads : snap'[t] # None => snap'[t] = snap[t]
    PROVE  offers' \subseteq Known /\ Adopted' = Adopted
  <1>1. Adopted' = Adopted
    BY DEF linkVars, Adopted, StateOffer, ConfigOf, HostFlags
  <1>2. offers' \subseteq Known \cup {}
    <2>1. wire' = wire /\ inbox' = inbox
      BY DEF linkVars
    <2> QED  BY <2>1, OffersInclude, NothingNew DEF Known
  <1> QED  BY <1>1, <1>2

LEMMA SetterRefines ==
    ASSUME LinkTypeOK, NEW t \in Threads, Setter(t), UNCHANGED linkVars
    PROVE  [Register!Next]_(Register!registerVars)
  <1>0. TypeOK
    BY DEF LinkTypeOK
  <1>1. CASE trackerVars' = trackerVars
    <2>1. offers' \subseteq Known /\ Adopted' = Adopted
      BY <1>1, HandsOnly DEF trackerVars, callVars
    <2>2. latest' = latest
      BY <1>1 DEF latest, trackerVars, hostVars
    <2> QED
      BY <2>1, <2>2 DEF Register!Next, Register!Forget, Register!Known, Known, Adopted
  <1>2. CASE trackerVars' # trackerVars
    <2>1. PICK fl \in HostWords : \E st \in Settings : Prepare(t, fl, st)
      BY <1>0, <1>2, SetterPrepares
    <2>2. PICK st \in Settings : Prepare(t, fl, st)
      BY <2>1
    <2> DEFINE next == Larger(sequence, Applied) + 1
    <2> DEFINE s == [boot |-> hello, sequence |-> next, flags |-> fl, settings |-> st]
    <2>3. /\ hello' = hello /\ hello > 0 /\ sequence' = next /\ flags' = fl /\ settings' = st
          /\ snap' = [snap EXCEPT ![t] = s]
      BY <2>2 DEF Prepare, MayCall
    <2>4. Applied \in Nat
      BY <1>0, TrackerAssumption DEF TypeOK, Applied, DeviceStates
    <2>5. next \in Nat /\ next > sequence
      BY <1>0, <2>4 DEF TypeOK, Larger
    <2>6. HostFlags(fl) = fl
      BY TrackerAssumption DEF HostWords, HostFlags, HostBits, DeviceBits
    <2>7. latest' = [boot |-> hello, version |-> next, config |-> [flags |-> fl, settings |-> st]]
      BY <2>3 DEF latest
    <2>8. SnapshotOffer(s) = latest'
      BY <2>6, <2>7 DEF SnapshotOffer, ConfigOf
    <2> HIDE DEF next, s
    <2>9. \A u \in Threads : snap'[u] # None =>
             SnapshotOffer(snap'[u]) \in Known \cup {latest'}
      BY <1>0, <2>3, <2>8, OffersInclude DEF TypeOK, Known
    <2>10. wire' = wire /\ inbox' = inbox /\ Adopted' = Adopted
      BY DEF linkVars, Adopted, StateOffer, ConfigOf, HostFlags
    <2>11. offers' \subseteq Known \cup {latest'}
      BY <2>9, <2>10, OffersInclude, NothingNew DEF Known
    <2>12. latest' \in Register!Offers /\ latest'.boot = latest.boot /\ latest.boot > 0
           /\ latest'.version > latest.version
      BY <1>0, <2>3, <2>5, <2>7 DEF latest, Register!Offers, TypeOK
    <2> QED
      BY <2>10, <2>11, <2>12
      DEF Register!Next, Register!Choose, Register!Known, Known, Adopted
  <1> QED  BY <1>1, <1>2

\* A step that at most raises the host's number.
LEMMA CountingRefines ==
    ASSUME LinkTypeOK, hello' = hello, flags' = flags, settings' = settings,
           sequence' \in Nat, sequence' >= sequence,
           offers' \subseteq Known, Adopted' = Adopted
    PROVE  [Register!Next]_(Register!registerVars)
  <1>1. latest \in Register!Offers /\ sequence \in Nat
    BY MappedTypes DEF LinkTypeOK, TypeOK
  <1>2. latest' = [latest EXCEPT !.version = sequence']
    BY DEF latest
  <1>3. CASE sequence' = sequence
    <2>1. latest' = latest
      BY <1>3 DEF latest
    <2> QED  BY <2>1 DEF Register!Next, Register!Forget, Register!Known, Known, Adopted
  <1>4. CASE sequence' > sequence
    <2>1. /\ latest' \in Register!Offers /\ latest'.boot = latest.boot
          /\ latest'.config = latest.config /\ latest'.version > latest.version
      BY <1>1, <1>2, <1>4 DEF Register!Offers, latest
    <2> QED  BY <2>1 DEF Register!Next, Register!CatchUp, Register!Known, Known, Adopted
  <1> QED  BY <1>1, <1>3, <1>4

LEMMA HostRefines == LinkInv /\ HostMove => [Register!Next]_(Register!registerVars)
  <1> SUFFICES ASSUME LinkInv, HostMove PROVE [Register!Next]_(Register!registerVars)
    OBVIOUS
  <1>0. LinkTypeOK /\ TypeOK /\ BootOrder /\ sequence \in Nat
    BY DEF LinkInv, LinkTypeOK, TypeOK
  <1>1. ASSUME NEW t \in Threads, Setter(t), UNCHANGED linkVars
        PROVE  [Register!Next]_(Register!registerVars)
    BY <1>0, <1>1, SetterRefines
  <1>2. ASSUME NEW t \in Threads, Release(t) \/ Reacquire(t), UNCHANGED linkVars
        PROVE  [Register!Next]_(Register!registerVars)
    <2>1. UNCHANGED hostVars /\ \A u \in Threads : snap'[u] # None => snap'[u] = snap[u]
      BY <1>0, <1>2 DEF Release, Reacquire, TypeOK
    <2> QED  BY <1>0, <1>2, <2>1, HandsOnly, CountingRefines DEF hostVars
  <1>3. CASE RxStep /\ UNCHANGED linkVars
    <2>1. hello' = hello /\ flags' = flags /\ settings' = settings /\ snap' = snap
          /\ (sequence' = sequence \/ Store)
      BY <1>3 DEF RxStep, SetEvent, Store, Compare, Notify, CallbackReturns, CallbackRaises,
                  hostVars, callVars
    <2>2. Store => deviceState.applied \in Nat
      BY <1>0, TrackerAssumption DEF TypeOK, Store, DeviceStates
    <2>3. sequence' \in Nat /\ sequence' >= sequence
      BY <1>0, <2>1, <2>2 DEF Store, Larger
    <2> QED  BY <1>0, <1>3, <2>1, <2>3, HandsOnly, CountingRefines
  <1>4. ASSUME NEW t \in Threads, Write(t) PROVE [Register!Next]_(Register!registerVars)
    <2>1. UNCHANGED hostVars /\ snap' = snap /\ inbox' = inbox /\ fw' = fw
          /\ wire' = Append(wire, snap[t]) /\ pc[t] = "sending" /\ Packable(snap[t])
      BY <1>4 DEF Write, Transmit
    <2>2. snap[t] # None /\ snap[t] \in Sendable
      BY <1>0, <2>1 DEF TypeOK, Packable, Sendable
    <2>3. \A i \in DOMAIN wire' :
             \/ i \in DOMAIN wire /\ wire'[i] = wire[i]
             \/ wire'[i] = snap[t]
      BY <1>0, <2>1, <2>2, AppendElements DEF LinkTypeOK
    <2>4. offers' \subseteq Known \cup {}
      BY <2>1, <2>2, <2>3, OffersInclude, NothingNew DEF Known
    <2>5. Adopted' = Adopted
      BY <2>1 DEF Adopted, StateOffer, ConfigOf, HostFlags
    <2> QED  BY <1>0, <2>1, <2>4, <2>5, CountingRefines DEF hostVars
  <1>5. ASSUME NEW t \in Threads, WriteFails(t) PROVE [Register!Next]_(Register!registerVars)
    <2>1. UNCHANGED hostVars /\ snap' = snap /\ inbox' = inbox /\ fw' = fw /\ wire' = wire
      BY <1>5 DEF WriteFails, Raise
    <2>2. offers' \subseteq Known \cup {}
      BY <2>1, OffersInclude, NothingNew DEF Known
    <2>3. Adopted' = Adopted
      BY <2>1 DEF Adopted, StateOffer, ConfigOf, HostFlags
    <2> QED  BY <1>0, <2>1, <2>2, <2>3, CountingRefines DEF hostVars
  <1>6. ASSUME inbox # <<>>, inbox' = Tail(inbox), UNCHANGED <<wire, fw, snap>>
        PROVE  /\ offers' \subseteq Known /\ Adopted' = Adopted
               /\ 1 \in DOMAIN inbox /\ Head(inbox) = inbox[1] /\ Head(inbox) \in Frames
    <2>1. /\ 1 \in DOMAIN inbox /\ Head(inbox) = inbox[1] /\ Head(inbox) \in Frames
          /\ \A i \in DOMAIN inbox' : i + 1 \in DOMAIN inbox /\ inbox'[i] = inbox[i + 1]
      BY <1>0, <1>6, TailElements DEF LinkTypeOK
    <2>2. offers' \subseteq Known \cup {}
      BY <1>6, <2>1, OffersInclude, NothingNew DEF Known
    <2>3. Adopted' = Adopted
      BY <1>6 DEF Adopted, StateOffer, ConfigOf, HostFlags
    <2> QED  BY <2>1, <2>2, <2>3
  <1>7. CASE HandleHello
    <2> DEFINE m == inbox[1]
    <2>1. inbox # <<>> /\ inbox' = Tail(inbox) /\ UNCHANGED <<wire, fw, snap>>
      BY <1>7 DEF HandleHello, Receive, OnHello, callVars
    <2>2. m.kind = "hello" /\ hello' = m.boot /\ sequence' = m.state.applied
          /\ flags' = HostFlags(m.state.flags) /\ settings' = m.state.settings
      BY <1>6, <1>7, <2>1 DEF HandleHello, Receive, OnHello
    <2>3. latest' = StateOffer(m.boot, m.state)
      BY <2>2 DEF latest, StateOffer, ConfigOf
    <2>4. latest' \in offers
      BY <1>6, <2>1, <2>2, <2>3, OffersInclude
    <2>5. latest'.boot > latest.boot
      <3>1. hello < m.boot /\ latest.boot = hello /\ latest'.boot = m.boot
        BY <1>0, <1>6, <2>1, <2>2, <2>3 DEF BootOrder, latest, StateOffer
      <3>2. hello \in Nat /\ m.boot \in Nat
        BY <1>0, <1>6, <2>1 DEF TypeOK, Frames
      <3> QED  BY <3>1, <3>2
    <2> QED
      BY <1>6, <2>1, <2>4, <2>5
      DEF Register!Next, Register!Announce, Register!Known, Known, Adopted
  <1>8. CASE HandleDeviceState
    <2>1. inbox # <<>> /\ inbox' = Tail(inbox) /\ UNCHANGED <<wire, fw, snap>>
      BY <1>8 DEF HandleDeviceState, Receive, OnDeviceState, callVars
    <2>2. hello' = hello /\ flags' = flags /\ settings' = settings
          /\ sequence' = Larger(sequence, Head(inbox).state.applied)
      BY <1>8 DEF HandleDeviceState, OnDeviceState
    <2>3. Head(inbox).state.applied \in Nat
      BY <1>6, <2>1, TrackerAssumption DEF Frames, DeviceStates
    <2>4. sequence' \in Nat /\ sequence' >= sequence
      BY <1>0, <2>2, <2>3 DEF Larger
    <2> QED  BY <1>0, <1>6, <2>1, <2>2, <2>4, CountingRefines
  <1> QED  BY <1>1, <1>2, <1>3, <1>4, <1>5, <1>7, <1>8 DEF HostMove

\* Nothing known is from a boot yet to come.
LEMMA KnownPast ==
    ASSUME LinkTypeOK, BootOrder
    PROVE  \A o \in Known : o.boot \in Nat /\ o.boot <= fw.boot
  <1>1. /\ hello <= fw.boot /\ fw.from <= fw.boot
        /\ hello \in Nat /\ fw.boot \in Nat /\ fw.from \in Nat
    BY DEF BootOrder, LinkTypeOK, TypeOK
  <1>2. Adopted.boot = fw.from
    BY DEF Adopted, StateOffer
  <1>3. ASSUME NEW t \in Threads, snap[t] # None
        PROVE  SnapshotOffer(snap[t]).boot \in Nat /\ SnapshotOffer(snap[t]).boot <= fw.boot
    BY <1>1, <1>3 DEF BootOrder, BootsPast, LinkTypeOK, TypeOK, Snapshots, SnapshotOffer
  <1>4. ASSUME NEW i \in DOMAIN wire
        PROVE  SnapshotOffer(wire[i]).boot \in Nat /\ SnapshotOffer(wire[i]).boot <= fw.boot
    <2>1. wire[i] \in Sendable
      BY DEF LinkTypeOK
    <2> QED  BY <1>1, <2>1 DEF BootOrder, Sendable, Snapshots, SnapshotOffer
  <1>5. ASSUME NEW i \in DOMAIN inbox, inbox[i].kind = "hello"
        PROVE  /\ StateOffer(inbox[i].boot, inbox[i].state).boot \in Nat
               /\ StateOffer(inbox[i].boot, inbox[i].state).boot <= fw.boot
    <2>1. inbox[i] \in Frames
      BY DEF LinkTypeOK
    <2> QED  BY <1>5, <2>1 DEF BootOrder, Frames, StateOffer
  <1> QED  BY <1>1, <1>2, <1>3, <1>4, <1>5 DEF Known, offers

LEMMA DeviceRefines == LinkInv /\ DeviceStep => [Register!Next]_(Register!registerVars)
  <1> SUFFICES ASSUME LinkInv, DeviceStep PROVE [Register!Next]_(Register!registerVars)
    OBVIOUS
  <1>0. LinkTypeOK /\ TypeOK /\ BootOrder
    BY DEF LinkInv, LinkTypeOK
  <1>1. latest' = latest /\ snap' = snap
    BY DEF DeviceStep, Apply, PassOver, Lose, Report, Reboot, BootUp, latest,
           trackerVars, hostVars, callVars
  <1>2. ASSUME Take, inbox' = inbox
        PROVE  /\ offers' \subseteq Known
               /\ SnapshotOffer(Head(wire)) \in offers
    <2>1. wire # <<>> /\ wire' = Tail(wire)
      BY <1>2 DEF Take
    <2>2. /\ 1 \in DOMAIN wire /\ Head(wire) = wire[1]
          /\ \A i \in DOMAIN wire' : i + 1 \in DOMAIN wire /\ wire'[i] = wire[i + 1]
      BY <1>0, <2>1, TailElements DEF LinkTypeOK
    <2>3. offers' \subseteq Known \cup {}
      BY <1>1, <1>2, <2>2, OffersInclude, NothingNew DEF Known
    <2> QED  BY <2>2, <2>3, OffersInclude
  <1>3. CASE Apply
    <2> DEFINE s == [applied |-> Head(wire).sequence, flags |-> Head(wire).flags,
                     settings |-> Head(wire).settings]
    <2>1. fw' = Firmware(fw.boot, Head(wire).boot, s) /\ Take /\ inbox' = inbox
      BY <1>3 DEF Apply
    <2>2. StateOffer(Head(wire).boot, s) = SnapshotOffer(Head(wire))
      BY DEF StateOffer, SnapshotOffer, ConfigOf
    <2> HIDE DEF s
    <2>3. Adopted' = StateOffer(Head(wire).boot, s)
      BY <2>1 DEF Adopted, Firmware, StateOffer, ConfigOf, HostFlags
    <2>4. Adopted' \in offers
      BY <1>2, <2>1, <2>2, <2>3
    <2> QED
      BY <1>1, <1>2, <2>1, <2>4
      DEF Register!Next, Register!Adopt, Register!Known, Known, Adopted
  <1>4. CASE PassOver \/ Lose
    <2>1. Take /\ inbox' = inbox /\ fw' = fw
      BY <1>4 DEF PassOver, Lose
    <2>2. Adopted' = Adopted
      BY <2>1 DEF Adopted, StateOffer, ConfigOf, HostFlags
    <2> QED
      BY <1>1, <1>2, <2>1, <2>2
      DEF Register!Next, Register!Forget, Register!Known, Known, Adopted
  <1>5. CASE Report
    <2>1. Frame("state") \in Frames /\ Frame("state").kind = "state"
      BY <1>0 DEF Frame, Frames, LinkTypeOK
    <2>2. inbox' = Append(inbox, Frame("state")) /\ wire' = wire /\ fw' = fw
      BY <1>5 DEF Report
    <2>3. \A i \in DOMAIN inbox' : inbox'[i].kind = "hello" =>
             i \in DOMAIN inbox /\ inbox'[i] = inbox[i]
      BY <1>0, <2>1, <2>2, AppendElements DEF LinkTypeOK
    <2>4. offers' \subseteq Known \cup {}
      BY <1>1, <2>2, <2>3, OffersInclude, NothingNew DEF Known
    <2>5. Adopted' = Adopted
      BY <2>2 DEF Adopted, StateOffer, ConfigOf, HostFlags
    <2> QED
      BY <1>1, <2>4, <2>5 DEF Register!Next, Register!Forget, Register!Known, Known, Adopted
  <1>6. ASSUME NEW s \in BootStates, NEW k \in 0 .. Len(wire), Reboot(s, k)
        PROVE  [Register!Next]_(Register!registerVars)
    <2> DEFINE n == fw.boot + 1
    <2> DEFINE m == [kind |-> "hello", boot |-> n, state |-> s]
    <2>1. fw' = Firmware(n, n, s) /\ inbox' = Append(inbox, m)
          /\ wire' = SubSeq(wire, k + 1, Len(wire))
      BY <1>6 DEF Reboot, BootUp
    <2>2. s \in DeviceStates /\ n \in Nat /\ m \in Frames
      BY <1>0, LinkAssumption DEF LinkTypeOK, Frames
    <2>3. m.boot = n /\ m.state = s /\ n = fw.boot + 1
      OBVIOUS
    <2> HIDE DEF m, n
    <2>4. Adopted' = StateOffer(n, s)
      BY <2>1 DEF Adopted, Firmware, StateOffer, ConfigOf, HostFlags
    <2>5. \A i \in DOMAIN wire' : i + k \in DOMAIN wire /\ wire'[i] = wire[i + k]
      BY <1>0, <2>1, SuffixElements DEF LinkTypeOK
    <2>6. \A i \in DOMAIN inbox' :
             \/ i \in DOMAIN inbox /\ inbox'[i] = inbox[i]
             \/ inbox'[i] = m
      BY <1>0, <2>1, <2>2, AppendElements DEF LinkTypeOK
    <2>7. offers' \subseteq Known \cup {Adopted'}
      <3>1. \A t \in Threads : snap'[t] # None => SnapshotOffer(snap'[t]) \in Known \cup {Adopted'}
        BY <1>1, OffersInclude DEF Known
      <3>2. \A i \in DOMAIN wire' : SnapshotOffer(wire'[i]) \in Known \cup {Adopted'}
        BY <2>5, OffersInclude DEF Known
      <3>3. \A i \in DOMAIN inbox' : inbox'[i].kind = "hello" =>
               StateOffer(inbox'[i].boot, inbox'[i].state) \in Known \cup {Adopted'}
        BY <2>3, <2>4, <2>6, OffersInclude DEF Known
      <3> QED  BY <3>1, <3>2, <3>3, NothingNew
    <2>8. Adopted' \in Register!Offers /\ Adopted'.boot = n
      BY <1>0, <2>2, <2>4, MappedTypes DEF StateOffer
    <2>9. hello <= fw.boot /\ hello \in Nat /\ fw.boot \in Nat
      BY <1>0 DEF BootOrder, LinkTypeOK, TypeOK
    <2>10. \A o \in Known : o.boot \in Nat /\ o.boot <= fw.boot
      BY <1>0, KnownPast
    <2>11. Adopted'.boot > latest.boot /\ \A o \in Known : Adopted'.boot > o.boot
      BY <2>3, <2>8, <2>9, <2>10 DEF latest
    <2> QED
      BY <1>1, <2>7, <2>8, <2>11
      DEF Register!Next, Register!Boot, Register!Known, Known, Adopted
  <1> QED  BY <1>3, <1>4, <1>5, <1>6 DEF DeviceStep

LEMMA LinkNextRefines == LinkInv /\ [LinkNext]_vars => [Register!Next]_(Register!registerVars)
  <1>1. UNCHANGED vars => UNCHANGED Register!registerVars
    BY DEF vars, linkVars, trackerVars, hostVars, callVars, Register!registerVars,
           latest, offers, SnapshotOffer, StateOffer, ConfigOf, HostFlags
  <1> QED  BY <1>1, HostMoves, HostRefines, DeviceRefines DEF LinkNext

LEMMA LinkInitRefines == LinkInit => Register!Init
  <1> SUFFICES ASSUME LinkInit PROVE Register!Init
    OBVIOUS
  <1>1. LinkTypeOK
    BY LinkInitType
  <1>2. hello = 0 /\ wire = <<>> /\ inbox = <<>> /\ \A t \in Threads : snap[t] = None
    BY DEF LinkInit, Init
  <1>3. fw.from = 0
    BY DEF LinkInit, Firmware
  <1>4. offers = {}
    BY <1>2 DEF offers
  <1>5. latest.boot = 0 /\ Adopted.boot = 0
    BY <1>2, <1>3 DEF latest, Adopted, StateOffer
  <1> QED  BY <1>1, <1>4, <1>5, MappedTypes DEF Register!Init, Adopted

\* Tracker, line and device together behave like one settings register.
THEOREM LinkImplementsRegister == LinkSpec => ImplementsRegister
  <1> QED
    BY LinkInitInv, LinkNextInv, LinkInitRefines, LinkNextRefines, PTL
    DEF LinkSpec, ImplementsRegister, Register!Spec

\* A device that acknowledges the host's number runs on the host's configuration,
\* unless it took a snapshot built before the last HELLO, or the host has yet to
\* hear of its boot: with those two excepted the offer it adopted is one to the
\* boot the host knows of, and the register's Agreement is about it.
THEOREM AcknowledgedAgree == LinkSpec => []AcknowledgedMeansAgreed
  <1>1. LinkInv /\ Register!Agreement => AcknowledgedMeansAgreed
    <2> SUFFICES ASSUME LinkInv, Register!Agreement, hello > 0, fw.state.applied = sequence,
                        ~TakenBeforeHello, ~BootUnheard
                 PROVE  ConfigOf(fw.state) = latest.config
      BY DEF AcknowledgedMeansAgreed
    <2>1. fw.from = hello
      BY DEF LinkInv, LinkTypeOK, TypeOK, TakenBeforeHello, BootUnheard
    <2>2. /\ StateOffer(fw.from, fw.state).boot = latest.boot
          /\ StateOffer(fw.from, fw.state).version = latest.version
          /\ StateOffer(fw.from, fw.state).config = ConfigOf(fw.state)
          /\ latest.boot > 0
      BY <2>1 DEF StateOffer, latest
    <2> QED  BY <2>2 DEF Register!Agreement
  <1>2. Register!Spec => []Register!Agreement
    BY Register!AlwaysAgree
  <1> QED
    BY <1>1, <1>2, LinkInitInv, LinkNextInv, LinkImplementsRegister, PTL
    DEF LinkSpec, ImplementsRegister

-----------------------------------------------------------------------------
(* What is on its way to the device: snapshots built and not written yet,   *)
(* and snapshots on the wire.                                               *)

InHand(t) == pc[t] \in {"built", "sending"}

InFlight == {snap[t] : t \in {u \in Threads : InHand(u)}} \cup {wire[i] : i \in DOMAIN wire}

LEMMA FlightMembers ==
    ASSUME LinkTypeOK
    PROVE  /\ \A t \in Threads : InHand(t) => snap[t] \in InFlight
           /\ \A i \in DOMAIN wire : wire[i] \in InFlight
           /\ \A s \in InFlight : s \in Snapshots /\ SnapshotOffer(s) \in offers
  <1>1. \A t \in Threads : InHand(t) => snap[t] # None /\ snap[t] \in Snapshots
    BY DEF InHand, LinkTypeOK, TypeOK
  <1>2. \A i \in DOMAIN wire : wire[i] \in Snapshots
    BY DEF LinkTypeOK, Sendable
  <1> QED  BY <1>1, <1>2, OffersInclude DEF InFlight

\* A setter adds its snapshot, and takes nothing away: it was idle before.
LEMMA FlightOfPrepare ==
    ASSUME LinkTypeOK, NEW t \in Threads, NEW fl, NEW st, Prepare(t, fl, st), UNCHANGED linkVars
    PROVE  \E s : /\ InFlight' = InFlight \cup {s}
                  /\ s.boot = hello /\ s.sequence = sequence' /\ s.flags = flags'
  <1>0. TypeOK
    BY DEF LinkTypeOK
  <1> DEFINE s == [boot |-> hello, sequence |-> Larger(sequence, Applied) + 1,
                   flags |-> fl, settings |-> st]
  <1>1. /\ pc[t] = "idle" /\ pc' = [pc EXCEPT ![t] = "built"]
        /\ snap' = [snap EXCEPT ![t] = s]
        /\ wire' = wire
        /\ s.boot = hello /\ s.sequence = sequence' /\ s.flags = flags'
    BY DEF Prepare, MayCall, linkVars
  <1> HIDE DEF s
  <1>2. \A u \in Threads : InHand(u)' <=> u = t \/ InHand(u)
    BY <1>0, <1>1 DEF InHand, TypeOK
  <1>3. snap'[t] = s /\ \A u \in Threads : InHand(u) => snap'[u] = snap[u]
    BY <1>0, <1>1 DEF InHand, TypeOK
  <1>4. InFlight' = {snap'[u] : u \in {w \in Threads : InHand(w)'}} \cup {wire[i] : i \in DOMAIN wire}
    BY <1>1 DEF InFlight
  <1>5. InFlight' = InFlight \cup {s}
    BY <1>2, <1>3, <1>4 DEF InFlight
  <1> QED  BY <1>1, <1>5

LEMMA FlightKept ==
    ASSUME LinkTypeOK, UNCHANGED linkVars,
           RxStep \/ \E t \in Threads : Release(t) \/ Reacquire(t)
    PROVE  InFlight' = InFlight
  <1>0. TypeOK /\ wire' = wire
    BY DEF LinkTypeOK, linkVars
  <1>1. CASE RxStep
    <2>1. pc' = pc /\ snap' = snap
      BY <1>1 DEF RxStep, SetEvent, Store, Compare, Notify, CallbackReturns, CallbackRaises, callVars
    <2> QED  BY <1>0, <2>1 DEF InFlight, InHand
  <1>2. CASE \E t \in Threads : Release(t) \/ Reacquire(t)
    <2>1. PICK t \in Threads : Release(t) \/ Reacquire(t)
      BY <1>2
    <2>2. \A u \in Threads : /\ InHand(u)' <=> InHand(u)
                             /\ InHand(u) => snap'[u] = snap[u]
      BY <1>0, <2>1 DEF Release, Reacquire, InHand, TypeOK
    <2> QED  BY <1>0, <2>2 DEF InFlight
  <1> QED  BY <1>1, <1>2

LEMMA FlightOfWrite ==
    ASSUME LinkTypeOK, NEW t \in Threads, Write(t)
    PROVE  InFlight' = InFlight
  <1>0. TypeOK
    BY DEF LinkTypeOK
  <1>1. /\ pc[t] = "sending" /\ Packable(snap[t]) /\ pc' = [pc EXCEPT ![t] = "written"]
        /\ snap' = snap /\ wire' = Append(wire, snap[t])
    BY DEF Write, Transmit
  <1>2. snap[t] \in Sendable
    BY <1>0, <1>1 DEF TypeOK, Packable, Sendable
  <1>3. \A u \in Threads : InHand(u) <=> u = t \/ InHand(u)'
    BY <1>0, <1>1 DEF InHand, TypeOK
  <1>4. {wire'[i] : i \in DOMAIN wire'} = {wire[i] : i \in DOMAIN wire} \cup {snap[t]}
    BY <1>1, <1>2 DEF LinkTypeOK
  <1> QED  BY <1>1, <1>3, <1>4 DEF InFlight

LEMMA FlightOfFailure ==
    ASSUME LinkTypeOK, NEW t \in Threads, WriteFails(t)
    PROVE  /\ InHand(t) /\ snap[t] \in InFlight
           /\ InFlight' \subseteq InFlight
           /\ InFlight \subseteq InFlight' \cup {snap[t]}
  <1>0. TypeOK
    BY DEF LinkTypeOK
  <1>1. pc[t] = "sending" /\ pc' = [pc EXCEPT ![t] = "failed"] /\ snap' = snap /\ wire' = wire
    BY DEF WriteFails, Raise
  <1>2. \A u \in Threads : InHand(u) <=> u = t \/ InHand(u)'
    BY <1>0, <1>1 DEF InHand, TypeOK
  <1> QED  BY <1>1, <1>2 DEF InFlight

LEMMA FlightOfTake ==
    ASSUME LinkTypeOK, Take, pc' = pc, snap' = snap
    PROVE  /\ Head(wire) \in InFlight
           /\ InFlight' \subseteq InFlight
           /\ InFlight \subseteq InFlight' \cup {Head(wire)}
  <1>1. wire # <<>> /\ wire' = Tail(wire)
    BY DEF Take
  <1>2. /\ Head(wire) = wire[1] /\ 1 \in DOMAIN wire
        /\ \A i \in DOMAIN wire' : i + 1 \in DOMAIN wire /\ wire'[i] = wire[i + 1]
    BY <1>1, TailElements DEF LinkTypeOK
  <1>3. \A i \in DOMAIN wire : i = 1 \/ (i - 1 \in DOMAIN wire' /\ wire[i] = wire'[i - 1])
    BY <1>1 DEF LinkTypeOK
  <1> QED  BY <1>2, <1>3 DEF InFlight, InHand

LEMMA FlightOfBoot ==
    ASSUME LinkTypeOK, NEW s, NEW k \in 0 .. Len(wire), BootUp(s, k)
    PROVE  InFlight' \subseteq InFlight
  <1>1. pc' = pc /\ snap' = snap
    BY DEF BootUp, trackerVars, callVars
  <1>2. \A i \in DOMAIN wire' : i + k \in DOMAIN wire /\ wire'[i] = wire[i + k]
    BY SuffixElements DEF BootUp, LinkTypeOK
  <1> QED  BY <1>1, <1>2 DEF InFlight, InHand

-----------------------------------------------------------------------------
(* Convergence.  The number the host has given out last has been applied by  *)
(* the device or is on its way to it.  That a report cannot break this takes *)
(* two more facts: no report of this boot is ahead of the device, and the    *)
(* cached state is never ahead of the host.                                  *)

Counted == deviceState # None => deviceState.applied <= sequence

ReportsBehind ==
    \A i \in DOMAIN inbox :
        /\ hello <= inbox[i].boot /\ inbox[i].boot <= fw.boot
        /\ inbox[i].boot = fw.boot => inbox[i].state.applied <= fw.state.applied
        /\ \A j \in DOMAIN inbox : j < i => inbox[j].boot <= inbox[i].boot

Covered ==
    mishaps = {} /\ hello > 0 /\ fw.boot = hello =>
        \/ sequence <= fw.state.applied
        \/ \E s \in InFlight : s.sequence = sequence

Converging == Counted /\ ReportsBehind /\ Covered

LEMMA FrameParts ==
    ASSUME LinkTypeOK
    PROVE  \A i \in DOMAIN inbox :
              inbox[i].boot \in Nat /\ inbox[i].state \in DeviceStates /\ inbox[i].state.applied \in Nat
  <1>1. \A i \in DOMAIN inbox : inbox[i] \in Frames
    BY DEF LinkTypeOK
  <1>2. \A m \in DeviceStates : m.applied \in Nat
    BY TrackerAssumption DEF DeviceStates
  <1> QED  BY <1>1, <1>2 DEF Frames

LEMMA HostCounted == LinkInv /\ HostMove /\ Counted => Counted'
  <1> SUFFICES ASSUME LinkInv, HostMove, Counted PROVE Counted'
    OBVIOUS
  <1>0. LinkTypeOK /\ TypeOK /\ sequence \in Nat
        /\ (deviceState # None => deviceState.applied \in Nat)
    BY TrackerAssumption DEF LinkInv, LinkTypeOK, TypeOK, DeviceStates
  <1>1. ASSUME deviceState' = deviceState, sequence' \in Nat, sequence' >= sequence
        PROVE  Counted'
    BY <1>0, <1>1 DEF Counted
  <1>2. ASSUME NEW t \in Threads, Setter(t) PROVE Counted'
    <2>1. CASE trackerVars' = trackerVars
      BY <1>0, <1>1, <2>1 DEF trackerVars, hostVars, rxVars
    <2>2. CASE trackerVars' # trackerVars
      <3>1. PICK fl \in HostWords : \E st \in Settings : Prepare(t, fl, st)
        BY <1>0, <1>2, <2>2, SetterPrepares
      <3>2. deviceState' = deviceState /\ sequence' = Larger(sequence, Applied) + 1
        BY <3>1 DEF Prepare, rxVars
      <3>3. Applied \in Nat
        BY <1>0 DEF Applied
      <3>4. sequence' \in Nat /\ sequence' >= sequence
        BY <1>0, <3>2, <3>3 DEF Larger
      <3> QED  BY <1>1, <3>2, <3>4
    <2> QED  BY <2>1, <2>2
  <1>3. ASSUME NEW t \in Threads, Release(t) \/ Reacquire(t) \/ Write(t) \/ WriteFails(t)
        PROVE  Counted'
    BY <1>0, <1>1, <1>3 DEF Release, Reacquire, Write, Transmit, WriteFails, Raise, hostVars, rxVars
  <1>4. CASE RxStep
    <2>1. deviceState' = deviceState /\ (sequence' = sequence \/ Store)
      BY <1>4 DEF RxStep, SetEvent, Store, Compare, Notify, CallbackReturns, CallbackRaises, hostVars
    <2>2. Store => deviceState # None /\ sequence' = Larger(sequence, deviceState.applied)
      BY <1>0 DEF Store, TypeOK
    <2> QED  BY <1>0, <1>1, <2>1, <2>2 DEF Larger
  <1>5. CASE HandleHello
    <2>1. deviceState' = Head(inbox).state /\ sequence' = Head(inbox).state.applied
          /\ inbox # <<>>
      BY <1>5 DEF HandleHello, Receive, OnHello
    <2>2. Head(inbox).state.applied \in Nat
      BY <1>0, <2>1, FrameParts, TailElements DEF LinkTypeOK
    <2> QED  BY <2>1, <2>2 DEF Counted
  <1>6. CASE HandleDeviceState
    <2>1. deviceState' = Head(inbox).state /\ inbox # <<>>
          /\ sequence' = Larger(sequence, Head(inbox).state.applied)
      BY <1>6 DEF HandleDeviceState, Receive, OnDeviceState
    <2>2. Head(inbox).state.applied \in Nat
      BY <1>0, <2>1, FrameParts, TailElements DEF LinkTypeOK
    <2> QED  BY <1>0, <2>1, <2>2 DEF Counted, Larger
  <1> QED  BY <1>2, <1>3, <1>4, <1>5, <1>6 DEF HostMove

LEMMA HostKeepsBoot ==
    ASSUME TypeOK, HostMove, ~(HandleHello \/ HandleDeviceState)
    PROVE  UNCHANGED <<hello, inbox, fw>>
  <1>1. UNCHANGED <<inbox, fw>>
    BY DEF HostMove, Write, WriteFails, linkVars
  <1>2. ASSUME NEW t \in Threads, Setter(t) PROVE hello' = hello
    <2>1. CASE trackerVars' = trackerVars
      BY <2>1 DEF trackerVars, hostVars
    <2>2. CASE trackerVars' # trackerVars
      BY <1>2, <2>2, SetterPrepares DEF Prepare
    <2> QED  BY <2>1, <2>2
  <1>3. ASSUME NEW t \in Threads, Release(t) \/ Reacquire(t) \/ Write(t) \/ WriteFails(t)
        PROVE  hello' = hello
    BY <1>3 DEF Release, Reacquire, Write, Transmit, WriteFails, Raise, hostVars
  <1>4. ASSUME RxStep PROVE hello' = hello
    BY <1>4 DEF RxStep, SetEvent, Store, Compare, Notify, CallbackReturns, CallbackRaises, hostVars
  <1> QED  BY <1>1, <1>2, <1>3, <1>4 DEF HostMove

\* The RX thread takes reports in the order of the boots; nobody else on the
\* host's side touches the inbox or the device.
LEMMA HostBehind == LinkInv /\ HostMove /\ ReportsBehind => ReportsBehind'
  <1> SUFFICES ASSUME LinkInv, HostMove, ReportsBehind PROVE ReportsBehind'
    OBVIOUS
  <1>0. LinkTypeOK /\ TypeOK
    BY DEF LinkInv, LinkTypeOK
  <1>1. CASE HandleHello \/ HandleDeviceState
    <2>1. inbox # <<>> /\ inbox' = Tail(inbox) /\ fw' = fw
          /\ (hello' = hello \/ hello' = Head(inbox).boot)
      BY <1>1 DEF HandleHello, HandleDeviceState, Receive, OnHello, OnDeviceState
    <2>2. /\ 1 \in DOMAIN inbox /\ Head(inbox) = inbox[1]
          /\ \A i \in DOMAIN inbox' : i + 1 \in DOMAIN inbox /\ inbox'[i] = inbox[i + 1]
                                    /\ i \in Nat /\ i >= 1
      BY <1>0, <2>1, TailElements DEF LinkTypeOK
    <2>3. ASSUME NEW i \in DOMAIN inbox'
          PROVE  /\ hello' <= inbox'[i].boot /\ inbox'[i].boot <= fw'.boot
                 /\ inbox'[i].boot = fw'.boot => inbox'[i].state.applied <= fw'.state.applied
                 /\ \A j \in DOMAIN inbox' : j < i => inbox'[j].boot <= inbox'[i].boot
      <3>1. i + 1 \in DOMAIN inbox /\ inbox'[i] = inbox[i + 1] /\ 1 < i + 1 /\ i \in Nat
        BY <2>2
      <3>2. inbox[1].boot <= inbox[i + 1].boot /\ hello <= inbox[i + 1].boot
        BY <2>2, <3>1 DEF ReportsBehind
      <3>3. hello' <= inbox'[i].boot
        BY <2>1, <2>2, <3>1, <3>2
      <3>4. ASSUME NEW j \in DOMAIN inbox', j < i PROVE inbox'[j].boot <= inbox'[i].boot
        <4>1. j + 1 \in DOMAIN inbox /\ inbox'[j] = inbox[j + 1] /\ j + 1 < i + 1
          BY <2>2, <3>1, <3>4
        <4> QED  BY <3>1, <4>1 DEF ReportsBehind
      <3> QED  BY <2>1, <3>1, <3>3, <3>4 DEF ReportsBehind
    <2> QED  BY <2>3 DEF ReportsBehind
  <1>2. CASE ~(HandleHello \/ HandleDeviceState)
    BY <1>0, <1>2, HostKeepsBoot DEF ReportsBehind
  <1> QED  BY <1>1, <1>2

LEMMA DeviceBehind == LinkInv /\ DeviceStep /\ ReportsBehind => ReportsBehind'
  <1> SUFFICES ASSUME LinkInv, DeviceStep, ReportsBehind PROVE ReportsBehind'
    OBVIOUS
  <1>0. LinkTypeOK /\ hello \in Nat /\ fw.boot \in Nat /\ hello <= fw.boot
        /\ fw.state.applied \in Nat
    BY TrackerAssumption DEF LinkInv, LinkTypeOK, TypeOK, BootOrder, DeviceStates
  <1>1. hello' = hello
    BY DEF DeviceStep, Apply, PassOver, Lose, Report, Reboot, BootUp, trackerVars, hostVars
  <1>2. \A i \in DOMAIN inbox : inbox[i].boot \in Nat /\ inbox[i].state.applied \in Nat
    BY <1>0, FrameParts
  <1>3. CASE Apply
    <2>1. wire # <<>> /\ Head(wire).sequence > fw.state.applied /\ inbox' = inbox
          /\ fw'.boot = fw.boot /\ fw'.state.applied = Head(wire).sequence
      BY <1>3 DEF Apply, Take, Firmware
    <2>2. Head(wire).sequence \in Nat
      BY <1>0, <2>1, TailElements DEF LinkTypeOK, Sendable, Snapshots
    <2> QED  BY <1>0, <1>1, <1>2, <2>1, <2>2 DEF ReportsBehind
  <1>4. CASE PassOver \/ Lose
    BY <1>1, <1>4 DEF PassOver, Lose, ReportsBehind
  <1>5. ASSUME NEW m \in Frames, inbox' = Append(inbox, m), fw' = fw \/ fw'.boot > fw.boot,
               m.boot = fw'.boot, m.state = fw'.state, fw'.boot \in Nat,
               fw'.state.applied \in Nat
        PROVE  ReportsBehind'
    <2>1. /\ \A i \in DOMAIN inbox' :
                \/ i \in DOMAIN inbox /\ inbox'[i] = inbox[i]
                \/ i = Len(inbox) + 1 /\ inbox'[i] = m
          /\ \A i \in DOMAIN inbox : i < Len(inbox) + 1 /\ i \in Nat
          /\ Len(inbox) \in Nat
      BY <1>0, <1>5, AppendElements DEF LinkTypeOK
    <2>2. \A i \in DOMAIN inbox : /\ hello <= inbox[i].boot /\ inbox[i].boot <= fw'.boot
                                  /\ inbox[i].boot = fw'.boot =>
                                        inbox[i].state.applied <= fw'.state.applied
      BY <1>0, <1>2, <1>5 DEF ReportsBehind
    <2>3. hello <= fw'.boot
      BY <1>0, <1>5
    <2>4. ASSUME NEW i \in DOMAIN inbox', NEW j \in DOMAIN inbox', j < i
          PROVE  inbox'[j].boot <= inbox'[i].boot
      <3>1. j \in DOMAIN inbox /\ inbox'[j] = inbox[j]
        BY <2>1, <2>4
      <3> QED  BY <1>5, <2>1, <2>2, <2>4, <3>1 DEF ReportsBehind
    <2> QED  BY <1>1, <1>5, <2>1, <2>2, <2>3, <2>4 DEF ReportsBehind
  <1>6. CASE Report
    <2>1. Frame("state") \in Frames /\ Frame("state").boot = fw.boot /\ Frame("state").state = fw.state
      BY <1>0 DEF Frame, Frames, LinkTypeOK
    <2> QED  BY <1>0, <1>5, <1>6, <2>1 DEF Report
  <1>7. ASSUME NEW s \in BootStates, NEW k \in 0 .. Len(wire), Reboot(s, k)
        PROVE  ReportsBehind'
    <2> DEFINE m == [kind |-> "hello", boot |-> fw.boot + 1, state |-> s]
    <2>1. inbox' = Append(inbox, m) /\ fw'.boot = fw.boot + 1 /\ fw'.state = s
      BY <1>7 DEF Reboot, BootUp, Firmware
    <2>2. m \in Frames /\ s.applied \in Nat /\ m.boot = fw.boot + 1 /\ m.state = s
      BY <1>0, LinkAssumption, TrackerAssumption DEF Frames, DeviceStates
    <2> HIDE DEF m
    <2> QED  BY <1>0, <1>5, <2>1, <2>2
  <1> QED  BY <1>3, <1>4, <1>6, <1>7 DEF DeviceStep

\* Covered survives a step that keeps the snapshots underway and the host's
\* number, and lets the device's grow.
LEMMA KeepCovered ==
    ASSUME Covered, LinkTypeOK, mishaps \subseteq mishaps', hello' = hello, fw'.boot = fw.boot,
           sequence' = sequence, InFlight \subseteq InFlight',
           fw' = fw \/ (fw'.state.applied \in Nat /\ fw'.state.applied >= fw.state.applied)
    PROVE  Covered'
  <1>1. sequence \in Nat /\ fw.state.applied \in Nat
    BY TrackerAssumption DEF LinkTypeOK, TypeOK, DeviceStates
  <1> QED  BY <1>1 DEF Covered

LEMMA HostCovered ==
    LinkInv /\ HostMove /\ Counted /\ ReportsBehind /\ Covered => Covered'
  <1> SUFFICES ASSUME LinkInv, HostMove, Counted, ReportsBehind, Covered PROVE Covered'
    OBVIOUS
  <1>0. LinkTypeOK /\ TypeOK /\ sequence \in Nat /\ fw.state.applied \in Nat
    BY TrackerAssumption DEF LinkInv, LinkTypeOK, TypeOK, DeviceStates
  <1>1. ASSUME NEW t \in Threads, Setter(t), UNCHANGED linkVars PROVE Covered'
    <2>1. CASE trackerVars' = trackerVars
      <3>1. hello' = hello /\ sequence' = sequence /\ InFlight' = InFlight
        BY <1>1, <2>1 DEF trackerVars, hostVars, callVars, linkVars, InFlight, InHand
      <3> QED  BY <1>0, <1>1, <3>1, KeepCovered DEF linkVars
    <2>2. CASE trackerVars' # trackerVars
      <3>1. PICK fl \in HostWords : \E st \in Settings : Prepare(t, fl, st)
        BY <1>0, <1>1, <2>2, SetterPrepares
      <3>2. \E s : InFlight' = InFlight \cup {s} /\ s.sequence = sequence'
        BY <1>0, <1>1, <3>1, FlightOfPrepare
      <3> QED  BY <3>2 DEF Covered
    <2> QED  BY <2>1, <2>2
  <1>2. ASSUME NEW t \in Threads, Release(t) \/ Reacquire(t), UNCHANGED linkVars PROVE Covered'
    <2>1. hello' = hello /\ sequence' = sequence
      BY <1>2 DEF Release, Reacquire, hostVars
    <2> QED  BY <1>0, <1>2, <2>1, FlightKept, KeepCovered DEF linkVars
  <1>3. CASE RxStep /\ UNCHANGED linkVars
    <2>1. hello' = hello /\ (sequence' = sequence \/ Store)
      BY <1>3 DEF RxStep, SetEvent, Store, Compare, Notify, CallbackReturns, CallbackRaises, hostVars
    <2>2. Store => sequence' = sequence
      BY <1>0, TrackerAssumption DEF Store, Counted, TypeOK, Larger, DeviceStates
    <2> QED  BY <1>0, <1>3, <2>1, <2>2, FlightKept, KeepCovered DEF linkVars
  <1>4. ASSUME NEW t \in Threads, Write(t) PROVE Covered'
    <2>1. hello' = hello /\ sequence' = sequence /\ fw' = fw /\ mishaps' = mishaps
      BY <1>4 DEF Write, Transmit, hostVars
    <2> QED  BY <1>0, <1>4, <2>1, FlightOfWrite, KeepCovered
  <1>5. ASSUME NEW t \in Threads, WriteFails(t) PROVE Covered'
    BY <1>5 DEF WriteFails, Covered
  <1>6. ASSUME inbox # <<>>
        PROVE  /\ 1 \in DOMAIN inbox /\ Head(inbox) = inbox[1]
               /\ hello <= Head(inbox).boot /\ Head(inbox).boot <= fw.boot
               /\ Head(inbox).boot \in Nat /\ Head(inbox).state.applied \in Nat
               /\ Head(inbox).boot = fw.boot => Head(inbox).state.applied <= fw.state.applied
    BY <1>0, <1>6, FrameParts, TailElements DEF LinkTypeOK, ReportsBehind
  <1>7. CASE HandleHello
    <2>1. inbox # <<>> /\ fw' = fw /\ hello' = Head(inbox).boot
          /\ sequence' = Head(inbox).state.applied
      BY <1>7 DEF HandleHello, Receive, OnHello
    <2> QED  BY <1>6, <2>1 DEF Covered
  <1>8. CASE HandleDeviceState
    <2>1. /\ inbox # <<>> /\ UNCHANGED <<fw, mishaps, hello, pc, snap, wire>>
          /\ sequence' = Larger(sequence, Head(inbox).state.applied)
      BY <1>8 DEF HandleDeviceState, Receive, OnDeviceState, callVars
    <2>2. InFlight' = InFlight
      BY <2>1 DEF InFlight, InHand
    <2>3. hello \in Nat /\ fw.boot \in Nat
      BY <1>0 DEF TypeOK, LinkTypeOK
    <2>4. CASE sequence' = sequence
      BY <1>0, <2>1, <2>2, <2>4, KeepCovered
    <2>5. CASE sequence' # sequence
      <3>1. sequence' = Head(inbox).state.applied
        BY <2>1, <2>5 DEF Larger
      <3>2. fw.boot = hello => Head(inbox).boot = fw.boot
        BY <1>6, <2>1, <2>3
      <3> QED  BY <1>6, <2>1, <3>1, <3>2 DEF Covered
    <2> QED  BY <2>4, <2>5
  <1> QED  BY <1>1, <1>2, <1>3, <1>4, <1>5, <1>7, <1>8 DEF HostMove

LEMMA DeviceCovered == LinkInv /\ DeviceStep /\ Counted /\ Covered => (Counted /\ Covered)'
  <1> SUFFICES ASSUME LinkInv, DeviceStep, Counted, Covered PROVE (Counted /\ Covered)'
    OBVIOUS
  <1>0. LinkTypeOK /\ TypeOK /\ sequence \in Nat /\ fw.state.applied \in Nat
        /\ hello \in Nat /\ fw.boot \in Nat /\ hello <= fw.boot
    BY TrackerAssumption DEF LinkInv, LinkTypeOK, TypeOK, DeviceStates, BootOrder
  <1>1. UNCHANGED <<hello, sequence, deviceState, pc, snap>>
    BY DEF DeviceStep, Apply, PassOver, Lose, Report, Reboot, BootUp, trackerVars, hostVars,
           callVars, rxVars
  <1>2. Counted'
    BY <1>1 DEF Counted
  <1>3. ASSUME Take
        PROVE  /\ InFlight \subseteq InFlight' \cup {Head(wire)} /\ Head(wire).sequence \in Nat
    BY <1>0, <1>1, <1>3, FlightOfTake, FlightMembers DEF Snapshots
  <1>4. CASE Apply
    <2>1. Take /\ mishaps' = mishaps /\ Head(wire).sequence > fw.state.applied
          /\ fw'.boot = fw.boot /\ fw'.state.applied = Head(wire).sequence
      BY <1>4 DEF Apply, Firmware
    <2> QED  BY <1>0, <1>1, <1>2, <1>3, <2>1 DEF Covered
  <1>5. CASE PassOver
    <2>1. Take /\ mishaps' = mishaps /\ Head(wire).sequence <= fw.state.applied /\ fw' = fw
      BY <1>5 DEF PassOver
    <2> QED  BY <1>0, <1>1, <1>2, <1>3, <2>1 DEF Covered
  <1>6. CASE Lose
    BY <1>2, <1>6 DEF Lose, Covered
  <1>7. CASE Report
    <2>1. InFlight' = InFlight /\ mishaps' = mishaps /\ fw' = fw
      BY <1>1, <1>7 DEF Report, InFlight, InHand
    <2> QED  BY <1>0, <1>1, <1>2, <2>1, KeepCovered
  <1>8. ASSUME NEW s \in BootStates, NEW k \in 0 .. Len(wire), Reboot(s, k) PROVE Covered'
    <2>1. fw'.boot = fw.boot + 1
      BY <1>8 DEF Reboot, BootUp, Firmware
    <2> QED  BY <1>0, <1>1, <2>1 DEF Covered
  <1> QED  BY <1>2, <1>4, <1>5, <1>6, <1>7, <1>8 DEF DeviceStep

LEMMA LinkInitConverging == LinkInit => Converging
  <1> SUFFICES ASSUME LinkInit PROVE Converging
    OBVIOUS
  <1>1. deviceState = None /\ hello = 0 /\ inbox = <<>>
    BY DEF LinkInit, Init
  <1> QED  BY <1>1 DEF Converging, Counted, ReportsBehind, Covered

LEMMA LinkNextConverging == LinkInv /\ Converging /\ [LinkNext]_vars => Converging'
  <1>1. LinkInv /\ Converging /\ UNCHANGED vars => Converging'
    <2> SUFFICES ASSUME LinkInv, Converging, UNCHANGED vars PROVE Converging'
      OBVIOUS
    <2>1. UNCHANGED <<wire, inbox, fw, mishaps, pc, snap, hello, sequence, deviceState>>
      BY DEF vars, linkVars, trackerVars, hostVars, callVars, rxVars
    <2> QED  BY <2>1 DEF Converging, Counted, ReportsBehind, Covered, InFlight, InHand
  <1> QED
    BY <1>1, HostMoves, HostCounted, HostBehind, HostCovered, DeviceBehind, DeviceCovered
    DEF Converging, LinkNext

\* When nothing is underway, the host has heard of the device's boot, and nothing
\* has failed or got lost, the device's number is not behind the host's (Covered).
\* If it took no snapshot built before its HELLO, it is not ahead either, and an
\* equal number carries an equal configuration (the register's Ordered).  If it
\* did, a report of its number puts the host level with it (Counted).
THEOREM LinkConverges == LinkSpec => []Converged
  <1>1. Register!RegisterInv /\ LinkInv /\ Converging => Converged
    <2> SUFFICES ASSUME Register!RegisterInv, LinkInv, Counted, Covered, Quiet, mishaps = {}
                 PROVE  /\ fw.state.applied >= sequence
                        /\ ~TakenBeforeHello =>
                              fw.state.applied = sequence /\ ConfigOf(fw.state) = latest.config
                        /\ Applied = fw.state.applied => sequence = fw.state.applied
      BY DEF Converged, Converging
    <2>1. /\ sequence \in Nat /\ fw.state.applied \in Nat /\ hello \in Nat /\ fw.from \in Nat
          /\ fw.from <= fw.boot /\ fw.boot = hello /\ deviceState # None
      BY TrackerAssumption DEF LinkInv, LinkTypeOK, TypeOK, DeviceStates, BootOrder, Quiet
    <2>2. InFlight = {}
      BY DEF Quiet, InFlight, InHand
    <2>3. sequence <= fw.state.applied
      BY <2>2 DEF Covered, Quiet
    <2>4. ASSUME ~TakenBeforeHello
          PROVE  fw.state.applied = sequence /\ ConfigOf(fw.state) = latest.config
      <3>1. fw.from = hello
        BY <2>1, <2>4 DEF TakenBeforeHello
      <3>2. Adopted.boot = latest.boot /\ latest.boot > 0
            /\ Adopted.version = fw.state.applied /\ latest.version = sequence
            /\ Adopted.config = ConfigOf(fw.state)
        BY <3>1 DEF Quiet, Adopted, StateOffer, latest
      <3>3. /\ Adopted.version <= latest.version
            /\ Adopted.version = latest.version => Adopted.config = latest.config
        BY <3>2 DEF Register!RegisterInv, Register!Ordered, Register!Known, Adopted
      <3> QED  BY <2>1, <2>3, <3>2, <3>3
    <2>5. Applied = fw.state.applied => sequence = fw.state.applied
      BY <2>1, <2>3 DEF Applied, Counted
    <2> QED  BY <2>1, <2>3, <2>4, <2>5
  <1>2. Register!Init => Register!RegisterInv
    BY Register!InitRegister
  <1>3. Register!RegisterInv /\ [Register!Next]_(Register!registerVars) => Register!RegisterInv'
    BY Register!NextRegister
  <1> QED
    BY <1>1, <1>2, <1>3, LinkInitInv, LinkNextInv, LinkInitRefines, LinkNextRefines,
       LinkInitConverging, LinkNextConverging, PTL
    DEF LinkSpec
=============================================================================
