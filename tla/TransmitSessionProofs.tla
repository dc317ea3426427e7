------------------------- MODULE TransmitSessionProofs -------------------------
(***************************************************************************)
(* A program that is through leaves the device unkeyed, for any settings,  *)
(* options, numbers of boots, snapshots underway and calls of callbacks.   *)
(***************************************************************************)
EXTENDS TransmitSession, DesiredStateLinkProofs

(* The session moves the link as its own specification does, except that    *)
(* frames to the host get lost when the port is closed.                     *)

PortGone ==
    \/ inbox' = <<>> /\ UNCHANGED <<trackerVars, wire, fw, mishaps>>
    \/ \E s \in BootStates, k \in 0 .. Len(wire) : BootUp(s, k) /\ UNCHANGED inbox

LinkMove == HostMove \/ DeviceStep \/ PortGone \/ UNCHANGED vars

LEMMA TwoThreads == Owner \in Threads /\ Rx \in Threads /\ Owner # Rx /\ Threads = {Owner, Rx}
  BY TrackerAssumption, SessionAssumption DEF Threads

LEMMA CallsAreSetters ==
    /\ CallBegins => Setter(Owner) /\ UNCHANGED linkVars
    /\ \A enabled \in BOOLEAN : CallbackCalls(enabled) => Setter(Rx) /\ UNCHANGED linkVars
  <1>1. ASSUME CallBegins PROVE Setter(Owner) /\ UNCHANGED linkVars
    <2>1. UNCHANGED linkVars
      BY <1>1 DEF CallBegins
    <2>2. \/ SetFlag(Owner, "TX_ALLOWED", TRUE)
          \/ \E enabled \in BOOLEAN :
                RequestPtt(Owner, enabled) \/ RequestPttUnchanged(Owner, enabled)
      <3>1. TRUE \in BOOLEAN /\ FALSE \in BOOLEAN
        OBVIOUS
      <3>2. SetFlag(Owner, "TX_ALLOWED", TRUE) \/ SetPtt(TRUE) \/ SetPtt(FALSE)
        BY <1>1 DEF CallBegins
      <3> QED  BY <3>1, <3>2 DEF SetPtt
    <2>3. "TX_ALLOWED" \in Options /\ TRUE \in BOOLEAN
      BY SessionAssumption
    <2>4. Setter(Owner)
      BY <2>2, <2>3, Zenon DEF Setter
    <2> QED  BY <2>1, <2>4
  <1>2. ASSUME NEW enabled \in BOOLEAN, CallbackCalls(enabled)
        PROVE  Setter(Rx) /\ UNCHANGED linkVars
    BY <1>2, Zenon DEF CallbackCalls, Setter
  <1> QED  BY <1>1, <1>2

\* The steps of the program that touch neither tracker nor link.
Still == Open \/ Connected \/ ConnectFails \/ Refused \/ Play \/ Joined

LEMMA BootsMove == Boots => DeviceStep \/ PortGone
  BY DEF Boots, DeviceStep, PortGone

LEMMA SessionMoves == [SessionNext]_allVars => LinkMove
  <1> SUFFICES ASSUME [SessionNext]_allVars PROVE LinkMove
    OBVIOUS
  <1>1. CASE UNCHANGED allVars
    BY <1>1 DEF allVars, LinkMove
  <1>2. CASE OwnerStep
    <2>1. CASE Still
      BY <2>1 DEF Still, Open, Connected, ConnectFails, Refused, Play, Joined, LinkMove
    <2>2. CASE Pulse
      BY <2>2, BootsMove DEF Pulse, LinkMove
    <2>3. CASE CallBegins
      BY <2>3, CallsAreSetters, TwoThreads DEF LinkMove, HostMove
    <2>4. CASE CallEnds
      BY <2>4, TwoThreads DEF CallEnds, LinkMove, HostMove
    <2>5. CASE ClosePort
      BY <2>5 DEF ClosePort, LinkMove, PortGone
    <2> QED  BY <1>2, <2>1, <2>2, <2>3, <2>4, <2>5 DEF OwnerStep, Still
  <1>3. CASE \E enabled \in BOOLEAN : CallbackCalls(enabled)
    BY <1>3, CallsAreSetters, TwoThreads DEF LinkMove, HostMove
  <1>4. CASE \E t \in Threads : Sends(t) \/ SendFails(t)
    BY <1>4 DEF Sends, SendFails, LinkMove, HostMove
  <1>5. CASE Handles
    BY <1>5 DEF Handles, LinkMove, HostMove
  <1>6. CASE Continues
    BY <1>6, TwoThreads DEF Continues, LinkMove, HostMove
  <1>7. CASE Device
    BY <1>7, BootsMove DEF Device, Unheard, LinkMove, DeviceStep
  <1>8. CASE ReadFails
    BY <1>8 DEF ReadFails, LinkMove, PortGone
  <1> QED  BY <1>1, <1>2, <1>3, <1>4, <1>5, <1>6, <1>7, <1>8 DEF SessionNext

LEMMA GoneInv == LinkInv /\ PortGone => LinkInv'
  <1> SUFFICES ASSUME LinkInv, PortGone PROVE LinkInv'
    OBVIOUS
  <1>0. LinkTypeOK /\ TypeOK /\ BootOrder /\ hello \in Nat /\ fw.boot \in Nat
    BY DEF LinkInv, LinkTypeOK, TypeOK
  <1>1. UNCHANGED trackerVars /\ mishaps' = mishaps
    BY DEF PortGone, BootUp
  <1>2. TypeOK' /\ BootsPast' /\ hello' = hello
    BY <1>0, <1>1, NextType DEF BootOrder, BootsPast, trackerVars, hostVars, callVars
  <1>3. CASE inbox' = <<>> /\ UNCHANGED <<trackerVars, wire, fw, mishaps>>
    BY <1>0, <1>2, <1>3 DEF LinkInv, LinkTypeOK, BootOrder
  <1>4. ASSUME NEW s \in BootStates, NEW k \in 0 .. Len(wire), BootUp(s, k), UNCHANGED inbox
        PROVE  LinkInv'
    <2>1. s \in DeviceStates /\ fw' = Firmware(fw.boot + 1, fw.boot + 1, s)
          /\ fw'.boot = fw.boot + 1 /\ fw'.from = fw.boot + 1
      BY <1>4, LinkAssumption DEF BootUp, Firmware
    <2>2. fw' \in [boot : Nat, from : Nat, state : DeviceStates]
      BY <1>0, <2>1 DEF Firmware
    <2>3. /\ wire' \in Seq(Sendable)
          /\ \A i \in DOMAIN wire' : i + k \in DOMAIN wire /\ wire'[i] = wire[i + k]
      BY <1>0, <1>4, SuffixElements DEF BootUp, LinkTypeOK
    <2>4. LinkTypeOK'
      BY <1>0, <1>1, <1>2, <1>4, <2>2, <2>3 DEF LinkTypeOK
    <2>5. \A i \in DOMAIN wire' : wire'[i].boot <= hello'
      BY <1>0, <1>2, <2>3 DEF BootOrder
    <2>6. \A i \in DOMAIN inbox : inbox[i].boot \in Nat
      BY <1>0, FrameParts
    <2>7. BootOrder'
      BY <1>0, <1>2, <1>4, <2>1, <2>5, <2>6 DEF BootOrder
    <2> QED  BY <2>4, <2>7 DEF LinkInv
  <1> QED  BY <1>3, <1>4 DEF PortGone

LEMMA GoneRefines == LinkInv /\ PortGone => [Register!Next]_(Register!registerVars)
  <1> SUFFICES ASSUME LinkInv, PortGone PROVE [Register!Next]_(Register!registerVars)
    OBVIOUS
  <1>0. LinkTypeOK /\ TypeOK /\ BootOrder
    BY DEF LinkInv, LinkTypeOK
  <1>1. latest' = latest /\ snap' = snap
    BY DEF PortGone, BootUp, latest, trackerVars, hostVars, callVars
  <1>2. CASE inbox' = <<>> /\ UNCHANGED <<trackerVars, wire, fw, mishaps>>
    <2>1. offers' \subseteq Known \cup {}
      BY <1>1, <1>2, OffersInclude, NothingNew DEF Known
    <2>2. Adopted' = Adopted
      BY <1>2 DEF Adopted, StateOffer, ConfigOf, HostFlags
    <2> QED
      BY <1>1, <2>1, <2>2 DEF Register!Next, Register!Forget, Register!Known, Known, Adopted
  <1>3. ASSUME NEW s \in BootStates, NEW k \in 0 .. Len(wire), BootUp(s, k), UNCHANGED inbox
        PROVE  [Register!Next]_(Register!registerVars)
    <2>1. fw' = Firmware(fw.boot + 1, fw.boot + 1, s) /\ s \in DeviceStates
      BY <1>3, LinkAssumption DEF BootUp
    <2>2. Adopted' = StateOffer(fw.boot + 1, s)
      BY <2>1 DEF Adopted, Firmware, StateOffer, ConfigOf, HostFlags
    <2>3. \A i \in DOMAIN wire' : i + k \in DOMAIN wire /\ wire'[i] = wire[i + k]
      BY <1>0, <1>3, SuffixElements DEF BootUp, LinkTypeOK
    <2>4. offers' \subseteq Known \cup {}
      BY <1>1, <1>3, <2>3, OffersInclude, NothingNew DEF Known
    <2>5. fw.boot + 1 \in Nat /\ hello <= fw.boot /\ hello \in Nat /\ fw.boot \in Nat
      BY <1>0 DEF BootOrder, LinkTypeOK, TypeOK
    <2>6. Adopted' \in Register!Offers /\ Adopted'.boot = fw.boot + 1
      BY <1>0, <2>1, <2>2, <2>5, MappedTypes DEF StateOffer
    <2>7. \A o \in Known : o.boot \in Nat /\ o.boot <= fw.boot
      BY <1>0, KnownPast
    <2>8. Adopted'.boot > latest.boot /\ \A o \in Known : Adopted'.boot > o.boot
      BY <2>5, <2>6, <2>7 DEF latest
    <2> QED
      BY <1>1, <2>4, <2>6, <2>8 DEF Register!Next, Register!Boot, Register!Known, Known, Adopted
  <1> QED  BY <1>2, <1>3 DEF PortGone

\* The session keeps what the link keeps, and is a settings register as well.
SessionLink == LinkInv /\ Register!RegisterInv

LEMMA SessionNextLink == SessionLink /\ [SessionNext]_allVars => SessionLink'
  <1> SUFFICES ASSUME SessionLink, [SessionNext]_allVars PROVE SessionLink'
    OBVIOUS
  <1>1. LinkInv /\ LinkMove /\ Register!RegisterInv
    BY SessionMoves DEF SessionLink
  <1>2. LinkInv'
    BY <1>1, LinkNextInv, HostType, HostOrder, DeviceType, DeviceOrder, GoneInv
    DEF LinkMove, LinkInv
  <1>3. [Register!Next]_(Register!registerVars)
    <2>1. UNCHANGED vars => [LinkNext]_vars
      OBVIOUS
    <2> QED  BY <1>1, <2>1, LinkNextRefines, HostRefines, DeviceRefines, GoneRefines DEF LinkMove
  <1>4. Register!RegisterInv'
    BY <1>1, <1>3, Register!NextRegister
  <1> QED  BY <1>2, <1>4 DEF SessionLink

-----------------------------------------------------------------------------
(* Where the program is.  A place that is not a call finds its thread idle  *)
(* (Away); what comes after a call depends on it.                           *)

\* Another thread's step leaves the program's counter alone, and the program's
\* own steps between its calls go on from a counter that is not idle.
LEMMA OthersWork ==
    /\ \A t \in Threads : TypeOK /\ Setter(t) =>
          /\ t # Owner => pc'[Owner] = pc[Owner]
          /\ pc[Owner] # "idle" => pc'[Owner] # "idle"
    /\ \A t \in Threads : TypeOK /\ (Release(t) \/ Transmit(t) \/ Raise(t)) =>
          (pc'[Owner] = "idle" <=> pc[Owner] = "idle")
    /\ TypeOK /\ Reacquire(Rx) => pc'[Owner] = pc[Owner]
    /\ RxStep \/ HandleHello \/ HandleDeviceState \/ DeviceStep \/ PortGone => pc' = pc
  <1>1. ASSUME NEW t \in Threads, TypeOK, Setter(t)
        PROVE  /\ t # Owner => pc'[Owner] = pc[Owner]
               /\ pc[Owner] # "idle" => pc'[Owner] # "idle"
    <2>1. CASE trackerVars' = trackerVars
      BY <2>1 DEF trackerVars, callVars
    <2>2. CASE trackerVars' # trackerVars
      BY <1>1, <2>2, SetterPrepares, TwoThreads DEF Prepare, TypeOK
    <2> QED  BY <2>1, <2>2
  <1>2. ASSUME NEW t \in Threads, TypeOK, Release(t) \/ Transmit(t) \/ Raise(t)
        PROVE  pc'[Owner] = "idle" <=> pc[Owner] = "idle"
    BY <1>2, TwoThreads DEF Release, Transmit, Raise, TypeOK
  <1>3. ASSUME TypeOK, Reacquire(Rx) PROVE pc'[Owner] = pc[Owner]
    BY <1>3, TwoThreads DEF Reacquire, TypeOK
  <1>4. ASSUME RxStep \/ HandleHello \/ HandleDeviceState PROVE pc' = pc
    BY <1>4 DEF RxStep, SetEvent, Store, Compare, Notify, CallbackReturns, CallbackRaises,
                HandleHello, HandleDeviceState, OnHello, OnDeviceState, callVars
  <1>5. ASSUME DeviceStep \/ PortGone PROVE pc' = pc
    BY <1>5 DEF DeviceStep, Apply, PassOver, Lose, Report, Reboot, BootUp, PortGone, trackerVars,
                callVars
  <1> QED  BY <1>1, <1>2, <1>3, <1>4, <1>5

\* Nothing wakes an RX thread that has ended.
LEMMA NextEnded == Ended /\ [SessionNext]_allVars => Ended'
  <1> SUFFICES ASSUME Ended, [SessionNext]_allVars, error' PROVE inbox' = <<>> /\ RxFree'
    BY DEF Ended
  <1>1. CASE ReadFails
    BY <1>1 DEF ReadFails, RxFree, trackerVars, rxVars
  <1>2. CASE ~ReadFails
    <2>1. error
      <3>1. error' = error \/ Open
        BY <1>2
        DEF SessionNext, allVars, sessionVars, pastVars, OwnerStep, Pulse, Connected, ConnectFails,
            CallBegins, Refused, CallEnds, Play, ClosePort, Joined, CallbackCalls, Sends, SendFails,
            Handles, Continues, Device
      <3> QED  BY <3>1 DEF Open
    <2>2. inbox = <<>> /\ stage = "idle" /\ ~inCallback
      BY <2>1 DEF Ended, RxFree
    <2>3. ASSUME UNCHANGED <<inbox, stage, inCallback>> PROVE inbox' = <<>> /\ RxFree'
      BY <2>2, <2>3 DEF RxFree
    <2>4. \A t, fl, st : Prepare(t, fl, st) => UNCHANGED <<stage, inCallback>>
      BY DEF Prepare, rxVars
    <2>5. CASE UNCHANGED allVars \/ OwnerStep
      <3>1. CASE CallBegins
        BY <2>3, <2>4, <3>1
        DEF CallBegins, SetPtt, SetFlag, RequestPtt, RequestPttUnchanged, trackerVars, rxVars, linkVars
      <3>2. CASE Pulse
        BY <2>1, <2>3, <3>2 DEF Pulse, Boots, Hears, BootUp, trackerVars, rxVars
      <3>3. CASE UNCHANGED allVars \/ Still \/ CallEnds \/ ClosePort
        <4>1. inbox' = <<>> /\ UNCHANGED <<stage, inCallback>>
          BY <2>2, <3>3
          DEF allVars, Still, Open, Connected, ConnectFails, Refused, Play, Joined, CallEnds, Reacquire,
              ClosePort, vars, linkVars, trackerVars, rxVars
        <4> QED  BY <2>2, <4>1 DEF RxFree
      <3> QED  BY <2>5, <3>1, <3>2, <3>3 DEF OwnerStep, Still
    <2>6. CASE \E enabled \in BOOLEAN : CallbackCalls(enabled)
      BY <2>2, <2>6 DEF CallbackCalls, RequestPtt, RequestPttUnchanged, Prepare, MayCall, 
                        trackerVars, rxVars, linkVars, RxFree
    <2>7. CASE \E t \in Threads : Sends(t) \/ SendFails(t)
      BY <2>3, <2>7 DEF Sends, SendFails, Write, WriteFails, Transmit, Raise, rxVars
    <2>8. CASE Handles
      BY <2>2, <2>8 DEF Handles, HandleHello, HandleDeviceState, Receive
    <2>9. CASE Continues
      BY <2>2, <2>3, <2>9
      DEF Continues, Release, Reacquire, RxStep, SetEvent, Store, Compare, Notify, CallbackReturns,
          CallbackRaises, Edges, rxVars, linkVars
    <2>10. CASE Device
      BY <2>1, <2>3, <2>10
      DEF Device, Hears, Unheard, Boots, Apply, PassOver, Lose, BootUp, trackerVars, rxVars
    <2> QED  BY <1>2, <2>5, <2>6, <2>7, <2>8, <2>9, <2>10 DEF SessionNext
  <1> QED  BY <1>1, <1>2

LEMMA SessionNextType == SessionTypeOK /\ Away /\ [SessionNext]_allVars /\ LinkTypeOK'
                            => (SessionTypeOK /\ Away)'
  <1> SUFFICES ASSUME SessionTypeOK, Away, [SessionNext]_allVars, LinkTypeOK'
               PROVE  (SessionTypeOK /\ Away)'
    OBVIOUS
  <1>0. TypeOK /\ place \in Places /\ error \in BOOLEAN /\ unsent \in BOOLEAN
        /\ rekeyed \in BOOLEAN /\ abandoned \in BOOLEAN /\ Ended'
    BY NextEnded DEF SessionTypeOK, LinkTypeOK
  <1>1. ASSUME place' = place, error' \in BOOLEAN, unsent' \in BOOLEAN, rekeyed' \in BOOLEAN,
               abandoned' = abandoned, pc[Owner] = "idle" => pc'[Owner] = "idle"
        PROVE  (SessionTypeOK /\ Away)'
    BY <1>0, <1>1 DEF SessionTypeOK, Away
  <1>2. CASE UNCHANGED allVars
    BY <1>0, <1>1, <1>2 DEF allVars, vars, trackerVars, callVars, sessionVars, pastVars
  <1>3. CASE OwnerStep
    <2>1. CASE Still /\ ~Refused
      <3>1. pc' = pc /\ UNCHANGED pastVars
        BY <2>1 DEF Still, Open, Connected, ConnectFails, Play, Joined, vars, trackerVars, callVars
      <3>2. /\ pc[Owner] = "idle" /\ place' \in Places /\ error' \in BOOLEAN
        BY <1>0, <2>1, <3>1 DEF Still, Open, Connected, ConnectFails, Play, Joined, Places, Away
      <3> QED  BY <1>0, <3>1, <3>2 DEF SessionTypeOK, Away, pastVars
    <2>6. CASE Refused
      <3>1. pc' = pc /\ pc[Owner] = "idle" /\ place' \in Places /\ UNCHANGED <<error, unsent, rekeyed>>
        BY <2>6 DEF Refused, vars, trackerVars, callVars, Else, Places
      <3>2. abandoned' \in BOOLEAN
        BY <1>0, <2>6, Zenon DEF Refused
      <3> QED  BY <1>0, <3>1, <3>2 DEF SessionTypeOK, Away
    <2>2. CASE Pulse
      <3>1. pc' = pc /\ place = "reset" /\ place' = "connect" /\ error' = error
            /\ unsent' = FALSE /\ rekeyed' = FALSE /\ abandoned' = FALSE
        BY <2>2 DEF Pulse, Boots, Reboot, BootUp, trackerVars, callVars
      <3> QED  BY <1>0, <3>1 DEF SessionTypeOK, Places, Away
    <2>3. CASE CallBegins
      <3>1. UNCHANGED <<error, rekeyed, abandoned>> /\ unsent' \in BOOLEAN
        BY <1>0, <2>3, Zenon DEF CallBegins
      <3>2. CASE place \in {"allow", "key", "unkey", "leave"} /\ place' = place
        BY <1>0, <3>1, <3>2 DEF SessionTypeOK, Away
      <3>3. CASE ~(place \in {"allow", "key", "unkey", "leave"} /\ place' = place)
        <4>1. pc[Owner] = "idle" /\ pc' = pc /\ place \in {"key", "unkey", "leave"}
              /\ place' = Then[place]
          BY <2>3, <3>3 DEF CallBegins, SetPtt, RequestPttUnchanged, MayCall, trackerVars, callVars
        <4> QED  BY <1>0, <3>1, <4>1 DEF SessionTypeOK, Away, Then, Places
      <3> QED  BY <3>2, <3>3
    <2>4. CASE CallEnds
      <3>1. UNCHANGED <<error, pastVars>> /\ pc'[Owner] = "idle"
            /\ place' \in {Then[place], Else[place]} /\ pc[Owner] # "idle"
        BY <1>0, <2>4, TwoThreads DEF CallEnds, Reacquire, TypeOK
      <3>2. place \in {"allow", "key", "unkey", "leave"}
        BY <1>0, <3>1 DEF Away, Places
      <3> QED  BY <1>0, <3>1, <3>2 DEF SessionTypeOK, Away, Then, Else, Places, pastVars
    <2>5. CASE ClosePort
      BY <1>0, <2>5 DEF ClosePort, SessionTypeOK, Away, Places, trackerVars, callVars, pastVars
    <2> QED  BY <1>3, <2>1, <2>2, <2>3, <2>4, <2>5, <2>6 DEF OwnerStep, Still
  <1>4. ASSUME NEW enabled \in BOOLEAN, CallbackCalls(enabled) PROVE (SessionTypeOK /\ Away)'
    <2>1. pc'[Owner] = pc[Owner]
      BY <1>0, <1>4, CallsAreSetters, OthersWork, TwoThreads
    <2>2. UNCHANGED <<place, error, abandoned>>
      BY <1>4 DEF CallbackCalls
    <2>3. rekeyed' \in BOOLEAN /\ unsent' \in BOOLEAN
      BY <1>0, <1>4, Zenon DEF CallbackCalls
    <2> QED  BY <1>0, <1>1, <2>1, <2>2, <2>3
  <1>5. ASSUME NEW t \in Threads, Sends(t) PROVE (SessionTypeOK /\ Away)'
    <2>1. pc'[Owner] = "idle" <=> pc[Owner] = "idle"
      BY <1>0, <1>5, OthersWork DEF Sends, Write
    <2> QED  BY <1>0, <1>1, <1>5, <2>1 DEF Sends, sessionVars, pastVars
  <1>6. ASSUME NEW t \in Threads, SendFails(t) PROVE (SessionTypeOK /\ Away)'
    <2>1. pc'[Owner] = "idle" <=> pc[Owner] = "idle"
      BY <1>0, <1>6, OthersWork DEF SendFails, WriteFails
    <2>2. unsent' \in BOOLEAN /\ UNCHANGED <<place, error, rekeyed, abandoned>>
      BY <1>0, <1>6, Zenon DEF SendFails
    <2> QED  BY <1>0, <2>1, <2>2 DEF SessionTypeOK, Away
  <1>7. CASE Handles
    BY <1>0, <1>1, <1>7, OthersWork DEF Handles, sessionVars, pastVars
  <1>8. CASE Continues
    <2>1. pc'[Owner] = "idle" <=> pc[Owner] = "idle"
      BY <1>0, <1>8, OthersWork DEF Continues
    <2> QED  BY <1>0, <1>1, <1>8, <2>1 DEF Continues, sessionVars, pastVars
  <1>9. CASE Device
    <2>1. DeviceStep \/ PortGone
      BY <1>9, BootsMove DEF Device, Unheard, DeviceStep
    <2> QED  BY <1>0, <1>1, <1>9, <2>1, OthersWork DEF Device, sessionVars, pastVars
  <1>10. CASE ReadFails
    <2>1. pc' = pc /\ error' = TRUE /\ UNCHANGED <<place, pastVars>>
      BY <1>10 DEF ReadFails, trackerVars, callVars
    <2> QED  BY <1>0, <1>1, <2>1 DEF pastVars
  <1> QED  BY <1>2, <1>3, <1>4, <1>5, <1>6, <1>7, <1>8, <1>9, <1>10 DEF SessionNext

LEMMA SessionInitType == SessionInit => SessionLink /\ SessionTypeOK /\ Away
  <1> SUFFICES ASSUME SessionInit PROVE SessionLink /\ SessionTypeOK /\ Away
    OBVIOUS
  <1>1. LinkInv /\ Register!RegisterInv
    BY LinkInitInv, LinkInitRefines, Register!InitRegister DEF SessionInit
  <1>2. pc[Owner] = "idle"
    BY TwoThreads DEF SessionInit, LinkInit, Init
  <1>3. error \in BOOLEAN /\ unsent \in BOOLEAN /\ rekeyed \in BOOLEAN /\ abandoned \in BOOLEAN
    BY Zenon DEF SessionInit
  <1>4. Ended
    BY DEF SessionInit, Ended
  <1> QED
    BY <1>1, <1>2, <1>3, <1>4 DEF SessionInit, SessionLink, LinkInv, SessionTypeOK, Away, Places

\* The session is well typed; whatever has raised, the program's thread is in no
\* setter between its calls, and an RX thread that has ended is in no handler.
THEOREM SessionTypes == SessionSpec => []SessionTypeOK
  <1>1. SessionLink /\ SessionTypeOK /\ Away /\ [SessionNext]_allVars
           => (SessionLink /\ SessionTypeOK /\ Away)'
    BY SessionNextLink, SessionNextType DEF SessionLink, LinkInv
  <1> QED  BY <1>1, SessionInitType, PTL DEF SessionSpec

-----------------------------------------------------------------------------
(* Unkeying.  The program leaves with PTT cleared in the host's flags ...    *)

LeavesUnkeyed == Leaving /\ ~rekeyed /\ ~abandoned => "PTT" \notin flags

\* ... which a HELLO does not undo, since no boot is keyed of itself ...
BootsUnkeyed ==
    /\ fw.from > hello => "PTT" \notin fw.state.flags
    /\ \A i \in DOMAIN inbox : inbox[i].kind = "hello" => "PTT" \notin inbox[i].state.flags

\* ... and then, of what was built for this boot, either nothing that keys is
\* on its way and still to be applied, nor has it been applied last, or a
\* snapshot without PTT is on its way that is newer than all that does.
KeyedFlights == {s \in InFlight : s.boot = hello /\ "PTT" \in s.flags}

KeyedDevice == fw.from = hello /\ "PTT" \in fw.state.flags

UnkeyUnderway ==
    \E u \in InFlight :
        /\ "PTT" \notin u.flags
        /\ \A s \in KeyedFlights : s.sequence < u.sequence
        /\ KeyedDevice => fw.state.applied < u.sequence

NoKeyUnderway ==
    /\ \A s \in KeyedFlights : s.sequence <= fw.state.applied
    /\ ~KeyedDevice

Unkeying ==
    fw.boot = hello /\ ~unsent /\ "frame" \notin mishaps /\ "PTT" \notin flags =>
        UnkeyUnderway \/ NoKeyUnderway

LEMMA NextBootsUnkeyed == LinkInv /\ BootsUnkeyed /\ LinkMove => BootsUnkeyed'
  <1> SUFFICES ASSUME LinkInv, BootsUnkeyed, LinkMove PROVE BootsUnkeyed'
    OBVIOUS
  <1>0. LinkTypeOK /\ TypeOK /\ BootOrder /\ hello \in Nat /\ fw.from \in Nat /\ fw.boot \in Nat
    BY DEF LinkInv, LinkTypeOK, TypeOK
  <1>1. ASSUME hello' = hello, fw' = fw, inbox' = inbox PROVE BootsUnkeyed'
    BY <1>1 DEF BootsUnkeyed
  <1>2. CASE UNCHANGED vars
    BY <1>1, <1>2 DEF vars, linkVars, trackerVars, hostVars
  <1>3. CASE HandleHello \/ HandleDeviceState
    <2>1. inbox # <<>> /\ inbox' = Tail(inbox) /\ fw' = fw
          /\ (hello' = hello \/ (HandleHello /\ hello' = Head(inbox).boot))
      BY <1>3 DEF HandleHello, HandleDeviceState, Receive, OnHello, OnDeviceState
    <2>2. \A i \in DOMAIN inbox' : i + 1 \in DOMAIN inbox /\ inbox'[i] = inbox[i + 1]
      BY <1>0, <2>1, TailElements DEF LinkTypeOK
    <2>3. HandleHello => hello < hello' /\ hello' \in Nat
      BY <1>0, <2>1, TailElements, FrameParts DEF HandleHello, Receive, OnHello, BootOrder, LinkTypeOK
    <2>4. fw'.from > hello' => fw.from > hello
      BY <1>0, <2>1, <2>3
    <2> QED  BY <2>1, <2>2, <2>4 DEF BootsUnkeyed
  <1>4. CASE HostMove /\ ~(HandleHello \/ HandleDeviceState)
    BY <1>0, <1>1, <1>4, HostKeepsBoot
  <1>5. hello' = hello \/ ~(DeviceStep \/ PortGone)
    BY DEF DeviceStep, Apply, PassOver, Lose, Report, Reboot, BootUp, PortGone, trackerVars, hostVars
  <1>6. CASE Apply
    <2>1. wire # <<>> /\ inbox' = inbox /\ fw'.from = Head(wire).boot
      BY <1>6 DEF Apply, Take, Firmware
    <2>2. Head(wire).boot \in Nat /\ Head(wire).boot <= hello
      BY <1>0, <2>1, TailElements DEF LinkTypeOK, BootOrder, Sendable, Snapshots
    <2> QED  BY <1>0, <1>5, <1>6, <2>1, <2>2 DEF BootsUnkeyed, DeviceStep
  <1>7. CASE PassOver \/ Lose
    BY <1>1, <1>5, <1>7 DEF PassOver, Lose, DeviceStep
  <1>8. CASE Report
    <2>1. Frame("state") \in Frames /\ Frame("state").kind = "state"
      BY <1>0 DEF Frame, Frames, LinkTypeOK
    <2>2. \A i \in DOMAIN inbox' : inbox'[i].kind = "hello" =>
             i \in DOMAIN inbox /\ inbox'[i] = inbox[i]
      BY <1>0, <1>8, <2>1, AppendElements DEF Report, LinkTypeOK
    <2> QED  BY <1>5, <1>8, <2>2 DEF Report, DeviceStep, BootsUnkeyed
  <1>9. ASSUME NEW s \in BootStates, NEW k \in 0 .. Len(wire), BootUp(s, k),
               Reboot(s, k) \/ inbox' = inbox
        PROVE  BootsUnkeyed'
    <2> DEFINE m == [kind |-> "hello", boot |-> fw.boot + 1, state |-> s]
    <2>1. "PTT" \notin s.flags /\ fw'.state = s
      BY <1>9, SessionAssumption DEF BootUp, Firmware
    <2>2. m \in Frames /\ m.state = s
      BY <1>0, LinkAssumption DEF Frames
    <2>3. inbox' = inbox \/ inbox' = Append(inbox, m)
      BY <1>9 DEF Reboot
    <2> HIDE DEF m
    <2>4. \A i \in DOMAIN inbox' :
           (i \in DOMAIN inbox /\ inbox'[i] = inbox[i]) \/ inbox'[i] = m
      BY <1>0, <2>2, <2>3, AppendElements DEF LinkTypeOK
    <2> QED  BY <2>1, <2>2, <2>4 DEF BootsUnkeyed
  <1>10. CASE inbox' = <<>> /\ UNCHANGED <<trackerVars, wire, fw, mishaps>>
    BY <1>10 DEF BootsUnkeyed, trackerVars, hostVars
  <1> QED
    BY <1>2, <1>3, <1>4, <1>6, <1>7, <1>8, <1>9, <1>10
    DEF LinkMove, DeviceStep, PortGone, Reboot

LEMMA NextLeaves ==
    SessionTypeOK /\ LinkInv /\ Away /\ LeavesUnkeyed /\ BootsUnkeyed /\ [SessionNext]_allVars
        => LeavesUnkeyed'
  <1> SUFFICES ASSUME SessionTypeOK, LinkInv, Away, LeavesUnkeyed, BootsUnkeyed,
                      [SessionNext]_allVars, Leaving', ~rekeyed', ~abandoned'
               PROVE  "PTT" \notin flags'
    BY DEF LeavesUnkeyed
  <1>0. TypeOK /\ LinkTypeOK /\ place \in Places
    BY DEF SessionTypeOK, LinkTypeOK
  <1>1. ASSUME place' = place, rekeyed' = rekeyed, abandoned' = abandoned, flags' = flags,
               pc[Owner] = "idle" => pc'[Owner] = "idle"
        PROVE  "PTT" \notin flags'
    BY <1>1 DEF Leaving, LeavesUnkeyed
  <1>2. CASE UNCHANGED allVars
    BY <1>1, <1>2 DEF allVars, vars, trackerVars, hostVars, callVars, sessionVars, pastVars
  <1>3. CASE OwnerStep
    <2>1. CASE (Still /\ ~Refused) \/ Pulse
      <3>1. pc' = pc /\ flags' = flags
        BY <2>1 DEF Still, Open, Connected, ConnectFails, Play, Joined, Pulse, Boots, Reboot,
                    BootUp, vars, trackerVars, hostVars, callVars
      <3>2. Joined
        BY <1>0, <2>1, <3>1
        DEF Still, Open, Connected, ConnectFails, Play, Joined, Pulse, Leaving, Away, Places
      <3> QED  BY <3>1, <3>2 DEF Joined, Leaving, LeavesUnkeyed, pastVars
    <2>5. CASE Refused
      <3>1. /\ pc' = pc /\ flags' = flags /\ rekeyed' = rekeyed /\ pc[Owner] = "idle"
            /\ place \in {"allow", "key", "unkey", "leave"} /\ place' = Else[place]
            /\ abandoned' = (abandoned \/ (place = "leave" /\ "PTT" \in flags))
        BY <2>5 DEF Refused, vars, trackerVars, hostVars, callVars
      <3>2. place = "leave"
        BY <3>1 DEF Leaving, Else
      <3> QED  BY <3>1, <3>2
    <2>2. CASE CallBegins
      <3>1. place \in {"unkey", "leave"} /\ SetPtt(FALSE)
        <4>1. CASE place = "allow" /\ UNCHANGED place
          BY <4>1 DEF Leaving
        <4>2. CASE place = "key" /\ SetPtt(TRUE)
          <5>1. place' \in {"key", "play"}
            BY <4>2 DEF SetPtt, Then
          <5> QED  BY <5>1 DEF Leaving
        <4>3. CASE place \in {"unkey", "leave"} /\ SetPtt(FALSE)
          BY <4>3
        <4> QED  BY <2>2, <4>1, <4>2, <4>3 DEF CallBegins
      <3>2. CASE RequestPtt(Owner, FALSE)
        BY <3>2 DEF RequestPtt, Prepare, With
      <3>3. CASE RequestPttUnchanged(Owner, FALSE)
        BY <3>3 DEF RequestPttUnchanged, With, trackerVars, hostVars
      <3> QED  BY <3>1, <3>2, <3>3 DEF SetPtt
    <2>3. CASE CallEnds
      <3>1. flags' = flags /\ UNCHANGED pastVars /\ pc'[Owner] = "idle"
            /\ pc[Owner] \in {"written", "failed"} /\ place' \in {Then[place], Else[place]}
        BY <1>0, <2>3, TwoThreads DEF CallEnds, Reacquire, hostVars, TypeOK
      <3>2. place \in {"allow", "key", "unkey", "leave"}
        BY <1>0, <3>1 DEF Away, Places
      <3>3. place = "leave"
        BY <3>1, <3>2 DEF Leaving, Then, Else
      <3> QED  BY <3>1, <3>3 DEF LeavesUnkeyed, Leaving, pastVars
    <2>4. CASE ClosePort
      BY <2>4 DEF ClosePort, trackerVars, hostVars, LeavesUnkeyed, Leaving, pastVars
    <2> QED  BY <1>3, <2>1, <2>2, <2>3, <2>4, <2>5 DEF OwnerStep, Still
  <1>4. ASSUME NEW enabled \in BOOLEAN, CallbackCalls(enabled) PROVE "PTT" \notin flags'
    <2>1. /\ ~rekeyed /\ ~abandoned /\ place' = place
          /\ ~(Leaving /\ enabled /\ flags' # flags)
      BY <1>4 DEF CallbackCalls
    <2>2. pc'[Owner] = pc[Owner]
      BY <1>0, <1>4, CallsAreSetters, OthersWork, TwoThreads
    <2>3. Leaving /\ "PTT" \notin flags
      BY <2>1, <2>2 DEF Leaving, LeavesUnkeyed
    <2>4. CASE flags' = flags
      BY <2>3, <2>4
    <2>5. CASE flags' # flags
      <3>1. ~enabled /\ RequestPtt(Rx, enabled)
        BY <1>4, <2>1, <2>3, <2>5 DEF CallbackCalls, RequestPttUnchanged, trackerVars, hostVars
      <3> QED  BY <3>1 DEF RequestPtt, Prepare, With
    <2> QED  BY <2>4, <2>5
  <1>5. ASSUME NEW t \in Threads, Sends(t) \/ SendFails(t) PROVE "PTT" \notin flags'
    <2>1. pc'[Owner] = "idle" <=> pc[Owner] = "idle"
      BY <1>0, <1>5, OthersWork DEF Sends, SendFails, Write, WriteFails
    <2>2. place' = place /\ rekeyed' = rekeyed /\ abandoned' = abandoned /\ flags' = flags
      BY <1>5
      DEF Sends, SendFails, Write, WriteFails, Transmit, Raise, hostVars, sessionVars, pastVars
    <2> QED  BY <1>1, <2>1, <2>2
  <1>6. CASE Handles
    <2>1. pc' = pc /\ place' = place /\ rekeyed' = rekeyed /\ abandoned' = abandoned
      BY <1>6, OthersWork DEF Handles, sessionVars, pastVars
    <2>2. CASE HandleDeviceState
      BY <1>1, <2>1, <2>2 DEF HandleDeviceState, OnDeviceState
    <2>3. CASE HandleHello
      <3>1. inbox # <<>> /\ Head(inbox).kind = "hello" /\ flags' = HostFlags(Head(inbox).state.flags)
        BY <2>3 DEF HandleHello, Receive, OnHello
      <3>2. "PTT" \notin Head(inbox).state.flags
        BY <1>0, <3>1, TailElements DEF LinkTypeOK, BootsUnkeyed
      <3> QED  BY <3>1, <3>2 DEF HostFlags
    <2> QED  BY <1>6, <2>2, <2>3 DEF Handles
  <1>7. CASE Continues
    <2>1. pc'[Owner] = "idle" <=> pc[Owner] = "idle"
      BY <1>0, <1>7, OthersWork DEF Continues
    <2>2. flags' = flags
      BY <1>7 DEF Continues, Release, Reacquire, RxStep, SetEvent, Store, Compare, Notify,
                  CallbackReturns, CallbackRaises, hostVars
    <2> QED  BY <1>1, <1>7, <2>1, <2>2 DEF Continues, sessionVars, pastVars
  <1>8. CASE Device
    <2>1. UNCHANGED trackerVars
      BY <1>8 DEF Device, Unheard, Boots, DeviceStep, Apply, PassOver, Lose, Report, Reboot, BootUp
    <2> QED  BY <1>1, <1>8, <2>1 DEF Device, sessionVars, pastVars, trackerVars, hostVars, callVars
  <1>9. CASE ReadFails
    BY <1>1, <1>9 DEF ReadFails, pastVars, trackerVars, hostVars, callVars
  <1> QED  BY <1>2, <1>3, <1>4, <1>5, <1>6, <1>7, <1>8, <1>9 DEF SessionNext

\* Snapshots are built for a boot the host has heard of, and, of the boot it knows
\* of now, under numbers up to its own; and so is what the device has applied.
LEMMA FlightNumbers ==
    ASSUME SessionLink
    PROVE  /\ sequence \in Nat /\ hello \in Nat /\ fw.state.applied \in Nat
           /\ \A s \in InFlight : s.sequence \in Nat /\ s.boot \in Nat /\ s.boot <= hello
           /\ hello > 0 => \A s \in KeyedFlights : s.sequence <= sequence
           /\ hello > 0 /\ KeyedDevice => fw.state.applied <= sequence
  <1>0. LinkTypeOK /\ TypeOK /\ BootOrder /\ BootsPast /\ Register!Ordered
    BY DEF SessionLink, LinkInv, LinkTypeOK, BootOrder, Register!RegisterInv
  <1>1. sequence \in Nat /\ hello \in Nat /\ fw.state.applied \in Nat
    BY <1>0, TrackerAssumption DEF LinkTypeOK, TypeOK, DeviceStates
  <1>2. ASSUME NEW s \in InFlight PROVE s.sequence \in Nat /\ s.boot \in Nat /\ s.boot <= hello
    <2>1. s.sequence \in Nat /\ s.boot \in Nat
      BY <1>0, FlightMembers DEF Snapshots
    <2>2. CASE \E t \in Threads : InHand(t) /\ s = snap[t]
      BY <1>0, <2>1, <2>2 DEF InHand, BootsPast, TypeOK
    <2>3. CASE \E i \in DOMAIN wire : s = wire[i]
      BY <1>0, <2>1, <2>3 DEF BootOrder
    <2> QED  BY <2>1, <2>2, <2>3 DEF InFlight
  <1>3. ASSUME hello > 0, NEW s \in KeyedFlights PROVE s.sequence <= sequence
    <2>1. SnapshotOffer(s) \in Register!Known /\ s.boot = hello
      BY <1>0, FlightMembers DEF KeyedFlights, Register!Known
    <2>2. SnapshotOffer(s).boot = latest.boot /\ SnapshotOffer(s).version = s.sequence
          /\ latest.boot > 0 /\ latest.version = sequence
      BY <1>3, <2>1 DEF SnapshotOffer, latest
    <2>3. SnapshotOffer(s).version <= latest.version
      BY <1>0, <2>1, <2>2 DEF Register!Ordered
    <2> QED  BY <2>2, <2>3
  <1>4. ASSUME hello > 0, KeyedDevice PROVE fw.state.applied <= sequence
    <2>1. Adopted \in Register!Known /\ Adopted.boot = latest.boot /\ latest.boot > 0
          /\ Adopted.version = fw.state.applied /\ latest.version = sequence
      BY <1>4 DEF Adopted, Register!Known, KeyedDevice, StateOffer, latest
    <2>2. Adopted.version <= latest.version
      BY <1>0, <2>1 DEF Register!Ordered
    <2> QED  BY <2>1, <2>2
  <1> QED  BY <1>1, <1>2, <1>3, <1>4

\* A step that leaves host flags, device and snapshots underway as they are.
LEMMA KeepUnkeying ==
    ASSUME Unkeying, hello' = hello, flags' = flags, fw' = fw, InFlight' = InFlight,
           unsent => unsent', mishaps' = mishaps
    PROVE  Unkeying'
  BY DEF Unkeying, UnkeyUnderway, NoKeyUnderway, KeyedFlights, KeyedDevice

\* A setter that leaves PTT cleared puts the newest snapshot underway.
LEMMA SetterUnkeys ==
    ASSUME SessionLink, Unkeying, NEW t \in Threads, Setter(t), UNCHANGED linkVars,
           unsent' = (unsent /\ sequence' = sequence)
    PROVE  Unkeying'
  <1>0. LinkTypeOK /\ TypeOK
    BY DEF SessionLink, LinkInv, LinkTypeOK
  <1>1. CASE trackerVars' = trackerVars
    <2>1. hello' = hello /\ flags' = flags /\ (unsent => unsent') /\ InFlight' = InFlight
      BY <1>1 DEF trackerVars, hostVars, callVars, linkVars, InFlight, InHand
    <2> QED  BY <2>1, KeepUnkeying DEF linkVars
  <1>2. CASE trackerVars' # trackerVars
    <2>1. PICK fl \in HostWords : \E st \in Settings : Prepare(t, fl, st)
      BY <1>0, <1>2, SetterPrepares
    <2>2. PICK u : /\ InFlight' = InFlight \cup {u}
                   /\ u.boot = hello /\ u.sequence = sequence' /\ u.flags = flags'
      BY <1>0, <2>1, FlightOfPrepare
    <2>3. hello' = hello /\ hello > 0 /\ fw' = fw
          /\ sequence' = Larger(sequence, Applied) + 1
      BY <2>1 DEF Prepare, MayCall, linkVars
    <2>4. Applied \in Nat
      BY <1>0, TrackerAssumption DEF TypeOK, Applied, DeviceStates
    <2>5. sequence' \in Nat /\ sequence < sequence'
      BY <2>3, <2>4, FlightNumbers DEF Larger
    <2>6. ASSUME "PTT" \notin flags' PROVE UnkeyUnderway'
      <3>1. KeyedFlights' = KeyedFlights /\ (KeyedDevice' <=> KeyedDevice)
        BY <2>2, <2>3, <2>6 DEF KeyedFlights, KeyedDevice
      <3>2. \A s \in KeyedFlights : s.sequence < u.sequence
        BY <2>2, <2>3, <2>5, FlightNumbers DEF KeyedFlights
      <3>3. KeyedDevice => fw.state.applied < u.sequence
        BY <2>2, <2>3, <2>5, FlightNumbers
      <3>4. u \in InFlight' /\ "PTT" \notin u.flags
        BY <2>2, <2>6
      <3> QED  BY <2>3, <3>1, <3>2, <3>3, <3>4 DEF UnkeyUnderway
    <2> QED  BY <2>6 DEF Unkeying
  <1> QED  BY <1>1, <1>2

\* What the device takes from the wire: a snapshot without PTT that is newer than
\* all that key either becomes its state or is older than its state.
LEMMA TakeUnkeys ==
    ASSUME SessionLink, Unkeying, Apply \/ PassOver \/ Lose, unsent' = unsent
    PROVE  Unkeying'
  <1>0. LinkTypeOK
    BY DEF SessionLink, LinkInv
  <1>1. UNCHANGED trackerVars /\ Take
    BY DEF Apply, PassOver, Lose
  <1>2. hello' = hello /\ flags' = flags /\ pc' = pc /\ snap' = snap
    BY <1>1 DEF trackerVars, hostVars, callVars
  <1> DEFINE w == Head(wire)
  <1>3. w \in InFlight /\ InFlight' \subseteq InFlight /\ InFlight \subseteq InFlight' \cup {w}
    BY <1>0, <1>1, <1>2, FlightOfTake
  <1>4. w.sequence \in Nat /\ fw.state.applied \in Nat
        /\ \A s \in InFlight : s.sequence \in Nat
    BY <1>3, FlightNumbers
  <1>5. KeyedFlights' \subseteq KeyedFlights
        /\ (w.boot = hello /\ "PTT" \in w.flags => w \in KeyedFlights)
    BY <1>2, <1>3 DEF KeyedFlights
  <1>6. CASE Lose
    BY <1>6 DEF Lose, Unkeying
  <1>7. SUFFICES ASSUME Apply \/ PassOver, fw'.boot = hello', ~unsent', "frame" \notin mishaps',
                        "PTT" \notin flags'
                 PROVE  UnkeyUnderway' \/ NoKeyUnderway'
    BY <1>6 DEF Unkeying
  <1>8. UnkeyUnderway \/ NoKeyUnderway
    BY <1>2, <1>7 DEF Unkeying, Apply, PassOver, Firmware
  <1>9. CASE Apply
    <2>1. fw'.from = w.boot /\ fw'.state.applied = w.sequence /\ fw'.state.flags = w.flags
          /\ w.sequence > fw.state.applied
      BY <1>9 DEF Apply, Firmware
    <2> HIDE DEF w
    <2>2. CASE NoKeyUnderway
      <3>1. w \notin KeyedFlights
        BY <1>4, <2>1, <2>2 DEF NoKeyUnderway
      <3>2. ~KeyedDevice'
        BY <1>2, <1>5, <2>1, <3>1 DEF KeyedDevice
      <3>3. \A s \in KeyedFlights' : s.sequence <= fw'.state.applied
        BY <1>4, <1>5, <2>1, <2>2 DEF NoKeyUnderway, KeyedFlights
      <3> QED  BY <3>2, <3>3 DEF NoKeyUnderway
    <2>3. CASE UnkeyUnderway
      <3>1. PICK u \in InFlight :
               /\ "PTT" \notin u.flags
               /\ \A s \in KeyedFlights : s.sequence < u.sequence
               /\ KeyedDevice => fw.state.applied < u.sequence
        BY <2>3 DEF UnkeyUnderway
      <3>2. CASE u = w
        <4>1. ~KeyedDevice'
          BY <2>1, <3>1, <3>2 DEF KeyedDevice
        <4>2. \A s \in KeyedFlights' : s.sequence <= fw'.state.applied
          BY <1>4, <1>5, <2>1, <3>1, <3>2 DEF KeyedFlights
        <4> QED  BY <4>1, <4>2 DEF NoKeyUnderway
      <3>3. CASE u # w
        <4>1. u \in InFlight'
          BY <1>3, <3>3
        <4>2. KeyedDevice' => fw'.state.applied < u.sequence
          BY <1>2, <1>5, <2>1, <3>1 DEF KeyedDevice
        <4> QED  BY <1>5, <3>1, <4>1, <4>2 DEF UnkeyUnderway
      <3> QED  BY <3>2, <3>3
    <2> QED  BY <1>8, <2>2, <2>3
  <1>10. CASE PassOver
    <2>1. fw' = fw /\ w.sequence <= fw.state.applied /\ (KeyedDevice' <=> KeyedDevice)
      BY <1>2, <1>10 DEF PassOver, KeyedDevice
    <2> HIDE DEF w
    <2>2. CASE NoKeyUnderway
      BY <1>5, <2>1, <2>2 DEF NoKeyUnderway
    <2>3. CASE UnkeyUnderway
      <3>1. PICK u \in InFlight :
               /\ "PTT" \notin u.flags
               /\ \A s \in KeyedFlights : s.sequence < u.sequence
               /\ KeyedDevice => fw.state.applied < u.sequence
        BY <2>3 DEF UnkeyUnderway
      <3>2. CASE u = w
        <4>1. ~KeyedDevice
          BY <1>4, <2>1, <3>1, <3>2
        <4>2. \A s \in KeyedFlights : s.sequence <= fw.state.applied
          BY <1>4, <2>1, <3>1, <3>2 DEF KeyedFlights
        <4> QED  BY <1>5, <2>1, <4>1, <4>2 DEF NoKeyUnderway
      <3>3. CASE u # w
        <4>1. u \in InFlight'
          BY <1>3, <3>3
        <4> QED  BY <1>5, <2>1, <3>1, <4>1 DEF UnkeyUnderway
      <3> QED  BY <3>2, <3>3
    <2> QED  BY <1>8, <2>2, <2>3
  <1> QED  BY <1>7, <1>9, <1>10

LEMMA NextUnkeying ==
    ASSUME SessionLink, BootsUnkeyed, Unkeying, [SessionNext]_allVars
    PROVE  Unkeying'
  <1>0. LinkTypeOK /\ TypeOK /\ BootOrder /\ hello \in Nat /\ fw.boot \in Nat /\ hello <= fw.boot
    BY DEF SessionLink, LinkInv, LinkTypeOK, TypeOK, BootOrder
  <1>1. ASSUME UNCHANGED vars, unsent' = unsent PROVE Unkeying'
    <2>1. hello' = hello /\ flags' = flags /\ fw' = fw /\ mishaps' = mishaps /\ InFlight' = InFlight
      BY <1>1 DEF vars, trackerVars, hostVars, callVars, linkVars, InFlight, InHand
    <2> QED  BY <1>1, <2>1, KeepUnkeying
  <1>2. ASSUME NEW s, NEW k, BootUp(s, k) PROVE Unkeying'
    <2>1. fw'.boot = fw.boot + 1 /\ hello' = hello
      BY <1>2 DEF BootUp, Firmware, trackerVars, hostVars
    <2>2. fw'.boot # hello'
      BY <1>0, <2>1
    <2> QED  BY <2>2 DEF Unkeying
  <1>3. CASE UNCHANGED allVars
    BY <1>1, <1>3 DEF allVars, sessionVars, pastVars
  <1>4. CASE Still
    BY <1>1, <1>4 DEF Still, Open, Connected, ConnectFails, Refused, Play, Joined, pastVars
  <1>5. CASE Pulse
    BY <1>2, <1>5 DEF Pulse, Boots, Reboot
  <1>6. CASE CallBegins
    BY <1>6, CallsAreSetters, TwoThreads, SetterUnkeys DEF CallBegins
  <1>7. ASSUME NEW enabled \in BOOLEAN, CallbackCalls(enabled) PROVE Unkeying'
    BY <1>7, CallsAreSetters, TwoThreads, SetterUnkeys DEF CallbackCalls
  <1>8. CASE CallEnds \/ Continues
    <2>1. UNCHANGED linkVars /\ unsent' = unsent
          /\ (RxStep \/ \E t \in Threads : Release(t) \/ Reacquire(t))
      BY <1>8, TwoThreads DEF CallEnds, Continues, sessionVars, pastVars
    <2>2. hello' = hello /\ flags' = flags
      BY <2>1 DEF Release, Reacquire, RxStep, SetEvent, Store, Compare, Notify, CallbackReturns,
                  CallbackRaises, hostVars
    <2>3. InFlight' = InFlight
      BY <1>0, <2>1, FlightKept
    <2> QED  BY <2>1, <2>2, <2>3, KeepUnkeying DEF linkVars
  <1>9. CASE ClosePort \/ ReadFails
    <2>1. hello' = hello /\ flags' = flags /\ InFlight' = InFlight /\ unsent' = unsent
      BY <1>9 DEF ClosePort, ReadFails, pastVars, trackerVars, hostVars, callVars, InFlight, InHand
    <2> QED  BY <1>9, <2>1, KeepUnkeying DEF ClosePort, ReadFails
  <1>10. ASSUME NEW t \in Threads, Sends(t) PROVE Unkeying'
    <2>1. InFlight' = InFlight
      BY <1>0, <1>10, FlightOfWrite DEF Sends
    <2> QED  BY <1>10, <2>1, KeepUnkeying DEF Sends, Write, Transmit, hostVars, sessionVars, pastVars
  <1>11. ASSUME NEW t \in Threads, SendFails(t) PROVE Unkeying'
    <2>1. /\ hello' = hello /\ flags' = flags /\ fw' = fw
          /\ mishaps' = mishaps \cup {"write"}
          /\ unsent' = (unsent \/ "PTT" \notin snap[t].flags)
      BY <1>11 DEF SendFails, WriteFails, Raise, hostVars
    <2>2. InFlight' \subseteq InFlight /\ InFlight \subseteq InFlight' \cup {snap[t]}
      BY <1>0, <1>11, FlightOfFailure DEF SendFails
    <2>3. CASE "PTT" \notin snap[t].flags
      BY <2>1, <2>3 DEF Unkeying
    <2>4. CASE "PTT" \in snap[t].flags
      <3>1. (unsent => unsent') /\ ("frame" \in mishaps => "frame" \in mishaps')
        BY <2>1, <2>4
      <3>2. KeyedFlights' \subseteq KeyedFlights /\ (KeyedDevice' <=> KeyedDevice)
        BY <2>1, <2>2 DEF KeyedFlights, KeyedDevice
      <3>3. \A u \in InFlight : "PTT" \notin u.flags => u \in InFlight'
        BY <2>2, <2>4
      <3>4. UnkeyUnderway => UnkeyUnderway'
        BY <2>1, <3>2, <3>3 DEF UnkeyUnderway
      <3>5. NoKeyUnderway => NoKeyUnderway'
        BY <2>1, <3>2 DEF NoKeyUnderway
      <3> QED  BY <2>1, <3>1, <3>4, <3>5 DEF Unkeying
    <2> QED  BY <2>3, <2>4
  <1>12. CASE HandleDeviceState /\ UNCHANGED sessionVars
    BY <1>12, KeepUnkeying
    DEF HandleDeviceState, Receive, OnDeviceState, callVars, sessionVars, pastVars, InFlight, InHand
  <1>13. CASE HandleHello
    <2>1. /\ inbox # <<>> /\ Head(inbox).kind = "hello" /\ hello' = Head(inbox).boot
          /\ fw' = fw /\ pc' = pc /\ snap' = snap /\ wire' = wire
      BY <1>13 DEF HandleHello, Receive, OnHello, callVars
    <2>2. hello' \in Nat /\ hello < hello'
      BY <1>0, <2>1, TailElements, FrameParts DEF BootOrder, LinkTypeOK
    <2>3. InFlight' = InFlight
      BY <2>1 DEF InFlight, InHand
    <2>4. KeyedFlights' = {}
      BY <1>0, <2>2, <2>3, FlightNumbers DEF KeyedFlights
    <2>5. ~KeyedDevice'
      BY <2>1, <2>2 DEF KeyedDevice, BootsUnkeyed
    <2> QED  BY <2>4, <2>5 DEF Unkeying, NoKeyUnderway
  <1>14. CASE Device
    <2>1. CASE Apply \/ PassOver \/ Lose
      BY <1>14, <2>1, TakeUnkeys DEF Device, sessionVars, pastVars
    <2>2. CASE Report
      <3>1. hello' = hello /\ flags' = flags /\ InFlight' = InFlight
        BY <2>2 DEF Report, trackerVars, hostVars, callVars, InFlight, InHand
      <3> QED  BY <1>14, <2>2, <3>1, KeepUnkeying DEF Report, Device, sessionVars, pastVars
    <2>3. CASE \E s \in BootStates, k \in 0 .. Len(wire) : BootUp(s, k)
      BY <1>2, <2>3
    <2> QED  BY <1>14, <2>1, <2>2, <2>3 DEF Device, DeviceStep, Unheard, Boots, Reboot
  <1> QED
    BY <1>3, <1>4, <1>5, <1>6, <1>7, <1>8, <1>9, <1>10, <1>11, <1>12, <1>13, <1>14
    DEF SessionNext, OwnerStep, Still, Handles

LEMMA SessionInitUnkeyed == SessionInit => LeavesUnkeyed /\ BootsUnkeyed /\ Unkeying
  <1> SUFFICES ASSUME SessionInit PROVE LeavesUnkeyed /\ BootsUnkeyed /\ Unkeying
    OBVIOUS
  <1>1. /\ place = "reset" /\ flags = {"VALID"} /\ wire = <<>> /\ inbox = <<>>
        /\ \A t \in Threads : ~InHand(t)
    BY DEF SessionInit, LinkInit, Init, InHand
  <1>2. "PTT" \notin fw.state.flags
    BY SessionAssumption DEF SessionInit, LinkInit, Firmware
  <1>3. InFlight = {}
    BY <1>1 DEF InFlight
  <1> QED
    BY <1>1, <1>2, <1>3
    DEF LeavesUnkeyed, Leaving, BootsUnkeyed, Unkeying, NoKeyUnderway, KeyedFlights, KeyedDevice

\* What the session keeps.
SessionInv ==
    /\ SessionLink
    /\ SessionTypeOK
    /\ Away
    /\ LeavesUnkeyed
    /\ BootsUnkeyed
    /\ Unkeying

LEMMA SessionNextInv == SessionInv /\ [SessionNext]_allVars => SessionInv'
  <1> SUFFICES ASSUME SessionInv, [SessionNext]_allVars PROVE SessionInv'
    OBVIOUS
  <1>1. SessionLink /\ SessionTypeOK /\ Away /\ LeavesUnkeyed /\ BootsUnkeyed /\ Unkeying
    BY DEF SessionInv
  <1>2. LinkInv /\ LinkMove
    BY <1>1, SessionMoves DEF SessionLink
  <1>3. SessionLink' /\ LinkTypeOK'
    BY <1>1, SessionNextLink DEF SessionLink, LinkInv
  <1>4. (SessionTypeOK /\ Away)'
    BY <1>1, <1>3, SessionNextType
  <1>5. LeavesUnkeyed' /\ BootsUnkeyed' /\ Unkeying'
    BY <1>1, <1>2, NextLeaves, NextBootsUnkeyed, NextUnkeying
  <1> QED  BY <1>3, <1>4, <1>5 DEF SessionInv

LEMMA SessionInvUnkeyed == SessionInv => UnkeyedOnExit
  <1> SUFFICES ASSUME SessionInv, Over, ~unsent, "frame" \notin mishaps, fw.from = fw.boot,
                      ~rekeyed, ~abandoned
               PROVE  "PTT" \notin fw.state.flags
    BY DEF UnkeyedOnExit
  <1>1. LinkTypeOK /\ BootOrder /\ place = "closed" /\ wire = <<>>
    BY DEF SessionInv, SessionLink, LinkInv, Over
  <1>2. pc[Owner] = "idle" /\ pc[Rx] = "idle"
    BY <1>1 DEF SessionInv, Away, Over
  <1>3. InFlight = {}
    BY <1>1, <1>2, TwoThreads DEF InFlight, InHand
  <1>4. "PTT" \notin flags
    BY <1>1 DEF SessionInv, LeavesUnkeyed, Leaving
  <1>5. CASE fw.boot = hello
    BY <1>3, <1>4, <1>5 DEF SessionInv, Unkeying, UnkeyUnderway, NoKeyUnderway, KeyedDevice
  <1>6. CASE fw.boot # hello
    <2>1. fw.from > hello
      BY <1>1, <1>6 DEF BootOrder, LinkTypeOK, TypeOK
    <2> QED  BY <2>1 DEF SessionInv, BootsUnkeyed
  <1> QED  BY <1>5, <1>6

\* A program that is through leaves the device unkeyed, wherever calls raised,
\* callbacks keyed before disconnect's set_ptt(False) or the device booted, but for
\* the exceptions that UnkeyedOnExit names: among them a read error that made
\* disconnect skip its set_ptt(False) while PTT was requested.
THEOREM SessionUnkeys == SessionSpec => []UnkeyedOnExit
  <1>1. SessionInit => SessionInv
    BY SessionInitType, SessionInitUnkeyed DEF SessionInv
  <1> QED  BY <1>1, SessionNextInv, SessionInvUnkeyed, PTL DEF SessionSpec
=============================================================================
