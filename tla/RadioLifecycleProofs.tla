------------------------- MODULE RadioLifecycleProofs -------------------------
(***************************************************************************)
(* The serial transport, and the radio's lifecycle on top of it, for any   *)
(* number of threads, sessions and resets.                                 *)
(*                                                                         *)
(* The transport: as long as no join has given up, an RX thread that runs  *)
(* is the one in self._thread, so the next open() finds all earlier ones   *)
(* dead, and the port in self._serial is the one that was opened for it.   *)
(* What stop and self._serial tell each other (StopFirst) is why a close   *)
(* is silent.                                                              *)
(*                                                                         *)
(* The radio: _open says whether there is an RX thread (OpenIsThread), and *)
(* it is the one of the port that was opened last (Current).               *)
(***************************************************************************)
EXTENDS RadioLifecycle, TLAPS

-----------------------------------------------------------------------------
(* THE TRANSPORT.                                                          *)

Runs(r) == rx[r] \notin {"unborn", "dead"}

\* Only the owner and callbacks close, only the owner opens, and a callback that
\* is in a call has not returned.
Callers ==
    /\ \A t \in Threads : step[t] \in {"stopping", "joining"} => t \in Sessions \cup {Owner}
    /\ \A t \in Threads : step[t] = "opened" => t = Owner
    /\ \A r \in Sessions : step[r] # "idle" => rx[r] = "callback"

\* RX threads are started in the order of the ports.
Unborn ==
    /\ \A r \in Sessions : r > sessions => rx[r] = "unborn"
    /\ step[Owner] = "opened" => sessions \in Sessions /\ rx[sessions] = "unborn"

OnlyThread == \A r \in Sessions : Runs(r) => thread = r

\* self._serial, self._thread and the ports that are open.
Opened == step[Owner] = "opened" => thread = None /\ serial = sessions /\ serial \in ports
SerialOfThread == thread # None => serial \in {thread, None}
OpenIsSerial == \A p \in ports : p = serial \/ rx[p] = "unborn"
NoThread == thread = None /\ serial # None => rx[serial] = "unborn"
Joining == step[Owner] = "joining" => serial = None

StopFirst ==
    /\ thread # None /\ ~stop => serial = thread /\ serial \in ports
    /\ \A t \in Threads : step[t] = "stopping" => stop

Silent ==
    /\ \A r \in Sessions : rx[r] = "failed" /\ ~stop => r \in broken
    /\ \A r \in Sessions : rx[r] = "reporting" => r \in broken
    /\ reported \subseteq broken

OwnPort == \A r \in Sessions : rx[r] = "read" => at[r] = r

Kept ==
    /\ OnlyThread /\ Opened /\ SerialOfThread /\ OpenIsSerial /\ NoThread /\ Joining
    /\ StopFirst /\ Silent /\ OwnPort

IInv == TypeOK /\ Callers /\ Unborn /\ (~gaveUp => Kept)
-----------------------------------------------------------------------------
(* The steps, one lemma each.                                              *)

LEMMA OpenPortStep ==
    ASSUME IInv, ~gaveUp => thread = None, OpenPort(Owner)
    PROVE  IInv'
<1> USE SerialAssumption DEF IInv, Sessions, Threads, OpenPort, MayCall, GoTo, portVars, rxVars
<1>1. TypeOK'
  BY DEF TypeOK
<1>2. Callers' /\ Unborn'
  BY DEF TypeOK, Callers, Unborn
<1>3. ASSUME ~gaveUp' PROVE Kept'
  <2> USE <1>3 DEF TypeOK, Callers, Unborn, Kept, Runs, OnlyThread
  <2>1. OnlyThread'
    OBVIOUS
  <2>2. Opened' /\ Joining'
    BY DEF Opened, Joining
  <2>3. SerialOfThread' /\ NoThread'
    BY DEF Opened, SerialOfThread, NoThread, Joining
  <2>4. OpenIsSerial'
    BY DEF Opened, OpenIsSerial, NoThread
  <2>5. StopFirst'
    BY DEF Opened, StopFirst
  <2>6. Silent'
    BY DEF Opened, StopFirst, Silent, OwnPort
  <2>7. OwnPort'
    BY DEF OwnPort, SerialOfThread
  <2>8. QED BY <2>1, <2>2, <2>3, <2>4, <2>5, <2>6, <2>7
<1>4. QED BY <1>1, <1>2, <1>3

LEMMA OpenRaisesStep ==
    ASSUME IInv, OpenRaises(Owner)
    PROVE  IInv'
<1> USE SerialAssumption DEF IInv, Sessions, Threads, OpenRaises, GoTo, portVars, rxVars
<1>1. TypeOK'
  BY DEF TypeOK
<1>2. Callers' /\ Unborn'
  BY DEF TypeOK, Callers, Unborn
<1>3. ASSUME ~gaveUp' PROVE Kept'
  <2>1. OnlyThread' /\ OpenIsSerial' /\ SerialOfThread' /\ NoThread' /\ OwnPort' /\ Silent'
    BY <1>3 DEF Kept, OnlyThread, Runs, OpenIsSerial, SerialOfThread, NoThread, OwnPort, Silent
  <2>2. Opened' /\ Joining' /\ StopFirst'
    BY <1>3 DEF TypeOK, Kept, Opened, Joining, StopFirst
  <2>3. QED BY <2>1, <2>2 DEF Kept
<1>4. QED BY <1>1, <1>2, <1>3

LEMMA OpenStartStep ==
    ASSUME IInv, OpenStart(Owner)
    PROVE  IInv'
<1> USE SerialAssumption DEF IInv, Sessions, Threads, OpenStart, GoTo, portVars, rxVars
<1>1. TypeOK'
  <2>1. sessions \in 1 .. sessions /\ sessions \in Sessions
    BY DEF TypeOK, Unborn
  <2>2. \A t \in Threads : lock' = t <=> step'[t] \in {"writing", "pulsing"}
    BY DEF TypeOK
  <2>3. rx' \in [Sessions -> {"unborn", "test", "load", "read", "failed", "reporting",
                             "feed", "callback", "dead"}]
    BY <2>1 DEF TypeOK
  <2>4. QED BY <2>1, <2>2, <2>3 DEF TypeOK
<1>2. Callers' /\ Unborn'
  BY DEF TypeOK, Callers, Unborn
<1>3. ASSUME ~gaveUp' PROVE Kept'
  <2> USE <1>3 DEF TypeOK, Callers, Unborn, Kept, Runs, OnlyThread
  <2>1. OnlyThread'
    BY DEF Opened
  <2>2. Opened' /\ Joining'
    BY DEF Opened, Joining
  <2>3. SerialOfThread' /\ NoThread'
    BY DEF Opened, SerialOfThread, NoThread, Joining
  <2>4. OpenIsSerial'
    BY DEF Opened, OpenIsSerial, NoThread
  <2>5. StopFirst'
    BY DEF Opened, StopFirst
  <2>6. Silent'
    BY DEF Opened, StopFirst, Silent, OwnPort
  <2>7. OwnPort'
    BY DEF OwnPort, SerialOfThread
  <2>8. QED BY <2>1, <2>2, <2>3, <2>4, <2>5, <2>6, <2>7
<1>4. QED BY <1>1, <1>2, <1>3

LEMMA CloseStopStep ==
    ASSUME IInv, NEW t \in Sessions \cup {Owner}, CloseStop(t)
    PROVE  IInv'
<1> USE SerialAssumption DEF IInv, Sessions, Threads, CloseStop, MayCall, GoTo, portVars, rxVars
<1>1. TypeOK'
  BY DEF TypeOK
<1>2. Callers' /\ Unborn'
  BY DEF TypeOK, Callers, Unborn
<1>3. ASSUME ~gaveUp' PROVE Kept'
  <2> USE <1>3 DEF TypeOK, Callers, Unborn, Kept, Runs, OnlyThread
  <2>1. OnlyThread'
    OBVIOUS
  <2>2. Opened' /\ Joining'
    BY DEF Opened, Joining
  <2>3. SerialOfThread' /\ NoThread'
    BY DEF Opened, SerialOfThread, NoThread, Joining
  <2>4. OpenIsSerial'
    BY DEF Opened, OpenIsSerial, NoThread
  <2>5. StopFirst'
    BY DEF Opened, StopFirst
  <2>6. Silent'
    BY DEF Opened, StopFirst, Silent, OwnPort
  <2>7. OwnPort'
    BY DEF OwnPort, SerialOfThread
  <2>8. QED BY <2>1, <2>2, <2>3, <2>4, <2>5, <2>6, <2>7
<1>4. QED BY <1>1, <1>2, <1>3

LEMMA ClosePortStep ==
    ASSUME IInv, NEW t \in Sessions \cup {Owner}, ClosePort(t)
    PROVE  IInv'
<1> USE SerialAssumption DEF IInv, Sessions, Threads, ClosePort, GoTo, portVars, rxVars
<1>1. TypeOK'
  BY DEF TypeOK
<1>2. Callers' /\ Unborn'
  BY DEF TypeOK, Callers, Unborn
<1>3. ASSUME ~gaveUp' PROVE Kept'
  <2> USE <1>3 DEF TypeOK, Callers, Unborn, Kept, Runs, OnlyThread
  <2>1. OnlyThread'
    OBVIOUS
  <2>2. Opened' /\ Joining'
    BY DEF Opened, Joining
  <2>3. SerialOfThread' /\ NoThread'
    BY DEF Opened, SerialOfThread, NoThread, Joining
  <2>4. OpenIsSerial'
    BY DEF Opened, OpenIsSerial, NoThread
  <2>5. StopFirst'
    BY DEF Opened, StopFirst
  <2>6. Silent'
    BY DEF Opened, StopFirst, Silent, OwnPort
  <2>7. OwnPort'
    BY DEF OwnPort, SerialOfThread
  <2>8. QED BY <2>1, <2>2, <2>3, <2>4, <2>5, <2>6, <2>7
<1>4. QED BY <1>1, <1>2, <1>3

LEMMA JoinStep ==
    ASSUME IInv, NEW t \in Sessions \cup {Owner}, Join(t)
    PROVE  IInv'
<1> USE SerialAssumption DEF IInv, Sessions, Threads, Join, GoTo, portVars, rxVars
<1>1. TypeOK'
  BY DEF TypeOK
<1>2. Callers' /\ Unborn'
  BY DEF TypeOK, Callers, Unborn
<1>3. ASSUME ~gaveUp' PROVE Kept'
  <2> USE <1>3 DEF TypeOK, Callers, Unborn, Kept, Runs, OnlyThread
  <2>1. OnlyThread'
    OBVIOUS
  <2>2. Opened' /\ Joining'
    BY DEF Opened, Joining
  <2>3. SerialOfThread' /\ NoThread'
    BY DEF Opened, SerialOfThread, NoThread, Joining
  <2>4. OpenIsSerial'
    BY DEF Opened, OpenIsSerial, NoThread
  <2>5. StopFirst'
    BY DEF Opened, StopFirst
  <2>6. Silent'
    BY DEF Opened, StopFirst, Silent, OwnPort
  <2>7. OwnPort'
    BY DEF OwnPort, SerialOfThread
  <2>8. QED BY <2>1, <2>2, <2>3, <2>4, <2>5, <2>6, <2>7
<1>4. QED BY <1>1, <1>2, <1>3

LEMMA JoinTimesOutStep ==
    ASSUME IInv, NEW t \in Sessions \cup {Owner}, JoinTimesOut(t)
    PROVE  IInv'
<1> USE SerialAssumption DEF IInv, Sessions, Threads, JoinTimesOut, GoTo, portVars, rxVars
<1>1. TypeOK'
  BY DEF TypeOK
<1>2. Callers' /\ Unborn'
  BY DEF TypeOK, Callers, Unborn
<1>3. ASSUME ~gaveUp' PROVE Kept'
  BY <1>3
<1>4. QED BY <1>1, <1>2, <1>3

LEMMA JoinSelfStep ==
    ASSUME IInv, NEW t \in Sessions \cup {Owner}, JoinSelf(t)
    PROVE  IInv'
<1> USE SerialAssumption DEF IInv, Sessions, Threads, JoinSelf, GoTo, portVars, rxVars
<1>1. TypeOK'
  BY DEF TypeOK
<1>2. Callers' /\ Unborn'
  BY DEF TypeOK, Callers, Unborn
<1>3. ASSUME ~gaveUp' PROVE Kept'
  <2>1. OnlyThread' /\ OpenIsSerial' /\ SerialOfThread' /\ NoThread' /\ OwnPort' /\ Silent'
    BY <1>3 DEF Kept, OnlyThread, Runs, OpenIsSerial, SerialOfThread, NoThread, OwnPort, Silent
  <2>2. Opened' /\ Joining' /\ StopFirst'
    BY <1>3 DEF TypeOK, Kept, Opened, Joining, StopFirst
  <2>3. QED BY <2>1, <2>2 DEF Kept
<1>4. QED BY <1>1, <1>2, <1>3

LEMMA WriteBeginStep ==
    ASSUME IInv, NEW t \in Threads, WriteBegin(t)
    PROVE  IInv'
<1> USE SerialAssumption DEF IInv, Sessions, Threads, WriteBegin, MayCall, GoTo, portVars, rxVars
<1>1. TypeOK'
  BY DEF TypeOK
<1>2. Callers' /\ Unborn'
  BY DEF TypeOK, Callers, Unborn
<1>3. ASSUME ~gaveUp' PROVE Kept'
  <2>1. OnlyThread' /\ OpenIsSerial' /\ SerialOfThread' /\ NoThread' /\ OwnPort' /\ Silent'
    BY <1>3 DEF Kept, OnlyThread, Runs, OpenIsSerial, SerialOfThread, NoThread, OwnPort, Silent
  <2>2. Opened' /\ Joining' /\ StopFirst'
    BY <1>3 DEF TypeOK, Kept, Opened, Joining, StopFirst
  <2>3. QED BY <2>1, <2>2 DEF Kept
<1>4. QED BY <1>1, <1>2, <1>3

LEMMA WriteEndStep ==
    ASSUME IInv, NEW t \in Threads, WriteEnd(t)
    PROVE  IInv'
<1> USE SerialAssumption DEF IInv, Sessions, Threads, WriteEnd, GoTo, portVars, rxVars
<1>1. TypeOK'
  BY DEF TypeOK
<1>2. Callers' /\ Unborn'
  BY DEF TypeOK, Callers, Unborn
<1>3. ASSUME ~gaveUp' PROVE Kept'
  <2>1. OnlyThread' /\ OpenIsSerial' /\ SerialOfThread' /\ NoThread' /\ OwnPort' /\ Silent'
    BY <1>3 DEF Kept, OnlyThread, Runs, OpenIsSerial, SerialOfThread, NoThread, OwnPort, Silent
  <2>2. Opened' /\ Joining' /\ StopFirst'
    BY <1>3 DEF TypeOK, Kept, Opened, Joining, StopFirst
  <2>3. QED BY <2>1, <2>2 DEF Kept
<1>4. QED BY <1>1, <1>2, <1>3

LEMMA ResetBeginStep ==
    ASSUME IInv, NEW t \in Threads, ResetBegin(t)
    PROVE  IInv'
<1> USE SerialAssumption DEF IInv, Sessions, Threads, ResetBegin, MayCall, GoTo, portVars, rxVars
<1>1. TypeOK'
  BY DEF TypeOK
<1>2. Callers' /\ Unborn'
  BY DEF TypeOK, Callers, Unborn
<1>3. ASSUME ~gaveUp' PROVE Kept'
  <2>1. OnlyThread' /\ OpenIsSerial' /\ SerialOfThread' /\ NoThread' /\ OwnPort' /\ Silent'
    BY <1>3 DEF Kept, OnlyThread, Runs, OpenIsSerial, SerialOfThread, NoThread, OwnPort, Silent
  <2>2. Opened' /\ Joining' /\ StopFirst'
    BY <1>3 DEF TypeOK, Kept, Opened, Joining, StopFirst
  <2>3. QED BY <2>1, <2>2 DEF Kept
<1>4. QED BY <1>1, <1>2, <1>3

LEMMA ResetEndStep ==
    ASSUME IInv, NEW t \in Threads, ResetEnd(t)
    PROVE  IInv'
<1> USE SerialAssumption DEF IInv, Sessions, Threads, ResetEnd, GoTo, portVars, rxVars
<1>1. TypeOK'
  BY DEF TypeOK
<1>2. Callers' /\ Unborn'
  BY DEF TypeOK, Callers, Unborn
<1>3. ASSUME ~gaveUp' PROVE Kept'
  <2>1. OnlyThread' /\ OpenIsSerial' /\ SerialOfThread' /\ NoThread' /\ OwnPort' /\ Silent'
    BY <1>3 DEF Kept, OnlyThread, Runs, OpenIsSerial, SerialOfThread, NoThread, OwnPort, Silent
  <2>2. Opened' /\ Joining' /\ StopFirst'
    BY <1>3 DEF TypeOK, Kept, Opened, Joining, StopFirst
  <2>3. QED BY <2>1, <2>2 DEF Kept
<1>4. QED BY <1>1, <1>2, <1>3

LEMMA TestStep ==
    ASSUME IInv, NEW r \in Sessions, Test(r)
    PROVE  IInv'
<1> USE SerialAssumption DEF IInv, Sessions, Threads, Test, RxGoTo, portVars, rxVars
<1>1. TypeOK'
  BY DEF TypeOK
<1>2. Callers' /\ Unborn'
  BY DEF TypeOK, Callers, Unborn
<1>3. ASSUME ~gaveUp' PROVE Kept'
  <2>1. OnlyThread'
    BY <1>3 DEF TypeOK, Kept, OnlyThread, Runs
  <2>2. Silent' /\ OwnPort'
    BY <1>3 DEF TypeOK, Kept, OnlyThread, Runs, SerialOfThread, StopFirst, Silent, OwnPort
  <2>3. Opened' /\ Joining' /\ SerialOfThread' /\ StopFirst'
    BY <1>3 DEF Kept, Opened, Joining, SerialOfThread, StopFirst
  <2>4. OpenIsSerial' /\ NoThread'
    BY <1>3 DEF TypeOK, Kept, OpenIsSerial, NoThread
  <2>5. QED BY <2>1, <2>2, <2>3, <2>4 DEF Kept
<1>4. QED BY <1>1, <1>2, <1>3

LEMMA LoadStep ==
    ASSUME IInv, NEW r \in Sessions, Load(r)
    PROVE  IInv'
<1> USE SerialAssumption DEF IInv, Sessions, Threads, Load, RxGoTo, portVars, rxVars
<1>1. TypeOK'
  BY DEF TypeOK
<1>2. Callers' /\ Unborn'
  BY DEF TypeOK, Callers, Unborn
<1>3. ASSUME ~gaveUp' PROVE Kept'
  <2>1. OnlyThread'
    BY <1>3 DEF TypeOK, Kept, OnlyThread, Runs
  <2>2. Silent' /\ OwnPort'
    BY <1>3 DEF TypeOK, Kept, OnlyThread, Runs, SerialOfThread, StopFirst, Silent, OwnPort
  <2>3. Opened' /\ Joining' /\ SerialOfThread' /\ StopFirst'
    BY <1>3 DEF Kept, Opened, Joining, SerialOfThread, StopFirst
  <2>4. OpenIsSerial' /\ NoThread'
    BY <1>3 DEF TypeOK, Kept, OpenIsSerial, NoThread
  <2>5. QED BY <2>1, <2>2, <2>3, <2>4 DEF Kept
<1>4. QED BY <1>1, <1>2, <1>3

LEMMA ReadStep ==
    ASSUME IInv, NEW r \in Sessions, Read(r)
    PROVE  IInv'
<1> USE SerialAssumption DEF IInv, Sessions, Threads, Read, RxGoTo, portVars, rxVars
<1>1. TypeOK'
  BY DEF TypeOK
<1>2. Callers' /\ Unborn'
  BY DEF TypeOK, Callers, Unborn
<1>3. ASSUME ~gaveUp' PROVE Kept'
  <2>1. OnlyThread'
    BY <1>3 DEF TypeOK, Kept, OnlyThread, Runs
  <2>2. Silent' /\ OwnPort'
    BY <1>3 DEF TypeOK, Kept, OnlyThread, Runs, SerialOfThread, StopFirst, Silent, OwnPort
  <2>3. Opened' /\ Joining' /\ SerialOfThread' /\ StopFirst'
    BY <1>3 DEF Kept, Opened, Joining, SerialOfThread, StopFirst
  <2>4. OpenIsSerial' /\ NoThread'
    BY <1>3 DEF TypeOK, Kept, OpenIsSerial, NoThread
  <2>5. QED BY <2>1, <2>2, <2>3, <2>4 DEF Kept
<1>4. QED BY <1>1, <1>2, <1>3

LEMMA ReadFailsStep ==
    ASSUME IInv, NEW r \in Sessions, ReadFails(r)
    PROVE  IInv'
<1> USE SerialAssumption DEF IInv, Sessions, Threads, ReadFails, RxGoTo, Working, portVars, rxVars
<1>1. TypeOK'
  BY DEF TypeOK
<1>2. Callers' /\ Unborn'
  BY DEF TypeOK, Callers, Unborn
<1>3. ASSUME ~gaveUp' PROVE Kept'
  <2>1. OnlyThread'
    BY <1>3 DEF TypeOK, Kept, OnlyThread, Runs
  <2>2. Silent' /\ OwnPort'
    BY <1>3 DEF TypeOK, Kept, OnlyThread, Runs, SerialOfThread, StopFirst, Silent, OwnPort
  <2>3. Opened' /\ Joining' /\ SerialOfThread' /\ StopFirst'
    BY <1>3 DEF Kept, Opened, Joining, SerialOfThread, StopFirst
  <2>4. OpenIsSerial' /\ NoThread'
    BY <1>3 DEF TypeOK, Kept, OpenIsSerial, NoThread
  <2>5. QED BY <2>1, <2>2, <2>3, <2>4 DEF Kept
<1>4. QED BY <1>1, <1>2, <1>3

LEMMA LookWhyStep ==
    ASSUME IInv, NEW r \in Sessions, LookWhy(r)
    PROVE  IInv'
<1> USE SerialAssumption DEF IInv, Sessions, Threads, LookWhy, RxGoTo, portVars, rxVars
<1>1. TypeOK'
  BY DEF TypeOK
<1>2. Callers' /\ Unborn'
  BY DEF TypeOK, Callers, Unborn
<1>3. ASSUME ~gaveUp' PROVE Kept'
  <2>1. OnlyThread'
    BY <1>3 DEF TypeOK, Kept, OnlyThread, Runs
  <2>2. Silent' /\ OwnPort'
    BY <1>3 DEF TypeOK, Kept, OnlyThread, Runs, SerialOfThread, StopFirst, Silent, OwnPort
  <2>3. Opened' /\ Joining' /\ SerialOfThread' /\ StopFirst'
    BY <1>3 DEF Kept, Opened, Joining, SerialOfThread, StopFirst
  <2>4. OpenIsSerial' /\ NoThread'
    BY <1>3 DEF TypeOK, Kept, OpenIsSerial, NoThread
  <2>5. QED BY <2>1, <2>2, <2>3, <2>4 DEF Kept
<1>4. QED BY <1>1, <1>2, <1>3

LEMMA ReportStep ==
    ASSUME IInv, NEW r \in Sessions, Report(r)
    PROVE  IInv'
<1> USE SerialAssumption DEF IInv, Sessions, Threads, Report, RxGoTo, portVars, rxVars
<1>1. TypeOK'
  BY DEF TypeOK, Unborn
<1>2. Callers' /\ Unborn'
  BY DEF TypeOK, Callers, Unborn
<1>3. ASSUME ~gaveUp' PROVE Kept'
  <2>1. OnlyThread'
    BY <1>3 DEF TypeOK, Kept, OnlyThread, Runs
  <2>2. Silent' /\ OwnPort'
    BY <1>3 DEF TypeOK, Kept, OnlyThread, Runs, SerialOfThread, StopFirst, Silent, OwnPort
  <2>3. Opened' /\ Joining' /\ SerialOfThread' /\ StopFirst'
    BY <1>3 DEF Kept, Opened, Joining, SerialOfThread, StopFirst
  <2>4. OpenIsSerial' /\ NoThread'
    BY <1>3 DEF TypeOK, Kept, OpenIsSerial, NoThread
  <2>5. QED BY <2>1, <2>2, <2>3, <2>4 DEF Kept
<1>4. QED BY <1>1, <1>2, <1>3

LEMMA DeliverStep ==
    ASSUME IInv, NEW r \in Sessions, Deliver(r)
    PROVE  IInv'
<1> USE SerialAssumption DEF IInv, Sessions, Threads, Deliver, RxGoTo, portVars, rxVars
<1>1. TypeOK'
  BY DEF TypeOK
<1>2. Callers' /\ Unborn'
  BY DEF TypeOK, Callers, Unborn
<1>3. ASSUME ~gaveUp' PROVE Kept'
  <2>1. OnlyThread'
    BY <1>3 DEF TypeOK, Kept, OnlyThread, Runs
  <2>2. Silent' /\ OwnPort'
    BY <1>3 DEF TypeOK, Kept, OnlyThread, Runs, SerialOfThread, StopFirst, Silent, OwnPort
  <2>3. Opened' /\ Joining' /\ SerialOfThread' /\ StopFirst'
    BY <1>3 DEF Kept, Opened, Joining, SerialOfThread, StopFirst
  <2>4. OpenIsSerial' /\ NoThread'
    BY <1>3 DEF TypeOK, Kept, OpenIsSerial, NoThread
  <2>5. QED BY <2>1, <2>2, <2>3, <2>4 DEF Kept
<1>4. QED BY <1>1, <1>2, <1>3

LEMMA FeedEndsStep ==
    ASSUME IInv, NEW r \in Sessions, FeedEnds(r)
    PROVE  IInv'
<1> USE SerialAssumption DEF IInv, Sessions, Threads, FeedEnds, RxGoTo, portVars, rxVars
<1>1. TypeOK'
  BY DEF TypeOK
<1>2. Callers' /\ Unborn'
  BY DEF TypeOK, Callers, Unborn
<1>3. ASSUME ~gaveUp' PROVE Kept'
  <2>1. OnlyThread'
    BY <1>3 DEF TypeOK, Kept, OnlyThread, Runs
  <2>2. Silent' /\ OwnPort'
    BY <1>3 DEF TypeOK, Kept, OnlyThread, Runs, SerialOfThread, StopFirst, Silent, OwnPort
  <2>3. Opened' /\ Joining' /\ SerialOfThread' /\ StopFirst'
    BY <1>3 DEF Kept, Opened, Joining, SerialOfThread, StopFirst
  <2>4. OpenIsSerial' /\ NoThread'
    BY <1>3 DEF TypeOK, Kept, OpenIsSerial, NoThread
  <2>5. QED BY <2>1, <2>2, <2>3, <2>4 DEF Kept
<1>4. QED BY <1>1, <1>2, <1>3

LEMMA CallbackReturnsStep ==
    ASSUME IInv, NEW r \in Sessions, CallbackReturns(r)
    PROVE  IInv'
<1> USE SerialAssumption DEF IInv, Sessions, Threads, CallbackReturns, RxGoTo, portVars, rxVars
<1>1. TypeOK'
  BY DEF TypeOK
<1>2. Callers' /\ Unborn'
  BY DEF TypeOK, Callers, Unborn
<1>3. ASSUME ~gaveUp' PROVE Kept'
  <2>1. OnlyThread'
    BY <1>3 DEF TypeOK, Kept, OnlyThread, Runs
  <2>2. Silent' /\ OwnPort'
    BY <1>3 DEF TypeOK, Kept, OnlyThread, Runs, SerialOfThread, StopFirst, Silent, OwnPort
  <2>3. Opened' /\ Joining' /\ SerialOfThread' /\ StopFirst'
    BY <1>3 DEF Kept, Opened, Joining, SerialOfThread, StopFirst
  <2>4. OpenIsSerial' /\ NoThread'
    BY <1>3 DEF TypeOK, Kept, OpenIsSerial, NoThread
  <2>5. QED BY <2>1, <2>2, <2>3, <2>4 DEF Kept
<1>4. QED BY <1>1, <1>2, <1>3

LEMMA CallbackRaisesStep ==
    ASSUME IInv, NEW r \in Sessions, CallbackRaises(r)
    PROVE  IInv'
<1> USE SerialAssumption DEF IInv, Sessions, Threads, CallbackRaises, RxGoTo, portVars, rxVars
<1>1. TypeOK'
  BY DEF TypeOK
<1>2. Callers' /\ Unborn'
  BY DEF TypeOK, Callers, Unborn
<1>3. ASSUME ~gaveUp' PROVE Kept'
  <2>1. OnlyThread'
    BY <1>3 DEF TypeOK, Kept, OnlyThread, Runs
  <2>2. Silent' /\ OwnPort'
    BY <1>3 DEF TypeOK, Kept, OnlyThread, Runs, SerialOfThread, StopFirst, Silent, OwnPort
  <2>3. Opened' /\ Joining' /\ SerialOfThread' /\ StopFirst'
    BY <1>3 DEF Kept, Opened, Joining, SerialOfThread, StopFirst
  <2>4. OpenIsSerial' /\ NoThread'
    BY <1>3 DEF TypeOK, Kept, OpenIsSerial, NoThread
  <2>5. QED BY <2>1, <2>2, <2>3, <2>4 DEF Kept
<1>4. QED BY <1>1, <1>2, <1>3

LEMMA UnplugStep ==
    ASSUME IInv, NEW p \in Sessions, Unplug(p)
    PROVE  IInv'
<1> USE SerialAssumption DEF IInv, Sessions, Threads, Unplug, Working, portVars, rxVars
<1>1. TypeOK'
  BY DEF TypeOK
<1>2. Callers' /\ Unborn'
  BY DEF TypeOK, Callers, Unborn
<1>3. ASSUME ~gaveUp' PROVE Kept'
  <2> USE <1>3 DEF TypeOK, Callers, Unborn, Kept, Runs, OnlyThread
  <2>1. OnlyThread'
    OBVIOUS
  <2>2. Opened' /\ Joining'
    BY DEF Opened, Joining
  <2>3. SerialOfThread' /\ NoThread'
    BY DEF Opened, SerialOfThread, NoThread, Joining
  <2>4. OpenIsSerial'
    BY DEF Opened, OpenIsSerial, NoThread
  <2>5. StopFirst'
    BY DEF Opened, StopFirst
  <2>6. Silent'
    BY DEF Opened, StopFirst, Silent, OwnPort
  <2>7. OwnPort'
    BY DEF OwnPort, SerialOfThread
  <2>8. QED BY <2>1, <2>2, <2>3, <2>4, <2>5, <2>6, <2>7
<1>4. QED BY <1>1, <1>2, <1>3

LEMMA FinalizeStep ==
    ASSUME IInv, NEW p \in Sessions, Finalize(p)
    PROVE  IInv'
<1> USE SerialAssumption DEF IInv, Sessions, Threads, Finalize, portVars, rxVars
<1>1. TypeOK'
  BY DEF TypeOK
<1>2. Callers' /\ Unborn'
  BY DEF TypeOK, Callers, Unborn
<1>3. ASSUME ~gaveUp' PROVE Kept'
  <2> USE <1>3 DEF TypeOK, Callers, Unborn, Kept, Runs, OnlyThread
  <2>1. OnlyThread'
    OBVIOUS
  <2>2. Opened' /\ Joining'
    BY DEF Opened, Joining
  <2>3. SerialOfThread' /\ NoThread'
    BY DEF Opened, SerialOfThread, NoThread, Joining
  <2>4. OpenIsSerial'
    BY DEF Opened, OpenIsSerial, NoThread
  <2>5. StopFirst'
    BY DEF Opened, StopFirst
  <2>6. Silent'
    BY DEF Opened, StopFirst, Silent, OwnPort
  <2>7. OwnPort'
    BY DEF OwnPort, SerialOfThread
  <2>8. QED BY <2>1, <2>2, <2>3, <2>4, <2>5, <2>6, <2>7
<1>4. QED BY <1>1, <1>2, <1>3

LEMMA StutterStep ==
    ASSUME IInv, UNCHANGED serialVars
    PROVE  IInv'
<1> USE DEF serialVars, portVars, rxVars, IInv
<1>1. TypeOK'
  BY DEF TypeOK
<1>2. Callers' /\ Unborn'
  BY DEF Callers, Unborn
<1>3. ASSUME ~gaveUp' PROVE Kept'
  BY <1>3 DEF Kept, Runs, OnlyThread, Opened, SerialOfThread, OpenIsSerial, NoThread, Joining,
              StopFirst, Silent, OwnPort
<1>4. QED BY <1>1, <1>2, <1>3

LEMMA RefuseStep ==
    ASSUME IInv, NEW t \in Threads, Refuse(t)
    PROVE  IInv'
BY StutterStep DEF Refuse

-----------------------------------------------------------------------------

LEMMA IInvInit == Init => IInv
<1> SUFFICES ASSUME Init PROVE IInv
  OBVIOUS
<1> USE SerialAssumption DEF Init, Sessions, Threads
<1>1. TypeOK
  <2>1. sessions \in 0 .. MaxOpens /\ ports \subseteq 1 .. sessions
        /\ broken \subseteq 1 .. sessions /\ reported \subseteq 1 .. sessions
    OBVIOUS
  <2>2. \A t \in Threads : lock = t <=> step[t] \in {"writing", "pulsing"}
    OBVIOUS
  <2>3. /\ step \in [Threads -> {"idle", "opened", "stopping", "joining", "writing", "pulsing"}]
        /\ rx \in [Sessions -> {"unborn", "test", "load", "read", "failed", "reporting",
                               "feed", "callback", "dead"}]
        /\ at \in [Sessions -> Sessions \cup {None}]
    OBVIOUS
  <2>4. serial = None /\ thread = None /\ lock = None /\ stop \in BOOLEAN /\ gaveUp \in BOOLEAN
    OBVIOUS
  <2>5. QED BY <2>1, <2>2, <2>3, <2>4 DEF TypeOK
<1>2. Callers /\ Unborn
  BY DEF Callers, Unborn
<1>3. OnlyThread /\ Opened /\ SerialOfThread /\ OpenIsSerial /\ NoThread /\ Joining
  BY DEF Runs, OnlyThread, Opened, SerialOfThread, OpenIsSerial, NoThread, Joining
<1>4. StopFirst /\ Silent /\ OwnPort
  BY DEF StopFirst, Silent, OwnPort
<1>5. QED BY <1>1, <1>2, <1>3, <1>4 DEF IInv, Kept

LEMMA IInvNext == IInv /\ [Next]_serialVars => IInv'
<1> SUFFICES ASSUME IInv, [Next]_serialVars PROVE IInv'
  OBVIOUS
<1>1. CASE (thread = None /\ OpenPort(Owner)) \/ OpenRaises(Owner) \/ OpenStart(Owner)
  BY <1>1, OpenPortStep, OpenRaisesStep, OpenStartStep
<1>2. ASSUME NEW t \in Sessions \cup {Owner}, thread # None /\ CloseStop(t) PROVE IInv'
  BY <1>2, CloseStopStep
<1>3. ASSUME NEW t \in Sessions \cup {Owner}, CloseStep(t) PROVE IInv'
  BY <1>3, ClosePortStep, JoinStep, JoinTimesOutStep, JoinSelfStep DEF CloseStep
<1>4. ASSUME NEW t \in Threads,
             WriteBegin(t) \/ WriteEnd(t) \/ ResetBegin(t) \/ ResetEnd(t) \/ Refuse(t)
      PROVE  IInv'
  BY <1>4, WriteBeginStep, WriteEndStep, ResetBeginStep, ResetEndStep, RefuseStep
<1>5. ASSUME NEW r \in Sessions, RxStep(r) PROVE IInv'
  BY <1>5, TestStep, LoadStep, ReadStep, ReadFailsStep, LookWhyStep, ReportStep,
     DeliverStep, FeedEndsStep DEF RxStep
<1>6. ASSUME NEW r \in Sessions, CallbackReturns(r) \/ CallbackRaises(r) PROVE IInv'
  BY <1>6, CallbackReturnsStep, CallbackRaisesStep
<1>7. ASSUME NEW p \in Sessions, Unplug(p) \/ Finalize(p) PROVE IInv'
  BY <1>7, UnplugStep, FinalizeStep
<1>8. CASE UNCHANGED serialVars
  BY <1>8, StutterStep
<1>9. QED BY <1>1, <1>2, <1>3, <1>4, <1>5, <1>6, <1>7, <1>8 DEF Next

LEMMA IInvAlways == Spec => []IInv
BY IInvInit, IInvNext, PTL DEF Spec

\* The write lock is held exactly by the thread that writes or pulses.
THEOREM TypeCorrect == Spec => []TypeOK
<1>1. IInv => TypeOK
  BY DEF IInv
<1>2. QED BY <1>1, IInvAlways, PTL

\* Unless a join gave up, on_error is called for ports that have failed by
\* themselves only.
THEOREM ClosingIsSilent == Spec => []CloseIsSilent
<1>1. IInv => CloseIsSilent
  BY DEF IInv, Kept, Silent, CloseIsSilent
<1>2. QED BY <1>1, IInvAlways, PTL

\* Unless a join gave up, an RX thread reads the port it was started for.
THEOREM PortsAreRead == Spec => []OwnPortOnly
<1>1. IInv => OwnPortOnly
  BY DEF IInv, Kept, OwnPort, OwnPortOnly
<1>2. QED BY <1>1, IInvAlways, PTL

\* Unless a join gave up, close() leaves no RX thread and no port behind but
\* those an open() has raised over.
THEOREM ClosedIsStopped == Spec => []ClosedMeansStopped
<1>1. IInv => ClosedMeansStopped
  <2> SUFFICES ASSUME IInv, ~gaveUp, thread = None PROVE
        /\ \A r \in Sessions : rx[r] \in {"unborn", "dead"}
        /\ ports \subseteq Left
        /\ serial \in Left \cup {None}
    BY DEF ClosedMeansStopped
  <2> USE SerialAssumption DEF IInv, Kept, TypeOK, Sessions
  <2>1. \A r \in Sessions : rx[r] \in {"unborn", "dead"}
    BY DEF OnlyThread, Runs, Threads
  <2>2. serial \in Left \cup {None}
    BY DEF NoThread, Left
  <2>3. ports \subseteq Left
    BY <2>2 DEF OpenIsSerial, NoThread, Left, Threads
  <2>4. QED BY <2>1, <2>2, <2>3
<1>2. QED BY <1>1, IInvAlways, PTL

-----------------------------------------------------------------------------
(* THE RADIO.                                                              *)

RadioTypeOK ==
    /\ op \in [Threads -> {"idle", "connecting", "resetting", "waiting", "unkeying",
                           "disconnecting", "done", "failed", "left"}]
    /\ entering \in BOOLEAN /\ isOpen \in BOOLEAN /\ error \in BOOLEAN /\ half \in BOOLEAN

HelloTypeOK ==
    /\ event \in BOOLEAN
    /\ boot \in Nat
    /\ heard \in 0 .. boot
    /\ hellos \in Seq(1 .. boot)
    /\ since \in [Threads -> 0 .. boot]
    /\ event => heard > 0

LeftClosed == op[Owner] = "left" => ~isOpen

Current == thread # None => thread = sessions
OpenIsThread == isOpen <=> thread # None
Error == error => sessions \in broken

\* Whoever has set stop is still there, or a call has raised.
Stopping == isOpen /\ ~half /\ stop => \E t \in Threads : op[t] = "disconnecting"

\* Whoever has opened is still waiting for HELLO, or it has come.
Hearing == isOpen /\ ~half /\ ~event => op[Owner] \in {"resetting", "waiting"}

RadioKept == Current /\ OpenIsThread /\ Error /\ Stopping /\ Hearing

LInv ==
    /\ IInv
    /\ RadioTypeOK /\ HelloTypeOK /\ LeftClosed
    /\ ~gaveUp => RadioKept
-----------------------------------------------------------------------------
(* The steps, one lemma each.                                              *)

LEMMA Callable == Owner \in Threads /\ Sessions \cup {Owner} \subseteq Threads
BY SerialAssumption DEF Threads

LEMMA ConnectAlreadyRadio ==
    ASSUME LInv, ConnectAlready(Owner)
    PROVE  LInv'
<1> USE Callable DEF LInv, ConnectAlready, Become, MayCall, serialVars, portVars, rxVars, radioVars, helloVars
<1>1. IInv'
  BY StutterStep
<1>2. RadioTypeOK' /\ HelloTypeOK'
  BY DEF RadioTypeOK, HelloTypeOK
<1>3. LeftClosed'
  BY DEF RadioTypeOK, LeftClosed
<1>4. ASSUME ~gaveUp' PROVE RadioKept'
  BY <1>4 DEF IInv, RadioTypeOK, RadioKept, Current, OpenIsThread, Error, Stopping, Hearing
<1>5. QED BY <1>1, <1>2, <1>3, <1>4

LEMMA ConnectRadio ==
    ASSUME LInv, NEW with \in BOOLEAN, Connect(Owner, with)
    PROVE  LInv'
<1> USE Callable DEF LInv, Connect, Become, OpenPort, MayCall, GoTo, portVars, rxVars, radioVars, helloVars
<1>1. IInv'
  BY OpenPortStep DEF RadioKept, OpenIsThread
<1>2. RadioTypeOK' /\ HelloTypeOK'
  BY DEF RadioTypeOK, HelloTypeOK
<1>3. LeftClosed'
  BY DEF RadioTypeOK, LeftClosed
<1>4. ASSUME ~gaveUp' PROVE RadioKept'
  BY <1>4 DEF IInv, RadioTypeOK, RadioKept, Current, OpenIsThread, Error, Stopping, Hearing
<1>5. QED BY <1>1, <1>2, <1>3, <1>4

LEMMA ConnectFailsRadio ==
    ASSUME LInv, NEW with \in BOOLEAN, ConnectFails(Owner, with)
    PROVE  LInv'
<1> USE Callable DEF LInv, ConnectFails, Become, serialVars, portVars, rxVars, radioVars, helloVars
<1>1. IInv'
  BY StutterStep
<1>2. RadioTypeOK' /\ HelloTypeOK'
  BY DEF RadioTypeOK, HelloTypeOK
<1>3. LeftClosed'
  BY DEF RadioTypeOK, LeftClosed
<1>4. ASSUME ~gaveUp' PROVE RadioKept'
  BY <1>4 DEF IInv, RadioTypeOK, RadioKept, Current, OpenIsThread, Error, Stopping, Hearing
<1>5. QED BY <1>1, <1>2, <1>3, <1>4

LEMMA ConnectRaisesRadio ==
    ASSUME LInv, ConnectRaises(Owner)
    PROVE  LInv'
<1> USE Callable DEF LInv, ConnectRaises, Become, OpenRaises, GoTo, portVars, rxVars, radioVars, helloVars
<1>1. IInv'
  BY OpenRaisesStep
<1>2. RadioTypeOK' /\ HelloTypeOK'
  BY DEF RadioTypeOK, HelloTypeOK
<1>3. LeftClosed'
  BY DEF RadioTypeOK, LeftClosed
<1>4. ASSUME ~gaveUp' PROVE RadioKept'
  BY <1>4 DEF IInv, RadioTypeOK, RadioKept, Current, OpenIsThread, Error, Stopping, Hearing
<1>5. QED BY <1>1, <1>2, <1>3, <1>4

LEMMA ConnectedRadio ==
    ASSUME LInv, Connected(Owner)
    PROVE  LInv'
<1> USE Callable DEF LInv, Connected, Become, OpenStart, GoTo, portVars, rxVars, radioVars, helloVars
<1>1. IInv'
  BY OpenStartStep
<1>2. RadioTypeOK' /\ HelloTypeOK'
  BY DEF RadioTypeOK, HelloTypeOK
<1>3. LeftClosed'
  BY DEF RadioTypeOK, LeftClosed
<1>4. ASSUME ~gaveUp' PROVE RadioKept'
  BY <1>4, SerialAssumption DEF IInv, RadioTypeOK, RadioKept, Current, OpenIsThread, Error, Stopping, Hearing,
              Unborn, Threads
<1>5. QED BY <1>1, <1>2, <1>3, <1>4

LEMMA ResetRadio ==
    ASSUME LInv, NEW t \in Threads, Reset(t)
    PROVE  LInv'
<1> USE Callable DEF LInv, Reset, Become, serialVars, portVars, rxVars, radioVars, helloVars
<1>1. IInv'
  BY StutterStep
<1>2. RadioTypeOK' /\ HelloTypeOK'
  BY DEF RadioTypeOK, HelloTypeOK
<1>3. LeftClosed'
  BY DEF RadioTypeOK, LeftClosed
<1>4. ASSUME ~gaveUp' PROVE RadioKept'
  BY <1>4 DEF IInv, RadioTypeOK, RadioKept, Current, OpenIsThread, Error, Stopping, Hearing
<1>5. QED BY <1>1, <1>2, <1>3, <1>4

LEMMA PulseBeginsRadio ==
    ASSUME LInv, NEW t \in Threads, PulseBegins(t)
    PROVE  LInv'
<1> USE Callable DEF LInv, PulseBegins, Become, ResetBegin, MayCall, GoTo, portVars, rxVars, radioVars, helloVars
<1>1. IInv'
  BY ResetBeginStep
<1>2. RadioTypeOK' /\ HelloTypeOK'
  BY DEF RadioTypeOK, HelloTypeOK
<1>3. LeftClosed'
  BY DEF RadioTypeOK, LeftClosed
<1>4. ASSUME ~gaveUp' PROVE RadioKept'
  BY <1>4 DEF IInv, RadioTypeOK, RadioKept, Current, OpenIsThread, Error, Stopping, Hearing
<1>5. QED BY <1>1, <1>2, <1>3, <1>4

LEMMA PulseEndsRadio ==
    ASSUME LInv, NEW t \in Threads, PulseEnds(t)
    PROVE  LInv'
<1> USE Callable DEF LInv, PulseEnds, Become, ResetEnd, GoTo, portVars, rxVars, radioVars, helloVars
<1>1. IInv'
  BY ResetEndStep
<1>2. RadioTypeOK' /\ HelloTypeOK'
  BY DEF RadioTypeOK, HelloTypeOK
<1>3. LeftClosed'
  BY DEF RadioTypeOK, LeftClosed
<1>4. ASSUME ~gaveUp' PROVE RadioKept'
  BY <1>4 DEF IInv, RadioTypeOK, RadioKept, Current, OpenIsThread, Error, Stopping, Hearing
<1>5. QED BY <1>1, <1>2, <1>3, <1>4

LEMMA PulseRaisesRadio ==
    ASSUME LInv, NEW t \in Threads, PulseRaises(t)
    PROVE  LInv'
<1> USE Callable DEF LInv, PulseRaises, Become, Refuse, ResetEnd, GoTo, serialVars, portVars, rxVars, radioVars, helloVars
<1>1. IInv'
  BY RefuseStep, ResetEndStep
<1>2. RadioTypeOK' /\ HelloTypeOK'
  BY DEF RadioTypeOK, HelloTypeOK
<1>3. LeftClosed'
  BY DEF RadioTypeOK, LeftClosed
<1>4. ASSUME ~gaveUp' PROVE RadioKept'
  BY <1>4 DEF IInv, RadioTypeOK, RadioKept, Current, OpenIsThread, Error, Stopping, Hearing
<1>5. QED BY <1>1, <1>2, <1>3, <1>4

LEMMA HelloSeenRadio ==
    ASSUME LInv, NEW t \in Threads, HelloSeen(t)
    PROVE  LInv'
<1> USE Callable DEF LInv, HelloSeen, Become, serialVars, portVars, rxVars, radioVars, helloVars
<1>1. IInv'
  BY StutterStep
<1>2. RadioTypeOK' /\ HelloTypeOK'
  BY DEF RadioTypeOK, HelloTypeOK
<1>3. LeftClosed'
  BY DEF RadioTypeOK, LeftClosed
<1>4. ASSUME ~gaveUp' PROVE RadioKept'
  BY <1>4 DEF IInv, RadioTypeOK, RadioKept, Current, OpenIsThread, Error, Stopping, Hearing
<1>5. QED BY <1>1, <1>2, <1>3, <1>4

LEMMA HelloMissedRadio ==
    ASSUME LInv, NEW t \in Threads, HelloMissed(t)
    PROVE  LInv'
<1> USE Callable DEF LInv, HelloMissed, Become, serialVars, portVars, rxVars, radioVars, helloVars
<1>1. IInv'
  BY StutterStep
<1>2. RadioTypeOK' /\ HelloTypeOK'
  BY DEF RadioTypeOK, HelloTypeOK
<1>3. LeftClosed'
  BY DEF RadioTypeOK, LeftClosed
<1>4. ASSUME ~gaveUp' PROVE RadioKept'
  BY <1>4 DEF IInv, RadioTypeOK, RadioKept, Current, OpenIsThread, Error, Stopping, Hearing
<1>5. QED BY <1>1, <1>2, <1>3, <1>4

LEMMA FinishRadio ==
    ASSUME LInv, NEW t \in Threads, Finish(t)
    PROVE  LInv'
<1> USE Callable DEF LInv, Finish, Become, serialVars, portVars, rxVars, radioVars, helloVars
<1>1. IInv'
  BY StutterStep
<1>2. RadioTypeOK' /\ HelloTypeOK'
  BY DEF RadioTypeOK, HelloTypeOK
<1>3. LeftClosed'
  BY DEF RadioTypeOK, LeftClosed
<1>4. ASSUME ~gaveUp' PROVE RadioKept'
  BY <1>4 DEF IInv, RadioTypeOK, RadioKept, Current, OpenIsThread, Error, Stopping, Hearing
<1>5. QED BY <1>1, <1>2, <1>3, <1>4

LEMMA DisconnectingRadio ==
    ASSUME LInv, NEW t \in Sessions \cup {Owner}, op[t] \in {"idle", "failed"}, Disconnecting(t)
    PROVE  LInv'
<1> USE Callable DEF LInv, Disconnecting, Become, serialVars, portVars, rxVars, radioVars, helloVars
<1>1. IInv'
  BY StutterStep
<1>2. RadioTypeOK' /\ HelloTypeOK'
  BY DEF RadioTypeOK, HelloTypeOK
<1>3. LeftClosed'
  BY DEF RadioTypeOK, LeftClosed
<1>4. ASSUME ~gaveUp' PROVE RadioKept'
  BY <1>4 DEF IInv, RadioTypeOK, RadioKept, Current, OpenIsThread, Error, Stopping, Hearing
<1>5. QED BY <1>1, <1>2, <1>3, <1>4

LEMMA UnkeyBeginsRadio ==
    ASSUME LInv, NEW t \in Sessions \cup {Owner}, UnkeyBegins(t)
    PROVE  LInv'
<1> USE Callable DEF LInv, UnkeyBegins, Become, WriteBegin, MayCall, GoTo, portVars, rxVars, radioVars, helloVars
<1>1. IInv'
  BY WriteBeginStep
<1>2. RadioTypeOK' /\ HelloTypeOK'
  BY DEF RadioTypeOK, HelloTypeOK
<1>3. LeftClosed'
  BY DEF RadioTypeOK, LeftClosed
<1>4. ASSUME ~gaveUp' PROVE RadioKept'
  BY <1>4 DEF IInv, RadioTypeOK, RadioKept, Current, OpenIsThread, Error, Stopping, Hearing
<1>5. QED BY <1>1, <1>2, <1>3, <1>4

LEMMA UnkeyEndsRadio ==
    ASSUME LInv, NEW t \in Sessions \cup {Owner}, UnkeyEnds(t)
    PROVE  LInv'
<1> USE Callable DEF LInv, UnkeyEnds, Become, WriteEnd, Refuse, GoTo, serialVars, portVars, rxVars, radioVars, helloVars
<1>1. IInv'
  BY WriteEndStep, RefuseStep
<1>2. RadioTypeOK' /\ HelloTypeOK'
  BY DEF RadioTypeOK, HelloTypeOK
<1>3. LeftClosed'
  BY DEF RadioTypeOK, LeftClosed
<1>4. ASSUME ~gaveUp' PROVE RadioKept'
  BY <1>4 DEF IInv, RadioTypeOK, RadioKept, Current, OpenIsThread, Error, Stopping, Hearing
<1>5. QED BY <1>1, <1>2, <1>3, <1>4

LEMMA ClosingRadio ==
    ASSUME LInv, NEW t \in Sessions \cup {Owner}, Closing(t)
    PROVE  LInv'
<1> USE Callable DEF LInv, Closing, Become, CloseStop, ClosePort, MayCall, GoTo, portVars, rxVars, radioVars, helloVars
<1>1. IInv'
  BY CloseStopStep, ClosePortStep
<1>2. RadioTypeOK' /\ HelloTypeOK'
  BY DEF RadioTypeOK, HelloTypeOK
<1>3. LeftClosed'
  BY DEF RadioTypeOK, LeftClosed
<1>4. ASSUME ~gaveUp' PROVE RadioKept'
  BY <1>4 DEF IInv, RadioTypeOK, RadioKept, Current, OpenIsThread, Error, Stopping, Hearing
<1>5. QED BY <1>1, <1>2, <1>3, <1>4

LEMMA DisconnectedRadio ==
    ASSUME LInv, NEW t \in Sessions \cup {Owner}, Disconnected(t)
    PROVE  LInv'
<1> USE Callable DEF LInv, Disconnected, Become, Join, JoinTimesOut, GoTo, portVars, rxVars, radioVars, helloVars
<1>1. IInv'
  BY JoinStep, JoinTimesOutStep
<1>2. RadioTypeOK' /\ HelloTypeOK'
  BY DEF RadioTypeOK, HelloTypeOK
<1>3. LeftClosed'
  BY DEF RadioTypeOK, LeftClosed
<1>4. ASSUME ~gaveUp' PROVE RadioKept'
  BY <1>4 DEF IInv, RadioTypeOK, RadioKept, Current, OpenIsThread, Error, Stopping, Hearing
<1>5. QED BY <1>1, <1>2, <1>3, <1>4

LEMMA DisconnectRaisesRadio ==
    ASSUME LInv, NEW t \in Sessions \cup {Owner}, DisconnectRaises(t)
    PROVE  LInv'
<1> USE Callable DEF LInv, DisconnectRaises, Become, JoinSelf, GoTo, portVars, rxVars, radioVars, helloVars
<1>1. IInv'
  BY JoinSelfStep
<1>2. RadioTypeOK' /\ HelloTypeOK'
  BY DEF RadioTypeOK, HelloTypeOK
<1>3. LeftClosed'
  BY DEF RadioTypeOK, LeftClosed
<1>4. ASSUME ~gaveUp' PROVE RadioKept'
  BY <1>4 DEF IInv, RadioTypeOK, RadioKept, Current, OpenIsThread, Error, Stopping, Hearing
<1>5. QED BY <1>1, <1>2, <1>3, <1>4

LEMMA SendRadio ==
    ASSUME LInv, NEW t \in Threads, Send(t)
    PROVE  LInv'
<1> USE Callable DEF LInv, Send, Become, WriteBegin, WriteEnd, Refuse, MayCall, GoTo, serialVars, portVars, rxVars, radioVars, helloVars
<1>1. IInv'
  BY WriteBeginStep, WriteEndStep, RefuseStep
<1>2. RadioTypeOK' /\ HelloTypeOK'
  BY DEF RadioTypeOK, HelloTypeOK
<1>3. LeftClosed'
  BY DEF RadioTypeOK, LeftClosed
<1>4. ASSUME ~gaveUp' PROVE RadioKept'
  BY <1>4 DEF IInv, RadioTypeOK, RadioKept, Current, OpenIsThread, Error, Stopping, Hearing
<1>5. QED BY <1>1, <1>2, <1>3, <1>4

LEMMA TransportErrorRadio ==
    ASSUME LInv, NEW r \in Sessions, TransportError(r)
    PROVE  LInv'
<1> USE Callable DEF LInv, TransportError, Become, Report, RxGoTo, portVars, rxVars, radioVars, helloVars
<1>1. IInv'
  BY ReportStep
<1>2. RadioTypeOK' /\ HelloTypeOK'
  BY DEF RadioTypeOK, HelloTypeOK
<1>3. LeftClosed'
  BY DEF RadioTypeOK, LeftClosed
<1>4. ASSUME ~gaveUp' PROVE RadioKept'
  BY <1>4, SerialAssumption DEF IInv, RadioTypeOK, RadioKept, Current, OpenIsThread, Error, Stopping, Hearing,
              Kept, OnlyThread, Runs, Silent, Threads
<1>5. QED BY <1>1, <1>2, <1>3, <1>4

LEMMA HandleHelloRadio ==
    ASSUME LInv, NEW r \in Sessions, HandleHello(r)
    PROVE  LInv'
<1> USE Callable DEF LInv, HandleHello, Become, Deliver, RxGoTo, portVars, rxVars, radioVars, helloVars
<1>1. IInv'
  BY DeliverStep
<1>2. RadioTypeOK' /\ HelloTypeOK'
  BY DEF RadioTypeOK, HelloTypeOK
<1>3. LeftClosed'
  BY DEF RadioTypeOK, LeftClosed
<1>4. ASSUME ~gaveUp' PROVE RadioKept'
  BY <1>4 DEF IInv, RadioTypeOK, RadioKept, Current, OpenIsThread, Error, Stopping, Hearing
<1>5. QED BY <1>1, <1>2, <1>3, <1>4

LEMMA RxRadio ==
    ASSUME LInv, NEW r \in Sessions, Rx(r)
    PROVE  LInv'
<1> USE Callable DEF LInv, Rx, Become, Test, Load, Read, ReadFails, LookWhy, Deliver, FeedEnds, CallbackReturns, CallbackRaises, portVars, rxVars, radioVars, helloVars
<1>1. IInv'
  BY TestStep, LoadStep, ReadStep, ReadFailsStep, LookWhyStep,
     DeliverStep, FeedEndsStep, CallbackReturnsStep, CallbackRaisesStep
<1>2. RadioTypeOK' /\ HelloTypeOK'
  BY DEF RadioTypeOK, HelloTypeOK
<1>3. LeftClosed'
  BY DEF RadioTypeOK, LeftClosed
<1>4. ASSUME ~gaveUp' PROVE RadioKept'
  BY <1>4 DEF IInv, RadioTypeOK, RadioKept, Current, OpenIsThread, Error, Stopping, Hearing
<1>5. QED BY <1>1, <1>2, <1>3, <1>4

LEMMA CableGoneRadio ==
    ASSUME LInv, NEW p \in Sessions, CableGone(p)
    PROVE  LInv'
<1> USE Callable DEF LInv, CableGone, Become, Unplug, portVars, rxVars, radioVars, helloVars
<1>1. IInv'
  BY UnplugStep
<1>2. RadioTypeOK' /\ HelloTypeOK'
  BY DEF RadioTypeOK, HelloTypeOK
<1>3. LeftClosed'
  BY DEF RadioTypeOK, LeftClosed
<1>4. ASSUME ~gaveUp' PROVE RadioKept'
  BY <1>4 DEF IInv, RadioTypeOK, RadioKept, Current, OpenIsThread, Error, Stopping, Hearing
<1>5. QED BY <1>1, <1>2, <1>3, <1>4

LEMMA PortFreedRadio ==
    ASSUME LInv, NEW p \in Sessions, PortFreed(p)
    PROVE  LInv'
<1> USE Callable DEF LInv, PortFreed, Become, Finalize, portVars, rxVars, radioVars, helloVars
<1>1. IInv'
  BY FinalizeStep
<1>2. RadioTypeOK' /\ HelloTypeOK'
  BY DEF RadioTypeOK, HelloTypeOK
<1>3. LeftClosed'
  BY DEF RadioTypeOK, LeftClosed
<1>4. ASSUME ~gaveUp' PROVE RadioKept'
  BY <1>4 DEF IInv, RadioTypeOK, RadioKept, Current, OpenIsThread, Error, Stopping, Hearing
<1>5. QED BY <1>1, <1>2, <1>3, <1>4

LEMMA LoseHelloRadio ==
    ASSUME LInv, LoseHello
    PROVE  LInv'
<1> USE Callable DEF LInv, LoseHello, Become, serialVars, portVars, rxVars, radioVars, helloVars
<1>1. IInv'
  BY StutterStep
<1>2. RadioTypeOK' /\ HelloTypeOK'
  BY DEF RadioTypeOK, HelloTypeOK
<1>3. LeftClosed'
  BY DEF RadioTypeOK, LeftClosed
<1>4. ASSUME ~gaveUp' PROVE RadioKept'
  BY <1>4 DEF IInv, RadioTypeOK, RadioKept, Current, OpenIsThread, Error, Stopping, Hearing
<1>5. QED BY <1>1, <1>2, <1>3, <1>4

LEMMA LeaveEnterRadio ==
    ASSUME LInv, LeaveEnter
    PROVE  LInv'
<1>1. CASE Disconnecting(Owner)
  BY <1>1, DisconnectingRadio DEF LeaveEnter
<1>2. CASE ~isOpen /\ Become(Owner, "left") /\ UNCHANGED <<serialVars, radioVars, helloVars>>
  <2> USE Callable DEF LInv, Become, serialVars, portVars, rxVars, radioVars, helloVars
  <2>1. IInv'
    BY <1>2, StutterStep
  <2>2. RadioTypeOK' /\ HelloTypeOK' /\ LeftClosed'
    BY <1>2 DEF RadioTypeOK, HelloTypeOK, LeftClosed
  <2>3. ASSUME ~gaveUp' PROVE RadioKept'
    BY <1>2, <2>3 DEF RadioTypeOK, RadioKept, Current, OpenIsThread, Error, Stopping, Hearing
  <2>4. QED BY <2>1, <2>2, <2>3
<1>3. QED BY <1>1, <1>2 DEF LeaveEnter

LEMMA StutterRadio ==
    ASSUME LInv, UNCHANGED vars
    PROVE  LInv'
<1> USE DEF LInv, vars, radioVars, helloVars
<1>1. IInv'
  BY StutterStep
<1>2. RadioTypeOK' /\ HelloTypeOK' /\ LeftClosed'
  BY DEF RadioTypeOK, HelloTypeOK, LeftClosed
<1>3. ASSUME ~gaveUp' PROVE RadioKept'
  BY <1>3 DEF serialVars, portVars, RadioKept, Current, OpenIsThread, Error, Stopping, Hearing
<1>4. QED BY <1>1, <1>2, <1>3

-----------------------------------------------------------------------------

LEMMA LInvInit == LifecycleInit => LInv
<1> SUFFICES ASSUME LifecycleInit PROVE LInv
  OBVIOUS
<1> USE Callable DEF LifecycleInit, Init
<1>1. IInv
  BY IInvInit
<1>2. RadioTypeOK /\ LeftClosed
  BY DEF RadioTypeOK, LeftClosed
<1>3. 0 \in 0 .. boot /\ hellos \in Seq(1 .. boot)
  OBVIOUS
<1>4. HelloTypeOK
  BY <1>3 DEF HelloTypeOK
<1>5. RadioKept
  BY DEF RadioKept, Current, OpenIsThread, Error, Stopping, Hearing
<1>6. QED BY <1>1, <1>2, <1>4, <1>5 DEF LInv

LEMMA LInvNext == LInv /\ [LifecycleNext]_vars => LInv'
<1> SUFFICES ASSUME LInv, [LifecycleNext]_vars PROVE LInv'
  OBVIOUS
<1>1. CASE ConnectAlready(Owner) \/ ConnectRaises(Owner) \/ Connected(Owner) \/ LeaveEnter
  BY <1>1, ConnectAlreadyRadio, ConnectRaisesRadio, ConnectedRadio, LeaveEnterRadio
<1>2. ASSUME NEW with \in BOOLEAN, Connect(Owner, with) \/ ConnectFails(Owner, with) PROVE LInv'
  BY <1>2, ConnectRadio, ConnectFailsRadio
<1>3. ASSUME NEW t \in Threads, Reset(t) \/ ResetStep(t) \/ Send(t) PROVE LInv'
  BY <1>3, ResetRadio, PulseBeginsRadio, PulseEndsRadio, PulseRaisesRadio,
     HelloSeenRadio, HelloMissedRadio, FinishRadio, SendRadio DEF ResetStep
<1>4. ASSUME NEW t \in Sessions \cup {Owner}, Disconnect(t) \/ DisconnectStep(t) PROVE LInv'
  BY <1>4, DisconnectingRadio, UnkeyBeginsRadio, UnkeyEndsRadio, ClosingRadio,
     DisconnectedRadio, DisconnectRaisesRadio DEF Disconnect, DisconnectStep
<1>5. ASSUME NEW r \in Sessions, TransportError(r) \/ HandleHello(r) \/ Rx(r) PROVE LInv'
  BY <1>5, TransportErrorRadio, HandleHelloRadio, RxRadio
<1>6. ASSUME NEW p \in Sessions, CableGone(p) \/ PortFreed(p) PROVE LInv'
  BY <1>6, CableGoneRadio, PortFreedRadio
<1>7. CASE LoseHello \/ UNCHANGED vars
  BY <1>7, LoseHelloRadio, StutterRadio
<1>8. QED BY <1>1, <1>2, <1>3, <1>4, <1>5, <1>6, <1>7 DEF LifecycleNext

LEMMA LInvAlways == LifecycleSpec => []LInv
BY LInvInit, LInvNext, PTL DEF LifecycleSpec

\* Everything the radio and the device keep is well formed.
THEOREM LifecycleTypes == LifecycleSpec => []LifecycleTypeOK
<1>1. LInv => LifecycleTypeOK
  BY DEF LInv, IInv, RadioTypeOK, HelloTypeOK, LifecycleTypeOK
<1>2. QED BY <1>1, LInvAlways, PTL

\* Unless a join gave up, a transport error is one of the port opened last.
THEOREM ErrorStaysCurrent == LifecycleSpec => []ErrorIsCurrent
<1>1. LInv => ErrorIsCurrent
  BY DEF LInv, RadioKept, Error, ErrorIsCurrent
<1>2. QED BY <1>1, LInvAlways, PTL

\* Unless a join gave up, a `with` that raises leaves nothing behind but ports an
\* open() has raised over.
THEOREM EnterIsClean == LifecycleSpec => []EnterCleansUp
<1>1. LInv => EnterCleansUp
  <2> SUFFICES ASSUME LInv, op[Owner] = "left", ~gaveUp PROVE
        /\ ~isOpen
        /\ ports \subseteq Left
        /\ \A r \in Sessions : rx[r] \in {"unborn", "dead"}
    BY DEF EnterCleansUp
  <2> USE SerialAssumption DEF LInv, IInv, Kept, TypeOK, Sessions
  <2>1. ~isOpen /\ thread = None
    BY DEF LeftClosed, RadioKept, OpenIsThread
  <2>2. \A r \in Sessions : rx[r] \in {"unborn", "dead"}
    BY <2>1 DEF OnlyThread, Runs, Threads
  <2>3. ports \subseteq Left
    BY <2>1 DEF OpenIsSerial, NoThread, Left, Threads
  <2>4. QED BY <2>1, <2>2, <2>3
<1>2. QED BY <1>1, LInvAlways, PTL

\* Unless a join gave up or a call has raised, _open between calls means a port,
\* an RX thread and a HELLO.
THEOREM OpenStaysReady == LifecycleSpec => []OpenMeansReady
<1>1. LInv => OpenMeansReady
  <2> SUFFICES ASSUME LInv, isOpen, ~half, ~gaveUp, \A t \in Threads : op[t] \in {"idle", "done"}
               PROVE  heard > 0 /\ serial # None /\ thread # None
    BY DEF OpenMeansReady
  <2> USE Callable, SerialAssumption DEF LInv, RadioKept
  <2>1. thread # None
    BY DEF OpenIsThread
  <2>2. heard > 0
    BY DEF Hearing, HelloTypeOK
  <2>3. ~stop
    BY DEF Stopping
  <2>4. serial # None
    BY <2>1, <2>3 DEF IInv, TypeOK, Kept, StopFirst
  <2>5. QED BY <2>1, <2>2, <2>4
<1>2. QED BY <1>1, LInvAlways, PTL
=============================================================================
