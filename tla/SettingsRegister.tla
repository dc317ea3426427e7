--------------------------- MODULE SettingsRegister ---------------------------
(***************************************************************************)
(* What the desired-state protocol promises, without threads, locks,       *)
(* frames or sequence arithmetic: two parties and a set of offers.         *)
(*                                                                         *)
(* The host chooses configurations under ever higher versions, the device  *)
(* adopts whatever it is offered, and a device that boots starts over with *)
(* a configuration of its own, which the host takes up when it hears of    *)
(* it.  Boot 0 is the time before the host has heard of any.               *)
(***************************************************************************)
EXTENDS Integers, TLAPS

CONSTANT Configs

Offers == [boot : Nat, version : Nat, config : Configs]

VARIABLES
    latest,   \* the host: the boot it knows of, its version and configuration
    adopted,  \* the device: the offer it runs on
    offers    \* offers that may still be adopted or announced

registerVars == <<latest, adopted, offers>>

Known == offers \cup {adopted}

TypeOK ==
    /\ latest \in Offers
    /\ adopted \in Offers
    /\ offers \subseteq Offers

Init ==
    /\ latest \in Offers /\ latest.boot = 0
    /\ adopted \in Offers /\ adopted.boot = 0
    /\ offers = {}

-----------------------------------------------------------------------------
(* Any step may also forget offers.                                        *)

\* The host chooses a configuration under a version above its own.
Choose ==
    /\ latest.boot > 0
    /\ latest'.boot = latest.boot
    /\ latest'.version > latest.version
    /\ latest' \in Offers
    /\ adopted' = adopted
    /\ offers' \subseteq Known \cup {latest'}

\* The host has seen a higher version and counts on from there.
CatchUp ==
    /\ latest'.boot = latest.boot
    /\ latest'.config = latest.config
    /\ latest'.version > latest.version
    /\ latest' \in Offers
    /\ adopted' = adopted
    /\ offers' \subseteq Known

Adopt ==
    /\ adopted' \in offers
    /\ latest' = latest
    /\ offers' \subseteq Known

Boot ==
    /\ adopted'.boot > latest.boot
    /\ adopted' \in Offers
    /\ \A o \in Known : adopted'.boot > o.boot
    /\ latest' = latest
    /\ offers' \subseteq Known \cup {adopted'}

Announce ==
    /\ latest' \in offers
    /\ latest'.boot > latest.boot
    /\ adopted' = adopted
    /\ offers' \subseteq Known

Forget ==
    /\ UNCHANGED <<latest, adopted>>
    /\ offers' \subseteq Known

Next == Forget \/ Choose \/ CatchUp \/ Adopt \/ Boot \/ Announce

Spec == Init /\ [][Next]_registerVars

-----------------------------------------------------------------------------

\* An equal version means an equal configuration, as long as the device runs on
\* something the host offered to this boot or this boot announced: a version
\* acknowledged is a configuration acknowledged (the whole point of sending
\* complete numbered snapshots, kv4p/__init__.py lines 160-164).  Of a device that
\* adopted an offer made to an earlier boot it says nothing.
Agreement ==
    /\ latest.boot > 0
    /\ adopted.boot = latest.boot
    /\ adopted.version = latest.version
    => adopted.config = latest.config

-----------------------------------------------------------------------------
(* Agreement, for any set of configurations.                               *)

\* Offers to the boot the host knows of carry versions up to its own, and its
\* own version carries its own configuration ...
Ordered ==
    latest.boot > 0 => \A o \in Known : o.boot = latest.boot =>
        /\ o.version <= latest.version
        /\ o.version = latest.version => o.config = latest.config

\* ... and of a boot the host has not heard of there is one offer, the one it
\* announces, so that hearing of it restores Ordered.
Unheard == \A o, p \in Known : o.boot > latest.boot /\ p.boot = o.boot => p = o

RegisterInv == TypeOK /\ Ordered /\ Unheard

LEMMA NextType == TypeOK /\ [Next]_registerVars => TypeOK'
  BY DEF TypeOK, Known, Next, registerVars, Choose, CatchUp, Adopt, Boot, Announce, Forget

LEMMA NextRegister == RegisterInv /\ [Next]_registerVars => RegisterInv'
  <1> SUFFICES ASSUME RegisterInv, [Next]_registerVars PROVE (Ordered /\ Unheard)'
    BY NextType DEF RegisterInv
  <1>1. /\ latest \in Offers /\ latest' \in Offers /\ Known \subseteq Offers
        /\ Known' \subseteq Offers /\ Ordered /\ Unheard
    BY NextType DEF RegisterInv, TypeOK, Known
  <1>2. ASSUME Known' \subseteq Known, latest' = latest PROVE (Ordered /\ Unheard)'
    BY <1>1, <1>2 DEF Ordered, Unheard
  <1>3. CASE UNCHANGED registerVars \/ Adopt \/ Forget
    <2>1. Known' \subseteq Known /\ latest' = latest
      BY <1>3 DEF registerVars, Adopt, Forget, Known
    <2> QED  BY <1>2, <2>1
  <1>4. CASE Choose
    <2>1. Known' \subseteq Known \cup {latest'} /\ latest'.boot = latest.boot
          /\ latest'.version > latest.version /\ latest.boot > 0
      BY <1>4 DEF Choose, Known
    <2>2. Ordered'
      BY <1>1, <2>1 DEF Ordered, Offers
    <2>3. Unheard'
      BY <1>1, <2>1 DEF Unheard, Offers
    <2> QED  BY <2>2, <2>3
  <1>5. CASE CatchUp
    <2>1. Known' \subseteq Known /\ latest'.boot = latest.boot
          /\ latest'.version > latest.version
      BY <1>5 DEF CatchUp, Known
    <2>2. Ordered'
      BY <1>1, <2>1 DEF Ordered, Offers
    <2>3. Unheard'
      BY <1>1, <2>1 DEF Unheard
    <2> QED  BY <2>2, <2>3
  <1>6. CASE Boot
    <2>1. Known' \subseteq Known \cup {adopted'} /\ latest' = latest
          /\ adopted'.boot > latest.boot /\ \A o \in Known : adopted'.boot > o.boot
          /\ adopted' \in Offers
      BY <1>6 DEF Boot, Known
    <2>2. Ordered'
      BY <1>1, <2>1 DEF Ordered, Offers
    <2>3. Unheard'
      BY <1>1, <2>1 DEF Unheard, Offers
    <2> QED  BY <2>2, <2>3
  <1>7. CASE Announce
    <2>1. Known' \subseteq Known /\ latest' \in Known /\ latest'.boot > latest.boot
      BY <1>7 DEF Announce, Known
    <2>2. \A o \in Known : o.boot = latest'.boot => o = latest'
      BY <1>1, <2>1 DEF Unheard
    <2>3. Ordered'
      BY <1>1, <2>1, <2>2 DEF Ordered, Offers
    <2>4. Unheard'
      BY <1>1, <2>1 DEF Unheard, Offers
    <2> QED  BY <2>3, <2>4
  <1> QED  BY <1>3, <1>4, <1>5, <1>6, <1>7 DEF Next

LEMMA InitRegister == Init => RegisterInv
  BY DEF Init, RegisterInv, TypeOK, Ordered, Unheard, Known, Offers

\* A version the device acknowledges is a configuration it agrees on.
THEOREM AlwaysAgree == Spec => []Agreement
  <1>1. RegisterInv => Agreement
    <2>1. adopted \in Known
      BY DEF Known
    <2> QED  BY <2>1 DEF RegisterInv, TypeOK, Ordered, Agreement
  <1> QED  BY <1>1, InitRegister, NextRegister, PTL DEF Spec
=============================================================================
