------------------------------ MODULE TxPathProofs ------------------------------
(***************************************************************************)
(* No byte of the window is lost or invented between two HELLOs, for any   *)
(* number of senders, sizes of frames, windows and messages underway.      *)
(***************************************************************************)
EXTENDS TxPath, FunctionTheorems, FiniteSetTheorems, TLAPS

-----------------------------------------------------------------------------
(* Totals.                                                                 *)

Points(f) == UNION {{x} \X (1 .. f[x]) : x \in DOMAIN f}

Without(f, x) == [y \in DOMAIN f \ {x} |-> f[y]]

LEMMA PointsMembers ==
    ASSUME NEW D, NEW f \in [D -> Nat]
    PROVE  \A p : p \in Points(f) <=> \E x \in D : \E k \in 1 .. f[x] : p = <<x, k>>
  BY DEF Points

LEMMA PointsFinite ==
    ASSUME NEW D, IsFiniteSet(D), NEW f \in [D -> Nat]
    PROVE  IsFiniteSet(Points(f))
  <1> DEFINE column == [x \in D |-> {x} \X (1 .. f[x])]
             columns == {column[x] : x \in D}
  <1>1. \A c \in columns : IsFiniteSet(c)
    <2> SUFFICES ASSUME NEW x \in D PROVE IsFiniteSet({x} \X (1 .. f[x]))
      OBVIOUS
    <2>1. f[x] \in Int /\ 1 \in Int
      OBVIOUS
    <2>2. IsFiniteSet(1 .. f[x])
      BY <2>1, FS_Interval
    <2> QED  BY <2>2, FS_Singleton, FS_Product
  <1>2. column \in Surjection(D, columns)
    BY DEF Surjection
  <1>3. IsFiniteSet(columns)
    BY <1>2, FS_Surjection
  <1>4. Points(f) = UNION columns
    BY DEF Points
  <1> HIDE DEF columns
  <1> QED  BY <1>1, <1>3, <1>4, FS_UNION

LEMMA TotalType ==
    ASSUME NEW D, IsFiniteSet(D), NEW f \in [D -> Nat]
    PROVE  Total(f) \in Nat
  BY PointsFinite, FS_CardinalityType DEF Total, Points

\* One summand can be taken out.
LEMMA TotalSplit ==
    ASSUME NEW D, IsFiniteSet(D), NEW f \in [D -> Nat], NEW x \in D
    PROVE  /\ Without(f, x) \in [D \ {x} -> Nat]
           /\ Total(Without(f, x)) \in Nat
           /\ Total(f) = Total(Without(f, x)) + f[x]
  <1> DEFINE g == Without(f, x)
             c == {x} \X (1 .. f[x])
  <1>1. g \in [D \ {x} -> Nat] /\ IsFiniteSet(D \ {x})
    BY FS_Difference DEF Without
  <1>2. f[x] \in Nat /\ 1 \in Int /\ f[x] \in Int
    OBVIOUS
  <1>3. IsFiniteSet(1 .. f[x]) /\ Cardinality(1 .. f[x]) = f[x]
    BY <1>2, FS_Interval
  <1>4. IsFiniteSet(c) /\ Cardinality(c) = f[x]
    <2>1. IsFiniteSet({x}) /\ Cardinality({x}) = 1
      BY FS_Singleton
    <2>2. IsFiniteSet(c) /\ Cardinality(c) = 1 * Cardinality(1 .. f[x])
      BY <1>3, <2>1, FS_Product
    <2> QED  BY <1>2, <1>3, <2>2
  <1>5. Points(f) = Points(g) \cup c
    BY DEF Points, Without
  <1>6. Points(g) \cap c = {}
    BY DEF Points, Without
  <1>7. IsFiniteSet(Points(g)) /\ Cardinality(Points(g)) \in Nat
    BY <1>1, PointsFinite, FS_CardinalityType
  <1>8. Cardinality(Points(g) \cup c) = Cardinality(Points(g)) + Cardinality(c) - Cardinality({})
    BY <1>4, <1>6, <1>7, FS_Union
  <1>9. Cardinality({}) = 0
    BY FS_EmptySet
  <1> HIDE DEF g, c
  <1>10. Cardinality(Points(f)) = Cardinality(Points(g)) + f[x]
    BY <1>2, <1>4, <1>5, <1>7, <1>8, <1>9
  <1> QED  BY <1>1, <1>7, <1>10 DEF Total, Points, g

LEMMA TotalChange ==
    ASSUME NEW D, IsFiniteSet(D), NEW f \in [D -> Nat], NEW g \in [D -> Nat], NEW x \in D,
           Without(g, x) = Without(f, x)
    PROVE  Total(g) = Total(f) + g[x] - f[x]
  <1>1. Total(f) = Total(Without(f, x)) + f[x] /\ Total(Without(f, x)) \in Nat
    BY TotalSplit
  <1>2. Total(g) = Total(Without(g, x)) + g[x]
    BY TotalSplit
  <1>3. f[x] \in Nat /\ g[x] \in Nat
    OBVIOUS
  <1> QED  BY <1>1, <1>2, <1>3

LEMMA TotalBound ==
    ASSUME NEW D, IsFiniteSet(D), NEW f \in [D -> Nat], NEW x \in D
    PROVE  f[x] <= Total(f)
  <1>1. Total(f) = Total(Without(f, x)) + f[x] /\ Total(Without(f, x)) \in Nat
    BY TotalSplit
  <1>2. f[x] \in Nat
    OBVIOUS
  <1> QED  BY <1>1, <1>2

\* A total does not depend on what the summands are called.
Renames(h, D, E, f, g) ==
    /\ \A x, y \in D : h[x] = h[y] => x = y
    /\ \A z \in E : \E x \in D : h[x] = z
    /\ \A x \in D : g[h[x]] = f[x]

LEMMA TotalRenamed ==
    ASSUME NEW D, NEW E, IsFiniteSet(D), NEW f \in [D -> Nat], NEW g \in [E -> Nat],
           NEW h \in [D -> E], Renames(h, D, E, f, g)
    PROVE  Total(g) = Total(f)
  <1> DEFINE b == [p \in Points(f) |-> <<h[p[1]], p[2]>>]
  <1>1. \A p \in Points(f) : p[1] \in D /\ p[2] \in 1 .. f[p[1]] /\ p = <<p[1], p[2]>>
    BY PointsMembers
  <1>0. /\ \A x, y \in D : h[x] = h[y] => x = y
        /\ \A z \in E : \E x \in D : h[x] = z
        /\ \A x \in D : g[h[x]] = f[x]
    BY DEF Renames
  <1>2. \A p \in Points(f) : b[p] \in Points(g)
    <2> SUFFICES ASSUME NEW p \in Points(f) PROVE <<h[p[1]], p[2]>> \in Points(g)
      OBVIOUS
    <2>1. h[p[1]] \in E /\ p[2] \in 1 .. g[h[p[1]]]
      BY <1>0, <1>1
    <2> QED  BY <2>1, PointsMembers
  <1>3. \A p, q \in Points(f) : b[p] = b[q] => p = q
    <2> SUFFICES ASSUME NEW p \in Points(f), NEW q \in Points(f), b[p] = b[q] PROVE p = q
      OBVIOUS
    <2>1. h[p[1]] = h[q[1]] /\ p[2] = q[2]
      OBVIOUS
    <2>2. p[1] = q[1]
      BY <1>0, <1>1, <2>1
    <2>3. p = <<p[1], p[2]>> /\ q = <<q[1], q[2]>>
      BY <1>1
    <2> QED  BY <2>1, <2>2, <2>3
  <1>4. \A q \in Points(g) : \E p \in Points(f) : b[p] = q
    <2> SUFFICES ASSUME NEW q \in Points(g) PROVE \E p \in Points(f) : b[p] = q
      OBVIOUS
    <2>1. PICK z \in E : \E k \in 1 .. g[z] : q = <<z, k>>
      BY PointsMembers
    <2>2. PICK k \in 1 .. g[z] : q = <<z, k>>
      BY <2>1
    <2>3. PICK x \in D : h[x] = z
      BY <1>0, <2>1
    <2>4. k \in 1 .. f[x]
      BY <1>0, <2>2, <2>3
    <2>5. <<x, k>> \in Points(f)
      BY <2>4, PointsMembers
    <2>6. b[<<x, k>>] = q
      BY <2>2, <2>3, <2>5
    <2> QED  BY <2>5, <2>6
  <1>5. b \in [Points(f) -> Points(g)]
    BY <1>2
  <1> HIDE DEF b
  <1>6. b \in Bijection(Points(f), Points(g))
    BY <1>3, <1>4, <1>5, Fun_IsBij
  <1>7. ExistsBijection(Points(f), Points(g))
    BY <1>6, Fun_ExistsBij
  <1> QED  BY <1>7, PointsFinite, FS_Bijection DEF Total, Points

LEMMA TotalZero ==
    ASSUME NEW D, NEW f, f = [x \in D |-> 0]
    PROVE  Total(f) = 0
  <1>1. \A x \in D : 1 .. f[x] = {}
    OBVIOUS
  <1>2. UNION {{x} \X (1 .. f[x]) : x \in DOMAIN f} = {}
    BY <1>1
  <1> QED  BY <1>2, FS_EmptySet DEF Total

-----------------------------------------------------------------------------
(* What is claimed.                                                        *)

Hand(st, n) == [t \in Threads |-> IF st[t] = "granted" THEN n[t] ELSE 0]

LEMMA ThreadsFinite == IsFiniteSet(Threads)
  BY TxAssumption, FS_Singleton, FS_Union DEF Threads

LEMMA InHandType ==
    ASSUME NEW st, NEW n \in [Threads -> Nat]
    PROVE  Hand(st, n) \in [Threads -> Nat] /\ InHand(st, n) \in Nat
  <1>1. Hand(st, n) \in [Threads -> Nat]
    BY DEF Hand
  <1> QED  BY <1>1, ThreadsFinite, TotalType DEF InHand, Hand

\* Nobody is granted a claim or returns with it.
LEMMA InHandSame ==
    ASSUME NEW st, NEW n, NEW st1, NEW n1,
           \A t \in Threads : st1[t] = "granted" <=> st[t] = "granted",
           \A t \in Threads : st[t] = "granted" => n1[t] = n[t]
    PROVE  InHand(st1, n1) = InHand(st, n)
  <1>1. Hand(st1, n1) = Hand(st, n)
    BY DEF Hand
  <1> QED  BY <1>1 DEF InHand, Hand

States == {"idle", "running", "asleep", "granted", "refused"}

LEMMA InHandChange ==
    ASSUME NEW st \in [Threads -> States], NEW n \in [Threads -> Nat], NEW t \in Threads,
           NEW s \in States
    PROVE  InHand([st EXCEPT ![t] = s], n)
              = InHand(st, n) + (IF s = "granted" THEN n[t] ELSE 0)
                              - (IF st[t] = "granted" THEN n[t] ELSE 0)
  <1> DEFINE st1 == [st EXCEPT ![t] = s]
  <1>1. Hand(st, n) \in [Threads -> Nat] /\ Hand(st1, n) \in [Threads -> Nat]
    BY InHandType
  <1>2. Without(Hand(st1, n), t) = Without(Hand(st, n), t)
    BY DEF Hand, Without
  <1>3. Hand(st1, n)[t] = IF s = "granted" THEN n[t] ELSE 0
    BY DEF Hand
  <1>4. Hand(st, n)[t] = IF st[t] = "granted" THEN n[t] ELSE 0
    BY DEF Hand
  <1>5. Total(Hand(st1, n)) = Total(Hand(st, n)) + Hand(st1, n)[t] - Hand(st, n)[t]
    BY <1>1, <1>2, ThreadsFinite, TotalChange
  <1> QED  BY <1>3, <1>4, <1>5 DEF InHand, Hand

-----------------------------------------------------------------------------
(* What is on its way back.                                                *)

Messages == {Update(n) : n \in Nat \ {0}} \cup {Hello}

Worth(m) == IF m.kind = "update" THEN m.size ELSE 0

Worths(q) == [i \in DOMAIN q |-> Worth(q[i])]

LEMMA MessageWorth ==
    /\ \A m \in Messages : Worth(m) \in Nat /\ m.size \in Nat
    /\ Worth(Hello) = 0 /\ Hello \in Messages
    /\ \A n \in Nat \ {0} : Worth(Update(n)) = n /\ Update(n) \in Messages
  BY TxAssumption DEF Messages, Worth, Update, Hello

LEMMA CreditsType ==
    ASSUME NEW q \in Seq(Messages)
    PROVE  /\ Worths(q) \in [DOMAIN q -> Nat] /\ IsFiniteSet(DOMAIN q)
           /\ Credits(q) = Total(Worths(q)) /\ Credits(q) \in Nat
           /\ \A i \in DOMAIN q : Worth(q[i]) <= Credits(q)
  <1>1. Worths(q) \in [DOMAIN q -> Nat]
    BY MessageWorth DEF Worths
  <1>2. IsFiniteSet(DOMAIN q)
    <2>1. DOMAIN q = 1 .. Len(q) /\ 1 \in Int /\ Len(q) \in Int
      OBVIOUS
    <2> QED  BY <2>1, FS_Interval
  <1>3. Credits(q) = Total(Worths(q))
    BY DEF Credits, Worths, Worth
  <1>4. \A i \in DOMAIN q : Worths(q)[i] <= Total(Worths(q))
    BY <1>1, <1>2, TotalBound
  <1> QED  BY <1>1, <1>2, <1>3, <1>4, TotalType DEF Worths

LEMMA CreditsSplit ==
    ASSUME NEW q \in Seq(Messages), NEW x \in DOMAIN q
    PROVE  /\ Without(Worths(q), x) \in [DOMAIN q \ {x} -> Nat]
           /\ Credits(q) = Total(Without(Worths(q), x)) + Worth(q[x])
           /\ Total(Without(Worths(q), x)) \in Nat
  <1> DEFINE w == Worths(q)
             D == DOMAIN q
  <1>1. w \in [D -> Nat] /\ IsFiniteSet(D) /\ Credits(q) = Total(w) /\ x \in D
    BY CreditsType
  <1>2. w[x] = Worth(q[x])
    BY DEF Worths
  <1> HIDE DEF w, D
  <1>3. /\ Without(w, x) \in [D \ {x} -> Nat]
        /\ Total(Without(w, x)) \in Nat
        /\ Total(w) = Total(Without(w, x)) + w[x]
    BY <1>1, TotalSplit
  <1> QED  BY <1>1, <1>2, <1>3 DEF w, D

LEMMA CreditsAppend ==
    ASSUME NEW q \in Seq(Messages), NEW m \in Messages
    PROVE  Credits(Append(q, m)) = Credits(q) + Worth(m)
  <1> DEFINE r == Append(q, m)
             x == Len(q) + 1
  <1>1. r \in Seq(Messages) /\ x \in DOMAIN r /\ r[x] = m
    BY Len(q) \in Nat
  <1>2. DOMAIN r \ {x} = DOMAIN q
    <2>1. Len(q) \in Nat /\ DOMAIN q = 1 .. Len(q) /\ DOMAIN r = 1 .. Len(q) + 1
      OBVIOUS
    <2> QED  BY <2>1
  <1>3. \A i \in DOMAIN q : r[i] = q[i]
    OBVIOUS
  <1> HIDE DEF r, x
  <1>4. Credits(r) = Total(Without(Worths(r), x)) + Worth(m)
    BY <1>1, CreditsSplit
  <1>5. Without(Worths(r), x) = Worths(q)
    BY <1>2, <1>3 DEF Without, Worths
  <1> QED  BY <1>4, <1>5, CreditsType DEF r

LEMMA CreditsTail ==
    ASSUME NEW q \in Seq(Messages), q # <<>>
    PROVE  Credits(q) = Credits(Tail(q)) + Worth(Head(q))
  <1> DEFINE r == Tail(q)
             D == DOMAIN q \ {1}
             E == DOMAIN r
             h == [i \in D |-> i - 1]
             f == Without(Worths(q), 1)
             g == Worths(r)
  <1>1. r \in Seq(Messages) /\ 1 \in DOMAIN q /\ Head(q) = q[1]
    OBVIOUS
  <1>2. h \in [D -> E]
    OBVIOUS
  <1>3. \A i, j \in D : h[i] = h[j] => i = j
    OBVIOUS
  <1>4. \A j \in E : \E i \in D : h[i] = j
    <2>1. \A j \in E : j + 1 \in D /\ h[j + 1] = j
      OBVIOUS
    <2> QED  BY <2>1
  <1>5. \A i \in D : r[h[i]] = q[i]
    OBVIOUS
  <1>6. f \in [D -> Nat] /\ Credits(q) = Total(f) + Worth(Head(q))
    BY <1>1, CreditsSplit
  <1>7. IsFiniteSet(D)
    BY CreditsType, FS_Difference
  <1>8. g \in [E -> Nat] /\ Credits(r) = Total(g)
    BY <1>1, CreditsType
  <1>9. \A i \in D : g[h[i]] = f[i]
    BY <1>2, <1>5 DEF Worths, Without
  <1> HIDE DEF r, D, E, h, f, g
  <1>10. Renames(h, D, E, f, g)
    BY <1>3, <1>4, <1>9 DEF Renames
  <1>11. Total(g) = Total(f)
    BY <1>2, <1>6, <1>7, <1>8, <1>10, TotalRenamed
  <1> QED  BY <1>6, <1>8, <1>11 DEF r

-----------------------------------------------------------------------------
(* The invariant.  TypeOK says of an update that it frees no more than      *)
(* there is, which follows from the accounts and not the other way round.   *)

PathTypes ==
    /\ Flow!TypeOK
    /\ ready \in BOOLEAN
    /\ callback \in BOOLEAN
    /\ held \in Nat
    /\ inbox \in Seq(Messages)
    /\ boots \in 0 .. MaxBoots

Ledger == PathTypes /\ Accounted

\* A step of the window that FlowControl has too keeps its types.
LEMMA FlowSteps ==
    ASSUME Flow!TypeOK, NEW t \in Threads,
           \/ \E n \in FrameSizes : Flow!Claim(t, n)
           \/ Flow!ClaimStep(t) \/ Flow!Deadline(t) \/ Flow!Return(t)
    PROVE  Flow!TypeOK'
  <1>1. Flow!Next
    BY DEF Flow!Next
  <1> QED  BY <1>1, TxAssumption, Flow!NextType

LEMMA LedgerInit == Init => Ledger
  <1> SUFFICES ASSUME Init PROVE Ledger
    OBVIOUS
  <1>1. PathTypes
    <2>1. Flow!TypeOK
      BY TxAssumption DEF Init, Flow!Init, Flow!TypeOK
    <2>2. boots \in 0 .. MaxBoots /\ inbox \in Seq(Messages)
      BY TxAssumption DEF Init
    <2> QED  BY <2>1, <2>2 DEF Init, PathTypes
  <1>2. InHand(pc, need) = 0
    <2>1. Hand(pc, need) = [t \in Threads |-> 0]
      BY DEF Init, Flow!Init, Hand
    <2> QED  BY <2>1, TotalZero DEF InHand, Hand
  <1>3. Credits(inbox) = 0
    <2>1. inbox = <<>> /\ DOMAIN inbox = {}
      BY DEF Init
    <2>2. Worths(inbox) = [i \in {} |-> 0]
      BY <2>1 DEF Worths
    <2> QED  BY <2>2, TotalZero DEF Credits, Worths, Worth
  <1>4. size = InitialSize /\ held = 0 /\ budget = InitialSize /\ InitialSize \in Nat
    BY TxAssumption DEF Init, Flow!Init
  <1> QED  BY <1>1, <1>2, <1>3, <1>4 DEF Ledger, Accounted

LEMMA LedgerNext == Ledger /\ [Next]_vars => Ledger'
  <1> SUFFICES ASSUME Ledger, [Next]_vars PROVE Ledger'
    OBVIOUS
  <1>0. /\ PathTypes /\ Flow!TypeOK /\ held \in Nat /\ inbox \in Seq(Messages) /\ size \in Nat
        /\ pc \in [Threads -> States] /\ need \in [Threads -> Nat]
        /\ InHand(pc, need) \in Nat /\ Credits(inbox) \in Nat
        /\ size + InHand(pc, need) + held + Credits(inbox) = budget
    BY InHandType, CreditsType DEF Ledger, PathTypes, Flow!TypeOK, Accounted, States
  <1>1. ASSUME Flow!TypeOK', UNCHANGED <<ready, callback, deviceVars, budget>>,
               InHand(pc', need') \in Nat, size' + InHand(pc', need') = size + InHand(pc, need)
        PROVE  Ledger'
    <2>1. PathTypes'
      BY <1>0, <1>1 DEF PathTypes, deviceVars
    <2>2. held' = held /\ Credits(inbox') = Credits(inbox) /\ budget' = budget /\ size' \in Nat
      BY <1>1 DEF deviceVars, Flow!TypeOK
    <2>3. Accounted'
      BY <1>0, <1>1, <2>2 DEF Accounted
    <2> QED  BY <2>1, <2>3 DEF Ledger
  <1>2. ASSUME NEW t \in Threads, NEW n \in FrameSizes, SendTxAudio(t, n) \/ SendAx25Frame(t, n)
        PROVE  Ledger'
    <2>1. Flow!Claim(t, n) /\ UNCHANGED <<ready, callback, deviceVars, budget>>
      BY <1>2 DEF SendTxAudio, SendAx25Frame
    <2>2. Flow!TypeOK'
      BY <1>0, <2>1, FlowSteps
    <2>3. InHand(pc', need') = InHand(pc, need)
      <3>1. /\ \A u \in Threads : pc'[u] = "granted" <=> pc[u] = "granted"
            /\ \A u \in Threads : pc[u] = "granted" => need'[u] = need[u]
        BY <1>0, <2>1 DEF Flow!Claim
      <3> QED  BY <3>1, InHandSame
    <2> QED  BY <1>0, <1>1, <2>1, <2>2, <2>3 DEF Flow!Claim
  <1>3. ASSUME NEW t \in Threads, Claiming(t) PROVE Ledger'
    <2>1. (Flow!ClaimStep(t) \/ Flow!Deadline(t)) /\ UNCHANGED <<ready, callback, deviceVars, budget>>
      BY <1>3 DEF Claiming
    <2>2. Flow!TypeOK'
      BY <1>0, <2>1, FlowSteps
    <2>3. CASE Flow!Grant(t)
      <3>1. /\ pc[t] = "running" /\ size' = size - need[t] /\ need' = need
            /\ pc' = [pc EXCEPT ![t] = "granted"]
        BY <2>3 DEF Flow!Grant
      <3>2. InHand(pc', need') = InHand(pc, need) + need[t] - 0
        <4>1. "granted" \in States
          BY DEF States
        <4> QED  BY <1>0, <3>1, <4>1, InHandChange
      <3>3. need[t] \in Nat
        BY <1>0
      <3> QED  BY <1>0, <1>1, <2>1, <2>2, <3>1, <3>2, <3>3
    <2>4. CASE Flow!Refuse(t) \/ Flow!Sleep(t) \/ Flow!TimeOut(t) \/ Flow!Deadline(t)
      <3>1. /\ \A u \in Threads : pc'[u] = "granted" <=> pc[u] = "granted"
            /\ need' = need /\ size' = size
        BY <1>0, <2>4 DEF Flow!Refuse, Flow!Sleep, Flow!TimeOut, Flow!Deadline
      <3>2. InHand(pc', need') = InHand(pc, need)
        BY <3>1, InHandSame
      <3> QED  BY <1>0, <1>1, <2>1, <2>2, <3>1, <3>2
    <2> QED  BY <2>1, <2>3, <2>4 DEF Flow!ClaimStep
  <1>4. ASSUME NEW t \in Threads, SendEnds(t) PROVE Ledger'
    <2>1. /\ Flow!Return(t) /\ size' = size /\ need' = need /\ pc' = [pc EXCEPT ![t] = "idle"]
          /\ ready' = ready /\ callback' = callback /\ inbox' = inbox /\ boots' = boots
          /\ need[t] \in Nat
      BY <1>0, <1>4 DEF SendEnds, Write, WriteRaises, Drop, Flow!Return, deviceVars
    <2>2. Flow!TypeOK'
      BY <1>0, <2>1, FlowSteps
    <2>3. InHand(pc', need')
             = InHand(pc, need) + 0 - (IF pc[t] = "granted" THEN need[t] ELSE 0)
      <3>1. "idle" \in States
        BY DEF States
      <3> QED  BY <1>0, <2>1, <3>1, InHandChange
    <2>4. CASE Write(t)
      <3>1. held' = held + need[t] /\ budget' = budget /\ pc[t] = "granted"
        BY <2>4 DEF Write
      <3>2. PathTypes'
        BY <1>0, <2>1, <2>2, <3>1 DEF PathTypes
      <3>3. Accounted'
        BY <1>0, <2>1, <2>3, <3>1 DEF Accounted
      <3> QED  BY <3>2, <3>3 DEF Ledger
    <2>5. CASE WriteRaises(t)
      <3>1. held' = held /\ budget' = budget - need[t] /\ pc[t] = "granted"
        BY <2>5 DEF WriteRaises, deviceVars
      <3>2. PathTypes'
        BY <1>0, <2>1, <2>2, <3>1 DEF PathTypes
      <3>3. Accounted'
        BY <1>0, <2>1, <2>3, <3>1 DEF Accounted
      <3> QED  BY <3>2, <3>3 DEF Ledger
    <2>6. CASE Drop(t)
      <3>1. held' = held /\ budget' = budget /\ pc[t] = "refused"
        BY <2>6 DEF Drop, deviceVars
      <3>2. PathTypes'
        BY <1>0, <2>1, <2>2, <3>1 DEF PathTypes
      <3>3. Accounted'
        BY <1>0, <2>1, <2>3, <3>1 DEF Accounted
      <3> QED  BY <3>2, <3>3 DEF Ledger
    <2> QED  BY <1>4, <2>4, <2>5, <2>6 DEF SendEnds
  <1>5. CASE HandleWindowUpdate \/ HandleHello
    <2> DEFINE m == Head(inbox)
    <2>0. inbox # <<>> /\ inbox' = Tail(inbox)
      BY <1>5 DEF HandleWindowUpdate, HandleHello, Receive
    <2>1. /\ inbox # <<>> /\ inbox' = Tail(inbox) /\ m \in Messages /\ inbox' \in Seq(Messages)
          /\ m.size \in Nat
      <3>1. m \in Messages /\ inbox' \in Seq(Messages)
        BY <1>0, <2>0
      <3> QED  BY <2>0, <3>1, MessageWorth
    <2>2. Credits(inbox) = Credits(inbox') + Worth(m) /\ Credits(inbox') \in Nat /\ Worth(m) \in Nat
      BY <1>0, <2>1, CreditsTail, CreditsType, MessageWorth
    <2>3. /\ \A u \in Threads : pc'[u] = "granted" <=> pc[u] = "granted"
          /\ need' = need /\ late' = late
          /\ pc' = [u \in Threads |-> IF pc[u] = "asleep" THEN "running" ELSE pc[u]]
      BY <1>5 DEF HandleWindowUpdate, HandleHello, Flow!Add, Flow!Reset, Flow!NotifyAll
    <2>4. InHand(pc', need') = InHand(pc, need)
      BY <2>3, InHandSame
    <2>5. size' \in Nat => Flow!TypeOK'
      BY <1>0, <2>3 DEF Flow!TypeOK
    <2>6. CASE HandleWindowUpdate
      <3>1. /\ m.kind = "update" /\ size' = size + m.size
            /\ UNCHANGED <<ready, callback, held, boots, budget>>
        BY <2>6 DEF HandleWindowUpdate, Receive, Flow!Add
      <3>2. Worth(m) = m.size
        BY <3>1 DEF Worth
      <3> HIDE DEF m
      <3>3. size' \in Nat
        BY <1>0, <2>1, <3>1
      <3>4. PathTypes'
        BY <1>0, <2>1, <2>5, <3>1, <3>3 DEF PathTypes
      <3>5. Accounted'
        <4>1. Credits(inbox) = Credits(inbox') + m.size
          BY <2>2, <3>2
        <4>2. size' + InHand(pc', need') + held' + Credits(inbox') = budget'
          <5>1. size' = size + m.size /\ held' = held /\ budget' = budget
            BY <3>1
          <5>2. m.size \in Nat /\ Credits(inbox') \in Nat
            BY <2>1, <2>2
          <5>3. size \in Nat /\ held \in Nat /\ InHand(pc, need) \in Nat
            BY <1>0
          <5>4. size + InHand(pc, need) + held + Credits(inbox) = budget
            BY <1>0
          <5> QED  BY <2>4, <4>1, <5>1, <5>2, <5>3, <5>4
        <4> QED  BY <4>2 DEF Accounted
      <3> QED  BY <3>4, <3>5 DEF Ledger
    <2>7. CASE HandleHello
      <3>1. /\ size' = m.size /\ ready' = TRUE /\ UNCHANGED <<callback, held, boots>>
            /\ budget' = m.size + InHand(pc, need) + held + Credits(inbox')
        BY <2>7 DEF HandleHello, Flow!Reset
      <3> HIDE DEF m
      <3>2. PathTypes'
        BY <1>0, <2>1, <2>5, <3>1 DEF PathTypes
      <3>3. Accounted'
        BY <2>4, <3>1 DEF Accounted
      <3> QED  BY <3>2, <3>3 DEF Ledger
    <2> QED  BY <1>5, <2>6, <2>7
  <1>6. CASE Ax25FrameArrives \/ CallbackReturns \/ UNCHANGED vars
    <2>1. /\ UNCHANGED <<flowVars, ready, deviceVars, budget>>
          /\ callback' \in BOOLEAN
      BY <1>0, <1>6, Zenon DEF Ax25FrameArrives, CallbackReturns, vars, PathTypes
    <2>2. PathTypes'
      BY <1>0, <2>1 DEF PathTypes, deviceVars, flowVars, Flow!TypeOK
    <2>3. Accounted'
      BY <1>0, <2>1 DEF Accounted, deviceVars, flowVars
    <2> QED  BY <2>2, <2>3 DEF Ledger
  <1>7. ASSUME NEW n \in 1 .. held, Free(n) PROVE Ledger'
    <2>1. /\ n \in Nat \ {0} /\ n <= held /\ held' = held - n /\ inbox' = Append(inbox, Update(n))
          /\ UNCHANGED <<flowVars, ready, callback, boots, budget>>
      BY <1>0, <1>7 DEF Free
    <2>2. inbox' \in Seq(Messages) /\ Credits(inbox') = Credits(inbox) + n
      <3>1. Update(n) \in Messages /\ Worth(Update(n)) = n
        BY <2>1, MessageWorth
      <3> QED  BY <1>0, <2>1, <3>1, CreditsAppend
    <2>3. held' \in Nat
      BY <1>0, <2>1
    <2>4. PathTypes'
      BY <1>0, <2>1, <2>2, <2>3 DEF PathTypes, flowVars, Flow!TypeOK
    <2>5. Accounted'
      BY <1>0, <2>1, <2>2 DEF Accounted, flowVars
    <2> QED  BY <2>4, <2>5 DEF Ledger
  <1>8. CASE Boot
    <2>1. /\ boots < MaxBoots /\ boots' = boots + 1 /\ held' = 0 /\ inbox' = Append(inbox, Hello)
          /\ budget' = budget - held /\ UNCHANGED <<flowVars, ready, callback>>
      BY <1>8 DEF Boot
    <2>2. inbox' \in Seq(Messages) /\ Credits(inbox') = Credits(inbox) + 0
      BY <1>0, <2>1, MessageWorth, CreditsAppend
    <2>3. boots' \in 0 .. MaxBoots
      BY <1>0, <2>1, TxAssumption DEF PathTypes
    <2>4. PathTypes'
      BY <1>0, <2>1, <2>2, <2>3 DEF PathTypes, flowVars, Flow!TypeOK
    <2>5. Accounted'
      BY <1>0, <2>1, <2>2 DEF Accounted, flowVars
    <2> QED  BY <2>4, <2>5 DEF Ledger
  <1> QED  BY <1>2, <1>3, <1>4, <1>5, <1>6, <1>7, <1>8 DEF Next

LEMMA LedgerTypes == Ledger => TypeOK
  <1> SUFFICES ASSUME Ledger PROVE TypeOK
    OBVIOUS
  <1>1. /\ PathTypes /\ held \in Nat /\ inbox \in Seq(Messages) /\ size \in Nat
        /\ InHand(pc, need) \in Nat /\ Credits(inbox) \in Nat
        /\ size + InHand(pc, need) + held + Credits(inbox) = budget
    BY InHandType, CreditsType DEF Ledger, PathTypes, Flow!TypeOK, Accounted
  <1>2. ASSUME NEW i \in DOMAIN inbox
        PROVE  inbox[i] \in {Update(n) : n \in 1 .. budget} \cup {Hello}
    <2>1. inbox[i] \in Messages
      BY <1>1
    <2>2. ASSUME NEW n \in Nat \ {0}, inbox[i] = Update(n) PROVE n \in 1 .. budget
      <3>1. n <= Credits(inbox)
        BY <1>1, <2>2, CreditsType, MessageWorth
      <3> QED  BY <1>1, <3>1
    <2> QED  BY <2>1, <2>2 DEF Messages
  <1> QED  BY <1>1, <1>2 DEF TypeOK, PathTypes

\* Between two HELLOs no byte of the window is lost or invented.
THEOREM BytesAccounted == Spec => []Accounted
  <1>1. Spec => Init /\ [][Next]_vars
    BY PTL DEF Spec
  <1>2. Ledger => Accounted
    BY DEF Ledger
  <1> QED  BY <1>1, <1>2, LedgerInit, LedgerNext, PTL

\* No interleaving overdraws the window, and no WINDOW_UPDATE frees more than
\* there is.
THEOREM PathTypeCorrect == Spec => []TypeOK
  <1>1. Spec => Init /\ [][Next]_vars
    BY PTL DEF Spec
  <1> QED  BY <1>1, LedgerTypes, LedgerInit, LedgerNext, PTL
=============================================================================
