--------------------------- MODULE RespecterProofs ---------------------------
(***************************************************************************)
(* The destructor waits, unless a client comes late, for any number of     *)
(* threads with any number of clients.                                     *)
(***************************************************************************)
EXTENDS ClientThreadsRespecter, FiniteSetTheorems, TLAPS

\* How many clients of a thread are counted.
CountedOf(t) == clients[t] + (IF at[t] = "lock" THEN 1 ELSE 0)
-----------------------------------------------------------------------------
(***************************************************************************)
(* The count.                                                              *)
(***************************************************************************)
LEMMA PairsFinite ==
  ASSUME NEW S \in SUBSET (Threads \X (1 .. MaxClients))
  PROVE  /\ IsFiniteSet(S)
         /\ Cardinality(S) \in Nat
         /\ Cardinality(S) <= Cardinality(Threads) * MaxClients
         /\ Cardinality(Threads) * MaxClients \in Nat
<1>1. IsFiniteSet(1 .. MaxClients) /\ Cardinality(1 .. MaxClients) = MaxClients
  BY FS_Interval, RespecterAssumption
<1>2. /\ IsFiniteSet(Threads \X (1 .. MaxClients))
      /\ Cardinality(Threads \X (1 .. MaxClients)) = Cardinality(Threads) * MaxClients
  BY <1>1, FS_Product, RespecterAssumption
<1>3. IsFiniteSet(S) /\ Cardinality(S) <= Cardinality(Threads) * MaxClients
  BY <1>2, FS_Subset
<1>4. Cardinality(S) \in Nat /\ Cardinality(Threads) * MaxClients \in Nat
  BY <1>2, <1>3, FS_CardinalityType
<1> QED
  BY <1>3, <1>4

LEMMA CountedFinite == IsFiniteSet(Counted) /\ Cardinality(Counted) \in Nat
<1>1. Counted \in SUBSET (Threads \X (1 .. MaxClients))
  BY DEF Counted
<1> QED
  BY <1>1, PairsFinite

\* Nobody is counted when the count is zero.
LEMMA NoneCounted ==
  ASSUME RespecterTypeOK, ref_count = 0
  PROVE  /\ owner \notin {"using", "release"}
         /\ \A t \in Threads : clients[t] = 0 /\ at[t] # "lock"
<1>1. Cardinality(Counted) = 0 /\ owner \notin {"using", "release"}
  BY CountedFinite DEF RespecterTypeOK, OwnCounted
<1>2. Counted = {}
  BY <1>1, CountedFinite, FS_EmptySet
<1>3. ASSUME NEW t \in Threads, clients[t] # 0 \/ at[t] = "lock" PROVE FALSE
  <2>1. <<t, 1>> \in Threads \X (1 .. MaxClients) /\ 1 <= CountedOf(t)
    BY <1>3, RespecterAssumption DEF RespecterTypeOK, CountedOf
  <2>2. <<t, 1>> \in Counted
    BY <2>1 DEF Counted, CountedOf
  <2> QED
    BY <1>2, <2>2
<1> QED
  BY <1>1, <1>3

\* A client more, counted by t.
LEMMA CountedGrows ==
  ASSUME RespecterTypeOK, NEW t \in Threads, CountedOf(t) < MaxClients,
         CountedOf(t)' = CountedOf(t) + 1,
         \A u \in Threads : u # t => CountedOf(u)' = CountedOf(u)
  PROVE  Cardinality(Counted)' = Cardinality(Counted) + 1
<1> DEFINE new == <<t, CountedOf(t) + 1>>
<1>1. \A u \in Threads : CountedOf(u) \in Nat
  BY DEF RespecterTypeOK, CountedOf
<1>2. new \in Threads \X (1 .. MaxClients) /\ new \notin Counted
  BY <1>1, RespecterAssumption DEF Counted, CountedOf
<1>3. Counted' = Counted \union {new}
  <2>1. ASSUME NEW u \in Threads, NEW i \in 1 .. MaxClients
        PROVE  i <= CountedOf(u)' <=> i <= CountedOf(u) \/ (u = t /\ i = CountedOf(t) + 1)
    BY <1>1
  <2>2. Counted = {c \in Threads \X (1 .. MaxClients) : c[2] <= CountedOf(c[1])}
    BY DEF Counted, CountedOf
  <2>3. Counted' = {c \in Threads \X (1 .. MaxClients) : c[2] <= CountedOf(c[1])'}
    BY DEF Counted, CountedOf
  <2> HIDE DEF Counted, CountedOf
  <2> QED
    BY <1>2, <2>1, <2>2, <2>3
<1> QED
  BY <1>2, <1>3, CountedFinite, FS_AddElement

\* A client less.
LEMMA CountedShrinks ==
  ASSUME RespecterTypeOK, NEW t \in Threads, CountedOf(t) \in 1 .. MaxClients,
         CountedOf(t)' = CountedOf(t) - 1,
         \A u \in Threads : u # t => CountedOf(u)' = CountedOf(u)
  PROVE  Cardinality(Counted)' = Cardinality(Counted) - 1
<1> DEFINE old == <<t, CountedOf(t)>>
<1>1. \A u \in Threads : CountedOf(u) \in Nat
  BY DEF RespecterTypeOK, CountedOf
<1>2. Counted = {c \in Threads \X (1 .. MaxClients) : c[2] <= CountedOf(c[1])}
  BY DEF Counted, CountedOf
<1>3. Counted' = {c \in Threads \X (1 .. MaxClients) : c[2] <= CountedOf(c[1])'}
  BY DEF Counted, CountedOf
<1>4. old \in Counted
  BY <1>1, <1>2
<1>5. Counted' = Counted \ {old}
  <2>1. ASSUME NEW u \in Threads, NEW i \in 1 .. MaxClients
        PROVE  i <= CountedOf(u)' <=> i <= CountedOf(u) /\ ~(u = t /\ i = CountedOf(t))
    BY <1>1
  <2> QED
    BY <1>1, <1>2, <1>3, <2>1
<1> QED
  BY <1>4, <1>5, CountedFinite, FS_RemoveElement

LEMMA CountedStays ==
  ASSUME \A u \in Threads : CountedOf(u)' = CountedOf(u)
  PROVE  Cardinality(Counted)' = Cardinality(Counted)
<1>1. Counted' = Counted
  BY DEF Counted, CountedOf
<1> QED
  BY <1>1
-----------------------------------------------------------------------------
(***************************************************************************)
(* The types, and that the count counts.                                   *)
(***************************************************************************)
LEMMA RespecterInvInit == Init => RespecterInv
<1> SUFFICES ASSUME Init PROVE RespecterInv
  OBVIOUS
<1>1. PICK holders \in SUBSET Threads :
        /\ ref_count = 1 + Cardinality(holders)
        /\ clients = [t \in Threads |-> IF t \in holders THEN 1 ELSE 0]
  BY DEF Init
<1>2. \A t \in Threads : clients[t] = (IF t \in holders THEN 1 ELSE 0) /\ at[t] = "running"
  BY <1>1 DEF Init
<1>3. Counted = holders \X {1}
  <2>1. ASSUME NEW t \in Threads, NEW i \in 1 .. MaxClients
        PROVE  i <= CountedOf(t) <=> t \in holders /\ i = 1
    BY <1>2 DEF CountedOf
  <2>2. Counted = {c \in Threads \X (1 .. MaxClients) : c[2] <= CountedOf(c[1])}
    BY DEF Counted, CountedOf
  <2>3. 1 \in 1 .. MaxClients
    BY RespecterAssumption
  <2> QED
    BY <2>1, <2>2, <2>3
<1>4. IsFiniteSet(holders) /\ Cardinality(holders) \in Nat
  BY RespecterAssumption, FS_Subset, FS_CardinalityType
<1>5. Cardinality(Counted) = Cardinality(holders)
  <2>1. Cardinality(holders \X {1}) = Cardinality(holders) * Cardinality({1})
    BY <1>4, FS_Singleton, FS_Product
  <2>2. Cardinality({1}) = 1
    BY FS_Singleton
  <2> QED
    BY <1>3, <1>4, <2>1, <2>2
<1>6. RespecterTypeOK
  <2>1. ref_count \in 0 .. 1 + Cardinality(Threads) * MaxClients
    <3>1. Counted \in SUBSET (Threads \X (1 .. MaxClients))
      BY DEF Counted
    <3> QED
      BY <1>1, <1>4, <1>5, <3>1, PairsFinite
  <2>2. clients \in [Threads -> 0 .. MaxClients]
    BY <1>1, RespecterAssumption
  <2>3. ref_count = Cardinality(Counted) + OwnCounted
    BY <1>1, <1>4, <1>5 DEF Init, OwnCounted
  <2> QED
    BY <2>1, <2>2, <2>3 DEF Init, RespecterTypeOK, OwnerAt, ThreadAt
<1>7. Unlocking = {}
  BY <1>2 DEF Unlocking
<1> QED
  BY <1>2, <1>6, <1>7
  DEF RespecterInv, Init, WithinBound, HoldersAreCounted, HeldIsNeverLate,
      CountedHoldMutex, OneUnlocks, Destroyed

\* The count is as large as its type says if it counts the clients.
LEMMA CountInType ==
  ASSUME ref_count' = Cardinality(Counted)' + OwnCounted'
  PROVE  ref_count' \in 0 .. 1 + Cardinality(Threads) * MaxClients
<1>1. Counted' \in SUBSET (Threads \X (1 .. MaxClients))
  BY DEF Counted
<1>2. /\ Cardinality(Counted') \in Nat
      /\ Cardinality(Counted') <= Cardinality(Threads) * MaxClients
      /\ Cardinality(Threads) * MaxClients \in Nat
  BY <1>1, PairsFinite
<1> QED
  BY <1>2 DEF OwnCounted

LEMMA RespecterTypeStep ==
  RespecterTypeOK /\ WithinBound /\ [Next]_respecterVars => RespecterTypeOK' /\ WithinBound'
<1> SUFFICES ASSUME RespecterTypeOK, WithinBound, [Next]_respecterVars
             PROVE  RespecterTypeOK' /\ WithinBound'
  OBVIOUS
<1> DEFINE Plain ==
      /\ destructing \in BOOLEAN
      /\ locked \in BOOLEAN
      /\ owner \in OwnerAt
      /\ at \in [Threads -> ThreadAt]
      /\ clients \in [Threads -> 0 .. MaxClients]
      /\ touched \in BOOLEAN
      /\ late \in BOOLEAN
      /\ unheld \in BOOLEAN
      /\ destructing <=> owner # "using"
<1>1. SUFFICES Plain' /\ WithinBound' /\ ref_count' = Cardinality(Counted)' + OwnCounted'
  BY CountInType DEF RespecterTypeOK
<1>2. Plain /\ ref_count = Cardinality(Counted) + OwnCounted /\ Cardinality(Counted) \in Nat
  BY CountedFinite DEF RespecterTypeOK
<1> USE RespecterAssumption DEF OwnerAt, ThreadAt
<1>3. ASSUME NEW t \in Threads, CheckDestructing(t) \/ UnlockMutex(t)
      PROVE  Plain' /\ WithinBound' /\ ref_count' = Cardinality(Counted)' + OwnCounted'
  <2>1. Plain' /\ UNCHANGED <<ref_count, OwnCounted, clients>>
    <3>1. /\ UNCHANGED <<ref_count, destructing, owner, clients, late>>
          /\ \E s \in {"count", "running"} : at' = [at EXCEPT ![t] = s]
          /\ locked' \in {locked, FALSE}
      BY <1>3 DEF CheckDestructing, UnlockMutex, Uses
    <3>2. touched' \in BOOLEAN
      BY <1>3 DEF CheckDestructing, UnlockMutex, Uses
    <3>3. unheld' \in BOOLEAN
      BY <1>2, <1>3 DEF CheckDestructing, UnlockMutex
    <3>4. OwnCounted' = OwnCounted
      BY <3>1 DEF OwnCounted
    <3> QED
      BY <1>2, <3>1, <3>2, <3>3, <3>4
  <2>2. \A u \in Threads : CountedOf(u)' = CountedOf(u)
    BY <1>2, <1>3 DEF CheckDestructing, UnlockMutex, Uses, CountedOf
  <2>3. WithinBound'
    BY <1>2, <1>3, <2>1 DEF CheckDestructing, UnlockMutex, Uses, WithinBound
  <2> QED
    BY <1>2, <2>1, <2>2, <2>3, CountedStays
<1>4. ASSUME NEW t \in Threads, Count(t)
      PROVE  Plain' /\ WithinBound' /\ ref_count' = Cardinality(Counted)' + OwnCounted'
  <2>1. clients[t] \in 0 .. MaxClients /\ clients[t] < MaxClients /\ at[t] = "count"
    BY <1>2, <1>4 DEF Count, WithinBound
  <2>2. \/ clients' = [clients EXCEPT ![t] = @ + 1] /\ at' = [at EXCEPT ![t] = "running"]
        \/ clients' = clients /\ at' = [at EXCEPT ![t] = "lock"]
    BY <1>4 DEF Count, Uses
  <2>3. UNCHANGED <<destructing, locked, owner, unheld>> /\ ref_count' = ref_count + 1
    BY <1>4 DEF Count
  <2>4. late' \in BOOLEAN /\ touched' \in BOOLEAN
    BY <1>4 DEF Count, Uses
  <2>5. Plain' /\ WithinBound'
    BY <1>2, <2>1, <2>2, <2>3, <2>4 DEF WithinBound
  <2>6. /\ CountedOf(t) < MaxClients /\ CountedOf(t)' = CountedOf(t) + 1
        /\ \A u \in Threads : u # t => CountedOf(u)' = CountedOf(u)
    BY <1>2, <2>1, <2>2 DEF CountedOf
  <2>7. Cardinality(Counted)' = Cardinality(Counted) + 1
    BY <2>6, CountedGrows
  <2>8. OwnCounted' = OwnCounted /\ OwnCounted \in Nat
    BY <2>3 DEF OwnCounted
  <2> QED
    BY <1>2, <2>3, <2>5, <2>7, <2>8
<1>5. ASSUME NEW t \in Threads, LockMutex(t)
      PROVE  Plain' /\ WithinBound' /\ ref_count' = Cardinality(Counted)' + OwnCounted'
  <2>1. clients[t] \in 0 .. MaxClients /\ clients[t] < MaxClients
    BY <1>2, <1>5 DEF LockMutex, WithinBound
  <2>2. Plain' /\ WithinBound' /\ UNCHANGED <<ref_count, OwnCounted>>
    BY <1>2, <1>5, <2>1 DEF LockMutex, Uses, WithinBound, OwnCounted
  <2>3. \A u \in Threads : CountedOf(u)' = CountedOf(u)
    BY <1>2, <1>5, <2>1 DEF LockMutex, Uses, CountedOf
  <2> QED
    BY <1>2, <2>2, <2>3, CountedStays
<1>6. ASSUME NEW t \in Threads, Discount(t)
      PROVE  Plain' /\ WithinBound' /\ ref_count' = Cardinality(Counted)' + OwnCounted'
  <2>1. clients[t] \in 1 .. MaxClients /\ at[t] = "running"
    BY <1>2, <1>6 DEF Discount
  <2>2. /\ clients' = [clients EXCEPT ![t] = @ - 1]
        /\ \E s \in {"unlock", "running"} : at' = [at EXCEPT ![t] = s]
    BY <1>6 DEF Discount, Uses
  <2>3. UNCHANGED <<destructing, locked, owner, unheld, late>> /\ ref_count' = ref_count - 1
    BY <1>6 DEF Discount
  <2>4. touched' \in BOOLEAN
    BY <1>6 DEF Discount, Uses
  <2>5. Plain' /\ WithinBound'
    BY <1>2, <2>1, <2>2, <2>3, <2>4 DEF WithinBound
  <2>6. /\ CountedOf(t) \in 1 .. MaxClients /\ CountedOf(t)' = CountedOf(t) - 1
        /\ \A u \in Threads : u # t => CountedOf(u)' = CountedOf(u)
    BY <1>2, <2>1, <2>2 DEF CountedOf
  <2>7. Cardinality(Counted)' = Cardinality(Counted) - 1
    BY <2>6, CountedShrinks
  <2>8. OwnCounted' = OwnCounted /\ OwnCounted \in Nat
    BY <2>3 DEF OwnCounted
  <2> QED
    BY <1>2, <2>3, <2>5, <2>7, <2>8
<1>7. CASE BeginDestruction \/ ReleaseClient \/ OwnerUnlocks \/ FinishDestruction
  <2>1. Plain' /\ UNCHANGED <<at, clients>>
    BY <1>2, <1>7
    DEF BeginDestruction, ReleaseClient, OwnerUnlocks, FinishDestruction, ThreadsUnchanged
  <2>2. WithinBound' /\ \A u \in Threads : CountedOf(u)' = CountedOf(u)
    BY <2>1 DEF WithinBound, CountedOf
  <2>3. ref_count' - OwnCounted' = ref_count - OwnCounted
    BY <1>2, <1>7
    DEF BeginDestruction, ReleaseClient, OwnerUnlocks, FinishDestruction, OwnCounted
  <2>4. Cardinality(Counted)' = Cardinality(Counted)
    BY <2>2, CountedStays
  <2>5. ref_count' \in Int /\ OwnCounted \in Int /\ OwnCounted' \in Int
    BY <1>2, <1>7
    DEF BeginDestruction, ReleaseClient, OwnerUnlocks, FinishDestruction, OwnCounted
  <2> QED
    BY <1>2, <2>1, <2>2, <2>3, <2>4, <2>5
<1>8. CASE UNCHANGED respecterVars
  <2>1. \A u \in Threads : CountedOf(u)' = CountedOf(u)
    BY <1>8 DEF respecterVars, CountedOf
  <2> QED
    BY <1>2, <1>8, <2>1, CountedStays DEF respecterVars, WithinBound, OwnCounted
<1> QED
  BY <1>3, <1>4, <1>5, <1>6, <1>7, <1>8 DEF Next, OwnerStep, ThreadStep
-----------------------------------------------------------------------------
(***************************************************************************)
(* The mutex.                                                              *)
(***************************************************************************)

\* A step of a thread.
LEMMA SafeThreadStep ==
  ASSUME RespecterInv, NEW t \in Threads, CheckDestructing(t) \/ ThreadStep(t)
  PROVE  /\ HoldersAreCounted'
         /\ HeldIsNeverLate'
         /\ touched' => late'
         /\ ~late' => CountedHoldMutex' /\ OneUnlocks'
<1> USE DEF RespecterInv
<1>1. /\ at \in [Threads -> ThreadAt] /\ clients \in [Threads -> 0 .. MaxClients]
      /\ ref_count \in Nat /\ owner \in OwnerAt
      /\ destructing <=> owner # "using"
      /\ ref_count = Cardinality(Counted) + OwnCounted /\ Cardinality(Counted) \in Nat
  BY CountedFinite DEF RespecterTypeOK, OwnCounted
<1>2. clients[t] > 0 => ref_count > 0
  BY <1>1, NoneCounted
<1>3. ~late /\ Destroyed => ref_count = 0
  BY <1>1 DEF CountedHoldMutex, Destroyed
<1>4. CASE CheckDestructing(t)
  <2>1. /\ UNCHANGED <<ref_count, locked, owner, late>> /\ owner = "using"
        /\ at' = [at EXCEPT ![t] = "count"] /\ clients' = clients
        /\ at[t] = "running"
        /\ ~unheld' => ~unheld /\ clients[t] # 0
    BY <1>1, <1>4 DEF CheckDestructing, Uses
  <2>2. Unlocking' = Unlocking
    BY <1>1, <2>1 DEF Unlocking
  <2>3. touched' => late'
    <3>1. touched' <=> (touched \/ Destroyed)
      BY <1>4 DEF CheckDestructing, Uses
    <3> QED
      BY <2>1, <3>1 DEF Destroyed
  <2>4. HoldersAreCounted' /\ HeldIsNeverLate'
    BY <1>1, <2>1 DEF HoldersAreCounted, HeldIsNeverLate
  <2>5. ~late' => CountedHoldMutex' /\ OneUnlocks'
    BY <1>1, <2>1, <2>2 DEF CountedHoldMutex, OneUnlocks, Destroyed
  <2> QED
    BY <2>3, <2>4, <2>5
<1>5. CASE Count(t)
  <2>1. /\ UNCHANGED <<locked, owner, unheld>> /\ ref_count' = ref_count + 1
        /\ at[t] = "count"
        /\ late' <=> (late \/ ref_count = 0)
        /\ touched' <=> (touched \/ Destroyed)
    BY <1>5 DEF Count, Uses
  <2>2. ref_count # 0 => at' = [at EXCEPT ![t] = "running"]
    BY <1>5 DEF Count, Uses
  <2>3. /\ \E s \in {"lock", "running"} : at' = [at EXCEPT ![t] = s]
        /\ \A u \in Threads : u # t => clients'[u] = clients[u]
    BY <1>1, <1>5 DEF Count, Uses
  <2>4. HoldersAreCounted' /\ HeldIsNeverLate'
    BY <1>1, <1>2, <2>1, <2>3 DEF HoldersAreCounted, HeldIsNeverLate
  <2>5. touched' => late'
    BY <1>3, <2>1
  <2>6. ~late' => CountedHoldMutex' /\ OneUnlocks'
    <3> SUFFICES ASSUME ~late' PROVE CountedHoldMutex' /\ OneUnlocks'
      OBVIOUS
    <3>1. ~late /\ ref_count > 0 /\ at' = [at EXCEPT ![t] = "running"]
      BY <1>1, <2>1, <2>2
    <3>2. Unlocking' = Unlocking
      BY <1>1, <2>1, <3>1 DEF Unlocking
    <3> QED
      BY <1>1, <2>1, <3>1, <3>2 DEF CountedHoldMutex, OneUnlocks, Destroyed
  <2> QED
    BY <2>4, <2>5, <2>6
<1>6. CASE LockMutex(t)
  <2>1. /\ late /\ late' = late /\ unheld' = unheld /\ at' = [at EXCEPT ![t] = "running"]
        /\ \A u \in Threads : u # t => clients'[u] = clients[u]
    BY <1>1, <1>6 DEF LockMutex, Uses, CountedHoldMutex
  <2> QED
    BY <1>1, <2>1 DEF HoldersAreCounted, HeldIsNeverLate
<1>7. CASE Discount(t)
  <2>1. /\ UNCHANGED <<locked, owner, late, unheld>> /\ ref_count' = ref_count - 1
        /\ at[t] = "running" /\ clients[t] > 0
        /\ at' = [at EXCEPT ![t] = IF ref_count = 1 THEN "unlock" ELSE "running"]
        /\ \A u \in Threads : u # t => clients'[u] = clients[u]
        /\ touched' <=> (touched \/ Destroyed)
    BY <1>1, <1>7 DEF Discount, Uses
  <2>2. ref_count > 0
    BY <1>2, <2>1
  <2>3. (touched' => late') /\ HoldersAreCounted' /\ HeldIsNeverLate'
    BY <1>1, <1>3, <2>1, <2>2 DEF HoldersAreCounted, HeldIsNeverLate
  <2>4. ~late' => CountedHoldMutex' /\ OneUnlocks'
    <3> SUFFICES ASSUME ~late PROVE CountedHoldMutex' /\ OneUnlocks'
      BY <2>1
    <3>1. /\ locked /\ Unlocking = {} /\ owner \in {"using", "release", "lock"}
          /\ \A u \in Threads : at'[u] # "lock"
      BY <1>1, <2>1, <2>2 DEF CountedHoldMutex
    <3>2. CASE ref_count = 1
      <4>1. Unlocking' = {t}
        BY <1>1, <2>1, <3>1, <3>2 DEF Unlocking
      <4> QED
        BY <2>1, <3>1, <3>2, <4>1 DEF CountedHoldMutex, OneUnlocks, Destroyed
    <3>3. CASE ref_count # 1
      <4>1. Unlocking' = {}
        BY <1>1, <2>1, <3>1, <3>3 DEF Unlocking
      <4> QED
        BY <2>1, <3>1, <4>1 DEF CountedHoldMutex, OneUnlocks, Destroyed
    <3> QED
      BY <3>2, <3>3
  <2> QED
    BY <2>3, <2>4
<1>8. CASE UnlockMutex(t)
  <2>1. /\ UNCHANGED <<ref_count, owner, clients, late, unheld>> /\ ~locked'
        /\ at[t] = "unlock" /\ at' = [at EXCEPT ![t] = "running"]
        /\ touched' <=> (touched \/ Destroyed)
    BY <1>8 DEF UnlockMutex, Uses
  <2>2. t \in Unlocking
    BY <2>1 DEF Unlocking
  <2>3. (touched' => late') /\ HoldersAreCounted' /\ HeldIsNeverLate'
    BY <1>1, <2>1, <2>2 DEF HoldersAreCounted, HeldIsNeverLate, OneUnlocks
  <2>4. ~late' => CountedHoldMutex' /\ OneUnlocks'
    <3> SUFFICES ASSUME ~late PROVE CountedHoldMutex' /\ OneUnlocks'
      BY <2>1
    <3>1. ref_count = 0
      BY <1>1, <2>2 DEF CountedHoldMutex
    <3>2. Unlocking' = {}
      BY <1>1, <2>1, <2>2 DEF OneUnlocks, Unlocking
    <3> QED
      BY <1>1, <2>1, <2>2, <3>1, <3>2 DEF CountedHoldMutex, OneUnlocks, Destroyed
  <2> QED
    BY <2>3, <2>4
<1> QED
  BY <1>4, <1>5, <1>6, <1>7, <1>8 DEF ThreadStep

\* A step of the destructor.
LEMMA SafeOwnerStep ==
  ASSUME RespecterInv, BeginDestruction \/ OwnerStep
  PROVE  /\ HoldersAreCounted'
         /\ HeldIsNeverLate'
         /\ touched' => late'
         /\ ~late' => CountedHoldMutex' /\ OneUnlocks'
<1> USE DEF RespecterInv
<1>1. /\ ref_count \in Nat /\ owner \in OwnerAt
      /\ ref_count = Cardinality(Counted) + OwnCounted /\ Cardinality(Counted) \in Nat
  BY CountedFinite DEF RespecterTypeOK, OwnCounted
<1>2. UNCHANGED <<at, clients, touched, late, unheld>>
  BY DEF BeginDestruction, OwnerStep, ReleaseClient, OwnerUnlocks, FinishDestruction,
         ThreadsUnchanged
<1>3. HoldersAreCounted' /\ HeldIsNeverLate' /\ (touched' => late')
  BY <1>2 DEF HoldersAreCounted, HeldIsNeverLate
<1> SUFFICES ASSUME ~late PROVE CountedHoldMutex' /\ OneUnlocks'
  BY <1>2, <1>3
<1>5. Unlocking' = Unlocking
  BY <1>2 DEF Unlocking
<1>6. CASE BeginDestruction
  BY <1>2, <1>5, <1>6 DEF BeginDestruction, CountedHoldMutex, OneUnlocks, Destroyed
<1>7. CASE ReleaseClient
  <2>1. ref_count > 0
    BY <1>1, <1>7 DEF ReleaseClient, OwnCounted
  <2> QED
    BY <1>1, <1>2, <1>5, <1>7, <2>1
    DEF ReleaseClient, CountedHoldMutex, OneUnlocks, Destroyed
<1>8. CASE OwnerUnlocks
  BY <1>1, <1>2, <1>5, <1>8 DEF OwnerUnlocks, CountedHoldMutex, OneUnlocks, Destroyed
<1>9. CASE FinishDestruction
  BY <1>1, <1>2, <1>5, <1>9 DEF FinishDestruction, CountedHoldMutex, OneUnlocks, Destroyed
<1> QED
  BY <1>6, <1>7, <1>8, <1>9 DEF OwnerStep

LEMMA RespecterInvStep == RespecterInv /\ [Next]_respecterVars => RespecterInv'
<1> SUFFICES ASSUME RespecterInv, [Next]_respecterVars PROVE RespecterInv'
  OBVIOUS
<1>1. RespecterTypeOK' /\ WithinBound'
  BY RespecterTypeStep DEF RespecterInv
<1>2. CASE UNCHANGED respecterVars
  BY <1>1, <1>2
  DEF respecterVars, RespecterInv, HoldersAreCounted, HeldIsNeverLate, CountedHoldMutex,
      OneUnlocks, Unlocking, Destroyed
<1>3. CASE Next
  BY <1>1, <1>3, SafeThreadStep, SafeOwnerStep DEF Next, RespecterInv
<1> QED
  BY <1>2, <1>3

\* The invariant holds in every state.
THEOREM RespecterInvariance == Spec => []RespecterInv
  BY RespecterInvInit, RespecterInvStep, PTL DEF Spec
-----------------------------------------------------------------------------
(***************************************************************************)
(* What the module promises.                                               *)
(***************************************************************************)

\* ref_count_ counts the clients there are.
THEOREM CountsClients == Spec => []RespecterTypeOK
<1>1. RespecterInv => RespecterTypeOK
  BY DEF RespecterInv
<1> QED
  BY <1>1, RespecterInvariance, PTL

\* The destructor waits for all clients, unless one came late.
THEOREM WaitsUnlessLate == Spec => []DestructorWaitsUnlessLate
<1>1. RespecterInv => DestructorWaitsUnlessLate
  <2> SUFFICES ASSUME RespecterInv, ~late, Destroyed PROVE NoClients /\ ~touched
    BY DEF DestructorWaitsUnlessLate, DestructorWaits
  <2>1. ref_count = 0
    BY DEF RespecterInv, RespecterTypeOK, CountedHoldMutex, Destroyed
  <2>2. NoClients
    BY <2>1, NoneCounted DEF RespecterInv, NoClients
  <2> QED
    BY <2>2 DEF RespecterInv
<1> QED
  BY <1>1, RespecterInvariance, PTL

\* None does when only threads with a client register more.
THEOREM HoldersAreInTime == Spec => []HeldIsNeverLate
<1>1. RespecterInv => HeldIsNeverLate
  BY DEF RespecterInv
<1> QED
  BY <1>1, RespecterInvariance, PTL
=============================================================================
