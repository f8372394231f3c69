-------------------------- MODULE SerializationProofs --------------------------
(***************************************************************************)
(* For any classes, derived from one another in any way, and any versions  *)
(* of the program: entries come back as what the dispatcher makes of them, *)
(* and unharmed if the lists of classes are in order.                      *)
(***************************************************************************)
EXTENDS Serialization, Integers, WellFoundedInduction, TLAPS

\* A set of numbers has a least one, and Min is it.
LEMMA MinIsLeast ==
  ASSUME NEW S, S \subseteq Nat, S # {}
  PROVE  Min(S) \in S /\ \A y \in S : Min(S) =< y
<1> DEFINE less == {p \in Nat \X Nat : p[1] < p[2]}
<1>1. less = OpToRel(<, Nat)
  BY Zenon DEF OpToRel
<1>2. IsWellFoundedOn(less, Nat)
  BY <1>1, NatLessThanWellFounded, Zenon
<1>3. PICK x \in S : \A y \in S : <<y, x>> \notin less
  <2> HIDE DEF less
  <2> QED
    BY <1>2, WFMin, Zenon
<1>4. \A y \in S : x =< y
  <2> TAKE y \in S
  <2>1. ~(y < x)
    BY <1>3, <<y, x>> \in Nat \X Nat
  <2> QED
    BY <2>1
<1> QED
  BY <1>4 DEF Min

\* What matches is a place of the list, with a class of it.
LEMMA MatchIsPlace ==
  ASSUME NEW c, NEW types \in Seq(Classes), NEW i \in Matches(c, types)
  PROVE  /\ i \in Nat /\ i \in 1 .. Len(types)
         /\ types[i] \in Classes /\ <<c, types[i]>> \in IsA
<1>1. i \in 1 .. Len(types) /\ <<c, types[i]>> \in IsA
  BY DEF Matches
<1> QED
  BY <1>1

\* The first class that matches is one of the list that matches, or there is none.
LEMMA FirstMatch ==
  ASSUME NEW c, NEW types \in Seq(Classes), Matches(c, types) # {}
  PROVE  /\ Min(Matches(c, types)) \in Matches(c, types)
         /\ \A i \in Matches(c, types) : Min(Matches(c, types)) =< i
<1>1. Matches(c, types) \subseteq Nat
  BY MatchIsPlace
<1> QED
  BY <1>1, MinIsLeast

LEMMA DispatchIsClass ==
  ASSUME NEW c \in Classes, NEW types \in Seq(Classes)
  PROVE  DispatchTo(c, types) \in Classes
<1>1. CASE Matches(c, types) = {}
  BY <1>1, SerializationAssumption DEF DispatchTo
<1>2. CASE Matches(c, types) # {}
  <2> DEFINE first == Min(Matches(c, types))
  <2>1. first \in Matches(c, types)
    BY <1>2, FirstMatch
  <2>2. types[first] \in Classes
    BY <2>1, MatchIsPlace
  <2> QED
    BY <1>2, <2>2 DEF DispatchTo
<1> QED
  BY <1>1, <1>2

\* A copy cut off to the class it was dispatched to is dispatched to it again.
LEMMA DispatchTwice ==
  ASSUME NEW c \in Classes, NEW types \in Seq(Classes)
  PROVE  DispatchTo(DispatchTo(c, types), types) = DispatchTo(c, types)
<1> DEFINE d == DispatchTo(c, types)
<1>1. d \in Classes
  BY DispatchIsClass
<1>2. <<c, d>> \in IsA
  <2>1. CASE Matches(c, types) = {}
    BY <2>1, SerializationAssumption DEF DispatchTo
  <2>2. CASE Matches(c, types) # {}
    BY <2>2, FirstMatch DEF DispatchTo, Matches
  <2> QED
    BY <2>1, <2>2
<1>3. Matches(d, types) \subseteq Matches(c, types)
  <2> SUFFICES ASSUME NEW i \in Matches(d, types) PROVE i \in Matches(c, types)
    OBVIOUS
  <2>1. types[i] \in Classes /\ <<d, types[i]>> \in IsA
    BY DEF Matches
  <2> QED
    BY <1>1, <1>2, <2>1, SerializationAssumption DEF Matches
<1>4. CASE Matches(c, types) = {}
  BY <1>3, <1>4 DEF DispatchTo
<1>5. CASE Matches(c, types) # {}
  <2> DEFINE first == Min(Matches(c, types))
  <2>1. first \in Matches(c, types) /\ d = types[first]
    BY <1>5, FirstMatch DEF DispatchTo
  <2>2. first \in Matches(d, types)
    BY <1>1, <2>1, SerializationAssumption DEF Matches
  <2>3. Min(Matches(d, types)) = first
    <3>1. first =< Min(Matches(d, types))
      BY <1>1, <1>3, <1>5, <2>2, FirstMatch
    <3>2. Min(Matches(d, types)) =< first
      BY <1>1, <2>2, FirstMatch
    <3>3. first \in Nat /\ Min(Matches(d, types)) \in Nat
      <4>1. Min(Matches(d, types)) \in Matches(d, types)
        BY <2>2, FirstMatch
      <4> QED
        BY <2>1, <4>1, MatchIsPlace
    <3> QED
      BY <3>1, <3>2, <3>3
  <2> QED
    BY <2>1, <2>2, <2>3 DEF DispatchTo
<1> QED
  BY <1>4, <1>5

\* An entry of a class that is listed, derived classes first, is not cut off.
LEMMA FaithfulIsExact ==
  ASSUME NEW c \in Classes, NEW p \in Programs, Faithful(c, p)
  PROVE  DispatchTo(c, p.types) = c
<1> DEFINE types == p.types
<1>1. types \in Seq(Classes)
  BY SerializationAssumption DEF Program
<1>2. CASE \E k \in DOMAIN types : types[k] = c
  <2>1. PICK k \in DOMAIN types : types[k] = c
    BY <1>2
  <2>2. k \in Matches(c, types)
    <3>1. k \in 1 .. Len(types)
      BY <1>1, <2>1
    <3>2. <<c, types[k]>> \in IsA
      BY <2>1, SerializationAssumption
    <3> QED
      BY <3>1, <3>2 DEF Matches
  <2>3. \A j \in Matches(c, types) : ~(j < k)
    BY <1>1, <2>1 DEF Faithful, Matches
  <2>4. Min(Matches(c, types)) = k
    <3>1. Min(Matches(c, types)) \in Matches(c, types) /\ Min(Matches(c, types)) =< k
      BY <1>1, <2>2, FirstMatch
    <3>2. k \in Nat /\ Min(Matches(c, types)) \in Nat
      BY <1>1, <2>2, <3>1, MatchIsPlace
    <3>3. ~(Min(Matches(c, types)) < k)
      BY <2>3, <3>1
    <3> QED
      BY <3>1, <3>2, <3>3
  <2> QED
    BY <2>1, <2>2, <2>4 DEF DispatchTo
<1>3. CASE c = Base /\ ~\E k \in DOMAIN types : types[k] = c
  <2>1. Matches(c, types) = {}
    <3> SUFFICES ASSUME NEW j \in Matches(c, types) PROVE FALSE
      OBVIOUS
    <3>1. j \in DOMAIN types /\ types[j] \in Classes /\ <<Base, types[j]>> \in IsA
      BY <1>1, <1>3 DEF Matches
    <3>2. types[j] = Base
      BY <3>1, SerializationAssumption
    <3> QED
      BY <1>3, <3>1, <3>2
  <2> QED
    BY <1>3, <2>1 DEF DispatchTo
<1> QED
  BY <1>2, <1>3 DEF Faithful
-----------------------------------------------------------------------------
LEMMA SerInvInit == SerInit => SerInv
  BY SerializationAssumption DEF SerInit, SerInv, SerTypeOK, History

LEMMA SerInvStep == SerInv /\ [SerNext]_serVars => SerInv'
<1> SUFFICES ASSUME SerInv, [SerNext]_serVars PROVE SerInv'
  OBVIOUS
<1> USE SerializationAssumption DEF SerInv, SerTypeOK, History
<1>1. program.types \in Seq(Classes)
  BY DEF Program
<1>2. ASSUME NEW c \in Classes, Push(c) PROVE SerInv'
  <2> DEFINE s == SerializedAs(c)
             e == [class |-> c, by |-> program]
  <2>1. s = DispatchTo(c, program.types) /\ s \in Classes
    BY <1>1, DispatchIsClass DEF SerializedAs
  <2>2. s = Base \/ s \in program.registered
    BY <1>2 DEF Push, Known
  <2>3. e \in [class : Classes, by : Programs]
    OBVIOUS
  <2>4. stored' = Append(stored, s) /\ pushed' = Append(pushed, e)
    BY <1>2 DEF Push
  <2>5. UNCHANGED <<program, seen>> /\ Len(stored) < MaxEntries
    BY <1>2 DEF Push
  <2> HIDE DEF s
  <2>6. stored' \in Seq(Classes) /\ pushed' \in Seq([class : Classes, by : Programs])
    BY <2>1, <2>3, <2>4
  <2>7. /\ Len(stored') = Len(stored) + 1
        /\ Len(pushed') = Len(stored) + 1
        /\ stored'[Len(stored) + 1] = s
        /\ pushed'[Len(stored) + 1] = e
        /\ \A i \in DOMAIN stored : stored'[i] = stored[i] /\ pushed'[i] = pushed[i]
        /\ DOMAIN stored' = DOMAIN stored \union {Len(stored) + 1}
    BY <2>1, <2>3, <2>4
  <2>8. SerTypeOK'
    BY <2>1, <2>2, <2>3, <2>5, <2>7
  <2>9. History'
    BY <2>1, <2>2, <2>5, <2>7
  <2> QED
    BY <2>6, <2>8, <2>9
<1>3. ASSUME NEW i \in DOMAIN stored, Process(i) PROVE SerInv'
  <2>1. /\ DOMAIN seen' = DOMAIN seen \union {i}
        /\ seen'[i] = DispatchTo(stored[i], program.types)
        /\ \A j \in DOMAIN seen : j # i => seen'[j] = seen[j]
    BY <1>3 DEF Process
  <2> QED
    BY <1>3, <2>1 DEF Process
<1>4. ASSUME NEW p \in Programs, Upgrade(p) PROVE SerInv'
  BY <1>4 DEF Upgrade
<1>5. CASE UNCHANGED serVars
  BY <1>5 DEF serVars
<1> QED
  BY <1>2, <1>3, <1>4, <1>5 DEF SerNext

\* The invariant holds in every state.
THEOREM SerializationInvariance == SerSpec => []SerInv
  BY SerInvInit, SerInvStep, PTL DEF SerSpec
-----------------------------------------------------------------------------
\* What is stored stays readable.
THEOREM StaysReadable == SerSpec => []SerTypeOK
<1>1. SerInv => SerTypeOK
  BY DEF SerInv
<1> QED
  BY <1>1, SerializationInvariance, PTL

\* The processor is called with the class the entry was dispatched to.
THEOREM SeenAsDispatched == SerSpec => []ReadAsDispatched
<1>1. SerInv => ReadAsDispatched
  <2> SUFFICES ASSUME SerInv, NEW i \in DOMAIN seen, pushed[i].by = program
               PROVE  seen[i] = DispatchTo(pushed[i].class, program.types)
    BY DEF ReadAsDispatched
  <2> USE DEF SerInv, SerTypeOK, History
  <2>1. i \in DOMAIN stored /\ pushed[i].class \in Classes
    OBVIOUS
  <2>2. program.types \in Seq(Classes)
    BY SerializationAssumption DEF Program
  <2> QED
    BY <2>1, <2>2, DispatchTwice
<1> QED
  BY <1>1, SerializationInvariance, PTL

\* Versions that list the class of an entry in order cut nothing off it.
THEOREM Uncut == SerSpec => []NothingCutOff
<1>1. SerInv => NothingCutOff
  <2> SUFFICES ASSUME SerInv, NEW i \in DOMAIN seen,
                      Faithful(pushed[i].class, pushed[i].by),
                      Faithful(pushed[i].class, program)
               PROVE  seen[i] = pushed[i].class
    BY DEF NothingCutOff
  <2> USE DEF SerInv, SerTypeOK, History
  <2>1. i \in DOMAIN stored /\ pushed[i] \in [class : Classes, by : Programs]
    OBVIOUS
  <2> QED
    BY <2>1, FaithfulIsExact
<1> QED
  BY <1>1, SerializationInvariance, PTL
=============================================================================
