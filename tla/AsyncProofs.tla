----------------------------- MODULE AsyncProofs -----------------------------
(***************************************************************************)
(* Threads that process a stream are safe for any number of listeners and  *)
(* entries, any width of the keys, as long as the secondary key does not   *)
(* wrap.                                                                   *)
(***************************************************************************)
EXTENDS AsyncListener, ListenerProofs

LEMMA ZeroIsFirst == ZeroKey \in Key /\ \A k \in Key : ZeroKey \preceq k
  BY OrderKeyAssumption DEF ZeroKey, Key, Primary, Secondary, \preceq, \prec
-----------------------------------------------------------------------------
(***************************************************************************)
(* The listeners behave in threads as without them.                        *)
(***************************************************************************)

\* A step of a thread or an owner is one of the publisher and the listeners, or
\* leaves them alone.
LEMMA ANextImpliesLNext == [ANext]_asyncVars => [LNext]_vars
<1> SUFFICES ASSUME ANext PROVE LNext \/ UNCHANGED vars
  BY DEF asyncVars
<1>1. CASE Publish
  BY <1>1 DEF Publish, LNext
<1>2. CASE ProcessEnds
  BY <1>2 DEF ProcessEnds, LNext, Killed
<1>3. ASSUME NEW l \in Listeners, Owner(l) PROVE UNCHANGED vars
  BY <1>3 DEF Owner, New, BeginWait, EndWait, Delete, Join
<1>4. ASSUME NEW l \in Listeners, Worker(l) PROVE LNext \/ UNCHANGED vars
  <2>1. CASE StartThread(l)
    BY <2>1, AllEntriesAssumption DEF StartThread, LNext
  <2>2. CASE OuterLoop(l)
    BY <2>2 DEF OuterLoop, LNext
  <2>3. CASE InnerLoop(l) \/ Callback(l) \/ Cycle(l)
    BY <2>3 DEF InnerLoop, Callback, Cycle, Continue
  <2>4. CASE CallReachedEnd(l) \/ CallHasData(l)
    BY <2>4 DEF CallReachedEnd, CallHasData, LNext
  <2>5. CASE CallProcessEntrySync(l) \/ CallAdvanceToNextEntry(l)
    BY <2>5 DEF CallProcessEntrySync, CallAdvanceToNextEntry, LNext
  <2> QED
    BY <1>4, <2>1, <2>2, <2>3, <2>4, <2>5 DEF Worker
<1> QED
  BY <1>1, <1>2, <1>3, <1>4 DEF ANext

\* The invariants of the publisher and of the listeners hold beside the threads.
LEMMA ListenersInThreads == ASSUME NoWrap PROVE ASpec => [](IInv /\ LInv)
<1>1. AInit => IInv /\ LInv
  BY InvInit, LInvInit DEF AInit, LInit
<1>2. IInv /\ [ANext]_asyncVars => IInv'
  BY ANextImpliesLNext, LNextImpliesNext, InvStep
<1>3. IInv /\ IInv' /\ LInv /\ [ANext]_asyncVars => LInv'
  BY ANextImpliesLNext, LInvStep
<1> QED
  BY <1>1, <1>2, <1>3, PTL DEF ASpec

\* While the process runs the stream only grows.
LEMMA PublishGrows ==
  ASSUME IInv, Publish \/ ProcessEnds
  PROVE  stored.data \subseteq stored'.data
<1>1. ASSUME NEW op \in {"Push", "PushHead"}, NEW p \in Primary, Lock(op, p)
      PROVE  stored' = stored
  BY <1>1 DEF Lock
<1>2. CASE MoveHead \/ SetEntry
  BY <1>2 DEF MoveHead, SetAllowingOverwrite, SetEntry, Set, IInv, TypeOK, Storage
<1>3. CASE Start \/ RejectBackwards \/ MoveHeadFails \/ SetEntryFails \/ Crash
  BY <1>3 DEF Start, RejectBackwards, MoveHeadFails, SetEntryFails, Crash
<1> QED
  BY <1>1, <1>2, <1>3 DEF Publish, PushStep, ProcessEnds

\* The step of one listener's thread, or its owner's, is not one of another.
LEMMA OthersUntouched ==
  ASSUME ATypeOK, LInv, NEW m \in Listeners, Owner(m) \/ Worker(m),
         NEW l \in Listeners, l # m
  PROVE  /\ stored' = stored
         /\ lis'[l] = lis[l] /\ begin'[l] = begin[l] /\ consumed'[l] = consumed[l]
         /\ at'[l] = at[l] /\ terminating'[l] = terminating[l] /\ owner'[l] = owner[l]
         /\ cycled'[l] = cycled[l] /\ beyondInt'[l] = beyondInt[l]
         /\ waits'[l] = waits[l] /\ due'[l] = due[l] /\ processed'[l] = processed[l]
<1> USE DEF ATypeOK, LInv, LTypeOK, vars, pubVars, lisVars, threadVars, historyVars
<1>1. CASE Owner(m)
  BY <1>1 DEF Owner, New, BeginWait, EndWait, Delete, Join, Goto
<1>2. CASE StartThread(m) \/ OuterLoop(m)
  BY <1>2 DEF StartThread, Construct, OuterLoop, Destroy, Goto
<1>3. CASE InnerLoop(m) \/ Callback(m) \/ Cycle(m)
  BY <1>3 DEF InnerLoop, Callback, Cycle, Continue, Goto
<1>4. CASE CallReachedEnd(m) \/ CallHasData(m)
  BY <1>4 DEF CallReachedEnd, CallHasData, Look, Goto
<1>5. CASE CallProcessEntrySync(m) \/ CallAdvanceToNextEntry(m)
  BY <1>5
  DEF CallProcessEntrySync, CallAdvanceToNextEntry, ProcessEntrySync, AdvanceToNextEntry,
      Goto
<1> QED
  BY <1>1, <1>2, <1>3, <1>4, <1>5 DEF Worker
-----------------------------------------------------------------------------
(***************************************************************************)
(* A listener without an end.                                              *)
(***************************************************************************)

\* It has data if there is an entry left to show, and its end is never reached.
LEMMA UnboundedHasData ==
  ASSUME LInv, NEW l \in Alive, ~lis[l].hasEnd
  PROVE  /\ ~lis[l].reachedEnd
         /\ HasData(lis[l]) <=> Remaining(lis[l]) # {}
         /\ Looked(lis[l]).alive
         /\ ~Looked(lis[l]).hasEnd
         /\ ~Looked(lis[l]).reachedEnd
         /\ Looked(lis[l]).open = HasData(lis[l])
         /\ Looked(lis[l]).open => Looked(lis[l]).rest = Remaining(lis[l])
<1>1. lis[l] \in Member /\ lis[l].alive
  BY DEF LInv, LTypeOK, Alive
<1>2. ~lis[l].reachedEnd
  BY DEF LInv, ReachedEndIsFinal, EndIsFinal
<1>3. ~PastEnd(lis[l])
  BY DEF PastEnd
<1>4. HasData(lis[l]) <=> Remaining(lis[l]) # {}
  BY <1>2, <1>3 DEF HasData
<1> QED
  BY <1>1, <1>2, <1>3, <1>4 DEF Looked, Member

\* What is ahead of a listener that began at the beginning is all it has not consumed.
LEMMA AheadOfAll ==
  ASSUME IInv, NEW l \in Listeners, begin[l] = ZeroKey
  PROVE  Ahead(l) = stored.data \ consumed[l]
  BY ZeroIsFirst DEF Ahead, IInv, TypeOK, Storage
-----------------------------------------------------------------------------
(***************************************************************************)
(* The types.                                                              *)
(***************************************************************************)
LEMMA AInvInit == AInit => AInv
<1> SUFFICES ASSUME AInit PROVE AInv
  OBVIOUS
<1>1. \A l \in Listeners : ~lis[l].alive
  BY DEF AInit, LInit, NotConstructed, Constructed
<1>2. ATypeOK
  BY <1>1 DEF AInit, ATypeOK, WorkerAt, OwnerAt
<1>3. ASSUME NEW l \in Listeners PROVE Sound(l)
  BY <1>1
  DEF AInit, Sound, ShowsAtStatement, ProcessedIsConsumed, DueWasStored, SecondCycleLooked,
      Running
<1> QED
  BY <1>2, <1>3 DEF AInv

LEMMA ATypeStep == IInv /\ LInv /\ ATypeOK /\ [ANext]_asyncVars => ATypeOK'
<1> SUFFICES ASSUME IInv, LInv, ATypeOK, ANext PROVE ATypeOK'
  BY DEF asyncVars, vars, lisVars, threadVars, historyVars, ATypeOK
<1> USE DEF ATypeOK, WorkerAt, OwnerAt, vars, lisVars, threadVars, historyVars
<1>1. lis \in [Listeners -> Member] /\ stored.data \subseteq Key
  BY DEF LInv, LTypeOK, IInv, TypeOK, Storage
<1>2. CASE Publish
  BY <1>2 DEF Publish
<1>3. CASE ProcessEnds
  BY <1>3 DEF ProcessEnds, NotConstructed, Constructed
<1>4. ASSUME NEW l \in Listeners, Owner(l) PROVE ATypeOK'
  <2>1. CASE New(l)
    BY <2>1 DEF New, Goto
  <2>2. CASE BeginWait(l)
    <3>1. /\ UNCHANGED <<lis, at, terminating, beyondInt, processed>>
          /\ owner' = [owner EXCEPT ![l] = "waiting"]
          /\ cycled' = [cycled EXCEPT ![l] = beyondInt[l]]
      BY <2>2 DEF BeginWait, SafeCyclesDiffers
    <3>2. waits' \in [Listeners -> 0 .. 2]
      BY <2>2 DEF BeginWait
    <3>3. due' \in [Listeners -> SUBSET Key]
      BY <1>1, <2>2 DEF BeginWait
    <3> QED
      BY <2>2, <3>1, <3>2, <3>3 DEF BeginWait
  <2>3. CASE EndWait(l) \/ Delete(l) \/ Join(l)
    BY <2>3 DEF EndWait, Delete, Join, Goto
  <2> QED
    BY <1>4, <2>1, <2>2, <2>3 DEF Owner
<1>5. ASSUME NEW l \in Listeners, Worker(l) PROVE ATypeOK'
  <2>1. CASE StartThread(l)
    BY <1>1, <2>1 DEF StartThread, Construct, Constructed, Goto
  <2>2. CASE OuterLoop(l)
    BY <1>1, <2>2 DEF OuterLoop, Destroy, NotConstructed, Constructed, Goto
  <2>3. CASE InnerLoop(l)
    BY <2>3 DEF InnerLoop, Continue, Goto
  <2>4. CASE CallReachedEnd(l) \/ CallHasData(l)
    <3>1. lis'[l].alive = lis[l].alive /\ \A m \in Listeners : m # l => lis'[m] = lis[m]
      BY <1>1, <2>4, LookedIsMember DEF CallReachedEnd, CallHasData, Look, LInv
    <3>2. PICK s \in {"cycle", "hasData", "process"} : at' = [at EXCEPT ![l] = s]
      BY <2>4 DEF CallReachedEnd, CallHasData, Goto
    <3>3. at[l] \in {"reachedEnd", "hasData"}
          /\ UNCHANGED <<terminating, owner, cycled, beyondInt, historyVars>>
      BY <2>4 DEF CallReachedEnd, CallHasData
    <3> QED
      BY <3>1, <3>2, <3>3
  <2>5. CASE CallProcessEntrySync(l)
    <3>1. lis'[l].alive = lis[l].alive /\ \A m \in Listeners : m # l => lis'[m] = lis[m]
      BY <1>1, <2>5 DEF CallProcessEntrySync, ProcessEntrySync, Looked, Member
    <3> QED
      BY <2>5, <3>1 DEF CallProcessEntrySync, Goto
  <2>6. CASE Callback(l)
    BY <1>1, <2>6 DEF Callback, Goto, Member
  <2>7. CASE CallAdvanceToNextEntry(l)
    <3>1. lis'[l].alive = lis[l].alive /\ \A m \in Listeners : m # l => lis'[m] = lis[m]
      BY <1>1, <2>7
      DEF CallAdvanceToNextEntry, AdvanceToNextEntry, Advanced, Looked, Member
    <3> QED
      BY <2>7, <3>1 DEF CallAdvanceToNextEntry, Goto
  <2>8. CASE Cycle(l)
    BY <2>8 DEF Cycle, Goto
  <2> QED
    BY <1>5, <2>1, <2>2, <2>3, <2>4, <2>5, <2>6, <2>7, <2>8 DEF Worker
<1> QED
  BY <1>2, <1>3, <1>4, <1>5 DEF ANext
-----------------------------------------------------------------------------
(***************************************************************************)
(* What a worker knows at each statement, the listener's own steps first.  *)
(***************************************************************************)

\* The steps of the owner.
LEMMA SoundAfterOwner ==
  ASSUME IInv, LInv, AInv, NEW l \in Listeners, Owner(l)
  PROVE  Sound(l)'
<1> USE DEF vars, lisVars, pubVars, historyVars
<1>1. ATypeOK /\ Sound(l)
  BY DEF AInv
<1>2. UNCHANGED <<stored, lis, begin, consumed>>
  BY DEF Owner, New, BeginWait, EndWait, Delete, Join
<1>3. CASE New(l)
  <2>1. /\ at'[l] = "start" /\ waits'[l] = 0 /\ processed'[l] = {}
        /\ due'[l] = {} /\ ~terminating'[l] /\ ~lis[l].alive
    BY <1>1, <1>3 DEF New, Goto, ATypeOK
  <2> QED
    BY <1>2, <2>1
    DEF Sound, ShowsAtStatement, ProcessedIsConsumed, DueWasStored, SecondCycleLooked
<1>4. CASE BeginWait(l)
  <2>1. /\ at' = at /\ processed' = processed /\ terminating' = terminating
        /\ beyondInt' = beyondInt /\ owner[l] = "idle"
        /\ owner'[l] = "waiting" /\ cycled'[l] = beyondInt[l]
    BY <1>1, <1>4 DEF BeginWait, SafeCyclesDiffers, ATypeOK
  <2>2. \/ waits'[l] = 1 /\ due'[l] = stored.data
        \/ waits[l] = 1 /\ waits'[l] = 2 /\ due'[l] = due[l]
    BY <1>1, <1>4 DEF BeginWait, ATypeOK
  <2>3. ShowsAtStatement(l)' /\ ProcessedIsConsumed(l)'
    BY <1>1, <1>2, <2>1 DEF Sound, ShowsAtStatement, ProcessedIsConsumed
  <2>4. DueWasStored(l)'
    BY <1>1, <1>2, <2>1, <2>2 DEF Sound, DueWasStored, Running
  <2>5. SecondCycleLooked(l)'
    BY <1>1, <2>1, <2>2 DEF Sound, SecondCycleLooked, CycledSince, Running
  <2> QED
    BY <2>3, <2>4, <2>5 DEF Sound
<1>5. CASE EndWait(l)
  <2>1. /\ UNCHANGED <<at, terminating, cycled, beyondInt, waits, due, processed>>
        /\ owner[l] = "waiting" /\ cycled[l] /\ owner'[l] = "idle"
    BY <1>1, <1>5 DEF EndWait, ATypeOK
  <2> QED
    BY <1>1, <1>2, <2>1
    DEF Sound, ShowsAtStatement, ProcessedIsConsumed, DueWasStored, SecondCycleLooked,
        CycledSince, Running
<1>6. CASE Delete(l) \/ Join(l)
  <2>1. /\ processed' = processed
        /\ at'[l] = at[l] \/ (at'[l] = "noThread" /\ ~lis[l].alive)
        /\ owner'[l] \in {"joining", "noListener"}
    BY <1>1, <1>6 DEF Delete, Join, Goto, ATypeOK
  <2> QED
    BY <1>1, <1>2, <2>1
    DEF Sound, ShowsAtStatement, ProcessedIsConsumed, DueWasStored, SecondCycleLooked,
        Running
<1> QED
  BY <1>3, <1>4, <1>5, <1>6 DEF Owner

\* The loops, which leave the listener alone but for its beginning and end.
LEMMA SoundAfterLoop ==
  ASSUME IInv, LInv, AInv, NEW l \in Listeners,
         StartThread(l) \/ OuterLoop(l) \/ InnerLoop(l) \/ Cycle(l)
  PROVE  Sound(l)'
<1> USE DEF vars, lisVars, pubVars, historyVars
<1>1. ATypeOK /\ Sound(l) /\ lis \in [Listeners -> Member]
  BY DEF AInv, LInv, LTypeOK
<1>2. UNCHANGED <<stored, terminating, owner, waits, due, processed>>
  BY DEF StartThread, Construct, OuterLoop, Destroy, InnerLoop, Cycle, Continue
<1>3. DueWasStored(l)'
  BY <1>1, <1>2 DEF Sound, DueWasStored, Running
<1>4. CASE StartThread(l)
  <2>1. /\ at'[l] = "outerLoop" /\ lis'[l] = Constructed(AllEntries)
        /\ begin'[l] = ZeroKey /\ consumed'[l] = {} /\ at[l] = "start"
        /\ cycled' = cycled /\ beyondInt' = beyondInt
    BY <1>1, <1>4
    DEF StartThread, Construct, Goto, AllEntries, ATypeOK, LInv, LTypeOK
  <2>2. ShowsAtStatement(l)'
    BY <2>1 DEF ShowsAtStatement, Constructed, AllEntries
  <2>3. ProcessedIsConsumed(l)'
    BY <1>1, <1>2, <2>1 DEF Sound, ProcessedIsConsumed
  <2>4. SecondCycleLooked(l)'
    BY <1>1, <1>2, <2>1 DEF Sound, SecondCycleLooked, CycledSince, Running
  <2> QED
    BY <1>3, <2>2, <2>3, <2>4 DEF Sound
<1>5. CASE OuterLoop(l)
  <2>1. /\ cycled' = cycled /\ beyondInt' = beyondInt
        /\ at[l] = "outerLoop" /\ at'[l] \in {"innerLoop", "exited"}
        /\ begin' = begin /\ consumed' = consumed
        /\ lis'[l] = lis[l] \/ ~lis'[l].alive
    BY <1>1, <1>5
    DEF OuterLoop, Destroy, NotConstructed, Constructed, Goto, ATypeOK
  <2>2. ShowsAtStatement(l)' /\ ProcessedIsConsumed(l)'
    BY <1>1, <1>2, <2>1 DEF Sound, ShowsAtStatement, ProcessedIsConsumed
  <2>3. SecondCycleLooked(l)'
    BY <1>1, <1>2, <2>1 DEF Sound, SecondCycleLooked, CycledSince, Running
  <2> QED
    BY <1>3, <2>2, <2>3 DEF Sound
<1>6. CASE InnerLoop(l)
  <2>1. /\ UNCHANGED <<lis, begin, consumed, cycled, beyondInt>>
        /\ at[l] = "innerLoop" /\ at'[l] \in {"cycle", "reachedEnd"}
        /\ at'[l] = "cycle" => terminating[l]
    BY <1>1, <1>6 DEF InnerLoop, Continue, Goto, ATypeOK
  <2>2. ShowsAtStatement(l)' /\ ProcessedIsConsumed(l)'
    BY <1>1, <1>2, <2>1 DEF Sound, ShowsAtStatement, ProcessedIsConsumed
  <2>3. SecondCycleLooked(l)'
    BY <1>1, <1>2, <2>1 DEF Sound, SecondCycleLooked, DueWasStored, CycledSince, Running
  <2> QED
    BY <1>3, <2>2, <2>3 DEF Sound
<1>7. CASE Cycle(l)
  <2>1. /\ UNCHANGED <<lis, begin, consumed>>
        /\ at[l] = "cycle" /\ at'[l] = "outerLoop" /\ cycled'[l]
        /\ ~beyondInt'[l] => ~beyondInt[l]
    BY <1>1, <1>7 DEF Cycle, Goto, ATypeOK
  <2>2. ShowsAtStatement(l)' /\ ProcessedIsConsumed(l)'
    BY <1>1, <1>2, <2>1 DEF Sound, ShowsAtStatement, ProcessedIsConsumed
  <2>3. SecondCycleLooked(l)'
    BY <1>1, <1>2, <2>1 DEF Sound, SecondCycleLooked, CycledSince, Running
  <2> QED
    BY <1>3, <2>2, <2>3 DEF Sound
<1> QED
  BY <1>4, <1>5, <1>6, <1>7

\* The calls before the body of the loop.
LEMMA SoundAfterLook ==
  ASSUME IInv, LInv, AInv, NEW l \in Listeners, CallReachedEnd(l) \/ CallHasData(l)
  PROVE  Sound(l)'
<1> USE DEF vars, lisVars, pubVars, historyVars
<1>1. ATypeOK /\ Sound(l) /\ l \in Alive
  BY DEF AInv, CallReachedEnd, CallHasData, Look, CanCall, Alive
<1>2. /\ UNCHANGED <<stored, begin, consumed, terminating, owner, cycled, beyondInt,
                     waits, due, processed>>
      /\ lis'[l] = Looked(lis[l])
  BY DEF CallReachedEnd, CallHasData, Look, LInv, LTypeOK
<1>3. begin[l] = ZeroKey /\ ~lis[l].hasEnd
  BY <1>1 DEF Sound, ShowsAtStatement, Alive
<1>4. /\ HasData(lis[l]) <=> Remaining(lis[l]) # {}
      /\ lis'[l].alive /\ ~lis'[l].hasEnd /\ ~lis'[l].reachedEnd
      /\ lis'[l].open = HasData(lis[l])
      /\ lis'[l].open => lis'[l].rest = Remaining(lis[l])
  BY <1>1, <1>2, <1>3, UnboundedHasData
<1>5. DueWasStored(l)'
  BY <1>1, <1>2 DEF Sound, DueWasStored, Running
<1>6. CASE CallReachedEnd(l)
  <2>1. at[l] = "reachedEnd" /\ at'[l] = "hasData"
    BY <1>1, <1>4, <1>6 DEF CallReachedEnd, Goto, ATypeOK
  <2>2. ShowsAtStatement(l)'
    BY <1>2, <1>3, <1>4, <2>1 DEF ShowsAtStatement
  <2>3. ProcessedIsConsumed(l)' /\ SecondCycleLooked(l)'
    BY <1>1, <1>2, <2>1
    DEF Sound, ProcessedIsConsumed, SecondCycleLooked, CycledSince, Running, Alive
  <2> QED
    BY <1>5, <2>2, <2>3 DEF Sound
<1>7. CASE CallHasData(l)
  <2>1. at[l] = "hasData" /\ at'[l] = IF HasData(lis[l]) THEN "process" ELSE "cycle"
    BY <1>1, <1>7 DEF CallHasData, Goto, ATypeOK
  <2>2. ShowsAtStatement(l)'
    BY <1>2, <1>3, <1>4, <2>1 DEF ShowsAtStatement
  <2>3. processed[l] = consumed[l] /\ ProcessedIsConsumed(l)'
    BY <1>1, <1>2, <2>1 DEF Sound, ProcessedIsConsumed, Alive
  <2>4. ASSUME ~HasData(lis[l]) PROVE stored.data \subseteq processed[l]
    <3>1. ~lis[l].open
      BY <1>1, <1>4, <2>1, <2>4 DEF Sound, ShowsAtStatement, Remaining
    <3>2. Ahead(l) = {}
      BY <1>1, <1>4, <2>4, <3>1, NewIteratorShowsAll
    <3> QED
      BY <1>1, <1>3, <2>3, <3>2, AheadOfAll DEF Alive
  <2>5. SecondCycleLooked(l)'
    BY <1>1, <1>2, <2>1, <2>4
    DEF Sound, DueWasStored, SecondCycleLooked, CycledSince, Running
  <2> QED
    BY <1>5, <2>2, <2>3, <2>5 DEF Sound
<1> QED
  BY <1>6, <1>7

\* The body of the loop.
LEMMA SoundAfterBody ==
  ASSUME IInv, LInv, AInv, NEW l \in Listeners,
         CallProcessEntrySync(l) \/ Callback(l) \/ CallAdvanceToNextEntry(l)
  PROVE  Sound(l)'
<1> USE DEF vars, lisVars, pubVars, historyVars
<1>1. ATypeOK /\ Sound(l) /\ l \in Alive
  BY DEF AInv, ATypeOK, CallProcessEntrySync, Callback, CallAdvanceToNextEntry, Alive
<1>2. UNCHANGED <<stored, begin, terminating, owner, cycled, beyondInt, waits, due>>
  BY DEF CallProcessEntrySync, ProcessEntrySync, Callback, CallAdvanceToNextEntry,
     AdvanceToNextEntry
<1>3. /\ begin[l] = ZeroKey /\ ~lis[l].hasEnd /\ lis[l] \in Member
      /\ lis[l].open /\ lis[l].rest # {} /\ Remaining(lis[l]) = lis[l].rest
  BY <1>1
  DEF Sound, ShowsAtStatement, Alive, CallProcessEntrySync, Callback,
      CallAdvanceToNextEntry, Remaining, LInv, LTypeOK
<1>4. DueWasStored(l)'
  BY <1>1, <1>2 DEF Sound, DueWasStored, Running
<1>5. /\ Looked(lis[l]).alive /\ ~Looked(lis[l]).hasEnd
      /\ Looked(lis[l]).open /\ Looked(lis[l]).rest = lis[l].rest
  BY <1>1, <1>3, UnboundedHasData
<1>6. CASE CallProcessEntrySync(l)
  <2>1. PICK k : IsFirst(k, lis[l].rest) /\ lis'[l] = [Looked(lis[l]) EXCEPT !.entry = k]
    BY <1>3, <1>6 DEF CallProcessEntrySync, ProcessEntrySync, LInv, LTypeOK
  <2>2. /\ lis'[l].alive /\ ~lis'[l].hasEnd /\ lis'[l].open
        /\ lis'[l].rest = lis[l].rest /\ lis'[l].entry = k
    BY <1>3, <1>5, <2>1 DEF Looked, Member
  <2>3. /\ at[l] = "process" /\ at'[l] = "callback"
        /\ consumed' = consumed /\ processed' = processed
    BY <1>1, <1>6 DEF CallProcessEntrySync, ProcessEntrySync, Goto, ATypeOK
  <2>4. ShowsAtStatement(l)'
    BY <1>2, <1>3, <2>1, <2>2, <2>3 DEF ShowsAtStatement
  <2>5. ProcessedIsConsumed(l)' /\ SecondCycleLooked(l)'
    BY <1>1, <1>2, <2>3
    DEF Sound, ProcessedIsConsumed, SecondCycleLooked, CycledSince, Running, Alive
  <2> QED
    BY <1>4, <2>4, <2>5 DEF Sound
<1>7. CASE Callback(l)
  <2>1. /\ at[l] = "callback" /\ at'[l] = "advance"
        /\ lis' = lis /\ consumed' = consumed
        /\ processed'[l] = processed[l] \union {lis[l].entry}
    BY <1>1, <1>7 DEF Callback, Goto, ATypeOK
  <2>2. ShowsAtStatement(l)'
    BY <1>1, <1>2, <2>1 DEF Sound, ShowsAtStatement
  <2>3. ProcessedIsConsumed(l)'
    BY <1>1, <2>1 DEF Sound, ProcessedIsConsumed, Alive
  <2>4. SecondCycleLooked(l)'
    BY <1>1, <1>2, <2>1 DEF Sound, SecondCycleLooked, CycledSince, Running
  <2> QED
    BY <1>4, <2>2, <2>3, <2>4 DEF Sound
<1>8. CASE CallAdvanceToNextEntry(l)
  <2>1. PICK k : /\ IsFirst(k, lis[l].rest)
                 /\ lis'[l] = Advanced(lis[l], k)
                 /\ consumed'[l] = consumed[l] \union {k}
    BY <1>3, <1>8 DEF CallAdvanceToNextEntry, AdvanceToNextEntry, LInv, LTypeOK
  <2>2. /\ at[l] = "advance" /\ at'[l] = "innerLoop" /\ processed' = processed
    BY <1>1, <1>8 DEF CallAdvanceToNextEntry, Goto, ATypeOK
  <2>3. k = lis[l].entry
    <3>1. IsFirst(lis[l].entry, lis[l].rest) /\ lis[l].rest \subseteq Key
      BY <1>1, <1>3, <2>2 DEF Sound, ShowsAtStatement, Member
    <3> QED
      BY <2>1, <3>1, PrecAsymmetric DEF IsFirst, \preceq
  <2>4. ~lis'[l].hasEnd
    BY <1>3, <1>5, <2>1 DEF Advanced, Looked, Member
  <2>5. ShowsAtStatement(l)'
    BY <1>2, <1>3, <2>2, <2>4 DEF ShowsAtStatement
  <2>6. ProcessedIsConsumed(l)'
    BY <1>1, <2>1, <2>2, <2>3 DEF Sound, ProcessedIsConsumed, Alive
  <2>7. SecondCycleLooked(l)'
    BY <1>1, <1>2, <2>2 DEF Sound, SecondCycleLooked, CycledSince, Running
  <2> QED
    BY <1>4, <2>5, <2>6, <2>7 DEF Sound
<1> QED
  BY <1>6, <1>7, <1>8
-----------------------------------------------------------------------------
(***************************************************************************)
(* Invariance.                                                             *)
(***************************************************************************)

\* A thread that another one's step leaves alone stays right.
LEMMA SoundIfUntouched ==
  ASSUME NEW l \in Listeners, Sound(l), stored.data \subseteq stored'.data,
         lis'[l] = lis[l], begin'[l] = begin[l], consumed'[l] = consumed[l],
         at'[l] = at[l], terminating'[l] = terminating[l], owner'[l] = owner[l],
         cycled'[l] = cycled[l], beyondInt'[l] = beyondInt[l],
         waits'[l] = waits[l], due'[l] = due[l], processed'[l] = processed[l]
  PROVE  Sound(l)'
  BY DEF Sound, ShowsAtStatement, ProcessedIsConsumed, DueWasStored, SecondCycleLooked,
         CycledSince, Running

LEMMA AInvStep == IInv /\ LInv /\ AInv /\ [ANext]_asyncVars => AInv'
<1> SUFFICES ASSUME IInv, LInv, AInv, [ANext]_asyncVars PROVE AInv'
  OBVIOUS
<1>1. ATypeOK'
  BY ATypeStep DEF AInv
<1> SUFFICES ASSUME NEW l \in Listeners PROVE Sound(l)'
  BY <1>1 DEF AInv
<1>2. Sound(l)
  BY DEF AInv
<1>3. CASE Publish
  BY <1>2, <1>3, PublishGrows, SoundIfUntouched
  DEF Publish, lisVars, threadVars, historyVars
<1>4. CASE ProcessEnds
  <2>1. /\ at'[l] = "noThread" /\ owner'[l] = "noListener" /\ ~lis'[l].alive
    BY <1>4 DEF ProcessEnds, NotConstructed, Constructed
  <2> QED
    BY <2>1
    DEF Sound, ShowsAtStatement, ProcessedIsConsumed, DueWasStored, SecondCycleLooked,
        Running
<1>5. ASSUME NEW m \in Listeners, Owner(m) \/ Worker(m) PROVE Sound(l)'
  <2>1. CASE m = l
    BY <1>5, <2>1, SoundAfterOwner, SoundAfterLoop, SoundAfterLook, SoundAfterBody
    DEF Worker
  <2>2. CASE m # l
    BY <1>2, <1>5, <2>2, OthersUntouched, SoundIfUntouched DEF AInv
  <2> QED
    BY <2>1, <2>2
<1>6. CASE UNCHANGED asyncVars
  BY <1>2, <1>6, SoundIfUntouched
  DEF asyncVars, vars, pubVars, lisVars, threadVars, historyVars
<1> QED
  BY <1>3, <1>4, <1>5, <1>6 DEF ANext

\* The invariants of the publisher, the listeners and the threads hold together.
THEOREM AsyncInvariance == ASSUME NoWrap PROVE ASpec => [](IInv /\ LInv /\ AInv)
  BY AInvInit, AInvStep, ListenersInThreads, PTL DEF ASpec
-----------------------------------------------------------------------------
(***************************************************************************)
(* What the module promises.                                               *)
(***************************************************************************)

\* A listener has a thread exactly while it exists.
THEOREM ThreadsBelong == ASSUME NoWrap PROVE ASpec => []ATypeOK
<1>1. AInv => ATypeOK
  BY DEF AInv
<1> QED
  BY <1>1, AsyncInvariance, PTL

\* In the body of the loop there is data, and in the second half of it the entry
\* processed is the first the iterator shows.
LEMMA DataInBody ==
  ASSUME LInv, AInv, NEW l \in Listeners, at[l] \in {"process", "callback", "advance"}
  PROVE  /\ l \in Alive /\ HasData(lis[l]) /\ begin[l] = ZeroKey
         /\ at[l] # "process" => IsFirst(lis[l].entry, Remaining(lis[l]))
<1>1. Sound(l) /\ l \in Alive
  BY DEF AInv, ATypeOK, Alive
<1>2. /\ begin[l] = ZeroKey /\ ~lis[l].hasEnd
      /\ Remaining(lis[l]) = lis[l].rest /\ lis[l].rest # {}
      /\ at[l] # "process" => IsFirst(lis[l].entry, lis[l].rest)
  BY <1>1 DEF Sound, ShowsAtStatement, Alive, Remaining
<1> QED
  BY <1>1, <1>2, UnboundedHasData

\* Neither of the calls in the body of the loop throws.
THEOREM NeverThrows == ASSUME NoWrap PROVE ASpec => []WorkerNeverThrows
<1>1. LInv /\ AInv => WorkerNeverThrows
  BY DataInBody DEF WorkerNeverThrows
<1> QED
  BY <1>1, AsyncInvariance, PTL

\* The processor is given entry after entry, and none is advanced past instead.
THEOREM ProcessesInOrder == ASSUME NoWrap PROVE ASpec => []ProcessesNextEntry
<1>1. ASSUME IInv, LInv, AInv, NEW l \in Listeners, at[l] = "callback"
      PROVE  IsFirst(lis[l].entry, stored.data \ processed[l])
  <2>1. l \in Alive /\ begin[l] = ZeroKey /\ IsFirst(lis[l].entry, Ahead(l))
    BY <1>1, DataInBody, RemainingFirst
  <2>2. processed[l] = consumed[l]
    BY <1>1, <2>1 DEF AInv, Sound, ProcessedIsConsumed, Alive
  <2> QED
    BY <1>1, <2>1, <2>2, AheadOfAll
<1>2. ASSUME LInv, AInv, NEW l \in Listeners, at[l] = "advance"
      PROVE  IsFirst(lis[l].entry, Remaining(lis[l]))
  BY <1>2, DataInBody
<1>3. IInv /\ LInv /\ AInv => ProcessesNextEntry
  BY <1>1, <1>2 DEF ProcessesNextEntry
<1> QED
  BY <1>3, AsyncInvariance, PTL

\* What was stored before the first of two waits is processed after the second.
THEOREM TwoWaitsSuffice == ASSUME NoWrap PROVE ASpec => []WaitTwiceIsBarrier
<1>1. AInv => WaitTwiceIsBarrier
  BY DEF AInv, Sound, SecondCycleLooked, CycledSince, Running, WaitTwiceIsBarrier
<1> QED
  BY <1>1, AsyncInvariance, PTL
=============================================================================
