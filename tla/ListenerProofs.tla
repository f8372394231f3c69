---------------------------- MODULE ListenerProofs ----------------------------
(***************************************************************************)
(* Listeners are correct for every set of listeners and ranges and every   *)
(* width of the keys, as long as the secondary key does not wrap.          *)
(***************************************************************************)
EXTENDS Listener, PublisherProofs

\* Of two different keys one is before the other.
LEMMA PrecTotal ==
  ASSUME NEW a \in Key, NEW b \in Key
  PROVE  a \prec b \/ a = b \/ b \prec a
  BY OrderKeyAssumption DEF \prec, Key, Primary, Secondary

\* Two keys are not each before the other.
LEMMA PrecAsymmetric ==
  ASSUME NEW a \in Key, NEW b \in Key, a \prec b
  PROVE  ~(b \preceq a)
  BY OrderKeyAssumption DEF \prec, \preceq, Key, Primary, Secondary

\* A key before b, which is not past c, is before c.
LEMMA PrecPreceq ==
  ASSUME NEW a \in Key, NEW b \in Key, NEW c \in Key, a \prec b, b \preceq c
  PROVE  a \prec c
  BY PrecTransitive DEF \preceq

\* Moving an iterator past its first key leaves all the others.
LEMMA NextOfFirst ==
  ASSUME NEW S \in SUBSET Key, NEW k, IsFirst(k, S)
  PROVE  NextOf(S) = S \ {k}
<1>1. ASSUME NEW j \in S, j # k PROVE k \prec j
  BY <1>1 DEF IsFirst, \preceq
<1>2. ASSUME NEW j \in S, j \prec k PROVE FALSE
  BY <1>2, PrecAsymmetric DEF IsFirst
<1> QED
  BY <1>1, <1>2 DEF NextOf, IsFirst
-----------------------------------------------------------------------------
(***************************************************************************)
(* The publisher and the storage behave beside listeners as without them.  *)
(***************************************************************************)

\* A step of the system is a step of the publisher or leaves it alone.
LEMMA LNextImpliesNext == [LNext]_vars => [Next]_pubVars
<1> SUFFICES ASSUME LNext PROVE Next \/ UNCHANGED pubVars
  BY DEF vars
<1>1. ASSUME NEW l \in Listeners,
             \/ \E range \in Ranges : Construct(l, range)
             \/ Destroy(l)
             \/ Look(l)
             \/ ProcessEntrySync(l)
             \/ AdvanceToNextEntry(l)
      PROVE  UNCHANGED pubVars
  BY <1>1 DEF Construct, Destroy, Look, ProcessEntrySync, AdvanceToNextEntry
<1> QED
  BY <1>1 DEF LNext, Killed, Next

\* The publisher's invariant holds beside listeners.
LEMMA PublisherInvariance == ASSUME NoWrap PROVE LSpec => []IInv
<1>1. LInit => IInv
  BY InvInit DEF LInit
<1>2. IInv /\ [LNext]_vars => IInv'
  BY LNextImpliesNext, InvStep
<1> QED
  BY <1>1, <1>2, PTL DEF LSpec
-----------------------------------------------------------------------------
(***************************************************************************)
(* What a listener sees.                                                   *)
(***************************************************************************)

\* A new iterator shows all that is ahead of the listener.
LEMMA NewIteratorShowsAll ==
  ASSUME IInv, LInv, NEW l \in Alive,
         NEW r, ~r.open, r.cursor = lis[l].cursor, r.advanced = lis[l].advanced
  PROVE  Remaining(r) = Ahead(l)
<1> USE DEF Alive
<1>1. /\ stored.data \subseteq Key
      /\ begin[l] \in Key
      /\ lis[l] \in Member
  BY DEF IInv, TypeOK, Storage, LInv, LTypeOK
<1>2. CASE ~lis[l].advanced
  BY <1>2 DEF LInv, CursorOnEntry, NoEntrySkipped, ConsumedToCursor, Remaining, Seek, Ahead
<1>3. CASE lis[l].advanced
  <2> DEFINE c == lis[l].cursor
  <2>1. c \in stored.data /\ c \in Key /\ begin[l] \preceq c
    BY <1>1, <1>3 DEF LInv, CursorOnEntry, Member
  <2>2. IsFirst(c, Seek(c))
    BY <2>1 DEF IsFirst, Seek, \preceq
  <2>3. Remaining(r) = Seek(c) \ {c}
    <3>1. Seek(c) \in SUBSET Key
      BY <1>1 DEF Seek
    <3>2. NextOf(Seek(c)) = Seek(c) \ {c}
      BY <2>2, <3>1, NextOfFirst
    <3> QED
      BY <1>3, <3>2 DEF Remaining
  <2>4. Ahead(l) = {k \in stored.data : begin[l] \preceq k /\ ~(k \preceq c)}
    BY <1>3 DEF LInv, NoEntrySkipped, ConsumedToCursor, Ahead
  <2>5. ASSUME NEW k \in stored.data PROVE k \in Seek(c) \ {c} <=> k \in Ahead(l)
    <3>1. k \in Seek(c) \ {c} <=> c \prec k
      BY <1>1, <2>1, PrecIrreflexive DEF Seek, \preceq
    <3>2. ASSUME c \prec k PROVE begin[l] \preceq k /\ ~(k \preceq c)
      BY <1>1, <2>1, <3>2, PreceqPrec, PrecAsymmetric DEF \preceq
    <3>3. ASSUME ~(k \preceq c) PROVE c \prec k
      BY <1>1, <2>1, <3>3, PrecTotal DEF \preceq
    <3> QED
      BY <2>4, <3>1, <3>2, <3>3
  <2> QED
    BY <2>3, <2>5 DEF Seek, Ahead
<1> QED
  BY <1>2, <1>3 DEF LInv, LTypeOK, Member

\* A listener's iterator, an old or a new one, shows a prefix of what is ahead
\* of the listener.
LEMMA RemainingIsPrefix ==
  ASSUME IInv, LInv, NEW l \in Alive
  PROVE  /\ Remaining(lis[l]) \subseteq Ahead(l)
         /\ \A k \in Remaining(lis[l]), j \in Ahead(l) \ Remaining(lis[l]) : k \prec j
<1>1. CASE lis[l].open
  BY <1>1 DEF LInv, IteratorShowsPrefix, Remaining
<1>2. CASE ~lis[l].open
  BY <1>2, NewIteratorShowsAll
<1> QED
  BY <1>1, <1>2

\* The entry an iterator shows first is the first one ahead.
LEMMA RemainingFirst ==
  ASSUME IInv, LInv, NEW l \in Alive, NEW k, IsFirst(k, Remaining(lis[l]))
  PROVE  IsFirst(k, Ahead(l))
  BY RemainingIsPrefix DEF IsFirst, \preceq

\* Once the iterator's key is past the end, nothing is left within the range.
LEMMA PastEndIsEnd ==
  ASSUME IInv, LInv, NEW l \in Alive, PastEnd(lis[l])
  PROVE  lis[l].hasEnd /\ lis[l].end \preceq head /\ Unconsumed(l) = {}
<1> USE DEF Alive
<1>1. /\ stored.data \subseteq Key
      /\ lis[l] \in Member
      /\ lis[l].end \in Key
      /\ lis[l].alive
      /\ head \in Key
  BY DEF IInv, TypeOK, Storage, LInv, LTypeOK, Member
<1>2. PICK k \in Remaining(lis[l]) : lis[l].end \preceq k
  BY DEF PastEnd
<1>3. k \in stored.data /\ k \in Key
  BY <1>1, RemainingIsPrefix DEF Ahead
<1>4. lis[l].end \preceq head
  <2>1. k \preceq head
    BY <1>1, <1>3 DEF IInv, LInv, LTypeOK, EntriesNeverPastHead, MemoryAgreesWithStorage
  <2> QED
    BY <1>1, <1>2, <1>3, <2>1, PreceqPrec DEF \preceq
<1>5. ASSUME NEW j \in Ahead(l) PROVE lis[l].end \preceq j
  <2>1. CASE j \in Remaining(lis[l])
    BY <2>1 DEF PastEnd
  <2>2. CASE j \notin Remaining(lis[l])
    <3>1. k \prec j /\ j \in Key
      BY <1>1, <2>2, RemainingIsPrefix DEF Ahead
    <3> QED
      BY <1>1, <1>2, <1>3, <3>1, PreceqPrec DEF \preceq
  <2> QED
    BY <2>1, <2>2
<1>6. Unconsumed(l) = {}
  BY <1>1, <1>5, PrecAsymmetric DEF Unconsumed, InRange, PastEnd, Ahead
<1> QED
  BY <1>4, <1>6 DEF PastEnd
-----------------------------------------------------------------------------
(***************************************************************************)
(* The steps, one lemma for those that are alike.                          *)
(***************************************************************************)

Good(l) ==
  ConsumedToCursor(l) /\ EndIsFinal(l) /\ CursorOnEntry(l) /\ IteratorShowsPrefix(l)

\* The invariant, listener by listener.
LEMMA LInvIsGood == LInv <=> LTypeOK /\ \A l \in Alive : Good(l)
  BY DEF LInv, NoEntrySkipped, ReachedEndIsFinal, Good

\* What a listener knows stays right while the publisher only adds to the stream.
LEMMA GoodWhileAppending ==
  ASSUME IInv, LInv, UNCHANGED lisVars, NEW l \in Alive,
         head' \in Key, head \preceq head',
         \/ stored'.data = stored.data
         \/ /\ stored'.data = stored.data \union {head}
            /\ \A k \in stored.data : k \prec head
  PROVE  Good(l)'
<1> USE DEF lisVars
<1>1. /\ stored.data \subseteq Key
      /\ begin[l] \in Key
      /\ l \in Listeners
      /\ lis[l] \in Member
      /\ lis[l].cursor \in Key
      /\ lis[l].end \in Key
      /\ lis[l].rest \subseteq Key
      /\ head \in Key
  BY DEF IInv, TypeOK, Storage, LInv, LTypeOK, Member, Alive
<1>2. Good(l)
  BY LInvIsGood
<1>3. lis[l].end \preceq head => lis[l].end \preceq head'
  BY <1>1, PreceqPrec DEF \preceq
<1>4. CASE stored'.data = stored.data
  BY <1>2, <1>3, <1>4
  DEF Good, ConsumedToCursor, EndIsFinal, CursorOnEntry, IteratorShowsPrefix, Unconsumed,
      Ahead, InRange
<1>5. CASE /\ stored'.data = stored.data \union {head}
           /\ \A k \in stored.data : k \prec head
  <2>1. ConsumedToCursor(l)'
    <3>1. lis[l].advanced => ~(head \preceq lis[l].cursor)
      BY <1>1, <1>2, <1>5, PrecAsymmetric DEF Good, CursorOnEntry
    <3> QED
      BY <1>2, <1>5, <3>1 DEF Good, ConsumedToCursor
  <2>2. EndIsFinal(l)'
    <3>1. lis[l].end \preceq head => ~(head \prec lis[l].end)
      BY <1>1, PrecAsymmetric
    <3> QED
      BY <1>2, <1>3, <1>5, <3>1 DEF Good, EndIsFinal, Unconsumed, Ahead, InRange
  <2>3. CursorOnEntry(l)'
    BY <1>2, <1>5 DEF Good, CursorOnEntry
  <2>4. IteratorShowsPrefix(l)'
    BY <1>2, <1>5 DEF Good, IteratorShowsPrefix, Ahead
  <2> QED
    BY <2>1, <2>2, <2>3, <2>4 DEF Good
<1> QED
  BY <1>4, <1>5

\* A listener another one's call leaves alone stays right.
LEMMA GoodIfUntouched ==
  ASSUME IInv, LInv, NEW l \in Alive, UNCHANGED pubVars,
         lis'[l] = lis[l], begin'[l] = begin[l], consumed'[l] = consumed[l]
  PROVE  Good(l)'
<1>1. Good(l)
  BY LInvIsGood
<1> QED
  BY <1>1
  DEF pubVars, Good, ConsumedToCursor, EndIsFinal, CursorOnEntry, IteratorShowsPrefix,
      Unconsumed, Ahead, InRange

\* HasDataUnguarded leaves the listener right, whatever it finds.
LEMMA GoodAfterLook ==
  ASSUME IInv, LInv, NEW l \in Alive, UNCHANGED <<pubVars, begin, consumed>>,
         /\ lis'[l].hasEnd = lis[l].hasEnd
         /\ lis'[l].end = lis[l].end
         /\ lis'[l].cursor = lis[l].cursor
         /\ lis'[l].advanced = lis[l].advanced
         /\ lis'[l].reachedEnd = Looked(lis[l]).reachedEnd
         /\ lis'[l].open = Looked(lis[l]).open
         /\ lis'[l].rest = Looked(lis[l]).rest
  PROVE  Good(l)'
<1> USE DEF pubVars, Alive
<1>1. Good(l) /\ lis[l] \in Member /\ l \in Listeners
  BY LInvIsGood DEF LInv, LTypeOK
<1>2. /\ lis'[l].reachedEnd = (lis[l].reachedEnd \/ PastEnd(lis[l]))
      /\ lis'[l].open = HasData(lis[l])
      /\ lis'[l].rest = IF HasData(lis[l]) THEN Remaining(lis[l]) ELSE {}
  BY <1>1 DEF Looked, Member
<1>3. ConsumedToCursor(l)' /\ CursorOnEntry(l)'
  BY <1>1 DEF Good, ConsumedToCursor, CursorOnEntry
<1>4. EndIsFinal(l)'
  BY <1>1, <1>2, PastEndIsEnd DEF Good, EndIsFinal, Unconsumed, Ahead, InRange
<1>5. IteratorShowsPrefix(l)'
  BY <1>2, RemainingIsPrefix DEF IteratorShowsPrefix, Ahead
<1> QED
  BY <1>3, <1>4, <1>5 DEF Good

\* AdvanceToNextEntry takes the listener past the first entry ahead, exactly.
LEMMA GoodAfterAdvance ==
  ASSUME IInv, LInv, NEW l \in Alive, AdvanceToNextEntry(l)
  PROVE  Good(l)'
<1> USE DEF Alive
<1>1. /\ stored.data \subseteq Key
      /\ l \in Listeners
      /\ lis[l] \in Member
      /\ lis[l].cursor \in Key
      /\ lis[l].end \in Key
      /\ begin[l] \in Key
      /\ Good(l)
  BY LInvIsGood DEF IInv, TypeOK, Storage, LInv, LTypeOK, Member
<1> DEFINE R == Remaining(lis[l])
<1>2. PICK k \in R :
        /\ IsFirst(k, R)
        /\ lis' = [lis EXCEPT ![l] = Advanced(lis[l], k)]
        /\ consumed' = [consumed EXCEPT ![l] = @ \union {k}]
  BY DEF AdvanceToNextEntry
<1>3. UNCHANGED <<pubVars, begin>> /\ HasData(lis[l])
  BY DEF AdvanceToNextEntry
<1>4. consumed'[l] = consumed[l] \union {k}
  BY <1>1, <1>2 DEF LInv, LTypeOK
<1>5. lis'[l] = Advanced(lis[l], k)
  BY <1>1, <1>2 DEF LInv, LTypeOK
<1>6. /\ lis'[l].hasEnd = lis[l].hasEnd
      /\ lis'[l].end = lis[l].end
      /\ lis'[l].cursor = k
      /\ lis'[l].advanced
      /\ lis'[l].reachedEnd = (lis[l].reachedEnd \/ PastEnd(lis[l]))
      /\ lis'[l].rest = NextOf(R)
  BY <1>1, <1>5 DEF Advanced, Looked, Member
<1>7. k \in Ahead(l) /\ k \in stored.data /\ k \in Key /\ begin[l] \preceq k
  BY <1>1, RemainingIsPrefix DEF Ahead
<1>8. IsFirst(k, Ahead(l))
  BY <1>2, RemainingFirst
<1>9. ConsumedToCursor(l)'
  <2>1. ASSUME NEW j \in stored.data, begin[l] \preceq j, j \preceq k
        PROVE  j \in consumed[l] \union {k}
    <3>1. CASE j \in Ahead(l)
      <4>1. k \preceq j
        BY <1>8, <3>1 DEF IsFirst
      <4> QED
        BY <1>1, <1>7, <2>1, <4>1, PrecAsymmetric DEF \preceq
    <3> QED
      BY <2>1, <3>1 DEF Ahead
  <2>2. ASSUME NEW j \in consumed[l]
        PROVE  j \in stored.data /\ begin[l] \preceq j /\ j \preceq k
    <3>1. lis[l].advanced /\ j \in stored.data /\ begin[l] \preceq j /\ j \preceq lis[l].cursor
      BY <1>1, <2>2 DEF Good, ConsumedToCursor
    <3>2. ~(k \preceq lis[l].cursor)
      BY <1>1, <1>7, <3>1 DEF Good, ConsumedToCursor, Ahead
    <3>3. lis[l].cursor \prec k
      BY <1>1, <1>7, <3>2, PrecTotal DEF \preceq
    <3> QED
      BY <1>1, <1>7, <3>1, <3>3, PreceqPrec DEF \preceq
  <2>3. k \preceq k
    BY DEF \preceq
  <2>4. consumed'[l] = {j \in stored.data : begin[l] \preceq j /\ j \preceq k}
    BY <1>4, <1>7, <2>1, <2>2, <2>3
  <2> QED
    BY <1>3, <1>6, <2>4 DEF ConsumedToCursor, pubVars
<1>10. EndIsFinal(l)'
  BY <1>1, <1>3, <1>6 DEF HasData, EndIsFinal, pubVars
<1>11. CursorOnEntry(l)'
  BY <1>3, <1>6, <1>7 DEF CursorOnEntry, pubVars
<1>12. IteratorShowsPrefix(l)'
  <2>1. NextOf(R) = R \ {k}
    BY <1>1, <1>2, RemainingIsPrefix, NextOfFirst DEF Ahead
  <2>2. Ahead(l)' = Ahead(l) \ {k}
    BY <1>3, <1>4 DEF Ahead, pubVars
  <2> QED
    BY <1>6, <2>1, <2>2, RemainingIsPrefix DEF IteratorShowsPrefix
<1> QED
  BY <1>9, <1>10, <1>11, <1>12 DEF Good

\* What a look or an advance leaves in the listener is well typed.
LEMMA LookedIsMember ==
  ASSUME IInv, LTypeOK, NEW l \in Listeners
  PROVE  /\ Looked(lis[l]) \in Member
         /\ Looked(lis[l]).alive = lis[l].alive
         /\ ~Looked(lis[l]).open => Looked(lis[l]).rest = {}
         /\ Looked(lis[l]).reachedEnd => ~Looked(lis[l]).open
<1>1. lis[l] \in Member /\ stored.data \subseteq Key
  BY DEF LTypeOK, IInv, TypeOK, Storage
<1>2. Remaining(lis[l]) \subseteq Key
  BY <1>1 DEF Remaining, Seek, NextOf, Member
<1>3. HasData(lis[l]) \in BOOLEAN /\ PastEnd(lis[l]) \in BOOLEAN
  BY <1>1 DEF HasData, PastEnd, Member
<1> QED
  BY <1>1, <1>2, <1>3 DEF Looked, Member, HasData
-----------------------------------------------------------------------------
(***************************************************************************)
(* Invariance.                                                             *)
(***************************************************************************)

\* No listener is constructed at first.
LEMMA LInvInit == LInit => LInv
<1> SUFFICES ASSUME LInit PROVE LInv
  OBVIOUS
<1>1. ZeroKey \in Key
  BY OrderKeyAssumption DEF ZeroKey, Key, Primary, Secondary
<1>2. NotConstructed \in Member /\ ~NotConstructed.alive /\ ~NotConstructed.open
      /\ NotConstructed.rest = {} /\ ~NotConstructed.reachedEnd
  BY <1>1 DEF NotConstructed, Constructed, Member
<1>3. LTypeOK
  BY <1>1, <1>2 DEF LInit, LTypeOK
<1>4. Alive = {}
  BY <1>2 DEF LInit, Alive
<1> QED
  BY <1>3, <1>4, LInvIsGood

\* The types are preserved by every step.
LEMMA LTypeStep == IInv /\ IInv' /\ LTypeOK /\ [LNext]_vars => LTypeOK'
<1> SUFFICES ASSUME IInv, IInv', LTypeOK, LNext PROVE LTypeOK'
  BY DEF vars, lisVars, pubVars, LTypeOK
<1>1. ZeroKey \in Key
  BY OrderKeyAssumption DEF ZeroKey, Key, Primary, Secondary
<1>2. NotConstructed \in Member /\ ~NotConstructed.alive /\ ~NotConstructed.open
      /\ NotConstructed.rest = {} /\ ~NotConstructed.reachedEnd
  BY <1>1 DEF NotConstructed, Constructed, Member
<1>3. CASE (Start \/ PushStep \/ Flush) /\ UNCHANGED lisVars
  <2>1. up => up'
    <3>1. ASSUME NEW op \in {"Push", "PushHead"}, NEW p \in Primary, Lock(op, p)
          PROVE  up' = up
      BY <3>1 DEF Lock
    <3> QED
      BY <1>3, <3>1
      DEF Start, PushStep, RejectBackwards, MoveHead, MoveHeadFails, SetEntry,
          SetEntryFails, Flush
  <2> QED
    BY <1>3, <2>1 DEF LTypeOK, lisVars
<1>4. CASE Killed
  BY <1>2, <1>4 DEF Killed, LTypeOK
<1>5. ASSUME NEW l \in Listeners, NEW range \in Ranges, Construct(l, range)
      PROVE  LTypeOK'
  <2>1. range \in RangeType
    BY ListenerAssumption
  <2>2. Constructed(range) \in Member /\ ~Constructed(range).open
        /\ Constructed(range).rest = {} /\ ~Constructed(range).reachedEnd
    BY <1>1, <2>1 DEF Constructed, Member, RangeType
  <2>3. range.begin \in Key
    BY <2>1 DEF RangeType
  <2> QED
    BY <1>5, <2>2, <2>3 DEF Construct, LTypeOK, pubVars
<1>6. ASSUME NEW l \in Listeners, Destroy(l) PROVE LTypeOK'
  BY <1>2, <1>6 DEF Destroy, LTypeOK, pubVars
<1>7. ASSUME NEW l \in Listeners, Look(l) PROVE LTypeOK'
  BY <1>7, LookedIsMember DEF Look, LTypeOK, pubVars
<1>8. ASSUME NEW l \in Listeners, NEW k \in Remaining(lis[l])
      PROVE  k \in Key
  BY <1>8 DEF Remaining, Seek, NextOf, LTypeOK, Member, IInv, TypeOK, Storage
<1>9. ASSUME NEW l \in Listeners, ProcessEntrySync(l) PROVE LTypeOK'
  <2>1. PICK k \in Remaining(lis[l]) : lis' = [lis EXCEPT ![l] = [Looked(lis[l]) EXCEPT !.entry = k]]
    BY <1>9 DEF ProcessEntrySync
  <2> DEFINE r == [Looked(lis[l]) EXCEPT !.entry = k]
  <2>2. r \in Member /\ r.alive = lis[l].alive /\ (~r.open => r.rest = {})
        /\ (r.reachedEnd => ~r.open)
    BY <1>8, LookedIsMember DEF Member
  <2> HIDE DEF r
  <2>3. lis' = [lis EXCEPT ![l] = r]
    BY <2>1 DEF r
  <2> QED
    BY <1>9, <2>2, <2>3 DEF ProcessEntrySync, LTypeOK, pubVars
<1>10. ASSUME NEW l \in Listeners, AdvanceToNextEntry(l) PROVE LTypeOK'
  <2>1. PICK k \in Remaining(lis[l]) :
          /\ lis' = [lis EXCEPT ![l] = Advanced(lis[l], k)]
          /\ consumed' = [consumed EXCEPT ![l] = @ \union {k}]
    BY <1>10 DEF AdvanceToNextEntry
  <2>2. k \in Key
    BY <1>8
  <2>3. Looked(lis[l]).open /\ NextOf(Remaining(lis[l])) \subseteq Key
    BY <1>8, <1>10 DEF AdvanceToNextEntry, Looked, NextOf, LTypeOK, Member
  <2>4. /\ Advanced(lis[l], k) \in Member
        /\ Advanced(lis[l], k).alive = lis[l].alive
        /\ Advanced(lis[l], k).open
        /\ ~Advanced(lis[l], k).reachedEnd
    BY <2>2, <2>3, LookedIsMember DEF Advanced, Member
  <2>5. consumed' \in [Listeners -> SUBSET Key]
    BY <2>1, <2>2 DEF LTypeOK
  <2> QED
    BY <1>10, <2>1, <2>4, <2>5 DEF AdvanceToNextEntry, LTypeOK, pubVars
<1> QED
  BY <1>3, <1>4, <1>5, <1>6, <1>7, <1>9, <1>10 DEF LNext

\* Every step preserves the invariant.
LEMMA LInvStep == IInv /\ IInv' /\ LInv /\ [LNext]_vars => LInv'
<1> SUFFICES ASSUME IInv, IInv', LInv, [LNext]_vars PROVE LInv'
  OBVIOUS
<1>1. LTypeOK'
  BY LTypeStep DEF LInv
<1>2. SUFFICES ASSUME NEW l \in Listeners, lis'[l].alive PROVE Good(l)'
  BY <1>1, LInvIsGood DEF Good, Alive, ConsumedToCursor, EndIsFinal, CursorOnEntry,
     IteratorShowsPrefix, Unconsumed, Ahead, InRange, LInv, NoEntrySkipped, ReachedEndIsFinal
<1>3. CASE (Start \/ PushStep \/ Flush) /\ UNCHANGED lisVars
  <2>1. l \in Alive /\ up
    BY <1>2, <1>3 DEF lisVars, Alive, LInv, LTypeOK
  <2>2. head \in Key /\ head' \in Key
    BY DEF IInv, TypeOK
  <2>3. CASE MoveHead
    BY <1>3, <2>1, <2>2, <2>3, MoveHeadGoesForward, GoodWhileAppending DEF \preceq
  <2>4. CASE SetEntry
    <3>1. head' = head /\ stored'.data = stored.data \union {head}
      BY <2>4 DEF SetEntry, Set, IInv, TypeOK, Storage
    <3>2. \A k \in stored.data : k \prec head
      BY <2>4 DEF SetEntry, IInv, NextEntryIsPastAll
    <3> QED
      BY <1>3, <2>1, <2>2, <3>1, <3>2, GoodWhileAppending DEF \preceq
  <2>5. ASSUME head' = head, stored' = stored PROVE Good(l)'
    BY <1>3, <2>1, <2>2, <2>5, GoodWhileAppending DEF \preceq
  <2>6. ASSUME NEW op \in {"Push", "PushHead"}, NEW p \in Primary, Lock(op, p)
        PROVE  head' = head /\ stored' = stored
    BY <2>6 DEF Lock
  <2>7. CASE Start
    BY <2>1, <2>7 DEF Start
  <2>8. CASE Flush \/ RejectBackwards \/ MoveHeadFails \/ SetEntryFails
    BY <2>5, <2>8
    DEF Flush, RejectBackwards, MoveHeadFails, SetEntryFails
  <2> QED
    BY <1>3, <2>3, <2>4, <2>5, <2>6, <2>7, <2>8 DEF PushStep
<1>4. CASE Killed
  BY <1>2, <1>4 DEF Killed, NotConstructed, Constructed
<1>6. ASSUME NEW m \in Listeners, NEW range \in Ranges, Construct(m, range)
      PROVE  Good(l)'
  <2>1. CASE m = l
    BY <1>6, <2>1, ListenerAssumption
    DEF Construct, Constructed, LInv, LTypeOK, RangeType, Good, ConsumedToCursor,
        EndIsFinal, CursorOnEntry, IteratorShowsPrefix
  <2>2. CASE m # l
    BY <1>2, <1>6, <2>2, GoodIfUntouched DEF Construct, LInv, LTypeOK, Alive
  <2> QED
    BY <2>1, <2>2
<1>7. ASSUME NEW m \in Listeners, Destroy(m) PROVE Good(l)'
  <2>1. m # l
    BY <1>2, <1>7 DEF Destroy, NotConstructed, Constructed, LInv, LTypeOK
  <2> QED
    BY <1>2, <1>7, <2>1, GoodIfUntouched DEF Destroy, LInv, LTypeOK, Alive
<1>8. ASSUME NEW m \in Listeners, Look(m) PROVE Good(l)'
  <2>1. CASE m = l
    <3>1. lis'[l] = Looked(lis[l]) /\ l \in Alive
      BY <1>8, <2>1 DEF Look, CanCall, LInv, LTypeOK, Alive
    <3>2. /\ Looked(lis[l]).hasEnd = lis[l].hasEnd
          /\ Looked(lis[l]).end = lis[l].end
          /\ Looked(lis[l]).cursor = lis[l].cursor
          /\ Looked(lis[l]).advanced = lis[l].advanced
      BY DEF Looked, LInv, LTypeOK, Member
    <3> QED
      BY <1>8, <3>1, <3>2, GoodAfterLook DEF Look
  <2>2. CASE m # l
    BY <1>2, <1>8, <2>2, GoodIfUntouched DEF Look, LInv, LTypeOK, Alive
  <2> QED
    BY <2>1, <2>2
<1>9. ASSUME NEW m \in Listeners, ProcessEntrySync(m) PROVE Good(l)'
  <2>1. CASE m = l
    <3>1. PICK k : lis'[l] = [Looked(lis[l]) EXCEPT !.entry = k]
      BY <1>9, <2>1 DEF ProcessEntrySync, LInv, LTypeOK
    <3>2. l \in Alive
      BY <1>9, <2>1 DEF ProcessEntrySync, CanCall, Alive
    <3>3. /\ lis'[l].hasEnd = lis[l].hasEnd
          /\ lis'[l].end = lis[l].end
          /\ lis'[l].cursor = lis[l].cursor
          /\ lis'[l].advanced = lis[l].advanced
          /\ lis'[l].reachedEnd = Looked(lis[l]).reachedEnd
          /\ lis'[l].open = Looked(lis[l]).open
          /\ lis'[l].rest = Looked(lis[l]).rest
      BY <3>1 DEF Looked, LInv, LTypeOK, Member
    <3> QED
      BY <1>9, <3>2, <3>3, GoodAfterLook DEF ProcessEntrySync
  <2>2. CASE m # l
    BY <1>2, <1>9, <2>2, GoodIfUntouched DEF ProcessEntrySync, LInv, LTypeOK, Alive
  <2> QED
    BY <2>1, <2>2
<1>10. ASSUME NEW m \in Listeners, AdvanceToNextEntry(m) PROVE Good(l)'
  <2>1. CASE m = l
    BY <1>10, <2>1, GoodAfterAdvance DEF AdvanceToNextEntry, CanCall, Alive
  <2>2. CASE m # l
    BY <1>2, <1>10, <2>2, GoodIfUntouched DEF AdvanceToNextEntry, LInv, LTypeOK, Alive
  <2> QED
    BY <2>1, <2>2
<1>11. CASE UNCHANGED vars
  BY <1>2, <1>11, GoodIfUntouched DEF vars, lisVars, Alive
<1> QED
  BY <1>3, <1>4, <1>6, <1>7, <1>8, <1>9, <1>10, <1>11 DEF LNext

\* The invariants of the publisher and of the listeners hold together.
THEOREM ListenerInvariance == ASSUME NoWrap PROVE LSpec => [](IInv /\ LInv)
<1>1. LInit => LInv
  BY LInvInit
<1> QED
  BY <1>1, LInvStep, PublisherInvariance, PTL DEF LSpec
-----------------------------------------------------------------------------
(***************************************************************************)
(* What the module promises.                                               *)
(***************************************************************************)

\* The listeners are well typed, and have an iterator when they should.
THEOREM ListenerTypeCorrect == ASSUME NoWrap PROVE LSpec => []LTypeOK
<1>1. LInv => LTypeOK
  BY DEF LInv
<1> QED
  BY <1>1, ListenerInvariance, PTL

\* No listener advances past an entry it was not shown, or leaves one out.
THEOREM NothingSkipped == ASSUME NoWrap PROVE LSpec => []NoEntrySkipped
<1>1. LInv => NoEntrySkipped
  BY DEF LInv
<1> QED
  BY <1>1, ListenerInvariance, PTL

\* When ReachedEnd is true, nothing is left to deliver, then and later.
THEOREM EndFinal == ASSUME NoWrap PROVE LSpec => []ReachedEndIsFinal
<1>1. LInv => ReachedEndIsFinal
  BY DEF LInv
<1> QED
  BY <1>1, ListenerInvariance, PTL

\* A listener that has data has an entry within its range, shown first.
LEMMA HasDataShowsFirst ==
  ASSUME IInv, LInv, NEW l \in Alive, HasData(lis[l]), NEW k,
         IsFirst(k, Remaining(lis[l]))
  PROVE  IsFirst(k, Unconsumed(l))
<1> USE DEF Alive
<1>1. IsFirst(k, Ahead(l))
  BY RemainingFirst
<1>2. /\ k \in Key
      /\ lis[l].end \in Key
      /\ Remaining(lis[l]) \subseteq Key
  BY <1>1, RemainingIsPrefix
  DEF IsFirst, Ahead, IInv, TypeOK, Storage, LInv, LTypeOK, Member
<1>3. InRange(l, k)
  <2> SUFFICES ASSUME lis[l].hasEnd PROVE k \prec lis[l].end
    BY DEF InRange
  <2>1. PICK j \in Remaining(lis[l]) : ~(lis[l].end \preceq j)
    BY DEF HasData, PastEnd
  <2>2. k \preceq j /\ j \prec lis[l].end
    BY <1>2, <2>1, PrecTotal DEF IsFirst, \preceq
  <2> QED
    BY <1>2, <2>2, PreceqPrec
<1> QED
  BY <1>1, <1>3 DEF IsFirst, Unconsumed

\* What ProcessEntrySync shows is the first entry not yet consumed.
THEOREM ShowsNext == ASSUME NoWrap PROVE LSpec => []ShowsNextEntry
<1>1. IInv /\ LInv => ShowsNextEntry
  BY HasDataShowsFirst DEF ShowsNextEntry
<1> QED
  BY <1>1, ListenerInvariance, PTL

\* The second of two HasData calls in a row says whether there is more to read.
THEOREM SecondHasData == ASSUME NoWrap PROVE LSpec => []SecondHasDataIsExact
<1>1. ASSUME IInv, LInv, NEW l \in Alive
      PROVE  HasData(Looked(lis[l])) <=> Unconsumed(l) # {}
  <2> USE DEF Alive
  <2> DEFINE r == lis[l]
             again == Looked(lis[l])
  <2>1. /\ r \in Member
        /\ r.end \in Key
        /\ stored.data \subseteq Key
    BY <1>1 DEF IInv, TypeOK, Storage, LInv, LTypeOK, Member
  <2>2. /\ again.hasEnd = r.hasEnd
        /\ again.end = r.end
        /\ again.cursor = r.cursor
        /\ again.advanced = r.advanced
        /\ again.reachedEnd = (r.reachedEnd \/ PastEnd(r))
        /\ again.open = HasData(r)
        /\ HasData(r) => again.rest = Remaining(r)
    BY <2>1 DEF Looked, Member
  <2>3. ASSUME NEW j \in Ahead(l), r.hasEnd => ~(r.end \preceq j)
        PROVE  j \in Unconsumed(l)
    BY <2>1, <2>3, PrecTotal DEF Unconsumed, InRange, Ahead, \preceq
  <2>4. CASE HasData(r)
    <3>1. HasData(again)
      BY <2>2, <2>4 DEF HasData, PastEnd, Remaining
    <3>2. Unconsumed(l) # {}
      BY <1>1, <2>3, <2>4, RemainingIsPrefix DEF HasData, PastEnd
    <3> QED
      BY <3>1, <3>2
  <2>5. CASE r.reachedEnd \/ PastEnd(r)
    <3>1. Unconsumed(l) = {}
      BY <1>1, <2>5, PastEndIsEnd DEF LInv, ReachedEndIsFinal, EndIsFinal
    <3> QED
      BY <2>2, <2>5, <3>1 DEF HasData
  <2>6. CASE ~HasData(r) /\ ~r.reachedEnd /\ ~PastEnd(r)
    <3>1. Remaining(again) = Ahead(l)
      BY <1>1, <2>2, <2>6, NewIteratorShowsAll
    <3>2. ASSUME NEW j \in Unconsumed(l) PROVE r.hasEnd => ~(r.end \preceq j)
      BY <2>1, <3>2, PrecAsymmetric DEF Unconsumed, InRange, Ahead
    <3> QED
      BY <2>2, <2>3, <2>6, <3>1, <3>2 DEF HasData, PastEnd, Unconsumed
  <2> QED
    BY <2>4, <2>5, <2>6
<1>2. IInv /\ LInv => SecondHasDataIsExact
  BY <1>1 DEF SecondHasDataIsExact
<1> QED
  BY <1>2, ListenerInvariance, PTL
-----------------------------------------------------------------------------
(***************************************************************************)
(* The stream implements a log with readers.                               *)
(***************************************************************************)

\* A process that starts has no readers, and its storage no entries.
LEMMA LogInit == LInit => Log!Init
  BY DEF LInit, Init, Log!Init, NotConstructed, Constructed

\* A push appends an entry, an advance reads one, the end of the process closes
\* the readers, a power failure takes the latest entries; no other step shows.
LEMMA LogStep == IInv /\ LInv /\ [LNext]_vars => [Log!Next]_Log!logVars
<1> SUFFICES ASSUME IInv, LInv, LNext PROVE Log!Next \/ UNCHANGED Log!logVars
  BY DEF vars, lisVars, pubVars, Log!logVars
<1>1. CASE (Start \/ PushStep \/ Flush) /\ UNCHANGED lisVars
  <2>1. CASE SetEntry
    <3>1. stored'.data = stored.data \union {head} /\ head \in Key
      BY <2>1 DEF SetEntry, Set, IInv, TypeOK, Storage
    <3>2. \A k \in stored.data : k \prec head
      BY <2>1 DEF SetEntry, IInv, NextEntryIsPastAll
    <3>3. Log!Append(head)
      BY <1>1, <3>1, <3>2 DEF Log!Append, lisVars
    <3> QED
      BY <3>1, <3>3 DEF Log!Next
  <2>2. CASE MoveHead
    BY <1>1, <2>2, MoveHeadGoesForward DEF Log!logVars, lisVars
  <2>3. ASSUME NEW op \in {"Push", "PushHead"}, NEW p \in Primary, Lock(op, p)
        PROVE  UNCHANGED Log!logVars
    BY <1>1, <2>3 DEF Lock, Log!logVars, lisVars
  <2>4. CASE \/ Start \/ Flush \/ RejectBackwards \/ MoveHeadFails
             \/ SetEntryFails
    BY <1>1, <2>4
    DEF Start, Flush, RejectBackwards, MoveHeadFails, SetEntryFails,
        Log!logVars, lisVars
  <2> QED
    BY <1>1, <2>1, <2>2, <2>3, <2>4 DEF PushStep
<1>2. CASE Killed
  <2>1. \A l \in Listeners : ~lis'[l].alive
    BY <1>2 DEF Killed, NotConstructed, Constructed
  <2>2. /\ stored'.data \subseteq stored.data
        /\ \A kept \in stored'.data, lost \in stored.data \ stored'.data : kept \prec lost
    BY <1>2 DEF Killed, Crash, PowerLoss, IInv, PowerLossLeavesNoHole
  <2>3. Log!Fail
    BY <1>2, <2>1, <2>2 DEF Killed, Log!Fail
  <2> QED
    BY <2>3 DEF Log!Next
<1>3. ASSUME NEW l \in Listeners, NEW range \in Ranges, Construct(l, range)
      PROVE  Log!Next
  <2>1. Log!Open(l)
    BY <1>3 DEF Construct, Constructed, Log!Open, LInv, LTypeOK, pubVars
  <2> QED
    BY <2>1 DEF Log!Next
<1>4. ASSUME NEW l \in Listeners, Destroy(l) PROVE Log!Next
  <2>1. Log!Close(l)
    BY <1>4
    DEF Destroy, NotConstructed, Constructed, Log!Close, LInv, LTypeOK, pubVars
  <2> QED
    BY <2>1 DEF Log!Next
<1>5. ASSUME NEW l \in Listeners, Look(l) \/ ProcessEntrySync(l)
      PROVE  UNCHANGED Log!logVars
  <2>1. PICK k : lis' = [lis EXCEPT ![l] = Looked(lis[l])]
                 \/ lis' = [lis EXCEPT ![l] = [Looked(lis[l]) EXCEPT !.entry = k]]
    BY <1>5 DEF Look, ProcessEntrySync
  <2>2. ASSUME NEW m \in Listeners
        PROVE  /\ lis'[m].alive = lis[m].alive
               /\ lis'[m].hasEnd = lis[m].hasEnd
               /\ lis'[m].end = lis[m].end
    <3>1. \/ lis'[m] = lis[m]
          \/ lis'[m] = Looked(lis[m])
          \/ lis'[m] = [Looked(lis[m]) EXCEPT !.entry = k]
      BY <2>1 DEF LInv, LTypeOK
    <3>2. lis[m] \in Member
      BY DEF LInv, LTypeOK
    <3> QED
      BY <3>1, <3>2 DEF Looked, Member
  <2> QED
    BY <1>5, <2>2 DEF Look, ProcessEntrySync, Log!logVars, pubVars
<1>6. ASSUME NEW l \in Listeners, AdvanceToNextEntry(l) PROVE Log!Next
  <2>1. PICK k \in Remaining(lis[l]) :
          /\ IsFirst(k, Remaining(lis[l]))
          /\ lis' = [lis EXCEPT ![l] = Advanced(lis[l], k)]
          /\ consumed' = [consumed EXCEPT ![l] = @ \union {k}]
    BY <1>6 DEF AdvanceToNextEntry
  <2>2. l \in Alive /\ HasData(lis[l]) /\ UNCHANGED <<pubVars, begin>>
    BY <1>6 DEF AdvanceToNextEntry, CanCall, Alive
  <2>3. IsFirst(k, Unconsumed(l))
    BY <2>1, <2>2, HasDataShowsFirst
  <2>4. ASSUME NEW m \in Listeners
        PROVE  /\ lis'[m].alive = lis[m].alive
               /\ lis'[m].hasEnd = lis[m].hasEnd
               /\ lis'[m].end = lis[m].end
    BY <2>1 DEF Advanced, Looked, LInv, LTypeOK, Member
  <2>5. k \in Key
    BY <2>3 DEF IsFirst, Unconsumed, Ahead, IInv, TypeOK, Storage
  <2>6. Log!Read(l, k)
    BY <2>1, <2>2, <2>3, <2>4
    DEF Log!Read, Log!InRange, Log!\preceq, \preceq, IsFirst, Unconsumed, Ahead, InRange, Alive, pubVars
  <2> QED
    BY <2>5, <2>6 DEF Log!Next
<1> QED
  BY <1>1, <1>2, <1>3, <1>4, <1>5, <1>6 DEF LNext

\* The stream with its listeners implements the log.
THEOREM Refinement == ASSUME NoWrap PROVE LSpec => ImplementsLog
<1>1. LInit => Log!Init
  BY LogInit
<1> QED
  BY <1>1, LogStep, ListenerInvariance, PTL DEF LSpec, ImplementsLog, Log!Spec
=============================================================================
