------------------------------- MODULE Listener -------------------------------
(***************************************************************************)
(* The listeners of a stream (INTERNAL_UnsafeListener) beside its          *)
(* publisher.                                                              *)
(*                                                                         *)
(* A listener reads through an iterator of the storage, which it creates   *)
(* when it is asked something and keeps until the iterator has nothing     *)
(* left.  A LevelDB iterator reads a snapshot: it does not see what is     *)
(* stored after its creation.  "rest" is what the iterator has yet to      *)
(* show; the least key in it is the iterator's current one.                *)
(*                                                                         *)
(* Every call holds the stream's mutex for all it does to the listener, so *)
(* that a call is one step, taken while no push holds the mutex.           *)
(***************************************************************************)
EXTENDS Publisher

CONSTANTS
  Listeners,   \* the listener objects
  Ranges       \* the [begin, hasEnd, end] they may be constructed with

RangeType == [begin : Key, hasEnd : BOOLEAN, end : Key]

ASSUME ListenerAssumption == Ranges \subseteq RangeType

VARIABLES
  lis,       \* the listeners' members
  begin,     \* history: the key a listener was asked to begin from
  consumed   \* history: the keys a listener has advanced past

lisVars == <<lis, begin, consumed>>

vars == <<pubVars, lisVars>>

Member ==
  [alive : BOOLEAN,        \* constructed, and not destroyed
   cursor : Key,           \* storage_cursor_key
   advanced : BOOLEAN,     \* need_to_increment_cursor
   hasEnd : BOOLEAN,       \* has_end_key
   end : Key,              \* storage_end_key
   reachedEnd : BOOLEAN,   \* reached_end
   open : BOOLEAN,         \* iterator is not null
   rest : SUBSET Key,      \* what the iterator has yet to show
   entry : Key]            \* order_key_instance

Constructed(range) ==
  [alive |-> TRUE, cursor |-> range.begin, advanced |-> FALSE, hasEnd |-> range.hasEnd,
   end |-> range.end, reachedEnd |-> FALSE, open |-> FALSE, rest |-> {}, entry |-> ZeroKey]

NotConstructed ==
  [Constructed([begin |-> ZeroKey, hasEnd |-> FALSE, end |-> ZeroKey]) EXCEPT !.alive = FALSE]
-----------------------------------------------------------------------------
(***************************************************************************)
(* The iterator of the storage.                                            *)
(***************************************************************************)

IsFirst(k, S) == k \in S /\ \A j \in S : k \preceq j

\* StorageIterator::Next.
NextOf(S) == {j \in S : \E k \in S : k \prec j}

\* CreateStorageIterator(cursor), the end of the stream's data being its end.
Seek(cursor) == {k \in stored.data : cursor \preceq k}

\* A defect: an iterator created behind an advanced cursor shows its entry again.
RemainingAgain(r) == IF r.open THEN r.rest ELSE Seek(r.cursor)

\* What the listener's iterator shows, a new one if it has none.
Remaining(r) ==
  IF r.open THEN r.rest
  ELSE IF r.advanced THEN NextOf(Seek(r.cursor))
  ELSE Seek(r.cursor)

\* A defect: the end key counts as within the range.
PastEndInclusive(r) ==
  /\ Remaining(r) # {}
  /\ r.hasEnd
  /\ \A k \in Remaining(r) : r.end \prec k

\* The iterator's key is at or past the end key.
PastEnd(r) ==
  /\ Remaining(r) # {}
  /\ r.hasEnd
  /\ \A k \in Remaining(r) : r.end \preceq k

\* The value HasDataUnguarded returns.
HasData(r) == ~r.reachedEnd /\ Remaining(r) # {} /\ ~PastEnd(r)

\* A defect: an iterator without data stays, and never sees data stored later.
LookedKeepsIterator(r) ==
  [r EXCEPT !.open = ~(r.reachedEnd \/ PastEnd(r)),
            !.rest = IF HasData(r) THEN Remaining(r) ELSE {},
            !.reachedEnd = @ \/ PastEnd(r)]

\* A defect: running out of data is taken for reaching the end.
LookedEndsWithoutData(r) ==
  [r EXCEPT !.open = HasData(r),
            !.rest = IF HasData(r) THEN Remaining(r) ELSE {},
            !.reachedEnd = @ \/ ~HasData(r)]

\* A defect: the iterator is gone, what it showed is not.
LookedKeepsRest(r) ==
  [r EXCEPT !.open = HasData(r), !.rest = Remaining(r), !.reachedEnd = @ \/ PastEnd(r)]

\* The listener after HasDataUnguarded, which keeps the iterator if it has data.
Looked(r) ==
  [r EXCEPT !.open = HasData(r),
            !.rest = IF HasData(r) THEN Remaining(r) ELSE {},
            !.reachedEnd = @ \/ PastEnd(r)]

\* ... and moved on from its entry k.
Advanced(r, k) ==
  [Looked(r) EXCEPT !.cursor = k, !.advanced = TRUE, !.rest = NextOf(Remaining(r))]
-----------------------------------------------------------------------------
LInit ==
  /\ Init
  /\ lis = [l \in Listeners |-> NotConstructed]
  /\ begin = [l \in Listeners |-> ZeroKey]
  /\ consumed = [l \in Listeners |-> {}]

Construct(l, range) ==
  /\ up
  /\ ~lis[l].alive
  /\ lis' = [lis EXCEPT ![l] = Constructed(range)]
  /\ begin' = [begin EXCEPT ![l] = range.begin]
  /\ consumed' = [consumed EXCEPT ![l] = {}]
  /\ UNCHANGED pubVars

Destroy(l) ==
  /\ lis[l].alive
  /\ lis' = [lis EXCEPT ![l] = NotConstructed]
  /\ UNCHANGED <<pubVars, begin, consumed>>

\* A call of the listener can run: it is alive and the mutex is free.
CanCall(l) == lis[l].alive /\ push = Unlocked

\* HasData, ReachedEnd, and the two calls below when there is no data: they
\* throw, or return, after HasDataUnguarded.
Look(l) ==
  /\ CanCall(l)
  /\ lis' = [lis EXCEPT ![l] = Looked(lis[l])]
  /\ UNCHANGED <<pubVars, begin, consumed>>

\* ProcessEntrySync hands the iterator's current entry to the processor.
ProcessEntrySync(l) ==
  /\ CanCall(l)
  /\ HasData(lis[l])
  /\ \E k \in Remaining(lis[l]) :
       /\ IsFirst(k, Remaining(lis[l]))
       /\ lis' = [lis EXCEPT ![l] = [Looked(lis[l]) EXCEPT !.entry = k]]
  /\ UNCHANGED <<pubVars, begin, consumed>>

\* A defect: the cursor is read after the iterator was moved.
AdvanceThenRead(l) ==
  /\ CanCall(l)
  /\ HasData(lis[l])
  /\ \E k, cursor \in Remaining(lis[l]) :
       /\ IsFirst(k, Remaining(lis[l]))
       /\ IF NextOf(Remaining(lis[l])) = {} THEN cursor = k
          ELSE IsFirst(cursor, NextOf(Remaining(lis[l])))
       /\ lis' = [lis EXCEPT ![l] = Advanced(lis[l], cursor)]
       /\ consumed' = [consumed EXCEPT ![l] = @ \union {k}]
  /\ UNCHANGED <<pubVars, begin>>

\* AdvanceToNextEntry remembers the key it leaves and moves the iterator.
AdvanceToNextEntry(l) ==
  /\ CanCall(l)
  /\ HasData(lis[l])
  /\ \E k \in Remaining(lis[l]) :
       /\ IsFirst(k, Remaining(lis[l]))
       /\ lis' = [lis EXCEPT ![l] = Advanced(lis[l], k)]
       /\ consumed' = [consumed EXCEPT ![l] = @ \union {k}]
  /\ UNCHANGED <<pubVars, begin>>

\* The end of the process is the end of its listeners.
Killed ==
  /\ Crash \/ PowerLoss
  /\ lis' = [l \in Listeners |-> NotConstructed]
  /\ UNCHANGED <<begin, consumed>>

LNext ==
  \/ (Start \/ PushStep \/ Flush) /\ UNCHANGED lisVars
  \/ Killed
  \/ \E l \in Listeners :
       \/ \E range \in Ranges : Construct(l, range)
       \/ Destroy(l)
       \/ Look(l)
       \/ ProcessEntrySync(l)
       \/ AdvanceToNextEntry(l)

LSpec == LInit /\ [][LNext]_vars
-----------------------------------------------------------------------------
(***************************************************************************)
(* Correctness.                                                            *)
(***************************************************************************)

\* The types; listeners do not outlive the process; only an iterator has entries
\* to show, and a listener that reached its end has no iterator.
LTypeOK ==
  /\ lis \in [Listeners -> Member]
  /\ begin \in [Listeners -> Key]
  /\ consumed \in [Listeners -> SUBSET Key]
  /\ \A l \in Listeners :
       /\ lis[l].alive => up
       /\ ~lis[l].open => lis[l].rest = {}
       /\ lis[l].reachedEnd => ~lis[l].open

Alive == {l \in Listeners : lis[l].alive}

\* The entries at or past the key l began from that it has not advanced past.
Ahead(l) == {k \in stored.data \ consumed[l] : begin[l] \preceq k}

InRange(l, k) == lis[l].hasEnd => k \prec lis[l].end

\* What l has yet to deliver.
Unconsumed(l) == {k \in Ahead(l) : InRange(l, k)}

ConsumedToCursor(l) ==
  consumed[l] = IF lis[l].advanced
                THEN {k \in stored.data : begin[l] \preceq k /\ k \preceq lis[l].cursor}
                ELSE {}

\* A listener has advanced past every entry from its begin to its cursor and past
\* no other, although iterators are created and dropped on the way, entries come
\* in between, and an iterator does not see the ones stored after its creation.
NoEntrySkipped == \A l \in Alive : ConsumedToCursor(l)

\* The entry a listener shows, to ProcessEntrySync and AdvanceToNextEntry, is the
\* first it has not consumed, although its iterator may be an old one.
ShowsNextEntry ==
  \A l \in Alive : HasData(lis[l]) =>
    \A k \in Remaining(lis[l]) :
      IsFirst(k, Remaining(lis[l])) => IsFirst(k, Unconsumed(l))

\* HasData is exact when it is asked twice in a row: the first call drops an
\* iterator that is used up.  (The loop of AsyncListener does ask twice.)
SecondHasDataIsExact ==
  \A l \in Alive : HasData(Looked(lis[l])) <=> Unconsumed(l) # {}

\* What the comment on HasData says: "HasData() returns true if more data is
\* available."
HasDataIsExact ==
  \A l \in Alive : HasData(lis[l]) <=> Unconsumed(l) # {}

EndIsFinal(l) ==
  lis[l].reachedEnd => lis[l].hasEnd /\ lis[l].end \preceq head /\ Unconsumed(l) = {}

\* ReachedEnd is true only of a bounded listener, with the stream's head at or
\* past the end, and nothing is or ever will be left to deliver: it is never
\* reset, and this holds in every later state.
ReachedEndIsFinal == \A l \in Alive : EndIsFinal(l)

\* The stream and its listeners implement an append-only log with readers.
Log == INSTANCE TailLog WITH
  Key      <- Key,
  \prec    <- \prec,
  Readers  <- Listeners,
  entries  <- stored.data,
  range    <- [l \in Listeners |->
                 [open |-> lis[l].alive, begin |-> begin[l],
                  hasEnd |-> lis[l].hasEnd, end |-> lis[l].end]],
  read     <- consumed

ImplementsLog == Log!Spec
-----------------------------------------------------------------------------
(***************************************************************************)
(* The inductive invariant of a listener: its cursor is the last entry it  *)
(* has advanced past, and its iterator shows a prefix of what is ahead.    *)
(***************************************************************************)
CursorOnEntry(l) ==
  IF lis[l].advanced
  THEN lis[l].cursor \in stored.data /\ begin[l] \preceq lis[l].cursor
  ELSE lis[l].cursor = begin[l]

IteratorShowsPrefix(l) ==
  lis[l].open =>
    /\ lis[l].rest \subseteq Ahead(l)
    /\ \A shown \in lis[l].rest, unseen \in Ahead(l) \ lis[l].rest : shown \prec unseen

LInv ==
  /\ LTypeOK
  /\ NoEntrySkipped
  /\ ReachedEndIsFinal
  /\ \A l \in Alive : CursorOnEntry(l) /\ IteratorShowsPrefix(l)
=============================================================================
