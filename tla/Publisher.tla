------------------------------ MODULE Publisher ------------------------------
(***************************************************************************)
(* One stream, its publisher and the storage below it.                     *)
(*                                                                         *)
(* Push and PushHead hold the stream's mutex from their first statement to *)
(* their last, in up to two writes to the storage: the stream's head, then *)
(* the entry under the new head.  "push" is the call that holds the mutex  *)
(* and how far it got; it is Unlocked when the mutex is free.  A call that *)
(* waits for the mutex has not done anything yet and is not represented.   *)
(*                                                                         *)
(* The process may die between any two steps.  LevelDB is written without  *)
(* sync, so the machine may also lose the latest writes: "durable" is what *)
(* the disk holds, and Flush is the operating system writing back.         *)
(***************************************************************************)
EXTENDS OrderKey

CONSTANTS
  InitHeads,   \* the heads a stream may be created with
  MaxMoves     \* bound: how many times the head is moved in a behavior

ASSUME PublisherAssumption ==
  /\ InitHeads \subseteq Key
  /\ MaxMoves \in Nat

VARIABLES
  up,        \* the process runs and the Stream object is constructed
  push,      \* the Push or PushHead call that holds stream.lock_mutex()
  head,      \* stream.head
  stored,    \* the storage as the process reads it
  durable,   \* the storage as a power failure would leave it
  moves      \* how many times the head was moved, for the bound

pubVars == <<up, push, head, stored, durable, moves>>

Unlocked == [at |-> "unlocked", op |-> "none", primary |-> 0]

Call == [at : {"moveHead", "setEntry"}, op : {"Push", "PushHead"}, primary : Primary]

\* What the storage holds of the stream: its head, and the keys of its entries.
Storage == [head : Key, data : SUBSET Key]

\* No behavior within the bound appends so often that the secondary key wraps.
NoWrap == \A h \in InitHeads : h.secondary + MaxMoves < SecondaryModulus
-----------------------------------------------------------------------------
(***************************************************************************)
(* Storage: leveldb::DB::Put of the head and of an entry.                  *)
(***************************************************************************)
SetAllowingOverwrite(h) == stored' = [stored EXCEPT !.head = h]

Has(k) == k \in stored.data

Set(k) == ~Has(k) /\ stored' = [stored EXCEPT !.data = @ \union {k}]
-----------------------------------------------------------------------------
Init ==
  /\ up = FALSE
  /\ push = Unlocked
  /\ \E h \in InitHeads : stored = [head |-> h, data |-> {}]
  /\ head = stored.head
  /\ durable = stored
  /\ moves = 0

\* Stream::Stream reads the head the storage holds.
Start ==
  /\ ~up
  /\ up' = TRUE
  /\ head' = stored.head
  /\ UNCHANGED <<push, stored, durable, moves>>

\* Push(entry) and PushHead(primary) take the mutex.
Lock(op, p) ==
  /\ up
  /\ push = Unlocked
  /\ push' = [at |-> "moveHead", op |-> op, primary |-> p]
  /\ UNCHANGED <<up, head, stored, durable, moves>>

\* The call returns, or throws: the lock_guard releases the mutex.
Unlock == push' = Unlocked

\* PushHeadUnguarded throws OrderKeysGoBackwardsException.
RejectBackwards ==
  /\ push.at = "moveHead"
  /\ push.primary < head.primary
  /\ Unlock
  /\ UNCHANGED <<up, head, stored, durable, moves>>

\* A defect: the check that the primary key does not go backwards is missing.
MoveHeadUnchecked ==
  /\ push.at = "moveHead"
  /\ moves < MaxMoves
  /\ SetAllowingOverwrite(NewHead(head, push.primary))
  /\ head' = NewHead(head, push.primary)
  /\ moves' = moves + 1
  /\ IF push.op = "Push" THEN push' = [push EXCEPT !.at = "setEntry"] ELSE Unlock
  /\ UNCHANGED <<up, durable>>

\* PushHeadUnguarded: the storage first, then the Stream object.
MoveHead ==
  /\ push.at = "moveHead"
  /\ moves < MaxMoves
  /\ ~(push.primary < head.primary)
  /\ SetAllowingOverwrite(NewHead(head, push.primary))
  /\ head' = NewHead(head, push.primary)
  /\ moves' = moves + 1
  /\ IF push.op = "Push" THEN push' = [push EXCEPT !.at = "setEntry"] ELSE Unlock
  /\ UNCHANGED <<up, durable>>

\* A defect: stream.head is assigned before the Put, which then throws.
MoveHeadFailsLate ==
  /\ push.at = "moveHead"
  /\ ~(push.primary < head.primary)
  /\ head' = NewHead(head, push.primary)
  /\ Unlock
  /\ UNCHANGED <<up, stored, durable, moves>>

\* The Put of the head fails: InternalSet throws before stream.head is assigned.
MoveHeadFails ==
  /\ push.at = "moveHead"
  /\ ~(push.primary < head.primary)
  /\ Unlock
  /\ UNCHANGED <<up, head, stored, durable, moves>>

\* Push stores the serialized entry under the new head.
SetEntry ==
  /\ push.at = "setEntry"
  /\ Set(head)
  /\ Unlock
  /\ UNCHANGED <<up, head, durable, moves>>

\* SerializeEntry throws, or its result is empty, or there is an entry under the
\* key and Set throws StorageOverwriteNotAllowedException, or the Put fails: the
\* head was moved and stays moved.
SetEntryFails ==
  /\ push.at = "setEntry"
  /\ Unlock
  /\ UNCHANGED <<up, head, stored, durable, moves>>

\* A defect: entries are written back in any order, not in that of the writes.
FlushInAnyOrder ==
  /\ \E D \in SUBSET stored.data : durable' = [head |-> stored.head, data |-> D]
  /\ UNCHANGED <<up, push, head, stored, moves>>

\* The operating system writes back what the process has written.
Flush ==
  /\ durable' = stored
  /\ UNCHANGED <<up, push, head, stored, moves>>

\* The process ends, at any point; head is not read again before Start.
Crash ==
  /\ up
  /\ up' = FALSE
  /\ Unlock
  /\ UNCHANGED <<head, stored, durable, moves>>

\* The machine goes down: writes that were not written back are gone.
PowerLoss ==
  /\ up' = FALSE
  /\ Unlock
  /\ stored' = durable
  /\ UNCHANGED <<head, durable, moves>>

PushStep ==
  \/ \E op \in {"Push", "PushHead"}, p \in Primary : Lock(op, p)
  \/ RejectBackwards
  \/ MoveHead
  \/ MoveHeadFails
  \/ SetEntry
  \/ SetEntryFails

Next ==
  \/ Start
  \/ PushStep
  \/ Flush
  \/ Crash
  \/ PowerLoss

Spec == Init /\ [][Next]_pubVars
-----------------------------------------------------------------------------
(***************************************************************************)
(* Correctness.                                                            *)
(***************************************************************************)

\* The types; and only a running process holds the mutex.
TypeOK ==
  /\ up \in BOOLEAN
  /\ push \in Call \union {Unlocked}
  /\ head \in Key
  /\ stored \in Storage
  /\ durable \in Storage
  /\ moves \in 0 .. MaxMoves
  /\ push # Unlocked => up

\* Whatever throws halfway through a push, the head in memory, from which the
\* next key is computed, and the one in the storage, from which it is computed
\* after a restart, are the same.
MemoryAgreesWithStorage == up => head = stored.head

\* No entry lies past the head of its stream, neither as the process reads the
\* storage nor as a power failure leaves it: the next key computed from that
\* head, in this process or after a restart, is a new one.
EntriesNeverPastHead ==
  \A s \in {stored, durable} : \A k \in s.data : k \preceq s.head

\* The entry of a Push never meets one under its key, so that Set never throws
\* StorageOverwriteNotAllowedException out of Push.
SetNeverOverwrites == push.at = "setEntry" => ~Has(head)

\* A power failure loses only the latest entries: none that survives comes after
\* one that is lost.
PowerLossLeavesNoHole ==
  /\ durable.data \subseteq stored.data
  /\ \A k \in durable.data, lost \in stored.data \ durable.data : k \prec lost

\* The head a running process keeps never goes back ("Order keys should only be
\* increasing", PushHeadUnguarded).
HeadNeverGoesBack == [][up /\ up' => head \preceq head']_pubVars

\* Entries are only ever added after all those the stream has, across failed
\* calls and restarts: the order of the keys is the order of the pushes.
AppendsInKeyOrder ==
  [][\A new \in stored'.data \ stored.data : \A old \in stored.data : old \prec new]_pubVars
-----------------------------------------------------------------------------
(***************************************************************************)
(* The inductive invariant.  The moves left to the bound do not suffice to *)
(* wrap the secondary key of any head; the head about to be used for an    *)
(* entry is past every entry.                                              *)
(***************************************************************************)
WithinBudget(h) == h.secondary + (MaxMoves - moves) < SecondaryModulus

HeadsWithinBudget ==
  /\ WithinBudget(head)
  /\ WithinBudget(stored.head)
  /\ WithinBudget(durable.head)

NextEntryIsPastAll == push.at = "setEntry" => \A k \in stored.data : k \prec head

IInv ==
  /\ TypeOK
  /\ MemoryAgreesWithStorage
  /\ HeadsWithinBudget
  /\ EntriesNeverPastHead
  /\ NextEntryIsPastAll
  /\ PowerLossLeavesNoHole
=============================================================================
