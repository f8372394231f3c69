----------------------------- MODULE AsyncListener -----------------------------
(***************************************************************************)
(* Listeners that run in threads of their own (AsyncListener), each around *)
(* an unbounded listener of module Listener, beside the publisher.         *)
(*                                                                         *)
(* "at" is the statement of ThreadFunction a worker thread executes next.  *)
(* Between two statements the publisher may push: the stream's mutex is    *)
(* held in each of the listener's calls only, and not while the user's     *)
(* processor runs, which may itself push.                                  *)
(*                                                                         *)
(* The owner of a listener waits for it, and destroys it.  ++cycles is     *)
(* known by what WaitUntilCurrent can tell of it: whether cycles differs   *)
(* from safe_cycles.                                                       *)
(***************************************************************************)
EXTENDS Listener

AllEntries == [begin |-> ZeroKey, hasEnd |-> FALSE, end |-> ZeroKey]

ASSUME AllEntriesAssumption == AllEntries \in Ranges

VARIABLES
  at,           \* the worker thread's next statement
  terminating,  \* AsyncListener::terminating
  owner,        \* what the owner of the listener is doing
  cycled,       \* cycles # safe_cycles, of the current WaitUntilCurrent
  beyondInt,    \* cycles is larger than the largest int
  waits,        \* history: WaitUntilCurrent calls made one after the other
  due,          \* history: the entries stored when the first of them was made
  processed     \* history: the entries the processor was given and is done with

threadVars == <<at, terminating, owner, cycled, beyondInt>>

historyVars == <<waits, due, processed>>

asyncVars == <<vars, threadVars, historyVars>>

WorkerAt == {"noThread", "start", "outerLoop", "innerLoop", "reachedEnd", "hasData",
             "process", "callback", "advance", "cycle", "exited"}

OwnerAt == {"noListener", "idle", "waiting", "joining"}

AInit ==
  /\ LInit
  /\ at = [l \in Listeners |-> "noThread"]
  /\ terminating = [l \in Listeners |-> FALSE]
  /\ owner = [l \in Listeners |-> "noListener"]
  /\ cycled = [l \in Listeners |-> FALSE]
  /\ beyondInt = [l \in Listeners |-> FALSE]
  /\ waits = [l \in Listeners |-> 0]
  /\ due = [l \in Listeners |-> {}]
  /\ processed = [l \in Listeners |-> {}]

Goto(l, statement) == at' = [at EXCEPT ![l] = statement]

\* A worker's step that changes nothing but where it is.
Continue(l) == UNCHANGED <<vars, terminating, owner, cycled, beyondInt, historyVars>>
-----------------------------------------------------------------------------
(***************************************************************************)
(* The owner's thread.                                                     *)
(***************************************************************************)

\* The factory constructs an AsyncListener, holding the stream's mutex; the
\* constructor starts the thread.
New(l) ==
  /\ up
  /\ push = Unlocked
  /\ owner[l] = "noListener"
  /\ owner' = [owner EXCEPT ![l] = "idle"]
  /\ Goto(l, "start")
  /\ terminating' = [terminating EXCEPT ![l] = FALSE]
  /\ beyondInt' = [beyondInt EXCEPT ![l] = FALSE]
  /\ waits' = [waits EXCEPT ![l] = 0]
  /\ due' = [due EXCEPT ![l] = {}]
  /\ processed' = [processed EXCEPT ![l] = {}]
  /\ UNCHANGED <<vars, cycled>>

\* The value cycles has as the int safe_cycles: another one if it does not fit.
SafeCyclesDiffers(l) == beyondInt[l]

\* WaitUntilCurrent reads cycles; the call is the first of a sequence of calls or
\* follows the one before.
BeginWait(l) ==
  /\ owner[l] = "idle"
  /\ owner' = [owner EXCEPT ![l] = "waiting"]
  /\ cycled' = [cycled EXCEPT ![l] = SafeCyclesDiffers(l)]
  /\ \/ waits' = [waits EXCEPT ![l] = 1] /\ due' = [due EXCEPT ![l] = stored.data]
     \/ waits[l] = 1 /\ waits' = [waits EXCEPT ![l] = 2] /\ UNCHANGED due
  /\ UNCHANGED <<vars, at, terminating, beyondInt, processed>>

\* A defect: it returns at the first look, whatever cycles is.
EndWaitAtOnce(l) ==
  /\ owner[l] = "waiting"
  /\ owner' = [owner EXCEPT ![l] = "idle"]
  /\ UNCHANGED <<vars, at, terminating, cycled, beyondInt, historyVars>>

\* It returns when it finds cycles changed.
EndWait(l) ==
  /\ owner[l] = "waiting"
  /\ cycled[l]
  /\ owner' = [owner EXCEPT ![l] = "idle"]
  /\ UNCHANGED <<vars, at, terminating, cycled, beyondInt, historyVars>>

\* A defect: the destructor joins without asking the thread to terminate.
DeleteWithoutFlag(l) ==
  /\ owner[l] = "idle"
  /\ owner' = [owner EXCEPT ![l] = "joining"]
  /\ UNCHANGED <<vars, at, terminating, cycled, beyondInt, historyVars>>

\* A defect: the thread is detached, not joined.
DeleteDetaches(l) ==
  /\ owner[l] = "idle"
  /\ owner' = [owner EXCEPT ![l] = "noListener"]
  /\ terminating' = [terminating EXCEPT ![l] = TRUE]
  /\ UNCHANGED <<vars, at, cycled, beyondInt, historyVars>>

\* The destructor asks the thread to terminate and joins it.
Delete(l) ==
  /\ owner[l] = "idle"
  /\ owner' = [owner EXCEPT ![l] = "joining"]
  /\ terminating' = [terminating EXCEPT ![l] = TRUE]
  /\ UNCHANGED <<vars, at, cycled, beyondInt, historyVars>>

Join(l) ==
  /\ owner[l] = "joining"
  /\ at[l] = "exited"
  /\ owner' = [owner EXCEPT ![l] = "noListener"]
  /\ Goto(l, "noThread")
  /\ UNCHANGED <<vars, terminating, cycled, beyondInt, historyVars>>
-----------------------------------------------------------------------------
(***************************************************************************)
(* The worker thread: ThreadFunction, statement by statement.              *)
(***************************************************************************)

\* INTERNAL_UnsafeListener impl(stream)
StartThread(l) ==
  /\ at[l] = "start"
  /\ Construct(l, AllEntries)
  /\ Goto(l, "outerLoop")
  /\ UNCHANGED <<terminating, owner, cycled, beyondInt, historyVars>>

\* while (!terminating), the end of which destroys impl
OuterLoop(l) ==
  /\ at[l] = "outerLoop"
  /\ \/ ~terminating[l] /\ Goto(l, "innerLoop") /\ UNCHANGED vars
     \/ terminating[l] /\ Goto(l, "exited") /\ Destroy(l)
  /\ UNCHANGED <<terminating, owner, cycled, beyondInt, historyVars>>

\* while (!terminating && ...
InnerLoop(l) ==
  /\ at[l] = "innerLoop"
  /\ Goto(l, IF terminating[l] THEN "cycle" ELSE "reachedEnd")
  /\ Continue(l)

\* ... !impl.ReachedEnd() && ...
CallReachedEnd(l) ==
  /\ at[l] = "reachedEnd"
  /\ Look(l)
  /\ Goto(l, IF lis'[l].reachedEnd THEN "cycle" ELSE "hasData")
  /\ UNCHANGED <<terminating, owner, cycled, beyondInt, historyVars>>

\* A defect: the loop is entered whatever HasData returns.
IgnoreHasData(l) ==
  /\ at[l] = "hasData"
  /\ Look(l)
  /\ Goto(l, "process")
  /\ UNCHANGED <<terminating, owner, cycled, beyondInt, historyVars>>

\* ... impl.HasData())
CallHasData(l) ==
  /\ at[l] = "hasData"
  /\ Look(l)
  /\ Goto(l, IF HasData(lis[l]) THEN "process" ELSE "cycle")
  /\ UNCHANGED <<terminating, owner, cycled, beyondInt, historyVars>>

\* impl.ProcessEntrySync(processor), up to the call of the processor
CallProcessEntrySync(l) ==
  /\ at[l] = "process"
  /\ ProcessEntrySync(l)
  /\ Goto(l, "callback")
  /\ UNCHANGED <<terminating, owner, cycled, beyondInt, historyVars>>

\* The processor returns.
Callback(l) ==
  /\ at[l] = "callback"
  /\ processed' = [processed EXCEPT ![l] = @ \union {lis[l].entry}]
  /\ Goto(l, "advance")
  /\ UNCHANGED <<vars, terminating, owner, cycled, beyondInt, waits, due>>

\* A defect: the entry is processed and the listener does not advance.
ForgetToAdvance(l) ==
  /\ at[l] = "advance"
  /\ Goto(l, "innerLoop")
  /\ Continue(l)

\* impl.AdvanceToNextEntry()
CallAdvanceToNextEntry(l) ==
  /\ at[l] = "advance"
  /\ AdvanceToNextEntry(l)
  /\ Goto(l, "innerLoop")
  /\ UNCHANGED <<terminating, owner, cycled, beyondInt, historyVars>>

\* A defect: the cycle that ends the loop is the only one counted.
CountLastCycle(l) ==
  /\ at[l] = "cycle"
  /\ cycled' = [cycled EXCEPT ![l] = @ \/ terminating[l]]
  /\ Goto(l, "outerLoop")
  /\ UNCHANGED <<vars, terminating, owner, beyondInt, historyVars>>

\* ++cycles, which may bring cycles past the largest int.
Cycle(l) ==
  /\ at[l] = "cycle"
  /\ cycled' = [cycled EXCEPT ![l] = TRUE]
  /\ \E over \in {beyondInt[l], TRUE} : beyondInt' = [beyondInt EXCEPT ![l] = over]
  /\ Goto(l, "outerLoop")
  /\ UNCHANGED <<vars, terminating, owner, historyVars>>

Worker(l) ==
  \/ StartThread(l)
  \/ OuterLoop(l)
  \/ InnerLoop(l)
  \/ CallReachedEnd(l)
  \/ CallHasData(l)
  \/ CallProcessEntrySync(l)
  \/ Callback(l)
  \/ CallAdvanceToNextEntry(l)
  \/ Cycle(l)

Owner(l) == New(l) \/ BeginWait(l) \/ EndWait(l) \/ Delete(l) \/ Join(l)

\* The publisher's thread; the process starts.
Publish == (Start \/ PushStep) /\ UNCHANGED <<lisVars, threadVars, historyVars>>

\* The process ends.  So it does when the processor, or the deserialization of the
\* entry, throws: nothing in ThreadFunction catches.
ProcessEnds ==
  /\ Crash
  /\ lis' = [l \in Listeners |-> NotConstructed]
  /\ at' = [l \in Listeners |-> "noThread"]
  /\ owner' = [l \in Listeners |-> "noListener"]
  /\ UNCHANGED <<begin, consumed, terminating, cycled, beyondInt, historyVars>>

ANext == Publish \/ ProcessEnds \/ \E l \in Listeners : Owner(l) \/ Worker(l)

ASpec == AInit /\ [][ANext]_asyncVars

\* Threads are scheduled; a call that holds the stream's mutex gets on with it.
\* No fairness of the mutex is assumed: a worker may wait for it while the
\* publisher takes it again and again.  Nobody has to push, wait or delete.
Fairness ==
  /\ WF_asyncVars(Publish /\ push # Unlocked)
  /\ \A l \in Listeners :
       /\ WF_asyncVars(Worker(l))
       /\ WF_asyncVars(EndWait(l))
       /\ WF_asyncVars(Join(l))

FairASpec == ASpec /\ Fairness
-----------------------------------------------------------------------------
(***************************************************************************)
(* Correctness.                                                            *)
(***************************************************************************)

Running(l) == owner[l] \in {"idle", "waiting"}

\* The types; and a listener has a thread exactly while it exists, so that no
\* thread outlives the AsyncListener it belongs to, and impl lives in between.
ATypeOK ==
  /\ at \in [Listeners -> WorkerAt]
  /\ terminating \in [Listeners -> BOOLEAN]
  /\ owner \in [Listeners -> OwnerAt]
  /\ cycled \in [Listeners -> BOOLEAN]
  /\ beyondInt \in [Listeners -> BOOLEAN]
  /\ waits \in [Listeners -> 0 .. 2]
  /\ due \in [Listeners -> SUBSET Key]
  /\ processed \in [Listeners -> SUBSET Key]
  /\ \A l \in Listeners :
       /\ owner[l] = "noListener" <=> at[l] = "noThread"
       /\ lis[l].alive <=> at[l] \notin {"noThread", "start", "exited"}

\* ProcessEntrySync and AdvanceToNextEntry never throw in the worker thread, where
\* nothing would catch: what HasData said, and what ProcessEntrySync found, still
\* holds when the mutex is taken again.
WorkerNeverThrows ==
  \A l \in Listeners : at[l] \in {"process", "callback", "advance"} => HasData(lis[l])

\* The processor is given the first entry of the stream it was not given before,
\* and the listener advances past the very entry that was processed, although the
\* mutex is released in between.
ProcessesNextEntry ==
  \A l \in Listeners :
    /\ at[l] = "callback" => IsFirst(lis[l].entry, stored.data \ processed[l])
    /\ at[l] = "advance" => IsFirst(lis[l].entry, Remaining(lis[l]))

\* Two WaitUntilCurrent calls in a row are a barrier: whatever was stored before
\* the first of them has been processed when the second returns.  That is, while
\* cycles fits the int it is copied to; beyond it no number of calls is one.
WaitTwiceIsBarrier ==
  \A l \in Listeners :
    owner[l] = "idle" /\ waits[l] = 2 /\ ~beyondInt[l] => due[l] \subseteq processed[l]

\* What the tests take one WaitUntilCurrent call for.
WaitIsBarrier ==
  \A l \in Listeners : owner[l] = "idle" /\ waits[l] # 0 => due[l] \subseteq processed[l]

\* From some time on no call holds the stream's mutex.
Quiet == <>[](push = Unlocked)

\* Once the publisher is quiet a listener catches up with all that is stored,
\* without being poked, and whatever its iterator was created before.
EventuallyCurrent ==
  Quiet => \A l \in Listeners : []<>(Running(l) => stored.data \subseteq processed[l])

\* ... and WaitUntilCurrent returns, with data left to process or without.
WaitReturns ==
  Quiet => \A l \in Listeners : owner[l] = "waiting" ~> owner[l] # "waiting"

\* ... and the destructor returns.
DeleteReturns ==
  Quiet => \A l \in Listeners : owner[l] = "joining" ~> owner[l] = "noListener"
-----------------------------------------------------------------------------
(***************************************************************************)
(* The inductive invariant: what a worker knows of its listener at each    *)
(* statement, and an owner of the worker while it waits.                   *)
(***************************************************************************)

\* The listener reads all of the stream; in the body of the loop, the mutex
\* released, it has an iterator, and the entry processed is its first.
ShowsAtStatement(l) ==
  /\ lis[l].alive => begin[l] = ZeroKey /\ ~lis[l].hasEnd
  /\ at[l] = "hasData" /\ lis[l].open => lis[l].rest # {}
  /\ at[l] \in {"process", "callback", "advance"} => lis[l].open /\ lis[l].rest # {}
  /\ at[l] \in {"callback", "advance"} => IsFirst(lis[l].entry, lis[l].rest)

\* What was processed is what the listener has advanced past, or is about to.
ProcessedIsConsumed(l) ==
  /\ at[l] = "start" => processed[l] = {}
  /\ lis[l].alive =>
       processed[l] = consumed[l] \union (IF at[l] = "advance" THEN {lis[l].entry} ELSE {})

\* Nobody terminates a listener that its owner uses.
DueWasStored(l) == Running(l) => ~terminating[l] /\ due[l] \subseteq stored.data

\* A cycle has ended since the last wait began.
CycledSince(l) == owner[l] = "idle" \/ cycled[l]

\* A wait may end with a cycle that found no data before the wait began; the cycle
\* after that has looked since.
SecondCycleLooked(l) ==
  Running(l) /\ ~beyondInt[l] =>
    /\ waits[l] = 1 /\ CycledSince(l) /\ at[l] = "cycle" => due[l] \subseteq processed[l]
    /\ waits[l] = 2 /\ (CycledSince(l) \/ at[l] = "cycle") => due[l] \subseteq processed[l]

Sound(l) ==
  ShowsAtStatement(l) /\ ProcessedIsConsumed(l) /\ DueWasStored(l) /\ SecondCycleLooked(l)

AInv ==
  /\ ATypeOK
  /\ \A l \in Listeners : Sound(l)
=============================================================================
