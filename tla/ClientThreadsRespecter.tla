------------------------ MODULE ClientThreadsRespecter ------------------------
(***************************************************************************)
(* An object whose destructor waits for the threads that use it.           *)
(*                                                                         *)
(* ref_count_ counts the Client objects, one of which, client_, belongs to *)
(* the object itself until its destructor runs.  The mutex is held while   *)
(* the count is not zero; the destructor waits for it.                     *)
(*                                                                         *)
(* Each access to an atomic or to the mutex is a step.  A thread registers *)
(* clients with RegisterScopedClient and destroys them in the opposite     *)
(* order; "clients" is how many it has.                                    *)
(***************************************************************************)
EXTENDS Naturals, FiniteSets

CONSTANTS
  Threads,       \* the threads that use the object
  MaxClients     \* bound: how many clients a thread has at a time

ASSUME RespecterAssumption ==
  /\ IsFiniteSet(Threads)
  /\ MaxClients \in Nat \ {0}

VARIABLES
  ref_count,    \* ref_count_
  destructing,  \* destructing_
  locked,       \* ref_count_is_zero_mutex_ is held
  owner,        \* the next step of the thread that destroys the object
  at,           \* the next step of each thread
  clients,      \* how many clients each thread has
  touched,      \* history: a thread has used the object after its destruction
  late,         \* history: a client was counted after the count had come to zero
  unheld        \* history: a client was registered by a thread that had none

respecterVars == <<ref_count, destructing, locked, owner, at, clients, touched, late, unheld>>

OwnerAt == {"using", "release", "unlock", "lock", "destroyed"}

ThreadAt == {"running", "count", "lock", "unlock"}

Destroyed == owner = "destroyed"

\* The owner has handed a client to some of the threads.
Init ==
  /\ \E holders \in SUBSET Threads :
       /\ ref_count = 1 + Cardinality(holders)
       /\ clients = [t \in Threads |-> IF t \in holders THEN 1 ELSE 0]
  /\ destructing = FALSE
  /\ locked = TRUE
  /\ owner = "using"
  /\ at = [t \in Threads |-> "running"]
  /\ touched = FALSE
  /\ late = FALSE
  /\ unheld = FALSE

\* A step of t that uses the object, which may be gone.
Uses(t, next) ==
  /\ at' = [at EXCEPT ![t] = next]
  /\ touched' = (touched \/ Destroyed)
-----------------------------------------------------------------------------
(***************************************************************************)
(* Client::Client, Client::~Client.                                        *)
(***************************************************************************)

\* The constructor of Client finds the object not being destroyed.  Otherwise it
\* throws AlreadyInTearDownModeException, RunClientCode returns false, and nothing
\* has changed.
CheckDestructing(t) ==
  /\ at[t] = "running"
  /\ ~Destroyed
  /\ clients[t] < MaxClients
  /\ ~destructing
  /\ Uses(t, "count")
  /\ unheld' = (unheld \/ clients[t] = 0)
  /\ UNCHANGED <<ref_count, destructing, locked, owner, clients, late>>

\* A defect: only the first client counts.
CountOnce(t) ==
  /\ at[t] = "count"
  /\ ref_count' = IF ref_count = 0 THEN 1 ELSE ref_count
  /\ late' = (late \/ ref_count = 0)
  /\ IF ref_count = 0
     THEN Uses(t, "lock") /\ UNCHANGED clients
     ELSE Uses(t, "running") /\ clients' = [clients EXCEPT ![t] = @ + 1]
  /\ UNCHANGED <<destructing, locked, owner, unheld>>

\* ref_count_++, and the first client locks the mutex.
Count(t) ==
  /\ at[t] = "count"
  /\ ref_count' = ref_count + 1
  /\ late' = (late \/ ref_count = 0)
  /\ IF ref_count = 0
     THEN Uses(t, "lock") /\ UNCHANGED clients
     ELSE Uses(t, "running") /\ clients' = [clients EXCEPT ![t] = @ + 1]
  /\ UNCHANGED <<destructing, locked, owner, unheld>>

LockMutex(t) ==
  /\ at[t] = "lock"
  /\ ~locked
  /\ locked' = TRUE
  /\ Uses(t, "running")
  /\ clients' = [clients EXCEPT ![t] = @ + 1]
  /\ UNCHANGED <<ref_count, destructing, owner, late, unheld>>

\* The destructor of Client: --ref_count_.
Discount(t) ==
  /\ at[t] = "running"
  /\ clients[t] > 0
  /\ clients' = [clients EXCEPT ![t] = @ - 1]
  /\ ref_count' = ref_count - 1
  /\ Uses(t, IF ref_count = 1 THEN "unlock" ELSE "running")
  /\ UNCHANGED <<destructing, locked, owner, late, unheld>>

\* The last client unlocks the mutex.
UnlockMutex(t) ==
  /\ at[t] = "unlock"
  /\ locked' = FALSE
  /\ Uses(t, "running")
  /\ UNCHANGED <<ref_count, destructing, owner, clients, late, unheld>>
-----------------------------------------------------------------------------
(***************************************************************************)
(* ClientThreadsRespecter::~ClientThreadsRespecter.                        *)
(***************************************************************************)
ThreadsUnchanged == UNCHANGED <<at, clients, touched, late, unheld>>

\* A defect: the object is not marked as being destroyed.
BeginWithoutMark ==
  /\ owner = "using"
  /\ owner' = "release"
  /\ UNCHANGED <<ref_count, destructing, locked>>
  /\ ThreadsUnchanged

BeginDestruction ==
  /\ owner = "using"
  /\ destructing' = TRUE
  /\ owner' = "release"
  /\ UNCHANGED <<ref_count, locked>>
  /\ ThreadsUnchanged

\* A defect: client_ is destroyed as a member, after the body of the destructor.
KeepClient ==
  /\ owner = "release"
  /\ owner' = "lock"
  /\ UNCHANGED <<ref_count, destructing, locked>>
  /\ ThreadsUnchanged

\* client_ is moved out and destroyed.
ReleaseClient ==
  /\ owner = "release"
  /\ ref_count' = ref_count - 1
  /\ owner' = IF ref_count = 1 THEN "unlock" ELSE "lock"
  /\ UNCHANGED <<destructing, locked>>
  /\ ThreadsUnchanged

OwnerUnlocks ==
  /\ owner = "unlock"
  /\ locked' = FALSE
  /\ owner' = "lock"
  /\ UNCHANGED <<ref_count, destructing>>
  /\ ThreadsUnchanged

\* A defect: the destructor does not wait for the clients.
FinishWithoutWaiting ==
  /\ owner = "lock"
  /\ locked' = TRUE
  /\ owner' = "destroyed"
  /\ UNCHANGED <<ref_count, destructing>>
  /\ ThreadsUnchanged

\* The destructor gets the mutex and the object is gone.
FinishDestruction ==
  /\ owner = "lock"
  /\ ~locked
  /\ locked' = TRUE
  /\ owner' = "destroyed"
  /\ UNCHANGED <<ref_count, destructing>>
  /\ ThreadsUnchanged

OwnerStep == ReleaseClient \/ OwnerUnlocks \/ FinishDestruction

ThreadStep(t) == Count(t) \/ LockMutex(t) \/ Discount(t) \/ UnlockMutex(t)

Next ==
  \/ BeginDestruction
  \/ OwnerStep
  \/ \E t \in Threads : CheckDestructing(t) \/ ThreadStep(t)

Spec == Init /\ [][Next]_respecterVars

\* Threads are scheduled, and clients end: client code is told to look whether it
\* is time to tear down.  Nothing makes the owner begin the destruction.
Fairness ==
  /\ WF_respecterVars(OwnerStep)
  /\ \A t \in Threads : WF_respecterVars(ThreadStep(t))

FairSpec == Spec /\ Fairness
-----------------------------------------------------------------------------
(***************************************************************************)
(* Correctness.                                                            *)
(***************************************************************************)

\* The clients of threads, the one included that a thread has counted and waits for
\* the mutex with.
Counted ==
  {c \in Threads \X (1 .. MaxClients) :
     c[2] <= clients[c[1]] + (IF at[c[1]] = "lock" THEN 1 ELSE 0)}

\* client_, the object's own.
OwnCounted == IF owner \in {"using", "release"} THEN 1 ELSE 0

\* The types; and ref_count_ counts the clients there are, whatever order threads
\* and the destructor change it in.
RespecterTypeOK ==
  /\ ref_count \in 0 .. 1 + Cardinality(Threads) * MaxClients
  /\ destructing \in BOOLEAN
  /\ locked \in BOOLEAN
  /\ owner \in OwnerAt
  /\ at \in [Threads -> ThreadAt]
  /\ clients \in [Threads -> 0 .. MaxClients]
  /\ touched \in BOOLEAN
  /\ late \in BOOLEAN
  /\ unheld \in BOOLEAN
  /\ destructing <=> owner # "using"
  /\ ref_count = Cardinality(Counted) + OwnCounted

NoClients == \A t \in Threads : clients[t] = 0

\* "An instance of ClientThreadsRespecter will wait in its destructor until all the
\* clients registered with it have successfully terminated."
DestructorWaits == Destroyed => NoClients /\ ~touched

\* It does wait when no client is counted after the count had come to zero, which
\* it does once, in the destructor.
DestructorWaitsUnlessLate == ~late => DestructorWaits

\* No client is counted that late when only threads that have a client register
\* more: a client keeps the count from coming to zero, and the clients a thread
\* with a client spawns are safe.
HeldIsNeverLate == late => unheld

\* The destructor returns once every client has ended.
DestructorReturns == owner = "release" ~> Destroyed
-----------------------------------------------------------------------------
(***************************************************************************)
(* The inductive invariant, for as long as no client is late: the mutex is *)
(* held while the count is not zero; the count comes to zero once, and     *)
(* whoever brought it there unlocks before the destructor can lock.        *)
(***************************************************************************)
Unlocking == {t \in Threads : at[t] = "unlock"}

CountedHoldMutex ==
  /\ \A t \in Threads : at[t] # "lock"
  /\ ref_count > 0 => locked /\ Unlocking = {} /\ owner \in {"using", "release", "lock"}

OneUnlocks ==
  /\ \A t, u \in Unlocking : t = u
  /\ owner = "unlock" => Unlocking = {}
  /\ owner = "unlock" \/ Unlocking # {} => locked
  /\ Destroyed => Unlocking = {}

HoldersAreCounted == ~unheld => \A t \in Threads : at[t] = "count" => clients[t] > 0

WithinBound == \A t \in Threads : at[t] \in {"count", "lock"} => clients[t] < MaxClients

RespecterInv ==
  /\ RespecterTypeOK
  /\ WithinBound
  /\ HoldersAreCounted
  /\ HeldIsNeverLate
  /\ touched => late
  /\ ~late => CountedHoldMutex /\ OneUnlocks
=============================================================================
