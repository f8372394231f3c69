----------------------------- MODULE Subscriptions -----------------------------
(***************************************************************************)
(* The set of a stream's subscribers (SubscriptionsManager), which every   *)
(* push walks after it has released the stream's mutex, and which changes  *)
(* when an AsyncListener is constructed or destroyed.                      *)
(*                                                                         *)
(* Owners are threads that construct and destroy listeners and push, such  *)
(* as that of main, or of a request that streams.  The worker thread of a  *)
(* listener pushes when its processor does; it goes by the listener's      *)
(* name.  Nothing keeps a walk from a change: the walk is a sequence of    *)
(* steps, and a change has a beginning and an end.  When they overlap the  *)
(* behaviour of the code is undefined; the model goes on as if they had    *)
(* not, and the properties say whose walk and whose change may overlap.    *)
(***************************************************************************)
EXTENDS Naturals, FiniteSets

CONSTANTS
  Listeners,    \* the AsyncListeners, numbers for the order of their addresses
  Owners,       \* the threads that construct and destroy them
  Nobody        \* no thread has the mutex, owns the listener

Threads == Owners \union Listeners

ASSUME SubscriptionsAssumption ==
  /\ IsFiniteSet(Listeners) /\ Listeners \subseteq Nat \ {0}
  /\ Owners \intersect Listeners = {}
  /\ Nobody \notin Threads

VARIABLES
  mutex,        \* the thread that holds the stream's mutex
  subscribers,  \* subscribers: std::set
  changing,     \* the listeners whose insertion or removal is under way
  at,           \* where each thread is
  poked,        \* the subscriber a thread's walk has come to, 0 before the first
  owner,        \* the thread that constructed the listener and destroys it
  terminating   \* AsyncListener::terminating

subVars == <<mutex, subscribers, changing, at, poked, owner, terminating>>

\* A worker that is idle is between two entries.
ThreadAt == {"none", "idle", "locking", "pushing", "walking", "exited",
             "registering", "starting", "returning", "joining", "unregistering"}

SubInit ==
  /\ mutex = Nobody
  /\ subscribers = {}
  /\ changing = {}
  /\ at = [t \in Threads |-> IF t \in Owners THEN "idle" ELSE "none"]
  /\ poked = [t \in Threads |-> 0]
  /\ owner = [l \in Listeners |-> Nobody]
  /\ terminating = [l \in Listeners |-> FALSE]

Goto(t, where) == at' = [at EXCEPT ![t] = where]

\* The listener of o that o is constructing or destroying.
Busy(o, l) == owner[l] = o /\ (l \in changing \/ at[l] = "none" \/ terminating[l])
-----------------------------------------------------------------------------
(***************************************************************************)
(* Publisher::Push and PushHead.                                           *)
(***************************************************************************)

\* A thread pushes; a worker has looked at terminating before.
BeginPush(t) ==
  /\ at[t] = "idle"
  /\ t \in Listeners => ~terminating[t]
  /\ Goto(t, "locking")
  /\ UNCHANGED <<mutex, subscribers, changing, poked, owner, terminating>>

LockStream(t) ==
  /\ at[t] = "locking"
  /\ mutex = Nobody
  /\ mutex' = t
  /\ Goto(t, "pushing")
  /\ UNCHANGED <<subscribers, changing, poked, owner, terminating>>

\* The push is done and the mutex released, before PokeAll; or the push throws.
UnlockStream(t) ==
  /\ at[t] = "pushing"
  /\ mutex' = Nobody
  /\ \E next \in {"walking", "idle"} : Goto(t, next)
  /\ UNCHANGED <<subscribers, changing, poked, owner, terminating>>

\* The order of addresses.
IsFirst(l, S) == l \in S /\ \A m \in S : l <= m

\* A defect: the walk begins again after each subscriber, to be safe from changes.
PokeFirst(t) ==
  /\ at[t] = "walking"
  /\ \/ /\ \E l \in subscribers : IsFirst(l, subscribers) /\ poked' = [poked EXCEPT ![t] = l]
        /\ UNCHANGED at
     \/ subscribers = {} /\ poked' = [poked EXCEPT ![t] = 0] /\ Goto(t, "idle")
  /\ UNCHANGED <<mutex, subscribers, changing, owner, terminating>>

\* PokeAll: the next subscriber in the order of addresses, if there is one.
PokeNext(t) ==
  /\ at[t] = "walking"
  /\ LET ahead == {l \in subscribers : l > poked[t]}
     IN \/ /\ \E l \in ahead : IsFirst(l, ahead) /\ poked' = [poked EXCEPT ![t] = l]
           /\ UNCHANGED at
        \/ ahead = {} /\ poked' = [poked EXCEPT ![t] = 0] /\ Goto(t, "idle")
  /\ UNCHANGED <<mutex, subscribers, changing, owner, terminating>>
-----------------------------------------------------------------------------
(***************************************************************************)
(* The factory, and the constructor of AsyncListener.                      *)
(***************************************************************************)

\* A defect: the factory does not lock the mutex.
ConstructUnlocked(o, l) ==
  /\ at[o] = "idle"
  /\ owner[l] = Nobody
  /\ owner' = [owner EXCEPT ![l] = o]
  /\ changing' = changing \union {l}
  /\ Goto(o, "registering")
  /\ UNCHANGED <<mutex, subscribers, poked, terminating>>

\* The factory locks the mutex; "subscribe" is constructed before the thread.
Construct(o, l) ==
  /\ at[o] = "idle"
  /\ mutex = Nobody
  /\ owner[l] = Nobody
  /\ mutex' = o
  /\ owner' = [owner EXCEPT ![l] = o]
  /\ changing' = changing \union {l}
  /\ Goto(o, "registering")
  /\ UNCHANGED <<subscribers, poked, terminating>>

RegisterSubscriber(o, l) ==
  /\ at[o] = "registering"
  /\ Busy(o, l)
  /\ subscribers' = subscribers \union {l}
  /\ changing' = changing \ {l}
  /\ Goto(o, "starting")
  /\ UNCHANGED <<mutex, poked, owner, terminating>>

StartThread(o, l) ==
  /\ at[o] = "starting"
  /\ Busy(o, l)
  /\ at' = [at EXCEPT ![o] = "returning", ![l] = "idle"]
  /\ UNCHANGED <<mutex, subscribers, changing, poked, owner, terminating>>

Return(o) ==
  /\ at[o] = "returning"
  /\ mutex' = Nobody
  /\ Goto(o, "idle")
  /\ UNCHANGED <<subscribers, changing, poked, owner, terminating>>
-----------------------------------------------------------------------------
(***************************************************************************)
(* The destructor of AsyncListener.                                        *)
(***************************************************************************)

\* A defect: "subscribe" is destroyed before the thread is joined.
DestroyUnsubscribes(o, l) ==
  /\ at[o] = "idle"
  /\ owner[l] = o
  /\ terminating' = [terminating EXCEPT ![l] = TRUE]
  /\ changing' = changing \union {l}
  /\ Goto(o, "unregistering")
  /\ UNCHANGED <<mutex, subscribers, poked, owner>>

\* The body asks the worker to terminate ...
Destroy(o, l) ==
  /\ at[o] = "idle"
  /\ owner[l] = o
  /\ terminating' = [terminating EXCEPT ![l] = TRUE]
  /\ Goto(o, "joining")
  /\ UNCHANGED <<mutex, subscribers, changing, poked, owner>>

\* ... which it finds out between two entries ...
Exit(l) ==
  /\ at[l] = "idle"
  /\ terminating[l]
  /\ Goto(l, "exited")
  /\ UNCHANGED <<mutex, subscribers, changing, poked, owner, terminating>>

\* ... and joins it.  The members follow, without a mutex.
Join(o, l) ==
  /\ at[o] = "joining"
  /\ Busy(o, l)
  /\ at[l] = "exited"
  /\ changing' = changing \union {l}
  /\ Goto(o, "unregistering")
  /\ UNCHANGED <<mutex, subscribers, poked, owner, terminating>>

\* A defect: the subscriber stays in the set.
ForgetToUnregister(o, l) ==
  /\ at[o] = "unregistering"
  /\ Busy(o, l)
  /\ changing' = changing \ {l}
  /\ owner' = [owner EXCEPT ![l] = Nobody]
  /\ terminating' = [terminating EXCEPT ![l] = FALSE]
  /\ at' = [at EXCEPT ![o] = "idle", ![l] = "none"]
  /\ UNCHANGED <<mutex, subscribers, poked>>

UnregisterSubscriber(o, l) ==
  /\ at[o] = "unregistering"
  /\ Busy(o, l)
  /\ subscribers' = subscribers \ {l}
  /\ changing' = changing \ {l}
  /\ owner' = [owner EXCEPT ![l] = Nobody]
  /\ terminating' = [terminating EXCEPT ![l] = FALSE]
  /\ at' = [at EXCEPT ![o] = "idle", ![l] = "none"]
  /\ UNCHANGED <<mutex, poked>>

PushStep(t) == LockStream(t) \/ UnlockStream(t) \/ PokeNext(t)

OwnerStep(o) ==
  \/ Return(o)
  \/ \E l \in Listeners :
       \/ RegisterSubscriber(o, l)
       \/ StartThread(o, l)
       \/ Join(o, l)
       \/ UnregisterSubscriber(o, l)

SubNext ==
  \/ \E t \in Threads : BeginPush(t) \/ PushStep(t)
  \/ \E o \in Owners :
       \/ OwnerStep(o)
       \/ \E l \in Listeners : Construct(o, l) \/ Destroy(o, l)
  \/ \E l \in Listeners : Exit(l)

SubSpec == SubInit /\ [][SubNext]_subVars

\* Threads are scheduled; a thread that waits for the mutex gets it if it is free
\* from some time on.  Nobody has to push, construct or destroy.
Fairness ==
  /\ \A t \in Threads : WF_subVars(PushStep(t))
  /\ \A o \in Owners : WF_subVars(OwnerStep(o))
  /\ \A l \in Listeners : WF_subVars(Exit(l))

FairSubSpec == SubSpec /\ Fairness
-----------------------------------------------------------------------------
(***************************************************************************)
(* Correctness.                                                            *)
(***************************************************************************)

\* The types; and what is subscribed, or being added or removed, exists: PokeAll
\* never goes to an object that was destroyed before it began.
SubTypeOK ==
  /\ mutex \in Threads \union {Nobody}
  /\ at \in [Threads -> ThreadAt]
  /\ poked \in [Threads -> Listeners \union {0}]
  /\ owner \in [Listeners -> Owners \union {Nobody}]
  /\ terminating \in [Listeners -> BOOLEAN]
  /\ subscribers \union changing \subseteq {l \in Listeners : owner[l] # Nobody}

\* The set changes under a thread's walk: a data race.
Racing(t, l) == at[t] = "walking" /\ l \in changing

\* A thread that walks the set races with the construction and the destruction of
\* other threads' listeners only: the worker of a listener, whose processor may
\* push, runs after the listener is subscribed and ends before it is unsubscribed,
\* so that a thread with the one listener of a stream is safe.
RacesAreForeign ==
  \A t \in Threads : \A l \in Listeners : Racing(t, l) => t # l /\ t # owner[l]

\* Two listeners are never subscribed at the same time, nor one while a push holds the
\* mutex, whichever threads construct them; the walk that follows the push is without it.
SubscriptionsExclude ==
  \A o \in Owners : at[o] = "registering" =>
    \A t \in Threads \ {o} : at[t] \notin {"registering", "pushing"}

\* The threads other than t are done with the mutex for ever.
OthersQuiet(t) ==
  <>[](\A u \in Threads \ {t} :
         at[u] \notin {"pushing", "registering", "starting", "returning"})

\* The destructor returns although the worker it waits for may be about to push,
\* for which it needs the mutex, or walking the set it is still in itself.
DestructorReturns ==
  \A l \in Listeners : OthersQuiet(l) => (terminating[l] ~> ~terminating[l])
-----------------------------------------------------------------------------
(***************************************************************************)
(* The inductive invariant: who is where, and what an owner's step tells   *)
(* of the one listener it is busy with.                                    *)
(***************************************************************************)
HoldersHoldMutex ==
  \A t \in Threads :
    at[t] \in {"pushing", "registering", "starting", "returning"} => mutex = t

InTheirPlaces ==
  /\ \A o \in Owners : at[o] \notin {"none", "exited"}
  /\ \A l \in Listeners :
       /\ at[l] \in {"none", "idle", "locking", "pushing", "walking", "exited"}
       /\ owner[l] = Nobody => at[l] = "none" /\ l \notin changing /\ ~terminating[l]

BusyAsAt(o, l) ==
  \/ at[o] = "registering" /\ at[l] = "none" /\ l \in changing /\ ~terminating[l]
  \/ at[o] = "starting" /\ at[l] = "none" /\ l \notin changing /\ ~terminating[l]
  \/ at[o] = "joining" /\ at[l] # "none" /\ l \notin changing /\ terminating[l]
  \/ at[o] = "unregistering" /\ at[l] = "exited" /\ l \in changing /\ terminating[l]

BusyWithOne ==
  \A o \in Owners :
    /\ \A l \in Listeners : Busy(o, l) => BusyAsAt(o, l)
    /\ \A l, m \in Listeners : Busy(o, l) /\ Busy(o, m) => l = m

SubInv ==
  /\ SubTypeOK
  /\ HoldersHoldMutex
  /\ InTheirPlaces
  /\ BusyWithOne
=============================================================================
