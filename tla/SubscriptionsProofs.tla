-------------------------- MODULE SubscriptionsProofs --------------------------
(***************************************************************************)
(* For any number of listeners, and of threads that construct and destroy  *)
(* them: whom the walk of the subscribers races with, and what the mutex   *)
(* of the stream excludes.                                                 *)
(***************************************************************************)
EXTENDS Subscriptions, TLAPS

LEMMA NobodyIsNoThread == Nobody \notin Owners /\ Nobody \notin Listeners
  BY SubscriptionsAssumption DEF Threads

LEMMA SubInvInit == SubInit => SubInv
<1> SUFFICES ASSUME SubInit PROVE SubInv
  OBVIOUS
<1> USE SubscriptionsAssumption DEF SubInit
<1>1. SubTypeOK
  BY DEF SubTypeOK, Threads, ThreadAt
<1>2. HoldersHoldMutex
  BY DEF HoldersHoldMutex
<1>3. InTheirPlaces
  BY DEF InTheirPlaces, Threads
<1>4. BusyWithOne
  BY NobodyIsNoThread DEF BusyWithOne, Busy
<1> QED
  BY <1>1, <1>2, <1>3, <1>4 DEF SubInv

LEMMA SubInvStep == SubInv /\ [SubNext]_subVars => SubInv'
<1> SUFFICES ASSUME SubInv, [SubNext]_subVars PROVE SubInv'
  OBVIOUS
<1> USE SubscriptionsAssumption, NobodyIsNoThread
    DEF SubInv, SubTypeOK, HoldersHoldMutex, InTheirPlaces, BusyWithOne, BusyAsAt, Busy,
        Threads, ThreadAt, Goto
<1>1. ASSUME NEW t \in Threads, BeginPush(t) PROVE SubInv'
  BY <1>1 DEF BeginPush
<1>2. ASSUME NEW t \in Threads, LockStream(t) PROVE SubInv'
  BY <1>2 DEF LockStream
<1>3. ASSUME NEW t \in Threads, UnlockStream(t) PROVE SubInv'
  BY <1>3 DEF UnlockStream
<1>4. ASSUME NEW t \in Threads, PokeNext(t) PROVE SubInv'
  <2>1. UNCHANGED <<mutex, subscribers, changing, owner, terminating>> /\ at[t] = "walking"
    BY <1>4 DEF PokeNext
  <2>2. CASE /\ \E l \in subscribers : poked' = [poked EXCEPT ![t] = l]
             /\ UNCHANGED at
    BY <2>1, <2>2
  <2>3. CASE poked' = [poked EXCEPT ![t] = 0] /\ Goto(t, "idle")
    BY <2>1, <2>3
  <2> QED
    BY <1>4, <2>2, <2>3 DEF PokeNext
<1>5. ASSUME NEW o \in Owners, NEW l \in Listeners, Construct(o, l) PROVE SubInv'
  BY <1>5 DEF Construct
<1>6. ASSUME NEW o \in Owners, NEW l \in Listeners, RegisterSubscriber(o, l) PROVE SubInv'
  BY <1>6 DEF RegisterSubscriber
<1>7. ASSUME NEW o \in Owners, NEW l \in Listeners, StartThread(o, l) PROVE SubInv'
  BY <1>7 DEF StartThread
<1>8. ASSUME NEW o \in Owners, Return(o) PROVE SubInv'
  BY <1>8 DEF Return
<1>9. ASSUME NEW o \in Owners, NEW l \in Listeners, Destroy(o, l) PROVE SubInv'
  BY <1>9 DEF Destroy
<1>10. ASSUME NEW l \in Listeners, Exit(l) PROVE SubInv'
  BY <1>10 DEF Exit
<1>11. ASSUME NEW o \in Owners, NEW l \in Listeners, Join(o, l) PROVE SubInv'
  BY <1>11 DEF Join
<1>12. ASSUME NEW o \in Owners, NEW l \in Listeners, UnregisterSubscriber(o, l) PROVE SubInv'
  BY <1>12 DEF UnregisterSubscriber
<1>13. CASE UNCHANGED subVars
  BY <1>13 DEF subVars
<1> QED
  BY <1>1, <1>2, <1>3, <1>4, <1>5, <1>6, <1>7, <1>8, <1>9, <1>10, <1>11, <1>12, <1>13
  DEF SubNext, PushStep, OwnerStep

\* The invariant holds in every state.
THEOREM SubscriptionsInvariance == SubSpec => []SubInv
  BY SubInvInit, SubInvStep, PTL DEF SubSpec
-----------------------------------------------------------------------------
\* What is subscribed exists.
THEOREM SubscribersExist == SubSpec => []SubTypeOK
<1>1. SubInv => SubTypeOK
  BY DEF SubInv
<1> QED
  BY <1>1, SubscriptionsInvariance, PTL

\* A walk races with the listeners of other threads only.
THEOREM ForeignRaces == SubSpec => []RacesAreForeign
<1>1. SubInv => RacesAreForeign
  BY NobodyIsNoThread
  DEF SubInv, SubTypeOK, InTheirPlaces, BusyWithOne, BusyAsAt, Busy, RacesAreForeign, Racing
<1> QED
  BY <1>1, SubscriptionsInvariance, PTL

\* A subscription excludes others, and pushes.
THEOREM Exclusion == SubSpec => []SubscriptionsExclude
<1>1. SubInv => SubscriptionsExclude
  BY DEF SubInv, HoldersHoldMutex, SubscriptionsExclude, Threads
<1> QED
  BY <1>1, SubscriptionsInvariance, PTL
=============================================================================
