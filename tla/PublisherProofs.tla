---------------------------- MODULE PublisherProofs ----------------------------
(***************************************************************************)
(* Publisher is correct for every width of the keys, as long as the        *)
(* secondary key does not wrap.                                            *)
(***************************************************************************)
EXTENDS Publisher, TLAPS

(***************************************************************************)
(* The order of the keys.                                                  *)
(***************************************************************************)

\* The order of the composed keys is transitive.
LEMMA PrecTransitive ==
  ASSUME NEW a \in Key, NEW b \in Key, NEW c \in Key, a \prec b, b \prec c
  PROVE  a \prec c
  BY OrderKeyAssumption DEF \prec, Key, Primary, Secondary

\* A key not past b, which is before c, is before c.
LEMMA PreceqPrec ==
  ASSUME NEW a \in Key, NEW b \in Key, NEW c \in Key, a \preceq b, b \prec c
  PROVE  a \prec c
  BY PrecTransitive DEF \preceq

\* No key is before itself.
LEMMA PrecIrreflexive ==
  ASSUME NEW a \in Key
  PROVE  ~(a \prec a)
  BY OrderKeyAssumption DEF \prec, Key, Primary, Secondary

\* The head PushHeadUnguarded computes is a key, whatever it overflows.
LEMMA NewHeadIsKey ==
  ASSUME NEW h \in Key, NEW p \in Primary
  PROVE  NewHead(h, p) \in Key
  BY OrderKeyAssumption DEF NewHead, IncrementSecondary, Key, Primary, Secondary

\* It is past the old head if the secondary key does not wrap.
LEMMA NewHeadIsLater ==
  ASSUME NEW h \in Key, NEW p \in Primary, ~(p < h.primary),
         h.secondary + 1 < SecondaryModulus
  PROVE  h \prec NewHead(h, p)
  BY OrderKeyAssumption DEF NewHead, IncrementSecondary, \prec, Key, Primary, Secondary

\* It costs at most one of the moves left to the bound.
LEMMA NewHeadIsNear ==
  ASSUME NEW h \in Key, NEW p \in Primary
  PROVE  NewHead(h, p).secondary <= h.secondary + 1
  BY OrderKeyAssumption DEF NewHead, IncrementSecondary, Key, Primary, Secondary
-----------------------------------------------------------------------------
(***************************************************************************)
(* Type correctness, with wrapping secondary keys too.                     *)
(***************************************************************************)

\* The initial states are well typed.
LEMMA TypeInit == Init => TypeOK
<1> SUFFICES ASSUME Init PROVE TypeOK
  OBVIOUS
<1>1. PICK h \in InitHeads : stored = [head |-> h, data |-> {}]
  BY DEF Init
<1>2. stored \in Storage
  BY <1>1, PublisherAssumption DEF Storage
<1>3. moves \in 0 .. MaxMoves
  BY PublisherAssumption DEF Init
<1>4. head \in Key
  BY <1>1, PublisherAssumption DEF Init
<1> QED
  BY <1>2, <1>3, <1>4 DEF Init, TypeOK

\* Every step preserves the types.
LEMMA TypeStep == TypeOK /\ [Next]_pubVars => TypeOK'
<1> SUFFICES ASSUME TypeOK, [Next]_pubVars PROVE TypeOK'
  OBVIOUS
<1> USE DEF TypeOK, Storage
<1>1. CASE Start
  BY <1>1 DEF Start
<1>2. ASSUME NEW op \in {"Push", "PushHead"}, NEW p \in Primary, Lock(op, p)
      PROVE  TypeOK'
  BY <1>2 DEF Lock, Call, Unlocked
<1>3. CASE RejectBackwards \/ MoveHeadFails \/ SetEntryFails
  BY <1>3 DEF RejectBackwards, MoveHeadFails, SetEntryFails, Unlock
<1>4. CASE MoveHead
  <2>1. push \in Call /\ up
    BY <1>4 DEF MoveHead, Unlocked
  <2>2. NewHead(head, push.primary) \in Key
    BY <2>1, NewHeadIsKey DEF Call
  <2>3. push' \in Call \union {Unlocked}
    BY <1>4, <2>1 DEF MoveHead, Unlock, Call
  <2>4. moves' \in 0 .. MaxMoves
    BY <1>4, PublisherAssumption DEF MoveHead
  <2>5. stored' \in Storage
    BY <1>4, <2>2 DEF MoveHead, SetAllowingOverwrite
  <2> QED
    BY <1>4, <2>1, <2>2, <2>3, <2>4, <2>5 DEF MoveHead
<1>5. CASE SetEntry
  <2>1. stored' \in Storage
    BY <1>5 DEF SetEntry, Set
  <2> QED
    BY <1>5, <2>1 DEF SetEntry, Unlock
<1>6. CASE Flush
  BY <1>6 DEF Flush
<1>7. CASE Crash \/ PowerLoss
  BY <1>7 DEF Crash, PowerLoss, Unlock
<1>8. CASE UNCHANGED pubVars
  BY <1>8 DEF pubVars
<1> QED
  BY <1>1, <1>2, <1>3, <1>4, <1>5, <1>6, <1>7, <1>8 DEF Next, PushStep

\* Every state is well typed and only a running process holds the mutex:
\* Start to PowerLoss, the publisher and the storage below it.
THEOREM TypeCorrect == Spec => []TypeOK
  BY TypeInit, TypeStep, PTL DEF Spec

\* The head in memory is the one in the storage, whether keys wrap or not.
THEOREM HeadsAgree == Spec => []MemoryAgreesWithStorage
<1>1. Init => MemoryAgreesWithStorage
  BY DEF Init, MemoryAgreesWithStorage
<1>2. TypeOK /\ MemoryAgreesWithStorage /\ [Next]_pubVars => MemoryAgreesWithStorage'
  <2> SUFFICES ASSUME TypeOK, MemoryAgreesWithStorage, [Next]_pubVars
               PROVE  MemoryAgreesWithStorage'
    OBVIOUS
  <2> USE DEF TypeOK, Storage, MemoryAgreesWithStorage
  <2>1. CASE Start \/ Crash \/ PowerLoss
    BY <2>1 DEF Start, Crash, PowerLoss
  <2>2. CASE MoveHead
    BY <2>2 DEF MoveHead, SetAllowingOverwrite
  <2>3. CASE SetEntry
    BY <2>3 DEF SetEntry, Set
  <2>4. CASE RejectBackwards \/ MoveHeadFails \/ SetEntryFails \/ Flush
    BY <2>4 DEF RejectBackwards, MoveHeadFails, SetEntryFails, Flush
  <2>5. ASSUME NEW op \in {"Push", "PushHead"}, NEW p \in Primary, Lock(op, p)
        PROVE  MemoryAgreesWithStorage'
    BY <2>5 DEF Lock
  <2>6. CASE UNCHANGED pubVars
    BY <2>6 DEF pubVars
  <2> QED
    BY <2>1, <2>2, <2>3, <2>4, <2>5, <2>6 DEF Next, PushStep
<1> QED
  BY <1>1, <1>2, TypeCorrect, PTL DEF Spec
-----------------------------------------------------------------------------
(***************************************************************************)
(* The inductive invariant, when the secondary key does not wrap.          *)
(***************************************************************************)

\* The new head is past both the old one and every entry, and within budget.
LEMMA MoveHeadGoesForward ==
  ASSUME IInv, MoveHead
  PROVE  /\ push.primary \in Primary
         /\ head' \in Key
         /\ stored'.head = head'
         /\ stored'.data = stored.data
         /\ head \prec head'
         /\ \A k \in stored.data : k \prec head'
         /\ WithinBudget(head)'
<1> USE DEF IInv, TypeOK, Storage
<1>1. push \in Call /\ up /\ push.primary \in Primary
  BY DEF MoveHead, Unlocked, Call
<1>2. head' = NewHead(head, push.primary) /\ moves' = moves + 1 /\ moves < MaxMoves
  BY DEF MoveHead
<1>3. head' \in Key
  BY <1>1, <1>2, NewHeadIsKey
<1>4. stored'.head = head' /\ stored'.data = stored.data
  BY <1>2 DEF MoveHead, SetAllowingOverwrite
<1>5. head.secondary \in Nat /\ moves \in Nat /\ MaxMoves \in Nat
  BY PublisherAssumption, OrderKeyAssumption DEF Key, Secondary
<1>6. head \prec head'
  <2>1. head.secondary + 1 < SecondaryModulus
    BY <1>2, <1>5, OrderKeyAssumption DEF HeadsWithinBudget, WithinBudget
  <2> QED
    BY <1>1, <1>2, <2>1, NewHeadIsLater DEF MoveHead
<1>7. \A k \in stored.data : k \prec head'
  BY <1>1, <1>3, <1>6, PreceqPrec DEF MemoryAgreesWithStorage, EntriesNeverPastHead
<1>8. WithinBudget(head)'
  <2>1. head'.secondary <= head.secondary + 1
    BY <1>1, <1>2, NewHeadIsNear
  <2>2. head'.secondary \in Nat
    BY <1>3, OrderKeyAssumption DEF Key, Secondary
  <2> QED
    BY <1>2, <1>5, <2>1, <2>2, OrderKeyAssumption DEF HeadsWithinBudget, WithinBudget
<1> QED
  BY <1>1, <1>3, <1>4, <1>6, <1>7, <1>8

\* The initial states satisfy the invariant.
LEMMA InvInit == NoWrap /\ Init => IInv
<1> SUFFICES ASSUME NoWrap, Init PROVE IInv
  OBVIOUS
<1>1. PICK h \in InitHeads : stored = [head |-> h, data |-> {}]
  BY DEF Init
<1>2. TypeOK
  BY TypeInit
<1>3. HeadsWithinBudget
  BY <1>1, PublisherAssumption DEF Init, NoWrap, HeadsWithinBudget, WithinBudget
<1>4. EntriesNeverPastHead /\ PowerLossLeavesNoHole
  BY <1>1 DEF Init, EntriesNeverPastHead, PowerLossLeavesNoHole
<1> QED
  BY <1>2, <1>3, <1>4 DEF Init, IInv, MemoryAgreesWithStorage, NextEntryIsPastAll, Unlocked

\* Every step preserves the invariant.
LEMMA InvStep == IInv /\ [Next]_pubVars => IInv'
<1> SUFFICES ASSUME IInv, [Next]_pubVars PROVE IInv'
  OBVIOUS
<1>1. TypeOK'
  BY TypeStep DEF IInv
<1> USE DEF IInv
<1>2. ASSUME UNCHANGED <<stored, durable, moves>>, head' = head \/ head' = stored.head,
             up' => (up /\ head' = head) \/ head' = stored.head,
             push'.at = "setEntry" => push = push' /\ head' = head
      PROVE  IInv'
  BY <1>1, <1>2
  DEF HeadsWithinBudget, WithinBudget, MemoryAgreesWithStorage, EntriesNeverPastHead,
      NextEntryIsPastAll, PowerLossLeavesNoHole
<1>3. CASE Start
  <2>1. push = Unlocked
    BY <1>3 DEF Start, TypeOK
  <2> QED
    BY <1>2, <1>3, <2>1 DEF Start, Unlocked
<1>4. ASSUME NEW op \in {"Push", "PushHead"}, NEW p \in Primary, Lock(op, p)
      PROVE  IInv'
  BY <1>2, <1>4 DEF Lock
<1>5. CASE RejectBackwards \/ MoveHeadFails \/ SetEntryFails
  BY <1>2, <1>5
  DEF RejectBackwards, MoveHeadFails, SetEntryFails, Unlock, Unlocked
<1>6. CASE MoveHead
  <2>1. /\ head' \in Key
        /\ stored'.head = head'
        /\ stored'.data = stored.data
        /\ \A k \in stored.data : k \prec head'
        /\ WithinBudget(head)'
    BY <1>6, MoveHeadGoesForward
  <2>2. durable' = durable /\ moves' = moves + 1
    BY <1>6 DEF MoveHead
  <2>3. HeadsWithinBudget'
    <3>1. /\ durable.head.secondary \in Nat
          /\ moves \in Nat
          /\ MaxMoves \in Nat
      BY PublisherAssumption, OrderKeyAssumption DEF TypeOK, Storage, Key, Secondary
    <3>2. WithinBudget(durable.head)'
      BY <2>2, <3>1, OrderKeyAssumption DEF HeadsWithinBudget, WithinBudget
    <3>3. WithinBudget(stored.head)'
      BY <2>1 DEF WithinBudget
    <3> QED
      BY <2>1, <3>2, <3>3 DEF HeadsWithinBudget
  <2>4. EntriesNeverPastHead'
    BY <2>1, <2>2 DEF EntriesNeverPastHead, \preceq
  <2>5. NextEntryIsPastAll' /\ MemoryAgreesWithStorage'
    BY <2>1 DEF NextEntryIsPastAll, MemoryAgreesWithStorage
  <2>6. PowerLossLeavesNoHole'
    BY <2>1, <2>2 DEF PowerLossLeavesNoHole
  <2> QED
    BY <1>1, <2>3, <2>4, <2>5, <2>6
<1>7. CASE SetEntry
  <2>1. /\ stored'.head = stored.head
        /\ stored'.data = stored.data \union {head}
        /\ UNCHANGED <<up, head, durable, moves>>
        /\ push' = Unlocked
    BY <1>7 DEF SetEntry, Set, Unlock, TypeOK, Storage
  <2>2. up /\ head = stored.head
    BY <1>7 DEF SetEntry, TypeOK, MemoryAgreesWithStorage, Unlocked
  <2>3. \A k \in stored.data : k \prec head
    BY <1>7 DEF SetEntry, NextEntryIsPastAll
  <2>4. HeadsWithinBudget'
    BY <2>1 DEF HeadsWithinBudget, WithinBudget
  <2>5. EntriesNeverPastHead'
    BY <2>1, <2>2 DEF EntriesNeverPastHead, \preceq
  <2>6. PowerLossLeavesNoHole'
    BY <2>1, <2>3 DEF PowerLossLeavesNoHole
  <2> QED
    BY <1>1, <2>1, <2>2, <2>4, <2>5, <2>6
    DEF MemoryAgreesWithStorage, NextEntryIsPastAll, Unlocked
<1>8. CASE Flush
  BY <1>1, <1>8
  DEF Flush, HeadsWithinBudget, WithinBudget, MemoryAgreesWithStorage, EntriesNeverPastHead,
      NextEntryIsPastAll, PowerLossLeavesNoHole
<1>9. CASE Crash
  BY <1>2, <1>9 DEF Crash, Unlock, Unlocked
<1>10. CASE PowerLoss
  BY <1>1, <1>10
  DEF PowerLoss, Unlock, Unlocked, HeadsWithinBudget, WithinBudget, MemoryAgreesWithStorage,
      EntriesNeverPastHead, NextEntryIsPastAll, PowerLossLeavesNoHole
<1>11. CASE UNCHANGED pubVars
  BY <1>2, <1>11 DEF pubVars
<1> QED
  BY <1>3, <1>4, <1>5, <1>6, <1>7, <1>8, <1>9, <1>10, <1>11 DEF Next, PushStep

\* The invariant holds in every reachable state.
THEOREM Invariance == ASSUME NoWrap PROVE Spec => []IInv
<1>1. Init => IInv
  BY InvInit
<1> QED
  BY <1>1, InvStep, PTL DEF Spec
-----------------------------------------------------------------------------
(***************************************************************************)
(* What the module promises.                                               *)
(***************************************************************************)

\* Restarts compute the next key from the head that memory had, and it is new.
THEOREM HeadCorrect ==
  ASSUME NoWrap
  PROVE  Spec => [](MemoryAgreesWithStorage /\ EntriesNeverPastHead)
<1>1. IInv => MemoryAgreesWithStorage /\ EntriesNeverPastHead
  BY DEF IInv
<1> QED
  BY <1>1, Invariance, PTL

\* The entry of a Push never meets one under its key.
THEOREM NoOverwrite == ASSUME NoWrap PROVE Spec => []SetNeverOverwrites
<1>1. IInv => SetNeverOverwrites
  BY PrecIrreflexive
  DEF IInv, TypeOK, Storage, NextEntryIsPastAll, SetNeverOverwrites, Has
<1> QED
  BY <1>1, Invariance, PTL

\* What survives a power failure is a prefix of the stream.
THEOREM NoHole == ASSUME NoWrap PROVE Spec => []PowerLossLeavesNoHole
<1>1. IInv => PowerLossLeavesNoHole
  BY DEF IInv
<1> QED
  BY <1>1, Invariance, PTL

\* The head of a running process only goes forward.
THEOREM HeadMonotonic == ASSUME NoWrap PROVE Spec => HeadNeverGoesBack
<1>1. IInv /\ [Next]_pubVars => [up /\ up' => head \preceq head']_pubVars
  <2> SUFFICES ASSUME IInv, Next, up, up' PROVE head \preceq head'
    BY DEF pubVars, \preceq
  <2>1. CASE MoveHead
    BY <2>1, MoveHeadGoesForward DEF \preceq
  <2>2. ASSUME NEW op \in {"Push", "PushHead"}, NEW p \in Primary, Lock(op, p)
        PROVE  head' = head
    BY <2>2 DEF Lock
  <2>3. CASE RejectBackwards \/ MoveHeadFails \/ SetEntry \/ SetEntryFails
    BY <2>3
    DEF RejectBackwards, MoveHeadFails, SetEntry, SetEntryFails, \preceq
  <2>4. CASE Start \/ Flush \/ Crash \/ PowerLoss
    BY <2>4 DEF Start, Flush, Crash, PowerLoss, \preceq
  <2> QED
    BY <2>1, <2>2, <2>3, <2>4 DEF Next, PushStep, \preceq
<1> QED
  BY <1>1, Invariance, PTL DEF Spec, HeadNeverGoesBack

\* The order of the keys is the order in which the entries were pushed.
THEOREM KeyOrderIsPushOrder == ASSUME NoWrap PROVE Spec => AppendsInKeyOrder
<1> DEFINE Appends ==
      \A new \in stored'.data \ stored.data : \A old \in stored.data : old \prec new
<1>1. IInv /\ [Next]_pubVars => [Appends]_pubVars
  <2> SUFFICES ASSUME IInv, Next PROVE Appends
    OBVIOUS
  <2> USE DEF IInv, TypeOK, Storage
  <2>1. CASE MoveHead
    BY <2>1, MoveHeadGoesForward
  <2>2. CASE SetEntry
    <3>1. stored'.data = stored.data \union {head}
      BY <2>2 DEF SetEntry, Set
    <3>2. \A k \in stored.data : k \prec head
      BY <2>2 DEF SetEntry, NextEntryIsPastAll
    <3> QED
      BY <3>1, <3>2
  <2>3. CASE PowerLoss
    BY <2>3 DEF PowerLoss, PowerLossLeavesNoHole
  <2>4. ASSUME UNCHANGED stored PROVE Appends
    BY <2>4
  <2>5. ASSUME NEW op \in {"Push", "PushHead"}, NEW p \in Primary, Lock(op, p)
        PROVE  UNCHANGED stored
    BY <2>5 DEF Lock
  <2>6. CASE RejectBackwards \/ MoveHeadFails \/ SetEntryFails
    BY <2>4, <2>6 DEF RejectBackwards, MoveHeadFails, SetEntryFails
  <2>7. CASE Start \/ Flush \/ Crash
    BY <2>4, <2>7 DEF Start, Flush, Crash
  <2> QED
    BY <2>1, <2>2, <2>3, <2>4, <2>5, <2>6, <2>7 DEF Next, PushStep
<1> QED
  BY <1>1, Invariance, PTL DEF Spec, AppendsInKeyOrder
=============================================================================
