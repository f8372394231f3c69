--------------------------- MODULE FrameworkProofs ---------------------------
(***************************************************************************)
(* Frameworks are constructed and destroyed correctly, for any number of   *)
(* them, whatever they declare and create, beside any number of requests.  *)
(***************************************************************************)
EXTENDS StaticFramework, TLAPS

-----------------------------------------------------------------------------
(***************************************************************************)
(* The members that are constructed.                                       *)
(***************************************************************************)
LEMMA DeclarationsTyped ==
  /\ Len(Declarations) \in Nat
  /\ \A i \in 1 .. Len(Declarations) :
       Declarations[i] \in Declaration /\ Declarations[i].name \in Streams
<1>1. /\ Len(Declarations) \in Nat
      /\ \A i \in 1 .. Len(Declarations) : Declarations[i] \in Declaration
  <2> HIDE DEF Declaration
  <2> QED
    BY FrameworkAssumption
<1>2. \A d \in Declaration : d.name \in Streams
  BY DEF Declaration
<1> QED
  BY <1>1, <1>2

LEMMA NamesTyped ==
  ASSUME NEW f \in Frameworks, built[f] \in 0 .. Len(Declarations), NEW kind
  PROVE  /\ Names(f, kind) \subseteq Streams
         /\ built[f] = 0 => Names(f, kind) = {}
  BY DeclarationsTyped DEF Names

LEMMA NamesGrow ==
  ASSUME NEW f \in Frameworks, built[f] \in 0 .. Len(Declarations),
         built[f] < Len(Declarations), built'[f] = built[f] + 1, NEW kind
  PROVE  Names(f, kind)' = IF MemberToBuild(f).kind = kind
                           THEN Names(f, kind) \union {MemberToBuild(f).name}
                           ELSE Names(f, kind)
<1>1. 1 .. built'[f] = (1 .. built[f]) \union {built[f] + 1}
  BY DeclarationsTyped
<1> QED
  BY <1>1 DEF Names, MemberToBuild

LEMMA NamesShrink ==
  ASSUME NEW f \in Frameworks, built[f] \in 0 .. Len(Declarations),
         built[f] > 0, built'[f] = built[f] - 1, NEW kind
  PROVE  Names(f, kind)' \subseteq Names(f, kind)
<1>1. 1 .. built'[f] \subseteq 1 .. built[f]
  BY DeclarationsTyped
<1> QED
  BY <1>1 DEF Names

\* A framework with all of its members has the streams of its publishers.
LEMMA PublishersHaveStreams ==
  ASSUME NEW f \in Frameworks, built[f] = Len(Declarations)
  PROVE  Names(f, "publisher") \subseteq Names(f, "stream")
<1> SUFFICES ASSUME NEW i \in 1 .. Len(Declarations), Declarations[i].kind = "publisher"
             PROVE  Declarations[i].name \in Names(f, "stream")
  BY DEF Names
<1>1. PICK j \in 1 .. i : Declarations[j] = [Declarations[i] EXCEPT !.kind = "stream"]
  BY FrameworkAssumption
<1>2. j \in 1 .. Len(Declarations) /\ Declarations[i] \in Declaration
  BY DeclarationsTyped
<1>3. Declarations[j].kind = "stream" /\ Declarations[j].name = Declarations[i].name
  BY <1>1, <1>2 DEF Declaration
<1> QED
  BY <1>2, <1>3 DEF Names
-----------------------------------------------------------------------------
(***************************************************************************)
(* The invariant, framework by framework.                                  *)
(***************************************************************************)
Shape ==
  /\ ServerTypeOK
  /\ DOMAIN storage \subseteq Streams /\ storage \in [DOMAIN storage -> 0 .. MaxHead]
  /\ stage \in [Frameworks -> Stage]
  /\ toCreate \in [Frameworks -> SUBSET Streams]
  /\ built \in [Frameworks -> 0 .. Len(Declarations)]
  /\ exporters \in [Frameworks -> SUBSET Streams]
  /\ together \in BOOLEAN
  /\ DOMAIN head = Frameworks

Right(f) ==
  /\ head[f] \in [Names(f, "stream") -> 0 .. MaxHead]
  /\ toCreate[f] # {} => stage[f] \in {"apply", "put"}
  /\ built[f] # 0 => stage[f] \in {"constructing", "ready", "destroying"}
  /\ stage[f] = "ready" => built[f] = Len(Declarations)
  /\ handler = f <=> Registered(f)
  /\ ~together =>
       /\ stage[f] = "put" => \A s \in Streams : IsNext(f, s) => ~Exists(s)
       /\ \A s \in DOMAIN head[f] : Exists(s) /\ head[f][s] = storage[s]

LEMMA FInvIsRight == FInv <=> Shape /\ CreatorsApart /\ \A f \in Frameworks : Right(f)
  BY DEF FInv, FTypeOK, Shape, Right, PutsAreNew, ReadyIsBuilt, HandlerIsRegistered,
         HeadIsCurrent

\* A framework that others' steps leave alone stays right, if they create none of the
\* streams it has to create and move none of the heads it has read.
LEMMA RightIfUntouched ==
  ASSUME NEW g \in Frameworks, Right(g),
         stage'[g] = stage[g], toCreate'[g] = toCreate[g], built'[g] = built[g],
         head'[g] = head[g],
         handler' = g <=> handler = g,
         ~together' =>
           /\ ~together
           /\ \A s \in toCreate[g] : Exists(s)' => Exists(s)
           /\ \A s \in DOMAIN head[g] : Exists(s) => Exists(s)' /\ storage'[s] = storage[s]
  PROVE  Right(g)'
<1>1. \A kind : Names(g, kind)' = Names(g, kind)
  BY DEF Names
<1>2. Registered(g)' <=> Registered(g)
  BY DEF Registered
<1>3. \A s : IsNext(g, s)' <=> IsNext(g, s)
  BY DEF IsNext
<1>4. \A s : IsNext(g, s) => s \in toCreate[g]
  BY DEF IsNext
<1>5. ASSUME ~together', stage[g] = "put", NEW s \in Streams, IsNext(g, s)
      PROVE  ~Exists(s)'
  BY <1>4, <1>5 DEF Right
<1> QED
  BY <1>1, <1>2, <1>3, <1>5 DEF Right

\* Only the registered framework has read any heads.
LEMMA HeadsOfRegistered ==
  ASSUME Shape, NEW g \in Frameworks, Right(g), handler # g
  PROVE  DOMAIN head[g] = {}
<1>1. built[g] = 0
  BY DEF Shape, Right, Registered
<1>2. Names(g, "stream") = {}
  BY <1>1, NamesTyped DEF Shape
<1> QED
  BY <1>2 DEF Right

\* Fewer streams to create have no more in common.
LEMMA CreatorsStayApart ==
  ASSUME CreatorsApart, ~together' => ~together,
         \A g \in Frameworks : toCreate'[g] \subseteq toCreate[g]
  PROVE  CreatorsApart'
<1> SUFFICES ASSUME ~together, NEW f \in Frameworks, NEW g \in Frameworks, f # g
             PROVE  toCreate'[f] \intersect toCreate'[g] = {}
  BY DEF CreatorsApart
<1>1. toCreate[f] \intersect toCreate[g] = {}
  BY DEF CreatorsApart
<1> QED
  BY <1>1

\* A step of f, which leaves the others and what they see of the storage alone.
LEMMA StepOfOne ==
  ASSUME FInv, NEW f \in Frameworks,
         \A g \in Frameworks : g # f =>
           /\ stage'[g] = stage[g] /\ toCreate'[g] = toCreate[g] /\ built'[g] = built[g]
           /\ head'[g] = head[g]
           /\ handler' = g <=> handler = g,
         ~together' =>
           /\ ~together
           /\ \A g \in Frameworks : g # f =>
                /\ \A s \in toCreate[g] : Exists(s)' => Exists(s)
                /\ \A s \in DOMAIN head[g] :
                     Exists(s) => Exists(s)' /\ storage'[s] = storage[s],
         CreatorsApart', Shape', Right(f)'
  PROVE  FInv'
<1>1. \A g \in Frameworks : Right(g)'
  BY FInvIsRight, RightIfUntouched
<1> QED
  BY <1>1
     DEF FInv, FTypeOK, Shape, Right, PutsAreNew, ReadyIsBuilt, HandlerIsRegistered,
         HeadIsCurrent
-----------------------------------------------------------------------------
(***************************************************************************)
(* The constructor.                                                        *)
(***************************************************************************)
LEMMA NamesKept ==
  ASSUME NEW f \in Frameworks, built'[f] = built[f], NEW kind
  PROVE  Names(f, kind)' = Names(f, kind)
  BY DEF Names

LEMMA FInvInit == Init => FInv
<1> SUFFICES ASSUME Init PROVE FInv
  OBVIOUS
<1>1. \A f \in Frameworks : built[f] = 0 /\ built[f] \in 0 .. Len(Declarations)
  BY DeclarationsTyped DEF Init
<1>2. \A f \in Frameworks : \A kind : Names(f, kind) = {}
  BY <1>1, NamesTyped
<1>3. Shape
  BY <1>1, DeclarationsTyped, FrameworkAssumption
     DEF Shape, Init, NoHeads, ServerInit, ServerTypeOK, RequestAt, Stage
<1>4. CreatorsApart
  BY DEF Init, CreatorsApart
<1>5. ASSUME NEW f \in Frameworks PROVE Right(f)
  BY <1>1, <1>2, ServerAssumption
     DEF Right, Registered, Init, NoHeads, ServerInit, Frameworks
<1> QED
  BY <1>3, <1>4, <1>5, FInvIsRight

LEMMA BeginKeeps ==
  ASSUME FInv, NEW f \in Frameworks, NEW S \in SUBSET Streams, Begin(f, S)
  PROVE  FInv'
<1>1. Shape /\ Right(f) /\ CreatorsApart
  BY FInvIsRight
<1>2. /\ UNCHANGED <<storage, built, head, handler>> /\ ServerTypeOK'
      /\ toCreate' = [toCreate EXCEPT ![f] = S]
      /\ stage' = [stage EXCEPT ![f] = "apply"] /\ stage[f] = "none"
      /\ together' = (together \/ \E g \in Frameworks : toCreate[g] \intersect S # {})
  BY <1>1 DEF Begin, Enter, Shape, serverVars, portVars, requestVars, ServerTypeOK
<1>3. Shape'
  BY <1>1, <1>2 DEF Shape, Begin, Stage
<1>4. \A kind : Names(f, kind)' = Names(f, kind)
  BY <1>2, NamesKept
<1>5. stage'[f] = "apply"
  BY <1>1, <1>2 DEF Shape
<1>6. Right(f)'
  BY <1>1, <1>2, <1>4, <1>5 DEF Right, Registered, Exists
<1>7. CreatorsApart'
  <2> SUFFICES ASSUME ~together', NEW g \in Frameworks, NEW h \in Frameworks, g # h
               PROVE  toCreate'[g] \intersect toCreate'[h] = {}
    BY DEF CreatorsApart
  <2>1. ~together /\ \A k \in Frameworks : toCreate[k] \intersect S = {}
    BY <1>2
  <2>2. /\ toCreate'[g] = IF g = f THEN S ELSE toCreate[g]
        /\ toCreate'[h] = IF h = f THEN S ELSE toCreate[h]
    BY <1>1, <1>2 DEF Shape
  <2>3. toCreate[g] \intersect toCreate[h] = {}
    BY <1>1, <2>1 DEF CreatorsApart
  <2> QED
    BY <2>1, <2>2, <2>3
<1> QED
  BY <1>1, <1>2, <1>3, <1>6, <1>7, StepOfOne DEF Shape, Exists

LEMMA ApplyPutsKeeps ==
  ASSUME FInv, NEW f \in Frameworks, ApplyPuts(f)
  PROVE  FInv'
<1>1. Shape /\ Right(f) /\ CreatorsApart
  BY FInvIsRight
<1>2. PICK s \in Streams : /\ IsNext(f, s)
                           /\ storage' = Put(storage, s, 0)
                           /\ toCreate' = [toCreate EXCEPT ![f] = toCreate[f] \ {s}]
  BY DEF ApplyPuts
<1>3. /\ UNCHANGED <<built, head, together, handler>> /\ ServerTypeOK'
      /\ stage' = [stage EXCEPT ![f] = "apply"] /\ stage[f] = "put"
  BY <1>1 DEF ApplyPuts, Enter, Shape, serverVars, portVars, requestVars, ServerTypeOK
<1>4. s \in toCreate[f]
  BY <1>2 DEF IsNext
<1>5. /\ DOMAIN storage' = DOMAIN storage \union {s}
      /\ storage' \in [DOMAIN storage' -> 0 .. MaxHead]
      /\ \A t : t # s /\ t \in DOMAIN storage => storage'[t] = storage[t]
  BY <1>1, <1>2, FrameworkAssumption DEF Shape, Put
<1>6. Shape'
  BY <1>1, <1>2, <1>3, <1>5 DEF Shape, ApplyPuts, Stage
<1>7. ~together => ~Exists(s)
  BY <1>1, <1>2, <1>3 DEF Right
<1>8. \A kind : Names(f, kind)' = Names(f, kind)
  BY <1>3, NamesKept
<1>9. stage'[f] = "apply" /\ toCreate'[f] = toCreate[f] \ {s}
  BY <1>1, <1>2, <1>3 DEF Shape
<1>10. ASSUME ~together, NEW g \in Frameworks, NEW t \in DOMAIN head[g], Exists(t)
       PROVE  Exists(t)' /\ storage'[t] = storage[t]
  BY <1>5, <1>7, <1>10 DEF Exists
<1>11. Right(f)'
  BY <1>1, <1>3, <1>8, <1>9, <1>10 DEF Right, Registered
<1>12. CreatorsApart'
  BY <1>1, <1>2, <1>3, CreatorsStayApart DEF Shape
<1>13. ASSUME ~together, NEW g \in Frameworks, g # f, NEW t \in toCreate[g], Exists(t)'
       PROVE  Exists(t)
  <2>1. t # s
    BY <1>1, <1>4, <1>13 DEF CreatorsApart
  <2> QED
    BY <1>5, <1>13, <2>1 DEF Exists
<1> QED
  BY <1>1, <1>2, <1>3, <1>6, <1>10, <1>11, <1>12, <1>13, StepOfOne DEF Shape

\* A stage is left for another and nothing else happens to what the frameworks and
\* the storage hold.
LEMMA OnlyTheStage ==
  ASSUME FInv, NEW f \in Frameworks, NEW next \in Stage, Enter(f, next),
         UNCHANGED <<storage, built, head, together>>,
         exporters' \in [Frameworks -> SUBSET Streams],
         toCreate'[f] = toCreate[f] \/ toCreate'[f] = {},
         \A g \in Frameworks : g # f => toCreate'[g] = toCreate[g],
         toCreate' \in [Frameworks -> SUBSET Streams],
         toCreate'[f] # {} => next \in {"apply", "put"},
         next = "put" /\ ~together =>
           toCreate'[f] = toCreate[f] /\ \A s \in Streams : IsNext(f, s) => ~Exists(s),
         built[f] # 0 => next \in {"constructing", "ready", "destroying"},
         next = "ready" => built[f] = Len(Declarations),
         ServerTypeOK',
         \A g \in Frameworks : g # f => (handler' = g <=> handler = g),
         handler' = f <=> next \in {"constructing", "ready", "destroying", "unregister"}
  PROVE  FInv'
<1>1. Shape /\ Right(f) /\ CreatorsApart
  BY FInvIsRight
<1>2. Shape'
  BY <1>1 DEF Shape, Enter
<1>3. \A kind : Names(f, kind)' = Names(f, kind)
  BY NamesKept
<1>4. stage'[f] = next
  BY <1>1 DEF Shape, Enter
<1>5. ASSUME next = "put", ~together, NEW s \in Streams, IsNext(f, s)'
      PROVE  ~Exists(s)'
  BY <1>5 DEF IsNext, Exists
<1>6. Right(f)'
  BY <1>1, <1>3, <1>4, <1>5 DEF Right, Registered, Exists
<1>7. CreatorsApart'
  BY <1>1, CreatorsStayApart
<1> QED
  BY <1>1, <1>2, <1>6, <1>7, StepOfOne DEF Enter, Shape, Exists

LEMMA ServerKept ==
  ASSUME Shape, UNCHANGED serverVars
  PROVE  ServerTypeOK' /\ handler' = handler
  BY DEF Shape, serverVars, portVars, requestVars, ServerTypeOK

LEMMA ApplyLooksKeeps ==
  ASSUME FInv, NEW f \in Frameworks, ApplyLooks(f)
  PROVE  FInv'
<1>1. Shape /\ Right(f)
  BY FInvIsRight
<1>2. "put" \in Stage /\ Enter(f, "put") /\ toCreate' = toCreate
  BY DEF ApplyLooks, Stage
<1>3. ServerTypeOK' /\ handler' = handler /\ handler # f
  BY <1>1, ServerKept DEF Shape, Right, Registered, ApplyLooks
<1>4. built[f] = 0
  BY <1>1 DEF Shape, Right, ApplyLooks
<1>5. PICK s \in Streams : IsNext(f, s) /\ ~Exists(s)
  BY DEF ApplyLooks
<1>6. ASSUME NEW t \in Streams, IsNext(f, t) PROVE t = s
  <2>1. s <= t /\ t <= s
    BY <1>5, <1>6 DEF IsNext
  <2> QED
    BY <2>1, FrameworkAssumption
<1> QED
  BY <1>1, <1>2, <1>3, <1>4, <1>5, <1>6, OnlyTheStage DEF ApplyLooks, Shape

LEMMA ApplyFailsKeeps ==
  ASSUME FInv, NEW f \in Frameworks, ApplyFails(f)
  PROVE  FInv'
<1>1. Shape /\ Right(f)
  BY FInvIsRight
<1>2. "none" \in Stage /\ Enter(f, "none") /\ toCreate'[f] = {}
  BY <1>1 DEF Shape, ApplyFails, Stage
<1>3. ServerTypeOK' /\ handler' = handler /\ handler # f
  BY <1>1, ServerKept DEF Shape, Right, Registered, ApplyFails
<1>4. built[f] = 0
  BY <1>1 DEF Shape, Right, ApplyFails
<1> QED
  BY <1>1, <1>2, <1>3, <1>4, OnlyTheStage DEF ApplyFails, Shape

LEMMA CheckPublishersKeeps ==
  ASSUME FInv, NEW f \in Frameworks, CheckPublishers(f)
  PROVE  FInv'
<1>1. Shape /\ Right(f)
  BY FInvIsRight
<1>2. PICK next \in {"open", "none"} : Enter(f, next)
  BY DEF CheckPublishers
<1>3. next \in Stage
  BY DEF CheckPublishers, Stage
<1>4. ServerTypeOK' /\ handler' = handler /\ handler # f
  BY <1>1 DEF Shape, Right, Registered, CheckPublishers, serverVars, portVars, requestVars,
              ServerTypeOK
<1>5. built[f] = 0 /\ toCreate[f] = {}
  BY <1>1 DEF Shape, Right, CheckPublishers
<1> QED
  BY <1>1, <1>2, <1>3, <1>4, <1>5, OnlyTheStage DEF CheckPublishers, Shape

LEMMA OpenPortKeeps ==
  ASSUME FInv, NEW f \in Frameworks, OpenPort(f)
  PROVE  FInv'
<1>1. Shape /\ Right(f)
  BY FInvIsRight
<1>2. PICK next \in {"register", "none"} : Enter(f, next)
  BY DEF OpenPort
<1>3. next \in Stage
  BY DEF OpenPort, Stage
<1>4. ServerTypeOK' /\ handler' = handler /\ handler # f
  BY <1>1 DEF Shape, Right, Registered, OpenPort, Open, OpenFails, serverVars, portVars,
              requestVars, ServerTypeOK
<1>5. built[f] = 0 /\ toCreate[f] = {}
  BY <1>1 DEF Shape, Right, OpenPort
<1> QED
  BY <1>1, <1>2, <1>3, <1>4, <1>5, OnlyTheStage DEF OpenPort, Shape

LEMMA RegisterHandlerKeeps ==
  ASSUME FInv, NEW f \in Frameworks, RegisterHandler(f)
  PROVE  FInv'
<1>1. Shape /\ Right(f)
  BY FInvIsRight
<1>2. {"constructing", "none"} \subseteq Stage
  BY DEF Stage
<1>3. handler # f
  BY <1>1 DEF Right, Registered, RegisterHandler
<1>4. built[f] = 0 /\ toCreate[f] = {}
  BY <1>1 DEF Shape, Right, RegisterHandler
<1>5. CASE Register(f) /\ Enter(f, "constructing")
  <2>1. ServerTypeOK' /\ handler' = f /\ handler = NoHandler /\ NoHandler \notin Frameworks
    BY <1>1, <1>5, ServerAssumption
       DEF Shape, Register, portVars, requestVars, ServerTypeOK, Frameworks
  <2> QED
    BY <1>1, <1>2, <1>4, <1>5, <2>1, OnlyTheStage DEF RegisterHandler, Shape
<1>6. CASE RegisterRefused /\ Enter(f, "none")
  <2>1. ServerTypeOK' /\ handler' = handler
    BY <1>1, <1>6
       DEF Shape, RegisterRefused, serverVars, portVars, requestVars, ServerTypeOK
  <2> QED
    BY <1>1, <1>2, <1>3, <1>4, <1>6, <2>1, OnlyTheStage DEF RegisterHandler, Shape
<1> QED
  BY <1>5, <1>6 DEF RegisterHandler
-----------------------------------------------------------------------------
(***************************************************************************)
(* The members.                                                            *)
(***************************************************************************)

\* What a framework, which is the registered one, does to its members and to its
\* streams in the storage.
LEMMA RegisteredSteps ==
  ASSUME FInv, NEW f \in Frameworks, Registered(f),
         UNCHANGED <<toCreate, together, serverVars>>,
         ~together => DOMAIN storage' = DOMAIN storage,
         \A g \in Frameworks : g # f =>
           stage'[g] = stage[g] /\ built'[g] = built[g] /\ head'[g] = head[g],
         Shape', Right(f)'
  PROVE  FInv'
<1>1. Shape /\ CreatorsApart /\ \A g \in Frameworks : Right(g)
  BY FInvIsRight
<1>2. \A g \in Frameworks : g # f => handler # g
  BY <1>1 DEF Right
<1>3. \A g \in Frameworks : g # f => DOMAIN head[g] = {}
  BY <1>1, <1>2, HeadsOfRegistered
<1>4. CreatorsApart'
  BY <1>1, CreatorsStayApart
<1> QED
  BY <1>3, <1>4, StepOfOne DEF serverVars, portVars, Exists

LEMMA ConstructMemberKeeps ==
  ASSUME FInv, NEW f \in Frameworks, ConstructMember(f)
  PROVE  FInv'
<1> DEFINE d == MemberToBuild(f)
<1>1. Shape /\ Right(f)
  BY FInvIsRight
<1>2. /\ built[f] \in 0 .. Len(Declarations) /\ built[f] < Len(Declarations)
      /\ built'[f] = built[f] + 1 /\ built' \in [Frameworks -> 0 .. Len(Declarations)]
  BY <1>1, DeclarationsTyped DEF Shape, ConstructMember
<1>3. d.name \in Streams
  BY <1>2, DeclarationsTyped DEF MemberToBuild
<1>4. \A kind : Names(f, kind)' = IF d.kind = kind THEN Names(f, kind) \union {d.name}
                                                  ELSE Names(f, kind)
  BY <1>2, NamesGrow
<1>5. \/ d.kind = "stream" /\ Exists(d.name)
         /\ head' = [head EXCEPT ![f] = Put(head[f], d.name, storage[d.name])]
         /\ exporters' = exporters
      \/ d.kind = "publisher" /\ head' = head /\ exporters' = exporters
      \/ d.kind = "exporter" /\ head' = head
         /\ exporters' = [exporters EXCEPT ![f] = exporters[f] \union {d.name}]
  BY DEF ConstructMember
<1> HIDE DEF d
<1>6. ServerTypeOK' /\ handler' = handler
  BY <1>1, ServerKept DEF ConstructMember
<1>7. Shape'
  BY <1>1, <1>2, <1>3, <1>5, <1>6 DEF Shape, ConstructMember
<1>8. head'[f] \in [Names(f, "stream")' -> 0 .. MaxHead]
  <2>1. head[f] \in [Names(f, "stream") -> 0 .. MaxHead]
    BY <1>1 DEF Right
  <2>2. CASE d.kind = "stream"
    <3>1. Exists(d.name) /\ head'[f] = Put(head[f], d.name, storage[d.name])
      BY <1>1, <1>5, <2>2 DEF Shape
    <3>2. storage[d.name] \in 0 .. MaxHead
      BY <1>1, <3>1 DEF Shape, Exists
    <3>3. Names(f, "stream")' = Names(f, "stream") \union {d.name}
      BY <1>4, <2>2
    <3> QED
      BY <2>1, <3>1, <3>2, <3>3 DEF Put
  <2>3. CASE d.kind # "stream"
    BY <1>4, <1>5, <2>1, <2>3
  <2> QED
    BY <2>2, <2>3
<1>9. stage[f] = "constructing"
      /\ UNCHANGED <<stage, storage, toCreate, together, serverVars>>
  BY DEF ConstructMember
<1>10. ~together =>
         \A s \in DOMAIN head'[f] : s \in DOMAIN storage /\ head'[f][s] = storage[s]
  BY <1>1, <1>5 DEF Shape, Right, Exists, Put
<1>11. Right(f)'
  BY <1>1, <1>6, <1>8, <1>9, <1>10 DEF Right, Registered, Exists
<1>12. Registered(f)
  BY <1>9 DEF Registered
<1>13. \A g \in Frameworks : g # f => built'[g] = built[g] /\ head'[g] = head[g]
  BY <1>1, <1>5 DEF ConstructMember, Shape
<1> QED
  BY <1>7, <1>9, <1>11, <1>12, <1>13, RegisteredSteps

LEMMA ConstructMemberFailsKeeps ==
  ASSUME FInv, NEW f \in Frameworks, ConstructMemberFails(f)
  PROVE  FInv'
<1>1. Shape /\ Right(f)
  BY FInvIsRight
<1>2. "destroying" \in Stage /\ Enter(f, "destroying") /\ handler = f
  BY <1>1 DEF Right, Registered, ConstructMemberFails, Stage
<1>3. ServerTypeOK' /\ handler' = handler
  BY <1>1, ServerKept DEF ConstructMemberFails
<1>4. toCreate[f] = {}
  BY <1>1 DEF Right, ConstructMemberFails
<1> QED
  BY <1>1, <1>2, <1>3, <1>4, OnlyTheStage DEF ConstructMemberFails, Shape

LEMMA ConstructedKeeps ==
  ASSUME FInv, NEW f \in Frameworks, Constructed(f)
  PROVE  FInv'
<1>1. Shape /\ Right(f)
  BY FInvIsRight
<1>2. "ready" \in Stage /\ Enter(f, "ready") /\ handler = f
  BY <1>1 DEF Right, Registered, Constructed, Stage
<1>3. ServerTypeOK' /\ handler' = handler
  BY <1>1, ServerKept DEF Constructed
<1>4. toCreate[f] = {}
  BY <1>1 DEF Right, Constructed
<1> QED
  BY <1>1, <1>2, <1>3, <1>4, OnlyTheStage DEF Constructed, Shape

LEMMA PushHeadKeeps ==
  ASSUME FInv, NEW f \in Frameworks, NEW s \in Streams, PushHead(f, s)
  PROVE  FInv'
<1>1. Shape /\ Right(f)
  BY FInvIsRight
<1>2. stage[f] = "ready" /\ built[f] = Len(Declarations) /\ Registered(f)
  BY <1>1 DEF PushHead, Right, Registered
<1>3. s \in Names(f, "stream")
  BY <1>2, PublishersHaveStreams DEF PushHead
<1>4. head[f][s] + 1 \in 0 .. MaxHead
  BY <1>1, <1>3, FrameworkAssumption DEF Right, PushHead
<1>5. /\ head' = [head EXCEPT ![f] = Put(head[f], s, head[f][s] + 1)]
      /\ storage' = Put(storage, s, head[f][s] + 1)
  BY DEF PushHead
<1>6. ServerTypeOK' /\ handler' = handler
  BY <1>1, ServerKept DEF PushHead
<1>7. /\ DOMAIN storage' \subseteq Streams
      /\ storage' \in [DOMAIN storage' -> 0 .. MaxHead]
  BY <1>1, <1>4, <1>5 DEF Shape, Put
<1>8. Shape'
  BY <1>1, <1>5, <1>6, <1>7 DEF Shape, PushHead
<1>9. \A kind : Names(f, kind)' = Names(f, kind)
  BY NamesKept DEF PushHead
<1>10. head'[f] = Put(head[f], s, head[f][s] + 1)
  BY <1>1, <1>5 DEF Shape
<1>11. head'[f] \in [Names(f, "stream") -> 0 .. MaxHead]
  <2>1. head[f] \in [Names(f, "stream") -> 0 .. MaxHead]
    BY <1>1 DEF Right
  <2> QED
    BY <1>3, <1>4, <1>10, <2>1 DEF Put
<1>12. ~together =>
         \A t \in DOMAIN head'[f] : t \in DOMAIN storage' /\ head'[f][t] = storage'[t]
  BY <1>1, <1>5, <1>10 DEF Right, Exists, Put
<1>13. Right(f)'
  BY <1>1, <1>2, <1>6, <1>9, <1>11, <1>12 DEF Right, Registered, Exists, PushHead
<1>14. ~together => DOMAIN storage' = DOMAIN storage
  BY <1>1, <1>3, <1>5 DEF Right, Exists, Put
<1>15. \A g \in Frameworks : g # f => head'[g] = head[g]
  BY <1>1, <1>5 DEF Shape
<1> QED
  BY <1>2, <1>8, <1>13, <1>14, <1>15, RegisteredSteps DEF PushHead

LEMMA DestroyKeeps ==
  ASSUME FInv, NEW f \in Frameworks, Destroy(f)
  PROVE  FInv'
<1>1. Shape /\ Right(f)
  BY FInvIsRight
<1>2. stage[f] = "ready" /\ stage'[f] = "destroying" /\ Registered(f)
  BY <1>1 DEF Destroy, Enter, Shape, Registered
<1>3. ServerTypeOK' /\ handler' = handler
  BY <1>1, ServerKept DEF Destroy
<1>4. Shape'
  BY <1>1, <1>3 DEF Shape, Destroy, Enter, Stage
<1>5. \A kind : Names(f, kind)' = Names(f, kind)
  BY NamesKept DEF Destroy
<1>6. Right(f)'
  BY <1>1, <1>2, <1>3, <1>5 DEF Right, Registered, Destroy, Exists
<1> QED
  BY <1>1, <1>2, <1>4, <1>6, RegisteredSteps DEF Destroy, Enter, Shape

LEMMA DestroyMemberKeeps ==
  ASSUME FInv, NEW f \in Frameworks, DestroyMember(f)
  PROVE  FInv'
<1>1. Shape /\ Right(f)
  BY FInvIsRight
<1>2. stage[f] = "destroying" /\ Registered(f) /\ handler = f
  BY <1>1 DEF DestroyMember, Registered, Right
<1>3. ServerTypeOK' /\ handler' = handler
  BY <1>1, ServerKept DEF DestroyMember
<1>4. CASE built[f] = 0 /\ Enter(f, "unregister") /\ UNCHANGED <<built, head>>
  <2>1. toCreate[f] = {} /\ "unregister" \in Stage
    BY <1>1, <1>2 DEF Right, Stage
  <2> QED
    BY <1>1, <1>2, <1>3, <1>4, <2>1, OnlyTheStage DEF DestroyMember, Shape
<1>5. CASE /\ built[f] > 0
           /\ built' = [built EXCEPT ![f] = built[f] - 1]
           /\ head' = [head EXCEPT ![f] = [s \in Names(f, "stream")' |-> head[f][s]]]
           /\ stage' = stage
  <2>1. /\ built[f] \in 0 .. Len(Declarations) /\ built'[f] = built[f] - 1
        /\ built' \in [Frameworks -> 0 .. Len(Declarations)]
    BY <1>1, <1>5, DeclarationsTyped DEF Shape
  <2>2. Names(f, "stream")' \subseteq Names(f, "stream")
    BY <1>5, <2>1, NamesShrink
  <2>3. head'[f] = [s \in Names(f, "stream")' |-> head[f][s]]
    BY <1>1, <1>5 DEF Shape
  <2>4. head[f] \in [Names(f, "stream") -> 0 .. MaxHead]
    BY <1>1 DEF Right
  <2>5. head'[f] \in [Names(f, "stream")' -> 0 .. MaxHead]
    BY <2>2, <2>3, <2>4
  <2>6. ~together =>
          \A s \in DOMAIN head'[f] : s \in DOMAIN storage /\ head'[f][s] = storage[s]
    BY <1>1, <2>2, <2>3, <2>4 DEF Right, Exists
  <2>7. Shape'
    BY <1>1, <1>3, <1>5, <2>1 DEF Shape, DestroyMember
  <2>8. Right(f)'
    BY <1>1, <1>2, <1>3, <1>5, <2>1, <2>5, <2>6 DEF Right, Registered, DestroyMember, Exists
  <2> QED
    BY <1>1, <1>2, <1>5, <2>7, <2>8, RegisteredSteps DEF DestroyMember, Shape
<1> QED
  BY <1>4, <1>5 DEF DestroyMember

LEMMA UnregisterHandlerKeeps ==
  ASSUME FInv, NEW f \in Frameworks, UnregisterHandler(f)
  PROVE  FInv'
<1>1. Shape /\ \A g \in Frameworks : Right(g)
  BY FInvIsRight
<1>2. stage[f] = "unregister" /\ handler = f /\ built[f] = 0 /\ toCreate[f] = {}
  BY <1>1 DEF UnregisterHandler, Right, Registered
<1>3. ServerTypeOK' /\ handler' = NoHandler /\ NoHandler \notin Frameworks
  BY <1>1, ServerAssumption
     DEF Shape, UnregisterHandler, Unregister, ServerTypeOK, Frameworks, RequestAt
<1>4. /\ UNCHANGED <<storage, built, head, toCreate, together>>
      /\ exporters' \in [Frameworks -> SUBSET Streams]
      /\ "none" \in Stage /\ Enter(f, "none")
  BY <1>1 DEF Shape, UnregisterHandler, Stage
<1>5. handler' # f /\ \A g \in Frameworks : g # f => handler' # g /\ handler # g
  BY <1>2, <1>3
<1> QED
  BY <1>1, <1>2, <1>3, <1>4, <1>5, OnlyTheStage DEF Shape
-----------------------------------------------------------------------------
(***************************************************************************)
(* The requests, and the end of the process.                               *)
(***************************************************************************)

\* What leaves the frameworks and the registration alone.
LEMMA RequestStepsKeep ==
  ASSUME FInv, UNCHANGED <<frameworkVars, handler>>, ServerTypeOK'
  PROVE  FInv'
<1>1. \A f, kind : Names(f, kind)' = Names(f, kind)
  BY DEF Names, frameworkVars
<1> QED
  BY <1>1 DEF FInv, FTypeOK, CreatorsApart, PutsAreNew, IsNext, ReadyIsBuilt,
              HandlerIsRegistered, Registered, HeadIsCurrent, Exists, frameworkVars

LEMMA ThreadsKeepServer ==
  ASSUME ServerTypeOK, NEW q \in Requests,
         \/ Connect(q) \/ Accept(q) \/ Dispatch(q) \/ Refused(q)
         \/ HandleRequest(q) \/ Send(q) \/ Receive(q)
  PROVE  ServerTypeOK' /\ handler' = handler
<1> USE DEF ServerTypeOK, RequestAt, portVars, Goto
<1>1. CASE Connect(q)
  BY <1>1 DEF Connect
<1>2. CASE Accept(q)
  BY <1>2 DEF Accept
<1>3. CASE Dispatch(q)
  BY <1>3 DEF Dispatch
<1>4. CASE Refused(q)
  BY <1>4 DEF Refused
<1>5. CASE HandleRequest(q)
  BY <1>5 DEF HandleRequest
<1>6. CASE Send(q)
  BY <1>6 DEF Send
<1>7. CASE Receive(q)
  BY <1>7 DEF Receive
<1> QED
  BY <1>1, <1>2, <1>3, <1>4, <1>5, <1>6, <1>7

LEMMA HandlerKeepsServer ==
  ASSUME ServerTypeOK, NEW q \in Requests, NEW s \in Streams, HandleRequestSync(q, s)
  PROVE  ServerTypeOK' /\ handler' = handler
<1>1. /\ UNCHANGED <<portVars, serving>>
      /\ request' \in [Requests -> RequestAt]
      /\ given' = given \/ given' = [given EXCEPT ![q] = NoHandler]
  BY DEF HandleRequestSync, Answer, Goto, ServerTypeOK, RequestAt
<1> QED
  BY <1>1 DEF ServerTypeOK, portVars

LEMMA ProcessEndsKeeps ==
  ASSUME FInv, ProcessEnds
  PROVE  FInv'
<1>1. \A f \in Frameworks : built'[f] = 0 /\ built'[f] \in 0 .. Len(Declarations)
  BY DeclarationsTyped DEF ProcessEnds
<1>2. \A f \in Frameworks : \A kind : Names(f, kind)' = {}
  BY <1>1 DEF Names
<1>3. Shape'
  BY <1>1, DeclarationsTyped
     DEF FInv, FTypeOK, Shape, ProcessEnds, NoHeads, ServerEnds, ServerTypeOK, RequestAt, Stage
<1>4. CreatorsApart'
  BY DEF ProcessEnds, CreatorsApart
<1>5. ASSUME NEW f \in Frameworks PROVE Right(f)'
  BY <1>1, <1>2, ServerAssumption
     DEF Right, Registered, ProcessEnds, NoHeads, ServerEnds, Frameworks
<1> QED
  BY <1>3, <1>4, <1>5
     DEF FInv, FTypeOK, Shape, Right, PutsAreNew, ReadyIsBuilt, HandlerIsRegistered,
         HeadIsCurrent
-----------------------------------------------------------------------------
(***************************************************************************)
(* The theorems.                                                           *)
(***************************************************************************)
LEMMA FInvNext == FInv /\ [Next]_vars => FInv'
<1> SUFFICES ASSUME FInv, [Next]_vars PROVE FInv'
  OBVIOUS
<1>1. ASSUME NEW f \in Frameworks, FrameworkStep(f) PROVE FInv'
  BY <1>1, ApplyLooksKeeps, ApplyPutsKeeps, ApplyFailsKeeps, CheckPublishersKeeps,
     OpenPortKeeps, RegisterHandlerKeeps, ConstructMemberKeeps, ConstructMemberFailsKeeps,
     ConstructedKeeps, DestroyMemberKeeps, UnregisterHandlerKeeps DEF FrameworkStep
<1>2. ASSUME NEW f \in Frameworks, \/ \E S \in SUBSET Streams : Begin(f, S)
                                   \/ Destroy(f)
                                   \/ \E s \in Streams : PushHead(f, s)
      PROVE  FInv'
  BY <1>2, BeginKeeps, DestroyKeeps, PushHeadKeeps
<1>3. ASSUME NEW q \in Requests, \/ Client(q)
                                 \/ ServingThread(q)
                                 \/ RequestThread(q)
      PROVE  FInv'
  <2>1. UNCHANGED frameworkVars
    BY <1>3 DEF Client, ServingThread, RequestThread, HandleRequestSync
  <2>2. ServerTypeOK
    BY DEF FInv, FTypeOK
  <2>3. ServerTypeOK' /\ handler' = handler
    <3>1. CASE \E s \in Streams : HandleRequestSync(q, s)
      BY <2>2, <3>1, HandlerKeepsServer
    <3>2. CASE \/ Connect(q) \/ Accept(q) \/ Dispatch(q) \/ Refused(q)
               \/ HandleRequest(q) \/ Send(q) \/ Receive(q)
      BY <2>2, <3>2, ThreadsKeepServer
    <3> QED
      BY <1>3, <3>1, <3>2 DEF Client, ServingThread, RequestThread
  <2> QED
    BY <2>1, <2>3, RequestStepsKeep
<1>4. CASE UNCHANGED vars
  <2>1. UNCHANGED <<frameworkVars, handler>> /\ ServerTypeOK'
    BY <1>4 DEF vars, serverVars, portVars, requestVars, FInv, FTypeOK, ServerTypeOK
  <2> QED
    BY <2>1, RequestStepsKeep
<1> QED
  BY <1>1, <1>2, <1>3, <1>4, ProcessEndsKeeps DEF Next

\* However many frameworks are constructed and destroyed at a time, the one that is
\* registered with the server alone has members, and its heads are those of the storage;
\* what finds a stream not to exist is the only one that can create it, as long as no
\* two have a stream to create together.
THEOREM FrameworkInvariance == Spec => []FInv
  BY FInvInit, FInvNext, PTL DEF Spec

\* The types are right, and a framework that is not registered has neither streams nor
\* publishers nor exporters among its members.
THEOREM FrameworkTypes == Spec => []FTypeOK
<1>1. FInv => FTypeOK
  BY DEF FInv
<1> QED
  BY <1>1, FrameworkInvariance, PTL

\* The server's handler is the framework that is registered, so UnregisterHandler
\* never throws in its destructor, whoever else failed to be constructed meanwhile.
THEOREM HandlerIsTheFramework == Spec => []HandlerIsRegistered
<1>1. FInv => HandlerIsRegistered
  BY DEF FInv
<1> QED
  BY <1>1, FrameworkInvariance, PTL

\* The head that a stream read once stays the one in the storage: no other framework
\* has a publisher that could move it, nor, unless two frameworks create a stream
\* together, puts the head of a stream that exists.
THEOREM HeadsAreCurrent == Spec => []HeadIsCurrent
<1>1. FInv => HeadIsCurrent
  BY DEF FInv
<1> QED
  BY <1>1, FrameworkInvariance, PTL

LEMMA StorageGrows ==
  FInv /\ [Next]_vars =>
    [~together => \A s \in DOMAIN storage :
                    s \in DOMAIN storage' /\ storage'[s] >= storage[s]]_vars
<1> SUFFICES ASSUME FInv, Next, ~together, NEW s \in DOMAIN storage
             PROVE  s \in DOMAIN storage' /\ storage'[s] >= storage[s]
  OBVIOUS
<1>1. storage[s] \in Nat
  BY FrameworkAssumption DEF FInv, FTypeOK
<1>2. CASE storage' = storage
  BY <1>1, <1>2
<1>3. ASSUME NEW f \in Frameworks, ApplyPuts(f)
      PROVE  s \in DOMAIN storage' /\ storage'[s] >= storage[s]
  <2>1. PICK t \in Streams : IsNext(f, t) /\ storage' = Put(storage, t, 0)
    BY <1>3 DEF ApplyPuts
  <2>2. t # s
    BY <1>3, <2>1 DEF FInv, PutsAreNew, ApplyPuts, Exists
  <2> QED
    BY <1>1, <2>1, <2>2 DEF Put
<1>4. ASSUME NEW f \in Frameworks, NEW t \in Streams, PushHead(f, t)
      PROVE  s \in DOMAIN storage' /\ storage'[s] >= storage[s]
  <2>1. Shape /\ Right(f)
    BY FInvIsRight
  <2>2. t \in DOMAIN head[f]
    BY <1>4, <2>1, PublishersHaveStreams DEF PushHead, Right
  <2>3. head[f][t] = storage[t]
    BY <2>1, <2>2 DEF Right
  <2>4. storage' = Put(storage, t, head[f][t] + 1)
    BY <1>4 DEF PushHead
  <2> QED
    BY <1>1, <2>3, <2>4 DEF Put
<1>5. (\E f \in Frameworks : ApplyPuts(f) \/ \E t \in Streams : PushHead(f, t))
      \/ storage' = storage
  BY DEF Next, Begin, Destroy, FrameworkStep, ApplyLooks, ApplyFails, CheckPublishers,
         OpenPort, RegisterHandler, ConstructMember, ConstructMemberFails, Constructed,
         DestroyMember, UnregisterHandler, Client, ServingThread, RequestThread,
         HandleRequestSync, ProcessEnds, frameworkVars
<1> QED
  BY <1>2, <1>3, <1>4, <1>5

\* No stream is lost or moved back unless two frameworks create one together: not by
\* the creation of streams that exist, by a framework that goes on from what it read, or
\* by the end of the process.
THEOREM HeadsAreKept == Spec => CreationKeepsHeads
  BY FrameworkInvariance, StorageGrows, PTL DEF Spec, CreationKeepsHeads
=============================================================================
