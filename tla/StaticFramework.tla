---------------------------- MODULE StaticFramework ----------------------------
(***************************************************************************)
(* The life of frameworks, the streams they keep in a storage, and the     *)
(* requests that the TCP server of their port hands to them.               *)
(*                                                                         *)
(* The constructor of a framework creates the streams it is asked to,      *)
(* registers the framework with the server, and then constructs the        *)
(* members its macros declare: streams, publishers, exporters.  What       *)
(* throws undoes what was constructed.  A stream reads its head from the   *)
(* storage once, and pushes go by the head in memory from then on.         *)
(*                                                                         *)
(* The frameworks share a storage.  Threads construct and destroy them,    *)
(* several at a time perhaps, and each step of a thread is one access to   *)
(* what others share.  The process may end at any time; what is left then  *)
(* is the storage.                                                         *)
(***************************************************************************)
EXTENDS TCPServer, Sequences, FiniteSets

CONSTANTS
  Streams,        \* the streams' names, numbers for the order of std::map
  Declarations,   \* the members the macros declare, in order
  MaxHead         \* bound: how far the head of a stream is moved

\* The framework objects are the handlers of the port.
Frameworks == Handlers

Declaration == [kind : {"stream", "publisher", "exporter"}, name : Streams]

\* The type of a publisher needs that of its stream, which is declared before it.
ASSUME FrameworkAssumption ==
  /\ Streams \subseteq Nat /\ IsFiniteSet(Streams)
  /\ Declarations \in Seq(Declaration)
  /\ \A i \in 1 .. Len(Declarations) : Declarations[i].kind = "publisher" =>
       \E j \in 1 .. i : Declarations[j] = [Declarations[i] EXCEPT !.kind = "stream"]
  /\ MaxHead \in Nat

VARIABLES
  storage,     \* the heads of the streams that exist in the storage
  stage,       \* how far the construction or destruction of a framework is
  toCreate,    \* the streams Apply has yet to create
  built,       \* how many of a framework's members are constructed
  head,        \* stream.head of the streams a framework has constructed
  exporters,   \* exporters_: the names in the map, whose pointers may dangle
  together     \* history: two frameworks had a stream to create at the same time,
               \* in this process

frameworkVars == <<storage, stage, toCreate, built, head, exporters, together>>

vars == <<frameworkVars, serverVars>>

Stage == {"none", "apply", "put", "open", "register", "constructing", "ready",
          "destroying", "unregister"}

\* Heads, with that of s, put there or changed to h.
NoHeads == [s \in {} |-> 0]

Put(heads, s, h) == [t \in DOMAIN heads \union {s} |-> IF t = s THEN h ELSE heads[t]]

Init ==
  /\ storage = NoHeads
  /\ ServerInit
  /\ stage = [f \in Frameworks |-> "none"]
  /\ toCreate = [f \in Frameworks |-> {}]
  /\ built = [f \in Frameworks |-> 0]
  /\ head = [f \in Frameworks |-> NoHeads]
  /\ exporters = [f \in Frameworks |-> {}]
  /\ together = FALSE

Exists(s) == s \in DOMAIN storage

Enter(f, s) == stage' = [stage EXCEPT ![f] = s]

Names(f, kind) ==
  {Declarations[i].name : i \in {j \in 1 .. built[f] : Declarations[j].kind = kind}}
-----------------------------------------------------------------------------
(***************************************************************************)
(* The constructor of StaticFramework.                                     *)
(***************************************************************************)

\* The constructor is called with the streams to create, if any.
Begin(f, S) ==
  /\ stage[f] = "none"
  /\ Enter(f, "apply")
  /\ toCreate' = [toCreate EXCEPT ![f] = S]
  /\ together' = (together \/ \E g \in Frameworks : toCreate[g] \intersect S # {})
  /\ UNCHANGED <<storage, built, head, exporters, serverVars>>

\* The first of the streams that are left in Apply, in the order of std::map.
IsNext(f, s) == s \in toCreate[f] /\ \A t \in toCreate[f] : s <= t

\* A defect: a stream that exists is created again.
ApplyOverwrites(f) ==
  /\ stage[f] = "apply"
  /\ toCreate[f] # {}
  /\ Enter(f, "put")
  /\ UNCHANGED <<storage, toCreate, built, head, exporters, together, serverVars>>

\* Apply calls Set, which finds that the stream does not exist ...
ApplyLooks(f) ==
  /\ stage[f] = "apply"
  /\ \E s \in Streams : IsNext(f, s) /\ ~Exists(s)
  /\ Enter(f, "put")
  /\ UNCHANGED <<storage, toCreate, built, head, exporters, together, serverVars>>

\* ... and puts its head, without looking again.
ApplyPuts(f) ==
  /\ stage[f] = "put"
  /\ \E s \in Streams :
       /\ IsNext(f, s)
       /\ storage' = Put(storage, s, 0)
       /\ toCreate' = [toCreate EXCEPT ![f] = @ \ {s}]
  /\ Enter(f, "apply")
  /\ UNCHANGED <<built, head, exporters, together, serverVars>>

\* Apply throws, StreamAlreadyExistsException or std::domain_error, and what it
\* created stays: Set finds that the stream exists, as it does if it cannot read the
\* storage, or fails to put the head.
ApplyFails(f) ==
  /\ stage[f] \in {"apply", "put"}
  /\ toCreate[f] # {}
  /\ Enter(f, "none")
  /\ toCreate' = [toCreate EXCEPT ![f] = {}]
  /\ UNCHANGED <<storage, built, head, exporters, together, serverVars>>

\* EnsureThereAreNoStreamsWithoutPublishers(streams_declared_, ...)
StreamsWithoutPublishers(f) == Names(f, "stream") \ Names(f, "publisher")

\* A defect: the framework goes on before its streams are created.
CheckPublishersFirst(f) ==
  /\ stage[f] = "apply"
  /\ Enter(f, IF StreamsWithoutPublishers(f) = {} THEN "open" ELSE "none")
  /\ UNCHANGED <<storage, toCreate, built, head, exporters, together, serverVars>>

\* ... finds none, as no member is constructed yet.
CheckPublishers(f) ==
  /\ stage[f] = "apply"
  /\ toCreate[f] = {}
  /\ Enter(f, IF StreamsWithoutPublishers(f) = {} THEN "open" ELSE "none")
  /\ UNCHANGED <<storage, toCreate, built, head, exporters, together, serverVars>>

\* ScopedHandlerRegisterer gets the accepter of the port ...
OpenPort(f) ==
  /\ stage[f] = "open"
  /\ \/ Open /\ Enter(f, "register")
     \/ OpenFails /\ Enter(f, "none")
  /\ UNCHANGED <<storage, toCreate, built, head, exporters, together>>

\* A defect: the framework waits until no other is registered.
RegisterHandlerWaits(f) ==
  /\ stage[f] = "register"
  /\ Register(f) /\ Enter(f, "constructing")
  /\ UNCHANGED <<storage, toCreate, built, head, exporters, together>>

\* ... and registers the framework, or throws if there is another.
RegisterHandler(f) ==
  /\ stage[f] = "register"
  /\ \/ Register(f) /\ Enter(f, "constructing")
     \/ RegisterRefused /\ Enter(f, "none")
  /\ UNCHANGED <<storage, toCreate, built, head, exporters, together>>
-----------------------------------------------------------------------------
(***************************************************************************)
(* The members of the framework, and their end.                            *)
(***************************************************************************)

MemberToBuild(f) == Declarations[built[f] + 1]

\* A stream reads its head and declares itself, as a publisher does; an exporter
\* adds itself to the exporters.
ConstructMember(f) ==
  /\ stage[f] = "constructing"
  /\ built[f] < Len(Declarations)
  /\ LET d == MemberToBuild(f)
     IN \/ /\ d.kind = "stream" /\ Exists(d.name)
           /\ head' = [head EXCEPT ![f] = Put(@, d.name, storage[d.name])]
           /\ UNCHANGED exporters
        \/ d.kind = "publisher" /\ UNCHANGED <<head, exporters>>
        \/ /\ d.kind = "exporter"
           /\ exporters' = [exporters EXCEPT ![f] = @ \union {d.name}]
           /\ UNCHANGED head
  /\ built' = [built EXCEPT ![f] = @ + 1]
  /\ UNCHANGED <<storage, stage, toCreate, together, serverVars>>

\* The stream throws: it does not exist, cannot be read, or its head is malformed.
ConstructMemberFails(f) ==
  /\ stage[f] = "constructing"
  /\ built[f] < Len(Declarations)
  /\ MemberToBuild(f).kind = "stream"
  /\ Enter(f, "destroying")
  /\ UNCHANGED <<storage, toCreate, built, head, exporters, together, serverVars>>

Constructed(f) ==
  /\ stage[f] = "constructing"
  /\ built[f] = Len(Declarations)
  /\ Enter(f, "ready")
  /\ UNCHANGED <<storage, toCreate, built, head, exporters, together, serverVars>>

\* A publisher moves the head in the storage and in memory; module Publisher has
\* the steps of it.
PushHead(f, s) ==
  /\ stage[f] = "ready"
  /\ s \in Names(f, "publisher")
  /\ head[f][s] < MaxHead
  /\ head' = [head EXCEPT ![f] = Put(@, s, head[f][s] + 1)]
  /\ storage' = Put(storage, s, head[f][s] + 1)
  /\ UNCHANGED <<stage, toCreate, built, exporters, together, serverVars>>

Destroy(f) ==
  /\ stage[f] = "ready"
  /\ Enter(f, "destroying")
  /\ UNCHANGED <<storage, toCreate, built, head, exporters, together, serverVars>>

\* Members are destroyed, the last one first; RemoveExporter does nothing.
DestroyMember(f) ==
  /\ stage[f] = "destroying"
  /\ \/ built[f] = 0 /\ Enter(f, "unregister") /\ UNCHANGED <<built, head>>
     \/ /\ built[f] > 0
        /\ built' = [built EXCEPT ![f] = @ - 1]
        /\ head' = [head EXCEPT
                      ![f] = [s \in Names(f, "stream")' |-> head[f][s]]]
        /\ UNCHANGED stage
  /\ UNCHANGED <<storage, toCreate, exporters, together, serverVars>>

\* ~ScopedHandlerRegisterer calls UnregisterHandler, and the rest of the framework
\* follows.
UnregisterHandler(f) ==
  /\ stage[f] = "unregister"
  /\ Unregister(f)
  /\ Enter(f, "none")
  /\ exporters' = [exporters EXCEPT ![f] = {}]
  /\ UNCHANGED <<storage, toCreate, built, head, together>>

\* AddExporter may be changing the map.
AddsExporter(f) ==
  /\ stage[f] = "constructing"
  /\ built[f] < Len(Declarations)
  /\ MemberToBuild(f).kind = "exporter"

\* HandleRequestSync has read the name of an exporter.  It finds it, and it streams
\* without end, or answers with the list of exporters.  The one it finds may be gone,
\* of a framework being destroyed, and the map may be changing meanwhile.
HandleRequestSync(q, s) ==
  /\ request[q] = "asked"
  /\ LET f == given[q]
     IN \/ /\ s \in exporters[f]
           /\ Goto(q, IF s \in Names(f, "exporter") THEN "streaming" ELSE "lost")
           /\ UNCHANGED <<portVars, serving, given>>
        \/ s \notin exporters[f] /\ Answer(q)
        \/ AddsExporter(f) /\ Goto(q, "lost") /\ UNCHANGED <<portVars, serving, given>>
  /\ UNCHANGED frameworkVars

\* The process ends and another one may be started.
ProcessEnds ==
  /\ stage' = [f \in Frameworks |-> "none"]
  /\ toCreate' = [f \in Frameworks |-> {}]
  /\ built' = [f \in Frameworks |-> 0]
  /\ head' = [f \in Frameworks |-> NoHeads]
  /\ exporters' = [f \in Frameworks |-> {}]
  /\ together' = FALSE
  /\ ServerEnds
  /\ UNCHANGED storage

FrameworkStep(f) ==
  \/ ApplyLooks(f)
  \/ ApplyPuts(f)
  \/ ApplyFails(f)
  \/ CheckPublishers(f)
  \/ OpenPort(f)
  \/ RegisterHandler(f)
  \/ ConstructMember(f)
  \/ ConstructMemberFails(f)
  \/ Constructed(f)
  \/ DestroyMember(f)
  \/ UnregisterHandler(f)

RequestThread(q) ==
  \/ HandleRequest(q) /\ UNCHANGED frameworkVars
  \/ \E s \in Streams : HandleRequestSync(q, s)

ServingThread(q) == (Accept(q) \/ Dispatch(q) \/ Refused(q)) /\ UNCHANGED frameworkVars

Client(q) == (Connect(q) \/ Send(q) \/ Receive(q)) /\ UNCHANGED frameworkVars

Next ==
  \/ \E f \in Frameworks :
       \/ \E S \in SUBSET Streams : Begin(f, S)
       \/ Destroy(f)
       \/ \E s \in Streams : PushHead(f, s)
       \/ FrameworkStep(f)
  \/ \E q \in Requests :
       \/ Client(q)
       \/ ServingThread(q)
       \/ RequestThread(q)
  \/ ProcessEnds

Spec == Init /\ [][Next]_vars

\* Threads are scheduled, and the connections that wait are accepted in turn.  Four
\* bytes fit in the buffer of a new socket, so that "500" does not wait for the client.
\* Clients need not ever send or receive.
Fairness ==
  /\ \A f \in Frameworks : WF_vars(FrameworkStep(f))
  /\ \A q \in Requests :
       /\ SF_vars(Accept(q) /\ UNCHANGED frameworkVars)
       /\ WF_vars((Dispatch(q) \/ Refused(q)) /\ UNCHANGED frameworkVars)
       /\ WF_vars(RequestThread(q))

FairSpec == Spec /\ Fairness
-----------------------------------------------------------------------------
(***************************************************************************)
(* Correctness.                                                            *)
(***************************************************************************)

\* The types; only a framework being constructed creates streams; only one that
\* was registered has members.
FTypeOK ==
  /\ ServerTypeOK
  /\ DOMAIN storage \subseteq Streams /\ storage \in [DOMAIN storage -> 0 .. MaxHead]
  /\ stage \in [Frameworks -> Stage]
  /\ toCreate \in [Frameworks -> SUBSET Streams]
  /\ built \in [Frameworks -> 0 .. Len(Declarations)]
  /\ exporters \in [Frameworks -> SUBSET Streams]
  /\ together \in BOOLEAN
  /\ DOMAIN head = Frameworks
  /\ \A f \in Frameworks :
       /\ head[f] \in [Names(f, "stream") -> 0 .. MaxHead]
       /\ toCreate[f] # {} => stage[f] \in {"apply", "put"}
       /\ built[f] # 0 => stage[f] \in {"constructing", "ready", "destroying"}

Registered(f) == stage[f] \in {"constructing", "ready", "destroying", "unregister"}

\* The server's handler is the framework that is registered and not yet destroyed,
\* although others may fail to be constructed beside it, or it may fail halfway:
\* UnregisterHandler never throws out of a destructor, and no request is handed to a
\* framework that does not exist.
HandlerIsRegistered == \A f \in Frameworks : handler = f <=> Registered(f)

\* The head a stream keeps in memory is the one in the storage, unless two frameworks
\* created a stream together: frameworks share the storage, and nothing but the port
\* they register at keeps a second one from reading heads that the first then moves.
HeadIsCurrent ==
  ~together =>
    \A f \in Frameworks : \A s \in DOMAIN head[f] : Exists(s) /\ head[f][s] = storage[s]

\* A stream once created stays, and its head is never moved back, unless two frameworks
\* created a stream together: not by starting again with the same streams to create
\* after the process ended halfway through Apply, nor by a framework that fails to be
\* constructed, or is while another one pushes.
CreationKeepsHeads ==
  [][~together =>
       \A s \in DOMAIN storage : s \in DOMAIN storage' /\ storage'[s] >= storage[s]]_vars

\* What a request waits for that its client does not owe: to be accepted, a thread or
\* "500", and once it has asked, its answer or an exporter.
Pending == {"waiting", "accepted", "refusing", "started", "asked"}

\* A request is not left pending, whatever stage the frameworks are at, and although
\* other clients may never send the line that their threads read, nor take answers.
RequestsAnswered ==
  \A q \in Requests : request[q] \in Pending ~> request[q] \notin Pending

UnderWay(f) == stage[f] \notin {"none", "ready"}

\* A construction succeeds or fails and a destruction ends, beside other frameworks and
\* although the mutex they register with is held while clients are refused, unless
\* connections come in again and again: std::mutex need not ever let a second thread in.
ConstructionEnds ==
  \A f \in Frameworks :
    UnderWay(f) ~> ~UnderWay(f) \/ \E q \in Requests : request[q] = "waiting"
-----------------------------------------------------------------------------
(***************************************************************************)
(* The inductive invariant.  The frameworks that create streams have none  *)
(* in common to create, and each is the only one that could create its     *)
(* next stream after it found that it does not exist; one framework is     *)
(* registered, which alone has members, all of them once it is             *)
(* constructed.                                                            *)
(***************************************************************************)
CreatorsApart ==
  ~together =>
    \A f, g \in Frameworks : f # g => toCreate[f] \intersect toCreate[g] = {}

PutsAreNew ==
  ~together =>
    \A f \in Frameworks : stage[f] = "put" => \A s \in Streams : IsNext(f, s) => ~Exists(s)

ReadyIsBuilt == \A f \in Frameworks : stage[f] = "ready" => built[f] = Len(Declarations)

FInv ==
  /\ FTypeOK
  /\ CreatorsApart
  /\ PutsAreNew
  /\ ReadyIsBuilt
  /\ HandlerIsRegistered
  /\ HeadIsCurrent
=============================================================================
