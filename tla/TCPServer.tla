------------------------------- MODULE TCPServer -------------------------------
(***************************************************************************)
(* One port of the TCP server: the accepter, which is made when the port   *)
(* is first used and then listens as long as the process lives, its        *)
(* serving thread, and a thread for each request, which runs the handler   *)
(* it was given through a bare pointer.                                    *)
(*                                                                         *)
(* What the handler does with a request is the business of the module that *)
(* has the handlers, and so is when they are registered.  The threads of   *)
(* this module and of that one interleave.                                 *)
(***************************************************************************)
EXTENDS Naturals

CONSTANTS
  Handlers,       \* the user's handlers
  Requests,       \* the connections
  NoHandler,      \* handler_ is null
  NoRequest       \* the serving thread has no request

ASSUME ServerAssumption ==
  /\ NoHandler \notin Handlers
  /\ NoRequest \notin Requests

VARIABLES
  listening,   \* the port has its accepter
  handler,     \* handler_
  serving,     \* the request the serving thread accepted
  request,     \* where each request is
  given        \* the handler its thread was given

portVars == <<listening, handler>>

requestVars == <<serving, request, given>>

serverVars == <<portVars, requestVars>>

\* A request whose handler is gone before its thread is done with it is "lost":
\* what the thread does from there on is undefined.
RequestAt == {"none", "waiting", "accepted", "refusing", "started", "reading", "asked",
              "answering", "streaming", "lost"}

\* The serving thread holds handler_mutex_ from one step to another while it writes
\* "500"; the others that lock it do so for a step.
HandlerMutexFree == \A q \in Requests : request[q] # "refusing"

ServerInit ==
  /\ listening = FALSE
  /\ handler = NoHandler
  /\ serving = NoRequest
  /\ request = [q \in Requests |-> "none"]
  /\ given = [q \in Requests |-> NoHandler]
-----------------------------------------------------------------------------
(***************************************************************************)
(* What ScopedHandlerRegisterer calls.                                     *)
(***************************************************************************)

\* Instance()[port]: the accepter is there, or is made.  When the port cannot be
\* had it throws TCPServerSpawnException, and leaves a null accepter in by_port_,
\* for which the next call tries again.
Open == listening' = TRUE /\ UNCHANGED <<handler, requestVars>>

OpenFails == ~listening /\ UNCHANGED serverVars

\* A defect: a handler that is registered is replaced.
RegisterOverwrites(h) ==
  /\ HandlerMutexFree
  /\ handler' = h
  /\ UNCHANGED <<listening, requestVars>>

\* RegisterHandler, unless it throws.
Register(h) ==
  /\ HandlerMutexFree
  /\ handler = NoHandler
  /\ handler' = h
  /\ UNCHANGED <<listening, requestVars>>

RegisterRefused == HandlerMutexFree /\ handler # NoHandler /\ UNCHANGED serverVars

\* UnregisterHandler, unless it throws; the handler goes with its wrapper.
Unregister(h) ==
  /\ HandlerMutexFree
  /\ handler # NoHandler
  /\ handler' = NoHandler
  /\ request' = [q \in Requests |-> IF given[q] = h THEN "lost" ELSE request[q]]
  /\ given' = [q \in Requests |-> IF given[q] = h THEN NoHandler ELSE given[q]]
  /\ UNCHANGED <<listening, serving>>
-----------------------------------------------------------------------------
(***************************************************************************)
(* The serving thread, and the thread of a request.                        *)
(***************************************************************************)
Goto(q, r) == request' = [request EXCEPT ![q] = r]

\* A client connects, again perhaps.
Connect(q) ==
  /\ listening
  /\ request[q] = "none"
  /\ Goto(q, "waiting")
  /\ UNCHANGED <<portVars, serving, given>>

Accept(q) ==
  /\ serving = NoRequest
  /\ request[q] = "waiting"
  /\ serving' = q
  /\ Goto(q, "accepted")
  /\ UNCHANGED <<portVars, given>>

\* A defect: the serving thread waits for a handler.
DispatchWaits(q) ==
  /\ request[q] = "accepted"
  /\ handler # NoHandler
  /\ serving' = NoRequest
  /\ Goto(q, "started") /\ given' = [given EXCEPT ![q] = handler]
  /\ UNCHANGED portVars

\* With handler_mutex_ locked: start a thread for the request, or go about answering
\* "500" ...
Dispatch(q) ==
  /\ request[q] = "accepted"
  /\ IF handler # NoHandler
     THEN /\ serving' = NoRequest
          /\ Goto(q, "started") /\ given' = [given EXCEPT ![q] = handler]
     ELSE Goto(q, "refusing") /\ UNCHANGED <<serving, given>>
  /\ UNCHANGED portVars

\* ... which is written, and the mutex released.
Refused(q) ==
  /\ request[q] = "refusing"
  /\ serving' = NoRequest
  /\ Goto(q, "none")
  /\ UNCHANGED <<portVars, given>>

\* The thread gets to the handler's HandleRequestSync, and there waits for a line.
HandleRequest(q) ==
  /\ request[q] = "started"
  /\ Goto(q, "reading")
  /\ UNCHANGED <<portVars, serving, given>>

\* The client sends its line, if it ever does.
Send(q) ==
  /\ request[q] = "reading"
  /\ Goto(q, "asked")
  /\ UNCHANGED <<portVars, serving, given>>

\* The answer, for which the handler is not needed any more, is being written ...
Answer(q) ==
  /\ Goto(q, "answering")
  /\ given' = [given EXCEPT ![q] = NoHandler]
  /\ UNCHANGED <<portVars, serving>>

\* ... and the client takes it, if it ever does.
Receive(q) ==
  /\ request[q] = "answering"
  /\ Goto(q, "none")
  /\ UNCHANGED <<portVars, serving, given>>

\* The process ends: an exception of a socket in the serving thread or in a
\* request's is caught by nobody, say.
ServerEnds ==
  /\ listening' = FALSE
  /\ handler' = NoHandler
  /\ serving' = NoRequest
  /\ request' = [q \in Requests |-> "none"]
  /\ given' = [q \in Requests |-> NoHandler]

ServerTypeOK ==
  /\ listening \in BOOLEAN
  /\ handler \in Handlers \union {NoHandler}
  /\ serving \in Requests \union {NoRequest}
  /\ request \in [Requests -> RequestAt]
  /\ given \in [Requests -> Handlers \union {NoHandler}]
=============================================================================
