---------------------------- MODULE UserActions ----------------------------
(***************************************************************************)
(* The actions generated by lesf/ipc/user_actions.h and lesf::ipc::        *)
(* ActionServer, over a pair of endpoints.                                 *)
(*                                                                         *)
(* Threads of the client's process call async, which sends a request and   *)
(* leaves a handler for its response.  The receive thread of the server    *)
(* starts a thread per request; that thread computes the response and      *)
(* sends it.  The receive thread of the client finds the handler by the id *)
(* of the request and calls it.  Each type of action (kind) has a mutex,   *)
(* which async holds while it sends and the receive thread while the       *)
(* handler runs.                                                           *)
(*                                                                         *)
(* The two directions of the endpoints are the mailboxes of Channel, which *)
(* module Endpoint implements: a send waits for the place of the buffer,   *)
(* which stays occupied while a slot runs.  A send that throws, because    *)
(* the message cannot be serialized or is too long, leaves the semaphores  *)
(* of its buffer taken: nothing is sent through that buffer any more.      *)
(***************************************************************************)
EXTENDS Naturals, Sequences, SequencesExt

CONSTANTS
    Callers,    \* threads of the client's process that call async
    Receiver,   \* the receive thread of the client's endpoint
    Kinds,      \* the types of actions
    KindOf,     \* KindOf[t] is the kind of the actions of thread t
    Follow,     \* Follow[k] are the kinds of actions that handlers of kind k may start
    Throwing,   \* kinds whose response handlers may throw a recoverable exception
    Unsendable, \* kinds whose actions and responses Endpoint::send may throw for
    Erring,     \* kinds for which the server may return an error
    MaxCalls,   \* bound: calls of async by one thread
    Nobody      \* the holder of a mutex that is free; no kind

Procs == Callers \union {Receiver}

ASSUME UserActionsAssumption ==
    /\ Receiver \notin Callers
    /\ Nobody \notin Procs \union Kinds
    /\ KindOf \in [Callers -> Kinds]
    /\ Follow \in [Kinds -> SUBSET Kinds]
    /\ Throwing \subseteq Kinds /\ Erring \subseteq Kinds /\ Unsendable \subseteq Kinds
    \* a handler need not catch what its own call of async throws
    /\ \A k \in Kinds : Follow[k] \intersect Unsendable # {} => k \in Throwing
    /\ MaxCalls \in Nat

\* ActionServer::generateId never returns the same id twice.  A request and
\* its response carry their id and, as the type of the message, their kind.
Id == [kind : Kinds, from : Procs, call : 0 .. MaxCalls - 1]

\* ResponseData has the members of the response and those of the error, of which
\* error.set tells which it is.
ResponseData == [id : Id, error : BOOLEAN]

VARIABLES
    \* _name::m_mutex and _name::m_internals
    mutex,        \* who holds the mutex of each kind
    connected,    \* kinds whose response slot is registered (Internals::endpoints)
    handlers,     \* the ids in Internals::active_handlers
    \* threads of the client
    pc,           \* where each thread is inside async
    calls,        \* calls of async started by each thread
    follow,       \* the kind of the action that a handler has started last, if any
    recv_pc,      \* where the receive thread is inside M_responseHandler
    \* the server
    workers,      \* the requests whose detached thread has not sent its response
    \* the two directions of the endpoints
    req_sent, req_delivered, req_busy, req_closed,
    rsp_sent, rsp_delivered, rsp_busy, rsp_closed,
    \* sends that have thrown
    unsent,       \* the action that could not be sent, if any
    lost,         \* the requests in the server when a response could not be sent, if ever
    \* history, not in the code
    answers,      \* the responses that handlers have been called with, oldest first
    failed        \* ids whose handler has thrown

Requests == INSTANCE Channel WITH
    Message <- Id, sent <- req_sent, delivered <- req_delivered, busy <- req_busy,
    closed <- req_closed
Responses == INSTANCE Channel WITH
    Message <- ResponseData, sent <- rsp_sent, delivered <- rsp_delivered, busy <- rsp_busy,
    closed <- rsp_closed

requests == <<req_sent, req_delivered, req_busy, req_closed>>
responses == <<rsp_sent, rsp_delivered, rsp_busy, rsp_closed>>
internals == <<mutex, connected, handlers>>
threads == <<pc, calls, follow, recv_pc>>
throws == <<unsent, lost>>
history == <<answers, failed>>
vars == <<mutex, connected, handlers, pc, calls, follow, recv_pc, workers, req_sent, req_delivered,
          req_busy, req_closed, rsp_sent, rsp_delivered, rsp_busy, rsp_closed, unsent, lost, answers,
          failed>>

\* The request or response whose slot is running.
Request == Last(req_delivered)
Answer == Last(rsp_delivered)
Response == Answer.id

\* The receive thread starts actions from inside a handler.
Kind(p) == IF p = Receiver THEN follow ELSE KindOf[p]

\* The action that thread p is asking for.
Mine(p) == [kind |-> Kind(p), from |-> p, call |-> calls[p] - 1]

-----------------------------------------------------------------------------
(* _name::async.  A handler that calls it for its own kind waits for a      *)
(* mutex that its own thread holds, for ever.                               *)

BeginAsync(p) ==
    /\ pc[p] = "idle"
    /\ calls[p] < MaxCalls
    /\ IF p = Receiver
         THEN recv_pc = "handler" /\ follow' \in Follow[Response.kind]
         ELSE ~rsp_closed /\ UNCHANGED follow
    /\ pc' = [pc EXCEPT ![p] = "lock"]
    /\ calls' = [calls EXCEPT ![p] = @ + 1]
    /\ UNCHANGED <<internals, recv_pc, workers, requests, responses, history, throws>>

AsyncLock(p) ==
    /\ pc[p] = "lock"
    /\ mutex[Kind(p)] = Nobody
    /\ mutex' = [mutex EXCEPT ![Kind(p)] = p]
    /\ pc' = [pc EXCEPT ![p] = "register"]
    /\ UNCHANGED <<connected, handlers, calls, follow, recv_pc, workers, requests, responses, history, throws>>

\* Mutation of AsyncRegister: the first call for an endpoint only registers
\* the slot.
AsyncRegisterSlot(p) ==
    /\ pc[p] = "register"
    /\ connected' = connected \union {Kind(p)}
    /\ handlers' = IF Kind(p) \in connected THEN handlers \union {Mine(p)} ELSE handlers
    /\ pc' = [pc EXCEPT ![p] = "send"]
    /\ UNCHANGED <<mutex, calls, follow, recv_pc, workers, requests, responses, history, throws>>

\* The slot for responses is registered once; the handler is stored.
AsyncRegister(p) ==
    /\ pc[p] = "register"
    /\ connected' = connected \union {Kind(p)}
    /\ handlers' = handlers \union {Mine(p)}
    /\ pc' = [pc EXCEPT ![p] = "send"]
    /\ UNCHANGED <<mutex, calls, follow, recv_pc, workers, requests, responses, history, throws>>

AsyncSend(p) ==
    /\ pc[p] = "send"
    /\ unsent = {}
    /\ Requests!Put(Mine(p))
    /\ pc' = [pc EXCEPT ![p] = "unlock"]
    /\ UNCHANGED <<internals, calls, follow, recv_pc, workers, responses, history, throws>>

\* The send throws with both semaphores of the buffer taken, so that this one is
\* the last.  The handler stays in the map; the lock_guard frees the mutex.
AsyncThrow(p) ==
    /\ pc[p] = "send"
    /\ Kind(p) \in Unsendable
    /\ unsent = {} /\ Requests!Free
    /\ unsent' = {Mine(p)}
    /\ pc' = [pc EXCEPT ![p] = "unlock"]
    /\ UNCHANGED <<internals, calls, follow, recv_pc, workers, requests, responses, history, lost>>

AsyncUnlock(p) ==
    /\ pc[p] = "unlock"
    /\ mutex' = [mutex EXCEPT ![Kind(p)] = Nobody]
    /\ pc' = [pc EXCEPT ![p] = "idle"]
    /\ UNCHANGED <<connected, handlers, calls, follow, recv_pc, workers, requests, responses, history, throws>>

-----------------------------------------------------------------------------
(* The slots of ActionServer::registerAction, in the server.                *)

RequestArrives ==
    /\ lost = {}
    /\ Requests!Deliver
    /\ UNCHANGED <<internals, threads, workers, responses, history, throws>>

\* Mutation of StartWorker: the slot itself serves the request.
ServeInSlot ==
    /\ lost = {}
    /\ Requests!Return
    /\ Responses!Put([id |-> Request, error |-> FALSE])
    /\ UNCHANGED <<internals, threads, workers, history, throws>>

\* The slot starts a detached thread and returns.
StartWorker ==
    /\ lost = {}
    /\ Requests!Return
    /\ workers' = workers \union {Request}
    /\ UNCHANGED <<internals, threads, responses, history, throws>>

\* The user's handler has returned a response or an error, which is sent.  The
\* thread uses the endpoint by reference: once that is destroyed it is undefined
\* what it does, and it is not followed any further.
WorkerAnswers(i) ==
    /\ i \in workers
    /\ ~req_closed
    /\ \E error \in BOOLEAN :
          /\ error => i.kind \in Erring
          /\ Responses!Put([id |-> i, error |-> error])
    /\ workers' = workers \ {i}
    /\ UNCHANGED <<internals, threads, requests, history, throws>>

\* The send throws, and nothing catches that in the detached thread: std::terminate
\* ends the process of the server, with the semaphores of the responses taken.
WorkerThrows(i) ==
    /\ i \in workers
    /\ ~req_closed
    /\ i.kind \in Unsendable
    /\ lost = {} /\ Responses!Free
    /\ lost' = workers \union (IF req_busy THEN {Request} ELSE {})
    /\ workers' = {}
    /\ UNCHANGED <<internals, threads, requests, responses, history, unsent>>

-----------------------------------------------------------------------------
(* _name::M_responseHandler, on the receive thread of the client.           *)

\* The slot of the response is looked for by its type; without one, the
\* exception handler is called and the response dropped.
ResponseArrives ==
    /\ recv_pc = "wait"
    /\ Responses!Deliver
    /\ recv_pc' = IF Last(rsp_delivered').id.kind \in connected THEN "lock" ELSE "return"
    /\ UNCHANGED <<internals, pc, calls, follow, workers, requests, history, throws>>

HandlerLock ==
    /\ recv_pc = "lock"
    /\ mutex[Response.kind] = Nobody
    /\ mutex' = [mutex EXCEPT ![Response.kind] = Receiver]
    /\ recv_pc' = "find"
    /\ UNCHANGED <<connected, handlers, pc, calls, follow, workers, requests, responses, history, throws>>

\* Mutation of FindHandler: any handler of the action will do.
FindSomeHandler ==
    /\ recv_pc = "find"
    /\ \E i \in handlers : answers' = Append(answers, [Answer EXCEPT !.id = i])
    /\ recv_pc' = "handler"
    /\ UNCHANGED <<internals, pc, calls, follow, workers, requests, responses, failed, throws>>

\* The handler is called; an unknown id throws BadActionId.
FindHandler ==
    /\ recv_pc = "find"
    /\ IF Response \in handlers
         THEN recv_pc' = "handler" /\ answers' = Append(answers, Answer)
         ELSE recv_pc' = "unlock" /\ UNCHANGED answers
    /\ UNCHANGED <<internals, pc, calls, follow, workers, requests, responses, failed, throws>>

HandlerReturns ==
    /\ recv_pc = "handler"
    /\ pc[Receiver] = "idle"
    /\ handlers' = handlers \ {Response}
    /\ recv_pc' = "unlock"
    /\ UNCHANGED <<mutex, connected, pc, calls, follow, workers, requests, responses, history, throws>>

\* Mutation of HandlerThrows: the mutex is not freed by a lock_guard, but after
\* the handler has returned.
HandlerThrowsLocked ==
    /\ recv_pc = "handler"
    /\ pc[Receiver] = "idle"
    /\ Response.kind \in Throwing
    /\ failed' = failed \union {Response}
    /\ recv_pc' = "return"
    /\ UNCHANGED <<internals, pc, calls, follow, workers, requests, responses, answers, throws>>

\* An exception leaves the handler where it is.
HandlerThrows ==
    /\ recv_pc = "handler"
    /\ pc[Receiver] = "idle"
    /\ Response.kind \in Throwing
    /\ failed' = failed \union {Response}
    /\ recv_pc' = "unlock"
    /\ UNCHANGED <<internals, pc, calls, follow, workers, requests, responses, answers, throws>>

HandlerUnlock ==
    /\ recv_pc = "unlock"
    /\ mutex' = [mutex EXCEPT ![Response.kind] = Nobody]
    /\ recv_pc' = "return"
    /\ UNCHANGED <<connected, handlers, pc, calls, follow, workers, requests, responses, history, throws>>

SlotReturns ==
    /\ recv_pc = "return"
    /\ Responses!Return
    /\ recv_pc' = "wait"
    /\ UNCHANGED <<internals, pc, calls, follow, workers, requests, history, throws>>

-----------------------------------------------------------------------------
(* The endpoints are destroyed.  The application waits for its own threads; *)
(* it cannot wait for the detached threads of the server.  The destructor   *)
(* waits for its receive thread, which waits for ever if a send in the      *)
(* other process has thrown with the semaphores taken.                      *)
ClientCloses ==
    /\ lost = {}
    /\ \A t \in Callers : pc[t] = "idle"
    /\ Responses!Close
    /\ UNCHANGED <<internals, threads, workers, requests, history, throws>>

ServerCloses ==
    /\ lost = {} /\ unsent = {}
    /\ ~req_busy
    /\ Requests!Close
    /\ UNCHANGED <<internals, threads, workers, responses, history, throws>>

-----------------------------------------------------------------------------
Init ==
    /\ mutex = [k \in Kinds |-> Nobody]
    /\ connected = {}
    /\ handlers = {}
    /\ pc = [p \in Procs |-> "idle"]
    /\ calls = [p \in Procs |-> 0]
    /\ follow = Nobody
    /\ recv_pc = "wait"
    /\ workers = {}
    /\ Requests!ChanInit
    /\ Responses!ChanInit
    /\ unsent = {}
    /\ lost = {}
    /\ answers = <<>>
    /\ failed = {}

\* The steps of a call of async that has begun.
AsyncStep(p) ==
    \/ AsyncLock(p)
    \/ AsyncRegister(p)
    \/ AsyncSend(p)
    \/ AsyncThrow(p)
    \/ AsyncUnlock(p)

\* The receive thread of the server.
ServerStep == RequestArrives \/ StartWorker

\* The detached thread that serves request i.
WorkerStep(i) == WorkerAnswers(i) \/ WorkerThrows(i)

\* The receive thread of the client, outside of the calls its handlers make.
ReceiverStep ==
    \/ ResponseArrives
    \/ HandlerLock
    \/ FindHandler
    \/ HandlerReturns
    \/ HandlerThrows
    \/ HandlerUnlock
    \/ SlotReturns

Next ==
    \/ \E p \in Procs : BeginAsync(p) \/ AsyncStep(p)
    \/ ServerStep
    \/ \E i \in Id : WorkerStep(i)
    \/ ReceiverStep
    \/ ClientCloses
    \/ ServerCloses

Spec == Init /\ [][Next]_vars

(* Threads run, and the handlers of the user return.  Calls are bounded, so a
   thread that waits for a mutex or for the place of a buffer is not passed
   over for ever.                                                           *)
Fairness ==
    /\ \A p \in Procs : WF_vars(AsyncStep(p))
    /\ WF_vars(ServerStep)
    /\ WF_vars(ReceiverStep)
    /\ \A i \in Id : WF_vars(WorkerStep(i))

FairSpec == Spec /\ Fairness

-----------------------------------------------------------------------------
(* Correctness.                                                             *)

\* Thread p is between the lock_guard of kind k and the end of its scope.
Inside(p, k) ==
    \/ pc[p] \in {"register", "send", "unlock"} /\ Kind(p) = k
    \/ p = Receiver /\ recv_pc \in {"find", "handler", "unlock"} /\ Response.kind = k

\* A mutex that is held is held by a thread inside async or M_responseHandler.
HeldInside == \A k \in Kinds : mutex[k] # Nobody => Inside(mutex[k], k)

VarTypes ==
    /\ mutex \in [Kinds -> Procs \union {Nobody}]
    /\ connected \subseteq Kinds
    /\ handlers \subseteq Id
    /\ pc \in [Procs -> {"idle", "lock", "register", "send", "unlock"}]
    /\ calls \in [Procs -> 0 .. MaxCalls] /\ follow \in Kinds \union {Nobody}
    /\ recv_pc \in {"wait", "lock", "find", "handler", "unlock", "return"}
    /\ workers \subseteq Id
    /\ req_sent \in Seq(Id) /\ req_delivered \in Seq(Id) /\ req_busy \in BOOLEAN /\ req_closed \in BOOLEAN
    /\ rsp_sent \in Seq(ResponseData) /\ rsp_delivered \in Seq(ResponseData) /\ rsp_busy \in BOOLEAN /\ rsp_closed \in BOOLEAN
    /\ answers \in Seq(ResponseData)
    /\ failed \subseteq Id /\ unsent \subseteq Id /\ lost \subseteq Id

(* The type of every variable; and no mutex is left locked by a thread that is
   not inside its scope, whichever sends and handlers have thrown.          *)
TypeOK == VarTypes /\ HeldInside

\* Requests and responses on their way: in a buffer, in a slot that has not
\* dealt with them, or in a thread of the server.
InTransit ==
    (ToSet(req_sent) \ ToSet(req_delivered))
        \union (IF req_busy THEN {Request} ELSE {})
        \union workers
        \union {m.id : m \in ToSet(rsp_sent) \ ToSet(rsp_delivered)}
        \union (IF recv_pc \in {"lock", "find"} THEN {Response} ELSE {})

(* The handler of an action stays in its map, and the slot for its response
   connected, for as long as the action or its response is on its way,
   whatever other threads ask for and are answered: BadActionId is never
   thrown.  Handlers that are left when nothing is on its way have thrown, or
   Endpoint::send has: for their action, whose handler async has stored by
   then, or for a response, which ends the server with all it was serving.  *)
HandlersAwaitAnswers ==
    /\ InTransit \subseteq handlers
    /\ \A i \in handlers :
          \/ i \in InTransit
          \/ i \in failed \union unsent \union lost
          \/ recv_pc = "handler" /\ i = Response
          \/ \E p \in Procs : pc[p] = "send" /\ i = Mine(p)
    /\ \A i \in InTransit : i.kind \in connected

Calls == INSTANCE Rpc WITH asked <- ToSet(req_sent), served <- ToSet(rsp_sent)

(* Each action is asked for, served and answered once, in this order, though
   several threads serve at once and responses overtake each other, and its
   handler is told the error or the response that the server has found for it. *)
CallsImplementRpc == Calls!RpcSpec

\* The client's receive thread waits for a mutex it holds itself.
WaitsForItself == pc[Receiver] = "lock" /\ mutex[follow] = Receiver

(* While the endpoints stay nobody waits for ever: async sends with the mutex
   of its kind held, which the client's receive thread needs to make room for
   the next response, but the server's receive thread never waits for a
   response to be taken.  The exceptions are a handler that starts an action of
   its own kind, which waits for a mutex of its own thread, and a send that
   throws.  If it is async's, the callers that follow wait for the semaphores of
   the buffer, for ever and with the mutexes of their kinds held; if it is that
   of a response, the server is gone.                                       *)
EveryCallAnswered ==
    [](~req_closed /\ ~rsp_closed /\ ~WaitsForItself /\ unsent = {} /\ lost = {}) =>
        \A i \in Id : i \in handlers ~> \E k \in DOMAIN answers : answers[k].id = i
=============================================================================
