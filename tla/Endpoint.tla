------------------------------ MODULE Endpoint ------------------------------
(***************************************************************************)
(* lesf::ipc::Endpoint (src/src/ipc/endpoint.cpp).                         *)
(*                                                                         *)
(* A server process and its client processes share a memory segment with   *)
(* two one-way buffers.  Each buffer holds one message and is guarded by   *)
(* three process-shared semaphores: mutex(1), sem_empty(1), sem_full(0).   *)
(* Every endpoint owns a receive thread that takes messages from one       *)
(* buffer; any thread of the process that owns the endpoint, the receive   *)
(* thread included (from inside a slot), may send on the other buffer.     *)
(*                                                                         *)
(* One action is one semaphore operation, or the code between two of them. *)
(* The behaviour starts when the constructor of the server endpoint has    *)
(* returned: the segment exists and its semaphores have their first value. *)
(***************************************************************************)
EXTENDS Integers, Sequences, FiniteSets

CONSTANTS
    Server,     \* the endpoint of role Server
    Clients,    \* the endpoints of role Client that are opened over time
    Threads,    \* user threads, the callers of Endpoint::send
    Home,       \* Home[t] is the endpoint thread t sends on
    MaxCalls,   \* bound: calls of send by one thread
    Replying,   \* endpoints whose slots may send before they return
    MayThrow,   \* threads whose messages may be unserializable or too large
    Overlap,    \* may a client be opened while another one is alive?
    NoMessage   \* what a buffer holds before the first message

Endpoints == {Server} \union Clients

\* The receive thread of an endpoint is named like the endpoint.
Procs == Threads \union Endpoints

ASSUME EndpointAssumption ==
    /\ Server \notin Clients
    /\ Threads \intersect Endpoints = {}
    /\ Home \in [Threads -> Endpoints]
    /\ MaxCalls \in Nat
    /\ Replying \subseteq Endpoints
    /\ MayThrow \subseteq Procs
    /\ Overlap \in BOOLEAN

\* A system has finitely many processes and threads.
ASSUME FinitenessAssumption == IsFiniteSet(Clients) /\ IsFiniteSet(Threads)

\* A message is known by the thread that sends it and the number of the call.
Message == [from : Procs, call : 0 .. MaxCalls - 1]

ASSUME NoMessageAssumption == NoMessage \notin Message

Buffers == {0, 1}

\* The server sends on buffers[0] and receives on buffers[1], clients have
\* the opposite.
SendBuf(e) == IF e = Server THEN 0 ELSE 1
RecvBuf(e) == 1 - SendBuf(e)

EndpointOf(p) == IF p \in Threads THEN Home[p] ELSE p

\* The buffer the sends of thread p go to.
Out(p) == SendBuf(EndpointOf(p))

VARIABLES
    \* SharedBuffer: the shared memory of each direction
    mutex, sem_empty, sem_full, shutdown, buffer,
    \* the processes
    life,         \* how far the life of each endpoint object has come
    recv_pc,      \* where the receive thread of each endpoint is
    stop_thread,  \* its local flag
    send_pc,      \* where each thread is inside Endpoint::send
    calls,        \* calls of send started by each thread
    \* history, not in the code
    written,      \* per buffer, the messages written to it
    received,     \* per buffer, the messages a receive thread dispatched
    unread,       \* does the buffer hold a message nobody consumed?
    wedged        \* has a throwing send left with the buffer's semaphores?

semaphores == <<mutex, sem_empty, sem_full>>
history == <<written, received, unread, wedged>>
vars == <<mutex, sem_empty, sem_full, shutdown, buffer, life, recv_pc,
          stop_thread, send_pc, calls, written, received, unread, wedged>>

-----------------------------------------------------------------------------
\* boost::interprocess::interprocess_semaphore
Wait(sem, b) == sem[b] > 0 /\ sem' = [sem EXCEPT ![b] = @ - 1]
Post(sem, b) == sem' = [sem EXCEPT ![b] = @ + 1]

\* From the return of the constructor to the end of the destructor.
Alive(e) == life[e] \in {"up", "shutdown", "join"}

NextMessage(p) == [from |-> p, call |-> calls[p]]

-----------------------------------------------------------------------------
(* The constructor of a client.  It finds the segment by its name until the
   server's destructor removes it.  The test of client_mutex is commented
   out: what keeps a second client away is the application (Overlap).       *)
OpenClient(c) ==
    /\ life[c] = "none"
    /\ Alive(Server)
    /\ Overlap \/ \A d \in Clients : ~Alive(d)
    /\ life' = [life EXCEPT ![c] = "up"]
    /\ recv_pc' = [recv_pc EXCEPT ![c] = "sem_full"]
    /\ UNCHANGED <<semaphores, shutdown, buffer, stop_thread, send_pc, calls, history>>

(* Endpoint::send.  The caller is a user thread of a live endpoint, or the
   receive thread from inside a slot.                                       *)
MaySend(p) ==
    \/ p \in Threads /\ life[Home[p]] = "up"
    \/ p \in Replying /\ recv_pc[p] = "slot"

BeginSend(p) ==
    /\ send_pc[p] = "idle"
    /\ calls[p] < MaxCalls
    /\ MaySend(p)
    /\ send_pc' = [send_pc EXCEPT ![p] = "sem_empty"]
    /\ UNCHANGED <<semaphores, shutdown, buffer, life, recv_pc, stop_thread, calls, history>>

\* Mutation of SendWaitEmpty: the call of sem_empty.wait() is forgotten.
SendSkipEmpty(p) ==
    /\ send_pc[p] = "sem_empty"
    /\ send_pc' = [send_pc EXCEPT ![p] = "mutex"]
    /\ UNCHANGED <<semaphores, shutdown, buffer, life, recv_pc, stop_thread, calls, history>>

SendWaitEmpty(p) ==
    /\ send_pc[p] = "sem_empty"
    /\ Wait(sem_empty, Out(p))
    /\ send_pc' = [send_pc EXCEPT ![p] = "mutex"]
    /\ UNCHANGED <<mutex, sem_full, shutdown, buffer, life, recv_pc, stop_thread, calls, history>>

\* Mutation of SendWaitMutex: the call of mutex.wait() is forgotten.
SendSkipMutex(p) ==
    /\ send_pc[p] = "mutex"
    /\ send_pc' = [send_pc EXCEPT ![p] = "write"]
    /\ UNCHANGED <<semaphores, shutdown, buffer, life, recv_pc, stop_thread, calls, history>>

\* Mutation of SendWaitMutex: the mutex is taken whoever holds it.
SendStealMutex(p) ==
    /\ send_pc[p] = "mutex"
    /\ mutex' = [mutex EXCEPT ![Out(p)] = @ - 1]
    /\ send_pc' = [send_pc EXCEPT ![p] = "write"]
    /\ UNCHANGED <<sem_empty, sem_full, shutdown, buffer, life, recv_pc, stop_thread, calls, history>>

SendWaitMutex(p) ==
    /\ send_pc[p] = "mutex"
    /\ Wait(mutex, Out(p))
    /\ send_pc' = [send_pc EXCEPT ![p] = "write"]
    /\ UNCHANGED <<sem_empty, sem_full, shutdown, buffer, life, recv_pc, stop_thread, calls, history>>

\* Serialize, check the size, copy.
SendWrite(p) ==
    /\ send_pc[p] = "write"
    /\ buffer' = [buffer EXCEPT ![Out(p)] = NextMessage(p)]
    /\ send_pc' = [send_pc EXCEPT ![p] = "post_mutex"]
    /\ calls' = [calls EXCEPT ![p] = @ + 1]
    /\ written' = [written EXCEPT ![Out(p)] = Append(@, NextMessage(p))]
    /\ unread' = [unread EXCEPT ![Out(p)] = TRUE]
    /\ UNCHANGED <<semaphores, shutdown, life, recv_pc, stop_thread, received, wedged>>

\* MessageFactory::serialize throws, or the size check does: the exception
\* leaves send with both semaphores taken.
SendThrow(p) ==
    /\ send_pc[p] = "write"
    /\ p \in MayThrow
    /\ send_pc' = [send_pc EXCEPT ![p] = "idle"]
    /\ calls' = [calls EXCEPT ![p] = @ + 1]
    /\ wedged' = [wedged EXCEPT ![Out(p)] = TRUE]
    /\ UNCHANGED <<semaphores, shutdown, buffer, life, recv_pc, stop_thread,
                   written, received, unread>>

\* Mutation of SendPostMutex: send keeps the mutex.
SendKeepMutex(p) ==
    /\ send_pc[p] = "post_mutex"
    /\ send_pc' = [send_pc EXCEPT ![p] = "post_full"]
    /\ UNCHANGED <<semaphores, shutdown, buffer, life, recv_pc, stop_thread, calls, history>>

SendPostMutex(p) ==
    /\ send_pc[p] = "post_mutex"
    /\ Post(mutex, Out(p))
    /\ send_pc' = [send_pc EXCEPT ![p] = "post_full"]
    /\ UNCHANGED <<sem_empty, sem_full, shutdown, buffer, life, recv_pc, stop_thread, calls, history>>

SendPostFull(p) ==
    /\ send_pc[p] = "post_full"
    /\ Post(sem_full, Out(p))
    /\ send_pc' = [send_pc EXCEPT ![p] = "idle"]
    /\ UNCHANGED <<mutex, sem_empty, shutdown, buffer, life, recv_pc, stop_thread, calls, history>>

-----------------------------------------------------------------------------
(* Endpoint::M_receiveThread.                                               *)
RecvWaitFull(e) ==
    /\ recv_pc[e] = "sem_full"
    /\ Wait(sem_full, RecvBuf(e))
    /\ recv_pc' = [recv_pc EXCEPT ![e] = "mutex"]
    /\ UNCHANGED <<mutex, sem_empty, shutdown, buffer, life, stop_thread, send_pc, calls, history>>

RecvWaitMutex(e) ==
    /\ recv_pc[e] = "mutex"
    /\ Wait(mutex, RecvBuf(e))
    /\ recv_pc' = [recv_pc EXCEPT ![e] = "dispatch"]
    /\ UNCHANGED <<sem_empty, sem_full, shutdown, buffer, life, stop_thread, send_pc, calls, history>>

\* Mutation of RecvSeeShutdown: the thread returns at once, posting nothing.
RecvReturnAtShutdown(e) ==
    /\ recv_pc[e] = "dispatch"
    /\ shutdown[RecvBuf(e)]
    /\ stop_thread' = [stop_thread EXCEPT ![e] = TRUE]
    /\ recv_pc' = [recv_pc EXCEPT ![e] = "exited"]
    /\ unread' = [unread EXCEPT ![RecvBuf(e)] = FALSE]
    /\ UNCHANGED <<semaphores, shutdown, buffer, life, send_pc, calls, written, received, wedged>>

RecvSeeShutdown(e) ==
    /\ recv_pc[e] = "dispatch"
    /\ shutdown[RecvBuf(e)]
    /\ stop_thread' = [stop_thread EXCEPT ![e] = TRUE]
    /\ recv_pc' = [recv_pc EXCEPT ![e] = "post_mutex"]
    /\ unread' = [unread EXCEPT ![RecvBuf(e)] = FALSE]
    /\ UNCHANGED <<semaphores, shutdown, buffer, life, send_pc, calls, written, received, wedged>>

\* Mutation of RecvTakeMessage: the buffer is freed before its slot is called.
RecvFreeEarly(e) ==
    /\ recv_pc[e] = "dispatch"
    /\ ~shutdown[RecvBuf(e)]
    /\ recv_pc' = [recv_pc EXCEPT ![e] = "slot"]
    /\ received' = [received EXCEPT ![RecvBuf(e)] = Append(@, buffer[RecvBuf(e)])]
    /\ unread' = [unread EXCEPT ![RecvBuf(e)] = FALSE]
    /\ Post(sem_empty, RecvBuf(e))
    /\ UNCHANGED <<mutex, sem_full, shutdown, buffer, life, stop_thread, send_pc, calls, written, wedged>>

(* The message is constructed and its slot called.  A message that cannot be
   constructed, has no slot, or whose slot throws a recoverable exception
   goes to the exception handler: in each case the thread runs code of the
   user with the mutex of the buffer held, and then goes on.               *)
RecvTakeMessage(e) ==
    /\ recv_pc[e] = "dispatch"
    /\ ~shutdown[RecvBuf(e)]
    /\ recv_pc' = [recv_pc EXCEPT ![e] = "slot"]
    /\ received' = [received EXCEPT ![RecvBuf(e)] = Append(@, buffer[RecvBuf(e)])]
    /\ unread' = [unread EXCEPT ![RecvBuf(e)] = FALSE]
    /\ UNCHANGED <<semaphores, shutdown, buffer, life, stop_thread, send_pc, calls, written, wedged>>

SlotReturns(e) ==
    /\ recv_pc[e] = "slot"
    /\ send_pc[e] = "idle"
    /\ recv_pc' = [recv_pc EXCEPT ![e] = "post_mutex"]
    /\ UNCHANGED <<semaphores, shutdown, buffer, life, stop_thread, send_pc, calls, history>>

RecvPostMutex(e) ==
    /\ recv_pc[e] = "post_mutex"
    /\ Post(mutex, RecvBuf(e))
    /\ recv_pc' = [recv_pc EXCEPT ![e] = "post_empty"]
    /\ UNCHANGED <<sem_empty, sem_full, shutdown, buffer, life, stop_thread, send_pc, calls, history>>

RecvPostEmpty(e) ==
    /\ recv_pc[e] = "post_empty"
    /\ Post(sem_empty, RecvBuf(e))
    /\ recv_pc' = [recv_pc EXCEPT ![e] = IF stop_thread[e] THEN "exited" ELSE "sem_full"]
    /\ UNCHANGED <<mutex, sem_full, shutdown, buffer, life, stop_thread, send_pc, calls, history>>

-----------------------------------------------------------------------------
(* Endpoint::~Endpoint.  The owner does not destroy an endpoint while one of
   its own threads is inside send.                                          *)
BeginDestroy(e) ==
    /\ life[e] = "up"
    /\ \A t \in Threads : Home[t] = e => send_pc[t] = "idle"
    /\ shutdown' = [shutdown EXCEPT ![RecvBuf(e)] = TRUE]
    /\ life' = [life EXCEPT ![e] = "shutdown"]
    /\ UNCHANGED <<semaphores, buffer, recv_pc, stop_thread, send_pc, calls, history>>

\* Mutation of WakeReceiver: the receive thread is not unblocked.
WakeNobody(e) ==
    /\ life[e] = "shutdown"
    /\ life' = [life EXCEPT ![e] = "join"]
    /\ UNCHANGED <<semaphores, shutdown, buffer, recv_pc, stop_thread, send_pc, calls, history>>

WakeReceiver(e) ==
    /\ life[e] = "shutdown"
    /\ Post(sem_full, RecvBuf(e))
    /\ life' = [life EXCEPT ![e] = "join"]
    /\ UNCHANGED <<mutex, sem_empty, shutdown, buffer, recv_pc, stop_thread, send_pc, calls, history>>

\* Mutation of FinishDestroy: the flag is left for the next client to find.
FinishLeavingFlag(e) ==
    /\ life[e] = "join"
    /\ recv_pc[e] = "exited"
    /\ life' = [life EXCEPT ![e] = "gone"]
    /\ UNCHANGED <<semaphores, shutdown, buffer, recv_pc, stop_thread, send_pc, calls, history>>

(* join returns; the rest of the destructor is one step.  A server also
   destroys the shared data (nothing happens to semaphores that others
   still use) and removes the name; processes that have the segment mapped
   keep using it.                                                           *)
FinishDestroy(e) ==
    /\ life[e] = "join"
    /\ recv_pc[e] = "exited"
    /\ shutdown' = [shutdown EXCEPT ![RecvBuf(e)] = FALSE]
    /\ life' = [life EXCEPT ![e] = "gone"]
    /\ UNCHANGED <<semaphores, buffer, recv_pc, stop_thread, send_pc, calls, history>>

-----------------------------------------------------------------------------
Init ==
    /\ mutex = [b \in Buffers |-> 1]
    /\ sem_empty = [b \in Buffers |-> 1]
    /\ sem_full = [b \in Buffers |-> 0]
    /\ shutdown = [b \in Buffers |-> FALSE]
    /\ buffer = [b \in Buffers |-> NoMessage]
    /\ life = [e \in Endpoints |-> IF e = Server THEN "up" ELSE "none"]
    /\ recv_pc = [e \in Endpoints |-> IF e = Server THEN "sem_full" ELSE "none"]
    /\ stop_thread = [e \in Endpoints |-> FALSE]
    /\ send_pc = [p \in Procs |-> "idle"]
    /\ calls = [p \in Procs |-> 0]
    /\ written = [b \in Buffers |-> <<>>]
    /\ received = [b \in Buffers |-> <<>>]
    /\ unread = [b \in Buffers |-> FALSE]
    /\ wedged = [b \in Buffers |-> FALSE]

\* The steps of a call of send that has begun.
SendStep(p) ==
    \/ SendWaitEmpty(p)
    \/ SendWaitMutex(p)
    \/ SendWrite(p)
    \/ SendThrow(p)
    \/ SendPostMutex(p)
    \/ SendPostFull(p)

\* The steps of a receive thread, outside of the sends of its slots.
RecvStep(e) ==
    \/ RecvWaitFull(e)
    \/ RecvWaitMutex(e)
    \/ RecvSeeShutdown(e)
    \/ RecvTakeMessage(e)
    \/ SlotReturns(e)
    \/ RecvPostMutex(e)
    \/ RecvPostEmpty(e)

\* The steps of a destructor that has begun.
DestroyStep(e) == WakeReceiver(e) \/ FinishDestroy(e)

Next ==
    \/ \E c \in Clients : OpenClient(c)
    \/ \E p \in Procs : BeginSend(p) \/ SendStep(p)
    \/ \E e \in Endpoints : RecvStep(e) \/ BeginDestroy(e) \/ DestroyStep(e)

Spec == Init /\ [][Next]_vars

(* The operating system runs every thread that can run.  Nothing is assumed
   of the callers: they may stop calling send, opening and destroying.  Weak
   fairness of a wait is enough because calls are bounded: nobody can take a
   semaphore away from a waiting thread for ever.                           *)
Fairness ==
    /\ \A p \in Procs : WF_vars(SendStep(p))
    /\ \A e \in Endpoints : WF_vars(RecvStep(e)) /\ WF_vars(DestroyStep(e))

FairSpec == Spec /\ Fairness

-----------------------------------------------------------------------------
(* Correctness.                                                             *)

\* The type of every variable.
TypeOK ==
    /\ mutex \in [Buffers -> Nat]
    /\ sem_empty \in [Buffers -> Nat]
    /\ sem_full \in [Buffers -> Nat]
    /\ shutdown \in [Buffers -> BOOLEAN]
    /\ buffer \in [Buffers -> Message \union {NoMessage}]
    /\ life \in [Endpoints -> {"none", "up", "shutdown", "join", "gone"}]
    /\ recv_pc \in [Endpoints -> {"none", "sem_full", "mutex", "dispatch", "slot",
                                  "post_mutex", "post_empty", "exited"}]
    /\ stop_thread \in [Endpoints -> BOOLEAN]
    /\ send_pc \in [Procs -> {"idle", "sem_empty", "mutex", "write", "post_mutex", "post_full"}]
    /\ calls \in [Procs -> 0 .. MaxCalls]
    /\ written \in [Buffers -> Seq(Message)]
    /\ received \in [Buffers -> Seq(Message \union {NoMessage})]
    /\ unread \in [Buffers -> BOOLEAN]
    /\ wedged \in [Buffers -> BOOLEAN]

\* Thread p is between mutex.wait() and mutex.post() of buffer b, as a sender
\* or as the receive thread.
Holds(p, b) ==
    \/ Out(p) = b /\ send_pc[p] \in {"write", "post_mutex"}
    \/ p \in Endpoints /\ RecvBuf(p) = b /\ recv_pc[p] \in {"dispatch", "slot", "post_mutex"}

(* "Protect access to the queue": a buffer is never written while it is read
   or written by another thread of any process, through every handover from
   one client to the next, including the code of the slots, which runs with
   the mutex held.                                                          *)
BufferExclusive ==
    \A b \in Buffers : \A p, q \in Procs : Holds(p, b) /\ Holds(q, b) => p = q

\* The calls of send and the receive threads that have taken a token of
\* buffer b from sem_empty or sem_full and will give it back.
SendersInFlight(b) ==
    {p \in Procs : Out(p) = b /\ send_pc[p] \notin {"idle", "sem_empty"}}
ReceiversInFlight(b) ==
    {e \in Endpoints : /\ RecvBuf(e) = b
                       /\ recv_pc[e] \in {"mutex", "dispatch", "slot", "post_mutex", "post_empty"}}

\* The endpoints whose destructor has posted sem_full of buffer b.
Wakes(b) == {e \in Endpoints : RecvBuf(e) = b /\ life[e] \in {"join", "gone"}}

(* The semaphores of a buffer and the threads inside it share one token, the
   right to fill the one place of the buffer; a send that throws loses it, and
   each destructor adds one that never goes away.                           *)
TokenConservation ==
    \A b \in Buffers :
        sem_empty[b] + sem_full[b] + (IF wedged[b] THEN 1 ELSE 0)
            + Cardinality(SendersInFlight(b)) + Cardinality(ReceiversInFlight(b))
          = 1 + Cardinality(Wakes(b))

\* A receive thread stops only because its own endpoint is being destroyed,
\* though the flag it looks at is shared by all the clients of the server.
StopsForItsOwner ==
    \A e \in Endpoints : stop_thread[e] => life[e] \in {"shutdown", "join", "gone"}

\* Has some endpoint that receives from buffer b begun to be destroyed?
Closed(b) ==
    \E e \in Endpoints : RecvBuf(e) = b /\ life[e] \in {"shutdown", "join", "gone"}

\* Is a slot running on a message of buffer b?
Serving(b) == \E e \in Endpoints : RecvBuf(e) = b /\ recv_pc[e] = "slot"

Requests == INSTANCE Channel WITH
    sent <- written[1], delivered <- received[1], busy <- Serving(1), closed <- Closed(1)
Responses == INSTANCE Channel WITH
    sent <- written[0], delivered <- received[0], busy <- Serving(0), closed <- Closed(0)

(* From the clients to the server, whichever clients come and go and however
   many of them there are, the buffer and its semaphores implement the
   mailbox of module Channel: every message whose send has returned is
   dispatched once, in order, until the server endpoint is destroyed.       *)
RequestsImplementChannel == Requests!ChanSpec

\* From the server to its first client, until that client is destroyed.
ResponsesImplementChannel == Responses!ChanSpec

\* Some endpoint is there to receive from buffer b.
ReceiverUp(b) == \E e \in Endpoints : RecvBuf(e) = b /\ life[e] = "up"

\* The receive thread of e is in a slot that sends, and no endpoint is there to
\* make room in the buffer.
Stuck(e) == send_pc[e] = "sem_empty" /\ ~ReceiverUp(Out(e))

(* "Set the shutdown flag and make sure to unblock the receiving thread":
   every destructor that is called returns, unless a slot of the endpoint is
   left sending to nobody for ever.                                         *)
DestructorReturns ==
    \A e \in Endpoints :
        (life[e] = "shutdown") ~> (life[e] = "gone" \/ []Stuck(e))

(* While there is an endpoint at each end, every send returns, contention for
   the buffers, earlier handovers and slots that answer notwithstanding; and all
   messages that have been sent to the server, by whichever clients, and to its
   first client are dispatched.  The destructor of the first client leaves a
   second token in the buffer of its successors: a message to one of these may be
   overwritten by the next before it is read, and only the last one that is sent
   is sure to be taken from the buffer.                                     *)
MessagesGetThrough ==
    <>[](ReceiverUp(0) /\ ReceiverUp(1)) =>
        /\ \A t \in Threads : []<>(send_pc[t] = "idle")
        /\ \A b \in Buffers :
              []<>(IF Closed(b) THEN ~unread[b] ELSE received[b] = written[b])
=============================================================================
