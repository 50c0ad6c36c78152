------------------------------ MODULE LogClient ------------------------------
(***************************************************************************)
(* lesf::log::Client (src/src/log/client.cpp): messages are queued by any  *)
(* thread and written to a TCP socket by one I/O thread, which runs the    *)
(* event loop of a boost::asio::io_context and reconnects after errors.    *)
(*                                                                         *)
(* The I/O thread executes one handler after the other, from a FIFO of     *)
(* posted functions and of completed asynchronous operations; one action   *)
(* executes one handler.  The user's thread sends and then destroys the    *)
(* client.  The rest is the environment: the kernel's socket and the       *)
(* server at the other end.  The server's name resolves to one address.    *)
(* The retry delay of 10 ms is the time other steps may take.              *)
(***************************************************************************)
EXTENDS Naturals, Sequences, FiniteSets

CONSTANTS
    MaxSends,      \* bound: calls of Client::send
    MaxCloses,     \* bound: connections the server closes or loses
    MaxConnects    \* bound: attempts of a connection that succeed

ASSUME LogClientAssumption ==
    MaxSends \in Nat /\ MaxCloses \in Nat /\ MaxConnects \in Nat

\* The messages, numbered in the order of the calls of send.
Message == 1 .. MaxSends

VARIABLES
    \* Client
    connected,   \* m_connected
    terminate,   \* m_terminate
    queue,       \* m_message_queue
    \* threads
    io_thread,   \* "runs" or "exited"
    user,        \* where the user's thread is
    sent,        \* calls of send it has made
    \* io_context and the asynchronous operations that wait on the socket
    ready,       \* handlers to execute, oldest first
    connecting,  \* is a connect operation waiting?
    attempt,     \* tells one connect operation from the next
    reads,       \* read operations waiting
    writes,      \* the messages of the write operations waiting, oldest first
    \* environment
    sock,        \* the socket
    server,      \* is the server listening?
    closes, connects,
    \* history, not in the code
    wire,        \* messages written to a connection the server still had open
    failures,    \* write errors handled
    underflow    \* was an empty queue popped?

client == <<connected, terminate, queue>>
operations == <<ready, connecting, attempt, reads, writes>>
environment == <<sock, server, closes, connects>>
history == <<wire, failures, underflow>>
vars == <<connected, terminate, queue, io_thread, user, sent, ready, connecting, attempt,
          reads, writes, sock, server, closes, connects, wire, failures, underflow>>

-----------------------------------------------------------------------------
(* boost::asio, as far as the client uses it.                               *)

\* Handlers: the completion of an operation, or a function that was posted.
Done(op, ok) == [op |-> op, ok |-> ok]
Posted(m) == [op |-> "queue", msg |-> m]
CloseRequest == [op |-> "close"]

\* The operations that wait on the socket complete with an error when it is
\* closed.
Aborted ==
    [i \in 1 .. reads |-> Done("read", FALSE)]
        \o (IF connecting THEN <<Done("connect", FALSE)>> ELSE <<>>)
        \o [i \in 1 .. Len(writes) |-> Done("write", FALSE)]

\* socket.close()
Close(handlers) ==
    /\ sock' = "closed"
    /\ ready' = handlers \o Aborted
    /\ connecting' = FALSE
    /\ UNCHANGED attempt
    /\ reads' = 0
    /\ writes' = <<>>

\* async_connect closes the socket, opens it anew and starts to connect.
AsyncConnect(handlers) ==
    /\ sock' = "connecting"
    /\ ready' = handlers \o Aborted
    /\ connecting' = TRUE
    /\ attempt' = 1 - attempt
    /\ reads' = 0
    /\ writes' = <<>>

\* async_write waits for the socket to be writable; it fails on a closed one.
AsyncWrite(handlers, m) ==
    IF sock = "closed"
      THEN ready' = Append(handlers, Done("write", FALSE)) /\ UNCHANGED writes
      ELSE ready' = handlers /\ writes' = Append(writes, m)

-----------------------------------------------------------------------------
(* The I/O thread executes the handler at the head of ready.                *)

Executes(op) ==
    /\ io_thread = "runs"
    /\ ~underflow
    /\ ready # <<>>
    /\ Head(ready).op = op

\* M_doConnect, with the handlers that remain.
DoConnect(handlers) ==
    IF terminate
      THEN ready' = handlers /\ UNCHANGED <<connecting, attempt, reads, writes, sock>>
      ELSE AsyncConnect(handlers)

\* A connection that completed counts as failed if the socket has been closed
\* in the meantime.
ConnectOk == Head(ready).ok /\ sock # "closed"

HandleConnected ==
    /\ Executes("connect") /\ ConnectOk
    /\ connected' = TRUE
    /\ reads' = reads + 1
    /\ IF queue # <<>>
         THEN AsyncWrite(Tail(ready), Head(queue))
         ELSE ready' = Tail(ready) /\ UNCHANGED writes
    /\ UNCHANGED <<terminate, queue, io_thread, user, sent, connecting, attempt, environment, history>>

HandleConnectFailed ==
    /\ Executes("connect") /\ ~ConnectOk
    /\ connected' = FALSE
    /\ DoConnect(Tail(ready))
    /\ UNCHANGED <<terminate, queue, io_thread, user, sent, server, closes, connects, history>>

\* Mutation of HandleReadError: the failing write is trusted to reconnect.
HandleReadErrorQuietly ==
    /\ Executes("read")
    /\ connected' = FALSE
    /\ ready' = Tail(ready)
    /\ UNCHANGED <<terminate, queue, io_thread, user, sent, connecting, attempt, reads, writes,
                   environment, history>>

\* The server never writes: a read only completes when the connection ends.
HandleReadError ==
    /\ Executes("read")
    /\ connected' = FALSE
    /\ DoConnect(Tail(ready))
    /\ UNCHANGED <<terminate, queue, io_thread, user, sent, server, closes, connects, history>>

\* Mutation of HandleMessage: the message is put at the front of the queue.
HandleMessageInFront ==
    /\ Executes("queue")
    /\ queue' = <<Head(ready).msg>> \o queue
    /\ IF connected /\ queue = <<>>
         THEN AsyncWrite(Tail(ready), Head(ready).msg)
         ELSE ready' = Tail(ready) /\ UNCHANGED writes
    /\ UNCHANGED <<connected, terminate, io_thread, user, sent, connecting, attempt, reads,
                   environment, history>>

\* Mutation of HandleMessage: a write in progress is not looked for.
HandleMessageAtOnce ==
    /\ Executes("queue")
    /\ queue' = Append(queue, Head(ready).msg)
    /\ IF connected
         THEN AsyncWrite(Tail(ready), Head(queue'))
         ELSE ready' = Tail(ready) /\ UNCHANGED writes
    /\ UNCHANGED <<connected, terminate, io_thread, user, sent, connecting, attempt, reads,
                   environment, history>>

\* Mutation of HandleMessage: the message is left for a later write to send.
HandleMessageLater ==
    /\ Executes("queue")
    /\ queue' = Append(queue, Head(ready).msg)
    /\ ready' = Tail(ready)
    /\ UNCHANGED <<connected, terminate, io_thread, user, sent, connecting, attempt, reads, writes,
                   environment, history>>

\* The function posted by M_queueMessage.
HandleMessage ==
    /\ Executes("queue")
    /\ queue' = Append(queue, Head(ready).msg)
    /\ IF connected /\ queue = <<>>
         THEN AsyncWrite(Tail(ready), Head(ready).msg)
         ELSE ready' = Tail(ready) /\ UNCHANGED writes
    /\ UNCHANGED <<connected, terminate, io_thread, user, sent, connecting, attempt, reads,
                   environment, history>>

\* Popping an empty deque is undefined: nothing is said of what follows.
HandleWritten ==
    /\ Executes("write") /\ Head(ready).ok
    /\ IF queue = <<>>
         THEN /\ underflow' = TRUE
              /\ ready' = Tail(ready)
              /\ UNCHANGED <<queue, writes>>
         ELSE /\ queue' = Tail(queue)
              /\ IF Tail(queue) # <<>>
                   THEN AsyncWrite(Tail(ready), Head(Tail(queue)))
                   ELSE ready' = Tail(ready) /\ UNCHANGED writes
              /\ UNCHANGED underflow
    /\ UNCHANGED <<connected, terminate, io_thread, user, sent, connecting, attempt, reads,
                   environment, wire, failures>>

\* The socket is closed and, unless the client is being destroyed, connected
\* again.
HandleWriteError ==
    /\ Executes("write") /\ ~Head(ready).ok
    /\ connected' = FALSE
    /\ failures' = failures + 1
    /\ IF terminate THEN Close(Tail(ready)) ELSE AsyncConnect(Tail(ready))
    /\ UNCHANGED <<terminate, queue, io_thread, user, sent, server, closes, connects,
                   wire, underflow>>

\* The function posted by the destructor.
HandleClose ==
    /\ Executes("close")
    /\ Close(Tail(ready))
    /\ UNCHANGED <<client, io_thread, user, sent, server, closes, connects, history>>

\* run() returns when nothing is left to do, and the thread ends if it is to.
IoThreadExits ==
    /\ io_thread = "runs"
    /\ terminate
    /\ ready = <<>> /\ ~connecting /\ reads = 0 /\ writes = <<>>
    /\ io_thread' = "exited"
    /\ UNCHANGED <<client, user, sent, operations, environment, history>>

-----------------------------------------------------------------------------
(* The user's thread.                                                       *)

Send ==
    /\ user = "uses"
    /\ sent < MaxSends
    /\ sent' = sent + 1
    /\ ready' = Append(ready, Posted(sent'))
    /\ UNCHANGED <<client, io_thread, user, connecting, attempt, reads, writes, environment, history>>

\* ~Client is called.
BeginDestroy ==
    /\ user = "uses"
    /\ user' = "flushes"
    /\ UNCHANGED <<client, io_thread, sent, operations, environment, history>>

\* The busy wait ends.
EndFlush ==
    /\ user = "flushes"
    /\ ~connected \/ queue = <<>>
    /\ user' = "terminates"
    /\ UNCHANGED <<client, io_thread, sent, operations, environment, history>>

SetTerminate ==
    /\ user = "terminates"
    /\ terminate' = TRUE
    /\ user' = "posts"
    /\ UNCHANGED <<connected, queue, io_thread, sent, operations, environment, history>>

\* Mutation of PostClose: the event loop is not told to close the socket.
PostNothing ==
    /\ user = "posts"
    /\ user' = "joins"
    /\ UNCHANGED <<client, io_thread, sent, operations, environment, history>>

PostClose ==
    /\ user = "posts"
    /\ ready' = Append(ready, CloseRequest)
    /\ user' = "joins"
    /\ UNCHANGED <<client, io_thread, sent, connecting, attempt, reads, writes, environment, history>>

Join ==
    /\ user = "joins"
    /\ io_thread = "exited"
    /\ user' = "done"
    /\ UNCHANGED <<client, io_thread, sent, operations, environment, history>>

-----------------------------------------------------------------------------
(* The environment.                                                         *)

ServerStarts ==
    /\ ~server
    /\ server' = TRUE
    /\ UNCHANGED <<client, io_thread, user, sent, operations, sock, closes, connects, history>>

\* The server accepts the connection.
ConnectSucceeds ==
    /\ connecting /\ server
    /\ connects < MaxConnects
    /\ sock' = "established"
    /\ connecting' = FALSE
    /\ connects' = connects + 1
    /\ ready' = Append(ready, Done("connect", TRUE))
    /\ UNCHANGED <<client, io_thread, user, sent, attempt, reads, writes, server, closes, history>>

ConnectRefused ==
    /\ connecting /\ ~server
    /\ sock' = "dead"
    /\ connecting' = FALSE
    /\ ready' = Append(ready, Done("connect", FALSE))
    /\ UNCHANGED <<client, io_thread, user, sent, attempt, reads, writes, server, closes, connects, history>>

\* The server closes the connection, or it is reset, and the server may stop.
ConnectionEnds ==
    /\ sock = "established"
    /\ closes < MaxCloses
    /\ closes' = closes + 1
    /\ sock' \in {"half_closed", "dead"}
    /\ server' \in BOOLEAN
    /\ UNCHANGED <<client, io_thread, user, sent, operations, connects, history>>

ReadFails ==
    /\ sock \in {"half_closed", "dead"}
    /\ reads > 0
    /\ reads' = reads - 1
    /\ ready' = Append(ready, Done("read", FALSE))
    /\ UNCHANGED <<client, io_thread, user, sent, connecting, attempt, writes, environment, history>>

\* The kernel takes the data.
WriteSucceeds ==
    /\ sock = "established"
    /\ writes # <<>>
    /\ wire' = Append(wire, Head(writes))
    /\ writes' = Tail(writes)
    /\ ready' = Append(ready, Done("write", TRUE))
    /\ UNCHANGED <<client, io_thread, user, sent, connecting, attempt, reads, environment,
                   failures, underflow>>

\* The first write after the server has closed its end is taken by the kernel
\* too; the server answers it with a reset.
WriteIntoTheVoid ==
    /\ sock = "half_closed"
    /\ writes # <<>>
    /\ writes' = Tail(writes)
    /\ ready' = Append(ready, Done("write", TRUE))
    /\ sock' = "dead"
    /\ UNCHANGED <<client, io_thread, user, sent, connecting, attempt, reads, server, closes,
                   connects, history>>

WriteFails ==
    /\ sock = "dead"
    /\ writes # <<>>
    /\ writes' = Tail(writes)
    /\ ready' = Append(ready, Done("write", FALSE))
    /\ UNCHANGED <<client, io_thread, user, sent, connecting, attempt, reads, environment, history>>

-----------------------------------------------------------------------------
\* The constructor has called M_doConnect and started the I/O thread.
Init ==
    /\ connected = FALSE
    /\ terminate = FALSE
    /\ queue = <<>>
    /\ io_thread = "runs"
    /\ user = "uses"
    /\ sent = 0
    /\ ready = <<>>
    /\ connecting = TRUE
    /\ attempt = 0
    /\ reads = 0
    /\ writes = <<>>
    /\ sock = "connecting"
    /\ server \in BOOLEAN
    /\ closes = 0
    /\ connects = 0
    /\ wire = <<>>
    /\ failures = 0
    /\ underflow = FALSE

IoThread ==
    \/ HandleConnected
    \/ HandleConnectFailed
    \/ HandleReadError
    \/ HandleMessage
    \/ HandleWritten
    \/ HandleWriteError
    \/ HandleClose
    \/ IoThreadExits

Destructor == EndFlush \/ SetTerminate \/ PostClose \/ Join

User == Send \/ BeginDestroy \/ Destructor

Connecting == ConnectSucceeds \/ ConnectRefused
Writing == WriteSucceeds \/ WriteIntoTheVoid \/ WriteFails

Environment == ServerStarts \/ ConnectionEnds \/ Connecting \/ ReadFails \/ Writing

Next == IoThread \/ User \/ Environment

Spec == Init /\ [][Next]_vars

(* The threads run; an operation that is left alone completes.  This says
   nothing of a connect operation that is given up for another one: the
   network may take longer than the retry delay.  Nothing makes a server
   start, a connection end or the user destroy the client.                  *)
Fairness ==
    /\ WF_vars(IoThread)
    /\ WF_vars(Destructor)
    /\ \A a \in {0, 1} : WF_vars(attempt = a /\ Connecting)
    /\ WF_vars(ReadFails)
    /\ WF_vars(Writing)

FairSpec == Spec /\ Fairness

-----------------------------------------------------------------------------
(* Correctness.                                                             *)

Handler ==
    [op : {"connect", "read", "write"}, ok : BOOLEAN]
        \union [op : {"queue"}, msg : Message] \union {CloseRequest}

\* The type of every variable.
Types ==
    /\ connected \in BOOLEAN
    /\ terminate \in BOOLEAN
    /\ queue \in Seq(Message)
    /\ io_thread \in {"runs", "exited"}
    /\ user \in {"uses", "flushes", "terminates", "posts", "joins", "done"}
    /\ sent \in 0 .. MaxSends
    /\ ready \in Seq(Handler)
    /\ connecting \in BOOLEAN
    /\ attempt \in {0, 1}
    /\ reads \in Nat
    /\ writes \in Seq(Message)
    /\ sock \in {"closed", "connecting", "established", "half_closed", "dead"}
    /\ server \in BOOLEAN
    /\ closes \in 0 .. MaxCloses
    /\ connects \in 0 .. MaxConnects
    /\ wire \in Seq(Message)
    /\ failures \in Nat
    /\ underflow \in BOOLEAN

\* Every variable has its type, and the queue holds messages that were sent one
\* after the other, none left out and none twice: however often connections
\* end, the handlers M_queueMessage posts only push messages to its back, and
\* M_doWrite's only pop them from its front.
TypeOK ==
    /\ Types
    /\ \A i \in 1 .. Len(queue) - 1 : queue[i + 1] = queue[i] + 1

\* Handlers of operation op among those given, and among those that wait.
Count(handlers, op) == Cardinality({i \in DOMAIN handlers : handlers[i].op = op})
InReady(op) == Count(ready, op)

\* The loops "connect, then read until an error, then connect again" that are
\* under way.
Chains == (IF connecting THEN 1 ELSE 0) + reads + InReady("connect") + InReady("read")

(* The constructor starts one such loop, and every write that fails starts one
   more, for ever: a failed write reconnects, and so does the read that fails
   on the same connection.  In particular the client never stops trying to
   regain the connection before it is destroyed.                            *)
OneChainPerFailure == ~terminate => Chains = 1 + failures

\* Writes under way or completed and not yet handled.
WritesInProgress == Len(writes) + InReady("write")

\* A message is waited for in exactly one write while it is at the head of the
\* queue, and none is forgotten there.
HeadIsBeingWritten ==
    connected /\ ~terminate => WritesInProgress = (IF queue = <<>> THEN 0 ELSE 1)

(* Until the first connection ends, messages are written once each and in the
   order of the calls of send, whenever the connection is made, and the head of
   the queue is always being written.                                       *)
WrittenInOrder ==
    closes = 0 => HeadIsBeingWritten /\ \A i \in 1 .. Len(wire) : wire[i] = i

(* "Data will be queued until connection is gained": if connections last, a
   client that is not destroyed delivers every message once there is a server. *)
EverythingDelivered ==
    [](user = "uses" /\ closes = 0) /\ <>server => <>[](Len(wire) = sent)

(* If connections last, the destructor returns: the busy wait ends, nothing
   reconnects and the I/O thread runs out of work.                          *)
DestructorReturns == [](closes = 0) => ((user = "flushes") ~> (user = "done"))

-----------------------------------------------------------------------------
(* What the comments of the code say and the code does not do.              *)

\* client.h: "LogClient will attempt to regain the connection indefinitely":
\* with a server that stays, connections that last and no bound met, a
\* connection is made in the end.
RegainsConnection ==
    <>[](user = "uses" /\ server /\ connects < MaxConnects /\ ~underflow)
        => <>[](connected /\ sock = "established")
=============================================================================
