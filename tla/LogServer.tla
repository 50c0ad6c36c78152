------------------------------ MODULE LogServer ------------------------------
(***************************************************************************)
(* lesf::log::Server and lesf::log::Session (src/src/log/server.cpp,       *)
(* src/src/log/session.cpp): one I/O thread runs the event loop of a       *)
(* boost::asio::io_context, which accepts connections and reads messages   *)
(* from them, a header and then the data, and hands each message to every  *)
(* subscriber.  The user's thread creates the server and its subscribers   *)
(* and destroys them while messages come in.                               *)
(*                                                                         *)
(* The I/O thread executes one handler after the other; the one that       *)
(* notifies the subscribers takes a step for each of them.  The rest is    *)
(* the environment: the kernel, and the clients at the other end.          *)
(***************************************************************************)
EXTENDS Naturals, Sequences, FiniteSetsExt

CONSTANTS
    Connections,      \* the connections that clients make
    Subscribers,      \* the subscribers, each created and destroyed once
    MaxParts,         \* bound: headers and data sent on all the connections
    MaxAcceptErrors,  \* bound: failures of accept
    Nobody            \* no connection, no subscriber

ASSUME LogServerAssumption ==
    /\ Nobody \notin Connections \union Subscribers
    /\ MaxParts \in Nat /\ MaxAcceptErrors \in Nat

\* A message is sent as a header, which tells the size of the data, and the data.
Part == [what : {"header", "data"}, msg : 1 .. MaxParts]

VARIABLES
    \* Server
    user,         \* where the user's thread is in the life of the server
    io_thread,    \* "created", "runs" or "exited"
    sessions,     \* Internals::sessions, by their connection
    subscribers,  \* m_subscribers, which outlive the server that held them in a set
    attached,     \* the subscribers whose m_server is set
    partial,      \* those whose derived class is not constructed yet, or not any more
    created,      \* the subscribers that have been created
    visit,        \* the iteration of M_notifyMessageReceived, if there is one
    \* io_context and the operations that wait
    ready,        \* handlers to execute, oldest first
    accepting,    \* does async_accept wait for a connection?
    reading,      \* what the read of each connection waits for
    \* environment
    backlog,      \* connections made and not accepted, oldest first
    tcp,          \* each connection: "none", "open", "closed" by its client or "reset"
    stream,       \* what each client has sent and nobody has read
    parts,        \* how many parts each client has sent
    accept_errors,
    \* history, not in the code
    got,          \* the messages each subscriber has been notified of
    undefined     \* was a subscriber used that is not there?

server == <<user, io_thread, sessions>>
subscription == <<subscribers, attached, partial, created, visit>>
operations == <<ready, accepting, reading>>
environment == <<backlog, tcp, stream, parts, accept_errors>>
history == <<got, undefined>>
vars == <<user, io_thread, sessions, subscribers, attached, partial, created, visit, ready, accepting,
          reading, backlog, tcp, stream, parts, accept_errors, got, undefined>>

-----------------------------------------------------------------------------
(* boost::asio, as far as the server uses it.                               *)

\* Handlers.
Done(op, c, m) == [op |-> op, conn |-> c, ok |-> TRUE, msg |-> m]
Failed(op, c) == [op |-> op, conn |-> c, ok |-> FALSE, msg |-> 0]
Stop == Done("stop", Nobody, 0)

\* The I/O thread executes the handler at the head of ready.
Executes(op) ==
    /\ io_thread = "runs" /\ ~undefined
    /\ visit.conn = Nobody
    /\ ready # <<>>
    /\ Head(ready).op = op

\* An operation waits, or a handler does, or is being executed.
Work ==
    \/ accepting
    \/ ready # <<>>
    \/ \E c \in Connections : reading[c] # "none"
    \/ visit.conn # Nobody

\* run() returns at once if nothing has been asked for yet.
IoThreadStarts ==
    /\ io_thread = "created"
    /\ io_thread' = IF Work THEN "runs" ELSE "exited"
    /\ UNCHANGED <<user, sessions, subscription, operations, environment, history>>

\* It also returns when nothing is left to do.
IoThreadExits ==
    /\ io_thread = "runs" /\ ~Work
    /\ io_thread' = "exited"
    /\ UNCHANGED <<user, sessions, subscription, operations, environment, history>>

-----------------------------------------------------------------------------
(* The handlers.                                                            *)

\* A session begins to read, and keeps itself in the set while it does.
StartSession(c) ==
    /\ sessions' = sessions \union {c}
    /\ reading' = [reading EXCEPT ![c] = "header"]

\* Mutation of HandleAccepted: the next connection is not waited for.
HandleLastAccepted ==
    /\ Executes("accept") /\ Head(ready).ok
    /\ StartSession(Head(ready).conn)
    /\ ready' = Tail(ready)
    /\ UNCHANGED <<user, io_thread, subscription, accepting, environment, history>>

\* Mutation of HandleAccepted: the error is not looked at.
HandleAcceptedAnyway ==
    /\ Executes("accept")
    /\ StartSession(Head(ready).conn)
    /\ accepting' = TRUE
    /\ ready' = Tail(ready)
    /\ UNCHANGED <<user, io_thread, subscription, environment, history>>

\* A session starts, and the next connection is waited for.
HandleAccepted ==
    /\ Executes("accept") /\ Head(ready).ok
    /\ StartSession(Head(ready).conn)
    /\ accepting' = TRUE
    /\ ready' = Tail(ready)
    /\ UNCHANGED <<user, io_thread, subscription, environment, history>>

\* After an error of accept, none is.
HandleAcceptError ==
    /\ Executes("accept") /\ ~Head(ready).ok
    /\ ready' = Tail(ready)
    /\ UNCHANGED <<server, subscription, accepting, reading, environment, history>>

HandleHeader ==
    /\ Executes("header") /\ Head(ready).ok
    /\ reading' = [reading EXCEPT ![Head(ready).conn] = "data"]
    /\ ready' = Tail(ready)
    /\ UNCHANGED <<server, subscription, accepting, environment, history>>

\* M_notifyMessageReceived begins to go through m_subscribers.
HandleData ==
    /\ Executes("data") /\ Head(ready).ok
    /\ visit' = [conn |-> Head(ready).conn, msg |-> Head(ready).msg,
                 todo |-> subscribers, last |-> Nobody]
    /\ ready' = Tail(ready)
    /\ UNCHANGED <<server, subscribers, attached, partial, created, accepting, reading, environment, history>>

Notify(s) ==
    /\ ~undefined
    /\ s \in visit.todo /\ s \notin partial
    /\ got' = [got EXCEPT ![s] = Append(@, [conn |-> visit.conn, msg |-> visit.msg])]
    /\ visit' = [visit EXCEPT !.todo = @ \ {s}, !.last = s]
    /\ UNCHANGED <<server, subscribers, attached, partial, created, operations, environment, undefined>>

\* A pure virtual function is called.
NotifyPartial(s) ==
    /\ ~undefined
    /\ s \in visit.todo /\ s \in partial
    /\ undefined' = TRUE
    /\ UNCHANGED <<server, subscription, operations, environment, got>>

NoVisit == [conn |-> Nobody, msg |-> 0, todo |-> {}, last |-> Nobody]

\* Mutation of EndNotify: the rest of the frame is taken for data.
EndNotifyReadData ==
    /\ ~undefined
    /\ visit.conn # Nobody /\ visit.todo = {}
    /\ reading' = [reading EXCEPT ![visit.conn] = "data"]
    /\ visit' = NoVisit
    /\ UNCHANGED <<server, subscribers, attached, partial, created, ready, accepting, environment, history>>

\* The subscribers have been notified: the next header is read.
EndNotify ==
    /\ ~undefined
    /\ visit.conn # Nobody /\ visit.todo = {}
    /\ reading' = [reading EXCEPT ![visit.conn] = "header"]
    /\ visit' = NoVisit
    /\ UNCHANGED <<server, subscribers, attached, partial, created, ready, accepting, environment, history>>

\* Mutation of HandleReadError: the session is kept.
HandleReadErrorKeep ==
    /\ Executes("header") \/ Executes("data")
    /\ ~Head(ready).ok
    /\ ready' = Tail(ready)
    /\ UNCHANGED <<server, subscription, accepting, reading, environment, history>>

\* The session ends.
HandleReadError ==
    /\ Executes("header") \/ Executes("data")
    /\ ~Head(ready).ok
    /\ sessions' = sessions \ {Head(ready).conn}
    /\ ready' = Tail(ready)
    /\ UNCHANGED <<user, io_thread, subscription, accepting, reading, environment, history>>

\* ctx.stop(): run() returns, whatever is left to do.
HandleStop ==
    /\ Executes("stop")
    /\ ready' = Tail(ready)
    /\ io_thread' = "exited"
    /\ UNCHANGED <<user, sessions, subscription, accepting, reading, environment, history>>

-----------------------------------------------------------------------------
(* The user's thread.                                                       *)

\* The constructor has started the I/O thread and calls M_doAccept.
DoAccept ==
    /\ user = "constructs"
    /\ accepting' = TRUE
    /\ user' = "uses"
    /\ UNCHANGED <<io_thread, sessions, subscription, ready, reading, environment, history>>

(* m_subscribers is not locked.  Where the user's thread changes it, or the
   subscriber in it, while the I/O thread is there, anything may follow.    *)
Races(there) == undefined' \in {undefined, undefined \/ there}

(* A subscriber is created: its base class enters it in the set before the
   derived class is constructed.  If the I/O thread goes through the set it
   may meet it or not, as its address has it.                               *)
Subscribe(s) ==
    /\ user = "uses" /\ partial = {}
    /\ s \notin created
    /\ created' = created \union {s}
    /\ subscribers' = subscribers \union {s}
    /\ attached' = attached \union {s}
    /\ partial' = {s}
    /\ \/ UNCHANGED visit
       \/ visit.conn # Nobody /\ visit' = [visit EXCEPT !.todo = @ \union {s}]
    /\ Races(visit.conn # Nobody)
    /\ UNCHANGED <<server, operations, environment, got>>

Construct(s) ==
    /\ user = "uses"
    /\ partial = {s}
    /\ partial' = {}
    /\ UNCHANGED <<server, subscribers, attached, created, visit, operations, environment, history>>

\* The destructor of the derived class; the I/O thread may be in the middle of
\* notifying the subscriber.
Destruct(s) ==
    /\ user = "uses" /\ partial = {}
    /\ s \in subscribers
    /\ partial' = {s}
    /\ Races(visit.last = s)
    /\ UNCHANGED <<server, subscribers, attached, created, visit, operations, environment, got>>

\* The one of the base class, also if the constructor of the derived class
\* has thrown; the I/O thread may be about to go on from there.
Unsubscribe(s) ==
    /\ user = "uses"
    /\ partial = {s}
    /\ subscribers' = subscribers \ {s}
    /\ attached' = attached \ {s}
    /\ partial' = {}
    /\ visit' = [visit EXCEPT !.todo = @ \ {s}]
    /\ Races(visit.conn # Nobody)
    /\ UNCHANGED <<server, created, operations, environment, got>>

\* A subscriber that outlives the server: only one that was not told goes to
\* the set, which is not there any more.
Orphan(s) ==
    /\ user = "done"
    /\ s \in subscribers
    /\ subscribers' = subscribers \ {s}
    /\ undefined' = (undefined \/ s \in attached)
    /\ attached' = attached \ {s}
    /\ UNCHANGED <<server, partial, created, visit, operations, environment, got>>

\* Mutation of BeginDestroy: the subscribers are not told.
BeginDestroyUntold ==
    /\ user = "uses" /\ partial = {}
    /\ user' = "posts"
    /\ UNCHANGED <<io_thread, sessions, subscription, operations, environment, history>>

\* ~Server: the subscribers are told; the I/O thread goes on notifying them.
BeginDestroy ==
    /\ user = "uses" /\ partial = {}
    /\ attached' = {}
    /\ user' = "posts"
    /\ UNCHANGED <<io_thread, sessions, subscribers, partial, created, visit, operations,
                   environment, history>>

\* Mutation of PostStop: the event loop is left to run out of work.
PostNothing ==
    /\ user = "posts"
    /\ user' = "joins"
    /\ UNCHANGED <<io_thread, sessions, subscription, operations, environment, history>>

PostStop ==
    /\ user = "posts"
    /\ ready' = Append(ready, Stop)
    /\ user' = "joins"
    /\ UNCHANGED <<io_thread, sessions, subscription, accepting, reading, environment, history>>

\* Everything is deleted: sockets are closed, handlers destroyed.
Join ==
    /\ user = "joins"
    /\ io_thread = "exited"
    /\ user' = "done"
    /\ sessions' = {}
    /\ ready' = <<>>
    /\ accepting' = FALSE
    /\ reading' = [c \in Connections |-> "none"]
    /\ UNCHANGED <<io_thread, subscription, environment, history>>

-----------------------------------------------------------------------------
(* The environment.                                                         *)

\* The kernel makes the connection while the server listens.
Connect(c) ==
    /\ user # "done"
    /\ tcp[c] = "none"
    /\ tcp' = [tcp EXCEPT ![c] = "open"]
    /\ backlog' = Append(backlog, c)
    /\ UNCHANGED <<server, subscription, operations, stream, parts, accept_errors, history>>

\* Parts that the clients have sent.
AllParts == MapThenSumSet(LAMBDA d : parts[d], Connections)

\* The client sends the next header or the next data.
SendPart(c) ==
    /\ tcp[c] = "open"
    /\ AllParts < MaxParts /\ parts[c] < MaxParts  \* the second follows
    /\ parts' = [parts EXCEPT ![c] = @ + 1]
    /\ stream' = [stream EXCEPT ![c] =
                     Append(@, [what |-> IF parts[c] % 2 = 0 THEN "header" ELSE "data",
                                msg |-> parts[c] \div 2 + 1])]
    /\ UNCHANGED <<server, subscription, operations, backlog, tcp, accept_errors, history>>

\* The client closes the connection, or it is reset and what was not read is
\* lost, be it in the middle of a message.
Disconnect(c) ==
    /\ tcp[c] = "open"
    /\ \/ tcp' = [tcp EXCEPT ![c] = "closed"] /\ UNCHANGED stream
       \/ tcp' = [tcp EXCEPT ![c] = "reset"] /\ stream' = [stream EXCEPT ![c] = <<>>]
    /\ UNCHANGED <<server, subscription, operations, backlog, parts, accept_errors, history>>

AcceptCompletes ==
    /\ accepting /\ backlog # <<>>
    /\ accepting' = FALSE
    /\ ready' = Append(ready, Done("accept", Head(backlog), 0))
    /\ backlog' = Tail(backlog)
    /\ UNCHANGED <<server, subscription, reading, tcp, stream, parts, accept_errors, history>>

\* For instance, there are too many open files.
AcceptFails ==
    /\ accepting
    /\ accept_errors < MaxAcceptErrors
    /\ accept_errors' = accept_errors + 1
    /\ accepting' = FALSE
    /\ ready' = Append(ready, Failed("accept", Nobody))
    /\ UNCHANGED <<server, subscription, reading, backlog, tcp, stream, parts, history>>

\* All the bytes that the read waits for are there.
ReadCompletes(c) ==
    /\ reading[c] # "none"
    /\ stream[c] # <<>>
    /\ reading' = [reading EXCEPT ![c] = "none"]
    /\ stream' = [stream EXCEPT ![c] = Tail(@)]
    /\ ready' = Append(ready, Done(reading[c], c, Head(stream[c]).msg))
    /\ UNCHANGED <<server, subscription, accepting, backlog, tcp, parts, accept_errors, history>>

\* They will never be.
ReadFails(c) ==
    /\ reading[c] # "none"
    /\ stream[c] = <<>> /\ tcp[c] \in {"closed", "reset"}
    /\ reading' = [reading EXCEPT ![c] = "none"]
    /\ ready' = Append(ready, Failed(reading[c], c))
    /\ UNCHANGED <<server, subscription, accepting, environment, history>>

-----------------------------------------------------------------------------
\* The constructor has created the I/O thread; the acceptor listens.
Init ==
    /\ user = "constructs"
    /\ io_thread = "created"
    /\ sessions = {}
    /\ subscribers = {}
    /\ attached = {}
    /\ partial = {}
    /\ created = {}
    /\ visit = NoVisit
    /\ ready = <<>>
    /\ accepting = FALSE
    /\ reading = [c \in Connections |-> "none"]
    /\ backlog = <<>>
    /\ tcp = [c \in Connections |-> "none"]
    /\ stream = [c \in Connections |-> <<>>]
    /\ parts = [c \in Connections |-> 0]
    /\ accept_errors = 0
    /\ got = [s \in Subscribers |-> <<>>]
    /\ undefined = FALSE

IoThread ==
    \/ IoThreadStarts
    \/ HandleAccepted
    \/ HandleAcceptError
    \/ HandleHeader
    \/ HandleData
    \/ \E s \in Subscribers : Notify(s) \/ NotifyPartial(s)
    \/ EndNotify
    \/ HandleReadError
    \/ HandleStop
    \/ IoThreadExits

\* What the user's thread has begun.
UserStep == DoAccept \/ PostStop \/ Join

User ==
    \/ UserStep
    \/ \E s \in Subscribers :
          Subscribe(s) \/ Construct(s) \/ Destruct(s) \/ Unsubscribe(s) \/ Orphan(s)
    \/ BeginDestroy

Client(c) == Connect(c) \/ SendPart(c) \/ Disconnect(c)
Reading(c) == ReadCompletes(c) \/ ReadFails(c)

Next ==
    \/ IoThread
    \/ User
    \/ \E c \in Connections : Client(c) \/ Reading(c)
    \/ AcceptCompletes
    \/ AcceptFails

Spec == Init /\ [][Next]_vars

(* Threads run, the subscribers return, and operations complete when they can.
   Nothing is assumed of the clients and of the calls of the user.          *)
Fairness ==
    /\ WF_vars(IoThread)
    /\ WF_vars(UserStep)
    /\ WF_vars(AcceptCompletes)
    /\ \A c \in Connections : WF_vars(Reading(c))

FairSpec == Spec /\ Fairness

-----------------------------------------------------------------------------
(* Correctness.                                                             *)

Message == [conn : Connections, msg : 1 .. MaxParts]

Handler ==
    [op : {"accept", "header", "data", "stop"}, conn : Connections \union {Nobody},
     ok : BOOLEAN, msg : 0 .. MaxParts]

\* The type of every variable.
TypeOK ==
    /\ user \in {"constructs", "uses", "posts", "joins", "done"}
    /\ io_thread \in {"created", "runs", "exited"}
    /\ sessions \subseteq Connections
    /\ subscribers \subseteq created
    /\ partial \subseteq subscribers
    /\ attached \subseteq subscribers
    /\ created \subseteq Subscribers
    /\ visit \in [conn : Connections \union {Nobody}, msg : 0 .. MaxParts,
                  todo : SUBSET Subscribers, last : Subscribers \union {Nobody}]
    /\ ready \in Seq(Handler)
    /\ accepting \in BOOLEAN
    /\ reading \in [Connections -> {"none", "header", "data"}]
    /\ backlog \in Seq(Connections)
    /\ tcp \in [Connections -> {"none", "open", "closed", "reset"}]
    /\ stream \in [Connections -> Seq(Part)]
    /\ parts \in [Connections -> 0 .. MaxParts]
    /\ accept_errors \in 0 .. MaxAcceptErrors
    /\ got \in [Subscribers -> Seq(Message)]
    /\ undefined \in BOOLEAN

\* The reads of connection c that wait, that have completed, and whose message
\* is being handed out.
ReadsOf(c) ==
    (IF reading[c] # "none" THEN 1 ELSE 0)
        + Cardinality({i \in 1 .. Len(ready) : ready[i].op \in {"header", "data"} /\ ready[i].conn = c})
        + (IF visit.conn = c THEN 1 ELSE 0)

(* A session is what reads from a connection: each session of the set has one
   read under way, and no connection is read that has no session.  It leaves
   the set when its connection ends, so it is deleted then.                 *)
OneReadPerSession ==
    \A c \in Connections : ReadsOf(c) = (IF c \in sessions THEN 1 ELSE 0)

\* For subscriber s, notification j is the next one of its connection after i.
Follows(s, j, i) ==
    /\ i < j /\ got[s][i].conn = got[s][j].conn
    /\ \A k \in (i + 1) .. (j - 1) : got[s][k].conn # got[s][j].conn

(* A subscriber gets the messages of a connection in the order in which they
   were sent, without gap from the first one it gets, and only those that were
   sent completely, wherever the connection breaks.                         *)
NotifiedInOrder ==
    \A s \in Subscribers : \A j \in 1 .. Len(got[s]) :
        /\ 2 * got[s][j].msg <= parts[got[s][j].conn]
        /\ \A i \in 1 .. Len(got[s]) : Follows(s, j, i) => got[s][j].msg = got[s][i].msg + 1

(* Once the destructor has returned, subscribers are not notified any more,
   and they may be destroyed after the server that they were told about.    *)
SilentWhenDestroyed == [][user = "done" => UNCHANGED history]_vars

\* The destructor returns, whatever clients send, unless a subscriber was
\* destroyed while it was being notified.
DestructorReturns == (user = "posts") ~> (user = "done" \/ undefined)

\* A message of connection c has been sent completely and nobody has read it.
Unread(c) == \E i \in 1 .. Len(stream[c]) : stream[c][i].what = "data"

\* Subscriber s was notified of the last complete message of connection c.
UpToDate(s, c) == \E i \in 1 .. Len(got[s]) : got[s][i] = [conn |-> c, msg |-> parts[c] \div 2]

(* If the server stays, its accept loop is not lost (the I/O thread found
   something to do when it started, and accept does not fail) and no subscriber
   was destroyed at the wrong moment, the messages that were sent completely
   reach every subscriber that is there before they are read and stays, also
   when their connection is closed meanwhile, and whatever others send.  With
   NotifiedInOrder it is enough to say so of the last one.                  *)
MessagesReachSubscribers ==
    <>[](user = "uses" /\ io_thread = "runs" /\ accept_errors = 0 /\ ~undefined) =>
        \A s \in Subscribers : \A c \in Connections :
            (Unread(c) /\ s \in subscribers)
                ~> (UpToDate(s, c) \/ s \notin subscribers \/ tcp[c] = "reset")

-----------------------------------------------------------------------------
(* What the comments of the code say and the code does not do.              *)

\* server.h: "Multiple clients can connect/disconnect at any time": as long as
\* accept does not fail and the server is there, a connection is accepted.
ConnectionsAccepted ==
    [](user \in {"constructs", "uses"} /\ accept_errors = 0 /\ ~undefined) =>
        \A c \in Connections : (tcp[c] = "open") ~> (c \in sessions \/ tcp[c] # "open")
=============================================================================
