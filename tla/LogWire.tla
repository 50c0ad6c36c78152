------------------------------ MODULE LogWire ------------------------------
(***************************************************************************)
(* The way of a log message from Logger::log in one process to the         *)
(* subscribers of the log server in another: Client::send puts a header    *)
(* with the size before the text (src/src/log/client.cpp), the bytes go    *)
(* over connections that may end anywhere, and a session of the server     *)
(* cuts them into headers and texts again (src/src/log/session.cpp) and    *)
(* has a message made of each.                                             *)
(*                                                                         *)
(* The modules LogClient and LogServer follow the threads and handlers at  *)
(* both ends, and leave out what is sent.  Here the ends are as simple as  *)
(* those modules show them to be: one write at a time and one read per     *)
(* session.  A client whose connection ends while messages are queued      *)
(* connects again and writes the first of them again from its beginning.   *)
(* It may also get a second write loop (LogClient), which writes the same  *)
(* head to the same connection: from there on it is not followed, and      *)
(* nothing is said of what its sessions receive.                           *)
(***************************************************************************)
EXTENDS LogMessage

CONSTANTS
    DecBase,         \* the number of decimal digits, 10 in the code
    HeaderSize,      \* Session::HeaderSize, 8 in the code
    Entries,         \* what may be logged: its exception, whether serialize fails, and the
                     \* size of the text
    MaxLogged,       \* bound: messages logged
    MaxConnections   \* bound: connections made

NoException == <<>>

ASSUME LogWireAssumption ==
    /\ DecBase \in Nat \ {0, 1} /\ HeaderSize \in Nat \ {0}
    /\ MaxLogged \in Nat /\ MaxConnections \in Nat
    /\ \A e \in Entries : e.size \in Nat \ {0} /\ e.throws \in BOOLEAN
    /\ \A e \in Entries : e.exc # NoException /\ e.exc.debug_info.set =>
          e.exc.debug_info.trace \in Seq(StackFrame)

Connections == 1 .. MaxConnections

VARIABLES
    logged,   \* what was logged, oldest first: message, text and its size
    posted,   \* the handlers posted by M_queueMessage and not yet run, as places in logged
    queue,    \* m_message_queue, as places in logged
    written,  \* how many bytes of its head the write under way has written
    client,   \* "waiting" for a connection, "connected", "closed", "broken" by a second
              \* write loop or "undefined"
    terminate,\* m_terminate
    conn,     \* the last connection made
    wire,     \* the bytes of each connection that are not read yet
    ended,    \* the connections that have ended
    session,  \* for each connection the session's state and the size read from a header
    got,      \* the messages that each session has handed to the subscribers
    first,    \* history: the first message written to each connection
    left,     \* history: what ~Client did not wait for
    lost      \* history: has the environment ended a connection?

vars == <<logged, posted, queue, written, client, terminate, conn, wire, ended, session, got,
          first, left, lost>>
clientVars == <<logged, posted, queue, written, client, terminate, conn, first, left>>
serverVars == <<session, got>>

-----------------------------------------------------------------------------
(* Frames.  A byte is <<0, d>>, the digit d, or <<k, i>>, the i-th byte of  *)
(* the text of the k-th message.                                            *)

\* DecBase to the power of n.
Power[n \in Nat] == IF n = 0 THEN 1 ELSE DecBase * Power[n - 1]

\* A size that the digits of a header cannot tell.
TooLarge(size) == size >= Power[HeaderSize]

\* sprintf(header, "%0*lu", HeaderSize, size): zeros in front, but never fewer digits
\* than the number has.
Header(size) ==
    LET width == HeaderSize + IF TooLarge(size) THEN 1 ELSE 0
    IN [i \in 1 .. width |-> <<0, (size \div Power[width - i]) % DecBase>>]

Frame(k) == Header(logged[k].size) \o [i \in 1 .. logged[k].size |-> <<k, i>>]

\* std::atoi stops at the first character that is no digit.
atoi(header) ==
    LET value[n \in 0 .. Len(header)] ==
            IF n = 0 THEN 0
            ELSE IF \A i \in 1 .. n : header[i][1] = 0
                 THEN DecBase * value[n - 1] + header[n][2]
                 ELSE value[n - 1]
    IN value[Len(header)]

\* The text that bytes are, when they are the whole of one.
TextOf(bytes) ==
    IF \E k \in DOMAIN logged : bytes = [i \in 1 .. logged[k].size |-> <<k, i>>]
    THEN logged[bytes[1][1]].text
    ELSE [json |-> FALSE, text |-> "garbled"]

-----------------------------------------------------------------------------

\* The client's clock, and the server's.
Now(n) == [i \in 1 .. RepSize |-> n % (HexBase * HexBase)]

Init ==
    /\ logged = <<>> /\ posted = <<>> /\ queue = <<>> /\ written = 0
    /\ client = "waiting" /\ terminate = FALSE /\ conn = 0
    /\ wire = [c \in Connections |-> <<>>]
    /\ ended = {}
    /\ session = [c \in Connections |-> [state |-> "none", size |-> 0]]
    /\ got = [c \in Connections |-> <<>>]
    /\ first = [c \in Connections |-> 0]
    /\ left = {}
    /\ lost = FALSE

\* LESF_LOG and LESF_LOG_WITH_EXCEPT build the message.
Built(e, k) ==
    IF e.exc = NoException
    THEN NewMessage("Info", "here", "program", Now(k), <<e.size>>)
    ELSE NewMessageWithException("Error", "here", "program", Now(k), <<e.size>>, e.exc)

\* Logger::log with a client: serialize and Client::send, which posts a handler with the
\* frame.  A number with more digits than HeaderSize does not fit the array that sprintf
\* writes it to: the process may end, or go on with the longer header.
Log(e) ==
    LET k == Len(logged) + 1
        msg == Built(e, k)
    IN /\ client \in {"waiting", "connected"} /\ ~terminate
       /\ k <= MaxLogged
       /\ logged' = Append(logged, [msg |-> msg, exc |-> e.exc, throws |-> e.throws,
                                    size |-> e.size, text |-> serialize(msg, e.throws)])
       /\ \/ /\ posted' = Append(posted, k)
             /\ UNCHANGED client
          \/ /\ TooLarge(e.size)
             /\ client' = "undefined"
             /\ UNCHANGED posted
       /\ UNCHANGED <<queue, written, terminate, conn, first, left, wire, ended, serverVars, lost>>

\* Mutation of HandleMessage: the frame is put at the head of the queue.
HandleMessageInFront ==
    /\ client \in {"waiting", "connected"}
    /\ posted # <<>>
    /\ queue' = <<Head(posted)>> \o queue
    /\ posted' = Tail(posted)
    /\ UNCHANGED <<logged, written, client, terminate, conn, first, left, wire, ended,
                   serverVars, lost>>

\* The handler posted by M_queueMessage runs, on the I/O thread.
HandleMessage ==
    /\ client \in {"waiting", "connected"}
    /\ posted # <<>>
    /\ queue' = Append(queue, Head(posted))
    /\ posted' = Tail(posted)
    /\ UNCHANGED <<logged, written, client, terminate, conn, first, left, wire, ended,
                   serverVars, lost>>

\* The place of the head of the queue, or of the next message that will be.
Current == Len(logged) - Len(posted) - Len(queue) + 1

\* M_doConnect succeeds and the server starts a session; what is queued is written, from
\* the beginning of its head.
Connect ==
    /\ client = "waiting"
    /\ conn < MaxConnections
    /\ conn' = conn + 1
    /\ client' = "connected"
    /\ first' = [first EXCEPT ![conn + 1] = Current]
    /\ session' = [session EXCEPT ![conn + 1].state = "header"]
    /\ UNCHANGED <<logged, posted, queue, written, terminate, left, wire, ended, got, lost>>

\* M_doWrite: the kernel takes some more bytes of the frame at the head of the queue, and
\* loses them once the connection has ended.  When it has all of them, the handler pops it.
WriteSome ==
    /\ client = "connected"
    /\ queue # <<>>
    /\ LET frame == Frame(Head(queue))
       IN \E upto \in written + 1 .. Len(frame) :
             /\ wire' = IF conn \in ended THEN wire
                        ELSE [wire EXCEPT ![conn] = @ \o SubSeq(frame, written + 1, upto)]
             /\ IF upto < Len(frame)
                THEN /\ written' = upto
                     /\ UNCHANGED queue
                ELSE /\ written' = 0
                     /\ queue' = Tail(queue)
    /\ UNCHANGED <<logged, posted, client, terminate, conn, first, left, ended, serverVars, lost>>

\* The connection ends, with any part of what was under way.
Lose ==
    /\ client = "connected"
    /\ conn \notin ended
    /\ \E n \in 0 .. Len(wire[conn]) : wire' = [wire EXCEPT ![conn] = SubSeq(@, 1, n)]
    /\ ended' = ended \union {conn}
    /\ lost' = TRUE
    /\ UNCHANGED <<clientVars, serverVars>>

\* The handlers of M_doRead and M_doWrite see it and connect again, unless the client is
\* being destroyed.  What was not written whole stays at the head of the queue, to be written
\* once more: by one loop, or by two where each of the handlers starts to connect.
NoticeEnd ==
    /\ client = "connected"
    /\ conn \in ended
    /\ written' = 0
    /\ \/ terminate /\ client' = "closed"
       \/ ~terminate /\ client' = "waiting"
       \/ ~terminate /\ queue # <<>> /\ client' = "broken"
    /\ UNCHANGED <<logged, posted, queue, terminate, conn, first, left, wire, ended, serverVars,
                   lost>>

\* What ~Client leaves behind when it goes on: it looks at the queue of a connected client,
\* and at nothing else.
LeftBehind == Range(posted) \union (IF client = "connected" THEN {} ELSE Range(queue))

\* Mutation: the destructor does not wait.
DestroyAtOnce ==
    /\ ~terminate
    /\ client \in {"waiting", "connected"}
    /\ terminate' = TRUE
    /\ left' = LeftBehind
    /\ UNCHANGED <<logged, posted, queue, written, client, conn, first, wire, ended, serverVars,
                   lost>>

\* ~Client waits for the queue to be empty if it is connected, sets m_terminate and posts
\* the handler that closes the socket.
Destroy ==
    /\ ~terminate
    /\ client = "waiting" \/ (client = "connected" /\ queue = <<>>)
    /\ terminate' = TRUE
    /\ left' = LeftBehind
    /\ UNCHANGED <<logged, posted, queue, written, client, conn, first, wire, ended, serverVars,
                   lost>>

\* That handler runs, after those that were posted before.
CloseSocket ==
    /\ terminate
    /\ client \in {"waiting", "connected"}
    /\ posted = <<>>
    /\ client' = "closed"
    /\ ended' = IF client = "connected" THEN ended \union {conn} ELSE ended
    /\ UNCHANGED <<logged, posted, queue, written, terminate, conn, first, left, wire, serverVars,
                   lost>>

-----------------------------------------------------------------------------
(* The server.                                                              *)

\* M_doReadHeader and its handler.
ReadHeader(c) ==
    /\ session[c].state = "header"
    /\ Len(wire[c]) >= HeaderSize
    /\ session' = [session EXCEPT ![c] = [state |-> "message",
                                          size |-> atoi(SubSeq(wire[c], 1, HeaderSize))]]
    /\ wire' = [wire EXCEPT ![c] = SubSeq(@, HeaderSize + 1, Len(@))]
    /\ UNCHANGED <<clientVars, ended, got, lost>>

\* Mutation: the text is whatever part of it is there.
ReadMessageSome(c) ==
    LET n == Min({session[c].size, Len(wire[c])})
    IN /\ session[c].state = "message" /\ wire[c] # <<>>
       /\ got' = [got EXCEPT ![c] = Append(@, synthetize(TextOf(SubSeq(wire[c], 1, n)), Now(0)))]
       /\ wire' = [wire EXCEPT ![c] = SubSeq(@, n + 1, Len(@))]
       /\ session' = [session EXCEPT ![c].state = "header"]
       /\ UNCHANGED <<clientVars, ended, lost>>

\* M_doReadMessage and its handler: Server::M_notifyMessageReceived makes a message of the
\* text and hands it to the subscribers.
ReadMessage(c) ==
    /\ session[c].state = "message"
    /\ Len(wire[c]) >= session[c].size
    /\ got' = [got EXCEPT ![c] =
                 Append(@, synthetize(TextOf(SubSeq(wire[c], 1, session[c].size)), Now(0)))]
    /\ wire' = [wire EXCEPT ![c] = SubSeq(@, session[c].size + 1, Len(@))]
    /\ session' = [session EXCEPT ![c].state = "header"]
    /\ UNCHANGED <<clientVars, ended, lost>>

\* A read that meets the end of the connection ends the session.
ReadError(c) ==
    /\ c \in ended
    /\ \/ session[c].state = "header" /\ Len(wire[c]) < HeaderSize
       \/ session[c].state = "message" /\ Len(wire[c]) < session[c].size
    /\ session' = [session EXCEPT ![c].state = "gone"]
    /\ UNCHANGED <<clientVars, wire, ended, got, lost>>

Serve(c) == ReadHeader(c) \/ ReadMessage(c) \/ ReadError(c)

Server == \E c \in Connections : Serve(c)

\* The client's I/O thread, with the network.
IoThread == HandleMessage \/ Connect \/ WriteSome \/ NoticeEnd \/ CloseSocket

Next ==
    \/ \E e \in Entries : Log(e)
    \/ Destroy
    \/ IoThread \/ Lose \/ Server

Spec == Init /\ [][Next]_vars

\* The network is there, operations complete and each of the two I/O threads runs while it
\* has something to do.
FairSpec == Spec /\ WF_vars(IoThread) /\ WF_vars(Server)

-----------------------------------------------------------------------------
(* Properties.                                                              *)

TypeOK ==
    /\ \A k \in DOMAIN logged : logged[k].size \in Nat /\ logged[k].msg.type \in Types
    /\ Len(logged) <= MaxLogged
    /\ client # "undefined" =>
          /\ \A i \in DOMAIN queue : queue[i] = Current + i - 1
          /\ \A i \in DOMAIN posted : posted[i] = Current + Len(queue) + i - 1
    /\ written \in Nat
    /\ client \in {"waiting", "connected", "closed", "broken", "undefined"}
    /\ terminate \in BOOLEAN
    /\ conn \in 0 .. MaxConnections
    /\ ended \subseteq Connections
    /\ \A c \in Connections :
          /\ session[c].state \in {"none", "header", "message", "gone"}
          /\ session[c].size \in Nat
          /\ first[c] \in Nat
          /\ \A i \in DOMAIN got[c] : got[c][i].type \in Types /\ Len(got[c][i].time) = RepSize
    /\ left \subseteq DOMAIN logged
    /\ lost \in BOOLEAN

\* The message that a session's i-th one ought to be, while every size before it fits a header.
Place(c, i) == first[c] + i - 1
Framed(c, i) == \A k \in first[c] .. Place(c, i) : k \in DOMAIN logged => ~TooLarge(logged[k].size)

\* What a subscriber is given for the k-th message: the message with all its members, or,
\* if it could not be serialized, one of type Unknown with the text that told so.
Faithful(msg, k) ==
    IF logged[k].throws THEN msg = SynthesisFailed(logged[k].text, msg.time)
    ELSE msg = logged[k].msg

\* Each session hands out a run of the messages that were logged, beginning with the one
\* that was at the head of the queue when the connection was made: each whole, with the
\* members it was logged with, none left out, repeated or made up from parts of others, also
\* when connections end at any byte and a message that was cut is written again to the next
\* one (the header of Client::send, Session::M_doReadHeader, Message::serialize and
\* synthetize).  It holds up to the first message whose size has more digits than the header,
\* and as long as the client has one write loop: of two loops, which Client::M_doWrite and
\* M_doRead may start when a connection ends, nothing is said.
SessionsGetRuns ==
    \A c \in Connections : \A i \in DOMAIN got[c] :
        Framed(c, i) => /\ Place(c, i) \in DOMAIN logged
                        /\ Faithful(got[c][i], Place(c, i))

\* The lines of a stack trace, each indented.
Lines(frames) ==
    FlattenSeq([i \in DOMAIN frames |->
        (IF i = 1 THEN <<>> ELSE <<Newline>>) \o Indent \o Indent \o frames[i]])

\* What plain_light shows of the exception of a message that went over the wire are the
\* frames of the stack it was thrown with, one to a line and every line indented, the last
\* one included: the hexadecimal digits, the search for newlines and the cut of the last
\* character undo each other (formatter.cpp, operator()).
TracesShown ==
    \A c \in Connections : \A i \in DOMAIN got[c] :
        Framed(c, i) =>
            LET entry == logged[Place(c, i)]
                frames == IF entry.exc = NoException \/ entry.throws THEN <<>>
                          ELSE IF entry.exc.debug_info.set THEN entry.exc.debug_info.trace ELSE <<>>
            IN plain_light(got[c][i]).trace = Lines(frames)

Arrived(k) == \E c \in Connections : \E i \in DOMAIN got[c] : Place(c, i) = k

\* As long as the environment ends no connection, the subscribers are given every message
\* that was logged, also when the client is destroyed after it has connected: the server
\* still reads what the closed connection holds.  The exception is what ~Client does not wait
\* for: messages whose posted handler has not run when it looks at the queue, and all that
\* wait if it looks before there is a connection.
EverythingArrives ==
    []<>(\A k \in DOMAIN logged : \/ Arrived(k)
                                  \/ lost
                                  \/ k \in left
                                  \/ \E j \in DOMAIN logged : TooLarge(logged[j].size))
=============================================================================
