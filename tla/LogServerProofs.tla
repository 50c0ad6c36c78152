--------------------------- MODULE LogServerProofs ---------------------------
(* Theorems about module LogServer, for any connections and subscribers and any
   number of messages and failures.                                         *)
EXTENDS LogServer, FiniteSetTheorems, SequenceTheorems, TLAPS

-----------------------------------------------------------------------------
(* The inductive invariant.                                                 *)

IsRead(h) == h.op \in {"header", "data"}
HasData(h) == h.op = "data" /\ h.ok
Accepts(h) == h.op = "accept" /\ h.ok

\* The user's thread and the I/O thread.
ThreadsInv ==
    /\ user = "constructs" => ~accepting /\ sessions = {} /\ ready = <<>>
    /\ user \in {"posts", "joins", "done"} => attached = {} /\ partial = {}
    /\ user = "done" => io_thread = "exited" /\ ~accepting /\ sessions = {}
    /\ visit.conn # Nobody => io_thread = "runs" /\ visit.msg > 0
    /\ visit.conn = Nobody => visit.todo = {}
    /\ visit.todo \subseteq subscribers
    /\ \A s \in Subscribers \ created : got[s] = <<>>

\* What each connection is read by, the parts of OneReadPerSession.
ReadsInv ==
    /\ \A i \in 1 .. Len(ready) : IsRead(ready[i]) =>
          /\ ready[i].conn \in sessions
          /\ reading[ready[i].conn] = "none" /\ visit.conn # ready[i].conn
          /\ \A j \in 1 .. Len(ready) : IsRead(ready[j]) /\ ready[j].conn = ready[i].conn => j = i
    /\ \A c \in Connections : reading[c] # "none" => c \in sessions /\ visit.conn # c
    /\ visit.conn # Nobody => visit.conn \in sessions
    /\ \A c \in sessions :
          \/ reading[c] # "none" \/ visit.conn = c
          \/ \E i \in 1 .. Len(ready) : IsRead(ready[i]) /\ ready[i].conn = c

\* How many parts of a connection were read, unless it is reset.
Position(c) == parts[c] - Len(stream[c])

\* Nothing was read from connection c.
Untouched(c) ==
    /\ c \notin sessions
    /\ tcp[c] # "reset" => Position(c) = 0
    /\ \A s \in Subscribers : \A i \in 1 .. Len(got[s]) : got[s][i].conn # c

\* A connection is accepted once.
AcceptInv ==
    /\ \A i \in 1 .. Len(ready) : ready[i].op = "accept" =>
          /\ ~accepting
          /\ \A j \in 1 .. Len(ready) : ready[j].op = "accept" => j = i
          /\ ready[i].ok => /\ ready[i].conn \in Connections /\ tcp[ready[i].conn] # "none"
                            /\ \A k \in 1 .. Len(backlog) : backlog[k] # ready[i].conn
    /\ \A i \in 1 .. Len(backlog) :
          /\ tcp[backlog[i]] # "none"
          /\ \A j \in 1 .. Len(backlog) : backlog[j] = backlog[i] => j = i

\* Connection c has no session yet.
Waiting(c) ==
    \/ tcp[c] = "none"
    \/ \E i \in 1 .. Len(backlog) : backlog[i] = c
    \/ \E i \in 1 .. Len(ready) : Accepts(ready[i]) /\ ready[i].conn = c

WaitingInv == \A c \in Connections : Waiting(c) => Untouched(c)

\* The n-th part that a client sends.
PartNumber(n) ==
    [what |-> IF (n - 1) % 2 = 0 THEN "header" ELSE "data", msg |-> (n - 1) \div 2 + 1]

\* What was sent and not read.
StreamInv ==
    \A c \in Connections :
        /\ tcp[c] = "reset" => stream[c] = <<>>
        /\ tcp[c] # "reset" =>
              /\ Position(c) >= 0
              /\ \A i \in 1 .. Len(stream[c]) : stream[c][i] = PartNumber(Position(c) + i)

\* Message m of connection c was sent, and unless the connection is reset it was
\* read and nothing after it.
ReadUpTo(c, m) ==
    /\ m > 0 /\ 2 * m <= parts[c]
    /\ tcp[c] # "reset" => Position(c) = 2 * m

\* A header or data is read where there is one, and what is read is handed out.
FrameOf(c) ==
    /\ tcp[c] # "reset" => /\ reading[c] = "header" => Position(c) % 2 = 0
                           /\ reading[c] = "data" => Position(c) % 2 = 1
    /\ \A i \in 1 .. Len(ready) : ready[i].conn = c =>
          /\ ready[i].op = "header" /\ ready[i].ok /\ tcp[c] # "reset" => Position(c) % 2 = 1
          /\ HasData(ready[i]) => ReadUpTo(c, ready[i].msg)
    /\ visit.conn = c => ReadUpTo(c, visit.msg)

FrameInv == \A c \in Connections : FrameOf(c)

\* The last message of connection c that subscriber s was notified of is entry i.
LastFrom(s, c, i) ==
    /\ i \in 1 .. Len(got[s]) /\ got[s][i].conn = c
    /\ \A k \in (i + 1) .. Len(got[s]) : got[s][k].conn # c

\* The message after entry i is the next one that connection c has for subscriber s.
NextAfter(s, c, i) ==
    /\ visit.conn = c /\ s \in visit.todo => visit.msg = got[s][i].msg + 1
    /\ visit.conn = c /\ s \notin visit.todo => visit.msg = got[s][i].msg
    /\ \A h \in 1 .. Len(ready) : HasData(ready[h]) /\ ready[h].conn = c =>
          ready[h].msg = got[s][i].msg + 1
    /\ visit.conn # c /\ tcp[c] # "reset"
         /\ (\A h \in 1 .. Len(ready) : HasData(ready[h]) => ready[h].conn # c) =>
          Position(c) \div 2 = got[s][i].msg

\* A subscriber has missed nothing since its first message.
LastInv ==
    \A s \in subscribers : \A c \in sessions : \A i \in 1 .. Len(got[s]) :
        LastFrom(s, c, i) => NextAfter(s, c, i)

IInv ==
    /\ TypeOK /\ ThreadsInv /\ ReadsInv /\ AcceptInv /\ WaitingInv /\ StreamInv /\ FrameInv
    /\ LastInv /\ NotifiedInOrder

-----------------------------------------------------------------------------
(* Every step preserves it.                                                 *)

\* The handler at the head of the queue leaves it.
LEMMA HeadLeaves ==
    ASSUME TypeOK, ready # <<>>
    PROVE  /\ ready[1] = Head(ready) /\ Head(ready) \in Handler /\ 1 \in 1 .. Len(ready)
           /\ Tail(ready) \in Seq(Handler)
           /\ \A i \in 1 .. Len(Tail(ready)) : i + 1 \in 1 .. Len(ready)
                 /\ Tail(ready)[i] = ready[i + 1]
           /\ \A i \in 1 .. Len(ready) : i # 1 =>
                 i - 1 \in 1 .. Len(Tail(ready)) /\ Tail(ready)[i - 1] = ready[i]
  <1>1. ready \in Seq(Handler)
    BY DEF TypeOK
  <1> HIDE DEF Handler
  <1>2. /\ Tail(ready) \in Seq(Handler) /\ Len(Tail(ready)) = Len(ready) - 1
        /\ \A i \in 1 .. Len(Tail(ready)) : Tail(ready)[i] = ready[i + 1]
        /\ Len(ready) \in Nat /\ Len(ready) > 0
        /\ Head(ready) = ready[1] /\ ready[1] \in Handler
    BY <1>1, HeadTailProperties, EmptySeq
  <1>3. QED
    BY <1>2

\* A handler is added.
LEMMA HandlerAdded ==
    ASSUME TypeOK, NEW h \in Handler, ready' = Append(ready, h)
    PROVE  /\ ready' \in Seq(Handler)
           /\ \A i \in 1 .. Len(ready') :
                \/ i \in 1 .. Len(ready) /\ ready'[i] = ready[i]
                \/ i = Len(ready) + 1 /\ ready'[i] = h
           /\ \A i \in 1 .. Len(ready) : i \in 1 .. Len(ready') /\ ready'[i] = ready[i]
           /\ Len(ready) + 1 \in 1 .. Len(ready') /\ ready'[Len(ready) + 1] = h
           /\ Len(ready) + 1 \notin 1 .. Len(ready)
  <1>1. ready \in Seq(Handler) /\ Len(ready) \in Nat
    BY DEF TypeOK
  <1> HIDE DEF Handler
  <1>2. /\ Append(ready, h) \in Seq(Handler) /\ Len(Append(ready, h)) = Len(ready) + 1
        /\ \A i \in 1 .. Len(ready) : Append(ready, h)[i] = ready[i]
        /\ Append(ready, h)[Len(ready) + 1] = h
    BY <1>1, AppendProperties
  <1>3. QED
    BY <1>1, <1>2

\* What operations give the queue.
LEMMA HandlersTyped ==
    /\ Stop \in Handler
    /\ Failed("accept", Nobody) \in Handler
    /\ \A c \in Connections : \A op \in {"header", "data"} : Failed(op, c) \in Handler
    /\ \A c \in Connections : \A op \in {"accept", "header", "data"} : \A m \in 0 .. MaxParts : Done(op, c, m) \in Handler
  BY LogServerAssumption DEF Stop, Failed, Done, Handler

\* A notification is added.
LEMMA NotifyDoes ==
    ASSUME TypeOK, ThreadsInv, NEW s \in Subscribers, Notify(s)
    PROVE  LET m == [conn |-> visit.conn, msg |-> visit.msg]
               n == Len(got[s])
           IN  /\ visit.conn \in Connections /\ m \in Message
               /\ got' \in [Subscribers -> Seq(Message)]
               /\ \A x \in Subscribers : x # s => got'[x] = got[x]
               /\ n \in Nat /\ Len(got'[s]) = n + 1
               /\ \A i \in 1 .. n : got'[s][i] = got[s][i]
               /\ got'[s][n + 1] = m
  <1> DEFINE m == [conn |-> visit.conn, msg |-> visit.msg]
             n == Len(got[s])
  <1>1. visit.conn # Nobody /\ visit.msg > 0
    BY DEF Notify, ThreadsInv
  <1>2. visit.conn \in Connections /\ m \in Message
    BY <1>1 DEF TypeOK, Message
  <1>3. got \in [Subscribers -> Seq(Message)]
    BY DEF TypeOK
  <1>4. got' = [got EXCEPT ![s] = Append(got[s], m)]
    BY DEF Notify
  <1> HIDE DEF m
  <1> HIDE DEF Message
  <1>5. /\ Append(got[s], m) \in Seq(Message) /\ Len(Append(got[s], m)) = n + 1
        /\ \A i \in 1 .. n : Append(got[s], m)[i] = got[s][i]
        /\ Append(got[s], m)[n + 1] = m /\ n \in Nat
    BY <1>2, <1>3, AppendProperties, LenProperties
  <1>6. QED
    BY <1>2, <1>3, <1>4, <1>5 DEF m

\* A queue of the environment is not empty.
LEMMA FirstOf ==
    ASSUME NEW S, NEW q \in Seq(S), q # <<>>
    PROVE  /\ Head(q) = q[1] /\ Head(q) \in S /\ Len(q) \in Nat /\ 1 \in 1 .. Len(q)
           /\ Tail(q) \in Seq(S) /\ Len(Tail(q)) = Len(q) - 1
           /\ \A i \in 1 .. Len(Tail(q)) : i + 1 \in 1 .. Len(q) /\ Tail(q)[i] = q[i + 1]
  <1>1. /\ Tail(q) \in Seq(S) /\ Len(Tail(q)) = Len(q) - 1
        /\ \A i \in 1 .. Len(Tail(q)) : Tail(q)[i] = q[i + 1]
        /\ Len(q) \in Nat /\ Len(q) > 0
        /\ Head(q) = q[1] /\ q[1] \in S
    BY HeadTailProperties, EmptySeq
  <1>2. QED
    BY <1>1

LEMMA TypeStep ==
    ASSUME TypeOK, ThreadsInv, AcceptInv, [Next]_vars
    PROVE  TypeOK'
  <1>1. CASE IoThreadStarts
    BY <1>1 DEF TypeOK, IoThreadStarts, subscription, operations, environment, history
  <1>2. CASE IoThreadExits
    BY <1>2 DEF TypeOK, IoThreadExits, subscription, operations, environment, history
  <1>3. CASE HandleAccepted
    <2>1. ready' = Tail(ready) /\ ready # <<>>
      BY <1>3 DEF HandleAccepted, Executes
    <2>2. ready' \in Seq(Handler) /\ Head(ready) \in Handler /\ ready[1] = Head(ready)
          /\ 1 \in 1 .. Len(ready)
      BY <2>1, HeadLeaves
    <2>3. Head(ready).conn \in Connections
      BY <1>3, <2>2 DEF HandleAccepted, Executes, AcceptInv
    <2>4. QED
      BY <1>3, <2>2, <2>3
      DEF TypeOK, HandleAccepted, StartSession, subscription, environment, history
  <1>4. CASE HandleAcceptError
    <2>1. ready' = Tail(ready) /\ ready # <<>>
      BY <1>4 DEF HandleAcceptError, Executes
    <2>2. ready' \in Seq(Handler) /\ Head(ready) \in Handler
      BY <2>1, HeadLeaves
    <2>3. QED
      BY <1>4, <2>2
      DEF TypeOK, Handler, HandleAcceptError, Executes, server, subscription, environment, history
  <1>5. CASE HandleHeader
    <2>1. ready' = Tail(ready) /\ ready # <<>>
      BY <1>5 DEF HandleHeader, Executes
    <2>2. ready' \in Seq(Handler) /\ Head(ready) \in Handler
      BY <2>1, HeadLeaves
    <2>3. QED
      BY <1>5, <2>2
      DEF TypeOK, Handler, HandleHeader, Executes, server, subscription, environment, history
  <1>6. CASE HandleData
    <2>1. ready' = Tail(ready) /\ ready # <<>>
      BY <1>6 DEF HandleData, Executes
    <2>2. ready' \in Seq(Handler) /\ Head(ready) \in Handler
      BY <2>1, HeadLeaves
    <2>3. visit' \in [conn : Connections \union {Nobody}, msg : 0 .. MaxParts,
                     todo : SUBSET Subscribers, last : Subscribers \union {Nobody}]
      BY <1>6, <2>2 DEF HandleData, TypeOK, Handler
    <2>4. QED
      BY <1>6, <2>2, <2>3 DEF TypeOK, HandleData, server, environment, history
  <1>7. CASE EndNotify
    <2>1. visit' \in [conn : Connections \union {Nobody}, msg : 0 .. MaxParts,
                     todo : SUBSET Subscribers, last : Subscribers \union {Nobody}]
      BY <1>7, LogServerAssumption DEF EndNotify, NoVisit
    <2>2. QED
      BY <1>7, <2>1 DEF TypeOK, EndNotify, server, environment, history
  <1>8. CASE HandleReadError
    <2>1. ready' = Tail(ready) /\ ready # <<>>
      BY <1>8 DEF HandleReadError, Executes
    <2>2. ready' \in Seq(Handler) /\ Head(ready) \in Handler
      BY <2>1, HeadLeaves
    <2>3. QED
      BY <1>8, <2>2
      DEF TypeOK, Handler, HandleReadError, Executes, subscription, environment, history
  <1>9. CASE HandleStop
    <2>1. ready' = Tail(ready) /\ ready # <<>>
      BY <1>9 DEF HandleStop, Executes
    <2>2. ready' \in Seq(Handler) /\ Head(ready) \in Handler
      BY <2>1, HeadLeaves
    <2>3. QED
      BY <1>9, <2>2 DEF TypeOK, Handler, HandleStop, Executes, subscription, environment, history
  <1>10. ASSUME NEW s \in Subscribers, Notify(s)
       PROVE  TypeOK'
    <2>1. got' \in [Subscribers -> Seq(Message)]
      BY <1>10, NotifyDoes
    <2>2. QED
      BY <1>10, <2>1 DEF TypeOK, Notify, server, operations, environment
  <1>11. ASSUME NEW s \in Subscribers, NotifyPartial(s)
       PROVE  TypeOK'
    BY <1>11 DEF TypeOK, NotifyPartial, server, subscription, operations, environment
  <1>12. CASE DoAccept
    BY <1>12 DEF TypeOK, DoAccept, subscription, environment, history
  <1>13. CASE PostStop
    <2>1. ready' = Append(ready, Stop) /\ Stop \in Handler
      BY <1>13, HandlersTyped DEF PostStop, TypeOK
    <2>2. ready' \in Seq(Handler)
      BY <2>1, HandlerAdded
    <2>3. QED
      BY <1>13, <2>2 DEF TypeOK, PostStop, subscription, environment, history
  <1>14. CASE Join
    <2>1. ready' \in Seq(Handler)
      BY <1>14 DEF Join
    <2>2. QED
      BY <1>14, <2>1 DEF TypeOK, Join, subscription, environment, history
  <1>15. CASE BeginDestroy
    BY <1>15 DEF TypeOK, BeginDestroy, operations, environment, history
  <1>16. ASSUME NEW s \in Subscribers, Subscribe(s)
       PROVE  TypeOK'
    <2>1. undefined' \in BOOLEAN
      BY <1>16, Zenon DEF TypeOK, Subscribe, Races
    <2>2. visit' \in [conn : Connections \union {Nobody}, msg : 0 .. MaxParts,
                     todo : SUBSET Subscribers, last : Subscribers \union {Nobody}]
      <3>1. visit' = visit \/ visit' = [visit EXCEPT !.todo = visit.todo \union {s}]
        BY <1>16 DEF Subscribe
      <3>2. visit \in [conn : Connections \union {Nobody}, msg : 0 .. MaxParts,
                      todo : SUBSET Subscribers, last : Subscribers \union {Nobody}]
        BY DEF TypeOK
      <3>3. visit.todo \union {s} \in SUBSET Subscribers
        BY <3>2
      <3>4. QED
        BY <3>1, <3>2, <3>3
    <2>3. subscribers' \subseteq created' /\ partial' \subseteq subscribers'
          /\ attached' \subseteq subscribers'
          /\ created' \subseteq Subscribers
      BY <1>16 DEF TypeOK, Subscribe
    <2>4. QED
      BY <1>16, <2>1, <2>2, <2>3 DEF TypeOK, Subscribe, server, operations, environment
  <1>17. ASSUME NEW s \in Subscribers, Construct(s)
       PROVE  TypeOK'
    BY <1>17 DEF TypeOK, Construct, server, operations, environment, history
  <1>18. ASSUME NEW s \in Subscribers, Destruct(s)
       PROVE  TypeOK'
    BY <1>18 DEF TypeOK, Destruct, Races, server, operations, environment
  <1>19. ASSUME NEW s \in Subscribers, Unsubscribe(s)
       PROVE  TypeOK'
    BY <1>19 DEF TypeOK, Unsubscribe, Races, server, operations, environment
  <1>20. ASSUME NEW s \in Subscribers, Orphan(s)
       PROVE  TypeOK'
    <2>1. undefined' \in BOOLEAN
      BY <1>20, Zenon DEF TypeOK, Orphan
    <2>2. QED
      BY <1>20, <2>1 DEF TypeOK, Orphan, server, operations, environment, ThreadsInv
  <1>21. ASSUME NEW c \in Connections, Connect(c)
       PROVE  TypeOK'
    <2>1. backlog' \in Seq(Connections)
      BY <1>21 DEF TypeOK, Connect
    <2>2. QED
      BY <1>21, <2>1 DEF TypeOK, Connect, server, subscription, operations, history
  <1>22. ASSUME NEW c \in Connections, SendPart(c)
       PROVE  TypeOK'
    <2>1. PartNumber(parts[c] + 1) \in Part /\ parts[c] + 1 \in 0 .. MaxParts
      <3>1. parts[c] \in 0 .. MaxParts /\ parts[c] < MaxParts
        BY <1>22 DEF TypeOK, SendPart
      <3>2. QED
        BY <3>1, LogServerAssumption DEF Part, PartNumber
    <2>2. stream' = [stream EXCEPT ![c] = Append(@, PartNumber(parts[c] + 1))]
      <3>1. parts[c] \in Nat
        BY DEF TypeOK
      <3>2. parts[c] = (parts[c] + 1) - 1
        BY <3>1
      <3>3. QED
        BY <1>22, <3>2 DEF SendPart, PartNumber
    <2> HIDE DEF Part, PartNumber
    <2>3. stream' \in [Connections -> Seq(Part)]
      BY <2>1, <2>2 DEF TypeOK
    <2>4. QED
      BY <1>22, <2>1, <2>3 DEF TypeOK, SendPart, server, subscription, operations, history
  <1>23. ASSUME NEW c \in Connections, Disconnect(c)
       PROVE  TypeOK'
    <2>1. stream' \in [Connections -> Seq(Part)]
      <3>1. stream \in [Connections -> Seq(Part)] /\ <<>> \in Seq(Part)
        BY DEF TypeOK
      <3>2. stream' = stream \/ stream' = [stream EXCEPT ![c] = <<>>]
        BY <1>23 DEF Disconnect
      <3>3. QED
        BY <3>1, <3>2
    <2>2. QED
      BY <1>23, <2>1 DEF TypeOK, Disconnect, server, subscription, operations, history
  <1>24. ASSUME NEW c \in Connections, ReadCompletes(c)
       PROVE  TypeOK'
    <2>1. Head(stream[c]) \in Part /\ Tail(stream[c]) \in Seq(Part)
      BY <1>24, FirstOf DEF TypeOK, ReadCompletes
    <2>2. /\ ready' = Append(ready, Done(reading[c], c, Head(stream[c]).msg))
          /\ Done(reading[c], c, Head(stream[c]).msg) \in Handler
      <3>1. Head(stream[c]).msg \in 0 .. MaxParts
        BY <2>1, LogServerAssumption DEF Part
      <3>2. reading[c] \in {"header", "data"}
        BY <1>24 DEF ReadCompletes, TypeOK
      <3>3. QED
        BY <1>24, <3>1, <3>2, HandlersTyped DEF ReadCompletes
    <2>3. ready' \in Seq(Handler)
      BY <2>2, HandlerAdded
    <2>4. stream' \in [Connections -> Seq(Part)]
      BY <1>24, <2>1 DEF ReadCompletes, TypeOK
    <2>5. QED
      BY <1>24, <2>3, <2>4 DEF TypeOK, ReadCompletes, server, subscription, history
  <1>25. ASSUME NEW c \in Connections, ReadFails(c)
       PROVE  TypeOK'
    <2>1. ready' = Append(ready, Failed(reading[c], c)) /\ Failed(reading[c], c) \in Handler
      BY <1>25, HandlersTyped DEF ReadFails, TypeOK
    <2>2. ready' \in Seq(Handler)
      BY <2>1, HandlerAdded
    <2>3. QED
      BY <1>25, <2>2 DEF TypeOK, ReadFails, server, subscription, environment, history
  <1>26. CASE AcceptCompletes
    <2>1. Head(backlog) \in Connections /\ Tail(backlog) \in Seq(Connections)
      BY <1>26, FirstOf DEF TypeOK, AcceptCompletes
    <2>2. ready' = Append(ready, Done("accept", Head(backlog), 0))
          /\ Done("accept", Head(backlog), 0) \in Handler
      BY <1>26, <2>1, HandlersTyped, LogServerAssumption DEF AcceptCompletes
    <2>3. ready' \in Seq(Handler)
      BY <2>2, HandlerAdded
    <2>4. QED
      BY <1>26, <2>1, <2>3 DEF TypeOK, AcceptCompletes, server, subscription, history
  <1>27. CASE AcceptFails
    <2>1. ready' = Append(ready, Failed("accept", Nobody)) /\ Failed("accept", Nobody) \in Handler
      BY <1>27, HandlersTyped DEF AcceptFails, TypeOK
    <2>2. ready' \in Seq(Handler)
      BY <2>1, HandlerAdded
    <2>3. accept_errors' \in 0 .. MaxAcceptErrors
      BY <1>27, LogServerAssumption DEF TypeOK, AcceptFails
    <2>4. accepting' \in BOOLEAN
      BY <1>27, Zenon DEF AcceptFails
    <2>5. QED
      BY <1>27, <2>2, <2>3, <2>4 DEF TypeOK, AcceptFails, server, subscription, history
  <1>28. CASE UNCHANGED vars
    BY <1>28 DEF TypeOK, vars
  <1>29. QED
    BY <1>1, <1>2, <1>3, <1>4, <1>5, <1>6, <1>7, <1>8, <1>9, <1>10, <1>11, <1>12, <1>13, <1>14,
       <1>15, <1>16, <1>17, <1>18, <1>19, <1>20, <1>21, <1>22, <1>23, <1>24, <1>25, <1>26, <1>27,
       <1>28
    DEF Next, IoThread, User, UserStep, Client, Reading

LEMMA ThreadsStep ==
    ASSUME TypeOK, ThreadsInv, ReadsInv, FrameInv, [Next]_vars
    PROVE  ThreadsInv'
  <1>1. CASE IoThreadStarts
    BY <1>1, LogServerAssumption
    DEF TypeOK, ThreadsInv, IoThreadStarts, subscription, operations, environment, history
  <1>2. CASE IoThreadExits
    BY <1>2, LogServerAssumption
    DEF TypeOK, ThreadsInv, IoThreadExits, subscription, operations, environment, history, Work
  <1>3. CASE HandleAccepted
    BY <1>3, LogServerAssumption
    DEF TypeOK, ThreadsInv, HandleAccepted, Executes, StartSession, subscription, environment,
        history
  <1>4. CASE HandleAcceptError
    BY <1>4, LogServerAssumption
    DEF TypeOK, ThreadsInv, HandleAcceptError, Executes, server, subscription, environment,
        history
  <1>5. CASE HandleHeader
    BY <1>5, LogServerAssumption
    DEF TypeOK, ThreadsInv, HandleHeader, Executes, server, subscription, environment, history
  <1>6. CASE HandleData
    <2>1. ready # <<>> /\ HasData(Head(ready)) /\ visit'.conn = Head(ready).conn
                             /\ visit'.msg = Head(ready).msg
      BY <1>6 DEF HandleData, Executes, HasData
    <2>2. Head(ready).msg > 0 /\ Head(ready).conn # Nobody
      BY <2>1, HeadLeaves, LogServerAssumption
      DEF FrameInv, FrameOf, ReadUpTo, ReadsInv, HasData, IsRead, TypeOK
    <2>3. visit'.todo = subscribers /\ Head(ready) \in Handler
      BY <1>6, <2>1, HeadLeaves DEF HandleData
    <2>4. UNCHANGED <<user, io_thread, sessions, attached, partial, subscribers, created, accepting, got>>
          /\ io_thread = "runs"
      BY <1>6 DEF HandleData, Executes, server, environment, history
    <2>5. user # "constructs"
      BY <2>1 DEF ThreadsInv
    <2>6. QED
      BY <2>1, <2>2, <2>3, <2>4, <2>5 DEF ThreadsInv
  <1>7. CASE EndNotify
    BY <1>7, LogServerAssumption
    DEF TypeOK, ThreadsInv, EndNotify, NoVisit, server, environment, history, ReadsInv
  <1>8. CASE HandleReadError
    BY <1>8, LogServerAssumption
    DEF TypeOK, ThreadsInv, HandleReadError, Executes, subscription, environment, history
  <1>9. CASE HandleStop
    BY <1>9, LogServerAssumption
    DEF TypeOK, ThreadsInv, HandleStop, Executes, subscription, environment, history
  <1>10. ASSUME NEW s \in Subscribers, Notify(s)
       PROVE  ThreadsInv'
    BY <1>10, LogServerAssumption DEF TypeOK, ThreadsInv, Notify, server, operations, environment
  <1>11. ASSUME NEW s \in Subscribers, NotifyPartial(s)
       PROVE  ThreadsInv'
    BY <1>11, LogServerAssumption
    DEF TypeOK, ThreadsInv, NotifyPartial, server, subscription, operations, environment
  <1>12. CASE DoAccept
    BY <1>12, LogServerAssumption
    DEF TypeOK, ThreadsInv, DoAccept, subscription, environment, history
  <1>13. CASE PostStop
    BY <1>13, LogServerAssumption
    DEF TypeOK, ThreadsInv, PostStop, subscription, environment, history
  <1>14. CASE Join
    BY <1>14, LogServerAssumption DEF TypeOK, ThreadsInv, Join, subscription, environment, history
  <1>15. CASE BeginDestroy
    BY <1>15, LogServerAssumption
    DEF TypeOK, ThreadsInv, BeginDestroy, operations, environment, history
  <1>16. ASSUME NEW s \in Subscribers, Subscribe(s)
       PROVE  ThreadsInv'
    <2>1. /\ UNCHANGED <<user, io_thread, sessions, accepting, ready, got>> /\ user = "uses"
          /\ subscribers' = subscribers \union {s} /\ created' = created \union {s}
      BY <1>16 DEF Subscribe, server, operations
    <2>2. visit' = visit
          \/ (visit.conn # Nobody /\ visit' = [visit EXCEPT !.todo = visit.todo \union {s}])
      BY <1>16 DEF Subscribe
    <2>3. visit'.conn = visit.conn /\ visit'.msg = visit.msg
      BY <2>2 DEF TypeOK
    <2>4. visit'.todo = visit.todo \/ (visit.conn # Nobody /\ visit'.todo = visit.todo \union {s})
      BY <2>2 DEF TypeOK
    <2>5. QED
      BY <2>1, <2>3, <2>4 DEF ThreadsInv
  <1>17. ASSUME NEW s \in Subscribers, Construct(s)
       PROVE  ThreadsInv'
    BY <1>17, LogServerAssumption
    DEF TypeOK, ThreadsInv, Construct, server, operations, environment, history
  <1>18. ASSUME NEW s \in Subscribers, Destruct(s)
       PROVE  ThreadsInv'
    BY <1>18, LogServerAssumption
    DEF TypeOK, ThreadsInv, Destruct, Races, server, operations, environment
  <1>19. ASSUME NEW s \in Subscribers, Unsubscribe(s)
       PROVE  ThreadsInv'
    BY <1>19, LogServerAssumption
    DEF TypeOK, ThreadsInv, Unsubscribe, Races, server, operations, environment
  <1>20. ASSUME NEW s \in Subscribers, Orphan(s)
       PROVE  ThreadsInv'
    BY <1>20, LogServerAssumption DEF TypeOK, ThreadsInv, Orphan, server, operations, environment
  <1>21. ASSUME NEW c \in Connections, Connect(c)
       PROVE  ThreadsInv'
    BY <1>21, LogServerAssumption
    DEF TypeOK, ThreadsInv, Connect, server, subscription, operations, history
  <1>22. ASSUME NEW c \in Connections, SendPart(c)
       PROVE  ThreadsInv'
    BY <1>22, LogServerAssumption
    DEF TypeOK, ThreadsInv, SendPart, server, subscription, operations, history
  <1>23. ASSUME NEW c \in Connections, Disconnect(c)
       PROVE  ThreadsInv'
    BY <1>23, LogServerAssumption
    DEF TypeOK, ThreadsInv, Disconnect, server, subscription, operations, history
  <1>24. ASSUME NEW c \in Connections, ReadCompletes(c)
       PROVE  ThreadsInv'
    BY <1>24, LogServerAssumption
    DEF TypeOK, ThreadsInv, ReadCompletes, server, subscription, history, ReadsInv
  <1>25. ASSUME NEW c \in Connections, ReadFails(c)
       PROVE  ThreadsInv'
    BY <1>25, LogServerAssumption
    DEF TypeOK, ThreadsInv, ReadFails, server, subscription, environment, history, ReadsInv
  <1>26. CASE AcceptCompletes
    BY <1>26, LogServerAssumption
    DEF TypeOK, ThreadsInv, AcceptCompletes, server, subscription, history
  <1>27. CASE AcceptFails
    BY <1>27, LogServerAssumption
    DEF TypeOK, ThreadsInv, AcceptFails, server, subscription, history
  <1>28. CASE UNCHANGED vars
    BY <1>28, LogServerAssumption DEF TypeOK, ThreadsInv, vars
  <1>29. QED
    BY <1>1, <1>2, <1>3, <1>4, <1>5, <1>6, <1>7, <1>8, <1>9, <1>10, <1>11, <1>12, <1>13, <1>14,
       <1>15, <1>16, <1>17, <1>18, <1>19, <1>20, <1>21, <1>22, <1>23, <1>24, <1>25, <1>26, <1>27,
       <1>28
    DEF Next, IoThread, User, UserStep, Client, Reading

\* A read that completes, or fails, or an accept, adds its handler.
LEMMA ReadAdds ==
    ASSUME TypeOK, NEW c \in Connections, ReadCompletes(c)
    PROVE  LET h == Done(reading[c], c, Head(stream[c]).msg)
           IN  /\ h \in Handler /\ ready' = Append(ready, h)
               /\ Head(stream[c]) = stream[c][1] /\ 1 \in 1 .. Len(stream[c])
                     /\ Head(stream[c]) \in Part
               /\ Len(stream'[c]) = Len(stream[c]) - 1 /\ Len(stream[c]) \in Nat
               /\ \A i \in 1 .. Len(stream'[c]) : i + 1 \in 1 .. Len(stream[c])
                     /\ stream'[c][i] = stream[c][i + 1]
               /\ \A d \in Connections : d # c => stream'[d] = stream[d]
  <1>1. stream \in [Connections -> Seq(Part)] /\ stream[c] \in Seq(Part) /\ stream[c] # <<>>
    BY DEF TypeOK, ReadCompletes
  <1> HIDE DEF Part
  <1>2. /\ Head(stream[c]) = stream[c][1] /\ Head(stream[c]) \in Part /\ Len(stream[c]) \in Nat
        /\ 1 \in 1 .. Len(stream[c]) /\ Len(Tail(stream[c])) = Len(stream[c]) - 1
        /\ \A i \in 1 .. Len(Tail(stream[c])) :
             i + 1 \in 1 .. Len(stream[c]) /\ Tail(stream[c])[i] = stream[c][i + 1]
    BY <1>1, FirstOf
  <1>3. stream'[c] = Tail(stream[c]) /\ \A d \in Connections : d # c => stream'[d] = stream[d]
    BY <1>1 DEF ReadCompletes
  <1>4. Head(stream[c]).msg \in 0 .. MaxParts
    BY <1>2, LogServerAssumption DEF Part
  <1>5. reading[c] \in {"header", "data"}
    BY DEF ReadCompletes, TypeOK
  <1>6. Done(reading[c], c, Head(stream[c]).msg) \in Handler
    BY <1>4, <1>5, HandlersTyped
  <1>7. QED
    BY <1>2, <1>3, <1>6 DEF ReadCompletes

LEMMA FailureAdds ==
    ASSUME TypeOK, NEW c \in Connections, ReadFails(c)
    PROVE  Failed(reading[c], c) \in Handler /\ ready' = Append(ready, Failed(reading[c], c))
  BY HandlersTyped DEF ReadFails, TypeOK

LEMMA AcceptAdds ==
    ASSUME TypeOK, AcceptCompletes
    PROVE  LET h == Done("accept", Head(backlog), 0)
           IN  /\ h \in Handler /\ ready' = Append(ready, h)
               /\ Head(backlog) = backlog[1] /\ Head(backlog) \in Connections
                     /\ 1 \in 1 .. Len(backlog)
               /\ \A i \in 1 .. Len(backlog') : i + 1 \in 1 .. Len(backlog)
                     /\ backlog'[i] = backlog[i + 1]
  <1>1. backlog \in Seq(Connections) /\ backlog # <<>> /\ backlog' = Tail(backlog)
    BY DEF TypeOK, AcceptCompletes
  <1>2. /\ Head(backlog) = backlog[1] /\ Head(backlog) \in Connections /\ 1 \in 1 .. Len(backlog)
        /\ \A i \in 1 .. Len(Tail(backlog)) : i + 1 \in 1 .. Len(backlog)
              /\ Tail(backlog)[i] = backlog[i + 1]
    BY <1>1, FirstOf
  <1>3. Done("accept", Head(backlog), 0) \in Handler
    BY <1>2, HandlersTyped, LogServerAssumption
  <1>4. QED
    BY <1>1, <1>2, <1>3 DEF AcceptCompletes

\* The reads that are left when the first handler leaves the queue.
LEMMA ReadsLeft ==
    ASSUME TypeOK, ReadsInv, ready # <<>>, ready' = Tail(ready)
    PROVE  LET first == Head(ready)
           IN  /\ IsRead(first) => /\ first.conn \in sessions /\ first.conn \in Connections
                                   /\ reading[first.conn] = "none" /\ visit.conn # first.conn
               /\ \A i \in 1 .. Len(ready') : IsRead(ready'[i]) =>
                     /\ ready'[i].conn \in sessions /\ ready'[i].conn \in Connections
                     /\ reading[ready'[i].conn] = "none" /\ visit.conn # ready'[i].conn
                     /\ IsRead(first) => ready'[i].conn # first.conn
                     /\ \A j \in 1 .. Len(ready') : IsRead(ready'[j])
                           /\ ready'[j].conn = ready'[i].conn => j = i
               /\ \A c \in sessions :
                     \/ reading[c] # "none" \/ visit.conn = c
                     \/ IsRead(first) /\ first.conn = c
                     \/ \E i \in 1 .. Len(ready') : IsRead(ready'[i]) /\ ready'[i].conn = c
  <1> DEFINE first == Head(ready)
  <1>1. /\ ready[1] = first /\ 1 \in 1 .. Len(ready)
        /\ \A i \in 1 .. Len(ready') : i + 1 \in 1 .. Len(ready) /\ ready'[i] = ready[i + 1]
        /\ \A i \in 1 .. Len(ready) : i # 1 =>
              i - 1 \in 1 .. Len(ready') /\ ready'[i - 1] = ready[i]
    BY HeadLeaves
  <1> HIDE DEF first
  <1>2. sessions \subseteq Connections
    BY DEF TypeOK
  <1>3. IsRead(first) => /\ first.conn \in sessions
                         /\ reading[first.conn] = "none" /\ visit.conn # first.conn
    BY <1>1 DEF ReadsInv
  <1>4. ASSUME NEW i \in 1 .. Len(ready'), IsRead(ready'[i])
        PROVE  /\ ready'[i].conn \in sessions
               /\ reading[ready'[i].conn] = "none" /\ visit.conn # ready'[i].conn
               /\ IsRead(first) => ready'[i].conn # first.conn
               /\ \A j \in 1 .. Len(ready') : IsRead(ready'[j])
                     /\ ready'[j].conn = ready'[i].conn => j = i
    <2>1. i + 1 \in 1 .. Len(ready) /\ ready'[i] = ready[i + 1] /\ i + 1 # 1
      BY <1>1
    <2>2. /\ ready[i + 1].conn \in sessions
          /\ reading[ready[i + 1].conn] = "none" /\ visit.conn # ready[i + 1].conn
          /\ \A j \in 1 .. Len(ready) : IsRead(ready[j]) /\ ready[j].conn = ready[i + 1].conn =>
                j = i + 1
      BY <1>4, <2>1 DEF ReadsInv
    <2>3. IsRead(first) => ready[i + 1].conn # first.conn
      BY <1>1, <2>1, <2>2
    <2>4. ASSUME NEW j \in 1 .. Len(ready'), IsRead(ready'[j]), ready'[j].conn = ready'[i].conn
          PROVE  j = i
      <3>1. j + 1 \in 1 .. Len(ready) /\ ready'[j] = ready[j + 1]
        BY <1>1
      <3>2. j + 1 = i + 1
        BY <2>1, <2>2, <2>4, <3>1
      <3>3. QED
        BY <3>2
    <2>5. QED
      BY <2>1, <2>2, <2>3, <2>4
  <1>5. ASSUME NEW c \in sessions, reading[c] = "none", visit.conn # c,
        ~(IsRead(first) /\ first.conn = c)
        PROVE  \E i \in 1 .. Len(ready') : IsRead(ready'[i]) /\ ready'[i].conn = c
    <2>1. PICK i \in 1 .. Len(ready) : IsRead(ready[i]) /\ ready[i].conn = c
      BY <1>5 DEF ReadsInv
    <2>2. i # 1
      BY <1>1, <1>5, <2>1
    <2>3. QED
      BY <1>1, <2>1, <2>2
  <1>6. QED
    BY <1>2, <1>3, <1>4, <1>5 DEF first

LEMMA ReadsStep ==
    ASSUME TypeOK, ThreadsInv, ReadsInv, AcceptInv, WaitingInv, [Next]_vars
    PROVE  ReadsInv'
  <1>1. CASE IoThreadStarts
    BY <1>1, LogServerAssumption
    DEF ReadsInv, IsRead, TypeOK, IoThreadStarts, subscription, operations, environment, history
  <1>2. CASE IoThreadExits
    BY <1>2, LogServerAssumption
    DEF ReadsInv, IsRead, TypeOK, IoThreadExits, subscription, operations, environment, history
  <1>3. CASE HandleAccepted
    <2>1. ready' = Tail(ready) /\ ready # <<>>
      BY <1>3 DEF HandleAccepted, Executes
    <2>2. /\ ready[1] = Head(ready) /\ Head(ready) \in Handler /\ 1 \in 1 .. Len(ready)
          /\ \A i \in 1 .. Len(ready') : i + 1 \in 1 .. Len(ready) /\ ready'[i] = ready[i + 1]
          /\ \A i \in 1 .. Len(ready) : i # 1 =>
                i - 1 \in 1 .. Len(ready') /\ ready'[i - 1] = ready[i]
      BY <2>1, HeadLeaves
    <2> DEFINE c == Head(ready).conn
    <2>30. c \in Connections /\ ~IsRead(Head(ready)) /\ Accepts(ready[1]) /\ ready[1].conn = c
      BY <1>3, <2>2 DEF HandleAccepted, Executes, AcceptInv, IsRead, Accepts
    <2>3. c \in Connections /\ c \notin sessions /\ ~IsRead(Head(ready))
      BY <2>2, <2>30 DEF WaitingInv, Waiting, Untouched
    <2>4. /\ sessions' = sessions \union {c} /\ visit' = visit /\ visit.conn = Nobody
                /\ c # Nobody
          /\ reading'[c] = "header" /\ \A d \in Connections : d # c => reading'[d] = reading[d]
      BY <1>3, <2>3, LogServerAssumption
      DEF HandleAccepted, Executes, StartSession, subscription, TypeOK
    <2> HIDE DEF c
    <2>5. sessions \subseteq Connections
      BY DEF TypeOK
    <2>6. QED
      BY <2>1, <2>3, <2>4, <2>5, ReadsLeft DEF ReadsInv
  <1>4. CASE HandleAcceptError
    <2>1. ready' = Tail(ready) /\ ready # <<>>
      BY <1>4 DEF HandleAcceptError, Executes
    <2>2. /\ ready[1] = Head(ready) /\ Head(ready) \in Handler /\ 1 \in 1 .. Len(ready)
          /\ \A i \in 1 .. Len(ready') : i + 1 \in 1 .. Len(ready) /\ ready'[i] = ready[i + 1]
          /\ \A i \in 1 .. Len(ready) : i # 1 =>
                i - 1 \in 1 .. Len(ready') /\ ready'[i - 1] = ready[i]
      BY <2>1, HeadLeaves
    <2>3. QED
      BY <1>4, <2>1, <2>2, ReadsLeft, LogServerAssumption
      DEF ReadsInv, TypeOK, HandleAcceptError, Executes, server, subscription, environment,
          history, AcceptInv, IsRead
  <1>5. CASE HandleHeader
    <2>1. ready' = Tail(ready) /\ ready # <<>>
      BY <1>5 DEF HandleHeader, Executes
    <2>2. /\ ready[1] = Head(ready) /\ Head(ready) \in Handler /\ 1 \in 1 .. Len(ready)
          /\ \A i \in 1 .. Len(ready') : i + 1 \in 1 .. Len(ready) /\ ready'[i] = ready[i + 1]
          /\ \A i \in 1 .. Len(ready) : i # 1 =>
                i - 1 \in 1 .. Len(ready') /\ ready'[i - 1] = ready[i]
      BY <2>1, HeadLeaves
    <2> DEFINE c == Head(ready).conn
    <2>3. IsRead(Head(ready)) /\ c \in sessions /\ c \in Connections /\ visit.conn # c
      BY <1>5, <2>1, ReadsLeft DEF HandleHeader, Executes, IsRead
    <2>4. /\ sessions' = sessions /\ visit' = visit
          /\ reading'[c] = "data" /\ \A d \in Connections : d # c => reading'[d] = reading[d]
      BY <1>5, <2>3 DEF HandleHeader, server, subscription, TypeOK
    <2>5. /\ \A i \in 1 .. Len(ready') : IsRead(ready'[i]) =>
               /\ ready'[i].conn \in sessions /\ ready'[i].conn \in Connections
               /\ reading[ready'[i].conn] = "none" /\ visit.conn # ready'[i].conn
                     /\ ready'[i].conn # c
               /\ \A j \in 1 .. Len(ready') : IsRead(ready'[j])
                     /\ ready'[j].conn = ready'[i].conn => j = i
          /\ \A d \in sessions :
               \/ reading[d] # "none" \/ visit.conn = d \/ d = c
               \/ \E i \in 1 .. Len(ready') : IsRead(ready'[i]) /\ ready'[i].conn = d
      BY <2>1, <2>3, ReadsLeft
    <2>6. /\ sessions \subseteq Connections
          /\ \A d \in Connections : reading[d] # "none" => d \in sessions /\ visit.conn # d
          /\ visit.conn # Nobody => visit.conn \in sessions
      BY DEF TypeOK, ReadsInv
    <2> HIDE DEF c
    <2>7. QED
      BY <2>3, <2>4, <2>5, <2>6, LogServerAssumption DEF ReadsInv
  <1>6. CASE HandleData
    <2>1. ready' = Tail(ready) /\ ready # <<>>
      BY <1>6 DEF HandleData, Executes
    <2>2. /\ ready[1] = Head(ready) /\ Head(ready) \in Handler /\ 1 \in 1 .. Len(ready)
          /\ \A i \in 1 .. Len(ready') : i + 1 \in 1 .. Len(ready) /\ ready'[i] = ready[i + 1]
          /\ \A i \in 1 .. Len(ready) : i # 1 =>
                i - 1 \in 1 .. Len(ready') /\ ready'[i - 1] = ready[i]
      BY <2>1, HeadLeaves
    <2> DEFINE c == Head(ready).conn
    <2>3. IsRead(Head(ready)) /\ c \in sessions /\ c \in Connections /\ reading[c] = "none"
      BY <1>6, <2>1, ReadsLeft DEF HandleData, Executes, IsRead
    <2>4. UNCHANGED <<sessions, reading>> /\ visit.conn = Nobody /\ visit'.conn = c /\ c # Nobody
      BY <1>6, <2>3, LogServerAssumption DEF HandleData, Executes, server
    <2>5. /\ \A i \in 1 .. Len(ready') : IsRead(ready'[i]) =>
               /\ ready'[i].conn \in sessions /\ ready'[i].conn \in Connections
               /\ reading[ready'[i].conn] = "none" /\ visit.conn # ready'[i].conn
                     /\ ready'[i].conn # c
               /\ \A j \in 1 .. Len(ready') : IsRead(ready'[j])
                     /\ ready'[j].conn = ready'[i].conn => j = i
          /\ \A d \in sessions :
               \/ reading[d] # "none" \/ visit.conn = d \/ d = c
               \/ \E i \in 1 .. Len(ready') : IsRead(ready'[i]) /\ ready'[i].conn = d
      BY <2>1, <2>3, ReadsLeft
    <2>6. /\ sessions \subseteq Connections
          /\ \A d \in Connections : reading[d] # "none" => d \in sessions /\ visit.conn # d
          /\ visit.conn # Nobody => visit.conn \in sessions
      BY DEF TypeOK, ReadsInv
    <2> HIDE DEF c
    <2>7. QED
      BY <2>3, <2>4, <2>5, <2>6, LogServerAssumption DEF ReadsInv
  <1>7. CASE EndNotify
    <2> DEFINE c == visit.conn
    <2>1. c \in sessions /\ c \in Connections /\ sessions \subseteq Connections
      BY <1>7 DEF EndNotify, ReadsInv, TypeOK
    <2>2. /\ UNCHANGED <<sessions, ready>> /\ visit'.conn = Nobody
          /\ reading'[c] = "header" /\ \A d \in Connections : d # c => reading'[d] = reading[d]
      BY <1>7, <2>1 DEF EndNotify, NoVisit, server, TypeOK
    <2>3. \A i \in 1 .. Len(ready) : IsRead(ready[i]) =>
          ready[i].conn \in sessions /\ ready[i].conn # c
      BY DEF ReadsInv
    <2>4. QED
      BY <2>1, <2>2, <2>3, LogServerAssumption DEF ReadsInv
  <1>8. CASE HandleReadError
    <2>1. ready' = Tail(ready) /\ ready # <<>>
      BY <1>8 DEF HandleReadError, Executes
    <2>2. /\ ready[1] = Head(ready) /\ Head(ready) \in Handler /\ 1 \in 1 .. Len(ready)
          /\ \A i \in 1 .. Len(ready') : i + 1 \in 1 .. Len(ready) /\ ready'[i] = ready[i + 1]
          /\ \A i \in 1 .. Len(ready) : i # 1 =>
                i - 1 \in 1 .. Len(ready') /\ ready'[i - 1] = ready[i]
      BY <2>1, HeadLeaves
    <2>3. QED
      BY <1>8, <2>1, <2>2, ReadsLeft, LogServerAssumption
      DEF ReadsInv, TypeOK, HandleReadError, Executes, subscription, environment, history,
          AcceptInv, IsRead
  <1>9. CASE HandleStop
    <2>1. ready' = Tail(ready) /\ ready # <<>>
      BY <1>9 DEF HandleStop, Executes
    <2>2. /\ ready[1] = Head(ready) /\ Head(ready) \in Handler /\ 1 \in 1 .. Len(ready)
          /\ \A i \in 1 .. Len(ready') : i + 1 \in 1 .. Len(ready) /\ ready'[i] = ready[i + 1]
          /\ \A i \in 1 .. Len(ready) : i # 1 =>
                i - 1 \in 1 .. Len(ready') /\ ready'[i - 1] = ready[i]
      BY <2>1, HeadLeaves
    <2>3. QED
      BY <1>9, <2>1, <2>2, ReadsLeft, LogServerAssumption
      DEF ReadsInv, TypeOK, HandleStop, Executes, subscription, environment, history, AcceptInv,
          IsRead
  <1>10. ASSUME NEW s \in Subscribers, Notify(s)
       PROVE  ReadsInv'
    BY <1>10, LogServerAssumption
    DEF ReadsInv, IsRead, TypeOK, Notify, server, operations, environment, ThreadsInv
  <1>11. ASSUME NEW s \in Subscribers, NotifyPartial(s)
       PROVE  ReadsInv'
    BY <1>11, LogServerAssumption
    DEF ReadsInv, IsRead, TypeOK, NotifyPartial, server, subscription, operations, environment
  <1>12. CASE DoAccept
    BY <1>12, LogServerAssumption
    DEF ReadsInv, IsRead, TypeOK, DoAccept, subscription, environment, history
  <1>13. CASE PostStop
    <2>1. /\ \A i \in 1 .. Len(ready') :
               \/ i \in 1 .. Len(ready) /\ ready'[i] = ready[i]
               \/ i = Len(ready) + 1 /\ ready'[i] = Stop
          /\ \A i \in 1 .. Len(ready) : i \in 1 .. Len(ready') /\ ready'[i] = ready[i]
          /\ Len(ready) + 1 \in 1 .. Len(ready') /\ ready'[Len(ready) + 1] = Stop
          /\ Len(ready) + 1 \notin 1 .. Len(ready)
      BY <1>13, HandlersTyped, HandlerAdded DEF PostStop
    <2>2. QED
      BY <1>13, <2>1, LogServerAssumption
      DEF ReadsInv, IsRead, TypeOK, Done, Failed, Stop, PostStop, subscription, environment,
          history
  <1>14. CASE Join
    <2>1. ready' = <<>> /\ sessions' = {} /\ visit' = visit /\ visit.conn = Nobody
          /\ \A c \in Connections : reading'[c] = "none"
      BY <1>14 DEF Join, subscription, ThreadsInv
    <2>2. Len(ready') = 0
      BY <2>1
    <2>3. QED
      BY <2>1, <2>2, LogServerAssumption DEF ReadsInv
  <1>15. CASE BeginDestroy
    BY <1>15, LogServerAssumption
    DEF ReadsInv, IsRead, TypeOK, BeginDestroy, operations, environment, history
  <1>16. ASSUME NEW s \in Subscribers, Subscribe(s)
       PROVE  ReadsInv'
    <2>1. UNCHANGED <<sessions, ready, reading>>
      BY <1>16 DEF Subscribe, server, operations
    <2>2. visit'.conn = visit.conn
      BY <1>16 DEF Subscribe, TypeOK
    <2>3. QED
      BY <2>1, <2>2 DEF ReadsInv
  <1>17. ASSUME NEW s \in Subscribers, Construct(s)
       PROVE  ReadsInv'
    BY <1>17, LogServerAssumption
    DEF ReadsInv, IsRead, TypeOK, Construct, server, operations, environment, history
  <1>18. ASSUME NEW s \in Subscribers, Destruct(s)
       PROVE  ReadsInv'
    BY <1>18, LogServerAssumption
    DEF ReadsInv, IsRead, TypeOK, Destruct, Races, server, operations, environment
  <1>19. ASSUME NEW s \in Subscribers, Unsubscribe(s)
       PROVE  ReadsInv'
    BY <1>19, LogServerAssumption
    DEF ReadsInv, IsRead, TypeOK, Unsubscribe, Races, server, operations, environment
  <1>20. ASSUME NEW s \in Subscribers, Orphan(s)
       PROVE  ReadsInv'
    <2>1. UNCHANGED <<sessions, ready, reading, visit>>
      BY <1>20 DEF Orphan, server, operations
    <2>2. QED
      BY <2>1 DEF ReadsInv
  <1>21. ASSUME NEW c \in Connections, Connect(c)
       PROVE  ReadsInv'
    BY <1>21, LogServerAssumption
    DEF ReadsInv, IsRead, TypeOK, Connect, server, subscription, operations, history
  <1>22. ASSUME NEW c \in Connections, SendPart(c)
       PROVE  ReadsInv'
    <2>1. UNCHANGED <<sessions, ready, reading, visit>>
      BY <1>22 DEF SendPart, server, subscription, operations
    <2>2. QED
      BY <2>1 DEF ReadsInv
  <1>23. ASSUME NEW c \in Connections, Disconnect(c)
       PROVE  ReadsInv'
    <2>1. UNCHANGED <<sessions, ready, reading, visit>>
      BY <1>23 DEF Disconnect, server, subscription, operations
    <2>2. QED
      BY <2>1 DEF ReadsInv
  <1>24. ASSUME NEW c \in Connections, ReadCompletes(c)
       PROVE  ReadsInv'
    <2>1. /\ \A i \in 1 .. Len(ready') :
               \/ i \in 1 .. Len(ready) /\ ready'[i] = ready[i]
               \/ i = Len(ready) + 1 /\ ready'[i] = Done(reading[c], c, Head(stream[c]).msg)
          /\ \A i \in 1 .. Len(ready) : i \in 1 .. Len(ready') /\ ready'[i] = ready[i]
          /\ Len(ready) + 1 \in 1 .. Len(ready')
                /\ ready'[Len(ready) + 1] = Done(reading[c], c, Head(stream[c]).msg)
          /\ Len(ready) + 1 \notin 1 .. Len(ready)
      BY <1>24, ReadAdds, HandlerAdded DEF ReadCompletes
    <2>2. QED
      BY <1>24, <2>1, LogServerAssumption
      DEF ReadsInv, IsRead, TypeOK, Done, Failed, Stop, ReadCompletes, server, subscription,
          history
  <1>25. ASSUME NEW c \in Connections, ReadFails(c)
       PROVE  ReadsInv'
    <2>1. /\ \A i \in 1 .. Len(ready') :
               \/ i \in 1 .. Len(ready) /\ ready'[i] = ready[i]
               \/ i = Len(ready) + 1 /\ ready'[i] = Failed(reading[c], c)
          /\ \A i \in 1 .. Len(ready) : i \in 1 .. Len(ready') /\ ready'[i] = ready[i]
          /\ Len(ready) + 1 \in 1 .. Len(ready') /\ ready'[Len(ready) + 1] = Failed(reading[c], c)
          /\ Len(ready) + 1 \notin 1 .. Len(ready)
      BY <1>25, FailureAdds, HandlerAdded DEF ReadFails
    <2>2. QED
      BY <1>25, <2>1, LogServerAssumption, SMTT(30)
      DEF ReadsInv, IsRead, TypeOK, Done, Failed, Stop, ReadFails, server, subscription,
          environment, history
  <1>26. CASE AcceptCompletes
    <2>1. /\ \A i \in 1 .. Len(ready') :
               \/ i \in 1 .. Len(ready) /\ ready'[i] = ready[i]
               \/ i = Len(ready) + 1 /\ ready'[i] = Done("accept", Head(backlog), 0)
          /\ \A i \in 1 .. Len(ready) : i \in 1 .. Len(ready') /\ ready'[i] = ready[i]
          /\ Len(ready) + 1 \in 1 .. Len(ready')
                /\ ready'[Len(ready) + 1] = Done("accept", Head(backlog), 0)
          /\ Len(ready) + 1 \notin 1 .. Len(ready)
      BY <1>26, AcceptAdds, HandlerAdded DEF AcceptCompletes
    <2>2. QED
      BY <1>26, <2>1, LogServerAssumption
      DEF ReadsInv, IsRead, TypeOK, Done, Failed, Stop, AcceptCompletes, server, subscription,
          history
  <1>27. CASE AcceptFails
    <2>1. /\ \A i \in 1 .. Len(ready') :
               \/ i \in 1 .. Len(ready) /\ ready'[i] = ready[i]
               \/ i = Len(ready) + 1 /\ ready'[i] = Failed("accept", Nobody)
          /\ \A i \in 1 .. Len(ready) : i \in 1 .. Len(ready') /\ ready'[i] = ready[i]
          /\ Len(ready) + 1 \in 1 .. Len(ready')
                /\ ready'[Len(ready) + 1] = Failed("accept", Nobody)
          /\ Len(ready) + 1 \notin 1 .. Len(ready)
      BY <1>27, HandlersTyped, HandlerAdded DEF AcceptFails
    <2>2. QED
      BY <1>27, <2>1, LogServerAssumption
      DEF ReadsInv, IsRead, TypeOK, Done, Failed, Stop, AcceptFails, server, subscription, history
  <1>28. CASE UNCHANGED vars
    <2>1. UNCHANGED <<sessions, ready, reading, visit>>
      BY <1>28 DEF vars, server, subscription, operations
    <2>2. QED
      BY <2>1 DEF ReadsInv
  <1>29. QED
    BY <1>1, <1>2, <1>3, <1>4, <1>5, <1>6, <1>7, <1>8, <1>9, <1>10, <1>11, <1>12, <1>13, <1>14,
       <1>15, <1>16, <1>17, <1>18, <1>19, <1>20, <1>21, <1>22, <1>23, <1>24, <1>25, <1>26, <1>27,
       <1>28
    DEF Next, IoThread, User, UserStep, Client, Reading

\* A client sends one part more.
LEMMA SendDoes ==
    ASSUME TypeOK, NEW c \in Connections, SendPart(c)
    PROVE  /\ parts[c] \in Nat /\ parts'[c] = parts[c] + 1
           /\ stream'[c] = Append(stream[c], PartNumber(parts[c] + 1))
           /\ Len(stream[c]) \in Nat /\ Len(stream'[c]) = Len(stream[c]) + 1
           /\ \A i \in 1 .. Len(stream[c]) : stream'[c][i] = stream[c][i]
           /\ stream'[c][Len(stream[c]) + 1] = PartNumber(parts[c] + 1)
           /\ \A d \in Connections : d # c => stream'[d] = stream[d] /\ parts'[d] = parts[d]
           /\ Position(c)' = Position(c)
  <1>1. parts[c] \in Nat /\ parts'[c] = parts[c] + 1 /\ parts[c] < MaxParts
    BY DEF TypeOK, SendPart
  <1>2. parts[c] = (parts[c] + 1) - 1
    BY <1>1
  <1>3. stream' = [stream EXCEPT ![c] = Append(stream[c], PartNumber(parts[c] + 1))]
    BY <1>2 DEF SendPart, PartNumber
  <1>4. PartNumber(parts[c] + 1) \in Part
    BY <1>1, LogServerAssumption DEF Part, PartNumber
  <1>5. stream \in [Connections -> Seq(Part)] /\ stream[c] \in Seq(Part)
    BY DEF TypeOK
  <1> DEFINE new == PartNumber(parts[c] + 1)
             long == Append(stream[c], new)
  <1> HIDE DEF Part, new
  <1>6. /\ long \in Seq(Part) /\ Len(long) = Len(stream[c]) + 1 /\ Len(stream[c]) \in Nat
        /\ \A i \in 1 .. Len(stream[c]) : long[i] = stream[c][i]
        /\ long[Len(stream[c]) + 1] = new
    BY <1>4, <1>5, AppendProperties, LenProperties DEF new
  <1>7. stream'[c] = long /\ \A d \in Connections : d # c =>
        stream'[d] = stream[d] /\ parts'[d] = parts[d]
    BY <1>3, <1>5 DEF SendPart, TypeOK, new
  <1> HIDE DEF long
  <1>8. Position(c)' = Position(c)
    <2>1. Len(stream'[c]) = Len(stream[c]) + 1
      BY <1>6, <1>7
    <2>2. parts'[c] - Len(stream'[c]) = parts[c] - Len(stream[c])
      BY <1>1, <1>6, <2>1
    <2>3. QED
      BY <2>2 DEF Position
  <1>9. QED
    BY <1>1, <1>6, <1>7, <1>8 DEF new, long

\* A connection from which nothing was read stays so until it is accepted.
LEMMA UntouchedStays ==
    ASSUME TypeOK, ThreadsInv, ReadsInv, [Next]_vars
    PROVE  \A x \in Connections : Untouched(x) /\ x \notin sessions' => Untouched(x)'
  <1>1. CASE IoThreadStarts
    BY <1>1
    DEF Untouched, Position, IoThreadStarts, subscription, operations, environment, history
  <1>2. CASE IoThreadExits
    BY <1>2 DEF Untouched, Position, IoThreadExits, subscription, operations, environment, history
  <1>3. CASE HandleAccepted
    BY <1>3
    DEF Untouched, Position, HandleAccepted, Executes, StartSession, subscription, environment,
        history
  <1>4. CASE HandleAcceptError
    BY <1>4
    DEF Untouched, Position, HandleAcceptError, Executes, server, subscription, environment,
        history
  <1>5. CASE HandleHeader
    BY <1>5
    DEF Untouched, Position, HandleHeader, Executes, server, subscription, environment, history
  <1>6. CASE HandleData
    BY <1>6 DEF Untouched, Position, HandleData, Executes, server, environment, history
  <1>7. CASE EndNotify
    BY <1>7 DEF Untouched, Position, EndNotify, NoVisit, server, environment, history
  <1>8. CASE HandleReadError
    BY <1>8 DEF Untouched, Position, HandleReadError, Executes, subscription, environment, history
  <1>9. CASE HandleStop
    BY <1>9 DEF Untouched, Position, HandleStop, Executes, subscription, environment, history
  <1>10. ASSUME NEW s \in Subscribers, Notify(s)
       PROVE  \A x \in Connections : Untouched(x) /\ x \notin sessions' => Untouched(x)'
    <2>1. UNCHANGED <<tcp, parts, stream>> /\ visit.conn \in sessions
      BY <1>10, NotifyDoes, LogServerAssumption DEF Notify, environment, ReadsInv
    <2>2. \A x \in Subscribers : x # s => got'[x] = got[x]
      BY <1>10, NotifyDoes
    <2>3. \A i \in 1 .. Len(got'[s]) : got'[s][i].conn = visit.conn
          \/ (i \in 1 .. Len(got[s]) /\ got'[s][i] = got[s][i])
      BY <1>10, NotifyDoes
    <2>4. QED
      BY <2>1, <2>2, <2>3 DEF Untouched, Position
  <1>11. ASSUME NEW s \in Subscribers, NotifyPartial(s)
       PROVE  \A x \in Connections : Untouched(x) /\ x \notin sessions' => Untouched(x)'
    BY <1>11 DEF Untouched, Position, NotifyPartial, server, subscription, operations, environment
  <1>12. CASE DoAccept
    BY <1>12 DEF Untouched, Position, DoAccept, subscription, environment, history
  <1>13. CASE PostStop
    BY <1>13 DEF Untouched, Position, PostStop, subscription, environment, history
  <1>14. CASE Join
    BY <1>14 DEF Untouched, Position, Join, subscription, environment, history
  <1>15. CASE BeginDestroy
    BY <1>15 DEF Untouched, Position, BeginDestroy, operations, environment, history
  <1>16. ASSUME NEW s \in Subscribers, Subscribe(s)
       PROVE  \A x \in Connections : Untouched(x) /\ x \notin sessions' => Untouched(x)'
    BY <1>16 DEF Untouched, Position, Subscribe, Races, server, operations, environment
  <1>17. ASSUME NEW s \in Subscribers, Construct(s)
       PROVE  \A x \in Connections : Untouched(x) /\ x \notin sessions' => Untouched(x)'
    BY <1>17 DEF Untouched, Position, Construct, server, operations, environment, history
  <1>18. ASSUME NEW s \in Subscribers, Destruct(s)
       PROVE  \A x \in Connections : Untouched(x) /\ x \notin sessions' => Untouched(x)'
    BY <1>18 DEF Untouched, Position, Destruct, Races, server, operations, environment
  <1>19. ASSUME NEW s \in Subscribers, Unsubscribe(s)
       PROVE  \A x \in Connections : Untouched(x) /\ x \notin sessions' => Untouched(x)'
    BY <1>19 DEF Untouched, Position, Unsubscribe, Races, server, operations, environment
  <1>20. ASSUME NEW s \in Subscribers, Orphan(s)
       PROVE  \A x \in Connections : Untouched(x) /\ x \notin sessions' => Untouched(x)'
    BY <1>20 DEF Untouched, Position, Orphan, server, operations, environment
  <1>21. ASSUME NEW c \in Connections, Connect(c)
       PROVE  \A x \in Connections : Untouched(x) /\ x \notin sessions' => Untouched(x)'
    BY <1>21 DEF Untouched, Position, Connect, server, subscription, operations, history
  <1>22. ASSUME NEW c \in Connections, SendPart(c)
       PROVE  \A x \in Connections : Untouched(x) /\ x \notin sessions' => Untouched(x)'
    <2>1. UNCHANGED <<got, tcp>> /\ Position(c)' = Position(c)
          /\ \A d \in Connections : d # c => stream'[d] = stream[d] /\ parts'[d] = parts[d]
      BY <1>22, SendDoes DEF SendPart, history
    <2>2. \A d \in Connections : Position(d)' = Position(d)
      BY <2>1 DEF Position
    <2>3. QED
      BY <2>1, <2>2 DEF Untouched
  <1>23. ASSUME NEW c \in Connections, Disconnect(c)
       PROVE  \A x \in Connections : Untouched(x) /\ x \notin sessions' => Untouched(x)'
    <2>1. /\ UNCHANGED <<got, parts>>
          /\ \A d \in Connections : tcp'[d] # "reset" =>
                tcp[d] # "reset" /\ stream'[d] = stream[d]
      BY <1>23 DEF Disconnect, TypeOK, history
    <2>2. QED
      BY <2>1 DEF Untouched, Position
  <1>24. ASSUME NEW c \in Connections, ReadCompletes(c)
       PROVE  \A x \in Connections : Untouched(x) /\ x \notin sessions' => Untouched(x)'
    <2>1. UNCHANGED <<got, tcp, parts>> /\ \A d \in Connections : d # c => stream'[d] = stream[d]
      BY <1>24, ReadAdds DEF ReadCompletes, history
    <2>2. c \in sessions
      BY <1>24 DEF ReadCompletes, ReadsInv
    <2>3. QED
      BY <2>1, <2>2 DEF Untouched, Position
  <1>25. ASSUME NEW c \in Connections, ReadFails(c)
       PROVE  \A x \in Connections : Untouched(x) /\ x \notin sessions' => Untouched(x)'
    BY <1>25 DEF Untouched, Position, ReadFails, server, subscription, environment, history
  <1>26. CASE AcceptCompletes
    BY <1>26 DEF Untouched, Position, AcceptCompletes, server, subscription, history
  <1>27. CASE AcceptFails
    BY <1>27 DEF Untouched, Position, AcceptFails, server, subscription, history
  <1>28. CASE UNCHANGED vars
    BY <1>28 DEF Untouched, Position, vars
  <1>29. QED
    BY <1>1, <1>2, <1>3, <1>4, <1>5, <1>6, <1>7, <1>8, <1>9, <1>10, <1>11, <1>12, <1>13, <1>14,
       <1>15, <1>16, <1>17, <1>18, <1>19, <1>20, <1>21, <1>22, <1>23, <1>24, <1>25, <1>26, <1>27,
       <1>28
    DEF Next, IoThread, User, UserStep, Client, Reading

\* The accept handlers that are left when the first handler leaves the queue.
LEMMA AcceptsLeft ==
    ASSUME TypeOK, AcceptInv, ready # <<>>, ready' = Tail(ready)
    PROVE  \A i \in 1 .. Len(ready') : ready'[i].op = "accept" =>
              /\ Head(ready).op # "accept"
              /\ ~accepting
              /\ \A j \in 1 .. Len(ready') : ready'[j].op = "accept" => j = i
              /\ ready'[i].ok => /\ ready'[i].conn \in Connections /\ tcp[ready'[i].conn] # "none"
                                 /\ \A k \in 1 .. Len(backlog) : backlog[k] # ready'[i].conn
  <1> SUFFICES ASSUME NEW i \in 1 .. Len(ready'), ready'[i].op = "accept"
               PROVE  /\ Head(ready).op # "accept"
                      /\ ~accepting
                      /\ \A j \in 1 .. Len(ready') : ready'[j].op = "accept" => j = i
                      /\ ready'[i].ok => /\ ready'[i].conn \in Connections
                                               /\ tcp[ready'[i].conn] # "none"
                                         /\ \A k \in 1 .. Len(backlog) : backlog[k] # ready'[i].conn
    OBVIOUS
  <1>1. /\ ready[1] = Head(ready) /\ 1 \in 1 .. Len(ready)
        /\ \A j \in 1 .. Len(ready') : j + 1 \in 1 .. Len(ready) /\ ready'[j] = ready[j + 1]
    BY HeadLeaves
  <1>2. i + 1 \in 1 .. Len(ready) /\ ready'[i] = ready[i + 1] /\ i + 1 # 1
    BY <1>1
  <1>3. /\ ~accepting
        /\ \A j \in 1 .. Len(ready) : ready[j].op = "accept" => j = i + 1
        /\ ready'[i].ok => /\ ready'[i].conn \in Connections /\ tcp[ready'[i].conn] # "none"
                           /\ \A k \in 1 .. Len(backlog) : backlog[k] # ready'[i].conn
    BY <1>2 DEF AcceptInv
  <1>4. ASSUME NEW j \in 1 .. Len(ready'), ready'[j].op = "accept"
        PROVE  j = i
    <2>1. j + 1 = i + 1
      BY <1>1, <1>3, <1>4
    <2>2. QED
      BY <2>1
  <1>5. QED
    BY <1>1, <1>2, <1>3, <1>4

LEMMA AcceptStep ==
    ASSUME TypeOK, ThreadsInv, ReadsInv, AcceptInv, [Next]_vars
    PROVE  AcceptInv'
  <1>0. \A i \in 1 .. Len(backlog) : backlog[i] \in Connections
    BY DEF TypeOK
  <1>1. CASE IoThreadStarts
    BY <1>1, <1>0 DEF AcceptInv, IoThreadStarts, subscription, operations, environment, history
  <1>2. CASE IoThreadExits
    BY <1>2, <1>0 DEF AcceptInv, IoThreadExits, subscription, operations, environment, history
  <1>3. CASE HandleAccepted
    <2>1. ready' = Tail(ready) /\ ready # <<>>
      BY <1>3 DEF HandleAccepted, Executes
    <2>2. /\ ready[1] = Head(ready) /\ Head(ready) \in Handler /\ 1 \in 1 .. Len(ready)
          /\ \A i \in 1 .. Len(ready') : i + 1 \in 1 .. Len(ready) /\ ready'[i] = ready[i + 1]
          /\ \A i \in 1 .. Len(ready) : i # 1 =>
                i - 1 \in 1 .. Len(ready') /\ ready'[i - 1] = ready[i]
      BY <2>1, HeadLeaves
    <2> DEFINE c == Head(ready).conn
    <2>3. /\ Head(ready).op = "accept" /\ c \in Connections /\ tcp[c] # "none"
          /\ \A k \in 1 .. Len(backlog) : backlog[k] # c
      BY <1>3, <2>2 DEF HandleAccepted, Executes, AcceptInv
    <2>4. UNCHANGED <<backlog, tcp>> /\ sessions' = sessions \union {c}
      BY <1>3 DEF HandleAccepted, StartSession, environment
    <2>5. \A i \in 1 .. Len(ready') : ready'[i].op # "accept"
      BY <2>1, <2>3, AcceptsLeft
    <2> HIDE DEF c
    <2>6. QED
      BY <1>0, <2>3, <2>4, <2>5 DEF AcceptInv
  <1>4. CASE HandleAcceptError
    <2>1. ready' = Tail(ready) /\ ready # <<>>
      BY <1>4 DEF HandleAcceptError, Executes
    <2>2. /\ ready[1] = Head(ready) /\ Head(ready) \in Handler /\ 1 \in 1 .. Len(ready)
          /\ \A i \in 1 .. Len(ready') : i + 1 \in 1 .. Len(ready) /\ ready'[i] = ready[i + 1]
          /\ \A i \in 1 .. Len(ready) : i # 1 =>
                i - 1 \in 1 .. Len(ready') /\ ready'[i - 1] = ready[i]
      BY <2>1, HeadLeaves
    <2>3. UNCHANGED <<accepting, backlog, tcp>> /\ sessions' \subseteq sessions
      BY <1>4 DEF HandleAcceptError, Executes, server, subscription, environment, history
    <2>4. QED
      BY <1>0, <2>1, <2>3, AcceptsLeft DEF AcceptInv
  <1>5. CASE HandleHeader
    <2>1. ready' = Tail(ready) /\ ready # <<>>
      BY <1>5 DEF HandleHeader, Executes
    <2>2. /\ ready[1] = Head(ready) /\ Head(ready) \in Handler /\ 1 \in 1 .. Len(ready)
          /\ \A i \in 1 .. Len(ready') : i + 1 \in 1 .. Len(ready) /\ ready'[i] = ready[i + 1]
          /\ \A i \in 1 .. Len(ready) : i # 1 =>
                i - 1 \in 1 .. Len(ready') /\ ready'[i - 1] = ready[i]
      BY <2>1, HeadLeaves
    <2>3. UNCHANGED <<accepting, backlog, tcp>> /\ sessions' \subseteq sessions
      BY <1>5 DEF HandleHeader, Executes, server, subscription, environment, history
    <2>4. QED
      BY <1>0, <2>1, <2>3, AcceptsLeft DEF AcceptInv
  <1>6. CASE HandleData
    <2>1. ready' = Tail(ready) /\ ready # <<>>
      BY <1>6 DEF HandleData, Executes
    <2>2. /\ ready[1] = Head(ready) /\ Head(ready) \in Handler /\ 1 \in 1 .. Len(ready)
          /\ \A i \in 1 .. Len(ready') : i + 1 \in 1 .. Len(ready) /\ ready'[i] = ready[i + 1]
          /\ \A i \in 1 .. Len(ready) : i # 1 =>
                i - 1 \in 1 .. Len(ready') /\ ready'[i - 1] = ready[i]
      BY <2>1, HeadLeaves
    <2>3. UNCHANGED <<accepting, backlog, tcp>> /\ sessions' \subseteq sessions
      BY <1>6 DEF HandleData, Executes, server, environment, history
    <2>4. QED
      BY <1>0, <2>1, <2>3, AcceptsLeft DEF AcceptInv
  <1>7. CASE EndNotify
    BY <1>7, <1>0 DEF AcceptInv, EndNotify, NoVisit, server, environment, history
  <1>8. CASE HandleReadError
    <2>1. ready' = Tail(ready) /\ ready # <<>>
      BY <1>8 DEF HandleReadError, Executes
    <2>2. /\ ready[1] = Head(ready) /\ Head(ready) \in Handler /\ 1 \in 1 .. Len(ready)
          /\ \A i \in 1 .. Len(ready') : i + 1 \in 1 .. Len(ready) /\ ready'[i] = ready[i + 1]
          /\ \A i \in 1 .. Len(ready) : i # 1 =>
                i - 1 \in 1 .. Len(ready') /\ ready'[i - 1] = ready[i]
      BY <2>1, HeadLeaves
    <2>3. UNCHANGED <<accepting, backlog, tcp>> /\ sessions' \subseteq sessions
      BY <1>8 DEF HandleReadError, Executes, subscription, environment, history
    <2>4. QED
      BY <1>0, <2>1, <2>3, AcceptsLeft DEF AcceptInv
  <1>9. CASE HandleStop
    <2>1. ready' = Tail(ready) /\ ready # <<>>
      BY <1>9 DEF HandleStop, Executes
    <2>2. /\ ready[1] = Head(ready) /\ Head(ready) \in Handler /\ 1 \in 1 .. Len(ready)
          /\ \A i \in 1 .. Len(ready') : i + 1 \in 1 .. Len(ready) /\ ready'[i] = ready[i + 1]
          /\ \A i \in 1 .. Len(ready) : i # 1 =>
                i - 1 \in 1 .. Len(ready') /\ ready'[i - 1] = ready[i]
      BY <2>1, HeadLeaves
    <2>3. UNCHANGED <<accepting, backlog, tcp>> /\ sessions' \subseteq sessions
      BY <1>9 DEF HandleStop, Executes, subscription, environment, history
    <2>4. QED
      BY <1>0, <2>1, <2>3, AcceptsLeft DEF AcceptInv
  <1>10. ASSUME NEW s \in Subscribers, Notify(s)
       PROVE  AcceptInv'
    BY <1>10, <1>0 DEF AcceptInv, Notify, server, operations, environment
  <1>11. ASSUME NEW s \in Subscribers, NotifyPartial(s)
       PROVE  AcceptInv'
    BY <1>11, <1>0 DEF AcceptInv, NotifyPartial, server, subscription, operations, environment
  <1>12. CASE DoAccept
    <2>1. Len(ready) = 0 /\ UNCHANGED <<ready, backlog, tcp, sessions>>
      BY <1>12 DEF DoAccept, ThreadsInv, environment
    <2>2. QED
      BY <1>0, <2>1 DEF AcceptInv
  <1>13. CASE PostStop
    <2>1. /\ \A i \in 1 .. Len(ready') :
               \/ i \in 1 .. Len(ready) /\ ready'[i] = ready[i]
               \/ i = Len(ready) + 1 /\ ready'[i] = Stop
          /\ \A i \in 1 .. Len(ready) : i \in 1 .. Len(ready') /\ ready'[i] = ready[i]
          /\ Len(ready) + 1 \in 1 .. Len(ready') /\ ready'[Len(ready) + 1] = Stop
          /\ Len(ready) + 1 \notin 1 .. Len(ready)
      BY <1>13, HandlersTyped, HandlerAdded DEF PostStop
    <2>2. Stop.op # "accept"
      BY <1>13 DEF PostStop, Done, Failed, Stop, TypeOK
    <2>3. UNCHANGED <<accepting, backlog, tcp, sessions>>
      BY <1>13 DEF PostStop, subscription, environment, history
    <2>4. QED
      BY <1>0, <2>1, <2>2, <2>3 DEF AcceptInv
  <1>14. CASE Join
    <2>1. ready' = <<>> /\ sessions' = {} /\ UNCHANGED <<backlog, tcp>>
      BY <1>14 DEF Join, environment
    <2>2. Len(ready') = 0
      BY <2>1
    <2>3. QED
      BY <1>0, <2>1, <2>2 DEF AcceptInv
  <1>15. CASE BeginDestroy
    BY <1>15, <1>0 DEF AcceptInv, BeginDestroy, operations, environment, history
  <1>16. ASSUME NEW s \in Subscribers, Subscribe(s)
       PROVE  AcceptInv'
    BY <1>16, <1>0 DEF AcceptInv, Subscribe, Races, server, operations, environment
  <1>17. ASSUME NEW s \in Subscribers, Construct(s)
       PROVE  AcceptInv'
    BY <1>17, <1>0 DEF AcceptInv, Construct, server, operations, environment, history
  <1>18. ASSUME NEW s \in Subscribers, Destruct(s)
       PROVE  AcceptInv'
    BY <1>18, <1>0 DEF AcceptInv, Destruct, Races, server, operations, environment
  <1>19. ASSUME NEW s \in Subscribers, Unsubscribe(s)
       PROVE  AcceptInv'
    BY <1>19, <1>0 DEF AcceptInv, Unsubscribe, Races, server, operations, environment
  <1>20. ASSUME NEW s \in Subscribers, Orphan(s)
       PROVE  AcceptInv'
    BY <1>20, <1>0 DEF AcceptInv, Orphan, server, operations, environment
  <1>21. ASSUME NEW c \in Connections, Connect(c)
       PROVE  AcceptInv'
    <2>1. /\ UNCHANGED <<ready, accepting, sessions>> /\ tcp[c] = "none"
          /\ tcp'[c] = "open" /\ \A d \in Connections : d # c => tcp'[d] = tcp[d]
      BY <1>21 DEF Connect, server, operations, TypeOK
    <2>2. /\ Len(backlog) \in Nat /\ Len(backlog') = Len(backlog) + 1
          /\ \A i \in 1 .. Len(backlog) : backlog'[i] = backlog[i]
          /\ backlog'[Len(backlog) + 1] = c
      BY <1>21, AppendProperties, LenProperties DEF Connect, TypeOK
    <2>3. \A i \in 1 .. Len(backlog) : backlog[i] # c
      BY <2>1 DEF AcceptInv
    <2>4. \A i \in 1 .. Len(ready) : ready[i].op = "accept" /\ ready[i].ok => ready[i].conn # c
      BY <2>1 DEF AcceptInv
    <2>5. \A i \in 1 .. Len(backlog') : i \in 1 .. Len(backlog) \/ i = Len(backlog) + 1
      BY <2>2
    <2>6. QED
      BY <1>0, <2>1, <2>2, <2>3, <2>4, <2>5 DEF AcceptInv
  <1>22. ASSUME NEW c \in Connections, SendPart(c)
       PROVE  AcceptInv'
    BY <1>22, <1>0 DEF AcceptInv, SendPart, server, subscription, operations, history
  <1>23. ASSUME NEW c \in Connections, Disconnect(c)
       PROVE  AcceptInv'
    <2>1. UNCHANGED <<ready, accepting, backlog, sessions>> /\ \A d \in Connections : tcp'[d] = "none" <=> tcp[d] = "none"
      BY <1>23 DEF Disconnect, server, operations, TypeOK
    <2>2. QED
      BY <1>0, <2>1 DEF AcceptInv
  <1>24. ASSUME NEW c \in Connections, ReadCompletes(c)
       PROVE  AcceptInv'
    <2>1. /\ \A i \in 1 .. Len(ready') :
               \/ i \in 1 .. Len(ready) /\ ready'[i] = ready[i]
               \/ i = Len(ready) + 1 /\ ready'[i] = Done(reading[c], c, Head(stream[c]).msg)
          /\ \A i \in 1 .. Len(ready) : i \in 1 .. Len(ready') /\ ready'[i] = ready[i]
          /\ Len(ready) + 1 \in 1 .. Len(ready')
                /\ ready'[Len(ready) + 1] = Done(reading[c], c, Head(stream[c]).msg)
          /\ Len(ready) + 1 \notin 1 .. Len(ready)
      BY <1>24, ReadAdds, HandlerAdded DEF ReadCompletes
    <2>2. Done(reading[c], c, Head(stream[c]).msg).op # "accept"
      BY <1>24 DEF ReadCompletes, Done, Failed, Stop, TypeOK
    <2>3. UNCHANGED <<accepting, backlog, tcp, sessions>>
      BY <1>24 DEF ReadCompletes, server, subscription, history
    <2>4. QED
      BY <1>0, <2>1, <2>2, <2>3 DEF AcceptInv
  <1>25. ASSUME NEW c \in Connections, ReadFails(c)
       PROVE  AcceptInv'
    <2>1. /\ \A i \in 1 .. Len(ready') :
               \/ i \in 1 .. Len(ready) /\ ready'[i] = ready[i]
               \/ i = Len(ready) + 1 /\ ready'[i] = Failed(reading[c], c)
          /\ \A i \in 1 .. Len(ready) : i \in 1 .. Len(ready') /\ ready'[i] = ready[i]
          /\ Len(ready) + 1 \in 1 .. Len(ready') /\ ready'[Len(ready) + 1] = Failed(reading[c], c)
          /\ Len(ready) + 1 \notin 1 .. Len(ready)
      BY <1>25, FailureAdds, HandlerAdded DEF ReadFails
    <2>2. Failed(reading[c], c).op # "accept"
      BY <1>25 DEF ReadFails, Done, Failed, Stop, TypeOK
    <2>3. UNCHANGED <<accepting, backlog, tcp, sessions>>
      BY <1>25 DEF ReadFails, server, subscription, environment, history
    <2>4. QED
      BY <1>0, <2>1, <2>2, <2>3 DEF AcceptInv
  <1>26. CASE AcceptCompletes
    <2>1. /\ \A i \in 1 .. Len(ready') :
               \/ i \in 1 .. Len(ready) /\ ready'[i] = ready[i]
               \/ i = Len(ready) + 1 /\ ready'[i] = Done("accept", Head(backlog), 0)
          /\ \A i \in 1 .. Len(ready) : i \in 1 .. Len(ready') /\ ready'[i] = ready[i]
          /\ Len(ready) + 1 \in 1 .. Len(ready')
                /\ ready'[Len(ready) + 1] = Done("accept", Head(backlog), 0)
          /\ Len(ready) + 1 \notin 1 .. Len(ready)
      BY <1>26, AcceptAdds, HandlerAdded DEF AcceptCompletes
    <2> DEFINE c == Head(backlog)
    <2>2. /\ Done("accept", c, 0).conn = c /\ c = backlog[1] /\ 1 \in 1 .. Len(backlog)
          /\ \A i \in 1 .. Len(backlog') : i + 1 \in 1 .. Len(backlog)
                /\ backlog'[i] = backlog[i + 1]
      BY <1>26, AcceptAdds DEF Done
    <2>3. UNCHANGED <<tcp, sessions>> /\ accepting /\ ~accepting'
      BY <1>26 DEF AcceptCompletes, server
    <2>4. \A i \in 1 .. Len(ready) : ready[i].op # "accept"
      BY <2>3 DEF AcceptInv
    <2>5. c \in Connections /\ tcp[c] # "none"
      BY <1>0, <2>2 DEF AcceptInv
    <2>6. ASSUME NEW k \in 1 .. Len(backlog')
          PROVE  /\ backlog'[k] # c /\ backlog'[k] \in Connections
                 /\ tcp[backlog'[k]] # "none"
                 /\ \A j \in 1 .. Len(backlog') : backlog'[j] = backlog'[k] => j = k
      <3>1. k + 1 \in 1 .. Len(backlog) /\ backlog'[k] = backlog[k + 1] /\ k + 1 # 1
        BY <2>2
      <3>2. /\ tcp[backlog[k + 1]] # "none"
            /\ \A j \in 1 .. Len(backlog) : backlog[j] = backlog[k + 1] => j = k + 1
        BY <3>1 DEF AcceptInv
      <3>3. ASSUME NEW j \in 1 .. Len(backlog'), backlog'[j] = backlog'[k]
            PROVE  j = k
        <4>1. j + 1 = k + 1
          BY <2>2, <3>1, <3>2, <3>3
        <4>2. QED
          BY <4>1
      <3>4. QED
        BY <1>0, <2>2, <3>1, <3>2, <3>3
    <2> HIDE DEF c
    <2>7. \A i \in 1 .. Len(ready') : ready'[i].op = "accept" =>
          i = Len(ready) + 1 /\ ready'[i].conn = c
      BY <2>1, <2>2, <2>4 DEF c
    <2>8. QED
      BY <1>0, <2>3, <2>5, <2>6, <2>7 DEF AcceptInv
  <1>27. CASE AcceptFails
    <2>1. /\ \A i \in 1 .. Len(ready') :
               \/ i \in 1 .. Len(ready) /\ ready'[i] = ready[i]
               \/ i = Len(ready) + 1 /\ ready'[i] = Failed("accept", Nobody)
          /\ \A i \in 1 .. Len(ready) : i \in 1 .. Len(ready') /\ ready'[i] = ready[i]
          /\ Len(ready) + 1 \in 1 .. Len(ready')
                /\ ready'[Len(ready) + 1] = Failed("accept", Nobody)
          /\ Len(ready) + 1 \notin 1 .. Len(ready)
      BY <1>27, HandlersTyped, HandlerAdded DEF AcceptFails
    <2>2. ~Failed("accept", Nobody).ok
      BY DEF Failed
    <2>3. UNCHANGED <<backlog, tcp, sessions>> /\ accepting /\ ~accepting'
      BY <1>27 DEF AcceptFails, server
    <2>4. \A i \in 1 .. Len(ready) : ready[i].op # "accept"
      BY <2>3 DEF AcceptInv
    <2>5. QED
      BY <1>0, <2>1, <2>2, <2>3, <2>4 DEF AcceptInv
  <1>28. CASE UNCHANGED vars
    BY <1>28, <1>0 DEF AcceptInv, vars
  <1>29. QED
    BY <1>1, <1>2, <1>3, <1>4, <1>5, <1>6, <1>7, <1>8, <1>9, <1>10, <1>11, <1>12, <1>13, <1>14,
       <1>15, <1>16, <1>17, <1>18, <1>19, <1>20, <1>21, <1>22, <1>23, <1>24, <1>25, <1>26, <1>27,
       <1>28
    DEF Next, IoThread, User, UserStep, Client, Reading

\* A connection waits no more once it was accepted.
LEMMA AcceptedOnce ==
    ASSUME TypeOK, AcceptInv, WaitingInv, [Next]_vars
    PROVE  \A x \in Connections : Waiting(x)' => Waiting(x) /\ x \notin sessions'
  <1>0. \A x \in Connections : Waiting(x) => x \notin sessions
    BY DEF WaitingInv, Untouched
  <1>1. CASE IoThreadStarts
    BY <1>1, <1>0
    DEF Waiting, Accepts, IoThreadStarts, subscription, operations, environment, history
  <1>2. CASE IoThreadExits
    BY <1>2, <1>0
    DEF Waiting, Accepts, IoThreadExits, subscription, operations, environment, history
  <1>3. CASE HandleAccepted
    <2>1. ready' = Tail(ready) /\ ready # <<>>
      BY <1>3 DEF HandleAccepted, Executes
    <2>2. /\ ready[1] = Head(ready) /\ Head(ready) \in Handler /\ 1 \in 1 .. Len(ready)
          /\ \A i \in 1 .. Len(ready') : i + 1 \in 1 .. Len(ready) /\ ready'[i] = ready[i + 1]
          /\ \A i \in 1 .. Len(ready) : i # 1 =>
                i - 1 \in 1 .. Len(ready') /\ ready'[i - 1] = ready[i]
      BY <2>1, HeadLeaves
    <2> DEFINE c == Head(ready).conn
    <2>3. /\ Head(ready).op = "accept" /\ tcp[c] # "none"
          /\ \A k \in 1 .. Len(backlog) : backlog[k] # c
      BY <1>3, <2>2 DEF HandleAccepted, Executes, AcceptInv
    <2>4. UNCHANGED <<backlog, tcp>> /\ sessions' = sessions \union {c}
      BY <1>3 DEF HandleAccepted, StartSession, environment
    <2>5. \A i \in 1 .. Len(ready') : ready'[i].op # "accept"
      BY <2>1, <2>3, AcceptsLeft
    <2> HIDE DEF c
    <2>6. QED
      BY <1>0, <2>2, <2>3, <2>4, <2>5 DEF Waiting, Accepts
  <1>4. CASE HandleAcceptError
    <2>1. ready' = Tail(ready) /\ ready # <<>>
      BY <1>4 DEF HandleAcceptError, Executes
    <2>2. /\ ready[1] = Head(ready) /\ Head(ready) \in Handler /\ 1 \in 1 .. Len(ready)
          /\ \A i \in 1 .. Len(ready') : i + 1 \in 1 .. Len(ready) /\ ready'[i] = ready[i + 1]
          /\ \A i \in 1 .. Len(ready) : i # 1 =>
                i - 1 \in 1 .. Len(ready') /\ ready'[i - 1] = ready[i]
      BY <2>1, HeadLeaves
    <2>3. UNCHANGED <<backlog, tcp>> /\ sessions' \subseteq sessions
      BY <1>4 DEF HandleAcceptError, Executes, server, subscription, environment, history
    <2>4. QED
      BY <1>0, <2>2, <2>3 DEF Waiting
  <1>5. CASE HandleHeader
    <2>1. ready' = Tail(ready) /\ ready # <<>>
      BY <1>5 DEF HandleHeader, Executes
    <2>2. /\ ready[1] = Head(ready) /\ Head(ready) \in Handler /\ 1 \in 1 .. Len(ready)
          /\ \A i \in 1 .. Len(ready') : i + 1 \in 1 .. Len(ready) /\ ready'[i] = ready[i + 1]
          /\ \A i \in 1 .. Len(ready) : i # 1 =>
                i - 1 \in 1 .. Len(ready') /\ ready'[i - 1] = ready[i]
      BY <2>1, HeadLeaves
    <2>3. UNCHANGED <<backlog, tcp>> /\ sessions' \subseteq sessions
      BY <1>5 DEF HandleHeader, Executes, server, subscription, environment, history
    <2>4. QED
      BY <1>0, <2>2, <2>3 DEF Waiting
  <1>6. CASE HandleData
    <2>1. ready' = Tail(ready) /\ ready # <<>>
      BY <1>6 DEF HandleData, Executes
    <2>2. /\ ready[1] = Head(ready) /\ Head(ready) \in Handler /\ 1 \in 1 .. Len(ready)
          /\ \A i \in 1 .. Len(ready') : i + 1 \in 1 .. Len(ready) /\ ready'[i] = ready[i + 1]
          /\ \A i \in 1 .. Len(ready) : i # 1 =>
                i - 1 \in 1 .. Len(ready') /\ ready'[i - 1] = ready[i]
      BY <2>1, HeadLeaves
    <2>3. UNCHANGED <<backlog, tcp>> /\ sessions' \subseteq sessions
      BY <1>6 DEF HandleData, Executes, server, environment, history
    <2>4. QED
      BY <1>0, <2>2, <2>3 DEF Waiting
  <1>7. CASE EndNotify
    BY <1>7, <1>0 DEF Waiting, Accepts, EndNotify, NoVisit, server, environment, history
  <1>8. CASE HandleReadError
    <2>1. ready' = Tail(ready) /\ ready # <<>>
      BY <1>8 DEF HandleReadError, Executes
    <2>2. /\ ready[1] = Head(ready) /\ Head(ready) \in Handler /\ 1 \in 1 .. Len(ready)
          /\ \A i \in 1 .. Len(ready') : i + 1 \in 1 .. Len(ready) /\ ready'[i] = ready[i + 1]
          /\ \A i \in 1 .. Len(ready) : i # 1 =>
                i - 1 \in 1 .. Len(ready') /\ ready'[i - 1] = ready[i]
      BY <2>1, HeadLeaves
    <2>3. UNCHANGED <<backlog, tcp>> /\ sessions' \subseteq sessions
      BY <1>8 DEF HandleReadError, Executes, subscription, environment, history
    <2>4. QED
      BY <1>0, <2>2, <2>3 DEF Waiting
  <1>9. CASE HandleStop
    <2>1. ready' = Tail(ready) /\ ready # <<>>
      BY <1>9 DEF HandleStop, Executes
    <2>2. /\ ready[1] = Head(ready) /\ Head(ready) \in Handler /\ 1 \in 1 .. Len(ready)
          /\ \A i \in 1 .. Len(ready') : i + 1 \in 1 .. Len(ready) /\ ready'[i] = ready[i + 1]
          /\ \A i \in 1 .. Len(ready) : i # 1 =>
                i - 1 \in 1 .. Len(ready') /\ ready'[i - 1] = ready[i]
      BY <2>1, HeadLeaves
    <2>3. UNCHANGED <<backlog, tcp>> /\ sessions' \subseteq sessions
      BY <1>9 DEF HandleStop, Executes, subscription, environment, history
    <2>4. QED
      BY <1>0, <2>2, <2>3 DEF Waiting
  <1>10. ASSUME NEW s \in Subscribers, Notify(s)
       PROVE  \A x \in Connections : Waiting(x)' => Waiting(x) /\ x \notin sessions'
    BY <1>10, <1>0 DEF Waiting, Accepts, Notify, server, operations, environment
  <1>11. ASSUME NEW s \in Subscribers, NotifyPartial(s)
       PROVE  \A x \in Connections : Waiting(x)' => Waiting(x) /\ x \notin sessions'
    BY <1>11, <1>0
    DEF Waiting, Accepts, NotifyPartial, server, subscription, operations, environment
  <1>12. CASE DoAccept
    BY <1>12, <1>0 DEF Waiting, Accepts, DoAccept, subscription, environment, history
  <1>13. CASE PostStop
    <2>1. /\ \A i \in 1 .. Len(ready') :
               \/ i \in 1 .. Len(ready) /\ ready'[i] = ready[i]
               \/ i = Len(ready) + 1 /\ ready'[i] = Stop
          /\ \A i \in 1 .. Len(ready) : i \in 1 .. Len(ready') /\ ready'[i] = ready[i]
          /\ Len(ready) + 1 \in 1 .. Len(ready') /\ ready'[Len(ready) + 1] = Stop
          /\ Len(ready) + 1 \notin 1 .. Len(ready)
      BY <1>13, HandlersTyped, HandlerAdded DEF PostStop
    <2>2. ~Accepts(Stop)
      BY <1>13 DEF PostStop, Done, Failed, Stop, TypeOK, Accepts
    <2>3. UNCHANGED <<backlog, tcp, sessions>>
      BY <1>13 DEF PostStop, subscription, environment, history
    <2>4. QED
      BY <1>0, <2>1, <2>2, <2>3 DEF Waiting
  <1>14. CASE Join
    <2>1. ready' = <<>> /\ sessions' = {} /\ UNCHANGED <<backlog, tcp>>
      BY <1>14 DEF Join, environment
    <2>2. Len(ready') = 0
      BY <2>1
    <2>3. QED
      BY <2>1, <2>2 DEF Waiting
  <1>15. CASE BeginDestroy
    BY <1>15, <1>0 DEF Waiting, Accepts, BeginDestroy, operations, environment, history
  <1>16. ASSUME NEW s \in Subscribers, Subscribe(s)
       PROVE  \A x \in Connections : Waiting(x)' => Waiting(x) /\ x \notin sessions'
    BY <1>16, <1>0 DEF Waiting, Accepts, Subscribe, Races, server, operations, environment
  <1>17. ASSUME NEW s \in Subscribers, Construct(s)
       PROVE  \A x \in Connections : Waiting(x)' => Waiting(x) /\ x \notin sessions'
    BY <1>17, <1>0 DEF Waiting, Accepts, Construct, server, operations, environment, history
  <1>18. ASSUME NEW s \in Subscribers, Destruct(s)
       PROVE  \A x \in Connections : Waiting(x)' => Waiting(x) /\ x \notin sessions'
    BY <1>18, <1>0 DEF Waiting, Accepts, Destruct, Races, server, operations, environment
  <1>19. ASSUME NEW s \in Subscribers, Unsubscribe(s)
       PROVE  \A x \in Connections : Waiting(x)' => Waiting(x) /\ x \notin sessions'
    BY <1>19, <1>0 DEF Waiting, Accepts, Unsubscribe, Races, server, operations, environment
  <1>20. ASSUME NEW s \in Subscribers, Orphan(s)
       PROVE  \A x \in Connections : Waiting(x)' => Waiting(x) /\ x \notin sessions'
    BY <1>20, <1>0 DEF Waiting, Accepts, Orphan, server, operations, environment
  <1>21. ASSUME NEW c \in Connections, Connect(c)
       PROVE  \A x \in Connections : Waiting(x)' => Waiting(x) /\ x \notin sessions'
    <2>1. /\ UNCHANGED <<ready, sessions>> /\ tcp[c] = "none"
          /\ \A d \in Connections : d # c => tcp'[d] = tcp[d]
      BY <1>21 DEF Connect, server, operations, TypeOK
    <2>2. /\ Len(backlog) \in Nat /\ Len(backlog') = Len(backlog) + 1
          /\ \A i \in 1 .. Len(backlog) : backlog'[i] = backlog[i]
          /\ backlog'[Len(backlog) + 1] = c
      BY <1>21, AppendProperties, LenProperties DEF Connect, TypeOK
    <2>3. \A i \in 1 .. Len(backlog') : i \in 1 .. Len(backlog) \/ i = Len(backlog) + 1
      BY <2>2
    <2>4. QED
      BY <1>0, <2>1, <2>2, <2>3 DEF Waiting
  <1>22. ASSUME NEW c \in Connections, SendPart(c)
       PROVE  \A x \in Connections : Waiting(x)' => Waiting(x) /\ x \notin sessions'
    <2>1. UNCHANGED <<ready, backlog, sessions, tcp>>
      BY <1>22 DEF SendPart, server, operations
    <2>2. QED
      BY <1>0, <2>1 DEF Waiting
  <1>23. ASSUME NEW c \in Connections, Disconnect(c)
       PROVE  \A x \in Connections : Waiting(x)' => Waiting(x) /\ x \notin sessions'
    <2>1. UNCHANGED <<ready, backlog, sessions>> /\ \A d \in Connections : tcp'[d] = "none"
                                                       <=> tcp[d] = "none"
      BY <1>23 DEF Disconnect, server, operations, TypeOK
    <2>2. QED
      BY <1>0, <2>1 DEF Waiting
  <1>24. ASSUME NEW c \in Connections, ReadCompletes(c)
       PROVE  \A x \in Connections : Waiting(x)' => Waiting(x) /\ x \notin sessions'
    <2>1. /\ \A i \in 1 .. Len(ready') :
               \/ i \in 1 .. Len(ready) /\ ready'[i] = ready[i]
               \/ i = Len(ready) + 1 /\ ready'[i] = Done(reading[c], c, Head(stream[c]).msg)
          /\ \A i \in 1 .. Len(ready) : i \in 1 .. Len(ready') /\ ready'[i] = ready[i]
          /\ Len(ready) + 1 \in 1 .. Len(ready')
                /\ ready'[Len(ready) + 1] = Done(reading[c], c, Head(stream[c]).msg)
          /\ Len(ready) + 1 \notin 1 .. Len(ready)
      BY <1>24, ReadAdds, HandlerAdded DEF ReadCompletes
    <2>2. ~Accepts(Done(reading[c], c, Head(stream[c]).msg))
      BY <1>24 DEF ReadCompletes, Done, Failed, Stop, TypeOK, Accepts
    <2>3. UNCHANGED <<backlog, tcp, sessions>>
      BY <1>24 DEF ReadCompletes, server, subscription, history
    <2>4. QED
      BY <1>0, <2>1, <2>2, <2>3 DEF Waiting
  <1>25. ASSUME NEW c \in Connections, ReadFails(c)
       PROVE  \A x \in Connections : Waiting(x)' => Waiting(x) /\ x \notin sessions'
    <2>1. /\ \A i \in 1 .. Len(ready') :
               \/ i \in 1 .. Len(ready) /\ ready'[i] = ready[i]
               \/ i = Len(ready) + 1 /\ ready'[i] = Failed(reading[c], c)
          /\ \A i \in 1 .. Len(ready) : i \in 1 .. Len(ready') /\ ready'[i] = ready[i]
          /\ Len(ready) + 1 \in 1 .. Len(ready') /\ ready'[Len(ready) + 1] = Failed(reading[c], c)
          /\ Len(ready) + 1 \notin 1 .. Len(ready)
      BY <1>25, FailureAdds, HandlerAdded DEF ReadFails
    <2>2. ~Accepts(Failed(reading[c], c))
      BY <1>25 DEF ReadFails, Done, Failed, Stop, TypeOK, Accepts
    <2>3. UNCHANGED <<backlog, tcp, sessions>>
      BY <1>25 DEF ReadFails, server, subscription, environment, history
    <2>4. QED
      BY <1>0, <2>1, <2>2, <2>3 DEF Waiting
  <1>26. CASE AcceptCompletes
    <2>1. /\ \A i \in 1 .. Len(ready') :
               \/ i \in 1 .. Len(ready) /\ ready'[i] = ready[i]
               \/ i = Len(ready) + 1 /\ ready'[i] = Done("accept", Head(backlog), 0)
          /\ \A i \in 1 .. Len(ready) : i \in 1 .. Len(ready') /\ ready'[i] = ready[i]
          /\ Len(ready) + 1 \in 1 .. Len(ready')
                /\ ready'[Len(ready) + 1] = Done("accept", Head(backlog), 0)
          /\ Len(ready) + 1 \notin 1 .. Len(ready)
      BY <1>26, AcceptAdds, HandlerAdded DEF AcceptCompletes
    <2>2. /\ Done("accept", Head(backlog), 0).conn = backlog[1] /\ 1 \in 1 .. Len(backlog)
          /\ \A i \in 1 .. Len(backlog') : i + 1 \in 1 .. Len(backlog)
                /\ backlog'[i] = backlog[i + 1]
      BY <1>26, AcceptAdds DEF Done
    <2>3. UNCHANGED <<tcp, sessions>>
      BY <1>26 DEF AcceptCompletes, server
    <2>4. ASSUME NEW x \in Connections, Waiting(x)'
          PROVE  Waiting(x)
      <3>1. CASE tcp'[x] = "none"
        BY <2>3, <3>1 DEF Waiting
      <3>2. CASE \E i \in 1 .. Len(backlog') : backlog'[i] = x
        BY <2>2, <3>2 DEF Waiting
      <3>3. CASE \E i \in 1 .. Len(ready') : Accepts(ready'[i]) /\ ready'[i].conn = x
        <4>1. PICK i \in 1 .. Len(ready') : Accepts(ready'[i]) /\ ready'[i].conn = x
          BY <3>3
        <4>2. CASE i \in 1 .. Len(ready) /\ ready'[i] = ready[i]
          BY <4>1, <4>2 DEF Waiting
        <4>3. CASE ready'[i] = Done("accept", Head(backlog), 0)
          BY <2>2, <4>1, <4>3 DEF Waiting
        <4>4. QED
          BY <2>1, <4>1, <4>2, <4>3
      <3>4. QED
        BY <2>4, <3>1, <3>2, <3>3 DEF Waiting, Accepts
    <2>5. QED
      BY <1>0, <2>3, <2>4
  <1>27. CASE AcceptFails
    <2>1. /\ \A i \in 1 .. Len(ready') :
               \/ i \in 1 .. Len(ready) /\ ready'[i] = ready[i]
               \/ i = Len(ready) + 1 /\ ready'[i] = Failed("accept", Nobody)
          /\ \A i \in 1 .. Len(ready) : i \in 1 .. Len(ready') /\ ready'[i] = ready[i]
          /\ Len(ready) + 1 \in 1 .. Len(ready')
                /\ ready'[Len(ready) + 1] = Failed("accept", Nobody)
          /\ Len(ready) + 1 \notin 1 .. Len(ready)
      BY <1>27, HandlersTyped, HandlerAdded DEF AcceptFails
    <2>2. ~Accepts(Failed("accept", Nobody))
      BY <1>27 DEF AcceptFails, Done, Failed, Stop, TypeOK, Accepts
    <2>3. UNCHANGED <<backlog, tcp, sessions>>
      BY <1>27 DEF AcceptFails, server, subscription, history
    <2>4. QED
      BY <1>0, <2>1, <2>2, <2>3 DEF Waiting
  <1>28. CASE UNCHANGED vars
    BY <1>28, <1>0 DEF Waiting, Accepts, vars
  <1>29. QED
    BY <1>1, <1>2, <1>3, <1>4, <1>5, <1>6, <1>7, <1>8, <1>9, <1>10, <1>11, <1>12, <1>13, <1>14,
       <1>15, <1>16, <1>17, <1>18, <1>19, <1>20, <1>21, <1>22, <1>23, <1>24, <1>25, <1>26, <1>27,
       <1>28
    DEF Next, IoThread, User, UserStep, Client, Reading

LEMMA WaitingStep ==
    ASSUME TypeOK, ThreadsInv, ReadsInv, AcceptInv, WaitingInv, [Next]_vars
    PROVE  WaitingInv'
  <1>1. ASSUME NEW x \in Connections, Waiting(x)'
        PROVE  Untouched(x)'
    <2>1. Waiting(x) /\ x \notin sessions'
      BY <1>1, AcceptedOnce
    <2>2. Untouched(x)
      BY <2>1 DEF WaitingInv
    <2>3. QED
      BY <2>1, <2>2, UntouchedStays
  <1>2. QED
    BY <1>1 DEF WaitingInv

\* The part at the head of what was not read leaves it.
LEMMA ReadDoes ==
    ASSUME TypeOK, StreamInv, NEW c \in Connections, ReadCompletes(c)
    PROVE  /\ tcp[c] # "reset" /\ UNCHANGED <<tcp, parts>>
           /\ Position(c) \in Nat /\ Position(c)' = Position(c) + 1 /\ Position(c) + 1 <= parts[c]
           /\ Head(stream[c]) = PartNumber(Position(c) + 1)
           /\ \A d \in Connections : d # c => stream'[d] = stream[d] /\ Position(d)' = Position(d)
  <1>1. /\ Head(stream[c]) = stream[c][1] /\ 1 \in 1 .. Len(stream[c])
        /\ Len(stream'[c]) = Len(stream[c]) - 1 /\ Len(stream[c]) \in Nat
        /\ \A d \in Connections : d # c => stream'[d] = stream[d]
    BY ReadAdds
  <1>2. parts[c] \in Nat /\ UNCHANGED <<tcp, parts>>
    BY DEF TypeOK, ReadCompletes
  <1>3. tcp[c] # "reset"
    BY DEF StreamInv, ReadCompletes
  <1>4. Position(c) >= 0 /\ stream[c][1] = PartNumber(Position(c) + 1)
    BY <1>1, <1>3 DEF StreamInv
  <1>5. Position(c) \in Nat /\ Position(c)' = Position(c) + 1 /\ Position(c) + 1 <= parts[c]
    BY <1>1, <1>2, <1>4 DEF Position
  <1>6. \A d \in Connections : d # c => Position(d)' = Position(d)
    BY <1>1, <1>2 DEF Position
  <1>7. QED
    BY <1>1, <1>2, <1>3, <1>4, <1>5, <1>6


LEMMA StreamStep ==
    ASSUME TypeOK, StreamInv, [Next]_vars
    PROVE  StreamInv'
  <1>1. CASE IoThreadStarts
    BY <1>1
    DEF StreamInv, Position, IoThreadStarts, subscription, operations, environment, history
  <1>2. CASE IoThreadExits
    BY <1>2 DEF StreamInv, Position, IoThreadExits, subscription, operations, environment, history
  <1>3. CASE HandleAccepted
    BY <1>3
    DEF StreamInv, Position, HandleAccepted, Executes, StartSession, subscription, environment,
        history
  <1>4. CASE HandleAcceptError
    BY <1>4
    DEF StreamInv, Position, HandleAcceptError, Executes, server, subscription, environment,
        history
  <1>5. CASE HandleHeader
    BY <1>5
    DEF StreamInv, Position, HandleHeader, Executes, server, subscription, environment, history
  <1>6. CASE HandleData
    BY <1>6 DEF StreamInv, Position, HandleData, Executes, server, environment, history
  <1>7. CASE EndNotify
    BY <1>7 DEF StreamInv, Position, EndNotify, NoVisit, server, environment, history
  <1>8. CASE HandleReadError
    BY <1>8 DEF StreamInv, Position, HandleReadError, Executes, subscription, environment, history
  <1>9. CASE HandleStop
    BY <1>9 DEF StreamInv, Position, HandleStop, Executes, subscription, environment, history
  <1>10. ASSUME NEW s \in Subscribers, Notify(s)
       PROVE  StreamInv'
    BY <1>10 DEF StreamInv, Position, Notify, server, operations, environment
  <1>11. ASSUME NEW s \in Subscribers, NotifyPartial(s)
       PROVE  StreamInv'
    BY <1>11 DEF StreamInv, Position, NotifyPartial, server, subscription, operations, environment
  <1>12. CASE DoAccept
    BY <1>12 DEF StreamInv, Position, DoAccept, subscription, environment, history
  <1>13. CASE PostStop
    BY <1>13 DEF StreamInv, Position, PostStop, subscription, environment, history
  <1>14. CASE Join
    BY <1>14 DEF StreamInv, Position, Join, subscription, environment, history
  <1>15. CASE BeginDestroy
    BY <1>15 DEF StreamInv, Position, BeginDestroy, operations, environment, history
  <1>16. ASSUME NEW s \in Subscribers, Subscribe(s)
       PROVE  StreamInv'
    BY <1>16 DEF StreamInv, Position, Subscribe, Races, server, operations, environment
  <1>17. ASSUME NEW s \in Subscribers, Construct(s)
       PROVE  StreamInv'
    BY <1>17 DEF StreamInv, Position, Construct, server, operations, environment, history
  <1>18. ASSUME NEW s \in Subscribers, Destruct(s)
       PROVE  StreamInv'
    BY <1>18 DEF StreamInv, Position, Destruct, Races, server, operations, environment
  <1>19. ASSUME NEW s \in Subscribers, Unsubscribe(s)
       PROVE  StreamInv'
    BY <1>19 DEF StreamInv, Position, Unsubscribe, Races, server, operations, environment
  <1>20. ASSUME NEW s \in Subscribers, Orphan(s)
       PROVE  StreamInv'
    BY <1>20 DEF StreamInv, Position, Orphan, server, operations, environment
  <1>21. ASSUME NEW c \in Connections, Connect(c)
       PROVE  StreamInv'
    <2>1. UNCHANGED <<stream, parts>> /\ \A d \in Connections : tcp'[d] = "reset"
                                            <=> tcp[d] = "reset"
      BY <1>21 DEF Connect, TypeOK
    <2>2. QED
      BY <2>1 DEF StreamInv, Position
  <1>22. ASSUME NEW c \in Connections, SendPart(c)
       PROVE  StreamInv'
    <2>1. UNCHANGED tcp /\ tcp[c] # "reset"
      BY <1>22 DEF SendPart
    <2>2. ASSUME NEW d \in Connections, d # c
          PROVE  stream'[d] = stream[d] /\ Position(d)' = Position(d)
      BY <1>22, <2>2, SendDoes DEF Position
    <2>3. /\ parts[c] \in Nat /\ Len(stream[c]) \in Nat /\ Len(stream'[c]) = Len(stream[c]) + 1
          /\ \A i \in 1 .. Len(stream[c]) : stream'[c][i] = stream[c][i]
          /\ stream'[c][Len(stream[c]) + 1] = PartNumber(parts[c] + 1)
          /\ Position(c)' = Position(c)
      BY <1>22, SendDoes
    <2>4. Position(c) >= 0
          /\ \A i \in 1 .. Len(stream[c]) : stream[c][i] = PartNumber(Position(c) + i)
      BY <2>1 DEF StreamInv
    <2>5. Position(c) + (Len(stream[c]) + 1) = parts[c] + 1
      BY <2>3 DEF Position
    <2>6. \A i \in 1 .. Len(stream'[c]) : i \in 1 .. Len(stream[c]) \/ i = Len(stream[c]) + 1
      BY <2>3
    <2>7. \A i \in 1 .. Len(stream'[c]) : stream'[c][i] = PartNumber(Position(c) + i)
      BY <2>3, <2>4, <2>5, <2>6
    <2>8. Position(c)' >= 0
          /\ \A i \in 1 .. Len(stream'[c]) : stream'[c][i] = PartNumber(Position(c)' + i)
      BY <2>3, <2>4, <2>7
    <2>9. ASSUME NEW d \in Connections, d # c, tcp'[d] # "reset"
          PROVE  Position(d)' >= 0
                /\ \A i \in 1 .. Len(stream'[d]) : stream'[d][i] = PartNumber(Position(d)' + i)
      BY <2>1, <2>2, <2>9 DEF StreamInv
    <2>10. QED
      BY <2>1, <2>2, <2>8, <2>9 DEF StreamInv
  <1>23. ASSUME NEW c \in Connections, Disconnect(c)
       PROVE  StreamInv'
    <2>1. UNCHANGED parts
      BY <1>23 DEF Disconnect
    <2>2. ASSUME NEW d \in Connections
          PROVE  \/ tcp'[d] = "reset" /\ stream'[d] = <<>>
                 \/ tcp'[d] # "reset" /\ tcp[d] # "reset" /\ stream'[d] = stream[d]
      BY <1>23 DEF Disconnect, TypeOK, StreamInv
    <2>3. QED
      BY <2>1, <2>2 DEF StreamInv, Position
  <1>24. ASSUME NEW c \in Connections, ReadCompletes(c)
       PROVE  StreamInv'
    <2>1. /\ tcp[c] # "reset" /\ UNCHANGED tcp
          /\ Position(c) \in Nat /\ Position(c)' = Position(c) + 1
          /\ \A d \in Connections : d # c => stream'[d] = stream[d] /\ Position(d)' = Position(d)
      BY <1>24, ReadDoes
    <2>2. ASSUME NEW i \in 1 .. Len(stream'[c])
          PROVE  stream'[c][i] = PartNumber(Position(c)' + i)
      <3>1. i + 1 \in 1 .. Len(stream[c]) /\ stream'[c][i] = stream[c][i + 1]
        BY <1>24, ReadAdds
      <3>2. stream[c][i + 1] = PartNumber(Position(c) + (i + 1))
        BY <2>1, <3>1 DEF StreamInv
      <3>3. Position(c) + (i + 1) = Position(c)' + i
        BY <2>1
      <3>4. QED
        BY <3>1, <3>2, <3>3
    <2>3. QED
      BY <2>1, <2>2 DEF StreamInv
  <1>25. ASSUME NEW c \in Connections, ReadFails(c)
       PROVE  StreamInv'
    BY <1>25 DEF StreamInv, Position, ReadFails, server, subscription, environment, history
  <1>26. CASE AcceptCompletes
    BY <1>26 DEF StreamInv, Position, AcceptCompletes, server, subscription, history
  <1>27. CASE AcceptFails
    BY <1>27 DEF StreamInv, Position, AcceptFails, server, subscription, history
  <1>28. CASE UNCHANGED vars
    BY <1>28 DEF StreamInv, Position, vars
  <1>29. QED
    BY <1>1, <1>2, <1>3, <1>4, <1>5, <1>6, <1>7, <1>8, <1>9, <1>10, <1>11, <1>12, <1>13, <1>14,
       <1>15, <1>16, <1>17, <1>18, <1>19, <1>20, <1>21, <1>22, <1>23, <1>24, <1>25, <1>26, <1>27,
       <1>28
    DEF Next, IoThread, User, UserStep, Client, Reading

\* Headers and data take turns.
LEMMA PartsAlternate ==
    ASSUME NEW n \in Nat
    PROVE  /\ n % 2 = 0 => (n + 1) % 2 = 1
           /\ n % 2 = 1 => /\ (n + 1) % 2 = 0 /\ n + 1 = 2 * PartNumber(n + 1).msg
           /\ PartNumber(n + 1).msg = n \div 2 + 1 /\ PartNumber(n + 1).msg > 0
  <1>1. (n + 1) - 1 = n
    OBVIOUS
  <1>2. PartNumber(n + 1).msg = n \div 2 + 1
    BY <1>1 DEF PartNumber
  <1>3. n \div 2 \in Nat /\ n % 2 \in 0 .. 1
    OBVIOUS
  <1>4. n = 2 * (n \div 2) + (n % 2)
    OBVIOUS
  <1>5. QED
    BY <1>2, <1>3, <1>4


LEMMA FrameStep ==
    ASSUME TypeOK, ReadsInv, AcceptInv, WaitingInv, StreamInv, FrameInv, [Next]_vars
    PROVE  FrameInv'
  <1>0. \A d \in Connections : parts[d] \in Nat /\ Len(stream[d]) \in Nat /\ Position(d) \in Int
    BY DEF TypeOK, Position
  <1>1. CASE IoThreadStarts
    BY <1>1
    DEF FrameInv, FrameOf, ReadUpTo, Position, IoThreadStarts, subscription, operations,
        environment, history
  <1>2. CASE IoThreadExits
    BY <1>2
    DEF FrameInv, FrameOf, ReadUpTo, Position, IoThreadExits, subscription, operations,
        environment, history
  <1>3. CASE HandleAccepted
    <2>1. ready' = Tail(ready) /\ ready # <<>>
      BY <1>3 DEF HandleAccepted, Executes
    <2>2. /\ ready[1] = Head(ready) /\ Head(ready) \in Handler /\ 1 \in 1 .. Len(ready)
          /\ \A i \in 1 .. Len(ready') : i + 1 \in 1 .. Len(ready) /\ ready'[i] = ready[i + 1]
          /\ \A i \in 1 .. Len(ready) : i # 1 =>
                i - 1 \in 1 .. Len(ready') /\ ready'[i - 1] = ready[i]
      BY <2>1, HeadLeaves
    <2> DEFINE c == Head(ready).conn
    <2>3. c \in Connections /\ Accepts(ready[1]) /\ ready[1].conn = c
      BY <1>3, <2>2 DEF HandleAccepted, Executes, AcceptInv, Accepts
    <2>4. tcp[c] # "reset" => Position(c) = 0
      BY <2>2, <2>3 DEF WaitingInv, Waiting, Untouched
    <2>5. /\ UNCHANGED <<visit, tcp, stream, parts>> /\ \A d \in Connections : Position(d)' = Position(d)
          /\ reading'[c] = "header" /\ \A d \in Connections : d # c => reading'[d] = reading[d]
      BY <1>3, <2>3 DEF HandleAccepted, StartSession, subscription, environment, TypeOK, Position
    <2> HIDE DEF c
    <2>6. QED
      BY <2>2, <2>3, <2>4, <2>5 DEF FrameInv, FrameOf, ReadUpTo
  <1>4. CASE HandleAcceptError
    <2>1. ready' = Tail(ready) /\ ready # <<>>
      BY <1>4 DEF HandleAcceptError, Executes
    <2>2. /\ ready[1] = Head(ready) /\ Head(ready) \in Handler /\ 1 \in 1 .. Len(ready)
          /\ \A i \in 1 .. Len(ready') : i + 1 \in 1 .. Len(ready) /\ ready'[i] = ready[i + 1]
          /\ \A i \in 1 .. Len(ready) : i # 1 =>
                i - 1 \in 1 .. Len(ready') /\ ready'[i - 1] = ready[i]
      BY <2>1, HeadLeaves
    <2>3. UNCHANGED <<reading, visit, tcp, stream, parts>>
      BY <1>4 DEF HandleAcceptError, Executes, server, subscription, environment, history
    <2>4. QED
      BY <2>2, <2>3 DEF FrameInv, FrameOf, ReadUpTo, Position
  <1>5. CASE HandleHeader
    <2>1. ready' = Tail(ready) /\ ready # <<>>
      BY <1>5 DEF HandleHeader, Executes
    <2>2. /\ ready[1] = Head(ready) /\ Head(ready) \in Handler /\ 1 \in 1 .. Len(ready)
          /\ \A i \in 1 .. Len(ready') : i + 1 \in 1 .. Len(ready) /\ ready'[i] = ready[i + 1]
          /\ \A i \in 1 .. Len(ready) : i # 1 =>
                i - 1 \in 1 .. Len(ready') /\ ready'[i - 1] = ready[i]
      BY <2>1, HeadLeaves
    <2> DEFINE c == Head(ready).conn
    <2>3. c \in Connections
      BY <1>5, <2>1, ReadsLeft DEF HandleHeader, Executes, IsRead
    <2>4. tcp[c] # "reset" => Position(c) % 2 = 1
      BY <1>5, <2>2, <2>3 DEF HandleHeader, Executes, FrameInv, FrameOf
    <2>5. /\ UNCHANGED <<visit, tcp, stream, parts>> /\ \A d \in Connections : Position(d)' = Position(d)
          /\ reading'[c] = "data" /\ \A d \in Connections : d # c => reading'[d] = reading[d]
      BY <1>5, <2>3 DEF HandleHeader, subscription, environment, TypeOK, Position
    <2> HIDE DEF c
    <2>6. QED
      BY <2>2, <2>3, <2>4, <2>5, SMTT(30) DEF FrameInv, FrameOf, ReadUpTo
  <1>6. CASE HandleData
    <2>1. ready' = Tail(ready) /\ ready # <<>>
      BY <1>6 DEF HandleData, Executes
    <2>2. /\ ready[1] = Head(ready) /\ Head(ready) \in Handler /\ 1 \in 1 .. Len(ready)
          /\ \A i \in 1 .. Len(ready') : i + 1 \in 1 .. Len(ready) /\ ready'[i] = ready[i + 1]
          /\ \A i \in 1 .. Len(ready) : i # 1 =>
                i - 1 \in 1 .. Len(ready') /\ ready'[i - 1] = ready[i]
      BY <2>1, HeadLeaves
    <2> DEFINE c == Head(ready).conn
               m == Head(ready).msg
    <2>3. HasData(ready[1]) /\ ready[1].conn = c /\ ready[1].msg = m
      BY <1>6, <2>2 DEF HandleData, Executes, HasData
    <2>4. \A d \in Connections : c = d => ReadUpTo(d, m)
      BY <2>2, <2>3 DEF FrameInv, FrameOf
    <2>5. UNCHANGED <<reading, tcp, stream, parts>> /\ visit'.conn = c /\ visit'.msg = m
      BY <1>6 DEF HandleData, environment
    <2> HIDE DEF c, m
    <2>6. \A d \in Connections : Position(d)' = Position(d)
      BY <2>5 DEF Position
    <2>7. ASSUME NEW d \in Connections
          PROVE  FrameOf(d)'
      <3>1. visit'.conn = d => ReadUpTo(d, m)
        BY <2>4, <2>5
      <3>2. visit'.conn = d => ReadUpTo(d, visit.msg)'
        BY <2>5, <2>6, <3>1 DEF ReadUpTo
      <3>3. QED
        BY <2>2, <2>5, <2>6, <3>2 DEF FrameInv, FrameOf, ReadUpTo
    <2>8. QED
      BY <2>7 DEF FrameInv
  <1>7. CASE EndNotify
    <2> DEFINE c == visit.conn
    <2>1. c \in Connections
      BY <1>7 DEF EndNotify, TypeOK
    <2>2. /\ UNCHANGED <<ready, tcp, stream, parts>> /\ visit'.conn = Nobody
          /\ \A d \in Connections : Position(d)' = Position(d)
          /\ reading'[c] = "header" /\ \A d \in Connections : d # c => reading'[d] = reading[d]
      BY <1>7, <2>1 DEF EndNotify, NoVisit, environment, TypeOK, Position
    <2>3. visit.msg \in Nat /\ (tcp[c] # "reset" => Position(c) = 2 * visit.msg)
      BY <2>1 DEF FrameInv, FrameOf, ReadUpTo, TypeOK
    <2>4. tcp[c] # "reset" => Position(c) % 2 = 0
      BY <2>3
    <2> HIDE DEF c
    <2>5. QED
      BY <2>1, <2>2, <2>4, LogServerAssumption DEF FrameInv, FrameOf, ReadUpTo
  <1>8. CASE HandleReadError
    <2>1. ready' = Tail(ready) /\ ready # <<>>
      BY <1>8 DEF HandleReadError, Executes
    <2>2. /\ ready[1] = Head(ready) /\ Head(ready) \in Handler /\ 1 \in 1 .. Len(ready)
          /\ \A i \in 1 .. Len(ready') : i + 1 \in 1 .. Len(ready) /\ ready'[i] = ready[i + 1]
          /\ \A i \in 1 .. Len(ready) : i # 1 =>
                i - 1 \in 1 .. Len(ready') /\ ready'[i - 1] = ready[i]
      BY <2>1, HeadLeaves
    <2>3. UNCHANGED <<reading, visit, tcp, stream, parts>>
      BY <1>8 DEF HandleReadError, Executes, subscription, environment, history
    <2>4. QED
      BY <2>2, <2>3 DEF FrameInv, FrameOf, ReadUpTo, Position
  <1>9. CASE HandleStop
    <2>1. ready' = Tail(ready) /\ ready # <<>>
      BY <1>9 DEF HandleStop, Executes
    <2>2. /\ ready[1] = Head(ready) /\ Head(ready) \in Handler /\ 1 \in 1 .. Len(ready)
          /\ \A i \in 1 .. Len(ready') : i + 1 \in 1 .. Len(ready) /\ ready'[i] = ready[i + 1]
          /\ \A i \in 1 .. Len(ready) : i # 1 =>
                i - 1 \in 1 .. Len(ready') /\ ready'[i - 1] = ready[i]
      BY <2>1, HeadLeaves
    <2>3. UNCHANGED <<reading, visit, tcp, stream, parts>>
      BY <1>9 DEF HandleStop, Executes, subscription, environment, history
    <2>4. QED
      BY <2>2, <2>3 DEF FrameInv, FrameOf, ReadUpTo, Position
  <1>10. ASSUME NEW s \in Subscribers, Notify(s)
       PROVE  FrameInv'
    <2>1. UNCHANGED <<ready, reading, tcp, stream, parts>>
      BY <1>10 DEF Notify, operations, environment
    <2>2. visit'.conn = visit.conn /\ visit'.msg = visit.msg
      BY <1>10 DEF Notify, TypeOK
    <2>3. QED
      BY <2>1, <2>2 DEF FrameInv, FrameOf, ReadUpTo, Position
  <1>11. ASSUME NEW s \in Subscribers, NotifyPartial(s)
       PROVE  FrameInv'
    BY <1>11
    DEF FrameInv, FrameOf, ReadUpTo, Position, NotifyPartial, server, subscription, operations,
        environment
  <1>12. CASE DoAccept
    BY <1>12
    DEF FrameInv, FrameOf, ReadUpTo, Position, DoAccept, subscription, environment, history
  <1>13. CASE PostStop
    <2>1. /\ \A i \in 1 .. Len(ready') :
               \/ i \in 1 .. Len(ready) /\ ready'[i] = ready[i]
               \/ i = Len(ready) + 1 /\ ready'[i] = Stop
          /\ \A i \in 1 .. Len(ready) : i \in 1 .. Len(ready') /\ ready'[i] = ready[i]
          /\ Len(ready) + 1 \in 1 .. Len(ready') /\ ready'[Len(ready) + 1] = Stop
          /\ Len(ready) + 1 \notin 1 .. Len(ready)
      BY <1>13, HandlersTyped, HandlerAdded DEF PostStop
    <2>2. Stop.op = "stop"
      BY DEF Stop, Done
    <2>3. UNCHANGED <<reading, visit, tcp, stream, parts>>
      BY <1>13 DEF PostStop, subscription, environment
    <2>4. QED
      BY <2>1, <2>2, <2>3 DEF FrameInv, FrameOf, ReadUpTo, Position, HasData
  <1>14. CASE Join
    <2>1. UNCHANGED <<visit, tcp, stream, parts>> /\ ready' = <<>> /\ \A d \in Connections : reading'[d] = "none"
      BY <1>14 DEF Join, subscription, environment
    <2>2. Len(ready') = 0
      BY <2>1
    <2>3. QED
      BY <2>1, <2>2 DEF FrameInv, FrameOf, ReadUpTo, Position
  <1>15. CASE BeginDestroy
    BY <1>15
    DEF FrameInv, FrameOf, ReadUpTo, Position, BeginDestroy, operations, environment, history
  <1>16. ASSUME NEW s \in Subscribers, Subscribe(s)
       PROVE  FrameInv'
    <2>1. UNCHANGED <<ready, reading, tcp, stream, parts>>
      BY <1>16 DEF Subscribe, operations, environment
    <2>2. visit'.conn = visit.conn /\ visit'.msg = visit.msg
      BY <1>16 DEF Subscribe, TypeOK
    <2>3. QED
      BY <2>1, <2>2 DEF FrameInv, FrameOf, ReadUpTo, Position
  <1>17. ASSUME NEW s \in Subscribers, Construct(s)
       PROVE  FrameInv'
    BY <1>17
    DEF FrameInv, FrameOf, ReadUpTo, Position, Construct, server, operations, environment, history
  <1>18. ASSUME NEW s \in Subscribers, Destruct(s)
       PROVE  FrameInv'
    BY <1>18
    DEF FrameInv, FrameOf, ReadUpTo, Position, Destruct, Races, server, operations, environment
  <1>19. ASSUME NEW s \in Subscribers, Unsubscribe(s)
       PROVE  FrameInv'
    <2>1. UNCHANGED <<ready, reading, tcp, stream, parts>>
      BY <1>19 DEF Unsubscribe, operations, environment
    <2>2. visit'.conn = visit.conn /\ visit'.msg = visit.msg
      BY <1>19 DEF Unsubscribe, TypeOK
    <2>3. QED
      BY <2>1, <2>2 DEF FrameInv, FrameOf, ReadUpTo, Position
  <1>20. ASSUME NEW s \in Subscribers, Orphan(s)
       PROVE  FrameInv'
    BY <1>20 DEF FrameInv, FrameOf, ReadUpTo, Position, Orphan, server, operations, environment
  <1>21. ASSUME NEW c \in Connections, Connect(c)
       PROVE  FrameInv'
    <2>1. UNCHANGED <<ready, reading, visit, stream, parts>> /\ \A d \in Connections : tcp'[d] = "reset" <=> tcp[d] = "reset"
      BY <1>21 DEF Connect, subscription, operations, TypeOK
    <2>2. QED
      BY <2>1 DEF FrameInv, FrameOf, ReadUpTo, Position
  <1>22. ASSUME NEW c \in Connections, SendPart(c)
       PROVE  FrameInv'
    <2>1. UNCHANGED <<ready, reading, visit, tcp>>
      BY <1>22 DEF SendPart, subscription, operations
    <2>2. \A d \in Connections : Position(d)' = Position(d) /\ parts'[d] \in Nat
          /\ parts[d] <= parts'[d]
      BY <1>22, <1>0, SendDoes DEF Position
    <2>3. visit.msg \in Nat
      BY LogServerAssumption DEF TypeOK
    <2>30. \A i \in 1 .. Len(ready) : ready[i] \in Handler
      BY DEF TypeOK
    <2>31. \A i \in 1 .. Len(ready) : ready[i].msg \in Nat
      BY <2>30, LogServerAssumption DEF Handler
    <2>4. QED
      BY <1>0, <2>1, <2>2, <2>3, <2>31 DEF FrameInv, FrameOf, ReadUpTo
  <1>23. ASSUME NEW c \in Connections, Disconnect(c)
       PROVE  FrameInv'
    <2>1. /\ UNCHANGED <<ready, reading, visit, parts>>
          /\ \A d \in Connections : tcp'[d] # "reset" =>
                tcp[d] # "reset" /\ stream'[d] = stream[d]
      BY <1>23 DEF Disconnect, subscription, operations, TypeOK
    <2>2. QED
      BY <2>1 DEF FrameInv, FrameOf, ReadUpTo, Position
  <1>24. ASSUME NEW c \in Connections, ReadCompletes(c)
       PROVE  FrameInv'
    <2>1. /\ \A i \in 1 .. Len(ready') :
               \/ i \in 1 .. Len(ready) /\ ready'[i] = ready[i]
               \/ i = Len(ready) + 1 /\ ready'[i] = Done(reading[c], c, Head(stream[c]).msg)
          /\ \A i \in 1 .. Len(ready) : i \in 1 .. Len(ready') /\ ready'[i] = ready[i]
          /\ Len(ready) + 1 \in 1 .. Len(ready')
                /\ ready'[Len(ready) + 1] = Done(reading[c], c, Head(stream[c]).msg)
          /\ Len(ready) + 1 \notin 1 .. Len(ready)
      BY <1>24, ReadAdds, HandlerAdded DEF ReadCompletes
    <2> DEFINE h == Done(reading[c], c, Head(stream[c]).msg)
               n == Position(c)
    <2>2. /\ tcp[c] # "reset" /\ UNCHANGED <<tcp, parts, visit>>
          /\ n \in Nat /\ Position(c)' = n + 1 /\ n + 1 <= parts[c]
          /\ \A d \in Connections : d # c => Position(d)' = Position(d)
      BY <1>24, ReadDoes DEF ReadCompletes, subscription
    <2>3. h.op = reading[c] /\ h.conn = c /\ h.msg = PartNumber(n + 1).msg
      BY <1>24, ReadDoes DEF Done
    <2>4. /\ n % 2 = 0 => (n + 1) % 2 = 1
          /\ n % 2 = 1 => n + 1 = 2 * PartNumber(n + 1).msg
          /\ PartNumber(n + 1).msg > 0
      BY <2>2, PartsAlternate
    <2>5. /\ reading[c] = "header" => n % 2 = 0
          /\ reading[c] = "data" => n % 2 = 1
      BY <2>2 DEF FrameInv, FrameOf
    <2>6. reading'[c] = "none" /\ \A d \in Connections : d # c => reading'[d] = reading[d]
      BY <1>24 DEF ReadCompletes, TypeOK
    <2>7. visit.conn # c /\ \A i \in 1 .. Len(ready) : ready[i].conn = c => ~IsRead(ready[i])
      BY <1>24 DEF ReadCompletes, ReadsInv
    <2>8. /\ h.op = "header" => Position(c)' % 2 = 1
          /\ HasData(h) => h.msg > 0 /\ 2 * h.msg <= parts[c] /\ Position(c)' = 2 * h.msg
      <3>1. h.op = "header" => Position(c)' % 2 = 1
        BY <2>2, <2>3, <2>4, <2>5
      <3>2. ASSUME HasData(h)
            PROVE  h.msg > 0 /\ n + 1 = 2 * h.msg
        BY <2>3, <2>4, <2>5, <3>2 DEF HasData
      <3>3. QED
        BY <2>2, <3>1, <3>2
    <2> HIDE DEF h, n
    <2>9. FrameOf(c)'
      BY <2>1, <2>3, <2>6, <2>7, <2>8, <2>2 DEF FrameOf, ReadUpTo, IsRead, HasData, h
    <2>10. ASSUME NEW d \in Connections, d # c
           PROVE  FrameOf(d)'
      BY <2>1, <2>2, <2>3, <2>6, <2>10 DEF FrameInv, FrameOf, ReadUpTo, h
    <2>11. QED
      BY <2>9, <2>10 DEF FrameInv
  <1>25. ASSUME NEW c \in Connections, ReadFails(c)
       PROVE  FrameInv'
    <2>1. /\ \A i \in 1 .. Len(ready') :
               \/ i \in 1 .. Len(ready) /\ ready'[i] = ready[i]
               \/ i = Len(ready) + 1 /\ ready'[i] = Failed(reading[c], c)
          /\ \A i \in 1 .. Len(ready) : i \in 1 .. Len(ready') /\ ready'[i] = ready[i]
          /\ Len(ready) + 1 \in 1 .. Len(ready') /\ ready'[Len(ready) + 1] = Failed(reading[c], c)
          /\ Len(ready) + 1 \notin 1 .. Len(ready)
      BY <1>25, FailureAdds, HandlerAdded DEF ReadFails
    <2>2. ~Failed(reading[c], c).ok
      BY DEF Failed
    <2>3. UNCHANGED <<visit, tcp, stream, parts>> /\ \A d \in Connections : reading'[d] = reading[d] \/ reading'[d] = "none"
      BY <1>25 DEF ReadFails, subscription, environment, TypeOK
    <2>4. QED
      BY <2>1, <2>2, <2>3 DEF FrameInv, FrameOf, ReadUpTo, Position, HasData
  <1>26. CASE AcceptCompletes
    <2>1. /\ \A i \in 1 .. Len(ready') :
               \/ i \in 1 .. Len(ready) /\ ready'[i] = ready[i]
               \/ i = Len(ready) + 1 /\ ready'[i] = Done("accept", Head(backlog), 0)
          /\ \A i \in 1 .. Len(ready) : i \in 1 .. Len(ready') /\ ready'[i] = ready[i]
          /\ Len(ready) + 1 \in 1 .. Len(ready')
                /\ ready'[Len(ready) + 1] = Done("accept", Head(backlog), 0)
          /\ Len(ready) + 1 \notin 1 .. Len(ready)
      BY <1>26, AcceptAdds, HandlerAdded DEF AcceptCompletes
    <2>2. Done("accept", Head(backlog), 0).op = "accept"
      BY DEF Done, Failed
    <2>3. UNCHANGED <<reading, visit, tcp, stream, parts>>
      BY <1>26 DEF AcceptCompletes, subscription
    <2>4. QED
      BY <2>1, <2>2, <2>3 DEF FrameInv, FrameOf, ReadUpTo, Position, HasData
  <1>27. CASE AcceptFails
    <2>1. /\ \A i \in 1 .. Len(ready') :
               \/ i \in 1 .. Len(ready) /\ ready'[i] = ready[i]
               \/ i = Len(ready) + 1 /\ ready'[i] = Failed("accept", Nobody)
          /\ \A i \in 1 .. Len(ready) : i \in 1 .. Len(ready') /\ ready'[i] = ready[i]
          /\ Len(ready) + 1 \in 1 .. Len(ready')
                /\ ready'[Len(ready) + 1] = Failed("accept", Nobody)
          /\ Len(ready) + 1 \notin 1 .. Len(ready)
      BY <1>27, HandlersTyped, HandlerAdded DEF AcceptFails
    <2>2. Failed("accept", Nobody).op = "accept"
      BY DEF Done, Failed
    <2>3. UNCHANGED <<reading, visit, tcp, stream, parts>>
      BY <1>27 DEF AcceptFails, subscription
    <2>4. QED
      BY <2>1, <2>2, <2>3 DEF FrameInv, FrameOf, ReadUpTo, Position, HasData
  <1>28. CASE UNCHANGED vars
    BY <1>28 DEF FrameInv, FrameOf, ReadUpTo, Position, vars
  <1>29. QED
    BY <1>1, <1>2, <1>3, <1>4, <1>5, <1>6, <1>7, <1>8, <1>9, <1>10, <1>11, <1>12, <1>13, <1>14,
       <1>15, <1>16, <1>17, <1>18, <1>19, <1>20, <1>21, <1>22, <1>23, <1>24, <1>25, <1>26, <1>27,
       <1>28
    DEF Next, IoThread, User, UserStep, Client, Reading

\* Steps that leave the data in the queue alone.
LEMMA SameData ==
    ASSUME LastInv, UNCHANGED <<tcp, stream, parts, got, visit>>,
           sessions' \subseteq sessions, subscribers' \subseteq subscribers,
           \A h \in 1 .. Len(ready) : HasData(ready[h]) =>
                 \E k \in 1 .. Len(ready') : ready'[k] = ready[h],
           \A k \in 1 .. Len(ready') : HasData(ready'[k]) =>
                 \E h \in 1 .. Len(ready) : ready'[k] = ready[h]
    PROVE  LastInv'
  <1>1. SUFFICES ASSUME NEW s \in subscribers, NEW d \in sessions, NEW i \in 1 .. Len(got[s]),
        LastFrom(s, d, i)
                 PROVE  NextAfter(s, d, i)'
    BY DEF LastInv, LastFrom
  <1>2. NextAfter(s, d, i)
    BY <1>1 DEF LastInv
  <1>3. \A k \in 1 .. Len(ready') : HasData(ready'[k]) /\ ready'[k].conn = d =>
        ready'[k].msg = got[s][i].msg + 1
    <2>1. \A h \in 1 .. Len(ready) : HasData(ready[h]) /\ ready[h].conn = d =>
             ready[h].msg = got[s][i].msg + 1
      BY <1>2 DEF NextAfter
    <2>2. SUFFICES ASSUME NEW k \in 1 .. Len(ready'), HasData(ready'[k]), ready'[k].conn = d
                   PROVE  ready'[k].msg = got[s][i].msg + 1
      OBVIOUS
    <2>3. PICK h \in 1 .. Len(ready) : ready'[k] = ready[h]
      BY <2>2
    <2>4. HasData(ready[h])
      BY <2>2, <2>3 DEF HasData
    <2>5. QED
      BY <2>1, <2>2, <2>3, <2>4
  <1>4. (\A k \in 1 .. Len(ready') : HasData(ready'[k]) => ready'[k].conn # d) =>
            \A h \in 1 .. Len(ready) : HasData(ready[h]) => ready[h].conn # d
    OBVIOUS
  <1>5. QED
    BY <1>2, <1>3, <1>4 DEF NextAfter, Position


LEMMA LastStep ==
    ASSUME TypeOK, ThreadsInv, ReadsInv, AcceptInv, WaitingInv, StreamInv, FrameInv, LastInv,
          [Next]_vars
    PROVE  LastInv'
  <1>1. CASE IoThreadStarts
    BY <1>1
    DEF LastInv, LastFrom, NextAfter, Position, IoThreadStarts, subscription, operations,
        environment, history
  <1>2. CASE IoThreadExits
    BY <1>2
    DEF LastInv, LastFrom, NextAfter, Position, IoThreadExits, subscription, operations,
        environment, history
  <1>3. CASE HandleAccepted
    <2>1. ready' = Tail(ready) /\ ready # <<>>
      BY <1>3 DEF HandleAccepted, Executes
    <2>2. /\ ready[1] = Head(ready) /\ Head(ready) \in Handler /\ 1 \in 1 .. Len(ready)
          /\ \A i \in 1 .. Len(ready') : i + 1 \in 1 .. Len(ready) /\ ready'[i] = ready[i + 1]
          /\ \A i \in 1 .. Len(ready) : i # 1 =>
                i - 1 \in 1 .. Len(ready') /\ ready'[i - 1] = ready[i]
      BY <2>1, HeadLeaves
    <2> DEFINE c == Head(ready).conn
    <2>3. c \in Connections /\ Accepts(ready[1]) /\ ready[1].conn = c /\ ~HasData(ready[1])
      BY <1>3, <2>2 DEF HandleAccepted, Executes, AcceptInv, Accepts, HasData
    <2>4. \A s \in Subscribers : \A i \in 1 .. Len(got[s]) : got[s][i].conn # c
      BY <2>2, <2>3 DEF WaitingInv, Waiting, Untouched
    <2>5. UNCHANGED <<visit, tcp, stream, parts, got, subscribers>> /\ sessions' = sessions \union {c}
      BY <1>3 DEF HandleAccepted, StartSession, subscription, environment, history
    <2>6. subscribers \subseteq Subscribers
      BY DEF TypeOK
    <2> HIDE DEF c
    <2>7. SUFFICES ASSUME NEW s \in subscribers, NEW d \in sessions, NEW i \in 1 .. Len(got[s]),
          LastFrom(s, d, i)
                   PROVE  NextAfter(s, d, i)'
      BY <2>4, <2>5, <2>6 DEF LastInv, LastFrom
    <2>8. NextAfter(s, d, i)
      BY <2>7 DEF LastInv
    <2>9. \A h \in 1 .. Len(ready) : HasData(ready[h]) /\ ready[h].conn = d =>
          ready[h].msg = got[s][i].msg + 1
      BY <2>8 DEF NextAfter
    <2>10. \A h \in 1 .. Len(ready') : HasData(ready'[h]) /\ ready'[h].conn = d =>
          ready'[h].msg = got[s][i].msg + 1
      BY <2>2, <2>9
    <2>11. (\A h \in 1 .. Len(ready') : HasData(ready'[h]) => ready'[h].conn # d) =>
              \A h \in 1 .. Len(ready) : HasData(ready[h]) => ready[h].conn # d
      BY <2>2, <2>3
    <2>12. QED
      BY <2>5, <2>8, <2>10, <2>11 DEF NextAfter, Position
  <1>4. CASE HandleAcceptError
    <2>1. ready' = Tail(ready) /\ ready # <<>>
      BY <1>4 DEF HandleAcceptError, Executes
    <2>2. /\ ready[1] = Head(ready) /\ Head(ready) \in Handler /\ 1 \in 1 .. Len(ready)
          /\ \A i \in 1 .. Len(ready') : i + 1 \in 1 .. Len(ready) /\ ready'[i] = ready[i + 1]
          /\ \A i \in 1 .. Len(ready) : i # 1 =>
                i - 1 \in 1 .. Len(ready') /\ ready'[i - 1] = ready[i]
      BY <2>1, HeadLeaves
    <2>3. UNCHANGED <<visit, tcp, stream, parts, got, subscribers>> /\ sessions' \subseteq sessions
      BY <1>4 DEF HandleAcceptError, Executes, server, subscription, environment, history
    <2>4. ~HasData(ready[1])
      BY <1>4, <2>2 DEF HandleAcceptError, Executes, HasData
    <2>5. QED
      BY <2>2, <2>3, <2>4, SameData
  <1>5. CASE HandleHeader
    <2>1. ready' = Tail(ready) /\ ready # <<>>
      BY <1>5 DEF HandleHeader, Executes
    <2>2. /\ ready[1] = Head(ready) /\ Head(ready) \in Handler /\ 1 \in 1 .. Len(ready)
          /\ \A i \in 1 .. Len(ready') : i + 1 \in 1 .. Len(ready) /\ ready'[i] = ready[i + 1]
          /\ \A i \in 1 .. Len(ready) : i # 1 =>
                i - 1 \in 1 .. Len(ready') /\ ready'[i - 1] = ready[i]
      BY <2>1, HeadLeaves
    <2>3. UNCHANGED <<visit, tcp, stream, parts, got, subscribers>> /\ sessions' \subseteq sessions
      BY <1>5 DEF HandleHeader, Executes, server, subscription, environment, history
    <2>4. ~HasData(ready[1])
      BY <1>5, <2>2 DEF HandleHeader, Executes, HasData
    <2>5. QED
      BY <2>2, <2>3, <2>4, SameData
  <1>6. CASE HandleData
    <2>1. ready' = Tail(ready) /\ ready # <<>>
      BY <1>6 DEF HandleData, Executes
    <2>2. /\ ready[1] = Head(ready) /\ Head(ready) \in Handler /\ 1 \in 1 .. Len(ready)
          /\ \A i \in 1 .. Len(ready') : i + 1 \in 1 .. Len(ready) /\ ready'[i] = ready[i + 1]
          /\ \A i \in 1 .. Len(ready) : i # 1 =>
                i - 1 \in 1 .. Len(ready') /\ ready'[i - 1] = ready[i]
      BY <2>1, HeadLeaves
    <2> DEFINE c == Head(ready).conn
               m == Head(ready).msg
    <2>3. HasData(ready[1]) /\ ready[1].conn = c /\ ready[1].msg = m /\ IsRead(ready[1])
      BY <1>6, <2>2 DEF HandleData, Executes, HasData, IsRead
    <2>4. /\ UNCHANGED <<tcp, stream, parts, got, subscribers, sessions>> /\ visit.conn = Nobody
          /\ visit'.conn = c /\ visit'.msg = m /\ visit'.todo = subscribers
      BY <1>6 DEF HandleData, Executes, server, environment, history
    <2>5. \A h \in 1 .. Len(ready') : HasData(ready'[h]) => ready'[h].conn # c
      BY <2>1, <2>2, <2>3, ReadsLeft DEF HasData, IsRead
    <2>6. Nobody \notin sessions
      BY LogServerAssumption DEF TypeOK
    <2> HIDE DEF c, m
    <2>7. SUFFICES ASSUME NEW s \in subscribers, NEW d \in sessions, NEW i \in 1 .. Len(got[s]),
          LastFrom(s, d, i)
                   PROVE  NextAfter(s, d, i)'
      BY <2>4 DEF LastInv, LastFrom
    <2>8. NextAfter(s, d, i)
      BY <2>7 DEF LastInv
    <2>9. CASE d = c
      BY <2>2, <2>3, <2>4, <2>5, <2>8, <2>9 DEF NextAfter
    <2>10. CASE d # c
      <3>0. \A h \in 1 .. Len(ready) : HasData(ready[h]) /\ ready[h].conn = d =>
            ready[h].msg = got[s][i].msg + 1
        BY <2>8 DEF NextAfter
      <3>1. \A h \in 1 .. Len(ready') : HasData(ready'[h]) /\ ready'[h].conn = d =>
            ready'[h].msg = got[s][i].msg + 1
        BY <2>2, <3>0
      <3>2. (\A h \in 1 .. Len(ready') : HasData(ready'[h]) => ready'[h].conn # d) =>
               \A h \in 1 .. Len(ready) : HasData(ready[h]) => ready[h].conn # d
        BY <2>2, <2>3, <2>10
      <3>3. QED
        BY <2>4, <2>6, <2>8, <2>10, <3>1, <3>2 DEF NextAfter, Position
    <2>11. QED
      BY <2>9, <2>10
  <1>7. CASE EndNotify
    <2> DEFINE c == visit.conn
    <2>1. c \in Connections /\ visit.todo = {}
      BY <1>7 DEF EndNotify, TypeOK
    <2>2. /\ UNCHANGED <<ready, tcp, stream, parts, got, subscribers, sessions>> /\ visit'.conn = Nobody
          /\ \A d \in Connections : Position(d)' = Position(d)
      BY <1>7 DEF EndNotify, NoVisit, server, environment, history, Position
    <2>3. visit.msg \in Nat /\ (tcp[c] # "reset" => Position(c) = 2 * visit.msg)
      BY <2>1, LogServerAssumption DEF FrameInv, FrameOf, ReadUpTo, TypeOK
    <2>4. tcp[c] # "reset" => Position(c) \div 2 = visit.msg
      BY <2>3
    <2>5. Nobody \notin sessions /\ sessions \subseteq Connections
      BY LogServerAssumption DEF TypeOK
    <2>6. \A h \in 1 .. Len(ready) : HasData(ready[h]) => ready[h].conn # c
      BY DEF ReadsInv, HasData, IsRead
    <2>7. SUFFICES ASSUME NEW s \in subscribers, NEW d \in sessions, NEW i \in 1 .. Len(got[s]),
          LastFrom(s, d, i)
                   PROVE  NextAfter(s, d, i)'
      BY <2>2 DEF LastInv, LastFrom
    <2>8. NextAfter(s, d, i)
      BY <2>7 DEF LastInv
    <2> HIDE DEF c
    <2>9. CASE d = c
      BY <2>1, <2>2, <2>4, <2>5, <2>6, <2>8, <2>9 DEF NextAfter, c
    <2>10. CASE d # c
      BY <2>2, <2>5, <2>8, <2>10 DEF NextAfter, c
    <2>11. QED
      BY <2>9, <2>10
  <1>8. CASE HandleReadError
    <2>1. ready' = Tail(ready) /\ ready # <<>>
      BY <1>8 DEF HandleReadError, Executes
    <2>2. /\ ready[1] = Head(ready) /\ Head(ready) \in Handler /\ 1 \in 1 .. Len(ready)
          /\ \A i \in 1 .. Len(ready') : i + 1 \in 1 .. Len(ready) /\ ready'[i] = ready[i + 1]
          /\ \A i \in 1 .. Len(ready) : i # 1 =>
                i - 1 \in 1 .. Len(ready') /\ ready'[i - 1] = ready[i]
      BY <2>1, HeadLeaves
    <2>3. UNCHANGED <<visit, tcp, stream, parts, got, subscribers>> /\ sessions' \subseteq sessions
      BY <1>8 DEF HandleReadError, Executes, subscription, environment, history
    <2>4. ~HasData(ready[1])
      BY <1>8, <2>2 DEF HandleReadError, Executes, HasData
    <2>5. QED
      BY <2>2, <2>3, <2>4, SameData
  <1>9. CASE HandleStop
    <2>1. ready' = Tail(ready) /\ ready # <<>>
      BY <1>9 DEF HandleStop, Executes
    <2>2. /\ ready[1] = Head(ready) /\ Head(ready) \in Handler /\ 1 \in 1 .. Len(ready)
          /\ \A i \in 1 .. Len(ready') : i + 1 \in 1 .. Len(ready) /\ ready'[i] = ready[i + 1]
          /\ \A i \in 1 .. Len(ready) : i # 1 =>
                i - 1 \in 1 .. Len(ready') /\ ready'[i - 1] = ready[i]
      BY <2>1, HeadLeaves
    <2>3. UNCHANGED <<visit, tcp, stream, parts, got, subscribers>> /\ sessions' \subseteq sessions
      BY <1>9 DEF HandleStop, Executes, subscription, environment, history
    <2>4. ~HasData(ready[1])
      BY <1>9, <2>2 DEF HandleStop, Executes, HasData
    <2>5. QED
      BY <2>2, <2>3, <2>4, SameData
  <1>10. ASSUME NEW s \in Subscribers, Notify(s)
       PROVE  LastInv'
    <2> DEFINE c == visit.conn
               n == Len(got[s])
    <2>1. /\ UNCHANGED <<ready, tcp, stream, parts, subscribers, sessions>>
          /\ visit'.conn = c /\ visit'.msg = visit.msg /\ visit'.todo = visit.todo \ {s}
      BY <1>10 DEF Notify, server, operations, environment, TypeOK
    <2>2. /\ \A x \in Subscribers : x # s => got'[x] = got[x]
          /\ n \in Nat /\ Len(got'[s]) = n + 1
          /\ \A i \in 1 .. n : got'[s][i] = got[s][i]
          /\ got'[s][n + 1].conn = c /\ got'[s][n + 1].msg = visit.msg
      BY <1>10, NotifyDoes
    <2>3. subscribers \subseteq Subscribers /\ \A h \in 1 .. Len(ready) : HasData(ready[h]) =>
          ready[h].conn # c
      BY DEF TypeOK, ReadsInv, HasData, IsRead
    <2> HIDE DEF c, n
    <2>4. ASSUME NEW x \in subscribers, x # s, NEW d \in sessions, NEW i \in 1 .. Len(got[x]),
          LastFrom(x, d, i)'
          PROVE  NextAfter(x, d, i)'
      <3>1. got'[x] = got[x]
        BY <2>2, <2>3, <2>4
      <3>2. NextAfter(x, d, i)
        BY <2>4, <3>1 DEF LastInv, LastFrom
      <3>3. QED
        BY <2>1, <2>4, <3>1, <3>2 DEF NextAfter, Position, c
    <2>5. ASSUME NEW d \in sessions, d # c, NEW i \in 1 .. (n + 1), LastFrom(s, d, i)',
          s \in subscribers
          PROVE  NextAfter(s, d, i)'
      <3>1. got'[s][i].conn = d /\ \A k \in (i + 1) .. (n + 1) : got'[s][k].conn # d
        BY <2>2, <2>5 DEF LastFrom
      <3>2. i \in 1 .. n /\ got'[s][i] = got[s][i]
        BY <2>2, <2>5, <3>1
      <3>3. \A k \in (i + 1) .. n : got[s][k].conn # d
        BY <2>2, <3>1, <3>2
      <3>4. NextAfter(s, d, i)
        BY <2>5, <3>1, <3>2, <3>3 DEF LastInv, LastFrom, n
      <3>5. QED
        BY <2>1, <2>5, <3>2, <3>4 DEF NextAfter, Position, c
    <2>6. ASSUME NEW i \in 1 .. (n + 1), NEW d, d = c, LastFrom(s, d, i)'
          PROVE  NextAfter(s, d, i)'
      <3>1. \A k \in (i + 1) .. (n + 1) : got'[s][k].conn # d
        BY <2>2, <2>6 DEF LastFrom
      <3>2. i = n + 1
        BY <2>2, <2>6, <3>1
      <3>3. got'[s][i].msg = visit.msg
        BY <2>2, <3>2
      <3>4. QED
        BY <2>1, <2>3, <2>6, <3>3 DEF NextAfter
    <2>7. QED
      BY <2>1, <2>2, <2>3, <2>4, <2>5, <2>6 DEF LastInv
  <1>11. ASSUME NEW s \in Subscribers, NotifyPartial(s)
       PROVE  LastInv'
    BY <1>11
    DEF LastInv, LastFrom, NextAfter, Position, NotifyPartial, server, subscription, operations,
        environment
  <1>12. CASE DoAccept
    BY <1>12
    DEF LastInv, LastFrom, NextAfter, Position, DoAccept, subscription, environment, history
  <1>13. CASE PostStop
    <2>1. /\ \A i \in 1 .. Len(ready') :
               \/ i \in 1 .. Len(ready) /\ ready'[i] = ready[i]
               \/ i = Len(ready) + 1 /\ ready'[i] = Stop
          /\ \A i \in 1 .. Len(ready) : i \in 1 .. Len(ready') /\ ready'[i] = ready[i]
          /\ Len(ready) + 1 \in 1 .. Len(ready') /\ ready'[Len(ready) + 1] = Stop
          /\ Len(ready) + 1 \notin 1 .. Len(ready)
      BY <1>13, HandlersTyped, HandlerAdded DEF PostStop
    <2>2. ~HasData(Stop)
      BY DEF HasData, Stop, Done
    <2>3. UNCHANGED <<visit, tcp, stream, parts, got, subscribers, sessions>>
      BY <1>13 DEF PostStop, subscription, environment, history, server
    <2>4. QED
      BY <2>1, <2>2, <2>3, SameData
  <1>14. CASE Join
    <2>1. sessions' = {}
      BY <1>14 DEF Join
    <2>2. QED
      BY <2>1 DEF LastInv
  <1>15. CASE BeginDestroy
    BY <1>15
    DEF LastInv, LastFrom, NextAfter, Position, BeginDestroy, operations, environment, history
  <1>16. ASSUME NEW s \in Subscribers, Subscribe(s)
       PROVE  LastInv'
    <2>1. /\ UNCHANGED <<ready, tcp, stream, parts, got, sessions>>
          /\ subscribers' = subscribers \union {s} /\ s \notin created
      BY <1>16 DEF Subscribe, server, operations, environment
    <2>2. visit'.conn = visit.conn /\ visit'.msg = visit.msg /\ \A x \in Subscribers : x # s =>
          (x \in visit'.todo <=> x \in visit.todo)
      BY <1>16 DEF Subscribe, TypeOK
    <2>3. Len(got[s]) = 0
      BY <2>1 DEF ThreadsInv
    <2>4. subscribers \subseteq Subscribers /\ subscribers \subseteq created
      BY DEF TypeOK
    <2>5. QED
      BY <2>1, <2>2, <2>3, <2>4, SMTT(30) DEF LastInv, LastFrom, NextAfter, Position
  <1>17. ASSUME NEW s \in Subscribers, Construct(s)
       PROVE  LastInv'
    BY <1>17
    DEF LastInv, LastFrom, NextAfter, Position, Construct, server, operations, environment,
        history
  <1>18. ASSUME NEW s \in Subscribers, Destruct(s)
       PROVE  LastInv'
    BY <1>18
    DEF LastInv, LastFrom, NextAfter, Position, Destruct, Races, server, operations, environment
  <1>19. ASSUME NEW s \in Subscribers, Unsubscribe(s)
       PROVE  LastInv'
    <2>1. /\ UNCHANGED <<ready, tcp, stream, parts, got, sessions>>
          /\ subscribers' = subscribers \ {s}
      BY <1>19 DEF Unsubscribe, server, operations, environment
    <2>2. visit'.conn = visit.conn /\ visit'.msg = visit.msg /\ visit'.todo = visit.todo \ {s}
      BY <1>19 DEF Unsubscribe, TypeOK
    <2>3. QED
      BY <2>1, <2>2 DEF LastInv, LastFrom, NextAfter, Position
  <1>20. ASSUME NEW s \in Subscribers, Orphan(s)
       PROVE  LastInv'
    BY <1>20 DEF LastInv, LastFrom, NextAfter, Position, Orphan, server, operations, environment
  <1>21. ASSUME NEW c \in Connections, Connect(c)
       PROVE  LastInv'
    <2>1. /\ UNCHANGED <<ready, visit, stream, parts, got, subscribers, sessions>> /\ sessions \subseteq Connections
          /\ \A d \in Connections : tcp'[d] = "reset" <=> tcp[d] = "reset"
      BY <1>21 DEF Connect, server, subscription, operations, history, TypeOK
    <2>2. QED
      BY <2>1 DEF LastInv, LastFrom, NextAfter, Position
  <1>22. ASSUME NEW c \in Connections, SendPart(c)
       PROVE  LastInv'
    <2>1. UNCHANGED <<ready, visit, tcp, got, subscribers, sessions>> /\ sessions \subseteq Connections
      BY <1>22 DEF SendPart, server, subscription, operations, history, TypeOK
    <2>2. \A d \in Connections : Position(d)' = Position(d)
      BY <1>22, SendDoes DEF Position
    <2>3. QED
      BY <2>1, <2>2 DEF LastInv, LastFrom, NextAfter
  <1>23. ASSUME NEW c \in Connections, Disconnect(c)
       PROVE  LastInv'
    <2>1. /\ UNCHANGED <<ready, visit, parts, got, subscribers, sessions>> /\ sessions \subseteq Connections
          /\ \A d \in Connections : tcp'[d] # "reset" =>
                tcp[d] # "reset" /\ stream'[d] = stream[d]
      BY <1>23 DEF Disconnect, server, subscription, operations, history, TypeOK
    <2>2. QED
      BY <2>1 DEF LastInv, LastFrom, NextAfter, Position
  <1>24. ASSUME NEW c \in Connections, ReadCompletes(c)
       PROVE  LastInv'
    <2>1. /\ \A i \in 1 .. Len(ready') :
               \/ i \in 1 .. Len(ready) /\ ready'[i] = ready[i]
               \/ i = Len(ready) + 1 /\ ready'[i] = Done(reading[c], c, Head(stream[c]).msg)
          /\ \A i \in 1 .. Len(ready) : i \in 1 .. Len(ready') /\ ready'[i] = ready[i]
          /\ Len(ready) + 1 \in 1 .. Len(ready')
                /\ ready'[Len(ready) + 1] = Done(reading[c], c, Head(stream[c]).msg)
          /\ Len(ready) + 1 \notin 1 .. Len(ready)
      BY <1>24, ReadAdds, HandlerAdded DEF ReadCompletes
    <2> DEFINE h == Done(reading[c], c, Head(stream[c]).msg)
               n == Position(c)
    <2>2. /\ tcp[c] # "reset" /\ UNCHANGED <<tcp, visit, got, subscribers, sessions>>
          /\ n \in Nat /\ Position(c)' = n + 1
          /\ \A d \in Connections : d # c => Position(d)' = Position(d)
      BY <1>24, ReadDoes DEF ReadCompletes, server, subscription, history
    <2>3. h.op = reading[c] /\ h.conn = c /\ h.ok /\ h.msg = PartNumber(n + 1).msg
      BY <1>24, ReadDoes DEF Done
    <2>4. h.msg = n \div 2 + 1 /\ (n % 2 = 0 => (n + 1) \div 2 = n \div 2)
      BY <2>2, <2>3, PartsAlternate
    <2>5. /\ reading[c] \in {"header", "data"}
          /\ reading[c] = "header" => n % 2 = 0
      BY <1>24, <2>2 DEF FrameInv, FrameOf, ReadCompletes, TypeOK
    <2>6. visit.conn # c /\ \A i \in 1 .. Len(ready) : HasData(ready[i]) => ready[i].conn # c
      BY <1>24 DEF ReadCompletes, ReadsInv, HasData, IsRead
    <2>7. sessions \subseteq Connections
      BY DEF TypeOK
    <2>8. SUFFICES ASSUME NEW s \in subscribers, NEW d \in sessions, NEW i \in 1 .. Len(got[s]),
          LastFrom(s, d, i)
                   PROVE  NextAfter(s, d, i)'
      BY <2>2 DEF LastInv, LastFrom
    <2>9. NextAfter(s, d, i)
      BY <2>8 DEF LastInv
    <2> HIDE DEF h, n
    <2>10. ASSUME d = c
           PROVE  n \div 2 = got[s][i].msg
      BY <2>2, <2>6, <2>9, <2>10 DEF NextAfter, n
    <2>11. CASE d = c /\ reading[c] = "header"
      <3>1. ~HasData(h)
        BY <2>3, <2>11 DEF HasData
      <3>2. \A k \in 1 .. Len(ready') : HasData(ready'[k]) => ready'[k].conn # c
        BY <2>1, <2>6, <3>1 DEF h
      <3>3. Position(c)' \div 2 = got[s][i].msg
        BY <2>2, <2>4, <2>5, <2>10, <2>11
      <3>4. QED
        BY <2>2, <2>6, <2>11, <3>2, <3>3 DEF NextAfter
    <2>12. CASE d = c /\ reading[c] = "data"
      <3>1. HasData(h)
        BY <2>3, <2>12 DEF HasData
      <3>2. \A k \in 1 .. Len(ready') : HasData(ready'[k]) /\ ready'[k].conn = c =>
            ready'[k].msg = h.msg
        BY <2>1, <2>6 DEF h
      <3>3. Len(ready) + 1 \in 1 .. Len(ready') /\ ready'[Len(ready) + 1] = h
        BY <2>1 DEF h
      <3>4. h.msg = got[s][i].msg + 1
        BY <2>4, <2>10, <2>12
      <3>5. QED
        BY <2>2, <2>3, <2>6, <2>12, <3>1, <3>2, <3>3, <3>4 DEF NextAfter
    <2>13. CASE d # c
      BY <2>1, <2>2, <2>3, <2>7, <2>9, <2>13 DEF NextAfter, h
    <2>14. QED
      BY <2>5, <2>11, <2>12, <2>13
  <1>25. ASSUME NEW c \in Connections, ReadFails(c)
       PROVE  LastInv'
    <2>1. /\ \A i \in 1 .. Len(ready') :
               \/ i \in 1 .. Len(ready) /\ ready'[i] = ready[i]
               \/ i = Len(ready) + 1 /\ ready'[i] = Failed(reading[c], c)
          /\ \A i \in 1 .. Len(ready) : i \in 1 .. Len(ready') /\ ready'[i] = ready[i]
          /\ Len(ready) + 1 \in 1 .. Len(ready') /\ ready'[Len(ready) + 1] = Failed(reading[c], c)
          /\ Len(ready) + 1 \notin 1 .. Len(ready)
      BY <1>25, FailureAdds, HandlerAdded DEF ReadFails
    <2>2. ~HasData(Failed(reading[c], c))
      BY DEF HasData, Failed
    <2>3. UNCHANGED <<visit, tcp, stream, parts, got, subscribers, sessions>>
      BY <1>25 DEF ReadFails, server, subscription, environment, history, server
    <2>4. QED
      BY <2>1, <2>2, <2>3, SameData
  <1>26. CASE AcceptCompletes
    <2>1. /\ \A i \in 1 .. Len(ready') :
               \/ i \in 1 .. Len(ready) /\ ready'[i] = ready[i]
               \/ i = Len(ready) + 1 /\ ready'[i] = Done("accept", Head(backlog), 0)
          /\ \A i \in 1 .. Len(ready) : i \in 1 .. Len(ready') /\ ready'[i] = ready[i]
          /\ Len(ready) + 1 \in 1 .. Len(ready')
                /\ ready'[Len(ready) + 1] = Done("accept", Head(backlog), 0)
          /\ Len(ready) + 1 \notin 1 .. Len(ready)
      BY <1>26, AcceptAdds, HandlerAdded DEF AcceptCompletes
    <2>2. ~HasData(Done("accept", Head(backlog), 0))
      BY DEF HasData, Done
    <2>3. UNCHANGED <<visit, tcp, stream, parts, got, subscribers, sessions>>
      BY <1>26 DEF AcceptCompletes, server, subscription, history, server
    <2>4. QED
      BY <2>1, <2>2, <2>3, SameData
  <1>27. CASE AcceptFails
    <2>1. /\ \A i \in 1 .. Len(ready') :
               \/ i \in 1 .. Len(ready) /\ ready'[i] = ready[i]
               \/ i = Len(ready) + 1 /\ ready'[i] = Failed("accept", Nobody)
          /\ \A i \in 1 .. Len(ready) : i \in 1 .. Len(ready') /\ ready'[i] = ready[i]
          /\ Len(ready) + 1 \in 1 .. Len(ready')
                /\ ready'[Len(ready) + 1] = Failed("accept", Nobody)
          /\ Len(ready) + 1 \notin 1 .. Len(ready)
      BY <1>27, HandlersTyped, HandlerAdded DEF AcceptFails
    <2>2. ~HasData(Failed("accept", Nobody))
      BY DEF HasData, Failed
    <2>3. UNCHANGED <<visit, tcp, stream, parts, got, subscribers, sessions>>
      BY <1>27 DEF AcceptFails, server, subscription, history, server
    <2>4. QED
      BY <2>1, <2>2, <2>3, SameData
  <1>28. CASE UNCHANGED vars
    BY <1>28 DEF LastInv, LastFrom, NextAfter, Position, vars
  <1>29. QED
    BY <1>1, <1>2, <1>3, <1>4, <1>5, <1>6, <1>7, <1>8, <1>9, <1>10, <1>11, <1>12, <1>13, <1>14,
       <1>15, <1>16, <1>17, <1>18, <1>19, <1>20, <1>21, <1>22, <1>23, <1>24, <1>25, <1>26, <1>27,
       <1>28
    DEF Next, IoThread, User, UserStep, Client, Reading

\* Steps that notify nobody.
LEMMA OrderKept ==
    ASSUME NotifiedInOrder, UNCHANGED <<got, parts>>
    PROVE  NotifiedInOrder'
  BY DEF NotifiedInOrder, Follows


LEMMA OrderStep ==
    ASSUME TypeOK, ThreadsInv, ReadsInv, FrameInv, LastInv, NotifiedInOrder, [Next]_vars
    PROVE  NotifiedInOrder'
  <1>1. CASE IoThreadStarts
    BY <1>1, OrderKept DEF IoThreadStarts, subscription, operations, environment, history
  <1>2. CASE IoThreadExits
    BY <1>2, OrderKept DEF IoThreadExits, subscription, operations, environment, history
  <1>3. CASE HandleAccepted
    BY <1>3, OrderKept
    DEF HandleAccepted, Executes, StartSession, subscription, environment, history
  <1>4. CASE HandleAcceptError
    BY <1>4, OrderKept DEF HandleAcceptError, Executes, server, subscription, environment, history
  <1>5. CASE HandleHeader
    BY <1>5, OrderKept DEF HandleHeader, Executes, server, subscription, environment, history
  <1>6. CASE HandleData
    BY <1>6, OrderKept DEF HandleData, Executes, server, environment, history
  <1>7. CASE EndNotify
    BY <1>7, OrderKept DEF EndNotify, NoVisit, server, environment, history
  <1>8. CASE HandleReadError
    BY <1>8, OrderKept DEF HandleReadError, Executes, subscription, environment, history
  <1>9. CASE HandleStop
    BY <1>9, OrderKept DEF HandleStop, Executes, subscription, environment, history
  <1>10. ASSUME NEW s \in Subscribers, Notify(s)
       PROVE  NotifiedInOrder'
    <2> DEFINE c == visit.conn
               n == Len(got[s])
    <2>1. UNCHANGED parts /\ s \in visit.todo
      BY <1>10 DEF Notify, environment
    <2>2. /\ \A x \in Subscribers : x # s => got'[x] = got[x]
          /\ n \in Nat /\ Len(got'[s]) = n + 1
          /\ \A i \in 1 .. n : got'[s][i] = got[s][i]
          /\ got'[s][n + 1].conn = c /\ got'[s][n + 1].msg = visit.msg
      BY <1>10, NotifyDoes
    <2>3. s \in subscribers /\ c \in sessions /\ 2 * visit.msg <= parts[c]
      <3>1. c \in Connections
        BY <1>10, NotifyDoes
      <3>2. QED
        BY <2>1, <3>1, LogServerAssumption DEF ThreadsInv, ReadsInv, FrameInv, FrameOf, ReadUpTo
    <2>4. \A i \in 1 .. n : LastFrom(s, c, i) => visit.msg = got[s][i].msg + 1
      BY <2>1, <2>3 DEF LastInv, NextAfter
    <2> HIDE DEF c, n
    <2>5. ASSUME NEW j \in 1 .. (n + 1), NEW i \in 1 .. (n + 1), Follows(s, j, i)'
          PROVE  got'[s][j].msg = got'[s][i].msg + 1
      <3>1. /\ i < j /\ got'[s][i].conn = got'[s][j].conn
            /\ \A k \in (i + 1) .. (j - 1) : got'[s][k].conn # got'[s][j].conn
        BY <2>5 DEF Follows
      <3>2. i \in 1 .. n /\ got'[s][i] = got[s][i]
        BY <2>2, <3>1
      <3>3. CASE j = n + 1
        <4>1. \A k \in (i + 1) .. n : got[s][k].conn # c
          BY <2>2, <3>1, <3>2, <3>3
        <4>2. LastFrom(s, c, i)
          BY <2>2, <3>1, <3>2, <3>3, <4>1 DEF LastFrom, n
        <4>3. QED
          BY <2>2, <2>4, <3>2, <3>3, <4>2
      <3>4. CASE j # n + 1
        <4>1. j \in 1 .. n /\ got'[s][j] = got[s][j]
          BY <2>2, <3>4
        <4>2. \A k \in (i + 1) .. (j - 1) : got[s][k].conn # got[s][j].conn
          BY <2>2, <3>1, <3>2, <4>1
        <4>3. Follows(s, j, i)
          BY <3>1, <3>2, <4>1, <4>2 DEF Follows
        <4>4. QED
          BY <3>2, <4>1, <4>3 DEF NotifiedInOrder, n
      <3>5. QED
        BY <3>3, <3>4
    <2>6. ASSUME NEW j \in 1 .. (n + 1)
          PROVE  2 * got'[s][j].msg <= parts[got'[s][j].conn]
      <3>1. CASE j = n + 1
        BY <2>2, <2>3, <3>1
      <3>2. CASE j # n + 1
        <4>1. j \in 1 .. n /\ got'[s][j] = got[s][j]
          BY <2>2, <3>2
        <4>2. QED
          BY <4>1 DEF NotifiedInOrder, n
      <3>3. QED
        BY <3>1, <3>2
    <2>7. ASSUME NEW x \in Subscribers, x # s
          PROVE  \A j \in 1 .. Len(got'[x]) :
                   /\ 2 * got'[x][j].msg <= parts'[got'[x][j].conn]
                   /\ \A i \in 1 .. Len(got'[x]) : Follows(x, j, i)' =>
                         got'[x][j].msg = got'[x][i].msg + 1
      <3>1. got'[x] = got[x]
        BY <2>2, <2>7
      <3>2. \A j, i \in 1 .. Len(got[x]) : Follows(x, j, i)' <=> Follows(x, j, i)
        BY <3>1 DEF Follows
      <3>3. QED
        BY <2>1, <3>1, <3>2 DEF NotifiedInOrder
    <2>8. QED
      BY <2>1, <2>2, <2>5, <2>6, <2>7 DEF NotifiedInOrder
  <1>11. ASSUME NEW s \in Subscribers, NotifyPartial(s)
       PROVE  NotifiedInOrder'
    BY <1>11, OrderKept DEF NotifyPartial, server, subscription, operations, environment
  <1>12. CASE DoAccept
    BY <1>12, OrderKept DEF DoAccept, subscription, environment, history
  <1>13. CASE PostStop
    BY <1>13, OrderKept DEF PostStop, subscription, environment, history
  <1>14. CASE Join
    BY <1>14, OrderKept DEF Join, subscription, environment, history
  <1>15. CASE BeginDestroy
    BY <1>15, OrderKept DEF BeginDestroy, operations, environment, history
  <1>16. ASSUME NEW s \in Subscribers, Subscribe(s)
       PROVE  NotifiedInOrder'
    BY <1>16, OrderKept DEF Subscribe, Races, server, operations, environment
  <1>17. ASSUME NEW s \in Subscribers, Construct(s)
       PROVE  NotifiedInOrder'
    BY <1>17, OrderKept DEF Construct, server, operations, environment, history
  <1>18. ASSUME NEW s \in Subscribers, Destruct(s)
       PROVE  NotifiedInOrder'
    BY <1>18, OrderKept DEF Destruct, Races, server, operations, environment
  <1>19. ASSUME NEW s \in Subscribers, Unsubscribe(s)
       PROVE  NotifiedInOrder'
    BY <1>19, OrderKept DEF Unsubscribe, Races, server, operations, environment
  <1>20. ASSUME NEW s \in Subscribers, Orphan(s)
       PROVE  NotifiedInOrder'
    BY <1>20, OrderKept DEF Orphan, server, operations, environment
  <1>21. ASSUME NEW c \in Connections, Connect(c)
       PROVE  NotifiedInOrder'
    BY <1>21, OrderKept DEF Connect, server, subscription, operations, history
  <1>22. ASSUME NEW c \in Connections, SendPart(c)
       PROVE  NotifiedInOrder'
    <2>1. UNCHANGED got
      BY <1>22 DEF SendPart, history
    <2>2. \A d \in Connections : parts[d] \in Nat /\ parts'[d] \in Nat /\ parts[d] <= parts'[d]
      <3>1. \A d \in Connections : parts[d] \in Nat
        BY DEF TypeOK
      <3>2. QED
        BY <1>22, <3>1, SendDoes
    <2>3. \A x \in Subscribers : \A j \in 1 .. Len(got[x]) : got[x][j] \in Message
      BY DEF TypeOK
    <2>4. \A x \in Subscribers : \A j \in 1 .. Len(got[x]) : got[x][j].conn \in Connections
          /\ got[x][j].msg \in Nat
      BY <2>3, LogServerAssumption DEF Message
    <2>5. ASSUME NEW x \in Subscribers, NEW j \in 1 .. Len(got[x])
          PROVE  2 * got[x][j].msg <= parts'[got[x][j].conn]
      <3>1. 2 * got[x][j].msg <= parts[got[x][j].conn]
        BY DEF NotifiedInOrder
      <3>2. QED
        BY <2>2, <2>4, <3>1
    <2>6. QED
      BY <2>1, <2>5 DEF NotifiedInOrder, Follows
  <1>23. ASSUME NEW c \in Connections, Disconnect(c)
       PROVE  NotifiedInOrder'
    BY <1>23, OrderKept DEF Disconnect, server, subscription, operations, history
  <1>24. ASSUME NEW c \in Connections, ReadCompletes(c)
       PROVE  NotifiedInOrder'
    BY <1>24, OrderKept DEF ReadCompletes, server, subscription, history
  <1>25. ASSUME NEW c \in Connections, ReadFails(c)
       PROVE  NotifiedInOrder'
    BY <1>25, OrderKept DEF ReadFails, server, subscription, environment, history
  <1>26. CASE AcceptCompletes
    BY <1>26, OrderKept DEF AcceptCompletes, server, subscription, history
  <1>27. CASE AcceptFails
    BY <1>27, OrderKept DEF AcceptFails, server, subscription, history
  <1>28. CASE UNCHANGED vars
    BY <1>28, OrderKept DEF vars
  <1>29. QED
    BY <1>1, <1>2, <1>3, <1>4, <1>5, <1>6, <1>7, <1>8, <1>9, <1>10, <1>11, <1>12, <1>13, <1>14,
       <1>15, <1>16, <1>17, <1>18, <1>19, <1>20, <1>21, <1>22, <1>23, <1>24, <1>25, <1>26, <1>27,
       <1>28
    DEF Next, IoThread, User, UserStep, Client, Reading

LEMMA Initially == Init => IInv
  <1> SUFFICES ASSUME Init
               PROVE  IInv
    OBVIOUS
  <1>1. /\ Len(ready) = 0 /\ Len(backlog) = 0 /\ sessions = {} /\ subscribers = {}
              /\ visit = NoVisit
        /\ \A c \in Connections : tcp[c] = "none" /\ Len(stream[c]) = 0 /\ parts[c] = 0
              /\ reading[c] = "none"
        /\ \A s \in Subscribers : Len(got[s]) = 0
    BY DEF Init
  <1>2. visit.conn = Nobody /\ visit.todo = {} /\ \A c \in Connections : visit.conn # c
    BY <1>1, LogServerAssumption DEF NoVisit
  <1>3. \A c \in Connections : Position(c) = 0
    BY <1>1 DEF Position
  <1>4. TypeOK
    <2>1. visit \in [conn : Connections \union {Nobody}, msg : 0 .. MaxParts,
                     todo : SUBSET Subscribers, last : Subscribers \union {Nobody}]
      BY <1>1, LogServerAssumption DEF NoVisit
    <2>2. 0 \in 0 .. MaxParts /\ 0 \in 0 .. MaxAcceptErrors
      BY LogServerAssumption
    <2>3. accepting \in BOOLEAN /\ undefined \in BOOLEAN
      BY Zenon DEF Init
    <2>4. QED
      BY <2>1, <2>2, <2>3 DEF Init, TypeOK
  <1>5. ThreadsInv
    BY <1>2 DEF Init, ThreadsInv
  <1>6. ReadsInv
    BY <1>1, <1>2 DEF ReadsInv
  <1>7. AcceptInv
    BY <1>1 DEF AcceptInv
  <1>8. WaitingInv
    BY <1>1, <1>3 DEF WaitingInv, Untouched
  <1>9. StreamInv
    BY <1>1, <1>3 DEF StreamInv
  <1>10. FrameInv
    BY <1>1, <1>2 DEF FrameInv, FrameOf
  <1>11. LastInv
    BY <1>1 DEF LastInv
  <1>12. NotifiedInOrder
    BY <1>1 DEF NotifiedInOrder
  <1>13. QED
    BY <1>4, <1>5, <1>6, <1>7, <1>8, <1>9, <1>10, <1>11, <1>12 DEF IInv

LEMMA Inductive == IInv /\ [Next]_vars => IInv'
  BY TypeStep, ThreadsStep, ReadsStep, AcceptStep, WaitingStep, StreamStep, FrameStep, LastStep,
     OrderStep
  DEF IInv

LEMMA Invariant == Spec => []IInv
  BY Initially, Inductive, PTL DEF Spec

-----------------------------------------------------------------------------
(* The theorems.                                                            *)

(* Every variable keeps its type, whatever clients send and break, and whenever
   the user creates and destroys subscribers and the server.                *)
THEOREM TypeCorrect == Spec => []TypeOK
  <1>1. IInv => TypeOK
    BY DEF IInv
  <1>2. QED
    BY Invariant, <1>1, PTL

(* M_doAccept, doReadHeader and doReadData hand each session from one handler to
   the next: it never has two reads under way, nor none.                    *)
THEOREM SessionsRead == Spec => []OneReadPerSession
  <1>1. IInv => OneReadPerSession
    <2> SUFFICES ASSUME IInv, NEW c \in Connections
                 PROVE  ReadsOf(c) = (IF c \in sessions THEN 1 ELSE 0)
      BY DEF OneReadPerSession
    <2> DEFINE Its == {i \in 1 .. Len(ready) : ready[i].op \in {"header", "data"} /\ ready[i].conn = c}
    <2>1. /\ reading[c] # "none" => c \in sessions /\ visit.conn # c /\ Its = {}
          /\ visit.conn = c => c \in sessions /\ reading[c] = "none" /\ Its = {}
      BY LogServerAssumption DEF IInv, ReadsInv, IsRead
    <2>2. ASSUME Its # {}
          PROVE  /\ c \in sessions /\ reading[c] = "none" /\ visit.conn # c
                 /\ \E i : Its = {i}
      <3>1. PICK i \in Its : TRUE
        BY <2>2
      <3>2. c \in sessions /\ reading[c] = "none" /\ visit.conn # c /\ \A j \in Its : j = i
        BY <3>1 DEF IInv, ReadsInv, IsRead
      <3>3. Its = {i}
        BY <3>1, <3>2
      <3>4. QED
        BY <3>2, <3>3
    <2>3. c \in sessions => reading[c] # "none" \/ visit.conn = c \/ Its # {}
      BY DEF IInv, ReadsInv, IsRead
    <2>4. /\ Its = {} => Cardinality(Its) = 0
          /\ Its # {} => Cardinality(Its) = 1
      BY <2>2, FS_EmptySet, FS_Singleton
    <2>5. ReadsOf(c) = (IF reading[c] # "none" THEN 1 ELSE 0) + Cardinality(Its) + (IF visit.conn = c THEN 1 ELSE 0)
      BY DEF ReadsOf
    <2> HIDE DEF Its
    <2>6. QED
      BY <2>1, <2>2, <2>3, <2>4, <2>5
  <1>2. QED
    BY Invariant, <1>1, PTL

(* M_notifyMessageReceived calls each subscriber with the messages of a connection
   in the order in which the client sent them, without a gap since the first one
   and never with one that was cut, however many clients there are and wherever
   their connections break.                                                 *)
THEOREM InOrder == Spec => []NotifiedInOrder
  <1>1. IInv => NotifiedInOrder
    BY DEF IInv
  <1>2. QED
    BY Invariant, <1>1, PTL

(* After the join of ~Server no subscriber is called, and one that is destroyed
   later does not go to the server that is gone: ~Server has told it.       *)
THEOREM QuietAfterDestructor == Spec => SilentWhenDestroyed
  <1>1. IInv /\ [Next]_vars => [user = "done" => UNCHANGED history]_vars
    <2> SUFFICES ASSUME IInv, [Next]_vars, user = "done"
                 PROVE  UNCHANGED history
      OBVIOUS
    <2>1. /\ io_thread = "exited" /\ visit.conn = Nobody /\ visit.todo = {} /\ attached = {}
      BY DEF IInv, ThreadsInv
    <2>2. CASE IoThreadStarts
      BY <2>1, <2>2 DEF history, IoThreadStarts, subscription, operations, environment
    <2>3. CASE IoThreadExits
      BY <2>1, <2>3 DEF history, IoThreadExits, subscription, operations, environment
    <2>4. CASE HandleAccepted
      BY <2>1, <2>4 DEF history, HandleAccepted, Executes, StartSession, subscription, environment
    <2>5. CASE HandleAcceptError
      BY <2>1, <2>5 DEF history, HandleAcceptError, Executes, server, subscription, environment
    <2>6. CASE HandleHeader
      BY <2>1, <2>6 DEF history, HandleHeader, Executes, server, subscription, environment
    <2>7. CASE HandleData
      BY <2>1, <2>7 DEF history, HandleData, Executes, server, environment
    <2>8. CASE EndNotify
      BY <2>1, <2>8 DEF history, EndNotify, NoVisit, server, environment
    <2>9. CASE HandleReadError
      BY <2>1, <2>9 DEF history, HandleReadError, Executes, subscription, environment
    <2>10. CASE HandleStop
      BY <2>1, <2>10 DEF history, HandleStop, Executes, subscription, environment
    <2>11. ASSUME NEW s \in Subscribers, Notify(s)
          PROVE  UNCHANGED history
      BY <2>1, <2>11 DEF history, Notify, server, operations, environment
    <2>12. ASSUME NEW s \in Subscribers, NotifyPartial(s)
          PROVE  UNCHANGED history
      BY <2>1, <2>12 DEF history, NotifyPartial, server, subscription, operations, environment
    <2>13. CASE DoAccept
      BY <2>1, <2>13 DEF history, DoAccept, subscription, environment
    <2>14. CASE PostStop
      BY <2>1, <2>14 DEF history, PostStop, subscription, environment
    <2>15. CASE Join
      BY <2>1, <2>15 DEF history, Join, subscription, environment
    <2>16. CASE BeginDestroy
      BY <2>1, <2>16 DEF history, BeginDestroy, operations, environment
    <2>17. ASSUME NEW s \in Subscribers, Subscribe(s)
          PROVE  UNCHANGED history
      BY <2>1, <2>17 DEF history, Subscribe, Races, server, operations, environment
    <2>18. ASSUME NEW s \in Subscribers, Construct(s)
          PROVE  UNCHANGED history
      BY <2>1, <2>18 DEF history, Construct, server, operations, environment
    <2>19. ASSUME NEW s \in Subscribers, Destruct(s)
          PROVE  UNCHANGED history
      BY <2>1, <2>19 DEF history, Destruct, Races, server, operations, environment
    <2>20. ASSUME NEW s \in Subscribers, Unsubscribe(s)
          PROVE  UNCHANGED history
      BY <2>1, <2>20 DEF history, Unsubscribe, Races, server, operations, environment
    <2>21. ASSUME NEW s \in Subscribers, Orphan(s)
          PROVE  UNCHANGED history
      <3>1. s \notin attached /\ undefined \in BOOLEAN
        BY <2>1 DEF IInv, TypeOK
      <3>2. undefined' = undefined
        BY <2>21, <3>1, Zenon DEF Orphan
      <3>3. QED
        BY <2>21, <3>2 DEF Orphan, history
    <2>22. ASSUME NEW c \in Connections, Connect(c)
          PROVE  UNCHANGED history
      BY <2>1, <2>22 DEF history, Connect, server, subscription, operations
    <2>23. ASSUME NEW c \in Connections, SendPart(c)
          PROVE  UNCHANGED history
      BY <2>1, <2>23 DEF history, SendPart, server, subscription, operations
    <2>24. ASSUME NEW c \in Connections, Disconnect(c)
          PROVE  UNCHANGED history
      BY <2>1, <2>24 DEF history, Disconnect, server, subscription, operations
    <2>25. ASSUME NEW c \in Connections, ReadCompletes(c)
          PROVE  UNCHANGED history
      BY <2>1, <2>25 DEF history, ReadCompletes, server, subscription
    <2>26. ASSUME NEW c \in Connections, ReadFails(c)
          PROVE  UNCHANGED history
      BY <2>1, <2>26 DEF history, ReadFails, server, subscription, environment
    <2>27. CASE AcceptCompletes
      BY <2>1, <2>27 DEF history, AcceptCompletes, server, subscription
    <2>28. CASE AcceptFails
      BY <2>1, <2>28 DEF history, AcceptFails, server, subscription
    <2>29. CASE UNCHANGED vars
      BY <2>29 DEF vars, history
    <2>30. QED
      BY <2>2, <2>3, <2>4, <2>5, <2>6, <2>7, <2>8, <2>9, <2>10, <2>11, <2>12, <2>13, <2>14, <2>15,
         <2>16, <2>17, <2>18, <2>19, <2>20, <2>21, <2>22, <2>23, <2>24, <2>25, <2>26, <2>27,
         <2>28, <2>29
      DEF Next, IoThread, User, UserStep, Client, Reading
  <1>2. QED
    BY Invariant, <1>1, PTL DEF Spec, SilentWhenDestroyed
=============================================================================
