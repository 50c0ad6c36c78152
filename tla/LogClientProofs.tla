--------------------------- MODULE LogClientProofs ---------------------------
(* Theorems about module LogClient, for any number of messages, of connections
   and of connections that end.                                             *)
EXTENDS LogClient, FiniteSetTheorems, SequenceTheorems, TLAPS

-----------------------------------------------------------------------------
(* The inductive invariant.                                                 *)

IsChain(h) == h.op \in {"connect", "read"}
IsWrite(h) == h.op = "write"

\* Only a client that is being destroyed closes its socket.
TerminateInv ==
    /\ terminate <=> user \in {"posts", "joins", "done"}
    /\ \A i \in 1 .. Len(ready) : ready[i].op = "close" => terminate

\* Until the first connection ends there is one loop that connects and reads.
SocketInv ==
    /\ sock # "half_closed"
    /\ sock = "closed" => terminate
    /\ connecting => sock = "connecting" /\ ~connected /\ reads = 0
    /\ reads > 0 => reads = 1 /\ sock = "established" /\ connected
    /\ connected => reads = 1 \/ sock = "closed"
    /\ \A i \in 1 .. Len(ready) : IsChain(ready[i]) =>
          /\ ~connecting /\ reads = 0
          /\ \A j \in 1 .. Len(ready) : IsChain(ready[j]) => j = i
          /\ ready[i].op = "connect" => ~connected
          /\ ready[i].op = "connect" /\ ready[i].ok => sock \in {"established", "closed"}
          /\ ready[i].op = "connect" /\ ~ready[i].ok => sock \in {"dead", "closed"}
          /\ ready[i].op = "read" => sock = "closed"

\* And one write, of the head of the queue.
WriteInv ==
    /\ Len(writes) <= 1
    /\ writes # <<>> => sock = "established" /\ connected /\ queue # <<>> /\ writes[1] = queue[1]
    /\ \A i \in 1 .. Len(ready) : IsWrite(ready[i]) =>
          /\ writes = <<>> /\ queue # <<>>
          /\ connected \/ sock = "closed"
          /\ ~ready[i].ok => sock = "closed"
          /\ \A j \in 1 .. Len(ready) : IsWrite(ready[j]) => j = i
    /\ connected /\ sock # "closed" /\ queue # <<>> =>
          writes # <<>> \/ \E i \in 1 .. Len(ready) : IsWrite(ready[i])

\* The head of the queue was written and is still there.
Written == \E i \in 1 .. Len(ready) : IsWrite(ready[i]) /\ ready[i].ok

\* How many messages have left the queue, and how many have been put there.
Popped == IF Written THEN Len(wire) - 1 ELSE Len(wire)
Queued == Popped + Len(queue)

\* The messages that were posted and are not in the queue yet follow the others.
PostedInv ==
    /\ Queued <= sent
    /\ \A i \in 1 .. Len(ready) : ready[i].op = "queue" =>
          Queued < ready[i].msg /\ ready[i].msg <= sent
    /\ \A i, j \in 1 .. Len(ready) :
          ready[i].op = "queue" /\ ready[j].op = "queue" /\ i < j => ready[i].msg < ready[j].msg
    /\ \A m \in 1 .. sent : Queued < m =>
          \E i \in 1 .. Len(ready) : ready[i].op = "queue" /\ ready[i].msg = m

\* Messages go from the handlers to the queue and from there to the socket.
OrderInv ==
    /\ \A i \in 1 .. Len(wire) : wire[i] = i
    /\ \A i \in 1 .. Len(queue) : queue[i] = Popped + i
    /\ PostedInv

\* Whatever happens to connections, the messages of the queue and of the handlers
\* that were posted are those from d + 1 to the last one sent, in their order.
NumberedFrom(d) ==
    /\ \A i \in 1 .. Len(queue) : queue[i] = d + i
    /\ \A i \in 1 .. Len(ready) : ready[i].op = "queue" =>
          d + Len(queue) < ready[i].msg /\ ready[i].msg <= sent
    /\ \A i, j \in 1 .. Len(ready) :
          ready[i].op = "queue" /\ ready[j].op = "queue" /\ i < j => ready[i].msg < ready[j].msg
    /\ \A m \in 1 .. sent : d + Len(queue) < m =>
          \E i \in 1 .. Len(ready) : ready[i].op = "queue" /\ ready[i].msg = m

QueueInv == \E d \in Nat : d + Len(queue) <= sent /\ NumberedFrom(d)

FirstConnection == closes = 0 => SocketInv /\ WriteInv /\ OrderInv

IInv == Types /\ QueueInv /\ OneChainPerFailure /\ TerminateInv /\ FirstConnection

-----------------------------------------------------------------------------
(* Every step preserves it.                                                 *)

\* The places of a sequence where the handlers of an operation are.
LEMMA PlacesFinite ==
    ASSUME NEW S, NEW s \in Seq(S), NEW op
    PROVE  IsFiniteSet({i \in DOMAIN s : s[i].op = op}) /\ Count(s, op) \in Nat
  <1>1. Len(s) \in Nat /\ DOMAIN s = 1 .. Len(s)
    BY LenProperties
  <1>2. IsFiniteSet(1 .. Len(s))
    BY <1>1, FS_Interval
  <1>3. {i \in DOMAIN s : s[i].op = op} \in SUBSET (1 .. Len(s))
    BY <1>1
  <1>4. IsFiniteSet({i \in DOMAIN s : s[i].op = op})
    BY <1>2, <1>3, FS_Subset
  <1>5. QED
    BY <1>4, FS_CardinalityType DEF Count

LEMMA CountConcat ==
    ASSUME NEW S, NEW s \in Seq(S), NEW t \in Seq(S), NEW op
    PROVE  Count(s \o t, op) = Count(s, op) + Count(t, op)
  <1> DEFINE m == Len(s)
             n == Len(t)
             A == {i \in DOMAIN s : s[i].op = op}
             B == {i \in DOMAIN t : t[i].op = op}
             C == {i \in (m + 1) .. (m + n) : t[i - m].op = op}
             f == [i \in B |-> m + i]
  <1>1. m \in Nat /\ n \in Nat /\ DOMAIN s = 1 .. m /\ DOMAIN t = 1 .. n
    BY LenProperties
  <1>2. /\ s \o t \in Seq(S) /\ Len(s \o t) = m + n
        /\ \A i \in 1 .. m + n : (s \o t)[i] = IF i <= m THEN s[i] ELSE t[i - m]
    BY ConcatProperties
  <1>3. DOMAIN (s \o t) = 1 .. (m + n)
    BY <1>2, LenProperties
  <1>4. IsFiniteSet(A) /\ IsFiniteSet(B) /\ Cardinality(A) \in Nat /\ Cardinality(B) \in Nat
    BY PlacesFinite DEF Count
  <1>5. {i \in DOMAIN (s \o t) : (s \o t)[i].op = op} = A \union C
    <2> HIDE DEF m, n
    <2>1. ASSUME NEW i \in 1 .. (m + n), (s \o t)[i].op = op
          PROVE  i \in A \union C
      <3>1. CASE i <= m
        <4>1. i \in 1 .. m /\ (s \o t)[i] = s[i]
          BY <1>1, <1>2, <3>1
        <4>2. QED
          BY <1>1, <2>1, <4>1
      <3>2. CASE ~(i <= m)
        <4>1. i \in (m + 1) .. (m + n) /\ (s \o t)[i] = t[i - m]
          BY <1>1, <1>2, <3>2
        <4>2. QED
          BY <2>1, <4>1
      <3>3. QED
        BY <3>1, <3>2
    <2>2. ASSUME NEW i \in A
          PROVE  i \in 1 .. (m + n) /\ (s \o t)[i].op = op
      <3>1. i \in 1 .. m /\ i \in 1 .. (m + n) /\ i <= m
        BY <1>1
      <3>2. QED
        BY <1>2, <3>1
    <2>3. ASSUME NEW i \in C
          PROVE  i \in 1 .. (m + n) /\ (s \o t)[i].op = op
      <3>1. i \in 1 .. (m + n) /\ ~(i <= m)
        BY <1>1
      <3>2. QED
        BY <1>2, <3>1
    <2>4. QED
      BY <1>3, <2>1, <2>2, <2>3
  <1>6. ExistsBijection(B, C)
    <2>1. f \in [B -> C]
      <3>1. ASSUME NEW i \in B
            PROVE  m + i \in C
        <4>1. i \in 1 .. n /\ (m + i) - m = i
          BY <1>1
        <4>2. m + i \in (m + 1) .. (m + n)
          BY <1>1, <4>1
        <4>3. QED
          BY <4>1, <4>2
      <3>2. QED
        BY <3>1
    <2>2. \A i, j \in B : f[i] = f[j] => i = j
      BY <1>1
    <2>3. ASSUME NEW k \in C
          PROVE  \E i \in B : f[i] = k
      <3>1. k - m \in 1 .. n /\ m + (k - m) = k
        BY <1>1
      <3>2. k - m \in B
        BY <1>1, <3>1
      <3>3. QED
        BY <3>1, <3>2
    <2>4. f \in Bijection(B, C)
      BY <2>1, <2>2, <2>3 DEF Bijection, Injection, Surjection, IsInjective
    <2>5. QED
      BY <2>4 DEF ExistsBijection
  <1>7. IsFiniteSet(C) /\ Cardinality(C) = Cardinality(B)
    BY <1>4, <1>6, FS_Bijection
  <1>8. A \cap C = {}
    BY <1>1
  <1>9. Cardinality(A \union C) = Cardinality(A) + Cardinality(C) - Cardinality(A \cap C)
    BY <1>4, <1>7, FS_Union
  <1>10. Cardinality(A \cap C) = 0
    BY <1>8, FS_EmptySet
  <1>11. Count(s \o t, op) = Cardinality(A \union C) /\ Count(s, op) = Cardinality(A)
        /\ Count(t, op) = Cardinality(B)
    BY <1>5 DEF Count
  <1> HIDE DEF A, B, C, f, m, n
  <1>12. QED
    BY <1>4, <1>7, <1>9, <1>10, <1>11

\* A handler, as many times as told.
LEMMA Repeated ==
    ASSUME NEW S, NEW n \in Nat, NEW h \in S, NEW s \in [1 .. n -> S], \A i \in 1 .. n : s[i] = h
    PROVE  s \in Seq(S) /\ Len(s) = n
  <1>1. s \in Seq(S) /\ DOMAIN s = 1 .. n
    BY SeqDef
  <1>2. 1 .. Len(s) = 1 .. n /\ Len(s) \in Nat
    BY <1>1, LenProperties
  <1>3. \A k \in Nat : k \in 1 .. Len(s) <=> k \in 1 .. n
    BY <1>2
  <1>4. QED
    BY <1>1, <1>2, <1>3

LEMMA CountRepeated ==
    ASSUME NEW S, NEW n \in Nat, NEW h \in S, NEW s \in [1 .. n -> S],
          \A i \in 1 .. n : s[i] = h, NEW op
    PROVE  Count(s, op) = IF h.op = op THEN n ELSE 0
  <1>1. DOMAIN s = 1 .. n /\ \A i \in 1 .. n : s[i] = h
    OBVIOUS
  <1>2. CASE h.op = op
    <2>1. {i \in DOMAIN s : s[i].op = op} = 1 .. n
      BY <1>1, <1>2
    <2>2. Cardinality(1 .. n) = n
      BY FS_Interval
    <2>3. QED
      BY <1>2, <2>1, <2>2 DEF Count
  <1>3. CASE h.op # op
    <2>1. {i \in DOMAIN s : s[i].op = op} = {}
      BY <1>1, <1>3
    <2>2. QED
      BY <1>3, <2>1, FS_EmptySet DEF Count
  <1>4. QED
    BY <1>2, <1>3

LEMMA CountOne ==
    ASSUME NEW h, NEW op
    PROVE  Count(<<h>>, op) = IF h.op = op THEN 1 ELSE 0
  <1>1. DOMAIN <<h>> = {1} /\ <<h>>[1] = h
    OBVIOUS
  <1>2. CASE h.op = op
    <2>1. {i \in DOMAIN <<h>> : <<h>>[i].op = op} = {1}
      BY <1>1, <1>2
    <2>2. QED
      BY <1>2, <2>1, FS_Singleton DEF Count
  <1>3. CASE h.op # op
    <2>1. {i \in DOMAIN <<h>> : <<h>>[i].op = op} = {}
      BY <1>1, <1>3
    <2>2. QED
      BY <1>3, <2>1, FS_EmptySet DEF Count
  <1>4. QED
    BY <1>2, <1>3

LEMMA CountNone == \A op : Count(<<>>, op) = 0
  <1>1. ASSUME NEW op
        PROVE  {i \in DOMAIN <<>> : <<>>[i].op = op} = {}
    OBVIOUS
  <1>2. QED
    BY <1>1, FS_EmptySet DEF Count

LEMMA CountAppend ==
    ASSUME NEW S, NEW s \in Seq(S), NEW h \in S, NEW op
    PROVE  Count(Append(s, h), op) = Count(s, op) + (IF h.op = op THEN 1 ELSE 0)
  <1>1. Append(s, h) = s \o <<h>> /\ <<h>> \in Seq(S)
    BY AppendIsConcat
  <1>2. Count(s \o <<h>>, op) = Count(s, op) + Count(<<h>>, op)
    BY <1>1, CountConcat
  <1>3. QED
    BY <1>1, <1>2, CountOne

LEMMA CountTail ==
    ASSUME NEW S, NEW s \in Seq(S), s # <<>>, NEW op
    PROVE  Count(Tail(s), op) = Count(s, op) - (IF Head(s).op = op THEN 1 ELSE 0)
  <1>1. Head(s) \in S /\ Tail(s) \in Seq(S) /\ <<Head(s)>> \in Seq(S)
    BY HeadTailProperties
  <1>2. s = <<Head(s)>> \o Tail(s)
    <2>1. /\ Len(<<Head(s)>> \o Tail(s)) = 1 + Len(Tail(s)) /\ <<Head(s)>> \o Tail(s) \in Seq(S)
          /\ \A i \in 1 .. 1 + Len(Tail(s)) : (<<Head(s)>> \o Tail(s))[i] = IF i <= 1 THEN <<Head(s)>>[i] ELSE Tail(s)[i - 1]
      BY <1>1, ConcatProperties
    <2>2. Len(Tail(s)) = Len(s) - 1 /\ Len(s) \in Nat /\ Len(s) > 0
          /\ \A i \in 1 .. Len(Tail(s)) : Tail(s)[i] = s[i + 1]
      BY HeadTailProperties, EmptySeq
    <2>3. Head(s) = s[1]
      BY <2>2
    <2>4. ASSUME NEW i \in 1 .. Len(s)
          PROVE  s[i] = (<<Head(s)>> \o Tail(s))[i]
      <3>1. CASE i = 1
        BY <2>1, <2>2, <2>3, <3>1
      <3>2. CASE i # 1
        <4>1. i - 1 \in 1 .. Len(Tail(s)) /\ (i - 1) + 1 = i
          BY <2>2, <3>2
        <4>2. Tail(s)[i - 1] = s[i]
          BY <2>2, <4>1
        <4>3. QED
          BY <2>1, <2>2, <3>2, <4>2
      <3>3. QED
        BY <3>1, <3>2
    <2>5. QED
      BY <2>1, <2>2, <2>4, SeqEqual
  <1>3. Count(<<Head(s)>> \o Tail(s), op) = Count(<<Head(s)>>, op) + Count(Tail(s), op)
    BY <1>1, CountConcat
  <1>4. Count(Tail(s), op) \in Nat
    BY <1>1, PlacesFinite
  <1>5. Count(s, op) = Count(<<Head(s)>>, op) + Count(Tail(s), op)
    BY <1>2, <1>3
  <1>6. Count(<<Head(s)>>, op) = IF Head(s).op = op THEN 1 ELSE 0
    BY CountOne
  <1>7. QED
    BY <1>4, <1>5, <1>6

\* The handlers the operations make.
LEMMA HandlersTyped ==
    /\ \A op \in {"connect", "read", "write"} : Done(op, TRUE) \in Handler
          /\ Done(op, FALSE) \in Handler
    /\ \A m \in Message : Posted(m) \in Handler
    /\ CloseRequest \in Handler
  BY DEF Done, Posted, CloseRequest, Handler

\* What closing a socket gives the queue of handlers: first the reads, then the
\* connect operation, then the writes, all of them failed.
LEMMA AbortedAre ==
    ASSUME Types
    PROVE  LET k == IF connecting THEN 1 ELSE 0
           IN  /\ Aborted \in Seq(Handler)
               /\ Len(Aborted) = reads + k + Len(writes)
               /\ \A i \in 1 .. Len(Aborted) : Aborted[i] =
                    IF i <= reads THEN Done("read", FALSE)
                    ELSE IF i <= reads + k THEN Done("connect", FALSE)
                    ELSE Done("write", FALSE)
               /\ Count(Aborted, "read") = reads
               /\ Count(Aborted, "connect") = k
               /\ Count(Aborted, "write") = Len(writes)
  <1> DEFINE k == IF connecting THEN 1 ELSE 0
             r == Done("read", FALSE)
             c == Done("connect", FALSE)
             w == Done("write", FALSE)
             R == [i \in 1 .. reads |-> r]
             C == IF connecting THEN <<c>> ELSE <<>>
             W == [i \in 1 .. Len(writes) |-> w]
  <1>1. reads \in Nat /\ Len(writes) \in Nat /\ connecting \in BOOLEAN
    BY DEF Types
  <1>2. r \in Handler /\ c \in Handler /\ w \in Handler
    BY HandlersTyped
  <1>3. r.op = "read" /\ c.op = "connect" /\ w.op = "write"
    BY DEF Done
  <1>4. Aborted = (R \o C) \o W
    BY DEF Aborted
  <1> HIDE DEF r, c, w, Handler
  <1>5. /\ R \in Seq(Handler) /\ Len(R) = reads /\ \A i \in 1 .. reads : R[i] = r
        /\ \A op : Count(R, op) = IF r.op = op THEN reads ELSE 0
    <2>1. R \in [1 .. reads -> Handler] /\ \A i \in 1 .. reads : R[i] = r
      BY <1>2
    <2> HIDE DEF R
    <2>2. R \in Seq(Handler) /\ Len(R) = reads
      BY <1>1, <1>2, <2>1, Repeated
    <2>3. ASSUME NEW op
          PROVE  Count(R, op) = IF r.op = op THEN reads ELSE 0
      BY <1>1, <1>2, <2>1, CountRepeated
    <2>4. QED
      BY <2>1, <2>2, <2>3
  <1>6. /\ W \in Seq(Handler) /\ Len(W) = Len(writes) /\ \A i \in 1 .. Len(writes) : W[i] = w
        /\ \A op : Count(W, op) = IF w.op = op THEN Len(writes) ELSE 0
    <2>1. W \in [1 .. Len(writes) -> Handler] /\ \A i \in 1 .. Len(writes) : W[i] = w
      BY <1>2
    <2> HIDE DEF W
    <2>2. W \in Seq(Handler) /\ Len(W) = Len(writes)
      BY <1>1, <1>2, <2>1, Repeated
    <2>3. ASSUME NEW op
          PROVE  Count(W, op) = IF w.op = op THEN Len(writes) ELSE 0
      BY <1>1, <1>2, <2>1, CountRepeated
    <2>4. QED
      BY <2>1, <2>2, <2>3
  <1>7. /\ C \in Seq(Handler) /\ Len(C) = k /\ k \in Nat /\ \A i \in 1 .. k : C[i] = c
        /\ \A op : Count(C, op) = IF c.op = op THEN k ELSE 0
    <2>1. CASE connecting
      <3>1. C = <<c>> /\ k = 1
        BY <2>1
      <3>2. \A op : Count(<<c>>, op) = IF c.op = op THEN 1 ELSE 0
        BY CountOne
      <3>3. QED
        BY <1>2, <3>1, <3>2
    <2>2. CASE ~connecting
      <3>1. C = <<>> /\ k = 0
        BY <2>2
      <3>2. \A op : Count(<<>>, op) = 0
        BY CountNone
      <3>3. QED
        BY <3>1, <3>2
    <2>3. QED
      BY <2>1, <2>2
  <1> HIDE DEF R, C, W, k
  <1>8. /\ R \o C \in Seq(Handler) /\ Len(R \o C) = reads + k
        /\ \A i \in 1 .. reads + k : (R \o C)[i] = IF i <= reads THEN r ELSE c
    <2>1. /\ R \o C \in Seq(Handler) /\ Len(R \o C) = reads + k
          /\ \A i \in 1 .. reads + k : (R \o C)[i] = IF i <= reads THEN R[i] ELSE C[i - reads]
      BY <1>5, <1>7, ConcatProperties, ZenonT(40)
    <2>2. ASSUME NEW i \in 1 .. reads + k
          PROVE  (R \o C)[i] = IF i <= reads THEN r ELSE c
      <3>1. CASE i <= reads
        BY <1>1, <1>5, <1>7, <2>1, <3>1
      <3>2. CASE ~(i <= reads)
        <4>1. i - reads \in 1 .. k
          BY <1>1, <1>7, <3>2
        <4>2. QED
          BY <1>7, <2>1, <3>2, <4>1
      <3>3. QED
        BY <3>1, <3>2
    <2>3. QED
      BY <2>1, <2>2
  <1>9. /\ Aborted \in Seq(Handler) /\ Len(Aborted) = reads + k + Len(writes)
        /\ \A i \in 1 .. Len(Aborted) : Aborted[i] =
             IF i <= reads THEN r ELSE IF i <= reads + k THEN c ELSE w
    <2>1. /\ Aborted \in Seq(Handler) /\ Len(Aborted) = (reads + k) + Len(writes)
          /\ \A i \in 1 .. (reads + k) + Len(writes) :
               Aborted[i] = IF i <= reads + k THEN (R \o C)[i] ELSE W[i - (reads + k)]
      BY <1>4, <1>6, <1>8, ConcatProperties
    <2>2. ASSUME NEW i \in 1 .. (reads + k) + Len(writes)
          PROVE  Aborted[i] = IF i <= reads THEN r ELSE IF i <= reads + k THEN c ELSE w
      <3>1. CASE i <= reads + k
        <4>1. i \in 1 .. reads + k
          BY <1>1, <1>7, <3>1
        <4>2. QED
          BY <1>1, <1>7, <1>8, <2>1, <3>1, <4>1
      <3>2. CASE ~(i <= reads + k)
        <4>1. i - (reads + k) \in 1 .. Len(writes) /\ ~(i <= reads)
          BY <1>1, <1>7, <3>2
        <4>2. QED
          BY <1>6, <2>1, <3>2, <4>1
      <3>3. QED
        BY <3>1, <3>2
    <2>3. QED
      BY <2>1, <2>2
  <1>10. ASSUME NEW op
         PROVE  Count(Aborted, op) = (Count(R, op) + Count(C, op)) + Count(W, op)
    <2>1. Count((R \o C) \o W, op) = Count(R \o C, op) + Count(W, op)
      <3>1. R \o C \in Seq(Handler) /\ W \in Seq(Handler)
        BY <1>6, <1>8
      <3>2. QED
        BY <3>1, CountConcat
    <2>2. Count(R \o C, op) = Count(R, op) + Count(C, op)
      BY <1>5, <1>7, CountConcat
    <2>3. QED
      BY <1>4, <2>1, <2>2
  <1>11. Count(Aborted, "read") = reads /\ Count(Aborted, "connect") = k
        /\ Count(Aborted, "write") = Len(writes)
    <2>1. Count(R, "read") = reads /\ Count(R, "connect") = 0 /\ Count(R, "write") = 0
      BY <1>3, <1>5
    <2>2. Count(C, "read") = 0 /\ Count(C, "connect") = k /\ Count(C, "write") = 0
      BY <1>3, <1>7
    <2>3. Count(W, "read") = 0 /\ Count(W, "connect") = 0 /\ Count(W, "write") = Len(writes)
      BY <1>3, <1>6
    <2>4. QED
      BY <1>1, <1>7, <1>10, <2>1, <2>2, <2>3
  <1>12. QED
    BY <1>9, <1>11 DEF k, r, c, w

\* The head of the queue of handlers leaves it, and others are added.
LEMMA HeadLeaves ==
    ASSUME Types, ready # <<>>, NEW t \in Seq(Handler), ready' = Tail(ready) \o t
    PROVE  /\ ready[1] = Head(ready) /\ Head(ready) \in Handler /\ 1 \in 1 .. Len(ready)
           /\ ready' \in Seq(Handler)
           /\ \A i \in 1 .. Len(ready') :
                \/ i + 1 \in 1 .. Len(ready) /\ ready'[i] = ready[i + 1]
                \/ i - (Len(ready) - 1) \in 1 .. Len(t) /\ ready'[i] = t[i - (Len(ready) - 1)]
           /\ \A i \in 1 .. Len(ready) : i # 1 =>
                 i - 1 \in 1 .. Len(ready') /\ ready'[i - 1] = ready[i]
           /\ \A i \in 1 .. Len(t) : Len(ready) - 1 + i \in 1 .. Len(ready')
                 /\ ready'[Len(ready) - 1 + i] = t[i]
           /\ \A op : InReady(op)' = (InReady(op) - (IF Head(ready).op = op THEN 1 ELSE 0)) + Count(t, op)
  <1>1. ready \in Seq(Handler)
    BY DEF Types
  <1> HIDE DEF Handler
  <1> DEFINE q == Tail(ready)
  <1>2. /\ q \in Seq(Handler) /\ Len(q) = Len(ready) - 1
        /\ \A i \in 1 .. Len(q) : q[i] = ready[i + 1]
        /\ Len(ready) \in Nat /\ Len(ready) > 0
        /\ Head(ready) = ready[1] /\ ready[1] \in Handler
    BY <1>1, HeadTailProperties, EmptySeq
  <1>3. ASSUME NEW op
        PROVE  InReady(op)' = (InReady(op) - (IF Head(ready).op = op THEN 1 ELSE 0)) + Count(t, op)
    <2>1. Count(q, op) = Count(ready, op) - (IF Head(ready).op = op THEN 1 ELSE 0)
      BY <1>1, CountTail
    <2>2. Count(q \o t, op) = Count(q, op) + Count(t, op)
      BY <1>2, CountConcat
    <2>3. InReady(op)' = Count(ready', op)
      BY DEF InReady, Count
    <2>4. QED
      BY <2>1, <2>2, <2>3 DEF InReady
  <1> HIDE DEF q
  <1>4. ready' = q \o t
    BY DEF q
  <1>5. /\ ready' \in Seq(Handler) /\ Len(ready') = Len(q) + Len(t) /\ Len(t) \in Nat
        /\ \A i \in 1 .. Len(q) + Len(t) : ready'[i] = IF i <= Len(q) THEN q[i] ELSE t[i - Len(q)]
    <2>1. /\ q \o t \in Seq(Handler) /\ Len(q \o t) = Len(q) + Len(t)
          /\ \A i \in 1 .. Len(q) + Len(t) : (q \o t)[i] = IF i <= Len(q) THEN q[i] ELSE t[i - Len(q)]
      BY <1>2, ConcatProperties
    <2>2. Len(t) \in Nat
      BY LenProperties
    <2>3. QED
      BY <1>4, <2>1, <2>2
  <1>6. ASSUME NEW i \in 1 .. Len(ready')
        PROVE  \/ i + 1 \in 1 .. Len(ready) /\ ready'[i] = ready[i + 1]
               \/ i - (Len(ready) - 1) \in 1 .. Len(t) /\ ready'[i] = t[i - (Len(ready) - 1)]
    BY <1>2, <1>5
  <1>7. ASSUME NEW i \in 1 .. Len(ready), i # 1
        PROVE  i - 1 \in 1 .. Len(ready') /\ ready'[i - 1] = ready[i]
    <2>1. i - 1 \in 1 .. Len(q) /\ (i - 1) + 1 = i
      BY <1>2, <1>7
    <2>2. q[i - 1] = ready[i]
      BY <1>2, <2>1
    <2>3. QED
      BY <1>2, <1>5, <2>1, <2>2
  <1>8. ASSUME NEW i \in 1 .. Len(t)
        PROVE  Len(ready) - 1 + i \in 1 .. Len(ready') /\ ready'[Len(ready) - 1 + i] = t[i]
    <2>1. Len(q) + i \in 1 .. Len(q) + Len(t) /\ ~(Len(q) + i <= Len(q))
          /\ (Len(q) + i) - Len(q) = i
      BY <1>2, <1>5
    <2>2. QED
      BY <1>2, <1>5, <2>1
  <1>9. QED
    BY <1>2, <1>3, <1>5, <1>6, <1>7, <1>8

\* The head of the queue of handlers leaves it.
LEMMA OnlyHeadLeaves ==
    ASSUME Types, ready # <<>>, ready' = Tail(ready)
    PROVE  /\ ready[1] = Head(ready) /\ Head(ready) \in Handler /\ 1 \in 1 .. Len(ready)
           /\ ready' \in Seq(Handler)
           /\ \A i \in 1 .. Len(ready') : i + 1 \in 1 .. Len(ready) /\ ready'[i] = ready[i + 1]
           /\ \A i \in 1 .. Len(ready) : i # 1 =>
                 i - 1 \in 1 .. Len(ready') /\ ready'[i - 1] = ready[i]
           /\ \A op : InReady(op)' = InReady(op) - (IF Head(ready).op = op THEN 1 ELSE 0)
  <1>1. ready \in Seq(Handler)
    BY DEF Types
  <1> HIDE DEF Handler
  <1>2. Tail(ready) \in Seq(Handler)
    BY <1>1, HeadTailProperties
  <1>3. ready' = Tail(ready) \o <<>>
    BY <1>2, ConcatEmptySeq
  <1>4. <<>> \in Seq(Handler) /\ Len(<<>>) = 0 /\ 1 .. 0 = {}
    OBVIOUS
  <1>5. ASSUME NEW op
        PROVE  InReady(op)' = InReady(op) - (IF Head(ready).op = op THEN 1 ELSE 0)
    <2>1. InReady(op)' = (InReady(op) - (IF Head(ready).op = op THEN 1 ELSE 0)) + Count(<<>>, op)
      BY <1>3, <1>4, HeadLeaves
    <2>2. InReady(op) \in Nat
      BY <1>1, PlacesFinite DEF InReady
    <2>3. QED
      BY <2>1, <2>2, CountNone
  <1>6. /\ ready[1] = Head(ready) /\ Head(ready) \in Handler /\ 1 \in 1 .. Len(ready)
        /\ ready' \in Seq(Handler)
        /\ \A i \in 1 .. Len(ready') :
             \/ i + 1 \in 1 .. Len(ready) /\ ready'[i] = ready[i + 1]
             \/ i - (Len(ready) - 1) \in 1 .. Len(<<>>) /\ ready'[i] = <<>>[i - (Len(ready) - 1)]
        /\ \A i \in 1 .. Len(ready) : i # 1 =>
              i - 1 \in 1 .. Len(ready') /\ ready'[i - 1] = ready[i]
    BY <1>3, <1>4, HeadLeaves
  <1>7. ASSUME NEW i \in 1 .. Len(ready')
        PROVE  i + 1 \in 1 .. Len(ready) /\ ready'[i] = ready[i + 1]
    BY <1>4, <1>6
  <1>8. QED
    BY <1>5, <1>6, <1>7

\* A handler is added.
LEMMA HandlerAdded ==
    ASSUME Types, NEW h \in Handler, ready' = Append(ready, h)
    PROVE  /\ ready' \in Seq(Handler)
           /\ \A i \in 1 .. Len(ready') :
                \/ i \in 1 .. Len(ready) /\ ready'[i] = ready[i]
                \/ i = Len(ready) + 1 /\ ready'[i] = h
           /\ \A i \in 1 .. Len(ready) : i \in 1 .. Len(ready') /\ ready'[i] = ready[i]
           /\ Len(ready) + 1 \in 1 .. Len(ready') /\ ready'[Len(ready) + 1] = h
           /\ \A op : InReady(op)' = InReady(op) + (IF h.op = op THEN 1 ELSE 0)
  <1>1. ready \in Seq(Handler) /\ Len(ready) \in Nat
    BY DEF Types
  <1> HIDE DEF Handler
  <1>2. /\ Append(ready, h) \in Seq(Handler) /\ Len(Append(ready, h)) = Len(ready) + 1
        /\ \A i \in 1 .. Len(ready) : Append(ready, h)[i] = ready[i]
        /\ Append(ready, h)[Len(ready) + 1] = h
    BY <1>1, AppendProperties
  <1>3. ASSUME NEW op
        PROVE  InReady(op)' = InReady(op) + (IF h.op = op THEN 1 ELSE 0)
    <2>1. Count(Append(ready, h), op) = Count(ready, op) + (IF h.op = op THEN 1 ELSE 0)
      BY <1>1, CountAppend
    <2>2. InReady(op)' = Count(ready', op)
      BY DEF InReady, Count
    <2>3. QED
      BY <2>1, <2>2 DEF InReady
  <1>4. QED
    BY <1>1, <1>2, <1>3

\* What the queue of handlers becomes is a queue of handlers.
LEMMA ReadyTyped ==
    ASSUME Types
    PROVE  /\ \A h \in Handler : Append(ready, h) \in Seq(Handler)
           /\ ready # <<>> => /\ Tail(ready) \in Seq(Handler)
                              /\ Tail(ready) \o Aborted \in Seq(Handler)
                              /\ Append(Tail(ready), Done("write", FALSE)) \in Seq(Handler)
  <1>1. ready \in Seq(Handler)
    BY DEF Types
  <1>2. Aborted \in Seq(Handler)
    BY AbortedAre
  <1>3. Done("write", FALSE) \in Handler
    BY HandlersTyped
  <1> HIDE DEF Handler
  <1>4. \A h \in Handler : Append(ready, h) \in Seq(Handler)
    BY <1>1, AppendProperties
  <1>5. ASSUME ready # <<>>
        PROVE  /\ Tail(ready) \in Seq(Handler)
               /\ Tail(ready) \o Aborted \in Seq(Handler)
               /\ Append(Tail(ready), Done("write", FALSE)) \in Seq(Handler)
    <2>1. Tail(ready) \in Seq(Handler)
      BY <1>1, <1>5, HeadTailProperties
    <2>2. QED
      BY <1>2, <1>3, <2>1, ConcatProperties, AppendProperties
  <1>6. QED
    BY <1>4, <1>5

\* The messages of the write operations and of the queue are messages.
LEMMA MessagesTyped ==
    ASSUME Types
    PROVE  /\ writes \in Seq(Message) /\ queue \in Seq(Message) /\ wire \in Seq(Message)
                 /\ <<>> \in Seq(Message)
           /\ \A m \in Message : Append(writes, m) \in Seq(Message)
           /\ queue # <<>> => Head(queue) \in Message /\ Tail(queue) \in Seq(Message)
           /\ queue # <<>> /\ Tail(queue) # <<>> => Head(Tail(queue)) \in Message
  <1>1. writes \in Seq(Message) /\ queue \in Seq(Message) /\ wire \in Seq(Message)
    BY DEF Types
  <1> HIDE DEF Message
  <1>2. QED
    BY <1>1

LEMMA TypeStep ==
    ASSUME Types, [Next]_vars
    PROVE  Types'
  <1>1. CASE HandleConnected
    <2>1. ready # <<>> /\ (queue # <<>> => Head(queue) \in Message)
      BY <1>1 DEF HandleConnected, Executes, Types
    <2>2. ready' \in Seq(Handler)
      BY <1>1, <2>1, ReadyTyped DEF HandleConnected, AsyncWrite
    <2>3. writes' \in Seq(Message)
      BY <1>1, <2>1, MessagesTyped DEF HandleConnected, AsyncWrite
    <2>4. QED
      BY <1>1, <2>2, <2>3 DEF HandleConnected, Types, environment, history
  <1>2. CASE HandleConnectFailed
    <2>1. ready # <<>>
      BY <1>2 DEF HandleConnectFailed, Executes
    <2>2. ready' \in Seq(Handler)
      BY <1>2, <2>1, ReadyTyped DEF HandleConnectFailed, DoConnect, AsyncConnect
    <2>3. connecting' \in BOOLEAN
      BY <1>2, Zenon DEF HandleConnectFailed, DoConnect, AsyncConnect, Types
    <2>4. writes' \in Seq(Message)
      BY <1>2, MessagesTyped DEF HandleConnectFailed, DoConnect, AsyncConnect
    <2>5. reads' \in Nat /\ attempt' \in {0, 1}
      BY <1>2 DEF HandleConnectFailed, DoConnect, AsyncConnect, Types
    <2>6. sock' \in {"closed", "connecting", "established", "half_closed", "dead"}
      BY <1>2 DEF HandleConnectFailed, DoConnect, AsyncConnect, Types
    <2>7. QED
      BY <1>2, <2>2, <2>3, <2>4, <2>5, <2>6 DEF HandleConnectFailed, Types, history
  <1>3. CASE HandleReadError
    <2>1. ready # <<>>
      BY <1>3 DEF HandleReadError, Executes
    <2>2. ready' \in Seq(Handler)
      BY <1>3, <2>1, ReadyTyped DEF HandleReadError, DoConnect, AsyncConnect
    <2>3. connecting' \in BOOLEAN
      BY <1>3, Zenon DEF HandleReadError, DoConnect, AsyncConnect, Types
    <2>4. writes' \in Seq(Message)
      BY <1>3, MessagesTyped DEF HandleReadError, DoConnect, AsyncConnect
    <2>5. reads' \in Nat /\ attempt' \in {0, 1}
      BY <1>3 DEF HandleReadError, DoConnect, AsyncConnect, Types
    <2>6. sock' \in {"closed", "connecting", "established", "half_closed", "dead"}
      BY <1>3 DEF HandleReadError, DoConnect, AsyncConnect, Types
    <2>7. QED
      BY <1>3, <2>2, <2>3, <2>4, <2>5, <2>6 DEF HandleReadError, Types, history
  <1>4. CASE HandleMessage
    <2>1. ready # <<>> /\ Head(ready).op = "queue"
      BY <1>4 DEF HandleMessage, Executes
    <2>2. ready' \in Seq(Handler)
      BY <1>4, <2>1, ReadyTyped DEF HandleMessage, AsyncWrite
    <2>3. Head(ready) \in Handler
      BY <2>1 DEF Types
    <2>4. Head(ready).msg \in Message
      BY <2>1, <2>3 DEF Handler, CloseRequest
    <2>5. queue' \in Seq(Message)
      BY <1>4, <2>4 DEF HandleMessage, Types
    <2>6. writes' \in Seq(Message)
      BY <1>4, <2>4, MessagesTyped DEF HandleMessage, AsyncWrite
    <2>7. QED
      BY <1>4, <2>2, <2>5, <2>6 DEF HandleMessage, Types, environment, history
  <1>5. CASE HandleWritten
    <2>1. ready # <<>>
      BY <1>5 DEF HandleWritten, Executes
    <2>2. ready' \in Seq(Handler)
      BY <1>5, <2>1, ReadyTyped DEF HandleWritten, AsyncWrite
    <2>3. queue \in Seq(Message) /\ (queue # <<>> => Tail(queue) \in Seq(Message))
      BY DEF Types
    <2>4. queue' \in Seq(Message)
      BY <1>5, <2>3 DEF HandleWritten
    <2>5. writes' \in Seq(Message)
      BY <1>5, MessagesTyped DEF HandleWritten, AsyncWrite
    <2>6. underflow' \in BOOLEAN
      BY <1>5, Zenon DEF HandleWritten, Types
    <2>7. QED
      BY <1>5, <2>2, <2>4, <2>5, <2>6 DEF HandleWritten, Types, environment
  <1>6. CASE HandleWriteError
    <2>1. ready # <<>>
      BY <1>6 DEF HandleWriteError, Executes
    <2>2. ready' \in Seq(Handler)
      BY <1>6, <2>1, ReadyTyped DEF HandleWriteError, Close, AsyncConnect
    <2>3. connecting' \in BOOLEAN
      BY <1>6, Zenon DEF HandleWriteError, Close, AsyncConnect, Types
    <2>4. writes' = <<>> /\ reads' = 0 /\ attempt' \in {0, 1}
                               /\ sock' \in {"closed", "connecting"}
      BY <1>6 DEF HandleWriteError, Close, AsyncConnect, Types
    <2>5. writes' \in Seq(Message) /\ reads' \in Nat
      BY <2>4, MessagesTyped
    <2>6. failures' \in Nat
      BY <1>6 DEF HandleWriteError, Types
    <2>7. QED
      BY <1>6, <2>2, <2>3, <2>4, <2>5, <2>6 DEF HandleWriteError, Types
  <1>7. CASE HandleClose
    <2>1. ready # <<>>
      BY <1>7 DEF HandleClose, Executes
    <2>2. ready' \in Seq(Handler)
      BY <1>7, <2>1, ReadyTyped DEF HandleClose, Close
    <2>3. writes' \in Seq(Message) /\ connecting' \in BOOLEAN /\ reads' \in Nat
      BY <1>7, MessagesTyped DEF HandleClose, Close
    <2>4. QED
      BY <1>7, <2>2, <2>3 DEF HandleClose, Close, Types, client, history
  <1>8. CASE IoThreadExits
    BY <1>8, LogClientAssumption
    DEF Types, IoThreadExits, client, operations, environment, history
  <1>9. CASE Send
    <2>1. sent' \in Message /\ sent' \in 0 .. MaxSends
      BY <1>9, LogClientAssumption DEF Send, Types, Message
    <2>2. ready' \in Seq(Handler)
      BY <1>9, <2>1, ReadyTyped, HandlersTyped DEF Send
    <2>3. QED
      BY <1>9, <2>1, <2>2 DEF Send, Types, client, environment, history
  <1>10. CASE BeginDestroy
    BY <1>10, LogClientAssumption
    DEF Types, BeginDestroy, client, operations, environment, history
  <1>11. CASE EndFlush
    BY <1>11, LogClientAssumption DEF Types, EndFlush, client, operations, environment, history
  <1>12. CASE SetTerminate
    BY <1>12, LogClientAssumption DEF Types, SetTerminate, operations, environment, history
  <1>13. CASE PostClose
    <2>1. ready' \in Seq(Handler)
      BY <1>13, ReadyTyped, HandlersTyped DEF PostClose
    <2>2. connecting' \in BOOLEAN
      BY <1>13, Zenon DEF PostClose, Types, client, environment, history
    <2>3. reads' \in Nat /\ connects' \in 0 .. MaxConnects
      BY <1>13, LogClientAssumption DEF PostClose, Types, client, environment, history
    <2>4. QED
      BY <1>13, <2>1, <2>2, <2>3 DEF PostClose, Types, client, environment, history
  <1>14. CASE Join
    BY <1>14, LogClientAssumption DEF Types, Join, client, operations, environment, history
  <1>15. CASE ServerStarts
    BY <1>15, LogClientAssumption DEF Types, ServerStarts, client, operations, history
  <1>16. CASE ConnectSucceeds
    <2>1. ready' \in Seq(Handler)
      BY <1>16, ReadyTyped, HandlersTyped DEF ConnectSucceeds
    <2>2. connecting' \in BOOLEAN
      BY <1>16, Zenon DEF ConnectSucceeds, Types, client, history
    <2>3. reads' \in Nat /\ connects' \in 0 .. MaxConnects
      BY <1>16, LogClientAssumption DEF ConnectSucceeds, Types, client, history
    <2>4. QED
      BY <1>16, <2>1, <2>2, <2>3 DEF ConnectSucceeds, Types, client, history
  <1>17. CASE ConnectRefused
    <2>1. ready' \in Seq(Handler)
      BY <1>17, ReadyTyped, HandlersTyped DEF ConnectRefused
    <2>2. connecting' \in BOOLEAN
      BY <1>17, Zenon DEF ConnectRefused, Types, client, history
    <2>3. reads' \in Nat /\ connects' \in 0 .. MaxConnects
      BY <1>17, LogClientAssumption DEF ConnectRefused, Types, client, history
    <2>4. QED
      BY <1>17, <2>1, <2>2, <2>3 DEF ConnectRefused, Types, client, history
  <1>18. CASE ConnectionEnds
    BY <1>18, LogClientAssumption DEF Types, ConnectionEnds, client, operations, history
  <1>19. CASE ReadFails
    <2>1. ready' \in Seq(Handler)
      BY <1>19, ReadyTyped, HandlersTyped DEF ReadFails
    <2>2. connecting' \in BOOLEAN
      BY <1>19, Zenon DEF ReadFails, Types, client, environment, history
    <2>3. reads' \in Nat /\ connects' \in 0 .. MaxConnects
      BY <1>19, LogClientAssumption DEF ReadFails, Types, client, environment, history
    <2>4. QED
      BY <1>19, <2>1, <2>2, <2>3 DEF ReadFails, Types, client, environment, history
  <1>20. CASE WriteSucceeds
    <2>1. ready' \in Seq(Handler)
      BY <1>20, ReadyTyped, HandlersTyped DEF WriteSucceeds
    <2>2. writes' \in Seq(Message) /\ wire' \in Seq(Message)
      BY <1>20 DEF WriteSucceeds, Types, client, environment
    <2>3. QED
      BY <1>20, <2>1, <2>2 DEF WriteSucceeds, Types, client, environment
  <1>21. CASE WriteIntoTheVoid
    <2>1. ready' \in Seq(Handler)
      BY <1>21, ReadyTyped, HandlersTyped DEF WriteIntoTheVoid
    <2>2. writes' \in Seq(Message) /\ wire' \in Seq(Message)
      BY <1>21 DEF WriteIntoTheVoid, Types, client, history
    <2>3. QED
      BY <1>21, <2>1, <2>2 DEF WriteIntoTheVoid, Types, client, history
  <1>22. CASE WriteFails
    <2>1. ready' \in Seq(Handler)
      BY <1>22, ReadyTyped, HandlersTyped DEF WriteFails
    <2>2. writes' \in Seq(Message) /\ wire' \in Seq(Message)
      BY <1>22 DEF WriteFails, Types, client, environment, history
    <2>3. QED
      BY <1>22, <2>1, <2>2 DEF WriteFails, Types, client, environment, history
  <1>23. CASE UNCHANGED vars
    BY <1>23, LogClientAssumption DEF Types, vars
  <1>24. QED
    BY <1>1, <1>2, <1>3, <1>4, <1>5, <1>6, <1>7, <1>8, <1>9, <1>10, <1>11, <1>12, <1>13, <1>14,
       <1>15, <1>16, <1>17, <1>18, <1>19, <1>20, <1>21, <1>22, <1>23
    DEF Next, IoThread, User, Destructor, Environment, Connecting, Writing

\* The numbers that are counted are numbers.
LEMMA CountsTyped ==
    ASSUME Types
    PROVE  /\ \A op : InReady(op) \in Nat
           /\ reads \in Nat /\ connecting \in BOOLEAN /\ failures \in Nat
  <1>1. ready \in Seq(Handler)
    BY DEF Types
  <1>2. QED
    BY <1>1, PlacesFinite DEF InReady, Types

\* Opening a socket again keeps the loops that waited on the old one.
LEMMA ConnectAddsOne ==
    ASSUME Types, ready # <<>>, AsyncConnect(Tail(ready))
    PROVE  /\ connecting' = TRUE /\ reads' = 0
           /\ InReady("read")' = (InReady("read") - (IF Head(ready).op = "read" THEN 1 ELSE 0)) + reads
           /\ InReady("connect")' = (InReady("connect") - (IF Head(ready).op = "connect" THEN 1 ELSE 0))
                                        + (IF connecting THEN 1 ELSE 0)
  <1>1. ready' = Tail(ready) \o Aborted /\ connecting' = TRUE /\ reads' = 0
    BY DEF AsyncConnect
  <1>2. Aborted \in Seq(Handler) /\ Count(Aborted, "read") = reads
        /\ Count(Aborted, "connect") = IF connecting THEN 1 ELSE 0
    BY AbortedAre
  <1>3. \A op : InReady(op)' = (InReady(op) - (IF Head(ready).op = op THEN 1 ELSE 0)) + Count(Aborted, op)
    BY <1>1, <1>2, HeadLeaves
  <1>4. QED
    BY <1>1, <1>2, <1>3

\* Starting a write adds nothing to the loops.
LEMMA WriteStarts ==
    ASSUME Types, ready # <<>>, NEW m, AsyncWrite(Tail(ready), m)
    PROVE  \A op : op # "write" =>
          InReady(op)' = InReady(op) - (IF Head(ready).op = op THEN 1 ELSE 0)
  <1>1. CASE sock = "closed"
    <2> DEFINE h == Done("write", FALSE)
    <2>1. h \in Handler /\ h.op = "write"
      BY HandlersTyped DEF Done
    <2>2. Tail(ready) \in Seq(Handler) /\ ready' = Append(Tail(ready), h)
      BY <1>1, ReadyTyped DEF AsyncWrite
    <2> HIDE DEF h, Handler
    <2>3. ready' = Tail(ready) \o <<h>> /\ <<h>> \in Seq(Handler)
      BY <2>1, <2>2, AppendIsConcat
    <2>4. \A op : InReady(op)' = (InReady(op) - (IF Head(ready).op = op THEN 1 ELSE 0)) + Count(<<h>>, op)
      BY <2>3, HeadLeaves
    <2>5. \A op : op # "write" => Count(<<h>>, op) = 0
      BY <2>1, CountOne
    <2>6. QED
      BY <2>4, <2>5, CountsTyped
  <1>2. CASE sock # "closed"
    <2>1. ready' = Tail(ready)
      BY <1>2 DEF AsyncWrite
    <2>2. QED
      BY <2>1, OnlyHeadLeaves
  <1>3. QED
    BY <1>1, <1>2

\* No loop ends before the client is destroyed, and a failed write starts one.
LEMMA ChainStep ==
    ASSUME Types, TerminateInv, OneChainPerFailure, [Next]_vars
    PROVE  OneChainPerFailure'
  <1>1. CASE HandleConnected
    <2>1. ready # <<>> /\ Head(ready).op = "connect" /\ reads' = reads + 1
                             /\ UNCHANGED <<connecting, failures, terminate>>
      BY <1>1 DEF HandleConnected, Executes, history
    <2>2. \A op : op # "write" =>
          InReady(op)' = InReady(op) - (IF Head(ready).op = op THEN 1 ELSE 0)
      <3>1. CASE queue # <<>>
        BY <1>1, <2>1, <3>1, WriteStarts DEF HandleConnected
      <3>2. CASE queue = <<>>
        BY <1>1, <2>1, <3>2, OnlyHeadLeaves DEF HandleConnected
      <3>3. QED
        BY <3>1, <3>2
    <2>3. InReady("read")' = InReady("read") /\ InReady("connect")' = InReady("connect") - 1
      BY <2>1, <2>2, CountsTyped
    <2>4. QED
      BY <2>1, <2>3, CountsTyped DEF OneChainPerFailure, Chains
  <1>2. CASE HandleConnectFailed
    <2>1. ready # <<>> /\ Head(ready).op = "connect" /\ UNCHANGED <<failures, terminate>>
      BY <1>2 DEF HandleConnectFailed, Executes, history
    <2>2. CASE terminate
      BY <2>1, <2>2 DEF OneChainPerFailure
    <2>3. CASE ~terminate
      <3>1. AsyncConnect(Tail(ready))
        BY <1>2, <2>3 DEF HandleConnectFailed, DoConnect
      <3>2. /\ connecting' = TRUE /\ reads' = 0
            /\ InReady("read")' = (InReady("read") - (IF Head(ready).op = "read" THEN 1 ELSE 0)) + reads
            /\ InReady("connect")' = (InReady("connect") - (IF Head(ready).op = "connect" THEN 1 ELSE 0))
                                         + (IF connecting THEN 1 ELSE 0)
        BY <2>1, <3>1, ConnectAddsOne
      <3>3. Chains' = Chains
        BY <2>1, <3>2, CountsTyped, SMTT(20) DEF Chains
      <3>4. QED
        BY <2>1, <3>3 DEF OneChainPerFailure
    <2>4. QED
      BY <2>2, <2>3
  <1>3. CASE HandleReadError
    <2>1. ready # <<>> /\ Head(ready).op = "read" /\ UNCHANGED <<failures, terminate>>
      BY <1>3 DEF HandleReadError, Executes, history
    <2>2. CASE terminate
      BY <2>1, <2>2 DEF OneChainPerFailure
    <2>3. CASE ~terminate
      <3>1. AsyncConnect(Tail(ready))
        BY <1>3, <2>3 DEF HandleReadError, DoConnect
      <3>2. /\ connecting' = TRUE /\ reads' = 0
            /\ InReady("read")' = (InReady("read") - (IF Head(ready).op = "read" THEN 1 ELSE 0)) + reads
            /\ InReady("connect")' = (InReady("connect") - (IF Head(ready).op = "connect" THEN 1 ELSE 0))
                                         + (IF connecting THEN 1 ELSE 0)
        BY <2>1, <3>1, ConnectAddsOne
      <3>3. Chains' = Chains
        BY <2>1, <3>2, CountsTyped, SMTT(20) DEF Chains
      <3>4. QED
        BY <2>1, <3>3 DEF OneChainPerFailure
    <2>4. QED
      BY <2>2, <2>3
  <1>4. CASE HandleMessage
    <2>1. ready # <<>> /\ Head(ready).op = "queue"
                             /\ UNCHANGED <<connecting, reads, failures, terminate>>
      BY <1>4 DEF HandleMessage, Executes, history
    <2>2. \A op : op # "write" =>
          InReady(op)' = InReady(op) - (IF Head(ready).op = op THEN 1 ELSE 0)
      <3>1. CASE connected /\ queue = <<>>
        BY <1>4, <2>1, <3>1, WriteStarts DEF HandleMessage
      <3>2. CASE ~(connected /\ queue = <<>>)
        BY <1>4, <2>1, <3>2, OnlyHeadLeaves DEF HandleMessage
      <3>3. QED
        BY <3>1, <3>2
    <2>3. InReady("read")' = InReady("read") /\ InReady("connect")' = InReady("connect")
      BY <2>1, <2>2, CountsTyped
    <2>4. QED
      BY <2>1, <2>3, CountsTyped DEF OneChainPerFailure, Chains
  <1>5. CASE HandleWritten
    <2>1. ready # <<>> /\ Head(ready).op = "write"
                             /\ UNCHANGED <<connecting, reads, failures, terminate>>
      BY <1>5 DEF HandleWritten, Executes
    <2>2. \A op : op # "write" =>
          InReady(op)' = InReady(op) - (IF Head(ready).op = op THEN 1 ELSE 0)
      <3>1. CASE queue # <<>> /\ Tail(queue) # <<>>
        BY <1>5, <2>1, <3>1, WriteStarts DEF HandleWritten
      <3>2. CASE ~(queue # <<>> /\ Tail(queue) # <<>>)
        BY <1>5, <2>1, <3>2, OnlyHeadLeaves DEF HandleWritten
      <3>3. QED
        BY <3>1, <3>2
    <2>3. InReady("read")' = InReady("read") /\ InReady("connect")' = InReady("connect")
      BY <2>1, <2>2, CountsTyped
    <2>4. QED
      BY <2>1, <2>3, CountsTyped DEF OneChainPerFailure, Chains
  <1>6. CASE HandleWriteError
    <2>1. ready # <<>> /\ Head(ready).op = "write" /\ failures' = failures + 1
                             /\ UNCHANGED terminate
      BY <1>6 DEF HandleWriteError, Executes
    <2>2. CASE terminate
      BY <2>1, <2>2 DEF OneChainPerFailure
    <2>3. CASE ~terminate
      <3>1. AsyncConnect(Tail(ready))
        BY <1>6, <2>3 DEF HandleWriteError
      <3>2. /\ connecting' = TRUE /\ reads' = 0
            /\ InReady("read")' = (InReady("read") - (IF Head(ready).op = "read" THEN 1 ELSE 0)) + reads
            /\ InReady("connect")' = (InReady("connect") - (IF Head(ready).op = "connect" THEN 1 ELSE 0))
                                         + (IF connecting THEN 1 ELSE 0)
        BY <2>1, <3>1, ConnectAddsOne
      <3>3. Chains' = Chains + 1
        BY <2>1, <3>2, CountsTyped DEF Chains
      <3>4. QED
        BY <2>1, <2>3, <3>3, CountsTyped DEF OneChainPerFailure
    <2>4. QED
      BY <2>2, <2>3
  <1>7. CASE HandleClose
    <2>1. ready # <<>> /\ Head(ready).op = "close" /\ UNCHANGED <<terminate, failures>>
      BY <1>7 DEF HandleClose, Executes, client, history
    <2>2. ready[1] = Head(ready) /\ 1 \in 1 .. Len(ready)
      BY <2>1, EmptySeq DEF Types
    <2>3. terminate
      BY <2>1, <2>2 DEF TerminateInv
    <2>4. QED
      BY <2>1, <2>3 DEF OneChainPerFailure
  <1>8. CASE IoThreadExits
    BY <1>8
    DEF OneChainPerFailure, Chains, InReady, Count, IoThreadExits, client, operations,
        environment, history
  <1>9. CASE Send
    <2> DEFINE h == Posted(sent')
    <2>1. h \in Handler /\ h.op = "queue" /\ ready' = Append(ready, h)
      BY <1>9, HandlersTyped, LogClientAssumption
      DEF Send, Done, Posted, CloseRequest, Types, Message
    <2> HIDE DEF h
    <2>2. \A op : InReady(op)' = InReady(op) + (IF h.op = op THEN 1 ELSE 0)
      BY <2>1, HandlerAdded
    <2>3. InReady("read")' = InReady("read")  /\ InReady("connect")' = InReady("connect") 
      BY <2>1, <2>2, CountsTyped
    <2>4. UNCHANGED <<terminate, failures>> /\ UNCHANGED <<connecting, reads>>
      BY <1>9, CountsTyped DEF Send, client, environment, history
    <2>5. QED
      BY <2>3, <2>4, CountsTyped DEF OneChainPerFailure, Chains
  <1>10. CASE BeginDestroy
    BY <1>10
    DEF OneChainPerFailure, Chains, InReady, Count, BeginDestroy, client, operations, environment,
        history
  <1>11. CASE EndFlush
    BY <1>11
    DEF OneChainPerFailure, Chains, InReady, Count, EndFlush, client, operations, environment,
        history
  <1>12. CASE SetTerminate
    BY <1>12
    DEF OneChainPerFailure, Chains, InReady, Count, SetTerminate, operations, environment, history
  <1>13. CASE PostClose
    <2> DEFINE h == CloseRequest
    <2>1. h \in Handler /\ h.op = "close" /\ ready' = Append(ready, h)
      BY <1>13, HandlersTyped, LogClientAssumption
      DEF PostClose, Done, Posted, CloseRequest, Types, Message
    <2> HIDE DEF h
    <2>2. \A op : InReady(op)' = InReady(op) + (IF h.op = op THEN 1 ELSE 0)
      BY <2>1, HandlerAdded
    <2>3. InReady("read")' = InReady("read")  /\ InReady("connect")' = InReady("connect") 
      BY <2>1, <2>2, CountsTyped
    <2>4. UNCHANGED <<terminate, failures>> /\ UNCHANGED <<connecting, reads>>
      BY <1>13, CountsTyped DEF PostClose, client, environment, history
    <2>5. QED
      BY <2>3, <2>4, CountsTyped DEF OneChainPerFailure, Chains
  <1>14. CASE Join
    BY <1>14
    DEF OneChainPerFailure, Chains, InReady, Count, Join, client, operations, environment, history
  <1>15. CASE ServerStarts
    BY <1>15
    DEF OneChainPerFailure, Chains, InReady, Count, ServerStarts, client, operations, history
  <1>16. CASE ConnectSucceeds
    <2> DEFINE h == Done("connect", TRUE)
    <2>1. h \in Handler /\ h.op = "connect" /\ ready' = Append(ready, h)
      BY <1>16, HandlersTyped, LogClientAssumption
      DEF ConnectSucceeds, Done, Posted, CloseRequest, Types, Message
    <2> HIDE DEF h
    <2>2. \A op : InReady(op)' = InReady(op) + (IF h.op = op THEN 1 ELSE 0)
      BY <2>1, HandlerAdded
    <2>3. InReady("read")' = InReady("read")  /\ InReady("connect")' = InReady("connect") + 1
      BY <2>1, <2>2, CountsTyped
    <2>4. UNCHANGED <<terminate, failures>> /\ connecting /\ ~connecting' /\ UNCHANGED reads
      BY <1>16, CountsTyped DEF ConnectSucceeds, client, history
    <2>5. QED
      BY <2>3, <2>4, CountsTyped DEF OneChainPerFailure, Chains
  <1>17. CASE ConnectRefused
    <2> DEFINE h == Done("connect", FALSE)
    <2>1. h \in Handler /\ h.op = "connect" /\ ready' = Append(ready, h)
      BY <1>17, HandlersTyped, LogClientAssumption
      DEF ConnectRefused, Done, Posted, CloseRequest, Types, Message
    <2> HIDE DEF h
    <2>2. \A op : InReady(op)' = InReady(op) + (IF h.op = op THEN 1 ELSE 0)
      BY <2>1, HandlerAdded
    <2>3. InReady("read")' = InReady("read")  /\ InReady("connect")' = InReady("connect") + 1
      BY <2>1, <2>2, CountsTyped
    <2>4. UNCHANGED <<terminate, failures>> /\ connecting /\ ~connecting' /\ UNCHANGED reads
      BY <1>17, CountsTyped DEF ConnectRefused, client, history
    <2>5. QED
      BY <2>3, <2>4, CountsTyped DEF OneChainPerFailure, Chains
  <1>18. CASE ConnectionEnds
    BY <1>18
    DEF OneChainPerFailure, Chains, InReady, Count, ConnectionEnds, client, operations, history
  <1>19. CASE ReadFails
    <2> DEFINE h == Done("read", FALSE)
    <2>1. h \in Handler /\ h.op = "read" /\ ready' = Append(ready, h)
      BY <1>19, HandlersTyped, LogClientAssumption
      DEF ReadFails, Done, Posted, CloseRequest, Types, Message
    <2> HIDE DEF h
    <2>2. \A op : InReady(op)' = InReady(op) + (IF h.op = op THEN 1 ELSE 0)
      BY <2>1, HandlerAdded
    <2>3. InReady("read")' = InReady("read") + 1 /\ InReady("connect")' = InReady("connect") 
      BY <2>1, <2>2, CountsTyped
    <2>4. UNCHANGED <<terminate, failures>> /\ reads' = reads - 1 /\ reads > 0
                                                  /\ UNCHANGED connecting
      BY <1>19, CountsTyped DEF ReadFails, client, environment, history
    <2>5. QED
      BY <2>3, <2>4, CountsTyped DEF OneChainPerFailure, Chains
  <1>20. CASE WriteSucceeds
    <2> DEFINE h == Done("write", TRUE)
    <2>1. h \in Handler /\ h.op = "write" /\ ready' = Append(ready, h)
      BY <1>20, HandlersTyped, LogClientAssumption
      DEF WriteSucceeds, Done, Posted, CloseRequest, Types, Message
    <2> HIDE DEF h
    <2>2. \A op : InReady(op)' = InReady(op) + (IF h.op = op THEN 1 ELSE 0)
      BY <2>1, HandlerAdded
    <2>3. InReady("read")' = InReady("read")  /\ InReady("connect")' = InReady("connect") 
      BY <2>1, <2>2, CountsTyped
    <2>4. UNCHANGED <<terminate, failures>> /\ UNCHANGED <<connecting, reads>>
      BY <1>20, CountsTyped DEF WriteSucceeds, client, environment
    <2>5. QED
      BY <2>3, <2>4, CountsTyped DEF OneChainPerFailure, Chains
  <1>21. CASE WriteIntoTheVoid
    <2> DEFINE h == Done("write", TRUE)
    <2>1. h \in Handler /\ h.op = "write" /\ ready' = Append(ready, h)
      BY <1>21, HandlersTyped, LogClientAssumption
      DEF WriteIntoTheVoid, Done, Posted, CloseRequest, Types, Message
    <2> HIDE DEF h
    <2>2. \A op : InReady(op)' = InReady(op) + (IF h.op = op THEN 1 ELSE 0)
      BY <2>1, HandlerAdded
    <2>3. InReady("read")' = InReady("read")  /\ InReady("connect")' = InReady("connect") 
      BY <2>1, <2>2, CountsTyped
    <2>4. UNCHANGED <<terminate, failures>> /\ UNCHANGED <<connecting, reads>>
      BY <1>21, CountsTyped DEF WriteIntoTheVoid, client, history
    <2>5. QED
      BY <2>3, <2>4, CountsTyped DEF OneChainPerFailure, Chains
  <1>22. CASE WriteFails
    <2> DEFINE h == Done("write", FALSE)
    <2>1. h \in Handler /\ h.op = "write" /\ ready' = Append(ready, h)
      BY <1>22, HandlersTyped, LogClientAssumption
      DEF WriteFails, Done, Posted, CloseRequest, Types, Message
    <2> HIDE DEF h
    <2>2. \A op : InReady(op)' = InReady(op) + (IF h.op = op THEN 1 ELSE 0)
      BY <2>1, HandlerAdded
    <2>3. InReady("read")' = InReady("read")  /\ InReady("connect")' = InReady("connect") 
      BY <2>1, <2>2, CountsTyped
    <2>4. UNCHANGED <<terminate, failures>> /\ UNCHANGED <<connecting, reads>>
      BY <1>22, CountsTyped DEF WriteFails, client, environment, history
    <2>5. QED
      BY <2>3, <2>4, CountsTyped DEF OneChainPerFailure, Chains
  <1>23. CASE UNCHANGED vars
    BY <1>23 DEF OneChainPerFailure, Chains, InReady, Count, vars
  <1>24. QED
    BY <1>1, <1>2, <1>3, <1>4, <1>5, <1>6, <1>7, <1>8, <1>9, <1>10, <1>11, <1>12, <1>13, <1>14,
       <1>15, <1>16, <1>17, <1>18, <1>19, <1>20, <1>21, <1>22, <1>23
    DEF Next, IoThread, User, Destructor, Environment, Connecting, Writing

\* What is left of the queue of handlers, in the form the lemmas use.
LEMMA Rests ==
    ASSUME Types, ready # <<>>
    PROVE  /\ <<>> \in Seq(Handler) /\ Tail(ready) = Tail(ready) \o <<>>
           /\ <<Done("write", FALSE)>> \in Seq(Handler)
           /\ Append(Tail(ready), Done("write", FALSE)) = Tail(ready) \o <<Done("write", FALSE)>>
  <1>1. Tail(ready) \in Seq(Handler)
    BY ReadyTyped
  <1> DEFINE h == Done("write", FALSE)
  <1>2. h \in Handler
    BY HandlersTyped
  <1> HIDE DEF h, Handler
  <1>3. Tail(ready) = Tail(ready) \o <<>>
    BY <1>1, ConcatEmptySeq
  <1>4. <<h>> \in Seq(Handler) /\ Append(Tail(ready), h) = Tail(ready) \o <<h>>
    BY <1>1, <1>2, AppendIsConcat
  <1>5. <<>> \in Seq(Handler)
    OBVIOUS
  <1>6. QED
    BY <1>3, <1>4, <1>5 DEF h

\* The handlers a handler leaves behind are failed operations.
LEMMA Leaves ==
    ASSUME Types, ready # <<>>,
           \/ ready' = Tail(ready)
           \/ ready' = Append(Tail(ready), Done("write", FALSE))
           \/ ready' = Tail(ready) \o Aborted
    PROVE  \E t \in Seq(Handler) :
              /\ ready' = Tail(ready) \o t
              /\ \A i \in 1 .. Len(t) : t[i].op \in {"connect", "read", "write"} /\ ~t[i].ok
  <1>1. CASE ready' = Tail(ready)
    <2>1. <<>> \in Seq(Handler) /\ ready' = Tail(ready) \o <<>>
      BY <1>1, Rests
    <2>2. \A i \in 1 .. Len(<<>>) : <<>>[i].op \in {"connect", "read", "write"} /\ ~<<>>[i].ok
      OBVIOUS
    <2>3. QED
      BY <2>1, <2>2
  <1>2. CASE ready' = Append(Tail(ready), Done("write", FALSE))
    <2> DEFINE t == <<Done("write", FALSE)>>
    <2>1. t \in Seq(Handler) /\ ready' = Tail(ready) \o t
      BY <1>2, Rests
    <2>2. \A i \in 1 .. Len(t) : t[i].op \in {"connect", "read", "write"} /\ ~t[i].ok
      BY DEF Done
    <2> HIDE DEF t
    <2>3. QED
      BY <2>1, <2>2
  <1>3. CASE ready' = Tail(ready) \o Aborted
    <2>1. /\ Aborted \in Seq(Handler)
          /\ \A i \in 1 .. Len(Aborted) :
               Aborted[i] \in {Done("read", FALSE), Done("connect", FALSE), Done("write", FALSE)}
      BY AbortedAre, Zenon
    <2>2. \A i \in 1 .. Len(Aborted) : Aborted[i].op \in {"connect", "read", "write"}
          /\ ~Aborted[i].ok
      BY <2>1 DEF Done
    <2>3. QED
      BY <1>3, <2>1, <2>2
  <1>4. QED
    BY <1>1, <1>2, <1>3

LEMMA TerminateStep ==
    ASSUME Types, TerminateInv, [Next]_vars
    PROVE  TerminateInv'
  <1>1. CASE HandleConnected
    <2>1. ready # <<>> /\ UNCHANGED <<user, terminate>>
      BY <1>1 DEF HandleConnected, Executes, client
    <2>2. \/ ready' = Tail(ready)
          \/ ready' = Append(Tail(ready), Done("write", FALSE))
          \/ ready' = Tail(ready) \o Aborted
      BY <1>1 DEF HandleConnected, AsyncWrite
    <2>3. PICK t \in Seq(Handler) :
             /\ ready' = Tail(ready) \o t
             /\ \A i \in 1 .. Len(t) : t[i].op \in {"connect", "read", "write"} /\ ~t[i].ok
      BY <2>1, <2>2, Leaves
    <2>4. \A i \in 1 .. Len(ready') :
             \/ i + 1 \in 1 .. Len(ready) /\ ready'[i] = ready[i + 1]
             \/ i - (Len(ready) - 1) \in 1 .. Len(t) /\ ready'[i] = t[i - (Len(ready) - 1)]
      BY <2>1, <2>3, HeadLeaves
    <2>5. QED
      BY <2>1, <2>3, <2>4 DEF TerminateInv
  <1>2. CASE HandleConnectFailed
    <2>1. ready # <<>> /\ UNCHANGED <<user, terminate>>
      BY <1>2 DEF HandleConnectFailed, Executes, client
    <2>2. \/ ready' = Tail(ready)
          \/ ready' = Append(Tail(ready), Done("write", FALSE))
          \/ ready' = Tail(ready) \o Aborted
      BY <1>2 DEF HandleConnectFailed, DoConnect, AsyncConnect
    <2>3. PICK t \in Seq(Handler) :
             /\ ready' = Tail(ready) \o t
             /\ \A i \in 1 .. Len(t) : t[i].op \in {"connect", "read", "write"} /\ ~t[i].ok
      BY <2>1, <2>2, Leaves
    <2>4. \A i \in 1 .. Len(ready') :
             \/ i + 1 \in 1 .. Len(ready) /\ ready'[i] = ready[i + 1]
             \/ i - (Len(ready) - 1) \in 1 .. Len(t) /\ ready'[i] = t[i - (Len(ready) - 1)]
      BY <2>1, <2>3, HeadLeaves
    <2>5. QED
      BY <2>1, <2>3, <2>4 DEF TerminateInv
  <1>3. CASE HandleReadError
    <2>1. ready # <<>> /\ UNCHANGED <<user, terminate>>
      BY <1>3 DEF HandleReadError, Executes, client
    <2>2. \/ ready' = Tail(ready)
          \/ ready' = Append(Tail(ready), Done("write", FALSE))
          \/ ready' = Tail(ready) \o Aborted
      BY <1>3 DEF HandleReadError, DoConnect, AsyncConnect
    <2>3. PICK t \in Seq(Handler) :
             /\ ready' = Tail(ready) \o t
             /\ \A i \in 1 .. Len(t) : t[i].op \in {"connect", "read", "write"} /\ ~t[i].ok
      BY <2>1, <2>2, Leaves
    <2>4. \A i \in 1 .. Len(ready') :
             \/ i + 1 \in 1 .. Len(ready) /\ ready'[i] = ready[i + 1]
             \/ i - (Len(ready) - 1) \in 1 .. Len(t) /\ ready'[i] = t[i - (Len(ready) - 1)]
      BY <2>1, <2>3, HeadLeaves
    <2>5. QED
      BY <2>1, <2>3, <2>4 DEF TerminateInv
  <1>4. CASE HandleMessage
    <2>1. ready # <<>> /\ UNCHANGED <<user, terminate>>
      BY <1>4 DEF HandleMessage, Executes, client
    <2>2. \/ ready' = Tail(ready)
          \/ ready' = Append(Tail(ready), Done("write", FALSE))
          \/ ready' = Tail(ready) \o Aborted
      BY <1>4 DEF HandleMessage, AsyncWrite
    <2>3. PICK t \in Seq(Handler) :
             /\ ready' = Tail(ready) \o t
             /\ \A i \in 1 .. Len(t) : t[i].op \in {"connect", "read", "write"} /\ ~t[i].ok
      BY <2>1, <2>2, Leaves
    <2>4. \A i \in 1 .. Len(ready') :
             \/ i + 1 \in 1 .. Len(ready) /\ ready'[i] = ready[i + 1]
             \/ i - (Len(ready) - 1) \in 1 .. Len(t) /\ ready'[i] = t[i - (Len(ready) - 1)]
      BY <2>1, <2>3, HeadLeaves
    <2>5. QED
      BY <2>1, <2>3, <2>4 DEF TerminateInv
  <1>5. CASE HandleWritten
    <2>1. ready # <<>> /\ UNCHANGED <<user, terminate>>
      BY <1>5 DEF HandleWritten, Executes, client
    <2>2. \/ ready' = Tail(ready)
          \/ ready' = Append(Tail(ready), Done("write", FALSE))
          \/ ready' = Tail(ready) \o Aborted
      BY <1>5 DEF HandleWritten, AsyncWrite
    <2>3. PICK t \in Seq(Handler) :
             /\ ready' = Tail(ready) \o t
             /\ \A i \in 1 .. Len(t) : t[i].op \in {"connect", "read", "write"} /\ ~t[i].ok
      BY <2>1, <2>2, Leaves
    <2>4. \A i \in 1 .. Len(ready') :
             \/ i + 1 \in 1 .. Len(ready) /\ ready'[i] = ready[i + 1]
             \/ i - (Len(ready) - 1) \in 1 .. Len(t) /\ ready'[i] = t[i - (Len(ready) - 1)]
      BY <2>1, <2>3, HeadLeaves
    <2>5. QED
      BY <2>1, <2>3, <2>4 DEF TerminateInv
  <1>6. CASE HandleWriteError
    <2>1. ready # <<>> /\ UNCHANGED <<user, terminate>>
      BY <1>6 DEF HandleWriteError, Executes, client
    <2>2. \/ ready' = Tail(ready)
          \/ ready' = Append(Tail(ready), Done("write", FALSE))
          \/ ready' = Tail(ready) \o Aborted
      BY <1>6 DEF HandleWriteError, Close, AsyncConnect
    <2>3. PICK t \in Seq(Handler) :
             /\ ready' = Tail(ready) \o t
             /\ \A i \in 1 .. Len(t) : t[i].op \in {"connect", "read", "write"} /\ ~t[i].ok
      BY <2>1, <2>2, Leaves
    <2>4. \A i \in 1 .. Len(ready') :
             \/ i + 1 \in 1 .. Len(ready) /\ ready'[i] = ready[i + 1]
             \/ i - (Len(ready) - 1) \in 1 .. Len(t) /\ ready'[i] = t[i - (Len(ready) - 1)]
      BY <2>1, <2>3, HeadLeaves
    <2>5. QED
      BY <2>1, <2>3, <2>4 DEF TerminateInv
  <1>7. CASE HandleClose
    <2>1. ready # <<>> /\ UNCHANGED <<user, terminate>>
      BY <1>7 DEF HandleClose, Executes, client
    <2>2. \/ ready' = Tail(ready)
          \/ ready' = Append(Tail(ready), Done("write", FALSE))
          \/ ready' = Tail(ready) \o Aborted
      BY <1>7 DEF HandleClose, Close
    <2>3. PICK t \in Seq(Handler) :
             /\ ready' = Tail(ready) \o t
             /\ \A i \in 1 .. Len(t) : t[i].op \in {"connect", "read", "write"} /\ ~t[i].ok
      BY <2>1, <2>2, Leaves
    <2>4. \A i \in 1 .. Len(ready') :
             \/ i + 1 \in 1 .. Len(ready) /\ ready'[i] = ready[i + 1]
             \/ i - (Len(ready) - 1) \in 1 .. Len(t) /\ ready'[i] = t[i - (Len(ready) - 1)]
      BY <2>1, <2>3, HeadLeaves
    <2>5. QED
      BY <2>1, <2>3, <2>4 DEF TerminateInv
  <1>8. CASE IoThreadExits
    BY <1>8 DEF TerminateInv, IoThreadExits, client, operations, environment, history
  <1>9. CASE Send
    <2> DEFINE h == Posted(sent')
    <2>1. h \in Handler /\ h.op = "queue" /\ ready' = Append(ready, h)
      BY <1>9, HandlersTyped, LogClientAssumption
      DEF Send, Done, Posted, CloseRequest, Types, Message
    <2> HIDE DEF h
    <2>2. \A i \in 1 .. Len(ready') :
             \/ i \in 1 .. Len(ready) /\ ready'[i] = ready[i]
             \/ i = Len(ready) + 1 /\ ready'[i] = h
      BY <2>1, HandlerAdded
    <2>3. QED
      BY <1>9, <2>1, <2>2 DEF TerminateInv, Send, client, environment, history
  <1>10. CASE BeginDestroy
    BY <1>10 DEF TerminateInv, BeginDestroy, client, operations, environment, history
  <1>11. CASE EndFlush
    BY <1>11 DEF TerminateInv, EndFlush, client, operations, environment, history
  <1>12. CASE SetTerminate
    BY <1>12 DEF TerminateInv, SetTerminate, operations, environment, history
  <1>13. CASE PostClose
    <2> DEFINE h == CloseRequest
    <2>1. h \in Handler /\ h.op = "close" /\ ready' = Append(ready, h)
      BY <1>13, HandlersTyped, LogClientAssumption
      DEF PostClose, Done, Posted, CloseRequest, Types, Message
    <2> HIDE DEF h
    <2>2. \A i \in 1 .. Len(ready') :
             \/ i \in 1 .. Len(ready) /\ ready'[i] = ready[i]
             \/ i = Len(ready) + 1 /\ ready'[i] = h
      BY <2>1, HandlerAdded
    <2>3. QED
      BY <1>13, <2>1, <2>2 DEF TerminateInv, PostClose, client, environment, history
  <1>14. CASE Join
    BY <1>14 DEF TerminateInv, Join, client, operations, environment, history
  <1>15. CASE ServerStarts
    BY <1>15 DEF TerminateInv, ServerStarts, client, operations, history
  <1>16. CASE ConnectSucceeds
    <2> DEFINE h == Done("connect", TRUE)
    <2>1. h \in Handler /\ h.op = "connect" /\ ready' = Append(ready, h)
      BY <1>16, HandlersTyped, LogClientAssumption
      DEF ConnectSucceeds, Done, Posted, CloseRequest, Types, Message
    <2> HIDE DEF h
    <2>2. \A i \in 1 .. Len(ready') :
             \/ i \in 1 .. Len(ready) /\ ready'[i] = ready[i]
             \/ i = Len(ready) + 1 /\ ready'[i] = h
      BY <2>1, HandlerAdded
    <2>3. QED
      BY <1>16, <2>1, <2>2 DEF TerminateInv, ConnectSucceeds, client, history
  <1>17. CASE ConnectRefused
    <2> DEFINE h == Done("connect", FALSE)
    <2>1. h \in Handler /\ h.op = "connect" /\ ready' = Append(ready, h)
      BY <1>17, HandlersTyped, LogClientAssumption
      DEF ConnectRefused, Done, Posted, CloseRequest, Types, Message
    <2> HIDE DEF h
    <2>2. \A i \in 1 .. Len(ready') :
             \/ i \in 1 .. Len(ready) /\ ready'[i] = ready[i]
             \/ i = Len(ready) + 1 /\ ready'[i] = h
      BY <2>1, HandlerAdded
    <2>3. QED
      BY <1>17, <2>1, <2>2 DEF TerminateInv, ConnectRefused, client, history
  <1>18. CASE ConnectionEnds
    BY <1>18 DEF TerminateInv, ConnectionEnds, client, operations, history
  <1>19. CASE ReadFails
    <2> DEFINE h == Done("read", FALSE)
    <2>1. h \in Handler /\ h.op = "read" /\ ready' = Append(ready, h)
      BY <1>19, HandlersTyped, LogClientAssumption
      DEF ReadFails, Done, Posted, CloseRequest, Types, Message
    <2> HIDE DEF h
    <2>2. \A i \in 1 .. Len(ready') :
             \/ i \in 1 .. Len(ready) /\ ready'[i] = ready[i]
             \/ i = Len(ready) + 1 /\ ready'[i] = h
      BY <2>1, HandlerAdded
    <2>3. QED
      BY <1>19, <2>1, <2>2 DEF TerminateInv, ReadFails, client, environment, history
  <1>20. CASE WriteSucceeds
    <2> DEFINE h == Done("write", TRUE)
    <2>1. h \in Handler /\ h.op = "write" /\ ready' = Append(ready, h)
      BY <1>20, HandlersTyped, LogClientAssumption
      DEF WriteSucceeds, Done, Posted, CloseRequest, Types, Message
    <2> HIDE DEF h
    <2>2. \A i \in 1 .. Len(ready') :
             \/ i \in 1 .. Len(ready) /\ ready'[i] = ready[i]
             \/ i = Len(ready) + 1 /\ ready'[i] = h
      BY <2>1, HandlerAdded
    <2>3. QED
      BY <1>20, <2>1, <2>2 DEF TerminateInv, WriteSucceeds, client, environment
  <1>21. CASE WriteIntoTheVoid
    <2> DEFINE h == Done("write", TRUE)
    <2>1. h \in Handler /\ h.op = "write" /\ ready' = Append(ready, h)
      BY <1>21, HandlersTyped, LogClientAssumption
      DEF WriteIntoTheVoid, Done, Posted, CloseRequest, Types, Message
    <2> HIDE DEF h
    <2>2. \A i \in 1 .. Len(ready') :
             \/ i \in 1 .. Len(ready) /\ ready'[i] = ready[i]
             \/ i = Len(ready) + 1 /\ ready'[i] = h
      BY <2>1, HandlerAdded
    <2>3. QED
      BY <1>21, <2>1, <2>2 DEF TerminateInv, WriteIntoTheVoid, client, history
  <1>22. CASE WriteFails
    <2> DEFINE h == Done("write", FALSE)
    <2>1. h \in Handler /\ h.op = "write" /\ ready' = Append(ready, h)
      BY <1>22, HandlersTyped, LogClientAssumption
      DEF WriteFails, Done, Posted, CloseRequest, Types, Message
    <2> HIDE DEF h
    <2>2. \A i \in 1 .. Len(ready') :
             \/ i \in 1 .. Len(ready) /\ ready'[i] = ready[i]
             \/ i = Len(ready) + 1 /\ ready'[i] = h
      BY <2>1, HandlerAdded
    <2>3. QED
      BY <1>22, <2>1, <2>2 DEF TerminateInv, WriteFails, client, environment, history
  <1>23. CASE UNCHANGED vars
    BY <1>23 DEF TerminateInv, vars
  <1>24. QED
    BY <1>1, <1>2, <1>3, <1>4, <1>5, <1>6, <1>7, <1>8, <1>9, <1>10, <1>11, <1>12, <1>13, <1>14,
       <1>15, <1>16, <1>17, <1>18, <1>19, <1>20, <1>21, <1>22, <1>23
    DEF Next, IoThread, User, Destructor, Environment, Connecting, Writing

\* The handlers that stay keep the order of the messages that were posted.
LEMMA PostedKept ==
    ASSUME Types, PostedInv, ready # <<>>, NEW t \in Seq(Handler), ready' = Tail(ready) \o t,
           Head(ready).op # "queue", \A i \in 1 .. Len(t) : t[i].op # "queue",
           Queued' = Queued, sent' = sent
    PROVE  PostedInv'
  <1>1. /\ ready[1] = Head(ready) /\ 1 \in 1 .. Len(ready)
        /\ \A i \in 1 .. Len(ready') :
             \/ i + 1 \in 1 .. Len(ready) /\ ready'[i] = ready[i + 1]
             \/ i - (Len(ready) - 1) \in 1 .. Len(t) /\ ready'[i] = t[i - (Len(ready) - 1)]
        /\ \A i \in 1 .. Len(ready) : i # 1 =>
              i - 1 \in 1 .. Len(ready') /\ ready'[i - 1] = ready[i]
    BY HeadLeaves
  <1>2. ASSUME NEW i \in 1 .. Len(ready'), ready'[i].op = "queue"
        PROVE  i + 1 \in 1 .. Len(ready) /\ ready'[i] = ready[i + 1]
    BY <1>1, <1>2
  <1>3. ASSUME NEW i \in 1 .. Len(ready'), ready'[i].op = "queue"
        PROVE  Queued' < ready'[i].msg /\ ready'[i].msg <= sent'
    BY <1>2, <1>3 DEF PostedInv
  <1>4. ASSUME NEW i \in 1 .. Len(ready'), NEW j \in 1 .. Len(ready'),
               ready'[i].op = "queue", ready'[j].op = "queue", i < j
        PROVE  ready'[i].msg < ready'[j].msg
    <2>1. /\ i + 1 \in 1 .. Len(ready) /\ ready'[i] = ready[i + 1]
          /\ j + 1 \in 1 .. Len(ready) /\ ready'[j] = ready[j + 1]
      BY <1>2, <1>4
    <2>2. i + 1 < j + 1
      BY <1>4
    <2>3. QED
      BY <1>4, <2>1, <2>2 DEF PostedInv
  <1>5. ASSUME NEW m \in 1 .. sent', Queued' < m
        PROVE  \E i \in 1 .. Len(ready') : ready'[i].op = "queue" /\ ready'[i].msg = m
    <2>1. PICK i \in 1 .. Len(ready) : ready[i].op = "queue" /\ ready[i].msg = m
      BY <1>5 DEF PostedInv
    <2>2. i # 1
      BY <1>1, <2>1
    <2>3. QED
      BY <1>1, <2>1, <2>2
  <1>6. QED
    BY <1>3, <1>4, <1>5 DEF PostedInv

\* So do those before a handler that is added and is no message.
LEMMA PostedKeptBefore ==
    ASSUME Types, PostedInv, NEW h \in Handler, ready' = Append(ready, h), h.op # "queue",
           Queued' = Queued, sent' = sent
    PROVE  PostedInv'
  <1>1. /\ \A i \in 1 .. Len(ready') :
                \/ i \in 1 .. Len(ready) /\ ready'[i] = ready[i]
                \/ i = Len(ready) + 1 /\ ready'[i] = h
        /\ \A i \in 1 .. Len(ready) : i \in 1 .. Len(ready') /\ ready'[i] = ready[i]
    BY HandlerAdded
  <1>2. QED
    BY <1>1 DEF PostedInv

\* The handlers that stay keep the order, if no message and no write that
\* succeeded is among those that leave and those that come.
LEMMA OrderKept ==
    ASSUME Types, OrderInv, ready # <<>>, NEW t \in Seq(Handler), ready' = Tail(ready) \o t,
           Head(ready).op # "queue", ~(IsWrite(Head(ready)) /\ Head(ready).ok),
           \A i \in 1 .. Len(t) : t[i].op # "queue" /\ ~t[i].ok,
           UNCHANGED <<wire, queue, sent>>
    PROVE  OrderInv'
  <1>1. /\ ready[1] = Head(ready) /\ 1 \in 1 .. Len(ready)
        /\ \A i \in 1 .. Len(ready') :
             \/ i + 1 \in 1 .. Len(ready) /\ ready'[i] = ready[i + 1]
             \/ i - (Len(ready) - 1) \in 1 .. Len(t) /\ ready'[i] = t[i - (Len(ready) - 1)]
        /\ \A i \in 1 .. Len(ready) : i # 1 =>
              i - 1 \in 1 .. Len(ready') /\ ready'[i - 1] = ready[i]
    BY HeadLeaves
  <1>2. Written' <=> Written
    <2>1. ASSUME NEW i \in 1 .. Len(ready'), IsWrite(ready'[i]), ready'[i].ok
          PROVE  Written
      BY <1>1, <2>1 DEF Written
    <2>2. ASSUME NEW i \in 1 .. Len(ready), IsWrite(ready[i]), ready[i].ok
          PROVE  Written'
      <3>1. i # 1
        BY <1>1, <2>2
      <3>2. i - 1 \in 1 .. Len(ready') /\ ready'[i - 1] = ready[i]
        BY <1>1, <3>1
      <3>3. QED
        BY <2>2, <3>2 DEF Written, IsWrite
    <2>3. QED
      BY <2>1, <2>2 DEF Written, IsWrite
  <1>3. Popped' = Popped /\ Queued' = Queued
    BY <1>2 DEF Popped, Queued
  <1>4. PostedInv'
    BY <1>3, PostedKept DEF OrderInv
  <1>5. QED
    BY <1>3, <1>4 DEF OrderInv

\* A handler that is no message and no write that succeeded is added.
LEMMA OrderKeptBefore ==
    ASSUME Types, OrderInv, NEW h \in Handler, ready' = Append(ready, h),
           h.op # "queue", ~(IsWrite(h) /\ h.ok),
           UNCHANGED <<wire, queue, sent>>
    PROVE  OrderInv'
  <1>1. /\ \A i \in 1 .. Len(ready') :
                \/ i \in 1 .. Len(ready) /\ ready'[i] = ready[i]
                \/ i = Len(ready) + 1 /\ ready'[i] = h
        /\ \A i \in 1 .. Len(ready) : i \in 1 .. Len(ready') /\ ready'[i] = ready[i]
    BY HandlerAdded
  <1>2. Written' <=> Written
    BY <1>1 DEF Written, IsWrite
  <1>3. Popped' = Popped /\ Queued' = Queued
    BY <1>2 DEF Popped, Queued
  <1>4. PostedInv'
    BY <1>3, PostedKeptBefore DEF OrderInv
  <1>5. QED
    BY <1>3, <1>4 DEF OrderInv

\* On the first connection, no operation waits on a socket that has no
\* connection and is not being connected.
LEMMA NothingWaits ==
    ASSUME Types, SocketInv, WriteInv, sock \in {"closed", "dead"}
    PROVE  ~connecting /\ reads = 0 /\ writes = <<>> /\ Aborted = <<>>
  <1>1. ~connecting /\ reads = 0 /\ writes = <<>>
    BY DEF Types, SocketInv, WriteInv
  <1>2. Aborted \in Seq(Handler) /\ Len(Aborted) = 0
    BY <1>1, AbortedAre
  <1>3. QED
    BY <1>1, <1>2, EmptySeq

\* The handler that is executed.
LEMMA HeadIs ==
    ASSUME Types, ready # <<>>
    PROVE  ready[1] = Head(ready) /\ Head(ready) \in Handler /\ 1 \in 1 .. Len(ready)
  <1>1. ready \in Seq(Handler)
    BY DEF Types
  <1> HIDE DEF Handler
  <1>2. QED
    BY <1>1, EmptySeq, HeadTailProperties

\* Nothing is added, and no message and no write that succeeded leaves.
LEMMA OrderKeptAfter ==
    ASSUME Types, OrderInv, ready # <<>>, ready' = Tail(ready),
           Head(ready).op # "queue", ~(IsWrite(Head(ready)) /\ Head(ready).ok),
           UNCHANGED <<wire, queue, sent>>
    PROVE  OrderInv'
  <1>1. <<>> \in Seq(Handler) /\ ready' = Tail(ready) \o <<>>
    BY Rests
  <1>2. \A i \in 1 .. Len(<<>>) : <<>>[i].op # "queue" /\ ~<<>>[i].ok
    OBVIOUS
  <1>3. QED
    BY <1>1, <1>2, OrderKept

\* Nothing of the first connection changes.
LEMMA FirstUnchanged ==
    ASSUME SocketInv, WriteInv, OrderInv, terminate => terminate',
           UNCHANGED <<connected, queue, sent, ready, connecting, reads, writes, sock, wire>>
    PROVE  SocketInv' /\ WriteInv' /\ OrderInv'
  <1>1. SocketInv'
    BY DEF SocketInv, IsChain
  <1>2. WriteInv'
    BY DEF WriteInv, IsWrite
  <1>3. Popped' = Popped /\ Queued' = Queued
    BY DEF Popped, Queued, Written, IsWrite
  <1>4. OrderInv'
    BY <1>3 DEF OrderInv, PostedInv
  <1>5. QED
    BY <1>1, <1>2, <1>4

\* The writes that failed are handled one after the other.
LEMMA WritesLeft ==
    ASSUME Types, WriteInv, sock = "closed", sock' = "closed", queue # <<>> => queue' # <<>>,
           writes' = <<>>,
           \A i \in 1 .. Len(ready') : i + 1 \in 1 .. Len(ready) /\ ready'[i] = ready[i + 1]
    PROVE  WriteInv'
  <1>1. ASSUME NEW i \in 1 .. Len(ready'), IsWrite(ready'[i])
        PROVE  /\ queue' # <<>>
               /\ \A j \in 1 .. Len(ready') : IsWrite(ready'[j]) => j = i
    <2>1. i + 1 \in 1 .. Len(ready) /\ IsWrite(ready[i + 1])
      BY <1>1
    <2>2. queue' # <<>>
      BY <2>1 DEF WriteInv
    <2>3. ASSUME NEW j \in 1 .. Len(ready'), IsWrite(ready'[j])
          PROVE  j = i
      <3>1. j + 1 \in 1 .. Len(ready) /\ IsWrite(ready[j + 1])
        BY <2>3
      <3>2. j + 1 = i + 1
        BY <2>1, <3>1 DEF WriteInv
      <3>3. QED
        BY <3>2
    <2>4. QED
      BY <2>2, <2>3
  <1>2. Len(writes') = 0
    OBVIOUS
  <1>3. QED
    BY <1>1, <1>2 DEF WriteInv

\* The loop that gave its operation to the queue of handlers is still there.
LEMMA ChainsLeft ==
    ASSUME Types, SocketInv, sock = "closed", sock' = "closed", terminate', connected' =>
          connected,
           ~connecting', reads' = 0,
           \A i \in 1 .. Len(ready') : i + 1 \in 1 .. Len(ready) /\ ready'[i] = ready[i + 1]
    PROVE  SocketInv'
  <1>1. ASSUME NEW i \in 1 .. Len(ready'), IsChain(ready'[i])
        PROVE  /\ \A j \in 1 .. Len(ready') : IsChain(ready'[j]) => j = i
               /\ ready'[i].op = "connect" => ~connected'
    <2>1. i + 1 \in 1 .. Len(ready) /\ IsChain(ready[i + 1]) /\ ready'[i] = ready[i + 1]
      BY <1>1
    <2>2. ASSUME NEW j \in 1 .. Len(ready'), IsChain(ready'[j])
          PROVE  j = i
      <3>1. j + 1 \in 1 .. Len(ready) /\ IsChain(ready[j + 1])
        BY <2>2
      <3>2. j + 1 = i + 1
        BY <2>1, <3>1 DEF SocketInv
      <3>3. QED
        BY <3>2
    <2>3. QED
      BY <2>1, <2>2 DEF SocketInv
  <1>2. QED
    BY <1>1 DEF SocketInv

\* A handler is added which belongs to no loop.
LEMMA ChainsBefore ==
    ASSUME SocketInv, NEW h, ~IsChain(h),
           \A i \in 1 .. Len(ready') :
                \/ i \in 1 .. Len(ready) /\ ready'[i] = ready[i]
                \/ i = Len(ready) + 1 /\ ready'[i] = h,
           UNCHANGED <<connected, terminate, connecting, reads, sock>>
    PROVE  SocketInv'
  BY DEF SocketInv

\* A handler is added which belongs to no operation on the socket.
LEMMA OthersAdded ==
    ASSUME SocketInv, WriteInv, NEW h, ~IsChain(h), ~IsWrite(h),
           \A i \in 1 .. Len(ready') :
                \/ i \in 1 .. Len(ready) /\ ready'[i] = ready[i]
                \/ i = Len(ready) + 1 /\ ready'[i] = h,
           \A i \in 1 .. Len(ready) : i \in 1 .. Len(ready') /\ ready'[i] = ready[i],
           UNCHANGED <<connected, terminate, queue, connecting, reads, writes, sock>>
    PROVE  SocketInv' /\ WriteInv'
  <1>1. SocketInv'
    BY ChainsBefore
  <1>2. WriteInv'
    BY DEF WriteInv
  <1>3. QED
    BY <1>1, <1>2

\* The head of the queue of handlers belonged to no loop, and those that were
\* added do not.
LEMMA ChainsAfter ==
    ASSUME Types, SocketInv, ready # <<>>, NEW t \in Seq(Handler), ready' = Tail(ready) \o t,
           \A i \in 1 .. Len(t) : ~IsChain(t[i]),
           UNCHANGED <<connected, terminate, connecting, reads, sock>>
    PROVE  SocketInv'
  <1>1. \A i \in 1 .. Len(ready') :
             \/ i + 1 \in 1 .. Len(ready) /\ ready'[i] = ready[i + 1]
             \/ i - (Len(ready) - 1) \in 1 .. Len(t) /\ ready'[i] = t[i - (Len(ready) - 1)]
    BY HeadLeaves
  <1>2. ASSUME NEW i \in 1 .. Len(ready'), IsChain(ready'[i])
        PROVE  i + 1 \in 1 .. Len(ready) /\ ready'[i] = ready[i + 1] /\ IsChain(ready[i + 1])
    BY <1>1, <1>2
  <1>3. ASSUME NEW i \in 1 .. Len(ready'), IsChain(ready'[i]), NEW j \in 1 .. Len(ready'),
        IsChain(ready'[j])
        PROVE  j = i
    <2>1. i + 1 = j + 1
      BY <1>2, <1>3 DEF SocketInv
    <2>2. QED
      BY <2>1
  <1>4. QED
    BY <1>2, <1>3 DEF SocketInv

\* The messages that were posted are messages.
LEMMA PostedTyped ==
    ASSUME Types, NEW i \in 1 .. Len(ready), ready[i].op = "queue"
    PROVE  ready[i].msg \in Message /\ ready[i].msg \in Nat
  <1>1. ready[i] \in Handler
    BY DEF Types
  <1>2. ready[i].msg \in Message
    BY <1>1 DEF Handler, CloseRequest
  <1>3. QED
    BY <1>2 DEF Message

LEMMA PoppedTyped ==
    ASSUME Types
    PROVE  Popped \in Int /\ Queued \in Int /\ Len(wire) \in Nat /\ Len(queue) \in Nat
          /\ sent \in Nat
  <1>1. Len(wire) \in Nat /\ Len(queue) \in Nat /\ sent \in Nat
    BY LogClientAssumption DEF Types
  <1>2. QED
    BY <1>1 DEF Popped, Queued

\* A write that is started leaves behind its failure, if anything.
LEMMA WriteLeaves ==
    ASSUME Types, ready # <<>>,
           ready' = Tail(ready) \/ ready' = Append(Tail(ready), Done("write", FALSE))
    PROVE  \E t \in Seq(Handler) :
              /\ ready' = Tail(ready) \o t
              /\ \A i \in 1 .. Len(t) : t[i].op = "write" /\ ~t[i].ok
  <1>1. CASE ready' = Tail(ready)
    <2>1. <<>> \in Seq(Handler) /\ ready' = Tail(ready) \o <<>>
      BY <1>1, Rests
    <2>2. \A i \in 1 .. Len(<<>>) : <<>>[i].op = "write" /\ ~<<>>[i].ok
      OBVIOUS
    <2>3. QED
      BY <2>1, <2>2
  <1>2. CASE ready' = Append(Tail(ready), Done("write", FALSE))
    <2> DEFINE t == <<Done("write", FALSE)>>
    <2>1. t \in Seq(Handler) /\ ready' = Tail(ready) \o t
      BY <1>2, Rests
    <2>2. \A i \in 1 .. Len(t) : t[i].op = "write" /\ ~t[i].ok
      BY DEF Done
    <2> HIDE DEF t
    <2>3. QED
      BY <2>1, <2>2
  <1>3. QED
    BY <1>1, <1>2

\* On a closed socket, one failed write is all that the invariant allows.
LEMMA OneWriteLost ==
    ASSUME sock' = "closed", queue' # <<>>, writes' = <<>>,
           NEW n, \A i \in 1 .. Len(ready') : IsWrite(ready'[i]) => i = n
    PROVE  WriteInv'
  <1>1. Len(writes') = 0
    OBVIOUS
  <1>2. QED
    BY <1>1 DEF WriteInv

\* A write on a closed socket fails, and is the only one.
LEMMA WriteLost ==
    ASSUME Types, ready # <<>>, sock' = "closed", queue' # <<>>, writes' = <<>>,
           ready' = Append(Tail(ready), Done("write", FALSE)),
           \A i \in 1 .. Len(ready) : i # 1 => ~IsWrite(ready[i])
    PROVE  WriteInv'
  <1> DEFINE t == <<Done("write", FALSE)>>
  <1>1. t \in Seq(Handler) /\ ready' = Tail(ready) \o t
    BY Rests
  <1>2. Len(t) = 1 /\ ~t[1].ok
    BY DEF Done
  <1> HIDE DEF t
  <1>3. \A i \in 1 .. Len(ready') :
             \/ i + 1 \in 1 .. Len(ready) /\ ready'[i] = ready[i + 1]
             \/ i - (Len(ready) - 1) \in 1 .. Len(t) /\ ready'[i] = t[i - (Len(ready) - 1)]
    BY <1>1, HeadLeaves
  <1>4. Len(ready) \in Nat
    BY DEF Types
  <1>5. ASSUME NEW i \in 1 .. Len(ready'), IsWrite(ready'[i])
        PROVE  i = Len(ready)
    <2>1. CASE i + 1 \in 1 .. Len(ready) /\ ready'[i] = ready[i + 1]
      <3>1. i + 1 # 1
        OBVIOUS
      <3>2. QED
        BY <1>5, <2>1, <3>1
    <2>2. CASE i - (Len(ready) - 1) \in 1 .. Len(t)
      BY <1>2, <1>4, <2>2
    <2>3. QED
      BY <1>3, <2>1, <2>2
  <1>6. QED
    BY <1>5, OneWriteLost

\* A message that is written leaves the queue later.
LEMMA PoppedIsNat ==
    ASSUME Types, WriteInv, OrderInv
    PROVE  Popped \in Nat /\ Queued \in Nat
  <1>1. Len(wire) \in Nat /\ Len(queue) \in Nat
    BY PoppedTyped
  <1>2. Popped \in Nat
    <2>1. CASE ~Written
      BY <1>1, <2>1 DEF Popped
    <2>2. CASE Written
      <3>1. queue # <<>>
        BY <2>2 DEF WriteInv, Written
      <3>2. queue \in Seq(Message)
        BY MessagesTyped
      <3>3. 1 \in 1 .. Len(queue) /\ queue[1] \in Message
        <4> HIDE DEF Message
        <4>1. QED
          BY <1>1, <3>1, <3>2, EmptySeq
      <3>4. queue[1] = Popped + 1 /\ Popped \in Int
        BY <3>3, PoppedTyped DEF OrderInv
      <3>5. QED
        BY <3>3, <3>4 DEF Message
    <2>3. QED
      BY <2>1, <2>2
  <1>3. QED
    BY <1>1, <1>2 DEF Queued

LEMMA FirstStep ==
    ASSUME Types, TerminateInv, SocketInv, WriteInv, OrderInv, closes = 0, closes' = 0,
          [Next]_vars
    PROVE  (SocketInv /\ WriteInv /\ OrderInv)'
  <1>1. CASE HandleConnected
    <2>1. /\ ready # <<>> /\ Head(ready).op = "connect" /\ Head(ready).ok /\ sock # "closed"
          /\ connected' = TRUE /\ reads' = reads + 1
          /\ UNCHANGED <<terminate, queue, sent, connecting, sock, wire>>
      BY <1>1 DEF HandleConnected, Executes, ConnectOk, environment, history
    <2>2. /\ ready[1] = Head(ready) /\ 1 \in 1 .. Len(ready)
      BY <2>1, HeadIs
    <2>3. sock = "established" /\ ~connecting /\ reads = 0 /\ ~connected
      BY <2>1, <2>2 DEF SocketInv, IsChain
    <2>4. writes = <<>> /\ \A i \in 1 .. Len(ready) : ~IsWrite(ready[i])
      BY <2>3 DEF WriteInv
    <2>5. ready' = Tail(ready) /\ writes' = IF queue = <<>> THEN <<>> ELSE <<queue[1]>>
      BY <1>1, <2>1, <2>4 DEF HandleConnected, AsyncWrite
    <2>6. \A i \in 1 .. Len(ready') : i + 1 \in 1 .. Len(ready) /\ ready'[i] = ready[i + 1]
      BY <2>1, <2>5, OnlyHeadLeaves
    <2>7. \A i \in 1 .. Len(ready') : ~IsChain(ready'[i]) /\ ~IsWrite(ready'[i])
      <3>1. ASSUME NEW i \in 1 .. Len(ready')
            PROVE  ~IsChain(ready'[i]) /\ ~IsWrite(ready'[i])
        <4>1. i + 1 \in 1 .. Len(ready) /\ ready'[i] = ready[i + 1] /\ i + 1 # 1
          BY <2>6
        <4>2. QED
          BY <2>1, <2>2, <2>4, <4>1 DEF SocketInv, IsChain
      <3>2. QED
        BY <3>1
    <2>8. SocketInv'
      BY <2>1, <2>3, <2>7 DEF SocketInv, IsChain
    <2>9. WriteInv'
      BY <2>1, <2>3, <2>5, <2>7 DEF WriteInv, IsWrite
    <2>10. OrderInv'
      BY <2>1, <2>5, OrderKeptAfter DEF IsWrite
    <2>11. QED
      BY <2>8, <2>9, <2>10
  <1>2. CASE HandleConnectFailed
    <2>1. /\ ready # <<>> /\ Head(ready).op = "connect" /\ ~(Head(ready).ok /\ sock # "closed")
          /\ connected' = FALSE /\ UNCHANGED <<terminate, queue, sent, wire>>
      BY <1>2 DEF HandleConnectFailed, Executes, ConnectOk, history
    <2>2. ready[1] = Head(ready) /\ 1 \in 1 .. Len(ready)
      BY <2>1, HeadIs
    <2>3. sock \in {"closed", "dead"} /\ ~connecting /\ reads = 0 /\ ~connected
      BY <2>1, <2>2 DEF SocketInv, IsChain
    <2>4. writes = <<>> /\ Aborted = <<>>
      BY <2>3, NothingWaits
    <2>5. Tail(ready) \o <<>> = Tail(ready)
      BY <2>1, Rests
    <2>6. /\ ready' = Tail(ready) /\ reads' = 0 /\ writes' = <<>>
          /\ \/ terminate /\ ~connecting' /\ sock' = sock
             \/ ~terminate /\ connecting' /\ sock' = "connecting" /\ sock = "dead"
      BY <1>2, <2>1, <2>3, <2>4, <2>5 DEF HandleConnectFailed, DoConnect, AsyncConnect, SocketInv
    <2>7. \A i \in 1 .. Len(ready') : i + 1 \in 1 .. Len(ready) /\ ready'[i] = ready[i + 1]
      BY <2>1, <2>6, OnlyHeadLeaves
    <2>8. \A i \in 1 .. Len(ready') : ~IsChain(ready'[i])
      <3>1. ASSUME NEW i \in 1 .. Len(ready')
            PROVE  ~IsChain(ready'[i])
        <4>1. i + 1 \in 1 .. Len(ready) /\ ready'[i] = ready[i + 1] /\ i + 1 # 1
          BY <2>7
        <4>2. QED
          BY <2>1, <2>2, <4>1 DEF SocketInv, IsChain
      <3>2. QED
        BY <3>1
    <2>9. SocketInv'
      BY <2>1, <2>3, <2>6, <2>8 DEF SocketInv
    <2>10. WriteInv'
      <3>1. ASSUME NEW i \in 1 .. Len(ready'), IsWrite(ready'[i])
            PROVE  /\ queue # <<>> /\ sock' = "closed"
                   /\ \A j \in 1 .. Len(ready') : IsWrite(ready'[j]) => j = i
        <4>1. i + 1 \in 1 .. Len(ready) /\ IsWrite(ready[i + 1])
          BY <2>7, <3>1
        <4>2. queue # <<>> /\ sock = "closed"
          BY <2>3, <4>1 DEF WriteInv
        <4>3. ASSUME NEW j \in 1 .. Len(ready'), IsWrite(ready'[j])
              PROVE  j = i
          <5>1. j + 1 \in 1 .. Len(ready) /\ IsWrite(ready[j + 1])
            BY <2>7, <4>3
          <5>2. j + 1 = i + 1
            BY <4>1, <5>1 DEF WriteInv
          <5>3. QED
            BY <5>2
        <4>4. QED
          BY <2>6, <4>2, <4>3
      <3>2. QED
        BY <2>1, <2>6, <3>1 DEF WriteInv
    <2>11. OrderInv'
      BY <2>1, <2>6, OrderKeptAfter DEF IsWrite
    <2>12. QED
      BY <2>9, <2>10, <2>11
  <1>3. CASE HandleReadError
    <2>1. /\ ready # <<>> /\ Head(ready).op = "read"
          /\ connected' = FALSE /\ UNCHANGED <<terminate, queue, sent, wire>>
      BY <1>3 DEF HandleReadError, Executes, history
    <2>2. ready[1] = Head(ready) /\ 1 \in 1 .. Len(ready)
      BY <2>1, HeadIs
    <2>3. sock = "closed" /\ terminate /\ ~connecting /\ reads = 0
      BY <2>1, <2>2 DEF SocketInv, IsChain
    <2>4. writes = <<>>
      BY <2>3, NothingWaits
    <2>5. ready' = Tail(ready) /\ UNCHANGED <<connecting, reads, writes, sock>>
      BY <1>3, <2>3 DEF HandleReadError, DoConnect
    <2>6. \A i \in 1 .. Len(ready') : i + 1 \in 1 .. Len(ready) /\ ready'[i] = ready[i + 1]
      BY <2>1, <2>5, OnlyHeadLeaves
    <2>7. \A i \in 1 .. Len(ready') : ~IsChain(ready'[i])
      <3>1. ASSUME NEW i \in 1 .. Len(ready')
            PROVE  ~IsChain(ready'[i])
        <4>1. i + 1 \in 1 .. Len(ready) /\ ready'[i] = ready[i + 1] /\ i + 1 # 1
          BY <2>6
        <4>2. QED
          BY <2>1, <2>2, <4>1 DEF SocketInv, IsChain
      <3>2. QED
        BY <3>1
    <2>8. SocketInv'
      BY <2>1, <2>3, <2>5, <2>7 DEF SocketInv
    <2>9. WriteInv'
      BY <2>1, <2>3, <2>4, <2>5, <2>6, WritesLeft
    <2>10. OrderInv'
      BY <2>1, <2>5, OrderKeptAfter DEF IsWrite
    <2>11. QED
      BY <2>8, <2>9, <2>10
  <1>4. CASE HandleMessage
    <2>1. /\ ready # <<>> /\ Head(ready).op = "queue"
          /\ queue' = Append(queue, Head(ready).msg)
          /\ UNCHANGED <<connected, terminate, sent, connecting, reads, sock, wire>>
      BY <1>4 DEF HandleMessage, Executes, environment, history
    <2>2. ready[1] = Head(ready) /\ 1 \in 1 .. Len(ready)
      BY <2>1, HeadIs
    <2> DEFINE m == Head(ready).msg
    <2>3. m \in Message /\ m \in Nat
      BY <2>1, <2>2, PostedTyped
    <2>4. Queued \in Int /\ sent \in Nat /\ Popped \in Int /\ Len(queue) \in Nat
      BY PoppedTyped
    <2>5. m = Queued + 1
      <3>1. Queued < m /\ m <= sent
        BY <2>1, <2>2 DEF OrderInv, PostedInv
      <3>2. SUFFICES ASSUME Queued + 1 < m
                     PROVE  FALSE
        BY <2>3, <2>4, <3>1
      <3>3. Queued + 1 \in 1 .. sent
        <4>1. Queued \in Nat
          BY PoppedIsNat
        <4>2. QED
          BY <2>3, <2>4, <3>1, <3>2, <4>1
      <3>4. PICK i \in 1 .. Len(ready) : ready[i].op = "queue" /\ ready[i].msg = Queued + 1
        <4>1. \A k \in 1 .. sent : Queued < k =>
                 \E i \in 1 .. Len(ready) : ready[i].op = "queue" /\ ready[i].msg = k
          BY DEF OrderInv, PostedInv
        <4>2. Queued < Queued + 1
          BY <2>4
        <4>3. \E i \in 1 .. Len(ready) : ready[i].op = "queue" /\ ready[i].msg = Queued + 1
          BY <3>3, <4>1, <4>2
        <4>4. QED
          BY <4>3
      <3>5. i # 1
        BY <2>2, <2>3, <2>4, <3>2, <3>4
      <3>6. 1 < i
        BY <3>5
      <3>7. ready[1].msg < ready[i].msg
        BY <2>1, <2>2, <3>4, <3>6 DEF OrderInv, PostedInv
      <3>8. QED
        BY <2>2, <2>3, <2>4, <3>2, <3>4, <3>7
    <2>6. /\ queue' \in Seq(Message) /\ Len(queue') = Len(queue) + 1 /\ queue' # <<>>
          /\ \A i \in 1 .. Len(queue) : queue'[i] = queue[i]
          /\ queue'[Len(queue) + 1] = m
      <3>1. queue \in Seq(Message) /\ queue' = Append(queue, m)
        BY <2>1, MessagesTyped
      <3> HIDE DEF Message, m
      <3>2. /\ queue' \in Seq(Message) /\ Len(queue') = Len(queue) + 1
            /\ \A i \in 1 .. Len(queue) : queue'[i] = queue[i]
            /\ queue'[Len(queue) + 1] = m
        BY <2>3, <3>1, AppendProperties
      <3>3. queue' # <<>>
        BY <2>4, <3>2, EmptySeq
      <3>4. QED
        BY <3>2, <3>3
    <2>7. \/ connected /\ queue = <<>> /\ sock # "closed" /\ ready' = Tail(ready)
                                             /\ writes' = Append(writes, m)
          \/ connected /\ queue = <<>> /\ sock = "closed"
             /\ ready' = Append(Tail(ready), Done("write", FALSE)) /\ writes' = writes
          \/ ~(connected /\ queue = <<>>) /\ ready' = Tail(ready) /\ writes' = writes
      BY <1>4 DEF HandleMessage, AsyncWrite
    <2> HIDE DEF m
    <2>8. PICK t \in Seq(Handler) :
             /\ ready' = Tail(ready) \o t
             /\ \A i \in 1 .. Len(t) : t[i].op = "write" /\ ~t[i].ok
      BY <2>1, <2>7, WriteLeaves
    <2>9. /\ \A i \in 1 .. Len(ready') :
                \/ i + 1 \in 1 .. Len(ready) /\ ready'[i] = ready[i + 1]
                \/ i - (Len(ready) - 1) \in 1 .. Len(t) /\ ready'[i] = t[i - (Len(ready) - 1)]
          /\ \A i \in 1 .. Len(ready) : i # 1 =>
                i - 1 \in 1 .. Len(ready') /\ ready'[i - 1] = ready[i]
      BY <2>1, <2>8, HeadLeaves
    <2>10. SocketInv'
      BY <2>1, <2>8, ChainsAfter DEF IsChain
    <2>11. Written' <=> Written
      <3>1. ~IsWrite(ready[1])
        BY <2>1, <2>2 DEF IsWrite
      <3>2. Written => Written'
        <4>1. SUFFICES ASSUME NEW i \in 1 .. Len(ready), IsWrite(ready[i]) /\ ready[i].ok
                       PROVE  Written'
          BY DEF Written
        <4>2. i - 1 \in 1 .. Len(ready') /\ ready'[i - 1] = ready[i]
          BY <2>9, <3>1, <4>1
        <4>3. QED
          BY <4>1, <4>2 DEF Written, IsWrite
      <3>3. Written' => Written
        <4>1. SUFFICES ASSUME NEW i \in 1 .. Len(ready'), IsWrite(ready'[i]) /\ ready'[i].ok
                       PROVE  Written
          BY DEF Written, IsWrite
        <4>2. i + 1 \in 1 .. Len(ready) /\ ready'[i] = ready[i + 1]
          BY <2>8, <2>9, <4>1
        <4>3. QED
          BY <4>1, <4>2 DEF Written
      <3>4. QED
        BY <3>2, <3>3
    <2>12. Popped' = Popped /\ Queued' = Queued + 1
      <3>1. Popped' = Popped
        BY <2>1, <2>11 DEF Popped
      <3>2. Queued' = Popped' + Len(queue')
        BY DEF Queued
      <3>3. QED
        BY <2>4, <2>6, <3>1, <3>2 DEF Queued
    <2>13. PostedInv'
      <3>1. \A i \in 1 .. Len(ready') : ready'[i].op = "queue" =>
               i + 1 \in 1 .. Len(ready) /\ ready'[i] = ready[i + 1]
        BY <2>8, <2>9
      <3>2. ASSUME NEW i \in 1 .. Len(ready'), ready'[i].op = "queue"
            PROVE  Queued' < ready'[i].msg /\ ready'[i].msg <= sent'
        <4>1. i + 1 \in 1 .. Len(ready) /\ ready'[i] = ready[i + 1] /\ 1 < i + 1
          BY <3>1, <3>2
        <4>2. ready[1].msg < ready[i + 1].msg /\ ready[i + 1].msg <= sent
          BY <2>1, <2>2, <3>2, <4>1 DEF OrderInv, PostedInv
        <4>3. QED
          BY <2>1, <2>2, <2>5, <2>12, <4>1, <4>2 DEF m
      <3>3. ASSUME NEW i \in 1 .. Len(ready'), NEW j \in 1 .. Len(ready'),
                   ready'[i].op = "queue", ready'[j].op = "queue", i < j
            PROVE  ready'[i].msg < ready'[j].msg
        <4>1. /\ i + 1 \in 1 .. Len(ready) /\ ready'[i] = ready[i + 1]
              /\ j + 1 \in 1 .. Len(ready) /\ ready'[j] = ready[j + 1] /\ i + 1 < j + 1
          BY <3>1, <3>3
        <4>2. QED
          BY <3>3, <4>1 DEF OrderInv, PostedInv
      <3>4. ASSUME NEW n \in 1 .. sent', Queued' < n
            PROVE  \E i \in 1 .. Len(ready') : ready'[i].op = "queue" /\ ready'[i].msg = n
        <4>1. n \in 1 .. sent /\ Queued < n /\ n # Queued + 1
          BY <2>1, <2>4, <2>12, <3>4
        <4>2. PICK i \in 1 .. Len(ready) : ready[i].op = "queue" /\ ready[i].msg = n
          BY <4>1 DEF OrderInv, PostedInv
        <4>3. i # 1
          BY <2>2, <2>5, <4>1, <4>2 DEF m
        <4>4. QED
          BY <2>9, <4>2, <4>3
      <3>5. Queued' <= sent'
        <4>1. m <= sent
          BY <2>1, <2>2 DEF OrderInv, PostedInv, m
        <4>2. QED
          BY <2>1, <2>5, <2>12, <4>1
      <3>6. QED
        BY <3>2, <3>3, <3>4, <3>5 DEF PostedInv
    <2>14. OrderInv'
      <3>1. ASSUME NEW i \in 1 .. Len(queue')
            PROVE  queue'[i] = Popped' + i
        <4>1. CASE i = Len(queue) + 1
          BY <2>4, <2>5, <2>6, <2>12, <4>1 DEF Queued
        <4>2. CASE i # Len(queue) + 1
          <5>1. i \in 1 .. Len(queue)
            BY <2>4, <2>6, <4>2
          <5>2. QED
            BY <2>6, <2>12, <5>1 DEF OrderInv
        <4>3. QED
          BY <4>1, <4>2
      <3>2. QED
        BY <2>1, <2>13, <3>1 DEF OrderInv
    <2>15. WriteInv'
      <3>1. CASE connected /\ queue = <<>> /\ sock # "closed"
        <4>1. ready' = Tail(ready) /\ writes' = Append(writes, m)
          BY <2>7, <3>1
        <4>2. writes = <<>> /\ sock = "established"
                                  /\ \A i \in 1 .. Len(ready) : ~IsWrite(ready[i])
          BY <3>1 DEF WriteInv, SocketInv, Types
        <4>3. \A i \in 1 .. Len(ready') : i + 1 \in 1 .. Len(ready) /\ ready'[i] = ready[i + 1]
          BY <2>1, <4>1, OnlyHeadLeaves
        <4>4. writes' = <<m>> /\ queue'[1] = m /\ Len(writes') = 1 /\ writes'[1] = m
          BY <2>6, <3>1, <4>1, <4>2
        <4>5. \A i \in 1 .. Len(ready') : ~IsWrite(ready'[i])
          BY <4>2, <4>3
        <4>6. QED
          BY <2>1, <2>6, <3>1, <4>2, <4>4, <4>5 DEF WriteInv
      <3>2. CASE connected /\ queue = <<>> /\ sock = "closed"
        <4>1. writes = <<>> /\ \A i \in 1 .. Len(ready) : ~IsWrite(ready[i])
          BY <3>2 DEF WriteInv
        <4>2. ready' = Append(Tail(ready), Done("write", FALSE)) /\ writes' = <<>>
          BY <2>7, <3>2, <4>1
        <4>3. QED
          BY <2>1, <2>6, <3>2, <4>1, <4>2, WriteLost
      <3>3. CASE ~(connected /\ queue = <<>>)
        <4>1. ready' = Tail(ready) /\ writes' = writes
          BY <2>7, <3>3
        <4>2. /\ \A i \in 1 .. Len(ready') : i + 1 \in 1 .. Len(ready) /\ ready'[i] = ready[i + 1]
              /\ \A i \in 1 .. Len(ready) : i # 1 =>
                    i - 1 \in 1 .. Len(ready') /\ ready'[i - 1] = ready[i]
          BY <2>1, <4>1, OnlyHeadLeaves
        <4>3. queue # <<>> => queue'[1] = queue[1]
          BY <2>4, <2>6
        <4>4. ASSUME NEW i \in 1 .. Len(ready'), IsWrite(ready'[i])
              PROVE  /\ writes = <<>> /\ (connected \/ sock = "closed")
                     /\ ~ready'[i].ok => sock = "closed"
                     /\ \A j \in 1 .. Len(ready') : IsWrite(ready'[j]) => j = i
          <5>1. i + 1 \in 1 .. Len(ready) /\ IsWrite(ready[i + 1]) /\ ready'[i] = ready[i + 1]
            BY <4>2, <4>4
          <5>2. ASSUME NEW j \in 1 .. Len(ready'), IsWrite(ready'[j])
                PROVE  j = i
            <6>1. j + 1 \in 1 .. Len(ready) /\ IsWrite(ready[j + 1])
              BY <4>2, <5>2
            <6>2. j + 1 = i + 1
              BY <5>1, <6>1 DEF WriteInv
            <6>3. QED
              BY <6>2
          <5>3. QED
            BY <5>1, <5>2 DEF WriteInv
        <4>5. ASSUME connected, sock # "closed", writes = <<>>
              PROVE  \E i \in 1 .. Len(ready') : IsWrite(ready'[i])
          <5>1. PICK i \in 1 .. Len(ready) : IsWrite(ready[i])
            BY <3>3, <4>5 DEF WriteInv
          <5>2. i # 1
            BY <2>1, <2>2, <5>1 DEF IsWrite
          <5>3. QED
            BY <4>2, <5>1, <5>2
        <4>6. writes # <<>> => sock = "established" /\ connected /\ writes[1] = queue'[1]
          BY <4>3 DEF WriteInv
        <4>7. QED
          BY <2>1, <2>6, <4>1, <4>4, <4>5, <4>6 DEF WriteInv
      <3>4. QED
        BY <3>1, <3>2, <3>3
    <2>16. QED
      BY <2>10, <2>14, <2>15
  <1>5. CASE HandleWritten
    <2>1. /\ ready # <<>> /\ Head(ready).op = "write" /\ Head(ready).ok
          /\ UNCHANGED <<connected, terminate, sent, connecting, reads, sock, wire>>
      BY <1>5 DEF HandleWritten, Executes, environment
    <2>2. ready[1] = Head(ready) /\ 1 \in 1 .. Len(ready) /\ IsWrite(ready[1])
      BY <2>1, HeadIs DEF IsWrite
    <2>3. /\ queue # <<>> /\ writes = <<>> /\ (connected \/ sock = "closed")
          /\ \A i \in 1 .. Len(ready) : i # 1 => ~IsWrite(ready[i])
      BY <2>2 DEF WriteInv
    <2>4. queue' = Tail(queue)
      BY <1>5, <2>3 DEF HandleWritten
    <2>5. /\ queue' \in Seq(Message) /\ Len(queue') = Len(queue) - 1 /\ Len(queue) \in Nat
          /\ \A i \in 1 .. Len(queue') : i + 1 \in 1 .. Len(queue) /\ queue'[i] = queue[i + 1]
          /\ queue' # <<>> => Head(queue') = queue'[1]
      <3>1. queue \in Seq(Message)
        BY MessagesTyped
      <3> HIDE DEF Message
      <3>2. /\ queue' \in Seq(Message) /\ Len(queue') = Len(queue) - 1 /\ Len(queue) \in Nat
            /\ \A i \in 1 .. Len(queue') : queue'[i] = queue[i + 1]
        BY <2>3, <2>4, <3>1, HeadTailProperties, LenProperties
      <3>3. queue' # <<>> => Head(queue') = queue'[1]
        OBVIOUS
      <3>4. QED
        BY <3>2, <3>3
    <2>6. \/ queue' # <<>> /\ sock # "closed" /\ ready' = Tail(ready)
                                 /\ writes' = Append(writes, Head(queue'))
          \/ queue' # <<>> /\ sock = "closed"
             /\ ready' = Append(Tail(ready), Done("write", FALSE)) /\ writes' = writes
          \/ queue' = <<>> /\ ready' = Tail(ready) /\ writes' = writes
      BY <1>5, <2>3, <2>4 DEF HandleWritten, AsyncWrite
    <2>7. PICK t \in Seq(Handler) :
             /\ ready' = Tail(ready) \o t
             /\ \A i \in 1 .. Len(t) : t[i].op = "write" /\ ~t[i].ok
      BY <2>1, <2>6, WriteLeaves
    <2>8. \A i \in 1 .. Len(ready') :
             \/ i + 1 \in 1 .. Len(ready) /\ ready'[i] = ready[i + 1]
             \/ i - (Len(ready) - 1) \in 1 .. Len(t) /\ ready'[i] = t[i - (Len(ready) - 1)]
      BY <2>1, <2>7, HeadLeaves
    <2>9. SocketInv'
      BY <2>1, <2>7, ChainsAfter DEF IsChain
    <2>10. Written /\ ~Written'
      <3>1. Written
        BY <2>1, <2>2 DEF Written
      <3>2. ASSUME NEW i \in 1 .. Len(ready'), IsWrite(ready'[i])
            PROVE  ~ready'[i].ok
        <4>1. CASE i + 1 \in 1 .. Len(ready) /\ ready'[i] = ready[i + 1]
          <5>1. i + 1 # 1
            OBVIOUS
          <5>2. QED
            BY <2>3, <3>2, <4>1, <5>1
        <4>2. CASE i - (Len(ready) - 1) \in 1 .. Len(t) /\ ready'[i] = t[i - (Len(ready) - 1)]
          BY <2>7, <4>2
        <4>3. QED
          BY <2>8, <4>1, <4>2
      <3>3. QED
        BY <3>1, <3>2 DEF Written
    <2>11. Popped' = Popped + 1 /\ Queued' = Queued /\ Popped \in Int
      <3>1. Popped = Len(wire) - 1 /\ Popped' = Len(wire)
        BY <2>1, <2>10 DEF Popped
      <3>2. Len(wire) \in Nat
        BY PoppedTyped
      <3>3. Queued' = Popped' + Len(queue')
        BY DEF Queued
      <3>4. QED
        BY <2>5, <3>1, <3>2, <3>3 DEF Queued
    <2>12. PostedInv'
      BY <2>1, <2>7, <2>11, PostedKept DEF OrderInv
    <2>13. OrderInv'
      <3>1. ASSUME NEW i \in 1 .. Len(queue')
            PROVE  queue'[i] = Popped' + i
        <4>1. i + 1 \in 1 .. Len(queue) /\ queue'[i] = queue[i + 1]
          BY <2>5
        <4>2. queue[i + 1] = Popped + (i + 1)
          BY <4>1 DEF OrderInv
        <4>3. QED
          BY <2>11, <4>1, <4>2
      <3>2. QED
        BY <2>1, <2>12, <3>1 DEF OrderInv
    <2>14. WriteInv'
      <3>1. CASE queue' # <<>> /\ sock = "closed"
        <4>1. ready' = Append(Tail(ready), Done("write", FALSE)) /\ writes' = <<>>
          BY <2>3, <2>6, <3>1
        <4>2. QED
          BY <2>1, <2>3, <3>1, <4>1, WriteLost
      <3>2. CASE ~(queue' # <<>> /\ sock = "closed")
        <4>1. ready' = Tail(ready)
          BY <2>6, <3>2
        <4>2. \A i \in 1 .. Len(ready') : i + 1 \in 1 .. Len(ready) /\ ready'[i] = ready[i + 1]
          BY <2>1, <4>1, OnlyHeadLeaves
        <4>3. \A i \in 1 .. Len(ready') : ~IsWrite(ready'[i])
          <5>1. ASSUME NEW i \in 1 .. Len(ready')
                PROVE  ~IsWrite(ready'[i])
            <6>1. i + 1 \in 1 .. Len(ready) /\ ready'[i] = ready[i + 1] /\ i + 1 # 1
              BY <4>2
            <6>2. QED
              BY <2>3, <6>1
          <5>2. QED
            BY <5>1
        <4>4. CASE queue' # <<>>
          <5>1. sock = "established" /\ connected
            BY <2>3, <3>2, <4>4 DEF SocketInv
          <5>5. writes' = Append(<<>>, queue'[1])
            BY <2>3, <2>5, <2>6, <3>2, <4>4
          <5>2. writes' = <<queue'[1]>>
            BY <5>5
          <5>3. Len(writes') = 1 /\ writes'[1] = queue'[1] /\ writes' # <<>>
            BY <5>2
          <5>4. QED
            BY <2>1, <4>3, <4>4, <5>1, <5>3 DEF WriteInv
        <4>5. CASE queue' = <<>>
          <5>1. writes' = <<>> /\ Len(writes') = 0
            BY <2>3, <2>6, <4>5
          <5>2. QED
            BY <4>3, <4>5, <5>1 DEF WriteInv
        <4>6. QED
          BY <4>4, <4>5
      <3>3. QED
        BY <3>1, <3>2
    <2>15. QED
      BY <2>9, <2>13, <2>14
  <1>6. CASE HandleWriteError
    <2>1. /\ ready # <<>> /\ Head(ready).op = "write" /\ ~Head(ready).ok
          /\ connected' = FALSE /\ UNCHANGED <<terminate, queue, sent, wire>>
      BY <1>6 DEF HandleWriteError, Executes
    <2>2. ready[1] = Head(ready) /\ 1 \in 1 .. Len(ready)
      BY <2>1, HeadIs
    <2>3. sock = "closed" /\ terminate
      BY <2>1, <2>2 DEF WriteInv, SocketInv, IsWrite
    <2>4. ~connecting /\ reads = 0 /\ writes = <<>> /\ Aborted = <<>>
      BY <2>3, NothingWaits
    <2>5. /\ ready' = Tail(ready) \o <<>> /\ sock' = "closed"
          /\ ~connecting' /\ reads' = 0 /\ writes' = <<>>
      BY <1>6, <2>3, <2>4 DEF HandleWriteError, Close
    <2>6. ready' = Tail(ready)
      BY <2>1, <2>5, Rests
    <2>7. \A i \in 1 .. Len(ready') : i + 1 \in 1 .. Len(ready) /\ ready'[i] = ready[i + 1]
      BY <2>1, <2>6, OnlyHeadLeaves
    <2>8. SocketInv'
      BY <2>1, <2>3, <2>4, <2>5, <2>7, ChainsLeft
    <2>9. WriteInv'
      BY <2>1, <2>3, <2>5, <2>7, WritesLeft
    <2>10. OrderInv'
      BY <2>1, <2>6, OrderKeptAfter DEF IsWrite
    <2>11. QED
      BY <2>8, <2>9, <2>10
  <1>7. CASE HandleClose
    <2>1. /\ ready # <<>> /\ Head(ready).op = "close"
          /\ ready' = Tail(ready) \o Aborted /\ sock' = "closed" /\ connecting' = FALSE
                /\ reads' = 0 /\ writes' = <<>>
          /\ UNCHANGED <<connected, terminate, queue, sent, wire>>
      BY <1>7 DEF HandleClose, Executes, Close, client, history
    <2>2. ready[1] = Head(ready) /\ 1 \in 1 .. Len(ready)
      BY <2>1, HeadIs
    <2>3. terminate
      BY <2>1, <2>2 DEF TerminateInv
    <2> DEFINE k == IF connecting THEN 1 ELSE 0
    <2>4. /\ Aborted \in Seq(Handler) /\ Len(Aborted) = reads + k + Len(writes)
          /\ \A i \in 1 .. Len(Aborted) : Aborted[i] =
               IF i <= reads THEN Done("read", FALSE)
               ELSE IF i <= reads + k THEN Done("connect", FALSE)
               ELSE Done("write", FALSE)
      BY AbortedAre
    <2>17. k \in {0, 1} /\ (k = 1 <=> connecting)
      OBVIOUS
    <2> HIDE DEF k
    <2>5. reads \in Nat /\ Len(writes) \in Nat /\ Len(writes) <= 1 /\ Len(ready) \in Nat
      BY DEF Types, WriteInv
    <2>6. reads \in {0, 1} /\ (connecting => reads = 0)
      BY <2>5 DEF SocketInv
    <2>7. ASSUME NEW i \in 1 .. Len(Aborted), IsChain(Aborted[i])
          PROVE  i = 1 /\ (reads > 0 \/ connecting)
                /\ (Aborted[i].op = "connect" => connecting) /\ ~Aborted[i].ok
      BY <2>4, <2>5, <2>6, <2>7, <2>17 DEF IsChain, Done
    <2>8. ASSUME NEW i \in 1 .. Len(Aborted), IsWrite(Aborted[i])
          PROVE  Len(writes) = 1 /\ i = Len(Aborted) /\ ~Aborted[i].ok
      <3>1. ~(i <= reads) /\ ~(i <= reads + k) /\ ~Aborted[i].ok
        BY <2>4, <2>5, <2>6, <2>8, <2>17 DEF IsWrite, Done
      <3>4. i \in Nat /\ i <= reads + k + Len(writes) /\ Len(Aborted) = reads + k + Len(writes)
        BY <2>4, <2>5
      <3>2. Len(writes) = 1 /\ i = Len(Aborted)
        <4> DEFINE n == Len(writes)
                   e == Len(Aborted)
        <4>1. /\ n \in Nat /\ n <= 1 /\ reads \in Nat /\ k \in Nat
              /\ i \in Nat /\ i <= reads + k + n /\ e = reads + k + n /\ ~(i <= reads + k)
          BY <2>5, <2>17, <3>1, <3>4
        <4> HIDE DEF n, e
        <4>2. n = 1 /\ i = e
          BY <4>1
        <4>3. QED
          BY <4>2 DEF n, e
      <3>3. QED
        BY <3>1, <3>2, Zenon
    <2>9. \A i \in 1 .. Len(ready') :
             \/ i + 1 \in 1 .. Len(ready) /\ ready'[i] = ready[i + 1]
             \/ i - (Len(ready) - 1) \in 1 .. Len(Aborted)
                   /\ ready'[i] = Aborted[i - (Len(ready) - 1)]
      BY <2>1, <2>4, HeadLeaves
    <2> DEFINE r == Len(ready) - 1
               a == Aborted
    <2>10. /\ r \in Int /\ \A i \in 1 .. Len(ready') :
             \/ i + 1 \in 1 .. Len(ready) /\ ready'[i] = ready[i + 1]
             \/ i - r \in 1 .. Len(a) /\ ready'[i] = a[i - r]
           /\ \A i \in 1 .. Len(a) : IsChain(a[i]) =>
                i = 1 /\ (reads > 0 \/ connecting) /\ (a[i].op = "connect" => connecting)
                      /\ ~a[i].ok
           /\ \A i \in 1 .. Len(a) : IsWrite(a[i]) =>
                writes # <<>> /\ i = Len(a) /\ ~a[i].ok
      <3>1. Len(writes) = 1 => writes # <<>>
        OBVIOUS
      <3>2. QED
        BY <2>5, <2>7, <2>8, <2>9, <3>1
    <2> HIDE DEF r, a
    <2>11. ASSUME NEW i \in 1 .. Len(ready'), IsChain(ready'[i])
           PROVE  /\ \A j \in 1 .. Len(ready') : IsChain(ready'[j]) => j = i
                  /\ ready'[i].op = "connect" => ~connected
      <3>1. CASE i + 1 \in 1 .. Len(ready) /\ ready'[i] = ready[i + 1]
        <4>1. /\ ~connecting /\ reads = 0 /\ (ready'[i].op = "connect" => ~connected)
              /\ \A j \in 1 .. Len(ready) : IsChain(ready[j]) => j = i + 1
          BY <2>11, <3>1 DEF SocketInv
        <4>2. ASSUME NEW j \in 1 .. Len(ready'), IsChain(ready'[j])
              PROVE  j = i
          <5>1. j + 1 \in 1 .. Len(ready) /\ IsChain(ready[j + 1])
            BY <2>10, <4>1, <4>2
          <5>2. j + 1 = i + 1
            BY <4>1, <5>1
          <5>3. QED
            BY <5>2
        <4>3. QED
          BY <4>1, <4>2
      <3>2. CASE i - r \in 1 .. Len(a) /\ ready'[i] = a[i - r]
        <4>1. i - r = 1 /\ (reads > 0 \/ connecting) /\ (ready'[i].op = "connect" => connecting)
          BY <2>10, <2>11, <3>2
        <4>2. \A j \in 1 .. Len(ready) : ~IsChain(ready[j])
          BY <4>1 DEF SocketInv
        <4>3. ASSUME NEW j \in 1 .. Len(ready'), IsChain(ready'[j])
              PROVE  j = i
          <5>1. j - r \in 1 .. Len(a) /\ IsChain(a[j - r])
            BY <2>10, <4>2, <4>3
          <5>2. j - r = 1
            BY <2>10, <5>1
          <5>3. QED
            BY <2>10, <4>1, <5>2
        <4>4. QED
          BY <4>1, <4>3 DEF SocketInv
      <3>3. QED
        BY <2>10, <3>1, <3>2
    <2>12. ASSUME NEW i \in 1 .. Len(ready'), IsWrite(ready'[i])
           PROVE  queue # <<>> /\ \A j \in 1 .. Len(ready') : IsWrite(ready'[j]) => j = i
      <3>1. CASE i + 1 \in 1 .. Len(ready) /\ ready'[i] = ready[i + 1]
        <4>1. /\ writes = <<>> /\ queue # <<>>
              /\ \A j \in 1 .. Len(ready) : IsWrite(ready[j]) => j = i + 1
          BY <2>12, <3>1 DEF WriteInv
        <4>2. ASSUME NEW j \in 1 .. Len(ready'), IsWrite(ready'[j])
              PROVE  j = i
          <5>1. j + 1 \in 1 .. Len(ready) /\ IsWrite(ready[j + 1])
            BY <2>10, <4>1, <4>2
          <5>2. j + 1 = i + 1
            BY <4>1, <5>1
          <5>3. QED
            BY <5>2
        <4>3. QED
          BY <4>1, <4>2
      <3>2. CASE i - r \in 1 .. Len(a) /\ ready'[i] = a[i - r]
        <4>1. i - r = Len(a) /\ writes # <<>>
          BY <2>10, <2>12, <3>2
        <4>2. queue # <<>> /\ \A j \in 1 .. Len(ready) : ~IsWrite(ready[j])
          BY <4>1 DEF WriteInv
        <4>3. ASSUME NEW j \in 1 .. Len(ready'), IsWrite(ready'[j])
              PROVE  j = i
          <5>1. j - r \in 1 .. Len(a) /\ IsWrite(a[j - r])
            BY <2>10, <4>2, <4>3
          <5>2. j - r = i - r
            BY <2>10, <4>1, <5>1
          <5>3. QED
            BY <2>10, <5>2
        <4>4. QED
          BY <4>2, <4>3
      <3>3. QED
        BY <2>10, <3>1, <3>2
    <2>18. ~connecting' /\ terminate' /\ (connected' <=> connected)
      BY <2>1, <2>3, Zenon
    <2>19. sock' = "closed" /\ reads' = 0 /\ writes' = <<>> /\ queue' = queue
      BY <2>1
    <2>13. SocketInv'
      BY <2>11, <2>18, <2>19 DEF SocketInv
    <2>14. WriteInv'
      <3>1. Len(writes') = 0
        BY <2>1
      <3>2. QED
        BY <2>12, <2>18, <2>19, <3>1 DEF WriteInv
    <2>15. OrderInv'
      <3>1. \A i \in 1 .. Len(Aborted) : Aborted[i].op # "queue" /\ ~Aborted[i].ok
        BY <2>4 DEF Done
      <3>2. QED
        BY <2>1, <2>4, <3>1, OrderKept DEF IsWrite
    <2>16. QED
      BY <2>13, <2>14, <2>15
  <1>8. CASE IoThreadExits
    BY <1>8, FirstUnchanged DEF IoThreadExits, client, operations, environment, history
  <1>9. CASE Send
    <2> DEFINE h == Posted(sent')
    <2>1. h \in Handler /\ h.op = "queue" /\ h.msg = sent + 1 /\ ready' = Append(ready, h)
          /\ sent' = sent + 1
      BY <1>9, HandlersTyped, LogClientAssumption DEF Send, Posted, Types, Message
    <2>2. UNCHANGED <<connected, terminate, queue, connecting, reads, writes, sock, wire>>
      BY <1>9 DEF Send, client, environment, history
    <2> HIDE DEF h
    <2>3. /\ \A i \in 1 .. Len(ready') :
                \/ i \in 1 .. Len(ready) /\ ready'[i] = ready[i]
                \/ i = Len(ready) + 1 /\ ready'[i] = h
          /\ \A i \in 1 .. Len(ready) : i \in 1 .. Len(ready') /\ ready'[i] = ready[i]
          /\ Len(ready) + 1 \in 1 .. Len(ready') /\ ready'[Len(ready) + 1] = h
      BY <2>1, HandlerAdded
    <2>4. SocketInv' /\ WriteInv'
      BY <2>1, <2>2, <2>3, OthersAdded DEF IsChain, IsWrite
    <2>5. Written' <=> Written
      BY <2>1, <2>3 DEF Written, IsWrite
    <2>6. Popped' = Popped /\ Queued' = Queued
      BY <2>2, <2>5 DEF Popped, Queued
    <2>7. Queued <= sent
      BY DEF OrderInv, PostedInv
    <2>8. sent \in Nat /\ Queued \in Int
      BY PoppedTyped
    <2>9. \A i \in 1 .. Len(ready) : ready[i].op = "queue" => ready[i].msg \in Nat
      BY PostedTyped
    <2>10. \A i \in 1 .. Len(ready') : ready'[i].op = "queue" =>
          Queued' < ready'[i].msg /\ ready'[i].msg <= sent'
      BY <2>1, <2>3, <2>6, <2>7, <2>8, <2>9 DEF OrderInv, PostedInv
    <2>11. \A i, j \in 1 .. Len(ready') :
              ready'[i].op = "queue" /\ ready'[j].op = "queue" /\ i < j =>
                    ready'[i].msg < ready'[j].msg
      BY <2>1, <2>3, <2>8, <2>9 DEF OrderInv, PostedInv
    <2>12. ASSUME NEW m \in 1 .. sent', Queued' < m
           PROVE  \E i \in 1 .. Len(ready') : ready'[i].op = "queue" /\ ready'[i].msg = m
      <3>1. CASE m = sent + 1
        BY <2>1, <2>3, <3>1
      <3>2. CASE m # sent + 1
        <4>1. m \in 1 .. sent
          BY <2>1, <2>8, <3>2
        <4>2. PICK i \in 1 .. Len(ready) : ready[i].op = "queue" /\ ready[i].msg = m
          BY <2>6, <2>12, <4>1 DEF OrderInv, PostedInv
        <4>3. QED
          BY <2>3, <4>2
      <3>3. QED
        BY <3>1, <3>2
    <2>13. OrderInv'
      BY <2>1, <2>2, <2>6, <2>7, <2>8, <2>10, <2>11, <2>12 DEF OrderInv, PostedInv
    <2>14. QED
      BY <2>4, <2>13
  <1>10. CASE BeginDestroy
    BY <1>10, FirstUnchanged DEF BeginDestroy, client, operations, environment, history
  <1>11. CASE EndFlush
    BY <1>11, FirstUnchanged DEF EndFlush, client, operations, environment, history
  <1>12. CASE SetTerminate
    BY <1>12, FirstUnchanged DEF SetTerminate, operations, environment, history, client
  <1>13. CASE PostClose
    <2> DEFINE h == CloseRequest
    <2>1. h \in Handler /\ h.op = "close" /\ ready' = Append(ready, h)
      BY <1>13, HandlersTyped DEF PostClose, CloseRequest
    <2>2. UNCHANGED <<connected, terminate, queue, sent, connecting, reads, writes, sock, wire>>
      BY <1>13 DEF PostClose, client, environment, history
    <2> HIDE DEF h
    <2>3. /\ \A i \in 1 .. Len(ready') :
                \/ i \in 1 .. Len(ready) /\ ready'[i] = ready[i]
                \/ i = Len(ready) + 1 /\ ready'[i] = h
          /\ \A i \in 1 .. Len(ready) : i \in 1 .. Len(ready') /\ ready'[i] = ready[i]
      BY <2>1, HandlerAdded
    <2>4. SocketInv' /\ WriteInv'
      BY <2>1, <2>2, <2>3, OthersAdded DEF IsChain, IsWrite
    <2>5. OrderInv'
      BY <2>1, <2>2, OrderKeptBefore DEF IsWrite
    <2>6. QED
      BY <2>4, <2>5
  <1>14. CASE Join
    BY <1>14, FirstUnchanged DEF Join, client, operations, environment, history
  <1>15. CASE ServerStarts
    BY <1>15, FirstUnchanged DEF ServerStarts, client, operations, history
  <1>16. CASE ConnectSucceeds
    <2> DEFINE h == Done("connect", TRUE)
    <2>1. h \in Handler /\ h.op = "connect" /\ h.ok = TRUE /\ ready' = Append(ready, h)
      BY <1>16, HandlersTyped DEF ConnectSucceeds, Done
    <2>2. /\ connecting /\ ~connecting' /\ sock' = "established"
          /\ UNCHANGED <<connected, terminate, queue, sent, reads, writes, wire>>
      BY <1>16, Zenon DEF ConnectSucceeds, client, history
    <2> HIDE DEF h
    <2>3. sock = "connecting" /\ ~connected /\ reads = 0
      BY <2>2 DEF SocketInv
    <2>4. writes = <<>> /\ \A i \in 1 .. Len(ready) : ~IsWrite(ready[i])
      BY <2>3 DEF WriteInv
    <2>5. \A i \in 1 .. Len(ready) : ~IsChain(ready[i])
      BY <2>2 DEF SocketInv
    <2>6. \A i \in 1 .. Len(ready') :
                \/ i \in 1 .. Len(ready) /\ ready'[i] = ready[i]
                \/ i = Len(ready) + 1 /\ ready'[i] = h
      BY <2>1, HandlerAdded
    <2>7. SocketInv'
      BY <2>1, <2>2, <2>3, <2>5, <2>6 DEF SocketInv, IsChain
    <2>8. WriteInv'
      BY <2>1, <2>2, <2>3, <2>4, <2>6 DEF WriteInv, IsWrite
    <2>9. OrderInv'
      BY <2>1, <2>2, OrderKeptBefore DEF IsWrite
    <2>10. QED
      BY <2>7, <2>8, <2>9
  <1>17. CASE ConnectRefused
    <2> DEFINE h == Done("connect", FALSE)
    <2>1. h \in Handler /\ h.op = "connect" /\ h.ok = FALSE /\ ready' = Append(ready, h)
      BY <1>17, HandlersTyped DEF ConnectRefused, Done
    <2>2. /\ connecting /\ ~connecting' /\ sock' = "dead"
          /\ UNCHANGED <<connected, terminate, queue, sent, reads, writes, wire>>
      BY <1>17, Zenon DEF ConnectRefused, client, history
    <2> HIDE DEF h
    <2>3. sock = "connecting" /\ ~connected /\ reads = 0
      BY <2>2 DEF SocketInv
    <2>4. writes = <<>> /\ \A i \in 1 .. Len(ready) : ~IsWrite(ready[i])
      BY <2>3 DEF WriteInv
    <2>5. \A i \in 1 .. Len(ready) : ~IsChain(ready[i])
      BY <2>2 DEF SocketInv
    <2>6. \A i \in 1 .. Len(ready') :
                \/ i \in 1 .. Len(ready) /\ ready'[i] = ready[i]
                \/ i = Len(ready) + 1 /\ ready'[i] = h
      BY <2>1, HandlerAdded
    <2>7. SocketInv'
      BY <2>1, <2>2, <2>3, <2>5, <2>6 DEF SocketInv, IsChain
    <2>8. WriteInv'
      BY <2>1, <2>2, <2>3, <2>4, <2>6 DEF WriteInv, IsWrite
    <2>9. OrderInv'
      BY <2>1, <2>2, OrderKeptBefore DEF IsWrite
    <2>10. QED
      BY <2>7, <2>8, <2>9
  <1>18. CASE ConnectionEnds
    BY <1>18
    DEF SocketInv, WriteInv, OrderInv, PostedInv, ConnectionEnds, client, operations, history
  <1>19. CASE ReadFails
    BY <1>19 DEF SocketInv, WriteInv, OrderInv, PostedInv, ReadFails, client, environment, history
  <1>20. CASE WriteSucceeds
    <2> DEFINE h == Done("write", TRUE)
    <2>1. h \in Handler /\ h.op = "write" /\ h.ok /\ ready' = Append(ready, h)
      BY <1>20, HandlersTyped DEF WriteSucceeds, Done
    <2>2. /\ sock = "established" /\ writes # <<>> /\ wire' = Append(wire, Head(writes))
                                                         /\ writes' = Tail(writes)
          /\ UNCHANGED <<connected, terminate, queue, sent, connecting, reads, sock>>
      BY <1>20 DEF WriteSucceeds, client, environment
    <2> HIDE DEF h
    <2>3. /\ connected /\ queue # <<>> /\ writes[1] = queue[1] /\ Len(writes) <= 1
          /\ \A i \in 1 .. Len(ready) : ~IsWrite(ready[i])
      BY <2>2 DEF WriteInv
    <2>4. writes' = <<>> /\ Head(writes) = queue[1] /\ 1 \in 1 .. Len(queue)
                               /\ Head(writes) \in Message
      <3>1. writes \in Seq(Message) /\ queue \in Seq(Message)
        BY MessagesTyped
      <3> HIDE DEF Message
      <3>6. Len(writes) \in Nat /\ Len(writes) # 0
        BY <2>2, <3>1, EmptySeq, LenProperties
      <3>7. Len(writes) = 1 /\ 1 \in 1 .. Len(writes)
        <4>1. PICK n \in Nat : n = Len(writes)
          BY <3>6
        <4>2. n <= 1 /\ n # 0
          BY <2>3, <3>6, <4>1
        <4>3. n = 1
          BY <4>2
        <4>4. QED
          BY <4>1, <4>3
      <3>2. Len(writes) = 1 /\ Head(writes) = writes[1] /\ Head(writes) \in Message
        BY <2>2, <3>1, <3>7, HeadTailProperties
      <3>3. Tail(writes) \in Seq(Message) /\ Len(Tail(writes)) = 0
        BY <2>2, <3>1, <3>2, HeadTailProperties
      <3>4. 1 \in 1 .. Len(queue)
        BY <2>3, <3>1, EmptySeq
      <3>5. QED
        BY <2>2, <2>3, <3>2, <3>3, <3>4, EmptySeq
    <2>5. /\ \A i \in 1 .. Len(ready') :
                \/ i \in 1 .. Len(ready) /\ ready'[i] = ready[i]
                \/ i = Len(ready) + 1 /\ ready'[i] = h
          /\ \A i \in 1 .. Len(ready) : i \in 1 .. Len(ready') /\ ready'[i] = ready[i]
          /\ Len(ready) + 1 \in 1 .. Len(ready') /\ ready'[Len(ready) + 1] = h
      BY <2>1, HandlerAdded
    <2>6. SocketInv'
      BY <2>1, <2>2, <2>5, ChainsBefore DEF IsChain
    <2>7. WriteInv'
      BY <2>1, <2>2, <2>3, <2>4, <2>5 DEF WriteInv, IsWrite
    <2>8. ~Written /\ Written'
      BY <2>1, <2>3, <2>5 DEF Written, IsWrite
    <2>9. /\ wire' \in Seq(Message) /\ Len(wire') = Len(wire) + 1 /\ Len(wire) \in Nat
          /\ \A i \in 1 .. Len(wire) : wire'[i] = wire[i]
          /\ wire'[Len(wire) + 1] = queue[1]
      <3>1. wire \in Seq(Message)
        BY MessagesTyped
      <3> HIDE DEF Message
      <3>2. QED
        BY <2>2, <2>4, <3>1, AppendProperties, LenProperties
    <2>10. Popped = Len(wire) /\ Popped' = Len(wire) /\ Queued' = Queued
      BY <2>2, <2>8, <2>9 DEF Popped, Queued
    <2>11. PostedInv'
      BY <2>1, <2>2, <2>10, PostedKeptBefore DEF OrderInv
    <2>12. wire'[Len(wire) + 1] = Len(wire) + 1
      BY <2>4, <2>9, <2>10 DEF OrderInv
    <2>13. ASSUME NEW i \in 1 .. Len(wire')
           PROVE  wire'[i] = i
      <3>1. CASE i = Len(wire) + 1
        BY <2>12, <3>1
      <3>2. CASE i # Len(wire) + 1
        <4>1. i \in 1 .. Len(wire)
          BY <2>9, <3>2
        <4>2. QED
          BY <2>9, <4>1 DEF OrderInv
      <3>3. QED
        BY <3>1, <3>2
    <2>14. OrderInv'
      BY <2>2, <2>10, <2>11, <2>13 DEF OrderInv
    <2>15. QED
      BY <2>6, <2>7, <2>14
  <1>21. CASE WriteIntoTheVoid
    BY <1>21 DEF SocketInv, WriteInv, OrderInv, PostedInv, WriteIntoTheVoid, client, history
  <1>22. CASE WriteFails
    BY <1>22
    DEF SocketInv, WriteInv, OrderInv, PostedInv, WriteFails, client, environment, history
  <1>23. CASE UNCHANGED vars
    BY <1>23, FirstUnchanged DEF vars
  <1>24. QED
    BY <1>1, <1>2, <1>3, <1>4, <1>5, <1>6, <1>7, <1>8, <1>9, <1>10, <1>11, <1>12, <1>13, <1>14,
       <1>15, <1>16, <1>17, <1>18, <1>19, <1>20, <1>21, <1>22, <1>23
    DEF Next, IoThread, User, Destructor, Environment, Connecting, Writing

\* A handler that is no message leaves, failed operations come, and the queue
\* is left alone or loses its head.
LEMMA QueueKept ==
    ASSUME Types, QueueInv, ready # <<>>, Head(ready).op # "queue", sent' = sent,
           \/ ready' = Tail(ready)
           \/ ready' = Append(Tail(ready), Done("write", FALSE))
           \/ ready' = Tail(ready) \o Aborted,
           queue' = queue \/ (queue # <<>> /\ queue' = Tail(queue))
    PROVE  QueueInv'
  <1>1. PICK d \in Nat : d + Len(queue) <= sent /\ NumberedFrom(d)
    BY DEF QueueInv
  <1>2. PICK t \in Seq(Handler) :
           /\ ready' = Tail(ready) \o t
           /\ \A i \in 1 .. Len(t) : t[i].op \in {"connect", "read", "write"} /\ ~t[i].ok
    BY Leaves
  <1>3. /\ ready[1] = Head(ready)
        /\ \A i \in 1 .. Len(ready') :
             \/ i + 1 \in 1 .. Len(ready) /\ ready'[i] = ready[i + 1]
             \/ i - (Len(ready) - 1) \in 1 .. Len(t) /\ ready'[i] = t[i - (Len(ready) - 1)]
        /\ \A i \in 1 .. Len(ready) : i # 1 =>
              i - 1 \in 1 .. Len(ready') /\ ready'[i - 1] = ready[i]
    BY <1>2, HeadLeaves
  <1>4. \A i \in 1 .. Len(ready') : ready'[i].op = "queue" =>
           i + 1 \in 1 .. Len(ready) /\ ready'[i] = ready[i + 1]
    BY <1>2, <1>3
  <1>5. PICK e \in Nat : /\ e + Len(queue') = d + Len(queue)
                         /\ \A i \in 1 .. Len(queue') : queue'[i] = e + i
    <2>1. CASE queue' = queue
      BY <1>1, <2>1 DEF NumberedFrom
    <2>2. CASE queue # <<>> /\ queue' = Tail(queue)
      <3>1. queue \in Seq(Message)
        BY MessagesTyped
      <3> HIDE DEF Message
      <3>2. /\ Len(queue) \in Nat /\ Len(queue') = Len(queue) - 1
            /\ \A i \in 1 .. Len(queue') : queue'[i] = queue[i + 1]
        BY <2>2, <3>1, EmptySeq, HeadTailProperties
      <3>3. (d + 1) + Len(queue') = d + Len(queue)
        <4>1. PICK k \in Nat : k = Len(queue)
          BY <3>2
        <4>2. Len(queue') = k - 1
          BY <3>2, <4>1
        <4>3. (d + 1) + (k - 1) = d + k
          BY <4>1
        <4>4. QED
          BY <4>1, <4>2, <4>3
      <3>4. ASSUME NEW i \in 1 .. Len(queue')
            PROVE  queue'[i] = (d + 1) + i
        <4>1. i + 1 \in 1 .. Len(queue) /\ d + (i + 1) = (d + 1) + i
          BY <3>2
        <4>2. queue[i + 1] = d + (i + 1)
          BY <1>1, <4>1 DEF NumberedFrom
        <4>3. QED
          BY <3>2, <4>1, <4>2
      <3>5. PICK e \in Nat : e = d + 1
        OBVIOUS
      <3>6. QED
        BY <3>3, <3>4, <3>5
    <2>3. QED
      BY <2>1, <2>2
  <1>6. ASSUME NEW i \in 1 .. Len(ready'), ready'[i].op = "queue"
        PROVE  e + Len(queue') < ready'[i].msg /\ ready'[i].msg <= sent'
    <2>1. i + 1 \in 1 .. Len(ready) /\ ready'[i] = ready[i + 1]
      BY <1>4, <1>6
    <2>2. d + Len(queue) < ready[i + 1].msg /\ ready[i + 1].msg <= sent
      BY <1>1, <1>6, <2>1 DEF NumberedFrom
    <2>3. QED
      BY <1>5, <2>1, <2>2
  <1>7. ASSUME NEW i \in 1 .. Len(ready'), NEW j \in 1 .. Len(ready'),
               ready'[i].op = "queue", ready'[j].op = "queue", i < j
        PROVE  ready'[i].msg < ready'[j].msg
    <2>1. /\ i + 1 \in 1 .. Len(ready) /\ ready'[i] = ready[i + 1]
          /\ j + 1 \in 1 .. Len(ready) /\ ready'[j] = ready[j + 1] /\ i + 1 < j + 1
      BY <1>4, <1>7
    <2>2. QED
      BY <1>1, <1>7, <2>1 DEF NumberedFrom
  <1>8. ASSUME NEW m \in 1 .. sent', e + Len(queue') < m
        PROVE  \E i \in 1 .. Len(ready') : ready'[i].op = "queue" /\ ready'[i].msg = m
    <2>1. PICK i \in 1 .. Len(ready) : ready[i].op = "queue" /\ ready[i].msg = m
      BY <1>1, <1>5, <1>8 DEF NumberedFrom
    <2>2. i # 1
      BY <1>3, <2>1
    <2>3. QED
      BY <1>3, <2>1, <2>2
  <1>9. e + Len(queue') <= sent'
    BY <1>1, <1>5
  <1>10. NumberedFrom(e)'
    BY <1>5, <1>6, <1>7, <1>8 DEF NumberedFrom
  <1>11. QED
    BY <1>9, <1>10 DEF QueueInv

\* A handler that is no message is added.
LEMMA QueueKeptBefore ==
    ASSUME Types, QueueInv, NEW h \in Handler, ready' = Append(ready, h), h.op # "queue",
           UNCHANGED <<queue, sent>>
    PROVE  QueueInv'
  <1>1. /\ \A i \in 1 .. Len(ready') :
                \/ i \in 1 .. Len(ready) /\ ready'[i] = ready[i]
                \/ i = Len(ready) + 1 /\ ready'[i] = h
        /\ \A i \in 1 .. Len(ready) : i \in 1 .. Len(ready') /\ ready'[i] = ready[i]
    BY HandlerAdded
  <1>2. PICK d \in Nat : d + Len(queue) <= sent /\ NumberedFrom(d)
    BY DEF QueueInv
  <1>3. NumberedFrom(d)'
    BY <1>1, <1>2 DEF NumberedFrom
  <1>4. QED
    BY <1>2, <1>3 DEF QueueInv

\* The first handler with a message moves it to the queue's end.
LEMMA QueueGrows ==
    ASSUME Types, QueueInv, HandleMessage
    PROVE  QueueInv'
  <1>1. PICK d \in Nat : d + Len(queue) <= sent /\ NumberedFrom(d)
    BY DEF QueueInv
  <1>2. /\ ready # <<>> /\ Head(ready).op = "queue" /\ sent' = sent
        /\ queue' = Append(queue, Head(ready).msg)
        /\ ready' = Tail(ready) \/ ready' = Append(Tail(ready), Done("write", FALSE))
    BY DEF HandleMessage, Executes, AsyncWrite
  <1>3. PICK t \in Seq(Handler) :
           /\ ready' = Tail(ready) \o t
           /\ \A i \in 1 .. Len(t) : t[i].op = "write" /\ ~t[i].ok
    BY <1>2, WriteLeaves
  <1>4. /\ ready[1] = Head(ready) /\ 1 \in 1 .. Len(ready)
        /\ \A i \in 1 .. Len(ready') :
             \/ i + 1 \in 1 .. Len(ready) /\ ready'[i] = ready[i + 1]
             \/ i - (Len(ready) - 1) \in 1 .. Len(t) /\ ready'[i] = t[i - (Len(ready) - 1)]
        /\ \A i \in 1 .. Len(ready) : i # 1 =>
              i - 1 \in 1 .. Len(ready') /\ ready'[i - 1] = ready[i]
    BY <1>2, <1>3, HeadLeaves
  <1>5. PICK m : m = Head(ready).msg
    OBVIOUS
  <1>6. m \in Message /\ m \in Nat
    BY <1>2, <1>4, <1>5, PostedTyped
  <1>7. PICK q \in Nat : q = d + Len(queue)
    BY <1>1, PoppedTyped
  <1>8. sent \in Nat /\ Len(queue) \in Nat
    BY PoppedTyped
  <1>9. /\ \A i \in 1 .. Len(ready) : ready[i].op = "queue" =>
              q < ready[i].msg /\ ready[i].msg <= sent
        /\ \A i, j \in 1 .. Len(ready) :
              ready[i].op = "queue" /\ ready[j].op = "queue" /\ i < j => ready[i].msg < ready[j].msg
        /\ \A k \in 1 .. sent : q < k =>
              \E i \in 1 .. Len(ready) : ready[i].op = "queue" /\ ready[i].msg = k
    BY <1>1, <1>7 DEF NumberedFrom
  <1>10. m = q + 1 /\ m <= sent
    <2>1. q < m /\ m <= sent
      BY <1>2, <1>4, <1>5, <1>9
    <2>2. SUFFICES ASSUME q + 1 < m
                   PROVE  FALSE
      BY <1>6, <2>1
    <2>3. q + 1 \in 1 .. sent /\ q < q + 1
      BY <1>6, <1>8, <2>1, <2>2
    <2>4. PICK i \in 1 .. Len(ready) : ready[i].op = "queue" /\ ready[i].msg = q + 1
      BY <1>9, <2>3
    <2>5. i # 1
      BY <1>4, <1>5, <1>6, <2>2, <2>4
    <2>6. 1 < i
      BY <2>5
    <2>7. ready[1].msg < ready[i].msg
      BY <1>2, <1>4, <1>9, <2>4, <2>6
    <2>8. QED
      BY <1>4, <1>5, <1>6, <2>2, <2>4, <2>7
  <1>11. /\ Len(queue') = Len(queue) + 1
         /\ \A i \in 1 .. Len(queue) : queue'[i] = queue[i]
         /\ queue'[Len(queue) + 1] = m
    <2>1. queue \in Seq(Message) /\ queue' = Append(queue, m)
      BY <1>2, <1>5, MessagesTyped
    <2> HIDE DEF Message
    <2>2. QED
      BY <1>6, <2>1, AppendProperties
  <1>12. d + Len(queue') = q + 1
    BY <1>7, <1>8, <1>11
  <1>13. ASSUME NEW i \in 1 .. Len(queue')
         PROVE  queue'[i] = d + i
    <2>1. CASE i = Len(queue) + 1
      BY <1>7, <1>8, <1>10, <1>11, <2>1
    <2>2. CASE i # Len(queue) + 1
      <3>1. i \in 1 .. Len(queue)
        BY <1>8, <1>11, <2>2
      <3>2. QED
        BY <1>1, <1>11, <3>1 DEF NumberedFrom
    <2>3. QED
      BY <2>1, <2>2
  <1>14. \A i \in 1 .. Len(ready') : ready'[i].op = "queue" =>
            i + 1 \in 1 .. Len(ready) /\ ready'[i] = ready[i + 1]
    BY <1>3, <1>4
  <1>15. ASSUME NEW i \in 1 .. Len(ready'), ready'[i].op = "queue"
         PROVE  q + 1 < ready'[i].msg /\ ready'[i].msg <= sent'
    <2>1. i + 1 \in 1 .. Len(ready) /\ ready'[i] = ready[i + 1] /\ 1 < i + 1
      BY <1>14, <1>15
    <2>2. ready[1].msg < ready[i + 1].msg /\ ready[i + 1].msg <= sent
      BY <1>2, <1>4, <1>9, <1>15, <2>1
    <2>3. QED
      BY <1>2, <1>4, <1>5, <1>10, <2>1, <2>2
  <1>16. ASSUME NEW i \in 1 .. Len(ready'), NEW j \in 1 .. Len(ready'),
                ready'[i].op = "queue", ready'[j].op = "queue", i < j
         PROVE  ready'[i].msg < ready'[j].msg
    <2>1. /\ i + 1 \in 1 .. Len(ready) /\ ready'[i] = ready[i + 1]
          /\ j + 1 \in 1 .. Len(ready) /\ ready'[j] = ready[j + 1] /\ i + 1 < j + 1
      BY <1>14, <1>16
    <2>2. QED
      BY <1>9, <1>16, <2>1
  <1>17. ASSUME NEW n \in 1 .. sent', q + 1 < n
         PROVE  \E i \in 1 .. Len(ready') : ready'[i].op = "queue" /\ ready'[i].msg = n
    <2>1. n \in 1 .. sent /\ q < n
      BY <1>2, <1>17
    <2>2. PICK i \in 1 .. Len(ready) : ready[i].op = "queue" /\ ready[i].msg = n
      BY <1>9, <2>1
    <2>3. i # 1
      BY <1>4, <1>5, <1>10, <1>17, <2>2
    <2>4. QED
      BY <1>4, <2>2, <2>3
  <1>18. NumberedFrom(d)'
    BY <1>12, <1>13, <1>15, <1>16, <1>17 DEF NumberedFrom
  <1>19. d + Len(queue') <= sent'
    BY <1>2, <1>10, <1>12
  <1>20. QED
    BY <1>18, <1>19 DEF QueueInv

\* A message is sent: its handler is the last one.
LEMMA QueueSent ==
    ASSUME Types, QueueInv, Send
    PROVE  QueueInv'
  <1>1. PICK d \in Nat : d + Len(queue) <= sent /\ NumberedFrom(d)
    BY DEF QueueInv
  <1>2. PICK h : h = Posted(sent')
    OBVIOUS
  <1>3. /\ h \in Handler /\ h.op = "queue" /\ h.msg = sent + 1 /\ sent' = sent + 1
        /\ ready' = Append(ready, h) /\ queue' = queue
    BY <1>2, HandlersTyped, LogClientAssumption DEF Send, Posted, Types, Message, client
  <1>4. /\ \A i \in 1 .. Len(ready') :
                \/ i \in 1 .. Len(ready) /\ ready'[i] = ready[i]
                \/ i = Len(ready) + 1 /\ ready'[i] = h
        /\ \A i \in 1 .. Len(ready) : i \in 1 .. Len(ready') /\ ready'[i] = ready[i]
        /\ Len(ready) + 1 \in 1 .. Len(ready') /\ ready'[Len(ready) + 1] = h
    BY <1>3, HandlerAdded
  <1>5. Len(queue) \in Nat /\ sent \in Nat
    BY PoppedTyped
  <1>6. \A i \in 1 .. Len(ready) : ready[i].op = "queue" => ready[i].msg \in Nat
    BY PostedTyped
  <1>7. \A i \in 1 .. Len(ready') : ready'[i].op = "queue" =>
           d + Len(queue) < ready'[i].msg /\ ready'[i].msg <= sent'
    BY <1>1, <1>3, <1>4, <1>5, <1>6 DEF NumberedFrom
  <1>8. \A i, j \in 1 .. Len(ready') :
           ready'[i].op = "queue" /\ ready'[j].op = "queue" /\ i < j =>
                 ready'[i].msg < ready'[j].msg
    BY <1>1, <1>3, <1>4, <1>5, <1>6 DEF NumberedFrom
  <1>9. ASSUME NEW m \in 1 .. sent', d + Len(queue) < m
        PROVE  \E i \in 1 .. Len(ready') : ready'[i].op = "queue" /\ ready'[i].msg = m
    <2>1. CASE m = sent + 1
      BY <1>3, <1>4, <2>1
    <2>2. CASE m # sent + 1
      <3>1. m \in 1 .. sent
        BY <1>3, <1>5, <2>2
      <3>2. PICK i \in 1 .. Len(ready) : ready[i].op = "queue" /\ ready[i].msg = m
        BY <1>1, <1>9, <3>1 DEF NumberedFrom
      <3>3. QED
        BY <1>4, <3>2
    <2>3. QED
      BY <2>1, <2>2
  <1>10. NumberedFrom(d)'
    BY <1>1, <1>3, <1>7, <1>8, <1>9 DEF NumberedFrom
  <1>11. d + Len(queue') <= sent'
    BY <1>1, <1>3, <1>5
  <1>12. QED
    BY <1>10, <1>11 DEF QueueInv

LEMMA QueueStep ==
    ASSUME Types, QueueInv, [Next]_vars
    PROVE  QueueInv'
  <1>1. CASE HandleConnected \/ HandleConnectFailed \/ HandleReadError \/ HandleWritten
             \/ HandleWriteError \/ HandleClose
    <2>1. ready # <<>> /\ Head(ready).op # "queue" /\ sent' = sent
      BY <1>1
      DEF HandleConnected, HandleConnectFailed, HandleReadError, HandleWritten,
          HandleWriteError, HandleClose, Executes
    <2>2. \/ ready' = Tail(ready)
          \/ ready' = Append(Tail(ready), Done("write", FALSE))
          \/ ready' = Tail(ready) \o Aborted
      BY <1>1
      DEF HandleConnected, HandleConnectFailed, HandleReadError, HandleWritten,
          HandleWriteError, HandleClose, DoConnect, AsyncConnect, AsyncWrite, Close
    <2>3. queue' = queue \/ (queue # <<>> /\ queue' = Tail(queue))
      <3>1. CASE HandleWritten
        BY <3>1 DEF HandleWritten
      <3>2. CASE HandleConnected
        BY <3>2 DEF HandleConnected, environment, history
      <3>3. CASE HandleConnectFailed
        BY <3>3 DEF HandleConnectFailed, history
      <3>4. CASE HandleReadError
        BY <3>4 DEF HandleReadError, history
      <3>5. CASE HandleWriteError
        BY <3>5 DEF HandleWriteError
      <3>6. CASE HandleClose
        BY <3>6 DEF HandleClose, client, history
      <3>7. QED
        BY <1>1, <3>1, <3>2, <3>3, <3>4, <3>5, <3>6
    <2>4. QED
      BY <2>1, <2>2, <2>3, QueueKept
  <1>2. CASE PostClose \/ ConnectSucceeds \/ ConnectRefused \/ ReadFails \/ WriteSucceeds
             \/ WriteIntoTheVoid \/ WriteFails
    <2>1. PICK h \in Handler : ready' = Append(ready, h) /\ h.op # "queue"
      BY <1>2, HandlersTyped
      DEF PostClose, ConnectSucceeds, ConnectRefused, ReadFails, WriteSucceeds,
          WriteIntoTheVoid, WriteFails, Done, CloseRequest
    <2>2. UNCHANGED <<queue, sent>>
      BY <1>2
      DEF PostClose, ConnectSucceeds, ConnectRefused, ReadFails, WriteSucceeds,
          WriteIntoTheVoid, WriteFails, client
    <2>3. QED
      BY <2>1, <2>2, QueueKeptBefore
  <1>3. CASE IoThreadExits \/ BeginDestroy \/ EndFlush \/ SetTerminate \/ Join \/ ServerStarts
             \/ ConnectionEnds \/ UNCHANGED vars
    <2>1. UNCHANGED <<queue, sent, ready>>
      BY <1>3
      DEF IoThreadExits, BeginDestroy, EndFlush, SetTerminate, Join, ServerStarts,
          ConnectionEnds, vars, client, operations
    <2>2. QED
      BY <2>1 DEF QueueInv, NumberedFrom
  <1>4. CASE HandleMessage
    BY <1>4, QueueGrows
  <1>5. CASE Send
    BY <1>5, QueueSent
  <1>6. QED
    BY <1>1, <1>2, <1>3, <1>4, <1>5
    DEF Next, IoThread, User, Destructor, Environment, Connecting, Writing

LEMMA ClosesGrow ==
    ASSUME Types, closes' = 0, [Next]_vars
    PROVE  closes = 0
  <1>1. CASE HandleConnected
    BY <1>1, LogClientAssumption
    DEF Types, HandleConnected, Executes, ConnectOk, AsyncWrite, environment, history
  <1>2. CASE HandleConnectFailed
    BY <1>2, LogClientAssumption
    DEF Types, HandleConnectFailed, Executes, ConnectOk, DoConnect, AsyncConnect, history
  <1>3. CASE HandleReadError
    BY <1>3, LogClientAssumption
    DEF Types, HandleReadError, Executes, DoConnect, AsyncConnect, history
  <1>4. CASE HandleMessage
    BY <1>4, LogClientAssumption
    DEF Types, HandleMessage, Executes, AsyncWrite, environment, history
  <1>5. CASE HandleWritten
    BY <1>5, LogClientAssumption DEF Types, HandleWritten, Executes, AsyncWrite, environment
  <1>6. CASE HandleWriteError
    BY <1>6, LogClientAssumption DEF Types, HandleWriteError, Executes, Close, AsyncConnect
  <1>7. CASE HandleClose
    BY <1>7, LogClientAssumption DEF Types, HandleClose, Executes, Close, client, history
  <1>8. CASE IoThreadExits
    BY <1>8, LogClientAssumption
    DEF Types, IoThreadExits, client, operations, environment, history
  <1>9. CASE Send
    BY <1>9, LogClientAssumption DEF Types, Send, client, environment, history
  <1>10. CASE BeginDestroy
    BY <1>10, LogClientAssumption
    DEF Types, BeginDestroy, client, operations, environment, history
  <1>11. CASE EndFlush
    BY <1>11, LogClientAssumption DEF Types, EndFlush, client, operations, environment, history
  <1>12. CASE SetTerminate
    BY <1>12, LogClientAssumption DEF Types, SetTerminate, operations, environment, history
  <1>13. CASE PostClose
    BY <1>13, LogClientAssumption DEF Types, PostClose, client, environment, history
  <1>14. CASE Join
    BY <1>14, LogClientAssumption DEF Types, Join, client, operations, environment, history
  <1>15. CASE ServerStarts
    BY <1>15, LogClientAssumption DEF Types, ServerStarts, client, operations, history
  <1>16. CASE ConnectSucceeds
    BY <1>16, LogClientAssumption DEF Types, ConnectSucceeds, client, history
  <1>17. CASE ConnectRefused
    BY <1>17, LogClientAssumption DEF Types, ConnectRefused, client, history
  <1>18. CASE ConnectionEnds
    BY <1>18, LogClientAssumption DEF Types, ConnectionEnds, client, operations, history
  <1>19. CASE ReadFails
    BY <1>19, LogClientAssumption DEF Types, ReadFails, client, environment, history
  <1>20. CASE WriteSucceeds
    BY <1>20, LogClientAssumption DEF Types, WriteSucceeds, client, environment
  <1>21. CASE WriteIntoTheVoid
    BY <1>21, LogClientAssumption DEF Types, WriteIntoTheVoid, client, history
  <1>22. CASE WriteFails
    BY <1>22, LogClientAssumption DEF Types, WriteFails, client, environment, history
  <1>23. CASE UNCHANGED vars
    BY <1>23, LogClientAssumption DEF Types, vars
  <1>24. QED
    BY <1>1, <1>2, <1>3, <1>4, <1>5, <1>6, <1>7, <1>8, <1>9, <1>10, <1>11, <1>12, <1>13, <1>14,
       <1>15, <1>16, <1>17, <1>18, <1>19, <1>20, <1>21, <1>22, <1>23
    DEF Next, IoThread, User, Destructor, Environment, Connecting, Writing

LEMMA Initially == Init => IInv
  <1> SUFFICES ASSUME Init
               PROVE  IInv
    OBVIOUS
  <1>1. /\ connected = FALSE /\ terminate = FALSE /\ queue = <<>> /\ user = "uses" /\ sent = 0
        /\ ready = <<>> /\ connecting = TRUE /\ reads = 0 /\ writes = <<>> /\ sock = "connecting"
        /\ closes = 0 /\ wire = <<>> /\ failures = 0
    BY DEF Init
  <1>2. Len(ready) = 0 /\ Len(queue) = 0 /\ Len(writes) = 0 /\ Len(wire) = 0 /\ 1 .. 0 = {}
    BY <1>1
  <1>3. Types
    <2>1. connected \in BOOLEAN /\ terminate \in BOOLEAN /\ connecting \in BOOLEAN
          /\ server \in BOOLEAN /\ underflow \in BOOLEAN
      BY Zenon DEF Init
    <2>2. queue \in Seq(Message) /\ ready \in Seq(Handler) /\ writes \in Seq(Message)
          /\ wire \in Seq(Message)
      BY <1>1
    <2>3. sent \in 0 .. MaxSends /\ closes \in 0 .. MaxCloses /\ connects \in 0 .. MaxConnects
          /\ reads \in Nat /\ failures \in Nat
      BY LogClientAssumption DEF Init
    <2>4. io_thread \in {"runs", "exited"} /\ attempt \in {0, 1}
      BY DEF Init
    <2>5. QED
      BY <1>1, <2>1, <2>2, <2>3, <2>4 DEF Types
  <1>4. OneChainPerFailure
    <2>1. InReady("connect") = 0 /\ InReady("read") = 0
      BY <1>1, CountNone DEF InReady
    <2>2. QED
      BY <1>1, <2>1 DEF OneChainPerFailure, Chains
  <1>5. TerminateInv
    BY <1>1, <1>2 DEF TerminateInv
  <1>6. SocketInv
    BY <1>1, <1>2 DEF SocketInv
  <1>7. WriteInv
    BY <1>1, <1>2 DEF WriteInv
  <1>8. OrderInv
    <2>1. Popped = 0 /\ Queued = 0
      BY <1>1, <1>2 DEF Popped, Queued, Written
    <2>2. PostedInv
      BY <1>1, <1>2, <2>1 DEF PostedInv
    <2>3. QED
      BY <1>1, <1>2, <2>1, <2>2 DEF OrderInv
  <1>9. QueueInv
    <2>1. NumberedFrom(0) /\ 0 + Len(queue) <= sent
      BY <1>1, <1>2 DEF NumberedFrom
    <2>2. QED
      BY <2>1 DEF QueueInv
  <1>10. QED
    BY <1>3, <1>4, <1>5, <1>6, <1>7, <1>8, <1>9 DEF IInv, FirstConnection

LEMMA Inductive == IInv /\ [Next]_vars => IInv'
  <1> SUFFICES ASSUME IInv, [Next]_vars
               PROVE  IInv'
    OBVIOUS
  <1>1. Types /\ QueueInv /\ OneChainPerFailure /\ TerminateInv /\ FirstConnection
    BY DEF IInv
  <1>2. Types'
    BY <1>1, TypeStep
  <1>3. OneChainPerFailure'
    BY <1>1, ChainStep
  <1>4. TerminateInv'
    BY <1>1, TerminateStep
  <1>5. FirstConnection'
    <2>1. SUFFICES ASSUME closes' = 0
                   PROVE  SocketInv' /\ WriteInv' /\ OrderInv'
      BY DEF FirstConnection
    <2>2. closes = 0
      BY <1>1, <2>1, ClosesGrow
    <2>3. SocketInv /\ WriteInv /\ OrderInv
      BY <1>1, <2>2 DEF FirstConnection
    <2>4. QED
      BY <1>1, <2>1, <2>2, <2>3, FirstStep
  <1>6. QueueInv'
    BY <1>1, QueueStep
  <1>7. QED
    BY <1>2, <1>3, <1>4, <1>5, <1>6 DEF IInv

LEMMA Invariant == Spec => []IInv
  BY Initially, Inductive, PTL DEF Spec

-----------------------------------------------------------------------------
(* The theorems.                                                            *)

\* Every variable keeps its type and the queue holds consecutive messages, for
\* any number of messages, of connections and of connections that end: what
\* M_queueMessage posts and M_doWrite pops, through every reconnection.
THEOREM TypeCorrect == Spec => []TypeOK
  <1>1. IInv => TypeOK
    <2> SUFFICES ASSUME IInv
                 PROVE  TypeOK
      OBVIOUS
    <2>1. Types /\ QueueInv
      BY DEF IInv
    <2>2. PICK d \in Nat : \A i \in 1 .. Len(queue) : queue[i] = d + i
      BY <2>1 DEF QueueInv, NumberedFrom
    <2>3. Len(queue) \in Nat
      BY <2>1, PoppedTyped
    <2>4. ASSUME NEW i \in 1 .. Len(queue) - 1
          PROVE  queue[i + 1] = queue[i] + 1
      <3>1. i \in 1 .. Len(queue) /\ i + 1 \in 1 .. Len(queue)
        BY <2>3
      <3>2. queue[i] = d + i /\ queue[i + 1] = d + (i + 1)
        BY <2>2, <3>1
      <3>3. QED
        BY <3>2
    <2>5. QED
      BY <2>1, <2>4 DEF TypeOK
  <1>2. QED
    BY <1>1, Invariant, PTL

\* The constructor's loop of connecting and reading is never lost, and each
\* failed write starts exactly one more: however often connections end, the
\* client has one plus the number of failed writes of them until it is destroyed.
THEOREM OneLoopPerFailure == Spec => []OneChainPerFailure
  <1>1. IInv => OneChainPerFailure
    BY DEF IInv
  <1>2. QED
    BY <1>1, Invariant, PTL

\* On the first connection M_queueMessage and the handler of async_write hand
\* the queue's head to exactly one write at a time, and what was written are the
\* first messages sent, in their order.
THEOREM FirstConnectionInOrder == Spec => []WrittenInOrder
  <1>1. IInv => WrittenInOrder
    <2> SUFFICES ASSUME IInv, closes = 0
                 PROVE  HeadIsBeingWritten /\ \A i \in 1 .. Len(wire) : wire[i] = i
      BY DEF WrittenInOrder
    <2>1. Types /\ SocketInv /\ WriteInv /\ OrderInv
      BY DEF IInv, FirstConnection
    <2>2. \A i \in 1 .. Len(wire) : wire[i] = i
      BY <2>1 DEF OrderInv
    <2>3. ASSUME connected, ~terminate
          PROVE  WritesInProgress = IF queue = <<>> THEN 0 ELSE 1
      <3> DEFINE W == {i \in DOMAIN ready : ready[i].op = "write"}
      <3>1. /\ W = {i \in 1 .. Len(ready) : IsWrite(ready[i])}
            /\ InReady("write") = Cardinality(W) /\ Len(writes) \in Nat
        BY <2>1, LenProperties DEF Types, IsWrite, InReady, Count
      <3>2. sock # "closed"
        BY <2>1, <2>3 DEF SocketInv
      <3> HIDE DEF W
      <3>3. CASE writes # <<>>
        <4>1. queue # <<>> /\ W = {}
          BY <2>1, <3>1, <3>3 DEF WriteInv
        <4>2. Len(writes) = 1
          <5>1. writes \in Seq(Message)
            BY <2>1, MessagesTyped
          <5>2. Len(writes) # 0
            BY <3>3, <5>1, EmptySeq
          <5> DEFINE n == Len(writes)
          <5>3. n \in Nat /\ n <= 1 /\ n # 0
            BY <2>1, <3>1, <5>2 DEF WriteInv
          <5> HIDE DEF n
          <5>4. n = 1
            BY <5>3
          <5>5. QED
            BY <5>4 DEF n
        <4>3. Cardinality(W) = 0
          BY <4>1, FS_EmptySet
        <4>4. QED
          BY <3>1, <4>1, <4>2, <4>3 DEF WritesInProgress
      <3>4. CASE writes = <<>> /\ queue # <<>>
        <4>1. PICK i \in 1 .. Len(ready) : IsWrite(ready[i])
          BY <2>1, <2>3, <3>2, <3>4 DEF WriteInv
        <4>2. W = {i}
          BY <2>1, <3>1, <4>1 DEF WriteInv
        <4>3. Cardinality(W) = 1
          BY <4>2, FS_Singleton
        <4>4. Len(writes) = 0
          BY <3>4
        <4>5. QED
          BY <3>1, <3>4, <4>3, <4>4 DEF WritesInProgress
      <3>5. CASE writes = <<>> /\ queue = <<>>
        <4>1. W = {}
          BY <2>1, <3>1, <3>5 DEF WriteInv
        <4>2. Cardinality(W) = 0
          BY <4>1, FS_EmptySet
        <4>3. Len(writes) = 0
          BY <3>5
        <4>4. QED
          BY <3>1, <3>5, <4>2, <4>3 DEF WritesInProgress
      <3>6. QED
        BY <3>3, <3>4, <3>5
    <2>4. QED
      BY <2>2, <2>3 DEF HeadIsBeingWritten
  <1>2. QED
    BY <1>1, Invariant, PTL
=============================================================================
