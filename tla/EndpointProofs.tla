--------------------------- MODULE EndpointProofs ---------------------------
(* Theorems about module Endpoint, for any number of clients and threads.   *)
EXTENDS Endpoint, FiniteSetTheorems, TLAPS

(* The index of a buffer is 0 or 1, and a receive thread that sends does so
   on the other buffer than the one it reads.                               *)
LEMMA BufferIndex ==
    /\ \A p \in Procs : Out(p) \in Buffers
    /\ \A e \in Endpoints : /\ e \in Procs
                            /\ RecvBuf(e) \in Buffers
                            /\ Out(e) # RecvBuf(e)
  BY EndpointAssumption
     DEF Procs, Endpoints, Out, EndpointOf, SendBuf, RecvBuf, Buffers

(* A post to a semaphore, and a wait that finds it above zero, leave a
   natural number in it.                                                    *)
LEMMA SemaphoreType ==
    ASSUME NEW sem \in [Buffers -> Nat], NEW b \in Buffers
    PROVE  /\ [sem EXCEPT ![b] = @ + 1] \in [Buffers -> Nat]
           /\ sem[b] > 0 => [sem EXCEPT ![b] = @ - 1] \in [Buffers -> Nat]
  OBVIOUS

-----------------------------------------------------------------------------
(* Types.                                                                   *)

\* The bound of the calls is not exceeded by the calls that have begun.
CallsInv ==
    \A p \in Procs : send_pc[p] \in {"sem_empty", "mutex", "write"} => calls[p] < MaxCalls

TypeInv == TypeOK /\ CallsInv

LEMMA TypeInit == Init => TypeInv
  BY EndpointAssumption DEF Init, TypeInv, TypeOK, CallsInv, Endpoints

LEMMA TypeStep == TypeInv /\ [Next]_vars => TypeInv'
  <1> SUFFICES ASSUME TypeInv, [Next]_vars PROVE TypeInv'
      OBVIOUS
  <1> USE BufferIndex, EndpointAssumption DEF TypeInv, TypeOK, CallsInv
  <1>1. ASSUME NEW c \in Clients, OpenClient(c) PROVE TypeInv'
    BY <1>1 DEF OpenClient, semaphores, history, Endpoints
  <1>2. ASSUME NEW p \in Procs, BeginSend(p) PROVE TypeInv'
    BY <1>2 DEF BeginSend, semaphores, history
  <1>3. ASSUME NEW p \in Procs, SendWaitEmpty(p) PROVE TypeInv'
    BY <1>3, SemaphoreType DEF SendWaitEmpty, Wait, history
  <1>4. ASSUME NEW p \in Procs, SendWaitMutex(p) PROVE TypeInv'
    BY <1>4, SemaphoreType DEF SendWaitMutex, Wait, history
  <1>5. ASSUME NEW p \in Procs, SendWrite(p) PROVE TypeInv'
    <2>1. NextMessage(p) \in Message
      BY <1>5 DEF SendWrite, NextMessage, Message
    <2>2. Append(written[Out(p)], NextMessage(p)) \in Seq(Message)
      BY <2>1
    <2>3. written' \in [Buffers -> Seq(Message)]
      BY <1>5, <2>2 DEF SendWrite
    <2>4. buffer' \in [Buffers -> Message \union {NoMessage}]
      BY <1>5, <2>1 DEF SendWrite
    <2>5. send_pc' \in [Procs -> {"idle", "sem_empty", "mutex", "write", "post_mutex", "post_full"}]
          /\ calls' \in [Procs -> 0 .. MaxCalls] /\ unread' \in [Buffers -> BOOLEAN]
      BY <1>5 DEF SendWrite
    <2>6. \A q \in Procs : send_pc'[q] \in {"sem_empty", "mutex", "write"} => calls'[q] < MaxCalls
      BY <1>5 DEF SendWrite
    <2>7. QED
      BY <1>5, <2>3, <2>4, <2>5, <2>6 DEF SendWrite, semaphores
  <1>6. ASSUME NEW p \in Procs, SendThrow(p) PROVE TypeInv'
    BY <1>6, SMTT(20) DEF SendThrow, semaphores
  <1>7. ASSUME NEW p \in Procs, SendPostMutex(p) PROVE TypeInv'
    BY <1>7, SemaphoreType DEF SendPostMutex, Post, history
  <1>8. ASSUME NEW p \in Procs, SendPostFull(p) PROVE TypeInv'
    BY <1>8, SemaphoreType DEF SendPostFull, Post, history
  <1>9. ASSUME NEW e \in Endpoints, RecvWaitFull(e) PROVE TypeInv'
    BY <1>9, SemaphoreType DEF RecvWaitFull, Wait, history
  <1>10. ASSUME NEW e \in Endpoints, RecvWaitMutex(e) PROVE TypeInv'
    BY <1>10, SemaphoreType DEF RecvWaitMutex, Wait, history
  <1>11. ASSUME NEW e \in Endpoints, RecvSeeShutdown(e) PROVE TypeInv'
    BY <1>11 DEF RecvSeeShutdown, semaphores
  <1>12. ASSUME NEW e \in Endpoints, RecvTakeMessage(e) PROVE TypeInv'
    <2>1. Append(received[RecvBuf(e)], buffer[RecvBuf(e)]) \in Seq(Message \union {NoMessage})
      OBVIOUS
    <2>2. QED
      BY <1>12, <2>1 DEF RecvTakeMessage, semaphores
  <1>13. ASSUME NEW e \in Endpoints, SlotReturns(e) PROVE TypeInv'
    BY <1>13 DEF SlotReturns, semaphores, history
  <1>14. ASSUME NEW e \in Endpoints, RecvPostMutex(e) PROVE TypeInv'
    BY <1>14, SemaphoreType DEF RecvPostMutex, Post, history
  <1>15. ASSUME NEW e \in Endpoints, RecvPostEmpty(e) PROVE TypeInv'
    BY <1>15, SemaphoreType DEF RecvPostEmpty, Post, history
  <1>16. ASSUME NEW e \in Endpoints, BeginDestroy(e) PROVE TypeInv'
    BY <1>16 DEF BeginDestroy, semaphores, history
  <1>17. ASSUME NEW e \in Endpoints, WakeReceiver(e) PROVE TypeInv'
    BY <1>17, SemaphoreType DEF WakeReceiver, Post, history
  <1>18. ASSUME NEW e \in Endpoints, FinishDestroy(e) PROVE TypeInv'
    BY <1>18 DEF FinishDestroy, semaphores, history
  <1>19. CASE UNCHANGED vars
    BY <1>19 DEF vars
  <1>20. QED
    BY <1>1, <1>2, <1>3, <1>4, <1>5, <1>6, <1>7, <1>8, <1>9, <1>10, <1>11, <1>12,
       <1>13, <1>14, <1>15, <1>16, <1>17, <1>18, <1>19
       DEF Next, SendStep, RecvStep, DestroyStep

(* Every variable keeps its type: no semaphore goes below zero, and every
   message is one of the calls of send.                                     *)
THEOREM TypeCorrect == Spec => []TypeOK
  <1>1. Spec => []TypeInv
    BY TypeInit, TypeStep, PTL DEF Spec
  <1>2. TypeInv => TypeOK
    BY DEF TypeInv
  <1>3. QED
    BY <1>1, <1>2, PTL

-----------------------------------------------------------------------------
(* Mutual exclusion.                                                        *)

\* The mutex of a buffer is binary, and taken while a thread is inside.
MutexInv ==
    /\ BufferExclusive
    /\ \A b \in Buffers : /\ mutex[b] <= 1
                          /\ \A p \in Procs : Holds(p, b) => mutex[b] = 0

LEMMA MutexInit == Init => MutexInv
  BY BufferIndex DEF Init, MutexInv, BufferExclusive, Holds

\* A step in which nobody enters and the mutexes are left alone.
LEMMA NobodyEnters ==
    ASSUME MutexInv, mutex' = mutex,
           \A q \in Procs, b \in Buffers : Holds(q, b)' => Holds(q, b)
    PROVE  MutexInv'
  BY DEF MutexInv, BufferExclusive

\* A step in which thread p takes the mutex of buffer b.
LEMMA ThreadEnters ==
    ASSUME TypeOK, MutexInv, NEW p \in Procs, NEW b \in Buffers, Wait(mutex, b),
           \A q \in Procs, c \in Buffers : Holds(q, c)' => Holds(q, c) \/ (q = p /\ c = b)
    PROVE  MutexInv'
  <1>1. mutex[b] = 1 /\ mutex'[b] = 0 /\ \A c \in Buffers : c # b => mutex'[c] = mutex[c]
    BY DEF TypeOK, MutexInv, Wait
  <1>2. \A q \in Procs : ~Holds(q, b)
    BY <1>1 DEF MutexInv
  <1>3. BufferExclusive'
    BY <1>2 DEF MutexInv, BufferExclusive
  <1>4. QED
    BY <1>1, <1>2, <1>3 DEF MutexInv

\* A step in which thread p, inside buffer b, posts its mutex.
LEMMA ThreadLeaves ==
    ASSUME TypeOK, MutexInv, NEW p \in Procs, NEW b \in Buffers, Holds(p, b), Post(mutex, b),
           \A q \in Procs, c \in Buffers : Holds(q, c)' => Holds(q, c) /\ (q # p \/ c # b)
    PROVE  MutexInv'
  <1>1. mutex[b] = 0 /\ mutex'[b] = 1 /\ \A c \in Buffers : c # b => mutex'[c] = mutex[c]
    BY DEF TypeOK, MutexInv, Post
  <1>2. \A q \in Procs : ~Holds(q, b)'
    BY DEF MutexInv, BufferExclusive
  <1>3. BufferExclusive'
    BY <1>2 DEF MutexInv, BufferExclusive
  <1>4. QED
    BY <1>1, <1>2, <1>3 DEF MutexInv

LEMMA MutexStep == TypeInv /\ MutexInv /\ [Next]_vars => MutexInv'
  <1> SUFFICES ASSUME TypeOK, MutexInv, [Next]_vars PROVE MutexInv'
      BY DEF TypeInv
  <1> USE BufferIndex
  <1>1. ASSUME NEW p \in Procs, SendWaitMutex(p) PROVE MutexInv'
    <2>1. \A q \in Procs, c \in Buffers :
             Holds(q, c)' => Holds(q, c) \/ (q = p /\ c = Out(p))
      BY <1>1 DEF SendWaitMutex, Holds, TypeOK
    <2>2. Wait(mutex, Out(p))
      BY <1>1 DEF SendWaitMutex
    <2>3. QED
      BY <2>1, <2>2, ThreadEnters
  <1>2. ASSUME NEW p \in Procs, SendWrite(p) PROVE MutexInv'
    <2>1. \A q \in Procs, b \in Buffers : Holds(q, b)' => Holds(q, b)
      BY <1>2 DEF SendWrite, Holds, TypeOK
    <2>2. mutex' = mutex
      BY <1>2 DEF SendWrite, semaphores
    <2>3. QED
      BY <2>1, <2>2, NobodyEnters
  <1>3. ASSUME NEW p \in Procs, SendThrow(p) PROVE MutexInv'
    <2>1. \A q \in Procs, b \in Buffers : Holds(q, b)' => Holds(q, b)
      BY <1>3 DEF SendThrow, Holds, TypeOK
    <2>2. mutex' = mutex
      BY <1>3 DEF SendThrow, semaphores
    <2>3. QED
      BY <2>1, <2>2, NobodyEnters
  <1>4. ASSUME NEW p \in Procs, SendPostMutex(p) PROVE MutexInv'
    <2>1. \A q \in Procs, c \in Buffers :
             Holds(q, c)' => Holds(q, c) /\ (q # p \/ c # Out(p))
      BY <1>4 DEF SendPostMutex, Holds, TypeOK
    <2>2. Holds(p, Out(p)) /\ Post(mutex, Out(p))
      BY <1>4 DEF SendPostMutex, Holds
    <2>3. QED
      BY <2>1, <2>2, ThreadLeaves
  <1>5. ASSUME NEW e \in Endpoints, RecvWaitMutex(e) PROVE MutexInv'
    <2>1. \A q \in Procs, c \in Buffers :
             Holds(q, c)' => Holds(q, c) \/ (q = e /\ c = RecvBuf(e))
      BY <1>5 DEF RecvWaitMutex, Holds, TypeOK
    <2>2. Wait(mutex, RecvBuf(e))
      BY <1>5 DEF RecvWaitMutex
    <2>3. QED
      BY <2>1, <2>2, ThreadEnters
  <1>6. ASSUME NEW e \in Endpoints, RecvSeeShutdown(e) PROVE MutexInv'
    <2>1. \A q \in Procs, b \in Buffers : Holds(q, b)' => Holds(q, b)
      BY <1>6 DEF RecvSeeShutdown, Holds, TypeOK
    <2>2. mutex' = mutex
      BY <1>6 DEF RecvSeeShutdown, semaphores
    <2>3. QED
      BY <2>1, <2>2, NobodyEnters
  <1>7. ASSUME NEW e \in Endpoints, RecvTakeMessage(e) PROVE MutexInv'
    <2>1. \A q \in Procs, b \in Buffers : Holds(q, b)' => Holds(q, b)
      BY <1>7 DEF RecvTakeMessage, Holds, TypeOK
    <2>2. mutex' = mutex
      BY <1>7 DEF RecvTakeMessage, semaphores
    <2>3. QED
      BY <2>1, <2>2, NobodyEnters
  <1>8. ASSUME NEW e \in Endpoints, SlotReturns(e) PROVE MutexInv'
    <2>1. \A q \in Procs, b \in Buffers : Holds(q, b)' => Holds(q, b)
      BY <1>8 DEF SlotReturns, Holds, TypeOK
    <2>2. mutex' = mutex
      BY <1>8 DEF SlotReturns, semaphores
    <2>3. QED
      BY <2>1, <2>2, NobodyEnters
  <1>9. ASSUME NEW e \in Endpoints, RecvPostMutex(e) PROVE MutexInv'
    <2>1. \A q \in Procs, c \in Buffers :
             Holds(q, c)' => Holds(q, c) /\ (q # e \/ c # RecvBuf(e))
      BY <1>9 DEF RecvPostMutex, Holds, TypeOK
    <2>2. Holds(e, RecvBuf(e)) /\ Post(mutex, RecvBuf(e))
      BY <1>9 DEF RecvPostMutex, Holds
    <2>3. QED
      BY <2>1, <2>2, ThreadLeaves
  <1>10. ASSUME NEW p \in Procs, BeginSend(p) \/ SendWaitEmpty(p) \/ SendPostFull(p)
         PROVE MutexInv'
    <2>1. \A q \in Procs, b \in Buffers : Holds(q, b)' => Holds(q, b)
      BY <1>10 DEF BeginSend, SendWaitEmpty, SendPostFull, Holds, TypeOK
    <2>2. mutex' = mutex
      BY <1>10 DEF BeginSend, SendWaitEmpty, SendPostFull, semaphores
    <2>3. QED
      BY <2>1, <2>2, NobodyEnters
  <1>11. ASSUME NEW e \in Endpoints, RecvWaitFull(e) \/ RecvPostEmpty(e)
         PROVE MutexInv'
    <2>1. \A q \in Procs, b \in Buffers : Holds(q, b)' => Holds(q, b)
      BY <1>11 DEF RecvWaitFull, RecvPostEmpty, Holds, TypeOK
    <2>2. mutex' = mutex
      BY <1>11 DEF RecvWaitFull, RecvPostEmpty
    <2>3. QED
      BY <2>1, <2>2, NobodyEnters
  <1>12. ASSUME NEW c \in Clients, OpenClient(c) PROVE MutexInv'
    <2>1. \A q \in Procs, b \in Buffers : Holds(q, b)' => Holds(q, b)
      BY <1>12 DEF OpenClient, Holds, TypeOK
    <2>2. mutex' = mutex
      BY <1>12 DEF OpenClient, semaphores
    <2>3. QED
      BY <2>1, <2>2, NobodyEnters
  <1>13. ASSUME NEW e \in Endpoints, BeginDestroy(e) \/ WakeReceiver(e) \/ FinishDestroy(e)
         PROVE MutexInv'
    <2>1. mutex' = mutex /\ send_pc' = send_pc /\ recv_pc' = recv_pc
      BY <1>13 DEF BeginDestroy, WakeReceiver, FinishDestroy, semaphores
    <2>2. QED
      BY <2>1, NobodyEnters DEF Holds
  <1>14. CASE UNCHANGED vars
    BY <1>14, NobodyEnters DEF vars, Holds
  <1>15. QED
    BY <1>1, <1>2, <1>3, <1>4, <1>5, <1>6, <1>7, <1>8, <1>9, <1>10, <1>11, <1>12,
       <1>13, <1>14 DEF Next, SendStep, RecvStep, DestroyStep

(* No two threads are ever between mutex.wait() and mutex.post() of the same
   buffer, whatever clients open, overlap and leave and whatever sends throw. *)
THEOREM MutualExclusion == Spec => []BufferExclusive
  <1>1. TypeInv /\ MutexInv /\ [Next]_vars => (TypeInv /\ MutexInv)'
    BY TypeStep, MutexStep
  <1>2. Spec => [](TypeInv /\ MutexInv)
    BY <1>1, TypeInit, MutexInit, PTL DEF Spec
  <1>3. MutexInv => BufferExclusive
    BY DEF MutexInv
  <1>4. QED
    BY <1>2, <1>3, PTL

-----------------------------------------------------------------------------
(* The life of the endpoints.                                               *)

\* Only the server receives from buffers[1].
LEMMA Receivers ==
    \A e \in Endpoints : RecvBuf(e) = IF e = Server THEN 1 ELSE 0
  BY DEF RecvBuf, SendBuf

\* A receive thread runs exactly from the constructor to the join.
LifeInv ==
    \A e \in Endpoints : /\ life[e] = "none" <=> recv_pc[e] = "none"
                         /\ life[e] = "gone" => recv_pc[e] = "exited"

\* The flag of a buffer is set by a destructor that has not returned.
FlagInv ==
    \A b \in Buffers : shutdown[b] =>
        \E e \in Endpoints : RecvBuf(e) = b /\ life[e] \in {"shutdown", "join"}

\* Endpoint e is the only one that may ever receive from its buffer.
SoleReceiver(e) == \A d \in Endpoints : RecvBuf(d) = RecvBuf(e) => d = e

\* While the destructor of such an endpoint runs, nobody else resets its flag.
SoleFlagInv ==
    \A e \in Endpoints :
        SoleReceiver(e) /\ life[e] \in {"shutdown", "join"} => shutdown[RecvBuf(e)]

EndpointInv == LifeInv /\ FlagInv /\ SoleFlagInv

LEMMA EndpointInit == Init => EndpointInv
  BY BufferIndex DEF Init, EndpointInv, LifeInv, FlagInv, SoleFlagInv

\* The steps that neither begin nor end the life of an endpoint.
LEMMA LifeUnchanged ==
    ASSUME EndpointInv, life' = life, shutdown' = shutdown,
           \A e \in Endpoints : /\ recv_pc'[e] = "none" <=> recv_pc[e] = "none"
                                /\ recv_pc[e] = "exited" => recv_pc'[e] = "exited"
    PROVE  EndpointInv'
  BY DEF EndpointInv, LifeInv, FlagInv, SoleFlagInv

LEMMA EndpointStep == TypeInv /\ EndpointInv /\ [Next]_vars => EndpointInv'
  <1> SUFFICES ASSUME TypeOK, EndpointInv, [Next]_vars PROVE EndpointInv'
      BY DEF TypeInv
  <1> USE BufferIndex
  <1>1. ASSUME NEW c \in Clients, OpenClient(c) PROVE EndpointInv'
    <2> USE <1>1 DEF OpenClient, TypeOK
    <2>1. c \in Endpoints /\ Server \in Endpoints /\ c # Server
      BY EndpointAssumption DEF Endpoints
    <2>2. LifeInv'
      BY <2>1 DEF EndpointInv, LifeInv
    <2>3. FlagInv'
      BY <2>1 DEF EndpointInv, FlagInv
    <2>4. SoleFlagInv'
      BY <2>1 DEF EndpointInv, SoleFlagInv, SoleReceiver
    <2>5. QED
      BY <2>2, <2>3, <2>4 DEF EndpointInv
  <1>2. ASSUME NEW p \in Procs, BeginSend(p) \/ SendStep(p) PROVE EndpointInv'
    <2>1. life' = life /\ shutdown' = shutdown /\ recv_pc' = recv_pc
      BY <1>2 DEF BeginSend, SendStep, SendWaitEmpty, SendWaitMutex, SendWrite, SendThrow,
                  SendPostMutex, SendPostFull
    <2>2. QED
      BY <2>1, LifeUnchanged
  <1>3. ASSUME NEW e \in Endpoints, RecvStep(e) PROVE EndpointInv'
    <2>1. life' = life /\ shutdown' = shutdown
      BY <1>3 DEF RecvStep, RecvWaitFull, RecvWaitMutex, RecvSeeShutdown, RecvTakeMessage,
                  SlotReturns, RecvPostMutex, RecvPostEmpty
    <2>2. \A d \in Endpoints : /\ recv_pc'[d] = "none" <=> recv_pc[d] = "none"
                               /\ recv_pc[d] = "exited" => recv_pc'[d] = "exited"
      BY <1>3 DEF TypeOK, RecvStep, RecvWaitFull, RecvWaitMutex, RecvSeeShutdown,
                  RecvTakeMessage, SlotReturns, RecvPostMutex, RecvPostEmpty
    <2>3. QED
      BY <2>1, <2>2, LifeUnchanged
  <1>4. ASSUME NEW e \in Endpoints, BeginDestroy(e) PROVE EndpointInv'
    <2> USE <1>4 DEF BeginDestroy, TypeOK
    <2>1. LifeInv'
      BY DEF EndpointInv, LifeInv
    <2>2. FlagInv'
      BY DEF EndpointInv, FlagInv
    <2>3. SoleFlagInv'
      BY DEF EndpointInv, SoleFlagInv, SoleReceiver
    <2>4. QED
      BY <2>1, <2>2, <2>3 DEF EndpointInv
  <1>5. ASSUME NEW e \in Endpoints, WakeReceiver(e) PROVE EndpointInv'
    <2> USE <1>5 DEF WakeReceiver, TypeOK
    <2>1. LifeInv'
      BY DEF EndpointInv, LifeInv
    <2>2. FlagInv'
      BY DEF EndpointInv, FlagInv
    <2>3. SoleFlagInv'
      BY DEF EndpointInv, SoleFlagInv, SoleReceiver
    <2>4. QED
      BY <2>1, <2>2, <2>3 DEF EndpointInv
  <1>6. ASSUME NEW e \in Endpoints, FinishDestroy(e) PROVE EndpointInv'
    <2> USE <1>6 DEF FinishDestroy, TypeOK
    <2>1. LifeInv'
      BY DEF EndpointInv, LifeInv
    <2>2. FlagInv'
      BY DEF EndpointInv, FlagInv
    <2>3. SoleFlagInv'
      BY DEF EndpointInv, SoleFlagInv, SoleReceiver
    <2>4. QED
      BY <2>1, <2>2, <2>3 DEF EndpointInv
  <1>7. CASE UNCHANGED vars
    BY <1>7, LifeUnchanged DEF vars
  <1>8. QED
    BY <1>1, <1>2, <1>3, <1>4, <1>5, <1>6, <1>7 DEF Next, DestroyStep

LEMMA EndpointInvariant == Spec => [](TypeInv /\ EndpointInv)
  <1>1. TypeInv /\ EndpointInv /\ [Next]_vars => (TypeInv /\ EndpointInv)'
    BY TypeStep, EndpointStep
  <1>2. QED
    BY <1>1, TypeInit, EndpointInit, PTL DEF Spec

\* Without overlapping clients a buffer has one receiver at a time.
OneReceiver ==
    \A d, e \in Endpoints : Alive(d) /\ Alive(e) /\ RecvBuf(d) = RecvBuf(e) => d = e

StopInv == OneReceiver /\ StopsForItsOwner

LEMMA StopInit == Init => StopInv
  BY DEF Init, StopInv, OneReceiver, StopsForItsOwner, Alive

LEMMA StopStep ==
    ASSUME ~Overlap
    PROVE  TypeInv /\ EndpointInv /\ StopInv /\ [Next]_vars => StopInv'
  <1> SUFFICES ASSUME TypeOK, EndpointInv, StopInv, [Next]_vars PROVE StopInv'
      BY DEF TypeInv
  <1> USE BufferIndex
  <1>1. ASSUME NEW c \in Clients, OpenClient(c) PROVE StopInv'
    <2>1. c \in Endpoints /\ c # Server /\ \A d \in Endpoints : d # Server => d \in Clients
      BY EndpointAssumption DEF Endpoints
    <2>2. \A d \in Endpoints : d # c => (Alive(d)' <=> Alive(d))
      BY <1>1 DEF OpenClient, Alive, TypeOK
    <2>3. \A d \in Endpoints : Alive(d) => d = Server
      BY <1>1, <2>1 DEF OpenClient
    <2>4. OneReceiver'
      BY <2>1, <2>2, <2>3, Receivers DEF OneReceiver
    <2>5. StopsForItsOwner'
      BY <1>1, <2>1 DEF StopInv, StopsForItsOwner, OpenClient, TypeOK
    <2>6. QED
      BY <2>4, <2>5 DEF StopInv
  <1>2. ASSUME NEW p \in Procs, BeginSend(p) \/ SendStep(p) PROVE StopInv'
    <2>1. life' = life /\ stop_thread' = stop_thread
      BY <1>2 DEF BeginSend, SendStep, SendWaitEmpty, SendWaitMutex, SendWrite, SendThrow,
                  SendPostMutex, SendPostFull
    <2>2. QED
      BY <2>1 DEF StopInv, OneReceiver, StopsForItsOwner, Alive
  <1>3. ASSUME NEW e \in Endpoints, RecvSeeShutdown(e) PROVE StopInv'
    <2>1. Alive(e)
      BY <1>3 DEF RecvSeeShutdown, Alive, EndpointInv, LifeInv, TypeOK
    <2>2. PICK d \in Endpoints : RecvBuf(d) = RecvBuf(e) /\ life[d] \in {"shutdown", "join"}
      BY <1>3 DEF RecvSeeShutdown, EndpointInv, FlagInv
    <2>3. d = e
      BY <2>1, <2>2 DEF StopInv, OneReceiver, Alive
    <2>4. QED
      BY <1>3, <2>2, <2>3 DEF RecvSeeShutdown, StopInv, OneReceiver, StopsForItsOwner, Alive, TypeOK
  <1>4. ASSUME NEW e \in Endpoints, RecvStep(e), ~RecvSeeShutdown(e) PROVE StopInv'
    <2>1. life' = life /\ stop_thread' = stop_thread
      BY <1>4 DEF RecvStep, RecvWaitFull, RecvWaitMutex, RecvTakeMessage,
                  SlotReturns, RecvPostMutex, RecvPostEmpty
    <2>2. QED
      BY <2>1 DEF StopInv, OneReceiver, StopsForItsOwner, Alive
  <1>5. ASSUME NEW e \in Endpoints, BeginDestroy(e) \/ WakeReceiver(e) \/ FinishDestroy(e)
        PROVE StopInv'
    <2>1. stop_thread' = stop_thread /\ \A d \in Endpoints : d # e => life'[d] = life[d]
      BY <1>5 DEF BeginDestroy, WakeReceiver, FinishDestroy, TypeOK
    <2>2. Alive(e) /\ life'[e] \in {"shutdown", "join", "gone"}
      BY <1>5 DEF BeginDestroy, WakeReceiver, FinishDestroy, TypeOK, Alive
    <2>3. \A d \in Endpoints : Alive(d)' => Alive(d)
      BY <2>1, <2>2 DEF Alive
    <2>4. QED
      BY <2>1, <2>2, <2>3 DEF StopInv, OneReceiver, StopsForItsOwner
  <1>6. CASE UNCHANGED vars
    BY <1>6 DEF vars, StopInv, OneReceiver, StopsForItsOwner, Alive
  <1>7. QED
    BY <1>1, <1>2, <1>3, <1>4, <1>5, <1>6 DEF Next, DestroyStep

(* If the application never opens a client while another one is alive, a
   receive thread ends only for the destructor of its own endpoint: the flag
   a departing client sets is never taken by its successor.                 *)
THEOREM StopsOnlyForOwner ==
    ASSUME ~Overlap
    PROVE  Spec => []StopsForItsOwner
  <1>1. TypeInv /\ EndpointInv /\ StopInv /\ [Next]_vars => StopInv'
    BY StopStep
  <1>2. Spec => []StopInv
    BY <1>1, StopInit, EndpointInvariant, PTL DEF Spec
  <1>3. StopInv => StopsForItsOwner
    BY DEF StopInv
  <1>4. QED
    BY <1>2, <1>3, PTL

-----------------------------------------------------------------------------
(* One token per buffer, until one of its receivers begins to be destroyed.     *)

\* Thread p has taken the token of buffer b.
Carries(p, b) == p \in SendersInFlight(b) \/ p \in ReceiversInFlight(b)

OneToken(b) ==
    /\ sem_empty[b] + sem_full[b] <= 1
    /\ wedged[b] => sem_empty[b] + sem_full[b] = 0 /\ \A p \in Procs : ~Carries(p, b)
    /\ \A p \in Procs : Carries(p, b) => sem_empty[b] + sem_full[b] = 0
    /\ \A p, q \in Procs : Carries(p, b) /\ Carries(q, b) => p = q

\* Where the token is tells whether the buffer holds an unread message.
UnreadInv(b) ==
    /\ sem_empty[b] > 0 => ~unread[b]
    /\ sem_full[b] > 0 => unread[b]
    /\ \A p \in Procs : Out(p) = b =>
          /\ send_pc[p] \in {"mutex", "write"} => ~unread[b]
          /\ send_pc[p] \in {"post_mutex", "post_full"} => unread[b]
    /\ \A e \in Endpoints : RecvBuf(e) = b =>
          /\ recv_pc[e] \in {"mutex", "dispatch"} => unread[b]
          /\ recv_pc[e] \in {"slot", "post_mutex", "post_empty"} => ~unread[b]

\* What was written and what was received differ by the unread message.
OrderInv(b) ==
    written[b] = IF unread[b] THEN Append(received[b], buffer[b]) ELSE received[b]

OpenInv == \A b \in Buffers : ~Closed(b) => OneToken(b) /\ UnreadInv(b) /\ OrderInv(b)

LEMMA OpenInit == Init => OpenInv
  <1> SUFFICES ASSUME Init, NEW b \in Buffers PROVE OneToken(b) /\ UnreadInv(b) /\ OrderInv(b)
      BY DEF OpenInv
  <1> USE BufferIndex DEF Init
  <1>1. \A p \in Procs : ~Carries(p, b)
    BY DEF Carries, SendersInFlight, ReceiversInFlight
  <1>2. QED
    BY <1>1 DEF OneToken, UnreadInv, OrderInv

\* A buffer that is closed stays closed.
LEMMA ClosedStays ==
    ASSUME TypeOK, [Next]_vars, NEW b \in Buffers, Closed(b)
    PROVE  Closed(b)'
  <1> USE DEF Closed, TypeOK
  <1>1. ASSUME NEW c \in Clients, OpenClient(c) PROVE Closed(b)'
    BY <1>1 DEF OpenClient
  <1>2. ASSUME NEW e \in Endpoints, BeginDestroy(e) \/ DestroyStep(e) PROVE Closed(b)'
    BY <1>2 DEF BeginDestroy, DestroyStep, WakeReceiver, FinishDestroy
  <1>3. CASE life' = life
    BY <1>3
  <1>4. QED
    BY <1>1, <1>2, <1>3
       DEF Next, vars, BeginSend, SendStep, SendWaitEmpty, SendWaitMutex, SendWrite, SendThrow,
           SendPostMutex, SendPostFull, RecvStep, RecvWaitFull, RecvWaitMutex,
           RecvSeeShutdown, RecvTakeMessage, SlotReturns, RecvPostMutex, RecvPostEmpty

\* A step that leaves the token of buffer b where it is.
LEMMA TokenStays ==
    ASSUME NEW b \in Buffers, OneToken(b),
           sem_empty'[b] = sem_empty[b], sem_full'[b] = sem_full[b], wedged'[b] = wedged[b],
           \A q \in Procs : Carries(q, b)' => Carries(q, b)
    PROVE  OneToken(b)'
  BY DEF OneToken

\* A step in which p takes the token from a semaphore.
LEMMA TokenTaken ==
    ASSUME TypeOK, NEW b \in Buffers, NEW p \in Procs, OneToken(b), wedged'[b] = wedged[b],
           \/ sem_empty[b] > 0 /\ sem_empty'[b] = sem_empty[b] - 1 /\ sem_full'[b] = sem_full[b]
           \/ sem_full[b] > 0 /\ sem_full'[b] = sem_full[b] - 1 /\ sem_empty'[b] = sem_empty[b],
           \A q \in Procs : Carries(q, b)' => Carries(q, b) \/ q = p
    PROVE  OneToken(b)'
  <1>1. /\ sem_empty[b] + sem_full[b] = 1
        /\ sem_empty'[b] + sem_full'[b] = 0
    BY DEF OneToken, TypeOK
  <1>2. ~wedged[b] /\ \A q \in Procs : ~Carries(q, b)
    BY <1>1 DEF OneToken
  <1>3. QED
    BY <1>1, <1>2 DEF OneToken

\* A step in which p gives the token back to a semaphore.
LEMMA TokenGiven ==
    ASSUME TypeOK, NEW b \in Buffers, NEW p \in Procs, OneToken(b), Carries(p, b),
           wedged'[b] = wedged[b],
           \/ sem_empty'[b] = sem_empty[b] + 1 /\ sem_full'[b] = sem_full[b]
           \/ sem_full'[b] = sem_full[b] + 1 /\ sem_empty'[b] = sem_empty[b],
           \A q \in Procs : Carries(q, b)' => Carries(q, b) /\ q # p
    PROVE  OneToken(b)'
  <1>1. /\ sem_empty[b] + sem_full[b] = 0
        /\ sem_empty'[b] + sem_full'[b] = 1
    BY DEF OneToken, TypeOK
  <1>2. ~wedged[b] /\ \A q \in Procs : ~Carries(q, b)'
    BY DEF OneToken
  <1>3. QED
    BY <1>1, <1>2 DEF OneToken

LEMMA OpenStep == TypeInv /\ EndpointInv /\ OpenInv /\ [Next]_vars => OpenInv'
  <1> SUFFICES ASSUME TypeOK, EndpointInv, OpenInv, [Next]_vars,
                      NEW b \in Buffers, ~Closed(b)'
               PROVE  OneToken(b)' /\ UnreadInv(b)' /\ OrderInv(b)'
      BY DEF TypeInv, OpenInv
  <1>0. ~Closed(b)
    BY ClosedStays
  <1>00. OneToken(b) /\ UnreadInv(b) /\ OrderInv(b)
    BY <1>0 DEF OpenInv
  <1> USE BufferIndex, <1>00
  <1>1. ASSUME NEW p \in Procs, BeginSend(p)
         PROVE  OneToken(b)' /\ UnreadInv(b)' /\ OrderInv(b)'
    <2> USE <1>1 DEF BeginSend, TypeOK
    <2>1. \A q \in Procs : Carries(q, b)' => Carries(q, b)
      BY DEF Carries, SendersInFlight, ReceiversInFlight
    <2>2. sem_empty'[b] = sem_empty[b] /\ sem_full'[b] = sem_full[b] /\ wedged'[b] = wedged[b]
      BY DEF Wait, Post, semaphores, history
    <2>3. OneToken(b)'
      BY <2>1, <2>2, TokenStays
    <2>4. UnreadInv(b)'
      BY DEF UnreadInv, OneToken, Carries, SendersInFlight, ReceiversInFlight, Wait, Post, semaphores, history
    <2>5. OrderInv(b)'
      BY DEF OrderInv, UnreadInv, history
    <2>6. QED
      BY <2>3, <2>4, <2>5
  <1>2. ASSUME NEW p \in Procs, SendWaitEmpty(p)
         PROVE  OneToken(b)' /\ UnreadInv(b)' /\ OrderInv(b)'
    <2> USE <1>2 DEF SendWaitEmpty, TypeOK
    <2>1. ASSUME b = Out(p) PROVE OneToken(b)'
      <3>1. \A q \in Procs : Carries(q, b)' => Carries(q, b) \/ q = p
        BY <2>1 DEF Carries, SendersInFlight, ReceiversInFlight
      <3>2. \/ sem_empty[b] > 0 /\ sem_empty'[b] = sem_empty[b] - 1 /\ sem_full'[b] = sem_full[b]
            \/ sem_full[b] > 0 /\ sem_full'[b] = sem_full[b] - 1 /\ sem_empty'[b] = sem_empty[b]
        BY <2>1 DEF Wait, Post, semaphores, history
      <3>3. wedged'[b] = wedged[b]
        BY DEF history
      <3>4. OneToken(b)'
        BY <3>1, <3>2, <3>3, TokenTaken
      <3>5. QED
        BY <3>4
    <2>2. ASSUME b # Out(p) PROVE OneToken(b)'
      <3>1. \A q \in Procs : Carries(q, b)' => Carries(q, b)
        BY <2>2 DEF Carries, SendersInFlight, ReceiversInFlight
      <3>2. sem_empty'[b] = sem_empty[b] /\ sem_full'[b] = sem_full[b] /\ wedged'[b] = wedged[b]
        BY <2>2 DEF Wait, Post, semaphores, history
      <3>3. QED
        BY <3>1, <3>2, TokenStays
    <2>3. OneToken(b)'
      BY <2>1, <2>2
    <2>4. UnreadInv(b)'
      BY DEF UnreadInv, OneToken, Carries, SendersInFlight, ReceiversInFlight, Wait, Post, semaphores, history
    <2>5. OrderInv(b)'
      BY DEF OrderInv, UnreadInv, history
    <2>6. QED
      BY <2>3, <2>4, <2>5
  <1>3. ASSUME NEW p \in Procs, SendWaitMutex(p)
         PROVE  OneToken(b)' /\ UnreadInv(b)' /\ OrderInv(b)'
    <2> USE <1>3 DEF SendWaitMutex, TypeOK
    <2>1. \A q \in Procs : Carries(q, b)' => Carries(q, b)
      BY DEF Carries, SendersInFlight, ReceiversInFlight
    <2>2. sem_empty'[b] = sem_empty[b] /\ sem_full'[b] = sem_full[b] /\ wedged'[b] = wedged[b]
      BY DEF Wait, Post, semaphores, history
    <2>3. OneToken(b)'
      BY <2>1, <2>2, TokenStays
    <2>4. UnreadInv(b)'
      BY DEF UnreadInv, OneToken, Carries, SendersInFlight, ReceiversInFlight, Wait, Post, semaphores, history
    <2>5. OrderInv(b)'
      BY DEF OrderInv, UnreadInv, history
    <2>6. QED
      BY <2>3, <2>4, <2>5
  <1>4. ASSUME NEW p \in Procs, SendWrite(p)
         PROVE  OneToken(b)' /\ UnreadInv(b)' /\ OrderInv(b)'
    <2> USE <1>4 DEF SendWrite, TypeOK
    <2>1. \A q \in Procs : Carries(q, b)' => Carries(q, b)
      BY DEF Carries, SendersInFlight, ReceiversInFlight
    <2>2. sem_empty'[b] = sem_empty[b] /\ sem_full'[b] = sem_full[b] /\ wedged'[b] = wedged[b]
      BY DEF Wait, Post, semaphores, history
    <2>3. OneToken(b)'
      BY <2>1, <2>2, TokenStays
    <2>4. UnreadInv(b)'
      <3>1. ASSUME b = Out(p) PROVE UnreadInv(b)'
        <4>1. Carries(p, b)
          BY <3>1 DEF Carries, SendersInFlight
        <4>2. sem_empty[b] = 0 /\ sem_full[b] = 0 /\ \A q \in Procs : Carries(q, b) => q = p
          BY <4>1 DEF OneToken
        <4>3. QED
          BY <3>1, <4>2 DEF UnreadInv, Carries, SendersInFlight, ReceiversInFlight, semaphores
      <3>2. ASSUME b # Out(p) PROVE UnreadInv(b)'
        BY <3>2 DEF UnreadInv, semaphores
      <3>3. QED
        BY <3>1, <3>2
    <2>5. OrderInv(b)'
      BY DEF OrderInv, UnreadInv
    <2>6. QED
      BY <2>3, <2>4, <2>5
  <1>5. ASSUME NEW p \in Procs, SendThrow(p)
         PROVE  OneToken(b)' /\ UnreadInv(b)' /\ OrderInv(b)'
    <2> USE <1>5 DEF SendThrow, TypeOK
    <2>1. \A q \in Procs : Carries(q, b)' => Carries(q, b) /\ (q # p \/ b # Out(p))
      BY DEF Carries, SendersInFlight, ReceiversInFlight
    <2>2. sem_empty'[b] = sem_empty[b] /\ sem_full'[b] = sem_full[b]
      BY DEF semaphores
    <2>3. OneToken(b)'
      <3>1. CASE b = Out(p)
        <4>1. Carries(p, b)
          BY <3>1 DEF Carries, SendersInFlight
        <4>2. \A q \in Procs : ~Carries(q, b)'
          BY <2>1, <3>1, <4>1 DEF OneToken
        <4>3. QED
          BY <2>2, <4>1, <4>2 DEF OneToken
      <3>2. CASE b # Out(p)
        BY <2>1, <2>2, <3>2, TokenStays
      <3>3. QED
        BY <3>1, <3>2
    <2>4. UnreadInv(b)'
      BY <2>2 DEF UnreadInv
    <2>5. OrderInv(b)'
      BY DEF OrderInv
    <2>6. QED
      BY <2>3, <2>4, <2>5
  <1>6. ASSUME NEW p \in Procs, SendPostMutex(p)
         PROVE  OneToken(b)' /\ UnreadInv(b)' /\ OrderInv(b)'
    <2> USE <1>6 DEF SendPostMutex, TypeOK
    <2>1. \A q \in Procs : Carries(q, b)' => Carries(q, b)
      BY DEF Carries, SendersInFlight, ReceiversInFlight
    <2>2. sem_empty'[b] = sem_empty[b] /\ sem_full'[b] = sem_full[b] /\ wedged'[b] = wedged[b]
      BY DEF Wait, Post, semaphores, history
    <2>3. OneToken(b)'
      BY <2>1, <2>2, TokenStays
    <2>4. UnreadInv(b)'
      BY DEF UnreadInv, OneToken, Carries, SendersInFlight, ReceiversInFlight, Wait, Post, semaphores, history
    <2>5. OrderInv(b)'
      BY DEF OrderInv, UnreadInv, history
    <2>6. QED
      BY <2>3, <2>4, <2>5
  <1>7. ASSUME NEW p \in Procs, SendPostFull(p)
         PROVE  OneToken(b)' /\ UnreadInv(b)' /\ OrderInv(b)'
    <2> USE <1>7 DEF SendPostFull, TypeOK
    <2>1. ASSUME b = Out(p) PROVE OneToken(b)'
      <3>1. Carries(p, b) /\ \A q \in Procs : Carries(q, b)' => Carries(q, b) /\ q # p
        BY <2>1 DEF Carries, SendersInFlight, ReceiversInFlight
      <3>2. \/ sem_empty'[b] = sem_empty[b] + 1 /\ sem_full'[b] = sem_full[b]
            \/ sem_full'[b] = sem_full[b] + 1 /\ sem_empty'[b] = sem_empty[b]
        BY <2>1 DEF Wait, Post, semaphores, history
      <3>3. wedged'[b] = wedged[b]
        BY DEF history
      <3>4. OneToken(b)'
        BY <3>1, <3>2, <3>3, TokenGiven
      <3>5. QED
        BY <3>4
    <2>2. ASSUME b # Out(p) PROVE OneToken(b)'
      <3>1. \A q \in Procs : Carries(q, b)' => Carries(q, b)
        BY <2>2 DEF Carries, SendersInFlight, ReceiversInFlight
      <3>2. sem_empty'[b] = sem_empty[b] /\ sem_full'[b] = sem_full[b] /\ wedged'[b] = wedged[b]
        BY <2>2 DEF Wait, Post, semaphores, history
      <3>3. QED
        BY <3>1, <3>2, TokenStays
    <2>3. OneToken(b)'
      BY <2>1, <2>2
    <2>4. UnreadInv(b)'
      BY DEF UnreadInv, OneToken, Carries, SendersInFlight, ReceiversInFlight, Wait, Post, semaphores, history
    <2>5. OrderInv(b)'
      BY DEF OrderInv, UnreadInv, history
    <2>6. QED
      BY <2>3, <2>4, <2>5
  <1>8. ASSUME NEW e \in Endpoints, RecvWaitFull(e)
         PROVE  OneToken(b)' /\ UnreadInv(b)' /\ OrderInv(b)'
    <2> USE <1>8 DEF RecvWaitFull, TypeOK
    <2>1. ASSUME b = RecvBuf(e) PROVE OneToken(b)'
      <3>1. \A q \in Procs : Carries(q, b)' => Carries(q, b) \/ q = e
        BY <2>1 DEF Carries, SendersInFlight, ReceiversInFlight
      <3>2. \/ sem_empty[b] > 0 /\ sem_empty'[b] = sem_empty[b] - 1 /\ sem_full'[b] = sem_full[b]
            \/ sem_full[b] > 0 /\ sem_full'[b] = sem_full[b] - 1 /\ sem_empty'[b] = sem_empty[b]
        BY <2>1 DEF Wait, Post, semaphores, history
      <3>3. wedged'[b] = wedged[b]
        BY DEF history
      <3>4. OneToken(b)'
        BY <3>1, <3>2, <3>3, TokenTaken
      <3>5. QED
        BY <3>4
    <2>2. ASSUME b # RecvBuf(e) PROVE OneToken(b)'
      <3>1. \A q \in Procs : Carries(q, b)' => Carries(q, b)
        BY <2>2 DEF Carries, SendersInFlight, ReceiversInFlight
      <3>2. sem_empty'[b] = sem_empty[b] /\ sem_full'[b] = sem_full[b] /\ wedged'[b] = wedged[b]
        BY <2>2 DEF Wait, Post, semaphores, history
      <3>3. QED
        BY <3>1, <3>2, TokenStays
    <2>3. OneToken(b)'
      BY <2>1, <2>2
    <2>4. UnreadInv(b)'
      BY DEF UnreadInv, OneToken, Carries, SendersInFlight, ReceiversInFlight, Wait, Post, semaphores, history
    <2>5. OrderInv(b)'
      BY DEF OrderInv, UnreadInv, history
    <2>6. QED
      BY <2>3, <2>4, <2>5
  <1>9. ASSUME NEW e \in Endpoints, RecvWaitMutex(e)
         PROVE  OneToken(b)' /\ UnreadInv(b)' /\ OrderInv(b)'
    <2> USE <1>9 DEF RecvWaitMutex, TypeOK
    <2>1. \A q \in Procs : Carries(q, b)' => Carries(q, b)
      BY DEF Carries, SendersInFlight, ReceiversInFlight
    <2>2. sem_empty'[b] = sem_empty[b] /\ sem_full'[b] = sem_full[b] /\ wedged'[b] = wedged[b]
      BY DEF Wait, Post, semaphores, history
    <2>3. OneToken(b)'
      BY <2>1, <2>2, TokenStays
    <2>4. UnreadInv(b)'
      BY DEF UnreadInv, OneToken, Carries, SendersInFlight, ReceiversInFlight, Wait, Post, semaphores, history
    <2>5. OrderInv(b)'
      BY DEF OrderInv, UnreadInv, history
    <2>6. QED
      BY <2>3, <2>4, <2>5
  <1>10. ASSUME NEW e \in Endpoints, RecvSeeShutdown(e)
          PROVE  OneToken(b)' /\ UnreadInv(b)' /\ OrderInv(b)'
    <2> USE <1>10 DEF RecvSeeShutdown, TypeOK
    <2>1. b # RecvBuf(e)
      BY <1>0 DEF EndpointInv, FlagInv, Closed
    <2>2. \A q \in Procs : Carries(q, b)' => Carries(q, b)
      BY DEF Carries, SendersInFlight, ReceiversInFlight
    <2>3. OneToken(b)'
      BY <2>2, TokenStays DEF semaphores
    <2>4. UnreadInv(b)'
      BY <2>1 DEF UnreadInv, semaphores
    <2>5. OrderInv(b)'
      BY <2>1 DEF OrderInv
    <2>6. QED
      BY <2>3, <2>4, <2>5
  <1>11. ASSUME NEW e \in Endpoints, RecvTakeMessage(e)
         PROVE  OneToken(b)' /\ UnreadInv(b)' /\ OrderInv(b)'
    <2> USE <1>11 DEF RecvTakeMessage, TypeOK
    <2>1. \A q \in Procs : Carries(q, b)' => Carries(q, b)
      BY DEF Carries, SendersInFlight, ReceiversInFlight
    <2>2. sem_empty'[b] = sem_empty[b] /\ sem_full'[b] = sem_full[b] /\ wedged'[b] = wedged[b]
      BY DEF Wait, Post, semaphores, history
    <2>3. OneToken(b)'
      BY <2>1, <2>2, TokenStays
    <2>4. UnreadInv(b)'
      <3>1. ASSUME b = RecvBuf(e) PROVE UnreadInv(b)'
        <4>1. Carries(e, b)
          BY <3>1 DEF Carries, ReceiversInFlight
        <4>2. sem_empty[b] = 0 /\ sem_full[b] = 0 /\ \A q \in Procs : Carries(q, b) => q = e
          BY <4>1 DEF OneToken
        <4>3. QED
          BY <3>1, <4>2 DEF UnreadInv, Carries, SendersInFlight, ReceiversInFlight, semaphores
      <3>2. ASSUME b # RecvBuf(e) PROVE UnreadInv(b)'
        BY <3>2 DEF UnreadInv, semaphores
      <3>3. QED
        BY <3>1, <3>2
    <2>5. OrderInv(b)'
      BY DEF OrderInv, UnreadInv
    <2>6. QED
      BY <2>3, <2>4, <2>5
  <1>12. ASSUME NEW e \in Endpoints, SlotReturns(e)
         PROVE  OneToken(b)' /\ UnreadInv(b)' /\ OrderInv(b)'
    <2> USE <1>12 DEF SlotReturns, TypeOK
    <2>1. \A q \in Procs : Carries(q, b)' => Carries(q, b)
      BY DEF Carries, SendersInFlight, ReceiversInFlight
    <2>2. sem_empty'[b] = sem_empty[b] /\ sem_full'[b] = sem_full[b] /\ wedged'[b] = wedged[b]
      BY DEF Wait, Post, semaphores, history
    <2>3. OneToken(b)'
      BY <2>1, <2>2, TokenStays
    <2>4. UnreadInv(b)'
      BY DEF UnreadInv, OneToken, Carries, SendersInFlight, ReceiversInFlight, Wait, Post, semaphores, history
    <2>5. OrderInv(b)'
      BY DEF OrderInv, UnreadInv, history
    <2>6. QED
      BY <2>3, <2>4, <2>5
  <1>13. ASSUME NEW e \in Endpoints, RecvPostMutex(e)
         PROVE  OneToken(b)' /\ UnreadInv(b)' /\ OrderInv(b)'
    <2> USE <1>13 DEF RecvPostMutex, TypeOK
    <2>1. \A q \in Procs : Carries(q, b)' => Carries(q, b)
      BY DEF Carries, SendersInFlight, ReceiversInFlight
    <2>2. sem_empty'[b] = sem_empty[b] /\ sem_full'[b] = sem_full[b] /\ wedged'[b] = wedged[b]
      BY DEF Wait, Post, semaphores, history
    <2>3. OneToken(b)'
      BY <2>1, <2>2, TokenStays
    <2>4. UnreadInv(b)'
      BY DEF UnreadInv, OneToken, Carries, SendersInFlight, ReceiversInFlight, Wait, Post, semaphores, history
    <2>5. OrderInv(b)'
      BY DEF OrderInv, UnreadInv, history
    <2>6. QED
      BY <2>3, <2>4, <2>5
  <1>14. ASSUME NEW e \in Endpoints, RecvPostEmpty(e)
         PROVE  OneToken(b)' /\ UnreadInv(b)' /\ OrderInv(b)'
    <2> USE <1>14 DEF RecvPostEmpty, TypeOK
    <2>1. ASSUME b = RecvBuf(e) PROVE OneToken(b)'
      <3>1. Carries(e, b) /\ \A q \in Procs : Carries(q, b)' => Carries(q, b) /\ q # e
        BY <2>1 DEF Carries, SendersInFlight, ReceiversInFlight
      <3>2. \/ sem_empty'[b] = sem_empty[b] + 1 /\ sem_full'[b] = sem_full[b]
            \/ sem_full'[b] = sem_full[b] + 1 /\ sem_empty'[b] = sem_empty[b]
        BY <2>1 DEF Wait, Post, semaphores, history
      <3>3. wedged'[b] = wedged[b]
        BY DEF history
      <3>4. OneToken(b)'
        BY <3>1, <3>2, <3>3, TokenGiven
      <3>5. QED
        BY <3>4
    <2>2. ASSUME b # RecvBuf(e) PROVE OneToken(b)'
      <3>1. \A q \in Procs : Carries(q, b)' => Carries(q, b)
        BY <2>2 DEF Carries, SendersInFlight, ReceiversInFlight
      <3>2. sem_empty'[b] = sem_empty[b] /\ sem_full'[b] = sem_full[b] /\ wedged'[b] = wedged[b]
        BY <2>2 DEF Wait, Post, semaphores, history
      <3>3. QED
        BY <3>1, <3>2, TokenStays
    <2>3. OneToken(b)'
      BY <2>1, <2>2
    <2>4. UnreadInv(b)'
      BY DEF UnreadInv, OneToken, Carries, SendersInFlight, ReceiversInFlight, Wait, Post, semaphores, history
    <2>5. OrderInv(b)'
      BY DEF OrderInv, UnreadInv, history
    <2>6. QED
      BY <2>3, <2>4, <2>5
  <1>15. ASSUME NEW c \in Clients, OpenClient(c)
          PROVE  OneToken(b)' /\ UnreadInv(b)' /\ OrderInv(b)'
    <2> USE <1>15 DEF OpenClient, TypeOK, semaphores, history
    <2>1. \A q \in Procs : Carries(q, b)' => Carries(q, b)
      BY DEF Carries, SendersInFlight, ReceiversInFlight
    <2>2. OneToken(b)'
      BY <2>1, TokenStays
    <2>3. UnreadInv(b)'
      BY DEF UnreadInv
    <2>4. OrderInv(b)'
      BY DEF OrderInv
    <2>5. QED
      BY <2>2, <2>3, <2>4
  <1>16. ASSUME NEW e \in Endpoints, BeginDestroy(e) \/ WakeReceiver(e) \/ FinishDestroy(e)
          PROVE  OneToken(b)' /\ UnreadInv(b)' /\ OrderInv(b)'
    <2> USE <1>16 DEF BeginDestroy, WakeReceiver, FinishDestroy, TypeOK, history
    <2>1. life[e] \in {"shutdown", "join"} => RecvBuf(e) # b
      BY <1>0 DEF Closed
    <2>2. sem_empty'[b] = sem_empty[b] /\ sem_full'[b] = sem_full[b]
      BY <2>1 DEF semaphores, Post
    <2>3. send_pc' = send_pc /\ recv_pc' = recv_pc /\ buffer' = buffer
      OBVIOUS
    <2>4. \A q \in Procs : Carries(q, b)' => Carries(q, b)
      BY <2>3 DEF Carries, SendersInFlight, ReceiversInFlight
    <2>5. OneToken(b)'
      BY <2>2, <2>4, TokenStays
    <2>6. UnreadInv(b)'
      BY <2>2, <2>3 DEF UnreadInv
    <2>7. OrderInv(b)'
      BY <2>3 DEF OrderInv
    <2>8. QED
      BY <2>5, <2>6, <2>7
  <1>17. CASE UNCHANGED vars
    <2> USE <1>17 DEF vars
    <2>1. \A q \in Procs : Carries(q, b)' => Carries(q, b)
      BY DEF Carries, SendersInFlight, ReceiversInFlight
    <2>2. OneToken(b)'
      BY <2>1, TokenStays
    <2>3. QED
      BY <2>2 DEF UnreadInv, OrderInv
  <1>18. QED
    BY <1>1, <1>2, <1>3, <1>4, <1>5, <1>6, <1>7, <1>8, <1>9, <1>10, <1>11, <1>12, <1>13, <1>14, <1>15, <1>16, <1>17
       DEF Next, SendStep, RecvStep, DestroyStep

LEMMA OpenInvariant == Spec => [](TypeInv /\ EndpointInv /\ OpenInv)
  <1>1. TypeInv /\ EndpointInv /\ OpenInv /\ [Next]_vars => OpenInv'
    BY OpenStep
  <1>2. QED
    BY <1>1, OpenInit, EndpointInvariant, PTL DEF Spec

-----------------------------------------------------------------------------
(* Each direction implements the mailbox of module Channel.                 *)

\* What a step may do to the mailbox of buffer b.
ChannelStep(b) ==
    \/ /\ Closed(b) \/ written[b] = received[b]
       /\ ~Serving(b)
       /\ \E m \in Message : written[b]' = Append(written[b], m)
       /\ received[b]' = received[b] /\ (Serving(b)' <=> Serving(b)) /\ (Closed(b)' <=> Closed(b))
    \/ /\ ~Closed(b) /\ ~Serving(b)
       /\ \E m \in Message : /\ written[b] = Append(received[b], m)
                             /\ received[b]' = Append(received[b], m)
       /\ Serving(b)'
       /\ written[b]' = written[b] /\ (Closed(b)' <=> Closed(b))
    \/ /\ Serving(b) /\ ~Serving(b)'
       /\ written[b]' = written[b] /\ received[b]' = received[b] /\ (Closed(b)' <=> Closed(b))
    \/ /\ ~Closed(b) /\ Closed(b)'
       /\ written[b]' = written[b] /\ received[b]' = received[b] /\ (Serving(b)' <=> Serving(b))
    \/ /\ written[b]' = written[b] /\ received[b]' = received[b]
       /\ (Serving(b)' <=> Serving(b)) /\ (Closed(b)' <=> Closed(b))

LEMMA ChannelStepLemma ==
    ASSUME TypeInv, MutexInv, EndpointInv, OpenInv, [Next]_vars, NEW b \in Buffers,
           \A e \in Endpoints : RecvBuf(e) = b => SoleReceiver(e)
    PROVE  ChannelStep(b)
  <1> USE BufferIndex DEF ChannelStep
  <1>1. ASSUME NEW p \in Procs, SendWrite(p) PROVE ChannelStep(b)
    <2> USE <1>1 DEF SendWrite, TypeInv, TypeOK
    <2>1. (Closed(b)' <=> Closed(b)) /\ (Serving(b)' <=> Serving(b))
      BY DEF Closed, Serving
    <2>2. CASE b = Out(p)
      <3>1. NextMessage(p) \in Message
        BY EndpointAssumption DEF CallsInv, NextMessage, Message
      <3>2. Closed(b) \/ written[b] = received[b]
        BY <2>2 DEF OpenInv, UnreadInv, OrderInv
      <3>3. written[b]' = Append(written[b], NextMessage(p)) /\ received[b]' = received[b]
        BY <2>2
      <3>4. ~Serving(b)
        <4>1. Holds(p, b)
          BY <2>2 DEF Holds
        <4>2. \A e \in Endpoints : Holds(e, b) => e = p
          BY <4>1 DEF MutexInv, BufferExclusive, Procs
        <4>3. ASSUME NEW e \in Endpoints, RecvBuf(e) = b, recv_pc[e] = "slot" PROVE FALSE
          <5>1. e = p
            BY <4>2, <4>3 DEF Holds
          <5>2. Out(e) = SendBuf(e)
            BY EndpointAssumption DEF Out, EndpointOf
          <5>3. QED
            BY <4>3, <5>1, <5>2, <2>2 DEF RecvBuf, SendBuf
        <4>4. QED
          BY <4>3 DEF Serving
      <3>5. QED
        BY <2>1, <3>1, <3>2, <3>3, <3>4
    <2>3. CASE b # Out(p)
      BY <2>1, <2>3
    <2>4. QED
      BY <2>2, <2>3
  <1>2. ASSUME NEW e \in Endpoints, RecvTakeMessage(e) PROVE ChannelStep(b)
    <2> USE <1>2 DEF RecvTakeMessage, TypeInv, TypeOK
    <2>1. Closed(b)' <=> Closed(b)
      BY DEF Closed
    <2>2. CASE b = RecvBuf(e)
      <3>1. \A d \in Endpoints : RecvBuf(d) = b => d = e
        BY <2>2 DEF SoleReceiver
      <3>2. life[e] = "up"
        BY <2>2 DEF EndpointInv, LifeInv, SoleFlagInv
      <3>3. ~Closed(b)
        BY <3>1, <3>2 DEF Closed
      <3>4. written[b] = Append(received[b], buffer[b])
        BY <2>2, <3>3 DEF OpenInv, UnreadInv, OrderInv
      <3>5. buffer[b] \in Message
        <4>1. written[b] \in Seq(Message) /\ received[b] \in Seq(Message \union {NoMessage})
          OBVIOUS
        <4>2. Len(written[b]) = Len(received[b]) + 1 /\ written[b][Len(received[b]) + 1] = buffer[b]
          BY <3>4, <4>1
        <4>3. QED
          BY <4>1, <4>2
      <3>6. received[b]' = Append(received[b], buffer[b]) /\ written[b]' = written[b]
        BY <2>2
      <3>7. ~Serving(b) /\ Serving(b)'
        BY <2>2, <3>1 DEF Serving
      <3>8. QED
        BY <2>1, <3>3, <3>4, <3>5, <3>6, <3>7
    <2>3. CASE b # RecvBuf(e)
      <3>1. Serving(b)' <=> Serving(b)
        BY <2>3 DEF Serving
      <3>2. QED
        BY <2>1, <2>3, <3>1
    <2>4. QED
      BY <2>2, <2>3
  <1>3. ASSUME NEW e \in Endpoints, SlotReturns(e) PROVE ChannelStep(b)
    <2> USE <1>3 DEF SlotReturns, history, TypeInv, TypeOK
    <2>1. written[b]' = written[b] /\ received[b]' = received[b] /\ (Closed(b)' <=> Closed(b))
      BY DEF Closed
    <2>2. CASE b = RecvBuf(e)
      <3>1. \A d \in Endpoints : RecvBuf(d) = b => d = e
        BY <2>2 DEF SoleReceiver
      <3>2. Serving(b) /\ ~Serving(b)'
        BY <2>2, <3>1 DEF Serving
      <3>3. QED
        BY <2>1, <3>2
    <2>3. CASE b # RecvBuf(e)
      BY <2>1, <2>3 DEF Serving
    <2>4. QED
      BY <2>2, <2>3
  <1>4. ASSUME NEW e \in Endpoints,
               RecvWaitFull(e) \/ RecvWaitMutex(e) \/ RecvSeeShutdown(e) \/ RecvPostMutex(e) \/ RecvPostEmpty(e)
        PROVE ChannelStep(b)
    <2>1. written[b]' = written[b] /\ received[b]' = received[b] /\ (Closed(b)' <=> Closed(b))
      BY <1>4 DEF RecvWaitFull, RecvWaitMutex, RecvSeeShutdown, RecvPostMutex, RecvPostEmpty,
                  history, Closed
    <2>2. Serving(b)' <=> Serving(b)
      <3>1. recv_pc \in [Endpoints -> {recv_pc[d] : d \in Endpoints}]
        BY DEF TypeInv, TypeOK
      <3>2. \E q : /\ recv_pc' = [recv_pc EXCEPT ![e] = q]
                  /\ q # "slot" /\ recv_pc[e] # "slot"
        BY <1>4 DEF RecvWaitFull, RecvWaitMutex, RecvSeeShutdown, RecvPostMutex, RecvPostEmpty
      <3>3. \A d \in Endpoints : recv_pc'[d] = "slot" <=> recv_pc[d] = "slot"
        BY <3>1, <3>2
      <3>4. QED
        BY <3>3 DEF Serving
    <2>3. QED
      BY <2>1, <2>2
  <1>5. ASSUME NEW e \in Endpoints, BeginDestroy(e) \/ DestroyStep(e) PROVE ChannelStep(b)
    <2>1. /\ written[b]' = written[b] /\ received[b]' = received[b]
          /\ Serving(b)' <=> Serving(b)
      BY <1>5 DEF BeginDestroy, DestroyStep, WakeReceiver, FinishDestroy, history, Serving
    <2>2. Closed(b) => Closed(b)'
      BY ClosedStays DEF TypeInv
    <2>3. QED
      BY <2>1, <2>2
  <1>6. ASSUME NEW c \in Clients, OpenClient(c) PROVE ChannelStep(b)
    <2> USE <1>6 DEF OpenClient, TypeInv, TypeOK
    <2>1. Closed(b)' <=> Closed(b)
      BY DEF Closed
    <2>2. recv_pc[c] = "none"
      BY DEF EndpointInv, LifeInv, Endpoints
    <2>3. Serving(b)' <=> Serving(b)
      BY <2>2 DEF Serving
    <2>4. QED
      BY <2>1, <2>3 DEF history
  <1>7. CASE UNCHANGED <<written, received, recv_pc, life>>
    BY <1>7 DEF Closed, Serving
  <1>8. QED
    BY <1>1, <1>2, <1>3, <1>4, <1>5, <1>6, <1>7
       DEF Next, vars, BeginSend, SendStep, SendWaitEmpty, SendWaitMutex, SendThrow,
           SendPostMutex, SendPostFull, RecvStep, history

\* Nothing has been written, is served or closed when the server's constructor
\* returns.
LEMMA ChannelInit ==
    ASSUME Init, NEW b \in Buffers
    PROVE  written[b] = <<>> /\ received[b] = <<>> /\ Serving(b) = FALSE /\ Closed(b) = FALSE
  BY DEF Init, Closed, Serving

\* What the steps of the endpoints are known to keep.
LEMMA ChannelInvariant == Spec => [](TypeInv /\ MutexInv /\ EndpointInv /\ OpenInv)
  <1>1. TypeInv /\ MutexInv /\ [Next]_vars => MutexInv'
    BY MutexStep
  <1>2. QED
    BY <1>1, MutexInit, OpenInvariant, PTL DEF Spec

(* Requests: however many clients open, overlap, send and leave, the server
   dispatches the messages sent to it once each and in the order in which
   they were written, and no sender overwrites a message that it has not
   taken, until its own destructor begins.                                  *)
THEOREM RequestsRefinement == Spec => RequestsImplementChannel
  <1>1. Init => Requests!ChanInit
    BY ChannelInit DEF Requests!ChanInit, Buffers
  <1>2. \A e \in Endpoints : RecvBuf(e) = 1 => SoleReceiver(e)
    BY Receivers DEF SoleReceiver
  <1>3. TypeInv /\ MutexInv /\ EndpointInv /\ OpenInv /\ [Next]_vars
            => [Requests!ChanNext]_(Requests!chanVars)
    <2> SUFFICES ASSUME TypeInv, MutexInv, EndpointInv, OpenInv, [Next]_vars
                 PROVE  [Requests!ChanNext]_(Requests!chanVars)
        OBVIOUS
    <2>1. ChannelStep(1)
      BY <1>2, ChannelStepLemma DEF Buffers
    <2>2. \A v \in {Closed(1), Serving(1)} : v \in BOOLEAN
      BY DEF Closed, Serving
    <2>3. Closed(1)' \in BOOLEAN /\ Serving(1)' \in BOOLEAN
      BY DEF Closed, Serving
    <2>4. QED
      BY <2>1, <2>2, <2>3 DEF ChannelStep, Requests!ChanNext, Requests!Put, Requests!Free, Requests!Deliver,
                  Requests!Return, Requests!Close, Requests!chanVars
  <1>4. QED
    BY <1>1, <1>3, ChannelInvariant, PTL DEF Spec, RequestsImplementChannel, Requests!ChanSpec

(* Responses: the same towards a client, if it is the only one the server
   ever has.                                                                *)
THEOREM ResponsesRefinement ==
    ASSUME \A c, d \in Clients : c = d
    PROVE  Spec => ResponsesImplementChannel
  <1>1. Init => Responses!ChanInit
    BY ChannelInit DEF Responses!ChanInit, Buffers
  <1>2. \A e \in Endpoints : RecvBuf(e) = 0 => SoleReceiver(e)
    BY Receivers DEF SoleReceiver, Endpoints
  <1>3. TypeInv /\ MutexInv /\ EndpointInv /\ OpenInv /\ [Next]_vars
            => [Responses!ChanNext]_(Responses!chanVars)
    <2> SUFFICES ASSUME TypeInv, MutexInv, EndpointInv, OpenInv, [Next]_vars
                 PROVE  [Responses!ChanNext]_(Responses!chanVars)
        OBVIOUS
    <2>1. ChannelStep(0)
      BY <1>2, ChannelStepLemma DEF Buffers
    <2>2. \A v \in {Closed(0), Serving(0)} : v \in BOOLEAN
      BY DEF Closed, Serving
    <2>3. Closed(0)' \in BOOLEAN /\ Serving(0)' \in BOOLEAN
      BY DEF Closed, Serving
    <2>4. QED
      BY <2>1, <2>2, <2>3 DEF ChannelStep, Responses!ChanNext, Responses!Put, Responses!Free, Responses!Deliver,
                  Responses!Return, Responses!Close, Responses!chanVars
  <1>4. QED
    BY <1>1, <1>3, ChannelInvariant, PTL DEF Spec, ResponsesImplementChannel, Responses!ChanSpec

-----------------------------------------------------------------------------
(* The tokens of a buffer, counted.                                          *)

\* The threads inside a buffer are finite in number.
LEMMA InFlightFinite ==
    ASSUME NEW b \in Buffers
    PROVE  /\ IsFiniteSet(SendersInFlight(b)) /\ Cardinality(SendersInFlight(b)) \in Nat
           /\ IsFiniteSet(ReceiversInFlight(b)) /\ Cardinality(ReceiversInFlight(b)) \in Nat
           /\ IsFiniteSet(Wakes(b)) /\ Cardinality(Wakes(b)) \in Nat
  <1>1. IsFiniteSet(Endpoints)
    BY FinitenessAssumption, FS_Singleton, FS_Union DEF Endpoints
  <1>2. IsFiniteSet(Procs)
    BY <1>1, FinitenessAssumption, FS_Union DEF Procs
  <1>3. /\ SendersInFlight(b) \subseteq Procs
        /\ ReceiversInFlight(b) \subseteq Endpoints
        /\ Wakes(b) \subseteq Endpoints
    BY DEF SendersInFlight, ReceiversInFlight, Wakes
  <1>4. QED
    BY <1>1, <1>2, <1>3, FS_Subset, FS_CardinalityType

\* One element more, one element less.
LEMMA CardinalityAdd ==
    ASSUME NEW S, IsFiniteSet(S), NEW x, x \notin S, NEW T, T = S \union {x}
    PROVE  Cardinality(T) = Cardinality(S) + 1
  BY FS_AddElement

LEMMA CardinalityRemove ==
    ASSUME NEW S, IsFiniteSet(S), NEW x, x \in S, NEW T, T = S \ {x}
    PROVE  Cardinality(S) = Cardinality(T) + 1
  <1>1. Cardinality(T) = Cardinality(S) - 1 /\ Cardinality(S) \in Nat
    BY FS_RemoveElement, FS_CardinalityType
  <1>2. QED
    BY <1>1

\* Once a send has thrown, the mutex is never posted again.
WedgedInv ==
    \A b \in Buffers : wedged[b] => mutex[b] = 0 /\ \A p \in Procs : ~Holds(p, b)

LEMMA WedgedInit == Init => WedgedInv
  BY DEF Init, WedgedInv

\* A step that leaves what WedgedInv says of buffer b as it is.
LEMMA WedgedStays ==
    ASSUME WedgedInv, NEW b \in Buffers, wedged'[b] = wedged[b],
           mutex[b] = 0 => mutex'[b] = 0,
           \A q \in Procs : Holds(q, b)' => Holds(q, b) \/ mutex[b] # 0
    PROVE  wedged'[b] => mutex'[b] = 0 /\ \A p \in Procs : ~Holds(p, b)'
  BY Zenon DEF WedgedInv

LEMMA WedgedStep == TypeInv /\ MutexInv /\ WedgedInv /\ [Next]_vars => WedgedInv'
  <1> SUFFICES ASSUME TypeOK, MutexInv, WedgedInv, [Next]_vars, NEW b \in Buffers
               PROVE  wedged'[b] => mutex'[b] = 0 /\ \A p \in Procs : ~Holds(p, b)'
      BY DEF TypeInv, WedgedInv
  <1> USE BufferIndex
  <1>1. ASSUME NEW p \in Procs, SendThrow(p)
        PROVE  wedged'[b] => mutex'[b] = 0 /\ \A q \in Procs : ~Holds(q, b)'
    <2> USE <1>1 DEF SendThrow, TypeOK
    <2>1. \A q \in Procs : Holds(q, b)' => Holds(q, b) /\ (q # p \/ b # Out(p))
      BY DEF Holds
    <2>2. ASSUME b = Out(p)
          PROVE  wedged'[b] => mutex'[b] = 0 /\ \A q \in Procs : ~Holds(q, b)'
      <3>1. Holds(p, b)
        BY <2>2 DEF Holds
      <3>2. mutex[b] = 0 /\ \A q \in Procs : Holds(q, b) => q = p
        BY <3>1 DEF MutexInv, BufferExclusive
      <3>3. QED
        BY <2>1, <2>2, <3>2 DEF semaphores
    <2>3. ASSUME b # Out(p)
          PROVE  wedged'[b] => mutex'[b] = 0 /\ \A q \in Procs : ~Holds(q, b)'
      BY <2>1, <2>3, WedgedStays DEF semaphores
    <2>4. QED
      BY <2>2, <2>3
  <1>2. ASSUME NEW p \in Procs, SendWaitMutex(p)
        PROVE  wedged'[b] => mutex'[b] = 0 /\ \A q \in Procs : ~Holds(q, b)'
    <2> USE <1>2 DEF SendWaitMutex, TypeOK
    <2>1. \A q \in Procs : Holds(q, b)' => Holds(q, b) \/ mutex[b] # 0
      BY DEF Holds, Wait
    <2>2. mutex[b] = 0 => mutex'[b] = 0
      BY DEF Wait
    <2>3. wedged'[b] = wedged[b]
      BY DEF history
    <2>4. QED
      BY <2>1, <2>2, <2>3, WedgedStays
  <1>3. ASSUME NEW e \in Endpoints, RecvWaitMutex(e)
        PROVE  wedged'[b] => mutex'[b] = 0 /\ \A q \in Procs : ~Holds(q, b)'
    <2> USE <1>3 DEF RecvWaitMutex, TypeOK
    <2>1. \A q \in Procs : Holds(q, b)' => Holds(q, b) \/ mutex[b] # 0
      BY DEF Holds, Wait
    <2>2. mutex[b] = 0 => mutex'[b] = 0
      BY DEF Wait
    <2>3. wedged'[b] = wedged[b]
      BY DEF history
    <2>4. QED
      BY <2>1, <2>2, <2>3, WedgedStays
  <1>4. ASSUME NEW p \in Procs, SendPostMutex(p)
        PROVE  wedged'[b] => mutex'[b] = 0 /\ \A q \in Procs : ~Holds(q, b)'
    <2> USE <1>4 DEF SendPostMutex, TypeOK
    <2>1. Holds(p, Out(p))
      BY DEF Holds
    <2>2. ~wedged[Out(p)] /\ wedged' = wedged
      BY <2>1 DEF WedgedInv, history
    <2>3. \A q \in Procs : Holds(q, b)' => Holds(q, b)
      BY DEF Holds
    <2>4. b # Out(p) => mutex'[b] = mutex[b]
      BY DEF Post
    <2>5. QED
      BY <2>2, <2>3, <2>4, WedgedStays
  <1>5. ASSUME NEW e \in Endpoints, RecvPostMutex(e)
        PROVE  wedged'[b] => mutex'[b] = 0 /\ \A q \in Procs : ~Holds(q, b)'
    <2> USE <1>5 DEF RecvPostMutex, TypeOK
    <2>1. Holds(e, RecvBuf(e))
      BY DEF Holds
    <2>2. ~wedged[RecvBuf(e)] /\ wedged' = wedged
      BY <2>1 DEF WedgedInv, history
    <2>3. \A q \in Procs : Holds(q, b)' => Holds(q, b)
      BY DEF Holds
    <2>4. b # RecvBuf(e) => mutex'[b] = mutex[b]
      BY DEF Post
    <2>5. QED
      BY <2>2, <2>3, <2>4, WedgedStays
  <1>6. ASSUME mutex' = mutex, wedged' = wedged,
               \A q \in Procs : Holds(q, b)' => Holds(q, b)
        PROVE  wedged'[b] => mutex'[b] = 0 /\ \A q \in Procs : ~Holds(q, b)'
    BY <1>6, WedgedStays
  <1>7. ASSUME NEW p \in Procs,
               BeginSend(p) \/ SendWaitEmpty(p) \/ SendWrite(p) \/ SendPostFull(p)
        PROVE  wedged'[b] => mutex'[b] = 0 /\ \A q \in Procs : ~Holds(q, b)'
    <2> USE <1>7 DEF BeginSend, SendWaitEmpty, SendWrite, SendPostFull, TypeOK
    <2>1. \A q \in Procs : Holds(q, b)' => Holds(q, b)
      BY DEF Holds
    <2>2. mutex' = mutex /\ wedged' = wedged
      BY DEF semaphores, history
    <2>3. QED
      BY <1>6, <2>1, <2>2
  <1>8. ASSUME NEW e \in Endpoints,
               RecvWaitFull(e) \/ RecvSeeShutdown(e) \/ RecvTakeMessage(e) \/ SlotReturns(e) \/ RecvPostEmpty(e)
        PROVE  wedged'[b] => mutex'[b] = 0 /\ \A q \in Procs : ~Holds(q, b)'
    <2> USE <1>8 DEF RecvWaitFull, RecvSeeShutdown, RecvTakeMessage, SlotReturns, RecvPostEmpty, TypeOK
    <2>1. \A q \in Procs : Holds(q, b)' => Holds(q, b)
      BY DEF Holds
    <2>2. mutex' = mutex /\ wedged' = wedged
      BY DEF semaphores, history
    <2>3. QED
      BY <1>6, <2>1, <2>2
  <1>9. ASSUME NEW e \in Endpoints,
               BeginDestroy(e) \/ WakeReceiver(e) \/ FinishDestroy(e)
        PROVE  wedged'[b] => mutex'[b] = 0 /\ \A q \in Procs : ~Holds(q, b)'
    <2> USE <1>9 DEF BeginDestroy, WakeReceiver, FinishDestroy, TypeOK
    <2>1. \A q \in Procs : Holds(q, b)' => Holds(q, b)
      BY DEF Holds
    <2>2. mutex' = mutex /\ wedged' = wedged
      BY DEF semaphores, history
    <2>3. QED
      BY <1>6, <2>1, <2>2
  <1>10. ASSUME NEW c \in Clients,
               OpenClient(c)
        PROVE  wedged'[b] => mutex'[b] = 0 /\ \A q \in Procs : ~Holds(q, b)'
    <2> USE <1>10 DEF OpenClient, TypeOK
    <2>1. \A q \in Procs : Holds(q, b)' => Holds(q, b)
      BY DEF Holds
    <2>2. mutex' = mutex /\ wedged' = wedged
      BY DEF semaphores, history
    <2>3. QED
      BY <1>6, <2>1, <2>2
  <1>11. CASE UNCHANGED vars
    <2>1. \A q \in Procs : Holds(q, b)' => Holds(q, b)
      BY <1>11 DEF vars, Holds
    <2>2. QED
      BY <1>6, <1>11, <2>1 DEF vars
  <1>12. QED
    BY <1>1, <1>2, <1>3, <1>4, <1>5, <1>7, <1>8, <1>9, <1>10, <1>11
       DEF Next, SendStep, RecvStep, DestroyStep

\* The two sides of TokenConservation for one buffer.
Balance(b) ==
    sem_empty[b] + sem_full[b] + (IF wedged[b] THEN 1 ELSE 0)
        + Cardinality(SendersInFlight(b)) + Cardinality(ReceiversInFlight(b))
      = 1 + Cardinality(Wakes(b))

\* The steps that neither take nor give back a token of buffer b.
LEMMA BalanceStays ==
    ASSUME NEW b \in Buffers, Balance(b),
           sem_empty'[b] = sem_empty[b], sem_full'[b] = sem_full[b], wedged'[b] = wedged[b],
           SendersInFlight(b)' = SendersInFlight(b),
           ReceiversInFlight(b)' = ReceiversInFlight(b), Wakes(b)' = Wakes(b)
    PROVE  Balance(b)'
  BY DEF Balance

LEMMA BalanceInit == ASSUME Init, NEW b \in Buffers PROVE Balance(b)
  <1>1. SendersInFlight(b) = {} /\ ReceiversInFlight(b) = {} /\ Wakes(b) = {}
    BY BufferIndex DEF Init, SendersInFlight, ReceiversInFlight, Wakes
  <1>2. QED
    BY <1>1, FS_EmptySet DEF Init, Balance

LEMMA BalanceStep ==
    ASSUME TypeOK, EndpointInv, WedgedInv, [Next]_vars, NEW b \in Buffers, Balance(b)
    PROVE  Balance(b)'
  <1> USE BufferIndex, InFlightFinite
  <1>1. ASSUME NEW p \in Procs, SendWaitEmpty(p) PROVE Balance(b)'
    <2> USE <1>1 DEF SendWaitEmpty, TypeOK
    <2>1. ReceiversInFlight(b)' = ReceiversInFlight(b) /\ Wakes(b)' = Wakes(b)
      BY DEF ReceiversInFlight, Wakes
    <2>2. ASSUME b = Out(p) PROVE Balance(b)'
      <3>1. p \notin SendersInFlight(b) /\ SendersInFlight(b)' = SendersInFlight(b) \union {p}
        BY <2>2 DEF SendersInFlight
      <3>2. Cardinality(SendersInFlight(b)') = Cardinality(SendersInFlight(b)) + 1
        BY <3>1, CardinalityAdd
      <3>3. /\ sem_empty[b] > 0 /\ sem_empty'[b] = sem_empty[b] - 1
            /\ sem_full'[b] = sem_full[b] /\ wedged'[b] = wedged[b]
        BY <2>2 DEF Wait, Post, semaphores, history
      <3>4. Cardinality(SendersInFlight(b)') \in Nat
        BY <3>1, FS_AddElement, FS_RemoveElement, FS_CardinalityType
      <3>5. sem_empty[b] \in Nat /\ sem_full[b] \in Nat
        OBVIOUS
      <3>6. QED
        BY ONLY <2>1, <3>2, <3>3, <3>4, <3>5, InFlightFinite, Balance(b), b \in Buffers DEF Balance
    <2>3. ASSUME b # Out(p) PROVE Balance(b)'
      <3>1. SendersInFlight(b)' = SendersInFlight(b)
        BY <2>3 DEF SendersInFlight
      <3>2. sem_empty'[b] = sem_empty[b] /\ sem_full'[b] = sem_full[b] /\ wedged'[b] = wedged[b]
        BY <2>3 DEF Wait, Post, semaphores, history
      <3>3. QED
        BY <2>1, <3>1, <3>2, BalanceStays
    <2>4. QED
      BY <2>2, <2>3
  <1>2. ASSUME NEW p \in Procs, SendPostFull(p) PROVE Balance(b)'
    <2> USE <1>2 DEF SendPostFull, TypeOK
    <2>1. ReceiversInFlight(b)' = ReceiversInFlight(b) /\ Wakes(b)' = Wakes(b)
      BY DEF ReceiversInFlight, Wakes
    <2>2. ASSUME b = Out(p) PROVE Balance(b)'
      <3>1. p \in SendersInFlight(b) /\ SendersInFlight(b)' = SendersInFlight(b) \ {p}
        BY <2>2 DEF SendersInFlight
      <3>2. Cardinality(SendersInFlight(b)) = Cardinality(SendersInFlight(b)') + 1
        BY <3>1, CardinalityRemove
      <3>3. /\ sem_full'[b] = sem_full[b] + 1
            /\ sem_empty'[b] = sem_empty[b] /\ wedged'[b] = wedged[b]
        BY <2>2 DEF Wait, Post, semaphores, history
      <3>4. Cardinality(SendersInFlight(b)') \in Nat
        BY <3>1, FS_AddElement, FS_RemoveElement, FS_CardinalityType
      <3>5. sem_empty[b] \in Nat /\ sem_full[b] \in Nat
        OBVIOUS
      <3>6. QED
        BY ONLY <2>1, <3>2, <3>3, <3>4, <3>5, InFlightFinite, Balance(b), b \in Buffers DEF Balance
    <2>3. ASSUME b # Out(p) PROVE Balance(b)'
      <3>1. SendersInFlight(b)' = SendersInFlight(b)
        BY <2>3 DEF SendersInFlight
      <3>2. sem_empty'[b] = sem_empty[b] /\ sem_full'[b] = sem_full[b] /\ wedged'[b] = wedged[b]
        BY <2>3 DEF Wait, Post, semaphores, history
      <3>3. QED
        BY <2>1, <3>1, <3>2, BalanceStays
    <2>4. QED
      BY <2>2, <2>3
  <1>3. ASSUME NEW p \in Procs, SendThrow(p) PROVE Balance(b)'
    <2> USE <1>3 DEF SendThrow, TypeOK
    <2>1. ReceiversInFlight(b)' = ReceiversInFlight(b) /\ Wakes(b)' = Wakes(b)
      BY DEF ReceiversInFlight, Wakes
    <2>2. ASSUME b = Out(p) PROVE Balance(b)'
      <3>1. p \in SendersInFlight(b) /\ SendersInFlight(b)' = SendersInFlight(b) \ {p}
        BY <2>2 DEF SendersInFlight
      <3>2. Cardinality(SendersInFlight(b)) = Cardinality(SendersInFlight(b)') + 1
        BY <3>1, CardinalityRemove
      <3>3. /\ ~wedged[b] /\ wedged'[b]
            /\ sem_full'[b] = sem_full[b] /\ sem_empty'[b] = sem_empty[b]
        BY <2>2 DEF semaphores, WedgedInv, Holds
      <3>4. Cardinality(SendersInFlight(b)') \in Nat
        BY <3>1, FS_AddElement, FS_RemoveElement, FS_CardinalityType
      <3>5. sem_empty[b] \in Nat /\ sem_full[b] \in Nat
        OBVIOUS
      <3>6. QED
        BY ONLY <2>1, <3>2, <3>3, <3>4, <3>5, InFlightFinite, Balance(b), b \in Buffers DEF Balance
    <2>3. ASSUME b # Out(p) PROVE Balance(b)'
      <3>1. SendersInFlight(b)' = SendersInFlight(b)
        BY <2>3 DEF SendersInFlight
      <3>2. sem_empty'[b] = sem_empty[b] /\ sem_full'[b] = sem_full[b] /\ wedged'[b] = wedged[b]
        BY <2>3 DEF Wait, Post, semaphores, history
      <3>3. QED
        BY <2>1, <3>1, <3>2, BalanceStays
    <2>4. QED
      BY <2>2, <2>3
  <1>4. ASSUME NEW e \in Endpoints, RecvWaitFull(e) PROVE Balance(b)'
    <2> USE <1>4 DEF RecvWaitFull, TypeOK
    <2>1. SendersInFlight(b)' = SendersInFlight(b) /\ Wakes(b)' = Wakes(b)
      BY DEF SendersInFlight, Wakes
    <2>2. ASSUME b = RecvBuf(e) PROVE Balance(b)'
      <3>1. e \notin ReceiversInFlight(b) /\ ReceiversInFlight(b)' = ReceiversInFlight(b) \union {e}
        BY <2>2 DEF ReceiversInFlight
      <3>2. Cardinality(ReceiversInFlight(b)') = Cardinality(ReceiversInFlight(b)) + 1
        BY <3>1, CardinalityAdd
      <3>3. /\ sem_full[b] > 0 /\ sem_full'[b] = sem_full[b] - 1
            /\ sem_empty'[b] = sem_empty[b] /\ wedged'[b] = wedged[b]
        BY <2>2 DEF Wait, Post, semaphores, history
      <3>4. Cardinality(ReceiversInFlight(b)') \in Nat
        BY <3>1, FS_AddElement, FS_RemoveElement, FS_CardinalityType
      <3>5. sem_empty[b] \in Nat /\ sem_full[b] \in Nat
        OBVIOUS
      <3>6. QED
        BY ONLY <2>1, <3>2, <3>3, <3>4, <3>5, InFlightFinite, Balance(b), b \in Buffers DEF Balance
    <2>3. ASSUME b # RecvBuf(e) PROVE Balance(b)'
      <3>1. ReceiversInFlight(b)' = ReceiversInFlight(b)
        BY <2>3 DEF ReceiversInFlight
      <3>2. sem_empty'[b] = sem_empty[b] /\ sem_full'[b] = sem_full[b] /\ wedged'[b] = wedged[b]
        BY <2>3 DEF Wait, Post, semaphores, history
      <3>3. QED
        BY <2>1, <3>1, <3>2, BalanceStays
    <2>4. QED
      BY <2>2, <2>3
  <1>5. ASSUME NEW e \in Endpoints, RecvPostEmpty(e) PROVE Balance(b)'
    <2> USE <1>5 DEF RecvPostEmpty, TypeOK
    <2>1. SendersInFlight(b)' = SendersInFlight(b) /\ Wakes(b)' = Wakes(b)
      BY DEF SendersInFlight, Wakes
    <2>2. ASSUME b = RecvBuf(e) PROVE Balance(b)'
      <3>1. e \in ReceiversInFlight(b) /\ ReceiversInFlight(b)' = ReceiversInFlight(b) \ {e}
        BY <2>2 DEF ReceiversInFlight
      <3>2. Cardinality(ReceiversInFlight(b)) = Cardinality(ReceiversInFlight(b)') + 1
        BY <3>1, CardinalityRemove
      <3>3. /\ sem_empty'[b] = sem_empty[b] + 1
            /\ sem_full'[b] = sem_full[b] /\ wedged'[b] = wedged[b]
        BY <2>2 DEF Wait, Post, semaphores, history
      <3>4. Cardinality(ReceiversInFlight(b)') \in Nat
        BY <3>1, FS_AddElement, FS_RemoveElement, FS_CardinalityType
      <3>5. sem_empty[b] \in Nat /\ sem_full[b] \in Nat
        OBVIOUS
      <3>6. QED
        BY ONLY <2>1, <3>2, <3>3, <3>4, <3>5, InFlightFinite, Balance(b), b \in Buffers DEF Balance
    <2>3. ASSUME b # RecvBuf(e) PROVE Balance(b)'
      <3>1. ReceiversInFlight(b)' = ReceiversInFlight(b)
        BY <2>3 DEF ReceiversInFlight
      <3>2. sem_empty'[b] = sem_empty[b] /\ sem_full'[b] = sem_full[b] /\ wedged'[b] = wedged[b]
        BY <2>3 DEF Wait, Post, semaphores, history
      <3>3. QED
        BY <2>1, <3>1, <3>2, BalanceStays
    <2>4. QED
      BY <2>2, <2>3
  <1>6. ASSUME NEW e \in Endpoints, WakeReceiver(e) PROVE Balance(b)'
    <2> USE <1>6 DEF WakeReceiver, TypeOK
    <2>1. SendersInFlight(b)' = SendersInFlight(b) /\ ReceiversInFlight(b)' = ReceiversInFlight(b)
      BY DEF SendersInFlight, ReceiversInFlight
    <2>2. ASSUME b = RecvBuf(e) PROVE Balance(b)'
      <3>1. e \notin Wakes(b) /\ Wakes(b)' = Wakes(b) \union {e}
        BY <2>2 DEF Wakes
      <3>2. Cardinality(Wakes(b)') = Cardinality(Wakes(b)) + 1
        BY <3>1, CardinalityAdd
      <3>3. /\ sem_full'[b] = sem_full[b] + 1
            /\ sem_empty'[b] = sem_empty[b] /\ wedged'[b] = wedged[b]
        BY <2>2 DEF Wait, Post, semaphores, history
      <3>4. Cardinality(Wakes(b)') \in Nat
        BY <3>1, FS_AddElement, FS_RemoveElement, FS_CardinalityType
      <3>5. sem_empty[b] \in Nat /\ sem_full[b] \in Nat
        OBVIOUS
      <3>6. QED
        BY ONLY <2>1, <3>2, <3>3, <3>4, <3>5, InFlightFinite, Balance(b), b \in Buffers DEF Balance
    <2>3. ASSUME b # RecvBuf(e) PROVE Balance(b)'
      <3>1. Wakes(b)' = Wakes(b)
        BY <2>3 DEF Wakes
      <3>2. sem_empty'[b] = sem_empty[b] /\ sem_full'[b] = sem_full[b] /\ wedged'[b] = wedged[b]
        BY <2>3 DEF Wait, Post, semaphores, history
      <3>3. QED
        BY <2>1, <3>1, <3>2, BalanceStays
    <2>4. QED
      BY <2>2, <2>3
  <1>7. ASSUME NEW p \in Procs,
               BeginSend(p) \/ SendWaitMutex(p) \/ SendWrite(p) \/ SendPostMutex(p)
        PROVE  Balance(b)'
    <2> USE <1>7 DEF BeginSend, SendWaitMutex, SendWrite, SendPostMutex, TypeOK
    <2>1. SendersInFlight(b)' = SendersInFlight(b)
      BY DEF SendersInFlight
    <2>2. ReceiversInFlight(b)' = ReceiversInFlight(b)
      BY DEF ReceiversInFlight
    <2>3. Wakes(b)' = Wakes(b)
      BY DEF Wakes
    <2>4. sem_empty' = sem_empty /\ sem_full' = sem_full /\ wedged' = wedged
      BY DEF semaphores, history
    <2>5. QED
      BY <2>1, <2>2, <2>3, <2>4, BalanceStays
  <1>8. ASSUME NEW e \in Endpoints,
               RecvWaitMutex(e) \/ RecvSeeShutdown(e) \/ RecvTakeMessage(e) \/ SlotReturns(e) \/ RecvPostMutex(e)
        PROVE  Balance(b)'
    <2> USE <1>8 DEF RecvWaitMutex, RecvSeeShutdown, RecvTakeMessage, SlotReturns, RecvPostMutex, TypeOK
    <2>1. SendersInFlight(b)' = SendersInFlight(b)
      BY DEF SendersInFlight
    <2>2. ReceiversInFlight(b)' = ReceiversInFlight(b)
      <3>1. CASE RecvWaitMutex(e)
        BY <3>1 DEF ReceiversInFlight
      <3>2. CASE RecvSeeShutdown(e)
        BY <3>2 DEF ReceiversInFlight
      <3>3. CASE RecvTakeMessage(e)
        BY <3>3 DEF ReceiversInFlight
      <3>4. CASE SlotReturns(e)
        BY <3>4 DEF ReceiversInFlight
      <3>5. CASE RecvPostMutex(e)
        BY <3>5 DEF ReceiversInFlight
      <3>6. QED
        BY <1>8, <3>1, <3>2, <3>3, <3>4, <3>5
    <2>3. Wakes(b)' = Wakes(b)
      BY DEF Wakes
    <2>4. sem_empty' = sem_empty /\ sem_full' = sem_full /\ wedged' = wedged
      BY DEF semaphores, history
    <2>5. QED
      BY <2>1, <2>2, <2>3, <2>4, BalanceStays
  <1>9. ASSUME NEW e \in Endpoints,
               BeginDestroy(e) \/ FinishDestroy(e)
        PROVE  Balance(b)'
    <2> USE <1>9 DEF BeginDestroy, FinishDestroy, TypeOK
    <2>1. SendersInFlight(b)' = SendersInFlight(b)
      BY DEF SendersInFlight
    <2>2. ReceiversInFlight(b)' = ReceiversInFlight(b)
      <3>1. CASE BeginDestroy(e)
        BY <3>1 DEF ReceiversInFlight
      <3>2. CASE FinishDestroy(e)
        BY <3>2 DEF ReceiversInFlight
      <3>3. QED
        BY <1>9, <3>1, <3>2
    <2>3. Wakes(b)' = Wakes(b)
      BY DEF Wakes
    <2>4. sem_empty' = sem_empty /\ sem_full' = sem_full /\ wedged' = wedged
      BY DEF semaphores, history
    <2>5. QED
      BY <2>1, <2>2, <2>3, <2>4, BalanceStays
  <1>10. ASSUME NEW c \in Clients,
               OpenClient(c)
        PROVE  Balance(b)'
    <2> USE <1>10 DEF OpenClient, TypeOK
    <2>1. SendersInFlight(b)' = SendersInFlight(b)
      BY DEF SendersInFlight
    <2>2. ReceiversInFlight(b)' = ReceiversInFlight(b)
      <3>1. c \in Endpoints /\ recv_pc[c] = "none"
        BY DEF Endpoints, EndpointInv, LifeInv
      <3>2. QED
        BY <3>1 DEF ReceiversInFlight
    <2>3. Wakes(b)' = Wakes(b)
      BY DEF Wakes
    <2>4. sem_empty' = sem_empty /\ sem_full' = sem_full /\ wedged' = wedged
      BY DEF semaphores, history
    <2>5. QED
      BY <2>1, <2>2, <2>3, <2>4, BalanceStays
  <1>11. CASE UNCHANGED vars
    <2>1. /\ SendersInFlight(b)' = SendersInFlight(b)
          /\ ReceiversInFlight(b)' = ReceiversInFlight(b)
          /\ Wakes(b)' = Wakes(b)
      BY <1>11 DEF vars, SendersInFlight, ReceiversInFlight, Wakes
    <2>2. QED
      BY <1>11, <2>1, BalanceStays DEF vars
  <1>12. QED
    BY <1>1, <1>2, <1>3, <1>4, <1>5, <1>6, <1>7, <1>8, <1>9, <1>10, <1>11
       DEF Next, SendStep, RecvStep, DestroyStep

(* Of each buffer exactly one token exists for its one place, and one more
   for every endpoint that has been destroyed; only a send that throws takes
   one out of circulation.  So a server's buffer towards its clients holds
   one message at a time until the first client leaves, and its senders can
   be let in two at a time after that.                                      *)
THEOREM TokensConserved == Spec => []TokenConservation
  <1>1. Init => TokenConservation
    BY BalanceInit DEF TokenConservation, Balance
  <1>2. TypeInv /\ EndpointInv /\ WedgedInv /\ TokenConservation /\ [Next]_vars => TokenConservation'
    BY BalanceStep DEF TokenConservation, Balance, TypeInv
  <1>3. TypeInv /\ MutexInv /\ [Next]_vars => (TypeInv /\ MutexInv)'
    BY TypeStep, MutexStep
  <1>4. QED
    BY <1>1, <1>2, <1>3, TypeInit, MutexInit, WedgedInit, WedgedStep, EndpointInvariant, PTL DEF Spec
=============================================================================
