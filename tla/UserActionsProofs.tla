-------------------------- MODULE UserActionsProofs --------------------------
(* Theorems about module UserActions, for any threads, kinds of actions and
   number of calls.                                                         *)
EXTENDS UserActions, SequenceTheorems, TLAPS

-----------------------------------------------------------------------------
(* The inductive invariant.                                                 *)

\* The requests sent and those taken by the server, the responses sent and those
\* that have come back.
Asked == ToSet(req_sent)
Taken == ToSet(req_delivered)
Served == ToSet(rsp_sent)
Back == ToSet(rsp_delivered)

\* A message is delivered once.
ChannelInv ==
    /\ Taken \subseteq Asked /\ Back \subseteq Served
    /\ \A m \in Id : req_sent = Append(req_delivered, m) => m \notin Taken
    /\ \A m \in ResponseData : rsp_sent = Append(rsp_delivered, m) => m \notin Back
    /\ req_busy => req_delivered # <<>>
    /\ recv_pc # "wait" => rsp_delivered # <<>>

\* What a thread has prepared when it sends.
AsyncInv ==
    \A p \in Procs :
        /\ pc[p] # "idle" => Kind(p) \in Kinds /\ calls[p] > 0
        /\ pc[p] = "send" => Mine(p) \in handlers /\ Kind(p) \in connected

\* A thread has not used the number of the call that it is about to send.
NumberInv ==
    \A i \in Asked :
        /\ i.call < calls[i.from]
        /\ pc[i.from] \in {"lock", "register", "send"} => i.call < calls[i.from] - 1

\* A request that was taken is in its slot, or in a thread, or served, once.
StageInv ==
    /\ workers \subseteq Taken
    /\ \A r \in Served : r.id \in Taken /\ r.id \notin workers
    /\ req_busy => Request \notin workers /\ \A r \in Served : r.id # Request
    /\ \A q, r \in Served : q.id = r.id => q = r

\* A response that a handler has been called with does not come back.
AnswersInv ==
    /\ ToSet(answers) \subseteq Back
    /\ recv_pc \in {"lock", "find"} => Answer \notin ToSet(answers)

\* Action i is on its way: its request, the thread that serves it or its response.
OnItsWay(i) ==
    \/ i \in Asked \ Taken
    \/ req_busy /\ i = Request
    \/ i \in workers
    \/ \E m \in Served \ Back : m.id = i
    \/ recv_pc \in {"lock", "find"} /\ i = Response

IInv ==
    /\ VarTypes /\ HeldInside /\ ChannelInv /\ AsyncInv /\ NumberInv /\ StageInv /\ AnswersInv
    /\ HandlersAwaitAnswers

-----------------------------------------------------------------------------
(* Every step preserves it.                                                 *)

\* Sequences and the sets of their elements.
LEMMA Elements ==
    ASSUME NEW S, NEW seq \in Seq(S)
    PROVE  /\ ToSet(seq) \subseteq S
           /\ seq # <<>> => Last(seq) \in ToSet(seq)
  <1>1. /\ Len(seq) \in Nat /\ DOMAIN seq = 1 .. Len(seq)
        /\ \A i \in 1 .. Len(seq) : seq[i] \in S
    BY ElementOfSeq, LenProperties
  <1>2. seq # <<>> => Len(seq) \in DOMAIN seq
    BY <1>1, EmptySeq
  <1>3. QED
    BY <1>1, <1>2 DEF ToSet, Last

LEMMA Appended ==
    ASSUME NEW S, NEW seq \in Seq(S), NEW m \in S
    PROVE  /\ Append(seq, m) \in Seq(S) /\ Append(seq, m) # <<>>
           /\ Last(Append(seq, m)) = m
           /\ ToSet(Append(seq, m)) = ToSet(seq) \union {m}
           /\ \A other \in Seq(S) : \A x \in S : Append(seq, m) = Append(other, x) =>
                 seq = other /\ m = x
           /\ \A x : Append(seq, m) # Append(Append(seq, m), x)
  <1> DEFINE long == Append(seq, m)
  <1>1. /\ long \in Seq(S) /\ long # <<>> /\ Len(long) = Len(seq) + 1 /\ Len(seq) \in Nat
        /\ \A i \in 1 .. Len(seq) : long[i] = seq[i]
        /\ long[Len(seq) + 1] = m
        /\ DOMAIN long = 1 .. Len(long) /\ DOMAIN seq = 1 .. Len(seq)
    BY AppendProperties, LenProperties
  <1>2. \A i \in 1 .. Len(long) : i \in 1 .. Len(seq) \/ i = Len(seq) + 1
    BY <1>1
  <1>3. \A i \in 1 .. Len(seq) : i \in 1 .. Len(long)
    BY <1>1
  <1>4. Len(seq) + 1 \in 1 .. Len(long)
    BY <1>1
  <1>5. ToSet(long) = ToSet(seq) \union {m}
    <2> HIDE DEF long
    <2>1. ASSUME NEW x \in ToSet(long)
          PROVE  x \in ToSet(seq) \union {m}
      BY <1>1, <1>2 DEF ToSet
    <2>2. ASSUME NEW x \in ToSet(seq) \union {m}
          PROVE  x \in ToSet(long)
      BY <1>1, <1>3, <1>4 DEF ToSet
    <2>3. QED
      BY <2>1, <2>2
  <1>6. ASSUME NEW other \in Seq(S), NEW x \in S, Append(seq, m) = Append(other, x)
        PROVE  seq = other /\ m = x
    BY <1>6, AppendInjective
  <1>7. ASSUME NEW x
        PROVE  long # Append(long, x)
    <2>1. Len(Append(long, x)) = Len(long) + 1
      BY <1>1, AppendProperties
    <2>2. QED
      BY <1>1, <2>1
  <1>8. QED
    BY <1>1, <1>5, <1>6, <1>7 DEF Last

\* What a thread sends.
LEMMA MineTyped ==
    ASSUME VarTypes, AsyncInv, NEW p \in Procs, pc[p] # "idle"
    PROVE  /\ Mine(p) \in Id /\ Mine(p).kind = Kind(p) /\ Mine(p).from = p
                 /\ Mine(p).call = calls[p] - 1
           /\ Kind(p) \in Kinds /\ calls[p] \in Nat
  <1>1. Kind(p) \in Kinds /\ calls[p] > 0 /\ calls[p] \in 0 .. MaxCalls
    BY DEF AsyncInv, VarTypes
  <1>2. calls[p] - 1 \in 0 .. MaxCalls - 1 /\ calls[p] \in Nat
    BY <1>1, UserActionsAssumption
  <1>3. QED
    BY <1>1, <1>2 DEF Mine, Id

\* Send: a request.
LEMMA Sending ==
    ASSUME VarTypes, AsyncInv, NEW p \in Procs, AsyncSend(p)
    PROVE  /\ req_sent' = Append(req_sent, Mine(p)) /\ req_sent' \in Seq(Id) /\ Mine(p) \in Id
           /\ Asked' = Asked \union {Mine(p)}
  <1>1. Mine(p) \in Id /\ req_sent \in Seq(Id) /\ req_sent' = Append(req_sent, Mine(p))
    BY MineTyped DEF AsyncSend, Requests!Put, VarTypes
  <1> HIDE DEF Id, Mine
  <1>2. QED
    BY <1>1, Appended DEF Asked

\* The server takes the request.
LEMMA Taking ==
    ASSUME VarTypes, ChannelInv, RequestArrives
    PROVE  /\ ~req_busy /\ req_busy' = TRUE /\ UNCHANGED <<req_sent, Asked>>
           /\ req_delivered' = req_sent /\ req_delivered' # <<>>
           /\ Request' \in Asked /\ Request' \notin Taken /\ Taken' = Taken \union {Request'}
           /\ Request' \in Id
           /\ \A m \in Id : req_sent' # Append(req_delivered', m)
  <1>1. PICK m \in Id : req_sent = Append(req_delivered, m)
        /\ req_delivered' = Append(req_delivered, m)
    BY DEF RequestArrives, Requests!Deliver
  <1>2. ~req_busy /\ req_busy' = TRUE /\ UNCHANGED req_sent /\ req_delivered \in Seq(Id)
    BY DEF RequestArrives, Requests!Deliver, VarTypes
  <1>3. m \notin Taken
    BY <1>1 DEF ChannelInv
  <1> HIDE DEF Id
  <1>4. /\ Last(Append(req_delivered, m)) = m /\ Append(req_delivered, m) # <<>>
        /\ ToSet(Append(req_delivered, m)) = ToSet(req_delivered) \union {m}
        /\ \A x : Append(req_delivered, m) # Append(Append(req_delivered, m), x)
    BY <1>2, Appended
  <1>5. Request' = m /\ Taken' = Taken \union {m} /\ Asked = Taken \union {m} /\ Asked' = Asked
    BY <1>1, <1>2, <1>4 DEF Request, Taken, Asked
  <1>6. QED
    BY <1>1, <1>2, <1>3, <1>4, <1>5

\* A thread of the server sends a response.
LEMMA Answering ==
    ASSUME VarTypes, NEW i \in Id, WorkerAnswers(i)
    PROVE  \E r \in ResponseData :
             /\ r.id = i /\ r \in [id : {i}, error : BOOLEAN]
             /\ rsp_sent' = Append(rsp_sent, r) /\ rsp_sent' \in Seq(ResponseData)
             /\ Served' = Served \union {r}
  <1>1. PICK error \in BOOLEAN : rsp_sent' = Append(rsp_sent, [id |-> i, error |-> error])
    BY DEF WorkerAnswers, Responses!Put
  <1> DEFINE r == [id |-> i, error |-> error]
  <1>2. r \in ResponseData /\ r.id = i /\ r \in [id : {i}, error : BOOLEAN]
    BY DEF ResponseData
  <1>3. rsp_sent \in Seq(ResponseData)
    BY DEF VarTypes
  <1> HIDE DEF r, ResponseData
  <1>4. Append(rsp_sent, r) \in Seq(ResponseData)
        /\ ToSet(Append(rsp_sent, r)) = ToSet(rsp_sent) \union {r}
    BY <1>2, <1>3, Appended
  <1>5. QED
    BY <1>1, <1>2, <1>4 DEF Served, r

\* The client's receive thread takes the response.
LEMMA Coming ==
    ASSUME VarTypes, ChannelInv, ResponseArrives
    PROVE  /\ recv_pc = "wait" /\ UNCHANGED <<rsp_sent, Served>>
           /\ rsp_delivered' = rsp_sent /\ rsp_delivered' # <<>>
           /\ Answer' \in Served /\ Answer' \notin Back /\ Back' = Back \union {Answer'}
           /\ Answer' \in ResponseData
           /\ recv_pc' = IF Answer'.id.kind \in connected THEN "lock" ELSE "return"
           /\ \A m \in ResponseData : rsp_sent' # Append(rsp_delivered', m)
  <1>1. PICK m \in ResponseData : rsp_sent = Append(rsp_delivered, m)
        /\ rsp_delivered' = Append(rsp_delivered, m)
    BY DEF ResponseArrives, Responses!Deliver
  <1>2. /\ recv_pc = "wait" /\ UNCHANGED rsp_sent /\ rsp_delivered \in Seq(ResponseData)
        /\ recv_pc' = IF Last(rsp_delivered').id.kind \in connected THEN "lock" ELSE "return"
    BY DEF ResponseArrives, Responses!Deliver, VarTypes
  <1>3. m \notin Back
    BY <1>1 DEF ChannelInv
  <1> HIDE DEF ResponseData
  <1>4. /\ Last(Append(rsp_delivered, m)) = m /\ Append(rsp_delivered, m) # <<>>
        /\ ToSet(Append(rsp_delivered, m)) = ToSet(rsp_delivered) \union {m}
        /\ \A x : Append(rsp_delivered, m) # Append(Append(rsp_delivered, m), x)
    BY <1>2, Appended
  <1>5. Answer' = m /\ Back' = Back \union {m} /\ Served = Back \union {m} /\ Served' = Served
    BY <1>1, <1>2, <1>4 DEF Answer, Back, Served
  <1>6. QED
    BY <1>1, <1>2, <1>3, <1>4, <1>5 DEF Answer

\* The request and the response that are being dealt with.
LEMMA AtHand ==
    ASSUME VarTypes, ChannelInv
    PROVE  /\ req_busy => Request \in Taken /\ Request \in Id
           /\ recv_pc # "wait" =>
                 Answer \in Back /\ Answer \in ResponseData /\ Response \in Id
                       /\ Response.kind \in Kinds
           /\ Asked \subseteq Id /\ Taken \subseteq Id /\ Served \subseteq ResponseData
                 /\ Back \subseteq ResponseData
  <1>1. req_sent \in Seq(Id) /\ req_delivered \in Seq(Id) /\ rsp_sent \in Seq(ResponseData)
        /\ rsp_delivered \in Seq(ResponseData)
    BY DEF VarTypes
  <1>2. /\ req_busy => req_delivered # <<>>
        /\ recv_pc # "wait" => rsp_delivered # <<>>
    BY DEF ChannelInv
  <1>3. /\ Asked \subseteq Id /\ Taken \subseteq Id /\ Served \subseteq ResponseData
              /\ Back \subseteq ResponseData
        /\ req_busy => Request \in Taken
        /\ recv_pc # "wait" => Answer \in Back
    <2> HIDE DEF Id, ResponseData
    <2>1. QED
      BY <1>1, <1>2, Elements DEF Asked, Taken, Served, Back, Request, Answer
  <1>4. \A r \in ResponseData : r.id \in Id /\ r.id.kind \in Kinds
    BY DEF ResponseData, Id
  <1>5. QED
    BY <1>3, <1>4 DEF Response

LEMMA TypeStep ==
    ASSUME VarTypes, ChannelInv, AsyncInv, [Next]_vars
    PROVE  VarTypes'
  <1>1. ASSUME NEW p \in Procs, BeginAsync(p)
       PROVE  VarTypes'
    <2>1. calls[p] \in 0 .. MaxCalls /\ calls[p] < MaxCalls /\ MaxCalls \in Nat
      BY <1>1, UserActionsAssumption DEF BeginAsync, VarTypes
    <2>2. calls[p] + 1 \in 0 .. MaxCalls
      BY <2>1
    <2>3. calls' \in [Procs -> 0 .. MaxCalls]
      BY <1>1, <2>2 DEF BeginAsync, VarTypes
    <2>4. pc' \in [Procs -> {"idle", "lock", "register", "send", "unlock"}]
      BY <1>1 DEF BeginAsync, VarTypes
    <2>5. follow' \in Kinds \union {Nobody}
      <3>1. CASE p = Receiver
        <4>1. recv_pc = "handler" /\ follow' \in Follow[Response.kind]
          BY <1>1, <3>1 DEF BeginAsync
        <4>2. Response.kind \in Kinds
          BY <4>1, AtHand
        <4>3. QED
          BY <4>1, <4>2, UserActionsAssumption
      <3>2. CASE p # Receiver
        BY <1>1, <3>2 DEF BeginAsync, VarTypes
      <3>3. QED
        BY <3>1, <3>2
    <2>6. UNCHANGED <<mutex, connected, handlers, recv_pc, workers, requests, responses,
                      answers, failed, unsent, lost>>
      BY <1>1 DEF BeginAsync, internals, history, throws
    <2>7. QED
      BY <2>3, <2>4, <2>5, <2>6 DEF VarTypes, requests, responses
  <1>2. ASSUME NEW p \in Procs, AsyncLock(p)
       PROVE  VarTypes'
    <2>1. Kind(p) \in Kinds
      BY <1>2, MineTyped DEF AsyncLock
    <2>2. mutex' \in [Kinds -> Procs \union {Nobody}]
      BY <1>2, <2>1 DEF AsyncLock, VarTypes, Procs
    <2>3. pc' \in [Procs -> {"idle", "lock", "register", "send", "unlock"}]
      BY <1>2 DEF AsyncLock, VarTypes
    <2>4. UNCHANGED <<connected, handlers, calls, follow, workers, requests, responses,
                      answers, failed, unsent, lost, recv_pc>>
      BY <1>2 DEF AsyncLock, history, throws
    <2>5. QED
      BY <2>2, <2>3, <2>4 DEF VarTypes, requests, responses
  <1>3. ASSUME NEW p \in Procs, AsyncRegister(p)
       PROVE  VarTypes'
    <2>1. Kind(p) \in Kinds /\ Mine(p) \in Id
      BY <1>3, MineTyped DEF AsyncRegister
    <2>2. connected' \subseteq Kinds /\ handlers' \subseteq Id
      BY <1>3, <2>1 DEF AsyncRegister, VarTypes
    <2>3. pc' \in [Procs -> {"idle", "lock", "register", "send", "unlock"}]
      BY <1>3 DEF AsyncRegister, VarTypes
    <2>4. UNCHANGED <<mutex, calls, follow, recv_pc, workers, requests, responses, answers, failed, unsent, lost>>
      BY <1>3 DEF AsyncRegister, history, throws
    <2>5. QED
      BY <2>2, <2>3, <2>4 DEF VarTypes, requests, responses
  <1>4. ASSUME NEW p \in Procs, AsyncSend(p)
       PROVE  VarTypes'
    <2>1. req_sent' \in Seq(Id)
      BY <1>4, Sending
    <2>2. pc' \in [Procs -> {"idle", "lock", "register", "send", "unlock"}]
      BY <1>4 DEF AsyncSend, VarTypes
    <2>3. UNCHANGED <<mutex, connected, handlers, calls, follow, recv_pc, workers,
                      req_delivered, req_busy, req_closed, responses, answers, failed, unsent, lost>>
      BY <1>4 DEF AsyncSend, Requests!Put, internals, history, throws
    <2>4. QED
      BY <2>1, <2>2, <2>3 DEF VarTypes, responses
  <1>5. ASSUME NEW p \in Procs, AsyncThrow(p)
       PROVE  VarTypes'
    <2>1. unsent' \subseteq Id
      BY <1>5, MineTyped DEF AsyncThrow
    <2>2. pc' \in [Procs -> {"idle", "lock", "register", "send", "unlock"}]
      BY <1>5 DEF AsyncThrow, VarTypes
    <2>3. UNCHANGED <<mutex, connected, handlers, calls, follow, recv_pc, workers,
                      requests, responses, answers, failed, lost>>
      BY <1>5 DEF AsyncThrow, internals, history
    <2>4. QED
      BY <2>1, <2>2, <2>3 DEF VarTypes, requests, responses
  <1>6. ASSUME NEW p \in Procs, AsyncUnlock(p)
       PROVE  VarTypes'
    <2>1. Kind(p) \in Kinds
      BY <1>6, MineTyped DEF AsyncUnlock
    <2>2. mutex' \in [Kinds -> Procs \union {Nobody}]
      BY <1>6, <2>1 DEF AsyncUnlock, VarTypes, Procs
    <2>3. pc' \in [Procs -> {"idle", "lock", "register", "send", "unlock"}]
      BY <1>6 DEF AsyncUnlock, VarTypes
    <2>4. UNCHANGED <<connected, handlers, calls, follow, workers, requests, responses,
                      answers, failed, unsent, lost, recv_pc>>
      BY <1>6 DEF AsyncUnlock, history, throws
    <2>5. QED
      BY <2>2, <2>3, <2>4 DEF VarTypes, requests, responses
  <1>7. CASE RequestArrives
    <2>1. req_delivered' = req_sent /\ req_busy' = TRUE
      BY <1>7, Taking
    <2>2. req_busy' \in BOOLEAN
      BY <2>1, Zenon
    <2>3. UNCHANGED <<mutex, connected, handlers, pc, calls, follow, recv_pc, workers,
                      req_sent, req_closed, responses, answers, failed, unsent, lost>>
      BY <1>7 DEF RequestArrives, Requests!Deliver, internals, threads, history, throws
    <2>4. QED
      BY <2>1, <2>2, <2>3 DEF VarTypes, responses
  <1>8. CASE StartWorker
    <2>1. Request \in Id /\ req_busy' = FALSE
      BY <1>8, AtHand DEF StartWorker, Requests!Return
    <2>2. req_busy' \in BOOLEAN
      BY <2>1, Zenon
    <2>3. UNCHANGED <<mutex, connected, handlers, pc, calls, follow, recv_pc, req_sent,
                      req_delivered, req_closed, responses, answers, failed, unsent, lost>>
          /\ workers' = workers \union {Request}
      BY <1>8 DEF StartWorker, Requests!Return, internals, threads, history, throws
    <2>4. QED
      BY <2>1, <2>2, <2>3 DEF VarTypes, responses
  <1>9. ASSUME NEW i \in Id, WorkerAnswers(i)
       PROVE  VarTypes'
    <2>1. rsp_sent' \in Seq(ResponseData)
      BY <1>9, Answering
    <2>2. UNCHANGED <<mutex, connected, handlers, pc, calls, follow, recv_pc, requests,
                      rsp_delivered, rsp_busy, rsp_closed, answers, failed, unsent, lost>>
          /\ workers' \subseteq workers
      BY <1>9 DEF WorkerAnswers, Responses!Put, internals, threads, history, throws
    <2>3. QED
      BY <2>1, <2>2 DEF VarTypes, requests
  <1>10. ASSUME NEW i \in Id, WorkerThrows(i)
       PROVE  VarTypes'
    <2>1. lost' \subseteq Id /\ workers' \subseteq Id
      BY <1>10, AtHand DEF WorkerThrows, VarTypes
    <2>2. UNCHANGED <<mutex, connected, handlers, pc, calls, follow, recv_pc, requests,
                      responses, answers, failed, unsent>>
      BY <1>10 DEF WorkerThrows, internals, threads, history
    <2>3. QED
      BY <2>1, <2>2 DEF VarTypes, requests, responses
  <1>11. CASE ResponseArrives
    <2>1. rsp_delivered' = rsp_sent /\ recv_pc' \in {"lock", "return"}
      BY <1>11, Coming
    <2>2. rsp_busy' = TRUE
      BY <1>11 DEF ResponseArrives, Responses!Deliver
    <2>3. rsp_busy' \in BOOLEAN
      BY <2>2, Zenon
    <2>4. UNCHANGED <<mutex, connected, handlers, pc, calls, follow, workers, requests,
                      rsp_sent, rsp_closed, answers, failed, unsent, lost>>
      BY <1>11 DEF ResponseArrives, Responses!Deliver, internals, history, throws
    <2>5. QED
      BY <2>1, <2>3, <2>4 DEF VarTypes, requests
  <1>12. CASE HandlerLock
    <2>1. Response.kind \in Kinds
      BY <1>12, AtHand DEF HandlerLock
    <2>2. mutex' \in [Kinds -> Procs \union {Nobody}]
      BY <1>12, <2>1 DEF HandlerLock, VarTypes, Procs
    <2>3. recv_pc' = "find"
      BY <1>12 DEF HandlerLock, VarTypes
    <2>4. UNCHANGED <<connected, handlers, calls, follow, workers, requests, responses,
                      answers, failed, unsent, lost, pc>>
      BY <1>12 DEF HandlerLock, history, throws
    <2>5. QED
      BY <2>2, <2>3, <2>4 DEF VarTypes, requests, responses
  <1>13. CASE FindHandler
    <2>1. Answer \in ResponseData /\ answers \in Seq(ResponseData)
      BY <1>13, AtHand DEF FindHandler, VarTypes
    <2>2. answers' \in Seq(ResponseData)
      <3> HIDE DEF ResponseData, Answer
      <3>1. Append(answers, Answer) \in Seq(ResponseData)
        BY <2>1, Appended
      <3>2. QED
        BY <1>13, <2>1, <3>1 DEF FindHandler
    <2>3. UNCHANGED <<mutex, connected, handlers, pc, calls, follow, workers, requests,
                      responses, failed, unsent, lost>>
          /\ recv_pc' \in {"handler", "unlock"}
      BY <1>13 DEF FindHandler, internals, throws
    <2>4. QED
      BY <2>2, <2>3 DEF VarTypes, requests, responses
  <1>14. CASE HandlerReturns
    <2>1. UNCHANGED <<mutex, connected, pc, calls, follow, workers, req_sent,
                      req_delivered, req_busy, req_closed, rsp_sent, rsp_delivered,
                      rsp_busy, rsp_closed, answers, failed, unsent, lost>> /\ recv_pc' = "unlock"
          /\ handlers' \subseteq handlers
      BY <1>14 DEF HandlerReturns, requests, responses, history, throws
    <2>2. QED
      BY <2>1 DEF VarTypes
  <1>15. CASE HandlerThrows
    <2>1. Response \in Id
      BY <1>15, AtHand DEF HandlerThrows
    <2>2. failed' \subseteq Id
      BY <1>15, <2>1 DEF HandlerThrows, VarTypes
    <2>3. UNCHANGED <<mutex, connected, handlers, pc, calls, follow, workers, requests,
                      responses, answers, unsent, lost>>
          /\ recv_pc' = "unlock"
      BY <1>15 DEF HandlerThrows, internals, throws
    <2>4. QED
      BY <2>2, <2>3 DEF VarTypes, requests, responses
  <1>16. CASE HandlerUnlock
    <2>1. Response.kind \in Kinds
      BY <1>16, AtHand DEF HandlerUnlock
    <2>2. mutex' \in [Kinds -> Procs \union {Nobody}]
      BY <1>16, <2>1 DEF HandlerUnlock, VarTypes, Procs
    <2>3. recv_pc' = "return"
      BY <1>16 DEF HandlerUnlock, VarTypes
    <2>4. UNCHANGED <<connected, handlers, calls, follow, workers, requests, responses,
                      answers, failed, unsent, lost, pc>>
      BY <1>16 DEF HandlerUnlock, history, throws
    <2>5. QED
      BY <2>2, <2>3, <2>4 DEF VarTypes, requests, responses
  <1>17. CASE SlotReturns
    <2>1. rsp_busy' = FALSE
      BY <1>17 DEF SlotReturns, Responses!Return, internals, requests, history, throws
    <2>2. rsp_busy' \in BOOLEAN
      BY <2>1, Zenon
    <2>3. UNCHANGED <<mutex, connected, handlers, pc, calls, follow, workers, req_sent,
                      req_delivered, req_busy, req_closed, rsp_sent, rsp_delivered,
                      rsp_closed, answers, failed, unsent, lost>> /\ recv_pc' = "wait"
      BY <1>17 DEF SlotReturns, Responses!Return, internals, requests, history, throws
    <2>4. QED
      BY <2>2, <2>3 DEF VarTypes
  <1>18. CASE ClientCloses
    <2>1. rsp_closed' = TRUE
      BY <1>18 DEF ClientCloses, Responses!Close, internals, threads, requests, history, throws
    <2>2. rsp_closed' \in BOOLEAN
      BY <2>1, Zenon
    <2>3. UNCHANGED <<mutex, connected, handlers, pc, calls, follow, recv_pc, workers,
                      req_sent, req_delivered, req_busy, req_closed, rsp_sent,
                      rsp_delivered, rsp_busy, answers, failed, unsent, lost>>
      BY <1>18 DEF ClientCloses, Responses!Close, internals, threads, requests, history, throws
    <2>4. QED
      BY <2>2, <2>3 DEF VarTypes
  <1>19. CASE ServerCloses
    <2>1. req_closed' = TRUE
      BY <1>19 DEF ServerCloses, Requests!Close, internals, threads, responses, history, throws
    <2>2. req_closed' \in BOOLEAN
      BY <2>1, Zenon
    <2>3. UNCHANGED <<mutex, connected, handlers, pc, calls, follow, recv_pc, workers,
                      req_sent, req_delivered, req_busy, rsp_sent, rsp_delivered, rsp_busy,
                      rsp_closed, answers, failed, unsent, lost>>
      BY <1>19 DEF ServerCloses, Requests!Close, internals, threads, responses, history, throws
    <2>4. QED
      BY <2>2, <2>3 DEF VarTypes
  <1>20. CASE UNCHANGED vars
    BY <1>20 DEF VarTypes, vars
  <1>21. QED
    BY <1>1, <1>2, <1>3, <1>4, <1>5, <1>6, <1>7, <1>8, <1>9, <1>10, <1>11, <1>12, <1>13,
       <1>14, <1>15, <1>16, <1>17, <1>18, <1>19, <1>20
    DEF Next, AsyncStep, WorkerStep, ServerStep, ReceiverStep

\* The number of the call that is about to be sent is new.
LEMMA FreshNumber ==
    ASSUME VarTypes, AsyncInv, NumberInv, NEW p \in Procs, pc[p] = "send"
    PROVE  Mine(p) \notin Asked
  <1>1. Mine(p).from = p /\ Mine(p).call = calls[p] - 1 /\ calls[p] \in Nat
    BY MineTyped
  <1>2. QED
    BY <1>1 DEF NumberInv

LEMMA ChannelStep ==
    ASSUME VarTypes, ChannelInv, AsyncInv, NumberInv, StageInv, [Next]_vars
    PROVE  ChannelInv'
  <1>1. ASSUME NEW p \in Procs, BeginAsync(p)
       PROVE  ChannelInv'
    <2>1. UNCHANGED <<req_sent, req_delivered, req_busy, rsp_sent, rsp_delivered, recv_pc>>
          /\ UNCHANGED <<Asked, Taken, Served, Back>>
      BY <1>1 DEF BeginAsync, internals, requests, responses, history, throws, Asked, Taken, Served, Back
    <2>2. QED
      BY <2>1 DEF ChannelInv
  <1>2. ASSUME NEW p \in Procs, AsyncLock(p)
       PROVE  ChannelInv'
    <2>1. UNCHANGED <<req_sent, req_delivered, req_busy, rsp_sent, rsp_delivered, recv_pc>>
          /\ UNCHANGED <<Asked, Taken, Served, Back>>
      BY <1>2 DEF AsyncLock, requests, responses, history, throws, Asked, Taken, Served, Back
    <2>2. QED
      BY <2>1 DEF ChannelInv
  <1>3. ASSUME NEW p \in Procs, AsyncRegister(p)
       PROVE  ChannelInv'
    <2>1. UNCHANGED <<req_sent, req_delivered, req_busy, rsp_sent, rsp_delivered, recv_pc>>
          /\ UNCHANGED <<Asked, Taken, Served, Back>>
      BY <1>3 DEF AsyncRegister, requests, responses, history, throws, Asked, Taken, Served, Back
    <2>2. QED
      BY <2>1 DEF ChannelInv
  <1>4. ASSUME NEW p \in Procs, AsyncSend(p)
       PROVE  ChannelInv'
    <2>1. /\ req_sent' = Append(req_sent, Mine(p)) /\ Mine(p) \in Id
                /\ Asked' = Asked \union {Mine(p)}
          /\ req_sent \in Seq(Id) /\ req_delivered \in Seq(Id)
      BY <1>4, Sending DEF VarTypes
    <2>2. /\ UNCHANGED <<req_delivered, req_busy, rsp_sent, rsp_delivered, recv_pc>>
          /\ UNCHANGED <<Taken, Served, Back>>
      BY <1>4 DEF AsyncSend, Requests!Put, responses, Taken, Served, Back
    <2>3. Mine(p) \notin Asked
      BY <1>4, <2>1, FreshNumber DEF AsyncSend
    <2>4. ASSUME NEW m \in Id, req_sent' = Append(req_delivered, m)
          PROVE  m \notin Taken
      <3> HIDE DEF Id, Mine
      <3>1. req_sent = req_delivered /\ m = Mine(p)
        <4>1. Append(req_sent, Mine(p)) = Append(req_delivered, m)
          BY <2>1, <2>4
        <4>2. QED
          BY <2>1, <4>1, AppendInjective
      <3>2. QED
        BY <2>3, <3>1 DEF Asked, Taken
    <2>5. QED
      BY <2>1, <2>2, <2>4 DEF ChannelInv
  <1>5. ASSUME NEW p \in Procs, AsyncThrow(p)
       PROVE  ChannelInv'
    <2>1. UNCHANGED <<req_sent, req_delivered, req_busy, rsp_sent, rsp_delivered, recv_pc>>
          /\ UNCHANGED <<Asked, Taken, Served, Back>>
      BY <1>5 DEF AsyncThrow, requests, responses, Asked, Taken, Served, Back
    <2>2. QED
      BY <2>1 DEF ChannelInv
  <1>6. ASSUME NEW p \in Procs, AsyncUnlock(p)
       PROVE  ChannelInv'
    <2>1. UNCHANGED <<req_sent, req_delivered, req_busy, rsp_sent, rsp_delivered, recv_pc>>
          /\ UNCHANGED <<Asked, Taken, Served, Back>>
      BY <1>6 DEF AsyncUnlock, requests, responses, history, throws, Asked, Taken, Served, Back
    <2>2. QED
      BY <2>1 DEF ChannelInv
  <1>7. CASE RequestArrives
    <2>1. /\ UNCHANGED <<Served, Back, rsp_sent, rsp_delivered, recv_pc>>
      BY <1>7 DEF RequestArrives, responses, threads, Served, Back
    <2>2. QED
      BY <1>7, <2>1, Taking DEF ChannelInv
  <1>8. CASE StartWorker
    <2>1. UNCHANGED <<req_sent, req_delivered, rsp_sent, rsp_delivered, recv_pc>>
          /\ UNCHANGED <<Asked, Taken, Served, Back>> /\ ~req_busy'
      BY <1>8
      DEF StartWorker, Requests!Return, internals, threads, responses, history, throws, Asked, Taken,
          Served, Back
    <2>2. QED
      BY <2>1 DEF ChannelInv
  <1>9. ASSUME NEW i \in Id, WorkerAnswers(i)
       PROVE  ChannelInv'
    <2>1. PICK r \in ResponseData :
             r.id = i /\ rsp_sent' = Append(rsp_sent, r) /\ Served' = Served \union {r}
      BY <1>9, Answering
    <2>2. /\ UNCHANGED <<req_sent, req_delivered, req_busy, rsp_delivered, recv_pc>>
             /\ UNCHANGED <<Asked, Taken, Back>>
      BY <1>9 DEF WorkerAnswers, Responses!Put, requests, threads, Asked, Taken, Back
    <2>3. r \notin Served
      BY <1>9, <2>1 DEF WorkerAnswers, StageInv
    <2>4. rsp_sent \in Seq(ResponseData) /\ rsp_delivered \in Seq(ResponseData)
      BY DEF VarTypes
    <2>5. ASSUME NEW m \in ResponseData, rsp_sent' = Append(rsp_delivered, m)
          PROVE  m \notin Back
      <3> HIDE DEF ResponseData
      <3>1. rsp_sent = rsp_delivered /\ m = r
        <4>1. Append(rsp_sent, r) = Append(rsp_delivered, m)
          BY <2>1, <2>5
        <4>2. QED
          BY <2>4, <4>1, AppendInjective
      <3>2. QED
        BY <2>3, <3>1 DEF Served, Back
    <2>6. QED
      BY <2>1, <2>2, <2>5 DEF ChannelInv
  <1>10. ASSUME NEW i \in Id, WorkerThrows(i)
       PROVE  ChannelInv'
    <2>1. UNCHANGED <<req_sent, req_delivered, req_busy, rsp_sent, rsp_delivered, recv_pc>>
          /\ UNCHANGED <<Asked, Taken, Served, Back>>
      BY <1>10 DEF WorkerThrows, threads, requests, responses, Asked, Taken, Served, Back
    <2>2. QED
      BY <2>1 DEF ChannelInv
  <1>11. CASE ResponseArrives
    <2>1. /\ UNCHANGED <<Asked, Taken, req_sent, req_delivered, req_busy>>
      BY <1>11 DEF ResponseArrives, requests, Asked, Taken
    <2>2. QED
      BY <1>11, <2>1, Coming DEF ChannelInv
  <1>12. CASE HandlerLock
    <2>1. UNCHANGED <<req_sent, req_delivered, req_busy, rsp_sent, rsp_delivered>>
          /\ UNCHANGED <<Asked, Taken, Served, Back>>
          /\ recv_pc # "wait"
      BY <1>12 DEF HandlerLock, requests, responses, history, throws, Asked, Taken, Served, Back
    <2>2. QED
      BY <2>1 DEF ChannelInv
  <1>13. CASE FindHandler
    <2>1. UNCHANGED <<req_sent, req_delivered, req_busy, rsp_sent, rsp_delivered>>
          /\ UNCHANGED <<Asked, Taken, Served, Back>>
          /\ recv_pc # "wait"
      BY <1>13 DEF FindHandler, internals, throws, requests, responses, Asked, Taken, Served, Back
    <2>2. QED
      BY <2>1 DEF ChannelInv
  <1>14. CASE HandlerReturns
    <2>1. UNCHANGED <<req_sent, req_delivered, req_busy, rsp_sent, rsp_delivered>>
          /\ UNCHANGED <<Asked, Taken, Served, Back>>
          /\ recv_pc # "wait"
      BY <1>14 DEF HandlerReturns, requests, responses, history, throws, Asked, Taken, Served, Back
    <2>2. QED
      BY <2>1 DEF ChannelInv
  <1>15. CASE HandlerThrows
    <2>1. UNCHANGED <<req_sent, req_delivered, req_busy, rsp_sent, rsp_delivered>>
          /\ UNCHANGED <<Asked, Taken, Served, Back>>
          /\ recv_pc # "wait"
      BY <1>15 DEF HandlerThrows, internals, throws, requests, responses, Asked, Taken, Served, Back
    <2>2. QED
      BY <2>1 DEF ChannelInv
  <1>16. CASE HandlerUnlock
    <2>1. UNCHANGED <<req_sent, req_delivered, req_busy, rsp_sent, rsp_delivered>>
          /\ UNCHANGED <<Asked, Taken, Served, Back>>
          /\ recv_pc # "wait"
      BY <1>16 DEF HandlerUnlock, requests, responses, history, throws, Asked, Taken, Served, Back
    <2>2. QED
      BY <2>1 DEF ChannelInv
  <1>17. CASE SlotReturns
    <2>1. UNCHANGED <<req_sent, req_delivered, req_busy, rsp_sent, rsp_delivered>>
          /\ UNCHANGED <<Asked, Taken, Served, Back>>
          /\ recv_pc' = "wait"
      BY <1>17
      DEF SlotReturns, Responses!Return, internals, requests, history, throws, Asked, Taken, Served, Back
    <2>2. QED
      BY <2>1 DEF ChannelInv
  <1>18. CASE ClientCloses
    <2>1. UNCHANGED <<req_sent, req_delivered, req_busy, rsp_sent, rsp_delivered, recv_pc>>
          /\ UNCHANGED <<Asked, Taken, Served, Back>>
      BY <1>18
      DEF ClientCloses, Responses!Close, internals, threads, requests, history, throws, Asked, Taken,
          Served, Back
    <2>2. QED
      BY <2>1 DEF ChannelInv
  <1>19. CASE ServerCloses
    <2>1. UNCHANGED <<req_sent, req_delivered, req_busy, rsp_sent, rsp_delivered, recv_pc>>
          /\ UNCHANGED <<Asked, Taken, Served, Back>>
      BY <1>19
      DEF ServerCloses, Requests!Close, internals, threads, responses, history, throws, Asked, Taken,
          Served, Back
    <2>2. QED
      BY <2>1 DEF ChannelInv
  <1>20. CASE UNCHANGED vars
    BY <1>20 DEF ChannelInv, Asked, Taken, Served, Back, vars
  <1>21. QED
    BY <1>1, <1>2, <1>3, <1>4, <1>5, <1>6, <1>7, <1>8, <1>9, <1>10, <1>11, <1>12, <1>13,
       <1>14, <1>15, <1>16, <1>17, <1>18, <1>19, <1>20
    DEF Next, AsyncStep, WorkerStep, ServerStep, ReceiverStep

LEMMA AsyncPrepared ==
    ASSUME VarTypes, ChannelInv, AsyncInv, NumberInv, StageInv, [Next]_vars
    PROVE  AsyncInv'
  <1>1. ASSUME NEW p \in Procs, BeginAsync(p)
       PROVE  AsyncInv'
    <2>1. /\ UNCHANGED <<handlers, connected>> /\ pc[p] = "idle" /\ pc'[p] = "lock"
                                                     /\ calls'[p] = calls[p] + 1
                                                           /\ calls[p] \in Nat
          /\ \A q \in Procs : q # p => pc'[q] = pc[q] /\ calls'[q] = calls[q]
      BY <1>1 DEF BeginAsync, internals, VarTypes
    <2>2. Kind(p)' \in Kinds
      <3>1. CASE p = Receiver
        <4>1. recv_pc = "handler" /\ follow' \in Follow[Response.kind]
          BY <1>1, <3>1 DEF BeginAsync
        <4>2. Response.kind \in Kinds
          BY <4>1, AtHand
        <4>3. QED
          BY <3>1, <4>1, <4>2, UserActionsAssumption DEF Kind
      <3>2. CASE p # Receiver
        BY <3>2, UserActionsAssumption DEF Kind, Procs
      <3>3. QED
        BY <3>1, <3>2
    <2>3. ASSUME NEW q \in Procs, q # p
          PROVE  pc[q] # "idle" => Kind(q)' = Kind(q) /\ Mine(q)' = Mine(q)
      <3>1. CASE p = Receiver
        BY <2>1, <2>3, <3>1 DEF Kind, Mine
      <3>2. CASE p # Receiver
        <4>1. UNCHANGED follow
          BY <1>1, <3>2 DEF BeginAsync
        <4>2. QED
          BY <2>1, <2>3, <4>1 DEF Kind, Mine
      <3>3. QED
        BY <3>1, <3>2
    <2>4. QED
      BY <2>1, <2>2, <2>3 DEF AsyncInv
  <1>2. ASSUME NEW p \in Procs, AsyncLock(p)
       PROVE  AsyncInv'
    <2>1. /\ UNCHANGED <<handlers, connected>> /\ UNCHANGED <<calls, follow>>
          /\ pc[p] # "idle" /\ pc'[p] = "register" /\ \A q \in Procs : q # p => pc'[q] = pc[q]
      BY <1>2 DEF AsyncLock, requests, responses, history, throws, VarTypes
    <2>2. \A q \in Procs : Kind(q)' = Kind(q) /\ Mine(q)' = Mine(q)
      BY <2>1 DEF Kind, Mine
    <2>3. QED
      BY <2>1, <2>2 DEF AsyncInv
  <1>3. ASSUME NEW p \in Procs, AsyncRegister(p)
       PROVE  AsyncInv'
    <2>1. /\ handlers' = handlers \union {Mine(p)} /\ connected' = connected \union {Kind(p)}
                /\ UNCHANGED <<calls, follow>>
          /\ pc[p] # "idle" /\ pc'[p] = "send" /\ \A q \in Procs : q # p => pc'[q] = pc[q]
      BY <1>3 DEF AsyncRegister, requests, responses, history, throws, VarTypes
    <2>2. \A q \in Procs : Kind(q)' = Kind(q) /\ Mine(q)' = Mine(q)
      BY <2>1 DEF Kind, Mine
    <2>3. QED
      BY <2>1, <2>2 DEF AsyncInv
  <1>4. ASSUME NEW p \in Procs, AsyncSend(p)
       PROVE  AsyncInv'
    <2>1. /\ UNCHANGED <<handlers, connected>> /\ UNCHANGED <<calls, follow>>
          /\ pc[p] # "idle" /\ pc'[p] = "unlock" /\ \A q \in Procs : q # p => pc'[q] = pc[q]
      BY <1>4 DEF AsyncSend, Requests!Put, internals, responses, history, throws, VarTypes
    <2>2. \A q \in Procs : Kind(q)' = Kind(q) /\ Mine(q)' = Mine(q)
      BY <2>1 DEF Kind, Mine
    <2>3. QED
      BY <2>1, <2>2 DEF AsyncInv
  <1>5. ASSUME NEW p \in Procs, AsyncThrow(p)
       PROVE  AsyncInv'
    <2>1. /\ UNCHANGED <<handlers, connected>> /\ UNCHANGED <<calls, follow>>
          /\ pc[p] # "idle" /\ pc'[p] = "unlock" /\ \A q \in Procs : q # p => pc'[q] = pc[q]
      BY <1>5 DEF AsyncThrow, internals, VarTypes
    <2>2. \A q \in Procs : Kind(q)' = Kind(q) /\ Mine(q)' = Mine(q)
      BY <2>1 DEF Kind, Mine
    <2>3. QED
      BY <2>1, <2>2 DEF AsyncInv
  <1>6. ASSUME NEW p \in Procs, AsyncUnlock(p)
       PROVE  AsyncInv'
    <2>1. /\ UNCHANGED <<handlers, connected>> /\ UNCHANGED <<calls, follow>>
          /\ pc[p] # "idle" /\ pc'[p] = "idle" /\ \A q \in Procs : q # p => pc'[q] = pc[q]
      BY <1>6 DEF AsyncUnlock, requests, responses, history, throws, VarTypes
    <2>2. \A q \in Procs : Kind(q)' = Kind(q) /\ Mine(q)' = Mine(q)
      BY <2>1 DEF Kind, Mine
    <2>3. QED
      BY <2>1, <2>2 DEF AsyncInv
  <1>7. CASE RequestArrives
    <2>1. UNCHANGED <<pc, calls, follow, handlers, connected>>
      BY <1>7 DEF RequestArrives, Requests!Deliver, internals, threads, responses, history, throws
    <2>2. QED
      BY <2>1 DEF AsyncInv, Mine, Kind
  <1>8. CASE StartWorker
    <2>1. UNCHANGED <<pc, calls, follow, handlers, connected>>
      BY <1>8 DEF StartWorker, Requests!Return, internals, threads, responses, history, throws
    <2>2. QED
      BY <2>1 DEF AsyncInv, Mine, Kind
  <1>9. ASSUME NEW i \in Id, WorkerAnswers(i)
       PROVE  AsyncInv'
    <2>1. UNCHANGED <<pc, calls, follow, handlers, connected>>
      BY <1>9 DEF WorkerAnswers, Responses!Put, internals, threads, requests, history, throws
    <2>2. QED
      BY <2>1 DEF AsyncInv, Mine, Kind
  <1>10. ASSUME NEW i \in Id, WorkerThrows(i)
       PROVE  AsyncInv'
    <2>1. UNCHANGED <<pc, calls, follow, handlers, connected>>
      BY <1>10 DEF WorkerThrows, internals, threads
    <2>2. QED
      BY <2>1 DEF AsyncInv, Mine, Kind
  <1>11. CASE ResponseArrives
    <2>1. UNCHANGED <<pc, calls, follow, handlers, connected>>
      BY <1>11 DEF ResponseArrives, Responses!Deliver, internals, requests, history, throws
    <2>2. QED
      BY <2>1 DEF AsyncInv, Mine, Kind
  <1>12. CASE HandlerLock
    <2>1. UNCHANGED <<pc, calls, follow, handlers, connected>>
      BY <1>12 DEF HandlerLock, requests, responses, history, throws
    <2>2. QED
      BY <2>1 DEF AsyncInv, Mine, Kind
  <1>13. CASE FindHandler
    <2>1. UNCHANGED <<pc, calls, follow, handlers, connected>>
      BY <1>13 DEF FindHandler, internals, throws, requests, responses
    <2>2. QED
      BY <2>1 DEF AsyncInv, Mine, Kind
  <1>14. CASE HandlerReturns
    <2>1. UNCHANGED <<pc, calls, follow, connected>> /\ handlers' = handlers \ {Response}
      BY <1>14 DEF HandlerReturns, requests, responses, history, throws
    <2>2. Response \in Asked
      BY <1>14, AtHand DEF HandlerReturns, ChannelInv, StageInv, Response
    <2>3. ASSUME NEW p \in Procs, pc[p] = "send"
          PROVE  Mine(p) # Response
      BY <2>2, <2>3, FreshNumber
    <2>4. \A p \in Procs : Kind(p)' = Kind(p) /\ Mine(p)' = Mine(p)
      BY <2>1 DEF Mine, Kind
    <2>5. QED
      BY <2>1, <2>3, <2>4 DEF AsyncInv
  <1>15. CASE HandlerThrows
    <2>1. UNCHANGED <<pc, calls, follow, handlers, connected>>
      BY <1>15 DEF HandlerThrows, internals, throws, requests, responses
    <2>2. QED
      BY <2>1 DEF AsyncInv, Mine, Kind
  <1>16. CASE HandlerUnlock
    <2>1. UNCHANGED <<pc, calls, follow, handlers, connected>>
      BY <1>16 DEF HandlerUnlock, requests, responses, history, throws
    <2>2. QED
      BY <2>1 DEF AsyncInv, Mine, Kind
  <1>17. CASE SlotReturns
    <2>1. UNCHANGED <<pc, calls, follow, handlers, connected>>
      BY <1>17 DEF SlotReturns, Responses!Return, internals, requests, history, throws
    <2>2. QED
      BY <2>1 DEF AsyncInv, Mine, Kind
  <1>18. CASE ClientCloses
    <2>1. UNCHANGED <<pc, calls, follow, handlers, connected>>
      BY <1>18 DEF ClientCloses, Responses!Close, internals, threads, requests, history, throws
    <2>2. QED
      BY <2>1 DEF AsyncInv, Mine, Kind
  <1>19. CASE ServerCloses
    <2>1. UNCHANGED <<pc, calls, follow, handlers, connected>>
      BY <1>19 DEF ServerCloses, Requests!Close, internals, threads, responses, history, throws
    <2>2. QED
      BY <2>1 DEF AsyncInv, Mine, Kind
  <1>20. CASE UNCHANGED vars
    BY <1>20 DEF AsyncInv, Mine, Kind, vars
  <1>21. QED
    BY <1>1, <1>2, <1>3, <1>4, <1>5, <1>6, <1>7, <1>8, <1>9, <1>10, <1>11, <1>12, <1>13,
       <1>14, <1>15, <1>16, <1>17, <1>18, <1>19, <1>20
    DEF Next, AsyncStep, WorkerStep, ServerStep, ReceiverStep

LEMMA NumberStep ==
    ASSUME VarTypes, ChannelInv, AsyncInv, NumberInv, [Next]_vars
    PROVE  NumberInv'
  <1>0. \A i \in Asked : i.from \in Procs /\ i.call \in Int /\ calls[i.from] \in Nat
    <2>1. Asked \subseteq Id
      BY AtHand
    <2>2. QED
      BY <2>1 DEF Id, VarTypes
  <1>1. ASSUME NEW p \in Procs, BeginAsync(p)
       PROVE  NumberInv'
    <2>1. /\ UNCHANGED Asked /\ pc[p] = "idle" /\ pc'[p] = "lock" /\ calls'[p] = calls[p] + 1
                /\ calls[p] \in Nat
          /\ \A q \in Procs : q # p => pc'[q] = pc[q] /\ calls'[q] = calls[q]
      BY <1>1 DEF BeginAsync, internals, requests, Asked, VarTypes
    <2>2. QED
      BY <1>0, <2>1 DEF NumberInv
  <1>2. ASSUME NEW p \in Procs, AsyncLock(p)
       PROVE  NumberInv'
    <2>1. /\ UNCHANGED <<Asked, calls>> /\ pc'[p] = "register" /\ \A q \in Procs : q # p =>
                                              pc'[q] = pc[q]
          /\ pc[p] = "lock"
      BY <1>2 DEF AsyncLock, requests, responses, history, throws, Asked, VarTypes
    <2>2. QED
      BY <1>0, <2>1 DEF NumberInv
  <1>3. ASSUME NEW p \in Procs, AsyncRegister(p)
       PROVE  NumberInv'
    <2>1. /\ UNCHANGED <<Asked, calls>> /\ pc'[p] = "send" /\ \A q \in Procs : q # p =>
                                              pc'[q] = pc[q]
          /\ pc[p] = "register"
      BY <1>3 DEF AsyncRegister, requests, responses, history, throws, Asked, VarTypes
    <2>2. QED
      BY <1>0, <2>1 DEF NumberInv
  <1>4. ASSUME NEW p \in Procs, AsyncSend(p)
       PROVE  NumberInv'
    <2>1. /\ UNCHANGED calls /\ pc'[p] = "unlock" /\ \A q \in Procs : q # p => pc'[q] = pc[q]
          /\ pc[p] = "send"
      BY <1>4 DEF AsyncSend, VarTypes
    <2>2. Asked' = Asked \union {Mine(p)} /\ Mine(p).from = p /\ Mine(p).call = calls[p] - 1
          /\ calls[p] \in Nat
      BY <1>4, <2>1, Sending, MineTyped
    <2>3. QED
      BY <1>0, <2>1, <2>2 DEF NumberInv
  <1>5. ASSUME NEW p \in Procs, AsyncThrow(p)
       PROVE  NumberInv'
    <2>1. /\ UNCHANGED <<Asked, calls>> /\ pc'[p] = "unlock" /\ \A q \in Procs : q # p =>
                                              pc'[q] = pc[q]
          /\ pc[p] = "send"
      BY <1>5 DEF AsyncThrow, requests, Asked, VarTypes
    <2>2. QED
      BY <1>0, <2>1 DEF NumberInv
  <1>6. ASSUME NEW p \in Procs, AsyncUnlock(p)
       PROVE  NumberInv'
    <2>1. /\ UNCHANGED <<Asked, calls>> /\ pc'[p] = "idle" /\ \A q \in Procs : q # p =>
                                              pc'[q] = pc[q]
          /\ pc[p] = "unlock"
      BY <1>6 DEF AsyncUnlock, requests, responses, history, throws, Asked, VarTypes
    <2>2. QED
      BY <1>0, <2>1 DEF NumberInv
  <1>7. CASE RequestArrives
    <2>1. UNCHANGED <<pc, calls, req_sent>>
      BY <1>7 DEF RequestArrives, Requests!Deliver, internals, threads, responses, history, throws
    <2>2. QED
      BY <2>1 DEF NumberInv, Asked
  <1>8. CASE StartWorker
    <2>1. UNCHANGED <<pc, calls, req_sent>>
      BY <1>8 DEF StartWorker, Requests!Return, internals, threads, responses, history, throws
    <2>2. QED
      BY <2>1 DEF NumberInv, Asked
  <1>9. ASSUME NEW i \in Id, WorkerAnswers(i)
       PROVE  NumberInv'
    <2>1. UNCHANGED <<pc, calls, req_sent>>
      BY <1>9 DEF WorkerAnswers, Responses!Put, internals, threads, requests, history, throws
    <2>2. QED
      BY <2>1 DEF NumberInv, Asked
  <1>10. ASSUME NEW i \in Id, WorkerThrows(i)
       PROVE  NumberInv'
    <2>1. UNCHANGED <<pc, calls, req_sent>>
      BY <1>10 DEF WorkerThrows, threads, requests
    <2>2. QED
      BY <2>1 DEF NumberInv, Asked
  <1>11. CASE ResponseArrives
    <2>1. UNCHANGED <<pc, calls, req_sent>>
      BY <1>11 DEF ResponseArrives, Responses!Deliver, internals, requests, history, throws
    <2>2. QED
      BY <2>1 DEF NumberInv, Asked
  <1>12. CASE HandlerLock
    <2>1. UNCHANGED <<pc, calls, req_sent>>
      BY <1>12 DEF HandlerLock, requests, responses, history, throws
    <2>2. QED
      BY <2>1 DEF NumberInv, Asked
  <1>13. CASE FindHandler
    <2>1. UNCHANGED <<pc, calls, req_sent>>
      BY <1>13 DEF FindHandler, internals, throws, requests, responses
    <2>2. QED
      BY <2>1 DEF NumberInv, Asked
  <1>14. CASE HandlerReturns
    <2>1. UNCHANGED <<pc, calls, req_sent>>
      BY <1>14 DEF HandlerReturns, requests, responses, history, throws
    <2>2. QED
      BY <2>1 DEF NumberInv, Asked
  <1>15. CASE HandlerThrows
    <2>1. UNCHANGED <<pc, calls, req_sent>>
      BY <1>15 DEF HandlerThrows, internals, throws, requests, responses
    <2>2. QED
      BY <2>1 DEF NumberInv, Asked
  <1>16. CASE HandlerUnlock
    <2>1. UNCHANGED <<pc, calls, req_sent>>
      BY <1>16 DEF HandlerUnlock, requests, responses, history, throws
    <2>2. QED
      BY <2>1 DEF NumberInv, Asked
  <1>17. CASE SlotReturns
    <2>1. UNCHANGED <<pc, calls, req_sent>>
      BY <1>17 DEF SlotReturns, Responses!Return, internals, requests, history, throws
    <2>2. QED
      BY <2>1 DEF NumberInv, Asked
  <1>18. CASE ClientCloses
    <2>1. UNCHANGED <<pc, calls, req_sent>>
      BY <1>18 DEF ClientCloses, Responses!Close, internals, threads, requests, history, throws
    <2>2. QED
      BY <2>1 DEF NumberInv, Asked
  <1>19. CASE ServerCloses
    <2>1. UNCHANGED <<pc, calls, req_sent>>
      BY <1>19 DEF ServerCloses, Requests!Close, internals, threads, responses, history, throws
    <2>2. QED
      BY <2>1 DEF NumberInv, Asked
  <1>20. CASE UNCHANGED vars
    BY <1>20 DEF NumberInv, Asked, vars
  <1>21. QED
    BY <1>1, <1>2, <1>3, <1>4, <1>5, <1>6, <1>7, <1>8, <1>9, <1>10, <1>11, <1>12, <1>13,
       <1>14, <1>15, <1>16, <1>17, <1>18, <1>19, <1>20
    DEF Next, AsyncStep, WorkerStep, ServerStep, ReceiverStep

LEMMA StageStep ==
    ASSUME VarTypes, ChannelInv, StageInv, [Next]_vars
    PROVE  StageInv'
  <1>1. ASSUME NEW p \in Procs, BeginAsync(p)
       PROVE  StageInv'
    <2>1. UNCHANGED <<req_delivered, req_busy, rsp_sent, workers>>
      BY <1>1 DEF BeginAsync, internals, requests, responses, history, throws
    <2>2. QED
      BY <2>1 DEF StageInv, Taken, Served, Request
  <1>2. ASSUME NEW p \in Procs, AsyncLock(p)
       PROVE  StageInv'
    <2>1. UNCHANGED <<req_delivered, req_busy, rsp_sent, workers>>
      BY <1>2 DEF AsyncLock, requests, responses, history, throws
    <2>2. QED
      BY <2>1 DEF StageInv, Taken, Served, Request
  <1>3. ASSUME NEW p \in Procs, AsyncRegister(p)
       PROVE  StageInv'
    <2>1. UNCHANGED <<req_delivered, req_busy, rsp_sent, workers>>
      BY <1>3 DEF AsyncRegister, requests, responses, history, throws
    <2>2. QED
      BY <2>1 DEF StageInv, Taken, Served, Request
  <1>4. ASSUME NEW p \in Procs, AsyncSend(p)
       PROVE  StageInv'
    <2>1. UNCHANGED <<req_delivered, req_busy, rsp_sent, workers>>
      BY <1>4 DEF AsyncSend, Requests!Put, internals, responses, history, throws
    <2>2. QED
      BY <2>1 DEF StageInv, Taken, Served, Request
  <1>5. ASSUME NEW p \in Procs, AsyncThrow(p)
       PROVE  StageInv'
    <2>1. UNCHANGED <<req_delivered, req_busy, rsp_sent, workers>>
      BY <1>5 DEF AsyncThrow, requests, responses
    <2>2. QED
      BY <2>1 DEF StageInv, Taken, Served, Request
  <1>6. ASSUME NEW p \in Procs, AsyncUnlock(p)
       PROVE  StageInv'
    <2>1. UNCHANGED <<req_delivered, req_busy, rsp_sent, workers>>
      BY <1>6 DEF AsyncUnlock, requests, responses, history, throws
    <2>2. QED
      BY <2>1 DEF StageInv, Taken, Served, Request
  <1>7. CASE RequestArrives
    <2>1. UNCHANGED <<workers, Served>>
      BY <1>7 DEF RequestArrives, responses, Served
    <2>2. Request' \notin Taken /\ Taken' = Taken \union {Request'}
      BY <1>7, Taking
    <2>3. QED
      BY <2>1, <2>2 DEF StageInv
  <1>8. CASE StartWorker
    <2>1. UNCHANGED <<Served, Taken>> /\ workers' = workers \union {Request} /\ ~req_busy'
                                            /\ req_busy
      BY <1>8 DEF StartWorker, Requests!Return, responses, Served, Taken
    <2>2. Request \in Taken
      BY <2>1, AtHand
    <2>3. QED
      BY <2>1, <2>2 DEF StageInv
  <1>9. ASSUME NEW i \in Id, WorkerAnswers(i)
       PROVE  StageInv'
    <2>1. PICK r \in ResponseData : r.id = i /\ Served' = Served \union {r}
      BY <1>9, Answering
    <2>2. UNCHANGED <<Taken, req_busy, Request>> /\ workers' = workers \ {i} /\ i \in workers
      BY <1>9 DEF WorkerAnswers, requests, Taken, Request
    <2>3. QED
      BY <2>1, <2>2 DEF StageInv
  <1>10. ASSUME NEW i \in Id, WorkerThrows(i)
       PROVE  StageInv'
    <2>1. UNCHANGED <<req_delivered, req_busy, rsp_sent>> /\ workers' = {}
      BY <1>10 DEF WorkerThrows, requests, responses
    <2>2. QED
      BY <2>1 DEF StageInv, Taken, Served, Request
  <1>11. CASE ResponseArrives
    <2>1. UNCHANGED <<req_delivered, req_busy, workers>> /\ UNCHANGED <<Served, Taken, Request>>
      BY <1>11, Coming DEF ResponseArrives, requests, Taken, Request
    <2>2. QED
      BY <2>1 DEF StageInv
  <1>12. CASE HandlerLock
    <2>1. UNCHANGED <<req_delivered, req_busy, rsp_sent, workers>>
      BY <1>12 DEF HandlerLock, requests, responses, history, throws
    <2>2. QED
      BY <2>1 DEF StageInv, Taken, Served, Request
  <1>13. CASE FindHandler
    <2>1. UNCHANGED <<req_delivered, req_busy, rsp_sent, workers>>
      BY <1>13 DEF FindHandler, internals, throws, requests, responses
    <2>2. QED
      BY <2>1 DEF StageInv, Taken, Served, Request
  <1>14. CASE HandlerReturns
    <2>1. UNCHANGED <<req_delivered, req_busy, rsp_sent, workers>>
      BY <1>14 DEF HandlerReturns, requests, responses, history, throws
    <2>2. QED
      BY <2>1 DEF StageInv, Taken, Served, Request
  <1>15. CASE HandlerThrows
    <2>1. UNCHANGED <<req_delivered, req_busy, rsp_sent, workers>>
      BY <1>15 DEF HandlerThrows, internals, throws, requests, responses
    <2>2. QED
      BY <2>1 DEF StageInv, Taken, Served, Request
  <1>16. CASE HandlerUnlock
    <2>1. UNCHANGED <<req_delivered, req_busy, rsp_sent, workers>>
      BY <1>16 DEF HandlerUnlock, requests, responses, history, throws
    <2>2. QED
      BY <2>1 DEF StageInv, Taken, Served, Request
  <1>17. CASE SlotReturns
    <2>1. UNCHANGED <<req_delivered, req_busy, rsp_sent, workers>>
      BY <1>17 DEF SlotReturns, Responses!Return, internals, requests, history, throws
    <2>2. QED
      BY <2>1 DEF StageInv, Taken, Served, Request
  <1>18. CASE ClientCloses
    <2>1. UNCHANGED <<req_delivered, req_busy, rsp_sent, workers>>
      BY <1>18 DEF ClientCloses, Responses!Close, internals, threads, requests, history, throws
    <2>2. QED
      BY <2>1 DEF StageInv, Taken, Served, Request
  <1>19. CASE ServerCloses
    <2>1. UNCHANGED <<req_delivered, req_busy, rsp_sent, workers>>
      BY <1>19 DEF ServerCloses, Requests!Close, internals, threads, responses, history, throws
    <2>2. QED
      BY <2>1 DEF StageInv, Taken, Served, Request
  <1>20. CASE UNCHANGED vars
    BY <1>20 DEF StageInv, Taken, Served, Request, vars
  <1>21. QED
    BY <1>1, <1>2, <1>3, <1>4, <1>5, <1>6, <1>7, <1>8, <1>9, <1>10, <1>11, <1>12, <1>13,
       <1>14, <1>15, <1>16, <1>17, <1>18, <1>19, <1>20
    DEF Next, AsyncStep, WorkerStep, ServerStep, ReceiverStep

LEMMA AnswersStep ==
    ASSUME VarTypes, ChannelInv, AnswersInv, [Next]_vars
    PROVE  AnswersInv'
  <1>1. ASSUME NEW p \in Procs, BeginAsync(p)
       PROVE  AnswersInv'
    <2>1. UNCHANGED <<answers, rsp_delivered, recv_pc>>
      BY <1>1 DEF BeginAsync, internals, requests, responses, history, throws
    <2>2. QED
      BY <2>1 DEF AnswersInv, Answer, Back
  <1>2. ASSUME NEW p \in Procs, AsyncLock(p)
       PROVE  AnswersInv'
    <2>1. UNCHANGED <<answers, rsp_delivered, recv_pc>>
      BY <1>2 DEF AsyncLock, requests, responses, history, throws
    <2>2. QED
      BY <2>1 DEF AnswersInv, Answer, Back
  <1>3. ASSUME NEW p \in Procs, AsyncRegister(p)
       PROVE  AnswersInv'
    <2>1. UNCHANGED <<answers, rsp_delivered, recv_pc>>
      BY <1>3 DEF AsyncRegister, requests, responses, history, throws
    <2>2. QED
      BY <2>1 DEF AnswersInv, Answer, Back
  <1>4. ASSUME NEW p \in Procs, AsyncSend(p)
       PROVE  AnswersInv'
    <2>1. UNCHANGED <<answers, rsp_delivered, recv_pc>>
      BY <1>4 DEF AsyncSend, Requests!Put, internals, responses, history, throws
    <2>2. QED
      BY <2>1 DEF AnswersInv, Answer, Back
  <1>5. ASSUME NEW p \in Procs, AsyncThrow(p)
       PROVE  AnswersInv'
    <2>1. UNCHANGED <<answers, rsp_delivered, recv_pc>>
      BY <1>5 DEF AsyncThrow, responses, history
    <2>2. QED
      BY <2>1 DEF AnswersInv, Answer, Back
  <1>6. ASSUME NEW p \in Procs, AsyncUnlock(p)
       PROVE  AnswersInv'
    <2>1. UNCHANGED <<answers, rsp_delivered, recv_pc>>
      BY <1>6 DEF AsyncUnlock, requests, responses, history, throws
    <2>2. QED
      BY <2>1 DEF AnswersInv, Answer, Back
  <1>7. CASE RequestArrives
    <2>1. UNCHANGED <<answers, rsp_delivered, recv_pc>>
      BY <1>7 DEF RequestArrives, Requests!Deliver, internals, threads, responses, history, throws
    <2>2. QED
      BY <2>1 DEF AnswersInv, Answer, Back
  <1>8. CASE StartWorker
    <2>1. UNCHANGED <<answers, rsp_delivered, recv_pc>>
      BY <1>8 DEF StartWorker, Requests!Return, internals, threads, responses, history, throws
    <2>2. QED
      BY <2>1 DEF AnswersInv, Answer, Back
  <1>9. ASSUME NEW i \in Id, WorkerAnswers(i)
       PROVE  AnswersInv'
    <2>1. UNCHANGED <<answers, rsp_delivered, recv_pc>>
      BY <1>9 DEF WorkerAnswers, Responses!Put, internals, threads, requests, history, throws
    <2>2. QED
      BY <2>1 DEF AnswersInv, Answer, Back
  <1>10. ASSUME NEW i \in Id, WorkerThrows(i)
       PROVE  AnswersInv'
    <2>1. UNCHANGED <<answers, rsp_delivered, recv_pc>>
      BY <1>10 DEF WorkerThrows, threads, responses, history
    <2>2. QED
      BY <2>1 DEF AnswersInv, Answer, Back
  <1>11. CASE ResponseArrives
    <2>1. Answer' \notin Back /\ Back' = Back \union {Answer'}
      BY <1>11, Coming
    <2>2. UNCHANGED answers
      BY <1>11 DEF ResponseArrives, history, throws
    <2>3. QED
      BY <2>1, <2>2 DEF AnswersInv
  <1>12. CASE HandlerLock
    <2>1. UNCHANGED <<answers, rsp_delivered>> /\ recv_pc = "lock"
      BY <1>12 DEF HandlerLock, requests, responses, history, throws
    <2>2. QED
      BY <2>1 DEF AnswersInv, Answer, Back
  <1>13. CASE FindHandler
    <2>1. UNCHANGED Back /\ Answer \in Back /\ Answer \in ResponseData
          /\ recv_pc' \notin {"lock", "find"}
      BY <1>13, AtHand DEF FindHandler, responses, Back
    <2>2. answers \in Seq(ResponseData)
          /\ (answers' = answers \/ answers' = Append(answers, Answer))
      BY <1>13 DEF FindHandler, VarTypes
    <2>3. ToSet(answers') \subseteq ToSet(answers) \union {Answer}
      <3> HIDE DEF ResponseData, Answer
      <3>1. ToSet(Append(answers, Answer)) = ToSet(answers) \union {Answer}
        BY <2>1, <2>2, Appended
      <3>2. QED
        BY <2>2, <3>1
    <2>4. QED
      BY <2>1, <2>3 DEF AnswersInv
  <1>14. CASE HandlerReturns
    <2>1. UNCHANGED <<answers, rsp_delivered>> /\ recv_pc' \notin {"lock", "find"}
      BY <1>14 DEF HandlerReturns, requests, responses, history, throws
    <2>2. QED
      BY <2>1 DEF AnswersInv, Answer, Back
  <1>15. CASE HandlerThrows
    <2>1. UNCHANGED <<answers, rsp_delivered>> /\ recv_pc' \notin {"lock", "find"}
      BY <1>15 DEF HandlerThrows, internals, throws, requests, responses
    <2>2. QED
      BY <2>1 DEF AnswersInv, Answer, Back
  <1>16. CASE HandlerUnlock
    <2>1. UNCHANGED <<answers, rsp_delivered>> /\ recv_pc' \notin {"lock", "find"}
      BY <1>16 DEF HandlerUnlock, requests, responses, history, throws
    <2>2. QED
      BY <2>1 DEF AnswersInv, Answer, Back
  <1>17. CASE SlotReturns
    <2>1. UNCHANGED <<answers, rsp_delivered>> /\ recv_pc' \notin {"lock", "find"}
      BY <1>17 DEF SlotReturns, Responses!Return, internals, requests, history, throws
    <2>2. QED
      BY <2>1 DEF AnswersInv, Answer, Back
  <1>18. CASE ClientCloses
    <2>1. UNCHANGED <<answers, rsp_delivered, recv_pc>>
      BY <1>18 DEF ClientCloses, Responses!Close, internals, threads, requests, history, throws
    <2>2. QED
      BY <2>1 DEF AnswersInv, Answer, Back
  <1>19. CASE ServerCloses
    <2>1. UNCHANGED <<answers, rsp_delivered, recv_pc>>
      BY <1>19 DEF ServerCloses, Requests!Close, internals, threads, responses, history, throws
    <2>2. QED
      BY <2>1 DEF AnswersInv, Answer, Back
  <1>20. CASE UNCHANGED vars
    BY <1>20 DEF AnswersInv, Answer, Back, vars
  <1>21. QED
    BY <1>1, <1>2, <1>3, <1>4, <1>5, <1>6, <1>7, <1>8, <1>9, <1>10, <1>11, <1>12, <1>13,
       <1>14, <1>15, <1>16, <1>17, <1>18, <1>19, <1>20
    DEF Next, AsyncStep, WorkerStep, ServerStep, ReceiverStep

\* What is on its way, as a predicate.
LEMMA TransitIs ==
    /\ \A i : i \in InTransit <=> OnItsWay(i)
    /\ \A i : i \in InTransit' <=> OnItsWay(i)'
  BY DEF InTransit, OnItsWay, Asked, Taken, Served, Back

LEMMA Kept ==
    ASSUME HandlersAwaitAnswers, UNCHANGED <<pc, calls, follow, connected, failed, unsent, lost, handlers>>,
           \A i : OnItsWay(i)' <=> OnItsWay(i),
           recv_pc = "handler" => recv_pc' = "handler" /\ UNCHANGED Response
    PROVE  HandlersAwaitAnswers'
  BY TransitIs DEF HandlersAwaitAnswers, Mine, Kind

LEMMA HandlersStep ==
    ASSUME VarTypes, ChannelInv, AsyncInv, NumberInv, StageInv, HandlersAwaitAnswers, [Next]_vars
    PROVE  HandlersAwaitAnswers'
  <1>1. ASSUME NEW p \in Procs, BeginAsync(p)
       PROVE  HandlersAwaitAnswers'
    <2>1. UNCHANGED <<Asked, Taken, Served, Back, Response, req_busy, Request, workers>>
          /\ UNCHANGED <<recv_pc, failed, unsent, lost, connected, handlers>>
      BY <1>1
      DEF BeginAsync, internals, requests, responses, history, throws, Asked, Taken, Served, Back,
          Request, Response, Answer
    <2>2. \A i : OnItsWay(i)' <=> OnItsWay(i)
      BY <2>1 DEF OnItsWay
    <2>3. /\ pc[p] = "idle" /\ pc'[p] = "lock" /\ \A q \in Procs : q # p =>
                pc'[q] = pc[q] /\ calls'[q] = calls[q]
      BY <1>1 DEF BeginAsync, VarTypes
    <2>4. ASSUME NEW q \in Procs, q # p
          PROVE  Mine(q)' = Mine(q)
      <3>1. CASE p = Receiver
        BY <2>3, <2>4, <3>1 DEF Mine, Kind
      <3>2. CASE p # Receiver
        <4>1. UNCHANGED follow
          BY <1>1, <3>2 DEF BeginAsync
        <4>2. QED
          BY <2>3, <2>4, <4>1 DEF Mine, Kind
      <3>3. QED
        BY <3>1, <3>2
    <2>5. QED
      BY <2>1, <2>2, <2>3, <2>4, TransitIs DEF HandlersAwaitAnswers
  <1>2. ASSUME NEW p \in Procs, AsyncLock(p)
       PROVE  HandlersAwaitAnswers'
    <2>1. UNCHANGED <<Asked, Taken, Served, Back, Response, req_busy, Request, workers>>
          /\ UNCHANGED <<recv_pc, failed, unsent, lost, calls, follow, connected, handlers>>
      BY <1>2
      DEF AsyncLock, requests, responses, history, throws, Asked, Taken, Served, Back, Request, Response,
          Answer
    <2>2. \A i : OnItsWay(i)' <=> OnItsWay(i)
      BY <2>1 DEF OnItsWay
    <2>3. pc[p] # "send" /\ pc'[p] # "send" /\ \A q \in Procs : q # p => pc'[q] = pc[q]
      BY <1>2 DEF AsyncLock, VarTypes
    <2>4. \A q \in Procs : Mine(q)' = Mine(q)
      BY <2>1 DEF Mine, Kind
    <2>5. QED
      BY <2>1, <2>2, <2>3, <2>4, TransitIs DEF HandlersAwaitAnswers
  <1>3. ASSUME NEW p \in Procs, AsyncRegister(p)
       PROVE  HandlersAwaitAnswers'
    <2>1. UNCHANGED <<Asked, Taken, Served, Back, Response, req_busy, Request, workers>>
          /\ UNCHANGED <<recv_pc, failed, unsent, lost, calls, follow>>
      BY <1>3
      DEF AsyncRegister, requests, responses, history, throws, Asked, Taken, Served, Back, Request,
          Response, Answer
    <2>2. \A i : OnItsWay(i)' <=> OnItsWay(i)
      BY <2>1 DEF OnItsWay
    <2>3. /\ pc[p] # "send" /\ pc'[p] = "send" /\ \A q \in Procs : q # p => pc'[q] = pc[q]
          /\ handlers' = handlers \union {Mine(p)} /\ connected \subseteq connected'
      BY <1>3 DEF AsyncRegister, VarTypes
    <2>4. \A q \in Procs : Mine(q)' = Mine(q)
      BY <2>1 DEF Mine, Kind
    <2>5. QED
      BY <2>1, <2>2, <2>3, <2>4, TransitIs DEF HandlersAwaitAnswers
  <1>4. ASSUME NEW p \in Procs, AsyncSend(p)
       PROVE  HandlersAwaitAnswers'
    <2>1. UNCHANGED <<Taken, Served, Back, Response, req_busy, Request, workers>>
          /\ UNCHANGED <<recv_pc, failed, unsent, lost, calls, follow, connected, handlers>>
      BY <1>4
      DEF AsyncSend, Requests!Put, internals, responses, history, throws, Taken, Served, Back, Response,
          Answer, Request
    <2>2. Asked' = Asked \union {Mine(p)}
      BY <1>4, Sending
    <2>3. pc[p] = "send" /\ pc'[p] # "send" /\ \A q \in Procs : q # p => pc'[q] = pc[q]
      BY <1>4 DEF AsyncSend, VarTypes
    <2>4. Mine(p) \notin Taken /\ Mine(p) \in handlers /\ Mine(p).kind \in connected
      BY <2>3, FreshNumber, MineTyped DEF ChannelInv, AsyncInv
    <2>5. \A i : OnItsWay(i)' <=> OnItsWay(i) \/ i = Mine(p)
      BY <2>1, <2>2, <2>4 DEF OnItsWay
    <2>6. \A q \in Procs : Mine(q)' = Mine(q)
      BY <2>1 DEF Mine, Kind
    <2>7. QED
      BY <2>1, <2>3, <2>4, <2>5, <2>6, TransitIs DEF HandlersAwaitAnswers
  <1>5. ASSUME NEW p \in Procs, AsyncThrow(p)
       PROVE  HandlersAwaitAnswers'
    <2>1. UNCHANGED <<Asked, Taken, Served, Back, Response, req_busy, Request, workers>>
          /\ UNCHANGED <<recv_pc, failed, lost, calls, follow, connected, handlers>>
          /\ unsent = {} /\ unsent' = {Mine(p)}
      BY <1>5
      DEF AsyncThrow, internals, requests, responses, history, Asked, Taken, Served, Back,
          Request, Response, Answer
    <2>2. \A i : OnItsWay(i)' <=> OnItsWay(i)
      BY <2>1 DEF OnItsWay
    <2>3. pc[p] = "send" /\ pc'[p] # "send" /\ \A q \in Procs : q # p => pc'[q] = pc[q]
      BY <1>5 DEF AsyncThrow, VarTypes
    <2>4. \A q \in Procs : Mine(q)' = Mine(q)
      BY <2>1 DEF Mine, Kind
    <2>5. QED
      BY <2>1, <2>2, <2>3, <2>4, TransitIs DEF HandlersAwaitAnswers
  <1>6. ASSUME NEW p \in Procs, AsyncUnlock(p)
       PROVE  HandlersAwaitAnswers'
    <2>1. UNCHANGED <<Asked, Taken, Served, Back, Response, req_busy, Request, workers>>
          /\ UNCHANGED <<recv_pc, failed, unsent, lost, calls, follow, connected, handlers>>
      BY <1>6
      DEF AsyncUnlock, requests, responses, history, throws, Asked, Taken, Served, Back, Request,
          Response, Answer
    <2>2. \A i : OnItsWay(i)' <=> OnItsWay(i)
      BY <2>1 DEF OnItsWay
    <2>3. pc[p] # "send" /\ pc'[p] # "send" /\ \A q \in Procs : q # p => pc'[q] = pc[q]
      BY <1>6 DEF AsyncUnlock, VarTypes
    <2>4. \A q \in Procs : Mine(q)' = Mine(q)
      BY <2>1 DEF Mine, Kind
    <2>5. QED
      BY <2>1, <2>2, <2>3, <2>4, TransitIs DEF HandlersAwaitAnswers
  <1>7. CASE RequestArrives
    <2>1. UNCHANGED <<pc, calls, follow, connected, failed, unsent, lost, handlers>>
      BY <1>7 DEF RequestArrives, Requests!Deliver, internals, threads, responses, history, throws
    <2>2. /\ UNCHANGED <<workers, Served, Back, recv_pc, Response>> /\ UNCHANGED Asked
          /\ ~req_busy /\ req_busy' /\ Request' \in Asked /\ Request' \notin Taken
                /\ Taken' = Taken \union {Request'}
      BY <1>7, Taking
      DEF RequestArrives, Requests!Deliver, internals, threads, responses, history, throws, Asked, Taken,
          Served, Back, Request, Response, Answer
    <2>3. \A i : OnItsWay(i)' <=> OnItsWay(i)
      BY <2>2 DEF OnItsWay
    <2>4. recv_pc = "handler" => recv_pc' = "handler" /\ UNCHANGED Response
      BY <2>2
    <2>5. QED
      BY <2>1, <2>3, <2>4, Kept
  <1>8. CASE StartWorker
    <2>1. UNCHANGED <<pc, calls, follow, connected, failed, unsent, lost, handlers>>
      BY <1>8 DEF StartWorker, Requests!Return, internals, threads, responses, history, throws
    <2>2. /\ UNCHANGED <<Asked, Taken, Served, Back, recv_pc, Response>>
          /\ req_busy /\ ~req_busy' /\ workers' = workers \union {Request}
      BY <1>8
      DEF StartWorker, Requests!Return, internals, threads, responses, history, throws, Asked, Taken,
          Served, Back, Request, Response, Answer
    <2>3. \A i : OnItsWay(i)' <=> OnItsWay(i)
      BY <2>2 DEF OnItsWay
    <2>4. recv_pc = "handler" => recv_pc' = "handler" /\ UNCHANGED Response
      BY <2>2
    <2>5. QED
      BY <2>1, <2>3, <2>4, Kept
  <1>9. ASSUME NEW i \in Id, WorkerAnswers(i)
       PROVE  HandlersAwaitAnswers'
    <2>1. UNCHANGED <<pc, calls, follow, connected, failed, unsent, lost, handlers>>
      BY <1>9 DEF WorkerAnswers, Responses!Put, internals, threads, requests, history, throws
    <2>2. UNCHANGED <<Asked, Taken, Back, req_busy, Request, recv_pc, Response>>
          /\ workers' = workers \ {i} /\ i \in workers
      BY <1>9
      DEF WorkerAnswers, Responses!Put, requests, threads, Asked, Taken, Back, Request, Response,
          Answer
    <2>3. PICK r \in ResponseData : r.id = i /\ Served' = Served \union {r}
      BY <1>9, Answering
    <2>4. r \notin Back
      BY <2>2, <2>3 DEF StageInv, ChannelInv
    <2>5. \A j : OnItsWay(j)' <=> OnItsWay(j)
      BY <2>2, <2>3, <2>4 DEF OnItsWay
    <2>6. QED
      BY <2>1, <2>2, <2>5, Kept
  <1>10. ASSUME NEW i \in Id, WorkerThrows(i)
       PROVE  HandlersAwaitAnswers'
    <2>1. UNCHANGED <<pc, calls, follow, connected, failed, unsent, handlers>>
      BY <1>10 DEF WorkerThrows, internals, threads, history
    <2>2. UNCHANGED <<Asked, Taken, Served, Back, req_busy, Request, recv_pc, Response>>
          /\ workers' = {} /\ workers \subseteq lost'
      BY <1>10
      DEF WorkerThrows, requests, responses, threads, Asked, Taken, Served, Back, Request,
          Response, Answer
    <2>3. lost = {}
      BY <1>10 DEF WorkerThrows
    <2>4. \A j : OnItsWay(j)' => OnItsWay(j)
      BY <2>2 DEF OnItsWay
    <2>5. \A j : OnItsWay(j) => OnItsWay(j)' \/ j \in lost'
      BY <2>2 DEF OnItsWay
    <2>6. QED
      BY <2>1, <2>2, <2>3, <2>4, <2>5, TransitIs DEF HandlersAwaitAnswers, Mine, Kind
  <1>11. CASE ResponseArrives
    <2>1. UNCHANGED <<pc, calls, follow, connected, failed, unsent, lost, handlers>>
      BY <1>11 DEF ResponseArrives, Responses!Deliver, internals, requests, history, throws
    <2>2. UNCHANGED <<Asked, Taken, req_busy, Request, workers>>
      BY <1>11 DEF ResponseArrives, requests, Asked, Taken, Request
    <2>3. /\ UNCHANGED Served /\ recv_pc = "wait"
          /\ Answer' \in Served /\ Answer' \notin Back /\ Back' = Back \union {Answer'}
          /\ recv_pc' = IF Answer'.id.kind \in connected THEN "lock" ELSE "return"
      BY <1>11, Coming
    <2>4. OnItsWay(Answer'.id)
      BY <2>3 DEF OnItsWay
    <2>5. recv_pc' = "lock"
      BY <2>3, <2>4, TransitIs DEF HandlersAwaitAnswers
    <2>6. Response' = Answer'.id
      BY DEF Response
    <2>7. \A i : OnItsWay(i)' <=> OnItsWay(i)
      BY <2>2, <2>3, <2>5, <2>6 DEF OnItsWay
    <2>8. QED
      BY <2>1, <2>3, <2>7, Kept
  <1>12. CASE HandlerLock
    <2>1. UNCHANGED <<pc, calls, follow, connected, failed, unsent, lost, handlers>>
      BY <1>12 DEF HandlerLock, requests, responses, history, throws
    <2>2. /\ UNCHANGED <<Asked, Taken, Served, Back, Response, req_busy, Request, workers>>
          /\ recv_pc = "lock" /\ recv_pc' = "find"
      BY <1>12
      DEF HandlerLock, requests, responses, history, throws, Asked, Taken, Served, Back, Request,
          Response, Answer
    <2>3. \A i : OnItsWay(i)' <=> OnItsWay(i)
      BY <2>2 DEF OnItsWay
    <2>4. recv_pc = "handler" => recv_pc' = "handler" /\ UNCHANGED Response
      BY <2>2
    <2>5. QED
      BY <2>1, <2>3, <2>4, Kept
  <1>13. CASE FindHandler
    <2>1. UNCHANGED <<pc, calls, follow, connected, failed, unsent, lost, handlers>>
      BY <1>13 DEF FindHandler, internals, throws, requests, responses
    <2>2. UNCHANGED <<Asked, Taken, Served, Back, Response, req_busy, Request, workers>>
          /\ recv_pc = "find"
      BY <1>13
      DEF FindHandler, internals, throws, requests, responses, Asked, Taken, Served, Back, Request,
          Response, Answer
    <2>3. OnItsWay(Response)
      BY <2>2 DEF OnItsWay
    <2>4. Response \in handlers
      BY <2>3, TransitIs DEF HandlersAwaitAnswers
    <2>5. recv_pc' = "handler"
      BY <1>13, <2>4 DEF FindHandler
    <2>6. \A i : OnItsWay(i)' => OnItsWay(i)
      BY <2>2, <2>5 DEF OnItsWay
    <2>7. \A i : OnItsWay(i) => OnItsWay(i)' \/ i = Response'
      BY <2>2, <2>5 DEF OnItsWay
    <2>8. QED
      BY <2>1, <2>2, <2>5, <2>6, <2>7, TransitIs DEF HandlersAwaitAnswers, Mine, Kind
  <1>14. CASE HandlerReturns
    <2>1. UNCHANGED <<Asked, Taken, Served, Back, Response, req_busy, Request, workers>>
          /\ UNCHANGED <<pc, calls, follow, connected>> /\ recv_pc = "handler"
          /\ recv_pc' = "unlock"
          /\ UNCHANGED <<failed, unsent, lost>> /\ handlers' = handlers \ {Response}
      BY <1>14
      DEF HandlerReturns, requests, responses, history, throws, Asked, Taken, Served, Back, Request,
          Response, Answer
    <2>2. \A i : OnItsWay(i)' <=> OnItsWay(i)
      BY <2>1 DEF OnItsWay
    <2>3. ~OnItsWay(Response)
      <3>1. Answer \in Back /\ Answer \in Served /\ Answer.id = Response
        BY <2>1, AtHand DEF ChannelInv, Response
      <3>2. QED
        BY <2>1, <3>1 DEF OnItsWay, StageInv
    <2>4. QED
      BY <2>1, <2>2, <2>3, TransitIs DEF HandlersAwaitAnswers, Mine, Kind
  <1>15. CASE HandlerThrows
    <2>1. UNCHANGED <<Asked, Taken, Served, Back, Response, req_busy, Request, workers>>
          /\ UNCHANGED <<pc, calls, follow, connected>> /\ recv_pc = "handler"
          /\ recv_pc' = "unlock"
          /\ UNCHANGED <<handlers, unsent, lost>> /\ failed' = failed \union {Response}
      BY <1>15
      DEF HandlerThrows, internals, throws, requests, responses, Asked, Taken, Served, Back, Request,
          Response, Answer
    <2>2. \A i : OnItsWay(i)' <=> OnItsWay(i)
      BY <2>1 DEF OnItsWay
    <2>3. ~OnItsWay(Response)
      <3>1. Answer \in Back /\ Answer \in Served /\ Answer.id = Response
        BY <2>1, AtHand DEF ChannelInv, Response
      <3>2. QED
        BY <2>1, <3>1 DEF OnItsWay, StageInv
    <2>4. QED
      BY <2>1, <2>2, <2>3, TransitIs DEF HandlersAwaitAnswers, Mine, Kind
  <1>16. CASE HandlerUnlock
    <2>1. UNCHANGED <<pc, calls, follow, connected, failed, unsent, lost, handlers>>
      BY <1>16 DEF HandlerUnlock, requests, responses, history, throws
    <2>2. /\ UNCHANGED <<Asked, Taken, Served, Back, Response, req_busy, Request, workers>>
          /\ recv_pc = "unlock" /\ recv_pc' = "return"
      BY <1>16
      DEF HandlerUnlock, requests, responses, history, throws, Asked, Taken, Served, Back, Request,
          Response, Answer
    <2>3. \A i : OnItsWay(i)' <=> OnItsWay(i)
      BY <2>2 DEF OnItsWay
    <2>4. recv_pc = "handler" => recv_pc' = "handler" /\ UNCHANGED Response
      BY <2>2
    <2>5. QED
      BY <2>1, <2>3, <2>4, Kept
  <1>17. CASE SlotReturns
    <2>1. UNCHANGED <<pc, calls, follow, connected, failed, unsent, lost, handlers>>
      BY <1>17 DEF SlotReturns, Responses!Return, internals, requests, history, throws
    <2>2. /\ UNCHANGED <<Asked, Taken, Served, Back, Response, req_busy, Request, workers>>
          /\ recv_pc = "return" /\ recv_pc' = "wait"
      BY <1>17
      DEF SlotReturns, Responses!Return, internals, requests, history, throws, Asked, Taken, Served, Back,
          Request, Response, Answer
    <2>3. \A i : OnItsWay(i)' <=> OnItsWay(i)
      BY <2>2 DEF OnItsWay
    <2>4. recv_pc = "handler" => recv_pc' = "handler" /\ UNCHANGED Response
      BY <2>2
    <2>5. QED
      BY <2>1, <2>3, <2>4, Kept
  <1>18. CASE ClientCloses
    <2>1. UNCHANGED <<pc, calls, follow, connected, failed, unsent, lost, handlers>>
      BY <1>18 DEF ClientCloses, Responses!Close, internals, threads, requests, history, throws
    <2>2. UNCHANGED <<Asked, Taken, Served, Back, Response, req_busy, Request, workers, recv_pc>>
      BY <1>18
      DEF ClientCloses, Responses!Close, internals, threads, requests, history, throws, Asked, Taken,
          Served, Back, Request, Response, Answer
    <2>3. \A i : OnItsWay(i)' <=> OnItsWay(i)
      BY <2>2 DEF OnItsWay
    <2>4. recv_pc = "handler" => recv_pc' = "handler" /\ UNCHANGED Response
      BY <2>2
    <2>5. QED
      BY <2>1, <2>3, <2>4, Kept
  <1>19. CASE ServerCloses
    <2>1. UNCHANGED <<pc, calls, follow, connected, failed, unsent, lost, handlers>>
      BY <1>19 DEF ServerCloses, Requests!Close, internals, threads, responses, history, throws
    <2>2. UNCHANGED <<Asked, Taken, Served, Back, Response, req_busy, Request, workers, recv_pc>>
      BY <1>19
      DEF ServerCloses, Requests!Close, internals, threads, responses, history, throws, Asked, Taken,
          Served, Back, Request, Response, Answer
    <2>3. \A i : OnItsWay(i)' <=> OnItsWay(i)
      BY <2>2 DEF OnItsWay
    <2>4. recv_pc = "handler" => recv_pc' = "handler" /\ UNCHANGED Response
      BY <2>2
    <2>5. QED
      BY <2>1, <2>3, <2>4, Kept
  <1>20. CASE UNCHANGED vars
    BY <1>20 DEF HandlersAwaitAnswers, InTransit, Mine, Kind, Request, Response, Answer, vars
  <1>21. QED
    BY <1>1, <1>2, <1>3, <1>4, <1>5, <1>6, <1>7, <1>8, <1>9, <1>10, <1>11, <1>12, <1>13,
       <1>14, <1>15, <1>16, <1>17, <1>18, <1>19, <1>20
    DEF Next, AsyncStep, WorkerStep, ServerStep, ReceiverStep

\* The mutexes of the kinds.
LEMMA HeldStep ==
    ASSUME VarTypes, ChannelInv, AsyncInv, HeldInside, [Next]_vars
    PROVE  HeldInside'
  <1> USE DEF HeldInside
  <1>1. ASSUME UNCHANGED <<mutex, pc, recv_pc, follow, Response>>
        PROVE  HeldInside'
    BY <1>1 DEF Inside, Kind
  <1>2. ASSUME NEW p \in Procs, BeginAsync(p)
        PROVE  HeldInside'
    <2>1. /\ UNCHANGED <<mutex, recv_pc, Response>> /\ pc[p] = "idle"
          /\ \A q \in Procs : q # p => pc'[q] = pc[q]
          /\ p # Receiver => UNCHANGED follow
      BY <1>2 DEF BeginAsync, internals, responses, Response, Answer, VarTypes
    <2>2. \A q \in Procs, k \in Kinds : Inside(q, k) => Inside(q, k)'
      BY <2>1 DEF Inside, Kind
    <2>3. QED
      BY <2>1, <2>2 DEF VarTypes
  <1>3. ASSUME NEW p \in Procs, AsyncLock(p)
        PROVE  HeldInside'
    <2>1. /\ UNCHANGED <<recv_pc, follow, Response>> /\ pc[p] = "lock" /\ pc'[p] = "register"
          /\ \A q \in Procs : q # p => pc'[q] = pc[q]
          /\ mutex' = [mutex EXCEPT ![Kind(p)] = p]
      BY <1>3 DEF AsyncLock, responses, Response, Answer, VarTypes
    <2>2. \A q \in Procs, k \in Kinds : Inside(q, k) => Inside(q, k)'
      BY <2>1 DEF Inside, Kind
    <2>3. Inside(p, Kind(p))'
      BY <2>1 DEF Inside, Kind
    <2>4. \A k \in Kinds : mutex'[k] = IF k = Kind(p) THEN p ELSE mutex[k]
      BY <2>1 DEF VarTypes
    <2>5. Kind(p)' = Kind(p)
      BY <2>1 DEF Kind
    <2>6. QED
      BY <2>2, <2>3, <2>4, <2>5 DEF VarTypes
  <1>4. ASSUME NEW p \in Procs, AsyncRegister(p) \/ AsyncSend(p) \/ AsyncThrow(p)
        PROVE  HeldInside'
    <2>1. /\ UNCHANGED <<mutex, recv_pc, follow, Response>>
          /\ pc[p] \in {"register", "send"} /\ pc'[p] \in {"send", "unlock"}
          /\ \A q \in Procs : q # p => pc'[q] = pc[q]
      BY <1>4
      DEF AsyncRegister, AsyncSend, AsyncThrow, internals, responses, Response, Answer, VarTypes
    <2>2. \A q \in Procs, k \in Kinds : Inside(q, k) => Inside(q, k)'
      BY <2>1 DEF Inside, Kind
    <2>3. QED
      BY <2>1, <2>2 DEF VarTypes
  <1>5. ASSUME NEW p \in Procs, AsyncUnlock(p)
        PROVE  HeldInside'
    <2>1. /\ UNCHANGED <<recv_pc, follow, Response>> /\ pc[p] = "unlock" /\ pc'[p] = "idle"
          /\ \A q \in Procs : q # p => pc'[q] = pc[q]
          /\ mutex' = [mutex EXCEPT ![Kind(p)] = Nobody]
      BY <1>5 DEF AsyncUnlock, responses, Response, Answer, VarTypes
    <2>2. \A q \in Procs, k \in Kinds : k # Kind(p) /\ Inside(q, k) => Inside(q, k)'
      BY <2>1 DEF Inside, Kind
    <2>3. \A k \in Kinds : mutex'[k] = IF k = Kind(p) THEN Nobody ELSE mutex[k]
      BY <2>1 DEF VarTypes
    <2>4. QED
      BY <2>2, <2>3 DEF VarTypes
  <1>6. CASE ServerStep \/ ClientCloses \/ ServerCloses \/ \E i \in Id : WorkerStep(i)
    <2>1. UNCHANGED <<mutex, pc, recv_pc, follow, rsp_delivered>>
      BY <1>6
      DEF ServerStep, RequestArrives, StartWorker, ClientCloses, ServerCloses, WorkerStep,
          WorkerAnswers, WorkerThrows, Responses!Put, Responses!Close, internals, threads, responses
    <2>2. QED
      BY <1>1, <2>1 DEF Response, Answer
  <1>7. CASE ResponseArrives
    <2>1. UNCHANGED <<mutex, pc, follow>> /\ recv_pc = "wait"
      BY <1>7 DEF ResponseArrives, internals
    <2>2. \A q \in Procs, k \in Kinds : Inside(q, k) => Inside(q, k)'
      BY <2>1 DEF Inside, Kind
    <2>3. QED
      BY <2>1, <2>2 DEF VarTypes
  <1>8. CASE HandlerLock
    <2>1. /\ UNCHANGED <<pc, follow, Response>> /\ recv_pc = "lock" /\ recv_pc' = "find"
          /\ mutex' = [mutex EXCEPT ![Response.kind] = Receiver]
      BY <1>8 DEF HandlerLock, responses, Response, Answer
    <2>2. \A q \in Procs, k \in Kinds : Inside(q, k) => Inside(q, k)'
      BY <2>1 DEF Inside, Kind
    <2>3. Inside(Receiver, Response.kind)' /\ Response'.kind = Response.kind
      BY <2>1 DEF Inside
    <2>4. \A k \in Kinds : mutex'[k] = IF k = Response.kind THEN Receiver ELSE mutex[k]
      BY <2>1 DEF VarTypes
    <2>5. QED
      BY <2>2, <2>3, <2>4 DEF VarTypes
  <1>9. CASE FindHandler \/ HandlerReturns \/ HandlerThrows
    <2>1. /\ UNCHANGED <<mutex, pc, follow, Response>>
          /\ recv_pc \in {"find", "handler"} /\ recv_pc' \in {"handler", "unlock"}
      BY <1>9
      DEF FindHandler, HandlerReturns, HandlerThrows, internals, responses, Response, Answer
    <2>2. \A q \in Procs, k \in Kinds : Inside(q, k) => Inside(q, k)'
      BY <2>1 DEF Inside, Kind
    <2>3. QED
      BY <2>1, <2>2 DEF VarTypes
  <1>10. CASE HandlerUnlock
    <2>1. /\ UNCHANGED <<pc, follow, Response>> /\ recv_pc = "unlock" /\ recv_pc' = "return"
          /\ mutex' = [mutex EXCEPT ![Response.kind] = Nobody]
      BY <1>10 DEF HandlerUnlock, responses, Response, Answer
    <2>2. \A q \in Procs, k \in Kinds : k # Response.kind /\ Inside(q, k) => Inside(q, k)'
      BY <2>1 DEF Inside, Kind
    <2>3. \A k \in Kinds : mutex'[k] = IF k = Response.kind THEN Nobody ELSE mutex[k]
      BY <2>1 DEF VarTypes
    <2>4. QED
      BY <2>2, <2>3 DEF VarTypes
  <1>11. CASE SlotReturns
    <2>1. UNCHANGED <<mutex, pc, follow>> /\ recv_pc = "return"
      BY <1>11 DEF SlotReturns, internals
    <2>2. \A q \in Procs, k \in Kinds : Inside(q, k) => Inside(q, k)'
      BY <2>1 DEF Inside, Kind
    <2>3. QED
      BY <2>1, <2>2 DEF VarTypes
  <1>12. CASE UNCHANGED vars
    BY <1>1, <1>12 DEF vars, Response, Answer
  <1>13. QED
    BY <1>2, <1>3, <1>4, <1>5, <1>6, <1>7, <1>8, <1>9, <1>10, <1>11, <1>12
    DEF Next, AsyncStep, ReceiverStep

LEMMA Initially == Init => IInv
  <1> SUFFICES ASSUME Init
               PROVE  IInv
    OBVIOUS
  <1>1. /\ req_sent = <<>> /\ req_delivered = <<>> /\ rsp_sent = <<>> /\ rsp_delivered = <<>> /\ answers = <<>>
        /\ req_busy = FALSE /\ req_closed = FALSE /\ rsp_busy = FALSE /\ rsp_closed = FALSE
        /\ recv_pc = "wait" /\ workers = {} /\ handlers = {} /\ failed = {} /\ connected = {}
        /\ unsent = {} /\ lost = {}
        /\ pc = [p \in Procs |-> "idle"] /\ calls = [p \in Procs |-> 0] /\ follow = Nobody
        /\ mutex = [k \in Kinds |-> Nobody]
    BY DEF Init, Requests!ChanInit, Responses!ChanInit
  <1>2. Asked = {} /\ Taken = {} /\ Served = {} /\ Back = {} /\ ToSet(answers) = {}
    BY <1>1 DEF Asked, Taken, Served, Back, ToSet
  <1>3. VarTypes
    <2>1. req_busy \in BOOLEAN /\ req_closed \in BOOLEAN /\ rsp_busy \in BOOLEAN
          /\ rsp_closed \in BOOLEAN
      BY <1>1, Zenon
    <2>2. calls \in [Procs -> 0 .. MaxCalls]
      BY <1>1, UserActionsAssumption
    <2>3. QED
      BY <1>1, <2>1, <2>2 DEF VarTypes
  <1>4. ChannelInv
    <2>1. \A m : <<>> # Append(<<>>, m)
      BY EmptySeq, AppendProperties
    <2>2. QED
      BY <1>1, <1>2, <2>1 DEF ChannelInv
  <1>5. AsyncInv
    BY <1>1 DEF AsyncInv
  <1>6. NumberInv /\ StageInv /\ AnswersInv
    BY <1>1, <1>2 DEF NumberInv, StageInv, AnswersInv
  <1>7. HandlersAwaitAnswers
    <2>1. \A i : ~OnItsWay(i)
      BY <1>1, <1>2 DEF OnItsWay
    <2>2. QED
      BY <1>1, <2>1, TransitIs DEF HandlersAwaitAnswers
  <1>8. HeldInside
    BY <1>1 DEF HeldInside
  <1>9. QED
    BY <1>3, <1>4, <1>5, <1>6, <1>7, <1>8 DEF IInv

LEMMA Inductive == IInv /\ [Next]_vars => IInv'
  BY TypeStep, HeldStep, ChannelStep, AsyncPrepared, NumberStep, StageStep, AnswersStep, HandlersStep
  DEF IInv

LEMMA Invariant == Spec => []IInv
  BY Initially, Inductive, PTL DEF Spec

-----------------------------------------------------------------------------
(* The theorems.                                                            *)

(* Every variable keeps its type, and a mutex that is held is held by a thread
   inside async or M_responseHandler, whatever threads ask for, handlers start,
   and sends and handlers throw.                                            *)
THEOREM TypeCorrect == Spec => []TypeOK
  <1>1. IInv => TypeOK
    BY DEF IInv, TypeOK
  <1>2. QED
    BY Invariant, <1>1, PTL

(* M_responseHandler finds the handler of every response: async has put it in
   the map before the request is sent, and only this response removes it.  What
   is left in the map with nothing on its way has thrown, or could not be sent,
   or died with a server that could not send a response.                    *)
THEOREM EveryAnswerAwaited == Spec => []HandlersAwaitAnswers
  <1>1. IInv => HandlersAwaitAnswers
    BY DEF IInv
  <1>2. QED
    BY Invariant, <1>1, PTL

(* The user actions over two endpoints implement the abstract calls of module Rpc:
   send is the step that asks, the response of the detached thread the one that
   serves, and the call of the handler the one that answers.                *)
THEOREM ImplementsRpc == Spec => CallsImplementRpc
  <1>1. Init => Calls!RpcInit
    BY DEF Init, Requests!ChanInit, Responses!ChanInit, Calls!RpcInit, ToSet
  <1>2. IInv /\ [Next]_vars => [Calls!RpcNext]_(Calls!rpcVars)
    <2> SUFFICES ASSUME IInv, [Next]_vars
                 PROVE  Calls!RpcNext \/ UNCHANGED Calls!rpcVars
      OBVIOUS
    <2> USE DEF IInv
    <2>1. ASSUME NEW p \in Procs, BeginAsync(p)
          PROVE  Calls!RpcNext \/ UNCHANGED Calls!rpcVars
      BY <2>1 DEF Calls!rpcVars, BeginAsync, internals, requests, responses, history, throws
    <2>2. ASSUME NEW p \in Procs, AsyncLock(p)
          PROVE  Calls!RpcNext \/ UNCHANGED Calls!rpcVars
      BY <2>2 DEF Calls!rpcVars, AsyncLock, requests, responses, history, throws
    <2>3. ASSUME NEW p \in Procs, AsyncRegister(p)
          PROVE  Calls!RpcNext \/ UNCHANGED Calls!rpcVars
      BY <2>3 DEF Calls!rpcVars, AsyncRegister, requests, responses, history, throws
    <2>4. ASSUME NEW p \in Procs, AsyncSend(p)
          PROVE  Calls!RpcNext \/ UNCHANGED Calls!rpcVars
      <3>1. Mine(p) \in Id /\ Asked' = Asked \union {Mine(p)} /\ Mine(p) \notin Asked
        BY <2>4, Sending, FreshNumber DEF AsyncSend
      <3>2. UNCHANGED <<rsp_sent, answers>>
        BY <2>4 DEF AsyncSend, responses, history, throws
      <3>3. Calls!Ask(Mine(p))
        BY <3>1, <3>2 DEF Calls!Ask, Asked
      <3>4. QED
        BY <3>1, <3>3 DEF Calls!RpcNext
    <2>5. ASSUME NEW p \in Procs, AsyncThrow(p)
          PROVE  Calls!RpcNext \/ UNCHANGED Calls!rpcVars
      BY <2>5 DEF Calls!rpcVars, AsyncThrow, requests, responses, history
    <2>6. ASSUME NEW p \in Procs, AsyncUnlock(p)
          PROVE  Calls!RpcNext \/ UNCHANGED Calls!rpcVars
      BY <2>6 DEF Calls!rpcVars, AsyncUnlock, requests, responses, history, throws
    <2>7. CASE RequestArrives
      BY <2>7
      DEF Calls!rpcVars, RequestArrives, Requests!Deliver, internals, threads, responses, history, throws
    <2>8. CASE StartWorker
      BY <2>8
      DEF Calls!rpcVars, StartWorker, Requests!Return, internals, threads, responses, history, throws
    <2>9. ASSUME NEW i \in Id, WorkerAnswers(i)
          PROVE  Calls!RpcNext \/ UNCHANGED Calls!rpcVars
      <3>1. PICK error \in BOOLEAN : rsp_sent' = Append(rsp_sent, [id |-> i, error |-> error])
        BY <2>9 DEF WorkerAnswers, Responses!Put
      <3> DEFINE r == [id |-> i, error |-> error]
      <3>2. r \in ResponseData /\ rsp_sent \in Seq(ResponseData)
        BY DEF ResponseData, VarTypes
      <3>3. Served' = Served \union {r}
        <4> HIDE DEF ResponseData, r
        <4>1. ToSet(Append(rsp_sent, r)) = ToSet(rsp_sent) \union {r}
          BY <3>2, Appended
        <4>2. QED
          BY <3>1, <4>1 DEF Served, r
      <3>4. i \in Asked /\ \A q \in Served : q.id # i
        BY <2>9 DEF WorkerAnswers, StageInv, ChannelInv
      <3>5. UNCHANGED <<req_sent, answers>>
        BY <2>9 DEF WorkerAnswers, requests, history, throws
      <3>6. Calls!Serve(i, error)
        BY <3>3, <3>4, <3>5 DEF Calls!Serve, Asked, Served
      <3>7. QED
        BY <3>6 DEF Calls!RpcNext
    <2>10. ASSUME NEW i \in Id, WorkerThrows(i)
          PROVE  Calls!RpcNext \/ UNCHANGED Calls!rpcVars
      BY <2>10 DEF Calls!rpcVars, WorkerThrows, requests, responses, history
    <2>11. CASE ResponseArrives
      BY <2>11 DEF Calls!rpcVars, ResponseArrives, Responses!Deliver, internals, requests, history, throws
    <2>12. CASE HandlerLock
      BY <2>12 DEF Calls!rpcVars, HandlerLock, requests, responses, history, throws
    <2>13. CASE FindHandler
      <3>1. Answer \in Back /\ Answer \in Served /\ Answer \notin ToSet(answers)
            /\ Answer.id = Response /\ Response \in Id
        BY <2>13, AtHand DEF FindHandler, AnswersInv, ChannelInv, Response
      <3>2. UNCHANGED <<req_sent, rsp_sent>>
        BY <2>13 DEF FindHandler, requests, responses
      <3>3. CASE answers' = Append(answers, Answer)
        <4>1. \E r \in ToSet(rsp_sent) \ ToSet(answers) : r.id = Response
              /\ answers' = Append(answers, r)
          BY <3>1, <3>3 DEF Served
        <4>2. UNCHANGED <<ToSet(req_sent), ToSet(rsp_sent)>>
          BY <3>2
        <4>3. Calls!Answer(Response)
          BY <4>1, <4>2 DEF Calls!Answer, Calls!ToSet, ToSet
        <4>4. QED
          BY <3>1, <4>3 DEF Calls!RpcNext
      <3>4. CASE answers' = answers
        BY <3>2, <3>4 DEF Calls!rpcVars
      <3>5. QED
        BY <2>13, <3>3, <3>4 DEF FindHandler
    <2>14. CASE HandlerReturns
      BY <2>14 DEF Calls!rpcVars, HandlerReturns, requests, responses, history, throws
    <2>15. CASE HandlerThrows
      BY <2>15 DEF Calls!rpcVars, HandlerThrows, internals, requests, responses
    <2>16. CASE HandlerUnlock
      BY <2>16 DEF Calls!rpcVars, HandlerUnlock, requests, responses, history, throws
    <2>17. CASE SlotReturns
      BY <2>17 DEF Calls!rpcVars, SlotReturns, Responses!Return, internals, requests, history, throws
    <2>18. CASE ClientCloses
      BY <2>18
      DEF Calls!rpcVars, ClientCloses, Responses!Close, internals, threads, requests, history, throws
    <2>19. CASE ServerCloses
      BY <2>19
      DEF Calls!rpcVars, ServerCloses, Requests!Close, internals, threads, responses, history, throws
    <2>20. CASE UNCHANGED vars
      BY <2>20 DEF vars, Calls!rpcVars
    <2>21. QED
      BY <2>1, <2>2, <2>3, <2>4, <2>5, <2>6, <2>7, <2>8, <2>9, <2>10, <2>11, <2>12, <2>13,
         <2>14, <2>15, <2>16, <2>17, <2>18, <2>19, <2>20
      DEF Next, AsyncStep, WorkerStep, ServerStep, ReceiverStep
  <1>3. QED
    BY <1>1, <1>2, Invariant, PTL DEF Spec, CallsImplementRpc, Calls!RpcSpec
=============================================================================
