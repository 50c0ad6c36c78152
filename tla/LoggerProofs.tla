---------------------------- MODULE LoggerProofs ----------------------------
(* Theorems about module Logger, for any threads and fallback files and any
   number of calls.                                                         *)
EXTENDS Logger, SequenceTheorems, TLAPS

LoggerRecord == [prefix : Prefixes, argv : BOOLEAN, open : BOOLEAN, remote : BOOLEAN]

-----------------------------------------------------------------------------
(* The inductive invariant.                                                 *)

Inside(t) == pc[t] \in {"in", "client", "relocks"}

\* The mutex belongs to the thread that is past it.
MutexInv == \A t \in Threads : Inside(t) <=> m_mutex = t

\* What a thread in a call was called for.
JobInv ==
    \A t \in Threads : pc[t] # "idle" =>
        /\ job[t].op # "none"
        /\ job[t].op # "init" => calls[t] > 0
        /\ pc[t] = "client" => job[t].op = "init" /\ m_inst # 0

\* How far the exit of the process has come.
ExitInv ==
    /\ exit = "runs" => ~late
    /\ deleted => exit \in {"done", "ended"}
    /\ exit \in {"measures", "removes", "deletes"} => m_inst # 0
    /\ exit \notin {"runs", "ended"} /\ ~late => \A t \in Threads : pc[t] = "idle"

\* A file is there because of a logger; what is written is in a file that is there.
FilesInv ==
    /\ \A p \in exists : \E i \in 1 .. Len(loggers) : loggers[i].prefix = p
    /\ exit = "runs" => \A i \in 1 .. Len(loggers) : loggers[i].open =>
          loggers[i].prefix \in exists
    /\ ~late => \A p \in Prefixes : text[p] # {} => p \in exists

\* What the destructor found out about the file holds until the logger is deleted.
MeasureInv ==
    ~late =>
        /\ exit = "removes" => text[Fallback] = {}
        /\ exit \in {"deletes", "done"} /\ m_inst # 0 =>
              Fallback \notin exists \/ text[Fallback] # {}

\* The messages that were logged; a thread in a call of init has logged its last one.
Finished ==
    {m \in Message :
        \/ m[2] < calls[m[1]]
        \/ m[2] = calls[m[1]] /\ (pc[m[1]] = "idle" \/ job[m[1]].op = "init")}

KeptInv ==
    ~late => \A m \in Finished : m \in sent \union dropped \/ \E p \in Prefixes : m \in text[p]

IInv == TypeOK /\ MutexInv /\ JobInv /\ ExitInv /\ FilesInv /\ MeasureInv /\ KeptInv

-----------------------------------------------------------------------------
(* What the operations do.                                                  *)

LEMMA NewLoggerDoes ==
    ASSUME TypeOK, NEW p \in Prefixes, NEW argv \in BOOLEAN, NewLogger(p, argv)
    PROVE  /\ loggers' \in Seq(LoggerRecord)
           /\ Len(loggers') = Len(loggers) + 1 /\ m_inst' = Len(loggers) + 1
           /\ \A i \in 1 .. Len(loggers) : loggers'[i] = loggers[i]
           /\ loggers'[Len(loggers) + 1].prefix = p
           /\ loggers'[Len(loggers) + 1].open => p \in exists'
           /\ exists \subseteq exists' /\ exists' \subseteq exists \union {p}
           /\ text' = text
  <1>1. PICK ok \in BOOLEAN :
          /\ loggers' = Append(loggers, [prefix |-> p, argv |-> argv, open |-> ok, remote |-> FALSE])
          /\ m_inst' = Len(loggers) + 1
          /\ exists' = IF ok THEN exists \union {p} ELSE exists
          /\ UNCHANGED text
    BY DEF NewLogger
  <1> DEFINE l == [prefix |-> p, argv |-> argv, open |-> ok, remote |-> FALSE]
  <1>2. loggers \in Seq(LoggerRecord) /\ l \in LoggerRecord
    BY DEF TypeOK, LoggerRecord
  <1>3. l.prefix = p /\ l.open = ok
    OBVIOUS
  <1> HIDE DEF l
  <1>4. /\ Append(loggers, l) \in Seq(LoggerRecord)
        /\ Len(Append(loggers, l)) = Len(loggers) + 1
        /\ \A i \in 1 .. Len(loggers) : Append(loggers, l)[i] = loggers[i]
        /\ Append(loggers, l)[Len(loggers) + 1] = l
    BY <1>2, AppendProperties
  <1>5. loggers' = Append(loggers, l)
    BY <1>1 DEF l
  <1>6. QED
    BY <1>1, <1>3, <1>4, <1>5

\* A client is given to the logger in use, which keeps its file.
LEMMA ConnectDoes ==
    ASSUME TypeOK, m_inst # 0, loggers' = [loggers EXCEPT ![m_inst].remote = TRUE]
    PROVE  /\ loggers' \in Seq(LoggerRecord)
           /\ Len(loggers') = Len(loggers)
           /\ \A i \in 1 .. Len(loggers) :
                loggers'[i].prefix = loggers[i].prefix /\ loggers'[i].open = loggers[i].open
  <1> DEFINE l == [loggers[m_inst] EXCEPT !.remote = TRUE]
  <1>1. loggers \in Seq(LoggerRecord) /\ m_inst \in 1 .. Len(loggers)
    BY DEF TypeOK, LoggerRecord
  <1>2. loggers[m_inst] \in LoggerRecord
    BY <1>1, ElementOfSeq
  <1>3. l \in LoggerRecord /\ l.prefix = loggers[m_inst].prefix /\ l.open = loggers[m_inst].open
    BY <1>2 DEF LoggerRecord
  <1>4. loggers' = [loggers EXCEPT ![m_inst] = l]
    OBVIOUS
  <1> HIDE DEF l
  <1> DEFINE ls == [loggers EXCEPT ![m_inst] = l]
  <1>5. /\ ls \in Seq(LoggerRecord) /\ Len(ls) = Len(loggers)
        /\ \A i \in 1 .. Len(loggers) : ls[i] = IF i = m_inst THEN l ELSE loggers[i]
    BY <1>1, <1>3, ExceptSeq
  <1> HIDE DEF ls
  <1>6. loggers' = ls
    BY <1>4 DEF ls
  <1>7. QED
    BY <1>3, <1>5, <1>6

LEMMA WriteDoes ==
    ASSUME TypeOK, m_inst # 0, NEW entry \in Message \union {Notice}, Write(m_inst, entry)
    PROVE  /\ loggers[m_inst].prefix \in Prefixes
           /\ text' \in [Prefixes -> SUBSET (Message \union {Notice})]
           /\ dropped' \subseteq Message \union {Notice}
           /\ dropped \subseteq dropped'
           /\ \A p \in Prefixes : text[p] \subseteq text'[p]
           /\ \A p \in Prefixes : text'[p] # text[p] =>
                 p = loggers[m_inst].prefix /\ loggers[m_inst].open
           /\ entry \in dropped' \/ entry \in text'[loggers[m_inst].prefix]
  <1> DEFINE E == Message \union {Notice}
             l == loggers[m_inst]
  <1>1. loggers \in Seq(LoggerRecord) /\ m_inst \in 1 .. Len(loggers)
    BY DEF TypeOK, LoggerRecord
  <1>2. l \in LoggerRecord
    BY <1>1, ElementOfSeq
  <1>3. l.prefix \in Prefixes /\ l.open \in BOOLEAN
    BY <1>2 DEF LoggerRecord
  <1>4. text \in [Prefixes -> SUBSET E] /\ dropped \subseteq E /\ entry \in E
    BY DEF TypeOK
  <1>5. /\ text' = IF l.open THEN [text EXCEPT ![l.prefix] = @ \union {entry}] ELSE text
        /\ dropped' = IF l.open THEN dropped ELSE dropped \union {entry}
    BY DEF Write
  <1> HIDE DEF E, l
  <1>6. CASE l.open
    BY <1>3, <1>4, <1>5, <1>6 DEF E, l
  <1>7. CASE ~l.open
    BY <1>3, <1>4, <1>5, <1>7 DEF E, l
  <1>8. QED
    BY <1>6, <1>7

-----------------------------------------------------------------------------
(* Every step preserves it.                                                 *)

\* A message that is being logged has a number.
LEMMA MessageTyped ==
    ASSUME TypeOK, JobInv, NEW t \in Threads, Does(t, "log") \/ Does(t, "except")
    PROVE  ThisMessage(t) \in Message
  BY LoggerAssumption DEF TypeOK, JobInv, Does, ThisMessage, Message

LEMMA TypeStep ==
    ASSUME TypeOK, JobInv, [Next]_vars
    PROVE  TypeOK'
  <1>1. ASSUME NEW t \in Threads, LogCall(t)
       PROVE  TypeOK'
    BY <1>1, LoggerAssumption DEF TypeOK, LogCall, Running, files
  <1>2. ASSUME NEW t \in Threads, InitCall(t)
       PROVE  TypeOK'
    BY <1>2, LoggerAssumption DEF TypeOK, InitCall, Running, files, history
  <1>3. ASSUME NEW t \in Threads, Lock(t)
       PROVE  TypeOK'
    BY <1>3 DEF TypeOK, Lock, Running, files, progress, history
  <1>4. ASSUME NEW t \in Threads, InitCreates(t)
       PROVE  TypeOK'
    <2>1. NewLogger(job[t].prefix, TRUE)
      BY <1>4 DEF InitCreates
    <2>2. /\ job[t].prefix \in Prefixes /\ DefaultPrefix \in Prefixes
          /\ exists \subseteq Prefixes /\ Len(loggers) \in Nat
      BY LoggerAssumption DEF TypeOK
    <2>3. /\ loggers' \in Seq(LoggerRecord) /\ text' = text
          /\ Len(loggers') = Len(loggers) + 1 /\ m_inst' = Len(loggers) + 1
          /\ exists' \subseteq exists \union {job[t].prefix}
      BY <2>1, <2>2, NewLoggerDoes, Zenon
    <2>4. QED
      BY <1>4, <2>2, <2>3 DEF TypeOK, LoggerRecord, InitCreates, progress, history
  <1>5. ASSUME NEW t \in Threads, InitConnects(t)
       PROVE  TypeOK'
    <2>1. m_inst # 0 /\ loggers' = [loggers EXCEPT ![m_inst].remote = TRUE]
      BY <1>5 DEF InitConnects, JobInv
    <2>2. loggers' \in Seq(LoggerRecord) /\ Len(loggers') = Len(loggers)
      BY <2>1, ConnectDoes
    <2>3. QED
      BY <1>5, <2>2 DEF TypeOK, LoggerRecord, InitConnects, Return, files, progress, history
  <1>6. ASSUME NEW t \in Threads, InitFallsBack(t)
       PROVE  TypeOK'
    <2>1. m_inst # 0 /\ Write(m_inst, Notice)
      BY <1>6 DEF InitFallsBack, JobInv
    <2>2. text' \in [Prefixes -> SUBSET (Message \union {Notice})]
          /\ dropped' \subseteq Message \union {Notice}
      BY <2>1, WriteDoes
    <2>3. QED
      BY <1>6, <2>2 DEF TypeOK, InitFallsBack, Return, progress
  <1>7. ASSUME NEW t \in Threads, Instantiate(t)
       PROVE  TypeOK'
    <2>1. NewLogger(DefaultPrefix, FALSE)
      BY <1>7 DEF Instantiate
    <2>2. /\ job[t].prefix \in Prefixes /\ DefaultPrefix \in Prefixes
          /\ exists \subseteq Prefixes /\ Len(loggers) \in Nat
      BY LoggerAssumption DEF TypeOK
    <2>3. /\ loggers' \in Seq(LoggerRecord) /\ text' = text
          /\ Len(loggers') = Len(loggers) + 1 /\ m_inst' = Len(loggers) + 1
          /\ exists' \subseteq exists \union {DefaultPrefix}
      BY <2>1, <2>2, NewLoggerDoes, Zenon
    <2>4. QED
      BY <1>7, <2>2, <2>3 DEF TypeOK, LoggerRecord, Instantiate, progress, history
  <1>8. ASSUME NEW t \in Threads, LogToRemote(t)
       PROVE  TypeOK'
    <2>1. ThisMessage(t) \in Message
      BY <1>8, MessageTyped DEF LogToRemote
    <2>2. QED
      BY <1>8, <2>1 DEF TypeOK, LogToRemote, Return, files, progress
  <1>9. ASSUME NEW t \in Threads, LogToFallback(t)
       PROVE  TypeOK'
    <2>1. ThisMessage(t) \in Message /\ m_inst # 0 /\ Write(m_inst, ThisMessage(t))
      BY <1>9, MessageTyped DEF LogToFallback
    <2>2. text' \in [Prefixes -> SUBSET (Message \union {Notice})]
          /\ dropped' \subseteq Message \union {Notice}
      BY <2>1, WriteDoes
    <2>3. QED
      BY <1>9, <2>2 DEF TypeOK, LogToFallback, Return, progress
  <1>10. ASSUME NEW t \in Threads, Terminate(t)
       PROVE  TypeOK'
    BY <1>10 DEF TypeOK, Terminate, Does, Running, files, progress, history
  <1>11. ASSUME NEW t \in Threads, LogToDeleted(t)
       PROVE  TypeOK'
    BY <1>11 DEF TypeOK, LogToDeleted, Does, Running, files, progress
  <1>12. CASE Exit
    BY <1>12 DEF TypeOK, Exit, Running, files, progress
  <1>13. CASE Measure
    BY <1>13 DEF TypeOK, Measure, Running, files, progress, history
  <1>14. CASE RemoveFallback
    BY <1>14 DEF TypeOK, RemoveFallback, Running, progress, history
  <1>15. CASE DeleteLogger
    BY <1>15 DEF TypeOK, DeleteLogger, Running, files, progress, history
  <1>16. CASE End
    BY <1>16 DEF TypeOK, End, Running, files, progress, history
  <1>17. CASE UNCHANGED vars
    BY <1>17 DEF TypeOK, vars
  <1>18. QED
    BY <1>1, <1>2, <1>3, <1>4, <1>5, <1>6, <1>7, <1>8, <1>9, <1>10, <1>11, <1>12, <1>13, <1>14,
       <1>15, <1>16, <1>17
    DEF Next, Step, Exiting

LEMMA MutexStep ==
    ASSUME TypeOK, MutexInv, [Next]_vars
    PROVE  MutexInv'
  <1>1. ASSUME NEW t \in Threads, LogCall(t)
       PROVE  MutexInv'
    BY <1>1, LoggerAssumption DEF TypeOK, MutexInv, Inside, LogCall, Running, files
  <1>2. ASSUME NEW t \in Threads, InitCall(t)
       PROVE  MutexInv'
    BY <1>2, LoggerAssumption DEF TypeOK, MutexInv, Inside, InitCall, Running, files, history
  <1>3. ASSUME NEW t \in Threads, Lock(t)
       PROVE  MutexInv'
    BY <1>3, LoggerAssumption
    DEF TypeOK, MutexInv, Inside, Lock, Running, files, progress, history
  <1>4. ASSUME NEW t \in Threads, InitCreates(t)
       PROVE  MutexInv'
    BY <1>4, LoggerAssumption
    DEF TypeOK, MutexInv, Inside, InitCreates, Does, Running, progress, history
  <1>5. ASSUME NEW t \in Threads, InitConnects(t)
       PROVE  MutexInv'
    BY <1>5, LoggerAssumption
    DEF TypeOK, MutexInv, Inside, InitConnects, Running, Return, files, progress, history
  <1>6. ASSUME NEW t \in Threads, InitFallsBack(t)
       PROVE  MutexInv'
    BY <1>6, LoggerAssumption
    DEF TypeOK, MutexInv, Inside, InitFallsBack, Running, Return, progress
  <1>7. ASSUME NEW t \in Threads, Instantiate(t)
       PROVE  MutexInv'
    BY <1>7, LoggerAssumption
    DEF TypeOK, MutexInv, Inside, Instantiate, Does, Running, progress, history
  <1>8. ASSUME NEW t \in Threads, LogToRemote(t)
       PROVE  MutexInv'
    BY <1>8, LoggerAssumption
    DEF TypeOK, MutexInv, Inside, LogToRemote, Does, Running, Return, files, progress
  <1>9. ASSUME NEW t \in Threads, LogToFallback(t)
       PROVE  MutexInv'
    BY <1>9, LoggerAssumption
    DEF TypeOK, MutexInv, Inside, LogToFallback, Does, Running, Return, progress
  <1>10. ASSUME NEW t \in Threads, Terminate(t)
       PROVE  MutexInv'
    BY <1>10, LoggerAssumption
    DEF TypeOK, MutexInv, Inside, Terminate, Does, Running, files, progress, history
  <1>11. ASSUME NEW t \in Threads, LogToDeleted(t)
       PROVE  MutexInv'
    BY <1>11, LoggerAssumption
    DEF TypeOK, MutexInv, Inside, LogToDeleted, Does, Running, files, progress
  <1>12. CASE Exit
    BY <1>12, LoggerAssumption DEF TypeOK, MutexInv, Inside, Exit, Running, files, progress
  <1>13. CASE Measure
    BY <1>13, LoggerAssumption
    DEF TypeOK, MutexInv, Inside, Measure, Running, files, progress, history
  <1>14. CASE RemoveFallback
    BY <1>14, LoggerAssumption
    DEF TypeOK, MutexInv, Inside, RemoveFallback, Running, progress, history
  <1>15. CASE DeleteLogger
    BY <1>15, LoggerAssumption
    DEF TypeOK, MutexInv, Inside, DeleteLogger, Running, files, progress, history
  <1>16. CASE End
    BY <1>16, LoggerAssumption
    DEF TypeOK, MutexInv, Inside, End, Running, files, progress, history
  <1>17. CASE UNCHANGED vars
    BY <1>17, LoggerAssumption DEF TypeOK, MutexInv, Inside, vars
  <1>18. QED
    BY <1>1, <1>2, <1>3, <1>4, <1>5, <1>6, <1>7, <1>8, <1>9, <1>10, <1>11, <1>12, <1>13, <1>14,
       <1>15, <1>16, <1>17
    DEF Next, Step, Exiting

LEMMA JobStep ==
    ASSUME TypeOK, JobInv, [Next]_vars
    PROVE  JobInv'
  <1>1. ASSUME NEW t \in Threads, LogCall(t)
       PROVE  JobInv'
    BY <1>1 DEF TypeOK, JobInv, LogCall, Running, files
  <1>2. ASSUME NEW t \in Threads, InitCall(t)
       PROVE  JobInv'
    BY <1>2 DEF TypeOK, JobInv, InitCall, Running, files, history
  <1>3. ASSUME NEW t \in Threads, Lock(t)
       PROVE  JobInv'
    BY <1>3 DEF TypeOK, JobInv, Lock, Running, files, progress, history
  <1>4. ASSUME NEW t \in Threads, InitCreates(t)
       PROVE  JobInv'
    BY <1>4, NewLoggerDoes
    DEF TypeOK, JobInv, InitCreates, Does, Running, progress, history, NewLogger
  <1>5. ASSUME NEW t \in Threads, InitConnects(t)
       PROVE  JobInv'
    BY <1>5 DEF TypeOK, JobInv, InitConnects, Running, Return, files, progress, history
  <1>6. ASSUME NEW t \in Threads, InitFallsBack(t)
       PROVE  JobInv'
    BY <1>6 DEF TypeOK, JobInv, InitFallsBack, Running, Return, progress
  <1>7. ASSUME NEW t \in Threads, Instantiate(t)
       PROVE  JobInv'
    BY <1>7 DEF TypeOK, JobInv, Instantiate, Does, Running, progress, history, NewLogger
  <1>8. ASSUME NEW t \in Threads, LogToRemote(t)
       PROVE  JobInv'
    BY <1>8 DEF TypeOK, JobInv, LogToRemote, Does, Running, Return, files, progress
  <1>9. ASSUME NEW t \in Threads, LogToFallback(t)
       PROVE  JobInv'
    BY <1>9 DEF TypeOK, JobInv, LogToFallback, Does, Running, Return, progress
  <1>10. ASSUME NEW t \in Threads, Terminate(t)
       PROVE  JobInv'
    BY <1>10 DEF TypeOK, JobInv, Terminate, Does, Running, files, progress, history
  <1>11. ASSUME NEW t \in Threads, LogToDeleted(t)
       PROVE  JobInv'
    BY <1>11 DEF TypeOK, JobInv, LogToDeleted, Does, Running, files, progress
  <1>12. CASE Exit
    BY <1>12 DEF TypeOK, JobInv, Exit, Running, files, progress
  <1>13. CASE Measure
    BY <1>13 DEF TypeOK, JobInv, Measure, Running, files, progress, history
  <1>14. CASE RemoveFallback
    BY <1>14 DEF TypeOK, JobInv, RemoveFallback, Running, progress, history
  <1>15. CASE DeleteLogger
    BY <1>15 DEF TypeOK, JobInv, DeleteLogger, Running, files, progress, history
  <1>16. CASE End
    BY <1>16 DEF TypeOK, JobInv, End, Running, files, progress, history
  <1>17. CASE UNCHANGED vars
    BY <1>17 DEF TypeOK, JobInv, vars
  <1>18. QED
    BY <1>1, <1>2, <1>3, <1>4, <1>5, <1>6, <1>7, <1>8, <1>9, <1>10, <1>11, <1>12, <1>13, <1>14,
       <1>15, <1>16, <1>17
    DEF Next, Step, Exiting

LEMMA ExitStep ==
    ASSUME TypeOK, JobInv, ExitInv, [Next]_vars
    PROVE  ExitInv'
  <1>1. ASSUME NEW t \in Threads, LogCall(t)
       PROVE  ExitInv'
    BY <1>1 DEF TypeOK, ExitInv, LogCall, Running, files
  <1>2. ASSUME NEW t \in Threads, InitCall(t)
       PROVE  ExitInv'
    BY <1>2 DEF TypeOK, ExitInv, InitCall, Running, files, history
  <1>3. ASSUME NEW t \in Threads, Lock(t)
       PROVE  ExitInv'
    BY <1>3 DEF TypeOK, ExitInv, Lock, Running, files, progress, history
  <1>4. ASSUME NEW t \in Threads, InitCreates(t)
       PROVE  ExitInv'
    BY <1>4 DEF TypeOK, ExitInv, InitCreates, Does, Running, progress, history, NewLogger
  <1>5. ASSUME NEW t \in Threads, InitConnects(t)
       PROVE  ExitInv'
    BY <1>5 DEF TypeOK, ExitInv, InitConnects, Running, Return, files, progress, history
  <1>6. ASSUME NEW t \in Threads, InitFallsBack(t)
       PROVE  ExitInv'
    BY <1>6 DEF TypeOK, ExitInv, InitFallsBack, Running, Return, progress
  <1>7. ASSUME NEW t \in Threads, Instantiate(t)
       PROVE  ExitInv'
    BY <1>7 DEF TypeOK, ExitInv, Instantiate, Does, Running, progress, history, NewLogger
  <1>8. ASSUME NEW t \in Threads, LogToRemote(t)
       PROVE  ExitInv'
    BY <1>8 DEF TypeOK, ExitInv, LogToRemote, Does, Running, Return, files, progress
  <1>9. ASSUME NEW t \in Threads, LogToFallback(t)
       PROVE  ExitInv'
    BY <1>9 DEF TypeOK, ExitInv, LogToFallback, Does, Running, Return, progress
  <1>10. ASSUME NEW t \in Threads, Terminate(t)
       PROVE  ExitInv'
    BY <1>10 DEF TypeOK, ExitInv, Terminate, Does, Running, files, progress, history
  <1>11. ASSUME NEW t \in Threads, LogToDeleted(t)
       PROVE  ExitInv'
    BY <1>11 DEF TypeOK, ExitInv, LogToDeleted, Does, Running, files, progress
  <1>12. CASE Exit
    BY <1>12 DEF TypeOK, ExitInv, Exit, Running, files, progress
  <1>13. CASE Measure
    BY <1>13 DEF TypeOK, ExitInv, Measure, Running, files, progress, history
  <1>14. CASE RemoveFallback
    BY <1>14 DEF TypeOK, ExitInv, RemoveFallback, Running, progress, history
  <1>15. CASE DeleteLogger
    BY <1>15 DEF TypeOK, ExitInv, DeleteLogger, Running, files, progress, history
  <1>16. CASE End
    BY <1>16 DEF TypeOK, ExitInv, End, Running, files, progress, history
  <1>17. CASE UNCHANGED vars
    BY <1>17 DEF TypeOK, ExitInv, vars
  <1>18. QED
    BY <1>1, <1>2, <1>3, <1>4, <1>5, <1>6, <1>7, <1>8, <1>9, <1>10, <1>11, <1>12, <1>13, <1>14,
       <1>15, <1>16, <1>17
    DEF Next, Step, Exiting

LEMMA FilesStep ==
    ASSUME TypeOK, JobInv, ExitInv, FilesInv, MeasureInv, [Next]_vars
    PROVE  FilesInv'
  <1>1. ASSUME NEW t \in Threads, LogCall(t)
       PROVE  FilesInv'
    BY <1>1 DEF FilesInv, LogCall, Running, files
  <1>2. ASSUME NEW t \in Threads, InitCall(t)
       PROVE  FilesInv'
    BY <1>2 DEF FilesInv, InitCall, Running, files, history
  <1>3. ASSUME NEW t \in Threads, Lock(t)
       PROVE  FilesInv'
    BY <1>3 DEF FilesInv, Lock, Running, files, progress, history
  <1>4. ASSUME NEW t \in Threads, InitCreates(t)
       PROVE  FilesInv'
    <2>1. NewLogger(job[t].prefix, TRUE) /\ m_mutex' = m_mutex /\ exit' = exit /\ late' = late
          /\ pc[t] = "in"
      BY <1>4 DEF InitCreates, Does, history
    <2>2. job[t].prefix \in Prefixes /\ DefaultPrefix \in Prefixes /\ Len(loggers) \in Nat
      BY LoggerAssumption DEF TypeOK
    <2> DEFINE p == job[t].prefix
    <2>3. /\ text' = text
          /\ Len(loggers') = Len(loggers) + 1 /\ m_inst' = Len(loggers) + 1
          /\ \A i \in 1 .. Len(loggers) : loggers'[i] = loggers[i]
          /\ loggers'[Len(loggers) + 1].prefix = p
          /\ loggers'[Len(loggers) + 1].open => p \in exists'
          /\ exists \subseteq exists' /\ exists' \subseteq exists \union {p}
      BY <2>1, <2>2, NewLoggerDoes, Zenon
    <2> HIDE DEF p
    <2>4. \A i \in 1 .. Len(loggers') : i \in 1 .. Len(loggers) \/ i = Len(loggers) + 1
      BY <2>2, <2>3
    <2>5. Len(loggers) + 1 \in 1 .. Len(loggers')
          /\ 1 .. Len(loggers) \subseteq 1 .. Len(loggers')
      BY <2>2, <2>3
    <2>6. QED
      BY <2>1, <2>3, <2>4, <2>5 DEF FilesInv
  <1>5. ASSUME NEW t \in Threads, InitConnects(t)
       PROVE  FilesInv'
    <2>1. m_inst # 0 /\ loggers' = [loggers EXCEPT ![m_inst].remote = TRUE]
      BY <1>5 DEF InitConnects, JobInv
    <2>2. /\ Len(loggers') = Len(loggers)
          /\ \A i \in 1 .. Len(loggers) :
               loggers'[i].prefix = loggers[i].prefix /\ loggers'[i].open = loggers[i].open
      BY <2>1, ConnectDoes
    <2>3. UNCHANGED <<exists, text, exit, late>>
      BY <1>5 DEF InitConnects, files, history
    <2>4. QED
      BY <2>2, <2>3 DEF FilesInv
  <1>6. ASSUME NEW t \in Threads, InitFallsBack(t)
       PROVE  FilesInv'
    <2>1. /\ m_inst # 0 /\ m_inst \in 1 .. Len(loggers)
          /\ Write(m_inst, Notice) /\ Notice \in Message \union {Notice}
      BY <1>6 DEF InitFallsBack, TypeOK, JobInv
    <2>2. /\ \A p \in Prefixes : text'[p] # text[p] =>
                p = loggers[m_inst].prefix /\ loggers[m_inst].open
          /\ \A p \in Prefixes : text[p] \subseteq text'[p]
          /\ dropped \subseteq dropped'
          /\ loggers[m_inst].prefix \in Prefixes
          /\ Notice \in dropped' \/ Notice \in text'[loggers[m_inst].prefix]
      BY <2>1, WriteDoes
    <2>3. late \/ exit = "runs"
      BY <1>6 DEF InitFallsBack, Running, Does, ExitInv
    <2>4. QED
      BY <1>6, <2>1, <2>2, <2>3 DEF FilesInv, InitFallsBack, progress
  <1>7. ASSUME NEW t \in Threads, Instantiate(t)
       PROVE  FilesInv'
    <2>1. NewLogger(DefaultPrefix, FALSE) /\ m_mutex' = m_mutex /\ exit' = exit
          /\ late' = late /\ pc[t] = "in"
      BY <1>7 DEF Instantiate, Does, history
    <2>2. job[t].prefix \in Prefixes /\ DefaultPrefix \in Prefixes /\ Len(loggers) \in Nat
      BY LoggerAssumption DEF TypeOK
    <2> DEFINE p == DefaultPrefix
    <2>3. /\ text' = text
          /\ Len(loggers') = Len(loggers) + 1 /\ m_inst' = Len(loggers) + 1
          /\ \A i \in 1 .. Len(loggers) : loggers'[i] = loggers[i]
          /\ loggers'[Len(loggers) + 1].prefix = p
          /\ loggers'[Len(loggers) + 1].open => p \in exists'
          /\ exists \subseteq exists' /\ exists' \subseteq exists \union {p}
      BY <2>1, <2>2, NewLoggerDoes, Zenon
    <2> HIDE DEF p
    <2>4. \A i \in 1 .. Len(loggers') : i \in 1 .. Len(loggers) \/ i = Len(loggers) + 1
      BY <2>2, <2>3
    <2>5. Len(loggers) + 1 \in 1 .. Len(loggers')
          /\ 1 .. Len(loggers) \subseteq 1 .. Len(loggers')
      BY <2>2, <2>3
    <2>6. QED
      BY <2>1, <2>3, <2>4, <2>5 DEF FilesInv
  <1>8. ASSUME NEW t \in Threads, LogToRemote(t)
       PROVE  FilesInv'
    BY <1>8 DEF FilesInv, LogToRemote, Does, Running, Return, files, progress
  <1>9. ASSUME NEW t \in Threads, LogToFallback(t)
       PROVE  FilesInv'
    <2>1. /\ m_inst # 0 /\ m_inst \in 1 .. Len(loggers)
          /\ Write(m_inst, ThisMessage(t)) /\ ThisMessage(t) \in Message \union {Notice}
      BY <1>9, MessageTyped DEF LogToFallback, TypeOK
    <2>2. /\ \A p \in Prefixes : text'[p] # text[p] =>
                p = loggers[m_inst].prefix /\ loggers[m_inst].open
          /\ \A p \in Prefixes : text[p] \subseteq text'[p]
          /\ dropped \subseteq dropped'
          /\ loggers[m_inst].prefix \in Prefixes
          /\ ThisMessage(t) \in dropped' \/ ThisMessage(t) \in text'[loggers[m_inst].prefix]
      BY <2>1, WriteDoes
    <2>3. late \/ exit = "runs"
      BY <1>9 DEF LogToFallback, Running, Does, ExitInv
    <2>4. QED
      BY <1>9, <2>1, <2>2, <2>3 DEF FilesInv, LogToFallback, progress
  <1>10. ASSUME NEW t \in Threads, Terminate(t)
       PROVE  FilesInv'
    BY <1>10 DEF FilesInv, Terminate, Does, Running, files, progress, history
  <1>11. ASSUME NEW t \in Threads, LogToDeleted(t)
       PROVE  FilesInv'
    BY <1>11 DEF FilesInv, LogToDeleted, Does, Running, files, progress
  <1>12. CASE Exit
    BY <1>12 DEF FilesInv, Exit, Running, files, progress, ExitInv
  <1>13. CASE Measure
    BY <1>13 DEF FilesInv, Measure, Running, files, progress, history
  <1>14. CASE RemoveFallback
    BY <1>14 DEF FilesInv, RemoveFallback, Running, progress, history, MeasureInv
  <1>15. CASE DeleteLogger
    BY <1>15 DEF FilesInv, DeleteLogger, Running, files, progress, history
  <1>16. CASE End
    BY <1>16 DEF FilesInv, End, Running, files, progress, history
  <1>17. CASE UNCHANGED vars
    BY <1>17 DEF FilesInv, vars
  <1>18. QED
    BY <1>1, <1>2, <1>3, <1>4, <1>5, <1>6, <1>7, <1>8, <1>9, <1>10, <1>11, <1>12, <1>13, <1>14,
       <1>15, <1>16, <1>17
    DEF Next, Step, Exiting

\* The logger in use has a file.
LEMMA PrefixTyped ==
    ASSUME TypeOK, m_inst # 0
    PROVE  Fallback \in Prefixes
  <1>1. loggers \in Seq(LoggerRecord) /\ m_inst \in 1 .. Len(loggers)
    BY DEF TypeOK, LoggerRecord
  <1>2. loggers[m_inst] \in LoggerRecord
    BY <1>1, ElementOfSeq
  <1>3. QED
    BY <1>2 DEF LoggerRecord, Fallback

LEMMA MeasureStep ==
    ASSUME TypeOK, JobInv, ExitInv, FilesInv, MeasureInv, [Next]_vars
    PROVE  MeasureInv'
  <1>1. ASSUME NEW t \in Threads, LogCall(t)
       PROVE  MeasureInv'
    BY <1>1 DEF MeasureInv, Fallback, LogCall, Running, files, ExitInv, Does, NewLogger, Write
  <1>2. ASSUME NEW t \in Threads, InitCall(t)
       PROVE  MeasureInv'
    BY <1>2
    DEF MeasureInv, Fallback, InitCall, Running, files, history, ExitInv, Does, NewLogger, Write
  <1>3. ASSUME NEW t \in Threads, Lock(t)
       PROVE  MeasureInv'
    BY <1>3
    DEF MeasureInv, Fallback, Lock, Running, files, progress, history, ExitInv, Does, NewLogger,
        Write
  <1>4. ASSUME NEW t \in Threads, InitCreates(t)
       PROVE  MeasureInv'
    BY <1>4
    DEF MeasureInv, Fallback, InitCreates, Does, Running, progress, history, ExitInv, NewLogger,
        Write
  <1>5. ASSUME NEW t \in Threads, InitConnects(t)
       PROVE  MeasureInv'
    BY <1>5
    DEF MeasureInv, Fallback, InitConnects, Running, Return, files, progress, history, ExitInv,
        Does, NewLogger, Write
  <1>6. ASSUME NEW t \in Threads, InitFallsBack(t)
       PROVE  MeasureInv'
    BY <1>6
    DEF MeasureInv, Fallback, InitFallsBack, Running, Return, progress, ExitInv, Does, NewLogger,
        Write
  <1>7. ASSUME NEW t \in Threads, Instantiate(t)
       PROVE  MeasureInv'
    BY <1>7
    DEF MeasureInv, Fallback, Instantiate, Does, Running, progress, history, ExitInv, NewLogger,
        Write
  <1>8. ASSUME NEW t \in Threads, LogToRemote(t)
       PROVE  MeasureInv'
    BY <1>8
    DEF MeasureInv, Fallback, LogToRemote, Does, Running, Return, files, progress, ExitInv,
        NewLogger, Write
  <1>9. ASSUME NEW t \in Threads, LogToFallback(t)
       PROVE  MeasureInv'
    BY <1>9
    DEF MeasureInv, Fallback, LogToFallback, Does, Running, Return, progress, ExitInv, NewLogger,
        Write
  <1>10. ASSUME NEW t \in Threads, Terminate(t)
       PROVE  MeasureInv'
    BY <1>10
    DEF MeasureInv, Fallback, Terminate, Does, Running, files, progress, history, ExitInv,
        NewLogger, Write
  <1>11. ASSUME NEW t \in Threads, LogToDeleted(t)
       PROVE  MeasureInv'
    BY <1>11
    DEF MeasureInv, Fallback, LogToDeleted, Does, Running, files, progress, ExitInv, NewLogger,
        Write
  <1>12. CASE Exit
    BY <1>12 DEF MeasureInv, Fallback, Exit, Running, files, progress, ExitInv
  <1>13. CASE Measure
    BY <1>13, PrefixTyped
    DEF MeasureInv, Fallback, Measure, Running, files, progress, history, FilesInv, ExitInv
  <1>14. CASE RemoveFallback
    BY <1>14, PrefixTyped
    DEF MeasureInv, Fallback, RemoveFallback, Running, progress, history, FilesInv, ExitInv
  <1>15. CASE DeleteLogger
    BY <1>15 DEF MeasureInv, Fallback, DeleteLogger, Running, files, progress, history
  <1>16. CASE End
    BY <1>16 DEF MeasureInv, Fallback, End, Running, files, progress, history
  <1>17. CASE UNCHANGED vars
    BY <1>17 DEF MeasureInv, Fallback, vars
  <1>18. QED
    BY <1>1, <1>2, <1>3, <1>4, <1>5, <1>6, <1>7, <1>8, <1>9, <1>10, <1>11, <1>12, <1>13, <1>14,
       <1>15, <1>16, <1>17
    DEF Next, Step, Exiting

\* What is kept stays kept.
LEMMA KeptGrows ==
    ASSUME KeptInv, late => late', sent \subseteq sent', dropped \subseteq dropped',
           \A p \in Prefixes : text[p] \subseteq text'[p],
           \A m \in Finished' :
              m \in Finished \/ m \in sent' \union dropped' \/ \E p \in Prefixes : m \in text'[p]
    PROVE  KeptInv'
  BY DEF KeptInv

LEMMA KeptStep ==
    ASSUME TypeOK, JobInv, ExitInv, KeptInv, [Next]_vars
    PROVE  KeptInv'
  <1>1. ASSUME NEW t \in Threads, LogCall(t)
       PROVE  KeptInv'
    BY <1>1, LoggerAssumption, KeptGrows
    DEF Finished, Message, TypeOK, JobInv, LogCall, Running, files
  <1>2. ASSUME NEW t \in Threads, InitCall(t)
       PROVE  KeptInv'
    BY <1>2, LoggerAssumption, KeptGrows
    DEF Finished, Message, TypeOK, JobInv, InitCall, Running, files, history
  <1>3. ASSUME NEW t \in Threads, Lock(t)
       PROVE  KeptInv'
    BY <1>3, LoggerAssumption, KeptGrows
    DEF Finished, Message, TypeOK, JobInv, Lock, Running, files, progress, history
  <1>4. ASSUME NEW t \in Threads, InitCreates(t)
       PROVE  KeptInv'
    <2>1. NewLogger(job[t].prefix, TRUE) /\ m_mutex' = m_mutex /\ exit' = exit /\ late' = late
          /\ pc[t] = "in"
      BY <1>4 DEF InitCreates, Does, history
    <2>2. job[t].prefix \in Prefixes /\ DefaultPrefix \in Prefixes /\ Len(loggers) \in Nat
      BY LoggerAssumption DEF TypeOK
    <2> DEFINE p == job[t].prefix
    <2>3. /\ text' = text
          /\ Len(loggers') = Len(loggers) + 1 /\ m_inst' = Len(loggers) + 1
          /\ \A i \in 1 .. Len(loggers) : loggers'[i] = loggers[i]
          /\ loggers'[Len(loggers) + 1].prefix = p
          /\ loggers'[Len(loggers) + 1].open => p \in exists'
          /\ exists \subseteq exists' /\ exists' \subseteq exists \union {p}
      BY <2>1, <2>2, NewLoggerDoes, Zenon
    <2> HIDE DEF p
    <2>4. Finished' = Finished
      BY <1>4 DEF Finished, InitCreates, progress, Does, TypeOK
    <2>5. QED
      BY <1>4, <2>3, <2>4, KeptGrows DEF InitCreates, history
  <1>5. ASSUME NEW t \in Threads, InitConnects(t)
       PROVE  KeptInv'
    BY <1>5, LoggerAssumption, KeptGrows
    DEF Finished, Message, TypeOK, JobInv, InitConnects, Running, Return, files, progress, history
  <1>6. ASSUME NEW t \in Threads, InitFallsBack(t)
       PROVE  KeptInv'
    <2>1. /\ m_inst # 0 /\ m_inst \in 1 .. Len(loggers)
          /\ Write(m_inst, Notice) /\ Notice \in Message \union {Notice}
      BY <1>6 DEF InitFallsBack, TypeOK, JobInv
    <2>2. /\ \A p \in Prefixes : text'[p] # text[p] =>
                p = loggers[m_inst].prefix /\ loggers[m_inst].open
          /\ \A p \in Prefixes : text[p] \subseteq text'[p]
          /\ dropped \subseteq dropped'
          /\ loggers[m_inst].prefix \in Prefixes
          /\ Notice \in dropped' \/ Notice \in text'[loggers[m_inst].prefix]
      BY <2>1, WriteDoes
    <2>3. late \/ exit = "runs"
      BY <1>6 DEF InitFallsBack, Running, Does, ExitInv
    <2>4. \A m \in Finished' : m \in Finished
      BY <1>6
      DEF Finished, Message, TypeOK, JobInv, InitFallsBack, Return, Does, progress, ThisMessage
    <2>5. QED
      BY <1>6, <2>2, <2>4, KeptGrows DEF InitFallsBack
  <1>7. ASSUME NEW t \in Threads, Instantiate(t)
       PROVE  KeptInv'
    <2>1. NewLogger(DefaultPrefix, FALSE) /\ m_mutex' = m_mutex /\ exit' = exit
          /\ late' = late /\ pc[t] = "in"
      BY <1>7 DEF Instantiate, Does, history
    <2>2. job[t].prefix \in Prefixes /\ DefaultPrefix \in Prefixes /\ Len(loggers) \in Nat
      BY LoggerAssumption DEF TypeOK
    <2> DEFINE p == DefaultPrefix
    <2>3. /\ text' = text
          /\ Len(loggers') = Len(loggers) + 1 /\ m_inst' = Len(loggers) + 1
          /\ \A i \in 1 .. Len(loggers) : loggers'[i] = loggers[i]
          /\ loggers'[Len(loggers) + 1].prefix = p
          /\ loggers'[Len(loggers) + 1].open => p \in exists'
          /\ exists \subseteq exists' /\ exists' \subseteq exists \union {p}
      BY <2>1, <2>2, NewLoggerDoes, Zenon
    <2> HIDE DEF p
    <2>4. Finished' = Finished
      BY <1>7 DEF Finished, Instantiate, progress, Does, TypeOK
    <2>5. QED
      BY <1>7, <2>3, <2>4, KeptGrows DEF Instantiate, history
  <1>8. ASSUME NEW t \in Threads, LogToRemote(t)
       PROVE  KeptInv'
    <2>1. \A m \in Finished' : m \in Finished \/ m = ThisMessage(t)
      BY <1>8
      DEF Finished, Message, TypeOK, JobInv, LogToRemote, Return, Does, progress, ThisMessage
    <2>2. QED
      BY <1>8, <2>1, KeptGrows DEF LogToRemote, files
  <1>9. ASSUME NEW t \in Threads, LogToFallback(t)
       PROVE  KeptInv'
    <2>1. /\ m_inst # 0 /\ m_inst \in 1 .. Len(loggers)
          /\ Write(m_inst, ThisMessage(t)) /\ ThisMessage(t) \in Message \union {Notice}
      BY <1>9, MessageTyped DEF LogToFallback, TypeOK
    <2>2. /\ \A p \in Prefixes : text'[p] # text[p] =>
                p = loggers[m_inst].prefix /\ loggers[m_inst].open
          /\ \A p \in Prefixes : text[p] \subseteq text'[p]
          /\ dropped \subseteq dropped'
          /\ loggers[m_inst].prefix \in Prefixes
          /\ ThisMessage(t) \in dropped' \/ ThisMessage(t) \in text'[loggers[m_inst].prefix]
      BY <2>1, WriteDoes
    <2>3. late \/ exit = "runs"
      BY <1>9 DEF LogToFallback, Running, Does, ExitInv
    <2>4. \A m \in Finished' : m \in Finished \/ m = ThisMessage(t)
      BY <1>9
      DEF Finished, Message, TypeOK, JobInv, LogToFallback, Return, Does, progress, ThisMessage
    <2>5. QED
      BY <1>9, <2>2, <2>4, KeptGrows DEF LogToFallback
  <1>10. ASSUME NEW t \in Threads, Terminate(t)
       PROVE  KeptInv'
    BY <1>10, LoggerAssumption, KeptGrows
    DEF Finished, Message, TypeOK, JobInv, Terminate, Does, Running, files, progress, history
  <1>11. ASSUME NEW t \in Threads, LogToDeleted(t)
       PROVE  KeptInv'
    BY <1>11, LoggerAssumption, KeptGrows
    DEF Finished, Message, TypeOK, JobInv, LogToDeleted, Does, Running, files, progress
  <1>12. CASE Exit
    BY <1>12, LoggerAssumption, KeptGrows
    DEF Finished, Message, TypeOK, JobInv, Exit, Running, files, progress, ExitInv
  <1>13. CASE Measure
    BY <1>13, LoggerAssumption, KeptGrows
    DEF Finished, Message, TypeOK, JobInv, Measure, Running, files, progress, history
  <1>14. CASE RemoveFallback
    BY <1>14, LoggerAssumption, KeptGrows
    DEF Finished, Message, TypeOK, JobInv, RemoveFallback, Running, progress, history
  <1>15. CASE DeleteLogger
    BY <1>15, LoggerAssumption, KeptGrows
    DEF Finished, Message, TypeOK, JobInv, DeleteLogger, Running, files, progress, history
  <1>16. CASE End
    BY <1>16, LoggerAssumption, KeptGrows
    DEF Finished, Message, TypeOK, JobInv, End, Running, files, progress, history
  <1>17. CASE UNCHANGED vars
    BY <1>17, LoggerAssumption, KeptGrows DEF Finished, Message, TypeOK, JobInv, vars
  <1>18. QED
    BY <1>1, <1>2, <1>3, <1>4, <1>5, <1>6, <1>7, <1>8, <1>9, <1>10, <1>11, <1>12, <1>13, <1>14,
       <1>15, <1>16, <1>17
    DEF Next, Step, Exiting

-----------------------------------------------------------------------------
(* The theorems.                                                            *)

LEMMA Initially == Init => IInv
  <1> SUFFICES ASSUME Init PROVE IInv
    OBVIOUS
  <1>0. loggers \in Seq(LoggerRecord) /\ Len(loggers) = 0
    BY DEF Init
  <1>1. TypeOK
    <2>1. /\ text \in [Prefixes -> SUBSET (Message \union {Notice})]
          /\ pc \in [Threads -> {"idle", "waits", "in", "client", "relocks"}]
          /\ job \in [Threads -> [op : {"none", "init", "log", "except"}, prefix : Prefixes]]
          /\ calls \in [Threads -> 0 .. MaxCalls]
      BY LoggerAssumption DEF Init
    <2>2. deleted \in BOOLEAN /\ late \in BOOLEAN /\ undefined \in BOOLEAN
      BY Zenon DEF Init
    <2>3. m_inst \in 0 .. Len(loggers) /\ inits \in 0 .. MaxInits
      BY <1>0, LoggerAssumption DEF Init
    <2>4. QED
      BY <1>0, <2>1, <2>2, <2>3 DEF Init, TypeOK, LoggerRecord
  <1>2. KeptInv
    BY LoggerAssumption DEF Init, KeptInv, Finished, Message
  <1>3. QED
    BY <1>1, <1>2, LoggerAssumption
    DEF Init, IInv, MutexInv, Inside, JobInv, ExitInv, FilesInv, MeasureInv

LEMMA Inductive == IInv /\ [Next]_vars => IInv'
  BY TypeStep, MutexStep, JobStep, ExitStep, FilesStep, MeasureStep, KeptStep DEF IInv

LEMMA Invariant == Spec => []IInv
  <1>1. QED
    BY Initially, Inductive, PTL DEF Spec

\* Every variable of the logger, its files and the threads that use it keeps its type.
THEOREM TypeCorrect == Spec => []TypeOK
  <1>1. IInv => TypeOK
    BY DEF IInv
  <1>2. QED
    BY <1>1, Invariant, PTL

(* Whatever threads log, and whatever loggers calls of init create one after the
   other: a message whose call has returned was given to a client, or written
   to a stream that could not be opened, or is in a file that is there, also
   when the process has ended, if no thread was logging while it exited.    *)
THEOREM LoggedIsKept == Spec => []MessagesKept
  <1>1. IInv => MessagesKept
    <2> SUFFICES ASSUME IInv, ~late, NEW m \in Returned
                 PROVE  m \in sent \union dropped \/ \E p \in exists : m \in text[p]
      BY DEF MessagesKept
    <2>1. m \in Finished
      BY DEF Finished, Returned
    <2>2. m \in sent \union dropped \/ \E p \in Prefixes : m \in text[p]
      BY <2>1 DEF IInv, KeptInv
    <2>3. QED
      BY <2>2 DEF IInv, FilesInv
  <1>2. QED
    BY <1>1, Invariant, PTL

(* The destructor leaves no empty file, if no thread was logging while the
   process exited, except those of loggers that init replaced.              *)
THEOREM EmptyFileRemoved == Spec => []NoEmptyFileLeft
  <1>1. IInv => NoEmptyFileLeft
    <2> SUFFICES ASSUME IInv, exit = "done", ~late, NEW p \in exists
                 PROVE  text[p] # {} \/ \E i \in 1 .. Len(loggers) : i # m_inst
                       /\ loggers[i].prefix = p
      BY DEF NoEmptyFileLeft
    <2>1. PICK i \in 1 .. Len(loggers) : loggers[i].prefix = p
      BY DEF IInv, FilesInv
    <2>2. CASE i # m_inst
      BY <2>1, <2>2
    <2>3. CASE i = m_inst
      BY <2>1, <2>3 DEF IInv, MeasureInv, Fallback
    <2>4. QED
      BY <2>2, <2>3
  <1>2. QED
    BY <1>1, Invariant, PTL
=============================================================================
