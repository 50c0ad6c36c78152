-------------------------------- MODULE Logger --------------------------------
(***************************************************************************)
(* lesf::log::Logger (src/src/log/logger.cpp, src/inc/lesf/log/logger.h):  *)
(* the only logger of a process, used by all its threads under one mutex.  *)
(* init creates it; a message goes to the log client or, if there is none  *)
(* or it throws, to a fallback file; a static object deletes the logger    *)
(* when the process exits, and removes a file in which nothing is written. *)
(*                                                                         *)
(* Threads other than the main one may go on while the process exits.      *)
(***************************************************************************)
EXTENDS Naturals, Sequences

CONSTANTS
    Threads,
    Main,           \* the thread that exits
    Prefixes,       \* the fallback files that init may be told to use
    DefaultPrefix,  \* Config::FallbackLogFilePrefix
    MaxCalls,       \* bound: messages that each thread logs
    MaxInits,       \* bound: calls of init
    Nobody

ASSUME LoggerAssumption ==
    /\ Main \in Threads /\ Nobody \notin Threads
    /\ DefaultPrefix \in Prefixes
    /\ MaxCalls \in Nat /\ MaxInits \in Nat

VARIABLES
    m_mutex,   \* the thread that holds it
    m_inst,    \* the logger in use: an index of loggers, 0 for none
    loggers,   \* all that were created: m_fallback, and if it is open, m_argv, m_remote
    deleted,   \* has the one in use been deleted?
    exists,    \* the fallback files that have a name
    text,      \* what is written in each of them
    pc,        \* where each thread is: "idle", "waits" for the mutex, "in", ...
    job,       \* what it was called for
    calls,     \* messages that each thread has logged, or tried to
    inits,
    exit,      \* how far the process has come: "runs", "exits", ..., "ended"
    \* history, not in the code
    sent,      \* messages given to log clients
    dropped,   \* messages written to a stream that is not open
    late,      \* was a call under way when the process exited?
    undefined  \* was a logger used that has been deleted?

files == <<exists, text>>
progress == <<calls, inits>>
history == <<sent, dropped, late, undefined>>
vars == <<m_mutex, m_inst, loggers, deleted, exists, text, pc, job, calls, inits, exit,
          sent, dropped, late, undefined>>

\* A message is known by its thread and its number there; a notice is what the
\* logger itself writes.
Message == Threads \X (1 .. MaxCalls)
Notice == <<"notice", 0>>

Running == exit # "ended" /\ ~undefined

-----------------------------------------------------------------------------
(* What threads call.                                                       *)

\* getProcessInfo looks at the logger without the mutex; then the message is
\* built, or that throws.
LogCall(t) ==
    /\ Running
    /\ pc[t] = "idle" /\ calls[t] < MaxCalls
    /\ t = Main => exit = "runs"
    /\ calls' = [calls EXCEPT ![t] = @ + 1]
    /\ pc' = [pc EXCEPT ![t] = "waits"]
    /\ \E op \in {"log", "except"} : job' = [job EXCEPT ![t] = [op |-> op, prefix |-> DefaultPrefix]]
    /\ late' = (late \/ exit # "runs")
    /\ undefined' = deleted
    /\ UNCHANGED <<m_mutex, m_inst, loggers, deleted, files, inits, exit, sent, dropped>>

InitCall(t) ==
    /\ Running
    /\ pc[t] = "idle" /\ inits < MaxInits
    /\ exit = "runs"
    /\ inits' = inits + 1
    /\ pc' = [pc EXCEPT ![t] = "waits"]
    /\ \E p \in Prefixes : job' = [job EXCEPT ![t] = [op |-> "init", prefix |-> p]]
    /\ UNCHANGED <<m_mutex, m_inst, loggers, deleted, files, calls, exit, history>>

Lock(t) ==
    /\ Running
    /\ pc[t] = "waits" /\ m_mutex = Nobody
    /\ m_mutex' = t
    /\ pc' = [pc EXCEPT ![t] = "in"]
    /\ UNCHANGED <<m_inst, loggers, deleted, files, job, progress, exit, history>>

\* The thread holds the mutex, and what it does next is op.
Does(t, op) ==
    /\ Running
    /\ pc[t] = "in" /\ job[t].op = op

Return(t) ==
    /\ m_mutex' = Nobody
    /\ pc' = [pc EXCEPT ![t] = "idle"]

\* The stream of logger i is written and flushed; it cannot fail but silently.
Write(i, entry) ==
    LET l == loggers[i]
    IN  /\ text' = IF l.open THEN [text EXCEPT ![l.prefix] = @ \union {entry}] ELSE text
        /\ dropped' = IF l.open THEN dropped ELSE dropped \union {entry}

-----------------------------------------------------------------------------
(* The logger is created.                                                   *)

\* Mutation of NewLogger: the file is not opened to append to it.
NewLoggerTruncates(p, argv) ==
    \E ok \in BOOLEAN :
        /\ loggers' = Append(loggers, [prefix |-> p, argv |-> argv, open |-> ok, remote |-> FALSE])
        /\ m_inst' = Len(loggers) + 1
        /\ exists' = IF ok THEN exists \union {p} ELSE exists
        /\ text' = IF ok THEN [text EXCEPT ![p] = {}] ELSE text

(* The constructor, which opens the fallback file if that is possible, and the
   assignment to m_inst.  A logger that was there before is not deleted.    *)
NewLogger(p, argv) ==
    \E ok \in BOOLEAN :
        /\ loggers' = Append(loggers, [prefix |-> p, argv |-> argv, open |-> ok, remote |-> FALSE])
        /\ m_inst' = Len(loggers) + 1
        /\ exists' = IF ok THEN exists \union {p} ELSE exists
        /\ UNCHANGED text

InitCreates(t) ==
    /\ Does(t, "init")
    /\ NewLogger(job[t].prefix, TRUE)
    /\ pc' = [pc EXCEPT ![t] = "client"]
    /\ UNCHANGED <<m_mutex, deleted, job, progress, exit, history>>

\* The client is created.
InitConnects(t) ==
    /\ Running
    /\ pc[t] = "client"
    /\ loggers' = [loggers EXCEPT ![m_inst].remote = TRUE]
    /\ Return(t)
    /\ UNCHANGED <<m_inst, deleted, files, job, progress, exit, history>>

\* Mutation of InitFallsBack: a message is noted.
InitFallsBackAsMessage(t) ==
    /\ Running
    /\ pc[t] = "client"
    /\ Write(m_inst, <<t, calls[t]>>)
    /\ Return(t)
    /\ UNCHANGED <<m_inst, loggers, deleted, exists, job, progress, exit, sent, late, undefined>>

\* Or its constructor throws, which is noted in the file.
InitFallsBack(t) ==
    /\ Running
    /\ pc[t] = "client"
    /\ Write(m_inst, Notice)
    /\ Return(t)
    /\ UNCHANGED <<m_inst, loggers, deleted, exists, job, progress, exit, sent, late, undefined>>

(* M_maybeInstanciate: there was no call of init.  It logs a warning, and so
   calls Logger::log, which waits for the mutex that this thread holds.     *)
Instantiate(t) ==
    /\ Does(t, "log") \/ Does(t, "except")
    /\ m_inst = 0
    /\ NewLogger(DefaultPrefix, FALSE)
    /\ pc' = [pc EXCEPT ![t] = "relocks"]
    /\ UNCHANGED <<m_mutex, deleted, job, progress, exit, history>>

-----------------------------------------------------------------------------
(* A message is logged.                                                     *)

ThisMessage(t) == <<t, calls[t]>>

LogToRemote(t) ==
    /\ Does(t, "log")
    /\ m_inst # 0 /\ ~deleted
    /\ loggers[m_inst].remote
    /\ sent' = sent \union {ThisMessage(t)}
    /\ Return(t)
    /\ UNCHANGED <<m_inst, loggers, deleted, files, job, progress, exit, dropped, late, undefined>>

\* Mutation of LogToFallback: the failure is logged.
LogToFallbackLoudly(t) ==
    /\ Does(t, "log") \/ Does(t, "except")
    /\ m_inst # 0 /\ ~deleted
    /\ Write(m_inst, ThisMessage(t))
    /\ pc' = [pc EXCEPT ![t] = "relocks"]
    /\ UNCHANGED <<m_mutex, m_inst, loggers, deleted, exists, job, progress, exit, sent, late, undefined>>

\* There is no client, or its send throws, or the message could not be built.
LogToFallback(t) ==
    /\ Does(t, "log") \/ Does(t, "except")
    /\ m_inst # 0 /\ ~deleted
    /\ Write(m_inst, ThisMessage(t))
    /\ Return(t)
    /\ UNCHANGED <<m_inst, loggers, deleted, exists, job, progress, exit, sent, late, undefined>>

\* There is no memory even for the text that tells so; serialize and log are noexcept.
Terminate(t) ==
    /\ Does(t, "log")
    /\ m_inst # 0 /\ ~deleted
    /\ exit' = "ended"
    /\ UNCHANGED <<m_mutex, m_inst, loggers, deleted, files, pc, job, progress, history>>

\* The logger is not there any more, m_inst still points to it.
LogToDeleted(t) ==
    /\ Does(t, "log") \/ Does(t, "except")
    /\ m_inst # 0 /\ deleted
    /\ undefined' = TRUE
    /\ UNCHANGED <<m_mutex, m_inst, loggers, deleted, files, pc, job, progress, exit, sent, dropped, late>>

-----------------------------------------------------------------------------
(* The process exits.  AutoDeleter does not take the mutex.                 *)

Exit ==
    /\ Running
    /\ exit = "runs" /\ pc[Main] = "idle"
    /\ exit' = IF m_inst = 0 THEN "done" ELSE "measures"
    /\ late' = \E t \in Threads : pc[t] # "idle"
    /\ UNCHANGED <<m_mutex, m_inst, loggers, deleted, files, pc, job, progress, sent, dropped, undefined>>

Fallback == loggers[m_inst].prefix

\* Mutation of Measure: the file is always kept.
MeasureKeeps ==
    /\ Running
    /\ exit = "measures"
    /\ exit' = "deletes"
    /\ UNCHANGED <<m_mutex, m_inst, loggers, deleted, files, pc, job, progress, history>>

\* ~Logger finds out the length of the file; of a file that is not there, too.
Measure ==
    /\ Running
    /\ exit = "measures"
    /\ exit' = IF Fallback \in exists /\ text[Fallback] # {} THEN "deletes" ELSE "removes"
    /\ UNCHANGED <<m_mutex, m_inst, loggers, deleted, files, pc, job, progress, history>>

RemoveFallback ==
    /\ Running
    /\ exit = "removes"
    /\ exists' = exists \ {Fallback}
    /\ exit' = "deletes"
    /\ UNCHANGED <<m_mutex, m_inst, loggers, deleted, text, pc, job, progress, history>>

\* The client and the logger are deleted; m_inst is left as it is.
DeleteLogger ==
    /\ Running
    /\ exit = "deletes"
    /\ deleted' = TRUE
    /\ exit' = "done"
    /\ UNCHANGED <<m_mutex, m_inst, loggers, files, pc, job, progress, history>>

End ==
    /\ Running
    /\ exit = "done"
    /\ exit' = "ended"
    /\ UNCHANGED <<m_mutex, m_inst, loggers, deleted, files, pc, job, progress, history>>

-----------------------------------------------------------------------------
Init ==
    /\ m_mutex = Nobody
    /\ m_inst = 0
    /\ loggers = <<>>
    /\ deleted = FALSE
    /\ exists = {}
    /\ text = [p \in Prefixes |-> {}]
    /\ pc = [t \in Threads |-> "idle"]
    /\ job = [t \in Threads |-> [op |-> "none", prefix |-> DefaultPrefix]]
    /\ calls = [t \in Threads |-> 0]
    /\ inits = 0
    /\ exit = "runs"
    /\ sent = {}
    /\ dropped = {}
    /\ late = FALSE
    /\ undefined = FALSE

\* What a thread does inside a call.
Step(t) ==
    \/ Lock(t)
    \/ InitCreates(t) \/ InitConnects(t) \/ InitFallsBack(t)
    \/ Instantiate(t)
    \/ LogToRemote(t) \/ LogToFallback(t) \/ Terminate(t) \/ LogToDeleted(t)

Exiting == Measure \/ RemoveFallback \/ DeleteLogger \/ End

Next ==
    \/ \E t \in Threads : LogCall(t) \/ InitCall(t) \/ Step(t)
    \/ Exit
    \/ Exiting

Spec == Init /\ [][Next]_vars

\* Threads run; calls are bounded, so none is kept from the mutex for ever.
FairSpec ==
    /\ Spec
    /\ \A t \in Threads : WF_vars(Step(t))
    /\ WF_vars(Exiting)

-----------------------------------------------------------------------------
(* Correctness.                                                             *)

\* The type of every variable.
TypeOK ==
    /\ m_mutex \in Threads \union {Nobody}
    /\ loggers \in Seq([prefix : Prefixes, argv : BOOLEAN, open : BOOLEAN, remote : BOOLEAN])
    /\ m_inst \in 0 .. Len(loggers)
    /\ deleted \in BOOLEAN
    /\ exists \subseteq Prefixes
    /\ text \in [Prefixes -> SUBSET (Message \union {Notice})]
    /\ pc \in [Threads -> {"idle", "waits", "in", "client", "relocks"}]
    /\ job \in [Threads -> [op : {"none", "init", "log", "except"}, prefix : Prefixes]]
    /\ calls \in [Threads -> 0 .. MaxCalls]
    /\ inits \in 0 .. MaxInits
    /\ exit \in {"runs", "measures", "removes", "deletes", "done", "ended"}
    /\ sent \subseteq Message
    /\ dropped \subseteq Message \union {Notice}
    /\ late \in BOOLEAN
    /\ undefined \in BOOLEAN

\* The messages whose call has returned.
Returned == {m \in Message : m[2] < calls[m[1]] \/ (m[2] = calls[m[1]] /\ pc[m[1]] = "idle")}

(* "If there's any problem, try to log the message in the fallback file": a
   message that was logged has been given to a client or can be read in a file
   that is still there, whatever was created since and even when the process
   has ended, unless the file could not be opened or the process exited while
   another thread was logging.                                              *)
MessagesKept ==
    ~late => \A m \in Returned :
        m \in sent \union dropped \/ \E p \in exists : m \in text[p]

(* "Remove the fallback log file if we haven't written anything into it": a
   process that exits leaves no empty file, unless a call of init has replaced
   the logger of that file by another.                                      *)
NoEmptyFileLeft ==
    exit = "done" /\ ~late => \A p \in exists :
        text[p] # {} \/ \E i \in 1 .. Len(loggers) : i # m_inst /\ loggers[i].prefix = p

\* A message was logged before the first call of init had the mutex.
UsedBeforeInit == \E i \in 1 .. Len(loggers) : ~loggers[i].argv

(* Every call of init and log returns, also when clients cannot be created,
   send throws or messages cannot be built, if the logger is not used before
   init and the process does not exit.                                      *)
CallsReturn ==
    \A t \in Threads :
        (pc[t] # "idle") ~> (pc[t] = "idle" \/ exit # "runs" \/ UsedBeforeInit)
=============================================================================
