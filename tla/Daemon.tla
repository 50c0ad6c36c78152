------------------------------- MODULE Daemon -------------------------------
(***************************************************************************)
(* lesf::daemon::daemonize (src/src/daemon/daemonize.cpp): invocations of  *)
(* one program that become daemons, compete for its lock file, run a       *)
(* service and clean up, and the signals that interrupt them anywhere.     *)
(*                                                                         *)
(* Each invocation is one process with one thread of interest: signals     *)
(* sent to a process are handled by its main thread, which does nothing    *)
(* else meanwhile.  A handler that crashes is interrupted by the next one  *)
(* and never resumed.  The kernel's part is the lock file: a name, the     *)
(* files that have had it, and one record lock per file, which a process   *)
(* loses when it closes the file or ends.                                  *)
(***************************************************************************)
EXTENDS Naturals, Sequences, SequencesExt

CONSTANTS
    Daemons,   \* the invocations of the program
    Pid,       \* Pid[d] is the pid of daemon d, as the sequence of its digits
    Stale,     \* what a file left by an earlier crash may hold
    Nobody     \* the holder of a lock that is free

ASSUME DaemonAssumption ==
    /\ Nobody \notin Daemons
    /\ Pid \in [Daemons -> Seq(0 .. 9) \ {<<>>}]
    /\ Stale \in Seq(0 .. 9)

VARIABLES
    \* processes
    pc,         \* where the main program of each daemon is
    handler,    \* the signal handler that interrupts it, if any, and where it is
    installed,  \* do SIGINT and SIGTERM call the handler?
    service,    \* the service of each daemon
    fd,         \* lockfile_fd: the file it refers to, 0 when it is not open
    \* file system
    files,      \* the files that have had the name of the lock file
    path,       \* the file that has it now, 0 if none
    \* history, not in the code
    killed,     \* daemons that the kernel has ended
    held,       \* daemons that have locked a file
    unlinked    \* has a daemon removed the name?

control == <<pc, handler>>
filesystem == <<files, path>>
vars == <<pc, handler, installed, service, fd, files, path, killed, held, unlinked>>

NoHandler == [why |-> "none", at |-> "none"]
Handling(why) == [why |-> why, at |-> "unlock"]

\* What a process executes: its handler, if there is one.
At(d, l) == IF handler[d].why = "none" THEN pc[d] = l ELSE handler[d].at = l

GoTo(d, l) ==
    IF handler[d].why = "none"
      THEN pc' = [pc EXCEPT ![d] = l] /\ UNCHANGED handler
      ELSE handler' = [handler EXCEPT ![d].at = l] /\ UNCHANGED pc

\* The locks that daemon d loses.
Released(d) ==
    [f \in DOMAIN files |->
        IF files[f].locker = d THEN [files[f] EXCEPT !.locker = Nobody] ELSE files[f]]

Runs(d, l) == handler[d].why = "none" /\ pc[d] = l

\* The process ends, whatever it was doing.
Ends(d) ==
    /\ pc' = [pc EXCEPT ![d] = "exited"]
    /\ handler' = [handler EXCEPT ![d] = NoHandler]
    /\ fd' = [fd EXCEPT ![d] = 0]
    /\ files' = Released(d)
    /\ installed' = [installed EXCEPT ![d] = FALSE]

-----------------------------------------------------------------------------
(* daemonize                                                                *)

Invoke(d) ==
    /\ pc[d] = "none"
    /\ pc' = [pc EXCEPT ![d] = "detach"]
    /\ UNCHANGED <<handler, installed, service, fd, filesystem, killed, held, unlinked>>

\* Two forks, whose parents exit; setsid, umask, chdir; the standard streams.
Detach(d) ==
    /\ Runs(d, "detach")
    /\ pc' = [pc EXCEPT ![d] = "open"]
    /\ UNCHANGED <<handler, installed, service, fd, filesystem, killed, held, unlinked>>

\* A system call fails, up to the opening of the lock file.
GiveUp(d) ==
    /\ Runs(d, "detach") \/ Runs(d, "open")
    /\ Ends(d)
    /\ UNCHANGED <<service, path, killed, held, unlinked>>

\* O_RDWR | O_CREAT: a file that is there is used as it is.
OpenLockFile(d) ==
    /\ Runs(d, "open")
    /\ IF path = 0
         THEN /\ files' = Append(files, [text |-> <<>>, locker |-> Nobody])
              /\ path' = Len(files) + 1
         ELSE UNCHANGED filesystem
    /\ fd' = [fd EXCEPT ![d] = path']
    /\ pc' = [pc EXCEPT ![d] = "lock"]
    /\ UNCHANGED <<handler, installed, service, killed, held, unlinked>>

\* Mutation of LockFile: the result of lockf is not tested.
LockAnyway(d) ==
    /\ Runs(d, "lock")
    /\ files' = [files EXCEPT ![fd[d]].locker = IF @ = Nobody THEN d ELSE @]
    /\ held' = held \union {d}
    /\ pc' = [pc EXCEPT ![d] = "write"]
    /\ UNCHANGED <<handler, installed, service, fd, path, killed, unlinked>>

LockFile(d) ==
    /\ Runs(d, "lock")
    /\ files[fd[d]].locker = Nobody
    /\ files' = [files EXCEPT ![fd[d]].locker = d]
    /\ held' = held \union {d}
    /\ pc' = [pc EXCEPT ![d] = "write"]
    /\ UNCHANGED <<handler, installed, service, fd, path, killed, unlinked>>

LockRefused(d) ==
    /\ Runs(d, "lock")
    /\ files[fd[d]].locker # Nobody
    /\ Ends(d)
    /\ UNCHANGED <<service, path, killed, held, unlinked>>

\* Mutation of WritePid: the file is opened with O_APPEND.
AppendPid(d) ==
    /\ Runs(d, "write")
    /\ files' = [files EXCEPT ![fd[d]].text = @ \o Pid[d]]
    /\ pc' = [pc EXCEPT ![d] = "install"]
    /\ UNCHANGED <<handler, installed, service, fd, path, killed, held, unlinked>>

\* Mutation of WritePid: the pid is followed by a newline.
WritePidLine(d) ==
    /\ Runs(d, "write")
    /\ files' = [files EXCEPT ![fd[d]].text =
                    Pid[d] \o <<10>> \o SubSeq(@, Len(Pid[d]) + 2, Len(@))]
    /\ pc' = [pc EXCEPT ![d] = "install"]
    /\ UNCHANGED <<handler, installed, service, fd, path, killed, held, unlinked>>

\* The digits are written over the first ones of the file, which keeps the rest.
WritePid(d) ==
    /\ Runs(d, "write")
    /\ files' = [files EXCEPT ![fd[d]].text =
                    Pid[d] \o SubSeq(@, Len(Pid[d]) + 1, Len(@))]
    /\ pc' = [pc EXCEPT ![d] = "install"]
    /\ UNCHANGED <<handler, installed, service, fd, path, killed, held, unlinked>>

\* The signal handlers; the header of the log.
InstallHandlers(d) ==
    /\ Runs(d, "install")
    /\ installed' = [installed EXCEPT ![d] = TRUE]
    /\ pc' = [pc EXCEPT ![d] = "start"]
    /\ UNCHANGED <<handler, service, fd, filesystem, killed, held, unlinked>>

CreateService(d) ==
    /\ Runs(d, "start")
    /\ service' = [service EXCEPT ![d] = "up"]
    /\ pc' = [pc EXCEPT ![d] = "run"]
    /\ UNCHANGED <<handler, installed, fd, filesystem, killed, held, unlinked>>

\* run returns once the service has been stopped, before or during the call.
RunReturns(d) ==
    /\ Runs(d, "run")
    /\ service[d] = "stopped"
    /\ pc' = [pc EXCEPT ![d] = "delete"]
    /\ UNCHANGED <<handler, installed, service, fd, filesystem, killed, held, unlinked>>

\* It may also return because the service has nothing left to do.
ServiceEnds(d) ==
    /\ Runs(d, "run")
    /\ service[d] = "up"
    /\ pc' = [pc EXCEPT ![d] = "delete"]
    /\ UNCHANGED <<handler, installed, service, fd, filesystem, killed, held, unlinked>>

DeleteService(d) ==
    /\ Runs(d, "delete")
    /\ service' = [service EXCEPT ![d] = "deleted"]
    /\ pc' = [pc EXCEPT ![d] = "unlock"]
    /\ UNCHANGED <<handler, installed, fd, filesystem, killed, held, unlinked>>

Exit(d) ==
    /\ Runs(d, "cleaned")
    /\ Ends(d)
    /\ UNCHANGED <<service, path, killed, held, unlinked>>

-----------------------------------------------------------------------------
(* daemon_try_cleanup, called by daemonize and by the handlers.             *)

(* lockf unlocks the file from the current offset, the end of the pid that was
   written: whoever wants to lock the file from its beginning is still refused.
   A descriptor that has been closed is refused too.                        *)
Unlock(d) ==
    /\ At(d, "unlock")
    /\ GoTo(d, "close")
    /\ UNCHANGED <<installed, service, fd, filesystem, killed, held, unlinked>>

\* Closing the file gives the lock up.
CloseLockFile(d) ==
    /\ At(d, "close")
    /\ fd' = [fd EXCEPT ![d] = 0]
    /\ files' = Released(d)
    /\ GoTo(d, "unlink")
    /\ UNCHANGED <<installed, service, path, killed, held, unlinked>>

\* Mutation of Unlink: the file is not removed.
UnlinkNothing(d) ==
    /\ At(d, "unlink")
    /\ unlinked' = TRUE
    /\ GoTo(d, "cleaned")
    /\ UNCHANGED <<installed, service, fd, files, path, killed, held>>

\* Whichever file has the name by now.
Unlink(d) ==
    /\ At(d, "unlink")
    /\ path' = 0
    /\ unlinked' = TRUE
    /\ GoTo(d, "cleaned")
    /\ UNCHANGED <<installed, service, fd, files, killed, held>>

-----------------------------------------------------------------------------
(* daemon_signal_handler                                                    *)

\* A process that executes nothing but its main program.
Interruptible(d) == handler[d].why = "none" /\ installed[d]

\* SIGINT or SIGTERM.
Terminate(d) ==
    /\ Interruptible(d)
    /\ handler' = [handler EXCEPT ![d] = Handling("term")]
    /\ UNCHANGED <<pc, installed, service, fd, filesystem, killed, held, unlinked>>

\* SIGHUP: a service that is there restarts, which changes nothing here.  A
\* null pointer is fatal, a dangling one may be.
HangUp(d) ==
    /\ Interruptible(d)
    /\ service[d] \in {"none", "deleted"}
    /\ handler' = [handler EXCEPT ![d] = Handling("segv")]
    /\ UNCHANGED <<pc, installed, service, fd, filesystem, killed, held, unlinked>>

\* SIGSEGV or SIGABRT, raised by the service.
Crash(d) ==
    /\ Runs(d, "run")
    /\ \E why \in {"segv", "abrt"} : handler' = [handler EXCEPT ![d] = Handling(why)]
    /\ UNCHANGED <<pc, installed, service, fd, filesystem, killed, held, unlinked>>

Handles(d, why) == handler[d] = [why |-> why, at |-> "cleaned"]

\* The service is told to stop.
StopService(d) ==
    /\ Handles(d, "term")
    /\ service[d] # "none"
    /\ service' = [service EXCEPT ![d] = IF @ = "up" THEN "stopped" ELSE @]
    /\ handler' = [handler EXCEPT ![d].at = "reset"]
    /\ UNCHANGED <<pc, installed, fd, filesystem, killed, held, unlinked>>

\* There is no service: SIGSEGV.
StopNoService(d) ==
    /\ Handles(d, "term")
    /\ service[d] \in {"none", "deleted"}
    /\ handler' = [handler EXCEPT ![d] = Handling("segv")]
    /\ UNCHANGED <<pc, installed, service, fd, filesystem, killed, held, unlinked>>

\* The handler returns; the next such signal ends the process.
ResetSignal(d) ==
    /\ handler[d] = [why |-> "term", at |-> "reset"]
    /\ installed' = [installed EXCEPT ![d] = FALSE]
    /\ handler' = [handler EXCEPT ![d] = NoHandler]
    /\ UNCHANGED <<pc, service, fd, filesystem, killed, held, unlinked>>

\* After SIGSEGV, SIGABRT is raised.
Abort(d) ==
    /\ Handles(d, "segv")
    /\ handler' = [handler EXCEPT ![d] = Handling("abrt")]
    /\ UNCHANGED <<pc, installed, service, fd, filesystem, killed, held, unlinked>>

\* Mutation of Die: the handler of SIGABRT is still installed.
DieAgain(d) ==
    /\ Handles(d, "abrt")
    /\ handler' = [handler EXCEPT ![d] = Handling("abrt")]
    /\ UNCHANGED <<pc, installed, service, fd, filesystem, killed, held, unlinked>>

\* SIGABRT again, with its default action.
Die(d) ==
    /\ Handles(d, "abrt")
    /\ Ends(d)
    /\ UNCHANGED <<service, path, killed, held, unlinked>>

\* SIGKILL, or a signal that has its default action, ends the process.
Kill(d) ==
    /\ pc[d] \notin {"none", "exited"}
    /\ Ends(d)
    /\ killed' = killed \union {d}
    /\ UNCHANGED <<service, path, held, unlinked>>

-----------------------------------------------------------------------------
\* No file has the name, or one that an earlier crash has left.
Init ==
    /\ pc = [d \in Daemons |-> "none"]
    /\ handler = [d \in Daemons |-> NoHandler]
    /\ installed = [d \in Daemons |-> FALSE]
    /\ service = [d \in Daemons |-> "none"]
    /\ fd = [d \in Daemons |-> 0]
    /\ \/ files = <<>> /\ path = 0
       \/ files = <<[text |-> Stale, locker |-> Nobody]>> /\ path = 1
    /\ killed = {}
    /\ held = {}
    /\ unlinked = FALSE

\* What a daemon does of itself.
DaemonStep(d) ==
    \/ Detach(d) \/ GiveUp(d)
    \/ OpenLockFile(d) \/ LockFile(d) \/ LockRefused(d) \/ WritePid(d)
    \/ InstallHandlers(d)
    \/ CreateService(d) \/ RunReturns(d) \/ DeleteService(d) \/ Exit(d)
    \/ Unlock(d) \/ CloseLockFile(d) \/ Unlink(d)
    \/ StopService(d) \/ StopNoService(d) \/ ResetSignal(d) \/ Abort(d) \/ Die(d)

\* What happens to it.
Event(d) == Invoke(d) \/ ServiceEnds(d) \/ Terminate(d) \/ HangUp(d) \/ Crash(d) \/ Kill(d)

Next == \E d \in Daemons : DaemonStep(d) \/ Event(d)

Spec == Init /\ [][Next]_vars

(* Processes run, and a service that has been told to stop returns from run.
   Nothing makes a signal be sent.                                          *)
Fairness == \A d \in Daemons : WF_vars(DaemonStep(d))

FairSpec == Spec /\ Fairness

-----------------------------------------------------------------------------
(* Correctness.                                                             *)

\* The type of every variable.
TypeOK ==
    /\ pc \in [Daemons -> {"none", "detach", "open", "lock", "write", "install", "start", "run",
                           "delete", "unlock", "close", "unlink", "cleaned", "exited"}]
    /\ handler \in [Daemons -> [why : {"none", "term", "segv", "abrt"},
                                at : {"none", "unlock", "close", "unlink", "cleaned", "reset"}]]
    /\ installed \in [Daemons -> BOOLEAN]
    /\ service \in [Daemons -> {"none", "up", "stopped", "deleted"}]
    /\ files \in Seq([text : Seq(0 .. 9), locker : Daemons \union {Nobody}])
    /\ path \in 0 .. Len(files)
    /\ fd \in [Daemons -> 0 .. Len(files)]
    /\ killed \subseteq Daemons
    /\ held \subseteq Daemons
    /\ unlinked \in BOOLEAN

\* The daemon has the lock and has not begun to clean up.
Active(d) ==
    handler[d].why = "none" /\ fd[d] # 0
        /\ pc[d] \in {"write", "install", "start", "run", "delete", "unlock", "close"}

\* A daemon that is active holds the lock of its file, and once it has
\* written its pid, nobody writes over it there.
PidInFile ==
    \A d \in Daemons : Active(d) =>
        /\ files[fd[d]].locker = d
        /\ pc[d] # "write" => IsPrefix(Pid[d], files[fd[d]].text)

\* At most one daemon is active.
OneDaemon == \A c, d \in Daemons : Active(c) /\ Active(d) => c = d

\* The lock file does what it is there for until a daemon removes it, daemons
\* that are killed and files they leave notwithstanding.
OneDaemonUntilUnlink == ~unlinked => OneDaemon

(* Daemons that start while others clean up, or that clean up twice, remove
   each other's files but leave none: once the daemons have ended and none
   was killed, the name of the lock file is free.                           *)
NothingLeftBehind ==
    killed = {} /\ held # {} /\ (\A d \in Daemons : pc[d] \in {"none", "exited"}) => path = 0

\* A daemon that has caught a signal ends, wherever the signal finds it.
EndsWhenTold == \A d \in Daemons : (handler[d].why # "none") ~> (pc[d] = "exited")
=============================================================================
