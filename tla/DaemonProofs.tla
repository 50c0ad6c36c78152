---------------------------- MODULE DaemonProofs ----------------------------
(* Theorems about module Daemon, for any number of invocations, any pids and
   any file left by an earlier crash.                                       *)
EXTENDS Daemon, SequenceTheorems, TLAPS

Texts == [text : Seq(0 .. 9), locker : Daemons \union {Nobody}]

-----------------------------------------------------------------------------
(* Where the descriptor of the lock file is open.                           *)

\* What daemon d executes, if it has the file open.
OpenAt(d) ==
    \/ handler[d].why = "none"
         /\ pc[d] \in {"lock", "write", "install", "start", "run", "delete", "unlock", "close"}
    \/ handler[d].why # "none" /\ handler[d].at \in {"unlock", "close"}

\* The places where a handler may find the main program.
Interrupted(d) ==
    pc[d] \in {"start", "run", "delete", "unlock", "close", "unlink", "cleaned"}

DescriptorInv ==
    \A d \in Daemons :
        /\ fd[d] # 0 => OpenAt(d)
        /\ pc[d] \in {"lock", "write", "install"} => fd[d] # 0
        /\ installed[d] \/ handler[d].why # "none" => Interrupted(d)
        /\ handler[d].why # "none" <=> handler[d].at # "none"

-----------------------------------------------------------------------------
(* What the operations on files do.                                         *)

\* A lock that is given up changes nothing else.
LEMMA ReleasedFiles ==
    ASSUME files \in Seq(Texts), NEW d \in Daemons
    PROVE  /\ Released(d) \in Seq(Texts)
           /\ Len(Released(d)) = Len(files)
           /\ \A f \in 1 .. Len(files) :
                 /\ Released(d)[f].text = files[f].text
                 /\ Released(d)[f].locker = IF files[f].locker = d THEN Nobody ELSE files[f].locker
  <1>1. files \in [1 .. Len(files) -> Texts] /\ Len(files) \in Nat /\ DOMAIN files = 1 .. Len(files)
    OBVIOUS
  <1>2. Released(d) \in [1 .. Len(files) -> Texts]
    BY <1>1 DEF Released, Texts
  <1>3. Released(d) \in Seq(Texts) /\ Len(Released(d)) = Len(files)
    BY <1>1, <1>2
  <1>4. QED
    BY <1>1, <1>3 DEF Released, Texts

\* Locking one file.
LEMMA LockedFiles ==
    ASSUME files \in Seq(Texts), NEW d \in Daemons, NEW n \in 1 .. Len(files)
    PROVE  LET locked == [files EXCEPT ![n].locker = d]
           IN  /\ locked \in Seq(Texts)
               /\ Len(locked) = Len(files)
               /\ \A f \in 1 .. Len(files) :
                     /\ locked[f].text = files[f].text
                     /\ locked[f].locker = IF f = n THEN d ELSE files[f].locker
  <1> DEFINE file   == [files[n] EXCEPT !.locker = d]
             locked == [files EXCEPT ![n].locker = d]
  <1>1. files[n] \in Texts
    BY ElementOfSeq
  <1>2. file \in Texts /\ file.text = files[n].text /\ file.locker = d
    BY <1>1 DEF Texts
  <1>3. locked = [files EXCEPT ![n] = file]
    OBVIOUS
  <1>4. /\ locked \in Seq(Texts) /\ Len(locked) = Len(files)
        /\ \A f \in 1 .. Len(files) : locked[f] = IF f = n THEN file ELSE files[f]
    BY <1>2, <1>3, ExceptSeq
  <1>5. QED
    BY <1>2, <1>4

\* Writing a pid over the text of one file.
Overwritten(pid, n) ==
    [files EXCEPT ![n].text = pid \o SubSeq(@, Len(pid) + 1, Len(@))]

LEMMA WrittenFiles ==
    ASSUME files \in Seq(Texts), NEW pid \in Seq(0 .. 9), NEW n \in 1 .. Len(files)
    PROVE  /\ Overwritten(pid, n) \in Seq(Texts)
           /\ Len(Overwritten(pid, n)) = Len(files)
           /\ \A f \in 1 .. Len(files) :
                 /\ Overwritten(pid, n)[f].locker = files[f].locker
                 /\ f # n => Overwritten(pid, n)[f].text = files[f].text
           /\ IsPrefix(pid, Overwritten(pid, n)[n].text)
  <1> DEFINE old  == files[n].text
             rest == SubSeq(old, Len(pid) + 1, Len(old))
             text == pid \o rest
             over == Overwritten(pid, n)
  <1>0. files[n] \in Texts
    BY ElementOfSeq
  <1>1. files[n] \in Texts /\ old \in Seq(0 .. 9)
    BY <1>0 DEF Texts
  <1>2. rest \in Seq(0 .. 9)
    BY <1>1
  <1>3. text \in Seq(0 .. 9) /\ Len(pid) <= Len(text) /\ \A i \in 1 .. Len(pid) : text[i] = pid[i]
    BY <1>2
  <1>4. over = [files EXCEPT ![n] = [files[n] EXCEPT !.text = text]]
    BY DEF Overwritten
  <1>5. [files[n] EXCEPT !.text = text] \in Texts
    BY <1>1, <1>3 DEF Texts
  <1>6. over \in Seq(Texts) /\ Len(over) = Len(files)
    BY <1>4, <1>5
  <1>7. \A f \in 1 .. Len(files) :
             /\ over[f].locker = files[f].locker
             /\ f # n => over[f].text = files[f].text
    BY <1>1, <1>4 DEF Texts
  <1>8. over[n].text = text
    BY <1>1, <1>4 DEF Texts
  <1>9. SubSeq(pid, 1, Len(pid)) = SubSeq(text, 1, Len(pid))
    BY <1>3, SubSeqFull, SubSeqOfConcat1
  <1>10. IsPrefix(pid, over[n].text)
    BY <1>3, <1>8, <1>9 DEF IsPrefix
  <1>11. QED
    BY <1>6, <1>7, <1>10

-----------------------------------------------------------------------------
(* Types.                                                                   *)

Handlers ==
    [why : {"none", "term", "segv", "abrt"},
     at : {"none", "unlock", "close", "unlink", "cleaned", "reset"}]

Places ==
    {"none", "detach", "open", "lock", "write", "install", "start", "run",
     "delete", "unlock", "close", "unlink", "cleaned", "exited"}

\* A step of the cleanup is one of the main program or one of its handler.
LEMMA CleanupStep ==
    ASSUME handler \in [Daemons -> Handlers], pc \in [Daemons -> Places],
           NEW d \in Daemons, NEW l \in {"close", "unlink", "cleaned"}, GoTo(d, l)
    PROVE  /\ handler' \in [Daemons -> Handlers] /\ pc' \in [Daemons -> Places]
           /\ \A c \in Daemons : c # d => handler'[c] = handler[c] /\ pc'[c] = pc[c]
           /\ handler'[d].why = handler[d].why
           /\ IF handler[d].why = "none"
                THEN pc'[d] = l /\ handler'[d] = handler[d]
                ELSE handler'[d].at = l /\ pc'[d] = pc[d]
  <1>1. CASE handler[d].why = "none"
    BY <1>1 DEF GoTo, Places
  <1>2. CASE handler[d].why # "none"
    <2> DEFINE h == [handler[d] EXCEPT !.at = l]
    <2>1. h \in Handlers /\ h.why = handler[d].why /\ h.at = l
      BY DEF Handlers
    <2>2. handler' = [handler EXCEPT ![d] = h] /\ pc' = pc
      BY <1>2 DEF GoTo
    <2>3. QED
      BY <1>2, <2>1, <2>2
  <1>3. QED
    BY <1>1, <1>2

TypeInv == TypeOK /\ DescriptorInv

\* A process that ends keeps types.
LEMMA EndsType ==
    ASSUME TypeInv, NEW d \in Daemons, Ends(d), UNCHANGED <<service, path, held, unlinked>>,
           killed' \subseteq Daemons
    PROVE  TypeInv'
  <1>1. files' \in Seq(Texts) /\ Len(files') = Len(files)
    BY ReleasedFiles DEF TypeInv, TypeOK, Texts, Ends
  <1>2. TypeOK'
    BY <1>1 DEF TypeInv, TypeOK, Texts, Ends, NoHandler
  <1>3. DescriptorInv'
    BY DEF TypeInv, TypeOK, DescriptorInv, OpenAt, Interrupted, Ends, NoHandler
  <1>4. QED
    BY <1>2, <1>3 DEF TypeInv

LEMMA TypeInit == Init => TypeInv
  <1> SUFFICES ASSUME Init PROVE TypeInv
    OBVIOUS
  <1> DEFINE old == [text |-> Stale, locker |-> Nobody]
  <1>0. old \in Texts
    BY DaemonAssumption DEF Texts
  <1>1. files \in Seq(Texts) /\ path \in 0 .. Len(files) /\ Len(files) \in Nat
    <2>1. CASE files = <<>> /\ path = 0
      BY <2>1
    <2>2. CASE files = <<old>> /\ path = 1
      <3>1. <<old>> \in Seq(Texts) /\ Len(<<old>>) = 1
        BY <1>0
      <3>2. QED
        BY <2>2, <3>1
    <2>3. QED
      BY <2>1, <2>2 DEF Init
  <1>2. TypeOK
    <2>1. fd \in [Daemons -> 0 .. Len(files)]
      BY <1>1 DEF Init
    <2>2. NoHandler \in Handlers
      BY DEF NoHandler, Handlers
    <2>3. handler \in [Daemons -> Handlers]
      BY <2>2 DEF Init
    <2>4. QED
      BY <1>1, <2>1, <2>3 DEF Init, TypeOK, Texts, Handlers
  <1>3. DescriptorInv
    BY DEF Init, DescriptorInv, NoHandler
  <1>4. QED
    BY <1>2, <1>3 DEF TypeInv

LEMMA TypeStep == TypeInv /\ [Next]_vars => TypeInv'
  <1> SUFFICES ASSUME TypeInv, [Next]_vars PROVE TypeInv'
    OBVIOUS
  <1> USE DEF TypeInv, TypeOK, Texts, DescriptorInv, OpenAt, Interrupted
  <1>1. ASSUME NEW d \in Daemons, Invoke(d) PROVE TypeInv'
    BY <1>1 DEF Invoke, filesystem
  <1>2. ASSUME NEW d \in Daemons, Detach(d) PROVE TypeInv'
    BY <1>2 DEF Detach, filesystem, Runs
  <1>3. ASSUME NEW d \in Daemons, GiveUp(d) PROVE TypeInv'
    BY <1>3, EndsType DEF GiveUp, TypeInv, TypeOK
  <1>4. ASSUME NEW d \in Daemons, OpenLockFile(d) PROVE TypeInv'
    <2> DEFINE new == [text |-> <<>>, locker |-> Nobody]
    <2>0. new \in Texts
      OBVIOUS
    <2>1. files' \in Seq(Texts) /\ Len(files') \in Nat /\ Len(files') >= Len(files)
      <3>1. CASE path = 0
        <4>1. Append(files, new) \in Seq(Texts) /\ Len(Append(files, new)) = Len(files) + 1
          BY <2>0
        <4>2. files' = Append(files, new)
          BY <1>4, <3>1 DEF OpenLockFile
        <4>3. QED
          BY <4>1, <4>2
      <3>2. CASE path # 0
        BY <1>4, <3>2 DEF OpenLockFile, filesystem
      <3>3. QED
        BY <3>1, <3>2
    <2>2. path' \in 1 .. Len(files')
      BY <1>4, <2>1 DEF OpenLockFile, filesystem
    <2>3. QED
      BY <1>4, <2>1, <2>2 DEF OpenLockFile, Runs
  <1>5. ASSUME NEW d \in Daemons, LockFile(d) PROVE TypeInv'
    <2>1. fd[d] \in 1 .. Len(files)
      BY <1>5 DEF LockFile, Runs
    <2>2. files' \in Seq(Texts) /\ Len(files') = Len(files)
      BY <1>5, <2>1, LockedFiles DEF LockFile
    <2>3. QED
      BY <1>5, <2>2 DEF LockFile, Runs
  <1>6. ASSUME NEW d \in Daemons, LockRefused(d) PROVE TypeInv'
    BY <1>6, EndsType DEF LockRefused, TypeInv, TypeOK
  <1>7. ASSUME NEW d \in Daemons, WritePid(d) PROVE TypeInv'
    <2>0. Pid[d] \in Seq(0 .. 9)
      BY DaemonAssumption
    <2>1. fd[d] \in 1 .. Len(files)
      BY <1>7 DEF WritePid, Runs
    <2>2. files' = Overwritten(Pid[d], fd[d])
      BY <1>7 DEF WritePid, Overwritten
    <2>3. files' \in Seq(Texts) /\ Len(files') = Len(files)
      BY <2>0, <2>1, <2>2, WrittenFiles
    <2>4. QED
      BY <1>7, <2>3 DEF WritePid, Runs
  <1>8. ASSUME NEW d \in Daemons, InstallHandlers(d) PROVE TypeInv'
    BY <1>8 DEF InstallHandlers, filesystem, Runs
  <1>9. ASSUME NEW d \in Daemons, CreateService(d) PROVE TypeInv'
    BY <1>9 DEF CreateService, filesystem, Runs
  <1>10. ASSUME NEW d \in Daemons, RunReturns(d) PROVE TypeInv'
    BY <1>10 DEF RunReturns, filesystem, Runs
  <1>11. ASSUME NEW d \in Daemons, ServiceEnds(d) PROVE TypeInv'
    BY <1>11 DEF ServiceEnds, filesystem, Runs
  <1>12. ASSUME NEW d \in Daemons, DeleteService(d) PROVE TypeInv'
    BY <1>12 DEF DeleteService, filesystem, Runs
  <1>13. ASSUME NEW d \in Daemons, Exit(d) PROVE TypeInv'
    BY <1>13, EndsType DEF Exit, TypeInv, TypeOK
  <1>14. ASSUME NEW d \in Daemons, Unlock(d) PROVE TypeInv'
    <2>1. handler \in [Daemons -> Handlers] /\ pc \in [Daemons -> Places] /\ GoTo(d, "close")
      BY <1>14 DEF Unlock, Handlers, Places
    <2>2. handler' \in [Daemons -> Handlers] /\ pc' \in [Daemons -> Places]
      BY <2>1, CleanupStep
    <2>3. TypeOK'
      BY <1>14, <2>2 DEF Unlock, Handlers, Places, filesystem
    <2>4. DescriptorInv'
      BY <1>14, <2>1, CleanupStep DEF Unlock, At, filesystem
    <2>5. QED
      BY <2>3, <2>4
  <1>15. ASSUME NEW d \in Daemons, CloseLockFile(d) PROVE TypeInv'
    <2>0. files' \in Seq(Texts) /\ Len(files') = Len(files)
      BY <1>15, ReleasedFiles DEF CloseLockFile
    <2>1. handler \in [Daemons -> Handlers] /\ pc \in [Daemons -> Places] /\ GoTo(d, "unlink")
      BY <1>15 DEF CloseLockFile, Handlers, Places
    <2>2. handler' \in [Daemons -> Handlers] /\ pc' \in [Daemons -> Places]
      BY <2>1, CleanupStep
    <2>a. fd' \in [Daemons -> 0 .. Len(files')] /\ path' \in 0 .. Len(files')
      BY <1>15, <2>0 DEF CloseLockFile
    <2>3. TypeOK'
      BY <1>15, <2>0, <2>a, <2>2 DEF CloseLockFile, Handlers, Places
    <2>4. DescriptorInv'
      BY <1>15, <2>1, CleanupStep DEF CloseLockFile, At, filesystem
    <2>5. QED
      BY <2>3, <2>4
  <1>16. ASSUME NEW d \in Daemons, Unlink(d) PROVE TypeInv'
    <2>1. handler \in [Daemons -> Handlers] /\ pc \in [Daemons -> Places] /\ GoTo(d, "cleaned")
      BY <1>16 DEF Unlink, Handlers, Places
    <2>2. handler' \in [Daemons -> Handlers] /\ pc' \in [Daemons -> Places]
      BY <2>1, CleanupStep
    <2>3. TypeOK'
      BY <1>16, <2>2 DEF Unlink, Handlers, Places, filesystem
    <2>4. DescriptorInv'
      BY <1>16, <2>1, CleanupStep DEF Unlink, At, filesystem
    <2>5. QED
      BY <2>3, <2>4
  <1>17. ASSUME NEW d \in Daemons, Terminate(d) PROVE TypeInv'
    BY <1>17 DEF Terminate, filesystem, Handling, Interruptible
  <1>18. ASSUME NEW d \in Daemons, HangUp(d) PROVE TypeInv'
    BY <1>18 DEF HangUp, filesystem, Handling, Interruptible
  <1>19. ASSUME NEW d \in Daemons, Crash(d) PROVE TypeInv'
    BY <1>19 DEF Crash, filesystem, Runs, Handling
  <1>20. ASSUME NEW d \in Daemons, StopService(d) PROVE TypeInv'
    BY <1>20 DEF StopService, filesystem, Handles
  <1>21. ASSUME NEW d \in Daemons, StopNoService(d) PROVE TypeInv'
    BY <1>21 DEF StopNoService, filesystem, Handling, Handles
  <1>22. ASSUME NEW d \in Daemons, ResetSignal(d) PROVE TypeInv'
    BY <1>22 DEF ResetSignal, filesystem, NoHandler
  <1>23. ASSUME NEW d \in Daemons, Abort(d) PROVE TypeInv'
    BY <1>23 DEF Abort, filesystem, Handling, Handles
  <1>24. ASSUME NEW d \in Daemons, Die(d) PROVE TypeInv'
    BY <1>24, EndsType DEF Die, TypeInv, TypeOK
  <1>25. ASSUME NEW d \in Daemons, Kill(d) PROVE TypeInv'
    BY <1>25, EndsType DEF Kill, TypeInv, TypeOK
  <1>26. CASE UNCHANGED vars
    BY <1>26 DEF vars
  <1>27. QED
    BY <1>1, <1>2, <1>3, <1>4, <1>5, <1>6, <1>7, <1>8, <1>9, <1>10, <1>11, <1>12, <1>13,
       <1>14, <1>15, <1>16, <1>17, <1>18, <1>19, <1>20, <1>21, <1>22, <1>23, <1>24, <1>25,
       <1>26
       DEF Next, DaemonStep, Event

(* Every variable keeps its type: in particular a file that is written or
   locked is one that the daemon has opened, and a pid is made of digits.   *)
THEOREM TypeCorrect == Spec => []TypeOK
  <1>1. Spec => []TypeInv
    BY TypeInit, TypeStep, PTL DEF Spec
  <1>2. TypeInv => TypeOK
    BY DEF TypeInv
  <1>3. QED
    BY <1>1, <1>2, PTL

-----------------------------------------------------------------------------
(* The lock and the pid.                                                    *)

\* Has daemon d locked its file, and not closed it since?
Locking(d) == fd[d] # 0 /\ pc[d] # "lock"

LockInv ==
    /\ \A d \in Daemons : Locking(d) => files[fd[d]].locker = d /\ d \in held
    /\ \A f \in 1 .. Len(files) : \A d \in Daemons :
          files[f].locker = d => fd[d] = f /\ Locking(d)

PidInv ==
    \A d \in Daemons :
        Locking(d) /\ pc[d] # "write" => IsPrefix(Pid[d], files[fd[d]].text)

FileInv == LockInv /\ PidInv

LEMMA FileInit == Init => FileInv
  <1> SUFFICES ASSUME Init PROVE FileInv
    OBVIOUS
  <1>1. \A f \in 1 .. Len(files) : files[f].locker = Nobody
    BY DEF Init
  <1>2. QED
    BY <1>1, DaemonAssumption DEF Init, FileInv, LockInv, PidInv, Locking

\* Most steps do not touch the files.
LEMMA FileStays ==
    ASSUME FileInv, UNCHANGED <<files, fd, held>>,
           \A d \in Daemons : /\ pc'[d] = "lock" <=> pc[d] = "lock"
                              /\ pc[d] = "write" => pc'[d] = "write"
    PROVE  FileInv'
  BY DEF FileInv, LockInv, PidInv, Locking

\* A daemon that closes its file or ends gives up its own lock only.
LEMMA FileReleased ==
    ASSUME TypeInv, FileInv, NEW d \in Daemons,
           files' = Released(d), fd' = [fd EXCEPT ![d] = 0], held' = held,
           \A c \in Daemons : c # d => pc'[c] = pc[c]
    PROVE  FileInv'
  <1> USE DaemonAssumption DEF FileInv, LockInv, PidInv, Locking
  <1>1. /\ Len(files') = Len(files)
        /\ \A f \in 1 .. Len(files) :
              /\ files'[f].text = files[f].text
              /\ files'[f].locker = IF files[f].locker = d THEN Nobody ELSE files[f].locker
    BY ReleasedFiles DEF TypeInv, TypeOK, Texts
  <1>2. \A c \in Daemons : /\ fd[c] \in 0 .. Len(files)
                           /\ fd'[c] = IF c = d THEN 0 ELSE fd[c]
    BY DEF TypeInv, TypeOK
  <1>3. \A c \in Daemons : Locking(c)' => c # d /\ Locking(c)
    BY <1>2
  <1>4. LockInv'
    <2>1. \A c \in Daemons : Locking(c)' => files'[fd'[c]].locker = c /\ c \in held'
      BY <1>1, <1>2, <1>3
    <2>2. ASSUME NEW f \in 1 .. Len(files'), NEW c \in Daemons, files'[f].locker = c
          PROVE  fd'[c] = f /\ Locking(c)'
      <3>1. f \in 1 .. Len(files) /\ c # d /\ files[f].locker = c
        BY <1>1, <2>2
      <3>2. QED
        BY <1>2, <3>1
    <2>3. QED
      BY <2>1, <2>2
  <1>5. PidInv'
    BY <1>1, <1>2, <1>3
  <1>6. QED
    BY <1>4, <1>5

LEMMA FileStep == TypeInv /\ FileInv /\ [Next]_vars => FileInv'
  <1> SUFFICES ASSUME TypeInv, FileInv, [Next]_vars PROVE FileInv'
    OBVIOUS
  <1>a. /\ fd \in [Daemons -> 0 .. Len(files)] /\ Len(files) \in Nat
        /\ files \in Seq(Texts)
        /\ pc \in [Daemons -> Places]
        /\ handler \in [Daemons -> Handlers]
    BY DEF TypeInv, TypeOK, Texts, Handlers, Places
  <1>b. \A d \in Daemons : Pid[d] \in Seq(0 .. 9)
    BY DaemonAssumption
  <1>1. ASSUME NEW d \in Daemons, Invoke(d) PROVE FileInv'
    BY <1>1, <1>a, FileStays DEF Invoke, filesystem, Runs, At, Ends
  <1>2. ASSUME NEW d \in Daemons, Detach(d) PROVE FileInv'
    BY <1>2, <1>a, FileStays DEF Detach, filesystem, Runs, At, Ends
  <1>3. ASSUME NEW d \in Daemons, GiveUp(d) PROVE FileInv'
    BY <1>3, <1>a, FileReleased DEF GiveUp, Ends
  <1>4. ASSUME NEW d \in Daemons, OpenLockFile(d) PROVE FileInv'
    <2>1. fd[d] = 0
      BY <1>4 DEF OpenLockFile, Runs, TypeInv, DescriptorInv, OpenAt
    <2>2. /\ Len(files') >= Len(files)
          /\ \A f \in 1 .. Len(files) : files'[f] = files[f]
          /\ \A f \in 1 .. Len(files') : f > Len(files) => files'[f].locker = Nobody
      <3>1. CASE path = 0
        <4>1. files' = Append(files, [text |-> <<>>, locker |-> Nobody])
          BY <1>4, <3>1 DEF OpenLockFile
        <4>2. QED
          BY <4>1, <1>a
      <3>2. CASE path # 0
        <4>1. files' = files
          BY <1>4, <3>2 DEF OpenLockFile, filesystem
        <4>2. QED
          BY <4>1, <1>a
      <3>3. QED
        BY <3>1, <3>2
    <2>3. /\ \A c \in Daemons : c # d => fd'[c] = fd[c] /\ pc'[c] = pc[c]
          /\ pc'[d] = "lock" /\ held' = held
      BY <1>4, <1>a DEF OpenLockFile, Runs, Places
    <2> USE DEF FileInv, LockInv, PidInv, Locking
    <2>4. \A c \in Daemons : Locking(c)' => files'[fd'[c]].locker = c /\ c \in held'
      BY <1>a, <2>1, <2>2, <2>3
    <2>5. ASSUME NEW f \in 1 .. Len(files'), NEW c \in Daemons, files'[f].locker = c
          PROVE  fd'[c] = f /\ Locking(c)'
      <3>1. f \in 1 .. Len(files) /\ files[f].locker = c
        BY <1>a, <2>2, <2>5, DaemonAssumption, SMTT(20)
      <3>2. fd[c] = f /\ Locking(c) /\ c # d
        BY <2>1, <3>1
      <3>3. QED
        BY <2>3, <3>2
    <2>6. PidInv'
      BY <1>a, <2>1, <2>2, <2>3
    <2>7. QED
      BY <2>4, <2>5, <2>6
  <1>5. ASSUME NEW d \in Daemons, LockFile(d) PROVE FileInv'
    <2>1. fd[d] \in 1 .. Len(files) /\ files[fd[d]].locker = Nobody
      BY <1>5, <1>a DEF LockFile, Runs, TypeInv, DescriptorInv
    <2>2. /\ Len(files') = Len(files)
          /\ \A f \in 1 .. Len(files) :
                /\ files'[f].text = files[f].text
                /\ files'[f].locker = IF f = fd[d] THEN d ELSE files[f].locker
      BY <1>5, <1>a, <2>1, LockedFiles DEF LockFile
    <2>3. /\ fd' = fd /\ held' = held \union {d}
          /\ pc[d] = "lock" /\ pc'[d] = "write"
          /\ \A c \in Daemons : c # d => pc'[c] = pc[c]
      BY <1>5, <1>a DEF LockFile, Runs
    <2> USE DEF FileInv, LockInv, PidInv, Locking
    <2>4. ASSUME NEW c \in Daemons, Locking(c)'
          PROVE  files'[fd'[c]].locker = c /\ c \in held'
      <3>1. CASE c = d
        BY <2>1, <2>2, <2>3, <3>1
      <3>2. CASE c # d
        <4>1. Locking(c) /\ fd[c] \in 1 .. Len(files)
          BY <1>a, <2>3, <2>4, <3>2
        <4>2. files[fd[c]].locker = c /\ c \in held
          BY <4>1
        <4>3. fd[c] # fd[d]
          BY <2>1, <4>2, DaemonAssumption
        <4>4. QED
          BY <2>2, <2>3, <4>1, <4>2, <4>3
      <3>3. QED
        BY <3>1, <3>2
    <2>5. ASSUME NEW f \in 1 .. Len(files'), NEW c \in Daemons, files'[f].locker = c
          PROVE  fd'[c] = f /\ Locking(c)'
      BY <1>a, <2>1, <2>2, <2>3, <2>5, DaemonAssumption
    <2>6. PidInv'
      BY <1>a, <2>1, <2>2, <2>3
    <2>7. QED
      BY <2>4, <2>5, <2>6
  <1>6. ASSUME NEW d \in Daemons, LockRefused(d) PROVE FileInv'
    BY <1>6, <1>a, FileReleased DEF LockRefused, Ends
  <1>7. ASSUME NEW d \in Daemons, WritePid(d) PROVE FileInv'
    <2>1. fd[d] \in 1 .. Len(files) /\ pc[d] = "write"
      BY <1>7, <1>a DEF WritePid, Runs, TypeInv, DescriptorInv
    <2>2. files' = Overwritten(Pid[d], fd[d])
      BY <1>7 DEF WritePid, Overwritten
    <2>3. /\ Len(files') = Len(files)
          /\ \A f \in 1 .. Len(files) :
                /\ files'[f].locker = files[f].locker
                /\ f # fd[d] => files'[f].text = files[f].text
          /\ IsPrefix(Pid[d], files'[fd[d]].text)
      BY <1>a, <1>b, <2>1, <2>2, WrittenFiles
    <2>4. /\ fd' = fd /\ held' = held /\ pc'[d] = "install"
          /\ \A c \in Daemons : c # d => pc'[c] = pc[c]
      BY <1>7, <1>a DEF WritePid, Runs
    <2>5. \A c \in Daemons : c # d /\ Locking(c) => fd[c] # fd[d]
      BY <2>1 DEF FileInv, LockInv, Locking
    <2> USE DEF FileInv, LockInv, PidInv, Locking
    <2>6. \A c \in Daemons : Locking(c)' => files'[fd'[c]].locker = c /\ c \in held'
      BY <1>a, <2>1, <2>3, <2>4, <2>5
    <2>7. ASSUME NEW f \in 1 .. Len(files'), NEW c \in Daemons, files'[f].locker = c
          PROVE  fd'[c] = f /\ Locking(c)'
      <3>1. f \in 1 .. Len(files) /\ files[f].locker = c
        BY <2>3, <2>7
      <3>2. fd[c] = f /\ Locking(c)
        BY <3>1
      <3>3. QED
        BY <2>4, <3>2
    <2>8. PidInv'
      BY <1>a, <2>1, <2>3, <2>4, <2>5
    <2>9. QED
      BY <2>6, <2>7, <2>8
  <1>8. ASSUME NEW d \in Daemons, InstallHandlers(d) PROVE FileInv'
    BY <1>8, <1>a, FileStays DEF InstallHandlers, filesystem, Runs, At, Ends
  <1>9. ASSUME NEW d \in Daemons, CreateService(d) PROVE FileInv'
    BY <1>9, <1>a, FileStays DEF CreateService, filesystem, Runs, At, Ends
  <1>10. ASSUME NEW d \in Daemons, RunReturns(d) PROVE FileInv'
    BY <1>10, <1>a, FileStays DEF RunReturns, filesystem, Runs, At, Ends
  <1>11. ASSUME NEW d \in Daemons, ServiceEnds(d) PROVE FileInv'
    BY <1>11, <1>a, FileStays DEF ServiceEnds, filesystem, Runs, At, Ends
  <1>12. ASSUME NEW d \in Daemons, DeleteService(d) PROVE FileInv'
    BY <1>12, <1>a, FileStays DEF DeleteService, filesystem, Runs, At, Ends
  <1>13. ASSUME NEW d \in Daemons, Exit(d) PROVE FileInv'
    BY <1>13, <1>a, FileReleased DEF Exit, Ends
  <1>14. ASSUME NEW d \in Daemons, Unlock(d) PROVE FileInv'
    <2>1. \A c \in Daemons : pc'[c] = pc[c] \/ (pc[c] = "unlock" /\ pc'[c] = "close")
      <3>1. GoTo(d, "close")
        BY <1>14 DEF Unlock
      <3>2. /\ \A c \in Daemons : c # d => pc'[c] = pc[c]
            /\ IF handler[d].why = "none" THEN pc'[d] = "close" ELSE pc'[d] = pc[d]
        BY <1>a, <3>1, CleanupStep
      <3>3. QED
        BY <1>14, <3>2 DEF Unlock, At
    <2>2. QED
      BY <1>14, <2>1, FileStays DEF Unlock, filesystem
  <1>15. ASSUME NEW d \in Daemons, CloseLockFile(d) PROVE FileInv'
    <2>1. \A c \in Daemons : c # d => pc'[c] = pc[c]
      BY <1>15, <1>a, CleanupStep DEF CloseLockFile
    <2>2. QED
      BY <1>15, <2>1, FileReleased DEF CloseLockFile
  <1>16. ASSUME NEW d \in Daemons, Unlink(d) PROVE FileInv'
    <2>1. \A c \in Daemons : pc'[c] = pc[c] \/ (pc[c] = "unlink" /\ pc'[c] = "cleaned")
      <3>1. GoTo(d, "cleaned")
        BY <1>16 DEF Unlink
      <3>2. /\ \A c \in Daemons : c # d => pc'[c] = pc[c]
            /\ IF handler[d].why = "none" THEN pc'[d] = "cleaned" ELSE pc'[d] = pc[d]
        BY <1>a, <3>1, CleanupStep
      <3>3. QED
        BY <1>16, <3>2 DEF Unlink, At
    <2>2. QED
      BY <1>16, <2>1, FileStays DEF Unlink, filesystem
  <1>17. ASSUME NEW d \in Daemons, Terminate(d) PROVE FileInv'
    BY <1>17, <1>a, FileStays DEF Terminate, filesystem, Runs, At, Ends
  <1>18. ASSUME NEW d \in Daemons, HangUp(d) PROVE FileInv'
    BY <1>18, <1>a, FileStays DEF HangUp, filesystem, Runs, At, Ends
  <1>19. ASSUME NEW d \in Daemons, Crash(d) PROVE FileInv'
    BY <1>19, <1>a, FileStays DEF Crash, filesystem, Runs, At, Ends
  <1>20. ASSUME NEW d \in Daemons, StopService(d) PROVE FileInv'
    BY <1>20, <1>a, FileStays DEF StopService, filesystem, Runs, At, Ends
  <1>21. ASSUME NEW d \in Daemons, StopNoService(d) PROVE FileInv'
    BY <1>21, <1>a, FileStays DEF StopNoService, filesystem, Runs, At, Ends
  <1>22. ASSUME NEW d \in Daemons, ResetSignal(d) PROVE FileInv'
    BY <1>22, <1>a, FileStays DEF ResetSignal, filesystem, Runs, At, Ends
  <1>23. ASSUME NEW d \in Daemons, Abort(d) PROVE FileInv'
    BY <1>23, <1>a, FileStays DEF Abort, filesystem, Runs, At, Ends
  <1>24. ASSUME NEW d \in Daemons, Die(d) PROVE FileInv'
    BY <1>24, <1>a, FileReleased DEF Die, Ends
  <1>25. ASSUME NEW d \in Daemons, Kill(d) PROVE FileInv'
    BY <1>25, <1>a, FileReleased DEF Kill, Ends
  <1>26. CASE UNCHANGED vars
    BY <1>26, FileStays DEF vars
  <1>27. QED
    BY <1>1, <1>2, <1>3, <1>4, <1>5, <1>6, <1>7, <1>8, <1>9, <1>10, <1>11, <1>12, <1>13,
       <1>14, <1>15, <1>16, <1>17, <1>18, <1>19, <1>20, <1>21, <1>22, <1>23, <1>24, <1>25,
       <1>26
       DEF Next, DaemonStep, Event

LEMMA FileInvariant == Spec => [](TypeInv /\ FileInv)
  BY TypeInit, TypeStep, FileInit, FileStep, PTL DEF Spec

(* A daemon that has locked the file keeps the lock, and the file begins with
   its pid, until it cleans up.                                             *)
THEOREM PidStaysInFile == Spec => []PidInFile
  <1>1. TypeInv /\ FileInv => PidInFile
    BY DEF TypeInv, FileInv, LockInv, PidInv, PidInFile, Active, Locking
  <1>2. QED
    BY <1>1, FileInvariant, PTL

-----------------------------------------------------------------------------
(* The name of the lock file.                                               *)

\* Until a file is removed there is only one.
NameInv == ~unlinked => Len(files) <= 1 /\ path = Len(files)

LEMMA NameInit == Init => NameInv
  <1> SUFFICES ASSUME Init PROVE NameInv
    OBVIOUS
  <1>1. CASE files = <<>> /\ path = 0
    BY <1>1 DEF NameInv
  <1>2. CASE files = <<[text |-> Stale, locker |-> Nobody]>> /\ path = 1
    <2>1. Len(files) = 1
      BY <1>2
    <2>2. QED
      BY <1>2, <2>1 DEF NameInv
  <1>3. QED
    BY <1>1, <1>2 DEF Init

LEMMA NameStays ==
    ASSUME NameInv, Len(files') = Len(files), UNCHANGED <<path, unlinked>>
    PROVE  NameInv'
  BY DEF NameInv

LEMMA NameStep == TypeInv /\ NameInv /\ [Next]_vars => NameInv'
  <1> SUFFICES ASSUME TypeInv, NameInv, [Next]_vars PROVE NameInv'
    OBVIOUS
  <1>a. files \in Seq(Texts) /\ fd \in [Daemons -> 0 .. Len(files)]
    BY DEF TypeInv, TypeOK, Texts
  <1>b. \A d \in Daemons : Released(d) \in Seq(Texts) /\ Len(Released(d)) = Len(files)
    BY <1>a, ReleasedFiles
  <1>1. ASSUME NEW d \in Daemons, Invoke(d) PROVE NameInv'
    BY <1>1, NameStays DEF Invoke, filesystem
  <1>2. ASSUME NEW d \in Daemons, Detach(d) PROVE NameInv'
    BY <1>2, NameStays DEF Detach, filesystem
  <1>3. ASSUME NEW d \in Daemons, GiveUp(d) PROVE NameInv'
    BY <1>3, <1>b, NameStays DEF GiveUp, Ends
  <1>4. ASSUME NEW d \in Daemons, OpenLockFile(d) PROVE NameInv'
    BY <1>4, <1>a DEF OpenLockFile, filesystem, NameInv
  <1>5. ASSUME NEW d \in Daemons, LockFile(d) PROVE NameInv'
    <2>1. fd[d] \in 1 .. Len(files)
      BY <1>5, <1>a DEF LockFile, Runs, TypeInv, DescriptorInv
    <2>2. QED
      BY <1>5, <1>a, <2>1, LockedFiles, NameStays DEF LockFile
  <1>6. ASSUME NEW d \in Daemons, LockRefused(d) PROVE NameInv'
    BY <1>6, <1>b, NameStays DEF LockRefused, Ends
  <1>7. ASSUME NEW d \in Daemons, WritePid(d) PROVE NameInv'
    <2>1. fd[d] \in 1 .. Len(files) /\ Pid[d] \in Seq(0 .. 9)
      <3>1. Pid[d] \in Seq(0 .. 9)
        BY DaemonAssumption
      <3>2. QED
        BY <1>7, <1>a, <3>1 DEF WritePid, Runs, TypeInv, DescriptorInv
    <2>2. files' = Overwritten(Pid[d], fd[d])
      BY <1>7 DEF WritePid, Overwritten
    <2>3. Len(files') = Len(files)
      BY <1>a, <2>1, <2>2, WrittenFiles
    <2>4. QED
      BY <1>7, <2>3, NameStays DEF WritePid
  <1>8. ASSUME NEW d \in Daemons, InstallHandlers(d) PROVE NameInv'
    BY <1>8, NameStays DEF InstallHandlers, filesystem
  <1>9. ASSUME NEW d \in Daemons, CreateService(d) PROVE NameInv'
    BY <1>9, NameStays DEF CreateService, filesystem
  <1>10. ASSUME NEW d \in Daemons, RunReturns(d) PROVE NameInv'
    BY <1>10, NameStays DEF RunReturns, filesystem
  <1>11. ASSUME NEW d \in Daemons, ServiceEnds(d) PROVE NameInv'
    BY <1>11, NameStays DEF ServiceEnds, filesystem
  <1>12. ASSUME NEW d \in Daemons, DeleteService(d) PROVE NameInv'
    BY <1>12, NameStays DEF DeleteService, filesystem
  <1>13. ASSUME NEW d \in Daemons, Exit(d) PROVE NameInv'
    BY <1>13, <1>b, NameStays DEF Exit, Ends
  <1>14. ASSUME NEW d \in Daemons, Unlock(d) PROVE NameInv'
    BY <1>14, NameStays DEF Unlock, filesystem
  <1>15. ASSUME NEW d \in Daemons, CloseLockFile(d) PROVE NameInv'
    BY <1>15, <1>b, NameStays DEF CloseLockFile, Ends
  <1>16. ASSUME NEW d \in Daemons, Unlink(d) PROVE NameInv'
    BY <1>16 DEF Unlink, NameInv
  <1>17. ASSUME NEW d \in Daemons, Terminate(d) PROVE NameInv'
    BY <1>17, NameStays DEF Terminate, filesystem
  <1>18. ASSUME NEW d \in Daemons, HangUp(d) PROVE NameInv'
    BY <1>18, NameStays DEF HangUp, filesystem
  <1>19. ASSUME NEW d \in Daemons, Crash(d) PROVE NameInv'
    BY <1>19, NameStays DEF Crash, filesystem
  <1>20. ASSUME NEW d \in Daemons, StopService(d) PROVE NameInv'
    BY <1>20, NameStays DEF StopService, filesystem
  <1>21. ASSUME NEW d \in Daemons, StopNoService(d) PROVE NameInv'
    BY <1>21, NameStays DEF StopNoService, filesystem
  <1>22. ASSUME NEW d \in Daemons, ResetSignal(d) PROVE NameInv'
    BY <1>22, NameStays DEF ResetSignal, filesystem
  <1>23. ASSUME NEW d \in Daemons, Abort(d) PROVE NameInv'
    BY <1>23, NameStays DEF Abort, filesystem
  <1>24. ASSUME NEW d \in Daemons, Die(d) PROVE NameInv'
    BY <1>24, <1>b, NameStays DEF Die, Ends
  <1>25. ASSUME NEW d \in Daemons, Kill(d) PROVE NameInv'
    BY <1>25, <1>b, NameStays DEF Kill, Ends
  <1>26. CASE UNCHANGED vars
    BY <1>26, NameStays DEF vars
  <1>27. QED
    BY <1>1, <1>2, <1>3, <1>4, <1>5, <1>6, <1>7, <1>8, <1>9, <1>10, <1>11, <1>12, <1>13,
       <1>14, <1>15, <1>16, <1>17, <1>18, <1>19, <1>20, <1>21, <1>22, <1>23, <1>24, <1>25,
       <1>26
       DEF Next, DaemonStep, Event

LEMMA NameInvariant == Spec => [](TypeInv /\ FileInv /\ NameInv)
  BY TypeInit, TypeStep, FileInit, FileStep, NameInit, NameStep, PTL DEF Spec

(* As long as no daemon has removed the file, two daemons that have locked it
   are one, whichever files crashes have left and whoever was killed.       *)
THEOREM LockKeepsDaemonsApart == Spec => []OneDaemonUntilUnlink
  <1>1. TypeInv /\ FileInv /\ NameInv => OneDaemonUntilUnlink
    <2> SUFFICES ASSUME TypeInv, FileInv, NameInv, ~unlinked,
                        NEW c \in Daemons, NEW d \in Daemons, Active(c), Active(d)
                 PROVE  c = d
      BY DEF OneDaemonUntilUnlink, OneDaemon
    <2>1. Locking(c) /\ Locking(d)
      BY DEF Active, Locking
    <2>2. fd[c] = 1 /\ fd[d] = 1
      BY <2>1 DEF Locking, NameInv, TypeInv, TypeOK
    <2>3. QED
      BY <2>1, <2>2 DEF FileInv, LockInv
  <1>2. QED
    BY <1>1, NameInvariant, PTL

-----------------------------------------------------------------------------
(* The removal of the lock file.                                            *)

(* Daemon d has yet to remove the file, or to find out whether it is to.  A
   daemon whose cleanup was interrupted cleans up again: the handler of
   SIGTERM returns to it, that of SIGSEGV goes on to raise SIGABRT.         *)
WillUnlink(d) ==
    \/ pc[d] = "lock"
    \/ /\ handler[d].why = "none"
       /\ pc[d] \in {"write", "install", "start", "run", "delete", "unlock", "close", "unlink"}
    \/ handler[d].why # "none" /\ handler[d].at \in {"unlock", "close", "unlink"}
    \/ handler[d].why = "segv" /\ handler[d].at = "cleaned"
    \/ handler[d].why = "term" /\ pc[d] \in {"start", "run", "delete", "unlock", "close", "unlink"}

RemovalInv ==
    killed = {} /\ held # {} /\ path # 0 => \E d \in Daemons : WillUnlink(d)

LEMMA RemovalInit == Init => RemovalInv
  BY DEF Init, RemovalInv

LEMMA RemovalStays ==
    ASSUME RemovalInv, UNCHANGED <<path, killed, held>>,
           \A d \in Daemons : WillUnlink(d) => WillUnlink(d)'
    PROVE  RemovalInv'
  BY DEF RemovalInv

LEMMA RemovalStep == TypeInv /\ FileInv /\ RemovalInv /\ [Next]_vars => RemovalInv'
  <1> SUFFICES ASSUME TypeInv, FileInv, RemovalInv, [Next]_vars PROVE RemovalInv'
    OBVIOUS
  <1>a. /\ pc \in [Daemons -> Places]
        /\ handler \in [Daemons -> Handlers]
    BY DEF TypeInv, TypeOK, Handlers, Places
  <1>b. \A d \in Daemons : handler[d].why # "none" => pc[d] # "lock"
    BY DEF TypeInv, DescriptorInv, Interrupted
  <1>1. ASSUME NEW d \in Daemons, Invoke(d) PROVE RemovalInv'
    <2>1. \A c \in Daemons : WillUnlink(c) => WillUnlink(c)'
      BY <1>1, <1>a, <1>b DEF Invoke, WillUnlink
    <2>2. QED
      BY <1>1, <2>1, RemovalStays DEF Invoke, filesystem
  <1>2. ASSUME NEW d \in Daemons, Detach(d) PROVE RemovalInv'
    <2>1. \A c \in Daemons : WillUnlink(c) => WillUnlink(c)'
      BY <1>2, <1>a, <1>b DEF Detach, Runs, WillUnlink
    <2>2. QED
      BY <1>2, <2>1, RemovalStays DEF Detach, filesystem
  <1>3. ASSUME NEW d \in Daemons, GiveUp(d) PROVE RemovalInv'
    <2>1. \A c \in Daemons : WillUnlink(c) => WillUnlink(c)'
      BY <1>3, <1>a, <1>b DEF GiveUp, Ends, Runs, WillUnlink
    <2>2. QED
      BY <1>3, <2>1, RemovalStays DEF GiveUp, Ends
  <1>4. ASSUME NEW d \in Daemons, OpenLockFile(d) PROVE RemovalInv'
    <2>1. WillUnlink(d)'
      BY <1>4, <1>a DEF OpenLockFile, Runs, WillUnlink, Places
    <2>2. QED
      BY <2>1 DEF RemovalInv
  <1>5. ASSUME NEW d \in Daemons, LockFile(d) PROVE RemovalInv'
    <2>1. WillUnlink(d)'
      BY <1>5, <1>a DEF LockFile, Runs, WillUnlink, Places
    <2>2. QED
      BY <2>1 DEF RemovalInv
  <1>6. ASSUME NEW d \in Daemons, LockRefused(d) PROVE RemovalInv'
    <2>1. fd[d] \in 1 .. Len(files) /\ pc[d] = "lock" /\ files[fd[d]].locker # Nobody
      BY <1>6 DEF LockRefused, Runs, TypeInv, TypeOK, DescriptorInv
    <2>2. PICK c \in Daemons : c = files[fd[d]].locker
      <3>1. files[fd[d]] \in Texts
        BY <2>1, ElementOfSeq DEF TypeInv, TypeOK, Texts
      <3>2. QED
        BY <2>1, <3>1 DEF Texts
    <2>3. Locking(c) /\ c # d
      BY <2>1, <2>2 DEF FileInv, LockInv, Locking
    <2>4. handler'[c] = handler[c] /\ pc'[c] = pc[c]
      BY <1>6, <1>a, <2>2, <2>3 DEF LockRefused, Ends
    <2>5. OpenAt(c) /\ pc[c] # "lock"
      BY <2>2, <2>3 DEF TypeInv, DescriptorInv, Locking
    <2>6. WillUnlink(c)'
      BY <2>4, <2>5 DEF OpenAt, WillUnlink
    <2>7. QED
      BY <2>2, <2>6 DEF RemovalInv
  <1>7. ASSUME NEW d \in Daemons, WritePid(d) PROVE RemovalInv'
    <2>1. \A c \in Daemons : WillUnlink(c) => WillUnlink(c)'
      BY <1>7, <1>a, <1>b DEF WritePid, Runs, WillUnlink
    <2>2. QED
      BY <1>7, <2>1, RemovalStays DEF WritePid, filesystem
  <1>8. ASSUME NEW d \in Daemons, InstallHandlers(d) PROVE RemovalInv'
    <2>1. \A c \in Daemons : WillUnlink(c) => WillUnlink(c)'
      BY <1>8, <1>a, <1>b DEF InstallHandlers, Runs, WillUnlink
    <2>2. QED
      BY <1>8, <2>1, RemovalStays DEF InstallHandlers, filesystem
  <1>9. ASSUME NEW d \in Daemons, CreateService(d) PROVE RemovalInv'
    <2>1. \A c \in Daemons : WillUnlink(c) => WillUnlink(c)'
      BY <1>9, <1>a, <1>b DEF CreateService, Runs, WillUnlink
    <2>2. QED
      BY <1>9, <2>1, RemovalStays DEF CreateService, filesystem
  <1>10. ASSUME NEW d \in Daemons, RunReturns(d) PROVE RemovalInv'
    <2>1. \A c \in Daemons : WillUnlink(c) => WillUnlink(c)'
      BY <1>10, <1>a, <1>b DEF RunReturns, Runs, WillUnlink
    <2>2. QED
      BY <1>10, <2>1, RemovalStays DEF RunReturns, filesystem
  <1>11. ASSUME NEW d \in Daemons, ServiceEnds(d) PROVE RemovalInv'
    <2>1. \A c \in Daemons : WillUnlink(c) => WillUnlink(c)'
      BY <1>11, <1>a, <1>b DEF ServiceEnds, Runs, WillUnlink
    <2>2. QED
      BY <1>11, <2>1, RemovalStays DEF ServiceEnds, filesystem
  <1>12. ASSUME NEW d \in Daemons, DeleteService(d) PROVE RemovalInv'
    <2>1. \A c \in Daemons : WillUnlink(c) => WillUnlink(c)'
      BY <1>12, <1>a, <1>b DEF DeleteService, Runs, WillUnlink
    <2>2. QED
      BY <1>12, <2>1, RemovalStays DEF DeleteService, filesystem
  <1>13. ASSUME NEW d \in Daemons, Exit(d) PROVE RemovalInv'
    <2>1. \A c \in Daemons : WillUnlink(c) => WillUnlink(c)'
      BY <1>13, <1>a, <1>b DEF Exit, Ends, Runs, WillUnlink
    <2>2. QED
      BY <1>13, <2>1, RemovalStays DEF Exit, Ends
  <1>14. ASSUME NEW d \in Daemons, Unlock(d) PROVE RemovalInv'
    <2>1. GoTo(d, "close")
      BY <1>14 DEF Unlock
    <2>2. \A c \in Daemons : WillUnlink(c) => WillUnlink(c)'
      BY <1>14, <1>a, <1>b, <2>1, CleanupStep DEF Unlock, At, WillUnlink
    <2>3. QED
      BY <1>14, <2>2, RemovalStays DEF Unlock, filesystem
  <1>15. ASSUME NEW d \in Daemons, CloseLockFile(d) PROVE RemovalInv'
    <2>1. GoTo(d, "unlink")
      BY <1>15 DEF CloseLockFile
    <2>2. \A c \in Daemons : WillUnlink(c) => WillUnlink(c)'
      BY <1>15, <1>a, <1>b, <2>1, CleanupStep DEF CloseLockFile, At, WillUnlink
    <2>3. QED
      BY <1>15, <2>2, RemovalStays DEF CloseLockFile, filesystem
  <1>16. ASSUME NEW d \in Daemons, Unlink(d) PROVE RemovalInv'
    BY <1>16 DEF Unlink, RemovalInv
  <1>17. ASSUME NEW d \in Daemons, Terminate(d) PROVE RemovalInv'
    <2>1. \A c \in Daemons : WillUnlink(c) => WillUnlink(c)'
      BY <1>17, <1>a, <1>b DEF Terminate, Handling, Interruptible, WillUnlink
    <2>2. QED
      BY <1>17, <2>1, RemovalStays DEF Terminate, filesystem
  <1>18. ASSUME NEW d \in Daemons, HangUp(d) PROVE RemovalInv'
    <2>1. \A c \in Daemons : WillUnlink(c) => WillUnlink(c)'
      BY <1>18, <1>a, <1>b DEF HangUp, Handling, Interruptible, WillUnlink
    <2>2. QED
      BY <1>18, <2>1, RemovalStays DEF HangUp, filesystem
  <1>19. ASSUME NEW d \in Daemons, Crash(d) PROVE RemovalInv'
    <2>1. \A c \in Daemons : WillUnlink(c) => WillUnlink(c)'
      BY <1>19, <1>a, <1>b DEF Crash, Runs, Handling, WillUnlink
    <2>2. QED
      BY <1>19, <2>1, RemovalStays DEF Crash, filesystem
  <1>20. ASSUME NEW d \in Daemons, StopService(d) PROVE RemovalInv'
    <2>1. \A c \in Daemons : WillUnlink(c) => WillUnlink(c)'
      BY <1>20, <1>a, <1>b DEF StopService, Handles, Handlers, WillUnlink
    <2>2. QED
      BY <1>20, <2>1, RemovalStays DEF StopService, filesystem
  <1>21. ASSUME NEW d \in Daemons, StopNoService(d) PROVE RemovalInv'
    <2>1. \A c \in Daemons : WillUnlink(c) => WillUnlink(c)'
      BY <1>21, <1>a, <1>b DEF StopNoService, Handles, Handling, WillUnlink
    <2>2. QED
      BY <1>21, <2>1, RemovalStays DEF StopNoService, filesystem
  <1>22. ASSUME NEW d \in Daemons, ResetSignal(d) PROVE RemovalInv'
    <2>1. \A c \in Daemons : WillUnlink(c) => WillUnlink(c)'
      BY <1>22, <1>a, <1>b DEF ResetSignal, NoHandler, WillUnlink
    <2>2. QED
      BY <1>22, <2>1, RemovalStays DEF ResetSignal, filesystem
  <1>23. ASSUME NEW d \in Daemons, Abort(d) PROVE RemovalInv'
    <2>1. \A c \in Daemons : WillUnlink(c) => WillUnlink(c)'
      BY <1>23, <1>a, <1>b DEF Abort, Handles, Handling, WillUnlink
    <2>2. QED
      BY <1>23, <2>1, RemovalStays DEF Abort, filesystem
  <1>24. ASSUME NEW d \in Daemons, Die(d) PROVE RemovalInv'
    <2>1. \A c \in Daemons : WillUnlink(c) => WillUnlink(c)'
      BY <1>24, <1>a, <1>b DEF Die, Ends, Handles, WillUnlink
    <2>2. QED
      BY <1>24, <2>1, RemovalStays DEF Die, Ends
  <1>25. ASSUME NEW d \in Daemons, Kill(d) PROVE RemovalInv'
    BY <1>25 DEF Kill, RemovalInv
  <1>26. CASE UNCHANGED vars
    BY <1>26, RemovalStays DEF vars, WillUnlink
  <1>27. QED
    BY <1>1, <1>2, <1>3, <1>4, <1>5, <1>6, <1>7, <1>8, <1>9, <1>10, <1>11, <1>12, <1>13,
       <1>14, <1>15, <1>16, <1>17, <1>18, <1>19, <1>20, <1>21, <1>22, <1>23, <1>24, <1>25,
       <1>26
       DEF Next, DaemonStep, Event

(* When the daemons have ended, one of them had locked a file and none was
   killed, the last file to have the name has been removed: the daemon that
   holds the lock of a file still has its cleanup before it, and one that is
   refused the lock was refused by such a daemon.                           *)
THEOREM LockFileRemoved == Spec => []NothingLeftBehind
  <1>1. Spec => [](TypeInv /\ FileInv /\ RemovalInv)
    BY TypeInit, TypeStep, FileInit, FileStep, RemovalInit, RemovalStep, PTL DEF Spec
  <1>2. TypeInv /\ FileInv /\ RemovalInv => NothingLeftBehind
    <2> SUFFICES ASSUME TypeInv, NEW d \in Daemons, WillUnlink(d), pc[d] \in {"none", "exited"}
                 PROVE  FALSE
      BY DEF RemovalInv, NothingLeftBehind
    <2>1. handler[d].why = "none"
      BY DEF TypeInv, DescriptorInv, Interrupted
    <2>2. QED
      BY <2>1 DEF WillUnlink
  <1>3. QED
    BY <1>1, <1>2, PTL
=============================================================================
