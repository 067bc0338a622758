------------------------------- MODULE Locker -------------------------------
(***************************************************************************)
(* sd-locker (sd-locker.c with sd-locker_posix.c or sd-locker_win32.c):    *)
(* open the lock file, wait for a write lock on it, run the command in a   *)
(* child process, wait for the child, unlock, close, and exit with the     *)
(* command's exit code.  Several lockers of a parallel build name the same *)
(* lock file.  A locker may be killed at any time, which closes what it    *)
(* has open and so drops its lock but leaves its child running, and        *)
(* sd-clean may remove the file, on POSIX even while it is in use.         *)
(***************************************************************************)
EXTENDS Integers, FiniteSets

CONSTANTS
  Process,     \* the sd-locker processes
  Inode,       \* bound: the files that can be created at the lock file's path
  KillPoint,   \* where in its program a locker may be killed
  Systems,     \* the systems the build runs on, "posix" or "win32"
  MaxCleans,   \* bound: how often sd-clean removes the lock file on each of them
  WaitMayFail, \* may WaitForSingleObject fail?
  NoProcess,
  NoInode

ASSUME LockerAssumption ==
  /\ NoProcess \notin Process
  /\ NoInode \notin Inode
  /\ Systems \subseteq {"posix", "win32"}
  /\ MaxCleans \in [Systems -> Nat]
  /\ WaitMayFail \in BOOLEAN

VARIABLES
  os,       \* the system this build runs on
  path,     \* the inode the lock file's name leads to, or NoInode
  created,  \* the inodes that exist or existed
  fd,       \* lock_fd or lock_handle of each locker: an inode, or NoInode
  owner,    \* the locker that holds the write lock on each inode
  pc,       \* the next call each locker makes
  child,    \* the child of each locker: "none", "forked", "running" or how it ended
  code,     \* exit code of each locker, as the calling shell sees it
  cleans    \* how often sd-clean has removed the lock file

vars == <<os, path, created, fd, owner, pc, child, code, cleans>>

Calls   == {"open", "acquire", "fork", "wait", "release", "close"}
Endings == {"ok", "error", "signal"}     \* exit (0), exit (n), killed
Success == 0
Failure == 1

Init ==
  /\ os \in Systems
  /\ path = NoInode
  /\ created = {}
  /\ fd = [p \in Process |-> NoInode]
  /\ owner = [i \in Inode |-> NoProcess]
  /\ pc = [p \in Process |-> "open"]
  /\ child = [p \in Process |-> "none"]
  /\ code = [p \in Process |-> Success]
  /\ cleans = 0

Goto(p, l) == pc' = [pc EXCEPT ![p] = l]

\* What the kernel does when a process ends: close what it has open, and
\* drop the locks it holds.
Cleanup(p) ==
  /\ fd' = [fd EXCEPT ![p] = NoInode]
  /\ owner' = [i \in Inode |-> IF owner[i] = p THEN NoProcess ELSE owner[i]]

-----------------------------------------------------------------------------
\* Mutation: O_EXCL, and try again while the file exists.
Open_Exclusive(p) ==
  /\ pc[p] = "open"
  /\ path = NoInode
  /\ \E i \in Inode \ created :
       /\ path' = i
       /\ created' = created \cup {i}
       /\ fd' = [fd EXCEPT ![p] = i]
  /\ Goto(p, "acquire")
  /\ UNCHANGED <<owner, child, code, cleans>>

\* open (lock_file, O_WRONLY | O_TRUNC | O_CREAT).
Open(p) ==
  /\ pc[p] = "open"
  /\ \/ /\ path # NoInode
        /\ fd' = [fd EXCEPT ![p] = path]
        /\ UNCHANGED <<path, created>>
     \/ /\ path = NoInode
        /\ \E i \in Inode \ created :
             /\ path' = i
             /\ created' = created \cup {i}
             /\ fd' = [fd EXCEPT ![p] = i]
  /\ Goto(p, "acquire")
  /\ UNCHANGED <<owner, child, code, cleans>>

\* Mutation: F_SETLK, whose failure is not looked at.
Acquire_Unchecked(p) ==
  /\ pc[p] = "acquire"
  /\ owner' = IF owner[fd[p]] = NoProcess THEN [owner EXCEPT ![fd[p]] = p] ELSE owner
  /\ Goto(p, "fork")
  /\ UNCHANGED <<path, created, fd, child, code, cleans>>

\* fcntl (lock_fd, F_SETLKW, write lock on the whole file): waits for it.
Acquire(p) ==
  /\ pc[p] = "acquire"
  /\ owner[fd[p]] = NoProcess
  /\ owner' = [owner EXCEPT ![fd[p]] = p]
  /\ Goto(p, "fork")
  /\ UNCHANGED <<path, created, fd, child, code, cleans>>

\* Mutation: the lock is released before the command runs.
Fork_Unlocked(p) ==
  /\ pc[p] = "fork"
  /\ child' = [child EXCEPT ![p] = "forked"]
  /\ owner' = [owner EXCEPT ![fd[p]] = NoProcess]
  /\ Goto(p, "wait")
  /\ UNCHANGED <<path, created, fd, code, cleans>>

Fork(p) ==
  /\ pc[p] = "fork"
  /\ child' = [child EXCEPT ![p] = "forked"]
  /\ Goto(p, "wait")
  /\ UNCHANGED <<path, created, fd, owner, code, cleans>>

\* The child closes its copy of lock_fd, which drops no lock of the parent,
\* and becomes the command, or reports execvp's failure and exits.
ChildExec(p) ==
  /\ child[p] = "forked"
  /\ \E c \in {"running", "error"} : child' = [child EXCEPT ![p] = c]
  /\ UNCHANGED <<path, created, fd, owner, pc, code, cleans>>

\* The command ends, by itself or by a signal.
ChildEnd(p) ==
  /\ child[p] = "running"
  /\ \E e \in Endings : child' = [child EXCEPT ![p] = e]
  /\ UNCHANGED <<path, created, fd, owner, pc, code, cleans>>

\* Mutation: the wait status itself.
ExitPosix_Raw(e) == {CASE e = "ok" -> 0 [] e = "error" -> 256 [] OTHER -> 9}

\* WEXITSTATUS of a wait status: the exit code, and 0 for a killed child.
ExitPosix(e) == {IF e = "error" THEN Failure ELSE Success}

\* GetExitCodeProcess: whoever terminates a process chooses its exit code.
ExitWin32(e) == CASE e = "ok" -> {Success} [] e = "error" -> {Failure}
                  [] OTHER -> {Success, Failure}

ExitStatus(e) == IF os = "posix" THEN ExitPosix(e) ELSE ExitWin32(e)

\* Mutation: waitpid with WNOHANG.
Wait_NoHang(p) ==
  /\ pc[p] = "wait"
  /\ \E c \in ExitStatus(child[p]) : code' = [code EXCEPT ![p] = c]
  /\ Goto(p, "release")
  /\ UNCHANGED <<path, created, fd, owner, child, cleans>>

\* waitpid, whose failure is fatal, or WaitForSingleObject: returns when the
\* child has ended.
Wait(p) ==
  /\ pc[p] = "wait"
  /\ child[p] \in Endings
  /\ \E c \in ExitStatus(child[p]) : code' = [code EXCEPT ![p] = c]
  /\ Goto(p, "release")
  /\ UNCHANGED <<path, created, fd, owner, child, cleans>>

\* Nobody looks at what WaitForSingleObject returns.  After a failure the exit
\* code of a child that has not ended is STILL_ACTIVE, which is no success, and
\* the locker goes on to release the lock.
WaitFails(p) ==
  /\ os = "win32" /\ WaitMayFail
  /\ pc[p] = "wait"
  /\ \E c \in IF child[p] \in Endings THEN ExitWin32(child[p]) ELSE {Failure} :
       code' = [code EXCEPT ![p] = c]
  /\ Goto(p, "release")
  /\ UNCHANGED <<path, created, fd, owner, child, cleans>>

\* Mutation: only state->locked is cleared.
Release_Forgotten(p) ==
  /\ pc[p] = "release"
  /\ Goto(p, "close")
  /\ UNCHANGED <<path, created, fd, owner, child, code, cleans>>

\* fcntl (lock_fd, F_SETLKW, F_UNLCK).
Release(p) ==
  /\ pc[p] = "release"
  /\ owner' = [owner EXCEPT ![fd[p]] = NoProcess]
  /\ Goto(p, "close")
  /\ UNCHANGED <<path, created, fd, child, code, cleans>>

\* close (lock_fd), and return from main.
Close(p) ==
  /\ pc[p] = "close"
  /\ Cleanup(p)
  /\ Goto(p, "exited")
  /\ UNCHANGED <<path, created, child, code, cleans>>

\* sd_locker_fatal: a system call fails and the locker exits with a failure.
\* waitpid fails only when there is no child left to wait for; the calls after
\* WaitForSingleObject may fail whether it has waited or not.
Fatal(p) ==
  /\ pc[p] \in Calls
  /\ pc[p] = "wait" => child[p] \in Endings \/ (os = "win32" /\ WaitMayFail)
  /\ Cleanup(p)
  /\ code' = [code EXCEPT ![p] = Failure]
  /\ Goto(p, "exited")
  /\ UNCHANGED <<path, created, child, cleans>>

\* A signal kills the locker but not its child.
Kill(p) ==
  /\ pc[p] \in KillPoint \cap Calls
  /\ Cleanup(p)
  /\ code' = [code EXCEPT ![p] = Failure]
  /\ Goto(p, "killed")
  /\ UNCHANGED <<path, created, child, cleans>>

\* A lock file that is open is in nobody's way on POSIX; on Win32 it is opened
\* without FILE_SHARE_DELETE and cannot be removed.
Removable == os = "posix" \/ \A p \in Process : fd[p] = NoInode

\* sd-clean removes *.lock.
Clean ==
  /\ cleans < MaxCleans[os]
  /\ path # NoInode
  /\ Removable
  /\ path' = NoInode
  /\ cleans' = cleans + 1
  /\ UNCHANGED <<created, fd, owner, pc, child, code>>

Step(p)  == /\ Open(p) \/ Acquire(p) \/ Fork(p) \/ Wait(p) \/ Release(p) \/ Close(p)
            /\ UNCHANGED os
Child(p) == (ChildExec(p) \/ ChildEnd(p)) /\ UNCHANGED os

\* Every locker and every command is over.
Finished ==
  /\ \A p \in Process : pc[p] \in {"exited", "killed"} /\ child[p] \in Endings \cup {"none"}
  /\ UNCHANGED vars

Next ==
  \/ \E p \in Process : Step(p) \/ Child(p)
  \/ (\E p \in Process : WaitFails(p) \/ Fatal(p) \/ Kill(p)) /\ UNCHANGED os
  \/ Clean /\ UNCHANGED os
  \/ Finished

Spec == Init /\ [][Next]_vars

(* The scheduler runs every locker that can take its next call, commands end,
   and the kernel grants a free lock to a locker that goes on waiting for it.
   Nothing has to fail. *)
Fairness == \A p \in Process : WF_vars(Step(p)) /\ WF_vars(Child(p))

FairSpec == Spec /\ Fairness

-----------------------------------------------------------------------------
(* Properties.                                                              *)

Running(p) == child[p] \in {"forked", "running"}

TypeOK ==
  /\ os \in Systems
  /\ path \in Inode \cup {NoInode}
  /\ created \in SUBSET Inode
  /\ fd \in [Process -> Inode \cup {NoInode}]
  /\ owner \in [Inode -> Process \cup {NoProcess}]
  /\ pc \in [Process -> Calls \cup {"exited", "killed"}]
  /\ child \in [Process -> {"none", "forked", "running"} \cup Endings]
  /\ code \in [Process -> {Success, Failure}]
  /\ cleans \in 0..MaxCleans[os]

\* A locker that no longer waits for its command, which runs.
Abandoned(p) == Running(p) /\ pc[p] # "wait"

\* Two commands of one lock file run at the same time only if the locker of
\* one of them was killed, on POSIX also if sd-clean removed the lock file, and
\* on Win32 also if the wait of one of them failed: the fork, the child's close
\* and the other failing calls are safe.
CommandsExclusive ==
  \A p, q \in Process : p # q /\ Running(p) /\ Running(q) =>
    \/ pc[p] = "killed" \/ pc[q] = "killed"
    \/ os = "posix" /\ cleans > 0
    \/ os = "win32" /\ WaitMayFail /\ (Abandoned(p) \/ Abandoned(q))

\* Even then, lockers that wait for their command and opened the same file
\* exclude each other, each holding the lock of the file it opened.
HoldersExclusive ==
  \A p \in Process : pc[p] \in {"fork", "wait", "release"} =>
    fd[p] \in created /\ owner[fd[p]] = p

\* A lock is held by a living locker that will give it back, never by one that
\* has exited on an error path or was killed.
NoLockLeak ==
  \A i \in Inode : owner[i] # NoProcess =>
    fd[owner[i]] = i /\ pc[owner[i]] \in {"fork", "wait", "release"}

\* The shell that started the locker is told of success only after the command
\* was started and ended without an error exit.  (A command that a signal
\* killed counts as successful on POSIX, where WEXITSTATUS is taken without
\* WIFEXITED.)
SuccessMeansRan ==
  \A p \in Process : pc[p] = "exited" /\ code[p] = Success => child[p] \in {"ok", "signal"}

\* Every locker comes to an end: nobody waits for a lock for ever, whoever is
\* killed or fails in between.
EveryLockerEnds == \A p \in Process : <>(pc[p] \in {"exited", "killed"})

\* The lock files of one build implement the abstract mutex as long as nobody
\* kills a locker whose command runs, on Win32 no wait fails and, on POSIX,
\* nobody removes the file.
Holding(p) == pc[p] \in {"fork", "wait", "release"}
Abstract == INSTANCE Mutex WITH
  Client <- Process,
  at <- [p \in Process |-> IF pc[p] \in {"open", "acquire"} THEN "out"
                           ELSE IF Holding(p) \/ Running(p) THEN "inside" ELSE "done"]
ImplementsMutex == Abstract!Spec
=============================================================================
