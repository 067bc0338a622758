---------------------------- MODULE LockerProofs ----------------------------
(***************************************************************************)
(* Proofs about Locker, for any number of lockers and lock files, any kill *)
(* points and any number of runs of sd-clean, on POSIX and on Win32.       *)
(***************************************************************************)
EXTENDS Locker, TLAPS

\* Which locker holds which lock, as a function of where each locker is: the
\* two invariants about owners, and what they need to be inductive.
LockInv ==
  /\ TypeOK
  /\ path # NoInode => path \in created
  /\ \A p \in Process : pc[p] \in {"acquire", "fork", "wait", "release", "close"} =>
       fd[p] \in created
  /\ created \subseteq Inode
  /\ HoldersExclusive
  /\ NoLockLeak

\* A child runs only under a locker that waits for it, that was killed or whose
\* wait on Win32 failed; and every open descriptor is on the one lock file there
\* is: on Win32 always, as an open file stays, on POSIX until sd-clean runs.
ChildInv ==
  /\ \A p \in Process : Running(p) =>
       pc[p] \in {"wait", "killed"} \/ (os = "win32" /\ WaitMayFail)
  /\ os = "win32" \/ cleans = 0 => \A p \in Process : fd[p] \in {path, NoInode}
  /\ \A p \in Process : pc[p] \in {"open", "acquire", "fork"} => child[p] = "none"

LEMMA InitLockInv == Init => LockInv
BY LockerAssumption DEF Init, LockInv, TypeOK, HoldersExclusive, NoLockLeak, Calls, Success, Failure

\* Every step keeps the owners right.
LEMMA StepLockInv == LockInv /\ [Next]_vars => LockInv'
<1> SUFFICES ASSUME LockInv, [Next]_vars PROVE LockInv'
  OBVIOUS
<1> USE LockerAssumption DEF LockInv, TypeOK, HoldersExclusive, NoLockLeak, Calls, Endings, Goto
<1>1. ASSUME NEW p \in Process, Open(p), UNCHANGED os PROVE LockInv'
  BY <1>1 DEF Open
<1>2. ASSUME NEW p \in Process, Acquire(p), UNCHANGED os PROVE LockInv'
  BY <1>2 DEF Acquire
<1>3. ASSUME NEW p \in Process, Fork(p), UNCHANGED os PROVE LockInv'
  BY <1>3 DEF Fork
<1>4. ASSUME NEW p \in Process, Child(p) PROVE LockInv'
  BY <1>4 DEF Child, ChildExec, ChildEnd
<1>5. ASSUME NEW p \in Process, Wait(p), UNCHANGED os PROVE LockInv'
  BY <1>5 DEF Wait, ExitStatus, ExitPosix, ExitWin32, Success, Failure
<1>6. ASSUME NEW p \in Process, Release(p), UNCHANGED os PROVE LockInv'
  BY <1>6 DEF Release
<1>7. ASSUME NEW p \in Process, Close(p), UNCHANGED os PROVE LockInv'
  BY <1>7 DEF Close, Cleanup
<1>8. ASSUME NEW p \in Process, Fatal(p), UNCHANGED os PROVE LockInv'
  BY <1>8 DEF Fatal, Cleanup, Success, Failure
<1>9. ASSUME NEW p \in Process, Kill(p), UNCHANGED os PROVE LockInv'
  BY <1>9 DEF Kill, Cleanup, Success, Failure
<1>10. ASSUME Clean, UNCHANGED os PROVE LockInv'
  BY <1>10 DEF Clean
<1>11. ASSUME NEW p \in Process, WaitFails(p), UNCHANGED os PROVE LockInv'
  BY <1>11 DEF WaitFails, ExitWin32, Success, Failure
<1>12. CASE UNCHANGED vars
  BY <1>12 DEF vars
<1> QED
  BY <1>1, <1>2, <1>3, <1>4, <1>5, <1>6, <1>7, <1>8, <1>9, <1>10, <1>11, <1>12 DEF Next, Step, Finished

LEMMA InitChildInv == Init => ChildInv
BY DEF Init, ChildInv, Running

\* Every step keeps children and descriptors where ChildInv says.
LEMMA StepChildInv == LockInv /\ ChildInv /\ [Next]_vars => ChildInv'
<1> SUFFICES ASSUME LockInv, ChildInv, [Next]_vars PROVE ChildInv'
  OBVIOUS
<1> USE LockerAssumption DEF LockInv, ChildInv, TypeOK, Running, Calls, Endings, Goto
<1>1. ASSUME NEW p \in Process, Open(p), UNCHANGED os PROVE ChildInv'
  BY <1>1 DEF Open
<1>2. ASSUME NEW p \in Process, Acquire(p), UNCHANGED os PROVE ChildInv'
  BY <1>2 DEF Acquire
<1>3. ASSUME NEW p \in Process, Fork(p), UNCHANGED os PROVE ChildInv'
  BY <1>3 DEF Fork
<1>4. ASSUME NEW p \in Process, Child(p) PROVE ChildInv'
  BY <1>4 DEF Child, ChildExec, ChildEnd
<1>5. ASSUME NEW p \in Process, Wait(p), UNCHANGED os PROVE ChildInv'
  BY <1>5 DEF Wait
<1>6. ASSUME NEW p \in Process, Release(p), UNCHANGED os PROVE ChildInv'
  BY <1>6 DEF Release
<1>7. ASSUME NEW p \in Process, Close(p), UNCHANGED os PROVE ChildInv'
  BY <1>7 DEF Close, Cleanup
<1>8. ASSUME NEW p \in Process, Fatal(p), UNCHANGED os PROVE ChildInv'
  BY <1>8 DEF Fatal, Cleanup
<1>9. ASSUME NEW p \in Process, Kill(p), UNCHANGED os PROVE ChildInv'
  BY <1>9 DEF Kill, Cleanup
<1>10. ASSUME Clean, UNCHANGED os PROVE ChildInv'
  BY <1>10 DEF Clean, Removable
<1>11. ASSUME NEW p \in Process, WaitFails(p), UNCHANGED os PROVE ChildInv'
  BY <1>11 DEF WaitFails
<1>12. CASE UNCHANGED vars
  BY <1>12 DEF vars
<1> QED
  BY <1>1, <1>2, <1>3, <1>4, <1>5, <1>6, <1>7, <1>8, <1>9, <1>10, <1>11, <1>12 DEF Next, Step, Finished

\* Two running commands have lockers that wait for them only if those opened
\* different files: both hold the lock of the file they opened.
LEMMA ExclusionFollows == LockInv /\ ChildInv => CommandsExclusive
<1> SUFFICES ASSUME LockInv, ChildInv,
                    NEW p \in Process, NEW q \in Process, p # q, Running(p), Running(q),
                    pc[p] # "killed", pc[q] # "killed", ~(os = "posix" /\ cleans > 0),
                    ~(os = "win32" /\ WaitMayFail /\ (Abandoned(p) \/ Abandoned(q)))
             PROVE  FALSE
  BY DEF CommandsExclusive
<1>1. pc[p] = "wait" /\ pc[q] = "wait"
  BY DEF ChildInv, Abandoned
<1>2. owner[fd[p]] = p /\ owner[fd[q]] = q /\ fd[p] \in Inode /\ fd[q] \in Inode
  BY <1>1 DEF LockInv, HoldersExclusive
<1>3. os = "win32" \/ cleans = 0
  BY LockerAssumption DEF LockInv, TypeOK
<1>4. fd[p] = fd[q]
  BY <1>2, <1>3, LockerAssumption DEF ChildInv
<1> QED
  BY <1>2, <1>4

-----------------------------------------------------------------------------
LEMMA Invariance == Spec => [](LockInv /\ ChildInv)
<1>1. LockInv /\ ChildInv /\ [Next]_vars => LockInv' /\ ChildInv'
  BY StepLockInv, StepChildInv
<1> QED
  BY InitLockInv, InitChildInv, <1>1, PTL DEF Spec

\* The state of lockers, files and locks keeps its types.
THEOREM TypeCorrect == Spec => []TypeOK
BY Invariance, PTL DEF LockInv

\* A locker between Acquire and Release has the lock of the file it opened,
\* whatever fails, is killed or is removed around it.
THEOREM LockHeld == Spec => []HoldersExclusive
BY Invariance, PTL DEF LockInv

\* No lock outlives its locker.
THEOREM NoLeak == Spec => []NoLockLeak
BY Invariance, PTL DEF LockInv

\* Two commands overlap only after a kill of a locker, a run of sd-clean or a
\* wait on Win32 that failed.
THEOREM Exclusion == Spec => []CommandsExclusive
<1>1. LockInv /\ ChildInv => CommandsExclusive
  BY ExclusionFollows
<1> QED
  BY Invariance, <1>1, PTL

-----------------------------------------------------------------------------
\* The exit code, from waitpid to the end of the locker: whoever is past Wait
\* without a failure has a child that ended without an error exit.
CodeInv ==
  /\ TypeOK
  /\ \A p \in Process : pc[p] \in {"release", "close", "exited"} /\ code[p] = Success =>
       child[p] \in {"ok", "signal"}

\* A locker reports success only for a command that ran and did not fail.
THEOREM SuccessReported == Spec => []SuccessMeansRan
<1> USE DEF CodeInv
<1>1. Init => CodeInv
  BY InitLockInv DEF Init, LockInv
<1>2. ASSUME LockInv, LockInv', CodeInv, [Next]_vars PROVE CodeInv'
  <2> USE <1>2 DEF LockInv, TypeOK, Calls, Endings, Goto, Success, Failure
  <2>1. ASSUME NEW p \in Process, Step(p) PROVE CodeInv'
    BY <2>1 DEF Step, Open, Acquire, Fork, Wait, Release, Close, Cleanup,
              ExitStatus, ExitPosix, ExitWin32
  <2>2. ASSUME NEW p \in Process, Child(p) PROVE CodeInv'
    BY <2>2 DEF Child, ChildExec, ChildEnd
  <2>3. ASSUME NEW p \in Process, WaitFails(p) \/ Fatal(p) \/ Kill(p), UNCHANGED os PROVE CodeInv'
    BY <2>3 DEF WaitFails, ExitWin32, Fatal, Kill, Cleanup
  <2>4. CASE (Clean /\ UNCHANGED os) \/ UNCHANGED vars
    BY <2>4 DEF Clean, vars
  <2> QED
    BY <2>1, <2>2, <2>3, <2>4 DEF Next, Finished
<1>3. CodeInv => SuccessMeansRan
  BY DEF SuccessMeansRan
<1> QED
  BY Invariance, <1>1, <1>2, <1>3, PTL DEF Spec

-----------------------------------------------------------------------------
\* As long as no locker can be killed while its command runs, no wait fails on
\* Win32 and sd-clean does not run on POSIX, sd-locker implements the abstract
\* mutex: opening the file changes nothing the clients see, Acquire enters, and
\* Release and every failure leave.
THEOREM Implements ==
  ASSUME "wait" \notin KillPoint,
         \A s \in Systems : IF s = "win32" THEN ~WaitMayFail ELSE MaxCleans[s] = 0
  PROVE  Spec => ImplementsMutex
<1> DEFINE place == [p \in Process |-> IF pc[p] \in {"open", "acquire"} THEN "out"
                       ELSE IF Holding(p) \/ Running(p) THEN "inside" ELSE "done"]
<1> DEFINE Quiet == (os = "win32" \/ cleans = 0) /\ \A p \in Process : pc[p] = "killed" => ~Running(p)
<1>1. Init => Quiet
  BY DEF Init
<1>2. ASSUME LockInv, ChildInv, Quiet, [Next]_vars PROVE Quiet'
  <2> USE <1>2, LockerAssumption
      DEF LockInv, ChildInv, TypeOK, Running, Calls, Endings, Goto
  <2>1. ASSUME NEW p \in Process, Step(p) PROVE Quiet'
    BY <2>1 DEF Step, Open, Acquire, Fork, Wait, Release, Close, Cleanup
  <2>2. ASSUME NEW p \in Process, Child(p) PROVE Quiet'
    BY <2>2 DEF Child, ChildExec, ChildEnd
  <2>3. ASSUME NEW p \in Process, WaitFails(p) \/ Fatal(p) \/ Kill(p), UNCHANGED os PROVE Quiet'
    BY <2>3 DEF WaitFails, Fatal, Kill, Cleanup
  <2>4. CASE (Clean /\ UNCHANGED os) \/ UNCHANGED vars
    BY <2>4 DEF Clean, vars
  <2> QED
    BY <2>1, <2>2, <2>3, <2>4 DEF Next, Finished
<1>3. Init => Abstract!Init
  BY DEF Init, Abstract!Init
<1>4. ASSUME LockInv, ChildInv, Quiet, [Next]_vars
      PROVE  [Abstract!Next]_place
  <2> USE <1>4, LockerAssumption
      DEF LockInv, ChildInv, TypeOK, Running, Holding, Calls, Endings, Goto
  <2>1. ASSUME NEW p \in Process, Open(p) \/ Fork(p) \/ Wait(p) \/ Child(p) \/ Close(p)
        PROVE  place' = place
    BY <2>1 DEF Open, Fork, Wait, Child, ChildExec, ChildEnd, Close, Cleanup
  <2>2. ASSUME NEW p \in Process, Acquire(p), UNCHANGED os PROVE Abstract!Enter(p)
    <3>1. place[p] = "out" /\ place' = [place EXCEPT ![p] = "inside"]
      BY <2>2 DEF Acquire
    <3>2. ASSUME NEW d \in Process, place[d] = "inside" PROVE FALSE
      <4>1. Holding(d)
        BY <3>2
      <4>2. fd[d] \in created /\ owner[fd[d]] = d
        BY <4>1 DEF HoldersExclusive
      <4>3. fd[p] \in created /\ owner[fd[p]] = NoProcess
        BY <2>2 DEF Acquire
      <4>4. fd[d] = fd[p]
        BY <4>2, <4>3
      <4> QED
        BY <4>2, <4>3, <4>4
    <3> QED
      BY <3>1, <3>2 DEF Abstract!Enter
  <2>3. ASSUME NEW p \in Process, Release(p) PROVE Abstract!Leave(p)
    BY <2>3 DEF Release, Abstract!Leave
  <2>4. ASSUME NEW p \in Process, WaitFails(p) \/ Fatal(p) \/ Kill(p)
        PROVE  Abstract!Leave(p) \/ place' = place
    <3>0. ~WaitFails(p)
      BY DEF WaitFails
    <3>1. pc[p] \in Calls /\ (pc[p] = "wait" => child[p] \in Endings)
      BY <2>4, <3>0 DEF Fatal, Kill
    <3>2. \E l \in {"exited", "killed"} : pc' = [pc EXCEPT ![p] = l] /\ child' = child
      BY <2>4, <3>0 DEF Fatal, Kill
    <3>3. place'[p] = "done"
      BY <3>1, <3>2
    <3>4. \A d \in Process : d # p => place'[d] = place[d]
      BY <3>2
    <3>5. place[p] \in {"out", "inside", "done"}
      OBVIOUS
    <3>6. place' = [place EXCEPT ![p] = "done"]
      BY <3>3, <3>4
    <3>7. ASSUME place[p] = "done" PROVE place' = place
      BY <3>3, <3>4, <3>7
    <3>8. ASSUME place[p] # "done" PROVE Abstract!Leave(p)
      BY <3>5, <3>6, <3>8 DEF Abstract!Leave
    <3> QED
      BY <3>7, <3>8
  <2>5. CASE (Clean /\ UNCHANGED os) \/ UNCHANGED vars
    BY <2>5 DEF Clean, vars
  <2> QED
    BY <2>1, <2>2, <2>3, <2>4, <2>5 DEF Next, Step, Finished, Abstract!Next
<1> QED
  BY Invariance, <1>1, <1>2, <1>3, <1>4, PTL DEF Spec, ImplementsMutex, Abstract!Spec
=============================================================================
