---------------------------- MODULE SysdepsProofs ----------------------------
(***************************************************************************)
(* Proofs about Sysdeps, for any modules, any number of kills and any      *)
(* systems: types, what a recorded success vouches for and, where a linker *)
(* whose output is executable at once is neither killed nor fails, that    *)
(* only whole files are used and that only the mkdir race is fatal.        *)
(***************************************************************************)
EXTENDS Sysdeps, TLAPS

\* What the proofs use of Script.
LEMMA ScriptLen == Len(Script) = 5 /\ DOMAIN Script = 1..5
BY DEF Script

LEMMA StepRange == TypeOK => step \in [Module -> 1..6]
<1>1. TypeOK => step \in [Module -> 1 .. Len(Script) + 1]
  BY DEF TypeOK
<1>2. 1 .. Len(Script) + 1 = 1..6
  BY ScriptLen
<1> QED
  BY <1>1, <1>2

LEMMA ScriptFacts ==
  /\ Script[1] = [op |-> "compile", probe |-> Arch]
  /\ Script[2] = [op |-> "run", probe |-> Arch]
  /\ Script[3] = [op |-> "header", probe |-> CpuId]
  /\ Script[4] = [op |-> "compile", probe |-> CpuId]
  /\ Script[5] = [op |-> "run", probe |-> CpuId]
BY DEF Script

-----------------------------------------------------------------------------
(* The inductive invariant.                                                 *)

\* Where an sd-run is agrees with its position in Script.
Placed(l) ==
  CASE l \in {"boot", "mkdir"}                          -> {1}
    [] l \in {"compile", "link"}                        -> {1, 4}
    [] l = "run"                                        -> {2, 5}
    [] l \in {"header", "headerend", "headermv"}        -> {3}
    [] l \in {"adalock", "ada", "adaopen", "adaecho", "exec", "copy",
              "copyend", "append", "status", "done"}    -> {6}
    [] OTHER                                            -> 1..6

Locked == {"compile", "link", "run", "header", "headerend", "headermv"}

\* ... and with the lock it holds; a lock comes from a complete sd-locker.
LockInv ==
  /\ \A m \in Module : step[m] \in Placed(pc[m])
  /\ \A m \in Module : pc[m] \in Locked => holder[LockOf(m)] = m
  /\ locker # "part"
  /\ \A l \in Locks : holder[l] # NoModule => locker = "whole"

\* A linker whose output is executable at once is never interrupted.
Orderly == world.early => ~world.fail /\ world.kills = 0

\* A probe that is not complete does not look executable, or somebody is
\* linking it; who has come past its compilation has seen it complete.
ProbesRight ==
  /\ \A p \in Probe : exe[p] = "part" /\ world.early =>
       \E n \in Module : pc[n] = "link" /\ Current(n).probe = p
  /\ \A m \in Module : /\ step[m] > 1 => exe[Arch] = "whole"
                       /\ step[m] > 4 => exe[CpuId] = "whole"
ProbeInv == Orderly => ProbesRight

\* The .tmp file is complete when it is renamed, by the one who wrote it.
HeaderInv ==
  /\ header.h # "part"
  /\ \A m \in Module : /\ pc[m] = "headermv" => header.tmp = "whole"
                       /\ step[m] > 3 => header.h = "whole"

\* A module is executed once, and delivers before it says so.
Before == {"boot", "mkdir", "system", "mvlocker", "adalock", "ada", "adaopen", "adaecho",
           "exec", "copy"} \cup Locked
DeliveryInv ==
  ~world.fail => \A m \in Module :
    /\ pc[m] \in {"append", "status"} => output[m] = "whole"
    /\ pc[m] = "status" => m \in Range(lines)
    /\ m \in Range(lines) => output[m] = "whole" /\ pc[m] \in {"status"} \cup Over
    /\ pc[m] \in Before => output[m] = "none"

\* Without failures only the mkdir of a second sd-run is fatal, and the first
\* one, or whoever found the directory, has come past it.
Past == {"boot", "mkdir", "fatal"}
FatalInv ==
  Orderly /\ ~world.fail =>
    /\ \A m \in Module : step[m] > 2 => env[m].arch = "known"
    /\ \A m \in Module : pc[m] = "fatal" => made /\ step[m] = 1
    /\ made => \/ \A m \in Module : pc[m] \notin {"mkdir", "fatal"}
               \/ \E n \in Module : pc[n] \notin Past

SysdepsInv ==
  /\ TypeOK
  /\ LockInv
  /\ ProbeInv
  /\ HeaderInv
  /\ DeliveryInv
  /\ SucceededMeansDelivered
  /\ FatalInv
-----------------------------------------------------------------------------
(* Where an sd-run is, and what it sets.                                    *)

Env == [arch : {"", "known"}, ada : {"", "known"}, code : {"ok", "failed"}]

\* The position in Script of an sd-run that works on a probe, and its lock.
LEMMA PlaceFacts ==
  ASSUME TypeOK, LockInv, NEW m \in Module, pc[m] \in Locked
  PROVE  /\ step[m] \in 1..5 /\ step[m] + 1 \in 1 .. Len(Script) + 1
         /\ Current(m).probe \in Probe /\ LockOf(m) \in Locks
         /\ pc[m] \in {"compile", "link"} => step[m] \in {1, 4} /\ Current(m).op = "compile"
         /\ pc[m] = "run" => step[m] \in {2, 5} /\ Current(m).op = "run"
         /\ pc[m] \in {"header", "headerend", "headermv"} => step[m] = 3 /\ Current(m).op = "header"
         /\ Current(m).probe = IF step[m] \in {1, 2} THEN Arch ELSE CpuId
         /\ holder[LockOf(m)] = m
<1>1. /\ pc[m] \in {"compile", "link"} => step[m] \in {1, 4}
      /\ pc[m] = "run" => step[m] \in {2, 5}
      /\ pc[m] \in {"header", "headerend", "headermv"} => step[m] = 3
      /\ holder[LockOf(m)] = m
  BY DEF LockInv, Placed, Locked
<1>2. step[m] \in 1..5 /\ step[m] + 1 \in 1 .. Len(Script) + 1
  BY <1>1, ScriptLen DEF Locked
<1>3. /\ pc[m] \in {"compile", "link"} => Current(m).op = "compile"
      /\ pc[m] = "run" => Current(m).op = "run"
      /\ pc[m] \in {"header", "headerend", "headermv"} => Current(m).op = "header"
      /\ Current(m).op \in {"compile", "run", "header"}
      /\ Current(m).probe = IF step[m] \in {1, 2} THEN Arch ELSE CpuId
  BY <1>1, <1>2, ScriptFacts DEF Current
<1>4. Current(m).probe \in Probe
  BY <1>3 DEF Probe
<1>5. LockOf(m) \in Locks
  BY <1>3, <1>4 DEF LockOf, Locks
<1> QED
  BY <1>1, <1>2, <1>3, <1>4, <1>5

\* Two sd-runs that work under the same lock are one.
LEMMA Exclusive ==
  ASSUME TypeOK, LockInv, NEW m \in Module, NEW n \in Module,
         pc[m] \in Locked, pc[n] \in Locked, LockOf(m) = LockOf(n)
  PROVE  m = n
BY DEF LockInv

\* An assignment to one variable of one shell.
LEMMA SetFacts ==
  ASSUME env \in [Module -> Env], NEW m \in Module, NEW var, NEW value, Set(m, var, value),
         \/ var \in {"arch", "ada"} /\ value \in {"", "known"}
         \/ var = "code" /\ value \in {"ok", "failed"}
  PROVE  /\ env' \in [Module -> Env]
         /\ \A n \in Module : n # m \/ var # "arch" => env'[n].arch = env[n].arch
         /\ var = "arch" => env'[m].arch = value
<1>1. env' = [env EXCEPT ![m] = [env[m] EXCEPT ![var] = value]]
  BY DEF Set
<1>2. CASE var = "arch"
  <2>1. env[m] \in Env
    OBVIOUS
  <2>2. [env[m] EXCEPT !["arch"] = value] \in Env /\ [env[m] EXCEPT !["arch"] = value].arch = value
    BY <2>1, <1>2 DEF Env
  <2> QED
    BY <1>1, <1>2, <2>2
<1>3. CASE var = "ada"
  <2>1. env[m] \in Env
    OBVIOUS
  <2>2. [env[m] EXCEPT !["ada"] = value] \in Env /\ [env[m] EXCEPT !["ada"] = value].arch = env[m].arch
    BY <2>1, <1>3 DEF Env
  <2> QED
    BY <1>1, <1>3, <2>2
<1>4. CASE var = "code"
  <2>1. env[m] \in Env
    OBVIOUS
  <2>2. [env[m] EXCEPT !["code"] = value] \in Env /\ [env[m] EXCEPT !["code"] = value].arch = env[m].arch
    BY <2>1, <1>4 DEF Env
  <2> QED
    BY <1>1, <1>4, <2>2
<1> QED
  BY <1>2, <1>3, <1>4

-----------------------------------------------------------------------------
(* Types.                                                                   *)

LEMMA InitTypeOK == Init => TypeOK
<1> SUFFICES ASSUME Init PROVE TypeOK
  OBVIOUS
<1>1. world.kills \in Nat
  BY SysdepsAssumption DEF Init
<1>2. 1 \in 1 .. Len(Script) + 1
  BY ScriptLen
<1>3. Nothing \in [arch : {"", "known"}, ada : {"", "known"}, code : {"ok", "failed"}]
  BY DEF Nothing
<1>4. lines \in Seq(Module)
  BY DEF Init
<1>5. pc \in [Module -> {"boot"} \cup Over] /\ holder \in [Locks -> Module \cup {NoModule}]
  BY DEF Init, Over
<1>6. /\ step \in [Module -> 1 .. Len(Script) + 1]
      /\ env \in [Module -> [arch : {"", "known"}, ada : {"", "known"}, code : {"ok", "failed"}]]
      /\ header \in [h : Content, tmp : Content]
  BY <1>2, <1>3 DEF Init, Content
<1>7. crashes \in 0 .. world.kills
  BY <1>1 DEF Init
<1> QED
  BY <1>4, <1>5, <1>6, <1>7 DEF Init, TypeOK, Content, Over

\* Where a module can be.
Label == {"boot", "mkdir", "system", "mvlocker", "compile", "link", "run", "header",
          "headerend", "headermv", "adalock", "ada", "adaopen", "adaecho", "exec", "copy", "copyend",
          "append", "status"} \cup Over

\* Every step keeps the types.
LEMMA StepTypeOK == TypeOK /\ LockInv /\ [Next]_vars => TypeOK'
<1> SUFFICES ASSUME TypeOK, LockInv, [Next]_vars PROVE TypeOK'
  OBVIOUS
<1> USE DEF Goto, NextStep, Fatal, Lock, Unlock, At, Content, Over, running, probes, results
<1>1. ASSUME NEW m \in Module, Boot(m), UNCHANGED <<world, crashes>> PROVE TypeOK'
  BY <1>1 DEF Boot, TypeOK
<1>2. ASSUME NEW m \in Module, Mkdir(m), UNCHANGED <<world, crashes>> PROVE TypeOK'
  BY <1>2 DEF Mkdir, TypeOK
<1>3. ASSUME NEW m \in Module, PrepareLocker(m), UNCHANGED <<world, crashes>> PROVE TypeOK'
  <2>1. PICK l \in {"mvlocker", "fatal"} : pc' = [pc EXCEPT ![m] = l]
    BY <1>3 DEF PrepareLocker
  <2>2. UNCHANGED <<world, step, env, holder, made, probes, adaOut, results, crashes>>
    BY <1>3 DEF PrepareLocker
  <2> QED
    BY <2>1, <2>2 DEF TypeOK
<1>4. ASSUME NEW m \in Module, MoveLocker(m), UNCHANGED <<world, crashes>> PROVE TypeOK'
  BY <1>4 DEF MoveLocker, TypeOK
<1>5. ASSUME NEW m \in Module, LockStep(m), UNCHANGED <<world, crashes>> PROVE TypeOK'
  <2>1. PICK op \in {"compile", "run", "header"} : On(m, op) /\ Goto(m, op)
    BY <1>5 DEF LockStep
  <2>2. holder' \in [Locks -> Module \cup {NoModule}]
    BY <1>5 DEF LockStep, TypeOK
  <2> QED
    BY <1>5, <2>1, <2>2 DEF LockStep, TypeOK
<1>6. ASSUME NEW m \in Module, Compile(m), UNCHANGED <<world, crashes>> PROVE TypeOK'
  <2>1. pc[m] = "compile" /\ pc[m] \in Locked
    BY <1>6 DEF Compile, Locked
  <2>2. step[m] + 1 \in 1 .. Len(Script) + 1 /\ Current(m).probe \in Probe
    BY <2>1, PlaceFacts
  <2>3. step' \in [Module -> 1 .. Len(Script) + 1]
    <3>1. step' = [step EXCEPT ![m] = @ + 1] \/ step' = step
      BY <1>6 DEF Compile
    <3> QED
      BY <2>2, <3>1 DEF TypeOK
  <2>4. pc' \in [Module -> Label]
    <3>1. PICK l \in {"system", "link", "fatal"} : pc' = [pc EXCEPT ![m] = l]
      BY <1>6 DEF Compile
    <3> QED
      BY <3>1 DEF TypeOK, Label
  <2>5. holder' \in [Locks -> Module \cup {NoModule}]
    <3>1. holder' = [holder EXCEPT ![LockOf(m)] = NoModule] \/ holder' = holder
      BY <1>6 DEF Compile
    <3> QED
      BY <3>1 DEF TypeOK
  <2>6. exe' \in [Probe -> Content]
    <3>1. \/ \E c \in Content : exe' = [exe EXCEPT ![Current(m).probe] = c]
          \/ exe' = exe
      BY <1>6 DEF Compile
    <3> QED
      BY <3>1 DEF TypeOK
  <2>7. UNCHANGED <<world, env, made, locker, header, adaOut, results, crashes>>
    BY <1>6 DEF Compile
  <2> QED
    BY <2>3, <2>4, <2>5, <2>6, <2>7 DEF TypeOK, Label
<1>7. ASSUME NEW m \in Module, Link(m), UNCHANGED <<world, crashes>> PROVE TypeOK'
  <2>1. pc[m] = "link" /\ pc[m] \in Locked
    BY <1>7 DEF Link, Locked
  <2>2. step[m] + 1 \in 1 .. Len(Script) + 1 /\ Current(m).probe \in Probe
    BY <2>1, PlaceFacts
  <2>3. step' \in [Module -> 1 .. Len(Script) + 1]
    <3>1. step' = [step EXCEPT ![m] = @ + 1] \/ step' = step
      BY <1>7 DEF Link
    <3> QED
      BY <2>2, <3>1 DEF TypeOK
  <2>4. pc' \in [Module -> Label]
    <3>1. PICK l \in {"system", "fatal"} : pc' = [pc EXCEPT ![m] = l]
      BY <1>7 DEF Link
    <3> QED
      BY <3>1 DEF TypeOK, Label
  <2>5. holder' \in [Locks -> Module \cup {NoModule}]
    <3>1. holder' = [holder EXCEPT ![LockOf(m)] = NoModule] \/ holder' = holder
      BY <1>7 DEF Link
    <3> QED
      BY <3>1 DEF TypeOK
  <2>6. exe' \in [Probe -> Content]
    <3>1. \/ \E c \in Content : exe' = [exe EXCEPT ![Current(m).probe] = c]
          \/ exe' = exe
      BY <1>7 DEF Link
    <3> QED
      BY <3>1 DEF TypeOK
  <2>7. UNCHANGED <<world, env, made, locker, header, adaOut, results, crashes>>
    BY <1>7 DEF Link
  <2> QED
    BY <2>3, <2>4, <2>5, <2>6, <2>7 DEF TypeOK, Label
<1>8. ASSUME NEW m \in Module, Run(m), UNCHANGED <<world, crashes>> PROVE TypeOK'
  <2>1. pc[m] = "run" /\ pc[m] \in Locked
    BY <1>8 DEF Run, Locked
  <2>2. step[m] + 1 \in 1 .. Len(Script) + 1 /\ Current(m).probe \in Probe
    BY <2>1, PlaceFacts
  <2>3. step' \in [Module -> 1 .. Len(Script) + 1]
    BY <1>8, <2>2 DEF Run, TypeOK
  <2>4. env' \in [Module -> Env]
    BY <1>8, SetFacts DEF Run, TypeOK, Env
  <2> QED
    BY <1>8, <2>3, <2>4 DEF Run, TypeOK, Env
<1>9. ASSUME NEW m \in Module, Header(m), UNCHANGED <<world, crashes>> PROVE TypeOK'
  <2>1. PICK l \in {"headerend", "fatal"} : pc' = [pc EXCEPT ![m] = l]
    BY <1>9 DEF Header
  <2>2. holder' = [holder EXCEPT ![LockOf(m)] = NoModule] \/ holder' = holder
    BY <1>9 DEF Header
  <2>3. header' \in [h : Content, tmp : Content]
    <3>1. header' = [header EXCEPT !.tmp = "part"] \/ header' = header
      BY <1>9 DEF Header
    <3> QED
      BY <3>1 DEF TypeOK
  <2>4. UNCHANGED <<world, step, env, made, locker, exe, adaOut, results, crashes>>
    BY <1>9 DEF Header
  <2> QED
    BY <2>1, <2>2, <2>3, <2>4 DEF TypeOK
<1>10. ASSUME NEW m \in Module, HeaderEnd(m), UNCHANGED <<world, crashes>> PROVE TypeOK'
  BY <1>10 DEF HeaderEnd, TypeOK
<1>11. ASSUME NEW m \in Module, HeaderMove(m), UNCHANGED <<world, crashes>> PROVE TypeOK'
  <2>1. pc[m] = "headermv" /\ pc[m] \in Locked
    BY <1>11 DEF HeaderMove, Locked
  <2>2. step[m] + 1 \in 1 .. Len(Script) + 1 /\ Current(m).probe \in Probe
    BY <2>1, PlaceFacts
  <2>3. step' \in [Module -> 1 .. Len(Script) + 1]
    BY <1>11, <2>2 DEF HeaderMove, TypeOK
  <2> QED
    <3>1. header' \in [h : Content, tmp : Content]
      <4>1. header \in [h : Content, tmp : Content]
        BY DEF TypeOK
      <4>2. header' = header \/ header' = [h |-> header.tmp, tmp |-> "none"]
        BY <1>11 DEF HeaderMove
      <4> QED
        BY <4>1, <4>2
    <3>2. /\ pc' = [pc EXCEPT ![m] = "fatal"] \/ pc' = [pc EXCEPT ![m] = "system"]
          /\ holder' = [holder EXCEPT ![LockOf(m)] = NoModule]
      BY <1>11 DEF HeaderMove
    <3>3. UNCHANGED <<world, env, made, locker, exe, adaOut, results, crashes>>
      BY <1>11 DEF HeaderMove
    <3> QED
      BY <2>3, <3>1, <3>2, <3>3 DEF TypeOK
<1>12. ASSUME NEW m \in Module, LockAda(m), UNCHANGED <<world, crashes>> PROVE TypeOK'
  BY <1>12 DEF LockAda, TypeOK
<1>13. ASSUME NEW m \in Module, RunAda(m), UNCHANGED <<world, crashes>> PROVE TypeOK'
  <2>1. env' \in [Module -> Env]
    BY <1>13, SetFacts DEF RunAda, TypeOK, Env
  <2> QED
    BY <1>13, <2>1 DEF RunAda, TypeOK, Env
<1>14. ASSUME NEW m \in Module, OpenAda(m), UNCHANGED <<world, crashes>> PROVE TypeOK'
  BY <1>14 DEF OpenAda, TypeOK
<1>15. ASSUME NEW m \in Module, WriteAda(m), UNCHANGED <<world, crashes>> PROVE TypeOK'
  BY <1>15 DEF WriteAda, TypeOK
<1>16. ASSUME NEW m \in Module, ReadAda(m), UNCHANGED <<world, crashes>> PROVE TypeOK'
  <2>1. env' \in [Module -> Env]
    BY <1>16, SetFacts DEF ReadAda, TypeOK, Env
  <2> QED
    BY <1>16, <2>1 DEF ReadAda, TypeOK, Env
<1>17. ASSUME NEW m \in Module, Execute(m), UNCHANGED <<world, crashes>> PROVE TypeOK'
  <2>1. env' \in [Module -> Env]
    BY <1>17, SetFacts DEF Execute, TypeOK, Env
  <2> QED
    BY <1>17, <2>1 DEF Execute, TypeOK, Env
<1>18. ASSUME NEW m \in Module, Copy(m), UNCHANGED <<world, crashes>> PROVE TypeOK'
  BY <1>18 DEF Copy, TypeOK
<1>19. ASSUME NEW m \in Module, CopyEnd(m), UNCHANGED <<world, crashes>> PROVE TypeOK'
  <2>1. output' \in [Module -> Content]
    BY <1>19 DEF CopyEnd, TypeOK
  <2>2. /\ pc' = [pc EXCEPT ![m] = "append"]
        /\ UNCHANGED <<world, step, env, holder, made, probes, adaOut, status, lines, crashes>>
    BY <1>19 DEF CopyEnd
  <2> QED
    BY <2>1, <2>2 DEF TypeOK
<1>20. ASSUME NEW m \in Module, AppendLine(m), UNCHANGED <<world, crashes>> PROVE TypeOK'
  <2>1. lines' \in Seq(Module)
    <3>1. lines \in Seq(Module)
      BY DEF TypeOK
    <3>2. lines' = Append(lines, m) \/ lines' = lines
      BY <1>20 DEF AppendLine
    <3> QED
      BY <3>1, <3>2
  <2> QED
    BY <1>20, <2>1 DEF AppendLine, TypeOK
<1>21. ASSUME NEW m \in Module, WriteStatus(m), UNCHANGED <<world, crashes>> PROVE TypeOK'
  <2>1. status' \in [Module -> {"not-executed", "succeeded", "failed"}]
    BY <1>21 DEF WriteStatus, TypeOK
  <2>2. /\ pc' = [pc EXCEPT ![m] = "done"]
        /\ UNCHANGED <<world, step, env, holder, made, probes, adaOut, output, lines, crashes>>
    BY <1>21 DEF WriteStatus
  <2> QED
    BY <2>1, <2>2 DEF TypeOK
<1>22. CASE Restart
  <2>1. crashes' \in 0 .. world'.kills
    <3>1. world.kills \in Nat /\ crashes \in 0 .. world.kills
      BY SysdepsAssumption DEF TypeOK
    <3>2. crashes < world.kills /\ crashes' = crashes + 1 /\ world' = world
      BY <1>22 DEF Restart
    <3> QED
      BY <3>1, <3>2
  <2>2. 1 \in 1 .. Len(Script) + 1
    BY ScriptLen
  <2>3. /\ pc' \in [Module -> {"boot", "skipped"}]
        /\ holder' \in [Locks -> Module \cup {NoModule}]
    BY <1>22 DEF Restart
  <2>4. /\ step' \in [Module -> 1 .. Len(Script) + 1]
        /\ env' \in [Module -> [arch : {"", "known"}, ada : {"", "known"}, code : {"ok", "failed"}]]
    BY <1>22, <2>2 DEF Restart, Nothing
  <2> QED
    BY <1>22, <2>1, <2>3, <2>4 DEF Restart, TypeOK
<1>23. ASSUME NEW m \in Module, TestAda(m), UNCHANGED <<world, crashes>> PROVE TypeOK'
  BY <1>23 DEF TestAda, TypeOK
<1>24. CASE UNCHANGED vars
  BY <1>24 DEF vars, TypeOK
<1> QED
  BY <1>1, <1>2, <1>3, <1>4, <1>5, <1>6, <1>7, <1>8, <1>9, <1>10, <1>11, <1>12, <1>13, <1>14, <1>15, <1>16, <1>17, <1>18, <1>19, <1>20, <1>21, <1>22, <1>23, <1>24 DEF Next, SdRun, Finished

-----------------------------------------------------------------------------
(* Positions and locks.                                                     *)

LEMMA InitLockInv == Init => LockInv
BY DEF Init, LockInv, Placed, Locked

\* Nobody works on a probe under the lock of the Ada version.
LEMMA AdaApart ==
  ASSUME TypeOK, LockInv, NEW m \in Module, pc[m] \in Locked
  PROVE  LockOf(m) # AdaLock /\ AdaLock \in Locks
<1>1. Current(m).probe # Ada
  BY PlaceFacts DEF Probe, Arch, CpuId, Ada
<1> QED
  BY <1>1 DEF LockOf, AdaLock, Locks, Ada

\* A step that moves one sd-run and leaves the locks alone.
LEMMA MoveKeepsLocks ==
  ASSUME TypeOK, LockInv, NEW m \in Module, NEW l,
         pc' = [pc EXCEPT ![m] = l], l \notin Locked, UNCHANGED <<step, holder, locker>>,
         step[m] \in Placed(l)
  PROVE  LockInv'
<1>1. \A n \in Module : step'[n] \in Placed(pc'[n])
  BY DEF LockInv, TypeOK
<1>2. ASSUME NEW n \in Module, pc'[n] \in Locked PROVE holder'[LockOf(n)'] = n
  BY <1>2 DEF LockInv, TypeOK, LockOf, Current
<1> QED
  BY <1>1, <1>2 DEF LockInv

\* A step of an sd-run under its lock keeps it ...
LEMMA WorkKeepsLocks ==
  ASSUME TypeOK, LockInv, NEW m \in Module, NEW l,
         pc' = [pc EXCEPT ![m] = l], pc[m] \in Locked, UNCHANGED <<step, holder, locker>>,
         step[m] \in Placed(l)
  PROVE  LockInv'
<1>1. \A n \in Module : step'[n] \in Placed(pc'[n])
  BY DEF LockInv, TypeOK
<1>2. ASSUME NEW n \in Module, pc'[n] \in Locked PROVE holder'[LockOf(n)'] = n
  BY <1>2 DEF LockInv, TypeOK, LockOf, Current
<1> QED
  BY <1>1, <1>2 DEF LockInv

\* ... or gives it back and no other.
LEMMA UnlockKeepsLocks ==
  ASSUME TypeOK, LockInv, NEW m \in Module, pc[m] \in Locked, UNCHANGED locker,
         Unlock(LockOf(m)), NextStep(m) \/ Fatal(m)
  PROVE  LockInv'
<1> DEFINE l == pc'[m]
<1>1. l \in {"system", "fatal"} /\ pc' = [pc EXCEPT ![m] = l]
  BY DEF NextStep, Fatal, Goto, TypeOK
<1>2. /\ step'[m] \in 1..6
      /\ \A n \in Module \ {m} : step'[n] = step[n]
  BY PlaceFacts, StepRange DEF NextStep, Fatal
<1> HIDE DEF l
<1>3. \A n \in Module : step'[n] \in Placed(pc'[n])
  BY <1>1, <1>2 DEF LockInv, TypeOK, Placed
<1>4. ASSUME NEW n \in Module, pc'[n] \in Locked PROVE holder'[LockOf(n)'] = n
  <2>1. n # m /\ pc[n] \in Locked
    BY <1>1, <1>4 DEF TypeOK, Locked
  <2>2. LockOf(n)' = LockOf(n)
    BY <1>2, <2>1 DEF LockOf, Current
  <2>3. LockOf(n) # LockOf(m) /\ LockOf(n) \in Locks
    BY <2>1, Exclusive, PlaceFacts
  <2> QED
    BY <2>1, <2>2, <2>3 DEF Unlock, LockInv, TypeOK
<1>5. \A k \in Locks : holder'[k] # NoModule => locker' = "whole"
  BY SysdepsAssumption DEF Unlock, LockInv, TypeOK
<1> QED
  BY <1>3, <1>4, <1>5 DEF LockInv

\* Every step keeps positions and locks right.
LEMMA StepLockInv == TypeOK /\ LockInv /\ [Next]_vars => LockInv'
<1> SUFFICES ASSUME TypeOK, LockInv, [Next]_vars PROVE LockInv'
  OBVIOUS
<1> USE DEF Goto, At, running, probes, results
<1>1. ASSUME NEW m \in Module, Boot(m), UNCHANGED <<world, crashes>> PROVE LockInv'
  <2>1. PICK l \in {"system", "mkdir"} : pc' = [pc EXCEPT ![m] = l]
    BY <1>1 DEF Boot
  <2>2. step[m] \in Placed(l)
    BY <1>1, <2>1, StepRange DEF Boot, LockInv, Placed
  <2>3. UNCHANGED <<step, holder, locker>>
    BY <1>1 DEF Boot
  <2> QED
    BY <2>1, <2>2, <2>3, MoveKeepsLocks DEF Locked
<1>2. ASSUME NEW m \in Module, Mkdir(m), UNCHANGED <<world, crashes>> PROVE LockInv'
  <2>1. PICK l \in {"fatal", "system"} : pc' = [pc EXCEPT ![m] = l]
    BY <1>2 DEF Mkdir
  <2>2. step[m] \in Placed(l)
    BY <1>2, <2>1, StepRange DEF Mkdir, LockInv, Placed
  <2>3. UNCHANGED <<step, holder, locker>>
    BY <1>2 DEF Mkdir
  <2> QED
    BY <2>1, <2>2, <2>3, MoveKeepsLocks DEF Locked
<1>3. ASSUME NEW m \in Module, PrepareLocker(m), UNCHANGED <<world, crashes>> PROVE LockInv'
  <2>1. PICK l \in {"mvlocker", "fatal"} : pc' = [pc EXCEPT ![m] = l]
    BY <1>3 DEF PrepareLocker
  <2>2. step[m] \in Placed(l)
    BY <1>3, <2>1 DEF PrepareLocker, LockInv, TypeOK, Placed
  <2>3. UNCHANGED <<step, holder, locker>>
    BY <1>3 DEF PrepareLocker
  <2> QED
    BY <2>1, <2>2, <2>3, MoveKeepsLocks DEF Locked
<1>4. ASSUME NEW m \in Module, MoveLocker(m), UNCHANGED <<world, crashes>> PROVE LockInv'
  <2>1. pc' = [pc EXCEPT ![m] = "system"] /\ UNCHANGED <<step, holder>> /\ locker' = "whole"
    BY <1>4 DEF MoveLocker
  <2>2. \A n \in Module : step'[n] \in Placed(pc'[n])
    <3>1. step[m] \in Placed("system")
      BY StepRange DEF Placed
    <3> QED
      BY <2>1, <3>1 DEF LockInv, TypeOK
  <2>3. ASSUME NEW n \in Module, pc'[n] \in Locked PROVE holder'[LockOf(n)'] = n
    BY <2>1, <2>3 DEF LockInv, TypeOK, LockOf, Current, Locked
  <2> QED
    BY <2>1, <2>2, <2>3 DEF LockInv
<1>5. ASSUME NEW m \in Module, LockStep(m), UNCHANGED <<world, crashes>> PROVE LockInv'
  <2>1. PICK op \in {"compile", "run", "header"} : On(m, op) /\ pc' = [pc EXCEPT ![m] = op]
    BY <1>5 DEF LockStep
  <2>2. /\ Executable(locker) /\ holder[LockOf(m)] = NoModule
        /\ holder' = [holder EXCEPT ![LockOf(m)] = m]
        /\ UNCHANGED <<step, locker>>
    BY <1>5 DEF LockStep, Lock
  <2>3. step[m] \in 1..5 /\ Current(m).op = op
    BY <2>1, ScriptLen DEF On
  <2>4. Current(m).probe \in Probe
    BY <2>3, ScriptFacts DEF Current, Probe
  <2>5. LockOf(m) \in Locks
    BY <2>3, <2>4 DEF LockOf, Locks
  <2>6. step[m] \in Placed(op)
    <3>1. /\ step[m] \in {1, 4} => op = "compile"
          /\ step[m] \in {2, 5} => op = "run"
          /\ step[m] = 3 => op = "header"
      BY <2>3, ScriptFacts DEF Current
    <3> QED
      BY <2>3, <3>1 DEF Placed
  <2>7. \A n \in Module : step'[n] \in Placed(pc'[n])
    BY <2>1, <2>2, <2>6 DEF LockInv, TypeOK
  <2>8. ASSUME NEW n \in Module, pc'[n] \in Locked PROVE holder'[LockOf(n)'] = n
    <3>1. LockOf(n)' = LockOf(n)
      BY <2>2 DEF LockOf, Current
    <3>2. CASE n = m
      BY <2>2, <2>5, <3>1, <3>2 DEF TypeOK
    <3>3. CASE n # m
      <4>1. pc[n] \in Locked
        BY <2>1, <2>8, <3>3 DEF TypeOK
      <4>2. holder[LockOf(n)] = n /\ n # NoModule
        BY <4>1, SysdepsAssumption DEF LockInv
      <4> QED
        <5>1. LockOf(n) \in Locks
          BY <4>1, PlaceFacts
        <5>2. holder[LockOf(m)] = NoModule
          BY <2>2
        <5> QED
          BY <2>2, <2>5, <3>1, <4>2, <5>1, <5>2 DEF TypeOK
    <3> QED
      BY <3>2, <3>3
  <2>9. locker = "whole"
    BY <2>2 DEF Executable, LockInv
  <2> QED
    BY <2>2, <2>7, <2>8, <2>9 DEF LockInv
<1>6. ASSUME NEW m \in Module, Compile(m), UNCHANGED <<world, crashes>> PROVE LockInv'
  <2>1. pc[m] \in Locked
    BY <1>6 DEF Compile, Locked
  <2>2. CASE pc' = [pc EXCEPT ![m] = "link"] /\ UNCHANGED <<step, holder>>
    <3>1. step[m] \in Placed("link")
      BY <1>6 DEF Compile, LockInv, Placed
    <3>2. UNCHANGED locker
      BY <1>6 DEF Compile
    <3> QED
      BY <2>1, <2>2, <3>1, <3>2, WorkKeepsLocks
  <2>3. CASE (NextStep(m) \/ Fatal(m)) /\ Unlock(LockOf(m))
    BY <1>6, <2>1, <2>3, UnlockKeepsLocks DEF Compile
  <2> QED
    BY <1>6, <2>2, <2>3 DEF Compile
<1>7. ASSUME NEW m \in Module, Link(m), UNCHANGED <<world, crashes>> PROVE LockInv'
  <2>1. pc[m] \in Locked
    BY <1>7 DEF Link, Locked
  <2> QED
    BY <1>7, <2>1, UnlockKeepsLocks DEF Link
<1>8. ASSUME NEW m \in Module, Run(m), UNCHANGED <<world, crashes>> PROVE LockInv'
  <2>1. pc[m] \in Locked
    BY <1>8 DEF Run, Locked
  <2> QED
    BY <1>8, <2>1, UnlockKeepsLocks DEF Run
<1>9. ASSUME NEW m \in Module, Header(m), UNCHANGED <<world, crashes>> PROVE LockInv'
  <2>1. pc[m] \in Locked
    BY <1>9 DEF Header, Locked
  <2>2. CASE pc' = [pc EXCEPT ![m] = "headerend"] /\ UNCHANGED <<step, holder>>
    <3>1. step[m] \in Placed("headerend")
      BY <1>9 DEF Header, LockInv, Placed
    <3>2. UNCHANGED locker
      BY <1>9 DEF Header
    <3> QED
      BY <2>1, <2>2, <3>1, <3>2, WorkKeepsLocks
  <2>3. CASE (NextStep(m) \/ Fatal(m)) /\ Unlock(LockOf(m))
    BY <1>9, <2>1, <2>3, UnlockKeepsLocks DEF Header
  <2> QED
    BY <1>9, <2>2, <2>3 DEF Header
<1>10. ASSUME NEW m \in Module, HeaderEnd(m), UNCHANGED <<world, crashes>> PROVE LockInv'
  <2>1. pc[m] \in Locked
    BY <1>10 DEF HeaderEnd, Locked
  <2>2. CASE pc' = [pc EXCEPT ![m] = "headermv"] /\ UNCHANGED <<step, holder>>
    <3>1. step[m] \in Placed("headermv")
      BY <1>10 DEF HeaderEnd, LockInv, Placed
    <3>2. UNCHANGED locker
      BY <1>10 DEF HeaderEnd
    <3> QED
      BY <2>1, <2>2, <3>1, <3>2, WorkKeepsLocks
  <2>3. CASE (NextStep(m) \/ Fatal(m)) /\ Unlock(LockOf(m))
    BY <1>10, <2>1, <2>3, UnlockKeepsLocks DEF HeaderEnd
  <2> QED
    BY <1>10, <2>2, <2>3 DEF HeaderEnd
<1>11. ASSUME NEW m \in Module, HeaderMove(m), UNCHANGED <<world, crashes>> PROVE LockInv'
  <2>1. pc[m] \in Locked
    BY <1>11 DEF HeaderMove, Locked
  <2>2. NextStep(m) \/ Fatal(m)
    BY <1>11 DEF HeaderMove
  <2> QED
    BY <1>11, <2>1, <2>2, UnlockKeepsLocks DEF HeaderMove
<1>12. ASSUME NEW m \in Module, LockAda(m), UNCHANGED <<world, crashes>> PROVE LockInv'
  <2>1. /\ pc' = [pc EXCEPT ![m] = "ada"]
        /\ holder' = [holder EXCEPT ![AdaLock] = m]
        /\ UNCHANGED <<step, locker>>
    BY <1>12 DEF LockAda, Lock
  <2>2. Executable(locker) /\ pc[m] = "adalock"
    BY <1>12 DEF LockAda, Lock
  <2>3. \A n \in Module : step'[n] \in Placed(pc'[n])
    BY <2>1, <2>2 DEF LockInv, TypeOK, Placed
  <2>4. ASSUME NEW n \in Module, pc'[n] \in Locked PROVE holder'[LockOf(n)'] = n
    <3>1. pc[n] \in Locked /\ LockOf(n)' = LockOf(n)
      BY <2>1, <2>4 DEF LockOf, Current, Locked, TypeOK
    <3>2. LockOf(n) # AdaLock /\ LockOf(n) \in Locks /\ holder[LockOf(n)] = n
      BY <3>1, AdaApart, PlaceFacts
    <3> QED
      BY <2>1, <3>1, <3>2 DEF TypeOK
  <2>5. \A k \in Locks : holder'[k] # NoModule => locker' = "whole"
    BY <2>1, <2>2, SysdepsAssumption DEF LockInv, TypeOK, Executable
  <2> QED
    BY <2>1, <2>3, <2>4, <2>5 DEF LockInv
<1>13. ASSUME NEW m \in Module, RunAda(m), UNCHANGED <<world, crashes>> PROVE LockInv'
  <2>1. /\ pc' = [pc EXCEPT ![m] = "adaopen"]
        /\ holder' = [holder EXCEPT ![AdaLock] = NoModule]
        /\ UNCHANGED <<step, locker>>
    BY <1>13 DEF RunAda, Unlock
  <2>2. pc[m] = "ada"
    BY <1>13 DEF RunAda
  <2>3. \A n \in Module : step'[n] \in Placed(pc'[n])
    BY <2>1, <2>2 DEF LockInv, TypeOK, Placed
  <2>4. ASSUME NEW n \in Module, pc'[n] \in Locked PROVE holder'[LockOf(n)'] = n
    <3>1. pc[n] \in Locked /\ LockOf(n)' = LockOf(n)
      BY <2>1, <2>4 DEF LockOf, Current, Locked, TypeOK
    <3>2. LockOf(n) # AdaLock /\ LockOf(n) \in Locks /\ holder[LockOf(n)] = n
      BY <3>1, AdaApart, PlaceFacts
    <3> QED
      BY <2>1, <3>1, <3>2 DEF TypeOK
  <2>5. \A k \in Locks : holder'[k] # NoModule => locker' = "whole"
    BY <2>1, SysdepsAssumption DEF LockInv, TypeOK, Executable
  <2> QED
    BY <2>1, <2>3, <2>4, <2>5 DEF LockInv
<1>14. ASSUME NEW m \in Module, OpenAda(m), UNCHANGED <<world, crashes>> PROVE LockInv'
  <2>1. PICK l \in {"adaecho"} : pc' = [pc EXCEPT ![m] = l]
    BY <1>14 DEF OpenAda
  <2>2. step[m] \in Placed(l)
    BY <1>14, <2>1 DEF OpenAda, LockInv, TypeOK, Placed
  <2>3. UNCHANGED <<step, holder, locker>>
    BY <1>14 DEF OpenAda
  <2> QED
    BY <2>1, <2>2, <2>3, MoveKeepsLocks DEF Locked
<1>15. ASSUME NEW m \in Module, WriteAda(m), UNCHANGED <<world, crashes>> PROVE LockInv'
  <2>1. PICK l \in {"exec"} : pc' = [pc EXCEPT ![m] = l]
    BY <1>15 DEF WriteAda
  <2>2. step[m] \in Placed(l)
    BY <1>15, <2>1 DEF WriteAda, LockInv, TypeOK, Placed
  <2>3. UNCHANGED <<step, holder, locker>>
    BY <1>15 DEF WriteAda
  <2> QED
    BY <2>1, <2>2, <2>3, MoveKeepsLocks DEF Locked
<1>16. ASSUME NEW m \in Module, ReadAda(m), UNCHANGED <<world, crashes>> PROVE LockInv'
  <2>1. PICK l \in {"exec"} : pc' = [pc EXCEPT ![m] = l]
    BY <1>16 DEF ReadAda
  <2>2. step[m] \in Placed(l)
    <3>1. step[m] = 6
      <4>1. step[m] > Len(Script)
        BY <1>16 DEF ReadAda, AtAda
      <4> QED
        BY <4>1, ScriptLen, StepRange
    <3> QED
      BY <2>1, <3>1 DEF Placed
  <2>3. UNCHANGED <<step, holder, locker>>
    BY <1>16 DEF ReadAda
  <2> QED
    BY <2>1, <2>2, <2>3, MoveKeepsLocks DEF Locked
<1>17. ASSUME NEW m \in Module, Execute(m), UNCHANGED <<world, crashes>> PROVE LockInv'
  <2>1. PICK l \in {"copy"} : pc' = [pc EXCEPT ![m] = l]
    BY <1>17 DEF Execute
  <2>2. step[m] \in Placed(l)
    BY <1>17, <2>1 DEF Execute, LockInv, TypeOK, Placed
  <2>3. UNCHANGED <<step, holder, locker>>
    BY <1>17 DEF Execute
  <2> QED
    BY <2>1, <2>2, <2>3, MoveKeepsLocks DEF Locked
<1>18. ASSUME NEW m \in Module, Copy(m), UNCHANGED <<world, crashes>> PROVE LockInv'
  <2>1. PICK l \in {"copyend"} : pc' = [pc EXCEPT ![m] = l]
    BY <1>18 DEF Copy
  <2>2. step[m] \in Placed(l)
    BY <1>18, <2>1 DEF Copy, LockInv, TypeOK, Placed
  <2>3. UNCHANGED <<step, holder, locker>>
    BY <1>18 DEF Copy
  <2> QED
    BY <2>1, <2>2, <2>3, MoveKeepsLocks DEF Locked
<1>19. ASSUME NEW m \in Module, CopyEnd(m), UNCHANGED <<world, crashes>> PROVE LockInv'
  <2>1. PICK l \in {"append"} : pc' = [pc EXCEPT ![m] = l]
    BY <1>19 DEF CopyEnd
  <2>2. step[m] \in Placed(l)
    BY <1>19, <2>1 DEF CopyEnd, LockInv, TypeOK, Placed
  <2>3. UNCHANGED <<step, holder, locker>>
    BY <1>19 DEF CopyEnd
  <2> QED
    BY <2>1, <2>2, <2>3, MoveKeepsLocks DEF Locked
<1>20. ASSUME NEW m \in Module, AppendLine(m), UNCHANGED <<world, crashes>> PROVE LockInv'
  <2>1. PICK l \in {"status"} : pc' = [pc EXCEPT ![m] = l]
    BY <1>20 DEF AppendLine
  <2>2. step[m] \in Placed(l)
    BY <1>20, <2>1 DEF AppendLine, LockInv, TypeOK, Placed
  <2>3. UNCHANGED <<step, holder, locker>>
    BY <1>20 DEF AppendLine
  <2> QED
    BY <2>1, <2>2, <2>3, MoveKeepsLocks DEF Locked
<1>21. ASSUME NEW m \in Module, WriteStatus(m), UNCHANGED <<world, crashes>> PROVE LockInv'
  <2>1. PICK l \in {"done"} : pc' = [pc EXCEPT ![m] = l]
    BY <1>21 DEF WriteStatus
  <2>2. step[m] \in Placed(l)
    BY <1>21, <2>1 DEF WriteStatus, LockInv, TypeOK, Placed
  <2>3. UNCHANGED <<step, holder, locker>>
    BY <1>21 DEF WriteStatus
  <2> QED
    BY <2>1, <2>2, <2>3, MoveKeepsLocks DEF Locked
<1>22. CASE Restart
  <2>1. /\ \A n \in Module : pc'[n] \in {"boot", "skipped"} /\ step'[n] = 1
        /\ \A k \in Locks : holder'[k] = NoModule
        /\ UNCHANGED locker
    BY <1>22 DEF Restart
  <2> QED
    BY <2>1 DEF LockInv, Placed, Locked
<1>23. ASSUME NEW m \in Module, TestAda(m), UNCHANGED <<world, crashes>> PROVE LockInv'
  <2>1. PICK l \in {"adalock"} : pc' = [pc EXCEPT ![m] = l]
    BY <1>23 DEF TestAda
  <2>2. step[m] \in Placed(l)
    <3>1. step[m] = 6
      <4>1. step[m] > Len(Script)
        BY <1>23 DEF TestAda, AtAda
      <4> QED
        BY <4>1, ScriptLen, StepRange
    <3> QED
      BY <2>1, <3>1 DEF Placed
  <2>3. UNCHANGED <<step, holder, locker>>
    BY <1>23 DEF TestAda
  <2> QED
    BY <2>1, <2>2, <2>3, MoveKeepsLocks DEF Locked
<1>24. CASE UNCHANGED vars
  BY <1>24 DEF vars, LockInv, LockOf, Current
<1> QED
  BY <1>1, <1>2, <1>3, <1>4, <1>5, <1>6, <1>7, <1>8, <1>9, <1>10, <1>11, <1>12, <1>13, <1>14, <1>15, <1>16, <1>17, <1>18, <1>19, <1>20, <1>21, <1>22, <1>23, <1>24 DEF Next, SdRun, Finished

-----------------------------------------------------------------------------
(* What a step of one sd-run can change.                                    *)

\* The steps outside of sd-compile, the probes and the rename of the header.
Aside(m) ==
  \/ Boot(m) \/ Mkdir(m) \/ PrepareLocker(m) \/ MoveLocker(m) \/ LockStep(m)
  \/ Header(m) \/ HeaderEnd(m) \/ TestAda(m) \/ LockAda(m) \/ RunAda(m) \/ OpenAda(m)
  \/ WriteAda(m) \/ ReadAda(m) \/ Execute(m) \/ Copy(m) \/ CopyEnd(m)
  \/ AppendLine(m) \/ WriteStatus(m)

LEMMA AsideFacts ==
  ASSUME NEW m \in Module, Aside(m)
  PROVE  /\ UNCHANGED <<step, exe>>
         /\ pc[m] \notin {"compile", "link", "run", "headermv"}
         /\ \E l : pc' = [pc EXCEPT ![m] = l]
BY DEF Aside, Boot, Mkdir, PrepareLocker, MoveLocker, LockStep, Header, HeaderEnd,
       TestAda, LockAda, RunAda, OpenAda, WriteAda, ReadAda, Execute, Copy, CopyEnd,
       AppendLine, WriteStatus,
       Lock, Unlock, Goto, At, On, AtAda, Fatal, probes, results

-----------------------------------------------------------------------------
(* The header.                                                              *)

\* One sd-run at a time makes the header.
LEMMA OneHeader ==
  ASSUME TypeOK, LockInv, NEW m \in Module, NEW n \in Module,
         pc[m] \in {"header", "headerend", "headermv"},
         pc[n] \in {"header", "headerend", "headermv"}
  PROVE  m = n
<1>1. pc[m] \in Locked /\ pc[n] \in Locked
  BY DEF Locked
<1>2. step[m] = 3 /\ step[n] = 3
  BY <1>1, PlaceFacts
<1>3. LockOf(m) = LockOf(n)
  BY <1>2 DEF LockOf, Current
<1> QED
  BY <1>1, <1>3, Exclusive

LEMMA InitHeaderInv == Init => HeaderInv
BY DEF Init, HeaderInv

\* Every step keeps the header complete.
LEMMA StepHeaderInv == TypeOK /\ LockInv /\ HeaderInv /\ [Next]_vars => HeaderInv'
<1> SUFFICES ASSUME TypeOK, LockInv, HeaderInv, [Next]_vars PROVE HeaderInv'
  OBVIOUS
<1> USE DEF Goto, At, Unlock, NextStep, Fatal, probes, results
<1>1. ASSUME NEW m \in Module, NEW l, pc' = [pc EXCEPT ![m] = l], l # "headermv",
             UNCHANGED <<step, header>>
      PROVE  HeaderInv'
  BY <1>1 DEF HeaderInv, TypeOK
<1>2. ASSUME NEW m \in Module, Header(m) PROVE HeaderInv'
  <2>1. CASE header' = [header EXCEPT !.tmp = "part"] /\ pc' = [pc EXCEPT ![m] = "headerend"] /\ step' = step
    <3>1. header'.h = header.h
      BY <2>1 DEF TypeOK
    <3>2. \A n \in Module : pc'[n] # "headermv"
      BY <1>2, <2>1, OneHeader DEF Header, TypeOK
    <3> QED
      BY <2>1, <3>1, <3>2 DEF HeaderInv
  <2>2. CASE Fatal(m) /\ UNCHANGED header
    BY <1>1, <2>2
  <2> QED
    BY <1>2, <2>1, <2>2 DEF Header
<1>3. ASSUME NEW m \in Module, HeaderEnd(m) PROVE HeaderInv'
  <2>1. header'.h = header.h /\ header'.tmp = "whole" /\ step' = step
    BY <1>3 DEF HeaderEnd, TypeOK
  <2> QED
    BY <2>1 DEF HeaderInv
<1>4. ASSUME NEW m \in Module, HeaderMove(m) PROVE HeaderInv'
  <2>1. header.tmp = "whole"
    BY <1>4 DEF HeaderMove, HeaderInv
  <2>2. header'.h = "whole" /\ pc' = [pc EXCEPT ![m] = "system"]
    BY <1>4, <2>1 DEF HeaderMove
  <2>3. \A n \in Module : pc'[n] # "headermv"
    BY <1>4, <2>2, OneHeader DEF HeaderMove, TypeOK
  <2> QED
    BY <2>2, <2>3 DEF HeaderInv
<1>5. ASSUME NEW m \in Module, Compile(m) \/ Link(m) \/ Run(m) PROVE HeaderInv'
  <2>1. pc[m] \in {"compile", "link", "run"} /\ pc[m] \in Locked /\ UNCHANGED header
    BY <1>5 DEF Compile, Link, Run, Locked
  <2>2. \/ pc' = [pc EXCEPT ![m] = "link"] /\ step' = step
        \/ pc' = [pc EXCEPT ![m] = "fatal"] /\ step' = step
        \/ pc' = [pc EXCEPT ![m] = "system"] /\ step' = [step EXCEPT ![m] = @ + 1]
    BY <1>5 DEF Compile, Link, Run
  <2>3. step[m] \in {1, 2, 4, 5}
    BY <2>1, PlaceFacts
  <2>4. \A n \in Module : pc'[n] = "headermv" => pc[n] = "headermv"
    BY <2>1, <2>2 DEF TypeOK
  <2>5. \A n \in Module : step'[n] > 3 => step[n] > 3
    BY <2>2, <2>3, StepRange
  <2> QED
    BY <2>1, <2>4, <2>5 DEF HeaderInv
<1>6. ASSUME NEW m \in Module, Aside(m), ~Header(m), ~HeaderEnd(m) PROVE HeaderInv'
  <2>1. UNCHANGED <<step, header>> /\ \E l : pc' = [pc EXCEPT ![m] = l] /\ l # "headermv"
    BY <1>6 DEF Aside, Boot, Mkdir, PrepareLocker, MoveLocker, LockStep, TestAda, LockAda, RunAda,
                OpenAda, WriteAda, ReadAda, Execute, Copy, CopyEnd, AppendLine,
                WriteStatus,
                Lock
  <2> QED
    BY <1>1, <2>1
<1>7. CASE Restart
  BY <1>7 DEF Restart, HeaderInv
<1>8. CASE UNCHANGED vars
  BY <1>8 DEF vars, running, HeaderInv
<1> QED
  BY <1>2, <1>3, <1>4, <1>5, <1>6, <1>7, <1>8 DEF Next, SdRun, Aside, Finished

-----------------------------------------------------------------------------
(* The probes.                                                              *)

LEMMA InitProbeInv == Init => ProbeInv
BY DEF Init, ProbeInv, ProbesRight

\* A step that leaves the probes alone, and comes past no compilation unless
\* it has seen the probe complete.
LEMMA ProbeFrame ==
  ASSUME TypeOK, ProbeInv, NEW m \in Module, NEW l, pc' = [pc EXCEPT ![m] = l],
         pc[m] # "link", UNCHANGED <<exe, world>>,
         \/ step' = step
         \/ /\ step' = [step EXCEPT ![m] = @ + 1]
            /\ Orderly => /\ step[m] = 1 => exe[Arch] = "whole"
                          /\ step[m] = 4 => exe[CpuId] = "whole"
  PROVE  ProbeInv'
<1> SUFFICES ASSUME Orderly' PROVE ProbesRight'
  BY DEF ProbeInv, ProbesRight
<1>0. Orderly
  BY DEF Orderly
<1>1. ASSUME NEW p \in Probe, exe'[p] = "part", world'.early
      PROVE  \E n \in Module : pc'[n] = "link" /\ (Current(n).probe)' = p
  <2>1. PICK n \in Module : pc[n] = "link" /\ Current(n).probe = p
    BY <1>0, <1>1 DEF ProbeInv, ProbesRight
  <2>2. n # m /\ pc'[n] = "link" /\ step'[n] = step[n]
    BY <2>1, StepRange DEF TypeOK
  <2>3. Current(n)' = Current(n)
    BY <2>2 DEF Current
  <2> QED
    BY <2>1, <2>2, <2>3
<1>2. ASSUME NEW n \in Module
      PROVE  (step'[n] > 1 => exe'[Arch] = "whole") /\ (step'[n] > 4 => exe'[CpuId] = "whole")
  BY <1>0, StepRange DEF ProbeInv, ProbesRight
<1> QED
  BY <1>1, <1>2 DEF ProbesRight

\* Every step keeps the probes right.
LEMMA StepProbeInv == TypeOK /\ LockInv /\ ProbeInv /\ [Next]_vars => ProbeInv'
<1> SUFFICES ASSUME TypeOK, LockInv, ProbeInv, [Next]_vars PROVE ProbeInv'
  OBVIOUS
<1> USE DEF Goto, At, Unlock, NextStep, Fatal, probes, results
<1>1. ASSUME NEW m \in Module, Compile(m), UNCHANGED <<world, crashes>> PROVE ProbeInv'
  <2> DEFINE p == Current(m).probe
  <2>1. pc[m] = "compile" /\ pc[m] \in Locked
    BY <1>1 DEF Compile, Locked
  <2>2. /\ step[m] \in {1, 4} /\ p \in Probe
        /\ p = IF step[m] = 1 THEN Arch ELSE CpuId
    BY <2>1, PlaceFacts
  <2>3. CASE Executable(exe[p]) /\ UNCHANGED exe /\ NextStep(m)
    <3>1. ASSUME Orderly PROVE exe[p] = "whole"
      <4>1. ASSUME exe[p] = "part", world.early PROVE FALSE
        <5>1. PICK n \in Module : pc[n] = "link" /\ Current(n).probe = p
          BY <2>2, <3>1, <4>1 DEF ProbeInv, ProbesRight
        <5>2. pc[n] \in Locked /\ step[n] \in {1, 4} /\ Current(n).probe = IF step[n] = 1 THEN Arch ELSE CpuId
          BY <5>1, PlaceFacts DEF Locked
        <5>3. step[n] = step[m]
          BY <2>2, <5>1, <5>2 DEF Arch, CpuId
        <5>4. LockOf(n) = LockOf(m)
          BY <5>3 DEF LockOf, Current
        <5> QED
          BY <2>1, <5>1, <5>2, <5>4, Exclusive
      <4> QED
        BY <2>3, <4>1 DEF Executable
    <3>2. pc' = [pc EXCEPT ![m] = "system"] /\ step' = [step EXCEPT ![m] = @ + 1]
      BY <2>3
    <3>3. Orderly => /\ step[m] = 1 => exe[Arch] = "whole"
                     /\ step[m] = 4 => exe[CpuId] = "whole"
      BY <2>2, <3>1
    <3> HIDE DEF p
    <3> QED
      BY <1>1, <2>1, <2>3, <3>2, <3>3, ProbeFrame
  <2>4. CASE ~Executable(exe[p]) /\ pc' = [pc EXCEPT ![m] = "link"] /\ step' = step
             /\ exe' = [exe EXCEPT ![p] = "part"]
    <3> SUFFICES ASSUME Orderly' PROVE ProbesRight'
      BY DEF ProbeInv, ProbesRight
    <3>0. Orderly
      BY <1>1 DEF Orderly
    <3>1. ASSUME NEW q \in Probe, exe'[q] = "part", world'.early
          PROVE  \E n \in Module : pc'[n] = "link" /\ (Current(n).probe)' = q
      <4>0. \A n \in Module : Current(n)' = Current(n)
        BY <2>4 DEF Current
      <4>1. CASE q = p
        BY <2>4, <4>0, <4>1 DEF TypeOK
      <4>2. CASE q # p
        <5>1. PICK n \in Module : pc[n] = "link" /\ Current(n).probe = q
          BY <1>1, <2>2, <2>4, <3>0, <3>1, <4>2 DEF ProbeInv, ProbesRight, TypeOK
        <5> QED
          BY <2>1, <2>4, <4>0, <5>1 DEF TypeOK
      <4> QED
        BY <4>1, <4>2
    <3>2. exe[p] # "whole"
      BY <2>4 DEF Executable
    <3>3. ASSUME NEW n \in Module
          PROVE  (step'[n] > 1 => exe'[Arch] = "whole") /\ (step'[n] > 4 => exe'[CpuId] = "whole")
      <4>1. step[n] > 1 => exe[Arch] = "whole"
        BY <3>0 DEF ProbeInv, ProbesRight
      <4>2. step[n] > 4 => exe[CpuId] = "whole"
        BY <3>0 DEF ProbeInv, ProbesRight
      <4>3. \A q \in Probe : exe[q] = "whole" => exe'[q] = "whole"
        BY <2>4, <3>2 DEF TypeOK
      <4>4. Arch \in Probe /\ CpuId \in Probe
        BY DEF Probe
      <4> QED
        BY <2>4, <4>1, <4>2, <4>3, <4>4
    <3> QED
      BY <3>1, <3>3 DEF ProbesRight
  <2>5. CASE UNCHANGED exe /\ Fatal(m)
    BY <1>1, <2>1, <2>5, ProbeFrame
  <2> QED
    BY <1>1, <2>3, <2>4, <2>5 DEF Compile
<1>2. ASSUME NEW m \in Module, Link(m), UNCHANGED <<world, crashes>> PROVE ProbeInv'
  <2> DEFINE p == Current(m).probe
  <2>1. pc[m] = "link" /\ pc[m] \in Locked
    BY <1>2 DEF Link, Locked
  <2>2. /\ step[m] \in {1, 4} /\ p \in Probe
        /\ p = IF step[m] = 1 THEN Arch ELSE CpuId
    BY <2>1, PlaceFacts
  <2> SUFFICES ASSUME Orderly' PROVE ProbesRight'
    BY DEF ProbeInv, ProbesRight
  <2>0. Orderly
    BY <1>2 DEF Orderly
  <2>3. CASE exe' = [exe EXCEPT ![p] = "whole"] /\ NextStep(m)
    <3>1. ASSUME NEW q \in Probe, exe'[q] = "part", world'.early
          PROVE  \E n \in Module : pc'[n] = "link" /\ (Current(n).probe)' = q
      <4>1. q # p /\ exe[q] = "part" /\ world.early
        BY <1>2, <2>2, <2>3, <3>1 DEF TypeOK
      <4>2. PICK n \in Module : pc[n] = "link" /\ Current(n).probe = q
        BY <2>0, <4>1 DEF ProbeInv, ProbesRight
      <4>3. n # m /\ pc'[n] = "link" /\ step'[n] = step[n]
        BY <2>3, <4>1, <4>2, StepRange DEF TypeOK
      <4>4. Current(n)' = Current(n)
        BY <4>3 DEF Current
      <4> QED
        BY <4>2, <4>3, <4>4
    <3>2. exe'[p] = "whole" /\ \A q \in Probe : exe[q] = "whole" => exe'[q] = "whole"
      BY <2>2, <2>3 DEF TypeOK
    <3>3. Arch \in Probe /\ CpuId \in Probe
      BY DEF Probe
    <3>4. ASSUME NEW n \in Module
          PROVE  (step'[n] > 1 => exe'[Arch] = "whole") /\ (step'[n] > 4 => exe'[CpuId] = "whole")
      <4>1. n # m => step'[n] = step[n]
        BY <2>3, StepRange
      <4>2. step'[m] = step[m] + 1
        BY <2>3, StepRange
      <4> HIDE DEF p
      <4> QED
        BY <2>0, <2>2, <3>2, <3>3, <4>1, <4>2, StepRange DEF ProbeInv, ProbesRight
    <3> QED
      BY <3>1, <3>4 DEF ProbesRight
  <2>4. CASE world.fail /\ Fatal(m) /\ UNCHANGED exe
    BY <1>2, <2>0, <2>4 DEF ProbeInv, ProbesRight, Orderly
  <2> QED
    BY <1>2, <2>3, <2>4 DEF Link
<1>3. ASSUME NEW m \in Module, Run(m), UNCHANGED <<world, crashes>> PROVE ProbeInv'
  <2>1. pc[m] = "run" /\ pc[m] \in Locked
    BY <1>3 DEF Run, Locked
  <2>2. step[m] \in {2, 5}
    BY <2>1, PlaceFacts
  <2>3. /\ UNCHANGED exe
        /\ pc' = [pc EXCEPT ![m] = "system"] /\ step' = [step EXCEPT ![m] = @ + 1]
    BY <1>3 DEF Run
  <2>4. pc[m] # "link" /\ step[m] # 1 /\ step[m] # 4
    BY <2>1, <2>2
  <2> QED
    BY <1>3, <2>3, <2>4, ProbeFrame
<1>4. ASSUME NEW m \in Module, HeaderMove(m), UNCHANGED <<world, crashes>> PROVE ProbeInv'
  <2>1. pc[m] = "headermv" /\ pc[m] \in Locked
    BY <1>4 DEF HeaderMove, Locked
  <2>2. step[m] = 3
    BY <2>1, PlaceFacts
  <2>3. UNCHANGED exe /\ (NextStep(m) \/ Fatal(m))
    BY <1>4 DEF HeaderMove
  <2> QED
    BY <1>4, <2>1, <2>2, <2>3, ProbeFrame
<1>5. ASSUME NEW m \in Module, Aside(m), UNCHANGED <<world, crashes>> PROVE ProbeInv'
  BY <1>5, AsideFacts, ProbeFrame
<1>6. CASE Restart
  <2>1. ASSUME Orderly' PROVE ~world'.early
    <3>1. world.kills \in Nat /\ crashes \in 0 .. world.kills
      BY SysdepsAssumption DEF TypeOK
    <3>2. crashes < world.kills /\ world' = world
      BY <1>6 DEF Restart
    <3> QED
      BY <2>1, <3>1, <3>2 DEF Orderly
  <2>2. \A n \in Module : step'[n] = 1
    BY <1>6 DEF Restart
  <2> QED
    BY <2>1, <2>2 DEF ProbeInv, ProbesRight
<1>7. CASE UNCHANGED vars
  BY <1>7 DEF vars, running, ProbeInv, ProbesRight, Orderly, Current
<1> QED
  BY <1>1, <1>2, <1>3, <1>4, <1>5, <1>6, <1>7 DEF Next, SdRun, Aside, Finished

-----------------------------------------------------------------------------
(* Delivery.                                                                *)

\* One more line.
LEMMA RangeAppend ==
  ASSUME NEW s \in Seq(Module), NEW m \in Module, IsInjective(s), m \notin Range(s)
  PROVE  /\ Range(Append(s, m)) = Range(s) \cup {m}
         /\ IsInjective(Append(s, m))
<1>1. /\ DOMAIN Append(s, m) = 1 .. Len(s) + 1 /\ DOMAIN s = 1 .. Len(s) /\ Len(s) \in Nat
      /\ \A i \in 1 .. Len(s) : Append(s, m)[i] = s[i]
      /\ Append(s, m)[Len(s) + 1] = m
  OBVIOUS
<1>2. Range(Append(s, m)) = Range(s) \cup {m}
  BY <1>1 DEF Range
<1>3. \A i \in 1 .. Len(s) : s[i] # m
  BY <1>1 DEF Range
<1>4. ASSUME NEW i \in 1 .. Len(s) + 1, NEW j \in 1 .. Len(s) + 1, Append(s, m)[i] = Append(s, m)[j]
      PROVE  i = j
  <2>1. CASE i \in 1 .. Len(s) /\ j \in 1 .. Len(s)
    <3>1. s[i] = s[j]
      BY <1>1, <1>4, <2>1
    <3> QED
      BY <1>1, <2>1, <3>1 DEF IsInjective
  <2>2. CASE i = Len(s) + 1 /\ j \in 1 .. Len(s)
    BY <1>1, <1>3, <1>4, <2>2
  <2>3. CASE j = Len(s) + 1 /\ i \in 1 .. Len(s)
    BY <1>1, <1>3, <1>4, <2>3
  <2>4. i \in 1 .. Len(s) \/ i = Len(s) + 1
    BY <1>1
  <2>5. j \in 1 .. Len(s) \/ j = Len(s) + 1
    BY <1>1
  <2> QED
    BY <2>1, <2>2, <2>3, <2>4, <2>5
<1>5. IsInjective(Append(s, m))
  BY <1>1, <1>4 DEF IsInjective
<1> QED
  BY <1>2, <1>5

\* The steps before a module delivers.
Early(m) ==
  \/ Boot(m) \/ Mkdir(m) \/ PrepareLocker(m) \/ MoveLocker(m) \/ LockStep(m)
  \/ Compile(m) \/ Link(m) \/ Run(m) \/ Header(m) \/ HeaderEnd(m)
  \/ HeaderMove(m) \/ TestAda(m) \/ LockAda(m) \/ RunAda(m) \/ OpenAda(m) \/ WriteAda(m)
  \/ ReadAda(m) \/ Execute(m)

LEMMA EarlyFacts ==
  ASSUME NEW m \in Module, Early(m)
  PROVE  /\ pc[m] \in Before
         /\ UNCHANGED results
         /\ \E l \in Before \cup {"fatal", "copy"} : pc' = [pc EXCEPT ![m] = l]
<1> USE DEF Goto, At, Fatal, NextStep, On, AtAda, Before, Locked, results
<1>1. CASE Boot(m) \/ Mkdir(m) \/ PrepareLocker(m) \/ MoveLocker(m)
  BY <1>1 DEF Boot, Mkdir, PrepareLocker, MoveLocker
<1>2. CASE LockStep(m)
  BY <1>2 DEF LockStep
<1>3. CASE Compile(m) \/ Link(m) \/ Run(m)
  BY <1>3 DEF Compile, Link, Run
<1>4. CASE Header(m) \/ HeaderEnd(m) \/ HeaderMove(m)
  BY <1>4 DEF Header, HeaderEnd, HeaderMove
<1>5. CASE TestAda(m) \/ LockAda(m) \/ RunAda(m) \/ OpenAda(m) \/ WriteAda(m) \/ ReadAda(m) \/ Execute(m)
  BY <1>5 DEF TestAda, LockAda, RunAda, OpenAda, WriteAda, ReadAda, Execute
<1> QED
  BY <1>1, <1>2, <1>3, <1>4, <1>5 DEF Early

LEMMA InitDelivery == Init => DeliveryInv /\ SucceededMeansDelivered
<1> SUFFICES ASSUME Init PROVE DeliveryInv /\ SucceededMeansDelivered
  OBVIOUS
<1>1. lines = <<>> /\ DOMAIN lines = {}
  BY DEF Init
<1>2. Range(lines) = {} /\ IsInjective(lines)
  BY <1>1 DEF Range, IsInjective
<1>3. \A m \in Module : pc[m] \in {"boot", "skipped"} /\ output[m] = "none" /\ status[m] = "not-executed"
  BY DEF Init
<1> QED
  BY <1>2, <1>3 DEF DeliveryInv, SucceededMeansDelivered, Over

\* Every step keeps what the status and the lines vouch for.
LEMMA StepDelivery ==
  TypeOK /\ DeliveryInv /\ SucceededMeansDelivered /\ [Next]_vars
    => DeliveryInv' /\ SucceededMeansDelivered'
<1> SUFFICES ASSUME TypeOK, DeliveryInv, SucceededMeansDelivered, [Next]_vars, ~world'.fail
             PROVE  (DeliveryInv /\ SucceededMeansDelivered)'
  BY DEF DeliveryInv, SucceededMeansDelivered
<1> USE DEF Goto, At
<1>0. world' = world /\ ~world.fail
  BY DEF Next, SdRun, Restart, Finished, vars
<1>1. ASSUME NEW m \in Module, Early(m) PROVE (DeliveryInv /\ SucceededMeansDelivered)'
  <2>1. /\ pc[m] \in Before
        /\ UNCHANGED <<status, output, lines>>
    BY <1>1, EarlyFacts DEF results
  <2>2. PICK l \in Before \cup {"fatal", "copy"} : pc' = [pc EXCEPT ![m] = l]
    BY <1>1, EarlyFacts
  <2>3. output[m] = "none" /\ m \notin Range(lines)
    BY <1>0, <2>1 DEF DeliveryInv
  <2>4. \A n \in Module : n # m => pc'[n] = pc[n]
    BY <2>2 DEF TypeOK
  <2>5. pc'[m] = l /\ l \notin {"append", "status"}
    BY <2>2 DEF TypeOK, Before, Locked
  <2> QED
    BY <1>0, <2>1, <2>3, <2>4, <2>5 DEF DeliveryInv, SucceededMeansDelivered
<1>2. ASSUME NEW m \in Module, Copy(m) \/ CopyEnd(m) PROVE (DeliveryInv /\ SucceededMeansDelivered)'
  <2>1. /\ pc[m] \in {"copy", "copyend"} /\ UNCHANGED <<status, lines>>
        /\ m \notin Range(lines)
    BY <1>0, <1>2 DEF Copy, CopyEnd, DeliveryInv, Over
  <2>2. \/ pc' = [pc EXCEPT ![m] = "copyend"] /\ output' = [output EXCEPT ![m] = "part"]
        \/ pc' = [pc EXCEPT ![m] = "append"] /\ output' = [output EXCEPT ![m] = "whole"]
    BY <1>0, <1>2 DEF Copy, CopyEnd
  <2>3. \A n \in Module : n # m => pc'[n] = pc[n] /\ output'[n] = output[n]
    BY <2>2 DEF TypeOK
  <2>4. \/ pc'[m] = "copyend"
        \/ pc'[m] = "append" /\ output'[m] = "whole"
    BY <2>2 DEF TypeOK
  <2>5. status[m] # "succeeded"
    BY <1>0, <2>1 DEF SucceededMeansDelivered
  <2> QED
    BY <1>0, <2>1, <2>3, <2>4, <2>5 DEF DeliveryInv, SucceededMeansDelivered, Before, Locked
<1>3. ASSUME NEW m \in Module, AppendLine(m) PROVE (DeliveryInv /\ SucceededMeansDelivered)'
  <2>1. /\ pc[m] = "append" /\ UNCHANGED <<status, output>>
        /\ pc' = [pc EXCEPT ![m] = "status"] /\ lines' = Append(lines, m)
    BY <1>0, <1>3 DEF AppendLine
  <2>2. output[m] = "whole" /\ m \notin Range(lines)
    BY <1>0, <2>1 DEF DeliveryInv, Over
  <2>3. Range(lines') = Range(lines) \cup {m} /\ IsInjective(lines')
    BY <1>0, <2>1, <2>2, RangeAppend DEF TypeOK, SucceededMeansDelivered
  <2>4. pc'[m] = "status" /\ \A n \in Module : n # m => pc'[n] = pc[n]
    BY <2>1 DEF TypeOK
  <2> QED
    BY <1>0, <2>1, <2>2, <2>3, <2>4 DEF DeliveryInv, SucceededMeansDelivered, Before, Locked
<1>4. ASSUME NEW m \in Module, WriteStatus(m) PROVE (DeliveryInv /\ SucceededMeansDelivered)'
  <2>1. /\ pc[m] = "status" /\ UNCHANGED <<output, lines>> /\ pc' = [pc EXCEPT ![m] = "done"]
        /\ status' = [status EXCEPT ![m] = IF env[m].code = "ok" THEN "succeeded" ELSE "failed"]
    BY <1>0, <1>4 DEF WriteStatus
  <2>2. output[m] = "whole" /\ m \in Range(lines)
    BY <1>0, <2>1 DEF DeliveryInv
  <2>3. pc'[m] = "done" /\ \A n \in Module : n # m => pc'[n] = pc[n] /\ status'[n] = status[n]
    BY <2>1 DEF TypeOK
  <2> QED
    BY <1>0, <2>1, <2>2, <2>3 DEF DeliveryInv, SucceededMeansDelivered, Before, Locked, Over
<1>5. CASE Restart
  <2>1. /\ UNCHANGED <<status, output, lines>>
        /\ \A n \in Module : pc'[n] = IF n \in world.asked /\ output[n] = "none" THEN "boot" ELSE "skipped"
    BY <1>5 DEF Restart, results
  <2>2. \A n \in Module : /\ pc'[n] \in {"boot", "skipped"}
                          /\ pc'[n] = "boot" => output[n] = "none"
    BY <2>1
  <2> QED
    BY <1>0, <2>1, <2>2 DEF DeliveryInv, SucceededMeansDelivered, Before, Locked, Over
<1>6. CASE UNCHANGED vars
  BY <1>6 DEF vars, running, results, DeliveryInv, SucceededMeansDelivered
<1> QED
  BY <1>1, <1>2, <1>3, <1>4, <1>5, <1>6 DEF Next, SdRun, Early, Finished

-----------------------------------------------------------------------------
(* What is fatal.                                                           *)

LEMMA InitFatalInv == Init => FatalInv
BY DEF Init, FatalInv, Past

\* A step of an sd-run that has come past its mkdir, gives up nothing, and
\* comes past the run of sd-arch only with an architecture.
LEMMA FatalFrame ==
  ASSUME TypeOK, FatalInv, NEW m \in Module, NEW l, pc' = [pc EXCEPT ![m] = l],
         pc[m] \notin Past, l \notin Past, UNCHANGED <<world, made>>,
         \A n \in Module : env[n].arch = "known" => env'[n].arch = "known",
         \/ step' = step
         \/ /\ step' = [step EXCEPT ![m] = @ + 1]
            /\ Orderly /\ ~world.fail /\ step[m] = 2 => env'[m].arch = "known"
  PROVE  FatalInv'
<1> SUFFICES ASSUME Orderly', ~world'.fail PROVE FatalInv'
  BY DEF FatalInv
<1>0. Orderly /\ ~world.fail
  BY DEF Orderly
<1>1. /\ \A n \in Module : n # m => pc'[n] = pc[n] /\ step'[n] = step[n]
      /\ pc'[m] = l
  BY StepRange DEF TypeOK
<1>2. \A n \in Module : step'[n] > 2 => env'[n].arch = "known"
  <2>1. step' = step => \A n \in Module : step'[n] > 2 => env'[n].arch = "known"
    BY <1>0 DEF FatalInv
  <2>2. CASE step' = [step EXCEPT ![m] = @ + 1]
    <3>1. \A n \in Module : n # m /\ step'[n] > 2 => env'[n].arch = "known"
      BY <1>0, <1>1 DEF FatalInv
    <3>2. step'[m] = step[m] + 1 /\ step[m] \in 1..6
      BY <2>2, StepRange
    <3>3. step'[m] > 2 => step[m] > 2 \/ step[m] = 2
      BY <3>2
    <3>4. step[m] = 2 => env'[m].arch = "known"
      BY <1>0, <3>2
    <3> QED
      BY <1>0, <3>1, <3>3, <3>4 DEF FatalInv
  <2> QED
    BY <2>1, <2>2
<1>3. \A n \in Module : pc'[n] = "fatal" => made' /\ step'[n] = 1
  BY <1>0, <1>1 DEF FatalInv, Past
<1>4. made' => \/ \A n \in Module : pc'[n] \notin {"mkdir", "fatal"}
               \/ \E n \in Module : pc'[n] \notin Past
  BY <1>1
<1> QED
  BY <1>2, <1>3, <1>4 DEF FatalInv

\* The steps that neither give up nor come to the next call.
Steady(m) ==
  \/ MoveLocker(m) \/ LockStep(m) \/ HeaderEnd(m) \/ TestAda(m) \/ LockAda(m) \/ RunAda(m)
  \/ OpenAda(m) \/ WriteAda(m) \/ ReadAda(m) \/ Execute(m) \/ Copy(m)
  \/ CopyEnd(m) \/ AppendLine(m) \/ WriteStatus(m)

LEMMA SteadyFacts ==
  ASSUME TypeOK, NEW m \in Module, Steady(m)
  PROVE  /\ pc[m] \notin Past /\ UNCHANGED <<made, step>>
         /\ \E l : l \notin Past /\ pc' = [pc EXCEPT ![m] = l]
         /\ \A n \in Module : env[n].arch = "known" => env'[n].arch = "known"
<1> USE DEF Goto, At, On, AtAda, Past
<1>1. CASE MoveLocker(m) \/ HeaderEnd(m) \/ TestAda(m) \/ LockAda(m) \/ OpenAda(m) \/ WriteAda(m)
  BY <1>1 DEF MoveLocker, HeaderEnd, TestAda, LockAda, OpenAda, WriteAda
<1>2. CASE LockStep(m)
  BY <1>2 DEF LockStep
<1>3. CASE Copy(m) \/ CopyEnd(m) \/ AppendLine(m) \/ WriteStatus(m)
  BY <1>3 DEF Copy, CopyEnd, AppendLine, WriteStatus
<1>4. CASE RunAda(m)
  <2>1. \A n \in Module : env'[n].arch = env[n].arch
    BY <1>4, SetFacts DEF RunAda, TypeOK, Env
  <2> QED
    BY <1>4, <2>1 DEF RunAda
<1>5. CASE ReadAda(m)
  <2> DEFINE ada == IF adaOut = "whole" THEN "known" ELSE ""
  <2>0. env \in [Module -> Env] /\ Set(m, "ada", ada) /\ ada \in {"", "known"}
    BY <1>5 DEF ReadAda, TypeOK, Env
  <2>1. \A n \in Module : env'[n].arch = env[n].arch
    <3> HIDE DEF ada
    <3> QED
      <4>1. \A n \in Module : n # m \/ "ada" # "arch" => env'[n].arch = env[n].arch
        BY <2>0, SetFacts
      <4> QED
        BY <4>1
  <2> QED
    BY <1>5, <2>1 DEF ReadAda
<1>6. CASE Execute(m)
  <2>0. PICK code \in {"ok", "failed"} : Set(m, "code", code)
    BY <1>6 DEF Execute
  <2>1. env \in [Module -> Env]
    BY DEF TypeOK, Env
  <2>2. \A n \in Module : env'[n].arch = env[n].arch
    <3>1. \A n \in Module : n # m \/ "code" # "arch" => env'[n].arch = env[n].arch
      BY <2>0, <2>1, SetFacts
    <3> QED
      BY <3>1
  <2> QED
    BY <1>6, <2>2 DEF Execute
<1> QED
  BY <1>1, <1>2, <1>3, <1>4, <1>5, <1>6 DEF Steady

\* Every step keeps the mkdir the one thing that is fatal.
LEMMA StepFatalInv ==
  TypeOK /\ LockInv /\ ProbeInv /\ HeaderInv /\ FatalInv /\ [Next]_vars => FatalInv'
<1> SUFFICES ASSUME TypeOK, LockInv, ProbeInv, HeaderInv, FatalInv, [Next]_vars,
                    Orderly', ~world'.fail
             PROVE  FatalInv'
  BY DEF FatalInv
<1> USE DEF Goto, At, NextStep, Fatal
<1>0. world' = world /\ Orderly /\ ~world.fail
  BY DEF Next, SdRun, Restart, Finished, vars, Orderly
<1>1. ASSUME NEW m \in Module, Boot(m) PROVE FatalInv'
  <2>1. pc[m] = "boot" /\ UNCHANGED <<step, env, made>> /\ pc' = [pc EXCEPT ![m] = IF made THEN "system" ELSE "mkdir"]
    BY <1>1 DEF Boot
  <2>2. /\ \A n \in Module : n # m => pc'[n] = pc[n]
        /\ pc'[m] = IF made THEN "system" ELSE "mkdir"
    BY <2>1 DEF TypeOK
  <2>3. made' => \/ \A n \in Module : pc'[n] \notin {"mkdir", "fatal"}
                 \/ \E n \in Module : pc'[n] \notin Past
    BY <2>1, <2>2 DEF Past
  <2>4. /\ \A n \in Module : step'[n] > 2 => env'[n].arch = "known"
        /\ \A n \in Module : pc'[n] = "fatal" => made' /\ step'[n] = 1
    BY <1>0, <2>1, <2>2 DEF FatalInv
  <2> QED
    BY <2>3, <2>4 DEF FatalInv
<1>2. ASSUME NEW m \in Module, Mkdir(m) PROVE FatalInv'
  <2>1. /\ pc[m] = "mkdir" /\ UNCHANGED <<step, env>> /\ made' = TRUE
        /\ pc' = [pc EXCEPT ![m] = IF made THEN "fatal" ELSE "system"]
    BY <1>2 DEF Mkdir
  <2>2. step[m] = 1
    BY <2>1 DEF LockInv, Placed
  <2>3. /\ \A n \in Module : n # m => pc'[n] = pc[n]
        /\ pc'[m] = IF made THEN "fatal" ELSE "system"
    BY <2>1 DEF TypeOK
  <2>4. \E n \in Module : pc'[n] \notin Past
    <3>1. CASE made
      <4>1. PICK n \in Module : pc[n] \notin Past
        BY <1>0, <2>1, <3>1 DEF FatalInv
      <4>2. n # m
        BY <2>1, <4>1 DEF Past
      <4> QED
        BY <2>3, <4>1, <4>2
    <3>2. CASE ~made
      BY <2>3, <3>2 DEF Past
    <3> QED
      BY <3>1, <3>2
  <2>5. /\ \A n \in Module : step'[n] > 2 => env'[n].arch = "known"
        /\ \A n \in Module : pc'[n] = "fatal" => made' /\ step'[n] = 1
    BY <1>0, <2>1, <2>2, <2>3 DEF FatalInv
  <2> QED
    BY <2>4, <2>5 DEF FatalInv
<1>3. ASSUME NEW m \in Module, PrepareLocker(m) PROVE FatalInv'
  <2>1. /\ pc[m] = "system" /\ UNCHANGED <<step, env, made>> /\ pc' = [pc EXCEPT ![m] = "mvlocker"]
    BY <1>0, <1>3 DEF PrepareLocker
  <2> QED
    BY <1>0, <2>1, FatalFrame DEF Past
<1>4. ASSUME NEW m \in Module, Compile(m) PROVE FatalInv'
  <2>1. pc[m] = "compile" /\ pc[m] \in Locked /\ UNCHANGED <<env, made>>
    BY <1>4 DEF Compile, Locked
  <2>2. /\ step[m] \in {1, 4}
        /\ Current(m).probe = IF step[m] \in {1, 2} THEN Arch ELSE CpuId
    BY <2>1, PlaceFacts
  <2>3. Current(m).probe = CpuId => header.h = "whole"
    BY <2>2 DEF HeaderInv, Arch, CpuId
  <2>4. \/ pc' = [pc EXCEPT ![m] = "link"] /\ step' = step
        \/ pc' = [pc EXCEPT ![m] = "system"] /\ step' = [step EXCEPT ![m] = @ + 1]
    BY <1>0, <1>4, <2>3 DEF Compile
  <2>5. pc[m] \notin Past /\ "link" \notin Past /\ "system" \notin Past /\ step[m] # 2
    BY <2>1, <2>2 DEF Past
  <2> QED
    BY <1>0, <2>1, <2>4, <2>5, FatalFrame
<1>5. ASSUME NEW m \in Module, Link(m) PROVE FatalInv'
  <2>1. pc[m] = "link" /\ pc[m] \in Locked /\ UNCHANGED <<env, made>>
    BY <1>5 DEF Link, Locked
  <2>2. step[m] \in {1, 4}
    BY <2>1, PlaceFacts
  <2>3. pc' = [pc EXCEPT ![m] = "system"] /\ step' = [step EXCEPT ![m] = @ + 1]
    BY <1>0, <1>5 DEF Link
  <2>4. pc[m] \notin Past /\ "system" \notin Past /\ step[m] # 2
    BY <2>1, <2>2 DEF Past
  <2> QED
    BY <1>0, <2>1, <2>3, <2>4, FatalFrame
<1>6. ASSUME NEW m \in Module, Run(m) PROVE FatalInv'
  <2>1. pc[m] = "run" /\ pc[m] \in Locked /\ UNCHANGED made
    BY <1>6 DEF Run, Locked
  <2>2. /\ step[m] \in {2, 5} /\ step[m] \in 1..6
        /\ Current(m).probe = IF step[m] \in {1, 2} THEN Arch ELSE CpuId
    BY <2>1, PlaceFacts, StepRange
  <2>3. exe[Current(m).probe] = "whole"
    BY <1>0, <2>2 DEF ProbeInv, ProbesRight
  <2>4. \/ Current(m).probe = Arch /\ Set(m, "arch", "known")
        \/ Current(m).probe # Arch /\ env' = env
    BY <1>0, <1>6, <2>3 DEF Run
  <2>5. Set(m, "arch", "known") => /\ env'[m].arch = "known"
                                   /\ \A n \in Module : n # m => env'[n].arch = env[n].arch
    <3>1. env \in [Module -> Env]
      BY DEF TypeOK, Env
    <3> QED
      BY <3>1, SetFacts
  <2>6. /\ step[m] = 2 => env'[m].arch = "known"
        /\ \A n \in Module : env[n].arch = "known" => env'[n].arch = "known"
    BY <2>2, <2>4, <2>5
  <2>7. pc' = [pc EXCEPT ![m] = "system"] /\ step' = [step EXCEPT ![m] = @ + 1]
    BY <1>6 DEF Run
  <2>8. pc[m] \notin Past /\ "system" \notin Past
    BY <2>1 DEF Past
  <2> QED
    BY <1>0, <2>1, <2>6, <2>7, <2>8, FatalFrame
<1>7. ASSUME NEW m \in Module, Header(m) PROVE FatalInv'
  <2>1. pc[m] = "header" /\ pc[m] \in Locked /\ UNCHANGED <<env, made>>
    BY <1>7 DEF Header, Locked
  <2>2. step[m] = 3
    BY <2>1, PlaceFacts
  <2>3. env[m].arch = "known"
    BY <1>0, <2>2 DEF FatalInv
  <2>4. pc' = [pc EXCEPT ![m] = "headerend"] /\ step' = step
    BY <1>0, <1>7, <2>3 DEF Header
  <2>5. pc[m] \notin Past /\ "headerend" \notin Past
    BY <2>1 DEF Past
  <2> QED
    BY <1>0, <2>1, <2>4, <2>5, FatalFrame
<1>8. ASSUME NEW m \in Module, HeaderMove(m) PROVE FatalInv'
  <2>1. pc[m] = "headermv" /\ pc[m] \in Locked /\ UNCHANGED <<env, made>>
    BY <1>8 DEF HeaderMove, Locked
  <2>2. step[m] = 3
    BY <2>1, PlaceFacts
  <2>3. header.tmp = "whole"
    BY <2>1 DEF HeaderInv
  <2>4. pc' = [pc EXCEPT ![m] = "system"] /\ step' = [step EXCEPT ![m] = @ + 1]
    BY <1>8, <2>3 DEF HeaderMove
  <2>5. pc[m] \notin Past /\ "system" \notin Past /\ step[m] # 2
    BY <2>1, <2>2 DEF Past
  <2> QED
    BY <1>0, <2>1, <2>4, <2>5, FatalFrame
<1>9. ASSUME NEW m \in Module, Steady(m) PROVE FatalInv'
  BY <1>0, <1>9, SteadyFacts, FatalFrame
<1>10. CASE Restart
  <2>1. \A n \in Module : pc'[n] \in {"boot", "skipped"} /\ step'[n] = 1
    BY <1>10 DEF Restart
  <2> QED
    BY <2>1 DEF FatalInv
<1>11. CASE UNCHANGED vars
  BY <1>11 DEF vars, running, FatalInv, Orderly
<1> QED
  BY <1>1, <1>2, <1>3, <1>4, <1>5, <1>6, <1>7, <1>8, <1>9, <1>10, <1>11
  DEF Next, SdRun, Steady, Finished

-----------------------------------------------------------------------------
(* The theorems.                                                            *)

\* In every state the locks, the probes, the header and what has been
\* delivered agree with where each sd-run of the build is.
THEOREM Invariance == Spec => []SysdepsInv
<1>1. Init => SysdepsInv
  BY InitTypeOK, InitLockInv, InitProbeInv, InitHeaderInv, InitDelivery, InitFatalInv DEF SysdepsInv
<1>2. SysdepsInv /\ [Next]_vars => SysdepsInv'
  BY StepTypeOK, StepLockInv, StepProbeInv, StepHeaderInv, StepDelivery, StepFatalInv DEF SysdepsInv
<1> QED
  BY <1>1, <1>2, PTL DEF Spec

\* The variables of a build hold values of their types, in whatever order the
\* sd-runs make their steps and wherever make is killed.
THEOREM TypeCorrect == Spec => []TypeOK
<1>1. SysdepsInv => TypeOK
  BY DEF SysdepsInv
<1> QED
  BY <1>1, Invariance, PTL

\* A module that SDM_module_exit_success has recorded has its file, complete,
\* in the output directory and one line in sysdeps.out, wherever make was
\* killed; sysdep-mod-exec writes the status after it has moved the files.
THEOREM Delivered == Spec => []SucceededMeansDelivered
<1>1. SysdepsInv => SucceededMeansDelivered
  BY DEF SysdepsInv
<1> QED
  BY <1>1, Invariance, PTL

\* On every system nobody compiles with half a header, wherever make is killed
\* and whatever fails: sd-mk-cpuidx86-h writes under another name, under a lock
\* of its own, and renames.
THEOREM RenamedFilesWhole == Spec => []HeaderWhole
<1>1. ASSUME SysdepsInv PROVE HeaderWhole
  BY <1>1 DEF SysdepsInv, HeaderInv, HeaderWhole
<1> QED
  BY <1>1, Invariance, PTL

\* Unless a linker whose output is executable at once is killed or fails,
\* nobody runs a probe that is being linked either: sd-compile holds its lock
\* until the linker has ended.
THEOREM WholeFiles == Spec => [](Orderly => OnlyWholeFilesUsed)
<1>1. ASSUME SysdepsInv, Orderly PROVE OnlyWholeFilesUsed
  <2> USE <1>1 DEF SysdepsInv
  <2>1. ASSUME NEW m \in Module, pc[m] = "run" PROVE exe[Current(m).probe] = "whole"
    <3>1. step[m] \in {2, 5} /\ Current(m).probe = IF step[m] \in {1, 2} THEN Arch ELSE CpuId
      BY <2>1, PlaceFacts DEF Locked
    <3> QED
      BY <3>1 DEF ProbeInv, ProbesRight
  <2>2. HeaderWhole
    BY DEF HeaderInv, HeaderWhole
  <2> QED
    BY <2>1, <2>2 DEF OnlyWholeFilesUsed, ProbeComplete, At
<1> QED
  BY <1>1, Invariance, PTL

\* Nor does an sd-run then fail because of what another does to a probe, a
\* header or a lock: without failing tools only sysdep-boot's mkdir can be
\* fatal, and not for all.
THEOREM OnlyMkdirFatal == Spec => [](Orderly => FatalOnlyByMkdir)
<1>1. ASSUME SysdepsInv, Orderly PROVE FatalOnlyByMkdir
  <2> USE <1>1 DEF SysdepsInv
  <2>1. ASSUME NEW m \in Module, pc[m] = "fatal", ~world.fail
        PROVE  made /\ step[m] = 1 /\ \E n \in Module : pc[n] # "fatal"
    BY <2>1 DEF FatalInv, Past
  <2> QED
    BY <2>1 DEF FatalOnlyByMkdir, At
<1> QED
  BY <1>1, Invariance, PTL
=============================================================================
