------------------------------ MODULE Sysdeps ------------------------------
(***************************************************************************)
(* SYSDEPS in a parallel build: make runs one "sd-run modules/m" per       *)
(* module, all in one directory.  Each makes sure of the status directory  *)
(* and of sd-locker, compiles the probes that are not there yet, runs      *)
(* them, finds the Ada version, executes its module, moves what the module *)
(* creates to the output directory and records a status.  A lock file is a *)
(* Mutex, which sd-locker implements (module Locker) while nobody runs     *)
(* sd-clean and no wait of sd-locker fails on Win32.  The whole build may  *)
(* be killed and started again; files survive.                             *)
(***************************************************************************)
EXTENDS Naturals, Sequences, Functions

CONSTANTS
  Module,       \* the modules of the build, one sd-run each
  Worlds,       \* the systems the build runs on:
                \*   early: does the linker make its output executable when it creates it?
                \*   fail:  may a probe, a copy or the write of a file fail?
                \*   kills: bound: how often the build is killed and started again
                \*   asked: the modules make is asked for
  NoModule

ASSUME SysdepsAssumption ==
  /\ Worlds \subseteq [early : BOOLEAN, fail : BOOLEAN, kills : Nat, asked : SUBSET Module]
  /\ NoModule \notin Module

Arch  == "sd-arch"
CpuId == "sd-cpuidx86"
Probe == {Arch, CpuId}     \* bound: two of the five compiled probes

\* The calls sysdep-system makes, in order: sd-cpuidx86 includes a header made
\* from what sd-arch printed.
Script == << [op |-> "compile", probe |-> Arch],  [op |-> "run", probe |-> Arch],
             [op |-> "header",  probe |-> CpuId],
             [op |-> "compile", probe |-> CpuId], [op |-> "run", probe |-> CpuId] >>

Ada     == "sd-adaversion"
Locks   == [kind : {"compile", "run", "header"}, name : Probe \cup {Ada}]
Content == {"none", "part", "whole"}     \* of a file; "part" may be no byte at all

VARIABLES
  world,     \* the system of this build, one of Worlds
  pc,        \* where each sd-run is
  step,      \* the position of each sd-run in Script
  env,       \* what each sd-run has found out: SYSDEP_ARCH, SYSDEP_ADA_VERSION, RETURN_CODE
  holder,    \* the sd-run that holds each lock, or NoModule
  made,      \* does the status directory exist?
  status,    \* what it holds of each module, "not-executed" for no file
  locker,    \* sd-locker
  exe,       \* the executable file of each probe
  header,    \* sd-cpuidx86.h and sd-cpuidx86.h.tmp
  adaOut,    \* sd-adaversion.out
  output,    \* the file each module creates, in the output directory
  lines,     \* sysdeps.out: the modules that have a line in it, in order
  crashes    \* how often the build was killed, or ended and was started again

running == <<pc, step, env>>
probes  == <<locker, exe, header>>
results == <<status, output, lines>>
vars    == <<world, running, holder, made, probes, adaOut, results, crashes>>

\* What a shell has of its variables before it assigns them.
Nothing == [arch |-> "", ada |-> "", code |-> "ok"]

Init ==
  /\ world \in Worlds
  /\ pc     = [m \in Module |-> IF m \in world.asked THEN "boot" ELSE "skipped"]
  /\ step   = [m \in Module |-> 1]
  /\ env    = [m \in Module |-> Nothing]
  /\ holder = [l \in Locks |-> NoModule]
  /\ made   = FALSE
  /\ status = [m \in Module |-> "not-executed"]
  /\ locker = "none"
  /\ exe    = [p \in Probe |-> "none"]
  /\ header = [h |-> "none", tmp |-> "none"]
  /\ adaOut = "none"
  /\ output = [m \in Module |-> "none"]
  /\ lines  = <<>>
  /\ crashes = 0

At(m, l)   == pc[m] = l
Goto(m, l) == pc' = [pc EXCEPT ![m] = l]
Set(m, var, value) == env' = [env EXCEPT ![m][var] = value]

\* [ -x file ]
Executable(content) == content = "whole" \/ (world.early /\ content = "part")

Current(m) == Script[step[m]]
On(m, op)  == At(m, "system") /\ step[m] \in DOMAIN Script /\ Current(m).op = op
NextStep(m) == Goto(m, "system") /\ step' = [step EXCEPT ![m] = @ + 1]

\* sd-locker $$ lock command: wait for the lock; it is given back when the
\* command has ended, whatever it returned.
LockOf(m)  == [kind |-> Current(m).op, name |-> Current(m).probe]
AdaLock    == [kind |-> "run", name |-> Ada]
Lock(m, l) ==
  /\ Executable(locker)
  /\ holder[l] = NoModule
  /\ holder' = [holder EXCEPT ![l] = m]
Unlock(l)  == holder' = [holder EXCEPT ![l] = NoModule]

\* SYSDEP_FATAL.
Fatal(m) == Goto(m, "fatal") /\ UNCHANGED step

-----------------------------------------------------------------------------
(* sysdep-boot and SDM_prepare_locker.                                      *)

Boot(m) ==
  /\ At(m, "boot")
  /\ Goto(m, IF made THEN "system" ELSE "mkdir")
  /\ UNCHANGED <<step, env, holder, made, probes, adaOut, results>>

\* mkdir without -p.
Mkdir(m) ==
  /\ At(m, "mkdir")
  /\ Goto(m, IF made THEN "fatal" ELSE "system")
  /\ made' = TRUE
  /\ UNCHANGED <<step, env, holder, probes, adaOut, results>>

\* Without an sd-locker, compile one under a name that holds the process id.
PrepareLocker(m) ==
  /\ At(m, "system")
  /\ ~Executable(locker)
  /\ \/ Goto(m, "mvlocker")
     \/ world.fail /\ Goto(m, "fatal")
  /\ UNCHANGED <<step, env, holder, made, probes, adaOut, results>>

MoveLocker(m) ==
  /\ At(m, "mvlocker")
  /\ locker' = "whole"
  /\ Goto(m, "system")
  /\ UNCHANGED <<step, env, holder, made, exe, header, adaOut, results>>

-----------------------------------------------------------------------------
(* sd-compile under a lock, sd-mk-cpuidx86-h under another, and the probes  *)
(* under a third.                                                           *)

\* Mutation: the header is made without the lock.
LockStep_NoHeaderLock(m) ==
  /\ \E op \in {"compile", "run", "header"} : On(m, op) /\ Goto(m, op)
  /\ IF On(m, "header") THEN UNCHANGED holder ELSE Lock(m, LockOf(m))
  /\ UNCHANGED <<step, env, made, probes, adaOut, results>>

LockStep(m) ==
  /\ \E op \in {"compile", "run", "header"} : On(m, op) /\ Goto(m, op)
  /\ Lock(m, LockOf(m))
  /\ UNCHANGED <<step, env, made, probes, adaOut, results>>

\* Mutation: the probe is compiled again although it is there.
Compile_Again(m) ==
  /\ At(m, "compile")
  /\ exe' = [exe EXCEPT ![Current(m).probe] = "part"]
  /\ Goto(m, "link")
  /\ UNCHANGED <<step, holder, env, made, locker, header, adaOut, results>>

\* A probe that is there is left alone.  Else it is compiled, from the header
\* in the case of sd-cpuidx86, and the linker starts to write it.
Compile(m) ==
  LET p == Current(m).probe IN
  /\ At(m, "compile")
  /\ \/ /\ Executable(exe[p])
        /\ NextStep(m)
        /\ Unlock(LockOf(m))
        /\ UNCHANGED exe
     \/ /\ ~Executable(exe[p])
        /\ p = CpuId => header.h = "whole"
        /\ Goto(m, "link")
        /\ exe' = [exe EXCEPT ![p] = "part"]
        /\ UNCHANGED <<step, holder>>
     \/ /\ ~Executable(exe[p])
        /\ world.fail \/ (p = CpuId /\ header.h # "whole")
        /\ Fatal(m)
        /\ Unlock(LockOf(m))
        /\ UNCHANGED exe
  /\ UNCHANGED <<env, made, locker, header, adaOut, results>>

\* A linker that fails may leave what it has written: cleanup removes the
\* object file and a .tmp file nobody writes.
Link(m) ==
  /\ At(m, "link")
  /\ \/ /\ exe' = [exe EXCEPT ![Current(m).probe] = "whole"]
        /\ NextStep(m)
     \/ /\ world.fail
        /\ Fatal(m)
        /\ UNCHANGED exe
  /\ Unlock(LockOf(m))
  /\ UNCHANGED <<env, made, locker, header, adaOut, results>>

\* The probe prints what it has found, or fails, which is an error but not
\* fatal: SYSDEP_ARCH is then empty.
Run(m) ==
  LET p == Current(m).probe IN
  /\ At(m, "run")
  /\ \/ exe[p] = "whole" /\ IF p = Arch THEN Set(m, "arch", "known") ELSE UNCHANGED env
     \/ (world.fail \/ exe[p] # "whole") /\ UNCHANGED env
  /\ NextStep(m)
  /\ Unlock(LockOf(m))
  /\ UNCHANGED <<made, probes, adaOut, results>>

\* Mutation: the lock is given back only after success.
Header_Leak(m) ==
  /\ At(m, "header")
  /\ IF env[m].arch # ""
     THEN Goto(m, "headerend") /\ header' = [header EXCEPT !.tmp = "part"]
     ELSE Goto(m, "fatal") /\ UNCHANGED header
  /\ UNCHANGED <<step, holder, env, made, locker, exe, adaOut, results>>

\* sd-mk-cpuidx86-h refuses an empty SYSDEP_ARCH, and else writes a .tmp file...
Header(m) ==
  /\ At(m, "header")
  /\ \/ /\ env[m].arch # ""
        /\ header' = [header EXCEPT !.tmp = "part"]
        /\ Goto(m, "headerend")
        /\ UNCHANGED <<step, holder>>
     \/ /\ env[m].arch = "" \/ world.fail
        /\ Fatal(m)
        /\ Unlock(LockOf(m))
        /\ UNCHANGED header
  /\ UNCHANGED <<env, made, locker, exe, adaOut, results>>

HeaderEnd(m) ==
  /\ At(m, "headerend")
  /\ header' = [header EXCEPT !.tmp = "whole"]
  /\ Goto(m, "headermv")
  /\ UNCHANGED <<step, env, holder, made, locker, exe, adaOut, results>>

\* ... that it renames.
HeaderMove(m) ==
  /\ At(m, "headermv")
  /\ IF header.tmp = "none" THEN Fatal(m) /\ UNCHANGED header
     ELSE NextStep(m) /\ header' = [h |-> header.tmp, tmp |-> "none"]
  /\ Unlock(LockOf(m))
  /\ UNCHANGED <<env, made, locker, exe, adaOut, results>>

-----------------------------------------------------------------------------
(* The Ada version, kept in sd-adaversion.out between builds.               *)

AtAda(m) == At(m, "system") /\ step[m] > Len(Script)

\* No file: run sd-adaversion under its lock, also if the file appears while
\* the sd-run waits for the lock, ...
TestAda(m) ==
  /\ AtAda(m)
  /\ adaOut = "none"
  /\ Goto(m, "adalock")
  /\ UNCHANGED <<step, env, holder, made, probes, adaOut, results>>

LockAda(m) ==
  /\ At(m, "adalock")
  /\ Lock(m, AdaLock)
  /\ Goto(m, "ada")
  /\ UNCHANGED <<step, env, made, probes, adaOut, results>>

RunAda(m) ==
  /\ At(m, "ada")
  /\ Set(m, "ada", "known")
  /\ Unlock(AdaLock)
  /\ Goto(m, "adaopen")
  /\ UNCHANGED <<step, made, probes, adaOut, results>>

\* ... and write what it printed, without the lock: '>' empties the file
\* before echo fills it.
OpenAda(m) ==
  /\ At(m, "adaopen")
  /\ adaOut' = "part"
  /\ Goto(m, "adaecho")
  /\ UNCHANGED <<step, env, holder, made, probes, results>>

WriteAda(m) ==
  /\ At(m, "adaecho")
  /\ adaOut' = "whole"
  /\ Goto(m, "exec")
  /\ UNCHANGED <<step, env, holder, made, probes, results>>

\* A file: read it.
ReadAda(m) ==
  /\ AtAda(m)
  /\ adaOut # "none"
  /\ Set(m, "ada", IF adaOut = "whole" THEN "known" ELSE "")
  /\ Goto(m, "exec")
  /\ UNCHANGED <<step, holder, made, probes, adaOut, results>>

-----------------------------------------------------------------------------
(* sysdep-mod-exec, for a module with a custom program.                     *)

\* Mutation: the status is written before the files are moved.
Execute_StatusFirst(m) ==
  /\ At(m, "exec")
  /\ status' = [status EXCEPT ![m] = "succeeded"]
  /\ Goto(m, "copy")
  /\ UNCHANGED <<step, env, holder, made, probes, adaOut, output, lines>>

\* custom leaves the file and a sysdeps.out in the module's own directory, and
\* they are moved from there whether it succeeds or not.
Execute(m) ==
  /\ At(m, "exec")
  /\ \E code \in {"ok", "failed"} :
       /\ code = "failed" => world.fail
       /\ Set(m, "code", code)
  /\ Goto(m, "copy")
  /\ UNCHANGED <<step, holder, made, probes, adaOut, results>>

\* cp, not one step either.
Copy(m) ==
  /\ At(m, "copy")
  /\ output' = [output EXCEPT ![m] = "part"]
  /\ Goto(m, "copyend")
  /\ UNCHANGED <<step, env, holder, made, probes, adaOut, status, lines>>

\* The file in the module's directory is removed whether cp succeeds or not.
CopyEnd(m) ==
  /\ At(m, "copyend")
  /\ \/ output' = [output EXCEPT ![m] = "whole"]
     \/ world.fail /\ UNCHANGED output
  /\ Goto(m, "append")
  /\ UNCHANGED <<step, env, holder, made, probes, adaOut, status, lines>>

\* cat sysdeps.out >> the one in the output directory.
AppendLine(m) ==
  /\ At(m, "append")
  /\ \/ lines' = Append(lines, m)
     \/ world.fail /\ UNCHANGED lines
  /\ Goto(m, "status")
  /\ UNCHANGED <<step, env, holder, made, probes, adaOut, status, output>>

\* Mutation: the return code itself is written.
WriteStatus_Code(m) ==
  /\ At(m, "status")
  /\ status' = [status EXCEPT ![m] = env[m].code]
  /\ Goto(m, "done")
  /\ UNCHANGED <<step, env, holder, made, probes, adaOut, output, lines>>

\* SDM_module_exit_success or SDM_module_fail, and exit 0: an error to write
\* the status is reported and forgotten.
WriteStatus(m) ==
  /\ At(m, "status")
  /\ \/ status' = [status EXCEPT ![m] = IF env[m].code = "ok" THEN "succeeded" ELSE "failed"]
     \/ world.fail /\ UNCHANGED status
  /\ Goto(m, "done")
  /\ UNCHANGED <<step, env, holder, made, probes, adaOut, output, lines>>

-----------------------------------------------------------------------------
\* make is killed, with everything it has started, or has ended, and is
\* started again: a module whose file exists is not executed again.
Restart ==
  /\ crashes < world.kills
  /\ crashes' = crashes + 1
  /\ pc'     = [m \in Module |-> IF m \in world.asked /\ output[m] = "none"
                                THEN "boot" ELSE "skipped"]
  /\ step'   = [m \in Module |-> 1]
  /\ env'    = [m \in Module |-> Nothing]
  /\ holder' = [l \in Locks |-> NoModule]
  /\ UNCHANGED <<world, made, probes, adaOut, results>>

Over == {"done", "fatal", "skipped"}

Finished ==
  /\ \A m \in Module : pc[m] \in Over
  /\ UNCHANGED vars

SdRun(m) ==
  /\ \/ Boot(m) \/ Mkdir(m) \/ PrepareLocker(m) \/ MoveLocker(m)
     \/ LockStep(m) \/ Compile(m) \/ Link(m) \/ Run(m)
     \/ Header(m) \/ HeaderEnd(m) \/ HeaderMove(m)
     \/ TestAda(m) \/ LockAda(m) \/ RunAda(m) \/ OpenAda(m) \/ WriteAda(m) \/ ReadAda(m)
     \/ Execute(m) \/ Copy(m) \/ CopyEnd(m) \/ AppendLine(m) \/ WriteStatus(m)
  /\ UNCHANGED <<world, crashes>>

Next == (\E m \in Module : SdRun(m)) \/ Restart \/ Finished

Spec == Init /\ [][Next]_vars

(* The scheduler runs every sd-run that can go on.  A lock is asked for a
   bounded number of times, so everyone who waits for one gets it in the end. *)
FairSpec == Spec /\ \A m \in Module : WF_vars(SdRun(m))

-----------------------------------------------------------------------------
(* Properties.                                                              *)

TypeOK ==
  /\ world \in Worlds
  /\ pc \in [Module -> {"boot", "mkdir", "system", "mvlocker", "compile", "link", "run",
                        "header", "headerend", "headermv", "adalock", "ada", "adaopen", "adaecho",
                        "exec", "copy", "copyend", "append", "status"} \cup Over]
  /\ step \in [Module -> 1 .. Len(Script) + 1]
  /\ env \in [Module -> [arch : {"", "known"}, ada : {"", "known"}, code : {"ok", "failed"}]]
  /\ holder \in [Locks -> Module \cup {NoModule}]
  /\ made \in BOOLEAN
  /\ status \in [Module -> {"not-executed", "succeeded", "failed"}]
  /\ locker \in Content
  /\ exe \in [Probe -> Content]
  /\ header \in [h : Content, tmp : Content]
  /\ adaOut \in Content
  /\ output \in [Module -> Content]
  /\ lines \in Seq(Module)
  /\ crashes \in 0 .. world.kills

\* Nobody runs a probe that is not completely linked, or that somebody links
\* meanwhile, although a probe is compiled under one lock and run under
\* another.  (It takes a linker that is killed or fails and whose output is
\* executable from its first byte.)
ProbeComplete == \A m \in Module : At(m, "run") => exe[Current(m).probe] = "whole"

\* sd-cpuidx86.c is compiled with a complete header only: nobody renames the
\* .tmp file another is still writing.
HeaderWhole == header.h # "part"

\* What the sd-runs of a build make for one another is used only when it is
\* complete, in whatever order they come and wherever the build was killed.
OnlyWholeFilesUsed == ProbeComplete /\ HeaderWhole

\* A status of "succeeded" vouches for the file of the module, complete in
\* the output directory, and for one line in sysdeps.out, wherever the build
\* was killed; and no line comes twice.  (Where cp and cat may fail it vouches
\* for nothing: SDM_files_move does not look at what they return.)
SucceededMeansDelivered ==
  ~world.fail =>
    /\ \A m \in Module : status[m] = "succeeded" => output[m] = "whole" /\ m \in Range(lines)
    /\ IsInjective(lines)

\* Where no tool fails, an sd-run gives up for one reason only: another made
\* the status directory between its test and its mkdir.  No sd-run fails
\* because of what another does to a probe, a header or a lock, and the one
\* that made the directory goes on.
FatalOnlyByMkdir ==
  \A m \in Module : At(m, "fatal") /\ ~world.fail =>
    /\ made /\ step[m] = 1
    /\ \E n \in Module : ~At(n, "fatal")

\* Every sd-run ends, and does so again when the build was killed and started
\* again: a step that fails under a lock gives the lock back.
EveryRunEnds == \A m \in Module : []<>(pc[m] \in Over)

\* sysdep-system:110, "Call sd-adaversion and save output safely": whoever has
\* come past the Ada part knows the version.
AdaVersionKnown ==
  \A m \in Module : pc[m] \in {"exec", "copy", "copyend", "append", "status", "done"} =>
    env[m].ada = "known"
=============================================================================
