# lua-ada, modelled and verified in TLA+

This directory holds a model of lua-ada: of the Ada binding to Lua 5.1
(`lua.adb`, `lua-lib.adb`, `lua-user_data.adb`), of the programs that install it
on POSIX and on Win32 (`install-core.c` and what lies under and over it), and of
the parallel build that configures it: the SYSDEPS executor
(`SYSDEPS/sysdep-*`), its locks (`SYSDEPS/sd-locker*.c`) and the one probe with
an algorithm in it (`SYSDEPS/sd-cpuidx86.c`). TLC checks small instances of each
module, and TLAPS proves every safety property of these instances for every value
of the constants (from the assumptions named under [Proofs](#proofs)). What is
only model-checked is liveness.

`PROJECT.json` maps every definition to the lines it models and lists the runs,
the mutations each property was seen to fail under, the hazards, the findings
and the theorems.

## The system

| Part | State it keeps | Operations | Where it gets hard |
|---|---|---|---|
| `lua.adb`, `lua.ads`, `lua-ext.c` | none of its own: the stack, tables, registry and threads of the Lua state | thin wrappers of the C API; `Resume`, `PCall`, loaders, references | indices relative to a stack that moves, status codes converted by position, Lua errors that leave Ada code by `longjmp` |
| `lua-lib.adb` | a table per library in the globals, a metatable per name in the registry | `Open_Library`, `New_Metatable` | nine API calls per function; accesses to the globals run metamethods, hence scripts, in the middle |
| `lua-user_data.adb` | per class a metatable, its `__index` and `__metatable`; the metatables of userdata | `Register`, `Push`, `Get` | a class is published before it is complete; scripts must never get hold of its metatable; `Get` trusts it |
| `lua-check_raise.adb`, `lua_check_exception.adb`, `lua-config.sh` | none | a probe for exceptions that pass C frames | depends on the compiler, not on states |
| `install-core.c`, `install-posix.c`, `installer.c`, `deinstaller.c`, `instchk.c`, `insthier.c` | the installed tree; a count of failed checks; the working directory | copy, link, mkdir, and for each its check and its removal, over a table of items | kills between two system calls, failing calls, what the next run finds, files in use while they are replaced |
| `install-win32.c` | the same tree | the same callbacks over Win32, with links as copies and no modes | an Administrator that is looked up by name, a rename that does not replace, owners without groups |
| `SYSDEPS/sd-locker.c`, `sd-locker_posix.c`, `sd-locker_win32.c` | a lock file, a lock, a child | lock, run a command, unlock | several lockers, kills, `sd-clean` while locks are in use |
| `SYSDEPS/sd-run`, `sysdep-*`, `sd-compile`, `sd-mk-cpuidx86-h` | the status directory, the compiled probes, `sd-cpuidx86.h`, `sd-adaversion.out`, the outputs of modules, `sysdeps.out` | make the locker, compile and run the probes, execute a module, move its outputs, record its status | files tested for and then written, two lock names for one program, partial outputs, a build that is killed and started again |
| `SYSDEPS/sd-cpuidx86.c` | `struct cpu_info`, filled from the CPUID instruction | decode vendor, features, cache descriptors; answer one question | registers that are not valid, parameters that are not there, tables searched byte by byte, widths |
| the other probes, `sd-mk-*`, `sd-genmk`, `lua-ada-conf.c`, `mk-*` | none | print what the preprocessor or a file says | |
| `UNIT_TESTS` | none | | read as documentation |

The parts meet in few places. `Lua.User_Data` calls `Lua.Lib`, which calls the
wrappers of `lua.adb`; all three share the Lua state, and Lua scripts run
whenever one of the calls runs a metamethod or the host returns to Lua.
`installer`, `deinstaller` and `instchk` never run one another, but each finds
the tree the others left. The SYSDEPS modules are processes of one parallel make
that share files and meet at `sd-locker`.

What makes each part correct:

- **Lua.Lib**: after `Open_Library` the stack is what it was, with the library in
  place of the upvalues; each function has its own copy of all of them.
- **Lua.User_Data**: no script obtains the metatable of a complete class, nor
  changes it; a userdata has the metatable of the type it was pushed as; an
  error inside `Register` leaves nothing half protected unnoticed.
- **Resume**: the coroutine gets the arguments it was given, the host the values
  the coroutine gave, and the right code.
- **Installation**: a file under its final name is always whole; what was not
  reported as failed is there; a rerun repairs what a kill left; deinstallation
  undoes installation and touches nothing else; `instchk` agrees with
  `installer`.
- **sd-locker**: commands of one lock do not overlap; nobody waits for ever; no
  lock stays behind; success is reported of commands that ran.
- **SYSDEPS executor**: what one sd-run makes is used by the others only when it
  is complete; one sd-run does not make another fail; a recorded success vouches
  for the outputs; every sd-run ends, whatever fails.
- **sd-cpuidx86**: an answer is computed only from registers that were written
  and are valid, and is the one they give.

## Modules

| Module | Models | By |
|---|---|---|
| `LuaStack` | the stack operations of `lua.adb` | pure operators on sequences; `At(s, -1)` is the top, as in C |
| `LuaHeap` | tables, registry, globals, userdata, what scripts know and do | `heap`, `alloc`, `udMeta`, `known`, `tampered`; `ScriptTurn` is any script action with values the script has got hold of |
| `LuaLib` | `Open_Library`, `New_Metatable` | one action per part of the subprogram between two places where a script or an error can come in; `pc`, `frame` are the subprogram's parameters and position |
| `LibHost` | a host that calls `Lua.Lib` itself, by name, with upvalues, into a table | composes `LuaLib` with `HostPush`, `HostOpen`, `HostFill`, `HostNewMetatable` |
| `UserData` | the instances of `Lua.User_Data` | composes `LuaLib` with the steps of `Register` and with `Push`; `complete` and `failed` are history |
| `Coroutine` | `Resume` over `lua_resume` of Lua 5.1 | the stack frame of a thread before and after; `Ndx`, `Traced`, `Untraced` are the lines of `Resume` |
| `Installer` | the three programs over one table of items, on POSIX and on Win32 | one action per system call, `f` says whether the call fails; `fs` is a function from the paths that exist, `system` says what they run on |
| `Mutex` | what a lock promises | the abstract specification of `Locker` |
| `Locker` | `sd-locker` and the command it runs, on POSIX and on Win32 (`os`) | one action per system call of the parent, the child, `Kill`, `Clean` |
| `Sysdeps` | the sd-runs of a parallel build | one action per command of the shell scripts that reads or writes a shared file; `Restart` kills the build, or ends it, and starts it again |
| `CpuId` | `sd-cpuidx86` | one action per part of `main`; the tables are sets of triples |
| `MC...` | the instances for TLC | |
| `LuaStackProofs`, `LibHostProofs`, `UserDataProofs`, `CoroutineProofs`, `InstallerProofs`, `LockerProofs`, `SysdepsProofs`, `CpuIdProofs` | | lemmas about the stack operations; the theorems about the module of the same name |

### Lua binding

A stack is a sequence, and the indices of the code are kept: `RegisterIndex`
computes `At(s, -3)` from the stack after the pushes of `lua-user_data.adb`, so
an index that is off by one writes into another table or copies another value.
A Lua value is a table, a userdata, a name, a closure or `Plain` (anything
else). The registry is a table no script can name; the globals are a table
scripts know from the start. Scripts are not programs but a closure rule: they
read and write fields of the tables they know, make tables, give the tables they
know metatables of their own (`ScriptSetMetatable`; that of all strings is
`Plain`'s), and call `getmetatable`, which honours `__metatable`. They run between
two calls of the host, and inside `Open_Library` and `Register` where a non-raw
access (`Get_Table`, `Set_Table`) of a field that is not there calls a metamethod
(`LibCall`): the script then runs as long as it likes, and at its end what it
returns replaces the value read, any value it has (`LibGet`), or nothing is
stored but what the script stores itself (`SetTable`). Which metamethods a script's
metatable has is left open: a table in `tampered` may have any or none. So
`tampered` is what the properties except: a table, or the globals, that a script
has written to or given a metatable. A Lua error (`LuaError`) may end the
subprogram at each of its steps.
Externals, modelled from their use: the API of Lua 5.1 (`index2adr`,
`lua_resume`, `luaD_throw`, `getmetatable`). The `debug` library, with which a
script can read the registry, is not modelled; the properties about scripts
hold for states that have not opened it.

### Installation

A path is a sequence of names, the temporary file of `p` is `Tmp(p)`, contents
are `"old"`, `"new"` or `"part"`, and a mode is a set of four bits, enough to
tell 0444, 0644, 0755 and what `file_mode_get` masks. The operators `DirIn`,
`NameIn` and `DstIn` are what the `ntran_*` functions make of an item on a given
system (`Dir`, `Dst`: on the one the behaviour is about); each item
is translated once per run, so that their static buffers do not matter. Between
two runs other programs may put files into the tree (`Other`). The tree of the
first state is bare, or holds an earlier version. `system` is a record: the
table, the fake root, who runs the programs, the users and groups there are, the
umask, the suffixes, and whether it is Win32.

On Win32 the suffix of programs applies (`INST_COPY_EXEC`; it is empty on
POSIX), there are no modes and no symbolic links: `iwin32_symlink` copies
instead (`CopyLink`), as the owner of what it copies and from inside the
directory of the link. `rename` does not replace a file that is there, so that an
installation over an earlier one reports an error and keeps the old file.
`iwin32_init` looks up "Administrator" by that name, and no program runs where
there is none (`PlatformInit`).

### sd-locker

The kernel's part (files by inode, locks by process, release at exit) is in
`Open`, `Acquire` and `Cleanup`. A killed locker leaves its command running.
`sd-clean` unlinks the lock file, after which the next locker creates another;
on Win32 a file that is open cannot be removed (`Removable`). There the exit code
of a command that was terminated is whatever the one who terminated it chose,
while `WEXITSTATUS` makes 0 of a signal; and since nobody looks at the result of
`WaitForSingleObject`, a locker whose wait fails takes the exit code of a command
that still runs and releases the lock (`WaitFails`, where the constant
`WaitMayFail` allows it).

### SYSDEPS

`Script` is the sequence of calls `sysdep-system` makes, for two of the five
probes: sd-arch, which the Ada part and the header depend on, and sd-cpuidx86,
which is compiled from a header that was made from what sd-arch printed. Each
call is made under a lock; a lock is one variable, `holder`, the abstract state
of `Mutex`, since that is what `Locker` implements and the proof in
`LockerProofs` licenses, where sd-clean does not run during the build and no wait
fails on Win32. The look at `sd-adaversion.out` and the lock that sd-adaversion
is run under are two steps (`TestAda`, `LockAda`). A file is `"none"`, `"part"` or `"whole"`; a command that
writes one takes two steps. A world says whether the linker makes its output
executable when it creates it (`early`; otherwise when it has finished it),
whether tools may fail (`fail`), how often the build is killed and started again
(`kills`), and which modules make is asked for (`asked`). `Restart` ends all
processes of the build together; make does not execute a module again whose file
exists.

### sd-cpuidx86

The processor is data: `Processor` lists what the code asks it. A feature bit is
a name, a register is four bytes where the code takes it apart by bytes. Model,
family and stepping are printed nowhere and left out. `Executes` says for which
builds `cpuid_exec` contains the instruction; in the others the registers would
keep what they held.

## Runs

| Run | Question | Instance and bounds |
|---|---|---|
| `library` | does `Open_Library` do its stack arithmetic right, and what can scripts and errors break? | two libraries that share a function name, two upvalues, two free tables, two calls, one write or metatable by scripts; 814,437 states |
| `userdata` | is the metatable of a class out of reach of scripts, and do classes stay apart? | two classes with a common method name, one userdata, three tables beyond the registry and the globals, one write by scripts, under the name of a class, or one metatable, to any table they know; 1,850,605 states |
| `coroutine` | where is `Resume` faithful? | stack of four, up to two values passed each way |
| `coroutine_resume`, `coroutine_codes` | violations, see Findings | the same |
| `installer` | do installer, deinstaller and instchk agree over kills, failures, earlier versions and obstacles? | eight systems (below); four runs in any order (kill, retry, retry, check), two faults |
| `installer_mkdir` | violation, see Findings | one run, one fault |
| `locker_faults` | do commands exclude each other, and does everybody get the lock, whatever fails? | three lockers, kills anywhere, one `sd-clean`, two inodes, both systems, failing waits on Win32 |
| `locker_mutex` | does sd-locker implement a mutex? | the same, with kills except at `waitpid`, `sd-clean` on Win32 only, and no failing wait |
| `sysdeps` | do the sd-runs of a build get in one another's way? | three worlds: three modules and an early linker; two modules and tools that fail; three modules, and a build killed or repeated twice |
| `sysdeps_ada` | violation, see Findings | two modules, no kills, no failures |
| `cpuid` | is every answer right? | 15 questions, 5 kinds of build, Intel processors with a descriptor in every byte of registers 2 to 4 or with several in registers that may be invalid, AMD processors with each number of extended parameters the code tells apart, others |

The systems of `installer`: an ordinary user who shares directories with others;
the same with umask 077; the superuser below a fake root, with links and owners;
a user who is to install what belongs to others, one of whom does not exist; a
user who finds others' files in the place of a directory and of a link, and whose
table leaves a directory to an owner nobody knows; and Win32 as a user, as the
Administrator with links to another package's files, and where the Administrator
has another name.

Why the bounds are enough. For Lua a hazard needs one class and one table it
shares with scripts, or two classes that come to share a table; a third table
lets a script own one that neither class made, and the theorems remove the
bounds. For installation the longest story told by a property is: killed with a
read-only temporary file, a run that fails on it, a run that succeeds, a check.
Three lockers give one that holds the lock, one that waits and one that comes
late. Two modules show every race for a file; a third comes when two have left
something behind. Two kills let the second build meet what the first left and be
killed on it. Each property of a passing run fails for a small change to the code,
listed under `mutants`, so none of them holds for want of cases.

Deadlock is checked except in `coroutine`, where a thread whose state is
undefined has nothing more to do.

**Fairness.** `locker_faults` and `sysdeps` assume some. `locker_faults`: weak
fairness of each locker's next call and of each command. A locker that can make
its next call is run by the scheduler; commands are assumed to end; and the
kernel gives a lock that stays free to one that waits for it. `sysdeps`: weak
fairness of each sd-run, for the same reasons. The weak form is enough in both
because a lock is asked for a bounded number of times: each locker takes it once,
each sd-run once per call of `Script`, so that in the end it stays free. Nothing
is assumed of `Restart`, nor of any failure.

### What the properties say

`library`: `StackBalanced`, `UpValuesShared`, `GlobalIsLibrary` (the result of a
completed `Open_Library`), `BackLinkSound` (the registry). `UpValuesShared` says
which closure is under each name, the function and its upvalues; where the array
has a name twice it is the last one. It and `GlobalIsLibrary` hold of objects and
globals that are not `tampered` with.

`userdata`: `MetatableHidden`, `MetatableSealed`, `MetatableFrozen`,
`MetamethodsIntact`, `MethodsReachable`, `UserdataTyped`, `RegisterLeaves`, and
two on errors: `HalfBuiltOnlyByError`, and `HalfBuiltForever`, which is not a
promise but a consequence of the early return of `Register`: a class an error
left without `__metatable` never gets it. `MethodsReachable` says that under the
name of a method is the class's own function of that name, unless a script
tampered with the object; where a script changed the globals, two classes may come
to have one object, and the function may be the other's. `RegisterLeaves` compares
what a Register leaves with `caller`, the stack at its call.

`coroutine`: `FaithfulUntilYield`, `ArgumentsOverRest`: as long as nothing has
yielded, or values lie below the arguments, the insertion and removal of the
traceback in `Resume` do no harm.

`installer`: `DestinationWhole` (after any kill or failure), `NeverMissing` (a
file that is replaced is there at every moment), `ErrorFreeInstalls`,
`RetryInstalls` (one calm run, two for an ordinary user on POSIX, installs
everything that is not `Hindered`, whatever was left, and no temporary file
stays), `RetryApproved` (then `instchk` complains of nothing except the items of
`Exempt`: what is not installed, owners and groups the user may not give,
directories cut by the umask or made by others too, links to what is not installed
as they are, Win32 links), `DeinstallUndoes`, `OthersKept`. A temporary file that
was left read-only makes the next installer of an ordinary user fail once; only
its error path removes it. Hence two runs, where the superuser needs one.
`Hindered` is per item, so that one obstacle does not excuse another item: an
owner that is unknown or that the user may not give, something else in the place
of the item or of a directory above it, a directory that no item makes, and on
Win32 a link to what is missing or belongs to somebody else. Something in the
place of a POSIX link excuses it only where somebody else has a use for that path
(`Alone`).

`locker_*`: `CommandsExclusive` (except after a kill of a locker whose command
runs, on POSIX after `sd-clean`, and on Win32 after a wait that failed),
`HoldersExclusive`, `NoLockLeak`, `SuccessMeansRan`, `ImplementsMutex` (the
refinement), `EveryLockerEnds`.

`sysdeps`: `OnlyWholeFilesUsed` (a probe that runs and the header are complete, in
any interleaving and after any kill of the third world),
`SucceededMeansDelivered` (a status of success means a complete output and one
line in `sysdeps.out`; only where `cp` and `cat` do not fail, see Deviations),
`FatalOnlyByMkdir` (the one way a module can make another fail), `EveryRunEnds`
(each module comes to its end again and again, so that a build started again ends
too).

`cpuid`: `AnswersRight`, the conjunction of `RegistersWritten`, `FeaturesRight`,
`SizesRight` and `LineRight`; the last three compare the code's search through
bytes with the sets of descriptors and features the processor lists.

## Findings

1. `coroutine_resume`: `Resume` computes an index before `lua_resume` and removes
   the value there afterwards. When the coroutine yields, the frame is another
   one, and a yielded value is lost.
2. `coroutine_codes`: `Error_t` has the numbering of Lua 5.0; with Lua 5.1 a yield
   is reported as `Lua_Error_Runtime` and a runtime error as `Lua_Error_File`.
3. `installer_mkdir`: `install_rmkdir` compares the result of a callback that
   returns 0 or 1 with -1; a directory that cannot be made is reported as made.
4. `sysdeps_ada`: the Ada version is written to `sd-adaversion.out` with `>`
   outside of the lock. Another sd-run may find the file there and still empty,
   and goes on with an empty Ada type. A function that writes it safely exists
   (`sysdep-system:110`) and is not called.

## Deviations

Places where the code does something its reader would not expect. The models
follow the code; what they say of these places is in the comment of the property
or definition named.

- `install-core.c:389`: the test that is to exempt links from the type check
  where there are none exempts everything where there are, so that on POSIX
  `instchk` approves a file in the place of a link (`TypeApproved`).
- `install-core.c:266`: after a `rename` that fails both files are closed a second
  time, which is undefined (`DoubleClose`).
- `install-posix.c:204`: `mkdir` takes the umask away and no `chmod` follows
  (`Exempt`).
- `install-win32.c:341`: `iwin32_file_ownership_set` does not use the group.
- `sd-locker_posix.c:144`: a command killed by a signal counts as successful
  (`SuccessMeansRan`). `sd-locker_win32.c:247`: the result of the wait is not
  looked at, so that after a failure the lock is released while the command runs
  (`WaitFails`, `CommandsExclusive`); `:156`: the size of the command line does not count the final zero
  and suffices because `sizeof (' ')` is that of an `int`.
- `sysdep-boot:75`: of two modules that find no status directory the second ends
  with a fatal error (`FatalOnlyByMkdir`).
- `sysdep-system:219`, `sd-mk-cpuidx86-h:30`: a failure of sd-arch is tolerated
  with a message, and the header made from its answer then is a fatal error.
- `sysdep-mod-exec:56`: the results of `cp` and `cat` are not looked at, so that a
  module may succeed without its files (`SucceededMeansDelivered`). A module with
  two files that is killed between them is not executed again by make if the one
  it names is there (sd-dlopen).
- `sd-compile:48`: with a linker whose output is executable from its first byte, a
  kill, or a failure of the linker, leaves a part of a probe that later builds take
  for the finished one. The worlds of `sysdeps` do not combine `early` with kills or
  failures, and `OnlyWholeFilesUsed` says so.
- `sd-cpuidx86.c:623`: of the 16 bits of AMD's L2 size the upper 8 are taken
  (`VendorAmd`); `:600`: no SSE is ever reported of AMD processors; `:175`: the
  L3 sizes from descriptor 0xD0 on are in bytes while the rest is in KB, and the
  shift by 10 in `:690` then overflows a long of 32 bits (`Shifted`); `:544`: parameter 2 is asked for
  without a look at the highest one there is.
- `lua.adb:477`: `Load_String` passes `Buffer'Last` as the length, which is too
  much for a slice that starts beyond 1. `lua.adb:463`: `Load_File` puts a line
  feed after each 4096 characters of a longer line.

## Proofs

Every state invariant and action property the passing runs check is proved for
all values of the constants. The properties themselves are not inductive, and what
had to be added says why the code is right; TLC finds these invariants true on the
instances of the runs as well.

**`LibHostProofs`** (run `library`) proves `TypeOK`, `StackBalanced`,
`UpValuesShared`, `GlobalIsLibrary` and `BackLinkSound` for any libraries, any
number of upvalues and any stack below them, from `HostInv`:

- `StackInv`: at each point between two API calls groups where a script or an
  error may come in, what lies where on the stack, counted from `Base`, the height
  of the caller's part. It is what makes the indices `-(num_up + 1)` and
  `-(num_up + 3)` of `lua-lib.adb` reach what they are meant to reach;
- `FrameInv`: the loop is at function `Done + 1` of the array;
- `MetaInv`: a metamethod runs only in a non-raw access, and only where a script
  has put one;
- `SharedInv`: of the first `Done` functions the last of each name is stored with
  all the upvalues;
- `AllocInv`, `GlobalsInv`: nothing on the stack or in a table is the registry,
  nor, until a script changes the globals, are the globals. Otherwise a library
  could be filled into them, and `BackLinkSound` and `GlobalIsLibrary` would break.

That the `num_up` calls of `Push_Value (-(num_up + 1))` copy the upvalues in their
order is an induction over `num_up` (`CopiesUnder`). It is made from the
well-foundedness of the naturals: `Least` gives the first call that copies
something else, and the call before it refutes that.

**`UserDataProofs`** (run `userdata`) proves, for any classes, method tables,
tables, userdata and bounds, `TypeOK`, `MetatableHidden`, `MetatableSealed`,
`UserdataTyped`, `HalfBuiltOnlyByError`, `MetatableFrozen` and `HalfBuiltForever`
from `UserDataInv`:

- `AllocInv`: values in tables and on the stack are allocated, and never the
  registry, so that a fresh table is unknown to everybody;
- `ClassInv`: who has a metatable, and that no two classes share one;
- `HiddenInv`: no script knows and no table but the registry holds the metatable
  of a class no error has struck. This is the heart: `MetatableHidden` speaks of
  complete classes only, but what is stored before the class is complete
  decides;
- `FrameInv`, `StackInv`: at each step of `Register` the values its relative
  indices will reach. Without them nothing is known of the target of a
  `Raw_Set (-3)`;
- `ScriptsInv`: scripts tamper only with what they know, and a metamethod runs
  inside `Open_Library` only on what was tampered with; hence never while the
  metatable is being filled, which no script knows (`ScriptsRunOutside`);
- `SealedInv`, `UserdataInv`.

`MetamethodsIntact`, `MethodsReachable` and `RegisterLeaves` follow from
`ContentsInv`, which adds to it:

- `LoopInv`: how far the loops of the two `Open_Library` calls are;
- `CallerInv`: `caller`, the stack at the call, is under what `Register` has
  pushed, and how much that is at each step;
- `GlobalsInv`: while no script has changed the globals they hold a different
  object for each class, so that nobody else stores methods there;
- `RunInv` for the class being registered and `CompleteInv` for complete ones: the
  metamethods stored so far are in the metatable (`Bound`), the methods stored so
  far in the object if it is not tampered with (`Present`), and the object is the
  global of the class if the globals are not (`Own`).

`Keeps` says what every step must leave alone for these to last: in the object of a
class a function is replaced only by one that may be there (`HasMethod`).

Each step of the code has a lemma that it preserves the invariant; lemmas about
its effect on stack and heap come before, over those on stack operations in
`LuaStackProofs`. Assumed of the constants: names, functions and tables are
distinct kinds (`LuaHeap`), no metamethod array contains `__index` or
`__metatable` (`MetaNamesAssumption`; `Register` would overwrite them, or lose
its own).

**`CoroutineProofs`** (run `coroutine`) proves `TypeOK`, `FaithfulUntilYield` and
`ArgumentsOverRest` for stacks of any height and any numbers of values passed.
The invariant is small, a thread is suspended only if a coroutine has yielded; the
work is in the lemmas on what `Insert` and `Remove` of the traceback do to the
positions of the others, which `lua_resume` then takes from the top.

**`InstallerProofs`** (run `installer`) proves `TypeOK`, `DestinationWhole`,
`NeverMissing`, `OthersKept`, `ErrorFreeInstalls`, `DeinstallUndoes`,
`RetryInstalls` and `RetryApproved` for any table and system, and any number of
runs, faults and kills. `InstInv` is:

- `FsInv`: every path that exists is in a directory; only temporary names hold
  parts of files; a file of this version under its final name has its final
  mode and owner; a temporary file belongs to the one who writes it or the one it
  is for, whoever left it;
- `PlaceInv`: at each system call, which kind of item is being worked on and from
  which working directory;
- `TmpInv`: how far the temporary file has come, which is what `rename` makes
  final.

`ErrorFreeInstalls` needs `ErrorInv` besides: as long as no error was reported,
the working directory is the build tree whenever something is copied from there,
what earlier items installed is untouched, and what is about to be renamed is of
this version. Assumed of a system (`SystemsAssumption`, which TLC evaluates for
the eight systems): a directory something is copied into exists or is made by an
`INST_MKDIR` of the table; two items copied to one path have one owner, group and
mode, and nothing else is made there; no name ends in ".tmp"; what other programs
write is not of this version, and no symlink on Win32. `insthier.c` satisfies the ones about the table. Without
the second, `DestinationWhole` is false: of two copies to one path the second
decides on the mode.

`DeinstallUndoes` (`Undone`) is proved under `ParentsFirst`: the table names a
directory before it names anything in it. The tables of the run do, and so does
`insthier.c` unless the directories of `ctxt` are configured inside one another
and the inner one is listed first (`bindir` inside `incdir`, say); then the
deinstaller comes to the outer one while the inner one is still there, and leaves
it. `GoneInv` says that what is still there of the installation is what an item
still to come names: the walk is backwards, so the items of what is in a directory
come before the first item of the directory itself.

`RetryInstalls` and `RetryApproved` (`Retried`, `ApprovedAfter`) are proved under
`InOrder`, which TLC evaluates for the eight systems: the table names all its
directories before anything else, on Win32 it names a file before a link to it,
and there the umask leaves files writable. `insthier.c` begins with its
directories and has no links; nothing in the programs sets an umask. Otherwise a
directory may be made only after what was to be put into it has failed, and it
takes another run. They are about what a whole run has achieved, over any tree
that any earlier runs and neighbours left, and `RetryInv` is what carries that
from call to call:

- `World`, of every entry that there ever is: the owner and mode that let Win32
  open a leftover temporary file again, the group of a file of this version, what
  a link points to that has its path alone, the mode of a directory that only the
  table makes;
- `HandInv`: what the calls before have established for the item in hand, such as
  that the temporary file can be given its mode, or that the file a Win32 link is
  copied from is a file the user may copy;
- `CalmInv`: the loop of `install_rmkdir` has made a path, or has met an obstacle
  on it, up to the name it is at (`Looping`), so that it ends with the directory
  there or `Blocked` (`Settled`);
- `MadeInv`, `CleanInv` and `FullInv`: for each item that a calm installation has
  passed (`Swept`; `Handled` where the second of two has passed it), its directory
  is settled and has its owner, its temporary file is gone, it is installed or
  hindered. Each is kept by the calls for the later items: no directory is made
  any more that an earlier item has missed (`NoMakes`), and no file comes into
  being that an earlier link was to be made of (`NoNewFrom`).

`Finish` turns what is true of the items passed into what is true of all. For
`RetryApproved`, `CheckInv` says that `install_failed` is at most the number of
items so far that are not approved, and `WellApproved` that these are exempt.

**`LockerProofs`** (runs `locker_*`) proves, for any number of processes and
inodes, any kill points, any runs of `sd-clean` and both systems, `TypeOK`,
`HoldersExclusive`, `NoLockLeak`, `CommandsExclusive` and `SuccessMeansRan` of
`Spec`, from `LockInv` (the owner of a lock is a locker at `fork`, `wait` or
`release` that has that file open) and `ChildInv` (a command runs only if its
locker waits for it, was killed or, on Win32, could not wait, and all open
descriptors are on one file: on Win32 always, since an open file stays, on POSIX
until `sd-clean` has run).
`Implements` proves that `Locker` refines `Mutex` under `"wait" \notin KillPoint`
and, for POSIX, `MaxCleans[s] = 0`, for Win32, `~WaitMayFail`. All three are needed:
a locker killed at `waitpid` and one whose wait fails leave their command inside,
and a removed lock file lets a second one in, which is why `CommandsExclusive`
excepts the three.

**`SysdepsProofs`** (run `sysdeps`) proves `TypeOK`, `SucceededMeansDelivered` and,
under `Orderly`, `OnlyWholeFilesUsed` and `FatalOnlyByMkdir`, for any modules, any
number of kills and any worlds. `Orderly` says that a world does not combine a
linker whose output is executable at once with kills or failures; every world of
the run satisfies it, and Deviations says what happens otherwise. The part of
`OnlyWholeFilesUsed` that does not depend on the linker, about the header, is proved
without it (`RenamedFilesWhole`). `SysdepsInv` relates each
sd-run's position with the lock it holds (`LockInv`), the probes with who is
linking or has passed their compilation (`ProbeInv`), the header with who holds
its lock (`HeaderInv`), the outputs with who has delivered (`DeliveryInv`) and
the status directory with who is past it (`FatalInv`).

**`CpuIdProofs`** (run `cpuid`) proves `TypeOK` for every processor and
`AnswersRight` for every processor that describes itself as documented
(`Documented`): an Intel processor has a first descriptor register whose low byte,
the count of queries, is not 0, reports no 3DNow, and has MMX2 together with SSE,
of which MMX2 is a part. The processors of the run satisfy it. `CpuIdInv` says
that `struct cpu_info` is blank until the vendor is known and then tells what the
processor tells; its lemmas relate the code's search through the bytes of four
registers with the set of descriptors listed in the valid ones.

**Not proved, only model-checked.** Liveness (`EveryLockerEnds`, `EveryRunEnds`),
which needs ENABLED, out of reach of TLAPS here. The four runs that expect a violation
are counterexamples, not theorems.

## Not modelled

- Of `lua.adb`: `PCall` and the `Exec_*` subprograms (one conversion of a status,
  the one finding 2 is about), the loaders (pure functions of a text, see
  Deviations), references (two one-line wrappers of `luaL_ref` and `luaL_unref`,
  whose free list is Lua's), conversions of values. `Get` of `Lua.User_Data`
  changes nothing; that it does not look at the metatable is why `UserdataTyped`
  matters.
- The reading of `conf-sosuffix` by `install_init` (`installer.c:43`) cannot
  fail: a program whose reading fails exits before it changes anything.
- Of `install-win32.c`: the formatting and scanning of security identifiers,
  which serve messages; of `sd-locker_win32.c`: the flattening of the command
  line.
- Of SYSDEPS: modules without a custom program (their outputs are `#define` lines
  appended to one file, as `AppendLine` does), `sysdep-mod-clean`, `sd-genmk`, and
  three of the five probes, which repeat the steps of the two that are there.
  `sd-arch`, `sd-cctype`, `sd-os`, `sd-ccversion` print what preprocessor macros
  say; they have neither state nor input.
- `lua-check_raise.adb` and `lua-config.sh`, the build scripts (`mk-*`, the
  generated make file), `lua-ada-conf.c` and the unit tests: no state of their
  own, or output of another tool.

The user and group names of `install-core.c` are looked up in constants.
