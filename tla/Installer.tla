------------------------------ MODULE Installer ------------------------------
(* The installation library (install-core.c over install-posix.c or          *)
(* install-win32.c) and the three programs that walk insthier[] with it:      *)
(* installer, deinstaller and instchk.  One program runs at a time; between   *)
(* two system calls it may be killed, and each system call may fail.  Any     *)
(* later run starts from the file system its predecessors left behind.        *)
(*                                                                            *)
(* A path is a sequence of names; the temporary file install_file_copy writes *)
(* next to p is Tmp(p).  A mode is a set of bits: "w" and "x" (the owner's),  *)
(* "o" (reading by others) and "g" (the bits outside of 0755).                *)
EXTENDS Naturals, Sequences, FiniteSets, Functions

CONSTANTS
  Systems,        \* where the programs run; of each the fields below
  SizeOf,         \* the size of a file, by what it holds
  MaxRuns,        \* bound: programs started
  MaxFaults       \* bound: system calls that fail and programs killed

None == "-"       \* a null pointer in an item
Build == <<>>     \* the working directory of make: the build tree
Bit == {"w", "x", "o", "g"}
Copies == {"INST_COPY", "INST_COPY_EXEC"}
Links == {"INST_SYMLINK", "INST_LIBLINK"}

VARIABLES
  system,  \* one of Systems
  fs,      \* the installed tree: a function from the paths that exist
  cwd,     \* the working directory of the program
  saved,   \* path_buf of inst_link
  program, \* the program that runs, or ran last
  dry,     \* INSTALL_DRYRUN
  pc,      \* the next system call, "item" between two items, "idle" between two runs
  at,      \* the number of names install_rmkdir has handled, plus one
  done,    \* the number of items handled
  errors,  \* an item of this run was reported as failed
  failed,  \* install_failed
  exit,    \* the exit code of the last run
  runs, faults,
  calm,    \* ghost: no system call of this run has failed, and nobody has written since
  quiet,   \* ghost: the last runs that were complete, calm installations (at most 2)
  before   \* ghost: fs as it was when the run began

vars == <<system, fs, cwd, saved, program, dry, pc, at, done, errors, failed, exit,
          runs, faults, calm, quiet, before>>

Win32 == system.win32           \* install-win32.c, or else install-posix.c
Hierarchy == system.table       \* insthier: items [op, src, dst, dir, owner, group, perm]
FakeRoot == system.root         \* inst_fake_root, <<>> when it is not set
Me == system.me                 \* uid_current and gid_current of every run
MyGroup == system.group
Passwd == system.users          \* uid_lookup and gid_lookup: from names to identifiers
Groups == system.groups
Umask == system.umask           \* the bits mkdir and fopen take away
Suffixed == system.suffixed     \* a name with inst_dlib_suffix or inst_exec_suffix

\* The platform's answers.  can_set_ownership: user 0, or the Administrator that
\* iwin32_init has looked up.
Superuser == IF Win32 THEN \E n \in DOMAIN Passwd : n = "Administrator" /\ Passwd[n] = Me
                      ELSE Me = "root"
SupportsSymlinks == ~Win32
SupportsModes == ~Win32

\* Mutation: the deinstaller walks forwards.
Item_Forward == Hierarchy[done + 1]
Item == IF program = "deinstaller" THEN Hierarchy[Len(Hierarchy) - done]
                                   ELSE Hierarchy[done + 1]
ItemsOf(ops) == {k \in DOMAIN Hierarchy : Hierarchy[k].op \in ops}

-----------------------------------------------------------------------------
(* The file system. *)

Tmp(p) == Append(p, ".tmp")
Parent(p) == SubSeq(p, 1, Len(p) - IF p[Len(p)] = ".tmp" THEN 2 ELSE 1)
Entry(type, data, mode, owner, group) ==
  [type |-> type, data |-> data, mode |-> mode, owner |-> owner, group |-> group]
Exists(p) == p \in DOMAIN fs
IsDir(p) == p = <<>> \/ (Exists(p) /\ fs[p].type = "directory")
Empty(p) == \A q \in DOMAIN fs : Parent(q) # p
Put(f, p, e) == [q \in DOMAIN f \cup {p} |-> IF q = p THEN e ELSE f[q]]
Remove(f, p) == Restrict(f, DOMAIN f \ {p})
\* What stat () sees at p.
Followed(p) == IF Exists(p) /\ fs[p].type = "symlink"
               THEN Append(Parent(p), fs[p].data) ELSE p

-----------------------------------------------------------------------------
(* Names and owners: the ntran_* functions and install_uidgid_lookup. *)

DirIn(s, it) == s.root \o it.dir
\* There is a suffix of programs on Win32 only.
ProgramIn(s, it, name) == IF it.op = "INST_COPY_EXEC" /\ s.win32 THEN s.suffixed[name] ELSE name
NameIn(s, it) == IF it.op = "INST_LIBLINK" THEN s.suffixed[it.dst]
                 ELSE ProgramIn(s, it, IF it.dst = None THEN it.src ELSE it.dst)
DstIn(s, it) == IF it.op = "INST_MKDIR" THEN DirIn(s, it) ELSE Append(DirIn(s, it), NameIn(s, it))

Dir(it) == DirIn(system, it)
Program(it, name) == ProgramIn(system, it, name)
Dst(it) == DstIn(system, it)

UidOf(it) == IF it.owner = None THEN Me ELSE Passwd[it.owner]
GidOf(it) == IF it.group = None THEN MyGroup ELSE Groups[it.group]
OwnerKnown(it) == /\ it.owner # None => it.owner \in DOMAIN Passwd
                  /\ it.group # None => it.group \in DOMAIN Groups

-----------------------------------------------------------------------------
(* The systems the programs are built for.  The table makes the directory of  *)
(* what it copies, copies nothing over what it makes otherwise, and gives one *)
(* owner, group and mode to a path it copies twice.  No name ends in ".tmp",  *)
(* neither in the table nor of what other programs write; what they write is  *)
(* not of this version, and no symlink where there are none.  ("part" and     *)
(* "new" stand for contents, so they are not names that a symlink holds.)     *)

Names == STRING \ {".tmp", "part", "new"}
Paths == Seq(Names) \ {<<>>}
InstallItem == [op : Copies \cup Links \cup {"INST_MKDIR"}, src : Names, dst : Names,
                dir : Paths, owner : STRING, group : STRING, perm : SUBSET Bit]
OthersEntry == [type : {"file", "directory", "symlink"}, data : Names, mode : SUBSET Bit,
                owner : STRING, group : STRING]

TableAssumption(s) ==
  /\ s.table \in Seq(InstallItem) /\ s.root \in Seq(Names) /\ s.win32 \in BOOLEAN
  /\ \A k \in DOMAIN s.table : LET it == s.table[k] IN it.op # "INST_MKDIR" =>
       NameIn(s, it) \in Names /\ ProgramIn(s, it, it.src) \in Names
  /\ \A j, k \in DOMAIN s.table : LET it == s.table[j] other == s.table[k] IN
       it.op \in Copies /\ DstIn(s, other) = DstIn(s, it) =>
         /\ other.op \in Copies
         /\ other.owner = it.owner /\ other.group = it.group /\ other.perm = it.perm
TreeAssumption(s) ==
  /\ \A p \in s.base : p \in Paths /\ Parent(p) \in s.base \cup {<<>>}
  /\ \A k \in DOMAIN s.table : s.table[k].op \in Copies =>
       \/ DirIn(s, s.table[k]) \in s.base
       \/ \E j \in DOMAIN s.table : s.table[j].op = "INST_MKDIR" /\ s.table[j].dir = s.table[k].dir
  /\ \A o \in s.others : o[1] \in Paths /\ o[2] \in OthersEntry
  /\ s.win32 => \A o \in s.others : o[2].type # "symlink"
ASSUME SystemsAssumption ==
  /\ \A s \in Systems : TableAssumption(s) /\ TreeAssumption(s)
  /\ MaxRuns \in Nat /\ MaxFaults \in Nat

-----------------------------------------------------------------------------
(* Ends of items, and of copies: on Win32 a link is a copy, after which        *)
(* inst_link has still to leave the directory.                                *)

Goto(l) == pc' = l /\ UNCHANGED <<done, errors, failed>>
EndItem(error) ==
  /\ pc' = "item"
  /\ done' = done + 1
  /\ errors' = (errors \/ error)
  /\ UNCHANGED failed
EndCopy(error) ==
  IF Item.op \in Links
  THEN pc' = "leave" /\ errors' = (errors \/ error) /\ UNCHANGED <<done, failed>>
  ELSE EndItem(error)
Nothing == UNCHANGED <<fs, cwd, saved, at>>

\* The ERR label of install_file_copy.
Err ==
  /\ fs' = Remove(fs, Tmp(Dst(Item)))
  /\ EndCopy(TRUE)
  /\ UNCHANGED <<cwd, saved, at>>

-----------------------------------------------------------------------------
(* The installer.  "f" says that the system call of the step fails.           *)

\* An item is taken up: names, owners, and the end of a dry run.
BeginItem ==
  /\ program = "installer" /\ pc = "item" /\ done < Len(Hierarchy)
  /\ Item.op \notin Links
  /\ Nothing
  /\ IF ~OwnerKnown(Item) THEN EndItem(TRUE)
     ELSE IF dry THEN EndItem(FALSE)
     ELSE Goto(IF Item.op = "INST_MKDIR" THEN "mkdir" ELSE "source")

\* One turn of the loop of install_rmkdir.  Its test for -1 never holds, since
\* iposix_mkdir returns 0 or 1: a directory that cannot be made is passed over.
MakeDir(f) ==
  LET p == SubSeq(Dir(Item), 1, at)
      made == Entry("directory", "dir", Item.perm \ Umask, Me, MyGroup)
  IN /\ pc = "mkdir"
     /\ fs' = IF ~f /\ ~Exists(p) /\ IsDir(Parent(p)) THEN Put(fs, p, made) ELSE fs
     /\ IF at = Len(Dir(Item)) THEN at' = 1 /\ Goto("own") ELSE at' = at + 1 /\ Goto("mkdir")
     /\ UNCHANGED <<cwd, saved>>

\* file_ownership_set: Win32 sets the owner only.
Owned(e, uid, gid) ==
  IF Win32 THEN [e EXCEPT !.owner = uid] ELSE [e EXCEPT !.owner = uid, !.group = gid]

\* The end of inst_mkdir: a directory of somebody else's.
MkdirOwn(f) ==
  LET p == Dir(Item)
      fails == UidOf(Item) # Me /\ (f \/ ~Superuser \/ ~Exists(p))
  IN /\ pc = "own"
     /\ f => UidOf(Item) # Me
     /\ fs' = IF UidOf(Item) = Me \/ fails THEN fs
              ELSE [fs EXCEPT ![p] = Owned(@, UidOf(Item), GidOf(Item))]
     /\ EndItem(fails)
     /\ UNCHANGED <<cwd, saved, at>>

\* install_file_copy: the source file, named relative to the working directory.
Source(it) == Followed(Append(cwd, Program(it, it.src)))
SourceExists(it) == cwd = Build \/ Exists(Source(it))
\* A directory can be opened, but not read.
Readable(it) == cwd = Build \/ ~IsDir(Source(it))
SourceData(it) == IF cwd = Build THEN "new" ELSE fs[Source(it)].data
\* The owner the copy is to have: that of the source, when the copy is a link.
CopyUid(it) == IF it.op \in Links THEN fs[Source(it)].owner ELSE UidOf(it)
CopyGid(it) == IF it.op \in Links THEN fs[Source(it)].group ELSE GidOf(it)

\* Mutation: the old file is taken away before the new one is written.
OpenSource_Unlink(f) ==
  /\ pc = "source"
  /\ IF f \/ ~SourceExists(Item) THEN fs' = fs /\ EndCopy(TRUE)
     ELSE fs' = Remove(fs, Dst(Item)) /\ Goto("open")
  /\ UNCHANGED <<cwd, saved, at>>
OpenSource(f) ==
  /\ pc = "source"
  /\ Nothing
  /\ IF f \/ ~SourceExists(Item) THEN EndCopy(TRUE) ELSE Goto("open")

\* fopen (dst_tmp, "wb"): a file an earlier run left there is written over, if it may be.
OpenTmp(f) ==
  LET t == Tmp(Dst(Item))
      opens == IF Exists(t) THEN Superuser \/ (fs[t].owner = Me /\ "w" \in fs[t].mode)
                            ELSE IsDir(Dir(Item))
      made == Entry("file", "part", {"w", "o", "g"} \ Umask, Me, MyGroup)
  IN /\ pc = "open"
     /\ IF f \/ ~opens THEN Err
        ELSE /\ fs' = IF Exists(t) THEN [fs EXCEPT ![t].data = "part"] ELSE Put(fs, t, made)
             /\ Goto("fill")
             /\ UNCHANGED <<cwd, saved, at>>

\* Mutation: a write error fflush finds is not looked at.
Fill_Unchecked(f) ==
  /\ pc = "fill"
  /\ fs' = IF f THEN fs ELSE [fs EXCEPT ![Tmp(Dst(Item))].data = SourceData(Item)]
  /\ Goto("chmod")
  /\ UNCHANGED <<cwd, saved, at>>
\* The copying loop and the fflush after it.
Fill(f) ==
  /\ pc = "fill"
  /\ IF f \/ ~Readable(Item) THEN Err
     ELSE /\ fs' = [fs EXCEPT ![Tmp(Dst(Item))].data = SourceData(Item)]
          /\ Goto("chmod")
          /\ UNCHANGED <<cwd, saved, at>>

\* Mutation: the mode fopen gave the file is kept.
Chmod_Skip(f) == pc = "chmod" /\ ~f /\ Nothing /\ Goto("chown")
Chmod(f) ==
  LET t == Tmp(Dst(Item))
  IN /\ pc = "chmod"
     /\ f => SupportsModes
     /\ IF SupportsModes /\ (f \/ ~(Superuser \/ fs[t].owner = Me)) THEN Err
        ELSE /\ fs' = IF SupportsModes THEN [fs EXCEPT ![t].mode = Item.perm] ELSE fs
             /\ Goto("chown")
             /\ UNCHANGED <<cwd, saved, at>>

\* The owner is set only when it is not the owner of the process.
Chown(f) ==
  LET t == Tmp(Dst(Item))
      want == CopyUid(Item) # Me
  IN /\ pc = "chown"
     /\ f => want
     /\ IF want /\ (f \/ ~Superuser) THEN Err
        ELSE /\ fs' = IF want THEN [fs EXCEPT ![t] = Owned(@, CopyUid(Item), CopyGid(Item))]
                              ELSE fs
             /\ Goto("rename")
             /\ UNCHANGED <<cwd, saved, at>>

\* rename takes the place of a file on POSIX, but not on Win32.
Occupied(p) == IF Win32 THEN Exists(p) ELSE IsDir(p)
\* Both fclose calls and rename.
Rename(f) ==
  LET t == Tmp(Dst(Item))
  IN /\ pc = "rename"
     /\ IF f \/ Occupied(Dst(Item)) THEN Err
        ELSE /\ fs' = Remove(Put(fs, Dst(Item), fs[t]), t)
             /\ EndCopy(FALSE)
             /\ UNCHANGED <<cwd, saved, at>>

\* inst_link: chdir (item->dir), file_link, chdir back.
EnterDir(f) ==
  /\ program = "installer" /\ pc = "item" /\ done < Len(Hierarchy)
  /\ Item.op \in Links
  /\ UNCHANGED <<fs, at>>
  /\ IF f \/ ~IsDir(Dir(Item))
     THEN EndItem(TRUE) /\ UNCHANGED <<cwd, saved>>
     ELSE /\ cwd' = Dir(Item) /\ saved' = cwd
          /\ Goto(IF dry THEN "leave" ELSE IF SupportsSymlinks THEN "link" ELSE "owner")

\* Mutation: a link that cannot be made is not reported.
MakeLink_Silent(f) ==
  LET made == Entry("symlink", Item.src, Bit, Me, MyGroup)
  IN /\ pc = "link"
     /\ fs' = IF f \/ Exists(Dst(Item)) THEN fs ELSE Put(fs, Dst(Item), made)
     /\ Goto("leave")
     /\ UNCHANGED <<cwd, saved, at>>
\* iposix_file_link: symlink.
MakeLink(f) ==
  LET made == Entry("symlink", Item.src, Bit, Me, MyGroup)
      fails == f \/ Exists(Dst(Item))
  IN /\ pc = "link"
     /\ fs' = IF fails THEN fs ELSE Put(fs, Dst(Item), made)
     /\ EndCopy(fails)
     /\ UNCHANGED <<cwd, saved, at>>

\* iwin32_file_link: who owns the file to link to; then it is copied.
CopyLink(f) ==
  /\ pc = "owner"
  /\ Nothing
  /\ IF f \/ ~SourceExists(Item) THEN EndCopy(TRUE) ELSE Goto("source")

\* Mutation: the working directory is not restored.
LeaveDir_Stay(f) == pc = "leave" /\ ~f /\ Nothing /\ EndItem(FALSE)
LeaveDir(f) ==
  /\ pc = "leave"
  /\ cwd' = IF f THEN cwd ELSE saved
  /\ EndItem(f)
  /\ UNCHANGED <<fs, saved, at>>

-----------------------------------------------------------------------------
(* The deinstaller walks the table backwards. *)

\* Mutations: a directory is removed whatever it holds, alone or with all that is in it.
Deinstall_Unlink(f) ==
  LET p == Dst(Item)
  IN /\ program = "deinstaller" /\ pc = "item" /\ done < Len(Hierarchy)
     /\ f => ~dry
     /\ fs' = IF ~dry /\ ~f THEN Remove(fs, p) ELSE fs
     /\ EndItem(~dry /\ (f \/ ~Exists(p)))
     /\ UNCHANGED <<cwd, saved, at>>
Deinstall_Recursive(f) ==
  LET p == Dst(Item)
  IN /\ program = "deinstaller" /\ pc = "item" /\ done < Len(Hierarchy)
     /\ f => ~dry
     /\ fs' = IF ~dry /\ ~f
              THEN Restrict(fs, {q \in DOMAIN fs : Len(q) < Len(p) \/ SubSeq(q, 1, Len(p)) # p})
              ELSE fs
     /\ EndItem(~dry /\ (f \/ ~Exists(p)))
     /\ UNCHANGED <<cwd, saved, at>>
Deinstall(f) ==
  LET p == Dst(Item)
      removable == IF Item.op = "INST_MKDIR" THEN Exists(p) /\ IsDir(p) /\ Empty(p)
                                             ELSE Exists(p) /\ ~IsDir(p)
  IN /\ program = "deinstaller" /\ pc = "item" /\ done < Len(Hierarchy)
     /\ f => ~dry
     /\ fs' = IF ~dry /\ ~f /\ removable THEN Remove(fs, p) ELSE fs
     /\ EndItem(~dry /\ (f \/ ~removable))
     /\ UNCHANGED <<cwd, saved, at>>

-----------------------------------------------------------------------------
(* instchk: install_file_check decides about each item. *)

Wanted(it) == CASE it.op \in Copies -> "file"
                [] it.op \in Links -> "symlink"
                [] OTHER -> "directory"
\* The type is compared only where links do not exist.
TypeApproved(it, type) == ~SupportsSymlinks /\ Wanted(it) # "symlink" => type = Wanted(it)
\* file_mode_get sees the bits of 0755 only.
ModeSeen(e) == e.mode \ {"g"}
OwnerApproved(it, e) == e.owner = UidOf(it) /\ e.group = GidOf(it)

Approved(it) ==
  LET p == Dst(it)
      q == Followed(p)
  IN /\ Exists(IF it.op \in Links THEN p ELSE q)
     /\ TypeApproved(it, fs[IF it.op \in Links THEN p ELSE q].type)
     /\ Exists(q)
     /\ it.op \in Copies => SizeOf[fs[q].data] = SizeOf["new"]
     /\ SupportsModes => ModeSeen(fs[q]) = it.perm
     /\ OwnerApproved(it, fs[q])

\* An item whose owner is not known is an error, but is not counted as failed.
CheckItem(f) ==
  /\ program = "instchk" /\ pc = "item" /\ done < Len(Hierarchy)
  /\ f => OwnerKnown(Item)
  /\ Nothing
  /\ pc' = "item"
  /\ done' = done + 1
  /\ LET bad == f \/ ~Approved(Item)
     IN IF ~OwnerKnown(Item) THEN errors' = TRUE /\ UNCHANGED failed
        ELSE errors' = (errors \/ bad) /\ failed' = failed + IF bad THEN 1 ELSE 0

-----------------------------------------------------------------------------
(* Runs. *)

\* iwin32_init needs the Administrator.
PlatformInit == Win32 => "Administrator" \in DOMAIN Passwd

\* install_init; a fake root that is missing ends the run at once.
Start(p, d) ==
  /\ pc = "idle" /\ runs < MaxRuns
  /\ program' = p /\ dry' = d
  /\ cwd' = Build /\ saved' = Build
  /\ at' = 1 /\ done' = 0 /\ errors' = FALSE /\ failed' = 0
  /\ runs' = runs + 1
  /\ calm' = TRUE /\ before' = fs
  /\ quiet' = IF p = "deinstaller" THEN 0 ELSE quiet
  /\ IF IsDir(FakeRoot) /\ PlatformInit THEN pc' = "item" /\ exit' = "none"
                        ELSE pc' = "idle" /\ exit' = "1"
  /\ UNCHANGED <<system, fs, faults>>

\* The end of main.
Finish ==
  /\ pc = "item" /\ done = Len(Hierarchy)
  /\ pc' = "idle"
  /\ exit' = IF program = "instchk" /\ failed # 0 THEN "1" ELSE "0"
  /\ quiet' = IF program = "installer" /\ ~dry /\ calm /\ quiet < 2 THEN quiet + 1 ELSE quiet
  /\ UNCHANGED <<system, fs, cwd, saved, program, dry, at, done, errors, failed, runs, faults, calm, before>>

Fails == faults < MaxFaults /\ faults' = faults + 1 /\ calm' = FALSE /\ quiet' = 0
Succeeds == UNCHANGED <<faults, calm, quiet>>

\* One system call of the program, which fails or not.
Call(f) ==
  \/ MakeDir(f) \/ MkdirOwn(f)
  \/ OpenSource(f) \/ OpenTmp(f) \/ Fill(f) \/ Chmod(f) \/ Chown(f) \/ Rename(f)
  \/ EnterDir(f) \/ MakeLink(f) \/ CopyLink(f) \/ LeaveDir(f)
  \/ Deinstall(f) \/ CheckItem(f)
Step ==
  /\ \/ Succeeds /\ (BeginItem \/ Call(FALSE))
     \/ Fails /\ Call(TRUE)
  /\ UNCHANGED <<system, program, dry, exit, runs, before>>

\* The program is killed, or dies: after a rename that failed install_file_copy
\* closes both files a second time, which is undefined.
Dies ==
  /\ pc' = "idle" /\ exit' = "died"
  /\ calm' = FALSE /\ quiet' = 0
  /\ UNCHANGED <<system, fs, cwd, saved, program, dry, at, done, errors, failed, runs, before>>
Kill == pc # "idle" /\ faults < MaxFaults /\ faults' = faults + 1 /\ Dies
DoubleClose == pc = "rename" /\ Occupied(Dst(Item)) /\ UNCHANGED faults /\ Dies

\* Other programs, between two runs.
Other ==
  /\ pc = "idle" /\ runs < MaxRuns
  /\ \E o \in system.others :
       /\ IsDir(Parent(o[1]))
       /\ IsDir(o[1]) => Empty(o[1])
       /\ ~(Exists(o[1]) /\ fs[o[1]] = o[2])
       /\ fs' = Put(fs, o[1], o[2])
  /\ calm' = FALSE /\ quiet' = 0
  /\ UNCHANGED <<system, cwd, saved, program, dry, pc, at, done, errors, failed, exit,
                 runs, faults, before>>

Ended == pc = "idle" /\ runs = MaxRuns /\ UNCHANGED vars

Next ==
  \/ \E p \in {"installer", "deinstaller"}, d \in BOOLEAN : Start(p, d)
  \/ Start("instchk", FALSE)
  \/ Step \/ Finish \/ Kill \/ DoubleClose \/ Other \/ Ended

-----------------------------------------------------------------------------
(* The tree before the first run: the directories of the system, and in them *)
(* nothing, or the files of an earlier version.                              *)

Prefixes(p) == {SubSeq(p, 1, n) : n \in 1 .. Len(p)}
Bare == [p \in system.base |-> Entry("directory", "dir", {"w", "x", "o"}, Me, MyGroup)]
Earlier ==
  LET dirs == UNION {Prefixes(Dir(Hierarchy[k])) : k \in ItemsOf({"INST_MKDIR"})}
      known == {k \in ItemsOf(Copies) : OwnerKnown(Hierarchy[k])}
      item(p) == Hierarchy[CHOOSE k \in known : Dst(Hierarchy[k]) = p]
  IN [p \in system.base \cup dirs \cup {Dst(Hierarchy[k]) : k \in known} |->
        IF p \in system.base \cup dirs THEN Entry("directory", "dir", {"w", "x", "o"}, Me, MyGroup)
        ELSE Entry("file", "old", item(p).perm, UidOf(item(p)), GidOf(item(p)))]

Init ==
  /\ system \in Systems
  /\ fs \in {Bare, Earlier}
  /\ cwd = Build /\ saved = Build
  /\ program = "installer" /\ dry = FALSE /\ pc = "idle" /\ at = 1
  /\ done = 0 /\ errors = FALSE /\ failed = 0 /\ exit = "none"
  /\ runs = 0 /\ faults = 0
  /\ calm = TRUE /\ quiet = 0 /\ before = fs

Spec == Init /\ [][Next]_vars

-----------------------------------------------------------------------------
(* Properties. *)

TypeOK ==
  /\ system \in Systems
  /\ \A p \in DOMAIN fs :
       /\ p # <<>>
       /\ fs[p].type \in {"file", "directory", "symlink"}
       /\ fs[p].mode \in SUBSET Bit
       /\ Parent(p) = <<>> \/ (Exists(Parent(p)) /\ fs[Parent(p)].type = "directory")
  /\ program \in {"installer", "deinstaller", "instchk"}
  /\ pc \in {"idle", "item", "mkdir", "own", "source", "open", "fill", "chmod", "chown",
             "rename", "link", "owner", "leave"}
  /\ done \in 0 .. Len(Hierarchy) /\ failed \in 0 .. Len(Hierarchy)
  /\ {dry, errors, calm} \subseteq BOOLEAN
  /\ exit \in {"none", "0", "1", "died"}
  /\ runs \in 0 .. MaxRuns /\ faults \in 0 .. MaxFaults /\ quiet \in 0 .. 2

\* The items that install_file_copy writes.
CopyItems == {Hierarchy[k] : k \in ItemsOf(IF Win32 THEN Copies \cup Links ELSE Copies)}

\* A file under its final name is whole, and if it is of this version it has
\* its final mode and owner, after any failures and kills: install_file_copy
\* finishes the temporary file before it renames it.
DestinationWhole ==
  \A it \in CopyItems : Exists(Dst(it)) /\ fs[Dst(it)].type = "file" =>
    LET e == fs[Dst(it)]
    IN /\ e.data # "part"
       /\ e.data = "new" /\ it.op \in Copies =>
            e.owner = UidOf(it) /\ (SupportsModes => e.mode = it.perm)

Installed(it) == Exists(Dst(it)) /\
  CASE it.op \in Copies -> fs[Dst(it)].type = "file" /\ fs[Dst(it)].data = "new"
    [] it.op \in Links ->
         IF Win32 THEN fs[Dst(it)].type = "file"
         ELSE fs[Dst(it)].type = "symlink" /\ fs[Dst(it)].data = it.src
    [] OTHER -> fs[Dst(it)].type = "directory"

\* What an installer that has reported no error so far has handled is in
\* place; nothing it did later took an earlier item away again.
ErrorFreeInstalls ==
  program = "installer" /\ ~dry /\ ~errors /\ pc # "idle" =>
    \A k \in 1 .. done : Hierarchy[k].op # "INST_MKDIR" => Installed(Hierarchy[k])

\* However the runs before ended, one complete installation in which no system
\* call fails installs everything, and leaves no temporary file of its own or
\* of a killed installer.  It takes two if the user is not the superuser and
\* files have modes: a temporary file left read-only cannot be opened for
\* writing the first time, which removes it.  Left out is only what is hindered,
\* and that does not keep the others from being installed.
\* That is so if the table, as insthier.c does, makes its directories first, and
\* on Win32 copies a file before it links to it.  (Files are not made read-only
\* by an umask there.)
InOrder(s) ==
  /\ \A j, k \in DOMAIN s.table :
       s.table[j].op # "INST_MKDIR" /\ s.table[k].op = "INST_MKDIR" => k < j
  /\ s.win32 => \A j, k \in DOMAIN s.table : LET it == s.table[k] IN
       /\ it.op \in Links /\ s.table[j].op # "INST_MKDIR"
       /\ DstIn(s, s.table[j]) = Append(DirIn(s, it), it.src)
       => j < k
  /\ s.win32 => "w" \notin s.umask
RunsNeeded == IF Superuser \/ Win32 THEN 1 ELSE 2
MayOwn(it) == OwnerKnown(it) /\ (Superuser \/ UidOf(it) = Me)
\* The file a link on Win32 is a copy of.
From(it) == Append(Dir(it), it.src)
Copyable(p) == Exists(p) /\ fs[p].type = "file" /\ (Superuser \/ fs[p].owner = Me)
\* A directory with something else in its place, or in that of one above it,
\* and one that nobody is to make.
Blocked(p) == \E q \in Prefixes(p) : Exists(q) /\ ~IsDir(q)
Unmade(p) ==
  /\ ~IsDir(p)
  /\ \A k \in ItemsOf({"INST_MKDIR"}) : Dir(Hierarchy[k]) = p => ~OwnerKnown(Hierarchy[k])
\* A link whose path nobody else uses.
Alone(it) ==
  LET p == Dst(it)
  IN /\ p \notin system.base /\ \A o \in system.others : o[1] # p
     /\ \A k \in ItemsOf({"INST_MKDIR"}) : p \notin Prefixes(Dir(Hierarchy[k]))
     /\ \A k \in ItemsOf(Links) : Dst(Hierarchy[k]) = p => Hierarchy[k].src = it.src
\* It belongs to somebody unknown or else, its directory cannot be made, or there
\* is something in its way; or it is a link on Win32 to what is not there, or
\* belongs to somebody else.
Hindered(it) ==
  IF it.op = "INST_MKDIR" THEN ~OwnerKnown(it) \/ Blocked(Dir(it))
  ELSE \/ Blocked(Dir(it)) \/ Unmade(Dir(it))
       \/ it \in CopyItems /\ Occupied(Dst(it))
       \/ it.op \in Copies /\ ~MayOwn(it)
       \/ it.op \in Links /\ IF Win32 THEN ~Copyable(From(it)) ELSE Exists(Dst(it)) /\ ~Alone(it)
RetryInstalls ==
  /\ quiet > 0 /\ pc = "idle" => \A it \in CopyItems :
       Exists(Tmp(Dst(it))) => it.op \in Links /\ ~Exists(From(it))
  /\ quiet >= RunsNeeded => \A k \in DOMAIN Hierarchy : Installed(Hierarchy[k]) \/ Hindered(Hierarchy[k])

\* instchk finds nothing to complain of in what is installed after a complete
\* installation in which no system call failed, except for what belongs to
\* somebody else or to a group that was not set (it is set only together with an
\* owner, and never on Win32); for modes outside of 0755; for directories that
\* others make too, or whose mode the umask has cut; and for links to what is not
\* installed as the links are to be, on Win32 for all of them, which belong to
\* whoever owns what they were copied from.
Grouped(it) == GidOf(it) = MyGroup \/ (~Win32 /\ UidOf(it) # Me)
Sole(it) ==
  /\ \A o \in system.others : o[1] # Dir(it)
  /\ \A k \in ItemsOf({"INST_MKDIR"}) : LET other == Hierarchy[k] IN
       /\ Dir(it) \in Prefixes(Dir(other)) => other.perm = it.perm
       /\ Dir(it) = Dir(other) => other.owner = it.owner /\ other.group = it.group
Backed(it) == \E k \in ItemsOf(Copies) : LET other == Hierarchy[k] IN
  /\ Dst(other) = From(it) /\ Installed(other)
  /\ other.owner = it.owner /\ other.group = it.group /\ other.perm = it.perm
Checkable(it) ==
  /\ MayOwn(it) /\ Grouped(it)
  /\ SupportsModes => "g" \notin it.perm
  /\ it.op = "INST_MKDIR" =>
       Sole(it) /\ (SupportsModes => it.perm = {"w", "x", "o"} /\ it.perm \cap Umask = {})
  /\ it.op \in Links => ~Win32 /\ Backed(it)
Exempt == {k \in DOMAIN Hierarchy : ~(Installed(Hierarchy[k]) /\ Checkable(Hierarchy[k]))}
RetryApproved ==
  quiet > 0 /\ program = "instchk" /\ calm => failed <= Cardinality(Exempt)

\* A deinstaller in which no system call fails takes a complete installation
\* away, directories included, if they hold nothing else.
Ours == {Dst(Hierarchy[k]) : k \in DOMAIN Hierarchy}
Complete(f) == \A k \in DOMAIN Hierarchy :
  LET it == Hierarchy[k]
  IN Dst(it) \in DOMAIN f /\ (it.op = "INST_MKDIR" <=> f[Dst(it)].type = "directory")
OnlyOurs(f) == \A p \in DOMAIN f : Parent(p) \in Ours => p \in Ours
DeinstallUndoes ==
  /\ program = "deinstaller" /\ exit = "0" /\ calm /\ ~dry
  /\ Complete(before) /\ OnlyOurs(before)
  => Ours \cap DOMAIN fs = {}

\* A file that is installed over is there at every moment of the installation.
NeverMissing ==
  [][program = "installer" => \A it \in CopyItems : Exists(Dst(it)) => Exists(Dst(it))']_vars

\* The programs leave everything else alone: what is in a directory of the
\* product but not in the table stays, and so does the directory then.
OthersKept ==
  [][pc # "idle" => \A p \in DOMAIN fs :
       \/ p \in DOMAIN fs' /\ fs'[p] = fs[p]
       \/ p \in Ours \cup {Tmp(q) : q \in Ours}]_vars

-----------------------------------------------------------------------------
(* What the sources say and the code does not do. *)

\* install-core.c:776, "Create directory if not performing dry run": a
\* directory inst_mkdir reports no error for is there.
CreatedMeansThere ==
  program = "installer" /\ ~dry /\ ~errors /\ pc # "idle" =>
    \A k \in 1 .. done : Hierarchy[k].op = "INST_MKDIR" => Installed(Hierarchy[k])

=============================================================================
