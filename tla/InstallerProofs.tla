--------------------------- MODULE InstallerProofs ---------------------------
(***************************************************************************)
(* Proofs about Installer, for every system that satisfies its assumption, *)
(* any number of runs, of kills and of system calls that fail.             *)
(***************************************************************************)
EXTENDS Installer, SequenceTheorems, FiniteSetTheorems, TLAPS

-----------------------------------------------------------------------------
(* The inductive invariant.                                                 *)

\* A tree of well-formed entries, in which what is not yet whole, and it
\* alone, has the name of a temporary file.
Element == Names \cup {".tmp"}    \* of a path
Fields == {"type", "data", "mode", "owner", "group"}
EntryOK(e) ==
  /\ DOMAIN e = Fields
  /\ e.type \in {"file", "directory", "symlink"}
  /\ e.mode \in SUBSET Bit
Rooted(f, p) == Parent(p) = <<>> \/ (Parent(p) \in DOMAIN f /\ f[Parent(p)].type = "directory")
EndsTmp(p) == p[Len(p)] = ".tmp"
NodeOK(f, p) ==
  /\ p \in Seq(Element) \ {<<>>}
  /\ EntryOK(f[p])
  /\ EndsTmp(p) => f[p].type = "file"
  /\ f[p].data = "part" => EndsTmp(p)
  /\ f[p].type = "symlink" => f[p].data \in Names
TreeOK(f) == \A p \in DOMAIN f : NodeOK(f, p) /\ Rooted(f, p)

\* What install_file_copy promises of a file of this version, and of whom the
\* temporary files are before it has set the owner.
Right(it, e) == e.owner = UidOf(it) /\ (SupportsModes => e.mode = it.perm)
NewRight(f) ==
  \A k \in ItemsOf(Copies) : LET p == Dst(Hierarchy[k]) IN
    p \in DOMAIN f /\ f[p].type = "file" /\ f[p].data = "new" => Right(Hierarchy[k], f[p])
TmpOwned(f) ==
  \A k \in ItemsOf(Copies) : LET t == Tmp(Dst(Hierarchy[k])) IN
    t \in DOMAIN f => f[t].owner \in {Me, UidOf(Hierarchy[k])}

\* Where the program is agrees with the item it works on.
Copying == {"source", "open", "fill", "chmod", "chown", "rename"}
PlaceInv ==
  /\ pc \notin {"idle", "item"} => program = "installer" /\ done < Len(Hierarchy)
  /\ pc \in {"mkdir", "own"} => Item.op = "INST_MKDIR"
  /\ pc \in Copying => Item.op # "INST_MKDIR"
  /\ pc \in Copying \cup {"owner"} /\ Item.op \in Links => Win32 /\ cwd # Build
  /\ pc \in {"link", "owner", "leave"} => Item.op \in Links
  /\ pc = "link" => ~Win32 /\ IsDir(Dir(Item))
  /\ pc = "mkdir" => at \in 1 .. Len(Dir(Item))
  /\ pc \notin {"idle", "mkdir"} => at = 1
  /\ cwd \in Seq(Names) /\ saved \in Seq(Names)
  /\ failed <= done

\* How far the temporary file has come.
TmpInv ==
  LET t == Tmp(Dst(Item))
  IN /\ pc \in {"fill", "chmod", "chown", "rename"} => Exists(t)
     /\ pc \in {"chmod", "chown", "rename"} => fs[t].data # "part"
     /\ pc \in {"chown", "rename"} /\ SupportsModes => fs[t].mode = Item.perm
     /\ pc = "rename" /\ Item.op \in Copies => fs[t].owner = UidOf(Item)
     /\ pc \in {"open", "fill"} /\ cwd # Build => Exists(Source(Item))

\* TypeOK, without the file system.
Counters ==
  /\ system \in Systems
  /\ program \in {"installer", "deinstaller", "instchk"}
  /\ pc \in {"idle", "item", "mkdir", "own", "source", "open", "fill", "chmod", "chown",
             "rename", "link", "owner", "leave"}
  /\ done \in 0 .. Len(Hierarchy) /\ failed \in 0 .. Len(Hierarchy)
  /\ {dry, errors, calm} \subseteq BOOLEAN
  /\ exit \in {"none", "0", "1", "died"}
  /\ runs \in 0 .. MaxRuns /\ faults \in 0 .. MaxFaults /\ quiet \in 0 .. 2

FsInv == TreeOK(fs) /\ NewRight(fs) /\ TmpOwned(fs)

InstInv == Counters /\ FsInv /\ PlaceInv /\ TmpInv

-----------------------------------------------------------------------------
(* Paths.                                                                   *)

\* What Append does, and that its last element is the one appended.
LEMMA AppendFacts ==
  ASSUME NEW S, NEW p \in Seq(S), NEW n \in S
  PROVE  /\ Append(p, n) \in Seq(S) \ {<<>>}
         /\ Len(Append(p, n)) = Len(p) + 1
         /\ Append(p, n)[Len(Append(p, n))] = n
         /\ SubSeq(Append(p, n), 1, Len(p)) = p
<1>1. Len(p) \in Nat /\ Append(p, n) \in Seq(S) /\ Len(Append(p, n)) = Len(p) + 1
      /\ Append(p, n)[Len(p) + 1] = n
  OBVIOUS
<1>2. Append(p, n) # <<>>
  BY <1>1
<1>3. SubSeq(Append(p, n), 1, Len(p)) = p
  <2>1. SubSeq(Append(p, n), 1, Len(p)) \in Seq(S) /\ Len(SubSeq(Append(p, n), 1, Len(p))) = Len(p)
    BY <1>1, SubSeqProperties
  <2>2. \A i \in 1 .. Len(p) : SubSeq(Append(p, n), 1, Len(p))[i] = p[i]
    BY <1>1, SubSeqProperties
  <2> QED
    BY <2>1, <2>2, SeqEqual
<1> QED
  BY <1>1, <1>2, <1>3

\* The parent of a name in a directory, and of its temporary file, is the
\* directory.
LEMMA ParentFacts ==
  ASSUME NEW d \in Seq(Element), NEW n \in Names
  PROVE  /\ Parent(Append(d, n)) = d
         /\ Parent(Tmp(Append(d, n))) = d
         /\ ~EndsTmp(Append(d, n))
<1> DEFINE p == Append(d, n)
<1>1. n \in Element /\ n # ".tmp" /\ ".tmp" \in Element
  BY DEF Names, Element
<1>2. /\ p \in Seq(Element) /\ Len(p) = Len(d) + 1 /\ p[Len(p)] = n
      /\ SubSeq(p, 1, Len(d)) = d
  BY <1>1, AppendFacts
<1>3. Parent(p) = d
  <2>1. Len(d) \in Nat /\ Len(p) - 1 = Len(d)
    BY <1>2
  <2> QED
    BY <1>1, <1>2, <2>1 DEF Parent
<1>4. Parent(Tmp(p)) = d
  <2> DEFINE t == Append(p, ".tmp")
  <2> HIDE DEF p
  <2>1. /\ t \in Seq(Element) /\ Len(t) = Len(p) + 1 /\ t[Len(t)] = ".tmp"
        /\ SubSeq(t, 1, Len(p)) = p
    BY <1>1, <1>2, AppendFacts
  <2>2. Len(d) \in Nat /\ Len(t) - 2 = Len(d)
    BY <1>2, <2>1
  <2>3. SubSeq(t, 1, Len(d)) = SubSeq(p, 1, Len(d))
    <3>1. SubSeq(t, 1, Len(d)) \in Seq(Element) /\ Len(SubSeq(t, 1, Len(d))) = Len(d)
      BY <1>2, <2>1, <2>2, SubSeqProperties
    <3>2. SubSeq(p, 1, Len(d)) \in Seq(Element) /\ Len(SubSeq(p, 1, Len(d))) = Len(d)
      BY <1>2
    <3>3. \A i \in 1 .. Len(d) : SubSeq(t, 1, Len(d))[i] = SubSeq(p, 1, Len(d))[i]
      <4> SUFFICES ASSUME NEW i \in 1 .. Len(d)
                   PROVE  SubSeq(t, 1, Len(d))[i] = SubSeq(p, 1, Len(d))[i]
        OBVIOUS
      <4>1. SubSeq(t, 1, Len(d))[i] = t[i] /\ SubSeq(p, 1, Len(d))[i] = p[i]
        BY <1>2, <2>1, <2>2
      <4>2. t[i] = p[i]
        BY <1>1, <1>2, <2>2
      <4> QED
        BY <4>1, <4>2
    <3> QED
      BY <3>1, <3>2, <3>3, SeqEqual
  <2> QED
    BY <1>2, <2>1, <2>2, <2>3 DEF Parent, Tmp
<1> QED
  BY <1>1, <1>2, <1>3, <1>4 DEF EndsTmp

\* The temporary files of two paths differ, and are no paths of the table.
LEMMA TmpFacts ==
  ASSUME NEW p \in Seq(Element)
  PROVE  /\ Tmp(p) \in Seq(Element) \ {<<>>}
         /\ EndsTmp(Tmp(p))
         /\ \A q \in Seq(Element) : Tmp(q) = Tmp(p) => q = p
<1>1. ".tmp" \in Element
  BY DEF Element
<1>2. \A q \in Seq(Element) : /\ Tmp(q) \in Seq(Element) \ {<<>>} /\ Len(Tmp(q)) = Len(q) + 1
                            /\ Tmp(q)[Len(Tmp(q))] = ".tmp" /\ SubSeq(Tmp(q), 1, Len(q)) = q
                            /\ Len(q) \in Nat
  BY <1>1, AppendFacts DEF Tmp
<1>3. \A q \in Seq(Element) : Tmp(q) = Tmp(p) => q = p
  <2> SUFFICES ASSUME NEW q \in Seq(Element), Tmp(q) = Tmp(p)
               PROVE  q = p
    OBVIOUS
  <2>1. Len(q) = Len(p)
    BY <1>2
  <2> QED
    BY <1>2, <2>1
<1> QED
  BY <1>2, <1>3 DEF EndsTmp

-----------------------------------------------------------------------------
(* Trees.                                                                   *)

\* An entry may be put where nothing is, or in the place of one without
\* children, or of a directory if it is one.
LEMMA PutTree ==
  ASSUME NEW f, NEW p, NEW e, TreeOK(f),
         p \in Seq(Element) \ {<<>>}, EntryOK(e), Rooted(f, p),
         EndsTmp(p) => e.type = "file",
         e.data = "part" => EndsTmp(p),
         e.type = "symlink" => e.data \in Names,
         e.type = "directory" \/ \A q \in DOMAIN f : Parent(q) # p
  PROVE  TreeOK(Put(f, p, e))
<1> DEFINE g == Put(f, p, e)
<1>1. DOMAIN g = DOMAIN f \cup {p} /\ g[p] = e /\ \A q \in DOMAIN f \ {p} : g[q] = f[q]
  BY DEF Put
<1> HIDE DEF g
<1> SUFFICES ASSUME NEW q \in DOMAIN g
             PROVE  NodeOK(g, q) /\ Rooted(g, q)
  BY DEF TreeOK, g
<1>2. NodeOK(g, q)
  <2>1. CASE q = p
    BY <2>1, <1>1 DEF NodeOK
  <2>2. CASE q # p
    BY <2>2, <1>1 DEF NodeOK, TreeOK
  <2> QED
    BY <2>1, <2>2
<1>3. Rooted(f, q)
  BY <1>1 DEF TreeOK
<1>4. Rooted(g, q)
  <2>1. CASE Parent(q) = p
    <3>1. CASE q \in DOMAIN f
      BY <2>1, <3>1, <1>1 DEF Rooted
    <3>2. CASE q \notin DOMAIN f
      BY <2>1, <3>2, <1>1, <1>3 DEF Rooted
    <3> QED
      BY <3>1, <3>2
  <2>2. CASE Parent(q) # p
    BY <2>2, <1>1, <1>3 DEF Rooted
  <2> QED
    BY <2>1, <2>2
<1> QED
  BY <1>2, <1>4

\* An entry without children may go.
LEMMA RemoveTree ==
  ASSUME NEW f, NEW p, TreeOK(f), \A q \in DOMAIN f : Parent(q) # p
  PROVE  TreeOK(Remove(f, p))
<1> DEFINE g == Remove(f, p)
<1>1. DOMAIN g = DOMAIN f \ {p} /\ \A q \in DOMAIN g : g[q] = f[q]
  BY DEF Remove, Restrict
<1> HIDE DEF g
<1> SUFFICES ASSUME NEW q \in DOMAIN g
             PROVE  NodeOK(g, q) /\ Rooted(g, q)
  BY DEF TreeOK, g
<1>2. NodeOK(g, q)
  BY <1>1 DEF NodeOK, TreeOK
<1>3. Rooted(g, q)
  BY <1>1 DEF Rooted, TreeOK
<1> QED
  BY <1>2, <1>3

\* An entry may be changed, except for its type.
LEMMA ChangeTree ==
  ASSUME NEW f, NEW p \in DOMAIN f, NEW e, TreeOK(f),
         EntryOK(e), e.type = f[p].type,
         e.data = f[p].data \/ (EndsTmp(p) /\ e.type # "symlink")
  PROVE  TreeOK([f EXCEPT ![p] = e])
<1> DEFINE g == [f EXCEPT ![p] = e]
<1>1. DOMAIN g = DOMAIN f /\ g[p] = e /\ \A q \in DOMAIN f \ {p} : g[q] = f[q]
  OBVIOUS
<1> HIDE DEF g
<1> SUFFICES ASSUME NEW q \in DOMAIN g
             PROVE  NodeOK(g, q) /\ Rooted(g, q)
  BY DEF TreeOK, g
<1>2. NodeOK(g, q)
  <2>1. CASE q = p
    BY <2>1, <1>1 DEF NodeOK, TreeOK
  <2>2. CASE q # p
    BY <2>2, <1>1 DEF NodeOK, TreeOK
  <2> QED
    BY <2>1, <2>2
<1>3. Rooted(g, q)
  BY <1>1 DEF Rooted, TreeOK
<1> QED
  BY <1>2, <1>3

\* What is not a directory has no children.
LEMMA NoChildren ==
  ASSUME NEW f, NEW p, TreeOK(f), p # <<>>, p \in DOMAIN f => f[p].type # "directory"
  PROVE  \A q \in DOMAIN f : Parent(q) # p
BY DEF TreeOK, Rooted

-----------------------------------------------------------------------------
(* The items of the table.                                                  *)

\* What the assumptions say of an item and of its paths.
LEMMA ItemFacts ==
  ASSUME system \in Systems, NEW k \in DOMAIN Hierarchy
  PROVE  LET it == Hierarchy[k]
         IN /\ it.op \in Copies \cup Links \cup {"INST_MKDIR"}
            /\ it.src \in Names /\ it.perm \in SUBSET Bit
            /\ Dir(it) \in Seq(Names) \ {<<>>}
            /\ Dir(it) \in Seq(Element)
            /\ Dst(it) \in Seq(Element) \ {<<>>} /\ ~EndsTmp(Dst(it))
            /\ it.op = "INST_MKDIR" => Dst(it) = Dir(it)
            /\ it.op # "INST_MKDIR" => /\ Program(it, it.src) \in Names
                                       /\ Parent(Dst(it)) = Dir(it)
                                       /\ Parent(Tmp(Dst(it))) = Dir(it)
<1> DEFINE it == Hierarchy[k]
<1> USE DEF Hierarchy
<1>1. TableAssumption(system)
  BY SystemsAssumption
<1>2. it \in InstallItem
  BY <1>1 DEF TableAssumption
<1>3. /\ it.op \in Copies \cup Links \cup {"INST_MKDIR"}
      /\ it.src \in Names /\ it.perm \in SUBSET Bit
      /\ it.dir \in Seq(Names) /\ it.dir # <<>>
  BY <1>2 DEF InstallItem, Paths
<1>4. it.op # "INST_MKDIR" => NameIn(system, it) \in Names /\ Program(it, it.src) \in Names
  BY <1>1 DEF TableAssumption, Program
<1>5. Dir(it) \in Seq(Names) /\ Dir(it) # <<>>
  <2>1. system.root \in Seq(Names)
    BY <1>1 DEF TableAssumption
  <2> HIDE DEF it
  <2>2. /\ system.root \o it.dir \in Seq(Names)
        /\ Len(system.root \o it.dir) = Len(system.root) + Len(it.dir)
        /\ Len(it.dir) \in Nat /\ Len(system.root) \in Nat
    BY <2>1, <1>3, ConcatProperties
  <2>3. Len(it.dir) # 0
    BY <1>3, EmptySeq
  <2>4. Len(system.root \o it.dir) # 0
    <3>1. \A a, b \in Nat : b # 0 => a + b # 0
      OBVIOUS
    <3> QED
      BY <2>2, <2>3, <3>1, Zenon
  <2> QED
    BY <2>2, <2>4, EmptySeq DEF Dir, DirIn
<1> HIDE DEF it
<1>6. Dir(it) \in Seq(Element)
  BY <1>5 DEF Element
<1>7. CASE it.op = "INST_MKDIR"
  <2>1. Dst(it) = Dir(it)
    BY <1>7 DEF Dst, DstIn, Dir
  <2>2. Len(Dir(it)) \in 1 .. Len(Dir(it))
    <3>1. Len(Dir(it)) \in Nat
      BY <1>5
    <3>2. Len(Dir(it)) # 0
      BY <1>5, EmptySeq
    <3> QED
      BY <3>1, <3>2
  <2>3. Dir(it)[Len(Dir(it))] \in Names
    BY <1>5, <2>2
  <2>4. ~EndsTmp(Dir(it))
    BY <2>3 DEF EndsTmp, Names
  <2> QED
    BY <1>3, <1>5, <1>6, <1>7, <2>1, <2>4 DEF it
<1>8. CASE it.op # "INST_MKDIR"
  <2>1. Dst(it) = Append(Dir(it), NameIn(system, it))
    BY <1>8 DEF Dst, DstIn, Dir
  <2>2. NameIn(system, it) \in Names /\ NameIn(system, it) \in Element
    BY <1>4, <1>8 DEF Element
  <2>3. Dst(it) \in Seq(Element) \ {<<>>}
    BY <2>1, <2>2, <1>6, AppendFacts
  <2>4. Parent(Dst(it)) = Dir(it) /\ Parent(Tmp(Dst(it))) = Dir(it) /\ ~EndsTmp(Dst(it))
    BY <2>1, <2>2, <1>6, ParentFacts
  <2> QED
    BY <1>3, <1>4, <1>5, <1>6, <1>8, <2>3, <2>4 DEF it
<1> QED
  BY <1>7, <1>8

\* What the table copies to one path has one owner and one mode.
LEMMA Agree ==
  ASSUME system \in Systems, NEW k \in ItemsOf(Copies), NEW j \in DOMAIN Hierarchy,
         Dst(Hierarchy[j]) = Dst(Hierarchy[k])
  PROVE  /\ Hierarchy[j].op \in Copies
         /\ UidOf(Hierarchy[j]) = UidOf(Hierarchy[k])
         /\ Hierarchy[j].perm = Hierarchy[k].perm
<1>1. TableAssumption(system)
  BY SystemsAssumption
<1>2. /\ Hierarchy[j].op \in Copies /\ Hierarchy[j].owner = Hierarchy[k].owner
      /\ Hierarchy[j].perm = Hierarchy[k].perm
  BY <1>1 DEF TableAssumption, Hierarchy, ItemsOf, Dst
<1> QED
  BY <1>2 DEF UidOf

\* The item in hand is one of the table.
LEMMA ItemInTable ==
  ASSUME Counters, done < Len(Hierarchy)
  PROVE  \E k \in DOMAIN Hierarchy : Item = Hierarchy[k]
<1>1. Hierarchy \in Seq(InstallItem)
  BY SystemsAssumption DEF Counters, TableAssumption, Hierarchy
<1>2. Len(Hierarchy) \in Nat /\ done \in Nat /\ DOMAIN Hierarchy = 1 .. Len(Hierarchy)
  BY <1>1 DEF Counters
<1>3. done + 1 \in DOMAIN Hierarchy /\ Len(Hierarchy) - done \in DOMAIN Hierarchy
  BY <1>2
<1> QED
  BY <1>3 DEF Item

-----------------------------------------------------------------------------
(* Steps that change one entry of the tree.                                 *)

OnlyAt(f, g, p) ==
  \A q : q # p => /\ q \in DOMAIN g <=> q \in DOMAIN f
                  /\ q \in DOMAIN f => g[q] = f[q]

LEMMA PutAt ==
  ASSUME NEW f, NEW p, NEW e
  PROVE  /\ OnlyAt(f, Put(f, p, e), p) /\ Put(f, p, e)[p] = e
         /\ DOMAIN Put(f, p, e) = DOMAIN f \cup {p}
BY DEF OnlyAt, Put

LEMMA RemoveAt ==
  ASSUME NEW f, NEW p
  PROVE  OnlyAt(f, Remove(f, p), p) /\ DOMAIN Remove(f, p) = DOMAIN f \ {p}
BY DEF OnlyAt, Remove, Restrict

LEMMA ExceptAt ==
  ASSUME NEW f, NEW p \in DOMAIN f, NEW e
  PROVE  /\ OnlyAt(f, [f EXCEPT ![p] = e], p) /\ DOMAIN [f EXCEPT ![p] = e] = DOMAIN f
         /\ [f EXCEPT ![p] = e][p] = e
BY DEF OnlyAt

\* What such a step has to show of the entry, if it is a file of this version.
LEMMA NewRightAt ==
  ASSUME NEW f, NEW g, NEW p, NewRight(f), OnlyAt(f, g, p),
         \A k \in ItemsOf(Copies) :
           /\ p = Dst(Hierarchy[k]) /\ p \in DOMAIN g
           /\ g[p].type = "file" /\ g[p].data = "new"
           => Right(Hierarchy[k], g[p])
  PROVE  NewRight(g)
BY DEF NewRight, OnlyAt

LEMMA TmpOwnedAt ==
  ASSUME NEW f, NEW g, NEW p, TmpOwned(f), OnlyAt(f, g, p),
         \A k \in ItemsOf(Copies) :
           p = Tmp(Dst(Hierarchy[k])) /\ p \in DOMAIN g => g[p].owner \in {Me, UidOf(Hierarchy[k])}
  PROVE  TmpOwned(g)
BY DEF TmpOwned, OnlyAt

\* Temporary files are no destinations, and destinations no temporary files.
LEMMA TmpNotDst ==
  ASSUME system \in Systems, NEW k \in ItemsOf(Copies)
  PROVE  EndsTmp(Tmp(Dst(Hierarchy[k]))) /\ ~EndsTmp(Dst(Hierarchy[k]))
<1>1. k \in DOMAIN Hierarchy
  BY DEF ItemsOf
<1>2. Dst(Hierarchy[k]) \in Seq(Element) /\ ~EndsTmp(Dst(Hierarchy[k]))
  BY <1>1, ItemFacts
<1> QED
  BY <1>2, TmpFacts

-----------------------------------------------------------------------------
(* What a step does to the program counter and the counters.                *)

Static == UNCHANGED <<system, program, dry, exit, runs, before>>
Places == {"idle", "item", "mkdir", "own", "source", "open", "fill", "chmod", "chown",
           "rename", "link", "owner", "leave"}

Progress ==
  /\ pc' \in Places
  /\ done' \in Nat /\ done <= done' /\ done' <= Len(Hierarchy)
  /\ failed' \in Nat /\ failed' <= done'
  /\ errors' \in BOOLEAN

LEMMA Numbers ==
  ASSUME Counters
  PROVE  Hierarchy \in Seq(InstallItem) /\ Len(Hierarchy) \in Nat /\ done \in Nat /\ failed \in Nat
         /\ done <= Len(Hierarchy)
<1>1. Hierarchy \in Seq(InstallItem)
  BY SystemsAssumption DEF Counters, TableAssumption, Hierarchy
<1> QED
  BY <1>1 DEF Counters

LEMMA GotoProgress ==
  ASSUME Counters, PlaceInv, NEW l \in Places, Goto(l)
  PROVE  Progress
BY Numbers DEF Counters, PlaceInv, Progress, Goto

LEMMA EndItemProgress ==
  ASSUME Counters, PlaceInv, done < Len(Hierarchy), NEW e, EndItem(e)
  PROVE  Progress
<1>1. errors' \in BOOLEAN
  BY DEF EndItem
<1> QED
  BY <1>1, Numbers DEF PlaceInv, Progress, Places, EndItem

LEMMA EndCopyProgress ==
  ASSUME Counters, PlaceInv, done < Len(Hierarchy), NEW e, EndCopy(e)
  PROVE  /\ Progress
         /\ \/ pc' = "item"
            \/ pc' = "leave" /\ Item.op \in Links /\ UNCHANGED <<done, failed>>
<1>1. CASE Item.op \in Links
  <2>1. pc' = "leave" /\ UNCHANGED <<done, failed>> /\ errors' \in BOOLEAN
    BY <1>1 DEF EndCopy
  <2> QED
    BY <1>1, <2>1, Numbers DEF PlaceInv, Progress, Places
<1>2. CASE Item.op \notin Links
  <2>1. EndItem(e)
    BY <1>2 DEF EndCopy
  <2> QED
    BY <2>1, EndItemProgress DEF EndItem
<1> QED
  BY <1>1, <1>2

\* A step of a program keeps the types, if it progresses.
LEMMA StepCounters ==
  ASSUME Counters, Static, Progress, Succeeds \/ Fails
  PROVE  Counters'
<1>1. /\ system' \in Systems /\ Hierarchy' = Hierarchy
      /\ program' \in {"installer", "deinstaller", "instchk"}
      /\ exit' \in {"none", "0", "1", "died"}
      /\ runs' \in 0 .. MaxRuns /\ dry' \in BOOLEAN
  BY DEF Counters, Static, Hierarchy
<1>2. done' \in 0 .. Len(Hierarchy') /\ failed' \in 0 .. Len(Hierarchy')
  BY <1>1, Numbers DEF Progress
<1>3. faults' \in 0 .. MaxFaults
  <2>1. MaxFaults \in Nat
    BY SystemsAssumption
  <2> QED
    BY <2>1 DEF Counters, Succeeds, Fails
<1>4. quiet' \in 0 .. 2 /\ calm' \in BOOLEAN
  <2>1. calm \in BOOLEAN /\ quiet \in 0 .. 2
    BY DEF Counters
  <2>2. CASE Succeeds
    BY <2>1, <2>2 DEF Succeeds
  <2>3. CASE Fails
    <3>1. calm' \in BOOLEAN
      BY <2>3 DEF Fails
    <3>2. quiet' \in 0 .. 2
      BY <2>3 DEF Fails
    <3> QED
      BY <3>1, <3>2
  <2> QED
    BY <2>2, <2>3
<1> QED
  BY <1>1, <1>2, <1>3, <1>4 DEF Counters, Progress, Places

\* The item in hand stays the same until it is done.
LEMMA SameItem ==
  ASSUME Static, UNCHANGED done
  PROVE  /\ Item' = Item /\ Dir(Item)' = Dir(Item) /\ Dst(Item)' = Dst(Item)
         /\ Tmp(Dst(Item))' = Tmp(Dst(Item)) /\ UidOf(Item)' = UidOf(Item)
         /\ Hierarchy' = Hierarchy /\ Win32' = Win32
<1>1. Item' = Item
  BY DEF Static, Item, Hierarchy
<1> QED
  BY <1>1 DEF Static, Dir, Dst, UidOf, Me, Passwd, Tmp, Hierarchy, Win32

\* After the end of an item there is little to show.
LEMMA ItemEnded ==
  ASSUME Static, Progress, pc' = "item", at' = 1, cwd' \in Seq(Names), saved' \in Seq(Names)
  PROVE  PlaceInv' /\ TmpInv'
<1>1. TmpInv'
  BY DEF TmpInv
<1>2. PlaceInv'
  BY DEF PlaceInv, Progress, Copying
<1> QED
  BY <1>1, <1>2

\* Nor after the end of a copy.
LEMMA CopyEnded ==
  ASSUME Counters, PlaceInv, Static, done < Len(Hierarchy), program = "installer",
         NEW e, EndCopy(e), at' = 1,
         cwd' \in Seq(Names), saved' \in Seq(Names)
  PROVE  Progress /\ PlaceInv' /\ TmpInv'
<1>1. Progress
  BY EndCopyProgress
<1>2. CASE pc' = "item"
  BY <1>1, <1>2, ItemEnded
<1>3. CASE pc' = "leave" /\ Item.op \in Links /\ UNCHANGED <<done, failed>>
  <2>1. TmpInv'
    BY <1>3 DEF TmpInv
  <2>2. Item' = Item /\ Hierarchy' = Hierarchy
    BY <1>3, SameItem
  <2>3. PlaceInv'
    BY <1>1, <1>3, <2>2 DEF PlaceInv, Progress, Copying, Static
  <2> QED
    BY <1>1, <2>1, <2>3
<1> QED
  BY <1>2, <1>3, EndCopyProgress

\* The invariant of the file system, of the tree after a step.
LEMMA FsStep ==
  ASSUME system' = system, TreeOK(fs'), NewRight(fs'), TmpOwned(fs')
  PROVE  FsInv'
<1>1. TreeOK(fs)'
  BY DEF TreeOK, NodeOK, Rooted, EntryOK
<1>2. NewRight(fs)'
  BY DEF NewRight, ItemsOf, Hierarchy, Dst, Right, UidOf, Me, Passwd, SupportsModes, Win32
<1>3. TmpOwned(fs)'
  BY DEF TmpOwned, ItemsOf, Hierarchy, Dst, UidOf, Me, Passwd
<1> QED
  BY <1>1, <1>2, <1>3 DEF FsInv

LEMMA FsSame ==
  ASSUME system' = system, fs' = fs, FsInv
  PROVE  FsInv'
BY FsStep DEF FsInv

-----------------------------------------------------------------------------
(* The item in hand and its paths.                                          *)

LEMMA HandFacts ==
  ASSUME Counters, done < Len(Hierarchy)
  PROVE  /\ Item.op \in Copies \cup Links \cup {"INST_MKDIR"}
         /\ Item.src \in Names /\ Item.perm \in SUBSET Bit
         /\ Dir(Item) \in Seq(Names) \ {<<>>}
         /\ Dir(Item) \in Seq(Element)
         /\ Dst(Item) \in Seq(Element) \ {<<>>} /\ ~EndsTmp(Dst(Item))
         /\ Item.op = "INST_MKDIR" => Dst(Item) = Dir(Item)
         /\ Item.op # "INST_MKDIR" => /\ Program(Item, Item.src) \in Names
                                      /\ Parent(Dst(Item)) = Dir(Item)
                                      /\ Parent(Tmp(Dst(Item))) = Dir(Item)
<1>1. PICK k \in DOMAIN Hierarchy : Item = Hierarchy[k]
  BY ItemInTable
<1>2. system \in Systems
  BY DEF Counters
<1> QED
  BY <1>1, <1>2, ItemFacts

LEMMA TmpHand ==
  ASSUME Counters, done < Len(Hierarchy)
  PROVE  /\ Tmp(Dst(Item)) \in Seq(Element) \ {<<>>}
         /\ EndsTmp(Tmp(Dst(Item)))
         /\ Tmp(Dst(Item)) # Dst(Item)
         /\ \A k \in DOMAIN Hierarchy :
              /\ Tmp(Dst(Item)) # Dst(Hierarchy[k])
              /\ Tmp(Dst(Item)) = Tmp(Dst(Hierarchy[k])) => Dst(Item) = Dst(Hierarchy[k])
<1>1. system \in Systems
  BY DEF Counters
<1>2. Dst(Item) \in Seq(Element) /\ ~EndsTmp(Dst(Item))
  BY HandFacts
<1>3. \A k \in DOMAIN Hierarchy : Dst(Hierarchy[k]) \in Seq(Element) /\ ~EndsTmp(Dst(Hierarchy[k]))
  BY <1>1, ItemFacts
<1>4. /\ Tmp(Dst(Item)) \in Seq(Element) \ {<<>>} /\ EndsTmp(Tmp(Dst(Item)))
      /\ \A q \in Seq(Element) : Tmp(q) = Tmp(Dst(Item)) => q = Dst(Item)
  BY <1>2, TmpFacts
<1> QED
  BY <1>2, <1>3, <1>4

\* What is copied to the path in hand.
LEMMA AgreeHand ==
  ASSUME Counters, done < Len(Hierarchy), NEW k \in ItemsOf(Copies),
         Dst(Hierarchy[k]) = Dst(Item)
  PROVE  /\ Item.op \in Copies
         /\ UidOf(Item) = UidOf(Hierarchy[k]) /\ Item.perm = Hierarchy[k].perm
<1>1. PICK j \in DOMAIN Hierarchy : Item = Hierarchy[j]
  BY ItemInTable
<1>2. system \in Systems
  BY DEF Counters
<1> QED
  BY <1>1, <1>2, Agree

\* The source of a copy is no temporary file.
LEMMA SourceFacts ==
  ASSUME Counters, PlaceInv, TreeOK(fs), done < Len(Hierarchy), Item.op # "INST_MKDIR"
  PROVE  ~EndsTmp(Source(Item)) /\ ~EndsTmp(Append(cwd, Program(Item, Item.src)))
<1> DEFINE q == Append(cwd, Program(Item, Item.src))
<1>1. Program(Item, Item.src) \in Names /\ cwd \in Seq(Element)
  BY HandFacts DEF PlaceInv, Element
<1>2. Parent(q) = cwd /\ ~EndsTmp(q)
  BY <1>1, ParentFacts
<1> HIDE DEF q
<1>3. CASE q \in DOMAIN fs /\ fs[q].type = "symlink"
  <2>1. fs[q].data \in Names
    BY <1>3 DEF TreeOK, NodeOK
  <2>2. ~EndsTmp(Append(cwd, fs[q].data))
    BY <1>1, <2>1, ParentFacts
  <2> QED
    BY <1>2, <1>3, <2>2 DEF Source, Followed, Exists, q
<1>4. CASE ~(q \in DOMAIN fs /\ fs[q].type = "symlink")
  BY <1>2, <1>4 DEF Source, Followed, Exists, q
<1> QED
  BY <1>3, <1>4

\* Work on the temporary file leaves the source as it is.
LEMMA SourceStays ==
  ASSUME Counters, PlaceInv, TreeOK(fs), done < Len(Hierarchy), Item.op # "INST_MKDIR",
         Static, UNCHANGED <<done, cwd>>, OnlyAt(fs, fs', Tmp(Dst(Item)))
  PROVE  Exists(Source(Item)) => Exists(Source(Item))'
<1> DEFINE q == Append(cwd, Program(Item, Item.src))
<1> DEFINE t == Tmp(Dst(Item))
<1>1. ~EndsTmp(Source(Item)) /\ ~EndsTmp(q)
  BY SourceFacts
<1>2. EndsTmp(t)
  BY TmpHand
<1>3. q' = q
  BY SameItem DEF Static, Program
<1>4. q \in DOMAIN fs' <=> q \in DOMAIN fs
  BY <1>1, <1>2 DEF OnlyAt
<1>5. q \in DOMAIN fs => fs'[q] = fs[q]
  BY <1>1, <1>2 DEF OnlyAt
<1>6. Source(Item)' = Source(Item)
  <2>1. Source(Item) = Followed(q) /\ Source(Item)' = Followed(q)'
    BY DEF Source
  <2> HIDE DEF q
  <2>2. Followed(q)' = Followed(q)
    BY <1>3, <1>4, <1>5 DEF Followed, Exists
  <2> QED
    BY <2>1, <2>2
<1>7. Source(Item) # t
  BY <1>1, <1>2
<1> QED
  BY <1>6, <1>7 DEF Exists, OnlyAt

\* A step that changes nothing but the temporary file in hand.
LEMMA TmpChange ==
  ASSUME Counters, FsInv, done < Len(Hierarchy), NEW g, OnlyAt(fs, g, Tmp(Dst(Item))),
         Tmp(Dst(Item)) \in DOMAIN g /\ Item.op \in Copies =>
           g[Tmp(Dst(Item))].owner \in {Me, UidOf(Item)}
  PROVE  NewRight(g) /\ TmpOwned(g)
<1> DEFINE t == Tmp(Dst(Item))
<1>1. \A k \in ItemsOf(Copies) : t # Dst(Hierarchy[k])
  BY TmpHand DEF ItemsOf
<1>2. \A k \in ItemsOf(Copies) : t = Tmp(Dst(Hierarchy[k])) =>
        Item.op \in Copies /\ UidOf(Item) = UidOf(Hierarchy[k])
  BY TmpHand, AgreeHand DEF ItemsOf
<1> HIDE DEF t
<1>3. NewRight(fs) /\ TmpOwned(fs) /\ OnlyAt(fs, g, t)
  BY DEF FsInv, t
<1>4. NewRight(g)
  BY <1>1, <1>3, NewRightAt
<1>5. \A k \in ItemsOf(Copies) : t = Tmp(Dst(Hierarchy[k])) /\ t \in DOMAIN g =>
        g[t].owner \in {Me, UidOf(Hierarchy[k])}
  BY <1>2 DEF t
<1>6. TmpOwned(g)
  BY <1>3, <1>5, TmpOwnedAt
<1> QED
  BY <1>4, <1>6

\* install_file_copy goes on to its next system call.
LEMMA CopyGoesOn ==
  ASSUME Counters, PlaceInv, Static, pc \in Copying, NEW l \in Copying, Goto(l),
         UNCHANGED <<cwd, saved, at>>
  PROVE  Progress /\ PlaceInv' /\ done < Len(Hierarchy) /\ Item.op # "INST_MKDIR"
<1>1. Progress
  BY GotoProgress DEF Copying, Places
<1>2. Item' = Item /\ Hierarchy' = Hierarchy /\ Win32' = Win32
  BY SameItem DEF Goto
<1>3. PlaceInv'
  BY <1>1, <1>2 DEF PlaceInv, Progress, Goto, Copying, Static
<1> QED
  BY <1>1, <1>3 DEF PlaceInv, Copying

\* The ERR label takes the temporary file away.
LEMMA ErrStep ==
  ASSUME InstInv, Static, Err, pc \in Copying
  PROVE  Progress /\ FsInv' /\ PlaceInv' /\ TmpInv'
<1> DEFINE t == Tmp(Dst(Item))
<1>1. done < Len(Hierarchy) /\ program = "installer" /\ at = 1 /\ cwd \in Seq(Names) /\ saved \in Seq(Names)
  BY DEF InstInv, PlaceInv, Copying
<1>2. Progress /\ PlaceInv' /\ TmpInv'
  BY <1>1, CopyEnded DEF InstInv, Err
<1>3. t # <<>> /\ EndsTmp(t)
  BY <1>1, TmpHand DEF InstInv
<1>4. OnlyAt(fs, fs', t) /\ t \notin DOMAIN fs' /\ fs' = Remove(fs, t)
  <2>1. fs' = Remove(fs, t)
    BY DEF Err
  <2> HIDE DEF t
  <2>2. OnlyAt(fs, Remove(fs, t), t) /\ DOMAIN Remove(fs, t) = DOMAIN fs \ {t}
    BY RemoveAt
  <2> QED
    BY <2>1, <2>2
<1> HIDE DEF t
<1>5. TreeOK(fs')
  <2>1. TreeOK(fs) /\ (t \in DOMAIN fs => fs[t].type # "directory")
    BY <1>3 DEF InstInv, FsInv, TreeOK, NodeOK
  <2> QED
    BY <1>3, <1>4, <2>1, NoChildren, RemoveTree
<1>6. NewRight(fs') /\ TmpOwned(fs')
  BY <1>1, <1>4, TmpChange DEF InstInv, t
<1> QED
  BY <1>2, <1>5, <1>6, FsStep DEF Static

-----------------------------------------------------------------------------
(* The installer, call by call.                                             *)

LEMMA EntryFacts ==
  ASSUME NEW type \in {"file", "directory", "symlink"}, NEW data, NEW mode \in SUBSET Bit,
         NEW owner, NEW group
  PROVE  LET e == Entry(type, data, mode, owner, group)
         IN EntryOK(e) /\ e.type = type /\ e.data = data /\ e.mode = mode /\ e.owner = owner
BY DEF Entry, EntryOK, Fields

LEMMA OwnedFacts ==
  ASSUME NEW e, EntryOK(e), NEW uid, NEW gid
  PROVE  LET o == Owned(e, uid, gid)
         IN EntryOK(o) /\ o.type = e.type /\ o.data = e.data /\ o.mode = e.mode /\ o.owner = uid
BY DEF Owned, EntryOK, Fields

LEMMA BeginItemStep ==
  ASSUME InstInv, Static, BeginItem
  PROVE  Progress /\ FsInv' /\ PlaceInv' /\ TmpInv'
<1>1. /\ fs' = fs /\ cwd' = cwd /\ saved' = saved /\ at' = at
      /\ program = "installer" /\ pc = "item" /\ done < Len(Hierarchy) /\ Item.op \notin Links
  BY DEF BeginItem, Nothing
<1>2. at = 1 /\ cwd \in Seq(Names) /\ saved \in Seq(Names)
  BY <1>1 DEF InstInv, PlaceInv
<1>3. FsInv'
  BY <1>1, FsSame DEF Static, InstInv
<1>4. CASE EndItem(TRUE) \/ EndItem(FALSE)
  <2>1. Progress
    BY <1>1, <1>4, EndItemProgress DEF InstInv
  <2>2. pc' = "item"
    BY <1>4 DEF EndItem
  <2> QED
    BY <1>1, <1>2, <1>3, <2>1, <2>2, ItemEnded
<1>5. CASE Item.op = "INST_MKDIR" /\ Goto("mkdir")
  <2>1. Progress
    BY <1>5, GotoProgress DEF InstInv, Places
  <2>2. TmpInv'
    BY <1>5 DEF TmpInv, Goto
  <2>3. Item' = Item /\ Hierarchy' = Hierarchy /\ Win32' = Win32 /\ Dir(Item)' = Dir(Item)
    BY <1>5, SameItem DEF Goto
  <2>4. 1 \in 1 .. Len(Dir(Item))
    <3>1. Dir(Item) \in Seq(Names) /\ Dir(Item) # <<>>
      BY <1>1, HandFacts DEF InstInv
    <3>2. Len(Dir(Item)) \in Nat /\ Len(Dir(Item)) # 0
      BY <3>1, EmptySeq
    <3> QED
      BY <3>2
  <2>5. pc' = "mkdir" /\ done' = done
    BY <1>5 DEF Goto
  <2>6. PlaceInv'
    BY <1>1, <1>2, <1>5, <2>1, <2>3, <2>4, <2>5 DEF PlaceInv, Progress, Copying, Static
  <2> QED
    BY <1>3, <2>1, <2>2, <2>6
<1>6. CASE Item.op # "INST_MKDIR" /\ Goto("source")
  <2>1. Progress
    BY <1>6, GotoProgress DEF InstInv, Places
  <2>2. TmpInv'
    BY <1>6 DEF TmpInv, Goto
  <2>3. Item' = Item /\ Hierarchy' = Hierarchy /\ Win32' = Win32
    BY <1>6, SameItem DEF Goto
  <2>5. pc' = "source" /\ done' = done
    BY <1>6 DEF Goto
  <2>6. PlaceInv'
    BY <1>1, <1>2, <1>6, <2>1, <2>3, <2>5 DEF PlaceInv, Progress, Copying, Static
  <2> QED
    BY <1>3, <2>1, <2>2, <2>6
<1> QED
  BY <1>4, <1>5, <1>6 DEF BeginItem

\* A directory that install_rmkdir makes.
LEMMA MakeDirFs ==
  ASSUME InstInv, Static, NEW f, MakeDir(f)
  PROVE  FsInv'
<1> DEFINE p == SubSeq(Dir(Item), 1, at)
           made == Entry("directory", "dir", Item.perm \ Umask, Me, MyGroup)
<1>1. done < Len(Hierarchy) /\ at \in 1 .. Len(Dir(Item))
  BY DEF InstInv, PlaceInv, MakeDir
<1>2. Dir(Item) \in Seq(Names) /\ Item.perm \in SUBSET Bit
  BY <1>1, HandFacts DEF InstInv
<1>3. p \in Seq(Names) /\ Len(p) = at /\ p[at] \in Names
  <2>1. Len(Dir(Item)) \in Nat /\ at \in Int
    BY <1>1, <1>2
  <2>2. p \in Seq(Names) /\ Len(p) = at
    BY <1>1, <1>2, <2>1, SubSeqProperties
  <2> HIDE DEF p
  <2> QED
    BY <1>1, <2>1, <2>2
<1>4. p \in Seq(Element) \ {<<>>} /\ ~EndsTmp(p)
  <2> HIDE DEF p
  <2> QED
    BY <1>1, <1>3 DEF Element, Names, EndsTmp
<1>5. CASE fs' = fs
  BY <1>5, FsSame DEF Static, InstInv
<1>6. CASE fs' = Put(fs, p, made) /\ ~Exists(p) /\ IsDir(Parent(p))
  <2>1. EntryOK(made) /\ made.type = "directory" /\ made.data = "dir"
    BY <1>2, EntryFacts
  <2> HIDE DEF p, made
  <2>2. Rooted(fs, p)
    BY <1>6 DEF IsDir, Rooted, Exists
  <2>3. TreeOK(fs')
    BY <1>4, <1>6, <2>1, <2>2, PutTree DEF InstInv, FsInv
  <2>4. OnlyAt(fs, fs', p) /\ fs'[p] = made
    <3>1. OnlyAt(fs, Put(fs, p, made), p) /\ Put(fs, p, made)[p] = made
          /\ DOMAIN Put(fs, p, made) = DOMAIN fs \cup {p}
      BY PutAt
    <3> QED
      BY <1>6, <3>1
  <2>5. NewRight(fs')
    BY <2>1, <2>4, NewRightAt DEF InstInv, FsInv
  <2>6. \A k \in ItemsOf(Copies) : p # Tmp(Dst(Hierarchy[k]))
    BY <1>4, TmpNotDst DEF InstInv, Counters
  <2>7. TmpOwned(fs')
    BY <2>4, <2>6, TmpOwnedAt DEF InstInv, FsInv
  <2> QED
    BY <2>3, <2>5, <2>7, FsStep DEF Static
<1> QED
  BY <1>5, <1>6 DEF MakeDir

LEMMA MakeDirStep ==
  ASSUME InstInv, Static, NEW f, MakeDir(f)
  PROVE  Progress /\ FsInv' /\ PlaceInv' /\ TmpInv'
<1>1. /\ pc = "mkdir" /\ cwd' = cwd /\ saved' = saved
      /\ \/ at = Len(Dir(Item)) /\ at' = 1 /\ Goto("own")
         \/ at # Len(Dir(Item)) /\ at' = at + 1 /\ Goto("mkdir")
  BY DEF MakeDir
<1>2. /\ done < Len(Hierarchy) /\ at \in 1 .. Len(Dir(Item)) /\ Item.op = "INST_MKDIR"
      /\ cwd \in Seq(Names) /\ saved \in Seq(Names) /\ program = "installer"
  BY <1>1 DEF InstInv, PlaceInv
<1>3. Progress
  BY <1>1, GotoProgress DEF InstInv, Places
<1>4. done' = done /\ pc' \in {"own", "mkdir"}
  BY <1>1 DEF Goto
<1>5. Item' = Item /\ Hierarchy' = Hierarchy /\ Dir(Item)' = Dir(Item)
  BY <1>4, SameItem
<1>6. pc' = "mkdir" => at' \in 1 .. Len(Dir(Item))
  <2>1. Len(Dir(Item)) \in Nat
    BY <1>2, HandFacts DEF InstInv
  <2> QED
    BY <1>1, <1>2, <2>1 DEF Goto
<1>7. pc' = "own" => at' = 1
  BY <1>1 DEF Goto
<1>8. PlaceInv'
  BY <1>1, <1>2, <1>3, <1>4, <1>5, <1>6, <1>7 DEF PlaceInv, Progress, Copying, Static
<1>9. TmpInv'
  BY <1>4 DEF TmpInv
<1> QED
  BY <1>3, <1>8, <1>9, MakeDirFs

LEMMA MkdirOwnStep ==
  ASSUME InstInv, Static, NEW f, MkdirOwn(f)
  PROVE  Progress /\ FsInv' /\ PlaceInv' /\ TmpInv'
<1> DEFINE p == Dir(Item)
           e == Owned(fs[p], UidOf(Item), GidOf(Item))
           fails == UidOf(Item) # Me /\ (f \/ ~Superuser \/ ~Exists(p))
<1>1. pc = "own" /\ cwd' = cwd /\ saved' = saved /\ at' = at /\ EndItem(fails)
  BY DEF MkdirOwn
<1>2. /\ done < Len(Hierarchy) /\ at = 1 /\ Item.op = "INST_MKDIR"
      /\ cwd \in Seq(Names) /\ saved \in Seq(Names)
  BY <1>1 DEF InstInv, PlaceInv
<1>3. Progress /\ PlaceInv' /\ TmpInv'
  <2>1. Progress /\ pc' = "item"
    BY <1>1, <1>2, EndItemProgress DEF InstInv, EndItem
  <2> QED
    BY <1>1, <1>2, <2>1, ItemEnded
<1>4. CASE fs' = fs
  BY <1>3, <1>4, FsSame DEF Static, InstInv
<1>5. CASE p \in DOMAIN fs /\ fs' = [fs EXCEPT ![p] = e]
  <2>1. Dst(Item) = p /\ ~EndsTmp(p)
    BY <1>2, HandFacts DEF InstInv
  <2>2. EntryOK(e) /\ e.type = fs[p].type /\ e.data = fs[p].data
    BY <1>5, OwnedFacts DEF InstInv, FsInv, TreeOK, NodeOK
  <2> HIDE DEF p, e
  <2>3. TreeOK(fs')
    BY <1>5, <2>2, ChangeTree DEF InstInv, FsInv
  <2>4. OnlyAt(fs, fs', p)
    BY <1>5, ExceptAt
  <2>5. \A k \in ItemsOf(Copies) : p # Dst(Hierarchy[k])
    <3> SUFFICES ASSUME NEW k \in ItemsOf(Copies), p = Dst(Hierarchy[k])
                 PROVE  FALSE
      OBVIOUS
    <3>1. Item.op \in Copies
      BY <1>2, <2>1, AgreeHand DEF InstInv
    <3> QED
      BY <1>2, <3>1 DEF Copies
  <2>6. NewRight(fs')
    BY <2>4, <2>5, NewRightAt DEF InstInv, FsInv
  <2>7. \A k \in ItemsOf(Copies) : p # Tmp(Dst(Hierarchy[k]))
    BY <2>1, TmpNotDst DEF InstInv, Counters
  <2>8. TmpOwned(fs')
    BY <2>4, <2>7, TmpOwnedAt DEF InstInv, FsInv
  <2> QED
    BY <1>3, <2>3, <2>6, <2>8, FsStep DEF Static
<1>6. fs' = fs \/ (p \in DOMAIN fs /\ fs' = [fs EXCEPT ![p] = e])
  BY DEF MkdirOwn, Exists
<1> QED
  BY <1>4, <1>5, <1>6

LEMMA OpenSourceStep ==
  ASSUME InstInv, Static, NEW f, OpenSource(f)
  PROVE  Progress /\ FsInv' /\ PlaceInv' /\ TmpInv'
<1>1. pc = "source" /\ fs' = fs /\ cwd' = cwd /\ saved' = saved /\ at' = at
  BY DEF OpenSource, Nothing
<1>2. /\ done < Len(Hierarchy) /\ at = 1 /\ Item.op # "INST_MKDIR" /\ program = "installer"
      /\ cwd \in Seq(Names) /\ saved \in Seq(Names)
  BY <1>1 DEF InstInv, PlaceInv, Copying
<1>3. FsInv'
  BY <1>1, FsSame DEF Static, InstInv
<1>4. CASE EndCopy(TRUE)
  BY <1>1, <1>2, <1>3, <1>4, CopyEnded DEF InstInv
<1>5. CASE Goto("open") /\ SourceExists(Item)
  <2>1. Progress /\ PlaceInv'
    BY <1>1, <1>5, CopyGoesOn DEF InstInv, Copying
  <2>2. pc' = "open" /\ done' = done
    BY <1>5 DEF Goto
  <2>3. cwd # Build => Exists(Source(Item))
    BY <1>5 DEF SourceExists
  <2>4. Item' = Item
    BY <2>2, SameItem
  <2>5. cwd' # Build => Exists(Source(Item))'
    <3>1. Exists(Source(Item))' = Exists(Source(Item))
      BY <1>1, <2>4 DEF Exists, Source, Followed, Program, Static
    <3> QED
      BY <1>1, <2>3, <3>1
  <2>6. TmpInv'
    BY <2>2, <2>5 DEF TmpInv
  <2> QED
    BY <1>3, <2>1, <2>6
<1> QED
  BY <1>4, <1>5 DEF OpenSource

LEMMA OpenTmpStep ==
  ASSUME InstInv, Static, NEW f, OpenTmp(f)
  PROVE  Progress /\ FsInv' /\ PlaceInv' /\ TmpInv'
<1> DEFINE t == Tmp(Dst(Item))
           made == Entry("file", "part", {"w", "o", "g"} \ Umask, Me, MyGroup)
<1>1. pc = "open" /\ pc \in Copying
  BY DEF OpenTmp, Copying
<1>2. /\ done < Len(Hierarchy) /\ at = 1 /\ Item.op # "INST_MKDIR" /\ program = "installer"
      /\ cwd \in Seq(Names) /\ saved \in Seq(Names)
  BY <1>1 DEF InstInv, PlaceInv
<1>3. CASE Err
  BY <1>1, <1>3, ErrStep
<1>4. CASE /\ fs' = IF Exists(t) THEN [fs EXCEPT ![t].data = "part"] ELSE Put(fs, t, made)
           /\ Exists(t) \/ IsDir(Dir(Item))
           /\ Goto("fill") /\ UNCHANGED <<cwd, saved, at>>
  <2>1. Progress /\ PlaceInv'
    BY <1>1, <1>4, CopyGoesOn DEF InstInv, Copying
  <2>2. pc' = "fill" /\ done' = done /\ cwd' = cwd
    BY <1>4 DEF Goto
  <2>3. t \in Seq(Element) \ {<<>>} /\ EndsTmp(t) /\ Parent(t) = Dir(Item)
    BY <1>2, TmpHand, HandFacts DEF InstInv
  <2>4. TreeOK(fs) /\ Exists(t) => EntryOK(fs[t]) /\ fs[t].type = "file"
    BY <2>3 DEF TreeOK, NodeOK, Exists
  <2>5. /\ TreeOK(fs') /\ OnlyAt(fs, fs', t) /\ t \in DOMAIN fs'
        /\ fs'[t].owner = IF Exists(t) THEN fs[t].owner ELSE Me
    <3>1. CASE Exists(t)
      <4> DEFINE e == [fs[t] EXCEPT !.data = "part"]
      <4>1. fs' = [fs EXCEPT ![t] = e]
        BY <1>4, <3>1
      <4>2. EntryOK(e) /\ e.type = fs[t].type /\ e.type = "file" /\ e.owner = fs[t].owner
        BY <2>4, <3>1 DEF EntryOK, Fields, InstInv, FsInv
      <4>3. t \in DOMAIN fs
        BY <3>1 DEF Exists
      <4> HIDE DEF t, e
      <4>4. TreeOK([fs EXCEPT ![t] = e])
        BY <2>3, <4>2, <4>3, ChangeTree DEF InstInv, FsInv
      <4>5. OnlyAt(fs, [fs EXCEPT ![t] = e], t) /\ [fs EXCEPT ![t] = e][t] = e
            /\ DOMAIN [fs EXCEPT ![t] = e] = DOMAIN fs
        BY <4>3, ExceptAt
      <4> QED
        BY <3>1, <4>1, <4>2, <4>3, <4>4, <4>5
    <3>2. CASE ~Exists(t)
      <4>1. fs' = Put(fs, t, made)
        BY <1>4, <3>2
      <4>2. EntryOK(made) /\ made.type = "file" /\ made.owner = Me
        BY EntryFacts DEF Bit
      <4>3. Rooted(fs, t)
        BY <1>4, <2>3, <3>2 DEF IsDir, Rooted, Exists
      <4>4. \A q \in DOMAIN fs : Parent(q) # t
        BY <2>3, <3>2, NoChildren DEF InstInv, FsInv, Exists
      <4> HIDE DEF t, made
      <4>5. TreeOK(Put(fs, t, made))
        BY <2>3, <4>2, <4>3, <4>4, PutTree DEF InstInv, FsInv
      <4>6. OnlyAt(fs, Put(fs, t, made), t) /\ Put(fs, t, made)[t] = made
            /\ DOMAIN Put(fs, t, made) = DOMAIN fs \cup {t}
        BY PutAt
      <4> QED
        BY <3>2, <4>1, <4>2, <4>5, <4>6
    <3> QED
      BY <3>1, <3>2
  <2>6. Item.op \in Copies => fs'[t].owner \in {Me, UidOf(Item)}
    <3>1. PICK k \in DOMAIN Hierarchy : Item = Hierarchy[k]
      BY <1>2, ItemInTable DEF InstInv
    <3>2. Item.op \in Copies => k \in ItemsOf(Copies)
      BY <3>1 DEF ItemsOf
    <3> QED
      BY <2>5, <3>1, <3>2 DEF InstInv, FsInv, TmpOwned, Exists
  <2>7. NewRight(fs') /\ TmpOwned(fs')
    BY <1>2, <2>5, <2>6, TmpChange DEF InstInv
  <2>8. FsInv'
    BY <2>5, <2>7, FsStep DEF Static
  <2>9. TmpInv'
    <3>1. cwd # Build => Exists(Source(Item))'
      BY <1>1, <1>2, <2>2, <2>5, SourceStays DEF InstInv, FsInv, TmpInv
    <3>2. t' = t
      BY <2>2, SameItem
    <3>3. Exists(t)'
      BY <2>5, <3>2 DEF Exists
    <3> QED
      BY <2>2, <3>1, <3>3 DEF TmpInv
  <2> QED
    BY <2>1, <2>8, <2>9
<1> QED
  BY <1>3, <1>4 DEF OpenTmp

\* Work on the temporary file in hand.
LEMMA TmpSet ==
  ASSUME InstInv, Static, done < Len(Hierarchy), Item.op # "INST_MKDIR",
         Exists(Tmp(Dst(Item))), NEW e, EntryOK(e), e.type = fs[Tmp(Dst(Item))].type,
         Item.op \in Copies => e.owner \in {Me, UidOf(Item)},
         fs' = [fs EXCEPT ![Tmp(Dst(Item))] = e]
  PROVE  /\ FsInv'
         /\ OnlyAt(fs, fs', Tmp(Dst(Item)))
         /\ Tmp(Dst(Item)) \in DOMAIN fs' /\ fs'[Tmp(Dst(Item))] = e
<1> DEFINE t == Tmp(Dst(Item))
<1>1. EndsTmp(t) /\ t \in DOMAIN fs
  BY TmpHand DEF InstInv, Exists
<1>2. e.type = "file"
  BY <1>1 DEF InstInv, FsInv, TreeOK, NodeOK
<1>3. fs' = [fs EXCEPT ![t] = e]
  OBVIOUS
<1> HIDE DEF t
<1>4. TreeOK([fs EXCEPT ![t] = e])
  BY <1>1, <1>2, ChangeTree DEF InstInv, FsInv, t
<1>5. OnlyAt(fs, [fs EXCEPT ![t] = e], t) /\ DOMAIN [fs EXCEPT ![t] = e] = DOMAIN fs
      /\ [fs EXCEPT ![t] = e][t] = e
  BY <1>1, ExceptAt
<1>6. OnlyAt(fs, fs', t) /\ t \in DOMAIN fs' /\ fs'[t] = e /\ TreeOK(fs')
  BY <1>1, <1>3, <1>4, <1>5
<1>7. NewRight(fs') /\ TmpOwned(fs')
  BY <1>6, TmpChange DEF InstInv, t
<1> QED
  BY <1>6, <1>7, FsStep DEF Static, t

\* The temporary file in hand, as install_file_copy finds it.
LEMMA TmpThere ==
  ASSUME InstInv, pc \in {"fill", "chmod", "chown", "rename"}
  PROVE  LET t == Tmp(Dst(Item))
         IN /\ pc \in Copying /\ done < Len(Hierarchy) /\ program = "installer"
            /\ Item.op # "INST_MKDIR"
            /\ Exists(t) /\ EntryOK(fs[t]) /\ fs[t].type = "file" /\ Rooted(fs, t)
            /\ Item.op \in Copies => fs[t].owner \in {Me, UidOf(Item)}
<1> DEFINE t == Tmp(Dst(Item))
<1>1. pc \in Copying /\ done < Len(Hierarchy) /\ program = "installer" /\ Item.op # "INST_MKDIR"
  BY DEF InstInv, PlaceInv, Copying
<1>2. t \in DOMAIN fs
  BY DEF InstInv, TmpInv, Exists
<1>3. EntryOK(fs[t]) /\ fs[t].type = "file" /\ Rooted(fs, t)
  BY <1>1, <1>2, TmpHand DEF InstInv, FsInv, TreeOK, NodeOK
<1>4. PICK k \in DOMAIN Hierarchy : Item = Hierarchy[k]
  BY <1>1, ItemInTable DEF InstInv
<1>5. Item.op \in Copies => fs[t].owner \in {Me, UidOf(Item)}
  BY <1>2, <1>4 DEF InstInv, FsInv, TmpOwned, ItemsOf
<1> QED
  BY <1>1, <1>2, <1>3, <1>5 DEF Exists

LEMMA FillStep ==
  ASSUME InstInv, Static, NEW f, Fill(f)
  PROVE  Progress /\ FsInv' /\ PlaceInv' /\ TmpInv'
<1> DEFINE t == Tmp(Dst(Item))
           e == [fs[t] EXCEPT !.data = SourceData(Item)]
<1>1. pc = "fill"
  BY DEF Fill
<1>2. /\ pc \in Copying /\ done < Len(Hierarchy) /\ Item.op # "INST_MKDIR"
      /\ Exists(t) /\ EntryOK(fs[t]) /\ fs[t].type = "file"
      /\ Item.op \in Copies => fs[t].owner \in {Me, UidOf(Item)}
  BY <1>1, TmpThere
<1>3. CASE Err
  BY <1>2, <1>3, ErrStep
<1>4. CASE fs' = [fs EXCEPT ![t] = e] /\ Goto("chmod") /\ UNCHANGED <<cwd, saved, at>>
  <2>1. Progress /\ PlaceInv'
    BY <1>2, <1>4, CopyGoesOn DEF InstInv, Copying
  <2>2. pc' = "chmod" /\ done' = done
    BY <1>4 DEF Goto
  <2>3. EntryOK(e) /\ e.type = fs[t].type /\ e.owner = fs[t].owner /\ e.data = SourceData(Item)
    BY <1>2 DEF EntryOK, Fields
  <2>4. SourceData(Item) # "part"
    <3>1. CASE cwd = Build
      BY <3>1 DEF SourceData
    <3>2. CASE cwd # Build
      <4>1. Source(Item) \in DOMAIN fs
        BY <1>1, <3>2 DEF InstInv, TmpInv, Exists
      <4>2. ~EndsTmp(Source(Item))
        BY <1>2, SourceFacts DEF InstInv, FsInv
      <4>3. fs[Source(Item)].data # "part"
        BY <4>1, <4>2 DEF InstInv, FsInv, TreeOK, NodeOK
      <4> QED
        BY <3>2, <4>3 DEF SourceData
    <3> QED
      BY <3>1, <3>2
  <2>5. fs' = [fs EXCEPT ![t] = e]
    BY <1>4
  <2> HIDE DEF e
  <2>6. FsInv' /\ t \in DOMAIN fs' /\ fs'[t] = e
    BY <1>2, <2>3, <2>5, TmpSet
  <2>7. t' = t
    BY <2>2, SameItem
  <2>8. TmpInv'
    BY <2>2, <2>3, <2>4, <2>6, <2>7 DEF TmpInv, Exists
  <2> QED
    BY <2>1, <2>6, <2>8
<1> QED
  BY <1>3, <1>4 DEF Fill

LEMMA ChmodStep ==
  ASSUME InstInv, Static, NEW f, Chmod(f)
  PROVE  Progress /\ FsInv' /\ PlaceInv' /\ TmpInv'
<1> DEFINE t == Tmp(Dst(Item))
           e == [fs[t] EXCEPT !.mode = Item.perm]
<1>1. pc = "chmod"
  BY DEF Chmod
<1>2. /\ pc \in Copying /\ done < Len(Hierarchy) /\ Item.op # "INST_MKDIR"
      /\ Exists(t) /\ EntryOK(fs[t]) /\ fs[t].type = "file"
      /\ Item.op \in Copies => fs[t].owner \in {Me, UidOf(Item)}
  BY <1>1, TmpThere
<1>3. CASE Err
  BY <1>2, <1>3, ErrStep
<1>4. CASE /\ fs' = IF SupportsModes THEN [fs EXCEPT ![t] = e] ELSE fs
           /\ Goto("chown") /\ UNCHANGED <<cwd, saved, at>>
  <2>1. Progress /\ PlaceInv'
    BY <1>2, <1>4, CopyGoesOn DEF InstInv, Copying
  <2>2. pc' = "chown" /\ done' = done
    BY <1>4 DEF Goto
  <2>3. Item.perm \in SUBSET Bit
    BY <1>2, HandFacts DEF InstInv
  <2>4. /\ EntryOK(e) /\ e.type = fs[t].type /\ e.owner = fs[t].owner /\ e.data = fs[t].data
        /\ e.mode = Item.perm
    BY <1>2, <2>3 DEF EntryOK, Fields
  <2>5. fs[t].data # "part"
    BY <1>1 DEF InstInv, TmpInv
  <2>6. Item' = Item /\ t' = t /\ SupportsModes' = SupportsModes
    BY <2>2, SameItem DEF SupportsModes
  <2>7. CASE SupportsModes
    <3>1. fs' = [fs EXCEPT ![t] = e]
      BY <1>4, <2>7
    <3> HIDE DEF e
    <3>2. FsInv' /\ t \in DOMAIN fs' /\ fs'[t] = e
      BY <1>2, <2>4, <3>1, TmpSet
    <3>3. TmpInv'
      BY <2>2, <2>4, <2>5, <2>6, <3>2 DEF TmpInv, Exists
    <3> QED
      BY <2>1, <3>2, <3>3
  <2>8. CASE ~SupportsModes
    <3>1. fs' = fs
      BY <1>4, <2>8
    <3>2. FsInv'
      BY <3>1, FsSame DEF InstInv, Static
    <3>3. TmpInv'
      BY <1>2, <2>2, <2>5, <2>6, <2>8, <3>1 DEF TmpInv, Exists
    <3> QED
      BY <2>1, <3>2, <3>3
  <2> QED
    BY <2>7, <2>8
<1> QED
  BY <1>3, <1>4 DEF Chmod

LEMMA ChownStep ==
  ASSUME InstInv, Static, NEW f, Chown(f)
  PROVE  Progress /\ FsInv' /\ PlaceInv' /\ TmpInv'
<1> DEFINE t == Tmp(Dst(Item))
           want == CopyUid(Item) # Me
           e == Owned(fs[t], CopyUid(Item), CopyGid(Item))
<1>1. pc = "chown"
  BY DEF Chown
<1>2. /\ pc \in Copying /\ done < Len(Hierarchy) /\ Item.op # "INST_MKDIR"
      /\ Exists(t) /\ EntryOK(fs[t]) /\ fs[t].type = "file"
      /\ Item.op \in Copies => fs[t].owner \in {Me, UidOf(Item)}
  BY <1>1, TmpThere
<1>3. CASE Err
  BY <1>2, <1>3, ErrStep
<1>4. CASE /\ fs' = IF want THEN [fs EXCEPT ![t] = e] ELSE fs
           /\ Goto("rename") /\ UNCHANGED <<cwd, saved, at>>
  <2>1. Progress /\ PlaceInv'
    BY <1>2, <1>4, CopyGoesOn DEF InstInv, Copying
  <2>2. pc' = "rename" /\ done' = done
    BY <1>4 DEF Goto
  <2>3. Item.op \in Copies => CopyUid(Item) = UidOf(Item)
    BY DEF CopyUid, Copies, Links
  <2>4. /\ EntryOK(e) /\ e.type = fs[t].type /\ e.data = fs[t].data /\ e.mode = fs[t].mode
        /\ e.owner = CopyUid(Item)
    BY <1>2, OwnedFacts
  <2>5. fs[t].data # "part" /\ (SupportsModes => fs[t].mode = Item.perm)
    BY <1>1 DEF InstInv, TmpInv
  <2>6. Item' = Item /\ t' = t /\ SupportsModes' = SupportsModes /\ UidOf(Item)' = UidOf(Item)
    BY <2>2, SameItem DEF SupportsModes
  <2>7. CASE want
    <3>1. fs' = [fs EXCEPT ![t] = e]
      BY <1>4, <2>7
    <3> HIDE DEF e
    <3>2. FsInv' /\ t \in DOMAIN fs' /\ fs'[t] = e
      BY <1>2, <2>3, <2>4, <3>1, TmpSet
    <3>3. TmpInv'
      BY <2>2, <2>3, <2>4, <2>5, <2>6, <3>2 DEF TmpInv, Exists
    <3> QED
      BY <2>1, <3>2, <3>3
  <2>8. CASE ~want
    <3>1. fs' = fs
      BY <1>4, <2>8
    <3>2. FsInv'
      BY <3>1, FsSame DEF InstInv, Static
    <3>3. Item.op \in Copies => fs[t].owner = UidOf(Item)
      BY <1>2, <2>3, <2>8
    <3>4. TmpInv'
      BY <1>2, <2>2, <2>5, <2>6, <3>1, <3>3 DEF TmpInv, Exists
    <3> QED
      BY <2>1, <3>2, <3>4
  <2> QED
    BY <2>7, <2>8
<1> QED
  BY <1>3, <1>4 DEF Chown

\* The temporary file takes the place of the destination.
LEMMA RenameFs ==
  ASSUME InstInv, Static, pc = "rename", ~Occupied(Dst(Item)),
         fs' = Remove(Put(fs, Dst(Item), fs[Tmp(Dst(Item))]), Tmp(Dst(Item)))
  PROVE  /\ FsInv'
         /\ Dst(Item) \in DOMAIN fs' /\ fs'[Dst(Item)] = fs[Tmp(Dst(Item))]
<1> DEFINE t == Tmp(Dst(Item))
           d == Dst(Item)
           g == Put(fs, d, fs[t])
<1>1. /\ done < Len(Hierarchy) /\ Item.op # "INST_MKDIR"
      /\ t \in DOMAIN fs /\ EntryOK(fs[t]) /\ fs[t].type = "file" /\ Rooted(fs, t)
  BY TmpThere DEF Exists
<1>2. /\ fs[t].data # "part"
      /\ SupportsModes => fs[t].mode = Item.perm
      /\ Item.op \in Copies => fs[t].owner = UidOf(Item)
  BY DEF InstInv, TmpInv
<1>3. /\ d \in Seq(Element) \ {<<>>} /\ ~EndsTmp(d) /\ Parent(d) = Parent(t)
      /\ t # <<>> /\ EndsTmp(t) /\ t # d
  BY <1>1, HandFacts, TmpHand DEF InstInv
<1>4. d \in DOMAIN fs => fs[d].type # "directory"
  BY DEF Occupied, IsDir, Exists
<1>5. \A k \in ItemsOf(Copies) : d = Dst(Hierarchy[k]) => Right(Hierarchy[k], fs[t])
  <2> SUFFICES ASSUME NEW k \in ItemsOf(Copies), d = Dst(Hierarchy[k])
               PROVE  Right(Hierarchy[k], fs[t])
    OBVIOUS
  <2>1. Item.op \in Copies /\ UidOf(Item) = UidOf(Hierarchy[k]) /\ Item.perm = Hierarchy[k].perm
    BY <1>1, AgreeHand DEF InstInv
  <2> QED
    BY <1>2, <2>1 DEF Right
<1>6. fs' = Remove(g, t)
  OBVIOUS
<1>7. OnlyAt(fs, g, d) /\ g[d] = fs[t] /\ DOMAIN g = DOMAIN fs \cup {d}
  BY PutAt
<1>8. \A k \in ItemsOf(Copies) : d # Tmp(Dst(Hierarchy[k])) /\ t # Dst(Hierarchy[k])
  BY <1>3, TmpNotDst DEF InstInv, Counters
<1> HIDE DEF t, d
<1>9. TreeOK(g)
  <2>1. Rooted(fs, d)
    BY <1>1, <1>3 DEF Rooted
  <2>2. \A q \in DOMAIN fs : Parent(q) # d
    BY <1>3, <1>4, NoChildren DEF InstInv, FsInv
  <2> QED
    BY <1>1, <1>2, <1>3, <2>1, <2>2, PutTree DEF InstInv, FsInv
<1> HIDE DEF g
<1>10. OnlyAt(g, Remove(g, t), t) /\ DOMAIN Remove(g, t) = DOMAIN g \ {t}
  BY RemoveAt
<1>11. g[t] = fs[t] /\ t \in DOMAIN g
  BY <1>1, <1>3, <1>7 DEF OnlyAt
<1>12. TreeOK(fs')
  <2>1. \A q \in DOMAIN g : Parent(q) # t
    BY <1>1, <1>3, <1>9, <1>11, NoChildren
  <2> QED
    BY <1>6, <1>9, <2>1, RemoveTree
<1>13. NewRight(g)
  BY <1>5, <1>7, NewRightAt DEF InstInv, FsInv
<1>14. NewRight(fs')
  BY <1>6, <1>8, <1>10, <1>13, NewRightAt
<1>15. TmpOwned(g)
  BY <1>7, <1>8, TmpOwnedAt DEF InstInv, FsInv
<1>16. TmpOwned(fs')
  BY <1>6, <1>10, <1>15, TmpOwnedAt
<1>17. d \in DOMAIN fs' /\ fs'[d] = fs[t]
  BY <1>3, <1>6, <1>7, <1>10 DEF OnlyAt
<1> QED
  BY <1>12, <1>14, <1>16, <1>17, FsStep DEF Static, d, t

LEMMA RenameStep ==
  ASSUME InstInv, Static, NEW f, Rename(f)
  PROVE  Progress /\ FsInv' /\ PlaceInv' /\ TmpInv'
<1>1. pc = "rename" /\ pc \in Copying
  BY DEF Rename, Copying
<1>2. CASE Err
  BY <1>1, <1>2, ErrStep
<1>3. CASE /\ ~Occupied(Dst(Item))
           /\ fs' = Remove(Put(fs, Dst(Item), fs[Tmp(Dst(Item))]), Tmp(Dst(Item)))
           /\ EndCopy(FALSE) /\ UNCHANGED <<cwd, saved, at>>
  <2>1. FsInv'
    BY <1>1, <1>3, RenameFs
  <2>2. done < Len(Hierarchy) /\ at = 1 /\ cwd \in Seq(Names) /\ saved \in Seq(Names)
        /\ program = "installer"
    BY <1>1 DEF InstInv, PlaceInv
  <2>3. Progress /\ PlaceInv' /\ TmpInv'
    BY <1>3, <2>2, CopyEnded DEF InstInv
  <2> QED
    BY <2>1, <2>3
<1> QED
  BY <1>2, <1>3 DEF Rename

LEMMA EnterDirStep ==
  ASSUME InstInv, Static, NEW f, EnterDir(f)
  PROVE  Progress /\ FsInv' /\ PlaceInv' /\ TmpInv'
<1>1. /\ pc = "item" /\ program = "installer" /\ done < Len(Hierarchy) /\ Item.op \in Links
      /\ fs' = fs /\ at' = at
  BY DEF EnterDir
<1>2. at = 1 /\ cwd \in Seq(Names) /\ saved \in Seq(Names) /\ failed <= done
  BY <1>1 DEF InstInv, PlaceInv
<1>3. FsInv'
  BY <1>1, FsSame DEF Static, InstInv
<1>4. CASE EndItem(TRUE) /\ UNCHANGED <<cwd, saved>>
  <2>1. Progress /\ pc' = "item"
    BY <1>1, <1>4, EndItemProgress DEF InstInv, EndItem
  <2> QED
    BY <1>1, <1>2, <1>3, <1>4, <2>1, ItemEnded
<1>5. CASE /\ IsDir(Dir(Item)) /\ cwd' = Dir(Item) /\ saved' = cwd
           /\ Goto(IF dry THEN "leave" ELSE IF SupportsSymlinks THEN "link" ELSE "owner")
  <2> DEFINE l == IF dry THEN "leave" ELSE IF SupportsSymlinks THEN "link" ELSE "owner"
  <2>1. l \in Places
    BY DEF Places
  <2>2. Goto(l)
    BY <1>5
  <2>3. Progress
    BY <2>1, <2>2, GotoProgress DEF InstInv
  <2>4. pc' = l /\ done' = done
    BY <2>2 DEF Goto
  <2>5. Item' = Item /\ Dir(Item)' = Dir(Item) /\ Hierarchy' = Hierarchy /\ Win32' = Win32
    BY <2>4, SameItem
  <2>6. Dir(Item) \in Seq(Names) /\ Dir(Item) # Build
    BY <1>1, HandFacts DEF InstInv, Build
  <2>7. pc' \in {"link", "owner", "leave"} /\ (pc' = "link" => ~Win32) /\ (pc' = "owner" => Win32)
    BY <2>4 DEF SupportsSymlinks
  <2>8. IsDir(Dir(Item))'
    <3>1. Dir(Item) = <<>> \/ (Dir(Item) \in DOMAIN fs /\ fs[Dir(Item)].type = "directory")
      BY <1>5 DEF IsDir, Exists
    <3> QED
      BY <1>1, <2>5, <3>1 DEF IsDir, Exists
  <2>9. PlaceInv'
    BY <1>1, <1>2, <1>5, <2>3, <2>4, <2>5, <2>6, <2>7, <2>8 DEF PlaceInv, Progress, Copying, Static
  <2>10. TmpInv'
    BY <2>7 DEF TmpInv
  <2> QED
    BY <1>3, <2>3, <2>9, <2>10
<1> QED
  BY <1>4, <1>5 DEF EnterDir

LEMMA MakeLinkStep ==
  ASSUME InstInv, Static, NEW f, MakeLink(f)
  PROVE  Progress /\ FsInv' /\ PlaceInv' /\ TmpInv'
<1> DEFINE d == Dst(Item)
           made == Entry("symlink", Item.src, Bit, Me, MyGroup)
           fails == f \/ Exists(Dst(Item))
<1>1. pc = "link" /\ EndCopy(fails) /\ UNCHANGED <<cwd, saved, at>>
  BY DEF MakeLink
<1>2. /\ done < Len(Hierarchy) /\ at = 1 /\ Item.op \in Links /\ program = "installer"
      /\ cwd \in Seq(Names) /\ saved \in Seq(Names) /\ IsDir(Dir(Item))
  BY <1>1 DEF InstInv, PlaceInv
<1>3. Progress /\ PlaceInv' /\ TmpInv'
  BY <1>1, <1>2, CopyEnded DEF InstInv
<1>4. CASE fs' = fs
  BY <1>3, <1>4, FsSame DEF Static, InstInv
<1>5. CASE ~Exists(d) /\ fs' = Put(fs, d, made)
  <2>1. d \in Seq(Element) \ {<<>>} /\ ~EndsTmp(d) /\ Parent(d) = Dir(Item) /\ Item.src \in Names
    BY <1>2, HandFacts DEF InstInv, Links
  <2>2. EntryOK(made) /\ made.type = "symlink" /\ made.data \in Names
    BY <2>1, EntryFacts
  <2>3. Rooted(fs, d)
    BY <1>2, <2>1 DEF Rooted, IsDir, Exists
  <2>4. \A q \in DOMAIN fs : Parent(q) # d
    BY <1>5, <2>1, NoChildren DEF InstInv, FsInv, Exists
  <2>5. \A k \in ItemsOf(Copies) : d # Tmp(Dst(Hierarchy[k]))
    BY <2>1, TmpNotDst DEF InstInv, Counters
  <2>6. OnlyAt(fs, Put(fs, d, made), d) /\ Put(fs, d, made)[d] = made
        /\ DOMAIN Put(fs, d, made) = DOMAIN fs \cup {d}
    BY PutAt
  <2>7. fs' = Put(fs, d, made)
    BY <1>5
  <2> HIDE DEF d, made
  <2>9. made.data # "part"
    BY <2>2 DEF Names
  <2>10. TreeOK(fs')
    BY <2>1, <2>2, <2>3, <2>4, <2>7, <2>9, PutTree DEF InstInv, FsInv
  <2>11. NewRight(fs')
    BY <2>2, <2>6, <2>7, NewRightAt DEF InstInv, FsInv
  <2>12. TmpOwned(fs')
    BY <2>5, <2>6, <2>7, TmpOwnedAt DEF InstInv, FsInv
  <2> QED
    BY <1>3, <2>10, <2>11, <2>12, FsStep DEF Static
<1>6. fs' = fs \/ (~Exists(d) /\ fs' = Put(fs, d, made))
  BY DEF MakeLink
<1> QED
  BY <1>4, <1>5, <1>6

LEMMA CopyLinkStep ==
  ASSUME InstInv, Static, NEW f, CopyLink(f)
  PROVE  Progress /\ FsInv' /\ PlaceInv' /\ TmpInv'
<1>1. pc = "owner" /\ fs' = fs /\ cwd' = cwd /\ saved' = saved /\ at' = at
  BY DEF CopyLink, Nothing
<1>2. /\ done < Len(Hierarchy) /\ at = 1 /\ Item.op \in Links /\ program = "installer"
      /\ cwd \in Seq(Names) /\ saved \in Seq(Names) /\ Win32 /\ cwd # Build
  BY <1>1 DEF InstInv, PlaceInv
<1>3. FsInv'
  BY <1>1, FsSame DEF Static, InstInv
<1>4. CASE EndCopy(TRUE)
  BY <1>1, <1>2, <1>3, <1>4, CopyEnded DEF InstInv
<1>5. CASE Goto("source")
  <2>1. Progress
    BY <1>5, GotoProgress DEF InstInv, Places
  <2>2. pc' = "source" /\ done' = done
    BY <1>5 DEF Goto
  <2>3. Item' = Item /\ Hierarchy' = Hierarchy /\ Win32' = Win32
    BY <2>2, SameItem
  <2>4. Item.op # "INST_MKDIR"
    BY <1>2 DEF Links
  <2>5. PlaceInv'
    BY <1>1, <1>2, <2>1, <2>2, <2>3, <2>4 DEF PlaceInv, Progress, Copying, Static
  <2>6. TmpInv'
    BY <2>2 DEF TmpInv
  <2> QED
    BY <1>3, <2>1, <2>5, <2>6
<1> QED
  BY <1>4, <1>5 DEF CopyLink

LEMMA LeaveDirStep ==
  ASSUME InstInv, Static, NEW f, LeaveDir(f)
  PROVE  Progress /\ FsInv' /\ PlaceInv' /\ TmpInv'
<1>1. /\ pc = "leave" /\ fs' = fs /\ saved' = saved /\ at' = at /\ cwd' \in {cwd, saved}
      /\ EndItem(f)
  BY DEF LeaveDir
<1>2. done < Len(Hierarchy) /\ at = 1 /\ cwd \in Seq(Names) /\ saved \in Seq(Names)
  BY <1>1 DEF InstInv, PlaceInv
<1>3. FsInv'
  BY <1>1, FsSame DEF Static, InstInv
<1>4. Progress /\ pc' = "item"
  BY <1>1, <1>2, EndItemProgress DEF InstInv, EndItem
<1>5. cwd' \in Seq(Names)
  BY <1>1, <1>2
<1> QED
  BY <1>1, <1>2, <1>3, <1>4, <1>5, ItemEnded

-----------------------------------------------------------------------------
(* The deinstaller and instchk.                                             *)

\* An entry without children goes, or none does.
LEMMA RemoveFs ==
  ASSUME InstInv, Static, NEW p, \A q \in DOMAIN fs : Parent(q) # p, fs' = Remove(fs, p)
  PROVE  FsInv'
<1>1. TreeOK(fs')
  BY RemoveTree DEF InstInv, FsInv
<1>2. OnlyAt(fs, Remove(fs, p), p) /\ DOMAIN Remove(fs, p) = DOMAIN fs \ {p}
  BY RemoveAt
<1>3. NewRight(fs')
  BY <1>2, NewRightAt DEF InstInv, FsInv
<1>4. TmpOwned(fs')
  BY <1>2, TmpOwnedAt DEF InstInv, FsInv
<1> QED
  BY <1>1, <1>3, <1>4, FsStep DEF Static

LEMMA DeinstallStep ==
  ASSUME InstInv, Static, NEW f, Deinstall(f)
  PROVE  Progress /\ FsInv' /\ PlaceInv' /\ TmpInv'
<1> DEFINE p == Dst(Item)
           removable == IF Item.op = "INST_MKDIR" THEN Exists(p) /\ IsDir(p) /\ Empty(p)
                                                  ELSE Exists(p) /\ ~IsDir(p)
           fails == ~dry /\ (f \/ ~removable)
<1>1. /\ pc = "item" /\ done < Len(Hierarchy) /\ UNCHANGED <<cwd, saved, at>> /\ EndItem(fails)
      /\ fs' = fs \/ (removable /\ fs' = Remove(fs, p))
  BY DEF Deinstall
<1>2. at = 1 /\ cwd \in Seq(Names) /\ saved \in Seq(Names)
  BY <1>1 DEF InstInv, PlaceInv
<1>3. Progress /\ pc' = "item"
  <2>1. EndItem(fails)
    BY <1>1
  <2> HIDE DEF fails
  <2> QED
    BY <1>1, <2>1, EndItemProgress DEF InstInv, EndItem
<1>4. FsInv'
  <2>1. CASE fs' = fs
    BY <2>1, FsSame DEF Static, InstInv
  <2>2. CASE removable /\ fs' = Remove(fs, p)
    <3>1. \A q \in DOMAIN fs : Parent(q) # p
      <4>1. CASE Item.op = "INST_MKDIR"
        BY <2>2, <4>1 DEF Empty
      <4>2. CASE Item.op # "INST_MKDIR"
        <5>1. p # <<>>
          BY <1>1, HandFacts DEF InstInv
        <5>2. p \in DOMAIN fs => fs[p].type # "directory"
          BY <2>2, <4>2 DEF IsDir, Exists
        <5> HIDE DEF p
        <5> QED
          BY <5>1, <5>2, NoChildren DEF InstInv, FsInv
      <4> QED
        BY <4>1, <4>2
    <3>2. fs' = Remove(fs, p)
      BY <2>2
    <3> HIDE DEF p
    <3> QED
      BY <3>1, <3>2, RemoveFs
  <2> QED
    BY <1>1, <2>1, <2>2
<1> QED
  BY <1>1, <1>2, <1>3, <1>4, ItemEnded

LEMMA CheckItemStep ==
  ASSUME InstInv, Static, NEW f, CheckItem(f)
  PROVE  Progress /\ FsInv' /\ PlaceInv' /\ TmpInv'
<1>1. /\ pc = "item" /\ done < Len(Hierarchy) /\ pc' = "item" /\ done' = done + 1
      /\ fs' = fs /\ cwd' = cwd /\ saved' = saved /\ at' = at
  BY DEF CheckItem, Nothing
<1>2. at = 1 /\ cwd \in Seq(Names) /\ saved \in Seq(Names) /\ failed <= done
  BY <1>1 DEF InstInv, PlaceInv
<1>3. failed' \in {failed, failed + 1}
  <2>1. failed \in Nat
    BY Numbers DEF InstInv
  <2> QED
    BY <2>1 DEF CheckItem
<1>4. errors' \in BOOLEAN
  <2>1. CASE errors' = TRUE
    BY <2>1
  <2>2. CASE errors' = (errors \/ (f \/ ~Approved(Item)))
    BY <2>2
  <2> QED
    BY <2>1, <2>2 DEF CheckItem
<1>5. Progress
  BY <1>1, <1>2, <1>3, <1>4, Numbers DEF Progress, Places, InstInv
<1>6. FsInv'
  BY <1>1, FsSame DEF Static, InstInv
<1> QED
  BY <1>1, <1>2, <1>5, <1>6, ItemEnded

LEMMA StepStep ==
  ASSUME InstInv, Step
  PROVE  InstInv'
<1>1. Static
  BY DEF Step, Static
<1>2. Progress /\ FsInv' /\ PlaceInv' /\ TmpInv'
  <2>1. CASE BeginItem
    BY <1>1, <2>1, BeginItemStep
  <2>2. ASSUME NEW f \in BOOLEAN, Call(f)
        PROVE  Progress /\ FsInv' /\ PlaceInv' /\ TmpInv'
    <3>1. CASE MakeDir(f)
      BY <1>1, <3>1, MakeDirStep
    <3>2. CASE MkdirOwn(f)
      BY <1>1, <3>2, MkdirOwnStep
    <3>3. CASE OpenSource(f)
      BY <1>1, <3>3, OpenSourceStep
    <3>4. CASE OpenTmp(f)
      BY <1>1, <3>4, OpenTmpStep
    <3>5. CASE Fill(f)
      BY <1>1, <3>5, FillStep
    <3>6. CASE Chmod(f)
      BY <1>1, <3>6, ChmodStep
    <3>7. CASE Chown(f)
      BY <1>1, <3>7, ChownStep
    <3>8. CASE Rename(f)
      BY <1>1, <3>8, RenameStep
    <3>9. CASE EnterDir(f)
      BY <1>1, <3>9, EnterDirStep
    <3>10. CASE MakeLink(f)
      BY <1>1, <3>10, MakeLinkStep
    <3>11. CASE CopyLink(f)
      BY <1>1, <3>11, CopyLinkStep
    <3>12. CASE LeaveDir(f)
      BY <1>1, <3>12, LeaveDirStep
    <3>13. CASE Deinstall(f)
      BY <1>1, <3>13, DeinstallStep
    <3>14. CASE CheckItem(f)
      BY <1>1, <3>14, CheckItemStep
    <3> QED
      BY <2>2, <3>1, <3>2, <3>3, <3>4, <3>5, <3>6, <3>7, <3>8, <3>9, <3>10, <3>11, <3>12, <3>13, <3>14
         DEF Call
  <2> QED
    BY <2>1, <2>2 DEF Step
<1>3. Succeeds \/ Fails
  BY DEF Step
<1>4. Counters'
  BY <1>1, <1>2, <1>3, StepCounters DEF InstInv
<1> QED
  BY <1>2, <1>4 DEF InstInv

-----------------------------------------------------------------------------
(* Between the calls, and between the runs.                                 *)

\* Nothing is asked of a program that does not run.
LEMMA Idle ==
  ASSUME pc' = "idle", cwd' \in Seq(Names), saved' \in Seq(Names), failed' <= done'
  PROVE  PlaceInv' /\ TmpInv'
<1>1. TmpInv'
  BY DEF TmpInv
<1>2. PlaceInv'
  BY DEF PlaceInv, Copying
<1> QED
  BY <1>1, <1>2

LEMMA StartStep ==
  ASSUME InstInv, NEW p \in {"installer", "deinstaller", "instchk"}, NEW d \in BOOLEAN, Start(p, d)
  PROVE  InstInv'
<1>1. /\ system' = system /\ fs' = fs /\ program' = p /\ dry' = d /\ faults' = faults
      /\ cwd' = <<>> /\ saved' = <<>> /\ at' = 1 /\ done' = 0 /\ failed' = 0 /\ errors' = FALSE
      /\ calm' = TRUE
      /\ quiet' \in {0, quiet} /\ runs < MaxRuns /\ runs' = runs + 1
      /\ \/ pc' = "item" /\ exit' = "none"
         \/ pc' = "idle" /\ exit' = "1"
  BY DEF Start, Build
<1>2. FsInv'
  BY <1>1, FsSame DEF InstInv
<1>3. <<>> \in Seq(Names)
  OBVIOUS
<1>4. PlaceInv' /\ TmpInv'
  <2>1. CASE pc' = "idle"
    BY <1>1, <1>3, <2>1, Idle
  <2>2. CASE pc' = "item"
    <3>1. TmpInv'
      BY <2>2 DEF TmpInv
    <3>2. PlaceInv'
      BY <1>1, <1>3, <2>2 DEF PlaceInv, Copying
    <3> QED
      BY <3>1, <3>2
  <2> QED
    BY <1>1, <2>1, <2>2
<1>5. Counters'
  <2>1. MaxRuns \in Nat /\ runs \in 0 .. MaxRuns /\ faults \in 0 .. MaxFaults /\ quiet \in 0 .. 2
    BY SystemsAssumption DEF InstInv, Counters
  <2>2. runs' \in 0 .. MaxRuns /\ faults' \in 0 .. MaxFaults /\ quiet' \in 0 .. 2
    BY <1>1, <2>1
  <2>3. Hierarchy' = Hierarchy /\ Len(Hierarchy) \in Nat /\ system' \in Systems
    BY <1>1, Numbers DEF Hierarchy, InstInv, Counters
  <2>4. done' \in 0 .. Len(Hierarchy') /\ failed' \in 0 .. Len(Hierarchy')
    BY <1>1, <2>3
  <2>5. dry' \in BOOLEAN /\ errors' \in BOOLEAN /\ calm' \in BOOLEAN
    BY <1>1
  <2>6. program' \in {"installer", "deinstaller", "instchk"} /\ pc' \in {"item", "idle"}
        /\ exit' \in {"none", "1"}
    BY <1>1
  <2> QED
    BY <2>2, <2>3, <2>4, <2>5, <2>6 DEF Counters
<1> QED
  BY <1>2, <1>4, <1>5 DEF InstInv

LEMMA FinishStep ==
  ASSUME InstInv, Finish
  PROVE  InstInv'
<1>1. /\ UNCHANGED <<system, fs, cwd, saved, program, dry, done, failed, errors, runs, faults, calm>>
      /\ pc' = "idle" /\ exit' \in {"0", "1"} /\ pc = "item"
      /\ quiet' = IF program = "installer" /\ ~dry /\ calm /\ quiet < 2 THEN quiet + 1 ELSE quiet
  BY DEF Finish
<1>2. FsInv'
  BY <1>1, FsSame DEF InstInv
<1>3. PlaceInv' /\ TmpInv'
  BY <1>1, Idle DEF InstInv, PlaceInv
<1>4. quiet' \in 0 .. 2
  <2>1. quiet \in 0 .. 2
    BY DEF InstInv, Counters
  <2> QED
    BY <1>1, <2>1
<1>5. Counters'
  BY <1>1, <1>4 DEF InstInv, Counters, Hierarchy
<1> QED
  BY <1>2, <1>3, <1>5 DEF InstInv

LEMMA DiesStep ==
  ASSUME InstInv, Dies, faults' \in 0 .. MaxFaults
  PROVE  InstInv'
<1>1. /\ UNCHANGED <<system, fs, cwd, saved, program, dry, done, failed, errors, runs>>
      /\ pc' = "idle" /\ exit' = "died" /\ calm' = FALSE /\ quiet' = 0
  BY DEF Dies
<1>2. FsInv'
  BY <1>1, FsSame DEF InstInv
<1>3. PlaceInv' /\ TmpInv'
  BY <1>1, Idle DEF InstInv, PlaceInv
<1>4. quiet' \in 0 .. 2 /\ calm' \in BOOLEAN
  <2>1. quiet' \in 0 .. 2
    BY <1>1
  <2>2. calm' \in BOOLEAN
    BY <1>1
  <2> QED
    BY <2>1, <2>2
<1>5. Counters'
  BY <1>1, <1>4 DEF InstInv, Counters, Hierarchy
<1> QED
  BY <1>2, <1>3, <1>5 DEF InstInv

LEMMA OtherStep ==
  ASSUME InstInv, Other
  PROVE  InstInv'
<1>1. /\ UNCHANGED <<system, cwd, saved, program, dry, pc, done, failed, errors, runs, exit, faults>>
      /\ pc = "idle" /\ quiet' = 0 /\ calm' = FALSE
  BY DEF Other
<1>2. PICK o \in system.others :
        IsDir(Parent(o[1])) /\ (IsDir(o[1]) => Empty(o[1])) /\ fs' = Put(fs, o[1], o[2])
  BY DEF Other
<1> DEFINE p == o[1]
           e == o[2]
<1>3. p \in Paths /\ e \in OthersEntry
  BY <1>2, SystemsAssumption DEF InstInv, Counters, TreeAssumption
<1>4. IsDir(Parent(p)) /\ (IsDir(p) => Empty(p)) /\ fs' = Put(fs, p, e)
  BY <1>2
<1> HIDE DEF p, e
<1>5. p \in Seq(Element) \ {<<>>} /\ ~EndsTmp(p)
  <2>1. p \in Seq(Names) /\ p # <<>>
    BY <1>3 DEF Paths
  <2>2. Len(p) \in 1 .. Len(p)
    <3>1. Len(p) \in Nat /\ Len(p) # 0
      BY <2>1, EmptySeq
    <3> QED
      BY <3>1
  <2>3. p[Len(p)] \in Names
    BY <2>1, <2>2
  <2>4. ~EndsTmp(p)
    BY <2>3 DEF EndsTmp, Names
  <2>5. p \in Seq(Element)
    BY <2>1 DEF Element
  <2> QED
    BY <2>1, <2>4, <2>5
<1>6. EntryOK(e) /\ e.data \in Names
  BY <1>3 DEF OthersEntry, EntryOK, Fields
<1>7. e.data # "part" /\ e.data # "new"
  BY <1>6 DEF Names
<1>8. Rooted(fs, p)
  BY <1>4 DEF Rooted, IsDir, Exists
<1>9. \A q \in DOMAIN fs : Parent(q) # p
  <2>1. CASE IsDir(p)
    BY <1>4, <2>1 DEF Empty
  <2>2. CASE ~IsDir(p)
    <3>1. p # <<>> /\ (p \in DOMAIN fs => fs[p].type # "directory")
      BY <2>2 DEF IsDir, Exists
    <3> QED
      BY <3>1, NoChildren DEF InstInv, FsInv
  <2> QED
    BY <2>1, <2>2
<1>10. TreeOK(fs')
  BY <1>4, <1>5, <1>6, <1>7, <1>8, <1>9, PutTree DEF InstInv, FsInv
<1>11. OnlyAt(fs, Put(fs, p, e), p) /\ Put(fs, p, e)[p] = e
       /\ DOMAIN Put(fs, p, e) = DOMAIN fs \cup {p}
  BY PutAt
<1>12. NewRight(fs')
  BY <1>4, <1>7, <1>11, NewRightAt DEF InstInv, FsInv
<1>13. \A k \in ItemsOf(Copies) : p # Tmp(Dst(Hierarchy[k]))
  BY <1>5, TmpNotDst DEF InstInv, Counters
<1>14. TmpOwned(fs')
  BY <1>4, <1>11, <1>13, TmpOwnedAt DEF InstInv, FsInv
<1>15. FsInv'
  BY <1>1, <1>10, <1>12, <1>14, FsStep
<1>16. PlaceInv' /\ TmpInv'
  BY <1>1, Idle DEF InstInv, PlaceInv
<1>17. quiet' \in 0 .. 2 /\ calm' \in BOOLEAN
  <2>1. quiet' \in 0 .. 2
    BY <1>1
  <2>2. calm' \in BOOLEAN
    BY <1>1
  <2> QED
    BY <2>1, <2>2
<1>18. Counters'
  BY <1>1, <1>17 DEF InstInv, Counters, Hierarchy
<1> QED
  BY <1>15, <1>16, <1>18 DEF InstInv

LEMMA Stutter ==
  ASSUME InstInv, UNCHANGED vars
  PROVE  InstInv'
<1>1. FsInv'
  BY FsSame DEF vars, InstInv
<1>2. Counters'
  BY DEF vars, InstInv, Counters, Hierarchy
<1>3. Item' = Item /\ Hierarchy' = Hierarchy /\ Win32' = Win32 /\ Dir(Item)' = Dir(Item)
      /\ Dst(Item)' = Dst(Item) /\ UidOf(Item)' = UidOf(Item)
  BY SameItem DEF vars, Static
<1>4. PlaceInv'
  BY <1>3 DEF vars, InstInv, PlaceInv, IsDir, Exists
<1>5. TmpInv'
  BY <1>3 DEF vars, InstInv, TmpInv, Exists, Source, Followed, Program, SupportsModes, Win32, Tmp
<1> QED
  BY <1>1, <1>2, <1>4, <1>5 DEF InstInv

LEMMA NextStep ==
  ASSUME InstInv, [Next]_vars
  PROVE  InstInv'
<1>1. ASSUME NEW p \in {"installer", "deinstaller"}, NEW d \in BOOLEAN, Start(p, d)
      PROVE  InstInv'
  BY <1>1, StartStep
<1>2. CASE Start("instchk", FALSE)
  BY <1>2, StartStep
<1>3. CASE Step
  BY <1>3, StepStep
<1>4. CASE Finish
  BY <1>4, FinishStep
<1>5. CASE Kill
  <2>1. faults' \in 0 .. MaxFaults
    BY <1>5, SystemsAssumption DEF Kill, InstInv, Counters
  <2> QED
    BY <1>5, <2>1, DiesStep DEF Kill
<1>6. CASE DoubleClose
  <2>1. faults' \in 0 .. MaxFaults
    BY <1>6 DEF DoubleClose, InstInv, Counters
  <2> QED
    BY <1>6, <2>1, DiesStep DEF DoubleClose
<1>7. CASE Other
  BY <1>7, OtherStep
<1>8. CASE UNCHANGED vars
  BY <1>8, Stutter
<1> QED
  BY <1>1, <1>2, <1>3, <1>4, <1>5, <1>6, <1>7, <1>8 DEF Next, Ended

-----------------------------------------------------------------------------
(* The first tree.                                                          *)

LEMMA PathFacts ==
  ASSUME NEW p \in Paths
  PROVE  p \in Seq(Element) \ {<<>>} /\ ~EndsTmp(p)
<1>1. p \in Seq(Names) /\ p # <<>>
  BY DEF Paths
<1>2. Len(p) \in 1 .. Len(p)
  <2>1. Len(p) \in Nat /\ Len(p) # 0
    BY <1>1, EmptySeq
  <2> QED
    BY <2>1
<1>3. p[Len(p)] \in Names
  BY <1>1, <1>2
<1>4. p \in Seq(Element)
  BY <1>1 DEF Element
<1> QED
  BY <1>1, <1>3, <1>4 DEF EndsTmp, Names

\* The parent of a prefix is nothing or a prefix.
LEMMA PrefixFacts ==
  ASSUME NEW d \in Seq(Names), NEW p \in Prefixes(d)
  PROVE  p \in Paths /\ Parent(p) \in Prefixes(d) \cup {<<>>}
<1>1. PICK n \in 1 .. Len(d) : p = SubSeq(d, 1, n)
  BY DEF Prefixes
<1>2. Len(d) \in Nat /\ n \in Nat /\ n # 0
  BY <1>1
<1>3. p \in Seq(Names) /\ Len(p) = n /\ \A i \in 1 .. n : p[i] = d[i]
  <2>1. SubSeq(d, 1, n) \in Seq(Names) /\ Len(SubSeq(d, 1, n)) = n
        /\ \A i \in 1 .. n : SubSeq(d, 1, n)[i] = d[i]
    BY <1>1, <1>2, SubSeqProperties
  <2> QED
    BY <1>1, <2>1
<1>4. p \in Paths
  BY <1>2, <1>3, EmptySeq DEF Paths
<1>5. Parent(p) = SubSeq(p, 1, n - 1)
  BY <1>3, <1>4, PathFacts DEF Parent, EndsTmp
<1>6. CASE n = 1
  <2>1. Parent(p) = <<>>
    BY <1>3, <1>5, <1>6
  <2> QED
    BY <1>4, <2>1
<1>7. CASE n # 1
  <2>1. n - 1 \in 1 .. Len(d) /\ n - 1 \in Nat /\ n - 1 <= n
    BY <1>1, <1>2, <1>7
  <2>2. SubSeq(p, 1, n - 1) \in Seq(Names) /\ Len(SubSeq(p, 1, n - 1)) = n - 1
        /\ \A i \in 1 .. n - 1 : SubSeq(p, 1, n - 1)[i] = p[i]
    BY <1>3, <2>1, SubSeqProperties
  <2>3. SubSeq(d, 1, n - 1) \in Seq(Names) /\ Len(SubSeq(d, 1, n - 1)) = n - 1
        /\ \A i \in 1 .. n - 1 : SubSeq(d, 1, n - 1)[i] = d[i]
    BY <2>1, SubSeqProperties
  <2>4. \A i \in 1 .. n - 1 : SubSeq(p, 1, n - 1)[i] = SubSeq(d, 1, n - 1)[i]
    BY <1>2, <1>3, <2>1, <2>2, <2>3
  <2>5. SubSeq(p, 1, n - 1) = SubSeq(d, 1, n - 1)
    BY <2>2, <2>3, <2>4, SeqEqual
  <2> QED
    BY <1>4, <1>5, <2>1, <2>5 DEF Prefixes
<1> QED
  BY <1>6, <1>7

LEMMA BareTree ==
  ASSUME system \in Systems
  PROVE  TreeOK(Bare) /\ NewRight(Bare) /\ TmpOwned(Bare)
<1> DEFINE dir == Entry("directory", "dir", {"w", "x", "o"}, Me, MyGroup)
<1>1. EntryOK(dir) /\ dir.type = "directory" /\ dir.data = "dir"
  BY EntryFacts DEF Bit
<1>2. DOMAIN Bare = system.base /\ \A p \in DOMAIN Bare : Bare[p] = dir
  BY DEF Bare
<1>3. \A p \in system.base : /\ p \in Seq(Element) \ {<<>>} /\ ~EndsTmp(p)
                             /\ Parent(p) \in system.base \cup {<<>>}
  BY SystemsAssumption, PathFacts DEF TreeAssumption
<1> HIDE DEF dir
<1>4. TreeOK(Bare)
  BY <1>1, <1>2, <1>3 DEF TreeOK, NodeOK, Rooted
<1>5. NewRight(Bare)
  BY <1>1, <1>2 DEF NewRight
<1>6. TmpOwned(Bare)
  BY <1>2, <1>3, TmpNotDst DEF TmpOwned
<1> QED
  BY <1>4, <1>5, <1>6

LEMMA EarlierTree ==
  ASSUME system \in Systems
  PROVE  TreeOK(Earlier) /\ NewRight(Earlier) /\ TmpOwned(Earlier)
<1> DEFINE dir == Entry("directory", "dir", {"w", "x", "o"}, Me, MyGroup)
           dirs == UNION {Prefixes(Dir(Hierarchy[k])) : k \in ItemsOf({"INST_MKDIR"})}
           known == {k \in ItemsOf(Copies) : OwnerKnown(Hierarchy[k])}
           item(p) == Hierarchy[CHOOSE k \in known : Dst(Hierarchy[k]) = p]
           old(p) == Entry("file", "old", item(p).perm, UidOf(item(p)), GidOf(item(p)))
           dsts == {Dst(Hierarchy[k]) : k \in known}
           f == Earlier
<1>1. /\ DOMAIN f = system.base \cup dirs \cup dsts
      /\ \A p \in DOMAIN f : f[p] = IF p \in system.base \cup dirs THEN dir ELSE old(p)
  BY DEF Earlier
<1>2. EntryOK(dir) /\ dir.type = "directory" /\ dir.data = "dir"
  BY EntryFacts DEF Bit
<1>3. \A p \in system.base : /\ p \in Seq(Element) \ {<<>>} /\ ~EndsTmp(p)
                             /\ Parent(p) \in system.base \cup {<<>>}
  BY SystemsAssumption, PathFacts DEF TreeAssumption
<1>4. \A p \in dirs : /\ p \in Seq(Element) \ {<<>>} /\ ~EndsTmp(p)
                      /\ Parent(p) \in dirs \cup {<<>>}
  <2> SUFFICES ASSUME NEW k \in ItemsOf({"INST_MKDIR"}), NEW p \in Prefixes(Dir(Hierarchy[k]))
               PROVE  /\ p \in Seq(Element) \ {<<>>} /\ ~EndsTmp(p)
                      /\ Parent(p) \in dirs \cup {<<>>}
    OBVIOUS
  <2>1. Dir(Hierarchy[k]) \in Seq(Names)
    BY ItemFacts DEF ItemsOf
  <2>2. p \in Paths /\ Parent(p) \in Prefixes(Dir(Hierarchy[k])) \cup {<<>>}
    BY <2>1, PrefixFacts
  <2>3. p \in Seq(Element) \ {<<>>} /\ ~EndsTmp(p)
    BY <2>2, PathFacts
  <2> QED
    BY <2>2, <2>3
<1>5. \A p \in dsts : /\ p \in Seq(Element) \ {<<>>} /\ ~EndsTmp(p)
                      /\ Parent(p) \in system.base \cup dirs
                      /\ EntryOK(old(p)) /\ old(p).type = "file" /\ old(p).data = "old"
  <2> SUFFICES ASSUME NEW k \in known
               PROVE  LET p == Dst(Hierarchy[k])
                      IN /\ p \in Seq(Element) \ {<<>>} /\ ~EndsTmp(p)
                         /\ Parent(p) \in system.base \cup dirs
                         /\ EntryOK(old(p)) /\ old(p).type = "file" /\ old(p).data = "old"
    OBVIOUS
  <2> DEFINE p == Dst(Hierarchy[k])
  <2>1. k \in DOMAIN Hierarchy /\ Hierarchy[k].op \in Copies /\ Hierarchy[k].op # "INST_MKDIR"
    BY DEF ItemsOf, Copies
  <2>2. p \in Seq(Element) \ {<<>>} /\ ~EndsTmp(p) /\ Parent(p) = Dir(Hierarchy[k])
    BY <2>1, ItemFacts
  <2>3. \/ Dir(Hierarchy[k]) \in system.base
        \/ \E j \in DOMAIN Hierarchy : Hierarchy[j].op = "INST_MKDIR" /\ Hierarchy[j].dir = Hierarchy[k].dir
    BY <2>1, SystemsAssumption DEF TreeAssumption, Hierarchy, Dir
  <2>4. Dir(Hierarchy[k]) \in system.base \cup dirs
    <3>1. ASSUME NEW j \in DOMAIN Hierarchy, Hierarchy[j].op = "INST_MKDIR",
                 Hierarchy[j].dir = Hierarchy[k].dir
          PROVE  Dir(Hierarchy[k]) \in dirs
      <4>1. Dir(Hierarchy[j]) = Dir(Hierarchy[k]) /\ j \in ItemsOf({"INST_MKDIR"})
        BY <3>1 DEF Dir, DirIn, ItemsOf
      <4>2. Dir(Hierarchy[j]) \in Seq(Names) /\ Dir(Hierarchy[j]) # <<>>
        BY ItemFacts
      <4>3. Dir(Hierarchy[j]) \in Prefixes(Dir(Hierarchy[j]))
        <5> DEFINE d == Dir(Hierarchy[j])
        <5>0. d \in Seq(Names) /\ d # <<>>
          BY <4>2
        <5> HIDE DEF d
        <5>1. Len(d) \in 1 .. Len(d)
          <6>1. Len(d) \in Nat /\ Len(d) # 0
            BY <5>0, EmptySeq
          <6> QED
            BY <6>1
        <5>2. SubSeq(d, 1, Len(d)) = d
          BY <5>0
        <5>3. d \in Prefixes(d)
          BY <5>1, <5>2 DEF Prefixes
        <5> QED
          BY <5>3 DEF d
      <4> QED
        BY <4>1, <4>3
    <3> QED
      BY <2>3, <3>1
  <2>5. \E j \in known : Dst(Hierarchy[j]) = p
    OBVIOUS
  <2>6. PICK j \in known : item(p) = Hierarchy[j]
    BY <2>5
  <2>7. item(p).perm \in SUBSET Bit
    BY <2>6, ItemFacts DEF ItemsOf
  <2> HIDE DEF item
  <2>8. EntryOK(old(p)) /\ old(p).type = "file" /\ old(p).data = "old"
    BY <2>7, EntryFacts
  <2> QED
    BY <2>2, <2>4, <2>8
<1> HIDE DEF dir, dirs, dsts, old, f
<1>6. TreeOK(f)
  <2> SUFFICES ASSUME NEW p \in DOMAIN f
               PROVE  NodeOK(f, p) /\ Rooted(f, p)
    BY DEF TreeOK
  <2>1. CASE p \in system.base \cup dirs
    <3>1. f[p] = dir /\ p \in Seq(Element) \ {<<>>} /\ ~EndsTmp(p)
          /\ Parent(p) \in system.base \cup dirs \cup {<<>>}
      BY <1>1, <1>3, <1>4, <2>1
    <3>2. NodeOK(f, p)
      BY <1>2, <3>1 DEF NodeOK
    <3>3. Rooted(f, p)
      BY <1>1, <1>2, <3>1 DEF Rooted
    <3> QED
      BY <3>2, <3>3
  <2>2. CASE p \notin system.base \cup dirs
    <3>1. f[p] = old(p) /\ p \in dsts
      BY <1>1, <2>2
    <3>2. NodeOK(f, p)
      BY <1>5, <3>1 DEF NodeOK
    <3>3. Rooted(f, p)
      BY <1>1, <1>2, <1>5, <3>1 DEF Rooted
    <3> QED
      BY <3>2, <3>3
  <2> QED
    BY <2>1, <2>2
<1>7. \A p \in DOMAIN f : ~EndsTmp(p) /\ f[p].data # "new"
  BY <1>1, <1>2, <1>3, <1>4, <1>5
<1>8. NewRight(f)
  BY <1>7 DEF NewRight
<1>9. TmpOwned(f)
  BY <1>7, TmpNotDst DEF TmpOwned
<1> QED
  BY <1>6, <1>8, <1>9 DEF f

LEMMA InitInv ==
  ASSUME Init
  PROVE  InstInv
<1>1. /\ system \in Systems /\ fs \in {Bare, Earlier}
      /\ cwd = <<>> /\ saved = <<>> /\ program = "installer" /\ dry = FALSE /\ pc = "idle"
      /\ done = 0 /\ errors = FALSE /\ failed = 0 /\ exit = "none"
      /\ runs = 0 /\ faults = 0 /\ calm = TRUE /\ quiet = 0
  BY DEF Init, Build
<1>2. FsInv
  BY <1>1, BareTree, EarlierTree DEF FsInv
<1>3. TmpInv
  BY <1>1 DEF TmpInv
<1>4. PlaceInv
  <2>1. <<>> \in Seq(Names)
    OBVIOUS
  <2> QED
    BY <1>1, <2>1 DEF PlaceInv, Copying
<1>5. Counters
  <2>1. Len(Hierarchy) \in Nat
    <3>1. Hierarchy \in Seq(InstallItem)
      BY <1>1, SystemsAssumption DEF TableAssumption, Hierarchy
    <3> QED
      BY <3>1
  <2>2. MaxRuns \in Nat /\ MaxFaults \in Nat
    BY SystemsAssumption
  <2>3. done \in 0 .. Len(Hierarchy) /\ failed \in 0 .. Len(Hierarchy)
        /\ runs \in 0 .. MaxRuns /\ faults \in 0 .. MaxFaults /\ quiet \in 0 .. 2
    BY <1>1, <2>1, <2>2
  <2>4. {dry, errors, calm} \subseteq BOOLEAN
    BY <1>1
  <2> QED
    BY <1>1, <2>3, <2>4 DEF Counters
<1> QED
  BY <1>2, <1>3, <1>4, <1>5 DEF InstInv

\* The invariant holds of every execution.
THEOREM Invariance == Spec => []InstInv
<1>1. Init => InstInv
  BY InitInv
<1>2. InstInv /\ [Next]_vars => InstInv'
  BY NextStep
<1> QED
  BY <1>1, <1>2, PTL DEF Spec

-----------------------------------------------------------------------------
(* What it promises.                                                        *)

\* The variables of Installer have their types, and what exists is in a
\* directory: neither the deinstaller, whatever the table, nor an install that
\* was cut short leaves anything without one.
THEOREM TypeCorrect == Spec => []TypeOK
<1>1. InstInv => TypeOK
  <2> SUFFICES ASSUME InstInv PROVE TypeOK
    OBVIOUS
  <2>1. \A p \in DOMAIN fs :
          /\ p # <<>>
          /\ fs[p].type \in {"file", "directory", "symlink"}
          /\ fs[p].mode \in SUBSET Bit
          /\ Parent(p) = <<>> \/ (Exists(Parent(p)) /\ fs[Parent(p)].type = "directory")
    BY DEF InstInv, FsInv, TreeOK, NodeOK, EntryOK, Rooted, Exists
  <2> QED
    BY <2>1 DEF InstInv, Counters, TypeOK
<1> QED
  BY <1>1, Invariance, PTL

\* Whatever fails and whenever a program is killed, a file under its final name
\* is whole and, if it is of this version, has its final mode and owner.
THEOREM Whole == Spec => []DestinationWhole
<1>1. InstInv => DestinationWhole
  <2> SUFFICES ASSUME InstInv,
                      NEW it \in CopyItems, Exists(Dst(it)), fs[Dst(it)].type = "file"
               PROVE  /\ fs[Dst(it)].data # "part"
                      /\ fs[Dst(it)].data = "new" /\ it.op \in Copies =>
                           fs[Dst(it)].owner = UidOf(it) /\ (SupportsModes => fs[Dst(it)].mode = it.perm)
    BY DEF DestinationWhole
  <2>1. PICK k \in DOMAIN Hierarchy : it = Hierarchy[k]
    BY DEF CopyItems, ItemsOf
  <2>2. ~EndsTmp(Dst(it))
    BY <2>1, ItemFacts DEF InstInv, Counters
  <2>3. fs[Dst(it)].data # "part"
    BY <2>2 DEF InstInv, FsInv, TreeOK, NodeOK, Exists
  <2>4. it.op \in Copies => k \in ItemsOf(Copies)
    BY <2>1 DEF ItemsOf
  <2> QED
    BY <2>1, <2>3, <2>4 DEF InstInv, FsInv, NewRight, Right, Exists
<1> QED
  BY <1>1, Invariance, PTL

-----------------------------------------------------------------------------
(* What a call changes of what exists.                                      *)

Effects ==
  LET d == Dst(Item)
      t == Tmp(Dst(Item))
  IN /\ \A p \in DOMAIN fs \ {d, t} : p \in DOMAIN fs' /\ fs'[p] = fs[p]
     /\ program = "installer" => \A p \in DOMAIN fs \ {t} : p \in DOMAIN fs'
     /\ program = "installer" /\ d \in DOMAIN fs =>
          \/ fs'[d].type = fs[d].type /\ fs'[d].data = fs[d].data
          \/ pc = "rename" /\ fs'[d] = fs[t]

LEMMA SameEffects ==
  ASSUME fs' = fs
  PROVE  Effects
BY DEF Effects

\* Only the temporary file changes.
LEMMA TmpEffects ==
  ASSUME Counters, done < Len(Hierarchy), OnlyAt(fs, fs', Tmp(Dst(Item)))
  PROVE  Effects
<1> DEFINE d == Dst(Item)
           t == Tmp(Dst(Item))
<1>1. d # t
  BY TmpHand
<1>2. OnlyAt(fs, fs', t)
  OBVIOUS
<1> HIDE DEF d, t
<1>3. \A p \in DOMAIN fs \ {t} : p \in DOMAIN fs' /\ fs'[p] = fs[p]
  BY <1>2 DEF OnlyAt
<1>4. d \in DOMAIN fs => fs'[d] = fs[d]
  BY <1>1, <1>3
<1> QED
  BY <1>3, <1>4 DEF Effects, d, t

LEMMA TmpExcept ==
  ASSUME Counters, done < Len(Hierarchy), NEW e, Exists(Tmp(Dst(Item))),
         fs' = [fs EXCEPT ![Tmp(Dst(Item))] = e]
  PROVE  Effects
<1> DEFINE t == Tmp(Dst(Item))
<1>1. t \in DOMAIN fs /\ fs' = [fs EXCEPT ![t] = e]
  BY DEF Exists
<1> HIDE DEF t
<1>2. OnlyAt(fs, [fs EXCEPT ![t] = e], t) /\ DOMAIN [fs EXCEPT ![t] = e] = DOMAIN fs
      /\ [fs EXCEPT ![t] = e][t] = e
  BY <1>1, ExceptAt
<1> QED
  BY <1>1, <1>2, TmpEffects DEF t

LEMMA TmpPut ==
  ASSUME Counters, done < Len(Hierarchy), NEW e, fs' = Put(fs, Tmp(Dst(Item)), e)
  PROVE  Effects
<1> DEFINE t == Tmp(Dst(Item))
<1>1. OnlyAt(fs, Put(fs, t, e), t) /\ Put(fs, t, e)[t] = e
      /\ DOMAIN Put(fs, t, e) = DOMAIN fs \cup {t}
  BY PutAt
<1> QED
  BY <1>1, TmpEffects

LEMMA ErrEffects ==
  ASSUME Counters, done < Len(Hierarchy), Err
  PROVE  Effects
<1> DEFINE t == Tmp(Dst(Item))
<1>1. fs' = Remove(fs, t)
  BY DEF Err
<1>2. OnlyAt(fs, Remove(fs, t), t) /\ DOMAIN Remove(fs, t) = DOMAIN fs \ {t}
  BY RemoveAt
<1> QED
  BY <1>1, <1>2, TmpEffects

\* Something new.
LEMMA NewEffects ==
  ASSUME NEW p, NEW e, p \notin DOMAIN fs, fs' = Put(fs, p, e)
  PROVE  Effects
<1>1. OnlyAt(fs, Put(fs, p, e), p) /\ Put(fs, p, e)[p] = e
      /\ DOMAIN Put(fs, p, e) = DOMAIN fs \cup {p}
  BY PutAt
<1>2. \A q \in DOMAIN fs : q \in DOMAIN fs' /\ fs'[q] = fs[q]
  BY <1>1 DEF OnlyAt
<1> QED
  BY <1>2 DEF Effects

LEMMA RenameEffects ==
  ASSUME InstInv, pc = "rename",
         fs' = Remove(Put(fs, Dst(Item), fs[Tmp(Dst(Item))]), Tmp(Dst(Item)))
  PROVE  Effects
<1> DEFINE d == Dst(Item)
           t == Tmp(Dst(Item))
           g == Put(fs, d, fs[t])
<1>1. d # t
  BY TmpThere, TmpHand DEF InstInv
<1>2. OnlyAt(fs, g, d) /\ g[d] = fs[t] /\ DOMAIN g = DOMAIN fs \cup {d}
  BY PutAt
<1>3. fs' = Remove(g, t)
  OBVIOUS
<1> HIDE DEF d, t, g
<1>4. OnlyAt(g, Remove(g, t), t) /\ DOMAIN Remove(g, t) = DOMAIN g \ {t}
  BY RemoveAt
<1>5. \A p \in DOMAIN fs \ {d, t} : p \in DOMAIN fs' /\ fs'[p] = fs[p]
  BY <1>2, <1>3, <1>4 DEF OnlyAt
<1>6. d \in DOMAIN fs' /\ fs'[d] = fs[t]
  BY <1>1, <1>2, <1>3, <1>4 DEF OnlyAt
<1> QED
  BY <1>5, <1>6 DEF Effects, d, t

LEMMA DeinstallEffects ==
  ASSUME NEW f, Deinstall(f)
  PROVE  Effects
<1> DEFINE d == Dst(Item)
<1>1. program = "deinstaller" /\ (fs' = fs \/ fs' = Remove(fs, d))
  BY DEF Deinstall
<1>2. OnlyAt(fs, Remove(fs, d), d) /\ DOMAIN Remove(fs, d) = DOMAIN fs \ {d}
  BY RemoveAt
<1>3. \A p \in DOMAIN fs \ {d} : p \in DOMAIN fs' /\ fs'[p] = fs[p]
  BY <1>1, <1>2 DEF OnlyAt
<1> QED
  BY <1>1, <1>3 DEF Effects

\* inst_mkdir changes the owner of the directory, and neither its type nor what
\* it holds.
LEMMA MkdirOwnEffects ==
  ASSUME InstInv, NEW f, MkdirOwn(f)
  PROVE  Effects
<1> DEFINE d == Dst(Item)
           e == Owned(fs[d], UidOf(Item), GidOf(Item))
<1>1. pc = "own"
  BY DEF MkdirOwn
<1>2. Dir(Item) = d
  BY <1>1, HandFacts DEF InstInv, PlaceInv
<1>3. fs' = fs \/ (d \in DOMAIN fs /\ fs' = [fs EXCEPT ![d] = e])
  BY <1>2 DEF MkdirOwn, Exists
<1>4. CASE d \in DOMAIN fs /\ fs' = [fs EXCEPT ![d] = e]
  <2>1. e.type = fs[d].type /\ e.data = fs[d].data
    BY <1>4, OwnedFacts DEF InstInv, FsInv, TreeOK, NodeOK
  <2>2. d \in DOMAIN fs /\ fs' = [fs EXCEPT ![d] = e]
    BY <1>4
  <2> HIDE DEF d, e
  <2>3. OnlyAt(fs, [fs EXCEPT ![d] = e], d) /\ DOMAIN [fs EXCEPT ![d] = e] = DOMAIN fs
        /\ [fs EXCEPT ![d] = e][d] = e
    BY <2>2, ExceptAt
  <2>4. /\ \A p \in DOMAIN fs \ {d} : p \in DOMAIN fs' /\ fs'[p] = fs[p]
        /\ d \in DOMAIN fs' /\ fs'[d] = e
    BY <2>2, <2>3 DEF OnlyAt
  <2> QED
    BY <2>1, <2>4 DEF Effects, d
<1> QED
  BY <1>3, <1>4, SameEffects

LEMMA StepEffects ==
  ASSUME InstInv, Step
  PROVE  Static /\ done < Len(Hierarchy) /\ Effects
<1> USE DEF InstInv
<1>1. Static
  BY DEF Step, Static
<1>2. CASE BeginItem
  BY <1>1, <1>2, SameEffects DEF BeginItem, Nothing
<1>3. ASSUME NEW f \in BOOLEAN, Call(f)
      PROVE  done < Len(Hierarchy) /\ Effects
  <2>0. pc \notin {"idle", "item"} => done < Len(Hierarchy)
    BY DEF PlaceInv
  <2>1. CASE MakeDir(f)
    BY <2>0, <2>1, SameEffects, NewEffects DEF MakeDir, Exists
  <2>2. CASE MkdirOwn(f)
    BY <2>0, <2>2, MkdirOwnEffects DEF MkdirOwn
  <2>3. CASE OpenSource(f)
    BY <2>0, <2>3, SameEffects DEF OpenSource, Nothing
  <2>4. CASE OpenTmp(f)
    BY <2>0, <2>4, ErrEffects, TmpPut, TmpExcept DEF OpenTmp
  <2>5. CASE Fill(f)
    BY <2>0, <2>5, ErrEffects, TmpExcept, TmpThere DEF Fill
  <2>6. CASE Chmod(f)
    BY <2>0, <2>6, ErrEffects, TmpExcept, TmpThere, SameEffects DEF Chmod
  <2>7. CASE Chown(f)
    BY <2>0, <2>7, ErrEffects, TmpExcept, TmpThere, SameEffects DEF Chown
  <2>8. CASE Rename(f)
    BY <2>0, <2>8, ErrEffects, RenameEffects DEF Rename
  <2>9. CASE EnterDir(f)
    BY <2>9, SameEffects DEF EnterDir
  <2>10. CASE MakeLink(f)
    BY <2>0, <2>10, SameEffects, NewEffects DEF MakeLink, Exists
  <2>11. CASE CopyLink(f)
    BY <2>0, <2>11, SameEffects DEF CopyLink, Nothing
  <2>12. CASE LeaveDir(f)
    BY <2>0, <2>12, SameEffects DEF LeaveDir
  <2>13. CASE Deinstall(f)
    BY <2>13, DeinstallEffects DEF Deinstall
  <2>14. CASE CheckItem(f)
    BY <2>14, SameEffects DEF CheckItem, Nothing
  <2> QED
    BY <1>3, <2>1, <2>2, <2>3, <2>4, <2>5, <2>6, <2>7, <2>8, <2>9, <2>10, <2>11, <2>12, <2>13, <2>14
       DEF Call
<1> QED
  BY <1>1, <1>2, <1>3 DEF Step, BeginItem

\* Every other step leaves the tree as it is, or adds to it.
LEMMA BetweenEffects ==
  ASSUME InstInv, Next
  PROVE  /\ system' = system
         /\ \/ Step
            \/ fs' = fs
            \/ pc = "idle" /\ \A p \in DOMAIN fs : p \in DOMAIN fs'
<1>1. CASE Step
  BY <1>1 DEF Step
<1>2. ASSUME NEW p, NEW d, Start(p, d)
      PROVE  system' = system /\ fs' = fs
  BY <1>2 DEF Start
<1>3. CASE Finish
  BY <1>3 DEF Finish
<1>4. CASE Kill \/ DoubleClose
  BY <1>4 DEF Kill, DoubleClose, Dies
<1>5. CASE Other
  <2>1. system' = system /\ pc = "idle" /\ \E p, e : fs' = Put(fs, p, e)
    BY <1>5 DEF Other
  <2>2. \A p \in DOMAIN fs : p \in DOMAIN fs'
    BY <2>1 DEF Put
  <2> QED
    BY <2>1, <2>2
<1>6. CASE Ended
  BY <1>6 DEF Ended, vars
<1> QED
  BY <1>1, <1>2, <1>3, <1>4, <1>5, <1>6 DEF Next

\* A file that is installed over is there at every moment of the installation:
\* install_file_copy never takes the old one away before it has the new one.
THEOREM AlwaysThere == Spec => NeverMissing
<1>1. ASSUME InstInv, Next, program = "installer", NEW it \in CopyItems, Exists(Dst(it))
      PROVE  Exists(Dst(it))'
  <2>1. system' = system /\ Dst(it)' = Dst(it)
    BY <1>1, BetweenEffects DEF Dst
  <2>2. PICK k \in DOMAIN Hierarchy : it = Hierarchy[k]
    BY <1>1 DEF CopyItems, ItemsOf
  <2>3. CASE Step
    <3>1. done < Len(Hierarchy) /\ Effects
      BY <1>1, <2>3, StepEffects
    <3>2. Dst(it) # Tmp(Dst(Item))
      BY <1>1, <2>2, <3>1, TmpHand DEF InstInv
    <3> QED
      BY <1>1, <2>1, <3>1, <3>2 DEF Effects, Exists
  <2>4. CASE ~Step
    BY <1>1, <2>1, <2>4, BetweenEffects DEF Exists
  <2> QED
    BY <2>3, <2>4
<1>2. InstInv /\ [Next]_vars =>
        [program = "installer" => \A it \in CopyItems : Exists(Dst(it)) => Exists(Dst(it))']_vars
  BY <1>1
<1> QED
  BY <1>2, Invariance, PTL DEF Spec, NeverMissing

\* The programs leave everything else alone: the deinstaller removes a
\* directory of the product only when it holds nothing, and the installer
\* touches what is not in the table only under its temporary names.
THEOREM OthersLeft == Spec => OthersKept
<1>1. ASSUME InstInv, Next, pc # "idle", NEW p \in DOMAIN fs
      PROVE  \/ p \in DOMAIN fs' /\ fs'[p] = fs[p]
             \/ p \in Ours \cup {Tmp(q) : q \in Ours}
  <2>1. CASE Step
    <3>1. done < Len(Hierarchy) /\ Effects
      BY <1>1, <2>1, StepEffects
    <3>2. Dst(Item) \in Ours
      BY <1>1, <3>1, ItemInTable DEF Ours, InstInv
    <3> QED
      BY <1>1, <3>1, <3>2 DEF Effects
  <2>2. CASE ~Step
    BY <1>1, <2>2, BetweenEffects
  <2> QED
    BY <2>1, <2>2
<1>2. InstInv /\ [Next]_vars =>
        [pc # "idle" => \A p \in DOMAIN fs : \/ p \in DOMAIN fs' /\ fs'[p] = fs[p]
                                             \/ p \in Ours \cup {Tmp(q) : q \in Ours}]_vars
  BY <1>1
<1> QED
  BY <1>2, Invariance, PTL DEF Spec, OthersKept

-----------------------------------------------------------------------------
(* An installer that reports no error has installed what it has handled.    *)

\* Installed(it), of the tree f.
InstalledIn(it, f) == Dst(it) \in DOMAIN f /\
  CASE it.op \in Copies -> f[Dst(it)].type = "file" /\ f[Dst(it)].data = "new"
    [] it.op \in Links ->
         IF Win32 THEN f[Dst(it)].type = "file"
         ELSE f[Dst(it)].type = "symlink" /\ f[Dst(it)].data = it.src
    [] OTHER -> f[Dst(it)].type = "directory"

\* As long as there was no error the working directory is the build tree
\* whenever something is copied from there.
ErrorInv ==
  program = "installer" /\ ~dry /\ ~errors /\ pc # "idle" =>
    /\ \A k \in 1 .. done : Hierarchy[k].op # "INST_MKDIR" => InstalledIn(Hierarchy[k], fs)
    /\ pc = "item" => cwd = Build
    /\ pc # "item" => IF Item.op \in Links THEN saved = Build ELSE cwd = Build
    /\ pc = "leave" => InstalledIn(Item, fs)
    /\ pc \in {"chmod", "chown", "rename"} /\ Item.op \in Copies => fs[Tmp(Dst(Item))].data = "new"

\* What a call of the installer does for it.
Advances ==
  ~errors' =>
    /\ ~errors
    /\ \/ /\ done' = done /\ pc' \notin {"item", "idle"}
          /\ IF Item.op \in Links THEN saved' = Build ELSE cwd' = Build
          /\ pc' = "leave" => InstalledIn(Item, fs')
          /\ pc' \in {"chmod", "chown", "rename"} /\ Item.op \in Copies =>
               fs'[Tmp(Dst(Item))].data = "new"
       \/ /\ done' = done + 1 /\ pc' = "item" /\ cwd' = Build
          /\ Item.op = "INST_MKDIR" \/ InstalledIn(Item, fs')

LEMMA Reported ==
  ASSUME EndCopy(TRUE) \/ EndItem(TRUE) \/ Err
  PROVE  Advances
BY DEF Advances, EndCopy, EndItem, Err

\* What ErrorInv says to a call that is made before any error.
LEMMA NoError ==
  ASSUME ErrorInv, program = "installer", ~dry, ~errors, pc # "idle"
  PROVE  /\ pc = "item" => cwd = Build
         /\ pc # "item" => IF Item.op \in Links THEN saved = Build ELSE cwd = Build
         /\ pc = "leave" => InstalledIn(Item, fs)
         /\ pc \in {"chmod", "chown", "rename"} /\ Item.op \in Copies => fs[Tmp(Dst(Item))].data = "new"
BY DEF ErrorInv

LEMMA MakeAdvances ==
  ASSUME InstInv, ErrorInv, program = "installer", ~dry, NEW f,
         BeginItem \/ MakeDir(f) \/ MkdirOwn(f)
  PROVE  Advances
<1>1. CASE BeginItem
  <2>1. CASE EndItem(TRUE)
    BY <2>1, Reported
  <2>2. CASE Goto("mkdir") \/ Goto("source")
    <3>1. /\ errors' = errors /\ done' = done /\ pc' \in {"mkdir", "source"} /\ cwd' = cwd
          /\ Item.op \notin Links /\ pc = "item"
      BY <1>1, <2>2 DEF BeginItem, Nothing, Goto
    <3> QED
      BY <3>1, NoError DEF Advances
  <2> QED
    BY <1>1, <2>1, <2>2 DEF BeginItem
<1>2. CASE MakeDir(f)
  <2>1. /\ errors' = errors /\ done' = done /\ pc' \in {"own", "mkdir"} /\ cwd' = cwd
        /\ pc = "mkdir"
    BY <1>2 DEF MakeDir, Goto
  <2>2. Item.op \notin Links
    BY <2>1 DEF InstInv, PlaceInv, Links
  <2> QED
    BY <2>1, <2>2, NoError DEF Advances
<1>3. CASE MkdirOwn(f)
  <2>1. /\ pc = "own" /\ pc' = "item" /\ done' = done + 1 /\ cwd' = cwd /\ (errors => errors')
    BY <1>3 DEF MkdirOwn, EndItem
  <2>2. Item.op = "INST_MKDIR" /\ Item.op \notin Links
    BY <2>1 DEF InstInv, PlaceInv, Links
  <2> QED
    BY <2>1, <2>2, NoError DEF Advances
<1> QED
  BY <1>1, <1>2, <1>3

LEMMA OpenAdvances ==
  ASSUME InstInv, ErrorInv, program = "installer", ~dry, NEW f,
         OpenSource(f) \/ OpenTmp(f) \/ CopyLink(f)
  PROVE  Advances
<1>1. CASE EndCopy(TRUE) \/ Err
  BY <1>1, Reported
<1>2. CASE \E l \in {"open", "fill", "source"} : Goto(l)
  <2>1. /\ errors' = errors /\ done' = done /\ pc' \in {"open", "fill", "source"}
        /\ pc \in {"source", "open", "owner"}
    BY <1>2 DEF OpenSource, OpenTmp, CopyLink, Goto
  <2>2. (cwd' = cwd /\ saved' = saved) \/ errors'
    BY DEF OpenSource, OpenTmp, CopyLink, Nothing, Err, EndCopy, EndItem
  <2> QED
    BY <2>1, <2>2, NoError DEF Advances
<1> QED
  BY <1>1, <1>2 DEF OpenSource, OpenTmp, CopyLink

LEMMA WorkAdvances ==
  ASSUME InstInv, ErrorInv, Static, program = "installer", ~dry, NEW f,
         Fill(f) \/ Chmod(f) \/ Chown(f)
  PROVE  Advances
<1> DEFINE t == Tmp(Dst(Item))
<1>1. /\ pc \in {"fill", "chmod", "chown"}
  BY DEF Fill, Chmod, Chown
<1>2. t \in DOMAIN fs /\ EntryOK(fs[t]) /\ Item.op # "INST_MKDIR"
  BY <1>1, TmpThere DEF Exists
<1>3. CASE Err
  BY <1>3, Reported
<1>4. ASSUME NEW l \in {"chmod", "chown", "rename"}, Goto(l), UNCHANGED <<cwd, saved, at>>,
             ~errors, Item.op \in Copies => fs'[t].data = "new"
      PROVE  Advances
  <2>1. done' = done /\ pc' = l
    BY <1>4 DEF Goto
  <2>2. IF Item.op \in Links THEN saved' = Build ELSE cwd' = Build
    BY <1>1, <1>4, NoError
  <2> QED
    BY <1>4, <2>1, <2>2 DEF Advances
<1>5. CASE Fill(f) /\ ~Err /\ ~errors
  <2>1. fs' = [fs EXCEPT ![t].data = SourceData(Item)] /\ Goto("chmod") /\ UNCHANGED <<cwd, saved, at>>
    BY <1>5 DEF Fill
  <2>2. Item.op \in Copies => SourceData(Item) = "new"
    BY <1>1, <1>5, NoError DEF SourceData, Copies, Links
  <2>3. fs'[t].data = SourceData(Item)
    BY <1>2, <2>1 DEF EntryOK, Fields
  <2> QED
    BY <1>4, <1>5, <2>1, <2>2, <2>3
<1>6. CASE Chmod(f) /\ ~Err /\ ~errors
  <2>1. /\ fs' = IF SupportsModes THEN [fs EXCEPT ![t].mode = Item.perm] ELSE fs
        /\ Goto("chown") /\ UNCHANGED <<cwd, saved, at>> /\ pc = "chmod"
    BY <1>6 DEF Chmod
  <2>2. fs'[t].data = fs[t].data
    <3>1. CASE SupportsModes
      BY <1>2, <2>1, <3>1 DEF EntryOK, Fields
    <3>2. CASE ~SupportsModes
      BY <2>1, <3>2
    <3> QED
      BY <3>1, <3>2
  <2>3. Item.op \in Copies => fs'[t].data = "new"
    BY <1>6, <2>1, <2>2, NoError
  <2> QED
    BY <1>4, <1>6, <2>1, <2>3
<1>7. CASE Chown(f) /\ ~Err /\ ~errors
  <2> DEFINE e == Owned(fs[t], CopyUid(Item), CopyGid(Item))
  <2>1. /\ fs' = [fs EXCEPT ![t] = e] \/ fs' = fs
        /\ Goto("rename") /\ UNCHANGED <<cwd, saved, at>> /\ pc = "chown"
    BY <1>7 DEF Chown
  <2>2. e.data = fs[t].data
    BY <1>2, OwnedFacts
  <2> HIDE DEF e
  <2>3. fs'[t].data = fs[t].data
    BY <1>2, <2>1, <2>2
  <2>4. Item.op \in Copies => fs'[t].data = "new"
    BY <1>7, <2>1, <2>3, NoError
  <2> QED
    BY <1>4, <1>7, <2>1, <2>4
<1>8. CASE errors
  <2>1. errors'
    BY <1>8 DEF Fill, Chmod, Chown, Goto, Err, EndCopy, EndItem
  <2> QED
    BY <2>1 DEF Advances
<1> QED
  BY <1>3, <1>5, <1>6, <1>7, <1>8

LEMMA RenameAdvances ==
  ASSUME InstInv, ErrorInv, Static, program = "installer", ~dry, NEW f, Rename(f)
  PROVE  Advances
<1> DEFINE t == Tmp(Dst(Item))
           d == Dst(Item)
<1>1. pc = "rename"
  BY DEF Rename
<1>2. fs[t].type = "file" /\ Item.op # "INST_MKDIR" /\ done < Len(Hierarchy)
  BY <1>1, TmpThere
<1>3. CASE Err
  BY <1>3, Reported
<1>4. CASE errors
  <2>1. errors'
    BY <1>4 DEF Rename, Err, EndCopy, EndItem
  <2> QED
    BY <2>1 DEF Advances
<1>5. CASE ~Err /\ ~errors
  <2>1. /\ ~Occupied(d) /\ fs' = Remove(Put(fs, d, fs[t]), t)
        /\ EndCopy(FALSE) /\ UNCHANGED <<cwd, saved, at>>
    BY <1>5 DEF Rename
  <2>2. d \in DOMAIN fs' /\ fs'[d] = fs[t]
    BY <1>1, <2>1, RenameFs
  <2>3. IF Item.op \in Links THEN saved = Build ELSE cwd = Build
    BY <1>1, <1>5, NoError
  <2>4. Item.op \in Copies => fs[t].data = "new"
    BY <1>1, <1>5, NoError
  <2>5. Item.op \in Copies \cup Links
    BY <1>2, HandFacts DEF InstInv
  <2>6. Item.op \in Links => Win32
    BY <1>1 DEF InstInv, PlaceInv, Copying
  <2>7. InstalledIn(Item, fs')
    <3>1. CASE Item.op \in Copies
      <4>1. Item.op \notin Links
        BY <3>1 DEF Copies, Links
      <4> QED
        BY <1>2, <2>2, <2>4, <3>1, <4>1 DEF InstalledIn
    <3>2. CASE Item.op \in Links
      <4>1. Item.op \notin Copies
        BY <3>2 DEF Copies, Links
      <4> QED
        BY <1>2, <2>2, <2>6, <3>2, <4>1 DEF InstalledIn
    <3> QED
      BY <2>5, <3>1, <3>2
  <2>8. CASE Item.op \in Links
    <3>1. pc' = "leave" /\ done' = done /\ saved' = Build
      BY <2>1, <2>3, <2>8 DEF EndCopy
    <3> QED
      BY <1>5, <2>7, <2>8, <3>1 DEF Advances
  <2>9. CASE Item.op \notin Links
    <3>1. pc' = "item" /\ done' = done + 1 /\ cwd' = Build
      BY <2>1, <2>3, <2>9 DEF EndCopy, EndItem
    <3> QED
      BY <1>5, <2>7, <3>1 DEF Advances
  <2> QED
    BY <2>8, <2>9
<1> QED
  BY <1>3, <1>4, <1>5

LEMMA LinkAdvances ==
  ASSUME InstInv, ErrorInv, Static, program = "installer", ~dry, NEW f,
         EnterDir(f) \/ MakeLink(f) \/ LeaveDir(f)
  PROVE  Advances
<1>1. CASE errors
  <2>1. errors'
    BY <1>1 DEF EnterDir, MakeLink, LeaveDir, Goto, EndCopy, EndItem
  <2> QED
    BY <2>1 DEF Advances
<1>2. CASE EnterDir(f) /\ ~errors
  <2>1. CASE EndItem(TRUE)
    BY <2>1, Reported
  <2>2. CASE ~EndItem(TRUE)
    <3>1. /\ Item.op \in Links /\ pc = "item" /\ saved' = cwd
          /\ Goto(IF dry THEN "leave" ELSE IF SupportsSymlinks THEN "link" ELSE "owner")
      BY <1>2, <2>2 DEF EnterDir
    <3>2. pc' \in {"link", "owner"} /\ done' = done
      BY <3>1 DEF Goto
    <3>3. saved' = Build
      BY <1>2, <3>1, NoError
    <3> QED
      BY <1>2, <3>1, <3>2, <3>3 DEF Advances
  <2> QED
    BY <2>1, <2>2
<1>3. CASE MakeLink(f) /\ ~errors /\ ~errors'
  <2> DEFINE d == Dst(Item)
             made == Entry("symlink", Item.src, Bit, Me, MyGroup)
  <2>1. pc = "link" /\ UNCHANGED <<cwd, saved, at>> /\ EndCopy(f \/ Exists(d))
    BY <1>3 DEF MakeLink
  <2>2. Item.op \in Links /\ ~Win32
    BY <2>1 DEF InstInv, PlaceInv
  <2>3. pc' = "leave" /\ done' = done /\ ~(f \/ Exists(d))
    BY <1>3, <2>1, <2>2 DEF EndCopy
  <2>4. fs' = Put(fs, d, made)
    BY <1>3, <2>3 DEF MakeLink
  <2>5. made.type = "symlink" /\ made.data = Item.src
    BY DEF Entry
  <2>6. Item.op \notin Copies
    BY <2>2 DEF Copies, Links
  <2> HIDE DEF made
  <2>7. d \in DOMAIN fs' /\ fs'[d] = made
    BY <2>4 DEF Put
  <2>8. InstalledIn(Item, fs')
    BY <2>2, <2>5, <2>6, <2>7 DEF InstalledIn
  <2>9. saved' = Build
    BY <1>3, <2>1, <2>2, NoError
  <2> QED
    BY <1>3, <2>2, <2>3, <2>8, <2>9 DEF Advances
<1>4. CASE LeaveDir(f) /\ ~errors /\ ~errors'
  <2>1. pc = "leave" /\ EndItem(f) /\ fs' = fs /\ cwd' = IF f THEN cwd ELSE saved
    BY <1>4 DEF LeaveDir
  <2>2. ~f /\ pc' = "item" /\ done' = done + 1
    BY <1>4, <2>1 DEF EndItem
  <2>3. Item.op \in Links
    BY <2>1 DEF InstInv, PlaceInv
  <2>4. saved = Build /\ InstalledIn(Item, fs)
    BY <1>4, <2>1, <2>3, NoError
  <2>5. cwd' = Build /\ InstalledIn(Item, fs')
    BY <2>1, <2>2, <2>4
  <2> QED
    BY <1>4, <2>2, <2>5 DEF Advances
<1> QED
  BY <1>1, <1>2, <1>3, <1>4 DEF Advances

\* No call of an installer without errors takes an earlier item away: where
\* two items have one path, either may be there.
LEMMA InstalledStays ==
  ASSUME InstInv, Step, program = "installer",
         pc = "rename" /\ Item.op \in Copies => fs[Tmp(Dst(Item))].data = "new",
         NEW k \in DOMAIN Hierarchy, Hierarchy[k].op # "INST_MKDIR",
         InstalledIn(Hierarchy[k], fs)
  PROVE  InstalledIn(Hierarchy[k], fs')
<1> DEFINE it == Hierarchy[k]
           d == Dst(it)
           t == Tmp(Dst(Item))
<1>1. done < Len(Hierarchy) /\ Effects
  BY StepEffects
<1>2. d \in DOMAIN fs /\ d # t
  BY <1>1, TmpHand DEF InstInv, InstalledIn
<1>3. d \in DOMAIN fs'
  BY <1>1, <1>2 DEF Effects
<1>4. it.op \in Copies \cup Links
  BY ItemFacts DEF InstInv, Counters
<1>5. CASE fs'[d].type = fs[d].type /\ fs'[d].data = fs[d].data
  BY <1>3, <1>5 DEF InstalledIn
<1>6. CASE d = Dst(Item) /\ pc = "rename" /\ fs'[d] = fs[t]
  <2>1. fs[t].type = "file" /\ Item.op # "INST_MKDIR"
    BY <1>6, TmpThere
  <2>2. Item.op \in Copies => fs[t].data = "new"
    BY <1>6
  <2>3. CASE it.op \in Copies
    <3>1. k \in ItemsOf(Copies) /\ it.op \notin Links
      BY <2>3 DEF ItemsOf, Copies, Links
    <3>2. Item.op \in Copies
      BY <1>1, <1>6, <3>1, AgreeHand DEF InstInv
    <3> QED
      BY <1>3, <1>6, <2>1, <2>2, <2>3, <3>1, <3>2 DEF InstalledIn
  <2>4. CASE it.op \in Links /\ it.op \notin Copies
    <3>1. Win32
      <4>1. Item.op \in Links => Win32
        BY <1>6 DEF InstInv, PlaceInv, Copying
      <4>2. Item.op \in Copies => FALSE
        <5>1. PICK j \in DOMAIN Hierarchy : Item = Hierarchy[j]
          BY <1>1, ItemInTable DEF InstInv
        <5>2. Item.op \in Copies => j \in ItemsOf(Copies)
          BY <5>1 DEF ItemsOf
        <5>3. Item.op \in Copies => it.op \in Copies
          BY <1>6, <5>1, <5>2, Agree DEF InstInv, Counters
        <5> QED
          BY <2>4, <5>3
      <4>3. Item.op \in Copies \cup Links
        BY <1>1, <2>1, HandFacts DEF InstInv
      <4> QED
        BY <4>1, <4>2, <4>3
    <3> QED
      BY <1>3, <1>6, <2>1, <2>4, <3>1 DEF InstalledIn
  <2> QED
    BY <1>4, <2>3, <2>4
<1>7. d # Dst(Item) => fs'[d] = fs[d]
  BY <1>1, <1>2 DEF Effects
<1> QED
  BY <1>1, <1>2, <1>5, <1>6, <1>7 DEF Effects

LEMMA ErrorFreeStep ==
  ASSUME InstInv, ErrorInv, Step
  PROVE  ErrorInv'
<1>1. Static /\ done < Len(Hierarchy)
  BY StepEffects
<1> SUFFICES ASSUME program = "installer", ~dry, ~errors'
             PROVE  ErrorInv'
  BY <1>1 DEF ErrorInv, Static
<1>2. Advances
  <2>1. CASE BeginItem
    BY <2>1, MakeAdvances
  <2>2. ASSUME NEW f \in BOOLEAN, Call(f)
        PROVE  Advances
    <3>1. ~Deinstall(f) /\ ~CheckItem(f)
      BY DEF Deinstall, CheckItem
    <3> QED
      BY <1>1, <2>2, <3>1, MakeAdvances, OpenAdvances, WorkAdvances, RenameAdvances, LinkAdvances DEF Call
  <2> QED
    BY <2>1, <2>2 DEF Step
<1>3. pc # "idle" /\ ~errors
  <2>1. pc # "idle"
    BY DEF Step, BeginItem, Call, MakeDir, MkdirOwn, OpenSource, OpenTmp, Fill, Chmod, Chown, Rename,
           EnterDir, MakeLink, CopyLink, LeaveDir, Deinstall, CheckItem
  <2> QED
    BY <1>2, <2>1 DEF Advances
<1>4. Hierarchy' = Hierarchy /\ program' = "installer" /\ system' = system
  BY <1>1 DEF Static, Hierarchy
<1>5. \A k \in DOMAIN Hierarchy : InstalledIn(Hierarchy[k], fs)' <=> InstalledIn(Hierarchy[k], fs')
  BY <1>4 DEF InstalledIn, Dst, Win32
<1>6. done \in Nat /\ DOMAIN Hierarchy = 1 .. Len(Hierarchy) /\ Len(Hierarchy) \in Nat
      /\ 1 .. done \subseteq DOMAIN Hierarchy /\ done + 1 \in DOMAIN Hierarchy
  BY <1>1, Numbers DEF InstInv
<1>7. Item = Hierarchy[done + 1]
  BY DEF Item
<1>8. \A k \in 1 .. done : Hierarchy[k].op # "INST_MKDIR" => InstalledIn(Hierarchy[k], fs')
  <2> SUFFICES ASSUME NEW k \in 1 .. done, Hierarchy[k].op # "INST_MKDIR"
               PROVE  InstalledIn(Hierarchy[k], fs')
    OBVIOUS
  <2>1. k \in DOMAIN Hierarchy
    BY <1>6
  <2>2. InstalledIn(Hierarchy[k], fs)
    BY <1>3 DEF ErrorInv
  <2> QED
    BY <1>3, <2>1, <2>2, NoError, InstalledStays
<1>9. CASE /\ done' = done /\ pc' \notin {"item", "idle"}
           /\ IF Item.op \in Links THEN saved' = Build ELSE cwd' = Build
           /\ pc' = "leave" => InstalledIn(Item, fs')
           /\ pc' \in {"chmod", "chown", "rename"} /\ Item.op \in Copies =>
                fs'[Tmp(Dst(Item))].data = "new"
  <2>1. Item' = Item /\ Tmp(Dst(Item))' = Tmp(Dst(Item))
    BY <1>1, <1>9, SameItem
  <2>2. InstalledIn(Item, fs)' <=> InstalledIn(Item, fs')
    BY <1>4, <2>1 DEF InstalledIn, Dst, Win32
  <2>3. \A k \in 1 .. done' : Hierarchy'[k].op # "INST_MKDIR" => InstalledIn(Hierarchy[k], fs)'
    BY <1>4, <1>5, <1>6, <1>8, <1>9
  <2> QED
    BY <1>9, <2>1, <2>2, <2>3 DEF ErrorInv
<1>10. CASE /\ done' = done + 1 /\ pc' = "item" /\ cwd' = Build
            /\ Item.op = "INST_MKDIR" \/ InstalledIn(Item, fs')
  <2>1. \A k \in 1 .. done' : Hierarchy'[k].op # "INST_MKDIR" => InstalledIn(Hierarchy[k], fs)'
    <3> SUFFICES ASSUME NEW k \in 1 .. done', Hierarchy'[k].op # "INST_MKDIR"
                 PROVE  InstalledIn(Hierarchy[k], fs)'
      OBVIOUS
    <3>1. k \in 1 .. done \/ k = done + 1
      BY <1>6, <1>10
    <3>2. k \in DOMAIN Hierarchy
      BY <1>6, <3>1
    <3>3. InstalledIn(Hierarchy[k], fs')
      BY <1>4, <1>7, <1>8, <1>10, <3>1
    <3> QED
      BY <1>5, <3>2, <3>3
  <2> QED
    BY <1>10, <2>1 DEF ErrorInv
<1> QED
  BY <1>2, <1>9, <1>10 DEF Advances

LEMMA ErrorFreeNext ==
  ASSUME InstInv, ErrorInv, [Next]_vars
  PROVE  ErrorInv'
<1>1. ASSUME NEW p, NEW d, Start(p, d)
      PROVE  ErrorInv'
  <2>1. done' = 0 /\ cwd' = Build /\ pc' \in {"item", "idle"}
    BY <1>1 DEF Start
  <2> QED
    BY <2>1 DEF ErrorInv
<1>2. CASE Step
  BY <1>2, ErrorFreeStep
<1>3. CASE Finish \/ Kill \/ DoubleClose
  <2>1. pc' = "idle"
    BY <1>3 DEF Finish, Kill, DoubleClose, Dies
  <2> QED
    BY <2>1 DEF ErrorInv
<1>4. CASE Other
  <2>1. pc' = "idle"
    BY <1>4 DEF Other
  <2> QED
    BY <2>1 DEF ErrorInv
<1>5. CASE UNCHANGED vars
  <2>1. Item' = Item /\ Hierarchy' = Hierarchy /\ Tmp(Dst(Item))' = Tmp(Dst(Item))
    BY <1>5, SameItem DEF vars, Static
  <2>2. \A it : InstalledIn(it, fs)' <=> InstalledIn(it, fs)
    BY <1>5 DEF vars, InstalledIn, Dst, Win32
  <2>3. /\ program' = program /\ dry' = dry /\ errors' = errors /\ pc' = pc /\ done' = done
        /\ cwd' = cwd /\ saved' = saved /\ fs' = fs
    BY <1>5 DEF vars
  <2> QED
    BY <2>1, <2>2, <2>3 DEF ErrorInv
<1> QED
  BY <1>1, <1>2, <1>3, <1>4, <1>5 DEF Next, Ended

\* What an installer that has reported no error so far has handled is in place:
\* every failure of an item is reported, and nothing done later undoes an item.
THEOREM Installs == Spec => []ErrorFreeInstalls
<1>1. Init => ErrorInv
  BY DEF Init, ErrorInv
<1>2. InstInv /\ ErrorInv /\ [Next]_vars => ErrorInv'
  BY ErrorFreeNext
<1>3. ErrorInv => ErrorFreeInstalls
  BY DEF ErrorInv, ErrorFreeInstalls, InstalledIn, Installed, Exists
<1> QED
  BY <1>1, <1>2, <1>3, Invariance, PTL DEF Spec

-----------------------------------------------------------------------------
(* What a deinstaller undoes.                                               *)

\* The table names a directory before it names anything in it.
ParentsFirst(s) ==
  \A j, k \in DOMAIN s.table :
    s.table[k].op = "INST_MKDIR" /\ Parent(DstIn(s, s.table[j])) = DstIn(s, s.table[k]) =>
      \E i \in 1 .. j - 1 : DstIn(s, s.table[i]) = DstIn(s, s.table[k])

\* A deinstaller in which no system call fails has taken away what the items it
\* has handled name, except where an item is still to come for the same path.
Undoing == program = "deinstaller" /\ calm /\ ~dry /\ Complete(before) /\ OnlyOurs(before)
Kept(f, g) == \A p \in DOMAIN f : p \in DOMAIN g /\ f[p] = g[p]
ToCome(p, n) == \E k \in 1 .. Len(Hierarchy) - n : Dst(Hierarchy[k]) = p
GoneInv ==
  Undoing /\ (pc = "item" \/ exit = "0") =>
    /\ exit = "0" => done = Len(Hierarchy)
    /\ Kept(fs, before)
    /\ \A p \in Ours \cap DOMAIN fs : ToCome(p, done)

\* What is in a directory the table makes, and is there, is still to come if the
\* directory is the next to be removed, and then the directory itself comes later.
LEMMA NothingIn ==
  ASSUME InstInv, ParentsFirst(system), Complete(before), OnlyOurs(before), Kept(fs, before),
         \A p \in Ours \cap DOMAIN fs : ToCome(p, done),
         done < Len(Hierarchy), program = "deinstaller", Item.op = "INST_MKDIR",
         ~ToCome(Dst(Item), done + 1)
  PROVE  Empty(Dst(Item))
<1> DEFINE d == Dst(Item)
           k == Len(Hierarchy) - done
<1>1. /\ Len(Hierarchy) \in Nat /\ done \in Nat /\ DOMAIN Hierarchy = 1 .. Len(Hierarchy)
      /\ k \in DOMAIN Hierarchy /\ Item = Hierarchy[k]
  BY Numbers DEF InstInv, Item
<1> SUFFICES ASSUME NEW r \in DOMAIN fs, Parent(r) = d
             PROVE  FALSE
  BY DEF Empty
<1>2. r \in Ours /\ ToCome(r, done)
  <2>1. r \in DOMAIN before
    BY DEF Kept
  <2>2. d \in Ours
    BY <1>1 DEF Ours
  <2> QED
    BY <2>1, <2>2 DEF OnlyOurs
<1>3. PICK j \in 1 .. k : Dst(Hierarchy[j]) = r
  BY <1>2 DEF ToCome
<1>4. j \in DOMAIN Hierarchy
  BY <1>1, <1>3
<1>5. PICK i \in 1 .. j - 1 : Dst(Hierarchy[i]) = d
  BY <1>1, <1>3, <1>4 DEF ParentsFirst, Dst, Hierarchy
<1>6. i \in 1 .. Len(Hierarchy) - (done + 1)
  BY <1>1, <1>3, <1>5
<1> QED
  BY <1>5, <1>6 DEF ToCome

LEMMA DeinstallUndoing ==
  ASSUME InstInv, ParentsFirst(system), GoneInv, Undoing, Static, calm' = calm, Deinstall(FALSE)
  PROVE  /\ Kept(fs', before)
         /\ \A p \in Ours \cap DOMAIN fs' : ToCome(p, done + 1)
         /\ done < Len(Hierarchy) /\ exit # "0" /\ done' = done + 1 /\ pc' = "item"
<1> DEFINE d == Dst(Item)
           k == Len(Hierarchy) - done
           removable == IF Item.op = "INST_MKDIR" THEN Exists(d) /\ IsDir(d) /\ Empty(d)
                                                  ELSE Exists(d) /\ ~IsDir(d)
<1>1. /\ pc = "item" /\ done < Len(Hierarchy) /\ done' = done + 1 /\ pc' = "item"
      /\ fs' = IF removable THEN Remove(fs, d) ELSE fs
  BY DEF Deinstall, EndItem, Undoing
<1>2. /\ exit = "0" => done = Len(Hierarchy)
      /\ Kept(fs, before)
      /\ \A p \in Ours \cap DOMAIN fs : ToCome(p, done)
  BY <1>1 DEF GoneInv
<1>3. /\ Len(Hierarchy) \in Nat /\ done \in Nat /\ DOMAIN Hierarchy = 1 .. Len(Hierarchy)
      /\ k \in DOMAIN Hierarchy /\ Item = Hierarchy[k]
  BY <1>1, Numbers DEF InstInv, Item, Undoing
<1>4. Kept(fs', before) /\ DOMAIN fs' \subseteq DOMAIN fs
  <2>1. OnlyAt(fs, Remove(fs, d), d) /\ DOMAIN Remove(fs, d) = DOMAIN fs \ {d}
    BY RemoveAt
  <2>2. CASE removable
    <3>1. fs' = Remove(fs, d)
      BY <1>1, <2>2
    <3> HIDE DEF d, removable
    <3> QED
      BY <1>2, <2>1, <3>1 DEF Kept, OnlyAt
  <2>3. CASE ~removable
    BY <1>1, <1>2, <2>3
  <2> QED
    BY <2>2, <2>3
<1>5. ASSUME NEW p \in Ours \cap DOMAIN fs', ~ToCome(p, done + 1)
      PROVE  FALSE
  <2>1. PICK j \in 1 .. k : Dst(Hierarchy[j]) = p
    BY <1>2, <1>4, <1>5 DEF ToCome
  <2>2. j = k
    <3>1. j \notin 1 .. Len(Hierarchy) - (done + 1)
      BY <1>5, <2>1 DEF ToCome
    <3> DEFINE n == Len(Hierarchy)
    <3>2. n \in Nat /\ done \in Nat /\ j \in 1 .. n - done /\ j \notin 1 .. n - (done + 1)
      BY <1>3, <3>1
    <3> HIDE DEF n
    <3>3. j = n - done
      BY <3>2
    <3> QED
      BY <3>3 DEF n
  <2>3. p = d /\ d \in DOMAIN fs
    BY <1>3, <1>4, <1>5, <2>1, <2>2
  <2>4. Item.op = "INST_MKDIR" <=> fs[d].type = "directory"
    <3>1. Item.op = "INST_MKDIR" <=> before[d].type = "directory"
      BY <1>3 DEF Undoing, Complete
    <3> QED
      BY <1>2, <2>3, <3>1 DEF Kept
  <2>5. d # <<>>
    BY <1>3, ItemFacts DEF InstInv, Counters
  <2>6. removable
    <3>1. CASE Item.op = "INST_MKDIR"
      <4>1. Empty(d)
        BY <1>1, <1>2, <1>5, <2>3, <3>1, NothingIn DEF Undoing
      <4> QED
        BY <2>3, <2>4, <3>1, <4>1 DEF Exists, IsDir
    <3>2. CASE Item.op # "INST_MKDIR"
      BY <2>3, <2>4, <2>5, <3>2 DEF Exists, IsDir
    <3> QED
      BY <3>1, <3>2
  <2>7. fs' = Remove(fs, d)
    BY <1>1, <2>6
  <2> HIDE DEF d, removable
  <2>8. DOMAIN Remove(fs, d) = DOMAIN fs \ {d}
    BY RemoveAt
  <2> QED
    BY <1>5, <2>3, <2>7, <2>8
<1> QED
  BY <1>1, <1>2, <1>4, <1>5

LEMMA GoneStep ==
  ASSUME InstInv, ParentsFirst(system), GoneInv, Step
  PROVE  GoneInv'
<1>1. Static /\ done < Len(Hierarchy)
  BY StepEffects
<1> SUFFICES ASSUME Undoing'
             PROVE  GoneInv'
  BY DEF GoneInv
<1>2. Hierarchy' = Hierarchy /\ \A it : Dst(it)' = Dst(it)
  BY <1>1 DEF Static, Hierarchy, Dst
<1>3. Ours' = Ours /\ \A p, n : ToCome(p, n)' <=> ToCome(p, n)
  BY <1>2 DEF Ours, ToCome
<1>4. program = "deinstaller" /\ calm' /\ ~dry /\ before' = before /\ exit' = exit
  BY <1>1 DEF Static, Undoing
<1>5. calm' = calm /\ (BeginItem \/ Call(FALSE))
  BY <1>4 DEF Step, Succeeds, Fails
<1>6. Deinstall(FALSE)
  BY <1>4, <1>5 DEF BeginItem, Call, MakeDir, MkdirOwn, OpenSource, OpenTmp, Fill, Chmod, Chown,
       Rename, EnterDir, MakeLink, CopyLink, LeaveDir, CheckItem, InstInv, PlaceInv
<1>7. Undoing
  <2>1. Complete(before) /\ OnlyOurs(before)
    BY <1>2, <1>3, <1>4 DEF Undoing, Complete, OnlyOurs
  <2> QED
    BY <1>4, <1>5, <2>1 DEF Undoing
<1>8. /\ Kept(fs', before)
      /\ \A p \in Ours \cap DOMAIN fs' : ToCome(p, done + 1)
      /\ done < Len(Hierarchy) /\ exit # "0" /\ done' = done + 1 /\ pc' = "item"
  BY <1>1, <1>5, <1>6, <1>7, DeinstallUndoing
<1>9. \A p \in Ours' \cap DOMAIN fs' : ToCome(p, done)'
  BY <1>2, <1>3, <1>8 DEF ToCome
<1> QED
  BY <1>4, <1>8, <1>9 DEF GoneInv, Kept

LEMMA GoneNext ==
  ASSUME InstInv, ParentsFirst(system), GoneInv, [Next]_vars
  PROVE  GoneInv'
<1>1. ASSUME NEW p, NEW d, Start(p, d)
      PROVE  GoneInv'
  <2>1. /\ done' = 0 /\ fs' = fs /\ before' = fs /\ Hierarchy' = Hierarchy /\ system' = system
        /\ (pc' = "item" /\ exit' = "none") \/ (pc' = "idle" /\ exit' = "1")
    BY <1>1 DEF Start, Hierarchy
  <2>2. Len(Hierarchy) - 0 = Len(Hierarchy) /\ DOMAIN Hierarchy = 1 .. Len(Hierarchy)
    BY Numbers DEF InstInv
  <2>3. \A p1 \in Ours' : ToCome(p1, 0)'
    BY <2>1, <2>2 DEF Ours, ToCome
  <2>4. Kept(fs', before')
    BY <2>1 DEF Kept
  <2> QED
    BY <2>1, <2>3, <2>4 DEF GoneInv
<1>2. CASE Step
  BY <1>2, GoneStep
<1>3. CASE Finish
  <2>1. /\ done = Len(Hierarchy) /\ pc = "item" /\ done' = done /\ fs' = fs /\ before' = before
        /\ Hierarchy' = Hierarchy /\ system' = system
        /\ program' = program /\ dry' = dry /\ calm' = calm
    BY <1>3 DEF Finish, Hierarchy
  <2>2. \A it : Dst(it)' = Dst(it)
    BY <2>1 DEF Dst
  <2>3. Ours' = Ours /\ (Undoing' <=> Undoing) /\ \A p : ToCome(p, done)' <=> ToCome(p, done)
    BY <2>1, <2>2 DEF Ours, Undoing, Complete, OnlyOurs, ToCome
  <2> QED
    BY <2>1, <2>3 DEF GoneInv
<1>4. CASE Kill \/ DoubleClose \/ Other
  <2>1. ~calm'
    BY <1>4 DEF Kill, DoubleClose, Dies, Other
  <2> QED
    BY <2>1 DEF GoneInv, Undoing
<1>5. CASE UNCHANGED vars
  <2>1. /\ done' = done /\ pc' = pc /\ fs' = fs /\ before' = before /\ exit' = exit
        /\ Hierarchy' = Hierarchy /\ system' = system
        /\ program' = program /\ dry' = dry /\ calm' = calm
    BY <1>5 DEF vars, Hierarchy
  <2>2. \A it : Dst(it)' = Dst(it)
    BY <2>1 DEF Dst
  <2>3. Ours' = Ours /\ (Undoing' <=> Undoing) /\ \A p : ToCome(p, done)' <=> ToCome(p, done)
    BY <2>1, <2>2 DEF Ours, Undoing, Complete, OnlyOurs, ToCome
  <2> QED
    BY <2>1, <2>3 DEF GoneInv
<1> QED
  BY <1>1, <1>2, <1>3, <1>4, <1>5 DEF Next, Ended

\* If the table names a directory before it names anything in it, a deinstaller
\* in which no system call fails leaves nothing of a complete installation: a
\* directory is empty by the time the walk backwards comes to its first item.
THEOREM Undone ==
  ASSUME \A s \in Systems : ParentsFirst(s)
  PROVE  Spec => []DeinstallUndoes
<1>1. Init => GoneInv
  BY DEF Init, GoneInv, Undoing
<1>2. InstInv /\ GoneInv /\ [Next]_vars => GoneInv'
  BY GoneNext DEF InstInv, Counters
<1>3. InstInv /\ GoneInv => DeinstallUndoes
  <2> SUFFICES ASSUME InstInv, GoneInv, Undoing, exit = "0", NEW p \in Ours \cap DOMAIN fs
               PROVE  FALSE
    BY DEF DeinstallUndoes, Undoing
  <2>1. ToCome(p, Len(Hierarchy))
    BY DEF GoneInv
  <2> QED
    BY <2>1, Numbers DEF ToCome, InstInv
<1> QED
  BY <1>1, <1>2, <1>3, Invariance, PTL DEF Spec

-----------------------------------------------------------------------------
(* What is true of every entry of the tree, however the runs end.           *)

\* The group install_file_copy and inst_mkdir give.
Given(it) == IF Win32 \/ UidOf(it) = Me THEN MyGroup ELSE GidOf(it)

\* A temporary file is of an item whose owner is known; on Win32 it can be
\* opened again.
TmpRight(p, e) ==
  /\ \A k \in ItemsOf(Copies) : p = Tmp(Dst(Hierarchy[k])) =>
       OwnerKnown(Hierarchy[k]) /\ e.group \in {MyGroup, Given(Hierarchy[k])}
  /\ EndsTmp(p) /\ Win32 /\ ~Superuser => e.owner = Me /\ "w" \in e.mode
\* A copy of this version has its group, and a link that has its path alone
\* points where it is to.
DstRight(p, e) ==
  /\ \A k \in ItemsOf(Copies) :
       p = Dst(Hierarchy[k]) /\ e.type = "file" /\ e.data = "new" => e.group = Given(Hierarchy[k])
  /\ \A k \in ItemsOf(Links) :
       p = Dst(Hierarchy[k]) /\ ~Win32 /\ Alone(Hierarchy[k]) =>
         e.type = "symlink" /\ e.data = Hierarchy[k].src
\* A directory that only the table makes has the mode it gives, and is the
\* user's own as long as it is to be.
Plain(it) == it.perm = {"w", "x", "o"} /\ it.perm \cap Umask = {}
DirRight(p, e) ==
  \A k \in ItemsOf({"INST_MKDIR"}) : LET it == Hierarchy[k] IN
    p = Dir(it) /\ Sole(it) /\ e.type = "directory" =>
      /\ Plain(it) => e.mode = it.perm
      /\ UidOf(it) = Me => e.owner = Me
      /\ Win32 \/ UidOf(it) = Me => e.group = MyGroup
EntryRight(p, e) ==
  (Win32 => e.type # "symlink") /\ TmpRight(p, e) /\ DstRight(p, e) /\ DirRight(p, e)
World(f) == \A p \in DOMAIN f : EntryRight(p, f[p])

\* The system does not change.
LEMMA SameSystem ==
  ASSUME system' = system
  PROVE  /\ Win32' = Win32 /\ Hierarchy' = Hierarchy /\ Me' = Me /\ MyGroup' = MyGroup
         /\ Umask' = Umask /\ Superuser' = Superuser /\ SupportsModes' = SupportsModes
         /\ \A ops : ItemsOf(ops)' = ItemsOf(ops)
         /\ \A it : /\ Dir(it)' = Dir(it) /\ Dst(it)' = Dst(it) /\ From(it)' = From(it)
                    /\ UidOf(it)' = UidOf(it) /\ GidOf(it)' = GidOf(it)
                    /\ OwnerKnown(it)' = OwnerKnown(it)
<1>1. Win32' = Win32 /\ Hierarchy' = Hierarchy /\ Me' = Me /\ MyGroup' = MyGroup
      /\ Umask' = Umask /\ SupportsModes' = SupportsModes /\ Passwd' = Passwd /\ Groups' = Groups
  BY DEF Win32, Hierarchy, Me, MyGroup, Umask, SupportsModes, Passwd, Groups
<1>2. Superuser' = Superuser
  BY <1>1 DEF Superuser
<1>3. \A ops : ItemsOf(ops)' = ItemsOf(ops)
  BY <1>1 DEF ItemsOf
<1>4. \A it : Dir(it)' = Dir(it) /\ Dst(it)' = Dst(it)
  BY DEF Dir, Dst
<1>5. \A it : From(it)' = From(it)
  BY <1>4 DEF From
<1>6. \A it : /\ UidOf(it)' = UidOf(it) /\ GidOf(it)' = GidOf(it)
              /\ OwnerKnown(it)' = OwnerKnown(it)
  BY <1>1 DEF UidOf, GidOf, OwnerKnown
<1> QED
  BY <1>1, <1>2, <1>3, <1>4, <1>5, <1>6

LEMMA SameNeeds ==
  ASSUME system' = system
  PROVE  \A it : /\ Given(it)' = Given(it) /\ Plain(it)' = Plain(it)
                 /\ MayOwn(it)' = MayOwn(it)
                 /\ Alone(it)' = Alone(it) /\ Sole(it)' = Sole(it)
<1>1. \A it : Given(it)' = Given(it) /\ Plain(it)' = Plain(it) /\ MayOwn(it)' = MayOwn(it)
  BY SameSystem DEF Given, Plain, MayOwn
<1>2. \A it : Alone(it)' = Alone(it)
  BY SameSystem DEF Alone
<1>3. \A it : Sole(it)' = Sole(it)
  BY SameSystem DEF Sole
<1> QED
  BY <1>1, <1>2, <1>3

LEMMA SameRight ==
  ASSUME system' = system
  PROVE  \A p, e : EntryRight(p, e)' <=> EntryRight(p, e)
<1>1. \A p, e : TmpRight(p, e)' <=> TmpRight(p, e)
  BY SameSystem, SameNeeds DEF TmpRight
<1>2. \A p, e : DstRight(p, e)' <=> DstRight(p, e)
  BY SameSystem, SameNeeds DEF DstRight
<1>3. \A p, e : DirRight(p, e)' <=> DirRight(p, e)
  BY SameSystem, SameNeeds DEF DirRight
<1> QED
  BY <1>1, <1>2, <1>3, SameSystem DEF EntryRight

LEMMA WorldAfter ==
  ASSUME system' = system, World(fs')
  PROVE  World(fs)'
BY SameRight DEF World

\* A step that changes one entry has to show of it what it is.
LEMMA WorldAt ==
  ASSUME NEW f, NEW g, NEW p, World(f), OnlyAt(f, g, p),
         p \in DOMAIN g => EntryRight(p, g[p])
  PROVE  World(g)
BY DEF World, OnlyAt

-----------------------------------------------------------------------------
\* What the table copies to one path is for one group, and known or not.
LEMMA AgreeGroup ==
  ASSUME system \in Systems, NEW k \in ItemsOf(Copies), NEW j \in DOMAIN Hierarchy,
         Dst(Hierarchy[j]) = Dst(Hierarchy[k])
  PROVE  /\ Hierarchy[j].op \in Copies
         /\ OwnerKnown(Hierarchy[j]) = OwnerKnown(Hierarchy[k])
         /\ Given(Hierarchy[j]) = Given(Hierarchy[k])
<1>1. TableAssumption(system)
  BY SystemsAssumption
<1>2. /\ Hierarchy[j].op \in Copies /\ Hierarchy[j].owner = Hierarchy[k].owner
      /\ Hierarchy[j].group = Hierarchy[k].group
  BY <1>1 DEF TableAssumption, Hierarchy, ItemsOf, Dst
<1>3. UidOf(Hierarchy[j]) = UidOf(Hierarchy[k]) /\ GidOf(Hierarchy[j]) = GidOf(Hierarchy[k])
      /\ OwnerKnown(Hierarchy[j]) = OwnerKnown(Hierarchy[k])
  BY <1>2 DEF UidOf, GidOf, OwnerKnown
<1>4. Given(Hierarchy[j]) = Given(Hierarchy[k])
  BY <1>3 DEF Given
<1> QED
  BY <1>2, <1>3, <1>4

\* The item in hand, as an item of the table.
LEMMA HandIn ==
  ASSUME Counters, done < Len(Hierarchy), NEW ops
  PROVE  Item.op \in ops => \E k \in ItemsOf(ops) : Item = Hierarchy[k]
BY ItemInTable DEF ItemsOf

\* A temporary file is nothing else.
LEMMA TmpEntry ==
  ASSUME system \in Systems, NEW p, EndsTmp(p), NEW e, e.type = "file", TmpRight(p, e)
  PROVE  EntryRight(p, e)
<1>1. DstRight(p, e)
  <2>1. \A k \in ItemsOf(Copies) \cup ItemsOf(Links) : p # Dst(Hierarchy[k])
    BY ItemFacts DEF ItemsOf
  <2> QED
    BY <2>1 DEF DstRight
<1>2. DirRight(p, e)
  BY DEF DirRight
<1> QED
  BY <1>1, <1>2 DEF EntryRight

\* What has no such name is none.
LEMMA NoTmpEntry ==
  ASSUME system \in Systems, NEW p, ~EndsTmp(p), NEW e,
         Win32 => e.type # "symlink", DstRight(p, e), DirRight(p, e)
  PROVE  EntryRight(p, e)
<1>1. TmpRight(p, e)
  <2>1. \A k \in ItemsOf(Copies) : p # Tmp(Dst(Hierarchy[k]))
    BY TmpNotDst
  <2> QED
    BY <2>1 DEF TmpRight
<1> QED
  BY <1>1 DEF EntryRight

\* Steps that change the tree in one place.
LEMMA PutStep ==
  ASSUME NEW p, NEW e, fs' = Put(fs, p, e)
  PROVE  /\ OnlyAt(fs, fs', p) /\ p \in DOMAIN fs' /\ fs'[p] = e
         /\ DOMAIN fs' = DOMAIN fs \cup {p}
<1>1. /\ OnlyAt(fs, Put(fs, p, e), p) /\ Put(fs, p, e)[p] = e
      /\ DOMAIN Put(fs, p, e) = DOMAIN fs \cup {p}
  BY PutAt
<1> QED
  BY <1>1

LEMMA RemoveStep ==
  ASSUME NEW p, fs' = Remove(fs, p)
  PROVE  OnlyAt(fs, fs', p) /\ p \notin DOMAIN fs' /\ DOMAIN fs' = DOMAIN fs \ {p}
<1>1. OnlyAt(fs, Remove(fs, p), p) /\ DOMAIN Remove(fs, p) = DOMAIN fs \ {p}
  BY RemoveAt
<1> QED
  BY <1>1

LEMMA ChangeStep ==
  ASSUME NEW p \in DOMAIN fs, NEW e, fs' = [fs EXCEPT ![p] = e]
  PROVE  OnlyAt(fs, fs', p) /\ p \in DOMAIN fs' /\ fs'[p] = e /\ DOMAIN fs' = DOMAIN fs
<1>1. /\ OnlyAt(fs, [fs EXCEPT ![p] = e], p) /\ [fs EXCEPT ![p] = e][p] = e
      /\ DOMAIN [fs EXCEPT ![p] = e] = DOMAIN fs
  BY ExceptAt
<1> QED
  BY <1>1

\* The prefix install_rmkdir has come to.
LEMMA MakingFacts ==
  ASSUME InstInv, pc = "mkdir"
  PROVE  LET p == SubSeq(Dir(Item), 1, at)
         IN /\ done < Len(Hierarchy) /\ Item.op = "INST_MKDIR" /\ at \in 1 .. Len(Dir(Item))
            /\ p \in Prefixes(Dir(Item)) /\ p \in Seq(Element) \ {<<>>} /\ ~EndsTmp(p)
            /\ \E k \in ItemsOf({"INST_MKDIR"}) : Item = Hierarchy[k]
<1> DEFINE p == SubSeq(Dir(Item), 1, at)
<1>1. done < Len(Hierarchy) /\ Item.op = "INST_MKDIR" /\ at \in 1 .. Len(Dir(Item))
  BY DEF InstInv, PlaceInv
<1>2. p \in Prefixes(Dir(Item))
  BY <1>1 DEF Prefixes
<1>3. Dir(Item) \in Seq(Names)
  BY <1>1, HandFacts DEF InstInv
<1>4. p \in Seq(Element) \ {<<>>} /\ ~EndsTmp(p)
  BY <1>2, <1>3, PrefixFacts, PathFacts
<1>5. \E k \in ItemsOf({"INST_MKDIR"}) : Item = Hierarchy[k]
  BY <1>1, HandIn DEF InstInv
<1> QED
  BY <1>1, <1>2, <1>4, <1>5

\* A directory that install_rmkdir makes.
LEMMA MakeDirWorld ==
  ASSUME InstInv, World(fs), NEW f, MakeDir(f)
  PROVE  World(fs')
<1> DEFINE p == SubSeq(Dir(Item), 1, at)
           made == Entry("directory", "dir", Item.perm \ Umask, Me, MyGroup)
<1>1. /\ p \in Prefixes(Dir(Item)) /\ ~EndsTmp(p)
  BY MakingFacts DEF MakeDir
<1>2. PICK m \in ItemsOf({"INST_MKDIR"}) : Item = Hierarchy[m]
  BY MakingFacts DEF MakeDir
<1>3. fs' = fs \/ fs' = Put(fs, p, made)
  BY DEF MakeDir
<1>4. /\ made.type = "directory" /\ made.data = "dir" /\ made.mode = Item.perm \ Umask
      /\ made.owner = Me /\ made.group = MyGroup
  BY DEF Entry
<1> HIDE DEF p, made
<1>5. DstRight(p, made)
  BY <1>1, <1>2, <1>4 DEF DstRight, Alone
<1>6. DirRight(p, made)
  <2> SUFFICES ASSUME NEW k \in ItemsOf({"INST_MKDIR"}), p = Dir(Hierarchy[k]), Sole(Hierarchy[k]),
                      Plain(Hierarchy[k])
               PROVE  made.mode = Hierarchy[k].perm
    BY <1>4 DEF DirRight
  <2>1. Item.perm = Hierarchy[k].perm
    BY <1>1, <1>2 DEF Sole
  <2> QED
    BY <1>4, <2>1 DEF Plain
<1>7. EntryRight(p, made)
  BY <1>1, <1>4, <1>5, <1>6, NoTmpEntry DEF InstInv, Counters
<1>8. CASE fs' = Put(fs, p, made)
  <2>1. OnlyAt(fs, fs', p) /\ fs'[p] = made
    BY <1>8, PutStep
  <2> QED
    BY <1>7, <2>1, WorldAt
<1> QED
  BY <1>3, <1>8

\* An owner that inst_mkdir sets.
LEMMA MkdirOwnWorld ==
  ASSUME InstInv, World(fs), NEW f, MkdirOwn(f)
  PROVE  World(fs')
<1> DEFINE p == Dir(Item)
           e == Owned(fs[p], UidOf(Item), GidOf(Item))
<1>1. pc = "own" /\ done < Len(Hierarchy) /\ Item.op = "INST_MKDIR"
  BY DEF MkdirOwn, InstInv, PlaceInv
<1>2. Dst(Item) = p /\ ~EndsTmp(p)
  BY <1>1, HandFacts DEF InstInv
<1>3. PICK m \in ItemsOf({"INST_MKDIR"}) : Item = Hierarchy[m]
  BY <1>1, HandIn DEF InstInv
<1>4. fs' = fs \/ (p \in DOMAIN fs /\ UidOf(Item) # Me /\ fs' = [fs EXCEPT ![p] = e])
  BY DEF MkdirOwn, Exists
<1>5. CASE p \in DOMAIN fs /\ UidOf(Item) # Me /\ fs' = [fs EXCEPT ![p] = e]
  <2>1. EntryOK(fs[p]) /\ EntryRight(p, fs[p])
    BY <1>5 DEF World, InstInv, FsInv, TreeOK, NodeOK
  <2>2. /\ e.type = fs[p].type /\ e.data = fs[p].data /\ e.mode = fs[p].mode
        /\ Win32 => e.group = fs[p].group
    <3>1. Win32 => e.group = fs[p].group
      BY <2>1 DEF Owned, EntryOK, Fields
    <3> QED
      BY <2>1, <3>1, OwnedFacts
  <2>3. OnlyAt(fs, [fs EXCEPT ![p] = e], p) /\ [fs EXCEPT ![p] = e][p] = e
    BY <1>5, ExceptAt
  <2> HIDE DEF e
  <2>4. \A k \in ItemsOf(Copies) : p # Dst(Hierarchy[k])
    BY <1>1, <1>2, AgreeHand DEF Copies, InstInv
  <2>5. DstRight(p, e)
    BY <2>1, <2>2, <2>4 DEF DstRight, EntryRight
  <2>6. DirRight(p, e)
    <3> SUFFICES ASSUME NEW k \in ItemsOf({"INST_MKDIR"}), p = Dir(Hierarchy[k]), Sole(Hierarchy[k]),
                        e.type = "directory"
                 PROVE  /\ Plain(Hierarchy[k]) => e.mode = Hierarchy[k].perm
                        /\ UidOf(Hierarchy[k]) # Me
                        /\ Win32 => e.group = MyGroup
      BY DEF DirRight
    <3>1. Item.owner = Hierarchy[k].owner
      BY <1>3 DEF Sole
    <3>2. UidOf(Hierarchy[k]) # Me
      BY <1>5, <3>1 DEF UidOf
    <3>3. /\ Plain(Hierarchy[k]) => fs[p].mode = Hierarchy[k].perm
          /\ Win32 => fs[p].group = MyGroup
      BY <2>1, <2>2 DEF EntryRight, DirRight
    <3> QED
      BY <2>2, <3>2, <3>3
  <2>7. EntryRight(p, e)
    BY <1>2, <2>1, <2>2, <2>5, <2>6, NoTmpEntry DEF EntryRight, InstInv, Counters
  <2> QED
    BY <1>5, <2>3, <2>7, WorldAt
<1> QED
  BY <1>4, <1>5

-----------------------------------------------------------------------------
\* What the calls before have made sure of for the item in hand.
Working == {"fill", "chmod", "chown", "rename"}
Finishing == {"chmod", "chown", "rename"}
HandInv ==
  LET t == Tmp(Dst(Item))
      p == From(Item)
  IN /\ dry => pc \in {"idle", "item", "leave"}
     /\ program = "deinstaller" => quiet = 0
     /\ pc \in Copying /\ Item.op \in Copies => OwnerKnown(Item)
     /\ pc \in {"mkdir", "own"} => OwnerKnown(Item)
     /\ pc \in Copying \cup {"link", "owner", "leave"} /\ Item.op \in Links => cwd = Dir(Item)
     /\ pc \in {"fill", "chmod"} => Superuser \/ fs[t].owner = Me
     /\ pc \in Finishing /\ Item.op \in Links => Exists(p) /\ fs[p].type = "file"
     /\ pc = "rename" /\ Item.op \in Links => Copyable(p)
     /\ pc = "rename" /\ Item.op \in Copies => MayOwn(Item) /\ fs[t].group = Given(Item)
\* All that is true of every run of every program.
RunInv == InstInv /\ World(fs) /\ HandInv /\ InOrder(system)

\* The path of the item in hand is that of no other kind of item.
LEMMA AgreeGiven ==
  ASSUME Counters, done < Len(Hierarchy), NEW k \in ItemsOf(Copies),
         Dst(Hierarchy[k]) = Dst(Item)
  PROVE  /\ Item.op \in Copies /\ OwnerKnown(Item) = OwnerKnown(Hierarchy[k])
         /\ Given(Item) = Given(Hierarchy[k])
BY ItemInTable, AgreeGroup DEF Counters

LEMMA TmpRightHand ==
  ASSUME Counters, done < Len(Hierarchy), NEW e,
         Item.op \in Copies => OwnerKnown(Item) /\ e.group \in {MyGroup, Given(Item)},
         Win32 /\ ~Superuser => e.owner = Me /\ "w" \in e.mode
  PROVE  TmpRight(Tmp(Dst(Item)), e)
<1> DEFINE t == Tmp(Dst(Item))
<1>1. \A k \in ItemsOf(Copies) : t = Tmp(Dst(Hierarchy[k])) => Dst(Hierarchy[k]) = Dst(Item)
  BY TmpHand DEF ItemsOf
<1>2. \A k \in ItemsOf(Copies) : t = Tmp(Dst(Hierarchy[k])) =>
        OwnerKnown(Hierarchy[k]) /\ e.group \in {MyGroup, Given(Hierarchy[k])}
  BY <1>1, AgreeGiven
<1> QED
  BY <1>2 DEF TmpRight

LEMMA TmpWorld ==
  ASSUME Counters, done < Len(Hierarchy), World(fs), OnlyAt(fs, fs', Tmp(Dst(Item))),
         LET t == Tmp(Dst(Item))
         IN t \in DOMAIN fs' => fs'[t].type = "file" /\ TmpRight(t, fs'[t])
  PROVE  World(fs')
<1> DEFINE t == Tmp(Dst(Item))
<1>1. EndsTmp(t)
  BY TmpHand
<1>2. t \in DOMAIN fs' => EntryRight(t, fs'[t])
  BY <1>1, TmpEntry DEF Counters
<1> QED
  BY <1>2, WorldAt

LEMMA ErrWorld ==
  ASSUME Counters, done < Len(Hierarchy), World(fs), Err
  PROVE  World(fs')
<1> DEFINE t == Tmp(Dst(Item))
<1>1. fs' = Remove(fs, t)
  BY DEF Err
<1>2. OnlyAt(fs, fs', t) /\ t \notin DOMAIN fs'
  BY <1>1, RemoveStep
<1> QED
  BY <1>2, TmpWorld

LEMMA OpenTmpWorld ==
  ASSUME RunInv, NEW f, OpenTmp(f)
  PROVE  World(fs')
<1> USE DEF RunInv
<1> DEFINE t == Tmp(Dst(Item))
           made == Entry("file", "part", {"w", "o", "g"} \ Umask, Me, MyGroup)
<1>1. pc = "open" /\ done < Len(Hierarchy)
  BY DEF OpenTmp, InstInv, PlaceInv
<1>2. Item.op \in Copies => OwnerKnown(Item)
  BY <1>1 DEF HandInv, Copying
<1>3. CASE Err
  BY <1>1, <1>3, ErrWorld DEF InstInv
<1>4. CASE ~Exists(t) /\ fs' = Put(fs, t, made)
  <2>1. /\ made.type = "file" /\ made.owner = Me /\ made.group = MyGroup
        /\ made.mode = {"w", "o", "g"} \ Umask
    BY DEF Entry
  <2> HIDE DEF made
  <2>2. Win32 => "w" \in made.mode
    BY <2>1 DEF InOrder, Win32, Umask
  <2>3. TmpRight(t, made)
    BY <1>1, <1>2, <2>1, <2>2, TmpRightHand DEF InstInv
  <2>4. OnlyAt(fs, fs', t) /\ fs'[t] = made
    BY <1>4, PutStep
  <2> QED
    BY <1>1, <2>1, <2>3, <2>4, TmpWorld DEF InstInv
<1>5. CASE Exists(t) /\ fs' = [fs EXCEPT ![t].data = "part"]
  <2> DEFINE e == [fs[t] EXCEPT !.data = "part"]
  <2>1. t \in DOMAIN fs /\ EntryOK(fs[t]) /\ fs[t].type = "file" /\ EntryRight(t, fs[t])
    BY <1>1, <1>5, TmpHand DEF Exists, World, InstInv, FsInv, TreeOK, NodeOK
  <2>2. /\ e.type = fs[t].type /\ e.owner = fs[t].owner /\ e.group = fs[t].group
        /\ e.mode = fs[t].mode
    BY <2>1 DEF EntryOK, Fields
  <2>3. fs' = [fs EXCEPT ![t] = e]
    BY <1>5
  <2> HIDE DEF e
  <2>4. OnlyAt(fs, fs', t) /\ fs'[t] = e
    BY <2>1, <2>3, ChangeStep
  <2>5. TmpRight(t, e)
    BY <2>1, <2>2 DEF EntryRight, TmpRight
  <2> QED
    BY <1>1, <2>1, <2>2, <2>4, <2>5, TmpWorld DEF InstInv
<1> QED
  BY <1>3, <1>4, <1>5 DEF OpenTmp

\* What is done to the temporary file in hand, and who it belongs to then.
LEMMA WorkWorld ==
  ASSUME RunInv, NEW f, Fill(f) \/ Chmod(f) \/ Chown(f)
  PROVE  World(fs')
<1> USE DEF RunInv
<1> DEFINE t == Tmp(Dst(Item))
<1>1. pc \in Working /\ pc \in {"fill", "chmod", "chown", "rename"}
  BY DEF Fill, Chmod, Chown, Working
<1>2. /\ done < Len(Hierarchy) /\ t \in DOMAIN fs /\ EntryOK(fs[t]) /\ fs[t].type = "file"
      /\ EntryRight(t, fs[t])
  BY <1>1, TmpThere DEF Exists, World
<1>3. CASE Err
  BY <1>2, <1>3, ErrWorld DEF InstInv
<1>4. CASE fs' = fs
  BY <1>4
<1>5. ASSUME NEW e, fs' = [fs EXCEPT ![t] = e], e.type = "file", TmpRight(t, e)
      PROVE  World(fs')
  <2>1. OnlyAt(fs, fs', t) /\ fs'[t] = e
    BY <1>2, <1>5, ChangeStep
  <2> QED
    BY <1>2, <1>5, <2>1, TmpWorld DEF InstInv
<1>6. CASE Fill(f) /\ ~Err
  <2> DEFINE e == [fs[t] EXCEPT !.data = SourceData(Item)]
  <2>1. fs' = [fs EXCEPT ![t] = e]
    BY <1>6 DEF Fill
  <2>2. /\ e.type = "file" /\ e.owner = fs[t].owner /\ e.group = fs[t].group /\ e.mode = fs[t].mode
    BY <1>2 DEF EntryOK, Fields
  <2> HIDE DEF e
  <2>3. TmpRight(t, e)
    BY <1>2, <2>2 DEF EntryRight, TmpRight
  <2> QED
    BY <1>5, <2>1, <2>2, <2>3
<1>7. CASE Chmod(f) /\ ~Err /\ fs' # fs
  <2> DEFINE e == [fs[t] EXCEPT !.mode = Item.perm]
  <2>1. SupportsModes /\ fs' = [fs EXCEPT ![t] = e]
    BY <1>7 DEF Chmod
  <2>2. /\ e.type = "file" /\ e.owner = fs[t].owner /\ e.group = fs[t].group
    BY <1>2 DEF EntryOK, Fields
  <2> HIDE DEF e
  <2>3. TmpRight(t, e)
    BY <1>2, <2>1, <2>2 DEF EntryRight, TmpRight, SupportsModes
  <2> QED
    BY <1>5, <2>1, <2>2, <2>3
<1>8. CASE Chown(f) /\ ~Err /\ fs' # fs
  <2> DEFINE e == Owned(fs[t], CopyUid(Item), CopyGid(Item))
  <2>1. pc = "chown" /\ CopyUid(Item) # Me /\ Superuser /\ fs' = [fs EXCEPT ![t] = e]
    BY <1>8 DEF Chown
  <2>2. e.type = "file" /\ e.group = IF Win32 THEN fs[t].group ELSE CopyGid(Item)
    <3>1. e.group = IF Win32 THEN fs[t].group ELSE CopyGid(Item)
      BY <1>2 DEF Owned, EntryOK, Fields
    <3> QED
      BY <1>2, <3>1, OwnedFacts
  <2> HIDE DEF e
  <2>3. Item.op \in Copies => OwnerKnown(Item) /\ e.group \in {MyGroup, Given(Item)}
    <3> SUFFICES ASSUME Item.op \in Copies
                 PROVE  OwnerKnown(Item) /\ e.group \in {MyGroup, Given(Item)}
      OBVIOUS
    <3>1. OwnerKnown(Item) /\ CopyUid(Item) = UidOf(Item) /\ CopyGid(Item) = GidOf(Item)
      BY <2>1 DEF HandInv, Copying, CopyUid, CopyGid, Copies, Links
    <3>2. PICK k \in ItemsOf(Copies) : Item = Hierarchy[k]
      BY <1>2, HandIn DEF InstInv
    <3>3. fs[t].group \in {MyGroup, Given(Item)}
      BY <1>2, <3>2 DEF EntryRight, TmpRight
    <3> QED
      BY <2>1, <2>2, <3>1, <3>3 DEF Given
  <2>4. TmpRight(t, e)
    BY <1>2, <2>1, <2>3, TmpRightHand DEF InstInv
  <2> QED
    BY <1>5, <2>1, <2>2, <2>4
<1> QED
  BY <1>3, <1>4, <1>6, <1>7, <1>8

LEMMA RenameWorld ==
  ASSUME RunInv, NEW f, Rename(f)
  PROVE  World(fs')
<1> USE DEF RunInv
<1> DEFINE t == Tmp(Dst(Item))
           d == Dst(Item)
           g == Put(fs, d, fs[t])
<1>1. pc = "rename"
  BY DEF Rename
<1>2. /\ done < Len(Hierarchy) /\ t \in DOMAIN fs /\ EntryOK(fs[t]) /\ fs[t].type = "file"
      /\ EntryRight(t, fs[t]) /\ Item.op # "INST_MKDIR"
  BY <1>1, TmpThere DEF Exists, World
<1>3. CASE Err
  BY <1>2, <1>3, ErrWorld DEF InstInv
<1>4. CASE fs' = Remove(g, t)
  <2>1. ~EndsTmp(d)
    BY <1>2, HandFacts DEF InstInv
  <2>2. \A k \in ItemsOf(Copies) : d = Dst(Hierarchy[k]) => fs[t].group = Given(Hierarchy[k])
    BY <1>1, <1>2, AgreeGiven DEF HandInv, InstInv
  <2>3. \A k \in ItemsOf(Links) : d = Dst(Hierarchy[k]) => Win32
    <3> SUFFICES ASSUME NEW k \in ItemsOf(Links), d = Dst(Hierarchy[k]), Item.op \notin Links
                 PROVE  FALSE
      BY <1>1 DEF InstInv, PlaceInv, Copying
    <3>1. Item.op \in Copies
      BY <1>2, HandFacts DEF InstInv
    <3>2. PICK j \in ItemsOf(Copies) : Item = Hierarchy[j]
      BY <1>2, <3>1, HandIn DEF InstInv
    <3>3. Hierarchy[k].op \in Copies
      BY <3>2, Agree DEF ItemsOf, InstInv, Counters
    <3> QED
      BY <3>3 DEF ItemsOf, Copies, Links
  <2>4. DstRight(d, fs[t])
    BY <2>2, <2>3 DEF DstRight
  <2>5. DirRight(d, fs[t])
    BY <1>2 DEF DirRight
  <2>6. EntryRight(d, fs[t])
    BY <1>2, <2>1, <2>4, <2>5, NoTmpEntry DEF InstInv, Counters
  <2>7. OnlyAt(fs, g, d) /\ g[d] = fs[t] /\ DOMAIN g = DOMAIN fs \cup {d}
    BY PutAt
  <2> HIDE DEF g, d, t
  <2>8. World(g)
    BY <2>6, <2>7, WorldAt
  <2>9. OnlyAt(g, Remove(g, t), t) /\ DOMAIN Remove(g, t) = DOMAIN g \ {t}
    BY RemoveAt
  <2> QED
    BY <1>4, <2>8, <2>9, WorldAt
<1> QED
  BY <1>3, <1>4 DEF Rename

LEMMA MakeLinkWorld ==
  ASSUME RunInv, NEW f, MakeLink(f)
  PROVE  World(fs')
<1> USE DEF RunInv
<1> DEFINE d == Dst(Item)
           made == Entry("symlink", Item.src, Bit, Me, MyGroup)
<1>1. pc = "link" /\ done < Len(Hierarchy) /\ ~Win32 /\ Item.op \in Links
  BY DEF MakeLink, InstInv, PlaceInv
<1>2. made.type = "symlink" /\ made.data = Item.src
  BY DEF Entry
<1>3. fs' = fs \/ fs' = Put(fs, d, made)
  BY DEF MakeLink
<1> HIDE DEF made
<1>4. CASE fs' = Put(fs, d, made)
  <2>1. ~EndsTmp(d)
    BY <1>1, HandFacts DEF InstInv
  <2>2. PICK j \in ItemsOf(Links) : Item = Hierarchy[j]
    BY <1>1, HandIn DEF InstInv
  <2>3. DstRight(d, made)
    BY <1>2, <2>2 DEF DstRight, Alone
  <2>4. DirRight(d, made)
    BY <1>2 DEF DirRight
  <2>5. EntryRight(d, made)
    BY <1>1, <2>1, <2>3, <2>4, NoTmpEntry DEF InstInv, Counters
  <2>6. OnlyAt(fs, fs', d) /\ fs'[d] = made
    BY <1>4, PutStep
  <2> QED
    BY <2>5, <2>6, WorldAt
<1> QED
  BY <1>3, <1>4

LEMMA DeinstallWorld ==
  ASSUME World(fs), NEW f, Deinstall(f)
  PROVE  World(fs')
<1>1. fs' = fs \/ fs' = Remove(fs, Dst(Item))
  BY DEF Deinstall
<1>2. CASE fs' = Remove(fs, Dst(Item))
  <2>1. OnlyAt(fs, fs', Dst(Item)) /\ Dst(Item) \notin DOMAIN fs'
    BY <1>2, RemoveStep
  <2> QED
    BY <2>1, WorldAt
<1> QED
  BY <1>1, <1>2

LEMMA StepWorld ==
  ASSUME RunInv, Step
  PROVE  World(fs)'
<1>1. Static
  BY StepEffects DEF RunInv
<1>2. ASSUME NEW f \in BOOLEAN, Call(f)
      PROVE  World(fs')
  <2>1. CASE MakeDir(f) \/ MkdirOwn(f)
    BY <2>1, MakeDirWorld, MkdirOwnWorld DEF RunInv
  <2>2. CASE OpenTmp(f) \/ Fill(f) \/ Chmod(f) \/ Chown(f)
    BY <2>2, OpenTmpWorld, WorkWorld
  <2>3. CASE Rename(f) \/ MakeLink(f) \/ Deinstall(f)
    BY <2>3, RenameWorld, MakeLinkWorld, DeinstallWorld DEF RunInv
  <2>4. CASE OpenSource(f) \/ EnterDir(f) \/ CopyLink(f) \/ LeaveDir(f) \/ CheckItem(f)
    <3>1. fs' = fs
      BY <2>4 DEF OpenSource, EnterDir, CopyLink, LeaveDir, CheckItem, Nothing
    <3> QED
      BY <3>1 DEF RunInv
  <2> QED
    BY <1>2, <2>1, <2>2, <2>3, <2>4 DEF Call
<1>3. ASSUME BeginItem
      PROVE  World(fs')
  <2>1. fs' = fs
    BY <1>3 DEF BeginItem, Nothing
  <2> QED
    BY <2>1 DEF RunInv
<1>4. World(fs')
  <2>1. BeginItem \/ Call(FALSE) \/ Call(TRUE)
    BY DEF Step
  <2>2. CASE Call(FALSE)
    BY <1>2, <2>2
  <2>3. CASE Call(TRUE)
    BY <1>2, <2>3
  <2> QED
    BY <1>3, <2>1, <2>2, <2>3
<1> QED
  BY <1>1, <1>4, WorldAfter DEF Static

-----------------------------------------------------------------------------
\* What other programs write is of no item.
LEMMA OtherWorld ==
  ASSUME InstInv, World(fs), Other
  PROVE  World(fs')
<1>1. PICK o \in system.others : fs' = Put(fs, o[1], o[2])
  BY DEF Other
<1> DEFINE p == o[1]
           e == o[2]
<1>2. TreeAssumption(system)
  BY SystemsAssumption DEF InstInv, Counters
<1>3. /\ p \in Paths /\ e \in OthersEntry
      /\ Win32 => e.type # "symlink"
      /\ \A k \in ItemsOf(Links) : p = Dst(Hierarchy[k]) => ~Alone(Hierarchy[k])
      /\ \A k \in ItemsOf({"INST_MKDIR"}) : p = Dir(Hierarchy[k]) => ~Sole(Hierarchy[k])
  BY <1>2 DEF TreeAssumption, Win32, Alone, Sole
<1>4. fs' = Put(fs, p, e)
  BY <1>1
<1> HIDE DEF p, e
<1>5. ~EndsTmp(p)
  BY <1>3, PathFacts
<1>6. e.data # "new"
  BY <1>3 DEF OthersEntry, Names
<1>7. DstRight(p, e) /\ DirRight(p, e)
  BY <1>3, <1>6 DEF DstRight, DirRight
<1>8. EntryRight(p, e)
  BY <1>3, <1>5, <1>7, NoTmpEntry DEF InstInv, Counters
<1>9. OnlyAt(fs, fs', p) /\ fs'[p] = e
  BY <1>4, PutStep
<1> QED
  BY <1>8, <1>9, WorldAt

\* The directories there are before the first run.
LEMMA DirWorld ==
  ASSUME system \in Systems, NEW p, ~EndsTmp(p),
         \A k \in ItemsOf(Links) : p = Dst(Hierarchy[k]) => ~Alone(Hierarchy[k])
  PROVE  EntryRight(p, Entry("directory", "dir", {"w", "x", "o"}, Me, MyGroup))
<1> DEFINE dir == Entry("directory", "dir", {"w", "x", "o"}, Me, MyGroup)
<1>1. /\ dir.type = "directory" /\ dir.data = "dir" /\ dir.mode = {"w", "x", "o"}
      /\ dir.owner = Me /\ dir.group = MyGroup
  BY DEF Entry
<1> HIDE DEF dir
<1>2. DstRight(p, dir)
  BY <1>1 DEF DstRight
<1>3. DirRight(p, dir)
  BY <1>1 DEF DirRight, Plain
<1>4. EntryRight(p, dir)
  BY <1>1, <1>2, <1>3, NoTmpEntry
<1> QED
  BY <1>4 DEF dir

LEMMA BareWorld ==
  ASSUME system \in Systems
  PROVE  World(Bare)
<1>1. TreeAssumption(system)
  BY SystemsAssumption
<1>2. \A p \in system.base : EntryRight(p, Entry("directory", "dir", {"w", "x", "o"}, Me, MyGroup))
  <2> SUFFICES ASSUME NEW p \in system.base
               PROVE  EntryRight(p, Entry("directory", "dir", {"w", "x", "o"}, Me, MyGroup))
    OBVIOUS
  <2>1. ~EndsTmp(p)
    BY <1>1, PathFacts DEF TreeAssumption
  <2>2. \A k \in ItemsOf(Links) : p = Dst(Hierarchy[k]) => ~Alone(Hierarchy[k])
    BY DEF Alone
  <2> QED
    BY <2>1, <2>2, DirWorld
<1> QED
  BY <1>2 DEF World, Bare

LEMMA EarlierWorld ==
  ASSUME system \in Systems
  PROVE  World(Earlier)
<1> DEFINE dir == Entry("directory", "dir", {"w", "x", "o"}, Me, MyGroup)
           dirs == UNION {Prefixes(Dir(Hierarchy[k])) : k \in ItemsOf({"INST_MKDIR"})}
           known == {k \in ItemsOf(Copies) : OwnerKnown(Hierarchy[k])}
           item(p) == Hierarchy[CHOOSE k \in known : Dst(Hierarchy[k]) = p]
           old(p) == Entry("file", "old", item(p).perm, UidOf(item(p)), GidOf(item(p)))
           dsts == {Dst(Hierarchy[k]) : k \in known}
           f == Earlier
<1>1. /\ DOMAIN f = system.base \cup dirs \cup dsts
      /\ \A p \in DOMAIN f : f[p] = IF p \in system.base \cup dirs THEN dir ELSE old(p)
  BY DEF Earlier
<1>2. \A p \in system.base \cup dirs : EntryRight(p, dir)
  <2> SUFFICES ASSUME NEW p \in system.base \cup dirs
               PROVE  EntryRight(p, dir)
    OBVIOUS
  <2>1. ~EndsTmp(p)
    <3>1. CASE p \in system.base
      BY <3>1, SystemsAssumption, PathFacts DEF TreeAssumption
    <3>2. CASE p \in dirs
      <4>1. PICK k \in ItemsOf({"INST_MKDIR"}) : p \in Prefixes(Dir(Hierarchy[k]))
        BY <3>2
      <4>2. Dir(Hierarchy[k]) \in Seq(Names)
        BY ItemFacts DEF ItemsOf
      <4> QED
        BY <4>1, <4>2, PrefixFacts, PathFacts
    <3> QED
      BY <3>1, <3>2
  <2>2. \A k \in ItemsOf(Links) : p = Dst(Hierarchy[k]) => ~Alone(Hierarchy[k])
    BY DEF Alone
  <2> QED
    BY <2>1, <2>2, DirWorld
<1>3. ASSUME NEW p \in dsts
      PROVE  EntryRight(p, old(p))
  <2>1. old(p).type = "file" /\ old(p).data = "old"
    BY DEF Entry
  <2> HIDE DEF old
  <2>2. PICK k \in ItemsOf(Copies) : p = Dst(Hierarchy[k])
    BY <1>3
  <2>3. ~EndsTmp(p)
    BY <2>2, ItemFacts DEF ItemsOf
  <2>4. \A j \in ItemsOf(Links) : p # Dst(Hierarchy[j])
    <3> SUFFICES ASSUME NEW j \in ItemsOf(Links), p = Dst(Hierarchy[j])
                 PROVE  FALSE
      OBVIOUS
    <3>1. j \in DOMAIN Hierarchy /\ Hierarchy[j].op \in Links
      BY DEF ItemsOf
    <3>2. Hierarchy[j].op \in Copies
      BY <2>2, <3>1, Agree
    <3> QED
      BY <3>1, <3>2 DEF Copies, Links
  <2>5. DstRight(p, old(p)) /\ DirRight(p, old(p))
    BY <2>1, <2>4 DEF DstRight, DirRight
  <2> QED
    BY <2>1, <2>3, <2>5, NoTmpEntry
<1> HIDE DEF dir, dirs, dsts, old, f
<1>4. World(f)
  BY <1>1, <1>2, <1>3 DEF World
<1> QED
  BY <1>4 DEF f

LEMMA WorldNext ==
  ASSUME RunInv, [Next]_vars
  PROVE  World(fs)'
<1>1. CASE Step
  BY <1>1, StepWorld
<1>2. ASSUME system' = system, fs' = fs
      PROVE  World(fs)'
  <2>1. World(fs')
    BY <1>2 DEF RunInv
  <2> QED
    BY <1>2, <2>1, WorldAfter
<1>3. CASE Other
  <2>1. system' = system
    BY <1>3 DEF Other
  <2>2. World(fs')
    BY <1>3, OtherWorld DEF RunInv
  <2> QED
    BY <2>1, <2>2, WorldAfter
<1>4. ASSUME NEW p, NEW d, Start(p, d)
      PROVE  World(fs)'
  BY <1>2, <1>4 DEF Start
<1>5. CASE Finish \/ Kill \/ DoubleClose \/ UNCHANGED vars
  BY <1>2, <1>5 DEF Finish, Kill, DoubleClose, Dies, vars
<1> QED
  BY <1>1, <1>3, <1>4, <1>5 DEF Next, Ended

-----------------------------------------------------------------------------
\* The item in hand, and all that is asked of it, stay the same until it is done.
LEMMA SameHand ==
  ASSUME Static, done' = done
  PROVE  /\ Item' = Item /\ Dir(Item)' = Dir(Item) /\ Dst(Item)' = Dst(Item)
         /\ Tmp(Dst(Item))' = Tmp(Dst(Item)) /\ From(Item)' = From(Item)
         /\ UidOf(Item)' = UidOf(Item) /\ OwnerKnown(Item)' = OwnerKnown(Item)
         /\ Given(Item)' = Given(Item) /\ MayOwn(Item)' = MayOwn(Item)
         /\ Me' = Me /\ Superuser' = Superuser /\ Win32' = Win32
<1>1. Item' = Item /\ Dir(Item)' = Dir(Item) /\ Dst(Item)' = Dst(Item)
      /\ Tmp(Dst(Item))' = Tmp(Dst(Item)) /\ UidOf(Item)' = UidOf(Item) /\ Win32' = Win32
  BY SameItem
<1>2. system' = system
  BY DEF Static
<1>3. From(Item)' = From(Item)
  BY <1>1 DEF From
<1>4. Me' = Me /\ Superuser' = Superuser /\ MyGroup' = MyGroup /\ Passwd' = Passwd /\ Groups' = Groups
  BY <1>2, SameSystem DEF Passwd, Groups
<1>5. OwnerKnown(Item)' = OwnerKnown(Item) /\ GidOf(Item)' = GidOf(Item)
  BY <1>1, <1>4 DEF OwnerKnown, GidOf
<1>6. Given(Item)' = Given(Item) /\ MayOwn(Item)' = MayOwn(Item)
  BY <1>1, <1>4, <1>5 DEF Given, MayOwn
<1> QED
  BY <1>1, <1>3, <1>4, <1>5, <1>6

\* Between two items there is none in hand.
LEMMA NoHand ==
  ASSUME pc' \in {"idle", "item"}, (program = "deinstaller" => quiet = 0)'
  PROVE  HandInv'
BY DEF HandInv, Copying, Finishing

\* The file a link on Win32 is a copy of.
LEMMA FromFacts ==
  ASSUME RunInv, pc \in Copying \cup {"owner"}, Item.op \in Links
  PROVE  /\ Win32 /\ cwd # Build /\ cwd = Dir(Item) /\ done < Len(Hierarchy)
         /\ Source(Item) = From(Item)
         /\ ~EndsTmp(From(Item)) /\ From(Item) # Tmp(Dst(Item)) /\ From(Item) # <<>>
<1>1. Win32 /\ cwd # Build /\ done < Len(Hierarchy)
  BY DEF RunInv, InstInv, PlaceInv, Copying
<1>2. cwd = Dir(Item)
  BY DEF RunInv, HandInv, Copying
<1>3. Program(Item, Item.src) = Item.src
  BY DEF Program, ProgramIn, Links
<1>4. \A p \in DOMAIN fs : fs[p].type # "symlink"
  BY <1>1 DEF RunInv, World, EntryRight
<1>5. Source(Item) = From(Item)
  BY <1>2, <1>3, <1>4 DEF Source, Followed, From, Exists
<1>6. Dir(Item) \in Seq(Element) /\ Item.src \in Names
  BY <1>1, HandFacts DEF RunInv, InstInv
<1>7. ~EndsTmp(From(Item))
  BY <1>6, ParentFacts DEF From
<1>8. From(Item) # <<>>
  BY <1>6, AppendFacts DEF From, Element
<1>9. EndsTmp(Tmp(Dst(Item)))
  BY <1>1, TmpHand DEF RunInv, InstInv
<1> QED
  BY <1>1, <1>2, <1>5, <1>7, <1>8, <1>9

\* A step of install_file_copy to the next, when it leaves the source alone.
LEMMA HandGoesOn ==
  ASSUME RunInv, Static, pc \in Copying, NEW l \in Copying, Goto(l), quiet' \in {0, quiet},
         UNCHANGED <<cwd, saved, at>>, OnlyAt(fs, fs', Tmp(Dst(Item))),
         LET t == Tmp(Dst(Item))
         IN /\ l \in {"fill", "chmod"} => Superuser \/ fs'[t].owner = Me
            /\ l \in Finishing /\ Item.op \in Links =>
                 Exists(From(Item)) /\ fs[From(Item)].type = "file"
            /\ l = "rename" /\ Item.op \in Links => Copyable(From(Item))
            /\ l = "rename" /\ Item.op \in Copies => MayOwn(Item) /\ fs'[t].group = Given(Item)
  PROVE  HandInv'
<1> DEFINE t == Tmp(Dst(Item))
           p == From(Item)
<1>1. pc' = l /\ done' = done /\ program' = program /\ dry' = dry
  BY DEF Goto, Static
<1>2. /\ Item' = Item /\ Tmp(Dst(Item))' = t /\ From(Item)' = p
      /\ OwnerKnown(Item)' = OwnerKnown(Item)
      /\ Given(Item)' = Given(Item) /\ MayOwn(Item)' = MayOwn(Item) /\ Dir(Item)' = Dir(Item)
      /\ Me' = Me /\ Superuser' = Superuser
  BY <1>1, SameHand
<1>3. /\ ~dry /\ (program = "deinstaller" => quiet = 0)
      /\ Item.op \in Copies => OwnerKnown(Item)
      /\ Item.op \in Links => cwd = Dir(Item)
  BY DEF RunInv, HandInv, Copying
<1>4. Item.op \in Links => (p \in DOMAIN fs <=> p \in DOMAIN fs') /\ (p \in DOMAIN fs => fs'[p] = fs[p])
  BY FromFacts DEF OnlyAt
<1> HIDE DEF t, p
<1>5. pc' \notin {"idle", "item", "leave", "link", "owner"}
  BY <1>1 DEF Copying
<1>6. Item.op \in Links /\ Copyable(p) => Copyable(p)'
  BY <1>2, <1>4 DEF Copyable, Exists, p
<1> QED
  BY <1>1, <1>2, <1>3, <1>4, <1>5, <1>6 DEF HandInv, Exists, Copying, t, p

-----------------------------------------------------------------------------
\* An item or a copy that ends leaves the working directory to leave, if any.
LEMMA HandCopyEnded ==
  ASSUME RunInv, Static, pc \in Copying \cup {"link", "owner"}, NEW e, EndCopy(e), cwd' = cwd,
         quiet' \in {0, quiet}
  PROVE  HandInv'
<1>1. (program = "deinstaller" => quiet = 0)'
  BY DEF RunInv, HandInv, Static
<1>2. CASE Item.op \notin Links
  BY <1>1, <1>2, NoHand DEF EndCopy, EndItem
<1>3. CASE Item.op \in Links
  <2>1. pc' = "leave" /\ done' = done
    BY <1>3 DEF EndCopy
  <2>2. Item' = Item /\ Dir(Item)' = Dir(Item)
    BY <2>1, SameHand
  <2>3. cwd = Dir(Item)
    BY <1>3 DEF RunInv, HandInv
  <2> QED
    BY <1>1, <2>1, <2>2, <2>3 DEF HandInv, Copying, Finishing
<1> QED
  BY <1>2, <1>3

LEMMA HandOpen ==
  ASSUME RunInv, Static, quiet' \in {0, quiet}, NEW f, OpenSource(f) \/ OpenTmp(f)
  PROVE  HandInv'
<1> DEFINE t == Tmp(Dst(Item))
           made == Entry("file", "part", {"w", "o", "g"} \ Umask, Me, MyGroup)
<1>1. pc \in {"source", "open"} /\ pc \in Copying
  BY DEF OpenSource, OpenTmp, Copying
<1>2. CASE \E e : EndCopy(e) /\ cwd' = cwd
  BY <1>1, <1>2, HandCopyEnded
<1>3. CASE OpenSource(f) /\ Goto("open")
  <2>1. fs' = fs /\ UNCHANGED <<cwd, saved, at>>
    BY <1>3 DEF OpenSource, Nothing
  <2>2. OnlyAt(fs, fs', t)
    BY <2>1 DEF OnlyAt
  <2>3. "open" \in Copying /\ "open" \notin Finishing
    BY DEF Copying, Finishing
  <2> QED
    BY <1>1, <1>3, <2>1, <2>2, <2>3, HandGoesOn
<1>4. CASE OpenTmp(f) /\ Goto("fill")
  <2>1. /\ UNCHANGED <<cwd, saved, at>>
        /\ fs' = IF Exists(t) THEN [fs EXCEPT ![t].data = "part"] ELSE Put(fs, t, made)
        /\ Exists(t) => Superuser \/ fs[t].owner = Me
    BY <1>4 DEF OpenTmp, Err, Goto, EndCopy, EndItem
  <2>2. "fill" \in Copying /\ "fill" \notin Finishing
    BY DEF Copying, Finishing
  <2>3. OnlyAt(fs, fs', t) /\ (Superuser \/ fs'[t].owner = Me)
    <3>1. CASE Exists(t)
      <4> DEFINE e == [fs[t] EXCEPT !.data = "part"]
      <4>1. t \in DOMAIN fs /\ EntryOK(fs[t])
        BY <3>1 DEF Exists, RunInv, InstInv, FsInv, TreeOK, NodeOK
      <4>2. e.owner = fs[t].owner /\ fs' = [fs EXCEPT ![t] = e]
        BY <2>1, <3>1, <4>1 DEF EntryOK, Fields
      <4> HIDE DEF e, t
      <4>3. OnlyAt(fs, fs', t) /\ fs'[t] = e
        BY <4>1, <4>2, ChangeStep
      <4> QED
        BY <2>1, <3>1, <4>2, <4>3
    <3>2. CASE ~Exists(t)
      <4>1. made.owner = Me /\ fs' = Put(fs, t, made)
        BY <2>1, <3>2 DEF Entry
      <4> HIDE DEF made, t
      <4>2. OnlyAt(fs, fs', t) /\ fs'[t] = made
        BY <4>1, PutStep
      <4> QED
        BY <4>1, <4>2
    <3> QED
      BY <3>1, <3>2
  <2> QED
    BY <1>1, <1>4, <2>1, <2>2, <2>3, HandGoesOn
<1> QED
  BY <1>2, <1>3, <1>4 DEF OpenSource, OpenTmp, Err, Nothing

\* A link's source is a file, if it can be read.
LEMMA HandFill ==
  ASSUME RunInv, Static, quiet' \in {0, quiet}, NEW f, Fill(f)
  PROVE  HandInv'
<1> DEFINE t == Tmp(Dst(Item))
<1>1. pc = "fill" /\ pc \in Copying
  BY DEF Fill, Copying
<1>2. CASE Err
  BY <1>1, <1>2, HandCopyEnded DEF Err
<1>3. CASE ~Err
  <2> DEFINE e == [fs[t] EXCEPT !.data = SourceData(Item)]
  <2>1. /\ Goto("chmod") /\ UNCHANGED <<cwd, saved, at>> /\ Readable(Item)
        /\ fs' = [fs EXCEPT ![t] = e]
    BY <1>3 DEF Fill
  <2>2. t \in DOMAIN fs /\ EntryOK(fs[t])
    BY <1>1, TmpThere DEF Exists, RunInv
  <2>3. e.owner = fs[t].owner
    BY <2>2 DEF EntryOK, Fields
  <2> HIDE DEF e
  <2>4. OnlyAt(fs, fs', t) /\ fs'[t] = e
    BY <2>1, <2>2, ChangeStep
  <2>5. Superuser \/ fs'[t].owner = Me
    BY <1>1, <2>3, <2>4 DEF RunInv, HandInv
  <2>6. Item.op \in Links => Exists(From(Item)) /\ fs[From(Item)].type = "file"
    <3> SUFFICES ASSUME Item.op \in Links
                 PROVE  Exists(From(Item)) /\ fs[From(Item)].type = "file"
      OBVIOUS
    <3>1. Win32 /\ cwd # Build /\ Source(Item) = From(Item) /\ From(Item) # <<>>
      BY <1>1, FromFacts
    <3>2. Exists(From(Item)) /\ ~IsDir(From(Item))
      BY <1>1, <2>1, <3>1 DEF RunInv, InstInv, TmpInv, Readable
    <3>3. EntryOK(fs[From(Item)]) /\ fs[From(Item)].type # "symlink"
      BY <3>1, <3>2 DEF Exists, RunInv, InstInv, FsInv, TreeOK, NodeOK, World, EntryRight
    <3> QED
      BY <3>2, <3>3 DEF EntryOK, IsDir
  <2>7. "chmod" \in Copying
    BY DEF Copying
  <2> QED
    BY <1>1, <2>1, <2>4, <2>5, <2>6, <2>7, HandGoesOn
<1> QED
  BY <1>2, <1>3

LEMMA HandChmod ==
  ASSUME RunInv, Static, quiet' \in {0, quiet}, NEW f, Chmod(f)
  PROVE  HandInv'
<1> DEFINE t == Tmp(Dst(Item))
<1>1. pc = "chmod" /\ pc \in Copying /\ pc \in Finishing
  BY DEF Chmod, Copying, Finishing
<1>2. CASE Err
  BY <1>1, <1>2, HandCopyEnded DEF Err
<1>3. CASE ~Err
  <2> DEFINE e == [fs[t] EXCEPT !.mode = Item.perm]
  <2>1. /\ Goto("chown") /\ UNCHANGED <<cwd, saved, at>>
        /\ fs' = [fs EXCEPT ![t] = e] \/ fs' = fs
    BY <1>3 DEF Chmod
  <2>2. t \in DOMAIN fs
    BY <1>1, TmpThere DEF Exists, RunInv
  <2> HIDE DEF e
  <2>3. OnlyAt(fs, fs', t)
    BY <2>1, <2>2, ChangeStep DEF OnlyAt
  <2>4. Item.op \in Links => Exists(From(Item)) /\ fs[From(Item)].type = "file"
    BY <1>1 DEF RunInv, HandInv
  <2>5. "chown" \in Copying
    BY DEF Copying
  <2> QED
    BY <1>1, <2>1, <2>3, <2>4, <2>5, HandGoesOn
<1> QED
  BY <1>2, <1>3

\* The owner and the group a copy has before it is renamed.
LEMMA HandChown ==
  ASSUME RunInv, Static, quiet' \in {0, quiet}, NEW f, Chown(f)
  PROVE  HandInv'
<1> DEFINE t == Tmp(Dst(Item))
<1>1. pc = "chown" /\ pc \in Copying /\ pc \in Finishing
  BY DEF Chown, Copying, Finishing
<1>2. CASE Err
  BY <1>1, <1>2, HandCopyEnded DEF Err
<1>3. CASE ~Err
  <2> DEFINE e == Owned(fs[t], CopyUid(Item), CopyGid(Item))
  <2>1. /\ Goto("rename") /\ UNCHANGED <<cwd, saved, at>>
        /\ IF CopyUid(Item) # Me THEN Superuser /\ fs' = [fs EXCEPT ![t] = e] ELSE fs' = fs
    BY <1>3 DEF Chown
  <2>2. /\ t \in DOMAIN fs /\ EntryOK(fs[t]) /\ EntryRight(t, fs[t]) /\ done < Len(Hierarchy)
    BY <1>1, TmpThere DEF Exists, RunInv, World
  <2>3. e.group = IF Win32 THEN fs[t].group ELSE CopyGid(Item)
    BY <2>2 DEF Owned, EntryOK, Fields
  <2> HIDE DEF e
  <2>4. OnlyAt(fs, fs', t) /\ fs'[t] = IF CopyUid(Item) # Me THEN e ELSE fs[t]
    <3>1. CASE CopyUid(Item) # Me
      BY <2>1, <2>2, <3>1, ChangeStep
    <3>2. CASE CopyUid(Item) = Me
      BY <2>1, <3>2 DEF OnlyAt
    <3> QED
      BY <3>1, <3>2
  <2>5. Item.op \in Links => Copyable(From(Item))
    <3> SUFFICES ASSUME Item.op \in Links
                 PROVE  Copyable(From(Item))
      OBVIOUS
    <3>1. Source(Item) = From(Item) /\ Exists(From(Item)) /\ fs[From(Item)].type = "file"
      BY <1>1, FromFacts DEF RunInv, HandInv
    <3> QED
      BY <2>1, <3>1 DEF Copyable, CopyUid
  <2>6. Item.op \in Copies => MayOwn(Item) /\ fs'[t].group = Given(Item)
    <3> SUFFICES ASSUME Item.op \in Copies
                 PROVE  MayOwn(Item) /\ fs'[t].group = Given(Item)
      OBVIOUS
    <3>1. OwnerKnown(Item) /\ CopyUid(Item) = UidOf(Item) /\ CopyGid(Item) = GidOf(Item)
      BY <1>1 DEF RunInv, HandInv, CopyUid, CopyGid, Copies, Links
    <3>2. PICK k \in ItemsOf(Copies) : Item = Hierarchy[k]
      BY <2>2, HandIn DEF RunInv, InstInv
    <3>3. fs[t].group \in {MyGroup, Given(Item)}
      BY <2>2, <3>2 DEF EntryRight, TmpRight
    <3>4. MayOwn(Item)
      BY <2>1, <3>1 DEF MayOwn
    <3> QED
      BY <2>3, <2>4, <3>1, <3>3, <3>4 DEF Given
  <2>7. "rename" \in Copying
    BY DEF Copying
  <2>8. Item.op \in Links => Exists(From(Item)) /\ fs[From(Item)].type = "file"
    BY <1>1 DEF RunInv, HandInv
  <2> QED
    BY <1>1, <2>1, <2>4, <2>5, <2>6, <2>7, <2>8, HandGoesOn
<1> QED
  BY <1>2, <1>3

-----------------------------------------------------------------------------
LEMMA HandMake ==
  ASSUME RunInv, Static, quiet' \in {0, quiet}, NEW f, BeginItem \/ MakeDir(f) \/ MkdirOwn(f)
  PROVE  HandInv'
<1>1. (program = "deinstaller" => quiet = 0)'
  BY DEF RunInv, HandInv, Static
<1>2. CASE pc' \in {"idle", "item"}
  BY <1>1, <1>2, NoHand
<1>3. CASE pc' \in {"mkdir", "own"}
  <2>1. ~dry /\ dry' = dry /\ done' = done /\ OwnerKnown(Item)
    BY <1>3 DEF BeginItem, MakeDir, MkdirOwn, Goto, EndItem, Static, RunInv, HandInv
  <2>2. Item' = Item /\ OwnerKnown(Item)' = OwnerKnown(Item)
    BY <2>1, SameHand
  <2> QED
    BY <1>1, <1>3, <2>1, <2>2 DEF HandInv, Copying, Finishing
<1>4. CASE pc' = "source"
  <2>1. ~dry /\ dry' = dry /\ done' = done /\ Item.op \notin Links /\ OwnerKnown(Item)
    BY <1>4 DEF BeginItem, MakeDir, MkdirOwn, Goto, EndItem, Static
  <2>2. Item' = Item /\ OwnerKnown(Item)' = OwnerKnown(Item)
    BY <2>1, SameHand
  <2> QED
    BY <1>1, <1>4, <2>1, <2>2 DEF HandInv, Copying, Finishing
<1> QED
  BY <1>2, <1>3, <1>4 DEF BeginItem, MakeDir, MkdirOwn, EndItem, Goto

LEMMA HandLink ==
  ASSUME RunInv, Static, quiet' \in {0, quiet}, NEW f,
         EnterDir(f) \/ MakeLink(f) \/ CopyLink(f) \/ LeaveDir(f)
  PROVE  HandInv'
<1>1. (program = "deinstaller" => quiet = 0)'
  BY DEF RunInv, HandInv, Static
<1>2. CASE EnterDir(f)
  <2>1. CASE pc' \in {"idle", "item"}
    BY <1>1, <2>1, NoHand
  <2>2. CASE pc' \notin {"idle", "item"}
    <3>1. /\ done' = done /\ Item.op \in Links /\ cwd' = Dir(Item) /\ dry' = dry
          /\ pc' \in {"leave", "link", "owner"} /\ (dry => pc' = "leave")
      BY <1>2, <2>2 DEF EnterDir, Goto, EndItem, Static
    <3>2. Item' = Item /\ Dir(Item)' = Dir(Item)
      BY <3>1, SameHand
    <3>3. Item.op \notin Copies
      BY <3>1 DEF Copies, Links
    <3> QED
      BY <1>1, <3>1, <3>2, <3>3 DEF HandInv, Copying, Finishing
  <2> QED
    BY <2>1, <2>2
<1>3. CASE MakeLink(f)
  <2>1. pc = "link" /\ cwd' = cwd /\ \E e : EndCopy(e)
    BY <1>3 DEF MakeLink
  <2> QED
    BY <2>1, HandCopyEnded
<1>4. CASE CopyLink(f)
  <2>1. pc = "owner" /\ cwd' = cwd
    BY <1>4 DEF CopyLink, Nothing
  <2>2. CASE EndCopy(TRUE)
    BY <2>1, <2>2, HandCopyEnded
  <2>3. CASE Goto("source")
    <3>1. /\ pc' = "source" /\ done' = done /\ dry' = dry /\ ~dry /\ cwd = Dir(Item)
          /\ Item.op \in Links
      BY <2>1, <2>3 DEF Goto, Static, RunInv, HandInv, InstInv, PlaceInv
    <3>2. Item' = Item /\ Dir(Item)' = Dir(Item)
      BY <3>1, SameHand
    <3>3. Item.op \notin Copies
      BY <3>1 DEF Copies, Links
    <3> QED
      BY <1>1, <2>1, <3>1, <3>2, <3>3 DEF HandInv, Copying, Finishing
  <2> QED
    BY <1>4, <2>2, <2>3 DEF CopyLink
<1>5. CASE LeaveDir(f)
  BY <1>1, <1>5, NoHand DEF LeaveDir, EndItem
<1> QED
  BY <1>2, <1>3, <1>4, <1>5

LEMMA HandStep ==
  ASSUME RunInv, Step
  PROVE  HandInv'
<1>1. Static
  BY DEF Step, Static
<1>2. quiet' \in {0, quiet} /\ (program = "deinstaller" => quiet' = 0)
  BY DEF Step, Succeeds, Fails, RunInv, HandInv
<1>3. ASSUME BeginItem \/ (\E f \in BOOLEAN : Call(f))
      PROVE  HandInv'
  <2>1. CASE BeginItem
    BY <1>1, <1>2, <2>1, HandMake
  <2>2. ASSUME NEW f \in BOOLEAN, Call(f)
        PROVE  HandInv'
    <3>1. CASE MakeDir(f) \/ MkdirOwn(f)
      BY <1>1, <1>2, <3>1, HandMake
    <3>2. CASE OpenSource(f) \/ OpenTmp(f)
      BY <1>1, <1>2, <3>2, HandOpen
    <3>3. CASE Fill(f) \/ Chmod(f) \/ Chown(f)
      BY <1>1, <1>2, <3>3, HandFill, HandChmod, HandChown
    <3>4. CASE EnterDir(f) \/ MakeLink(f) \/ CopyLink(f) \/ LeaveDir(f)
      BY <1>1, <1>2, <3>4, HandLink
    <3>5. CASE Deinstall(f) \/ CheckItem(f)
      <4>1. pc' = "item"
        BY <3>5 DEF Deinstall, CheckItem, EndItem
      <4>2. (program = "deinstaller" => quiet = 0)'
        BY <1>1, <1>2 DEF Static
      <4> QED
        BY <4>1, <4>2, NoHand
    <3>6. CASE Rename(f)
      <4>1. pc = "rename" /\ cwd' = cwd /\ \E e : EndCopy(e)
        BY <3>6 DEF Rename, Err
      <4> QED
        BY <1>1, <1>2, <4>1, HandCopyEnded DEF Copying
    <3> QED
      BY <2>2, <3>1, <3>2, <3>3, <3>4, <3>5, <3>6 DEF Call
  <2> QED
    BY <1>3, <2>1, <2>2
<1> QED
  BY <1>3 DEF Step

LEMMA HandNext ==
  ASSUME RunInv, [Next]_vars
  PROVE  HandInv'
<1>1. CASE Step
  BY <1>1, HandStep
<1>2. ASSUME NEW p, NEW d, Start(p, d)
      PROVE  HandInv'
  <2>1. pc' \in {"item", "idle"} /\ program' = p /\ (p = "deinstaller" => quiet' = 0)
    BY <1>2 DEF Start
  <2> QED
    BY <2>1, NoHand
<1>3. CASE Finish \/ Kill \/ DoubleClose \/ Other
  <2>1. /\ pc' = "idle" /\ program' = program
        /\ (program = "deinstaller" => quiet' = quiet) \/ quiet' = 0
    BY <1>3 DEF Finish, Kill, DoubleClose, Dies, Other
  <2>2. (program = "deinstaller" => quiet = 0)'
    BY <2>1 DEF RunInv, HandInv
  <2> QED
    BY <2>1, <2>2, NoHand
<1>4. CASE UNCHANGED vars
  <2>1. UNCHANGED <<fs, cwd, program, dry, pc, done, quiet>> /\ Static
    BY <1>4 DEF vars, Static
  <2>2. /\ Item' = Item /\ Tmp(Dst(Item))' = Tmp(Dst(Item)) /\ From(Item)' = From(Item)
        /\ OwnerKnown(Item)' = OwnerKnown(Item) /\ Dir(Item)' = Dir(Item)
        /\ Given(Item)' = Given(Item) /\ MayOwn(Item)' = MayOwn(Item)
        /\ Me' = Me /\ Superuser' = Superuser
    BY <2>1, SameHand
  <2>3. Copyable(From(Item))' = Copyable(From(Item))
    BY <2>1, <2>2 DEF Copyable, Exists
  <2> QED
    BY <2>1, <2>2, <2>3 DEF HandInv, RunInv, Exists
<1> QED
  BY <1>1, <1>2, <1>3, <1>4 DEF Next, Ended

\* All of it is true of every execution.
LEMMA RunNext ==
  ASSUME RunInv, [Next]_vars
  PROVE  RunInv'
<1>1. InstInv' /\ World(fs)' /\ HandInv'
  BY NextStep, WorldNext, HandNext DEF RunInv
<1>2. system' = system
  BY BetweenEffects DEF RunInv, vars
<1>3. InOrder(system)'
  BY <1>2 DEF RunInv, InOrder, DstIn, DirIn, NameIn, ProgramIn
<1> QED
  BY <1>1, <1>3 DEF RunInv

LEMMA RunInit ==
  ASSUME Init, \A s \in Systems : InOrder(s)
  PROVE  RunInv
<1>1. system \in Systems /\ fs \in {Bare, Earlier}
  BY DEF Init
<1>2. World(fs)
  BY <1>1, BareWorld, EarlierWorld
<1>3. HandInv
  BY DEF Init, HandInv, Copying, Finishing
<1> QED
  BY <1>1, <1>2, <1>3, InitInv DEF RunInv

-----------------------------------------------------------------------------
(* A run in which no system call fails.                                     *)

IsDirIn(f, p) == p = <<>> \/ (p \in DOMAIN f /\ f[p].type = "directory")
Obstacle(f, p) == p \in DOMAIN f /\ f[p].type # "directory"
Upto(d, n) == SubSeq(d, 1, n)

\* A directory is there, or something is in the place of it or of one above it.
Settled(f, d) ==
  \E n \in 1 .. Len(d) + 1 : /\ \A m \in 1 .. n - 1 : IsDirIn(f, Upto(d, m))
                             /\ n <= Len(d) => Obstacle(f, Upto(d, n))
\* What install_rmkdir has come to, before it handles the a-th name.
Looping(f, d, a) ==
  \E n \in 1 .. a : /\ \A m \in 1 .. n - 1 : IsDirIn(f, Upto(d, m))
                    /\ n < a => Obstacle(f, Upto(d, n)) /\ ~IsDirIn(f, Upto(d, a - 1))

CalmInv ==
  program = "installer" /\ calm /\ pc # "idle" =>
    /\ IF pc # "item" /\ Item.op \in Links THEN saved = Build ELSE cwd = Build
    /\ pc \in Finishing /\ Item.op \in Copies => fs[Tmp(Dst(Item))].data = "new"
    /\ pc = "mkdir" => Looping(fs, Dir(Item), at)
    /\ pc = "own" => Settled(fs, Dir(Item))

\* The prefix of a prefix, and its parent.
LEMMA UptoFacts ==
  ASSUME NEW d \in Seq(Names), NEW n \in 1 .. Len(d)
  PROVE  /\ Upto(d, n) \in Prefixes(d) /\ Upto(d, n) # <<>> /\ ~EndsTmp(Upto(d, n))
         /\ n = 1 => Parent(Upto(d, n)) = <<>>
         /\ n # 1 => n - 1 \in 1 .. Len(d) /\ Parent(Upto(d, n)) = Upto(d, n - 1)
<1> DEFINE p == Upto(d, n)
<1>0. Len(d) \in Nat /\ n \in Nat /\ n # 0 /\ n <= Len(d)
  OBVIOUS
<1>1. p \in Prefixes(d)
  BY DEF Upto, Prefixes
<1>2. p \in Paths
  BY <1>1, PrefixFacts
<1>3. p # <<>> /\ ~EndsTmp(p)
  BY <1>2, PathFacts
<1>4. p \in Seq(Names) /\ Len(p) = n /\ \A i \in 1 .. n : p[i] = d[i]
  <2>1. SubSeq(d, 1, n) \in Seq(Names) /\ Len(SubSeq(d, 1, n)) = n
        /\ \A i \in 1 .. n : SubSeq(d, 1, n)[i] = d[i]
    BY <1>0, SubSeqProperties
  <2> QED
    BY <2>1 DEF Upto
<1> HIDE DEF p
<1>5. Parent(p) = SubSeq(p, 1, n - 1)
  BY <1>3, <1>4 DEF Parent, EndsTmp
<1>6. n = 1 => Parent(p) = <<>>
  BY <1>4, <1>5
<1>7. ASSUME n # 1
      PROVE  n - 1 \in 1 .. Len(d) /\ Parent(p) = Upto(d, n - 1)
  <2>1. n - 1 \in 1 .. Len(d) /\ n - 1 \in Nat /\ n - 1 <= n /\ n - 1 <= Len(d)
    BY <1>0, <1>7
  <2>2. SubSeq(p, 1, n - 1) \in Seq(Names) /\ Len(SubSeq(p, 1, n - 1)) = n - 1
        /\ \A i \in 1 .. n - 1 : SubSeq(p, 1, n - 1)[i] = p[i]
    BY <1>4, <2>1, SubSeqProperties
  <2>3. SubSeq(d, 1, n - 1) \in Seq(Names) /\ Len(SubSeq(d, 1, n - 1)) = n - 1
        /\ \A i \in 1 .. n - 1 : SubSeq(d, 1, n - 1)[i] = d[i]
    BY <2>1, SubSeqProperties
  <2>4. \A i \in 1 .. n - 1 : SubSeq(p, 1, n - 1)[i] = SubSeq(d, 1, n - 1)[i]
    BY <1>0, <1>4, <2>1, <2>2, <2>3
  <2>5. SubSeq(p, 1, n - 1) = SubSeq(d, 1, n - 1)
    BY <2>2, <2>3, <2>4, SeqEqual
  <2> QED
    BY <1>5, <2>1, <2>5 DEF Upto
<1> QED
  BY <1>1, <1>3, <1>6, <1>7 DEF p

LEMMA SettledStays ==
  ASSUME NEW f, NEW g, NEW d \in Seq(Names), Settled(f, d),
         \A p : ~EndsTmp(p) /\ IsDirIn(f, p) => IsDirIn(g, p),
         \A p : ~EndsTmp(p) /\ Obstacle(f, p) => Obstacle(g, p)
  PROVE  Settled(g, d)
<1>1. PICK n \in 1 .. Len(d) + 1 : /\ \A m \in 1 .. n - 1 : IsDirIn(f, Upto(d, m))
                                   /\ n <= Len(d) => Obstacle(f, Upto(d, n))
  BY DEF Settled
<1>2. Len(d) \in Nat /\ n \in Nat
  BY <1>1
<1>3. \A m \in 1 .. n - 1 : m \in 1 .. Len(d)
  BY <1>1, <1>2
<1>4. \A m \in 1 .. n - 1 : IsDirIn(g, Upto(d, m))
  BY <1>1, <1>3, UptoFacts
<1>5. n <= Len(d) => Obstacle(g, Upto(d, n))
  BY <1>1, <1>2, UptoFacts
<1> QED
  BY <1>1, <1>4, <1>5 DEF Settled

\* The loop at its end, and at its start.
LEMMA LoopEnds ==
  ASSUME NEW f, NEW d \in Seq(Names), Looping(f, d, Len(d) + 1)
  PROVE  Settled(f, d)
<1>1. Len(d) \in Nat
  OBVIOUS
<1>2. PICK n \in 1 .. Len(d) + 1 :
        /\ \A m \in 1 .. n - 1 : IsDirIn(f, Upto(d, m))
        /\ n < Len(d) + 1 => Obstacle(f, Upto(d, n))
  BY DEF Looping
<1>3. n <= Len(d) => Obstacle(f, Upto(d, n))
  BY <1>1, <1>2
<1> QED
  BY <1>2, <1>3 DEF Settled

LEMMA LoopStarts ==
  ASSUME NEW f, NEW d
  PROVE  Looping(f, d, 1)
<1>1. 1 \in 1 .. 1 /\ (\A m \in 1 .. 1 - 1 : IsDirIn(f, Upto(d, m))) /\ ~(1 < 1)
  OBVIOUS
<1> QED
  BY <1>1 DEF Looping

\* One turn of the loop: a directory above which all are there is there after
\* it, and one below an obstacle cannot be made.
LEMMA LoopTurns ==
  ASSUME NEW f, NEW g, NEW d \in Seq(Names), NEW a \in 1 .. Len(d), TreeOK(f), Looping(f, d, a),
         NEW e, e.type = "directory",
         g = IF Upto(d, a) \notin DOMAIN f /\ IsDirIn(f, Parent(Upto(d, a)))
             THEN Put(f, Upto(d, a), e) ELSE f
  PROVE  Looping(g, d, a + 1)
<1> DEFINE p == Upto(d, a)
<1>1. PICK n \in 1 .. a : /\ \A m \in 1 .. n - 1 : IsDirIn(f, Upto(d, m))
                          /\ n < a => Obstacle(f, Upto(d, n)) /\ ~IsDirIn(f, Upto(d, a - 1))
  BY DEF Looping
<1>2. /\ p # <<>>
      /\ a = 1 => Parent(p) = <<>>
      /\ a # 1 => Parent(p) = Upto(d, a - 1)
  BY UptoFacts
<1>3. a \in Nat /\ n \in Nat /\ n >= 1 /\ n <= a /\ a + 1 - 1 = a
  BY <1>1
<1> HIDE DEF p
<1>4. CASE n = a
  <2>1. IsDirIn(f, Parent(p))
    <3>1. CASE a = 1
      BY <1>2, <3>1 DEF IsDirIn
    <3>2. CASE a # 1
      <4>1. a - 1 \in 1 .. n - 1
        BY <1>3, <1>4, <3>2
      <4> QED
        BY <1>1, <1>2, <3>2, <4>1
    <3> QED
      BY <3>1, <3>2
  <2>2. g = IF p \notin DOMAIN f THEN Put(f, p, e) ELSE f
    BY <2>1 DEF p
  <2>3. \A q : IsDirIn(f, q) => IsDirIn(g, q)
    <3>1. OnlyAt(f, Put(f, p, e), p) /\ Put(f, p, e)[p] = e /\ DOMAIN Put(f, p, e) = DOMAIN f \cup {p}
      BY PutAt
    <3> QED
      BY <2>2, <3>1 DEF IsDirIn, OnlyAt
  <2>4. CASE IsDirIn(g, p)
    <3>1. \A m \in 1 .. a : m \in 1 .. n - 1 \/ m = a
      BY <1>3, <1>4
    <3>2. \A m \in 1 .. a : IsDirIn(g, Upto(d, m))
      BY <1>1, <2>3, <2>4, <3>1 DEF p
    <3>3. a + 1 \in 1 .. a + 1 /\ ~(a + 1 < a + 1)
      BY <1>3
    <3> QED
      BY <1>3, <3>2, <3>3 DEF Looping
  <2>5. CASE ~IsDirIn(g, p)
    <3>1. p \in DOMAIN f
      <4>1. OnlyAt(f, Put(f, p, e), p) /\ Put(f, p, e)[p] = e /\ DOMAIN Put(f, p, e) = DOMAIN f \cup {p}
        BY PutAt
      <4> QED
        BY <2>2, <2>5, <4>1 DEF IsDirIn
    <3>2. g = f /\ Obstacle(g, p)
      BY <1>2, <2>2, <2>5, <3>1 DEF IsDirIn, Obstacle
    <3>3. \A m \in 1 .. a - 1 : IsDirIn(g, Upto(d, m))
      BY <1>1, <1>4, <2>3
    <3>4. a \in 1 .. a + 1
      BY <1>3
    <3>5. Obstacle(g, Upto(d, a)) /\ ~IsDirIn(g, Upto(d, a + 1 - 1))
      BY <1>3, <2>5, <3>2 DEF p
    <3> QED
      BY <3>3, <3>4, <3>5 DEF Looping
  <2> QED
    BY <2>4, <2>5
<1>5. CASE n # a
  <2>1. n < a /\ a # 1
    BY <1>3, <1>5
  <2>2. Obstacle(f, Upto(d, n)) /\ ~IsDirIn(f, Parent(p))
    BY <1>1, <1>2, <2>1
  <2>3. g = f
    BY <2>2 DEF p
  <2>4. ~IsDirIn(f, p)
    BY <1>2, <2>2 DEF IsDirIn, TreeOK, Rooted
  <2>5. n \in 1 .. a + 1
    BY <1>3
  <2>6. ~IsDirIn(g, Upto(d, a + 1 - 1))
    BY <1>3, <2>3, <2>4 DEF p
  <2> QED
    BY <1>1, <2>2, <2>3, <2>5, <2>6 DEF Looping
<1> QED
  BY <1>4, <1>5

-----------------------------------------------------------------------------
\* What a call that does not fail does for it.
Calms ==
  /\ IF pc' # "item" /\ Item.op \in Links THEN saved' = Build ELSE cwd' = Build
  /\ pc' # "item" => done' = done
  /\ pc' \in Finishing /\ Item.op \in Copies => fs'[Tmp(Dst(Item))].data = "new"
  /\ pc' = "mkdir" => Looping(fs', Dir(Item), at')
  /\ pc' = "own" => Settled(fs', Dir(Item))

\* A copy that ends.
LEMMA CopyCalms ==
  ASSUME NEW e, EndCopy(e), UNCHANGED <<cwd, saved>>, 
         IF Item.op \in Links THEN saved = Build ELSE cwd = Build
  PROVE  Calms
BY DEF EndCopy, EndItem, Calms, Finishing

LEMMA MakeCalms ==
  ASSUME InstInv, CalmInv, calm, program = "installer",
         BeginItem \/ MakeDir(FALSE) \/ MkdirOwn(FALSE)
  PROVE  Calms
<1> DEFINE d == Dir(Item)
           p == SubSeq(d, 1, at)
           made == Entry("directory", "dir", Item.perm \ Umask, Me, MyGroup)
<1>1. CASE BeginItem
  <2>1. /\ pc = "item" /\ cwd' = cwd /\ at' = at /\ fs' = fs /\ Item.op \notin Links
        /\ pc' \in {"item", "mkdir", "source"} /\ (pc' # "item" => done' = done)
    BY <1>1 DEF BeginItem, Nothing, Goto, EndItem
  <2>2. at = 1 /\ cwd = Build
    BY <2>1 DEF InstInv, PlaceInv, CalmInv
  <2>3. Looping(fs', d, 1)
    BY LoopStarts
  <2> QED
    BY <2>1, <2>2, <2>3 DEF Calms, Finishing
<1>2. CASE MakeDir(FALSE)
  <2>1. /\ pc = "mkdir" /\ cwd' = cwd /\ done' = done /\ pc' = (IF at = Len(d) THEN "own" ELSE "mkdir")
        /\ at' = (IF at = Len(d) THEN 1 ELSE at + 1)
        /\ fs' = IF ~Exists(p) /\ IsDir(Parent(p)) THEN Put(fs, p, made) ELSE fs
    BY <1>2 DEF MakeDir, Goto
  <2>2. /\ Item.op = "INST_MKDIR" /\ at \in 1 .. Len(d) /\ done < Len(Hierarchy)
        /\ Item.op \notin Links /\ Item.op \notin Copies /\ TreeOK(fs)
    BY <2>1 DEF InstInv, PlaceInv, FsInv, Links, Copies
  <2>3. d \in Seq(Names)
    BY <2>2, HandFacts DEF InstInv
  <2>4. cwd = Build /\ Looping(fs, d, at)
    BY <2>1, <2>2 DEF CalmInv
  <2>5. made.type = "directory"
    BY DEF Entry
  <2>6. fs' = IF Upto(d, at) \notin DOMAIN fs /\ IsDirIn(fs, Parent(Upto(d, at)))
              THEN Put(fs, Upto(d, at), made) ELSE fs
    BY <2>1 DEF Upto, IsDirIn, IsDir, Exists
  <2> HIDE DEF d, p, made
  <2>7. Looping(fs', d, at + 1)
    BY <2>2, <2>3, <2>4, <2>5, <2>6, LoopTurns
  <2>8. at = Len(d) => Settled(fs', d)
    BY <2>3, <2>7, LoopEnds
  <2> QED
    BY <2>1, <2>2, <2>4, <2>7, <2>8 DEF Calms, Finishing, d
<1>3. CASE MkdirOwn(FALSE)
  <2>1. pc = "own" /\ pc' = "item" /\ cwd' = cwd
    BY <1>3 DEF MkdirOwn, EndItem
  <2>2. Item.op \notin Links
    BY <2>1 DEF InstInv, PlaceInv, Links
  <2> QED
    BY <2>1, <2>2 DEF Calms, CalmInv, Finishing
<1> QED
  BY <1>1, <1>2, <1>3

\* What CalmInv says to a call of a copy or of a link.
LEMMA Calmly ==
  ASSUME InstInv, CalmInv, calm, program = "installer",
         pc \in Copying \cup {"link", "owner", "leave"}
  PROVE  /\ IF Item.op \in Links THEN saved = Build ELSE cwd = Build
         /\ pc \in Finishing /\ Item.op \in Copies => fs[Tmp(Dst(Item))].data = "new"
BY DEF CalmInv, Copying

LEMMA WorkCalms ==
  ASSUME InstInv, CalmInv, calm, program = "installer",
         \/ OpenSource(FALSE) \/ OpenTmp(FALSE) \/ Fill(FALSE) \/ Chmod(FALSE) \/ Chown(FALSE)
         \/ Rename(FALSE)
  PROVE  Calms
<1> DEFINE t == Tmp(Dst(Item))
<1>1. pc \in Copying
  BY DEF OpenSource, OpenTmp, Fill, Chmod, Chown, Rename, Copying
<1>2. /\ IF Item.op \in Links THEN saved = Build ELSE cwd = Build
      /\ pc \in Finishing /\ Item.op \in Copies => fs[t].data = "new"
  BY <1>1, Calmly
<1>3. UNCHANGED <<cwd, saved>>
  BY DEF OpenSource, OpenTmp, Fill, Chmod, Chown, Rename, Err, Nothing
<1>4. CASE \E e : EndCopy(e)
  BY <1>2, <1>3, <1>4, CopyCalms
<1>5. ASSUME NEW l \in Copying, Goto(l), l \in Finishing /\ Item.op \in Copies => fs'[t].data = "new"
      PROVE  Calms
  BY <1>2, <1>3, <1>5 DEF Calms, Goto, Copying
<1>6. CASE (OpenSource(FALSE) /\ Goto("open")) \/ (OpenTmp(FALSE) /\ Goto("fill"))
  BY <1>5, <1>6 DEF Copying, Finishing
<1>7. ASSUME pc \in {"fill", "chmod", "chown", "rename"}
      PROVE  t \in DOMAIN fs /\ EntryOK(fs[t])
  BY <1>7, TmpThere DEF Exists
<1>8. CASE Fill(FALSE) /\ Goto("chmod")
  <2>1. pc = "fill" /\ fs' = [fs EXCEPT ![t].data = SourceData(Item)]
    BY <1>8 DEF Fill, Err, EndCopy, EndItem, Goto
  <2>2. Item.op \in Copies => SourceData(Item) = "new"
    BY <1>2 DEF SourceData, Copies, Links
  <2>3. fs'[t].data = SourceData(Item)
    BY <1>7, <2>1 DEF EntryOK, Fields
  <2> QED
    BY <1>5, <1>8, <2>2, <2>3 DEF Copying
<1>9. CASE Chmod(FALSE) /\ Goto("chown")
  <2>1. pc = "chmod" /\ fs' = IF SupportsModes THEN [fs EXCEPT ![t].mode = Item.perm] ELSE fs
    BY <1>9 DEF Chmod, Err, EndCopy, EndItem, Goto
  <2>2. fs'[t].data = fs[t].data
    <3>1. CASE SupportsModes
      BY <1>7, <2>1, <3>1 DEF EntryOK, Fields
    <3>2. CASE ~SupportsModes
      BY <2>1, <3>2
    <3> QED
      BY <3>1, <3>2
  <2> QED
    BY <1>2, <1>5, <1>9, <2>1, <2>2 DEF Copying, Finishing
<1>10. CASE Chown(FALSE) /\ Goto("rename")
  <2> DEFINE e == Owned(fs[t], CopyUid(Item), CopyGid(Item))
  <2>1. pc = "chown" /\ (fs' = [fs EXCEPT ![t] = e] \/ fs' = fs)
    BY <1>10 DEF Chown, Err, EndCopy, EndItem, Goto
  <2>2. e.data = fs[t].data
    BY <1>7, <2>1, OwnedFacts
  <2> HIDE DEF e
  <2>3. fs'[t].data = fs[t].data
    BY <1>7, <2>1, <2>2
  <2> QED
    BY <1>2, <1>5, <1>10, <2>1, <2>3 DEF Copying, Finishing
<1> QED
  BY <1>4, <1>6, <1>8, <1>9, <1>10 DEF OpenSource, OpenTmp, Fill, Chmod, Chown, Rename, Err

LEMMA LinkCalms ==
  ASSUME InstInv, CalmInv, calm, program = "installer",
         EnterDir(FALSE) \/ MakeLink(FALSE) \/ CopyLink(FALSE) \/ LeaveDir(FALSE)
  PROVE  Calms
<1>1. CASE EnterDir(FALSE)
  <2>1. pc = "item" /\ Item.op \in Links /\ cwd = Build
    BY <1>1 DEF EnterDir, CalmInv
  <2>2. \/ pc' = "item" /\ cwd' = cwd
        \/ pc' \in {"leave", "link", "owner"} /\ saved' = cwd /\ done' = done
    BY <1>1 DEF EnterDir, EndItem, Goto
  <2> QED
    BY <2>1, <2>2 DEF Calms, Finishing
<1>2. CASE MakeLink(FALSE) \/ CopyLink(FALSE)
  <2>1. pc \in {"link", "owner"} /\ UNCHANGED <<cwd, saved>>
    BY <1>2 DEF MakeLink, CopyLink, Nothing
  <2>2. IF Item.op \in Links THEN saved = Build ELSE cwd = Build
    BY <2>1, Calmly
  <2>3. CASE \E e : EndCopy(e)
    BY <2>1, <2>2, <2>3, CopyCalms
  <2>4. CASE Goto("source")
    BY <2>1, <2>2, <2>4 DEF Calms, Goto, Finishing
  <2> QED
    BY <1>2, <2>3, <2>4 DEF MakeLink, CopyLink
<1>3. CASE LeaveDir(FALSE)
  <2>1. pc = "leave" /\ pc' = "item" /\ cwd' = saved
    BY <1>3 DEF LeaveDir, EndItem
  <2>2. saved = Build
    BY <2>1, Calmly DEF InstInv, PlaceInv
  <2> QED
    BY <2>1, <2>2 DEF Calms, Finishing
<1> QED
  BY <1>1, <1>2, <1>3

\* A calm step is a call that does not fail.
LEMMA CalmCall ==
  ASSUME InstInv, Step, calm', program = "installer"
  PROVE  /\ calm /\ Succeeds /\ Static /\ done < Len(Hierarchy) /\ pc # "idle"
         /\ \/ BeginItem \/ MakeDir(FALSE) \/ MkdirOwn(FALSE)
            \/ OpenSource(FALSE) \/ OpenTmp(FALSE) \/ Fill(FALSE) \/ Chmod(FALSE) \/ Chown(FALSE)
            \/ Rename(FALSE)
            \/ EnterDir(FALSE) \/ MakeLink(FALSE) \/ CopyLink(FALSE) \/ LeaveDir(FALSE)
<1>1. Succeeds /\ (BeginItem \/ Call(FALSE)) /\ Static /\ done < Len(Hierarchy)
  BY StepEffects DEF Step, Fails
<1>2. calm
  BY <1>1 DEF Succeeds
<1>3. ~Deinstall(FALSE) /\ ~CheckItem(FALSE)
  BY DEF Deinstall, CheckItem
<1>4. \/ BeginItem \/ MakeDir(FALSE) \/ MkdirOwn(FALSE)
      \/ OpenSource(FALSE) \/ OpenTmp(FALSE) \/ Fill(FALSE) \/ Chmod(FALSE) \/ Chown(FALSE)
      \/ Rename(FALSE)
      \/ EnterDir(FALSE) \/ MakeLink(FALSE) \/ CopyLink(FALSE) \/ LeaveDir(FALSE)
  BY <1>1, <1>3 DEF Call
<1>5. pc # "idle"
  BY <1>4 DEF BeginItem, MakeDir, MkdirOwn, OpenSource, OpenTmp, Fill, Chmod, Chown, Rename,
         EnterDir, MakeLink, CopyLink, LeaveDir
<1> QED
  BY <1>1, <1>2, <1>4, <1>5

LEMMA CalmStep ==
  ASSUME InstInv, CalmInv, Step
  PROVE  CalmInv'
<1> SUFFICES ASSUME program = "installer", calm'
             PROVE  CalmInv'
  BY DEF Step, CalmInv
<1>1. calm /\ Static
  BY CalmCall
<1>2. Calms
  BY <1>1, CalmCall, MakeCalms, WorkCalms, LinkCalms
<1>3. CASE pc' = "item"
  BY <1>2, <1>3 DEF CalmInv, Calms, Finishing
<1>4. CASE pc' # "item"
  <2>1. Item' = Item /\ Tmp(Dst(Item))' = Tmp(Dst(Item)) /\ Dir(Item)' = Dir(Item)
    BY <1>1, <1>2, <1>4, SameHand DEF Calms
  <2>2. Looping(fs, Dir(Item), at)' = Looping(fs', Dir(Item), at')
    BY <2>1 DEF Looping, IsDirIn, Obstacle, Upto
  <2>3. Settled(fs, Dir(Item))' = Settled(fs', Dir(Item))
    BY <2>1 DEF Settled, IsDirIn, Obstacle, Upto
  <2> QED
    BY <1>2, <1>4, <2>1, <2>2, <2>3 DEF CalmInv, Calms
<1> QED
  BY <1>3, <1>4

LEMMA CalmNext ==
  ASSUME InstInv, CalmInv, [Next]_vars
  PROVE  CalmInv'
<1>1. CASE Step
  BY <1>1, CalmStep
<1>2. ASSUME NEW p, NEW d, Start(p, d)
      PROVE  CalmInv'
  <2>1. pc' \in {"item", "idle"} /\ cwd' = Build
    BY <1>2 DEF Start
  <2> QED
    BY <2>1 DEF CalmInv, Finishing
<1>3. CASE Finish \/ Kill \/ DoubleClose \/ Other
  <2>1. pc' = "idle"
    BY <1>3 DEF Finish, Kill, DoubleClose, Dies, Other
  <2> QED
    BY <2>1 DEF CalmInv
<1>4. CASE UNCHANGED vars
  <2>1. Static /\ UNCHANGED <<fs, cwd, saved, calm, at, pc, done>>
    BY <1>4 DEF vars, Static
  <2>2. Item' = Item /\ Tmp(Dst(Item))' = Tmp(Dst(Item)) /\ Dir(Item)' = Dir(Item)
    BY <2>1, SameHand
  <2>3. Looping(fs, Dir(Item), at)' = Looping(fs, Dir(Item), at)
    BY <2>1, <2>2 DEF Looping, IsDirIn, Obstacle, Upto
  <2>4. Settled(fs, Dir(Item))' = Settled(fs, Dir(Item))
    BY <2>1, <2>2 DEF Settled, IsDirIn, Obstacle, Upto
  <2> QED
    BY <2>1, <2>2, <2>3, <2>4 DEF CalmInv, Static
<1> QED
  BY <1>1, <1>2, <1>3, <1>4 DEF Next, Ended

-----------------------------------------------------------------------------
(* What a call of the installer changes, entry by entry.                    *)

Makes ==
  LET p == Upto(Dir(Item), at)
  IN /\ pc = "mkdir" /\ p \notin DOMAIN fs /\ IsDirIn(fs, Parent(p))
     /\ OnlyAt(fs, fs', p)
Owns ==
  LET p == Dir(Item)
  IN /\ pc = "own" /\ UidOf(Item) # Me /\ Superuser /\ p \in DOMAIN fs
     /\ OnlyAt(fs, fs', p) /\ p \in DOMAIN fs' /\ fs'[p] = Owned(fs[p], UidOf(Item), GidOf(Item))
Renames ==
  LET d == Dst(Item)
      t == Tmp(Dst(Item))
  IN /\ pc = "rename" /\ ~Occupied(d)
     /\ \A q : q \notin {d, t} => (q \in DOMAIN fs' <=> q \in DOMAIN fs)
                                  /\ (q \in DOMAIN fs => fs'[q] = fs[q])
     /\ t \notin DOMAIN fs' /\ d \in DOMAIN fs' /\ fs'[d] = fs[t]
MakesLink ==
  LET d == Dst(Item)
  IN /\ pc = "link" /\ d \notin DOMAIN fs /\ OnlyAt(fs, fs', d)
     /\ d \in DOMAIN fs' /\ fs'[d].type = "symlink" /\ fs'[d].data = Item.src
TmpOnly == OnlyAt(fs, fs', Tmp(Dst(Item)))

LEMMA SameOnly ==
  ASSUME fs' = fs
  PROVE  TmpOnly
BY DEF TmpOnly, OnlyAt

LEMMA ErrOnly ==
  ASSUME Err
  PROVE  TmpOnly /\ Tmp(Dst(Item)) \notin DOMAIN fs'
BY RemoveStep DEF Err, TmpOnly

\* install_file_copy touches the temporary file only, until it renames it.
LEMMA CopyChanges ==
  ASSUME InstInv, NEW f, OpenSource(f) \/ OpenTmp(f) \/ Fill(f) \/ Chmod(f) \/ Chown(f)
  PROVE  TmpOnly
<1> DEFINE t == Tmp(Dst(Item))
           made == Entry("file", "part", {"w", "o", "g"} \ Umask, Me, MyGroup)
<1>1. CASE Err
  BY <1>1, ErrOnly
<1>2. CASE fs' = fs
  BY <1>2, SameOnly
<1>3. ASSUME NEW e, t \in DOMAIN fs, fs' = [fs EXCEPT ![t] = e]
      PROVE  TmpOnly
  BY <1>3, ChangeStep DEF TmpOnly
<1>4. CASE OpenTmp(f) /\ ~Err
  <2>1. fs' = IF Exists(t) THEN [fs EXCEPT ![t].data = "part"] ELSE Put(fs, t, made)
    BY <1>4 DEF OpenTmp
  <2>2. CASE Exists(t)
    BY <1>3, <2>1, <2>2 DEF Exists
  <2>3. CASE ~Exists(t)
    <3>1. fs' = Put(fs, t, made)
      BY <2>1, <2>3
    <3> HIDE DEF made, t
    <3>2. OnlyAt(fs, fs', t)
      BY <3>1, PutStep
    <3> QED
      BY <3>2 DEF TmpOnly, t
  <2> QED
    BY <2>2, <2>3
<1>5. CASE (Fill(f) \/ Chmod(f) \/ Chown(f)) /\ ~Err /\ fs' # fs
  <2>1. t \in DOMAIN fs
    BY <1>5, TmpThere DEF Exists, Fill, Chmod, Chown
  <2>2. \/ fs' = [fs EXCEPT ![t].data = SourceData(Item)]
        \/ fs' = [fs EXCEPT ![t].mode = Item.perm]
        \/ fs' = [fs EXCEPT ![t] = Owned(@, CopyUid(Item), CopyGid(Item))]
    BY <1>5 DEF Fill, Chmod, Chown
  <2>3. \E e : fs' = [fs EXCEPT ![t] = e]
    BY <2>2
  <2> QED
    BY <1>3, <2>1, <2>3
<1> QED
  BY <1>1, <1>2, <1>4, <1>5 DEF OpenSource, Nothing

LEMMA RenameChanges ==
  ASSUME InstInv, NEW f, Rename(f)
  PROVE  TmpOnly \/ Renames
<1> DEFINE d == Dst(Item)
           t == Tmp(Dst(Item))
           g == Put(fs, d, fs[t])
<1>1. pc = "rename"
  BY DEF Rename
<1>2. done < Len(Hierarchy)
  BY <1>1, TmpThere
<1>3. t # d
  BY <1>2, TmpHand DEF InstInv
<1>4. CASE Err
  BY <1>4, ErrOnly
<1>5. CASE ~Err
  <2>1. ~Occupied(d) /\ fs' = Remove(g, t)
    BY <1>5 DEF Rename
  <2>2. OnlyAt(fs, g, d) /\ g[d] = fs[t] /\ DOMAIN g = DOMAIN fs \cup {d}
    BY PutAt
  <2> HIDE DEF g
  <2>3. OnlyAt(g, Remove(g, t), t) /\ DOMAIN Remove(g, t) = DOMAIN g \ {t}
    BY RemoveAt
  <2> QED
    BY <1>1, <1>3, <2>1, <2>2, <2>3 DEF Renames, OnlyAt
<1> QED
  BY <1>4, <1>5

LEMMA MakeChanges ==
  ASSUME InstInv, NEW f, MakeDir(f) \/ MkdirOwn(f) \/ MakeLink(f)
  PROVE  TmpOnly \/ Makes \/ Owns \/ MakesLink
<1>1. CASE fs' = fs
  BY <1>1, SameOnly
<1>2. CASE MakeDir(f) /\ fs' # fs
  <2> DEFINE p == SubSeq(Dir(Item), 1, at)
             made == Entry("directory", "dir", Item.perm \ Umask, Me, MyGroup)
  <2>1. pc = "mkdir" /\ ~Exists(p) /\ IsDir(Parent(p)) /\ fs' = Put(fs, p, made)
    BY <1>2 DEF MakeDir
  <2> HIDE DEF p, made
  <2>2. OnlyAt(fs, fs', p)
    BY <2>1, PutStep
  <2> QED
    BY <2>1, <2>2 DEF Makes, Upto, IsDirIn, IsDir, Exists, p
<1>3. CASE MkdirOwn(f) /\ fs' # fs
  <2> DEFINE p == Dir(Item)
             e == Owned(fs[p], UidOf(Item), GidOf(Item))
  <2>1. pc = "own" /\ UidOf(Item) # Me /\ Superuser /\ p \in DOMAIN fs /\ fs' = [fs EXCEPT ![p] = e]
    BY <1>3 DEF MkdirOwn, Exists
  <2> HIDE DEF e
  <2>2. OnlyAt(fs, fs', p) /\ p \in DOMAIN fs' /\ fs'[p] = e
    BY <2>1, ChangeStep
  <2> QED
    BY <2>1, <2>2 DEF Owns, e
<1>4. CASE MakeLink(f) /\ fs' # fs
  <2> DEFINE d == Dst(Item)
             made == Entry("symlink", Item.src, Bit, Me, MyGroup)
  <2>1. pc = "link" /\ ~Exists(d) /\ fs' = Put(fs, d, made)
    BY <1>4 DEF MakeLink
  <2>2. made.type = "symlink" /\ made.data = Item.src
    BY DEF Entry
  <2> HIDE DEF made
  <2>3. OnlyAt(fs, fs', d) /\ d \in DOMAIN fs' /\ fs'[d] = made
    BY <2>1, PutStep
  <2> QED
    BY <2>1, <2>2, <2>3 DEF MakesLink, Exists
<1> QED
  BY <1>1, <1>2, <1>3, <1>4

LEMMA StepChanges ==
  ASSUME InstInv, Step, program = "installer"
  PROVE  TmpOnly \/ Makes \/ Owns \/ Renames \/ MakesLink
<1>1. ASSUME NEW f \in BOOLEAN, Call(f)
      PROVE  TmpOnly \/ Makes \/ Owns \/ Renames \/ MakesLink
  <2>1. ~Deinstall(f) /\ ~CheckItem(f)
    BY DEF Deinstall, CheckItem
  <2>2. CASE EnterDir(f) \/ CopyLink(f) \/ LeaveDir(f)
    BY <2>2, SameOnly DEF EnterDir, CopyLink, LeaveDir, Nothing
  <2> QED
    BY <1>1, <2>1, <2>2, CopyChanges, RenameChanges, MakeChanges DEF Call
<1>2. CASE BeginItem
  BY <1>2, SameOnly DEF BeginItem, Nothing
<1> QED
  BY <1>1, <1>2 DEF Step

\* A directory stays one, and so does what is none, temporary files apart.
LEMMA TypesStay ==
  ASSUME InstInv, Step, program = "installer", NEW p \in DOMAIN fs, ~EndsTmp(p)
  PROVE  /\ p \in DOMAIN fs'
         /\ fs'[p].type = "directory" <=> fs[p].type = "directory"
<1>1. done < Len(Hierarchy)
  BY StepEffects
<1>2. EndsTmp(Tmp(Dst(Item))) /\ Tmp(Dst(Item)) # Dst(Item)
  BY <1>1, TmpHand DEF InstInv
<1>3. CASE TmpOnly
  BY <1>2, <1>3 DEF TmpOnly, OnlyAt
<1>4. CASE Makes
  BY <1>4 DEF Makes, OnlyAt
<1>5. CASE MakesLink
  BY <1>5 DEF MakesLink, OnlyAt
<1>6. CASE Owns
  <2> DEFINE e == Owned(fs[Dir(Item)], UidOf(Item), GidOf(Item))
  <2>1. EntryOK(fs[Dir(Item)])
    BY <1>6 DEF Owns, InstInv, FsInv, TreeOK, NodeOK
  <2>2. e.type = fs[Dir(Item)].type
    BY <2>1, OwnedFacts
  <2> HIDE DEF e
  <2> QED
    BY <1>6, <2>2 DEF Owns, OnlyAt, e
<1>7. CASE Renames
  <2>1. fs[Tmp(Dst(Item))].type = "file"
    BY <1>7, TmpThere DEF Renames
  <2>2. p = Dst(Item) => fs[p].type # "directory"
    BY <1>7 DEF Renames, Occupied, Exists, IsDir
  <2> QED
    BY <1>2, <1>7, <2>1, <2>2 DEF Renames
<1> QED
  BY <1>3, <1>4, <1>5, <1>6, <1>7, StepChanges

-----------------------------------------------------------------------------
(* What complete and calm installations have made sure of.                  *)

\* An installation in which no system call has failed, and what it is done with.
Busy == program = "installer" /\ ~dry /\ calm /\ pc # "idle"
Past == IF pc = "leave" THEN done + 1 ELSE done
\* An item that such an installation has handled, and one that so many of them
\* have as are needed.
Swept(k) == quiet > 0 \/ (Busy /\ k <= Past)
Handled(k) == quiet >= RunsNeeded \/ (Busy /\ quiet + 1 >= RunsNeeded /\ k <= Past)
\* An item whose temporary file the installer works on.
InHand(k) == pc \in Working /\ Dst(Item) = Dst(Hierarchy[k])

MadeRight(f, it) == OwnerKnown(it) =>
  /\ Settled(f, Dir(it))
  /\ Sole(it) /\ MayOwn(it) /\ IsDirIn(f, Dir(it)) =>
       f[Dir(it)].owner = UidOf(it) /\ f[Dir(it)].group = Given(it)
NoTmp(f, it) ==
  it \in CopyItems /\ Tmp(Dst(it)) \in DOMAIN f => it.op \in Links /\ From(it) \notin DOMAIN f
\* Copyable(p), of the tree f.
CopyableIn(f, p) == p \in DOMAIN f /\ f[p].type = "file" /\ (Superuser \/ f[p].owner = Me)
\* What hinders an item whose directory nobody is to make any more.
Stopped(f, it) ==
  \/ ~IsDirIn(f, Dir(it))
  \/ it \in CopyItems /\ IF Win32 THEN Dst(it) \in DOMAIN f ELSE IsDirIn(f, Dst(it))
  \/ it.op \in Copies /\ ~MayOwn(it)
  \/ it.op \in Links /\ IF Win32 THEN ~CopyableIn(f, From(it)) ELSE Dst(it) \in DOMAIN f /\ ~Alone(it)

QuietInv == quiet > 0 => calm
MadeInv == \A k \in ItemsOf({"INST_MKDIR"}) : Swept(k) => MadeRight(fs, Hierarchy[k])
CleanInv == \A k \in DOMAIN Hierarchy :
  Hierarchy[k].op # "INST_MKDIR" /\ Swept(k) => InHand(k) \/ NoTmp(fs, Hierarchy[k])
FullInv == \A k \in DOMAIN Hierarchy :
  Hierarchy[k].op # "INST_MKDIR" /\ Handled(k) =>
    InstalledIn(Hierarchy[k], fs) \/ Stopped(fs, Hierarchy[k])
RetryInv == RunInv /\ CalmInv /\ QuietInv /\ MadeInv /\ CleanInv /\ FullInv

LEMMA UptoUpto ==
  ASSUME NEW d \in Seq(Names), NEW n \in 1 .. Len(d)
  PROVE  Upto(d, n) \in Seq(Names) /\ Len(Upto(d, n)) = n
         /\ \A m \in 1 .. n : Upto(Upto(d, n), m) = Upto(d, m)
<1>0. Len(d) \in Nat /\ n \in Nat /\ n # 0 /\ n <= Len(d)
  OBVIOUS
<1> DEFINE p == SubSeq(d, 1, n)
<1>1. p \in Seq(Names) /\ Len(p) = n /\ \A i \in 1 .. n : p[i] = d[i]
  BY <1>0, SubSeqProperties
<1> HIDE DEF p
<1>2. ASSUME NEW m \in 1 .. n
      PROVE  SubSeq(p, 1, m) = SubSeq(d, 1, m)
  <2>1. m \in Nat /\ m <= n /\ m <= Len(d) /\ m >= 1
    BY <1>0
  <2>2. SubSeq(p, 1, m) \in Seq(Names) /\ Len(SubSeq(p, 1, m)) = m
        /\ \A i \in 1 .. m : SubSeq(p, 1, m)[i] = p[i]
    BY <1>1, <2>1, SubSeqProperties
  <2>3. SubSeq(d, 1, m) \in Seq(Names) /\ Len(SubSeq(d, 1, m)) = m
        /\ \A i \in 1 .. m : SubSeq(d, 1, m)[i] = d[i]
    BY <2>1, SubSeqProperties
  <2>4. \A i \in 1 .. m : SubSeq(p, 1, m)[i] = SubSeq(d, 1, m)[i]
    BY <1>0, <1>1, <2>1, <2>2, <2>3
  <2> QED
    BY <2>2, <2>3, <2>4, SeqEqual
<1> QED
  BY <1>1, <1>2 DEF Upto, p

\* No directory is made on the way to one that is settled.
LEMMA MakesNothing ==
  ASSUME InstInv, CalmInv, program = "installer", calm, Makes,
         NEW q \in Seq(Names), Settled(fs, q)
  PROVE  Upto(Dir(Item), at) \notin Prefixes(q)
<1> DEFINE d == Dir(Item)
           p == Upto(d, at)
<1>1. /\ pc = "mkdir" /\ at \in 1 .. Len(d) /\ done < Len(Hierarchy) /\ p \notin DOMAIN fs
      /\ IsDirIn(fs, Parent(p))
  BY DEF Makes, InstInv, PlaceInv
<1>2. d \in Seq(Names) /\ Len(d) \in Nat /\ at \in Nat
  BY <1>1, HandFacts DEF InstInv
<1>3. Looping(fs, d, at)
  BY <1>1 DEF CalmInv
<1>4. p # <<>> /\ (at # 1 => Parent(p) = Upto(d, at - 1))
  BY <1>1, <1>2, UptoFacts
<1>5. \A m \in 1 .. at - 1 : IsDirIn(fs, Upto(d, m))
  <2>1. PICK n \in 1 .. at : /\ \A m \in 1 .. n - 1 : IsDirIn(fs, Upto(d, m))
                             /\ n < at => ~IsDirIn(fs, Upto(d, at - 1))
    BY <1>3 DEF Looping
  <2>2. CASE n < at
    <3>1. at # 1
      BY <1>2, <2>1, <2>2
    <3> QED
      BY <1>1, <1>4, <2>1, <2>2, <3>1
  <2>3. CASE n = at
    BY <2>1, <2>3
  <2> QED
    BY <1>2, <2>1, <2>2, <2>3
<1> SUFFICES ASSUME p \in Prefixes(q)
             PROVE  FALSE
  OBVIOUS
<1>6. PICK a \in 1 .. Len(q) : p = Upto(q, a)
  BY DEF Prefixes, Upto
<1>7. a = at
  <2>1. Len(Upto(d, at)) = at /\ Len(Upto(q, a)) = a
    BY <1>1, <1>2, UptoUpto
  <2> QED
    BY <1>6, <2>1
<1>8. \A m \in 1 .. at : Upto(q, m) = Upto(d, m)
  <2>1. \A m \in 1 .. at : Upto(Upto(d, at), m) = Upto(d, m)
    BY <1>1, <1>2, UptoUpto
  <2>2. \A m \in 1 .. at : Upto(Upto(q, at), m) = Upto(q, m)
    BY <1>6, <1>7, UptoUpto
  <2> QED
    BY <1>6, <1>7, <2>1, <2>2
<1>9. PICK n \in 1 .. Len(q) + 1 : /\ \A m \in 1 .. n - 1 : IsDirIn(fs, Upto(q, m))
                                   /\ n <= Len(q) => Obstacle(fs, Upto(q, n))
  BY DEF Settled
<1> HIDE DEF p, d
<1>10. at \in Nat /\ n \in Nat /\ Len(q) \in Nat /\ 1 <= at /\ at <= Len(q) /\ 1 <= n
  BY <1>1, <1>6, <1>7
<1>11. CASE n < at
  <2>1. n \in 1 .. at - 1 /\ n \in 1 .. at /\ n <= Len(q)
    BY <1>10, <1>11
  <2>2. IsDirIn(fs, Upto(q, n)) /\ Obstacle(fs, Upto(q, n))
    BY <1>5, <1>8, <1>9, <2>1
  <2>3. Upto(q, n) # <<>>
    <3>1. n \in 1 .. Len(q)
      BY <1>10, <2>1
    <3> QED
      BY <3>1, UptoFacts
  <2> QED
    BY <2>2, <2>3 DEF IsDirIn, Obstacle
<1>12. CASE n = at
  BY <1>1, <1>6, <1>7, <1>9, <1>10, <1>12 DEF Obstacle
<1>13. CASE n > at
  <2>1. at \in 1 .. n - 1
    BY <1>10, <1>13
  <2> QED
    BY <1>1, <1>4, <1>6, <1>7, <1>9, <2>1 DEF IsDirIn
<1> QED
  BY <1>10, <1>11, <1>12, <1>13

\* Where the item in hand is in the table.
LEMMA HandAt ==
  ASSUME InstInv, program = "installer", done < Len(Hierarchy)
  PROVE  /\ done + 1 \in DOMAIN Hierarchy /\ Item = Hierarchy[done + 1] /\ done \in Nat
         /\ DOMAIN Hierarchy = 1 .. Len(Hierarchy) /\ Len(Hierarchy) \in Nat
BY Numbers DEF Item, InstInv

\* No directory is made any more once another item has been handled: the table
\* makes its directories first.
LEMMA NoMakes ==
  ASSUME RetryInv, Busy, NEW k \in DOMAIN Hierarchy, Hierarchy[k].op # "INST_MKDIR", Swept(k)
  PROVE  ~Makes
<1> SUFFICES ASSUME Makes
             PROVE  FALSE
  OBVIOUS
<1> USE DEF RetryInv, RunInv
<1>1. /\ pc = "mkdir" /\ done < Len(Hierarchy) /\ program = "installer" /\ calm
      /\ Item.op = "INST_MKDIR" /\ at \in 1 .. Len(Dir(Item))
  BY DEF Makes, Busy, InstInv, PlaceInv
<1>2. done + 1 \in DOMAIN Hierarchy /\ Item = Hierarchy[done + 1] /\ done \in Nat
  BY <1>1, HandAt
<1>3. Dir(Item) \in Seq(Names)
  BY <1>1, HandFacts DEF InstInv
<1>4. CASE quiet > 0
  <2>1. MadeRight(fs, Item)
    BY <1>1, <1>2, <1>4 DEF MadeInv, Swept, ItemsOf
  <2>2. Settled(fs, Dir(Item))
    BY <1>1, <2>1 DEF MadeRight, HandInv
  <2>3. Upto(Dir(Item), at) \in Prefixes(Dir(Item))
    BY <1>1, <1>3, UptoFacts
  <2> QED
    BY <1>1, <1>3, <2>2, <2>3, MakesNothing
<1>5. CASE ~(quiet > 0)
  <2>1. k <= done
    BY <1>1, <1>5 DEF Swept, Past
  <2>2. done + 1 < k
    BY <1>1, <1>2 DEF InOrder, Hierarchy
  <2>3. k \in Nat
    BY <1>1, HandAt
  <2> QED
    BY <1>2, <2>1, <2>2, <2>3
<1> QED
  BY <1>4, <1>5

-----------------------------------------------------------------------------
\* The file a link that has been handled is a copy of does not come into being.
LEMMA NoNewFrom ==
  ASSUME RetryInv, Step, Busy, Win32, NEW k \in DOMAIN Hierarchy, Hierarchy[k].op \in Links, Swept(k),
         From(Hierarchy[k]) \notin DOMAIN fs
  PROVE  From(Hierarchy[k]) \notin DOMAIN fs'
<1> DEFINE it == Hierarchy[k]
           p == From(it)
           t == Tmp(Dst(Item))
<1> USE DEF RetryInv, RunInv
<1>1. program = "installer" /\ done < Len(Hierarchy)
  BY StepEffects DEF Busy
<1>2. done + 1 \in DOMAIN Hierarchy /\ Item = Hierarchy[done + 1] /\ done \in Nat
      /\ DOMAIN Hierarchy = 1 .. Len(Hierarchy)
  BY <1>1, HandAt
<1>3. ~EndsTmp(p) /\ it.op # "INST_MKDIR"
  <2>1. Dir(it) \in Seq(Element) /\ it.src \in Names
    BY ItemFacts DEF InstInv, Counters
  <2>2. ~EndsTmp(p)
    BY <2>1, ParentFacts DEF From
  <2> QED
    BY <2>2 DEF Links
<1>4. EndsTmp(t)
  BY <1>1, TmpHand DEF InstInv
<1>5. ~Makes
  BY <1>3, NoMakes
<1>6. CASE TmpOnly \/ Owns
  BY <1>3, <1>4, <1>6 DEF TmpOnly, Owns, OnlyAt
<1>7. CASE MakesLink
  BY <1>7 DEF MakesLink, InstInv, PlaceInv
<1>8. CASE Renames
  <2>1. /\ pc = "rename" /\ ~Exists(Dst(Item)) /\ t \notin DOMAIN fs'
        /\ \A q : q \notin {Dst(Item), t} => (q \in DOMAIN fs' <=> q \in DOMAIN fs)
    BY <1>8 DEF Renames, Occupied
  <2>2. Item.op # "INST_MKDIR" /\ Exists(t) /\ Rooted(fs, t)
    BY <2>1, TmpThere
  <2> SUFFICES ASSUME p = Dst(Item)
               PROVE  FALSE
    BY <2>1
  <2>3. done + 1 < k
    <3>1. system.table[k].op \in Links /\ system.table[done + 1].op # "INST_MKDIR"
          /\ DstIn(system, system.table[done + 1]) = Append(DirIn(system, system.table[k]), system.table[k].src)
      BY <1>2, <2>2 DEF Hierarchy, From, Dst, Dir
    <3> QED
      BY <1>2, <3>1 DEF InOrder, Win32, Hierarchy
  <2>4. quiet > 0
    <3>1. k \in Nat
      BY <1>2
    <3> QED
      BY <1>2, <2>1, <2>3, <3>1 DEF Swept, Past
  <2>5. Handled(done + 1)
    <3>1. quiet \in 0 .. 2
      BY DEF InstInv, Counters
    <3> QED
      BY <2>4, <3>1 DEF Handled, RunsNeeded
  <2>6. InstalledIn(Item, fs) \/ Stopped(fs, Item)
    BY <1>2, <2>2, <2>5 DEF FullInv
  <2>7. Dst(Item) \notin DOMAIN fs
    BY <2>1 DEF Exists
  <2>8. ~InstalledIn(Item, fs)
    BY <2>7 DEF InstalledIn
  <2>9. IsDirIn(fs, Dir(Item))
    <3>1. Parent(t) = Dir(Item)
      BY <1>1, <2>2, HandFacts DEF InstInv
    <3> QED
      BY <2>2, <3>1 DEF Rooted, IsDirIn
  <2>10. Item.op \in Copies => MayOwn(Item)
    BY <2>1 DEF HandInv
  <2>11. Item.op \in Links => CopyableIn(fs, From(Item))
    BY <2>1 DEF HandInv, Copyable, CopyableIn, Exists
  <2> QED
    BY <2>6, <2>7, <2>8, <2>9, <2>10, <2>11 DEF Stopped
<1> QED
  BY <1>1, <1>5, <1>6, <1>7, <1>8, StepChanges

\* A calm step of an installation: what else there is to know of it.
LEMMA BusyStep ==
  ASSUME RetryInv, Step, Busy, calm'
  PROVE  /\ Succeeds /\ Static /\ program = "installer" /\ ~dry /\ pc # "idle" /\ quiet' = quiet
         /\ done < Len(Hierarchy) /\ Item = Hierarchy[done + 1] /\ done \in Nat
         /\ done + 1 \in DOMAIN Hierarchy /\ DOMAIN Hierarchy = 1 .. Len(Hierarchy)
         /\ done' \in {done, done + 1}
         /\ \/ BeginItem \/ MakeDir(FALSE) \/ MkdirOwn(FALSE)
            \/ OpenSource(FALSE) \/ OpenTmp(FALSE) \/ Fill(FALSE) \/ Chmod(FALSE) \/ Chown(FALSE)
            \/ Rename(FALSE)
            \/ EnterDir(FALSE) \/ MakeLink(FALSE) \/ CopyLink(FALSE) \/ LeaveDir(FALSE)
<1>1. InstInv
  BY DEF RetryInv, RunInv
<1>2. program = "installer" /\ ~dry
  BY DEF Busy
<1>3. /\ Succeeds /\ Static /\ done < Len(Hierarchy) /\ pc # "idle"
      /\ \/ BeginItem \/ MakeDir(FALSE) \/ MkdirOwn(FALSE)
         \/ OpenSource(FALSE) \/ OpenTmp(FALSE) \/ Fill(FALSE) \/ Chmod(FALSE) \/ Chown(FALSE)
         \/ Rename(FALSE)
         \/ EnterDir(FALSE) \/ MakeLink(FALSE) \/ CopyLink(FALSE) \/ LeaveDir(FALSE)
  BY <1>1, <1>2, CalmCall
<1>4. done' \in {done, done + 1}
  BY <1>3 DEF BeginItem, MakeDir, MkdirOwn, OpenSource, OpenTmp, Fill, Chmod, Chown, Rename,
              EnterDir, MakeLink, CopyLink, LeaveDir, EndItem, EndCopy, Err, Goto
<1>5. quiet' = quiet
  BY <1>3 DEF Succeeds
<1> QED
  BY <1>1, <1>2, <1>3, <1>4, <1>5, HandAt

\* The table, and what is asked of its items, in the next state.
LEMMA SameItems ==
  ASSUME system' = system
  PROVE  /\ Hierarchy' = Hierarchy /\ Win32' = Win32 /\ Superuser' = Superuser /\ Me' = Me
         /\ CopyItems' = CopyItems /\ RunsNeeded' = RunsNeeded
         /\ \A it, f : /\ MadeRight(f, it)' <=> MadeRight(f, it)
                       /\ NoTmp(f, it)' <=> NoTmp(f, it)
                       /\ Stopped(f, it)' <=> Stopped(f, it)
                       /\ InstalledIn(it, f)' <=> InstalledIn(it, f)
<1>1. /\ Hierarchy' = Hierarchy /\ Win32' = Win32 /\ Superuser' = Superuser /\ Me' = Me
      /\ \A ops : ItemsOf(ops)' = ItemsOf(ops)
  BY SameSystem
<1>2. CopyItems' = CopyItems /\ RunsNeeded' = RunsNeeded
  BY <1>1 DEF CopyItems, RunsNeeded
<1>3. \A it, f : InstalledIn(it, f)' <=> InstalledIn(it, f)
  BY SameSystem DEF InstalledIn
<1>4. \A it, f : NoTmp(f, it)' <=> NoTmp(f, it)
  BY <1>2, SameSystem DEF NoTmp, Tmp
<1>5. \A f, p : CopyableIn(f, p)' <=> CopyableIn(f, p)
  BY <1>1 DEF CopyableIn
<1>6. \A it, f : Stopped(f, it)' <=> Stopped(f, it)
  BY <1>1, <1>2, <1>5, SameSystem, SameNeeds DEF Stopped, IsDirIn
<1>7. \A it, f : MadeRight(f, it)' <=> MadeRight(f, it)
  <2> SUFFICES ASSUME NEW it, NEW f
               PROVE  MadeRight(f, it)' <=> MadeRight(f, it)
    OBVIOUS
  <2>1. Settled(f, Dir(it))' <=> Settled(f, Dir(it))
    BY SameSystem
  <2>2. IsDirIn(f, Dir(it))' <=> IsDirIn(f, Dir(it))
    BY SameSystem
  <2> QED
    BY <2>1, <2>2, SameSystem, SameNeeds DEF MadeRight
<1> QED
  BY <1>1, <1>2, <1>3, <1>4, <1>6, <1>7

-----------------------------------------------------------------------------
(* Directories.                                                             *)

LEMMA SettledStep ==
  ASSUME InstInv, Step, program = "installer", NEW d \in Seq(Names), Settled(fs, d)
  PROVE  Settled(fs', d)
<1>1. \A p : ~EndsTmp(p) /\ IsDirIn(fs, p) => IsDirIn(fs', p)
  BY TypesStay DEF IsDirIn
<1>2. \A p : ~EndsTmp(p) /\ Obstacle(fs, p) => Obstacle(fs', p)
  BY TypesStay DEF Obstacle
<1> QED
  BY <1>1, <1>2, SettledStays

\* A directory of a settled path that is there has been there before.
LEMMA SettledThere ==
  ASSUME InstInv, CalmInv, Step, program = "installer", calm, NEW d \in Seq(Names) \ {<<>>},
         Settled(fs, d), IsDirIn(fs', d)
  PROVE  d \in DOMAIN fs /\ fs[d].type = "directory" /\ d \in DOMAIN fs' /\ ~EndsTmp(d)
<1>1. done < Len(Hierarchy)
  BY StepEffects
<1>2. ~EndsTmp(d)
  BY PathFacts DEF Paths
<1>3. d \in DOMAIN fs' /\ fs'[d].type = "directory"
  BY DEF IsDirIn
<1>4. d \in Prefixes(d)
  <2>1. Len(d) \in 1 .. Len(d)
    <3>1. Len(d) \in Nat /\ Len(d) # 0
      BY EmptySeq
    <3> QED
      BY <3>1
  <2>2. SubSeq(d, 1, Len(d)) = d
    OBVIOUS
  <2> QED
    BY <2>1, <2>2 DEF Prefixes
<1>5. d \in DOMAIN fs
  <2> SUFFICES ASSUME d \notin DOMAIN fs
               PROVE  FALSE
    OBVIOUS
  <2>1. EndsTmp(Tmp(Dst(Item)))
    BY <1>1, TmpHand DEF InstInv
  <2>2. ~TmpOnly /\ ~Owns
    BY <1>2, <1>3, <2>1 DEF TmpOnly, Owns, OnlyAt
  <2>3. CASE Makes
    <3>1. d = Upto(Dir(Item), at)
      BY <1>3, <2>3 DEF Makes, OnlyAt
    <3> QED
      BY <1>4, <2>3, <3>1, MakesNothing
  <2>4. CASE Renames
    <3>1. d = Dst(Item) /\ fs'[d] = fs[Tmp(Dst(Item))] /\ fs[Tmp(Dst(Item))].type = "file"
      BY <1>3, <2>4, TmpThere DEF Renames
    <3> QED
      BY <1>3, <3>1
  <2>5. CASE MakesLink
    BY <1>3, <2>5 DEF MakesLink, OnlyAt
  <2> QED
    BY <2>2, <2>3, <2>4, <2>5, StepChanges
<1> QED
  BY <1>2, <1>3, <1>5, TypesStay

\* What changes of a directory is its owner.
LEMMA DirChanges ==
  ASSUME InstInv, Step, program = "installer", NEW d \in DOMAIN fs, ~EndsTmp(d),
         fs[d].type = "directory", fs'[d] # fs[d]
  PROVE  Owns /\ d = Dir(Item)
<1>1. done < Len(Hierarchy)
  BY StepEffects
<1>2. EndsTmp(Tmp(Dst(Item)))
  BY <1>1, TmpHand DEF InstInv
<1>3. ~TmpOnly /\ ~Makes /\ ~MakesLink
  BY <1>2 DEF TmpOnly, Makes, MakesLink, OnlyAt
<1>4. ~Renames
  <2>1. Renames => d # Dst(Item)
    BY DEF Renames, Occupied, Exists, IsDir
  <2> QED
    BY <1>2, <2>1 DEF Renames
<1>5. Owns
  BY <1>3, <1>4, StepChanges
<1> QED
  BY <1>5 DEF Owns, OnlyAt

LEMMA MadeStays ==
  ASSUME RetryInv, Step, Busy, NEW k \in ItemsOf({"INST_MKDIR"}), MadeRight(fs, Hierarchy[k])
  PROVE  MadeRight(fs', Hierarchy[k])
<1> DEFINE it == Hierarchy[k]
           d == Dir(it)
<1> SUFFICES ASSUME OwnerKnown(it)
             PROVE  MadeRight(fs', it)
  BY DEF MadeRight
<1>1. InstInv /\ CalmInv /\ program = "installer" /\ calm /\ done < Len(Hierarchy)
  BY StepEffects DEF RetryInv, RunInv, Busy
<1>2. d \in Seq(Names) \ {<<>>} /\ it \in {Hierarchy[j] : j \in DOMAIN Hierarchy}
  BY <1>1, ItemFacts DEF ItemsOf, InstInv, Counters
<1>3. Settled(fs, d)
  BY DEF MadeRight
<1>4. Settled(fs', d)
  BY <1>1, <1>2, <1>3, SettledStep
<1>5. ASSUME Sole(it), MayOwn(it), IsDirIn(fs', d)
      PROVE  fs'[d].owner = UidOf(it) /\ fs'[d].group = Given(it)
  <2>1. d \in DOMAIN fs /\ fs[d].type = "directory" /\ d \in DOMAIN fs' /\ ~EndsTmp(d)
    BY <1>1, <1>2, <1>3, <1>5, SettledThere
  <2>2. fs[d].owner = UidOf(it) /\ fs[d].group = Given(it)
    BY <1>5, <2>1 DEF MadeRight, IsDirIn
  <2>3. CASE fs'[d] = fs[d]
    BY <2>2, <2>3
  <2>4. CASE fs'[d] # fs[d]
    <3>1. Owns /\ d = Dir(Item)
      BY <1>1, <2>1, <2>4, DirChanges
    <3>2. pc = "own" /\ UidOf(Item) # Me /\ fs'[d] = Owned(fs[d], UidOf(Item), GidOf(Item))
      BY <3>1 DEF Owns
    <3>3. Item.op = "INST_MKDIR"
      BY <1>1, <3>2 DEF InstInv, PlaceInv
    <3>4. PICK j \in ItemsOf({"INST_MKDIR"}) : Item = Hierarchy[j]
      BY <1>1, <3>3, HandIn DEF InstInv
    <3>5. Item.owner = it.owner /\ Item.group = it.group
      BY <1>5, <3>1, <3>4 DEF Sole
    <3>6. UidOf(Item) = UidOf(it) /\ GidOf(Item) = GidOf(it)
      BY <3>5 DEF UidOf, GidOf
    <3>7. EntryOK(fs[d])
      BY <1>1, <2>1 DEF InstInv, FsInv, TreeOK, NodeOK
    <3> HIDE DEF d, it
    <3>8. fs'[d].owner = UidOf(Item) /\ fs'[d].group = IF Win32 THEN fs[d].group ELSE GidOf(Item)
      BY <3>2, <3>7 DEF Owned, EntryOK, Fields
    <3> QED
      BY <2>2, <3>2, <3>6, <3>8 DEF Given
  <2> QED
    BY <2>3, <2>4
<1> QED
  BY <1>4, <1>5 DEF MadeRight

\* inst_mkdir has made sure of it when it is done.
LEMMA MadeNew ==
  ASSUME RetryInv, Step, Busy, MkdirOwn(FALSE)
  PROVE  MadeRight(fs', Item)
<1> DEFINE d == Dir(Item)
<1>1. /\ InstInv /\ CalmInv /\ program = "installer" /\ calm /\ done < Len(Hierarchy)
      /\ pc = "own" /\ Item.op = "INST_MKDIR" /\ Settled(fs, d) /\ World(fs)
  BY StepEffects DEF RetryInv, RunInv, Busy, MkdirOwn, InstInv, PlaceInv, CalmInv
<1>2. d \in Seq(Names) \ {<<>>}
  BY <1>1, HandFacts DEF InstInv
<1>3. Settled(fs', d)
  BY <1>1, <1>2, SettledStep
<1>4. PICK m \in ItemsOf({"INST_MKDIR"}) : Item = Hierarchy[m]
  BY <1>1, HandIn DEF InstInv
<1>5. ASSUME Sole(Item), MayOwn(Item), IsDirIn(fs', d)
      PROVE  fs'[d].owner = UidOf(Item) /\ fs'[d].group = Given(Item)
  <2>1. d \in DOMAIN fs /\ fs[d].type = "directory"
    BY <1>1, <1>2, <1>5, SettledThere
  <2>2. /\ UidOf(Item) = Me => fs[d].owner = Me
        /\ Win32 \/ UidOf(Item) = Me => fs[d].group = MyGroup
    BY <1>1, <1>4, <1>5, <2>1 DEF World, EntryRight, DirRight
  <2>3. CASE UidOf(Item) = Me
    <3>1. fs' = fs
      BY <2>3 DEF MkdirOwn
    <3> QED
      BY <2>2, <2>3, <3>1 DEF Given
  <2>4. CASE UidOf(Item) # Me
    <3>1. fs' = [fs EXCEPT ![d] = Owned(fs[d], UidOf(Item), GidOf(Item))]
      BY <1>5, <2>1, <2>4 DEF MkdirOwn, MayOwn, Exists
    <3>2. EntryOK(fs[d])
      BY <1>1, <2>1 DEF InstInv, FsInv, TreeOK, NodeOK
    <3> HIDE DEF d
    <3>3. fs'[d] = Owned(fs[d], UidOf(Item), GidOf(Item))
      BY <2>1, <3>1
    <3>4. fs'[d].owner = UidOf(Item) /\ fs'[d].group = IF Win32 THEN fs[d].group ELSE GidOf(Item)
      BY <3>2, <3>3 DEF Owned, EntryOK, Fields
    <3> QED
      BY <2>2, <2>4, <3>4 DEF Given
  <2> QED
    BY <2>3, <2>4
<1> QED
  BY <1>3, <1>5 DEF MadeRight

\* An item that is done in this step.
LEMMA Pasts ==
  ASSUME RetryInv, Step, Busy, calm', NEW k \in DOMAIN Hierarchy
  PROVE  /\ Swept(k)' => Swept(k) \/ (k = done + 1 /\ pc # "leave" /\ (pc' = "leave" \/ done' = done + 1))
         /\ Handled(k)' => Handled(k) \/ (/\ k = done + 1 /\ pc # "leave" /\ quiet + 1 >= RunsNeeded
                                          /\ pc' = "leave" \/ done' = done + 1)
<1>1. quiet' = quiet /\ done \in Nat /\ done' \in {done, done + 1} /\ Static /\ k \in Nat
  BY BusyStep
<1>2. pc = "leave" => pc' = "item" /\ done' = done + 1
  <2>1. pc = "leave" => LeaveDir(FALSE)
    <3> SUFFICES ASSUME pc = "leave"
                 PROVE  LeaveDir(FALSE)
      OBVIOUS
    <3>1. ~(BeginItem \/ MakeDir(FALSE) \/ MkdirOwn(FALSE) \/ EnterDir(FALSE))
      BY DEF BeginItem, MakeDir, MkdirOwn, EnterDir
    <3>2. ~(OpenSource(FALSE) \/ OpenTmp(FALSE) \/ Fill(FALSE) \/ Chmod(FALSE) \/ Chown(FALSE) \/ Rename(FALSE))
      BY DEF OpenSource, OpenTmp, Fill, Chmod, Chown, Rename
    <3>3. ~(MakeLink(FALSE) \/ CopyLink(FALSE))
      BY DEF MakeLink, CopyLink
    <3> QED
      BY <3>1, <3>2, <3>3, BusyStep
  <2> QED
    BY <2>1 DEF LeaveDir, EndItem
<1>3. pc' = "leave" => done' = done
  <2>1. CASE BeginItem \/ MakeDir(FALSE) \/ MkdirOwn(FALSE) \/ EnterDir(FALSE) \/ LeaveDir(FALSE)
    BY <2>1 DEF BeginItem, MakeDir, MkdirOwn, EnterDir, LeaveDir, EndItem, Goto
  <2>2. ASSUME NEW e, EndCopy(e)
        PROVE  pc' = "leave" => done' = done
    BY <2>2 DEF EndCopy, EndItem
  <2>3. ASSUME NEW l, Goto(l)
        PROVE  done' = done
    BY <2>3 DEF Goto
  <2>4. CASE OpenSource(FALSE) \/ OpenTmp(FALSE) \/ Fill(FALSE) \/ Chmod(FALSE) \/ Chown(FALSE) \/ Rename(FALSE)
    BY <2>2, <2>3, <2>4 DEF OpenSource, OpenTmp, Fill, Chmod, Chown, Rename, Err
  <2>5. CASE MakeLink(FALSE) \/ CopyLink(FALSE)
    BY <2>2, <2>3, <2>5 DEF MakeLink, CopyLink
  <2> QED
    BY <2>1, <2>4, <2>5, BusyStep
<1>4. RunsNeeded' = RunsNeeded
  BY <1>1, SameItems DEF Static
<1>5. k <= Past' => k <= Past \/ (k = done + 1 /\ pc # "leave" /\ (pc' = "leave" \/ done' = done + 1))
  BY <1>1, <1>2, <1>3 DEF Past
<1> QED
  BY <1>1, <1>4, <1>5 DEF Swept, Handled

LEMMA MadeStep ==
  ASSUME RetryInv, Step, Busy, calm'
  PROVE  MadeInv'
<1>1. system' = system /\ Hierarchy' = Hierarchy
  BY BusyStep, SameItems DEF Static
<1>2. ASSUME NEW k \in ItemsOf({"INST_MKDIR"}), Swept(k)'
      PROVE  MadeRight(fs', Hierarchy[k])
  <2>1. k \in DOMAIN Hierarchy /\ Hierarchy[k].op = "INST_MKDIR"
    BY DEF ItemsOf
  <2>2. CASE Swept(k)
    BY <2>2, MadeStays DEF MadeInv, RetryInv
  <2>3. CASE ~Swept(k)
    <3>1. Item = Hierarchy[k] /\ (pc' = "leave" \/ done' = done + 1)
      BY <1>2, <2>1, <2>3, Pasts, BusyStep
    <3>2. Item.op \notin Links /\ Item.op = "INST_MKDIR"
      BY <2>1, <3>1 DEF Links
    <3>3. CASE BeginItem
      <4>1. ~dry /\ done \in Nat
        BY BusyStep
      <4>2. OwnerKnown(Item) => Goto("mkdir") \/ Goto("source")
        BY <3>3, <4>1 DEF BeginItem
      <4>3. pc' = "leave" \/ done' = done + 1
        BY <3>1
      <4>4. ~OwnerKnown(Item)
        BY <4>1, <4>2, <4>3 DEF Goto
      <4> QED
        BY <3>1, <4>4 DEF MadeRight
    <3>4. CASE MkdirOwn(FALSE)
      BY <3>1, <3>4, MadeNew
    <3>5. ~(EnterDir(FALSE) \/ LeaveDir(FALSE) \/ MakeLink(FALSE) \/ CopyLink(FALSE))
      BY <3>2 DEF EnterDir, LeaveDir, MakeLink, CopyLink, RetryInv, RunInv, InstInv, PlaceInv
    <3>6. ~(OpenSource(FALSE) \/ OpenTmp(FALSE) \/ Fill(FALSE) \/ Chmod(FALSE) \/ Chown(FALSE) \/ Rename(FALSE))
      BY <3>2 DEF OpenSource, OpenTmp, Fill, Chmod, Chown, Rename, Copying, RetryInv, RunInv, InstInv, PlaceInv
    <3>7. ~MakeDir(FALSE)
      BY <3>1, BusyStep DEF MakeDir, Goto
    <3> QED
      BY <3>3, <3>4, <3>5, <3>6, <3>7, BusyStep
  <2> QED
    BY <2>2, <2>3
<1>3. ItemsOf({"INST_MKDIR"})' = ItemsOf({"INST_MKDIR"})
  BY <1>1, SameSystem
<1>4. \A it : MadeRight(fs, it)' <=> MadeRight(fs', it)
  <2> SUFFICES ASSUME NEW it
               PROVE  MadeRight(fs, it)' <=> MadeRight(fs', it)
    OBVIOUS
  <2> QED
    BY <1>1, SameSystem, SameNeeds DEF MadeRight
<1> QED
  BY <1>1, <1>2, <1>3, <1>4 DEF MadeInv

-----------------------------------------------------------------------------
(* Temporary files.                                                         *)

\* What is copied although it is a link is copied on Win32.
LEMMA CopiedLink ==
  ASSUME NEW it \in CopyItems, it.op \in Links
  PROVE  Win32
BY DEF CopyItems, ItemsOf, Copies, Links

\* install_file_copy goes on with its temporary file, or has removed it.
LEMMA TmpGone ==
  ASSUME RetryInv, Step, Busy, calm', pc \in Working \cup {"open"}
  PROVE  (pc' \in Working /\ done' = done) \/ Tmp(Dst(Item)) \notin DOMAIN fs'
<1>1. OpenTmp(FALSE) \/ Fill(FALSE) \/ Chmod(FALSE) \/ Chown(FALSE) \/ Rename(FALSE)
  <2>1. ~(BeginItem \/ MakeDir(FALSE) \/ MkdirOwn(FALSE) \/ EnterDir(FALSE))
    BY DEF BeginItem, MakeDir, MkdirOwn, EnterDir, Working
  <2>2. ~(OpenSource(FALSE) \/ MakeLink(FALSE) \/ CopyLink(FALSE) \/ LeaveDir(FALSE))
    BY DEF OpenSource, MakeLink, CopyLink, LeaveDir, Working
  <2> QED
    BY <2>1, <2>2, BusyStep
<1>2. CASE Err
  BY <1>2, ErrOnly
<1>3. CASE ~Err /\ ~Rename(FALSE)
  <2>1. Goto("fill") \/ Goto("chmod") \/ Goto("chown") \/ Goto("rename")
    BY <1>1, <1>3 DEF OpenTmp, Fill, Chmod, Chown
  <2> QED
    BY <2>1 DEF Goto, Working
<1>4. CASE ~Err /\ Rename(FALSE)
  <2> DEFINE g == Put(fs, Dst(Item), fs[Tmp(Dst(Item))])
             t == Tmp(Dst(Item))
  <2>1. fs' = Remove(g, t)
    BY <1>4 DEF Rename
  <2> HIDE DEF g, t
  <2>2. OnlyAt(g, Remove(g, t), t) /\ DOMAIN Remove(g, t) = DOMAIN g \ {t}
    BY RemoveAt
  <2>3. t \notin DOMAIN fs'
    BY <2>1, <2>2
  <2> QED
    BY <2>3 DEF t
<1> QED
  BY <1>2, <1>3, <1>4

\* Nobody else makes one.
LEMMA TmpElse ==
  ASSUME RetryInv, Step, Busy, calm', NEW p \in DOMAIN fs', EndsTmp(p),
         ~(pc \in Working \cup {"open"} /\ p = Tmp(Dst(Item)))
  PROVE  p \in DOMAIN fs
<1>1. InstInv /\ program = "installer" /\ done < Len(Hierarchy)
  BY StepEffects DEF RetryInv, RunInv, Busy
<1>2. ~EndsTmp(Dst(Item))
  BY <1>1, HandFacts DEF InstInv
<1>3. CASE fs' = fs
  BY <1>3
<1>4. CASE pc \in Working \cup {"open"}
  <2>1. TmpOnly \/ Renames
    <3>1. ~Makes /\ ~Owns /\ ~MakesLink
      BY <1>4 DEF Makes, Owns, MakesLink, Working
    <3> QED
      BY <1>1, <3>1, StepChanges
  <2> QED
    BY <1>2, <1>4, <2>1 DEF TmpOnly, Renames, OnlyAt
<1>5. CASE pc \notin Working \cup {"open"} /\ fs' # fs
  <2>1. MakeDir(FALSE) \/ MkdirOwn(FALSE) \/ MakeLink(FALSE)
    <3>1. ~(OpenTmp(FALSE) \/ Fill(FALSE) \/ Chmod(FALSE) \/ Chown(FALSE) \/ Rename(FALSE))
      BY <1>5 DEF OpenTmp, Fill, Chmod, Chown, Rename, Working
    <3>2. ~(BeginItem \/ OpenSource(FALSE) \/ EnterDir(FALSE) \/ CopyLink(FALSE) \/ LeaveDir(FALSE))
      BY <1>5 DEF BeginItem, OpenSource, EnterDir, CopyLink, LeaveDir, Nothing
    <3> QED
      BY <3>1, <3>2, BusyStep
  <2>2. CASE MakeDir(FALSE)
    <3> DEFINE q == SubSeq(Dir(Item), 1, at)
               made == Entry("directory", "dir", Item.perm \ Umask, Me, MyGroup)
    <3>1. ~EndsTmp(q)
      BY <1>1, <2>2, MakingFacts DEF MakeDir
    <3>2. fs' = Put(fs, q, made)
      BY <1>5, <2>2 DEF MakeDir
    <3> HIDE DEF q, made
    <3>3. DOMAIN fs' = DOMAIN fs \cup {q}
      BY <3>2, PutStep
    <3> QED
      BY <3>1, <3>3
  <2>3. CASE MkdirOwn(FALSE)
    <3>1. fs' = [fs EXCEPT ![Dir(Item)] = Owned(@, UidOf(Item), GidOf(Item))]
      BY <1>5, <2>3 DEF MkdirOwn
    <3> QED
      BY <3>1
  <2>4. CASE MakeLink(FALSE)
    <3> DEFINE made == Entry("symlink", Item.src, Bit, Me, MyGroup)
    <3>1. fs' = Put(fs, Dst(Item), made)
      BY <1>5, <2>4 DEF MakeLink
    <3> HIDE DEF made
    <3>2. DOMAIN fs' = DOMAIN fs \cup {Dst(Item)}
      BY <3>1, PutStep
    <3> QED
      BY <1>2, <3>2
  <2> QED
    BY <2>1, <2>2, <2>3, <2>4
<1> QED
  BY <1>3, <1>4, <1>5

LEMMA CleanStays ==
  ASSUME RetryInv, Step, Busy, calm', NEW k \in DOMAIN Hierarchy, Hierarchy[k].op # "INST_MKDIR",
         Swept(k)
  PROVE  (pc' \in Working /\ done' = done /\ Dst(Item) = Dst(Hierarchy[k])) \/ NoTmp(fs', Hierarchy[k])
<1> DEFINE it == Hierarchy[k]
           p == Tmp(Dst(it))
           t == Tmp(Dst(Item))
<1>1. InstInv /\ done < Len(Hierarchy)
  BY StepEffects DEF RetryInv, RunInv
<1>2. p = t => Dst(Item) = Dst(it)
  BY <1>1, TmpHand DEF InstInv
<1>3. CASE p = t /\ pc \in Working \cup {"open"}
  <2>1. (pc' \in Working /\ done' = done) \/ p \notin DOMAIN fs'
    BY <1>3, TmpGone
  <2> QED
    BY <1>2, <1>3, <2>1 DEF NoTmp
<1>4. CASE ~(p = t /\ pc \in Working \cup {"open"})
  <2>1. NoTmp(fs, it)
    <3>1. ~InHand(k)
      BY <1>4 DEF InHand
    <3> QED
      BY <3>1 DEF CleanInv, RetryInv
  <2>2. ASSUME it \in CopyItems, p \in DOMAIN fs'
        PROVE  it.op \in Links /\ From(it) \notin DOMAIN fs'
    <3>1. EndsTmp(p)
      <4>1. Dst(it) \in Seq(Element)
        BY <1>1, ItemFacts DEF InstInv, Counters
      <4> QED
        BY <4>1, AppendFacts DEF Tmp, EndsTmp, Element
    <3>2. p \in DOMAIN fs
      BY <1>4, <2>2, <3>1, TmpElse
    <3>3. it.op \in Links /\ From(it) \notin DOMAIN fs
      BY <2>1, <2>2, <3>2 DEF NoTmp
    <3>4. Win32
      BY <2>2, <3>3, CopiedLink
    <3> QED
      BY <3>3, <3>4, NoNewFrom
  <2> QED
    BY <2>2 DEF NoTmp
<1> QED
  BY <1>3, <1>4

LEMMA CleanNew ==
  ASSUME RetryInv, Step, Busy, calm', Item.op # "INST_MKDIR", pc # "leave",
         pc' = "leave" \/ done' = done + 1
  PROVE  NoTmp(fs', Item)
<1> DEFINE t == Tmp(Dst(Item))
<1>1. /\ InstInv /\ done < Len(Hierarchy) /\ program = "installer" /\ ~dry /\ calm /\ done \in Nat
      /\ pc # "idle" /\ World(fs) /\ CalmInv /\ RunInv
  BY BusyStep DEF RetryInv, RunInv, Busy
<1>2. ~(\E l \in Places : l # "leave" /\ Goto(l))
  BY <1>1 DEF Goto
<1>3. CASE pc \in Working \cup {"open"}
  <2>1. t \notin DOMAIN fs'
    BY <1>1, <1>3, TmpGone DEF Working
  <2> QED
    BY <2>1 DEF NoTmp
<1>4. CASE BeginItem
  <2>1. fs' = fs /\ ~OwnerKnown(Item) /\ Item.op \notin Links
    BY <1>1, <1>2, <1>4 DEF BeginItem, Nothing, Places
  <2>2. PICK k \in ItemsOf(Copies) : Item = Hierarchy[k]
    <3>1. Item.op \in Copies
      BY <1>1, <2>1, HandFacts DEF InstInv
    <3> QED
      BY <1>1, <3>1, HandIn DEF InstInv
  <2>3. t \in DOMAIN fs => OwnerKnown(Item)
    BY <1>1, <2>2 DEF World, EntryRight, TmpRight
  <2> QED
    BY <2>1, <2>3 DEF NoTmp
<1>5. CASE OpenSource(FALSE)
  <2>1. fs' = fs /\ pc = "source" /\ cwd # Build /\ Source(Item) \notin DOMAIN fs
    BY <1>2, <1>5 DEF OpenSource, Nothing, Places, SourceExists, Exists
  <2>2. Item.op \in Links
    BY <1>1, <2>1 DEF CalmInv
  <2>3. From(Item) \notin DOMAIN fs
    BY <1>1, <2>1, <2>2, FromFacts DEF Copying
  <2> QED
    BY <2>1, <2>2, <2>3 DEF NoTmp
<1>6. CASE CopyLink(FALSE)
  <2>1. fs' = fs /\ pc = "owner" /\ Source(Item) \notin DOMAIN fs
    BY <1>2, <1>6 DEF CopyLink, Nothing, Places, SourceExists, Exists
  <2>2. Item.op \in Links
    BY <1>1, <2>1 DEF InstInv, PlaceInv
  <2>3. From(Item) \notin DOMAIN fs
    BY <1>1, <2>1, <2>2, FromFacts
  <2> QED
    BY <2>1, <2>2, <2>3 DEF NoTmp
<1>7. CASE EnterDir(FALSE)
  <2>1. fs' = fs /\ ~IsDir(Dir(Item))
    BY <1>1, <1>2, <1>7 DEF EnterDir, Places
  <2>2. t \notin DOMAIN fs
    <3>1. Parent(t) = Dir(Item)
      BY <1>1, HandFacts DEF InstInv
    <3>2. t \in DOMAIN fs => Rooted(fs, t)
      BY <1>1 DEF InstInv, FsInv, TreeOK
    <3> QED
      BY <2>1, <3>1, <3>2 DEF Rooted, IsDir, Exists
  <2> QED
    BY <2>1, <2>2 DEF NoTmp
<1>8. CASE MakeLink(FALSE)
  <2>1. ~Win32 /\ Item.op \in Links
    BY <1>1, <1>8 DEF MakeLink, InstInv, PlaceInv
  <2> QED
    BY <2>1, CopiedLink DEF NoTmp
<1>9. ~(MakeDir(FALSE) \/ MkdirOwn(FALSE) \/ LeaveDir(FALSE))
  BY <1>1 DEF MakeDir, MkdirOwn, LeaveDir, InstInv, PlaceInv
<1>10. OpenTmp(FALSE) \/ Fill(FALSE) \/ Chmod(FALSE) \/ Chown(FALSE) \/ Rename(FALSE)
       => pc \in Working \cup {"open"}
  BY DEF OpenTmp, Fill, Chmod, Chown, Rename, Working
<1> QED
  BY <1>3, <1>4, <1>5, <1>6, <1>7, <1>8, <1>9, <1>10, BusyStep

LEMMA CleanStep ==
  ASSUME RetryInv, Step, Busy, calm'
  PROVE  CleanInv'
<1>1. system' = system /\ Hierarchy' = Hierarchy /\ Static
  BY BusyStep, SameItems DEF Static
<1>2. ASSUME NEW k \in DOMAIN Hierarchy, Hierarchy[k].op # "INST_MKDIR", Swept(k)'
      PROVE  (pc' \in Working /\ done' = done /\ Dst(Item) = Dst(Hierarchy[k])) \/ NoTmp(fs', Hierarchy[k])
  <2>1. CASE Swept(k)
    BY <1>2, <2>1, CleanStays
  <2>2. CASE ~Swept(k)
    <3>1. k = done + 1 /\ pc # "leave" /\ (pc' = "leave" \/ done' = done + 1)
      BY <1>2, <2>2, Pasts
    <3>2. Item = Hierarchy[k]
      BY <3>1, BusyStep
    <3> QED
      BY <1>2, <3>1, <3>2, CleanNew
  <2> QED
    BY <2>1, <2>2
<1>3. \A it : NoTmp(fs, it)' <=> NoTmp(fs', it)
  <2> SUFFICES ASSUME NEW it
               PROVE  NoTmp(fs, it)' <=> NoTmp(fs', it)
    OBVIOUS
  <2>1. CopyItems' = CopyItems
    BY <1>1, SameItems
  <2> QED
    BY <1>1, <2>1, SameSystem DEF NoTmp, Tmp
<1>4. ASSUME NEW k, pc' \in Working, done' = done, Dst(Item) = Dst(Hierarchy[k])
      PROVE  InHand(k)'
  <2>1. Dst(Item)' = Dst(Item)
    BY <1>1, <1>4, SameHand
  <2>2. Dst(Hierarchy[k])' = Dst(Hierarchy[k])
    BY <1>1, SameSystem
  <2> QED
    BY <1>4, <2>1, <2>2 DEF InHand
<1> QED
  BY <1>1, <1>2, <1>3, <1>4 DEF CleanInv

-----------------------------------------------------------------------------
(* What is installed, and what hinders the rest.                            *)

LEMMA FromIs ==
  ASSUME system \in Systems, NEW k \in DOMAIN Hierarchy
  PROVE  ~EndsTmp(From(Hierarchy[k]))
<1>1. Dir(Hierarchy[k]) \in Seq(Element) /\ Hierarchy[k].src \in Names
  BY ItemFacts
<1> QED
  BY <1>1, ParentFacts DEF From

\* No directory comes into being where none is made.
LEMMA NoNewDirs ==
  ASSUME InstInv, Step, program = "installer", ~Makes, NEW p, ~EndsTmp(p), IsDirIn(fs', p)
  PROVE  IsDirIn(fs, p)
<1>1. done < Len(Hierarchy)
  BY StepEffects
<1>2. EndsTmp(Tmp(Dst(Item)))
  BY <1>1, TmpHand DEF InstInv
<1>3. CASE p \in DOMAIN fs
  <2>1. p \in DOMAIN fs' /\ (fs'[p].type = "directory" <=> fs[p].type = "directory")
    BY <1>3, TypesStay
  <2> QED
    BY <1>3, <2>1 DEF IsDirIn
<1>4. CASE p \notin DOMAIN fs /\ p # <<>>
  <2>1. p \in DOMAIN fs' /\ fs'[p].type = "directory"
    BY <1>4 DEF IsDirIn
  <2>2. ~TmpOnly /\ ~Owns
    BY <1>2, <1>4, <2>1 DEF TmpOnly, Owns, OnlyAt
  <2>3. CASE Renames
    <3>1. p = Dst(Item) /\ fs'[p] = fs[Tmp(Dst(Item))] /\ fs[Tmp(Dst(Item))].type = "file"
      BY <1>4, <2>1, <2>3, TmpThere DEF Renames
    <3> QED
      BY <2>1, <3>1
  <2>4. CASE MakesLink
    BY <1>4, <2>1, <2>4 DEF MakesLink, OnlyAt
  <2> QED
    BY <2>2, <2>3, <2>4, StepChanges
<1> QED
  BY <1>3, <1>4 DEF IsDirIn

\* What is not to be copied there stays so.
LEMMA NotCopyable ==
  ASSUME RetryInv, Step, Busy, Win32, NEW k \in DOMAIN Hierarchy, Hierarchy[k].op \in Links, Swept(k),
         ~CopyableIn(fs, From(Hierarchy[k]))
  PROVE  ~CopyableIn(fs', From(Hierarchy[k]))
<1> DEFINE p == From(Hierarchy[k])
<1>1. InstInv /\ done < Len(Hierarchy) /\ program = "installer"
  BY StepEffects DEF RetryInv, RunInv, Busy
<1>2. ~EndsTmp(p) /\ EndsTmp(Tmp(Dst(Item)))
  BY <1>1, FromIs, TmpHand DEF InstInv, Counters
<1>3. CASE p \notin DOMAIN fs
  BY <1>3, NoNewFrom DEF CopyableIn
<1>4. CASE p \in DOMAIN fs
  <2>1. CASE fs'[p] = fs[p]
    BY <1>4, <2>1 DEF CopyableIn
  <2>2. CASE fs'[p] # fs[p]
    <3>1. ~TmpOnly /\ ~Makes /\ ~MakesLink
      BY <1>2, <1>4, <2>2 DEF TmpOnly, Makes, MakesLink, OnlyAt
    <3>2. ~Renames
      BY <1>2, <1>4, <2>2 DEF Renames, Occupied, Exists
    <3>3. Owns
      BY <1>1, <3>1, <3>2, StepChanges
    <3>4. Superuser /\ p = Dir(Item) /\ fs'[p] = Owned(fs[p], UidOf(Item), GidOf(Item))
      BY <1>4, <2>2, <3>3 DEF Owns, OnlyAt
    <3>5. EntryOK(fs[p])
      BY <1>1, <1>4 DEF InstInv, FsInv, TreeOK, NodeOK
    <3>6. fs'[p].type = fs[p].type
      BY <3>4, <3>5, OwnedFacts
    <3> QED
      BY <1>4, <3>4, <3>6 DEF CopyableIn
  <2> QED
    BY <2>1, <2>2
<1> QED
  BY <1>3, <1>4

LEMMA StoppedStays ==
  ASSUME RetryInv, Step, Busy, NEW k \in DOMAIN Hierarchy, Hierarchy[k].op # "INST_MKDIR",
         Swept(k), Stopped(fs, Hierarchy[k])
  PROVE  Stopped(fs', Hierarchy[k])
<1> DEFINE it == Hierarchy[k]
<1>1. InstInv /\ program = "installer"
  BY DEF RetryInv, RunInv, Busy
<1>2. ~Makes
  BY NoMakes
<1>3. Dir(it) \in Seq(Names) \ {<<>>} /\ ~EndsTmp(Dst(it)) /\ Dst(it) # <<>>
  BY <1>1, ItemFacts DEF InstInv, Counters
<1>4. ~EndsTmp(Dir(it))
  BY <1>3, PathFacts DEF Paths
<1>5. CASE ~IsDirIn(fs, Dir(it))
  BY <1>1, <1>2, <1>4, <1>5, NoNewDirs DEF Stopped
<1>6. Dst(it) \in DOMAIN fs => Dst(it) \in DOMAIN fs'
                               /\ (fs'[Dst(it)].type = "directory" <=> fs[Dst(it)].type = "directory")
  BY <1>1, <1>3, TypesStay
<1>7. CASE it \in CopyItems /\ IF Win32 THEN Dst(it) \in DOMAIN fs ELSE IsDirIn(fs, Dst(it))
  BY <1>3, <1>6, <1>7 DEF Stopped, IsDirIn
<1>8. CASE it.op \in Copies /\ ~MayOwn(it)
  BY <1>8 DEF Stopped
<1>9. CASE it.op \in Links /\ Win32 /\ ~CopyableIn(fs, From(it))
  BY <1>9, NotCopyable DEF Stopped
<1>10. CASE it.op \in Links /\ ~Win32 /\ Dst(it) \in DOMAIN fs /\ ~Alone(it)
  BY <1>6, <1>10 DEF Stopped
<1> QED
  BY <1>5, <1>7, <1>8, <1>9, <1>10 DEF Stopped

-----------------------------------------------------------------------------
\* An error of install_file_copy in a run that is the last one needed.
LEMMA OpenStopped ==
  ASSUME RetryInv, Busy, OpenTmp(FALSE), Err, ~Goto("fill"), quiet + 1 >= RunsNeeded
  PROVE  Stopped(fs', Item)
<1> DEFINE t == Tmp(Dst(Item))
<1>1. /\ InstInv /\ World(fs) /\ pc = "open" /\ done < Len(Hierarchy) /\ program = "installer"
      /\ Item.op # "INST_MKDIR"
  BY DEF RetryInv, RunInv, OpenTmp, InstInv, PlaceInv, Copying
<1>2. TmpOnly /\ EndsTmp(t)
  BY <1>1, ErrOnly, TmpHand DEF InstInv
<1>3. ~(IF Exists(t) THEN Superuser \/ (fs[t].owner = Me /\ "w" \in fs[t].mode) ELSE IsDir(Dir(Item)))
  BY DEF OpenTmp
<1>4. CASE ~Exists(t)
  <2>1. ~IsDirIn(fs, Dir(Item))
    BY <1>3, <1>4 DEF IsDir, IsDirIn, Exists
  <2>2. Dir(Item) \in Seq(Names) \ {<<>>}
    BY <1>1, HandFacts DEF InstInv
  <2>3. ~EndsTmp(Dir(Item))
    BY <2>2, PathFacts DEF Paths
  <2>4. ~IsDirIn(fs', Dir(Item))
    BY <1>2, <2>1, <2>3 DEF IsDirIn, TmpOnly, OnlyAt
  <2> QED
    BY <2>4 DEF Stopped
<1>5. CASE Exists(t)
  <2>1. t \in DOMAIN fs /\ ~Superuser /\ ~(fs[t].owner = Me /\ "w" \in fs[t].mode)
    BY <1>3, <1>5 DEF Exists
  <2>2. ~Win32
    BY <1>1, <1>2, <2>1 DEF World, EntryRight, TmpRight
  <2>3. quiet > 0
    <3>1. quiet \in 0 .. 2 /\ RunsNeeded = 2
      BY <1>1, <2>1, <2>2 DEF RunsNeeded, InstInv, Counters
    <3> QED
      BY <3>1
  <2>4. Item.op \in Copies
    <3>0. Item.op \in Copies \cup Links \cup {"INST_MKDIR"}
      BY <1>1, HandFacts DEF InstInv
    <3>1. Item.op \notin Links
      BY <1>1, <2>2 DEF InstInv, PlaceInv, Copying
    <3> QED
      BY <1>1, <3>0, <3>1
  <2>5. done + 1 \in DOMAIN Hierarchy /\ Item = Hierarchy[done + 1]
    BY <1>1, HandAt
  <2>6. Item \in CopyItems /\ Item.op \notin Links
    BY <2>2, <2>4, <2>5 DEF CopyItems, ItemsOf, Copies, Links
  <2>7. ~InHand(done + 1)
    BY <1>1 DEF InHand, Working
  <2>8. NoTmp(fs, Item)
    <3>1. Swept(done + 1)
      BY <2>3 DEF Swept
    <3>2. CleanInv
      BY DEF RetryInv
    <3>3. Hierarchy[done + 1].op # "INST_MKDIR"
      BY <1>1, <2>5
    <3>4. NoTmp(fs, Hierarchy[done + 1])
      BY <2>5, <2>7, <3>1, <3>2, <3>3 DEF CleanInv
    <3> QED
      BY <2>5, <3>4
  <2> QED
    BY <2>1, <2>6, <2>8 DEF NoTmp
<1> QED
  BY <1>4, <1>5

LEMMA WorkStopped ==
  ASSUME RetryInv, Busy, Fill(FALSE) \/ Chmod(FALSE) \/ Chown(FALSE), 
         ~Goto("chmod"), ~Goto("chown"), ~Goto("rename")
  PROVE  Stopped(fs', Item)
<1> DEFINE t == Tmp(Dst(Item))
           p == From(Item)
<1>1. /\ RunInv /\ InstInv /\ CalmInv /\ HandInv /\ done < Len(Hierarchy) /\ program = "installer" /\ calm
      /\ pc \in {"fill", "chmod", "chown"}
  BY TmpThere DEF RetryInv, RunInv, Busy, Fill, Chmod, Chown
<1>2. Err
  BY DEF Fill, Chmod, Chown
<1>3. TmpOnly
  BY <1>2, ErrOnly
<1>4. Item.op \in Links => Win32 /\ Source(Item) = p /\ p # t /\ p # <<>>
  BY <1>1, FromFacts DEF Copying
<1>5. ASSUME Item.op \in Links, ~CopyableIn(fs, p)
      PROVE  Stopped(fs', Item)
  <2>1. ~CopyableIn(fs', p)
    BY <1>3, <1>4, <1>5 DEF CopyableIn, TmpOnly, OnlyAt
  <2> QED
    BY <1>4, <1>5, <2>1 DEF Stopped
<1>6. CASE Fill(FALSE)
  <2>1. cwd # Build /\ IsDir(Source(Item))
    BY <1>6 DEF Fill, Readable
  <2>2. Item.op \in Links
    BY <1>1, <2>1 DEF CalmInv
  <2>3. ~CopyableIn(fs, p)
    BY <1>4, <2>1, <2>2 DEF CopyableIn, IsDir, Exists
  <2> QED
    BY <1>5, <2>2, <2>3
<1>7. ~Chmod(FALSE)
  BY <1>1 DEF Chmod, HandInv
<1>8. CASE Chown(FALSE)
  <2>1. CopyUid(Item) # Me /\ ~Superuser
    BY <1>8 DEF Chown
  <2>2. CASE Item.op \in Links
    <3>1. ~CopyableIn(fs, p)
      BY <1>4, <2>1, <2>2 DEF CopyableIn, CopyUid
    <3> QED
      BY <1>5, <2>2, <3>1
  <2>3. CASE Item.op \notin Links
    <3>1. Item.op \in Copies
      <4>1. Item.op # "INST_MKDIR"
        BY <1>1, TmpThere
      <4> QED
        BY <1>1, <2>3, <4>1, HandFacts DEF InstInv
    <3>2. ~MayOwn(Item)
      BY <2>1, <2>3 DEF CopyUid, MayOwn
    <3> QED
      BY <3>1, <3>2 DEF Stopped
  <2> QED
    BY <2>2, <2>3
<1> QED
  BY <1>6, <1>7, <1>8

LEMMA RenameFull ==
  ASSUME RetryInv, Busy, Rename(FALSE)
  PROVE  InstalledIn(Item, fs') \/ Stopped(fs', Item)
<1> DEFINE t == Tmp(Dst(Item))
           d == Dst(Item)
<1>1. /\ InstInv /\ CalmInv /\ done < Len(Hierarchy) /\ program = "installer" /\ calm
      /\ pc = "rename" /\ Item.op # "INST_MKDIR" /\ fs[t].type = "file"
  BY TmpThere DEF RetryInv, RunInv, Busy, Rename
<1>2. t # d /\ d # <<>>
  BY <1>1, TmpHand, HandFacts DEF InstInv
<1>3. Item.op \in Copies \cup Links /\ (Item.op \in Links => Win32)
  BY <1>1, HandFacts DEF InstInv, PlaceInv, Copying
<1>4. CASE Occupied(d)
  <2>1. Err
    BY <1>4 DEF Rename
  <2>2. TmpOnly
    BY <2>1, ErrOnly
  <2>3. Item \in CopyItems
    <3>1. done + 1 \in DOMAIN Hierarchy /\ Item = Hierarchy[done + 1]
      BY <1>1, HandAt
    <3> QED
      BY <1>3, <3>1 DEF CopyItems, ItemsOf
  <2>4. IF Win32 THEN d \in DOMAIN fs' ELSE IsDirIn(fs', d)
    BY <1>2, <1>4, <2>2 DEF Occupied, IsDir, IsDirIn, Exists, TmpOnly, OnlyAt
  <2> QED
    BY <2>3, <2>4 DEF Stopped
<1>5. CASE ~Occupied(d)
  <2>1. d \in DOMAIN fs' /\ fs'[d] = fs[t]
    <3> DEFINE g == Put(fs, d, fs[t])
    <3>1. fs' = Remove(g, t)
      BY <1>5 DEF Rename
    <3> HIDE DEF t, d
    <3>2. OnlyAt(fs, g, d) /\ g[d] = fs[t] /\ DOMAIN g = DOMAIN fs \cup {d}
      BY PutAt
    <3> HIDE DEF g
    <3>3. OnlyAt(g, Remove(g, t), t) /\ DOMAIN Remove(g, t) = DOMAIN g \ {t}
      BY RemoveAt
    <3> QED
      BY <1>2, <3>1, <3>2, <3>3 DEF OnlyAt
  <2>2. Item.op \in Copies => fs[t].data = "new"
    BY <1>1 DEF CalmInv, Finishing
  <2>3. Item.op \in Links => Item.op \notin Copies
    BY DEF Copies, Links
  <2> QED
    BY <1>1, <1>3, <2>1, <2>2, <2>3 DEF InstalledIn
<1> QED
  BY <1>4, <1>5

LEMMA LinkFull ==
  ASSUME RetryInv, Busy, MakeLink(FALSE)
  PROVE  InstalledIn(Item, fs') \/ Stopped(fs', Item)
<1> DEFINE d == Dst(Item)
           made == Entry("symlink", Item.src, Bit, Me, MyGroup)
<1>1. /\ InstInv /\ World(fs) /\ ~Win32 /\ Item.op \in Links /\ Item.op \notin Copies
      /\ done < Len(Hierarchy)
  BY DEF RetryInv, RunInv, MakeLink, InstInv, PlaceInv, Links, Copies
<1>2. PICK k \in ItemsOf(Links) : Item = Hierarchy[k]
  BY <1>1, HandIn DEF InstInv
<1>3. CASE d \in DOMAIN fs
  <2>1. fs' = fs
    BY <1>3 DEF MakeLink, Exists
  <2>2. CASE Alone(Item)
    <3>1. fs[d].type = "symlink" /\ fs[d].data = Item.src
      BY <1>1, <1>2, <1>3, <2>2 DEF World, EntryRight, DstRight
    <3> QED
      BY <1>1, <1>3, <2>1, <3>1 DEF InstalledIn
  <2>3. CASE ~Alone(Item)
    BY <1>1, <1>3, <2>1, <2>3 DEF Stopped
  <2> QED
    BY <2>2, <2>3
<1>4. CASE d \notin DOMAIN fs
  <2>1. fs' = Put(fs, d, made)
    BY <1>4 DEF MakeLink, Exists
  <2>2. made.type = "symlink" /\ made.data = Item.src
    BY DEF Entry
  <2> HIDE DEF made
  <2>3. d \in DOMAIN fs' /\ fs'[d] = made
    BY <2>1, PutStep
  <2> QED
    BY <1>1, <2>2, <2>3 DEF InstalledIn
<1> QED
  BY <1>3, <1>4

\* An item that the run is done with in this step is in place, or hindered.
LEMMA FullNew ==
  ASSUME RetryInv, Step, Busy, calm', Item.op # "INST_MKDIR", pc # "leave", quiet + 1 >= RunsNeeded,
         pc' = "leave" \/ done' = done + 1
  PROVE  InstalledIn(Item, fs') \/ Stopped(fs', Item)
<1>1. /\ RunInv /\ InstInv /\ CalmInv /\ done < Len(Hierarchy) /\ program = "installer" /\ ~dry /\ calm
      /\ World(fs) /\ done \in Nat /\ pc # "idle"
  BY BusyStep DEF RetryInv, RunInv, Busy
<1>2. ~(\E l \in Places : l # "leave" /\ Goto(l))
  BY <1>1 DEF Goto
<1>4. CASE BeginItem
  <2>1. ~OwnerKnown(Item) /\ Item.op \notin Links
    BY <1>1, <1>2, <1>4 DEF BeginItem, Places
  <2>2. Item.op \in Copies
    BY <1>1, <2>1, HandFacts DEF InstInv
  <2> QED
    BY <2>1, <2>2 DEF Stopped, MayOwn
<1>5. CASE OpenSource(FALSE)
  <2>1. fs' = fs /\ pc = "source" /\ cwd # Build /\ Source(Item) \notin DOMAIN fs
    BY <1>2, <1>5 DEF OpenSource, Nothing, Places, SourceExists, Exists
  <2>2. Item.op \in Links
    BY <1>1, <2>1 DEF CalmInv
  <2>3. From(Item) \notin DOMAIN fs' /\ Win32
    BY <1>1, <2>1, <2>2, FromFacts DEF Copying
  <2> QED
    BY <2>2, <2>3 DEF Stopped, CopyableIn
<1>6. CASE CopyLink(FALSE)
  <2>1. fs' = fs /\ pc = "owner" /\ Source(Item) \notin DOMAIN fs
    BY <1>2, <1>6 DEF CopyLink, Nothing, Places, SourceExists, Exists
  <2>2. Item.op \in Links
    BY <1>1, <2>1 DEF InstInv, PlaceInv
  <2>3. From(Item) \notin DOMAIN fs' /\ Win32
    BY <1>1, <2>1, <2>2, FromFacts
  <2> QED
    BY <2>2, <2>3 DEF Stopped, CopyableIn
<1>7. CASE EnterDir(FALSE)
  <2>1. fs' = fs /\ ~IsDir(Dir(Item))
    BY <1>1, <1>2, <1>7 DEF EnterDir, Places
  <2> QED
    BY <2>1 DEF Stopped, IsDir, IsDirIn, Exists
<1>8. CASE MakeLink(FALSE)
  BY <1>8, LinkFull
<1>9. ~(MakeDir(FALSE) \/ MkdirOwn(FALSE) \/ LeaveDir(FALSE))
  BY <1>1 DEF MakeDir, MkdirOwn, LeaveDir, InstInv, PlaceInv
<1>10. CASE OpenTmp(FALSE)
  <2>1. ~Goto("fill")
    BY <1>2 DEF Places
  <2>2. Err
    BY <1>10, <2>1 DEF OpenTmp
  <2> QED
    BY <1>10, <2>1, <2>2, OpenStopped
<1>11. CASE Fill(FALSE) \/ Chmod(FALSE) \/ Chown(FALSE)
  <2>1. ~Goto("chmod") /\ ~Goto("chown") /\ ~Goto("rename")
    BY <1>2 DEF Places
  <2> QED
    BY <1>11, <2>1, WorkStopped
<1>12. CASE Rename(FALSE)
  BY <1>12, RenameFull
<1> QED
  BY <1>4, <1>5, <1>6, <1>7, <1>8, <1>9, <1>10, <1>11, <1>12, BusyStep

LEMMA FullStep ==
  ASSUME RetryInv, Step, Busy, calm'
  PROVE  FullInv'
<1>1. system' = system /\ Hierarchy' = Hierarchy
  BY BusyStep, SameItems DEF Static
<1>2. ASSUME NEW k \in DOMAIN Hierarchy, Hierarchy[k].op # "INST_MKDIR", Handled(k)'
      PROVE  InstalledIn(Hierarchy[k], fs') \/ Stopped(fs', Hierarchy[k])
  <2>1. CASE Handled(k)
    <3>1. InstalledIn(Hierarchy[k], fs) \/ Stopped(fs, Hierarchy[k])
      BY <1>2, <2>1 DEF FullInv, RetryInv
    <3>2. Swept(k)
      <4>1. quiet \in 0 .. 2
        BY DEF RetryInv, RunInv, InstInv, Counters
      <4> QED
        BY <2>1, <4>1 DEF Handled, Swept, RunsNeeded
    <3>3. pc = "rename" /\ Item.op \in Copies => fs[Tmp(Dst(Item))].data = "new"
      BY DEF RetryInv, CalmInv, Busy, Finishing
    <3>4. InstInv /\ program = "installer"
      BY DEF RetryInv, RunInv, Busy
    <3>5. CASE InstalledIn(Hierarchy[k], fs)
      BY <1>2, <3>3, <3>4, <3>5, InstalledStays
    <3>6. CASE Stopped(fs, Hierarchy[k])
      BY <1>2, <3>2, <3>6, StoppedStays
    <3> QED
      BY <3>1, <3>5, <3>6
  <2>2. CASE ~Handled(k)
    <3>1. k = done + 1 /\ pc # "leave" /\ quiet + 1 >= RunsNeeded /\ (pc' = "leave" \/ done' = done + 1)
      BY <1>2, <2>2, Pasts
    <3>2. Item = Hierarchy[k]
      BY <3>1, BusyStep
    <3> QED
      BY <1>2, <3>1, <3>2, FullNew
  <2> QED
    BY <2>1, <2>2
<1>3. \A it : InstalledIn(it, fs)' <=> InstalledIn(it, fs')
  BY <1>1, SameSystem DEF InstalledIn
<1>4. \A it : Stopped(fs, it)' <=> Stopped(fs', it)
  <2> SUFFICES ASSUME NEW it
               PROVE  Stopped(fs, it)' <=> Stopped(fs', it)
    OBVIOUS
  <2>1. CopyItems' = CopyItems /\ Win32' = Win32 /\ Superuser' = Superuser /\ Me' = Me
    BY <1>1, SameItems
  <2>2. Dir(it)' = Dir(it) /\ Dst(it)' = Dst(it) /\ From(it)' = From(it)
    BY <1>1, SameSystem
  <2>3. MayOwn(it)' = MayOwn(it) /\ Alone(it)' = Alone(it)
    BY <1>1, SameNeeds
  <2> QED
    BY <2>1, <2>2, <2>3 DEF Stopped, IsDirIn, CopyableIn
<1> QED
  BY <1>1, <1>2, <1>3, <1>4 DEF FullInv

-----------------------------------------------------------------------------
\* Where nothing is claimed any more, and where nothing changes.
LEMMA RetryNone ==
  ASSUME quiet' = 0, ~Busy'
  PROVE  MadeInv' /\ CleanInv' /\ FullInv'
<1>1. \A k : ~Swept(k)' /\ ~Handled(k)'
  BY DEF Swept, Handled, RunsNeeded
<1> QED
  BY <1>1 DEF MadeInv, CleanInv, FullInv

LEMMA RetrySame ==
  ASSUME RetryInv, system' = system, fs' = fs,
         \A k \in DOMAIN Hierarchy : /\ Swept(k)' => Swept(k)
                                     /\ Handled(k)' => Handled(k)
                                     /\ InHand(k) => InHand(k)'
  PROVE  MadeInv' /\ CleanInv' /\ FullInv'
<1>1. Hierarchy' = Hierarchy /\ CopyItems' = CopyItems /\ Win32' = Win32 /\ Superuser' = Superuser
      /\ Me' = Me
  BY SameItems
<1>2. ItemsOf({"INST_MKDIR"})' = ItemsOf({"INST_MKDIR"})
  BY SameSystem
<1>3. \A it : /\ Dir(it)' = Dir(it) /\ Dst(it)' = Dst(it) /\ From(it)' = From(it)
              /\ MayOwn(it)' = MayOwn(it) /\ Alone(it)' = Alone(it) /\ Sole(it)' = Sole(it)
              /\ OwnerKnown(it)' = OwnerKnown(it) /\ UidOf(it)' = UidOf(it) /\ Given(it)' = Given(it)
  BY SameSystem, SameNeeds
<1>4. MadeInv'
  <2>1. \A it : MadeRight(fs, it)' <=> MadeRight(fs, it)
    BY <1>3 DEF MadeRight, Settled, IsDirIn, Obstacle, Upto
  <2>2. \A k \in ItemsOf({"INST_MKDIR"}) : k \in DOMAIN Hierarchy
    BY DEF ItemsOf
  <2> QED
    BY <1>1, <1>2, <2>1, <2>2 DEF MadeInv, RetryInv
<1>5. CleanInv'
  <2>1. \A it : NoTmp(fs, it)' <=> NoTmp(fs, it)
    BY <1>1, <1>3 DEF NoTmp, Tmp
  <2> QED
    BY <1>1, <2>1 DEF CleanInv, RetryInv
<1>6. FullInv'
  <2>1. \A it : InstalledIn(it, fs)' <=> InstalledIn(it, fs)
    BY <1>1, <1>3 DEF InstalledIn
  <2>2. \A it : Stopped(fs, it)' <=> Stopped(fs, it)
    BY <1>1, <1>3 DEF Stopped, IsDirIn, CopyableIn
  <2> QED
    BY <1>1, <2>1, <2>2 DEF FullInv, RetryInv
<1> QED
  BY <1>4, <1>5, <1>6

\* A run that installs nothing: a dry one, and instchk.
LEMMA IdleStep ==
  ASSUME RetryInv, Step, ~Busy, calm, calm'
  PROVE  MadeInv' /\ CleanInv' /\ FullInv'
<1>1. InstInv /\ HandInv
  BY DEF RetryInv, RunInv
<1>2. Succeeds /\ Static /\ (BeginItem \/ Call(FALSE))
  BY DEF Step, Static, Fails
<1>3. pc # "idle"
  BY DEF Step, BeginItem, Call, MakeDir, MkdirOwn, OpenSource, OpenTmp, Fill, Chmod, Chown, Rename,
         EnterDir, MakeLink, CopyLink, LeaveDir, Deinstall, CheckItem
<1>4. ~Busy' /\ quiet' = quiet
  <2>1. program # "installer" \/ dry
    BY <1>3 DEF Busy
  <2> QED
    BY <1>2, <2>1 DEF Busy, Static, Succeeds
<1>5. CASE program = "deinstaller"
  BY <1>1, <1>4, <1>5, RetryNone DEF HandInv
<1>6. CASE program # "deinstaller"
  <2>1. pc \in {"item", "leave"}
    <3>1. program = "installer" => dry
      BY <1>3 DEF Busy
    <3>2. program # "installer" => pc \in {"idle", "item"}
      BY <1>1 DEF InstInv, PlaceInv
    <3> QED
      BY <1>1, <1>3, <3>1, <3>2 DEF HandInv
  <2>2. BeginItem \/ EnterDir(FALSE) \/ LeaveDir(FALSE) \/ CheckItem(FALSE)
    <3>1. ~(MakeDir(FALSE) \/ MkdirOwn(FALSE) \/ OpenSource(FALSE) \/ OpenTmp(FALSE) \/ Fill(FALSE))
      BY <2>1 DEF MakeDir, MkdirOwn, OpenSource, OpenTmp, Fill
    <3>2. ~(Chmod(FALSE) \/ Chown(FALSE) \/ Rename(FALSE) \/ MakeLink(FALSE) \/ CopyLink(FALSE))
      BY <2>1 DEF Chmod, Chown, Rename, MakeLink, CopyLink
    <3>3. ~Deinstall(FALSE)
      BY <1>6 DEF Deinstall
    <3> QED
      BY <1>2, <3>1, <3>2, <3>3 DEF Call
  <2>3. fs' = fs
    BY <2>2 DEF BeginItem, EnterDir, LeaveDir, CheckItem, Nothing
  <2>4. RunsNeeded' = RunsNeeded /\ system' = system
    BY <1>2, SameItems DEF Static
  <2>5. \A k : (Swept(k)' => Swept(k)) /\ (Handled(k)' => Handled(k))
    BY <1>4, <2>4 DEF Swept, Handled
  <2>6. \A k : ~InHand(k)
    BY <2>1 DEF InHand, Working
  <2> QED
    BY <2>3, <2>4, <2>5, <2>6, RetrySame
<1> QED
  BY <1>5, <1>6

LEMMA StartRetry ==
  ASSUME RetryInv, NEW p, NEW d, Start(p, d)
  PROVE  QuietInv' /\ MadeInv' /\ CleanInv' /\ FullInv'
<1>1. /\ fs' = fs /\ system' = system /\ pc = "idle" /\ done' = 0 /\ calm' = TRUE
      /\ quiet' \in {0, quiet} /\ pc' \in {"item", "idle"}
  BY DEF Start
<1>2. QuietInv'
  BY <1>1 DEF QuietInv
<1>3. RunsNeeded' = RunsNeeded
  BY <1>1, SameItems
<1>4. \A k \in DOMAIN Hierarchy : k \in Nat /\ k > 0
  <2>1. InstInv
    BY DEF RetryInv, RunInv
  <2> QED
    BY <2>1, Numbers DEF InstInv
<1>5. quiet \in 0 .. 2
  BY DEF RetryInv, RunInv, InstInv, Counters
<1>6. \A k \in DOMAIN Hierarchy : (Swept(k)' => Swept(k)) /\ (Handled(k)' => Handled(k))
  <2>1. RunsNeeded \in {1, 2}
    BY DEF RunsNeeded
  <2>2. \A k \in DOMAIN Hierarchy : ~(k <= Past')
    BY <1>1, <1>4 DEF Past
  <2>3. quiet' > 0 => quiet > 0
    BY <1>1, <1>5
  <2>4. quiet' >= RunsNeeded => quiet >= RunsNeeded
    BY <1>1, <1>5, <2>1
  <2> QED
    BY <1>3, <2>2, <2>3, <2>4 DEF Swept, Handled
<1>7. \A k : ~InHand(k)
  BY <1>1 DEF InHand, Working
<1> QED
  BY <1>1, <1>2, <1>6, <1>7, RetrySame

LEMMA FinishRetry ==
  ASSUME RetryInv, Finish
  PROVE  QuietInv' /\ MadeInv' /\ CleanInv' /\ FullInv'
<1>1. /\ fs' = fs /\ system' = system /\ pc = "item" /\ pc' = "idle" /\ calm' = calm
      /\ done = Len(Hierarchy)
      /\ quiet' = IF program = "installer" /\ ~dry /\ calm /\ quiet < 2 THEN quiet + 1 ELSE quiet
  BY DEF Finish
<1>2. quiet \in 0 .. 2 /\ RunsNeeded \in {1, 2} /\ RunsNeeded' = RunsNeeded
  <2>1. RunsNeeded \in {1, 2}
    BY DEF RunsNeeded
  <2> QED
    BY <1>1, <2>1, SameItems DEF RetryInv, RunInv, InstInv, Counters
<1>3. QuietInv'
  BY <1>1, <1>2 DEF QuietInv, RetryInv
<1>4. \A k \in DOMAIN Hierarchy : k <= Past
  <2>1. InstInv
    BY DEF RetryInv, RunInv
  <2> QED
    BY <1>1, <2>1, Numbers DEF InstInv, Past
<1>5. \A k \in DOMAIN Hierarchy : (Swept(k)' => Swept(k)) /\ (Handled(k)' => Handled(k))
  <2>1. ~Busy'
    BY <1>1 DEF Busy
  <2>2. CASE quiet' = quiet
    BY <1>2, <2>1, <2>2 DEF Swept, Handled
  <2>3. CASE quiet' # quiet
    <3>1. Busy /\ quiet' = quiet + 1
      BY <1>1, <2>3 DEF Busy
    <3> QED
      BY <1>2, <1>4, <2>1, <3>1 DEF Swept, Handled
  <2> QED
    BY <2>2, <2>3
<1>6. \A k : ~InHand(k)
  BY <1>1 DEF InHand, Working
<1> QED
  BY <1>1, <1>3, <1>5, <1>6, RetrySame

LEMMA StutterRetry ==
  ASSUME RetryInv, UNCHANGED vars
  PROVE  QuietInv' /\ MadeInv' /\ CleanInv' /\ FullInv'
<1>1. /\ fs' = fs /\ system' = system /\ pc' = pc /\ done' = done /\ calm' = calm /\ quiet' = quiet
      /\ program' = program /\ dry' = dry
  BY DEF vars
<1>2. RunsNeeded' = RunsNeeded
  BY <1>1, SameItems
<1>3. \A k : (Swept(k)' => Swept(k)) /\ (Handled(k)' => Handled(k))
  BY <1>1, <1>2 DEF Swept, Handled, Busy, Past
<1>4. \A k : InHand(k)' <=> InHand(k)
  <2>1. Hierarchy' = Hierarchy /\ \A it : Dst(it)' = Dst(it)
    BY <1>1, SameSystem
  <2>2. Item' = Item
    BY <1>1, <2>1 DEF Item
  <2> QED
    BY <1>1, <2>1, <2>2 DEF InHand
<1>5. QuietInv'
  BY <1>1 DEF QuietInv, RetryInv
<1> QED
  BY <1>1, <1>3, <1>4, <1>5, RetrySame

LEMMA RetryNext ==
  ASSUME RetryInv, [Next]_vars
  PROVE  RetryInv'
<1>1. RunInv' /\ CalmInv'
  BY RunNext, CalmNext DEF RetryInv, RunInv
<1>2. ASSUME QuietInv', MadeInv', CleanInv', FullInv'
      PROVE  RetryInv'
  BY <1>1, <1>2 DEF RetryInv
<1>3. ASSUME quiet' = 0, calm' = FALSE
      PROVE  RetryInv'
  <2>1. QuietInv' /\ ~Busy'
    BY <1>3 DEF QuietInv, Busy
  <2> QED
    BY <1>2, <1>3, <2>1, RetryNone
<1>4. CASE Step
  <2>1. CASE Fails
    BY <1>3, <2>1 DEF Fails
  <2>2. CASE ~Fails
    <3>1. calm' = calm /\ quiet' = quiet /\ Static
      BY <1>4, <2>2 DEF Step, Succeeds, Static
    <3>2. QuietInv'
      BY <3>1 DEF QuietInv, RetryInv
    <3>3. CASE calm /\ Busy
      BY <1>2, <1>4, <3>1, <3>2, <3>3, MadeStep, CleanStep, FullStep
    <3>4. CASE calm /\ ~Busy
      BY <1>2, <1>4, <3>1, <3>2, <3>4, IdleStep
    <3>5. CASE ~calm
      <4>1. quiet \in 0 .. 2 /\ ~(quiet > 0)
        BY <3>5 DEF RetryInv, RunInv, InstInv, Counters, QuietInv
      <4>2. quiet' = 0 /\ ~Busy'
        BY <3>1, <3>5, <4>1 DEF Busy
      <4> QED
        BY <1>2, <3>2, <4>2, RetryNone
    <3> QED
      BY <3>3, <3>4, <3>5
  <2> QED
    BY <2>1, <2>2
<1>5. ASSUME NEW p, NEW d, Start(p, d)
      PROVE  RetryInv'
  BY <1>2, <1>5, StartRetry
<1>6. CASE Finish
  BY <1>2, <1>6, FinishRetry
<1>7. CASE Kill \/ DoubleClose \/ Other
  BY <1>3, <1>7 DEF Kill, DoubleClose, Dies, Other
<1>8. CASE Ended \/ UNCHANGED vars
  BY <1>2, <1>8, StutterRetry DEF Ended
<1> QED
  BY <1>4, <1>5, <1>6, <1>7, <1>8 DEF Next

LEMMA RetryInit ==
  ASSUME Init, \A s \in Systems : InOrder(s)
  PROVE  RetryInv
<1>1. RunInv
  BY RunInit
<1>2. quiet = 0 /\ pc = "idle"
  BY DEF Init
<1>3. \A k : ~Swept(k) /\ ~Handled(k)
  BY <1>2 DEF Swept, Handled, Busy, RunsNeeded
<1> QED
  BY <1>1, <1>2, <1>3 DEF RetryInv, CalmInv, QuietInv, MadeInv, CleanInv, FullInv

-----------------------------------------------------------------------------
(* What two installations come to, and what instchk says of it.             *)

\* A directory that is settled is there, or cannot be made.
LEMMA SettledOr ==
  ASSUME NEW f, NEW d \in Seq(Names) \ {<<>>}, Settled(f, d)
  PROVE  IsDirIn(f, d) \/ \E q \in Prefixes(d) : Obstacle(f, q)
<1>1. PICK n \in 1 .. Len(d) + 1 : /\ \A m \in 1 .. n - 1 : IsDirIn(f, Upto(d, m))
                                   /\ n <= Len(d) => Obstacle(f, Upto(d, n))
  BY DEF Settled
<1>2. Len(d) \in Nat /\ Len(d) # 0 /\ n \in Nat
  BY <1>1, EmptySeq
<1>3. CASE n <= Len(d)
  <2>1. n \in 1 .. Len(d)
    BY <1>1, <1>3
  <2> QED
    BY <1>1, <1>3, <2>1 DEF Prefixes, Upto
<1>4. CASE n > Len(d)
  <2>1. Len(d) \in 1 .. n - 1
    BY <1>1, <1>2, <1>4
  <2>2. Upto(d, Len(d)) = d
    BY DEF Upto
  <2> QED
    BY <1>1, <2>1, <2>2
<1> QED
  BY <1>2, <1>3, <1>4

\* In a quiet state every directory whose owner is known is settled.
LEMMA QuietDirs ==
  ASSUME RetryInv, quiet > 0, NEW k \in ItemsOf({"INST_MKDIR"}), OwnerKnown(Hierarchy[k])
  PROVE  MadeRight(fs, Hierarchy[k]) /\ (IsDir(Dir(Hierarchy[k])) \/ Blocked(Dir(Hierarchy[k])))
<1> DEFINE d == Dir(Hierarchy[k])
<1>1. MadeRight(fs, Hierarchy[k])
  BY DEF RetryInv, MadeInv, Swept
<1>2. Settled(fs, d)
  BY <1>1 DEF MadeRight
<1>3. d \in Seq(Names) \ {<<>>}
  BY ItemFacts DEF ItemsOf, RetryInv, RunInv, InstInv, Counters
<1>4. IsDirIn(fs, d) \/ \E q \in Prefixes(d) : Obstacle(fs, q)
  BY <1>2, <1>3, SettledOr
<1>5. CASE IsDirIn(fs, d)
  BY <1>1, <1>5 DEF IsDirIn, IsDir, Exists
<1>6. CASE \E q \in Prefixes(d) : Obstacle(fs, q)
  <2>1. PICK q \in Prefixes(d) : Obstacle(fs, q)
    BY <1>6
  <2>2. q # <<>>
    BY <1>3, <2>1, PrefixFacts, PathFacts
  <2>3. Exists(q) /\ ~IsDir(q)
    BY <2>1, <2>2 DEF Obstacle, IsDir, Exists
  <2> QED
    BY <1>1, <2>1, <2>3 DEF Blocked
<1> QED
  BY <1>4, <1>5, <1>6

LEMMA RetryDone ==
  ASSUME RetryInv
  PROVE  RetryInstalls
<1>1. ASSUME quiet > 0, pc = "idle", NEW it \in CopyItems, Exists(Tmp(Dst(it)))
      PROVE  it.op \in Links /\ ~Exists(From(it))
  <2>1. PICK k \in DOMAIN Hierarchy : it = Hierarchy[k] /\ Hierarchy[k].op # "INST_MKDIR"
    BY DEF CopyItems, ItemsOf, Copies, Links
  <2>2. NoTmp(fs, it)
    BY <1>1, <2>1 DEF RetryInv, CleanInv, Swept, InHand, Working
  <2> QED
    BY <1>1, <2>2 DEF NoTmp, Exists
<1>2. ASSUME quiet >= RunsNeeded, NEW k \in DOMAIN Hierarchy
      PROVE  Installed(Hierarchy[k]) \/ Hindered(Hierarchy[k])
  <2> DEFINE it == Hierarchy[k]
  <2>0. InstInv /\ system \in Systems
    BY DEF RetryInv, RunInv, InstInv, Counters
  <2>1. quiet > 0
    BY <1>2, <2>0 DEF RunsNeeded, InstInv, Counters
  <2>2. it.op \in Copies \cup Links \cup {"INST_MKDIR"} /\ Dir(it) \in Seq(Names) \ {<<>>}
    BY <2>0, ItemFacts
  <2>3. CASE it.op = "INST_MKDIR"
    <3>1. CASE ~OwnerKnown(it)
      BY <2>3, <3>1 DEF Hindered
    <3>2. CASE OwnerKnown(it)
      <4>1. IsDir(Dir(it)) \/ Blocked(Dir(it))
        BY <2>1, <2>3, <3>2, QuietDirs DEF ItemsOf
      <4>2. IsDir(Dir(it)) => Installed(it)
        <5>1. Dst(it) = Dir(it)
          BY <2>0, <2>3, ItemFacts
        <5> QED
          BY <2>2, <2>3, <5>1 DEF Installed, IsDir, Exists, Copies, Links
      <4> QED
        BY <2>3, <4>1, <4>2 DEF Hindered
    <3> QED
      BY <3>1, <3>2
  <2>4. CASE it.op # "INST_MKDIR"
    <3>1. InstalledIn(it, fs) \/ Stopped(fs, it)
      BY <1>2, <2>4 DEF RetryInv, FullInv, Handled
    <3>2. InstalledIn(it, fs) => Installed(it)
      BY DEF InstalledIn, Installed, Exists
    <3>3. CASE ~IsDirIn(fs, Dir(it))
      <4>1. ~IsDir(Dir(it))
        BY <3>3 DEF IsDirIn, IsDir, Exists
      <4>2. CASE \E m \in ItemsOf({"INST_MKDIR"}) : Dir(Hierarchy[m]) = Dir(it) /\ OwnerKnown(Hierarchy[m])
        <5>1. Blocked(Dir(it))
          BY <2>1, <4>1, <4>2, QuietDirs
        <5> QED
          BY <2>4, <5>1 DEF Hindered
      <4>3. CASE ~\E m \in ItemsOf({"INST_MKDIR"}) : Dir(Hierarchy[m]) = Dir(it) /\ OwnerKnown(Hierarchy[m])
        BY <2>4, <4>1, <4>3 DEF Hindered, Unmade
      <4> QED
        BY <4>2, <4>3
    <3>4. CASE it \in CopyItems /\ IF Win32 THEN Dst(it) \in DOMAIN fs ELSE IsDirIn(fs, Dst(it))
      BY <2>4, <3>4 DEF Hindered, Occupied, IsDir, IsDirIn, Exists
    <3>5. CASE it.op \in Copies /\ ~MayOwn(it)
      BY <2>4, <3>5 DEF Hindered
    <3>6. CASE it.op \in Links /\ IF Win32 THEN ~CopyableIn(fs, From(it)) ELSE Dst(it) \in DOMAIN fs /\ ~Alone(it)
      BY <2>4, <3>6 DEF Hindered, Copyable, CopyableIn, Exists
    <3> QED
      BY <3>1, <3>2, <3>3, <3>4, <3>5, <3>6 DEF Stopped
  <2> QED
    BY <2>3, <2>4
<1> QED
  BY <1>1, <1>2 DEF RetryInstalls

LEMMA RetryKept ==
  ASSUME \A s \in Systems : InOrder(s)
  PROVE  Spec => []RetryInv
<1>1. Init => RetryInv
  BY RetryInit
<1>2. RetryInv /\ [Next]_vars => RetryInv'
  BY RetryNext
<1> QED
  BY <1>1, <1>2, PTL DEF Spec

\* However the runs before ended, an installation in which no system call fails
\* (two, for an ordinary user on POSIX) installs whatever nothing hinders, and
\* leaves no temporary file, if the table makes its directories first and, on
\* Win32, copies a file before it links to it.
THEOREM Retried ==
  ASSUME \A s \in Systems : InOrder(s)
  PROVE  Spec => []RetryInstalls
<1>1. RetryInv => RetryInstalls
  BY RetryDone
<1>2. Spec => []RetryInv
  BY RetryKept
<1> QED
  BY <1>1, <1>2, PTL

-----------------------------------------------------------------------------
(* What instchk counts: at most the items it does not approve.              *)

Bad(n) == {k \in 1 .. n : OwnerKnown(Hierarchy[k]) /\ ~Approved(Hierarchy[k])}
CheckInv == program = "instchk" /\ calm => failed <= Cardinality(Bad(done))

LEMMA BadFinite ==
  ASSUME NEW n \in Nat
  PROVE  IsFiniteSet(Bad(n)) /\ Cardinality(Bad(n)) \in Nat
<1>1. IsFiniteSet(1 .. n)
  BY FS_Interval
<1>2. Bad(n) \in SUBSET (1 .. n)
  BY DEF Bad
<1>3. IsFiniteSet(Bad(n))
  BY <1>1, <1>2, FS_Subset
<1> QED
  BY <1>3, FS_CardinalityType

LEMMA SameApproved ==
  ASSUME system' = system, fs' = fs
  PROVE  \A n : Bad(n)' = Bad(n)
<1>1. \A p : Exists(p)' <=> Exists(p)
  BY DEF Exists
<1>2. \A p : Followed(p)' = Followed(p)
  BY <1>1 DEF Followed
<1>3. SupportsSymlinks' = SupportsSymlinks
  BY SameSystem DEF SupportsSymlinks
<1>4. \A it, type : TypeApproved(it, type)' <=> TypeApproved(it, type)
  BY <1>3 DEF TypeApproved, Wanted
<1>5. \A it, e : OwnerApproved(it, e)' <=> OwnerApproved(it, e)
  BY SameSystem DEF OwnerApproved
<1>6. \A it : Approved(it)' <=> Approved(it)
  BY <1>1, <1>2, <1>4, <1>5, SameSystem DEF Approved, ModeSeen
<1> QED
  BY <1>6, SameSystem DEF Bad

LEMMA CheckCounts ==
  ASSUME Counters, PlaceInv, CheckInv, calm, CheckItem(FALSE), system' = system
  PROVE  failed' <= Cardinality(Bad(done'))
<1>1. /\ program = "instchk" /\ done < Len(Hierarchy) /\ done' = done + 1 /\ Item = Hierarchy[done + 1]
      /\ failed' = IF OwnerKnown(Item) /\ ~Approved(Item) THEN failed + 1 ELSE failed
  BY Numbers DEF CheckItem, Item
<1>2. done \in Nat /\ failed \in Nat /\ done + 1 \in Nat
  BY Numbers
<1>3. failed <= Cardinality(Bad(done))
  BY <1>1 DEF CheckInv
<1>4. IsFiniteSet(Bad(done)) /\ Cardinality(Bad(done)) \in Nat
  BY <1>2, BadFinite
<1>5. CASE OwnerKnown(Item) /\ ~Approved(Item)
  <2>1. Bad(done + 1) = Bad(done) \cup {done + 1}
    <3>1. 1 .. done + 1 = (1 .. done) \cup {done + 1}
      BY <1>2
    <3> QED
      BY <1>1, <1>5, <3>1 DEF Bad
  <2>2. done + 1 \notin Bad(done)
    BY <1>2 DEF Bad
  <2>3. Cardinality(Bad(done + 1)) = Cardinality(Bad(done)) + 1
    BY <1>4, <2>1, <2>2, FS_AddElement
  <2> QED
    BY <1>1, <1>2, <1>3, <1>4, <1>5, <2>3
<1>6. CASE ~(OwnerKnown(Item) /\ ~Approved(Item))
  <2>1. Bad(done + 1) = Bad(done)
    <3>1. 1 .. done + 1 = (1 .. done) \cup {done + 1}
      BY <1>2
    <3> QED
      BY <1>1, <1>6, <3>1 DEF Bad
  <2> QED
    BY <1>1, <1>3, <1>6, <2>1
<1> QED
  BY <1>5, <1>6

LEMMA CheckNext ==
  ASSUME InstInv, CheckInv, [Next]_vars
  PROVE  CheckInv'
<1> SUFFICES ASSUME program' = "instchk", calm'
             PROVE  failed' <= Cardinality(Bad(done)')
  BY DEF CheckInv
<1>1. CASE Step
  <2>1. /\ Succeeds /\ Static /\ program = "instchk" /\ calm /\ (BeginItem \/ Call(FALSE))
    BY <1>1 DEF Step, Succeeds, Fails, Static
  <2>2. pc \in {"idle", "item"}
    BY <2>1 DEF InstInv, PlaceInv
  <2>3. CheckItem(FALSE)
    <3>1. ~(MakeDir(FALSE) \/ MkdirOwn(FALSE) \/ OpenSource(FALSE) \/ OpenTmp(FALSE) \/ Fill(FALSE))
      BY <2>2 DEF MakeDir, MkdirOwn, OpenSource, OpenTmp, Fill
    <3>2. ~(Chmod(FALSE) \/ Chown(FALSE) \/ Rename(FALSE) \/ MakeLink(FALSE) \/ CopyLink(FALSE))
      BY <2>2 DEF Chmod, Chown, Rename, MakeLink, CopyLink
    <3>3. ~(LeaveDir(FALSE) \/ BeginItem \/ EnterDir(FALSE) \/ Deinstall(FALSE))
      BY <2>1, <2>2 DEF LeaveDir, BeginItem, EnterDir, Deinstall
    <3> QED
      BY <2>1, <3>1, <3>2, <3>3 DEF Call
  <2>4. fs' = fs /\ system' = system
    BY <2>1, <2>3 DEF CheckItem, Nothing, Static
  <2>5. failed' <= Cardinality(Bad(done'))
    BY <2>1, <2>3, <2>4, CheckCounts DEF InstInv
  <2>6. Bad(done)' = Bad(done')
    <3>1. \A n : Bad(n)' = Bad(n)
      BY <2>4, SameApproved
    <3> QED
      BY <3>1 DEF Bad
  <2> QED
    BY <2>5, <2>6
<1>2. ASSUME NEW p, NEW d, Start(p, d)
      PROVE  failed' <= Cardinality(Bad(done)')
  <2>1. failed' = 0 /\ done' = 0
    BY <1>2 DEF Start
  <2>2. Bad(done)' = {}
    BY <2>1 DEF Bad
  <2> QED
    BY <2>1, <2>2, FS_EmptySet
<1>3. CASE Finish \/ Ended \/ UNCHANGED vars
  <2>1. UNCHANGED <<system, fs, program, done, failed, calm>>
    BY <1>3 DEF Finish, Ended, vars
  <2>2. Bad(done)' = Bad(done)
    BY <2>1, SameApproved
  <2> QED
    BY <2>1, <2>2 DEF CheckInv
<1>4. ~(Kill \/ DoubleClose \/ Other)
  BY DEF Kill, DoubleClose, Dies, Other
<1> QED
  BY <1>1, <1>2, <1>3, <1>4 DEF Next

\* What instchk says of an item that is installed as it can check it.
LEMMA CopyApproved ==
  ASSUME RetryInv, NEW k \in ItemsOf(Copies), Installed(Hierarchy[k])
  PROVE  LET it == Hierarchy[k]
             e == fs[Dst(it)]
         IN /\ Exists(Dst(it)) /\ e.type = "file" /\ e.data = "new" /\ e.owner = UidOf(it)
            /\ SupportsModes => e.mode = it.perm
            /\ Grouped(it) => e.group = GidOf(it)
<1> DEFINE it == Hierarchy[k]
           e == fs[Dst(it)]
<1>1. k \in DOMAIN Hierarchy /\ it.op \in Copies /\ it.op \notin Links
  BY DEF ItemsOf, Copies, Links
<1>2. Exists(Dst(it)) /\ e.type = "file" /\ e.data = "new"
  BY <1>1 DEF Installed
<1>3. e.owner = UidOf(it) /\ (SupportsModes => e.mode = it.perm)
  BY <1>2 DEF RetryInv, RunInv, InstInv, FsInv, NewRight, Right, Exists
<1>4. e.group = Given(it)
  BY <1>2 DEF RetryInv, RunInv, World, EntryRight, DstRight, Exists
<1> QED
  BY <1>2, <1>3, <1>4 DEF Given, Grouped

LEMMA WellApproved ==
  ASSUME RetryInv, quiet > 0, NEW k \in DOMAIN Hierarchy,
         Installed(Hierarchy[k]), Checkable(Hierarchy[k])
  PROVE  Approved(Hierarchy[k])
<1> DEFINE it == Hierarchy[k]
           p == Dst(it)
<1>1. system \in Systems /\ InstInv /\ World(fs)
  BY DEF RetryInv, RunInv, InstInv, Counters
<1>2. MayOwn(it) /\ Grouped(it) /\ (SupportsModes => "g" \notin it.perm)
  BY DEF Checkable
<1>3. it.op \in Copies \cup Links \cup {"INST_MKDIR"}
  BY <1>1, ItemFacts
<1>4. ASSUME NEW q, q = Followed(p), Exists(p), Exists(q),
             it.op \notin Links => p = q /\ fs[p].type = Wanted(it),
             it.op \in Links => ~Win32,
             it.op \in Copies => fs[q].data = "new",
             SupportsModes => fs[q].mode = it.perm,
             fs[q].owner = UidOf(it), fs[q].group = GidOf(it)
      PROVE  Approved(it)
  <2>1. SupportsModes => ModeSeen(fs[q]) = it.perm
    BY <1>2, <1>4 DEF ModeSeen
  <2>2. TypeApproved(it, fs[IF it.op \in Links THEN p ELSE q].type)
    BY <1>4 DEF TypeApproved, SupportsSymlinks
  <2> QED
    BY <1>4, <2>1, <2>2 DEF Approved, OwnerApproved
<1>5. CASE it.op \in Copies
  <2>1. k \in ItemsOf(Copies) /\ it.op \notin Links
    BY <1>5 DEF ItemsOf, Copies, Links
  <2>2. /\ Exists(p) /\ fs[p].type = "file" /\ fs[p].data = "new" /\ fs[p].owner = UidOf(it)
        /\ SupportsModes => fs[p].mode = it.perm
        /\ fs[p].group = GidOf(it)
    BY <1>2, <2>1, CopyApproved
  <2>3. p = Followed(p) /\ fs[p].type = Wanted(it)
    BY <1>5, <2>1, <2>2 DEF Followed, Wanted
  <2> QED
    BY <1>4, <2>1, <2>2, <2>3
<1>6. CASE it.op \in Links
  <2>1. ~Win32 /\ it.op \notin Copies /\ it.op # "INST_MKDIR"
    BY <1>6 DEF Checkable, Links, Copies
  <2>2. PICK j \in ItemsOf(Copies) : LET other == Hierarchy[j] IN
          /\ Dst(other) = From(it) /\ Installed(other)
          /\ other.owner = it.owner /\ other.group = it.group /\ other.perm = it.perm
    BY <1>6 DEF Checkable, Backed
  <2>3. Exists(p) /\ fs[p].type = "symlink" /\ fs[p].data = it.src
    BY <1>6, <2>1 DEF Installed
  <2>4. From(it) = Followed(p)
    <3>1. Parent(p) = Dir(it)
      BY <1>1, <2>1, ItemFacts
    <3> QED
      BY <2>3, <3>1 DEF Followed, From
  <2>5. UidOf(Hierarchy[j]) = UidOf(it) /\ GidOf(Hierarchy[j]) = GidOf(it)
        /\ (Grouped(it) => Grouped(Hierarchy[j]))
    BY <2>2 DEF UidOf, GidOf, Grouped
  <2>6. LET q == From(it)
        IN /\ Exists(q) /\ fs[q].owner = UidOf(it) /\ (SupportsModes => fs[q].mode = it.perm)
           /\ fs[q].group = GidOf(it)
    BY <1>2, <2>2, <2>5, CopyApproved
  <2> QED
    BY <1>4, <1>6, <2>1, <2>3, <2>4, <2>6
<1>7. CASE it.op = "INST_MKDIR"
  <2>1. k \in ItemsOf({"INST_MKDIR"}) /\ it.op \notin Copies /\ it.op \notin Links
    BY <1>7 DEF ItemsOf, Copies, Links
  <2>2. p = Dir(it)
    BY <1>1, <1>7, ItemFacts
  <2>3. Exists(p) /\ fs[p].type = "directory"
    BY <2>1 DEF Installed
  <2>4. Sole(it) /\ (SupportsModes => Plain(it))
    BY <1>7 DEF Checkable, Plain
  <2>5. SupportsModes => fs[p].mode = it.perm
    BY <1>1, <2>1, <2>2, <2>3, <2>4 DEF World, EntryRight, DirRight, Exists
  <2>6. MadeRight(fs, it)
    BY <2>1 DEF RetryInv, MadeInv, Swept
  <2>7. fs[p].owner = UidOf(it) /\ fs[p].group = Given(it)
    BY <1>2, <2>2, <2>3, <2>4, <2>6 DEF MadeRight, MayOwn, IsDirIn, Exists
  <2>8. fs[p].group = GidOf(it)
    BY <1>2, <2>7 DEF Given, Grouped
  <2>9. p = Followed(p) /\ fs[p].type = Wanted(it)
    BY <1>7, <2>1, <2>3 DEF Followed, Wanted
  <2> QED
    BY <1>4, <2>1, <2>3, <2>5, <2>7, <2>8, <2>9
<1> QED
  BY <1>3, <1>5, <1>6, <1>7

\* After such an installation instchk complains of nothing that is installed and
\* that it can check: of the links backed by a copy the installation has made, of
\* the files, and of the directories that the table alone makes.
THEOREM ApprovedAfter ==
  ASSUME \A s \in Systems : InOrder(s)
  PROVE  Spec => []RetryApproved
<1>1. Init => CheckInv
  BY DEF Init, CheckInv
<1>2. InstInv /\ CheckInv /\ [Next]_vars => CheckInv'
  BY CheckNext
<1>3. RetryInv /\ CheckInv => RetryApproved
  <2> SUFFICES ASSUME RetryInv, CheckInv, quiet > 0, program = "instchk", calm
               PROVE  failed <= Cardinality(Exempt)
    BY DEF RetryApproved
  <2>1. InstInv /\ Len(Hierarchy) \in Nat /\ DOMAIN Hierarchy = 1 .. Len(Hierarchy) /\ done \in Nat
        /\ done <= Len(Hierarchy) /\ failed \in Nat
    BY Numbers DEF RetryInv, RunInv, InstInv
  <2>2. IsFiniteSet(Exempt) /\ Cardinality(Exempt) \in Nat
    <3>1. IsFiniteSet(1 .. Len(Hierarchy))
      BY <2>1, FS_Interval
    <3>2. Exempt \in SUBSET (1 .. Len(Hierarchy))
      BY <2>1 DEF Exempt
    <3>3. IsFiniteSet(Exempt)
      BY <3>1, <3>2, FS_Subset
    <3> QED
      BY <3>3, FS_CardinalityType
  <2>3. Bad(done) \in SUBSET Exempt
    <3> SUFFICES ASSUME NEW k \in Bad(done)
                 PROVE  k \in Exempt
      OBVIOUS
    <3>1. k \in DOMAIN Hierarchy /\ ~Approved(Hierarchy[k])
      BY <2>1 DEF Bad
    <3>2. ~(Installed(Hierarchy[k]) /\ Checkable(Hierarchy[k]))
      BY <3>1, WellApproved
    <3> QED
      BY <3>1, <3>2 DEF Exempt
  <2>4. Cardinality(Bad(done)) <= Cardinality(Exempt)
    BY <2>2, <2>3, FS_Subset
  <2>5. failed <= Cardinality(Bad(done)) /\ Cardinality(Bad(done)) \in Nat
    BY <2>1, BadFinite DEF CheckInv
  <2> QED
    BY <2>1, <2>2, <2>4, <2>5
<1>4. Spec => []RetryInv
  BY RetryKept
<1> QED
  BY <1>1, <1>2, <1>3, <1>4, Invariance, PTL DEF Spec

=============================================================================
