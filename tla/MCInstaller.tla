---------------------------- MODULE MCInstaller ----------------------------
(* Small systems for Installer.  The tables are shaped like insthier.c (a    *)
(* directory, a file written read-only, a program), or have the operations   *)
(* of install.h that insthier.c does not use.                                *)
EXTENDS Installer

Row(op, src, dst, dir, owner, perm) ==
  [op |-> op, src |-> src, dst |-> dst, dir |-> dir, owner |-> owner, group |-> owner,
   perm |-> perm]
P444 == {"o"}
P644 == {"w", "o"}
P755 == {"w", "x", "o"}
Bin == <<"usr", "bin">>
Inc == <<"usr", "inc", "pkg">>
Lib == <<"usr", "lib">>

MkdirBin == Row("INST_MKDIR", None, None, Bin, None, P755)
CopyConf == Row("INST_COPY_EXEC", "conf", None, Bin, None, P755)
UserTable == <<MkdirBin,
               Row("INST_MKDIR", None, None, Inc, None, P755),
               Row("INST_COPY", "ali", None, Inc, None, P444),
               CopyConf>>
RootTable == <<Row("INST_MKDIR", None, None, Lib, "svc", P755),
               Row("INST_LIBLINK", "a", "lib", Lib, "svc", P644),
               Row("INST_SYMLINK", "a", "link", Lib, "svc", P644),
               Row("INST_COPY", "a", None, Lib, "svc", P644)>>
WinTable == <<MkdirBin,
              Row("INST_COPY", "a", None, Bin, None, P444),
              CopyConf,
              Row("INST_SYMLINK", "a", "link", Bin, None, P644),
              Row("INST_LIBLINK", "a", "lib", Bin, None, P644)>>

Usr == <<"usr">>
Root == <<"root">>
Old(owner) == Entry("file", "old", P755, owner, owner)
InConf == <<Append(Bin, "conf"), Entry("directory", "dir", P755, "root", "root")>>
Sizes == [new |-> 2, old |-> 2, part |-> 1, dir |-> 3]

\* An ordinary user who shares the directories with others.
User == [win32 |-> FALSE, table |-> UserTable, root |-> <<>>, base |-> {Usr},
         me |-> "me", group |-> "users", users |-> [svc |-> "svc"], groups |-> [svc |-> "svc"],
         umask |-> {"g"}, suffixed |-> [lib |-> "lib.so"],
         others |-> {<<Append(Bin, "ls"), Old("root")>>, InConf}]
\* The same with umask 077, and a file of another group.
Private == [User EXCEPT !.umask = {"g", "o"},
                        !.table = <<MkdirBin, [CopyConf EXCEPT !.group = "svc"]>>, !.others = {}]
\* The superuser, with links and owners, below a fake root.
Superusers == [User EXCEPT !.table = RootTable, !.root = Root, !.base = {Root},
                           !.me = "root", !.group = "root", !.others = {}]
\* A user who is to install what belongs to others, one of them unknown.
Restricted == [User EXCEPT !.others = {},
  !.table = <<MkdirBin, Row("INST_MKDIR", None, None, Lib, "svc", P755),
              Row("INST_COPY", "a", None, Bin, "svc", P644),
              Row("INST_COPY", "b", None, Bin, "ghost", P644), CopyConf>>]
\* Win32, for a user and for the Administrator.
Windows == [User EXCEPT !.win32 = TRUE, !.table = WinTable,
                        !.users = [Administrator |-> "root"],
                        !.suffixed = [lib |-> "lib.dll", conf |-> "conf.exe"],
                        !.others = {<<Append(Bin, "ls"), Old("me")>>}]
\* Links alone: what they are made of comes from another package.
WinLinks == [Windows EXCEPT !.me = "root", !.group = "root",
                !.table = <<MkdirBin, WinTable[4]>>,
                !.others = {<<Append(Bin, "a"), Old("me")>>,
                            <<Append(Bin, "link"), Entry("directory", "dir", P755, "root", "root")>>}]
\* Others' files in the place of a directory and of links, which are not all of
\* their own paths, and a directory whose owner is not known.
LinkBin(name) == Row("INST_SYMLINK", "conf", name, Bin, None, P644)
Obstructed == [User EXCEPT
  !.table = <<Row("INST_MKDIR", None, None, Lib, "ghost", P755), MkdirBin, CopyConf,
              LinkBin("l"), LinkBin("m"), Row("INST_COPY", "a", None, Lib, None, P644)>>,
  !.others = {<<Bin, Old("root")>>, <<Append(Bin, "l"), Old("root")>>}]
\* A system whose Administrator has another name.
Renamed == [Windows EXCEPT !.users = [Chief |-> "root"]]

MCSystems == {User, Private, Superusers, Restricted, Windows, WinLinks, Obstructed, Renamed}
ASSUME OrderAssumption == \A s \in MCSystems : InOrder(s)
OneUser == {[User EXCEPT !.others = {}]}
=============================================================================
