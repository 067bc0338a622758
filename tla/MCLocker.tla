------------------------------ MODULE MCLocker ------------------------------
EXTENDS Locker, TLC

Symmetric == Permutations(Process) \cup Permutations(Inode)

CleanAnywhere == [posix |-> 1, win32 |-> 1]
CleanOnWin32  == [posix |-> 0, win32 |-> 1]
=============================================================================
