CONSTANTS
  NoProcess = NoProcess
  NoInode = NoInode
  Process = {p1, p2, p3}
  Inode = {i1, i2}
  KillPoint = {"open", "acquire", "fork", "wait", "release", "close"}
  Systems = {"posix", "win32"}
  MaxCleans <- CleanAnywhere
  WaitMayFail = TRUE

SPECIFICATION FairSpec

INVARIANTS
  TypeOK
  CommandsExclusive
  HoldersExclusive
  NoLockLeak
  SuccessMeansRan

PROPERTIES
  EveryLockerEnds
