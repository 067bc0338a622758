CONSTANTS
  NoProcess = NoProcess
  NoInode = NoInode
  Process = {p1, p2, p3}
  Inode = {i1, i2}
  KillPoint = {"open", "acquire", "fork", "release", "close"}
  Systems = {"posix", "win32"}
  MaxCleans <- CleanOnWin32
  WaitMayFail = FALSE

SPECIFICATION Spec

SYMMETRY Symmetric

PROPERTIES
  ImplementsMutex
