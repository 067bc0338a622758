SPECIFICATION FairSpec
CONSTANTS
  m1 = m1
  m2 = m2
  m3 = m3
  Module = {m1, m2, m3}
  NoModule = NoModule
  Worlds <- MCWorlds
INVARIANTS
  TypeOK
  OnlyWholeFilesUsed
  SucceededMeansDelivered
  FatalOnlyByMkdir
PROPERTIES
  EveryRunEnds
