SPECIFICATION Spec
CONSTANTS
  Systems <- MCSystems
  SizeOf <- Sizes
  MaxRuns = 4
  MaxFaults = 2
INVARIANTS
  TypeOK
  DestinationWhole
  ErrorFreeInstalls
  RetryInstalls
  RetryApproved
  DeinstallUndoes
PROPERTIES
  NeverMissing
  OthersKept
