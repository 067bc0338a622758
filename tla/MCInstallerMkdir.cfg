SPECIFICATION Spec
CONSTANTS
  Systems <- OneUser
  SizeOf <- Sizes
  MaxRuns = 1
  MaxFaults = 1
INVARIANTS
  CreatedMeansThere
