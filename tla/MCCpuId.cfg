SPECIFICATION Spec
CONSTANTS
  Hardware <- MCHardware
  Builds <- MCBuilds
  Queries <- MCQueries
INVARIANTS
  TypeOK
  AnswersRight
