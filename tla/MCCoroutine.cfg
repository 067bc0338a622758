CONSTANTS
  Nil = Nil
  d1 = d1
  d2 = d2
  Datum = {d1, d2}
  Function = Function
  Traceback = Traceback
  Message = Message
  MaxStack = 4
  MaxValues = 2

SPECIFICATION Spec

SYMMETRY Data

CHECK_DEADLOCK FALSE

INVARIANTS
  TypeOK

PROPERTIES
  FaithfulUntilYield
  ArgumentsOverRest
