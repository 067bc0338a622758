CONSTANTS
  Nil = Nil
  Plain = Plain
  NoName = NoName
  Registry = Registry
  Globals = Globals
  Index = Index
  Metatable = Metatable
  l1 = l1
  l2 = l2
  open = open
  close = close
  f1 = f1
  f2 = f2
  f3 = f3
  Table = {Registry, Globals, t1, t2}
  Userdata = {}
  Name = {l1, l2, open, close, Index, Metatable}
  Func = {f1, f2, f3}
  UpValue = {a, b}
  ScriptKey = {l1}
  MaxWrites = 1
  Library = {l1, l2}
  Functions <- MCFunctions
  MaxCalls = 2
  MaxStack = 2

SPECIFICATION Spec

SYMMETRY Symmetric

INVARIANTS
  TypeOK
  BackLinkSound

PROPERTIES
  StackBalanced
  UpValuesShared
  GlobalIsLibrary
