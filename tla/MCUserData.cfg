CONSTANTS
  Nil = Nil
  Plain = Plain
  NoName = NoName
  NoClass = NoClass
  Registry = Registry
  Globals = Globals
  Index = Index
  Metatable = Metatable
  c1 = c1
  c2 = c2
  new = new
  gc = gc
  f1 = f1
  f2 = f2
  g1 = g1
  g2 = g2
  Table = {Registry, Globals, t1, t2, t3}
  Userdata = {u1}
  Name = {c1, c2, new, gc, Index, Metatable}
  Func = {f1, f2, g1, g2}
  UpValue = {}
  ScriptKey = {c2}
  MaxWrites = 1
  Class = {c1, c2}
  Method_Table <- MCMethod_Table
  Meta_Table <- MCMeta_Table
  MaxStack = 2

SPECIFICATION Spec

SYMMETRY FreshTables

INVARIANTS TypeOK MetatableHidden MetatableSealed MetamethodsIntact HalfBuiltOnlyByError
  MethodsReachable
  UserdataTyped
PROPERTIES MetatableFrozen HalfBuiltForever RegisterLeaves
