------------------------------- MODULE LuaLib -------------------------------
(***************************************************************************)
(* lua-lib.adb: New_Metatable and Open_Library, one step for each stretch  *)
(* of the code between two points where something else may happen.  Two    *)
(* things may happen inside these subprograms although they run on one     *)
(* thread.  A non-raw access (Get_Table, Set_Table) to a table that a      *)
(* script has given a metatable calls a metamethod, hence script code,     *)
(* whose result replaces the value read, and which gets the value to be    *)
(* stored instead of the table.  And every call that allocates or indexes  *)
(* may raise a Lua error, which leaves the Ada code without unwinding it   *)
(* and abandons the stack of the C function.                               *)
(***************************************************************************)
EXTENDS LuaHeap

CONSTANT NoName    \* the empty Name of Open_Library

ASSUME NoNameAssumption == NoName \notin Name

VARIABLES
  pc,      \* where the running subprogram is, "idle" when none runs
  frame    \* its parameters: name, functions still to register, num_up, ...

libVars == <<stack, heap, alloc, udMeta, known, tampered, writes, pc, frame>>

\* A Register_t of a Register_Array_t.
Register_t == [name : Name, func : Func]

\* The positions of an array that no later function of the same name follows.
LastOfName(fns) ==
  {i \in DOMAIN fns : \A j \in DOMAIN fns : fns[j].name = fns[i].name => j <= i}

(* fns: the functions not yet registered;  all: the whole array;
   ret: where to go when the subprogram returns;
   meta: is a metamethod running, called by the access that comes next?
   below, ups: the caller's values under its arguments, and the upvalues it
   passed, as they were at the call (history).                              *)
Frame == [name : Name \cup {NoName}, fns : Seq(Register_t), all : Seq(Register_t),
          nup : Nat, ret : {"idle", "opened", "created", "filled"}, meta : BOOLEAN,
          below : Seq(Value), ups : Seq(Value)]

NoFrame == [name |-> NoName, fns |-> << >>, all |-> << >>, nup |-> 0,
            ret |-> "idle", meta |-> FALSE, below |-> << >>, ups |-> << >>]

-----------------------------------------------------------------------------
(* Open_Library.                                                            *)

\* The bottom of the stack that does not belong to a call with n arguments.
Below(s, n) == SubSeq(s, 1, Len(s) - n)
Top(s, n)   == SubSeq(s, Len(s) - n + 1, Len(s))

\* Mutation: the loop starts at Functions'First + 1.
LibFrame_SkipFirst(name, functions, n, ret) ==
  [name |-> name, fns |-> Tail(functions), all |-> functions, nup |-> n, ret |-> ret, meta |-> FALSE,
   below |-> Below(stack, IF name = NoName THEN n + 1 ELSE n), ups |-> Top(stack, n)]

LibFrame(name, functions, n, ret) ==
  [name |-> name, fns |-> functions, all |-> functions, nup |-> n, ret |-> ret, meta |-> FALSE,
   below |-> Below(stack, IF name = NoName THEN n + 1 ELSE n), ups |-> Top(stack, n)]

\* The call.  An empty name leaves out the look-up of the global.
OpenLibrary(name, functions, n, ret) ==
  /\ frame' = LibFrame(name, functions, n, ret)
  /\ pc' = IF name = NoName THEN "function" ELSE "get"

\* The object the next function goes into, as the loop finds it.
LibTarget == At(stack, -(frame.nup + 1))

\* Get_Table calls __index, or Set_Table calls __newindex with the new value:
\* the library's table, or a closure, which is Plain to a script.
LibCall ==
  /\ ~frame.meta
  /\ \/ pc \in {"get", "set"} /\ MayCall(Globals, frame.name)
     \/ pc = "function" /\ frame.fns # << >> /\ MayCall(LibTarget, Head(frame.fns).name)
  /\ frame' = [frame EXCEPT !.meta = TRUE]
  /\ known' = IF pc = "set" THEN known \cup {At(stack, -1)} ELSE known
  /\ UNCHANGED <<stack, heap, alloc, udMeta, tampered, writes, pc>>

\* Push_String (Name); Get_Table (Globals); if nil: Pop, New_Table,
\* Push_String (Name), Push_Value (-2).  A metamethod may return anything.
LibGet ==
  /\ pc = "get"
  /\ \E v \in IF frame.meta THEN ScriptValue ELSE {heap[Globals][frame.name]} :
       IF v = Nil
       THEN \E t \in Table \ alloc :
              /\ alloc' = alloc \cup {t}
              /\ stack' = Push_Value(Push(Push(stack, t), frame.name), -2)
              /\ pc' = "set"
       ELSE /\ stack' = Insert(Push(stack, v), -(frame.nup + 1))
            /\ pc' = "function"
            /\ UNCHANGED alloc
  /\ frame' = [frame EXCEPT !.meta = FALSE]
  /\ UNCHANGED <<heap, udMeta, known, tampered, writes>>

\* Set_Table of v under k in t, which raises an error if t is no table and has
\* no metamethod.  A metamethod that has been called gets v instead of t.  What
\* it stores somewhere is stored in a ScriptTurn.
SetTable(t, k, v) ==
  IF frame.meta THEN UNCHANGED heap ELSE t \in Table /\ heap' = Stored(heap, t, k, v)

\* Mutation: Set_Table (Registry_Index).
LibSet_Registry ==
  /\ pc = "set"
  /\ SetTable(Registry, At(stack, -2), At(stack, -1))
  /\ stack' = Insert(Pop(stack, 2), -(frame.nup + 1))
  /\ pc' = "function"
  /\ frame' = [frame EXCEPT !.meta = FALSE]
  /\ UNCHANGED <<alloc, udMeta, known, tampered, writes>>

\* Set_Table (Globals); Insert (-(num_up + 1)).
LibSet ==
  /\ pc = "set"
  /\ SetTable(Globals, At(stack, -2), At(stack, -1))
  /\ stack' = Insert(Pop(stack, 2), -(frame.nup + 1))
  /\ pc' = "function"
  /\ frame' = [frame EXCEPT !.meta = FALSE]
  /\ UNCHANGED <<alloc, udMeta, known, tampered, writes>>

\* Mutation: the index follows the growing stack.
PushCopies_Drift(s, i, n) ==
  LET copied[j \in 0..n] == IF j = 0 THEN s ELSE Push_Value(copied[j - 1], i - (j - 1))
  IN  copied[n]

\* Push_Value (i), n times.
PushCopies(s, i, n) ==
  LET copied[j \in 0..n] == IF j = 0 THEN s ELSE Push_Value(copied[j - 1], i)
  IN  copied[n]

\* Mutation: Push_Value (-(num_up + 2)).
LibFunction_OffByOne ==
  /\ pc = "function"
  /\ frame.fns # << >>
  /\ LET f      == Head(frame.fns)
         n      == frame.nup
         copies == PushCopies(Push(stack, f.name), -(n + 2), n)
         s      == Push(Pop(copies, n), [fn |-> f.func, up |-> Top(copies, n)])
         target == At(s, -(n + 3))
     IN  /\ SetTable(target, At(s, -2), At(s, -1))
         /\ stack' = Pop(s, 2)
  /\ frame' = [frame EXCEPT !.fns = Tail(@), !.meta = FALSE]
  /\ UNCHANGED <<alloc, udMeta, known, tampered, writes, pc>>

\* One turn of the loop: Push_String, num_up times Push_Value (-(num_up + 1)),
\* Push_User_Closure, Set_Table (-(num_up + 3)).
LibFunction ==
  /\ pc = "function"
  /\ frame.fns # << >>
  /\ LET f      == Head(frame.fns)
         n      == frame.nup
         copies == PushCopies(Push(stack, f.name), -(n + 1), n)
         s      == Push(Pop(copies, n), [fn |-> f.func, up |-> Top(copies, n)])
         target == At(s, -(n + 3))
     IN  /\ SetTable(target, At(s, -2), At(s, -1))
         /\ stack' = Pop(s, 2)
  /\ frame' = [frame EXCEPT !.fns = Tail(@), !.meta = FALSE]
  /\ UNCHANGED <<alloc, udMeta, known, tampered, writes, pc>>

\* Mutation: no Pop.
LibReturn_NoPop ==
  /\ pc = "function"
  /\ frame.fns = << >>
  /\ pc' = frame.ret
  /\ frame' = NoFrame
  /\ UNCHANGED <<stack, heap, alloc, udMeta, known, tampered, writes>>

\* The loop is over: Pop (num_up) and return.
LibReturn ==
  /\ pc = "function"
  /\ frame.fns = << >>
  /\ stack' = Pop(stack, frame.nup)
  /\ pc' = frame.ret
  /\ frame' = NoFrame
  /\ UNCHANGED <<heap, alloc, udMeta, known, tampered, writes>>

-----------------------------------------------------------------------------
(* New_Metatable.                                                           *)

NewMetatable(name, ret) ==
  /\ frame' = [NoFrame EXCEPT !.name = name, !.ret = ret, !.below = stack]
  /\ pc' = "metatable"

\* Mutation: return True for a name that is taken.
NmtFound_True ==
  /\ pc = "metatable"
  /\ heap[Registry][frame.name] # Nil
  /\ stack' = Push(stack, heap[Registry][frame.name])
  /\ pc' = frame.ret
  /\ frame' = NoFrame
  /\ UNCHANGED <<heap, alloc, udMeta, known, tampered, writes>>

\* Something is registered under the name: leave it on the stack, return False.
NmtFound ==
  /\ pc = "metatable"
  /\ heap[Registry][frame.name] # Nil
  /\ stack' = Push(stack, heap[Registry][frame.name])
  /\ pc' = "idle"
  /\ frame' = NoFrame
  /\ UNCHANGED <<heap, alloc, udMeta, known, tampered, writes>>

\* Mutation: the name is not looked up.
NmtCreate_Always ==
  /\ pc = "metatable"
  /\ \E t \in Table \ alloc :
       LET s == Push_Value(Push(Push(stack, t), frame.name), -2)
       IN  /\ alloc' = alloc \cup {t}
           /\ heap' = Stored(heap, Registry, At(s, -2), At(s, -1))
           /\ stack' = Pop(s, 2)
  /\ pc' = "link"
  /\ UNCHANGED <<udMeta, known, tampered, writes, frame>>

\* Mutation: the name is registered under the table first.
NmtCreate_LinkFirst ==
  /\ pc = "metatable"
  /\ heap[Registry][frame.name] = Nil
  /\ \E t \in Table \ alloc :
       LET s == Push(Push_Value(Push(stack, t), -1), frame.name)
       IN  /\ alloc' = alloc \cup {t}
           /\ heap' = Stored(heap, Registry, At(s, -2), At(s, -1))
           /\ stack' = Pop(s, 2)
  /\ pc' = "link"
  /\ UNCHANGED <<udMeta, known, tampered, writes, frame>>

\* Nothing is: a new table, registered under the name ...
NmtCreate ==
  /\ pc = "metatable"
  /\ heap[Registry][frame.name] = Nil
  /\ \E t \in Table \ alloc :
       LET s == Push_Value(Push(Push(stack, t), frame.name), -2)
       IN  /\ alloc' = alloc \cup {t}
           /\ heap' = Stored(heap, Registry, At(s, -2), At(s, -1))
           /\ stack' = Pop(s, 2)
  /\ pc' = "link"
  /\ UNCHANGED <<udMeta, known, tampered, writes, frame>>

\* Mutation: return False.
NmtLink_False ==
  /\ pc = "link"
  /\ LET s == Push(Push_Value(stack, -1), frame.name)
     IN  /\ heap' = Stored(heap, Registry, At(s, -2), At(s, -1))
         /\ stack' = Pop(s, 2)
  /\ pc' = "idle"
  /\ frame' = NoFrame
  /\ UNCHANGED <<alloc, udMeta, known, tampered, writes>>

\* ... then the name registered under the table, and return True.
NmtLink ==
  /\ pc = "link"
  /\ LET s == Push(Push_Value(stack, -1), frame.name)
     IN  /\ heap' = Stored(heap, Registry, At(s, -2), At(s, -1))
         /\ stack' = Pop(s, 2)
  /\ pc' = frame.ret
  /\ frame' = NoFrame
  /\ UNCHANGED <<alloc, udMeta, known, tampered, writes>>

-----------------------------------------------------------------------------
(* What surrounds these subprograms.                                        *)

\* A call raises a Lua error: control goes to the protected call that
\* entered the C function, and the function's stack is gone.
LuaError ==
  /\ pc # "idle"
  /\ pc' = "idle"
  /\ frame' = NoFrame
  /\ stack' = << >>
  /\ UNCHANGED <<heap, alloc, udMeta, known, tampered, writes>>

\* The C function returns to Lua without results and its stack is gone.
FunctionReturn ==
  /\ pc = "idle"
  /\ stack # << >>
  /\ stack' = << >>
  /\ UNCHANGED <<heap, alloc, udMeta, known, tampered, writes, pc, frame>>

\* Scripts run between two C functions and inside metamethods.
ScriptTurn ==
  /\ pc = "idle" \/ frame.meta
  /\ Script
  /\ UNCHANGED <<pc, frame>>

LibStep == LibCall \/ LibGet \/ LibSet \/ LibFunction \/ LibReturn
NmtStep == NmtFound \/ NmtCreate \/ NmtLink

LibInit ==
  /\ HeapInit
  /\ pc = "idle"
  /\ frame = NoFrame
=============================================================================
