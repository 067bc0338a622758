------------------------------ MODULE UserData ------------------------------
(***************************************************************************)
(* lua-user_data.adb.  Each instance of the generic package Lua.User_Data  *)
(* is a class: a name, a table of methods and a table of metamethods.      *)
(* Register publishes the class, Push creates a userdata of it.  Register  *)
(* is one C-function's worth of calls with steps of its own, because a     *)
(* Lua error between two of them leaves the earlier ones done.             *)
(***************************************************************************)
EXTENDS LuaLib

CONSTANTS
  Class,         \* Class_Name of each instance; distinct instances differ
  Method_Table,  \* for each class, its array of methods
  Meta_Table,    \* for each class, its array of metamethods
  NoClass,
  MaxStack       \* bound: the host calls nothing above this stack height

ASSUME ClassAssumption ==
  /\ Class \subseteq Name \ {Index, Metatable}
  /\ NoClass \notin Class
  /\ Method_Table \in [Class -> Seq(Register_t)]
  /\ Meta_Table \in [Class -> Seq(Register_t)]
  /\ MaxStack \in Nat

\* __index and __metatable are Register's own: no metamethod array has them.
ASSUME MetaNamesAssumption ==
  \A c \in Class : \A i \in DOMAIN Meta_Table[c] :
    Meta_Table[c][i].name \notin {Index, Metatable}

VARIABLES
  class,     \* the class being registered, or NoClass
  udClass,   \* the class each userdata was pushed as, NoClass when unused
  complete,  \* classes whose Register ran to its end (history)
  failed,    \* classes a Lua error left published but unfinished (history)
  caller     \* the stack at the call of Register that runs (history)

vars == <<libVars, class, udClass, complete, failed, caller>>

\* The metatable registered for c, or Nil.
MetatableOf(c) == heap[Registry][c]

-----------------------------------------------------------------------------
(* Register.                                                                *)

\* Open_Library (Class_Name, Method_Table, 0) is called.
Register(c) ==
  /\ pc = "idle"
  /\ Len(stack) < MaxStack
  /\ OpenLibrary(c, Method_Table[c], 0, "opened")
  /\ class' = c
  /\ caller' = stack
  /\ UNCHANGED <<stack, heap, alloc, udMeta, known, tampered, writes, udClass, complete, failed>>

\* New_Metatable (Class_Name) is called.
RegisterMetatable ==
  /\ pc = "opened"
  /\ NewMetatable(class, "created")
  /\ UNCHANGED <<stack, heap, alloc, udMeta, known, tampered, writes, class, udClass, complete, failed, caller>>

\* Mutation: Open_Library (Class_Name, Meta_Table, 0).
RegisterMeta_Named ==
  /\ pc = "created"
  /\ OpenLibrary(class, Meta_Table[class], 0, "filled")
  /\ UNCHANGED <<stack, heap, alloc, udMeta, known, tampered, writes, class, udClass, complete, failed, caller>>

\* Open_Library ("", Meta_Table, 0) is called.
RegisterMeta ==
  /\ pc = "created"
  /\ OpenLibrary(NoName, Meta_Table[class], 0, "filled")
  /\ UNCHANGED <<stack, heap, alloc, udMeta, known, tampered, writes, class, udClass, complete, failed, caller>>

\* Mutation: Push_Value (-2).
FieldPushed_Self(k) == Push_Value(Push(stack, k), -2)

\* Push_String (k), Push_Value (-3), Raw_Set (-3): the stack after the pushes.
FieldPushed(k) == Push_Value(Push(stack, k), -3)

RegisterIndex ==
  /\ pc = "filled"
  /\ LET s == FieldPushed(Index)
     IN  /\ heap' = Stored(heap, At(s, -3), At(s, -2), At(s, -1))
         /\ stack' = Pop(s, 2)
  /\ pc' = "indexed"
  /\ UNCHANGED <<alloc, udMeta, known, tampered, writes, frame, class, udClass, complete, failed, caller>>

\* Mutation: __metatable is not set.
RegisterSeal_Skip ==
  /\ pc = "indexed"
  /\ stack' = Pop(stack, 1)
  /\ pc' = "idle"
  /\ class' = NoClass
  /\ caller' = << >>
  /\ complete' = complete \cup {class}
  /\ UNCHANGED <<heap, alloc, udMeta, known, tampered, writes, frame, udClass, failed>>

\* Mutation: no Pop (1).
RegisterSeal_NoPop ==
  /\ pc = "indexed"
  /\ LET s == FieldPushed(Metatable)
     IN  /\ heap' = Stored(heap, At(s, -3), At(s, -2), At(s, -1))
         /\ stack' = Pop(s, 2)
  /\ pc' = "idle"
  /\ class' = NoClass
  /\ caller' = << >>
  /\ complete' = complete \cup {class}
  /\ UNCHANGED <<alloc, udMeta, known, tampered, writes, frame, udClass, failed>>

\* The same for __metatable; then Pop (1) and return.
RegisterSeal ==
  /\ pc = "indexed"
  /\ LET s == FieldPushed(Metatable)
     IN  /\ heap' = Stored(heap, At(s, -3), At(s, -2), At(s, -1))
         /\ stack' = Pop(Pop(s, 2), 1)
  /\ pc' = "idle"
  /\ class' = NoClass
  /\ caller' = << >>
  /\ complete' = complete \cup {class}
  /\ UNCHANGED <<alloc, udMeta, known, tampered, writes, frame, udClass, failed>>

-----------------------------------------------------------------------------
\* Mutation: no Raw_Get.
PushUserdata_NoRawGet(c) ==
  /\ pc = "idle"
  /\ Len(stack) < MaxStack
  /\ \E u \in {v \in Userdata : udClass[v] = NoClass} :
       LET s == Push(Push(stack, u), c)
       IN  /\ udMeta' = [udMeta EXCEPT ![At(s, -2)] = At(s, -1)]
           /\ stack' = Pop(s, 1)
           /\ udClass' = [udClass EXCEPT ![u] = c]
  /\ UNCHANGED <<heap, alloc, known, tampered, writes, pc, frame, class, complete, failed, caller>>

\* New_User_Data, Push_String (Class_Name), Raw_Get (Registry),
\* Set_Metatable (-2).  Without a registered class the metatable is nil.  (An
\* error in between loses the stack and the new userdata with it, which is
\* what FunctionReturn does.)
PushUserdata(c) ==
  /\ pc = "idle"
  /\ Len(stack) < MaxStack
  /\ \E u \in {v \in Userdata : udClass[v] = NoClass} :
       LET s == Push(Push(stack, u), MetatableOf(c))
       IN  /\ udMeta' = [udMeta EXCEPT ![At(s, -2)] = At(s, -1)]
           /\ stack' = Pop(s, 1)
           /\ udClass' = [udClass EXCEPT ![u] = c]
  /\ UNCHANGED <<heap, alloc, known, tampered, writes, pc, frame, class, complete, failed, caller>>

\* A step of Open_Library or New_Metatable on behalf of Register.  When
\* New_Metatable returns False, Register returns as well.
RegisterStep ==
  /\ LibStep \/ NmtStep
  /\ class' = IF pc' = "idle" THEN NoClass ELSE class
  /\ caller' = IF pc' = "idle" THEN << >> ELSE caller
  /\ UNCHANGED <<udClass, complete, failed>>

\* A Lua error abandons Register; the class may be published by then.
RegisterError ==
  /\ LuaError
  /\ failed' = IF MetatableOf(class) # Nil /\ class \notin complete
               THEN failed \cup {class} ELSE failed
  /\ class' = NoClass
  /\ caller' = << >>
  /\ UNCHANGED <<udClass, complete>>

Init ==
  /\ LibInit
  /\ class = NoClass
  /\ udClass = [u \in Userdata |-> NoClass]
  /\ complete = {}
  /\ failed = {}
  /\ caller = << >>

Surroundings ==
  /\ FunctionReturn \/ ScriptTurn
  /\ UNCHANGED <<class, udClass, complete, failed, caller>>

Next ==
  \/ \E c \in Class : Register(c) \/ PushUserdata(c)
  \/ RegisterMetatable \/ RegisterMeta \/ RegisterIndex \/ RegisterSeal
  \/ RegisterStep \/ RegisterError
  \/ Surroundings

Spec == Init /\ [][Next]_vars

-----------------------------------------------------------------------------
(* Properties.                                                              *)

TypeOK ==
  /\ HeapTypeOK
  /\ pc \in {"idle", "get", "set", "function", "metatable", "link",
             "opened", "created", "filled", "indexed"}
  /\ frame \in Frame
  /\ class \in Class \cup {NoClass}
  /\ udClass \in [Userdata -> Class \cup {NoClass}]
  /\ complete \in SUBSET Class
  /\ failed \in SUBSET Class
  /\ caller \in Seq(Value)

\* No script ever gets hold of the metatable of a completely registered
\* class, through a global, a field, getmetatable or a metamethod that runs
\* inside Register: only then can no script change how Ada values behave.
MetatableHidden ==
  \A c \in complete : MetatableOf(c) \notin known

\* A complete class dispatches through one and the same object in __index and
\* __metatable, which is neither nil nor the metatable itself: a script that
\* asks for the metatable gets the methods.
MetatableSealed ==
  \A c \in complete :
    LET mt == MetatableOf(c)
    IN  /\ mt \in alloc
        /\ heap[mt][Metatable] = heap[mt][Index]
        /\ heap[mt][Index] \notin {Nil, mt}

\* Whatever scripts do to the globals between two registrations, the
\* metamethods of a complete class are all there and are the Ada functions of
\* its Meta_Table, without upvalues.
MetamethodsIntact ==
  \A c \in complete : \A i \in DOMAIN Meta_Table[c] :
    LET name == Meta_Table[c][i].name
    IN  \E j \in DOMAIN Meta_Table[c] :
          /\ Meta_Table[c][j].name = name
          /\ heap[MetatableOf(c)][name] = [fn |-> Meta_Table[c][j].func, up |-> << >>]

\* The object a complete class looks methods up in has under the name of every
\* method of the class the class's function of that name, unless a script wrote
\* to the object or gave it a metatable.  Only where a script changed the globals
\* may two classes share the object and one have replaced the other's functions.
MethodsReachable ==
  \A c \in complete : \A i \in DOMAIN Method_Table[c] :
    LET methods == heap[MetatableOf(c)][Index]
        name    == Method_Table[c][i].name
    IN  methods \in Table \ tampered =>
          \E d \in IF Globals \in tampered THEN Class ELSE {c} :
            \E j \in DOMAIN Method_Table[d] :
              /\ Method_Table[d][j].name = name
              /\ heap[methods][name] = [fn |-> Method_Table[d][j].func, up |-> << >>]

\* A userdata with a metatable has the one of the class it was pushed as, and
\* no other class has that metatable: the metatable tells the Ada type.
UserdataTyped ==
  /\ \A u \in Userdata : udMeta[u] # Nil =>
       udClass[u] \in Class /\ udMeta[u] = MetatableOf(udClass[u])
  /\ \A c, d \in Class : MetatableOf(c) = MetatableOf(d) /\ c # d => MetatableOf(c) = Nil

\* A class that is published but not complete is one being registered now or
\* one a Lua error interrupted: nothing else leaves a class half built.
HalfBuiltOnlyByError ==
  \A c \in Class : MetatableOf(c) # Nil => c \in complete \cup failed \cup {class}

\* Once a class is complete nothing changes its metatable, not even a second
\* Register after a script replaced or removed the global of that name.
MetatableFrozen ==
  [][\A c \in complete : /\ MetatableOf(c)' = MetatableOf(c)
                         /\ heap'[MetatableOf(c)] = heap[MetatableOf(c)]]_vars

\* A class that an error left half built stays so: a later Register finds the
\* name taken, returns early, and never sets __index and __metatable.
HalfBuiltForever ==
  [][\A c \in failed : c \notin complete' /\ MetatableOf(c)' = MetatableOf(c)]_vars

\* When Register returns, the values of its caller are as they were at the
\* call, under one more, the object the class's methods are looked up in; when
\* the class was already registered there are two more, the object that
\* Open_Library has filled and the metatable.  The object is the one of the
\* global of that name, unless a script changed the globals or gave them a
\* metatable.
RegisterLeaves ==
  [][class # NoClass /\ class' = NoClass /\ stack' # << >> =>
       LET n      == Len(caller)
           object == stack'[n + 1]
       IN  /\ SubSeq(stack', 1, n) = caller
           /\ IF class \in complete' \ complete
              THEN Len(stack') = n + 1 /\ object = heap'[MetatableOf(class)][Index]
              ELSE Len(stack') = n + 2 /\ stack'[n + 2] = MetatableOf(class)
           /\ Globals \notin tampered => object = heap[Globals][class]]_vars
=============================================================================
