------------------------------ MODULE LuaHeap -------------------------------
(***************************************************************************)
(* The part of a Lua state that lua-lib.adb and lua-user_data.adb work on: *)
(* tables, userdata with their metatables, the registry, the globals, the  *)
(* stack of the running C function, and the scripts that run on the same   *)
(* state.  A script reaches tables only by following references it already *)
(* has; it has no debug library, so it sees neither the registry nor a     *)
(* metatable whose __metatable field is set.  It may give every table it   *)
(* knows a metatable of its own making: which tables have one, and with    *)
(* which metamethods, is left open until one is called.  Tables and        *)
(* userdata are never collected: their sets bound how many a behaviour may *)
(* create.                                                                 *)
(***************************************************************************)
EXTENDS LuaStack

CONSTANTS
  Table,      \* identities of tables
  Registry,   \* the table at Registry_Index
  Globals,    \* the table at Globals_Index
  Userdata,   \* identities of full userdata
  Name,       \* strings: names of classes, libraries and functions
  Index,      \* the string "__index"
  Metatable,  \* the string "__metatable"
  Func,       \* Ada functions registered with Lua
  UpValue,    \* what a host pushes as an upvalue
  ScriptKey,  \* bound: the names scripts store values under
  MaxWrites,  \* bound: how many values and metatables scripts set in a behaviour
  Plain       \* any value scripts have that is no table: a number, a string, ...

ASSUME TableAssumption ==
  /\ Registry \in Table /\ Globals \in Table /\ Registry # Globals
  /\ Nil \notin Table /\ Plain \notin Table

ASSUME NameAssumption ==
  /\ Index \in Name /\ Metatable \in Name /\ Index # Metatable
  /\ Nil \notin Name /\ Plain \notin Name
  /\ Name \cap Table = {}
  /\ ScriptKey \subseteq Name /\ MaxWrites \in Nat

\* A C closure: the function and a copy of each of its upvalues.
Closure == [fn : Func, up : Seq(UpValue)]

ASSUME ValueAssumption ==
  /\ Userdata \cap (Table \cup Name \cup {Nil, Plain}) = {}
  /\ UpValue \cap (Table \cup Name \cup Userdata \cup {Nil}) = {}
  /\ \A v \in Table \cup Name \cup Userdata \cup {Nil, Plain} : v \notin Closure

Value == {Nil, Plain} \cup Name \cup Table \cup Userdata \cup UpValue \cup Closure
Key   == Name \cup Table

VARIABLES
  stack,      \* the stack of the running C function, bottom first
  heap,       \* what every table holds
  alloc,      \* the tables created so far
  udMeta,     \* the metatable of each userdata, or Nil
  known,      \* tables some script holds a reference to
  tampered,   \* tables a script has written to or given a metatable; with
              \* Plain, a script has changed the metatable of strings (history)
  writes      \* how many values and metatables scripts have set

heapVars == <<stack, heap, alloc, udMeta, known, tampered, writes>>

EmptyTable == [k \in Key |-> Nil]

HeapInit ==
  /\ stack = << >>
  /\ heap = [t \in Table |-> EmptyTable]
  /\ alloc = {Registry, Globals}
  /\ udMeta = [u \in Userdata |-> Nil]
  /\ known = {Globals}
  /\ tampered = {}
  /\ writes = 0

HeapTypeOK ==
  /\ stack \in Seq(Value)
  /\ heap \in [Table -> [Key -> Value]]
  /\ alloc \in SUBSET Table
  /\ udMeta \in [Userdata -> Table \cup {Nil}]
  /\ known \in SUBSET Table
  /\ tampered \in SUBSET (Table \cup {Plain})
  /\ writes \in Nat

\* h with v stored under k in t.
Stored(h, t, k, v) == [h EXCEPT ![t][k] = v]

-----------------------------------------------------------------------------
(* What a script can do while it runs.                                      *)

Learn(v) == known' = IF v \in Table THEN known \cup {v} ELSE known

\* What a script can put into a table or return from a metamethod.
ScriptValue == known \cup {Nil, Plain}

ScriptNewTable ==
  \E t \in Table \ alloc :
    /\ alloc' = alloc \cup {t}
    /\ known' = known \cup {t}
    /\ UNCHANGED <<stack, heap, udMeta, tampered, writes>>

ScriptRead ==
  \E t \in known, k \in Name :
    /\ Learn(heap[t][k])
    /\ UNCHANGED <<stack, heap, alloc, udMeta, tampered, writes>>

ScriptWrite ==
  \E t \in known, k \in ScriptKey, v \in ScriptValue :
    /\ writes < MaxWrites
    /\ writes' = writes + 1
    /\ heap' = Stored(heap, t, k, v)
    /\ tampered' = tampered \cup {t}
    /\ UNCHANGED <<stack, alloc, udMeta, known>>

\* setmetatable(t, ...), or a write to getmetatable("").
ScriptSetMetatable ==
  \E t \in known \cup {Plain} :
    /\ writes < MaxWrites
    /\ writes' = writes + 1
    /\ tampered' = tampered \cup {t}
    /\ UNCHANGED <<stack, heap, alloc, udMeta, known>>

\* getmetatable(u): the __metatable field if there is one, else the metatable.
ScriptGetMetatable ==
  \E u \in Userdata :
    /\ udMeta[u] \in Table
    /\ Learn(IF heap[udMeta[u]][Metatable] = Nil
             THEN udMeta[u] ELSE heap[udMeta[u]][Metatable])
    /\ UNCHANGED <<stack, heap, alloc, udMeta, tampered, writes>>

Script ==
  ScriptNewTable \/ ScriptRead \/ ScriptWrite \/ ScriptSetMetatable \/ ScriptGetMetatable

\* May a look-up or a store of k in t call a metamethod?  Of a table only for a
\* key it does not have.
MayCall(t, k) == t \in tampered /\ (t \in Table => heap[t][k] = Nil)
=============================================================================
