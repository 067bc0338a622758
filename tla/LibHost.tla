------------------------------ MODULE LibHost -------------------------------
(***************************************************************************)
(* A host that uses lua-lib.adb directly: it pushes upvalues and opens     *)
(* libraries over them, by name or into a table of its own, and makes      *)
(* metatables.  What Open_Library and New_Metatable promise to every       *)
(* caller, Lua.User_Data among them, is stated here.                       *)
(***************************************************************************)
EXTENDS LuaLib

CONSTANTS
  Library,    \* names of libraries and of metatables
  Functions,  \* for each library, its Register_Array_t
  MaxCalls,   \* bound: how many subprograms of Lua.Lib the host calls
  MaxStack    \* bound: the host pushes nothing above this height

VARIABLE calls    \* how many it has called

hostVars == <<libVars, calls>>

ASSUME LibraryAssumption ==
  /\ Library \subseteq Name
  /\ Functions \in [Library -> Seq(Register_t)]
  /\ MaxStack \in Nat /\ MaxCalls \in Nat

\* How many upvalues are on top of the stack.
UpValuesOnTop == CHOOSE n \in 0..Len(stack) :
  /\ \A i \in (Len(stack) - n + 1)..Len(stack) : stack[i] \in UpValue
  /\ n = Len(stack) \/ stack[Len(stack) - n] \notin UpValue

HostUnchanged == UNCHANGED <<heap, udMeta, known, tampered, writes>>

Called == calls < MaxCalls /\ calls' = calls + 1

\* Some call of the host's own puts a value on the stack.
HostPush ==
  /\ pc = "idle" /\ Len(stack) < MaxStack
  /\ \/ \E v \in UpValue : stack' = Push(stack, v) /\ UNCHANGED alloc
     \/ \E t \in Table \ alloc : stack' = Push(stack, t) /\ alloc' = alloc \cup {t}
  /\ UNCHANGED <<pc, frame, calls>>
  /\ HostUnchanged

\* Open_Library by name over the n topmost values.
HostOpen ==
  /\ pc = "idle"
  /\ \E l \in Library, n \in 0..UpValuesOnTop : OpenLibrary(l, Functions[l], n, "idle")
  /\ Called
  /\ UNCHANGED <<stack, alloc>>
  /\ HostUnchanged

\* Open_Library without a name: the table is below the upvalues.
HostFill ==
  /\ pc = "idle" /\ Len(stack) > UpValuesOnTop
  /\ \E l \in Library : OpenLibrary(NoName, Functions[l], UpValuesOnTop, "idle")
  /\ Called
  /\ UNCHANGED <<stack, alloc>>
  /\ HostUnchanged

HostNewMetatable ==
  /\ pc = "idle" /\ Len(stack) < MaxStack
  /\ \E l \in Library : NewMetatable(l, "idle")
  /\ Called
  /\ UNCHANGED <<stack, alloc>>
  /\ HostUnchanged

Init == LibInit /\ calls = 0

Next ==
  \/ HostPush \/ HostOpen \/ HostFill \/ HostNewMetatable
  \/ (LibStep \/ NmtStep \/ LuaError \/ FunctionReturn \/ ScriptTurn) /\ UNCHANGED calls

Spec == Init /\ [][Next]_hostVars

-----------------------------------------------------------------------------
(* Properties.                                                              *)

TypeOK ==
  /\ HeapTypeOK
  /\ pc \in {"idle", "get", "set", "function", "metatable", "link"}
  /\ frame \in Frame
  /\ calls \in 0..MaxCalls

\* Open_Library has run to its end, and not been cut short by an error.
LibraryOpened == pc = "function" /\ pc' = "idle" /\ stack' # << >>

\* Open_Library takes the upvalues off the stack and leaves the library's
\* object in their place, above values of the caller that it did not touch.
StackBalanced ==
  [][LibraryOpened => /\ Len(stack') = Len(frame.below) + 1
                      /\ SubSeq(stack', 1, Len(frame.below)) = frame.below]_hostVars

\* Under each name the object holds the last function the array has for it,
\* with a copy of all the upvalues in the order they were pushed, unless a
\* script wrote to the object or gave it a metatable.
UpValuesShared ==
  [][LibraryOpened =>
       LET lib == stack'[Len(stack')]
       IN  lib \in Table \ tampered =>
             \A i \in LastOfName(frame.all) :
               heap[lib][frame.all[i].name] = [fn |-> frame.all[i].func, up |-> frame.ups]]_hostVars

\* The object it leaves is the one the global of that name holds, unless a
\* script changed the globals or gave them a metatable: opening a library twice
\* extends it.
GlobalIsLibrary ==
  [][LibraryOpened /\ frame.name # NoName /\ Globals \notin tampered =>
       stack'[Len(stack')] = heap[Globals][frame.name]]_hostVars

\* New_Metatable registers the table under its name before it registers the
\* name under the table: whatever interrupts it, a table that the registry
\* names is registered under that name.
BackLinkSound ==
  \A t \in Table : heap[Registry][t] # Nil =>
    heap[Registry][t] \in Name /\ heap[Registry][heap[Registry][t]] = t
=============================================================================
