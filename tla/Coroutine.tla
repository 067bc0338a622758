----------------------------- MODULE Coroutine ------------------------------
(***************************************************************************)
(* Resume of lua.adb, and the Lua thread it drives.  Resume is lua_resume  *)
(* between an insertion under the function and a removal at the same       *)
(* index, the index being taken before the call.  What the host sees of    *)
(* the thread's stack is the frame of whatever runs there: the base frame  *)
(* before the first Resume and after the coroutine ends, the yielded       *)
(* values alone while it is suspended, and the frame of the function that  *)
(* failed after an error.                                                  *)
(***************************************************************************)
EXTENDS LuaStack

CONSTANTS
  Datum,      \* values the host passes and the coroutine gives back
  Function,   \* a Lua function
  Traceback,  \* what the global _traceback holds
  Message,    \* an error message
  MaxStack,   \* bound: the host pushes nothing above this height
  MaxValues   \* bound: values passed, yielded or returned at once

ASSUME ValueAssumption ==
  /\ {Function, Message} \cap Datum = {} /\ Function # Message
  /\ Traceback \notin Datum \cup {Function, Message}
  /\ MaxStack \in Nat /\ MaxValues \in Nat

VARIABLES
  thread,    \* "ready", "suspended", "failed" or "undefined"
  stack,     \* the visible frame of the thread
  base,      \* the base frame while a coroutine is suspended above it
  code,      \* the Code of the last Resume
  last,      \* the Resume just made: what for, and what came of it (history)
  yielded    \* whether any coroutine of the thread has yielded (history)

vars == <<thread, stack, base, code, last, yielded>>

Few == UNION {[1..n -> Datum] : n \in 0..MaxValues}

Error_t == <<"Lua_Error_None", "Lua_Error_Runtime", "Lua_Error_File", "Lua_Error_Syntax",
             "Lua_Error_Memory", "Lua_Error_Error", "Lua_Exception">>

\* Mutation: the errors count from one.
Error_Val_Shift(n) == Error_t[IF n = 0 THEN 1 ELSE n + 2]

\* Error_t'Val.
Error_Val(n) == Error_t[n + 1]

\* What lua_resume returns (lua.h of Lua 5.1).
Status == [return |-> 0, yield |-> 1, runtime |-> 2, memory |-> 4]

NoResume == [wanted |-> << >>, passed |-> << >>, under |-> << >>, ended |-> "none", given |-> << >>]

Init ==
  /\ thread = "ready"
  /\ stack = << >>
  /\ base = << >>
  /\ code = "Lua_Error_None"
  /\ last = NoResume
  /\ yielded = FALSE

-----------------------------------------------------------------------------
(* The host between two Resumes.                                            *)

HostPush ==
  \E v \in Datum \cup {Function} :
    /\ thread # "undefined"
    /\ Len(stack) < MaxStack
    /\ stack' = Push(stack, v)
    /\ last' = NoResume
    /\ UNCHANGED <<thread, base, code, yielded>>

HostPop ==
  /\ thread # "undefined"
  /\ stack # << >>
  /\ stack' = Pop(stack, 1)
  /\ last' = NoResume
  /\ UNCHANGED <<thread, base, code, yielded>>

-----------------------------------------------------------------------------
(* lua_resume with n arguments on a frame s: how it may end, and the frame  *)
(* it leaves.  A ready thread takes the function under the arguments, a     *)
(* suspended one is inside a call that yielded and gets them as its         *)
(* results.                                                                 *)

Arguments(s, n) == SubSeq(s, Len(s) - n + 1, Len(s))

\* The base frame while the coroutine runs.
Under(s, n) == IF thread = "ready" THEN SubSeq(s, 1, Len(s) - n - 1) ELSE base

\* What may lie under the message in the frame of the function that failed.
FailedFrame == {[i \in 1..k |-> Nil] : k \in 0..MaxValues}

Endings(s, n) ==
  IF thread = "failed"
  THEN {[ended |-> "runtime", given |-> << >>, frame |-> <<Message>>, thread |-> "failed"]}
  ELSE {[ended |-> "return", given |-> g, frame |-> Under(s, n) \o g, thread |-> "ready"] : g \in Few}
       \cup {[ended |-> "yield", given |-> g, frame |-> g, thread |-> "suspended"] : g \in Few}
       \cup {[ended |-> e, given |-> << >>, frame |-> Append(f, Message), thread |-> "failed"] :
               e \in {"runtime", "memory"}, f \in FailedFrame}

-----------------------------------------------------------------------------
\* Mutation: taken after the value has been pushed.
Ndx_Late(n) == Len(stack) + 1 - n

\* NDX: the function's index when the thread is ready.
Ndx(n) == Len(stack) - n

\* Mutation: the value stays on the top.
Traced_NoInsert(n) == Push(stack, Traceback)

\* Push_String ("_traceback"), lua_rawget (Globals_Index), lua_insert (NDX).
Traced(n) == Insert(Push(stack, Traceback), Ndx(n))

\* lua_remove above the top of the frame walks memory that is no stack, and
\* from an empty frame it takes what is not the host's.
RemoveDefined(s, i) == s # << >> /\ i <= Len(s)

\* Mutation: no lua_remove.
Untraced_Kept(s, i) == s

\* lua_remove (NDX); NDX = 0 takes the top.
Untraced(s, i) == Remove(s, i)

Resume(n) ==
  /\ thread # "undefined"
  /\ n <= Len(stack)
  /\ thread = "ready" => n < Len(stack) /\ At(stack, -n - 1) = Function
  /\ LET s == Traced(n)
     IN  \E r \in Endings(s, n) :
           /\ thread' = IF RemoveDefined(r.frame, Ndx(n)) THEN r.thread ELSE "undefined"
           /\ stack' = IF RemoveDefined(r.frame, Ndx(n)) THEN Untraced(r.frame, Ndx(n)) ELSE << >>
           /\ base' = IF r.thread = "suspended" THEN Under(s, n) ELSE << >>
           /\ code' = Error_Val(Status[r.ended])
           /\ yielded' = (yielded \/ r.ended = "yield")
           /\ last' = [wanted |-> Arguments(stack, n), passed |-> Arguments(s, n),
                       under |-> Under(stack, n), ended |-> r.ended, given |-> r.given]

Next ==
  \/ HostPush \/ HostPop
  \/ \E n \in 0..MaxValues : Resume(n)

Spec == Init /\ [][Next]_vars

-----------------------------------------------------------------------------
(* Properties.                                                              *)

TypeOK ==
  /\ thread \in {"ready", "suspended", "failed", "undefined"}
  /\ stack \in Seq(Datum \cup {Nil, Function, Traceback, Message})
  /\ base \in Seq(Datum \cup {Nil, Function, Traceback, Message})
  /\ code \in {"Lua_Error_None", "Lua_Error_Runtime", "Lua_Error_File", "Lua_Error_Memory"}
  /\ last.passed \in Seq(Datum \cup {Nil, Function, Traceback, Message})
  /\ yielded \in BOOLEAN

Resumed == last' # NoResume

\* As long as no coroutine of the thread has yielded, Resume is lua_resume:
\* the arguments arrive, the results replace them, and what the host had
\* below them is still there.
FaithfulUntilYield ==
  [][Resumed /\ ~ yielded' /\ thread' = "ready" =>
       /\ last'.passed = last'.wanted
       /\ stack' = last'.under \o last'.given]_vars

\* A host that leaves values on the stack below the arguments passes the
\* arguments it meant, also to a coroutine that has yielded.
ArgumentsOverRest ==
  [][Resumed /\ Len(stack) > Len(last'.wanted) => last'.passed = last'.wanted]_vars

\* The comment on Resume, "proc_map : lua_resume": after any Resume that ends
\* or yields, the coroutine has got the arguments and the host the values.
MapsLuaResume ==
  [][Resumed /\ last'.ended \in {"return", "yield"} =>
       /\ last'.passed = last'.wanted
       /\ last'.ended = "yield" => stack' = last'.given
       /\ last'.ended = "return" => stack' = last'.under \o last'.given]_vars

\* The message table: Lua_Error_Runtime stands for "runtime error: ", so it is
\* returned for the runtime errors of the coroutine and for nothing else.
RuntimeMeansRuntime == last # NoResume => (code = "Lua_Error_Runtime" <=> last.ended = "runtime")
=============================================================================
