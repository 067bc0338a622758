------------------------------ MODULE LuaStack ------------------------------
(***************************************************************************)
(* The stack discipline of the binding in lua.adb.  Every Ada subprogram   *)
(* of "stack manipulation" hands its index to the Lua library unchanged,   *)
(* so that the operators below are what one call does to the sequence of   *)
(* values the current C function sees.  Positive indices count from the    *)
(* bottom of the frame, negative ones from the top; Pop is built on        *)
(* Set_Top the way lua.adb builds it.                                      *)
(***************************************************************************)
EXTENDS Integers, Sequences

CONSTANT Nil     \* the Lua value nil

\* The 1-based position an acceptable non-zero index denotes.
Absolute(s, i) == IF i > 0 THEN i ELSE Len(s) + 1 + i

\* The value at an index; an index above the top reads as nil.
At(s, i) == LET p == Absolute(s, i)
            IN  IF p \in 1..Len(s) THEN s[p] ELSE Nil

Push(s, v) == Append(s, v)

Push_Value(s, i) == Append(s, At(s, i))

\* A non-negative index becomes the new height, a negative one counts the
\* new top from the old one.  A higher top is filled with nil.
Set_Top(s, i) ==
  LET h == IF i >= 0 THEN i ELSE Len(s) + 1 + i
  IN  [k \in 1..h |-> IF k <= Len(s) THEN s[k] ELSE Nil]

Pop(s, n) == Set_Top(s, -n - 1)

\* Move the top to position i, shifting up what was there.
Insert(s, i) ==
  LET p == Absolute(s, i)
  IN  [k \in 1..Len(s) |-> IF k < p THEN s[k]
                           ELSE IF k = p THEN s[Len(s)] ELSE s[k - 1]]

\* Take position i out, shifting down what is above it.
Remove(s, i) ==
  LET p == Absolute(s, i)
  IN  [k \in 1..(Len(s) - 1) |-> IF k < p THEN s[k] ELSE s[k + 1]]

\* Pop the top into position i.
Replace(s, i) ==
  LET p == Absolute(s, i)
  IN  [k \in 1..(Len(s) - 1) |-> IF k = p THEN s[Len(s)] ELSE s[k]]
=============================================================================
