----------------------------- MODULE MCUserData -----------------------------
(***************************************************************************)
(* Two classes that share a method name, each with one metamethod.         *)
(***************************************************************************)
EXTENDS UserData, TLC

CONSTANTS c1, c2, new, gc, f1, f2, g1, g2

MCMethod_Table == [c \in Class |-> IF c = c1 THEN <<[name |-> new, func |-> f1]>> ELSE <<[name |-> new, func |-> f2]>>]
MCMeta_Table == [c \in Class |-> IF c = c1 THEN <<[name |-> gc, func |-> g1]>> ELSE <<[name |-> gc, func |-> g2]>>]

FreshTables == Permutations(Table \ {Registry, Globals})
=============================================================================
