----------------------------- MODULE MCLibHost ------------------------------
(***************************************************************************)
(* Two libraries that have a function name in common, one of which has it  *)
(* twice, and two upvalues.                                                *)
(***************************************************************************)
EXTENDS LibHost, TLC

CONSTANTS l1, l2, open, close, f1, f2, f3

MCFunctions ==
  [l \in Library |-> IF l = l1
                     THEN <<[name |-> open, func |-> f1], [name |-> close, func |-> f2]>>
                     ELSE <<[name |-> open, func |-> f2], [name |-> open, func |-> f3]>>]

Symmetric == {t @@ v : t \in Permutations(Table \ {Registry, Globals}), v \in Permutations(UpValue)}
=============================================================================
