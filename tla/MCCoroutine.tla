---------------------------- MODULE MCCoroutine -----------------------------
(***************************************************************************)
(* A thread with room for a function, two arguments and two values below.  *)
(***************************************************************************)
EXTENDS Coroutine, TLC

CONSTANTS d1, d2

Data == Permutations({d1, d2})
=============================================================================
