------------------------------- MODULE Mutex --------------------------------
(***************************************************************************)
(* What SYSDEPS expects of "sd-locker id file command": commands started   *)
(* under one lock file run one at a time.  A client asks to run a command, *)
(* has the lock to itself while it does, and is done for good.             *)
(***************************************************************************)
CONSTANT Client

VARIABLE at    \* where each client is: "out", "inside" or "done"

Init == at = [c \in Client |-> "out"]

Enter(c) ==
  /\ at[c] = "out"
  /\ \A d \in Client : at[d] # "inside"
  /\ at' = [at EXCEPT ![c] = "inside"]

\* A client may also give up before it has entered.
Leave(c) ==
  /\ at[c] \in {"out", "inside"}
  /\ at' = [at EXCEPT ![c] = "done"]

Next == \E c \in Client : Enter(c) \/ Leave(c)

Spec == Init /\ [][Next]_at
=============================================================================
