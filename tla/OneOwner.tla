------------------------------ MODULE OneOwner ------------------------------
(***************************************************************************)
(* What an owner lock promises (src/handoff/owners.py): a session id is    *)
(* held by one gateway process or by none, and changes hands only through  *)
(* nobody: a process gives it up, or dies, before another one has it.      *)
(***************************************************************************)
CONSTANTS Procs, None

VARIABLE holder

Init == holder = None
Take(p) == holder = None /\ holder' = p
GiveUp(p) == holder = p /\ holder' = None
Next == \E p \in Procs : Take(p) \/ GiveUp(p)

Spec == Init /\ [][Next]_holder
=============================================================================
