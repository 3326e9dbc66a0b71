------------------------------ MODULE OnceOnly ------------------------------
(***************************************************************************)
(* What the pair of gateway instances promises for a client's request      *)
(* (docs/zero-downtime-deploy.md, section 5.3): its work is done at most   *)
(* once, whichever instance does it, and the answer tells the client what  *)
(* it may do next.  "result" comes from the run.  "retry" (503) says that  *)
(* the request never ran, and it never runs afterwards.  "unknown" (502    *)
(* forward_interrupted, x-should-retry: false) says nothing about the run, *)
(* which may be over, under way or still to come; so does "gone", a client *)
(* that left.                                                              *)
(***************************************************************************)
CONSTANT Requests

VARIABLES ran, answer
vars == <<ran, answer>>

Init ==
    /\ ran = [q \in Requests |-> 0]
    /\ answer = [q \in Requests |-> "none"]

Run(q) ==
    /\ ran[q] = 0 /\ answer[q] \in {"none", "unknown", "gone"}
    /\ ran' = [ran EXCEPT ![q] = 1]
    /\ UNCHANGED answer

\* The run and its answer in one step: a request served where it arrived.
RunHere(q) ==
    /\ ran[q] = 0 /\ answer[q] = "none"
    /\ ran' = [ran EXCEPT ![q] = 1]
    /\ answer' = [answer EXCEPT ![q] = "result"]

Answer(q, a) ==
    /\ answer[q] = "none"
    /\ a = "result" => ran[q] = 1
    /\ a = "retry" => ran[q] = 0
    /\ answer' = [answer EXCEPT ![q] = a]
    /\ UNCHANGED ran

Next == \E q \in Requests :
    \/ Run(q) \/ RunHere(q)
    \/ \E a \in {"result", "retry", "unknown", "gone"} : Answer(q, a)

Spec == Init /\ [][Next]_vars
=============================================================================
