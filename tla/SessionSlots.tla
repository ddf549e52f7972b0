---------------------------- MODULE SessionSlots ----------------------------
(***************************************************************************)
(* What the controller promises about a session: at any time it has at     *)
(* most one active task, a task becomes active only in a session that has  *)
(* none, and a session never passes from one task to another in one step.  *)
(***************************************************************************)
CONSTANTS Tasks, Sessions

VARIABLE active      \* session id -> its active tasks

Init == active = [s \in Sessions |-> {}]

Enter(s, t) ==
  /\ active[s] = {}
  /\ active' = [active EXCEPT ![s] = {t}]

Leave(s, t) ==
  /\ active[s] = {t}
  /\ active' = [active EXCEPT ![s] = {}]

Next == \E s \in Sessions, t \in Tasks : Enter(s, t) \/ Leave(s, t)

Spec == Init /\ [][Next]_active
=============================================================================
