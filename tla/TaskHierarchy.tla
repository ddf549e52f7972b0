--------------------------- MODULE TaskHierarchy ---------------------------
(***************************************************************************)
(* The parent-child hierarchy of LocalController.  link_parent takes and   *)
(* releases the mutexes of the task map, of child_to_parent and of         *)
(* parent_to_children one after the other; remove_task holds the task map  *)
(* throughout.  Concurrent calls interleave between those sections.        *)
(***************************************************************************)
EXTENDS Naturals

CONSTANTS
  Tasks,
  None,          \* no task
  Linkers        \* concurrent link_parent calls

ASSUME HierarchyAssumption == None \notin Tasks

VARIABLES
  present,       \* keys of the task map
  parentField,   \* Task.parent_task_id, which is what a snapshot stores
  parentOf,      \* child_to_parent
  children,      \* parent_to_children
  pc, child, parent, previous,   \* the link_parent calls
  raced          \* what has overlapped a link_parent so far: "link" another
                 \* one, "remove" only a remove_task, "no" neither (history,
                 \* read by no action)

maps == <<present, parentField, parentOf, children>>
vars == <<present, parentField, parentOf, children, pc, child, parent, previous, raced>>

Labels == {"idle", "walk", "unlink", "index", "adopt", "field", "spin"}

TypeOK ==
  /\ present \subseteq Tasks
  /\ parentField \in [Tasks -> Tasks \union {None}]
  /\ parentOf \in [Tasks -> Tasks \union {None}]
  /\ children \in [Tasks -> SUBSET Tasks]
  /\ pc \in [Linkers -> Labels]
  /\ child \in [Linkers -> Tasks \union {None}]
  /\ parent \in [Linkers -> Tasks \union {None}]
  /\ previous \in [Linkers -> Tasks \union {None}]
  /\ raced \in {"no", "remove", "link"}
  /\ \A t \in Tasks \ present : parentField[t] = None
  /\ \A l \in Linkers : pc[l] # "idle" => child[l] \in Tasks /\ parent[l] \in Tasks

Init ==
  /\ present = {}
  /\ parentField = [t \in Tasks |-> None]
  /\ parentOf = [t \in Tasks |-> None]
  /\ children = [t \in Tasks |-> {}]
  /\ pc = [l \in Linkers |-> "idle"]
  /\ child = [l \in Linkers |-> None]
  /\ parent = [l \in Linkers |-> None]
  /\ previous = [l \in Linkers |-> None]
  /\ raced = "no"

Quiescent == \A l \in Linkers : pc[l] = "idle"

\* The tasks met by following child_to_parent upwards from t, t included: the
\* smallest set that holds t and the parents of its members.
Closed(S) == \A x \in S : parentOf[x] \in S \union {None}
Chain(t) == {x \in Tasks : \A S \in SUBSET Tasks : t \in S /\ Closed(S) => x \in S}

\* The mutex of child_to_parent is held by a walk that does not end.
MapStuck == \E l \in Linkers : pc[l] = "spin"

----------------------------------------------------------------------------
\* create_task with no parent, as every caller in the repository does.
Create(t) ==
  /\ t \notin present
  /\ present' = present \union {t}
  /\ UNCHANGED <<parentField, parentOf, children, pc, child, parent, previous, raced>>

\* Faulty variant: the children are not asked about.
RemoveWithChildren(t) ==
  /\ t \in present
  /\ ~MapStuck
  /\ present' = present \ {t}
  /\ parentOf' = [parentOf EXCEPT ![t] = None]
  /\ children' = [p \in Tasks |->
                    IF p = parentOf[t] THEN children[p] \ {t} ELSE children[p]]
  /\ parentField' = [parentField EXCEPT ![t] = None]
  /\ raced' = IF Quiescent \/ raced = "link" THEN raced ELSE "remove"
  /\ UNCHANGED <<pc, child, parent, previous>>

\* remove_task: refused while the task has children.
Remove(t) ==
  /\ t \in present
  /\ children[t] = {}
  /\ ~MapStuck
  /\ present' = present \ {t}
  /\ parentOf' = [parentOf EXCEPT ![t] = None]
  /\ children' = [p \in Tasks |->
                    IF p = parentOf[t] THEN children[p] \ {t} ELSE children[p]]
  /\ parentField' = [parentField EXCEPT ![t] = None]
  /\ raced' = IF Quiescent \/ raced = "link" THEN raced ELSE "remove"
  /\ UNCHANGED <<pc, child, parent, previous>>

----------------------------------------------------------------------------
(* link_parent, one critical section per step.                             *)

Goto(l, label) ==
  /\ pc' = [pc EXCEPT ![l] = label]
  /\ UNCHANGED <<child, parent, raced>>

\* The call ends, with or without an error.
Return(l) ==
  /\ pc' = [pc EXCEPT ![l] = "idle"]
  /\ child' = [child EXCEPT ![l] = None]
  /\ parent' = [parent EXCEPT ![l] = None]
  /\ previous' = [previous EXCEPT ![l] = None]
  /\ UNCHANGED raced

Link(l, t, p) ==
  /\ pc[l] = "idle"
  /\ t # p
  /\ {t, p} \subseteq present
  /\ child' = [child EXCEPT ![l] = t]
  /\ parent' = [parent EXCEPT ![l] = p]
  /\ pc' = [pc EXCEPT ![l] = "walk"]
  /\ raced' = IF Quiescent THEN raced ELSE "link"
  /\ UNCHANGED <<maps, previous>>

\* Faulty variant: only the direct parent is compared with the child.
WalkOneLevel(l) ==
  /\ pc[l] = "walk"
  /\ ~MapStuck
  /\ IF parentOf[parent[l]] = child[l]
     THEN Return(l)
     ELSE /\ previous' = [previous EXCEPT ![l] = parentOf[child[l]]]
          /\ Goto(l, "unlink")
  /\ UNCHANGED maps

\* The walk up from the new parent: it meets the child and fails, or it ends
\* at a root, or it goes round a cycle for ever with the mutex held.
Walk(l) ==
  /\ pc[l] = "walk"
  /\ ~MapStuck
  /\ \/ /\ child[l] \in Chain(parent[l])
        /\ Return(l)
     \/ /\ child[l] \notin Chain(parent[l])
        /\ \E x \in Chain(parent[l]) : parentOf[x] = None
        /\ previous' = [previous EXCEPT ![l] = parentOf[child[l]]]
        /\ Goto(l, "unlink")
     \/ /\ child[l] \notin Chain(parent[l])
        /\ \A x \in Chain(parent[l]) : parentOf[x] # None
        /\ Goto(l, "spin")
        /\ UNCHANGED previous
  /\ UNCHANGED maps

\* Faulty variant: the previous parent keeps the child.
UnlinkForgotten(l) ==
  /\ pc[l] = "unlink"
  /\ Goto(l, "index")
  /\ UNCHANGED <<maps, previous>>

Unlink(l) ==
  /\ pc[l] = "unlink"
  /\ children' =
       IF previous[l] \in Tasks \ {parent[l]}
       THEN [children EXCEPT ![previous[l]] = @ \ {child[l]}]
       ELSE children
  /\ Goto(l, "index")
  /\ UNCHANGED <<present, parentField, parentOf, previous>>

Index(l) ==
  /\ pc[l] = "index"
  /\ ~MapStuck
  /\ parentOf' = [parentOf EXCEPT ![child[l]] = parent[l]]
  /\ Goto(l, "adopt")
  /\ UNCHANGED <<present, parentField, children, previous>>

Adopt(l) ==
  /\ pc[l] = "adopt"
  /\ children' = [children EXCEPT ![parent[l]] = @ \union {child[l]}]
  /\ Goto(l, "field")
  /\ UNCHANGED <<present, parentField, parentOf, previous>>

SetField(l) ==
  /\ pc[l] = "field"
  /\ parentField' = IF child[l] \in present
                    THEN [parentField EXCEPT ![child[l]] = parent[l]]
                    ELSE parentField
  /\ Return(l)
  /\ UNCHANGED <<present, parentOf, children>>

LinkStep(l) ==
  Walk(l) \/ Unlink(l) \/ Index(l) \/ Adopt(l) \/ SetField(l)

Next ==
  \/ \E t \in Tasks : Create(t) \/ Remove(t)
  \/ \E l \in Linkers :
       \/ \E t, p \in Tasks : Link(l, t, p)
       \/ LinkStep(l)

Spec == Init /\ [][Next]_vars

----------------------------------------------------------------------------
(* Properties.                                                             *)

\* link_parent promises "防环", no cycles: no set of tasks is closed under taking
\* the parent, so the hierarchy is a forest, and every walk up the parents ends.
\* Two calls that overlap can break it.
Acyclic ==
  \A S \in (SUBSET Tasks) \ {{}} : ~ \A x \in S : parentOf[x] \in S

\* While no two link_parent calls have overlapped, no removal or creation inside
\* one can make it close a cycle.
SerialForest == raced # "link" => Acyclic

\* With nothing inside a link_parent, the two indexes and the tasks tell the same
\* hierarchy between calls, although each is written under its own mutex, tasks
\* are relinked and removed, and a parent named by a task is always there: a
\* restart that finds one missing refuses the whole snapshot.
IndexesAgree ==
  Quiescent /\ raced = "no" =>
    \A t, p \in Tasks :
      /\ t \in children[p] <=> parentOf[t] = p
      /\ parentOf[t] = p <=> parentField[t] = p
      /\ parentOf[t] = p => {t, p} \subseteq present
=============================================================================
