------------------------ MODULE TaskHierarchyProofs ------------------------
(***************************************************************************)
(* As long as link_parent calls come one at a time, with removals and      *)
(* creations free to interleave with the steps of a call, the hierarchy    *)
(* stays a forest for every set of tasks.  The walk of link_parent is what *)
(* makes it so: between the walk and the write the new parent's chain only *)
(* shrinks.                                                                *)
(***************************************************************************)
EXTENDS TaskHierarchy, TLAPS

\* One call is under way at most.
OneLinker ==
  \A k, l \in Linkers : pc[k] # "idle" /\ pc[l] # "idle" => k = l

\* The new parent's chain does not meet the child while the call is between
\* its walk and its write.
WalkedInv ==
  \A l \in Linkers : pc[l] \in {"unlink", "index"} => child[l] \notin Chain(parent[l])

IInv == TypeOK /\ Acyclic /\ WalkedInv /\ OneLinker

SerialInv == TypeOK /\ (raced # "link" => IInv)

\* A chain contains its start and is closed under taking the parent.
LEMMA ChainClosed ==
  ASSUME TypeOK, NEW t \in Tasks
  PROVE  t \in Chain(t) /\ Chain(t) \subseteq Tasks /\ Closed(Chain(t))
<1>1. t \in Chain(t) /\ Chain(t) \subseteq Tasks
  BY DEF Chain
<1>2. ASSUME NEW x \in Chain(t), parentOf[x] # None
      PROVE  parentOf[x] \in Chain(t)
  <2>1. x \in Tasks /\ parentOf[x] \in Tasks
    BY <1>2 DEF Chain, TypeOK
  <2>2. ASSUME NEW S \in SUBSET Tasks, t \in S, Closed(S)
        PROVE  parentOf[x] \in S
    <3>1. x \in S
      BY <2>2 DEF Chain
    <3>2. QED
      BY <1>2, <2>2, <3>1 DEF Closed
  <2>3. QED
    BY <2>1, <2>2 DEF Chain
<1>3. QED
  BY <1>1, <1>2 DEF Closed

\* Cutting parents shrinks every chain and creates no cycle.
LEMMA CutKeeps ==
  ASSUME TypeOK, Acyclic, HierarchyAssumption,
         \A x \in Tasks : parentOf'[x] \in {parentOf[x], None}
  PROVE  Acyclic' /\ \A t \in Tasks : Chain(t)' \subseteq Chain(t)
<1>1. ASSUME NEW S \in (SUBSET Tasks) \ {{}}, \A x \in S : parentOf'[x] \in S
      PROVE  FALSE
  <2>1. \A x \in S : parentOf[x] \in S
    BY <1>1, HierarchyAssumption
  <2>2. QED
    BY <1>1, <2>1 DEF Acyclic
<1>2. ASSUME NEW t \in Tasks, NEW x \in Chain(t)'
      PROVE  x \in Chain(t)
  <2>1. ASSUME NEW S \in SUBSET Tasks, t \in S, Closed(S)
        PROVE  x \in S
    <3>1. Closed(S)'
      BY <2>1 DEF Closed
    <3>2. QED
      BY <1>2, <2>1, <3>1 DEF Chain
  <2>2. x \in Tasks
    BY <1>2 DEF Chain
  <2>3. QED
    BY <2>1, <2>2 DEF Chain
<1>3. QED
  BY <1>1, <1>2 DEF Acyclic

\* Writing the new parent creates no cycle when its chain does not meet the
\* child: a cycle through the new edge would be one before it.
LEMMA EdgeKeeps ==
  ASSUME TypeOK, Acyclic, HierarchyAssumption, NEW t \in Tasks, NEW p \in Tasks,
         t \notin Chain(p), parentOf' = [parentOf EXCEPT ![t] = p]
  PROVE  Acyclic'
<1> SUFFICES ASSUME NEW S \in (SUBSET Tasks) \ {{}}, \A x \in S : parentOf'[x] \in S
             PROVE  FALSE
  BY DEF Acyclic
<1>1. \A x \in Tasks \ {t} : parentOf'[x] = parentOf[x]
  BY DEF TypeOK
<1>2. CASE t \notin S
  BY <1>1, <1>2 DEF Acyclic
<1>3. CASE t \in S
  <2>1. p \in S
    BY <1>3 DEF TypeOK
  <2>2. p \in Chain(p) /\ Chain(p) \subseteq Tasks /\ Closed(Chain(p))
    BY ChainClosed
  <2>3. p \in S \cap Chain(p)
    BY <2>1, <2>2
  <2>4. ASSUME NEW x \in S \cap Chain(p)
        PROVE  parentOf[x] \in S \cap Chain(p)
    <3>1. x # t /\ x \in Tasks
      BY <2>2
    <3>2. parentOf[x] \in S /\ parentOf[x] # None
      BY <1>1, <3>1, HierarchyAssumption
    <3>3. parentOf[x] \in Chain(p)
      BY <2>2, <3>2 DEF Closed
    <3>4. QED
      BY <3>2, <3>3
  <2>5. S \cap Chain(p) \in (SUBSET Tasks) \ {{}}
    BY <2>3
  <2>6. QED
    BY <2>4, <2>5 DEF Acyclic
<1>4. QED
  BY <1>2, <1>3

----------------------------------------------------------------------------
LEMMA NextType ==
  ASSUME TypeOK, [Next]_vars
  PROVE  TypeOK'
<1> USE HierarchyAssumption DEF TypeOK, Labels
<1>1. ASSUME NEW t \in Tasks, Create(t) PROVE TypeOK'
  BY <1>1 DEF Create
<1>2. ASSUME NEW t \in Tasks, Remove(t) PROVE TypeOK'
  BY <1>2 DEF Remove
<1>3. ASSUME NEW l \in Linkers, NEW t \in Tasks, NEW p \in Tasks, Link(l, t, p)
      PROVE  TypeOK'
  BY <1>3 DEF Link, maps
<1>4. ASSUME NEW l \in Linkers, Walk(l) PROVE TypeOK'
  BY <1>4 DEF Walk, Goto, Return, maps
<1>5. ASSUME NEW l \in Linkers, Unlink(l) PROVE TypeOK'
  BY <1>5 DEF Unlink, Goto
<1>6. ASSUME NEW l \in Linkers, Index(l) PROVE TypeOK'
  BY <1>6 DEF Index, Goto
<1>7. ASSUME NEW l \in Linkers, Adopt(l) PROVE TypeOK'
  BY <1>7 DEF Adopt, Goto
<1>8. ASSUME NEW l \in Linkers, SetField(l) PROVE TypeOK'
  BY <1>8 DEF SetField, Return
<1>9. CASE UNCHANGED vars
  BY <1>9 DEF vars
<1>10. QED
  BY <1>1, <1>2, <1>3, <1>4, <1>5, <1>6, <1>7, <1>8, <1>9 DEF Next, LinkStep

\* The four maps of the hierarchy and the locals of every link_parent call keep
\* their types.
THEOREM TypeInvariance == Spec => []TypeOK
<1>1. Init => TypeOK
  BY HierarchyAssumption DEF Init, TypeOK, Labels
<1>2. QED
  BY <1>1, NextType, PTL DEF Spec

\* A step that does not write the parent index, and at whose end no other call
\* than one that just walked stands between walk and write.
LEMMA QuietKeeps ==
  ASSUME IInv, parentOf' = parentOf,
         \A l \in Linkers : pc'[l] \in {"unlink", "index"} =>
            child'[l] \notin Chain(parent'[l])
  PROVE  Acyclic' /\ WalkedInv'
<1>1. Acyclic'
  BY DEF IInv, Acyclic
<1>2. \A t : Chain(t)' = Chain(t)
  BY DEF Chain, Closed
<1>3. QED
  BY <1>1, <1>2 DEF WalkedInv

LEMMA NextForest ==
  ASSUME IInv, TypeOK', [Next]_vars
  PROVE  Acyclic' /\ WalkedInv'
<1> USE HierarchyAssumption
<1>1. TypeOK /\ Acyclic /\ WalkedInv /\ OneLinker
  BY DEF IInv
<1>2. ASSUME NEW t \in Tasks, Create(t) PROVE Acyclic' /\ WalkedInv'
  BY <1>1, <1>2, QuietKeeps DEF Create, WalkedInv
<1>3. ASSUME NEW t \in Tasks, Remove(t) PROVE Acyclic' /\ WalkedInv'
  <2>1. \A x \in Tasks : parentOf'[x] \in {parentOf[x], None}
    BY <1>1, <1>3 DEF Remove, TypeOK
  <2>2. Acyclic' /\ \A x \in Tasks : Chain(x)' \subseteq Chain(x)
    BY <1>1, <2>1, CutKeeps
  <2>3. UNCHANGED <<pc, child, parent>>
    BY <1>3 DEF Remove
  <2>4. WalkedInv'
    <3> SUFFICES ASSUME NEW l \in Linkers, pc[l] \in {"unlink", "index"}
                 PROVE  child[l] \notin Chain(parent[l])'
      BY <2>3 DEF WalkedInv
    <3>1. parent[l] \in Tasks /\ child[l] \notin Chain(parent[l])
      BY <1>1 DEF TypeOK, WalkedInv
    <3>2. Chain(parent[l])' \subseteq Chain(parent[l])
      <4>1. \A x \in Tasks : parent'[l] = x => Chain(parent[l])' \subseteq Chain(x)
        BY <2>2
      <4>2. QED
        BY <2>3, <3>1, <4>1
    <3>3. QED
      BY <3>1, <3>2
  <2>5. QED
    BY <2>2, <2>4
<1>4. ASSUME NEW l \in Linkers, NEW t \in Tasks, NEW p \in Tasks, Link(l, t, p)
      PROVE  Acyclic' /\ WalkedInv'
  BY <1>1, <1>4, QuietKeeps DEF Link, maps, WalkedInv, TypeOK
<1>5. ASSUME NEW l \in Linkers, Walk(l) PROVE Acyclic' /\ WalkedInv'
  <2>1. UNCHANGED parentOf /\ pc[l] = "walk"
    BY <1>5 DEF Walk, maps
  <2>2. ASSUME NEW k \in Linkers, pc'[k] \in {"unlink", "index"}
        PROVE  child'[k] \notin Chain(parent'[k])
    <3>1. CASE k = l
      <4>1. child[l] \notin Chain(parent[l]) /\ UNCHANGED <<child, parent>>
        BY <1>1, <1>5, <2>2, <3>1 DEF Walk, Goto, Return, TypeOK
      <4>2. QED
        BY <3>1, <4>1
    <3>2. CASE k # l
      <4>1. pc'[k] = pc[k] /\ child'[k] = child[k] /\ parent'[k] = parent[k]
        BY <1>1, <1>5, <3>2 DEF Walk, Goto, Return, TypeOK
      <4>2. child[k] \notin Chain(parent[k])
        BY <1>1, <2>2, <4>1 DEF WalkedInv
      <4>3. QED
        BY <4>1, <4>2
    <3>3. QED
      BY <3>1, <3>2
  <2>3. QED
    BY <2>1, <2>2, QuietKeeps
<1>6. ASSUME NEW l \in Linkers, Unlink(l) PROVE Acyclic' /\ WalkedInv'
  BY <1>1, <1>6, QuietKeeps DEF Unlink, Goto, WalkedInv, TypeOK
<1>7. ASSUME NEW l \in Linkers, Index(l) PROVE Acyclic' /\ WalkedInv'
  <2>1. child[l] \in Tasks /\ parent[l] \in Tasks /\ child[l] \notin Chain(parent[l])
    BY <1>1, <1>7 DEF Index, TypeOK, WalkedInv
  <2>2. Acyclic'
    BY <1>1, <1>7, <2>1, EdgeKeeps DEF Index
  <2>3. \A k \in Linkers : pc'[k] \in {"idle", "adopt"}
    BY <1>1, <1>7 DEF OneLinker, Index, Goto, TypeOK
  <2>4. QED
    BY <2>2, <2>3 DEF WalkedInv
<1>8. ASSUME NEW l \in Linkers, Adopt(l) PROVE Acyclic' /\ WalkedInv'
  BY <1>1, <1>8, QuietKeeps DEF Adopt, Goto, WalkedInv, TypeOK
<1>9. ASSUME NEW l \in Linkers, SetField(l) PROVE Acyclic' /\ WalkedInv'
  BY <1>1, <1>9, QuietKeeps DEF SetField, Return, WalkedInv, TypeOK
<1>10. CASE UNCHANGED vars
  BY <1>1, <1>10, QuietKeeps DEF vars, WalkedInv
<1>11. QED
  BY <1>2, <1>3, <1>4, <1>5, <1>6, <1>7, <1>8, <1>9, <1>10 DEF Next, LinkStep

\* A call begins only in a quiescent state, or the history says otherwise.
LEMMA NextOneLinker ==
  ASSUME TypeOK, OneLinker, raced' # "link", [Next]_vars
  PROVE  OneLinker' /\ raced # "link"
<1> USE DEF OneLinker, TypeOK
<1>1. ASSUME NEW t \in Tasks, Create(t) PROVE OneLinker' /\ raced # "link"
  BY <1>1 DEF Create
<1>2. ASSUME NEW t \in Tasks, Remove(t) PROVE OneLinker' /\ raced # "link"
  BY <1>2 DEF Remove
<1>3. ASSUME NEW l \in Linkers, NEW t \in Tasks, NEW p \in Tasks, Link(l, t, p)
      PROVE  OneLinker' /\ raced # "link"
  <2>1. Quiescent /\ raced' = raced
    BY <1>3 DEF Link
  <2>2. \A k \in Linkers : k # l => pc'[k] = "idle"
    BY <1>3, <2>1 DEF Link, Quiescent
  <2>3. QED
    BY <2>1, <2>2
<1>4. ASSUME NEW l \in Linkers, LinkStep(l) PROVE OneLinker' /\ raced # "link"
  <2>1. pc[l] # "idle" /\ raced' = raced
    BY <1>4 DEF LinkStep, Walk, Unlink, Index, Adopt, SetField, Goto, Return
  <2>2. \A k \in Linkers : k # l => pc'[k] = pc[k]
    BY <1>4 DEF LinkStep, Walk, Unlink, Index, Adopt, SetField, Goto, Return
  <2>3. QED
    BY <2>1, <2>2
<1>5. CASE UNCHANGED vars
  BY <1>5 DEF vars
<1>6. QED
  BY <1>1, <1>2, <1>3, <1>4, <1>5 DEF Next

\* The history forgets nothing.
LEMMA NextRaced ==
  ASSUME [Next]_vars
  PROVE  /\ raced' # "link" => raced # "link"
         /\ raced' = "no" => raced = "no"
BY DEF Next, LinkStep, Create, Remove, Link, Walk, Unlink, Index, Adopt, SetField,
   Goto, Return, vars

\* With no two calls overlapping, the forest, the walk and the one call.
LEMMA SerialInvariance == Spec => []SerialInv
<1>1. Init => SerialInv
  BY HierarchyAssumption DEF Init, SerialInv, IInv, Acyclic, WalkedInv, OneLinker,
     TypeOK, Labels
<1>2. ASSUME SerialInv, TypeOK', [Next]_vars PROVE SerialInv'
  <2> SUFFICES ASSUME raced' # "link" PROVE IInv'
    BY <1>2 DEF SerialInv
  <2>1. raced # "link"
    BY <1>2, NextRaced
  <2>2. IInv
    BY <1>2, <2>1 DEF SerialInv
  <2>3. OneLinker'
    BY <1>2, <2>2, NextOneLinker DEF IInv
  <2>4. QED
    BY <1>2, <2>2, <2>3, NextForest DEF IInv
<1>3. QED
  BY <1>1, <1>2, TypeInvariance, PTL DEF Spec

\* One link at a time, whatever is created or removed meanwhile: no cycle.
THEOREM SerialLinksForest == Spec => []SerialForest
<1>1. SerialInv => SerialForest
  BY DEF SerialInv, IInv, SerialForest
<1>2. QED
  BY <1>1, SerialInvariance, PTL

----------------------------------------------------------------------------
(* With nothing inside a link_parent, the two indexes and the tasks agree. *)

Moving == {"unlink", "index", "adopt", "field"}

Agree(t) ==
  \A p \in Tasks :
    /\ t \in children[p] <=> parentOf[t] = p
    /\ parentOf[t] = p <=> parentField[t] = p

\* A task nobody is linking has one parent, in all three maps.
AgreeInv ==
  \A t \in Tasks : (\A l \in Linkers : pc[l] \in Moving => child[l] # t) => Agree(t)

\* What the three maps hold of the task a call is linking: each section has
\* replaced the previous parent by the new one in its own map only.
MovingInv ==
  \A l \in Linkers : pc[l] \in Moving =>
    /\ parentField[child[l]] = previous[l]
    /\ parentOf[child[l]] = IF pc[l] \in {"unlink", "index"} THEN previous[l] ELSE parent[l]
    /\ \A q \in Tasks : child[l] \in children[q] <=>
         \/ pc[l] = "unlink" /\ q = previous[l]
         \/ pc[l] \in {"index", "adopt"} /\ q = previous[l] /\ q = parent[l]
         \/ pc[l] = "field" /\ q = parent[l]

PresentInv ==
  /\ \A t, p \in Tasks : parentOf[t] = p => {t, p} \subseteq present
  /\ \A t, p \in Tasks : parentField[t] = p => p \in present
  /\ \A l \in Linkers : pc[l] # "idle" => {child[l], parent[l]} \subseteq present

MapsInv == raced = "no" => AgreeInv /\ MovingInv /\ PresentInv

LEMMA CreateMaps ==
  ASSUME TypeOK, AgreeInv, MovingInv, PresentInv, NEW t \in Tasks, Create(t)
  PROVE  AgreeInv' /\ MovingInv' /\ PresentInv'
  BY DEF Create, AgreeInv, MovingInv, PresentInv, Agree, TypeOK

LEMMA RemoveMaps ==
  ASSUME TypeOK, AgreeInv, MovingInv, PresentInv, Quiescent, NEW t \in Tasks, Remove(t)
  PROVE  AgreeInv' /\ MovingInv' /\ PresentInv'
<1> USE HierarchyAssumption
<1>1. \A u \in Tasks : Agree(u) /\ parentOf[u] # t
  BY DEF AgreeInv, Quiescent, Moving, Remove, Agree
<1>2. /\ parentOf' = [parentOf EXCEPT ![t] = None]
      /\ parentField' = [parentField EXCEPT ![t] = None]
      /\ \A p \in Tasks : children'[p] =
           IF p = parentOf[t] THEN children[p] \ {t} ELSE children[p]
      /\ present' = present \ {t}
      /\ \A l \in Linkers : pc'[l] = "idle"
  BY DEF Remove, Quiescent
<1>3. ASSUME NEW u \in Tasks PROVE Agree(u)'
  <2>1. CASE u = t
    <3>1. parentOf'[t] = None /\ parentField'[t] = None
      BY <1>2 DEF TypeOK
    <3>2. \A p \in Tasks : t \in children[p] => p = parentOf[t]
      BY <1>1 DEF Agree
    <3>3. \A p \in Tasks : t \notin children'[p]
      BY <1>2, <3>2
    <3>4. QED
      BY <2>1, <3>1, <3>3, HierarchyAssumption DEF Agree
  <2>2. CASE u # t
    <3>1. parentOf'[u] = parentOf[u] /\ parentField'[u] = parentField[u]
      BY <1>2, <2>2 DEF TypeOK
    <3>2. \A p \in Tasks : u \in children'[p] <=> u \in children[p]
      BY <1>2, <2>2
    <3>3. QED
      BY <1>1, <3>1, <3>2 DEF Agree
  <2>3. QED
    BY <2>1, <2>2
<1>4. MovingInv'
  BY <1>2 DEF MovingInv, Moving
<1>5. PresentInv'
  <2>1. \A u \in Tasks : parentField'[u] # t /\ parentField'[u] \in {parentField[u], None}
    BY <1>1, <1>2 DEF Agree, TypeOK
  <2>2. QED
    BY <1>1, <1>2, <2>1 DEF PresentInv, TypeOK
<1>6. QED
  BY <1>3, <1>4, <1>5 DEF AgreeInv

LEMMA LinkMaps ==
  ASSUME TypeOK, AgreeInv, MovingInv, PresentInv, Quiescent,
         NEW l \in Linkers, NEW t \in Tasks, NEW p \in Tasks, Link(l, t, p)
  PROVE  AgreeInv' /\ MovingInv' /\ PresentInv'
<1>1. /\ UNCHANGED maps
      /\ child'[l] = t /\ parent'[l] = p
      /\ \A k \in Linkers : pc'[k] \notin Moving
      /\ \A k \in Linkers \ {l} : pc'[k] = "idle"
      /\ {t, p} \subseteq present
  BY DEF Link, Quiescent, TypeOK, Moving
<1>2. \A u \in Tasks : Agree(u)
  BY DEF AgreeInv, Quiescent, Moving
<1>3. QED
  BY <1>1, <1>2 DEF AgreeInv, Agree, MovingInv, PresentInv, maps

\* The call that is under way goes one section further.
LEMMA LinkStepMaps ==
  ASSUME TypeOK, TypeOK', AgreeInv, MovingInv, PresentInv, OneLinker,
         NEW l \in Linkers, LinkStep(l)
  PROVE  AgreeInv' /\ MovingInv' /\ PresentInv'
<1> USE HierarchyAssumption
<1>1. /\ pc[l] # "idle" /\ child[l] \in Tasks /\ parent[l] \in Tasks
      /\ previous[l] \in Tasks \union {None}
      /\ \A k \in Linkers \ {l} : pc[k] = "idle" /\ pc'[k] = "idle"
  BY DEF OneLinker, TypeOK, LinkStep, Walk, Unlink, Index, Adopt, SetField, Goto, Return
<1>2. pc'[l] # "idle" => child' = child /\ parent' = parent
  BY DEF TypeOK, LinkStep, Walk, Unlink, Index, Adopt, SetField, Goto, Return
<1>3. PresentInv'
  <2>1. UNCHANGED present
    BY DEF LinkStep, Walk, Unlink, Index, Adopt, SetField, maps
  <2>2. \A u \in Tasks : parentOf'[u] \in {parentOf[u]} \union
                           (IF u = child[l] THEN {parent[l]} ELSE {})
    BY <1>1 DEF LinkStep, Walk, Unlink, Index, Adopt, SetField, maps, TypeOK
  <2>3. \A u \in Tasks : parentField'[u] \in {parentField[u], parent[l]}
    BY <1>1 DEF LinkStep, Walk, Unlink, Index, Adopt, SetField, maps, TypeOK
  <2>4. QED
    BY <1>1, <1>2, <2>1, <2>2, <2>3 DEF PresentInv
<1>4. ASSUME Walk(l) PROVE AgreeInv' /\ MovingInv'
  <2>1. UNCHANGED maps /\ pc[l] = "walk" /\ \A u \in Tasks : Agree(u)
    BY <1>1, <1>4 DEF Walk, AgreeInv, Moving
  <2>2. AgreeInv'
    BY <2>1 DEF AgreeInv, Agree, maps
  <2>3. pc'[l] \in Moving =>
          pc'[l] = "unlink" /\ previous'[l] = parentOf[child[l]] /\ child' = child
    BY <1>4 DEF Walk, Goto, Return, Moving, TypeOK
  <2>4. parentField[child[l]] = parentOf[child[l]]
    BY <1>1, <2>1 DEF Agree, TypeOK
  <2>5. MovingInv'
    BY <1>1, <2>1, <2>3, <2>4 DEF MovingInv, Moving, Agree, maps
  <2>6. QED
    BY <2>2, <2>5
<1>5. ASSUME ~Walk(l) PROVE AgreeInv' /\ MovingInv'
  <2> PICK c \in Tasks : c = child[l]
    BY <1>1
  <2>1. /\ pc[l] \in Moving
        /\ \A u \in Tasks \ {c} : Agree(u)
        /\ parentField[c] = previous[l]
    BY <1>1, <1>5
    DEF LinkStep, Unlink, Index, Adopt, SetField, Moving, AgreeInv, MovingInv
  <2>2. ASSUME NEW u \in Tasks \ {c}
        PROVE  /\ parentOf'[u] = parentOf[u] /\ parentField'[u] = parentField[u]
               /\ \A q \in Tasks : u \in children'[q] <=> u \in children[q]
    BY <1>1, <1>5 DEF LinkStep, Unlink, Index, Adopt, SetField, TypeOK
  <2>3. \A u \in Tasks \ {c} : Agree(u)'
    BY <2>1, <2>2 DEF Agree
  <2>4. CASE Unlink(l) \/ Index(l) \/ Adopt(l)
    <3>1. /\ pc'[l] \in Moving /\ child' = child /\ parent' = parent /\ previous' = previous
          /\ parentField' = parentField
      BY <2>4 DEF Unlink, Index, Adopt, Goto, TypeOK, Moving
    <3>2. AgreeInv'
      BY <1>1, <2>3, <3>1 DEF AgreeInv
    <3>3. CASE Unlink(l)
      <4>1. pc[l] = "unlink" /\ pc'[l] = "index" /\ UNCHANGED parentOf
        BY <3>3 DEF Unlink, Goto, TypeOK
      <4>2. parentOf[c] = previous[l] /\ \A q \in Tasks : c \in children[q] <=> q = previous[l]
        BY <4>1 DEF MovingInv, Moving
      <4>3. \A q \in Tasks : c \in children'[q] <=> q = previous[l] /\ q = parent[l]
        BY <3>3, <4>2 DEF Unlink, TypeOK
      <4>4. QED
        BY <1>1, <2>1, <3>1, <3>2, <4>1, <4>2, <4>3 DEF MovingInv, Moving
    <3>4. CASE Index(l)
      <4>1. pc[l] = "index" /\ pc'[l] = "adopt" /\ UNCHANGED children /\ parentOf'[c] = parent[l]
        BY <3>4 DEF Index, Goto, TypeOK
      <4>2. \A q \in Tasks : c \in children[q] <=> q = previous[l] /\ q = parent[l]
        BY <4>1 DEF MovingInv, Moving
      <4>3. QED
        BY <1>1, <2>1, <3>1, <3>2, <4>1, <4>2 DEF MovingInv, Moving
    <3>5. CASE Adopt(l)
      <4>1. pc[l] = "adopt" /\ pc'[l] = "field" /\ UNCHANGED parentOf
        BY <3>5 DEF Adopt, Goto, TypeOK
      <4>2. /\ parentOf[c] = parent[l]
            /\ \A q \in Tasks : c \in children[q] <=> q = previous[l] /\ q = parent[l]
        BY <4>1 DEF MovingInv, Moving
      <4>3. \A q \in Tasks : c \in children'[q] <=> q = parent[l]
        BY <3>5, <4>2 DEF Adopt, TypeOK
      <4>4. QED
        BY <1>1, <2>1, <3>1, <3>2, <4>1, <4>2, <4>3 DEF MovingInv, Moving
    <3>6. QED
      BY <2>4, <3>2, <3>3, <3>4, <3>5
  <2>5. CASE SetField(l)
    <3>1. /\ pc[l] = "field" /\ pc'[l] = "idle"
          /\ c \in present
          /\ parentField'[c] = parent[l]
          /\ UNCHANGED <<parentOf, children>>
      BY <1>1, <2>5 DEF SetField, Return, TypeOK, PresentInv
    <3>2. parentOf[c] = parent[l] /\ \A q \in Tasks : c \in children[q] <=> q = parent[l]
      BY <3>1 DEF MovingInv, Moving
    <3>3. Agree(c)'
      BY <3>1, <3>2 DEF Agree
    <3>4. QED
      BY <1>1, <2>3, <3>1, <3>3 DEF AgreeInv, MovingInv, Moving
  <2>6. QED
    BY <1>5, <2>4, <2>5 DEF LinkStep
<1>6. QED
  BY <1>3, <1>4, <1>5

LEMMA NextMaps ==
  ASSUME TypeOK, TypeOK', raced = "no" => OneLinker, MapsInv, [Next]_vars
  PROVE  MapsInv'
<1> SUFFICES ASSUME raced' = "no" PROVE AgreeInv' /\ MovingInv' /\ PresentInv'
  BY DEF MapsInv
<1>1. raced = "no"
  BY NextRaced
<1>2. OneLinker /\ AgreeInv /\ MovingInv /\ PresentInv
  BY <1>1 DEF MapsInv
<1>3. CASE UNCHANGED vars
  BY <1>2, <1>3 DEF vars, AgreeInv, Agree, MovingInv, PresentInv
<1>4. ASSUME NEW t \in Tasks, Remove(t) PROVE Quiescent
  BY <1>1, <1>4 DEF Remove
<1>5. ASSUME NEW l \in Linkers, NEW t \in Tasks, NEW p \in Tasks, Link(l, t, p)
      PROVE  Quiescent
  BY <1>1, <1>5 DEF Link
<1>6. QED
  BY <1>2, <1>3, <1>4, <1>5, CreateMaps, RemoveMaps, LinkMaps, LinkStepMaps DEF Next

\* No interleaving of creations and removals between calls, and no relinking,
\* leaves a parent in one index only or names one that is gone.
THEOREM MapsAgree == Spec => []IndexesAgree
<1>1. Init => MapsInv
  BY HierarchyAssumption
  DEF Init, MapsInv, AgreeInv, Agree, MovingInv, Moving, PresentInv
<1>2. SerialInv => TypeOK /\ (raced = "no" => OneLinker)
  BY DEF SerialInv, IInv
<1>3. MapsInv => IndexesAgree
  BY DEF MapsInv, AgreeInv, Agree, PresentInv, IndexesAgree, Quiescent, Moving
<1>4. QED
  BY <1>1, <1>2, <1>3, NextMaps, TypeInvariance, SerialInvariance, PTL DEF Spec
=============================================================================
