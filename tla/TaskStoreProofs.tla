-------------------------- MODULE TaskStoreProofs --------------------------
(***************************************************************************)
(* Proofs about TaskStore, for every set of tasks, sessions and threads,   *)
(* under crashes at any step.  A snapshot is taken under the tasks mutex,  *)
(* so it inherits what the slot map guarantees of the table: a working     *)
(* task owns its session's slot.                                           *)
(***************************************************************************)
EXTENDS TaskStore, TLAPS

\* The theory of the hierarchy, at the controller's table and threads.
TP == INSTANCE TaskHierarchyProofs
        WITH Linkers <- Threads, present <- {t \in Tasks : Exists(t)},
             pc <- link, raced <- tangled

\* The table part of the invariant: a working task owns the slot of its
\* session.  A task waiting for input need not: a restart drops its slot.
TableInv ==
  /\ status \in [Tasks -> TaskStatus \union {Absent}]
  /\ session \in [Tasks -> Sessions \union {None}]
  /\ errors \subseteq Tasks
  /\ slot \in [Sessions -> Tasks \union {None}]
  /\ \A t \in Tasks : status[t] # Absent <=> session[t] # None
  /\ \A t \in Tasks : status[t] = "working" => slot[session[t]] = t

\* What is known of a copy of the tasks, in a thread or on disk.
GoodCopy(d) ==
  /\ d \in Copies
  /\ \A t \in Tasks : d.status[t] = Absent => d.parentField[t] = None
  /\ \A t \in Tasks : d.status[t] # Absent <=> d.session[t] # None
  /\ OneWorkingEach(d)

CopiesInv ==
  /\ pc \in [Threads -> {"idle", "link", "collect", "save", "replace", "unlock"}]
  /\ snap \in [Threads -> Copies \union {None}]
  /\ \A th \in Threads : pc[th] \in {"save", "replace", "unlock"} => GoodCopy(snap[th])
  /\ disk # None => GoodCopy(disk)

\* The lock part: whoever is between the two ends of the lock file holds the
\* mutex.
WriterInv ==
  \A th \in Threads : pc[th] \in {"replace", "unlock"} => writer = th /\ lockFile

\* The hierarchy: as long as nothing overlaps a link_parent, the three maps agree
\* and no task, in memory or in a copy, names a parent that is gone.  A process
\* that is down has no hierarchy.
TreeInv ==
  /\ TP!TypeOK
  /\ tangled # "link" => TP!OneLinker
  /\ TP!MapsInv
  /\ ~up => /\ \A t \in Tasks : status[t] = Absent
            /\ \A t \in Tasks : parentField[t] = None /\ parentOf[t] = None /\ children[t] = {}
            /\ \A th \in Threads : pc[th] = "idle" /\ link[th] = "idle"

ParentsInv ==
  tangled = "no" =>
    /\ \A th \in Threads : pc[th] \in {"save", "replace", "unlock"} => ParentsPresent(snap[th])
    /\ disk # None => ParentsPresent(disk)

IInv == TableInv /\ TreeInv /\ CopiesInv /\ ParentsInv /\ WriterInv

----------------------------------------------------------------------------
\* Every section of the table (create_task, update_status, retry_task,
\* set_task_error, remove_task) keeps working tasks in their slots.
LEMMA UpdateKeepsTable ==
  ASSUME TableInv, NEW t \in Tasks, NEW to \in TaskStatus,
         Accepted(t, to), ApplyStatus(t, to), status[t] # to
  PROVE  TableInv'
<1> USE NoneAssumption DEF TableInv, Exists, Absent
<1>1. session[t] \in Sessions /\ status[t] # Absent
  BY DEF Accepted
<1>2. SlotAfter(t, to) \in Tasks \union {None}
  BY <1>1 DEF SlotAfter
<1>3. /\ status' = [status EXCEPT ![t] = to]
      /\ session' = session
      /\ errors' = errors
      /\ slot' = [slot EXCEPT ![session[t]] = SlotAfter(t, to)]
  BY DEF ApplyStatus
<1>4. to = "working" => SlotAfter(t, to) = t /\ slot[session[t]] \in {None, t}
  BY DEF Accepted, SlotAfter, SlotAvailable
<1>5. to # "working" => SlotAfter(t, to) \in {slot[session[t]], None}
                        /\ (SlotAfter(t, to) = slot[session[t]] \/ slot[session[t]] = t)
  BY DEF SlotAfter
<1>6. \A u \in Tasks : status'[u] = "working" => slot'[session'[u]] = u
  <2> SUFFICES ASSUME NEW u \in Tasks, status'[u] = "working"
               PROVE  slot'[session'[u]] = u
    OBVIOUS
  <2>1. CASE u = t
    BY <1>1, <1>3, <1>4, <2>1
  <2>2. CASE u # t
    <3>1. status[u] = "working" /\ slot[session[u]] = u /\ session[u] \in Sessions
      BY <1>3, <2>2
    <3>2. QED
      BY <1>1, <1>3, <1>4, <1>5, <2>2, <3>1
  <2>3. QED
    BY <2>1, <2>2
<1>7. \A u \in Tasks : status'[u] # Absent <=> session'[u] # None
  BY <1>1, <1>3 DEF TaskStatus
<1>8. QED
  BY <1>1, <1>2, <1>3, <1>6, <1>7

LEMMA OtherSectionsKeepTable ==
  ASSUME TableInv, NEW t \in Tasks,
         \/ \E s \in Sessions, st \in InitialStatuses : CreateTask(t, s, st)
         \/ RetryTask(t)
         \/ SetTaskError(t)
         \/ RemoveTask(t)
  PROVE  TableInv'
<1> USE NoneAssumption, CallerAssumption
    DEF TableInv, Exists, Absent, TaskStatus, ActiveStatus
<1>1. ASSUME NEW s \in Sessions, NEW st \in InitialStatuses, CreateTask(t, s, st)
      PROVE  TableInv'
  BY <1>1 DEF CreateTask
<1>2. CASE RetryTask(t)
  BY <1>2 DEF RetryTask
<1>3. CASE SetTaskError(t)
  BY <1>3 DEF SetTaskError
<1>4. CASE RemoveTask(t)
  BY <1>4 DEF RemoveTask
<1>5. QED
  BY <1>1, <1>2, <1>3, <1>4

\* A copy taken while the table's mutex is held passes the restart validation.
LEMMA SnapshotIsGood ==
  ASSUME TableInv, TP!TypeOK
  PROVE  GoodCopy(Snapshot)
BY DEF TableInv, GoodCopy, Copies, Snapshot, OneWorkingEach, TP!TypeOK, Exists

LEMMA SnapshotHasParents ==
  ASSUME TreeInv, tangled = "no"
  PROVE  ParentsPresent(Snapshot)
BY DEF TreeInv, TP!MapsInv, TP!PresentInv, TP!TypeOK, ParentsPresent, Snapshot, Exists

----------------------------------------------------------------------------
LEMMA InitIInv == Init => IInv
<1> SUFFICES ASSUME Init PROVE IInv
  OBVIOUS
<1> USE NoneAssumption DEF Init
<1>1. TableInv /\ CopiesInv /\ ParentsInv /\ WriterInv
  BY DEF EmptyTable, TableInv, CopiesInv, ParentsInv, WriterInv, Absent
<1>2. TreeInv
  BY DEF EmptyTable, TreeInv, TP!TypeOK, TP!Labels, TP!OneLinker, TP!MapsInv, TP!AgreeInv,
     TP!Agree, TP!MovingInv, TP!Moving, TP!PresentInv, Exists, Absent
<1>3. QED
  BY <1>1, <1>2 DEF IInv

\* Every step of the store but the end and the start of the process is a step of
\* the hierarchy or leaves it alone.
LEMMA StoreStepIsTreeStep ==
  ASSUME [Next]_vars, ~Crash, ~Restart, TableInv
  PROVE  [TP!Next]_TP!vars
<1>1. ASSUME UNCHANGED <<status, treeVars>> PROVE UNCHANGED TP!vars
  BY <1>1 DEF treeVars, links, TP!vars, Exists
<1>2. ASSUME NEW th \in Threads, Change(th) PROVE TP!Next \/ UNCHANGED TP!vars
  <2>1. PICK t \in Tasks :
          \/ Tree!Create(t)
          \/ Tree!Remove(t)
          \/ /\ \/ \E to \in StoreStatuses : ChangeStatus(t, to)
                \/ RetryTask(t)
                \/ Exists(t) /\ SetTaskError(t)
             /\ UNCHANGED treeVars
    BY <1>2 DEF Change
  <2>2. CASE Tree!Create(t) \/ Tree!Remove(t)
    BY <2>2 DEF TP!Next, Tree!Create, TP!Create, Tree!Remove, TP!Remove, Tree!MapStuck,
       TP!MapStuck, Tree!Quiescent, TP!Quiescent
  <2>3. ASSUME NEW to \in StoreStatuses, ChangeStatus(t, to), UNCHANGED treeVars
        PROVE  UNCHANGED TP!vars
    <3>1. \A u \in Tasks : Exists(u)' <=> Exists(u)
      <4>1. Absent \notin StoreStatuses
        BY CallerAssumption DEF StoreStatuses, TaskStatus, Absent
      <4>2. QED
        BY <2>3, <4>1 DEF ChangeStatus, Accepted, ApplyStatus, Exists, TableInv
    <3>2. {u \in Tasks : Exists(u)}' = {u \in Tasks : Exists(u)}
      BY <3>1
    <3>3. QED
      BY <2>3, <3>2 DEF treeVars, links, TP!vars
  <2>4. ASSUME RetryTask(t) \/ (Exists(t) /\ SetTaskError(t)), UNCHANGED treeVars
        PROVE  UNCHANGED TP!vars
    <3>1. \A u \in Tasks : Exists(u)' <=> Exists(u)
      BY <2>4 DEF RetryTask, SetTaskError, Exists, Absent, TableInv
    <3>2. {u \in Tasks : Exists(u)}' = {u \in Tasks : Exists(u)}
      BY <3>1
    <3>3. QED
      BY <2>4, <3>2 DEF treeVars, links, TP!vars
  <2>5. QED
    BY <2>1, <2>2, <2>3, <2>4
<1>3. ASSUME NEW th \in Threads, BeginLink(th) PROVE TP!Next
  BY <1>3 DEF BeginLink, Tree!Link, TP!Link, TP!Next, Tree!maps, TP!maps, Tree!Quiescent,
     TP!Quiescent
<1>4. ASSUME NEW th \in Threads, ContinueLink(th) PROVE TP!Next
  <2>1. Tree!LinkStep(th)
    BY <1>4 DEF ContinueLink, Tree!LinkStep
  <2>2. TP!LinkStep(th)
    BY <2>1
    DEF Tree!LinkStep, Tree!Walk, Tree!Unlink, Tree!Index, Tree!Adopt, Tree!SetField,
        Tree!Goto, Tree!Return, Tree!MapStuck, Tree!Chain, Tree!Closed, Tree!maps,
        TP!LinkStep, TP!Walk, TP!Unlink, TP!Index, TP!Adopt, TP!SetField,
        TP!Goto, TP!Return, TP!MapStuck, TP!Chain, TP!Closed, TP!maps
  <2>3. QED
    BY <2>2 DEF TP!Next
<1>5. ASSUME NEW th \in Threads,
             Collect(th) \/ OpenLock(th) \/ Replace(th) \/ Unlock(th)
      PROVE  UNCHANGED TP!vars
  BY <1>1, <1>5 DEF Collect, OpenLock, Replace, Unlock, tableVars
<1>6. CASE UNCHANGED vars
  BY <1>1, <1>6 DEF vars, treeVars, links
<1>7. QED
  BY <1>2, <1>3, <1>4, <1>5, <1>6 DEF Next

\* What the process has up to: it is up in every one of those steps.
LEMMA TreeKeeps ==
  ASSUME IInv, [Next]_vars, ~Crash, ~Restart
  PROVE  TreeInv' /\ (tangled' = "no" => tangled = "no")
<1> USE NoneAssumption
<1>1. TableInv /\ TreeInv
  BY DEF IInv
<1>2. [TP!Next]_TP!vars
  BY <1>1, StoreStepIsTreeStep
<1>3. TP!TypeOK'
  BY <1>1, <1>2, TP!NextType DEF TreeInv
<1>4. /\ tangled' # "link" => tangled # "link"
      /\ tangled' = "no" => tangled = "no"
  BY <1>2, TP!NextRaced
<1>5. tangled' # "link" => TP!OneLinker'
  BY <1>1, <1>2, <1>4, TP!NextOneLinker DEF TreeInv
<1>6. TP!MapsInv'
  BY <1>1, <1>2, <1>3, TP!NextMaps DEF TreeInv
<1>7. up' = up /\ (~up => UNCHANGED vars)
  BY <1>1 DEF TreeInv, Next, Change, BeginLink, ContinueLink, Collect, OpenLock, Replace,
     Unlock, vars
<1>8. QED
  BY <1>1, <1>3, <1>4, <1>5, <1>6, <1>7 DEF TreeInv, vars

\* The parts that do not speak of the hierarchy.
LEMMA ChangeKeeps ==
  ASSUME IInv, NEW th \in Threads, Change(th)
  PROVE  TableInv' /\ CopiesInv' /\ WriterInv'
<1>1. TableInv /\ CopiesInv /\ WriterInv
  BY DEF IInv
<1>2. TableInv'
  <2>1. PICK t \in Tasks :
          \/ \E s \in Sessions, st \in InitialStatuses : CreateTask(t, s, st)
          \/ \E to \in StoreStatuses : ChangeStatus(t, to)
          \/ RetryTask(t)
          \/ Exists(t) /\ SetTaskError(t)
          \/ RemoveTask(t)
    BY DEF Change
  <2>2. ASSUME NEW to \in StoreStatuses, ChangeStatus(t, to) PROVE TableInv'
    <3>1. to \in TaskStatus
      BY CallerAssumption DEF StoreStatuses, TaskStatus
    <3>2. QED
      BY <1>1, <2>2, <3>1, UpdateKeepsTable DEF ChangeStatus
  <2>3. QED
    BY <1>1, <2>1, <2>2, OtherSectionsKeepTable
<1>3. CopiesInv' /\ WriterInv'
  BY <1>1 DEF Change, CopiesInv, WriterInv
<1>4. QED
  BY <1>2, <1>3

\* link_parent writes neither statuses nor slots.
LEMMA LinkKeeps ==
  ASSUME IInv, NEW th \in Threads, BeginLink(th) \/ ContinueLink(th)
  PROVE  TableInv' /\ CopiesInv' /\ WriterInv'
<1>1. TableInv /\ CopiesInv /\ WriterInv
  BY DEF IInv
<1>2. /\ UNCHANGED <<tableVars, snap, disk, writer, lockFile>>
      /\ \E l \in {"idle", "link", "collect"} : pc' = [pc EXCEPT ![th] = l]
  BY DEF BeginLink, ContinueLink
<1>3. QED
  BY <1>1, <1>2 DEF TableInv, CopiesInv, WriterInv, tableVars

\* The four steps of persist leave the table alone.
LEMMA PersistKeeps ==
  ASSUME IInv, NEW th \in Threads,
         Collect(th) \/ OpenLock(th) \/ Replace(th) \/ Unlock(th)
  PROVE  TableInv' /\ CopiesInv' /\ WriterInv'
<1>1. TableInv /\ CopiesInv /\ WriterInv /\ TP!TypeOK
  BY DEF IInv, TreeInv
<1>2. TableInv'
  BY <1>1 DEF TableInv, Collect, OpenLock, Replace, Unlock, tableVars
<1>3. CASE Collect(th)
  <2>1. GoodCopy(Snapshot)
    BY <1>1, SnapshotIsGood
  <2>2. CopiesInv'
    BY <1>1, <1>3, <2>1 DEF CopiesInv, Collect, GoodCopy
  <2>3. WriterInv'
    BY <1>1, <1>3 DEF WriterInv, CopiesInv, Collect
  <2>4. QED
    BY <1>2, <2>2, <2>3
<1>4. CASE OpenLock(th)
  <2>1. CopiesInv'
    BY <1>1, <1>4 DEF CopiesInv, OpenLock, Finish
  <2>2. WriterInv'
    BY <1>1, <1>4, NoneAssumption DEF WriterInv, CopiesInv, OpenLock, Finish
  <2>3. QED
    BY <1>2, <2>1, <2>2
<1>5. CASE Replace(th)
  <2>1. CopiesInv'
    BY <1>1, <1>5 DEF CopiesInv, Replace
  <2>2. WriterInv'
    BY <1>1, <1>5 DEF WriterInv, CopiesInv, Replace
  <2>3. QED
    BY <1>2, <2>1, <2>2
<1>6. CASE Unlock(th)
  <2>1. CopiesInv'
    BY <1>1, <1>6 DEF CopiesInv, Unlock, Finish
  <2>2. WriterInv'
    BY <1>1, <1>6 DEF WriterInv, CopiesInv, Unlock, Finish
  <2>3. QED
    BY <1>2, <2>1, <2>2
<1>7. QED
  BY <1>3, <1>4, <1>5, <1>6

\* A copy takes the parents as the tasks name them; the disk takes a copy.
LEMMA ParentsKeep ==
  ASSUME IInv, [Next]_vars, ~Crash, ~Restart
  PROVE  ParentsInv'
<1> SUFFICES ASSUME tangled' = "no"
             PROVE  ParentsInv'
  BY DEF ParentsInv
<1>1. TreeInv /\ CopiesInv /\ tangled = "no" /\ ParentsInv
  BY TreeKeeps DEF IInv
<1>2. ParentsPresent(Snapshot)
  BY <1>1, SnapshotHasParents
<1>3. ASSUME NEW th \in Threads, Collect(th) PROVE ParentsInv'
  BY <1>1, <1>2, <1>3 DEF Collect, ParentsInv, CopiesInv
<1>4. ASSUME NEW th \in Threads, Replace(th) PROVE ParentsInv'
  BY <1>1, <1>4 DEF Replace, ParentsInv, CopiesInv
<1>5. ASSUME NEW th \in Threads, OpenLock(th) \/ Unlock(th) PROVE ParentsInv'
  BY <1>1, <1>5 DEF OpenLock, Unlock, Finish, ParentsInv, CopiesInv
<1>6. ASSUME NEW th \in Threads, Change(th) \/ BeginLink(th) \/ ContinueLink(th)
      PROVE  ParentsInv'
  <2>1. /\ UNCHANGED <<snap, disk>>
        /\ \A u \in Threads : pc'[u] \in {"save", "replace", "unlock"} => pc'[u] = pc[u]
    BY <1>1, <1>6 DEF Change, BeginLink, ContinueLink, CopiesInv
  <2>2. QED
    BY <1>1, <2>1 DEF ParentsInv
<1>7. CASE UNCHANGED vars
  BY <1>1, <1>7 DEF vars, ParentsInv
<1>8. QED
  BY <1>3, <1>4, <1>5, <1>6, <1>7 DEF Next

LEMMA CrashKeeps == ASSUME IInv, Crash PROVE IInv'
<1> USE NoneAssumption
<1>1. TableInv' /\ CopiesInv' /\ WriterInv' /\ ParentsInv'
  BY DEF IInv, TableInv, CopiesInv, WriterInv, ParentsInv, Crash, Absent
<1>2. TreeInv'
  BY DEF IInv, TreeInv, Crash, TP!TypeOK, TP!Labels, TP!OneLinker, TP!MapsInv, TP!AgreeInv,
     TP!Agree, TP!MovingInv, TP!Moving, TP!PresentInv, Exists, Absent
<1>3. QED
  BY <1>1, <1>2 DEF IInv

\* A restart rebuilds the slots of the working tasks, one per session, and the two
\* indexes of the hierarchy.
LEMMA RestartKeeps ==
  ASSUME IInv, Restart
  PROVE  IInv'
<1>1. TableInv /\ TreeInv /\ CopiesInv /\ ParentsInv /\ WriterInv /\ ~up
  BY DEF IInv, Restart
<1>2. CopiesInv' /\ WriterInv'
  BY <1>1 DEF CopiesInv, WriterInv, Restart, storeVars
<1>3. UNCHANGED <<pc, snap, disk, links>> /\ \A th \in Threads : pc[th] = "idle" /\ link[th] = "idle"
  BY <1>1 DEF Restart, RestoreTree, storeVars, treeVars, TreeInv
<1>4. CASE disk = None
  <2>1. UNCHANGED <<tableVars, parentField, parentOf, children, links>> /\ up' /\ tangled' = "no"
    BY <1>4 DEF Restart
  <2>2. TableInv' /\ ParentsInv'
    BY <1>1, <1>3, <1>4, <2>1 DEF TableInv, tableVars, ParentsInv
  <2>3. TP!TypeOK'
    BY <1>1, <2>1 DEF TreeInv, TP!TypeOK, Exists, tableVars, links
  <2>4. TP!OneLinker' /\ TP!MapsInv'
    BY <1>1, <1>3, <2>1, NoneAssumption
    DEF TreeInv, links, TP!OneLinker, TP!MapsInv, TP!AgreeInv, TP!Agree, TP!MovingInv,
        TP!Moving, TP!PresentInv
  <2>5. QED
    BY <1>2, <2>1, <2>2, <2>3, <2>4 DEF IInv, TreeInv
<1>5. CASE disk # None /\ Restorable(disk) /\ up'
  <2>1. /\ status' = disk.status
        /\ session' = disk.session
        /\ errors' = disk.errors
        /\ slot' = RestoredSlot(disk)
        /\ RestoreTree(disk)
    BY <1>1, <1>5 DEF Restart
  <2>2. GoodCopy(disk)
    BY <1>1, <1>5 DEF CopiesInv
  <2>3. \A s \in Sessions : RestoredSlot(disk)[s] \in Tasks \union {None}
    BY DEF RestoredSlot, WorkingIn
  <2>4. slot' \in [Sessions -> Tasks \union {None}]
    BY <2>1, <2>3 DEF RestoredSlot
  <2>5. ASSUME NEW t \in Tasks, disk.status[t] = "working"
        PROVE  RestoredSlot(disk)[disk.session[t]] = t
    <3>1. disk.session[t] \in Sessions
      BY <2>2, <2>5 DEF GoodCopy, Copies, Absent
    <3>2. WorkingIn(disk, disk.session[t]) = {t}
      BY <2>2, <2>5, <3>1 DEF GoodCopy, OneWorkingEach, WorkingIn
    <3>3. QED
      BY <3>1, <3>2 DEF RestoredSlot
  <2>6. TableInv'
    BY <2>1, <2>2, <2>4, <2>5 DEF TableInv, GoodCopy, Copies
  <2>7. ParentsInv'
    BY <1>3, <1>5 DEF ParentsInv, Restorable
  <2>8. /\ parentField' \in [Tasks -> Tasks \union {None}]
        /\ parentOf' = parentField'
        /\ children' = [p \in Tasks |-> {t \in Tasks : parentField'[t] = p}]
        /\ \A t \in Tasks : ~Exists(t)' => parentField'[t] = None
        /\ \A t, p \in Tasks : parentField'[t] = p => Exists(t)' /\ Exists(p)'
    BY <1>5, <2>1, <2>2, NoneAssumption
    DEF RestoreTree, Restorable, ParentsPresent, GoodCopy, Copies, Exists
  <2>9. TP!TypeOK'
    BY <1>1, <1>3, <2>1, <2>8 DEF TreeInv, TP!TypeOK, TP!Labels, links, RestoreTree
  <2>10. TP!OneLinker' /\ TP!MapsInv'
    BY <1>3, <2>8
    DEF links, TP!OneLinker, TP!MapsInv, TP!AgreeInv, TP!Agree, TP!MovingInv, TP!Moving,
        TP!PresentInv
  <2>11. QED
    BY <1>2, <1>5, <2>6, <2>7, <2>9, <2>10 DEF IInv, TreeInv
<1>6. CASE UNCHANGED <<tableVars, treeVars, up>>
  <2>1. UNCHANGED vars
    BY <1>6 DEF Restart, storeVars, tableVars, treeVars, links, vars
  <2>2. TP!TypeOK' /\ TP!OneLinker' = TP!OneLinker /\ TP!MapsInv' = TP!MapsInv
    BY <1>1, <2>1
    DEF vars, TreeInv, TP!TypeOK, TP!OneLinker, TP!MapsInv, TP!AgreeInv, TP!Agree,
        TP!MovingInv, TP!PresentInv, Exists
  <2>3. QED
    BY <1>1, <1>2, <2>1, <2>2 DEF vars, IInv, TableInv, TreeInv, ParentsInv
<1>7. QED
  BY <1>4, <1>5, <1>6 DEF Restart

LEMMA NextIInv == IInv /\ [Next]_vars => IInv'
<1> SUFFICES ASSUME IInv, [Next]_vars PROVE IInv'
  OBVIOUS
<1>1. CASE Crash \/ Restart
  BY <1>1, CrashKeeps, RestartKeeps
<1>2. CASE ~Crash /\ ~Restart
  <2>1. TreeInv' /\ ParentsInv'
    BY <1>2, TreeKeeps, ParentsKeep
  <2>2. CASE UNCHANGED vars
    BY <2>1, <2>2 DEF vars, IInv, TableInv, CopiesInv, WriterInv
  <2>3. QED
    BY <1>2, <2>1, <2>2, ChangeKeeps, LinkKeeps, PersistKeeps DEF Next, IInv
<1>3. QED
  BY <1>1, <1>2

THEOREM Invariance == Spec => []IInv
BY InitIInv, NextIInv, PTL DEF Spec

\* No interleaving of saves and no crash leaves a snapshot with two working tasks
\* of one session; and none with a missing parent, which the next start would
\* refuse, as long as no removal and no second link_parent fell inside one.
THEOREM AlwaysRestorable == Spec => []SnapshotRestorable
<1>1. IInv => SnapshotRestorable
  BY DEF IInv, CopiesInv, ParentsInv, GoodCopy, SnapshotRestorable
<1>2. QED
  BY <1>1, Invariance, PTL

\* Two tasks of one session never work together, across restarts.
THEOREM OneWorking == Spec => []OneWorkingPerSession
<1>1. IInv => OneWorkingPerSession
  BY SnapshotIsGood DEF IInv, TreeInv, GoodCopy, OneWorkingPerSession
<1>2. QED
  BY <1>1, Invariance, PTL

\* The temporary file and the snapshot have one writer at a time.
THEOREM SingleWriter == Spec => []OneWriter
<1>1. IInv => OneWriter
  BY DEF IInv, WriterInv, OneWriter
<1>2. QED
  BY <1>1, Invariance, PTL

----------------------------------------------------------------------------
(* The types, and what a restart rebuilds.                                 *)

\* Only tasks that are there carry an error.
ErrorsInv == errors \subseteq {t \in Tasks : status[t] # Absent}

\* A slot is owned by a task of its session that works or waits for input.
Owned(st, ss, sl) ==
  \A s \in Sessions : sl[s] # None => ss[sl[s]] = s /\ st[sl[s]] \in ActiveStatus

\* A copy that was taken with every slot owned, and every working task in its slot.
Faithful(d) ==
  /\ Owned(d.status, d.session, d.indexed)
  /\ \A t \in Tasks : d.status[t] = "working" => d.indexed[d.session[t]] = t

SlotInv ==
  /\ Owned(status, session, slot)
  /\ \A th \in Threads : pc[th] \in {"save", "replace", "unlock"} => Faithful(snap[th])
  /\ disk # None => Faithful(disk)

\* The sections of the table leave every slot with its owner.
LEMMA UpdateKeepsOwners ==
  ASSUME TableInv, Owned(status, session, slot), NEW t \in Tasks, NEW to \in TaskStatus,
         Accepted(t, to), ApplyStatus(t, to), status[t] # to
  PROVE  Owned(status', session', slot')
<1> USE NoneAssumption DEF TableInv, Exists
<1>1. session[t] \in Sessions /\ status[t] # Absent
  BY DEF Accepted
<1>2. /\ status' = [status EXCEPT ![t] = to]
      /\ session' = session
      /\ slot' = [slot EXCEPT ![session[t]] = SlotAfter(t, to)]
  BY DEF ApplyStatus
<1>3. to \in AllowedTransitions(status[t])
  BY DEF Accepted
<1>4. slot[session[t]] = t /\ to \notin ActiveStatus => SlotAfter(t, to) = None
  <2>1. ASSUME slot[session[t]] = t, to \notin ActiveStatus
        PROVE  to \in {"completed", "failed", "canceled", "paused"}
    BY <1>1, <1>3, <2>1 DEF Owned, ActiveStatus, AllowedTransitions
  <2>2. QED
    BY <2>1 DEF SlotAfter, ActiveStatus
<1>5. SlotAfter(t, to) \in {None, t, slot[session[t]]} /\ (SlotAfter(t, to) = t => to \in ActiveStatus)
  BY <1>4 DEF SlotAfter, ActiveStatus
<1> SUFFICES ASSUME NEW s \in Sessions, slot'[s] # None
             PROVE  session'[slot'[s]] = s /\ status'[slot'[s]] \in ActiveStatus
  BY DEF Owned
<1>6. CASE s = session[t] /\ slot'[s] = t
  BY <1>1, <1>2, <1>5, <1>6
<1>7. CASE ~(s = session[t] /\ slot'[s] = t)
  <2>1. slot'[s] = slot[s] /\ slot[s] \in Tasks
    BY <1>1, <1>2, <1>5, <1>7
  <2>2. slot[s] # t
    BY <1>7, <2>1 DEF Owned
  <2>3. QED
    BY <1>2, <2>1, <2>2 DEF Owned
<1>8. QED
  BY <1>6, <1>7

LEMMA OtherSectionsKeepOwners ==
  ASSUME TableInv, Owned(status, session, slot), NEW t \in Tasks,
         \/ \E s \in Sessions, st \in InitialStatuses : CreateTask(t, s, st)
         \/ RetryTask(t)
         \/ SetTaskError(t)
         \/ RemoveTask(t)
  PROVE  Owned(status', session', slot')
<1> USE NoneAssumption DEF TableInv, Exists, Absent, ActiveStatus, Owned
<1>1. ASSUME NEW s \in Sessions, NEW st \in InitialStatuses, CreateTask(t, s, st)
      PROVE  Owned(status', session', slot')
  BY <1>1 DEF CreateTask
<1>2. CASE RetryTask(t)
  BY <1>2 DEF RetryTask
<1>3. CASE SetTaskError(t)
  BY <1>3 DEF SetTaskError
<1>4. CASE RemoveTask(t)
  BY <1>4 DEF RemoveTask
<1>5. QED
  BY <1>1, <1>2, <1>3, <1>4

LEMMA ErrorsKeep ==
  ASSUME TableInv, ErrorsInv, NEW th \in Threads, Change(th)
  PROVE  ErrorsInv'
<1> USE NoneAssumption, CallerAssumption DEF TableInv, ErrorsInv, Exists, Absent, TaskStatus
<1>1. PICK t \in Tasks :
        \/ \E s \in Sessions, st \in InitialStatuses : CreateTask(t, s, st)
        \/ \E to \in StoreStatuses : ChangeStatus(t, to)
        \/ RetryTask(t)
        \/ Exists(t) /\ SetTaskError(t)
        \/ RemoveTask(t)
  BY DEF Change
<1>2. ASSUME NEW s \in Sessions, NEW st \in InitialStatuses, CreateTask(t, s, st)
      PROVE  ErrorsInv'
  BY <1>2 DEF CreateTask, ActiveStatus
<1>3. ASSUME NEW to \in StoreStatuses, ChangeStatus(t, to) PROVE ErrorsInv'
  BY <1>3 DEF ChangeStatus, ApplyStatus, StoreStatuses
<1>4. CASE RetryTask(t) \/ RemoveTask(t) \/ (Exists(t) /\ SetTaskError(t))
  BY <1>4 DEF RetryTask, RemoveTask, SetTaskError
<1>5. QED
  BY <1>1, <1>2, <1>3, <1>4

LEMMA SlotStep == IInv /\ SlotInv /\ [Next]_vars => SlotInv'
<1> SUFFICES ASSUME IInv, SlotInv, [Next]_vars PROVE SlotInv'
  OBVIOUS
<1>1. TableInv /\ CopiesInv
  BY DEF IInv
<1>2. Faithful(Snapshot)
  BY <1>1 DEF Faithful, Snapshot, TableInv, SlotInv
<1>3. ASSUME NEW th \in Threads, Change(th) PROVE SlotInv'
  <2>1. PICK t \in Tasks :
          \/ \E s \in Sessions, st \in InitialStatuses : CreateTask(t, s, st)
          \/ \E to \in StoreStatuses : ChangeStatus(t, to)
          \/ RetryTask(t)
          \/ Exists(t) /\ SetTaskError(t)
          \/ RemoveTask(t)
    BY <1>3 DEF Change
  <2>2. ASSUME NEW to \in StoreStatuses, ChangeStatus(t, to)
        PROVE  Owned(status', session', slot')
    <3>1. to \in TaskStatus
      BY CallerAssumption DEF StoreStatuses, TaskStatus
    <3>2. QED
      BY <1>1, <2>2, <3>1, UpdateKeepsOwners DEF ChangeStatus, SlotInv
  <2>3. Owned(status', session', slot')
    BY <1>1, <2>1, <2>2, OtherSectionsKeepOwners DEF SlotInv
  <2>4. /\ UNCHANGED <<snap, disk>>
        /\ \A u \in Threads : pc'[u] \in {"save", "replace", "unlock"} => pc'[u] = pc[u]
    BY <1>1, <1>3 DEF Change, CopiesInv
  <2>5. QED
    BY <2>3, <2>4 DEF SlotInv
<1>4. ASSUME NEW th \in Threads, Collect(th) PROVE SlotInv'
  BY <1>1, <1>2, <1>4 DEF Collect, SlotInv, CopiesInv, tableVars
<1>5. ASSUME NEW th \in Threads, OpenLock(th) PROVE SlotInv'
  BY <1>1, <1>5 DEF OpenLock, Finish, SlotInv, CopiesInv, tableVars
<1>6. ASSUME NEW th \in Threads, Replace(th) PROVE SlotInv'
  BY <1>1, <1>6 DEF Replace, SlotInv, CopiesInv, tableVars
<1>7. ASSUME NEW th \in Threads, Unlock(th) PROVE SlotInv'
  BY <1>1, <1>7 DEF Unlock, Finish, SlotInv, CopiesInv, tableVars
<1>8. CASE Crash
  BY <1>8 DEF Crash, SlotInv, Owned
<1>12. ASSUME NEW th \in Threads, BeginLink(th) \/ ContinueLink(th) PROVE SlotInv'
  <2>1. /\ UNCHANGED <<tableVars, snap, disk>>
        /\ \A u \in Threads : pc'[u] \in {"save", "replace", "unlock"} => pc'[u] = pc[u]
    BY <1>1, <1>12 DEF BeginLink, ContinueLink, CopiesInv
  <2>2. QED
    BY <2>1 DEF SlotInv, tableVars
<1>9. CASE Restart
  <2>1. UNCHANGED <<pc, snap, disk>>
    BY <1>9 DEF Restart, storeVars
  <2>2. Owned(status', session', slot')
    <3>1. CASE UNCHANGED tableVars
      BY <3>1 DEF SlotInv, tableVars
    <3>2. CASE status' = disk.status /\ session' = disk.session /\ slot' = RestoredSlot(disk)
      BY <3>2 DEF Owned, RestoredSlot, WorkingIn, ActiveStatus
    <3>3. QED
      BY <1>9, <3>1, <3>2 DEF Restart
  <2>3. QED
    BY <2>1, <2>2 DEF SlotInv
<1>10. CASE UNCHANGED vars
  BY <1>10 DEF vars, SlotInv
<1>11. QED
  BY <1>3, <1>4, <1>5, <1>6, <1>7, <1>8, <1>9, <1>10, <1>12 DEF Next

THEOREM SlotInvariance == Spec => []SlotInv
<1>1. Init => SlotInv
  BY DEF Init, EmptyTable, SlotInv, Owned
<1>2. QED
  BY <1>1, SlotStep, Invariance, PTL DEF Spec

\* A restart gives back the working index as it was when the snapshot was taken,
\* in every session of which no task waits for input.
THEOREM RestartGivesBackSlots == Spec => RestartKeepsWorkingSlots
<1>1. ASSUME IInv, SlotInv, [Next]_vars, ~up, up', disk # None, NEW s \in Sessions,
             \A t \in Tasks : disk.session[t] = s => disk.status[t] # "input-required"
      PROVE  slot'[s] = disk.indexed[s]
  <2>1. Restart /\ slot' = RestoredSlot(disk)
    BY <1>1 DEF Next, Change, BeginLink, ContinueLink, Collect, OpenLock, Replace, Unlock,
       Crash, Restart, vars
  <2>2. GoodCopy(disk) /\ Faithful(disk)
    BY <1>1 DEF IInv, CopiesInv, SlotInv
  <2>3. disk.indexed[s] \in Tasks \union {None}
    BY <2>2 DEF GoodCopy, Copies
  <2>4. CASE WorkingIn(disk, s) = {}
    <3>1. disk.indexed[s] = None
      BY <1>1, <2>2, <2>3, <2>4 DEF Faithful, Owned, WorkingIn, ActiveStatus
    <3>2. QED
      BY <2>1, <2>4, <3>1 DEF RestoredSlot
  <2>5. CASE WorkingIn(disk, s) # {}
    <3>1. \A t \in WorkingIn(disk, s) : disk.indexed[s] = t
      BY <2>2 DEF Faithful, WorkingIn
    <3>2. RestoredSlot(disk)[s] \in WorkingIn(disk, s)
      BY <2>5 DEF RestoredSlot
    <3>3. QED
      BY <2>1, <3>1, <3>2
  <2>6. QED
    BY <2>4, <2>5
<1>2. IInv /\ SlotInv /\ [Next]_vars =>
        [~up /\ up' /\ disk # None =>
           \A s \in Sessions :
             (\A t \in Tasks : disk.session[t] = s => disk.status[t] # "input-required")
             => slot'[s] = disk.indexed[s]]_vars
  BY <1>1
<1>3. QED
  BY <1>2, Invariance, SlotInvariance, PTL DEF Spec, RestartKeepsWorkingSlots

----------------------------------------------------------------------------
(* What a call acknowledged is on disk while no change overlapped a persist. *)

\* The disk tells what the table and the hierarchy hold.
Matches ==
  IF disk = None THEN \A t \in Tasks : ~Exists(t)
  ELSE /\ disk.status = status
       /\ disk.errors = errors
       /\ disk.parentField = parentField

\* The process is down: nothing is in memory.
DownInv ==
  ~up => /\ \A t \in Tasks : status[t] = Absent
         /\ \A th \in Threads : pc[th] = "idle"
         /\ ~raced

\* One thread persists at a time, and its copy is the table as it still is: a
\* difference between table and disk is either in that thread's hands or was
\* reported to a caller.
OnePersists ==
  \A th, tk \in Threads : Persisting(th) /\ Persisting(tk) => th = tk

CopyIsCurrent ==
  \A th \in Threads : pc[th] \in {"save", "replace"} =>
    /\ snap[th].status = status
    /\ snap[th].errors = errors
    /\ snap[th].parentField = parentField

WrittenMatches ==
  \A th \in Threads : pc[th] = "unlock" /\ outcome[th] = "ok" => Matches

IdleMatches ==
  up /\ (\A th \in Threads : ~Persisting(th)) =>
    Matches \/ \E th \in Threads : outcome[th] # "ok"

SerialInv == ~raced => OnePersists /\ CopyIsCurrent /\ WrittenMatches /\ IdleMatches

DurableInv == outcome \in [Threads -> {"ok", "error"}] /\ DownInv /\ SerialInv

LEMMA DurableStep == IInv /\ DurableInv /\ [Next]_vars => DurableInv'
<1> SUFFICES ASSUME IInv, DurableInv, [Next]_vars PROVE DurableInv'
  OBVIOUS
<1>1. TableInv /\ CopiesInv
  BY DEF IInv
<1>2. /\ outcome \in [Threads -> {"ok", "error"}] /\ DownInv
      /\ pc \in [Threads -> {"idle", "link", "collect", "save", "replace", "unlock"}]
      /\ snap \in [Threads -> Copies \union {None}]
  BY DEF DurableInv, IInv, CopiesInv
<1>3. ASSUME NEW th \in Threads, Change(th) PROVE DurableInv'
  <2>1. /\ up /\ pc[th] = "idle" /\ pc' = [pc EXCEPT ![th] = "collect"]
        /\ UNCHANGED <<up, snap, outcome, disk>>
        /\ ~raced' => ~raced /\ \A other \in Threads : ~Persisting(other)
    BY <1>3 DEF Change, NoteChange
  <2>2. DownInv' /\ outcome' \in [Threads -> {"ok", "error"}]
    BY <1>2, <2>1 DEF DownInv
  <2>3. ASSUME ~raced' PROVE OnePersists' /\ CopyIsCurrent' /\ WrittenMatches' /\ IdleMatches'
    <3>1. \A tk \in Threads : IF tk = th THEN pc'[tk] = "collect"
                                       ELSE pc'[tk] = pc[tk] /\ ~Persisting(tk)
      BY <1>2, <2>1, <2>3
    <3>2. QED
      BY <3>1 DEF Persisting, OnePersists, CopyIsCurrent, WrittenMatches, IdleMatches
  <2>4. QED
    BY <2>2, <2>3 DEF DurableInv, SerialInv
<1>4. ASSUME NEW th \in Threads, Collect(th) PROVE DurableInv'
  <2>1. /\ pc[th] = "collect" /\ pc' = [pc EXCEPT ![th] = "save"]
        /\ snap' = [snap EXCEPT ![th] = Snapshot]
        /\ UNCHANGED <<status, errors, parentField, up, outcome, disk, raced>>
    BY <1>4 DEF Collect, tableVars, treeVars
  <2>2. DownInv' /\ outcome' \in [Threads -> {"ok", "error"}]
    BY <1>2, <2>1 DEF DownInv
  <2>3. ASSUME ~raced' PROVE OnePersists' /\ CopyIsCurrent' /\ WrittenMatches' /\ IdleMatches'
    <3>1. \A tk \in Threads : IF tk = th THEN pc'[tk] = "save"
                                       ELSE pc'[tk] = pc[tk] /\ ~Persisting(tk)
      BY <1>2, <2>1, <2>3 DEF DurableInv, SerialInv, OnePersists, Persisting
    <3>2. /\ snap'[th].status = status' /\ snap'[th].errors = errors'
          /\ snap'[th].parentField = parentField'
      BY <1>2, <2>1 DEF Snapshot
    <3>3. QED
      BY <3>1, <3>2 DEF Persisting, OnePersists, CopyIsCurrent, WrittenMatches, IdleMatches
  <2>4. QED
    BY <2>2, <2>3 DEF DurableInv, SerialInv
<1>5. ASSUME NEW th \in Threads, OpenLock(th) PROVE DurableInv'
  <2>1. /\ pc[th] = "save" /\ UNCHANGED <<status, errors, parentField, up, disk, raced>>
        /\ \/ /\ pc' = [pc EXCEPT ![th] = "idle"]
              /\ outcome' = [outcome EXCEPT ![th] = "error"]
           \/ /\ pc' = [pc EXCEPT ![th] = "replace"]
              /\ UNCHANGED <<snap, outcome>>
    BY <1>5 DEF OpenLock, Finish, tableVars, treeVars
  <2>2. DownInv' /\ outcome' \in [Threads -> {"ok", "error"}]
    BY <1>2, <2>1 DEF DownInv
  <2>3. ASSUME ~raced' PROVE OnePersists' /\ CopyIsCurrent' /\ WrittenMatches' /\ IdleMatches'
    <3>1. /\ \A tk \in Threads \ {th} : ~Persisting(tk) /\ pc'[tk] = pc[tk]
          /\ CopyIsCurrent
      BY <1>2, <2>1, <2>3 DEF DurableInv, SerialInv, OnePersists, Persisting
    <3>2. CASE pc'[th] = "idle"
      <4>1. outcome'[th] # "ok"
        BY <1>2, <2>1, <3>2
      <4>2. QED
        BY <3>1, <3>2, <4>1 DEF Persisting, OnePersists, CopyIsCurrent, WrittenMatches, IdleMatches
    <3>3. CASE pc'[th] = "replace" /\ UNCHANGED <<snap, outcome>>
      BY <2>1, <3>1, <3>3 DEF Persisting, OnePersists, CopyIsCurrent, WrittenMatches, IdleMatches
    <3>4. QED
      BY <1>2, <2>1, <3>2, <3>3
  <2>4. QED
    BY <2>2, <2>3 DEF DurableInv, SerialInv
<1>6. ASSUME NEW th \in Threads, Replace(th) PROVE DurableInv'
  <2>1. /\ pc[th] = "replace" /\ pc' = [pc EXCEPT ![th] = "unlock"]
        /\ UNCHANGED <<status, errors, parentField, up, snap, raced>>
        /\ \/ disk' = snap[th] /\ outcome' = [outcome EXCEPT ![th] = "ok"]
           \/ outcome' = [outcome EXCEPT ![th] = "error"]
    BY <1>6 DEF Replace, tableVars, treeVars
  <2>2. DownInv' /\ outcome' \in [Threads -> {"ok", "error"}]
    BY <1>2, <2>1 DEF DownInv
  <2>3. ASSUME ~raced' PROVE OnePersists' /\ CopyIsCurrent' /\ WrittenMatches' /\ IdleMatches'
    <3>1. \A tk \in Threads : IF tk = th THEN pc'[tk] = "unlock"
                                       ELSE pc'[tk] = pc[tk] /\ ~Persisting(tk)
      BY <1>2, <2>1, <2>3 DEF DurableInv, SerialInv, OnePersists, Persisting
    <3>2. outcome'[th] = "ok" => disk' = snap[th]
      BY <1>2, <2>1
    <3>3. /\ snap[th] # None
          /\ snap[th].status = status /\ snap[th].errors = errors
          /\ snap[th].parentField = parentField
      BY <1>1, <2>1, <2>3, StoreAssumption
      DEF DurableInv, SerialInv, CopyIsCurrent, CopiesInv, GoodCopy
    <3>4. outcome'[th] = "ok" => Matches'
      BY <2>1, <3>2, <3>3 DEF Matches
    <3>5. QED
      BY <3>1, <3>4 DEF Persisting, OnePersists, CopyIsCurrent, WrittenMatches, IdleMatches
  <2>4. QED
    BY <2>2, <2>3 DEF DurableInv, SerialInv
<1>7. ASSUME NEW th \in Threads, Unlock(th) PROVE DurableInv'
  <2>1. /\ pc[th] = "unlock" /\ pc' = [pc EXCEPT ![th] = "idle"]
        /\ outcome' = [outcome EXCEPT ![th] = outcome[th]]
        /\ UNCHANGED <<status, errors, parentField, up, disk, raced>>
    BY <1>7 DEF Unlock, Finish, tableVars, treeVars
  <2>2. DownInv' /\ outcome' \in [Threads -> {"ok", "error"}] /\ outcome' = outcome
    BY <1>2, <2>1 DEF DownInv
  <2>3. ASSUME ~raced' PROVE OnePersists' /\ CopyIsCurrent' /\ WrittenMatches' /\ IdleMatches'
    <3>1. /\ \A tk \in Threads : pc'[tk] \in {"idle", "link"}
          /\ WrittenMatches
      BY <1>2, <2>1, <2>3 DEF DurableInv, SerialInv, OnePersists, Persisting
    <3>2. Matches' \/ outcome'[th] # "ok"
      BY <2>1, <2>2, <3>1 DEF WrittenMatches, Matches, Exists
    <3>3. QED
      BY <3>1, <3>2 DEF Persisting, OnePersists, CopyIsCurrent, WrittenMatches, IdleMatches
  <2>4. QED
    BY <2>2, <2>3 DEF DurableInv, SerialInv
<1>8. CASE Crash
  <2>1. DownInv' /\ outcome' \in [Threads -> {"ok", "error"}]
    BY <1>8 DEF Crash, DownInv
  <2>2. \A th \in Threads : pc'[th] = "idle"
    BY <1>8 DEF Crash
  <2>3. ~up'
    BY <1>8 DEF Crash
  <2>4. QED
    BY <2>1, <2>2, <2>3
    DEF DurableInv, SerialInv, Persisting, OnePersists, CopyIsCurrent, WrittenMatches, IdleMatches
<1>9. CASE Restart
  <2>1. /\ ~up /\ UNCHANGED <<pc, outcome, disk, raced>>
        /\ \/ disk = None /\ UNCHANGED <<status, parentField>>
           \/ /\ disk # None /\ status' = disk.status /\ errors' = disk.errors
              /\ parentField' = disk.parentField
           \/ UNCHANGED <<up, status, errors, parentField>>
    BY <1>9 DEF Restart, RestoreTree, storeVars, tableVars, treeVars
  <2>2. (up' => Matches') /\ \A th \in Threads : pc'[th] = "idle"
    BY <1>2, <2>1 DEF Matches, Exists, DownInv
  <2>3. DownInv'
    BY <1>2, <2>1, <2>2, <1>9 DEF DownInv, Restart, tableVars
  <2>4. QED
    BY <1>2, <2>1, <2>2, <2>3
    DEF DurableInv, SerialInv, Persisting, OnePersists, CopyIsCurrent, WrittenMatches, IdleMatches
<1>12. ASSUME NEW th \in Threads, BeginLink(th) PROVE DurableInv'
  <2>1. /\ up /\ pc[th] = "idle" /\ pc' = [pc EXCEPT ![th] = "link"]
        /\ UNCHANGED <<status, errors, parentField, up, snap, outcome, disk, raced>>
    BY <1>12 DEF BeginLink, Tree!Link, Tree!maps, tableVars
  <2>2. DownInv' /\ outcome' \in [Threads -> {"ok", "error"}]
    BY <1>2, <2>1 DEF DownInv
  <2>3. \A tk \in Threads : Persisting(tk)' = Persisting(tk) /\ (Persisting(tk) => pc'[tk] = pc[tk])
    BY <1>2, <2>1 DEF Persisting
  <2>4. QED
    BY <1>2, <2>1, <2>2, <2>3
    DEF DurableInv, SerialInv, OnePersists, CopyIsCurrent, WrittenMatches, IdleMatches,
        Matches, Exists, Persisting
<1>13. ASSUME NEW th \in Threads, ContinueLink(th) PROVE DurableInv'
  <2>1. /\ pc[th] = "link" /\ UNCHANGED <<status, errors, up, snap, outcome, disk>>
        /\ \/ /\ \E l \in {"idle", "link"} : pc' = [pc EXCEPT ![th] = l]
              /\ UNCHANGED <<parentField, raced>>
           \/ /\ pc' = [pc EXCEPT ![th] = "collect"]
              /\ ~raced' => ~raced /\ \A other \in Threads : ~Persisting(other)
    BY <1>13
    DEF ContinueLink, NoteChange, Tree!Walk, Tree!Unlink, Tree!Index, Tree!Adopt, Tree!maps,
        tableVars
  <2>2. up
    BY <1>2, <2>1 DEF DownInv
  <2>3. DownInv' /\ outcome' \in [Threads -> {"ok", "error"}]
    BY <1>2, <2>1, <2>2 DEF DownInv
  <2>4. CASE /\ \E l \in {"idle", "link"} : pc' = [pc EXCEPT ![th] = l]
             /\ UNCHANGED <<parentField, raced>>
    <3>1. \A tk \in Threads : Persisting(tk)' = Persisting(tk) /\ (Persisting(tk) => pc'[tk] = pc[tk])
      BY <1>2, <2>1, <2>4 DEF Persisting
    <3>2. QED
      BY <1>2, <2>1, <2>2, <2>3, <2>4, <3>1
      DEF DurableInv, SerialInv, OnePersists, CopyIsCurrent, WrittenMatches, IdleMatches,
          Matches, Exists, Persisting
  <2>5. CASE /\ pc' = [pc EXCEPT ![th] = "collect"]
             /\ ~raced' => ~raced /\ \A other \in Threads : ~Persisting(other)
    <3>1. ASSUME ~raced'
          PROVE  OnePersists' /\ CopyIsCurrent' /\ WrittenMatches' /\ IdleMatches'
      <4>1. \A tk \in Threads : IF tk = th THEN pc'[tk] = "collect"
                                         ELSE pc'[tk] = pc[tk] /\ ~Persisting(tk)
        BY <1>2, <2>5, <3>1
      <4>2. QED
        BY <4>1 DEF Persisting, OnePersists, CopyIsCurrent, WrittenMatches, IdleMatches
    <3>2. QED
      BY <2>3, <3>1 DEF DurableInv, SerialInv
  <2>6. QED
    BY <2>1, <2>4, <2>5
<1>10. CASE UNCHANGED vars
  BY <1>10 DEF vars, DurableInv, DownInv, SerialInv, OnePersists, CopyIsCurrent,
     WrittenMatches, IdleMatches, Matches, Exists, Persisting
<1>11. QED
  BY <1>3, <1>4, <1>5, <1>6, <1>7, <1>8, <1>9, <1>10, <1>12, <1>13 DEF Next

THEOREM DurableInvariance == Spec => []DurableInv
<1>1. Init => DurableInv
  BY DEF Init, EmptyTable, DurableInv, DownInv, SerialInv, OnePersists, CopyIsCurrent,
     WrittenMatches, IdleMatches, Matches, Exists, Persisting
<1>2. QED
  BY <1>1, DurableStep, Invariance, PTL DEF Spec

\* The two names of the hierarchy's type invariant.
LEMMA TreeTypes == Tree!TypeOK <=> TP!TypeOK
BY DEF Tree!TypeOK, TP!TypeOK, Tree!Labels, TP!Labels

LEMMA TypeStep == IInv /\ TypeOK /\ DurableInv' /\ [Next]_vars => TypeOK'
<1> SUFFICES ASSUME IInv, TypeOK, DurableInv', [Next]_vars PROVE TypeOK'
  OBVIOUS
<1> USE StoreAssumption
<1>1. IInv' /\ TableInv /\ CopiesInv /\ TableInv' /\ CopiesInv' /\ TP!TypeOK'
  BY NextIInv DEF IInv, TreeInv
<1>2. outcome' \in [Threads -> {"ok", "error"}]
  BY DEF DurableInv
<1>3. ErrorsInv
  BY <1>1 DEF TypeOK, WellFormed, ErrorsInv
<1>4. /\ slot' \in [Sessions -> Tasks \union {None}]
      /\ pc' \in [Threads -> {"idle", "link", "collect", "save", "replace", "unlock"}]
  BY <1>1 DEF TableInv, CopiesInv
<1>5. /\ up' \in BOOLEAN /\ lockFile' \in BOOLEAN /\ writer' \in Threads \union {None}
      /\ ops' \in 0..MaxOps /\ raced' \in BOOLEAN
  <2>1. ops' \in 0..MaxOps
    BY DEF TypeOK, Next, Change, BeginLink, ContinueLink, Collect, OpenLock, Replace, Unlock, Crash, Restart, vars
  <2>2. up' \in BOOLEAN /\ lockFile' \in BOOLEAN /\ writer' \in Threads \union {None}
    BY DEF TypeOK, Next, Change, BeginLink, ContinueLink, Collect, OpenLock, Replace, Unlock, Crash, Restart,
       storeVars, vars
  <2>3. raced' \in BOOLEAN
    <3>1. ASSUME NEW th \in Threads, Change(th) \/ BeginLink(th) \/ ContinueLink(th)
          PROVE  raced' \in BOOLEAN
      BY <3>1 DEF Change, BeginLink, ContinueLink, NoteChange, TypeOK
    <3>2. QED
      BY <3>1 DEF TypeOK, Next, Collect, OpenLock, Replace, Unlock, Crash, Restart, vars
  <2>4. QED
    BY <2>1, <2>2, <2>3
<1>6. ErrorsInv' => WellFormed(status, session, errors, parentField)'
  BY <1>1 DEF TableInv, WellFormed, ErrorsInv, TP!TypeOK, Exists
<1>7. ASSUME UNCHANGED <<status, errors>> PROVE ErrorsInv'
  BY <1>3, <1>7 DEF ErrorsInv
<1>8. ErrorsInv'
  <2>1. ASSUME NEW th \in Threads, Change(th) PROVE ErrorsInv'
    BY <1>1, <1>3, <2>1, ErrorsKeep
  <2>2. CASE Restart
    BY <1>7, <2>2 DEF Restart, TypeOK, IsSnapshot, WellFormed, ErrorsInv, tableVars
  <2>3. CASE Crash
    BY <2>3 DEF Crash, ErrorsInv
  <2>4. QED
    BY <1>7, <2>1, <2>2, <2>3
    DEF Next, BeginLink, ContinueLink, Collect, OpenLock, Replace, Unlock, tableVars, vars
<1>9. \A th \in Threads : snap'[th] # None => IsSnapshot(snap'[th])
  <2>1. IsSnapshot(Snapshot)
    BY DEF TypeOK, IsSnapshot, Snapshot, WellFormed
  <2>2. \A th \in Threads : snap'[th] \in {snap[th], None, Snapshot}
    BY <1>1
    DEF CopiesInv, Next, Change, BeginLink, ContinueLink, Collect, OpenLock, Replace, Unlock, Finish, Crash, Restart,
        storeVars, vars
  <2>3. QED
    BY <2>1, <2>2 DEF TypeOK
<1>10. disk' # None => IsSnapshot(disk')
  <2>1. disk' = disk \/ \E th \in Threads : disk' = snap[th]
    BY DEF Next, Change, BeginLink, ContinueLink, Collect, OpenLock, Replace, Unlock, Crash, Restart, vars
  <2>2. QED
    BY <2>1 DEF TypeOK
<1>11. WellFormed(status, session, errors, parentField)' /\ Tree!TypeOK'
  <2>1. Tree!TypeOK'
    BY <1>1 DEF Tree!TypeOK, TP!TypeOK, Tree!Labels, TP!Labels
  <2>2. QED
    BY <1>6, <1>8, <2>1
<1>12. QED
  BY <1>2, <1>4, <1>5, <1>9, <1>10, <1>11 DEF TypeOK

THEOREM Typing == Spec => []TypeOK
<1>1. Init => TypeOK
  <2> SUFFICES ASSUME Init PROVE TypeOK
    OBVIOUS
  <2>1. WellFormed(status, session, errors, parentField)
    BY DEF Init, EmptyTable, WellFormed
  <2>4. Tree!TypeOK
    BY InitIInv, TreeTypes DEF IInv, TreeInv
  <2>2. ops \in 0..MaxOps
    BY StoreAssumption DEF Init
  <2>3. QED
    BY <2>1, <2>2, <2>4 DEF Init, EmptyTable, TypeOK
<1>2. QED
  BY <1>1, TypeStep, Invariance, DurableInvariance, PTL DEF Spec

\* What a call acknowledged survives a crash, through failed writes and left-over
\* lock files, as long as no change was made while another thread persisted.
THEOREM AcknowledgedSurvives == Spec => []StoreSound
<1>1. DurableInv => SerialIsDurable
  BY DEF DurableInv, SerialInv, IdleMatches, Persisting, Matches, SerialIsDurable,
     AcknowledgedIsDurable
<1>2. QED
  BY <1>1, DurableInvariance, Typing, PTL DEF StoreSound
=============================================================================
