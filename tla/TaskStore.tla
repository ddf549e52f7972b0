----------------------------- MODULE TaskStore -----------------------------
(***************************************************************************)
(* LocalController with a JsonTaskSnapshotStore.  Every successful change  *)
(* of the task table (TaskTable) or of the hierarchy (TaskHierarchy)       *)
(* releases the locks and then persists: the tasks, with the parents they  *)
(* name, are copied under the tasks mutex, and the copy is written to a    *)
(* temporary file and renamed over the snapshot, while the store's mutex   *)
(* and a lock file are held.  The process may crash at any point and is    *)
(* started again from whatever the disk holds.                             *)
(***************************************************************************)
EXTENDS TaskTable

CONSTANTS
  Threads,       \* threads that call the controller
  MaxOps         \* bound on the number of changes

\* A copy of the tasks, in a thread's hands or on disk.
Copies == [status : [Tasks -> TaskStatus \union {Absent}],
           session : [Tasks -> Sessions \union {None}],
           errors : SUBSET Tasks,
           parentField : [Tasks -> Tasks \union {None}],
           indexed : [Sessions -> Tasks \union {None}]]

ASSUME StoreAssumption == MaxOps \in Nat /\ None \notin Copies

VARIABLES
  parentField, parentOf, children,   \* the hierarchy, as in TaskHierarchy
  link, child, parent, previous,     \* its link_parent calls, one per thread
  tangled,       \* since the start, what overlapped a link_parent (history)
  up,            \* the process runs
  pc, snap,      \* a thread's place in its call and its copy of the tasks
  outcome,       \* how the thread's last persist() ended
  writer,        \* the holder of the store's write_lock mutex
  lockFile,      \* the .lock file exists
  disk,          \* the snapshot file, None when there is none
  ops,           \* number of changes begun so far
  raced          \* since the start, a change was made while another thread was
                 \* persisting (history, read by no action)

Tree == INSTANCE TaskHierarchy
          WITH Linkers <- Threads, present <- {t \in Tasks : Exists(t)},
               pc <- link, raced <- tangled

links == <<link, child, parent, previous>>
treeVars == <<parentField, parentOf, children, links, tangled>>
storeVars == <<pc, snap, outcome, writer, lockFile>>
vars == <<status, session, errors, slot, parentField, parentOf, children, link,
          child, parent, previous, tangled, up, pc, snap, outcome, writer,
          lockFile, disk, ops, raced>>

\* A copy of the tasks.  indexed is the slot map at the time of the copy: it is
\* not written to the file and serves only to state what a restore should give.
Snapshot ==
  [status |-> status, session |-> session, errors |-> errors,
   parentField |-> parentField, indexed |-> slot]

WellFormed(st, ss, er, pf) ==
  /\ st \in [Tasks -> TaskStatus \union {Absent}]
  /\ ss \in [Tasks -> Sessions \union {None}]
  /\ \A t \in Tasks : st[t] # Absent <=> ss[t] # None
  /\ er \subseteq {t \in Tasks : st[t] # Absent}
  /\ pf \in [Tasks -> Tasks \union {None}]
  /\ \A t \in Tasks : st[t] = Absent => pf[t] = None

IsSnapshot(d) == WellFormed(d.status, d.session, d.errors, d.parentField)

Init ==
  /\ EmptyTable
  /\ parentField = [t \in Tasks |-> None]
  /\ parentOf = [t \in Tasks |-> None]
  /\ children = [t \in Tasks |-> {}]
  /\ link = [th \in Threads |-> "idle"]
  /\ child = [th \in Threads |-> None]
  /\ parent = [th \in Threads |-> None]
  /\ previous = [th \in Threads |-> None]
  /\ tangled = "no"
  /\ up = TRUE
  /\ pc = [th \in Threads |-> "idle"]
  /\ snap = [th \in Threads |-> None]
  /\ outcome = [th \in Threads |-> "ok"]
  /\ writer = None
  /\ lockFile = FALSE
  /\ disk = None
  /\ ops = 0
  /\ raced = FALSE

----------------------------------------------------------------------------
(* A call that changes the table or the hierarchy, then persist() in four  *)
(* steps.                                                                  *)

Persisting(th) == pc[th] \notin {"idle", "link"}

\* A change is made now: another thread may be persisting meanwhile.
NoteChange == raced' = (raced \/ \E other \in Threads : Persisting(other))

StoreStatuses ==
  ClientStatuses \union {"working", "completed", "failed", "canceled"}

\* An update to the same status returns Ok before it persists.
ChangeStatus(t, to) == status[t] # to /\ Accepted(t, to) /\ ApplyStatus(t, to)

Change(th) ==
  /\ up
  /\ pc[th] = "idle"
  /\ ops < MaxOps
  /\ \E t \in Tasks :
       \/ /\ \E s \in Sessions, st \in InitialStatuses : CreateTask(t, s, st)
          /\ Tree!Create(t)
       \/ RemoveTask(t) /\ Tree!Remove(t)
       \/ /\ \/ \E to \in StoreStatuses : ChangeStatus(t, to)
             \/ RetryTask(t)
             \/ Exists(t) /\ SetTaskError(t)
          /\ UNCHANGED treeVars
  /\ pc' = [pc EXCEPT ![th] = "collect"]
  /\ ops' = ops + 1
  /\ NoteChange
  /\ UNCHANGED <<up, snap, outcome, writer, lockFile, disk>>

\* link_parent up to its persist(), one critical section per step.
BeginLink(th) ==
  /\ up
  /\ pc[th] = "idle"
  /\ ops < MaxOps
  /\ UNCHANGED tableVars
  /\ \E t, p \in Tasks : Tree!Link(th, t, p)
  /\ pc' = [pc EXCEPT ![th] = "link"]
  /\ ops' = ops + 1
  /\ UNCHANGED <<up, snap, outcome, writer, lockFile, disk, raced>>

\* The walk may refuse the call; the last section, which writes the parent into
\* the task, is followed by persist().
ContinueLink(th) ==
  /\ pc[th] = "link"
  /\ UNCHANGED tableVars
  /\ \/ /\ Tree!Walk(th) \/ Tree!Unlink(th) \/ Tree!Index(th) \/ Tree!Adopt(th)
        /\ pc' = [pc EXCEPT ![th] = IF link'[th] = "idle" THEN "idle" ELSE "link"]
        /\ UNCHANGED raced
     \/ /\ Tree!SetField(th)
        /\ pc' = [pc EXCEPT ![th] = "collect"]
        /\ NoteChange
  /\ UNCHANGED <<up, snap, outcome, writer, lockFile, disk, ops>>

Collect(th) ==
  /\ pc[th] = "collect"
  /\ snap' = [snap EXCEPT ![th] = Snapshot]
  /\ pc' = [pc EXCEPT ![th] = "save"]
  /\ UNCHANGED <<tableVars, treeVars, up, outcome, writer, lockFile, disk, ops, raced>>

\* The call returns to its caller with the given outcome.
Finish(th, result) ==
  /\ pc' = [pc EXCEPT ![th] = "idle"]
  /\ snap' = [snap EXCEPT ![th] = None]
  /\ outcome' = [outcome EXCEPT ![th] = result]

\* save: take the mutex, then create the lock file, which must not exist.
OpenLock(th) ==
  /\ pc[th] = "save"
  /\ writer = None
  /\ IF lockFile
     THEN Finish(th, "error") /\ UNCHANGED <<writer, lockFile>>
     ELSE /\ pc' = [pc EXCEPT ![th] = "replace"]
          /\ writer' = th
          /\ lockFile' = TRUE
          /\ UNCHANGED <<snap, outcome>>
  /\ UNCHANGED <<tableVars, treeVars, up, disk, ops, raced>>

\* Faulty variant: the result of the rename is dropped.
ReplaceIgnoresError(th) ==
  /\ pc[th] = "replace"
  /\ disk' \in {snap[th], disk}
  /\ outcome' = [outcome EXCEPT ![th] = "ok"]
  /\ pc' = [pc EXCEPT ![th] = "unlock"]
  /\ UNCHANGED <<tableVars, treeVars, up, snap, writer, lockFile, ops, raced>>

\* Encode, write the temporary file and rename it; any of them may fail, and
\* the old snapshot then stays.
Replace(th) ==
  /\ pc[th] = "replace"
  /\ \/ /\ disk' = snap[th]
        /\ outcome' = [outcome EXCEPT ![th] = "ok"]
     \/ /\ UNCHANGED disk
        /\ outcome' = [outcome EXCEPT ![th] = "error"]
  /\ pc' = [pc EXCEPT ![th] = "unlock"]
  /\ UNCHANGED <<tableVars, treeVars, up, snap, writer, lockFile, ops, raced>>

\* SnapshotFileLock::drop, then the mutex guard.
Unlock(th) ==
  /\ pc[th] = "unlock"
  /\ Finish(th, outcome[th])
  /\ writer' = None
  /\ lockFile' = FALSE
  /\ UNCHANGED <<tableVars, treeVars, up, disk, ops, raced>>

----------------------------------------------------------------------------
(* Crash and restart.                                                      *)

\* Memory and the mutex are lost; the snapshot and the lock file stay.
Crash ==
  /\ up
  /\ up' = FALSE
  /\ status' = [t \in Tasks |-> Absent]
  /\ session' = [t \in Tasks |-> None]
  /\ errors' = {}
  /\ slot' = [s \in Sessions |-> None]
  /\ parentField' = [t \in Tasks |-> None]
  /\ parentOf' = [t \in Tasks |-> None]
  /\ children' = [t \in Tasks |-> {}]
  /\ link' = [th \in Threads |-> "idle"]
  /\ child' = [th \in Threads |-> None]
  /\ parent' = [th \in Threads |-> None]
  /\ previous' = [th \in Threads |-> None]
  /\ pc' = [th \in Threads |-> "idle"]
  /\ snap' = [th \in Threads |-> None]
  /\ outcome' = [th \in Threads |-> "ok"]
  /\ writer' = None
  /\ raced' = FALSE
  /\ UNCHANGED <<tangled, lockFile, disk, ops>>

WorkingIn(d, s) == {t \in Tasks : d.session[t] = s /\ d.status[t] = "working"}

OneWorkingEach(d) ==
  \A t, u \in Tasks :
    /\ d.status[t] = "working"
    /\ d.status[u] = "working"
    /\ d.session[t] = d.session[u]
    => t = u

ParentsPresent(d) ==
  \A t \in Tasks : d.parentField[t] # None => d.status[d.parentField[t]] # Absent

\* The validation of with_snapshot_store that depends on more than one task.
Restorable(d) == OneWorkingEach(d) /\ ParentsPresent(d)

\* Faulty variant: the index of working tasks is not rebuilt.
RestoredSlotEmpty(d) == [s \in Sessions |-> None]

\* Only working tasks are put back into the slot map.
RestoredSlot(d) ==
  [s \in Sessions |->
     IF WorkingIn(d, s) = {} THEN None ELSE CHOOSE t \in WorkingIn(d, s) : TRUE]

\* Both indexes of the hierarchy are rebuilt from the parents the tasks name.
RestoreTree(d) ==
  /\ parentField' = d.parentField
  /\ parentOf' = d.parentField
  /\ children' = [p \in Tasks |-> {t \in Tasks : d.parentField[t] = p}]
  /\ UNCHANGED links
  /\ tangled' = "no"

\* A snapshot the validation refuses keeps the process down.
Restart ==
  /\ ~up
  /\ \/ /\ disk = None
        /\ up' = TRUE
        /\ tangled' = "no"
        /\ UNCHANGED <<tableVars, parentField, parentOf, children, links>>
     \/ /\ disk # None /\ Restorable(disk)
        /\ up' = TRUE
        /\ status' = disk.status
        /\ session' = disk.session
        /\ errors' = disk.errors
        /\ slot' = RestoredSlot(disk)
        /\ RestoreTree(disk)
     \/ /\ disk # None /\ ~Restorable(disk)
        /\ UNCHANGED <<tableVars, treeVars, up>>
  /\ UNCHANGED <<storeVars, disk, ops, raced>>

----------------------------------------------------------------------------
Next ==
  \/ \E th \in Threads :
       \/ Change(th) \/ BeginLink(th) \/ ContinueLink(th)
       \/ Collect(th) \/ OpenLock(th) \/ Replace(th) \/ Unlock(th)
  \/ Crash
  \/ Restart

Spec == Init /\ [][Next]_vars

----------------------------------------------------------------------------
(* Properties.                                                             *)

TypeOK ==
  /\ WellFormed(status, session, errors, parentField)
  /\ Tree!TypeOK
  /\ slot \in [Sessions -> Tasks \union {None}]
  /\ up \in BOOLEAN /\ lockFile \in BOOLEAN
  /\ pc \in [Threads -> {"idle", "link", "collect", "save", "replace", "unlock"}]
  /\ outcome \in [Threads -> {"ok", "error"}]
  /\ \A th \in Threads : snap[th] # None => IsSnapshot(snap[th])
  /\ writer \in Threads \union {None}
  /\ disk # None => IsSnapshot(disk)
  /\ ops \in 0..MaxOps
  /\ raced \in BOOLEAN

\* What the next start will find on disk: never two working tasks of a session,
\* whatever was interleaved and wherever the process died; and no task whose
\* parent is missing, so that the start is not refused, unless a removal or a
\* second link_parent fell inside a link_parent.  Then a task can be saved with a
\* parent that is gone, and the process does not come up again.
SnapshotRestorable ==
  disk # None =>
    OneWorkingEach(disk) /\ (tangled = "no" => ParentsPresent(disk))

\* Only the thread that holds the mutex is between the lock file's creation and
\* its removal, and it has the lock file: the temporary file has one writer.
OneWriter ==
  \A th \in Threads :
    pc[th] \in {"replace", "unlock"} => writer = th /\ lockFile

\* Two tasks of a session are never working together, in a process started
\* from any snapshot the store can have written.
OneWorkingPerSession == OneWorkingEach(Snapshot)

\* A call that returned Ok is on disk: with all calls returned and the last
\* results Ok, a crash loses nothing.
AcknowledgedIsDurable ==
  up /\ (\A th \in Threads : pc[th] = "idle" /\ outcome[th] = "ok") =>
    IF disk = None THEN \A t \in Tasks : ~Exists(t)
    ELSE /\ disk.status = status
         /\ disk.errors = errors
         /\ disk.parentField = parentField

\* What the code does guarantee: so it is while no change is made during another
\* thread's persist, through failed writes, crashes and left-over lock files.
SerialIsDurable == ~raced => AcknowledgedIsDurable

\* The store as a whole: its variables are what the code can hold, and what a
\* call acknowledged is on disk as long as no change overlapped a persist.
StoreSound == TypeOK /\ SerialIsDurable

\* A restart rebuilds the index the controller had when the snapshot was taken,
\* for every session in which no task of the snapshot waits for input.
RestartKeepsWorkingSlots ==
  [][~up /\ up' /\ disk # None =>
       \A s \in Sessions :
         (\A t \in Tasks : disk.session[t] = s => disk.status[t] # "input-required")
         => slot'[s] = disk.indexed[s]]_vars
=============================================================================
