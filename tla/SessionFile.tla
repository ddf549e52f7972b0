---------------------------- MODULE SessionFile ----------------------------
(***************************************************************************)
(* The JSONL file of a session (JsonlSessionLog and SessionManagerImpl).   *)
(* Every operation opens the file by its path, takes an flock on what it   *)
(* opened, reads and repairs the whole log, and appends one line.  A       *)
(* checkpoint and a restore replace a file by rename, so a path may name   *)
(* another file than the one a process has opened.  Processes crash, and   *)
(* writes fail, at any point of a line.                                    *)
(***************************************************************************)
EXTENDS Naturals, Sequences

CONSTANTS
  Procs,         \* processes (or threads) that use the session
  None,
  MaxAppends,    \* bound on the appends that reach the file
  MaxInodes      \* bound on the files the path has ever named

ASSUME SessionFileAssumption ==
  /\ MaxAppends \in Nat /\ MaxInodes \in Nat \ {0}
  /\ None \notin Procs \union Nat
  /\ None \notin Seq([seq : Nat, id : Nat])
  /\ None \notin [events : Seq([seq : Nat, id : Nat]), tail : {"none", "stub", "partial"}]

Inodes == 1..MaxInodes
Ids == 1..MaxAppends

VARIABLES
  files,         \* content of each file ever created
  path,          \* the file the session's path names
  used,          \* files created so far
  saved,         \* content of the named checkpoint, None when there is none
  lock,          \* holder of the flock on each file
  pc, op, fd,    \* the processes: place, operation, opened file
  line,          \* the event a process is about to write
  appends,       \* appends begun so far
  acked,         \* events whose append returned Ok and that no rollback undid
  stranded       \* a rename has replaced a file another process had opened
                 \* (acked and stranded are history, read by no action)

procVars == <<pc, op, fd, line>>
vars == <<files, path, used, saved, lock, pc, op, fd, line, appends, acked, stranded>>

Event == [seq : Nat, id : Nat]

(* A file is its complete lines and what follows the last newline: nothing *)
(* ("none"), fewer bytes than show the record's first key ("stub"), or     *)
(* more of a record but not all ("partial").  A complete record that only  *)
(* lacks its newline counts as a line: load_events terminates it.          *)
Content == [events : Seq(Event), tail : {"none", "stub", "partial"}]

Init ==
  /\ files = [i \in Inodes |-> [events |-> <<>>, tail |-> "none"]]
  /\ path = 1 /\ used = 1
  /\ saved = None
  /\ lock = [i \in Inodes |-> None]
  /\ pc = [p \in Procs |-> "idle"]
  /\ op = [p \in Procs |-> "read"]
  /\ fd = [p \in Procs |-> 1]
  /\ line = [p \in Procs |-> None]
  /\ appends = 0
  /\ acked = {}
  /\ stranded = FALSE

----------------------------------------------------------------------------
(* load_events: a stub does not look like a torn record and is an error; a *)
(* partial record is cut off.                                              *)

\* Faulty variants: any tail is taken for a torn record; the tail stays; the last complete line is cut off as well.
LoadableAny(f) == TRUE
NotRepaired(f) == f
CutOneLineMore(f) ==
  IF f.tail = "none" THEN f
  ELSE [events |-> SubSeq(f.events, 1, Len(f.events) - 1), tail |-> "none"]

Loadable(f) == f.tail # "stub"
Repaired(f) == [f EXCEPT !.tail = "none"]
Extended(f, e) == [f EXCEPT !.events = Append(@, e)]
IdsIn(f) == {f.events[n].id : n \in DOMAIN f.events}

\* A line is written to the end of f: what a crash or an error may leave.
Torn(f, e) ==
  {f, Extended(f, e)} \union {[f EXCEPT !.tail = tail] : tail \in {"stub", "partial"}}

Begin(p, operation) ==
  /\ pc[p] = "idle"
  /\ pc' = [pc EXCEPT ![p] = IF operation = "restore" THEN "check" ELSE "lock"]
  /\ op' = [op EXCEPT ![p] = operation]
  /\ fd' = [fd EXCEPT ![p] = path]
  /\ UNCHANGED <<files, path, used, saved, lock, line, appends, acked, stranded>>

\* LockedFile::drop.
Release(p) == lock' = [i \in Inodes |-> IF lock[i] = p THEN None ELSE lock[i]]

\* The operation ends, with or without an error, and its flock is released.
Leave(p) ==
  /\ pc' = [pc EXCEPT ![p] = "idle"]
  /\ op' = [op EXCEPT ![p] = "read"]
  /\ fd' = [fd EXCEPT ![p] = 1]
  /\ line' = [line EXCEPT ![p] = None]
  /\ Release(p)

Restorable == saved # None /\ Loadable(saved)

\* restore first loads, and so repairs, the checkpoint; then it opens the session.
Check(p) ==
  /\ pc[p] = "check"
  /\ \/ /\ ~Restorable
        /\ Leave(p)
        /\ UNCHANGED saved
     \/ /\ Restorable
        /\ saved' = Repaired(saved)
        /\ pc' = [pc EXCEPT ![p] = "lock"]
        /\ fd' = [fd EXCEPT ![p] = path]
        /\ UNCHANGED <<lock, op, line>>
  /\ UNCHANGED <<files, path, used, appends, acked, stranded>>

Unlocked(p) == pc[p] = "lock" /\ lock[fd[p]] = None

\* restore takes the flock of the session it is about to replace.
LockTarget(p) ==
  /\ Unlocked(p)
  /\ op[p] = "restore"
  /\ lock' = [lock EXCEPT ![fd[p]] = p]
  /\ pc' = [pc EXCEPT ![p] = "copy"]
  /\ UNCHANGED <<files, path, used, saved, op, fd, line, appends, acked, stranded>>

\* The other operations load the log under the flock; try_events ends there.
Load(p) ==
  LET f == files[fd[p]] IN
  /\ Unlocked(p)
  /\ op[p] # "restore"
  /\ \/ /\ ~Loadable(f)
        /\ Leave(p)
        /\ UNCHANGED <<files, appends>>
     \/ /\ Loadable(f) /\ op[p] = "read"
        /\ files' = [files EXCEPT ![fd[p]] = Repaired(f)]
        /\ Leave(p)
        /\ UNCHANGED appends
     \/ /\ Loadable(f) /\ op[p] = "checkpoint"
        /\ files' = [files EXCEPT ![fd[p]] = Repaired(f)]
        /\ lock' = [lock EXCEPT ![fd[p]] = p]
        /\ pc' = [pc EXCEPT ![p] = "copy"]
        /\ UNCHANGED <<op, fd, line, appends>>
     \/ /\ Loadable(f) /\ op[p] = "append" /\ appends < MaxAppends
        /\ files' = [files EXCEPT ![fd[p]] = Repaired(f)]
        /\ lock' = [lock EXCEPT ![fd[p]] = p]
        /\ appends' = appends + 1
        /\ line' = [line EXCEPT ![p] = [seq |-> Len(f.events), id |-> appends + 1]]
        /\ pc' = [pc EXCEPT ![p] = "write"]
        /\ UNCHANGED <<op, fd>>
  /\ UNCHANGED <<path, used, saved, acked, stranded>>

\* append and claim_tool_call: write, flush, sync, release the flock.
Write(p) ==
  /\ pc[p] = "write"
  /\ files' = [files EXCEPT ![fd[p]] = Extended(@, line[p])]
  /\ acked' = acked \union {line[p].id}
  /\ Leave(p)
  /\ UNCHANGED <<path, used, saved, appends, stranded>>

\* Faulty variant: the result of the write is dropped.
WriteErrorDropped(p) ==
  /\ pc[p] = "write"
  /\ \E f \in Torn(files[fd[p]], line[p]) : files' = [files EXCEPT ![fd[p]] = f]
  /\ acked' = acked \union {line[p].id}
  /\ Leave(p)
  /\ UNCHANGED <<path, used, saved, appends, stranded>>

\* The write, the flush or the sync fails, or the process dies during it.
WriteFails(p) ==
  /\ pc[p] = "write"
  /\ \E f \in Torn(files[fd[p]], line[p]) : files' = [files EXCEPT ![fd[p]] = f]
  /\ Leave(p)
  /\ UNCHANGED <<path, used, saved, appends, acked, stranded>>

----------------------------------------------------------------------------
\* What a copy of the file at the path may hold: a writer of that file need not
\* be kept out by the flock on another one.
Readings(i) ==
  {files[i]} \union
  UNION {Torn(files[i], line[q]) : q \in {q \in Procs : pc[q] = "write" /\ fd[q] = i}}

Checkpoint(p) ==
  /\ pc[p] = "copy" /\ op[p] = "checkpoint"
  /\ saved' \in Readings(path)
  /\ Leave(p)
  /\ UNCHANGED <<files, path, used, appends, acked, stranded>>

\* restore renames a copy of the checkpoint over the path and opens the result.
Restore(p) ==
  /\ pc[p] = "copy" /\ op[p] = "restore"
  /\ used < MaxInodes
  /\ used' = used + 1
  /\ path' = used + 1
  /\ files' = [files EXCEPT ![used + 1] = saved]
  /\ acked' = acked \intersect IdsIn(saved)
  /\ stranded' = (stranded \/ \E q \in Procs \ {p} : pc[q] # "idle")
  /\ Release(p)
  /\ pc' = [pc EXCEPT ![p] = "lock"]
  /\ op' = [op EXCEPT ![p] = "read"]
  /\ fd' = [fd EXCEPT ![p] = used + 1]
  /\ UNCHANGED <<saved, line, appends>>

\* A process dies outside a write: it only releases its flock.
Crash(p) ==
  /\ pc[p] \notin {"idle", "write"}
  /\ Leave(p)
  /\ UNCHANGED <<files, path, used, saved, appends, acked, stranded>>

Step(p) ==
  \/ \E operation \in {"read", "append", "checkpoint", "restore"} : Begin(p, operation)
  \/ Check(p) \/ LockTarget(p) \/ Load(p)
  \/ Write(p) \/ WriteFails(p)
  \/ Checkpoint(p) \/ Restore(p)
  \/ Crash(p)

Next == \E p \in Procs : Step(p)

Spec == Init /\ [][Next]_vars

----------------------------------------------------------------------------
(* Properties.                                                             *)

TypeOK ==
  /\ files \in [Inodes -> Content]
  /\ path \in Inodes /\ used \in Inodes /\ path <= used
  /\ saved \in Content \union {None}
  /\ lock \in [Inodes -> Procs \union {None}]
  /\ pc \in [Procs -> {"idle", "check", "lock", "write", "copy"}]
  /\ op \in [Procs -> {"read", "append", "checkpoint", "restore"}]
  /\ fd \in [Procs -> Inodes]
  /\ line \in [Procs -> Event \union {None}]
  /\ \A p \in Procs : pc[p] = "write" => line[p] \in Event
  /\ appends \in 0..MaxAppends
  /\ acked \subseteq Ids
  /\ stranded \in BOOLEAN

\* A log is read back only if its events are numbered 0, 1, 2...: processes that
\* append, crash and repair together never write a file that is refused.
Numbered(f) == \A n \in DOMAIN f.events : f.events[n].seq = n - 1
Contiguous ==
  (\A i \in Inodes : Numbered(files[i])) /\ (saved # None => Numbered(saved))

\* An append that returned Ok survives crashes and repairs, failed writes of
\* other processes, and restores of checkpoints that hold it, as long as no
\* restore replaced the file under another operation.
AckedInLog == ~stranded => acked \subseteq IdsIn(files[path])

\* Until then a checkpoint is a whole log, never one with a torn line.
CheckpointWhole == ~stranded /\ saved # None => saved.tail = "none"

\* The session behind the path is an append-only log with rollback.
SavedEvents == IF saved = None THEN None ELSE saved.events
PathEvents == files[path].events
Log == INSTANCE AppendOnlyLog WITH log <- PathEvents, saved <- SavedEvents
ImplementsLog == Log!Spec

\* A tail too short to be told from a corrupt record is never cut off, completed
\* or written behind, whoever uses the file: until a restore replaces the file,
\* it stays as the crash left it, and every operation on it is refused.
RefusedIsFrozen ==
  [][\A i \in Inodes : files[i].tail = "stub" => files'[i] = files[i]]_vars
=============================================================================
