------------------------- MODULE SessionFileProofs -------------------------
(***************************************************************************)
(* For any number of processes, appends and restores, a session file is    *)
(* numbered without gaps and implements the append-only log with rollback. *)
(* The reason is the flock: a process between its load and its write holds *)
(* the lock of the file it opened, so the length it read is still the      *)
(* length when it writes, even if the path names another file by then.     *)
(***************************************************************************)
EXTENDS SessionFile, TLAPS

\* A writer holds the lock of its file, whose tail is repaired and whose length
\* is the number of the event it is going to write.
WriterInv ==
  \A p \in Procs : pc[p] = "write" =>
    /\ lock[fd[p]] = p
    /\ files[fd[p]].tail = "none"
    /\ line[p].seq = Len(files[fd[p]].events)
    /\ line[p].id \in Ids

\* Nobody has opened a file that is not there yet, and a restore has a checkpoint.
OpenInv ==
  /\ \A p \in Procs : fd[p] <= used
  /\ \A p \in Procs : op[p] = "restore" /\ pc[p] \in {"lock", "copy"} => saved # None

IInv == TypeOK /\ WriterInv /\ OpenInv /\ Contiguous

----------------------------------------------------------------------------
LEMMA InodesNat == Inodes \subseteq Nat /\ 1 \in Inodes
  BY SessionFileAssumption DEF Inodes

LEMMA NoneFacts == None \notin Content /\ None \notin Seq(Event) /\ None \notin Procs
  BY SessionFileAssumption DEF Content, Event

\* What an append does to a content.
LEMMA ExtendedFacts ==
  ASSUME NEW f \in Content, NEW e \in Event
  PROVE  /\ Extended(f, e) \in Content
         /\ Extended(f, e).events = Append(f.events, e)
         /\ Numbered(f) /\ e.seq = Len(f.events) => Numbered(Extended(f, e))
<1>1. Extended(f, e) \in Content /\ Extended(f, e).events = Append(f.events, e)
  <2>1. f.events \in Seq(Event) /\ Append(f.events, e) \in Seq(Event)
    BY DEF Content
  <2>2. QED
    BY <2>1 DEF Extended, Content
<1>2. ASSUME Numbered(f), e.seq = Len(f.events) PROVE Numbered(Extended(f, e))
  <2>1. ASSUME NEW n \in 1..(Len(f.events) + 1)
        PROVE  Append(f.events, e)[n].seq = n - 1
    <3>1. CASE n = Len(f.events) + 1
      BY <1>2, <3>1 DEF Content, Event
    <3>2. CASE n \in 1..Len(f.events)
      BY <1>2, <3>2 DEF Content, Event, Numbered
    <3>3. QED
      BY <2>1, <3>1, <3>2 DEF Content
  <2>2. DOMAIN Append(f.events, e) = 1..(Len(f.events) + 1)
    BY DEF Content
  <2>3. QED
    BY <1>1, <2>1, <2>2 DEF Numbered
<1>3. QED
  BY <1>1, <1>2

\* A load, a tail and a failed write keep what is complete.
LEMMA TornFacts ==
  ASSUME NEW f \in Content, NEW e \in Event, NEW g \in Torn(f, e)
  PROVE  /\ g \in Content
         /\ g.events \in {f.events, Append(f.events, e)}
         /\ Numbered(f) /\ e.seq = Len(f.events) => Numbered(g)
<1>1. CASE g = f
  BY <1>1
<1>2. CASE g = Extended(f, e)
  BY <1>2, ExtendedFacts
<1>3. CASE \E tail \in {"stub", "partial"} : g = [f EXCEPT !.tail = tail]
  BY <1>3 DEF Content, Numbered
<1>4. QED
  BY <1>1, <1>2, <1>3 DEF Torn

LEMMA RepairedFacts ==
  ASSUME NEW f \in Content
  PROVE  /\ Repaired(f) \in Content
         /\ Repaired(f).events = f.events /\ Repaired(f).tail = "none"
         /\ Numbered(f) => Numbered(Repaired(f))
  BY DEF Repaired, Content, Numbered

\* What a checkpoint may copy.
LEMMA ReadingFacts ==
  ASSUME IInv, NEW g \in Readings(path)
  PROVE  /\ g \in Content /\ Numbered(g)
         /\ g.events \in {files[path].events} \union
              {Append(files[path].events, [seq |-> Len(files[path].events), id |-> id]) :
                 id \in Ids}
<1>1. files[path] \in Content /\ Numbered(files[path])
  BY DEF IInv, TypeOK, Contiguous
<1>2. CASE g = files[path]
  BY <1>1, <1>2
<1>3. ASSUME NEW q \in Procs, pc[q] = "write", fd[q] = path,
             g \in Torn(files[path], line[q])
      PROVE  /\ g \in Content /\ Numbered(g)
             /\ g.events \in {files[path].events} \union
                  {Append(files[path].events, [seq |-> Len(files[path].events), id |-> id]) :
                     id \in Ids}
  <2>1. /\ line[q] \in Event /\ line[q].id \in Ids
        /\ line[q].seq = Len(files[path].events)
    BY <1>3 DEF IInv, TypeOK, WriterInv
  <2>2. line[q] = [seq |-> Len(files[path].events), id |-> line[q].id]
    BY <2>1 DEF Event
  <2>3. g \in Content /\ Numbered(g) /\ g.events \in {files[path].events, Append(files[path].events, line[q])}
    BY <1>1, <1>3, <2>1, TornFacts
  <2>4. QED
    BY <2>1, <2>2, <2>3
<1>4. QED
  BY <1>2, <1>3 DEF Readings

----------------------------------------------------------------------------
LEMMA InitInv == Init => IInv
<1> SUFFICES ASSUME Init PROVE IInv
  OBVIOUS
<1> USE InodesNat, SessionFileAssumption DEF Init
<1>1. TypeOK
  <2>1. [events |-> <<>>, tail |-> "none"] \in Content
    BY DEF Content
  <2>2. files \in [Inodes -> Content] /\ lock \in [Inodes -> Procs \union {None}]
    BY <2>1
  <2>3. path \in Inodes /\ used \in Inodes /\ path <= used /\ appends \in 0..MaxAppends
    OBVIOUS
  <2>4. /\ fd \in [Procs -> Inodes] /\ line \in [Procs -> Event \union {None}]
        /\ pc \in [Procs -> {"idle", "check", "lock", "write", "copy"}]
        /\ op \in [Procs -> {"read", "append", "checkpoint", "restore"}]
        /\ \A p \in Procs : pc[p] # "write"
    OBVIOUS
  <2>5. QED
    BY <2>2, <2>3, <2>4 DEF TypeOK
<1>2. WriterInv /\ OpenInv
  BY DEF WriterInv, OpenInv
<1>3. Contiguous
  BY DEF Contiguous, Numbered
<1>4. QED
  BY <1>1, <1>2, <1>3 DEF IInv

\* A step that changes no content, and no lock of a writer.
LEMMA LeaveFacts ==
  ASSUME TypeOK, NEW p \in Procs, Leave(p)
  PROVE  /\ pc' \in [Procs -> {"idle", "check", "lock", "write", "copy"}]
         /\ op' \in [Procs -> {"read", "append", "checkpoint", "restore"}]
         /\ fd' \in [Procs -> Inodes]
         /\ line' \in [Procs -> Event \union {None}]
         /\ lock' \in [Inodes -> Procs \union {None}]
         /\ pc'[p] = "idle" /\ fd'[p] = 1
         /\ \A q \in Procs \ {p} :
              pc'[q] = pc[q] /\ op'[q] = op[q] /\ fd'[q] = fd[q] /\ line'[q] = line[q]
         /\ \A i \in Inodes : lock[i] # p => lock'[i] = lock[i]
  BY InodesNat DEF TypeOK, Leave, Release

\* What a process that leaves does to the parts of the invariant about processes,
\* when it has changed at most the file of which it held or could take the lock.
LEMMA LeaveKeeps ==
  ASSUME IInv, NEW p \in Procs, Leave(p), used' = used,
         saved # None => saved' # None,
         \A i \in Inodes : files'[i] = files[i] \/ lock[i] \in {p, None}
  PROVE  WriterInv' /\ OpenInv'
<1>1. TypeOK /\ WriterInv /\ OpenInv
  BY DEF IInv
<1>2. WriterInv'
  <2> SUFFICES ASSUME NEW q \in Procs, pc'[q] = "write"
               PROVE  /\ lock'[fd'[q]] = q
                      /\ files'[fd'[q]].tail = "none"
                      /\ line'[q].seq = Len(files'[fd'[q]].events)
                      /\ line'[q].id \in Ids
    BY DEF WriterInv
  <2>1. q # p /\ pc[q] = "write" /\ fd'[q] = fd[q] /\ line'[q] = line[q]
    BY <1>1, LeaveFacts
  <2>2. lock[fd[q]] = q /\ fd[q] \in Inodes
    BY <1>1, <2>1 DEF WriterInv, TypeOK
  <2>3. lock'[fd[q]] = q /\ files'[fd[q]] = files[fd[q]]
    BY <1>1, <2>1, <2>2, LeaveFacts, SessionFileAssumption
  <2>4. QED
    BY <1>1, <2>1, <2>3 DEF WriterInv
<1>3. OpenInv'
  <2>1. \A q \in Procs : fd'[q] \in {fd[q], 1} /\ 1 <= used
    BY <1>1, LeaveFacts, InodesNat DEF TypeOK, Inodes
  <2>2. QED
    BY <1>1, <2>1, LeaveFacts DEF OpenInv
<1>4. QED
  BY <1>2, <1>3

\* One lemma for each action that changes a file or a process's place.
LEMMA BeginInv ==
  ASSUME IInv, NEW p \in Procs,
         NEW operation \in {"read", "append", "checkpoint", "restore"},
         Begin(p, operation)
  PROVE  IInv'
<1>1. TypeOK /\ WriterInv /\ OpenInv /\ Contiguous
  BY DEF IInv
<1>2. TypeOK'
  BY <1>1 DEF TypeOK, Begin
<1>3. WriterInv'
  BY <1>1 DEF TypeOK, WriterInv, Begin
<1>4. OpenInv'
  BY <1>1, InodesNat DEF TypeOK, OpenInv, Begin
<1>5. Contiguous'
  BY <1>1 DEF Contiguous, Begin
<1>6. QED
  BY <1>2, <1>3, <1>4, <1>5 DEF IInv

LEMMA CheckInv == ASSUME IInv, NEW p \in Procs, Check(p) PROVE IInv'
<1> USE SessionFileAssumption
<1>1. TypeOK /\ WriterInv /\ OpenInv /\ Contiguous
  BY DEF IInv
<1>2. CASE ~Restorable
  <2>1. Leave(p) /\ UNCHANGED <<files, path, used, saved, appends, acked, stranded>>
    BY <1>2 DEF Check
  <2>2. WriterInv' /\ OpenInv'
    BY <2>1, LeaveKeeps
  <2>3. TypeOK'
    BY <1>1, <2>1, LeaveFacts DEF TypeOK
  <2>4. QED
    BY <1>1, <2>1, <2>2, <2>3 DEF IInv, Contiguous
<1>3. CASE Restorable
  <2>1. saved \in Content /\ saved' = Repaired(saved)
    BY <1>1, <1>3 DEF Check, Restorable, TypeOK
  <2>2. saved' \in Content /\ saved' # None /\ Numbered(saved')
    BY <1>1, <1>3, <2>1, RepairedFacts, NoneFacts DEF Contiguous, Restorable
  <2>3. TypeOK'
    <3>1. /\ pc' = [pc EXCEPT ![p] = "lock"] /\ fd' = [fd EXCEPT ![p] = path]
          /\ UNCHANGED <<files, path, used, lock, op, line, appends, acked, stranded>>
      BY <1>3 DEF Check
    <3>2. QED
      BY <1>1, <2>2, <3>1 DEF TypeOK
  <2>4. WriterInv'
    BY <1>1, <1>3 DEF TypeOK, WriterInv, Check
  <2>5. OpenInv'
    BY <1>1, <1>3, <2>2, InodesNat DEF TypeOK, OpenInv, Check
  <2>6. Contiguous'
    BY <1>1, <1>3, <2>2 DEF Contiguous, Check
  <2>7. QED
    BY <2>3, <2>4, <2>5, <2>6 DEF IInv
<1>4. QED
  BY <1>2, <1>3

LEMMA LockTargetInv == ASSUME IInv, NEW p \in Procs, LockTarget(p) PROVE IInv'
<1> USE SessionFileAssumption
<1>1. TypeOK /\ WriterInv /\ OpenInv /\ Contiguous
  BY DEF IInv
<1>2. TypeOK'
  BY <1>1 DEF TypeOK, LockTarget
<1>3. WriterInv'
  BY <1>1 DEF TypeOK, WriterInv, LockTarget, Unlocked
<1>4. OpenInv'
  BY <1>1 DEF TypeOK, OpenInv, LockTarget, Unlocked
<1>5. Contiguous'
  BY <1>1 DEF Contiguous, LockTarget
<1>6. QED
  BY <1>2, <1>3, <1>4, <1>5 DEF IInv

\* A load writes no more than a repair, and takes a lock nobody had.
LEMMA LoadInv == ASSUME IInv, NEW p \in Procs, Load(p) PROVE IInv'
<1> DEFINE i == fd[p]
           f == files[i]
<1>1. TypeOK /\ WriterInv /\ OpenInv /\ Contiguous
  BY DEF IInv
<1>2. /\ i \in Inodes /\ f \in Content /\ Numbered(f)
      /\ pc[p] = "lock" /\ lock[i] = None
      /\ UNCHANGED <<path, used, saved, acked, stranded>>
  BY <1>1 DEF Load, Unlocked, TypeOK, Contiguous
<1>3. \A q \in Procs : pc[q] = "write" => fd[q] # i
  BY <1>1, <1>2, NoneFacts DEF WriterInv
<1>4. CASE ~Loadable(f)
  <2>1. Leave(p) /\ UNCHANGED <<files, appends>>
    BY <1>4 DEF Load
  <2>2. WriterInv' /\ OpenInv'
    BY <1>2, <2>1, LeaveKeeps
  <2>3. TypeOK'
    BY <1>1, <1>2, <2>1, LeaveFacts DEF TypeOK
  <2>4. QED
    BY <1>1, <1>2, <2>1, <2>2, <2>3 DEF IInv, Contiguous
<1>5. CASE files' = [files EXCEPT ![i] = Repaired(f)]
  <2>1. files' \in [Inodes -> Content] /\ Contiguous'
    BY <1>1, <1>2, <1>5, RepairedFacts DEF TypeOK, Contiguous
  <2>2. CASE Leave(p) /\ UNCHANGED appends
    <3>1. WriterInv' /\ OpenInv'
      BY <1>1, <1>2, <1>5, <2>2, LeaveKeeps DEF TypeOK
    <3>2. TypeOK'
      BY <1>1, <1>2, <2>1, <2>2, LeaveFacts DEF TypeOK
    <3>3. QED
      BY <2>1, <3>1, <3>2 DEF IInv
  <2>3. CASE /\ op[p] = "checkpoint"
             /\ lock' = [lock EXCEPT ![i] = p]
             /\ pc' = [pc EXCEPT ![p] = "copy"]
             /\ UNCHANGED <<op, fd, line, appends>>
    <3>1. TypeOK'
      BY <1>1, <1>2, <2>1, <2>3 DEF TypeOK
    <3>2. WriterInv'
      BY <1>1, <1>2, <1>3, <1>5, <2>3 DEF TypeOK, WriterInv
    <3>3. OpenInv'
      BY <1>1, <1>2, <2>3 DEF TypeOK, OpenInv
    <3>4. QED
      BY <2>1, <3>1, <3>2, <3>3 DEF IInv
  <2>4. CASE /\ op[p] = "append" /\ appends < MaxAppends
             /\ lock' = [lock EXCEPT ![i] = p]
             /\ appends' = appends + 1
             /\ line' = [line EXCEPT ![p] = [seq |-> Len(f.events), id |-> appends + 1]]
             /\ pc' = [pc EXCEPT ![p] = "write"]
             /\ UNCHANGED <<op, fd>>
    <3>1. appends' \in Ids /\ appends' \in 0..MaxAppends
      BY <1>1, <2>4, SessionFileAssumption DEF TypeOK, Ids
    <3>2. [seq |-> Len(f.events), id |-> appends + 1] \in Event
      BY <1>2, <2>4, <3>1, SessionFileAssumption DEF Event, Content, Ids
    <3>3. TypeOK'
      BY <1>1, <1>2, <2>1, <2>4, <3>1, <3>2 DEF TypeOK
    <3>4. files'[i].tail = "none" /\ Len(files'[i].events) = Len(f.events)
      BY <1>1, <1>2, <1>5, RepairedFacts DEF TypeOK
    <3>5. ASSUME NEW q \in Procs, pc'[q] = "write"
          PROVE  /\ lock'[fd'[q]] = q
                 /\ files'[fd'[q]].tail = "none"
                 /\ line'[q].seq = Len(files'[fd'[q]].events)
                 /\ line'[q].id \in Ids
      <4>1. CASE q = p
        BY <1>1, <1>2, <2>4, <3>1, <3>4, <4>1 DEF TypeOK
      <4>2. CASE q # p
        <5>1. pc[q] = "write" /\ fd[q] # i /\ fd'[q] = fd[q] /\ line'[q] = line[q]
          BY <1>1, <1>3, <2>4, <3>5, <4>2 DEF TypeOK
        <5>2. lock'[fd[q]] = lock[fd[q]] /\ files'[fd[q]] = files[fd[q]]
          BY <1>1, <1>5, <2>4, <5>1 DEF TypeOK
        <5>3. QED
          BY <1>1, <5>1, <5>2 DEF WriterInv
      <4>3. QED
        BY <4>1, <4>2
    <3>6. OpenInv'
      BY <1>1, <1>2, <2>4 DEF TypeOK, OpenInv
    <3>7. QED
      BY <2>1, <3>3, <3>5, <3>6 DEF IInv, WriterInv
  <2>5. QED
    BY <1>4, <1>5, <2>2, <2>3, <2>4 DEF Load
<1>6. QED
  BY <1>4, <1>5 DEF Load

\* A write, complete or not, numbers its event with the length of the file.
LEMMA WriteInv ==
  ASSUME IInv, NEW p \in Procs, Write(p) \/ WriteFails(p)
  PROVE  IInv'
<1> DEFINE i == fd[p]
           f == files[i]
<1>1. TypeOK /\ WriterInv /\ OpenInv /\ Contiguous
  BY DEF IInv
<1>2. /\ i \in Inodes /\ f \in Content /\ Numbered(f)
      /\ line[p] \in Event /\ line[p].id \in Ids /\ line[p].seq = Len(f.events)
      /\ lock[i] = p
  BY <1>1 DEF Write, WriteFails, TypeOK, WriterInv, Contiguous
<1>3. PICK g \in Torn(f, line[p]) : files' = [files EXCEPT ![i] = g]
  BY DEF Write, WriteFails, Torn
<1>4. g \in Content /\ Numbered(g)
  BY <1>2, TornFacts
<1>5. /\ Leave(p) /\ UNCHANGED <<path, used, saved, appends, stranded>>
      /\ acked' \in {acked, acked \union {line[p].id}}
  BY DEF Write, WriteFails
<1>6. Contiguous'
  BY <1>1, <1>2, <1>3, <1>4, <1>5 DEF Contiguous, TypeOK
<1>7. WriterInv' /\ OpenInv'
  BY <1>1, <1>2, <1>3, <1>5, LeaveKeeps DEF TypeOK
<1>8. files' \in [Inodes -> Content]
  BY <1>1, <1>3, <1>4 DEF TypeOK
<1>9. acked' \subseteq Ids
  BY <1>1, <1>2, <1>5 DEF TypeOK
<1>10. \A q \in Procs : pc'[q] = "write" => line'[q] \in Event
  BY <1>1, <1>5, LeaveFacts DEF TypeOK
<1>11. TypeOK'
  BY <1>1, <1>5, <1>8, <1>9, <1>10, LeaveFacts DEF TypeOK
<1>12. QED
  BY <1>6, <1>7, <1>11 DEF IInv

LEMMA CheckpointInv == ASSUME IInv, NEW p \in Procs, Checkpoint(p) PROVE IInv'
<1>1. TypeOK /\ WriterInv /\ OpenInv /\ Contiguous
  BY DEF IInv
<1>2. /\ Leave(p) /\ saved' \in Readings(path)
      /\ UNCHANGED <<files, path, used, appends, acked, stranded>>
  BY DEF Checkpoint
<1>3. saved' \in Content /\ Numbered(saved') /\ saved' # None
  BY <1>2, ReadingFacts, NoneFacts
<1>4. WriterInv' /\ OpenInv'
  BY <1>2, <1>3, LeaveKeeps
<1>5. TypeOK'
  BY <1>1, <1>2, <1>3, LeaveFacts DEF TypeOK
<1>6. QED
  BY <1>1, <1>2, <1>3, <1>4, <1>5 DEF IInv, Contiguous

\* The new file is one nobody has opened.
LEMMA RestoreInv == ASSUME IInv, NEW p \in Procs, Restore(p) PROVE IInv'
<1> DEFINE n == used + 1
<1>1. TypeOK /\ WriterInv /\ OpenInv /\ Contiguous
  BY DEF IInv
<1>2. n \in Inodes /\ n \in Nat /\ used \in Nat /\ \A q \in Procs : fd[q] \in Nat /\ fd[q] < n
  BY <1>1, SessionFileAssumption DEF Restore, TypeOK, OpenInv, Inodes
<1>3. saved \in Content /\ Numbered(saved) /\ saved # None
  BY <1>1 DEF Restore, TypeOK, OpenInv, Contiguous
<1>4. files' \in [Inodes -> Content] /\ Contiguous'
  BY <1>1, <1>2, <1>3 DEF Restore, TypeOK, Contiguous
<1>6. TypeOK'
  <2>1. /\ path' = n /\ used' = n /\ n <= n
        /\ pc' = [pc EXCEPT ![p] = "lock"] /\ op' = [op EXCEPT ![p] = "read"]
        /\ fd' = [fd EXCEPT ![p] = n] /\ lock' \in [Inodes -> Procs \union {None}]
        /\ UNCHANGED <<saved, line, appends>>
        /\ acked' \subseteq acked /\ stranded' \in BOOLEAN
    BY <1>1, <1>2 DEF Restore, Release, TypeOK
  <2>2. QED
    BY <1>1, <1>2, <1>4, <2>1 DEF TypeOK
<1>7. OpenInv'
  BY <1>1, <1>2, <1>3 DEF Restore, TypeOK, OpenInv
<1>8. WriterInv'
  <2> SUFFICES ASSUME NEW q \in Procs, pc'[q] = "write"
               PROVE  /\ lock'[fd'[q]] = q
                      /\ files'[fd'[q]].tail = "none"
                      /\ line'[q].seq = Len(files'[fd'[q]].events)
                      /\ line'[q].id \in Ids
    BY DEF WriterInv
  <2>1. q # p /\ pc[q] = "write" /\ fd'[q] = fd[q] /\ line'[q] = line[q]
    BY <1>1 DEF Restore, TypeOK
  <2>2. lock[fd[q]] = q /\ fd[q] \in Inodes
    BY <1>1, <2>1 DEF WriterInv, TypeOK
  <2>3. lock'[fd[q]] = q /\ files'[fd[q]] = files[fd[q]]
    BY <1>1, <1>2, <2>1, <2>2 DEF Restore, Release, TypeOK
  <2>4. QED
    BY <1>1, <2>1, <2>3 DEF WriterInv
<1>9. QED
  BY <1>4, <1>6, <1>7, <1>8 DEF IInv

LEMMA NextInv == IInv /\ [Next]_vars => IInv'
<1> SUFFICES ASSUME IInv, [Next]_vars PROVE IInv'
  OBVIOUS
<1>1. ASSUME NEW p \in Procs, Step(p) PROVE IInv'
  <2>1. ASSUME Crash(p) PROVE IInv'
    <3>1. Leave(p) /\ UNCHANGED <<files, path, used, saved, appends, acked, stranded>>
      BY <2>1 DEF Crash
    <3>2. WriterInv' /\ OpenInv'
      BY <3>1, LeaveKeeps
    <3>3. TypeOK'
      BY <3>1, LeaveFacts DEF IInv, TypeOK
    <3>4. QED
      BY <3>1, <3>2, <3>3 DEF IInv, Contiguous
  <2>2. QED
    BY <1>1, <2>1, BeginInv, CheckInv, LockTargetInv, LoadInv, WriteInv,
       CheckpointInv, RestoreInv DEF Step
<1>2. CASE UNCHANGED vars
  BY <1>2 DEF vars, IInv, TypeOK, WriterInv, OpenInv, Contiguous
<1>3. QED
  BY <1>1, <1>2 DEF Next

THEOREM Invariance == Spec => []IInv
  BY InitInv, NextInv, PTL DEF Spec

\* The types of the files, the processes and the lock.
THEOREM Typing == Spec => []TypeOK
  BY Invariance, PTL DEF IInv

\* Processes that append, crash and repair together never number a log, or a
\* checkpoint of it, in a way that load_events would refuse.
THEOREM AlwaysContiguous == Spec => []Contiguous
  BY Invariance, PTL DEF IInv

\* Every step extends the log at the path by one event, saves it, rolls it back
\* to the checkpoint, or leaves it as it is.
THEOREM Refinement == Spec => ImplementsLog
<1>1. Init => Log!Init
  BY InodesNat DEF Init, Log!Init, PathEvents, SavedEvents
<1>2. ASSUME IInv, IInv', [Next]_vars
      PROVE  [Log!Extend \/ Log!Save \/ Log!Rollback]_<<PathEvents, SavedEvents>>
  <2> USE DEF PathEvents, SavedEvents
  <2>1. TypeOK /\ WriterInv /\ OpenInv
    BY <1>2 DEF IInv
  <2>2. CASE UNCHANGED vars
    BY <2>2 DEF vars
  <2>3. ASSUME NEW p \in Procs,
               (\E operation \in {"read", "append", "checkpoint", "restore"} :
                  Begin(p, operation))
               \/ LockTarget(p) \/ Crash(p)
        PROVE  UNCHANGED <<PathEvents, SavedEvents>>
    BY <2>3 DEF Begin, LockTarget, Crash
  <2>4. ASSUME NEW p \in Procs, Check(p)
        PROVE  UNCHANGED <<PathEvents, SavedEvents>>
    <3>1. UNCHANGED <<files, path>>
      BY <2>4 DEF Check
    <3>2. CASE saved' = saved
      BY <3>1, <3>2
    <3>3. CASE Restorable /\ saved' = Repaired(saved)
      BY <2>1, <3>1, <3>3, RepairedFacts, NoneFacts DEF Restorable, TypeOK
    <3>4. QED
      BY <2>4, <3>2, <3>3 DEF Check
  <2>5. ASSUME NEW p \in Procs, Load(p)
        PROVE  UNCHANGED <<PathEvents, SavedEvents>>
    <3>1. files[fd[p]] \in Content
      BY <2>1 DEF TypeOK
    <3>2. files' = files \/ files' = [files EXCEPT ![fd[p]] = Repaired(files[fd[p]])]
      BY <2>5 DEF Load
    <3>3. files'[path].events = files[path].events
      BY <2>1, <3>1, <3>2, RepairedFacts DEF TypeOK
    <3>4. QED
      BY <2>5, <3>3 DEF Load
  <2>6. ASSUME NEW p \in Procs, Write(p) \/ WriteFails(p)
        PROVE  Log!Extend \/ UNCHANGED <<PathEvents, SavedEvents>>
    <3>1. /\ files[fd[p]] \in Content /\ line[p] \in Event /\ line[p].id \in Ids
          /\ line[p].seq = Len(files[fd[p]].events)
      BY <2>1, <2>6 DEF Write, WriteFails, TypeOK, WriterInv
    <3>2. line[p] = [seq |-> Len(files[fd[p]].events), id |-> line[p].id]
      BY <3>1 DEF Event
    <3>3. PICK g \in Torn(files[fd[p]], line[p]) : files' = [files EXCEPT ![fd[p]] = g]
      BY <2>6 DEF Write, WriteFails, Torn
    <3>4. g.events \in {files[fd[p]].events, Append(files[fd[p]].events, line[p])}
      BY <3>1, TornFacts
    <3>5. UNCHANGED <<path, saved>>
      BY <2>6 DEF Write, WriteFails
    <3>6. CASE fd[p] # path
      BY <2>1, <3>3, <3>5, <3>6 DEF TypeOK
    <3>7. CASE fd[p] = path
      BY <2>1, <3>1, <3>2, <3>3, <3>4, <3>5, <3>7 DEF TypeOK, Log!Extend, Log!Extended
    <3>8. QED
      BY <3>6, <3>7
  <2>7. ASSUME NEW p \in Procs, Checkpoint(p)
        PROVE  Log!Save
    <3>1. saved' \in Readings(path) /\ UNCHANGED <<files, path>>
      BY <2>7 DEF Checkpoint
    <3>2. saved' # None
      BY <1>2, <3>1, ReadingFacts, NoneFacts
    <3>3. QED
      BY <1>2, <3>1, <3>2, ReadingFacts DEF Log!Save, Log!Extended
  <2>8. ASSUME NEW p \in Procs, Restore(p)
        PROVE  Log!Rollback
    <3>1. saved # None /\ saved \in Content /\ saved' = saved
      BY <2>1, <2>8 DEF Restore, OpenInv, TypeOK
    <3>2. used + 1 \in Inodes
      BY <2>1, <2>8, SessionFileAssumption DEF Restore, TypeOK, Inodes
    <3>3. files'[path'] = saved
      BY <2>1, <2>8, <3>2 DEF Restore, TypeOK
    <3>4. saved.events # None
      BY <3>1, NoneFacts DEF Content
    <3>5. QED
      BY <3>1, <3>3, <3>4 DEF Log!Rollback
  <2>9. QED
    BY <1>2, <2>2, <2>3, <2>4, <2>5, <2>6, <2>7, <2>8 DEF Next, Step
<1>3. QED
  BY <1>1, <1>2, Invariance, PTL DEF Spec, ImplementsLog, Log!Spec

----------------------------------------------------------------------------
(* What the flock protects besides the numbers.                            *)

\* As long as no restore stranded anybody, whoever works on the session has the
\* file its path names.
FollowInv == ~stranded => \A p \in Procs : pc[p] # "idle" => fd[p] = path

\* A process about to copy holds the lock of its file, which a checkpoint has
\* repaired by then.
CopyInv ==
  \A p \in Procs : pc[p] = "copy" =>
    /\ lock[fd[p]] = p
    /\ op[p] = "checkpoint" => files[fd[p]].tail = "none"

\* A file that is not there yet has no torn line.
FreshInv == \A i \in Inodes : i > used => files[i].tail = "none"

FileInv == FollowInv /\ CopyInv /\ FreshInv /\ CheckpointWhole /\ AckedInLog

\* A step of p leaves the other processes where they are, and neither takes nor
\* writes a file of which another process holds the lock.
LEMMA OthersKeep ==
  ASSUME IInv, NEW p \in Procs, Step(p), NEW q \in Procs, q # p
  PROVE  /\ pc'[q] = pc[q] /\ op'[q] = op[q] /\ fd'[q] = fd[q]
         /\ \A i \in Inodes : i <= used /\ lock[i] = q =>
              lock'[i] = q /\ files'[i] = files[i]
<1> USE SessionFileAssumption
<1>1. TypeOK /\ WriterInv /\ OpenInv
  BY DEF IInv
<1>2. ASSUME Leave(p)
      PROVE  /\ pc'[q] = pc[q] /\ op'[q] = op[q] /\ fd'[q] = fd[q]
             /\ \A i \in Inodes : lock[i] = q => lock'[i] = q
  BY <1>1, <1>2, LeaveFacts
<1>3. ASSUME NEW operation \in {"read", "append", "checkpoint", "restore"},
             Begin(p, operation)
      PROVE  /\ pc'[q] = pc[q] /\ op'[q] = op[q] /\ fd'[q] = fd[q]
             /\ \A i \in Inodes : lock[i] = q => lock'[i] = q /\ files'[i] = files[i]
  BY <1>1, <1>3 DEF Begin, TypeOK
<1>4. CASE Check(p)
  BY <1>1, <1>2, <1>4 DEF Check, TypeOK
<1>5. CASE LockTarget(p)
  BY <1>1, <1>5 DEF LockTarget, Unlocked, TypeOK
<1>6. CASE Load(p)
  <2>1. lock[fd[p]] = None /\ fd[p] \in Inodes
    BY <1>1, <1>6 DEF Load, Unlocked, TypeOK
  <2>2. \A i \in Inodes : i # fd[p] => files'[i] = files[i]
    BY <1>1, <1>6 DEF Load, TypeOK
  <2>3. Leave(p) \/ (/\ lock' = [lock EXCEPT ![fd[p]] = p]
                     /\ \E place \in {"copy", "write"} : pc' = [pc EXCEPT ![p] = place]
                     /\ UNCHANGED <<op, fd>>)
    BY <1>6 DEF Load
  <2>4. QED
    BY <1>1, <1>2, <2>1, <2>2, <2>3 DEF TypeOK
<1>7. CASE Write(p) \/ WriteFails(p)
  <2>1. lock[fd[p]] = p /\ fd[p] \in Inodes
    BY <1>1, <1>7 DEF Write, WriteFails, WriterInv, TypeOK
  <2>2. Leave(p) /\ \A i \in Inodes : i # fd[p] => files'[i] = files[i]
    BY <1>1, <1>7 DEF Write, WriteFails, TypeOK
  <2>3. QED
    BY <1>2, <2>1, <2>2
<1>8. CASE Checkpoint(p) \/ Crash(p)
  BY <1>1, <1>2, <1>8 DEF Checkpoint, Crash
<1>9. CASE Restore(p)
  <2>1. \A i \in Inodes : i <= used => files'[i] = files[i]
    BY <1>1, <1>9 DEF Restore, TypeOK, Inodes
  <2>2. \A i \in Inodes : lock[i] = q => lock'[i] = q
    BY <1>1, <1>9 DEF Restore, Release, TypeOK
  <2>3. QED
    BY <1>1, <1>9, <2>1, <2>2 DEF Restore, TypeOK
<1>10. QED
  BY <1>3, <1>4, <1>5, <1>6, <1>7, <1>8, <1>9 DEF Step

\* What an append adds to the ids of a log, and what nothing takes away.
LEMMA IdsFacts ==
  ASSUME NEW f \in Content, NEW e \in Event
  PROVE  /\ IdsIn(Repaired(f)) = IdsIn(f)
         /\ IdsIn(f) \subseteq IdsIn(Extended(f, e)) /\ e.id \in IdsIn(Extended(f, e))
         /\ \A g \in Torn(f, e) : IdsIn(f) \subseteq IdsIn(g)
<1>1. IdsIn(Repaired(f)) = IdsIn(f)
  BY RepairedFacts DEF IdsIn
<1>2. \A s \in {f.events, Append(f.events, e)} : \A n \in DOMAIN f.events :
        n \in DOMAIN s /\ s[n] = f.events[n]
  BY DEF Content
<1>3. /\ Len(f.events) + 1 \in DOMAIN Append(f.events, e)
      /\ Append(f.events, e)[Len(f.events) + 1] = e
  BY DEF Content
<1>4. IdsIn(f) \subseteq IdsIn(Extended(f, e)) /\ e.id \in IdsIn(Extended(f, e))
  <2>1. Extended(f, e).events = Append(f.events, e)
    BY ExtendedFacts
  <2>2. IdsIn(Extended(f, e)) = {Append(f.events, e)[n].id : n \in DOMAIN Append(f.events, e)}
    BY <2>1 DEF IdsIn
  <2>3. IdsIn(f) \subseteq IdsIn(Extended(f, e))
    BY <1>2, <2>2 DEF IdsIn
  <2>4. e.id \in IdsIn(Extended(f, e))
    BY <1>3, <2>2
  <2>5. QED
    BY <2>3, <2>4
<1>5. \A g \in Torn(f, e) : IdsIn(f) \subseteq IdsIn(g)
  BY <1>2, TornFacts DEF IdsIn
<1>6. QED
  BY <1>1, <1>4, <1>5

LEMMA InitFile == Init => FileInv
  BY DEF Init, FileInv, FollowInv, CopyInv, FreshInv, CheckpointWhole, AckedInLog, IdsIn

LEMMA FollowStep ==
  ASSUME IInv, FollowInv, NEW p \in Procs, Step(p)
  PROVE  FollowInv'
<1>1. TypeOK /\ TypeOK'
  BY NextInv DEF IInv, Next
<1> SUFFICES ASSUME ~stranded', NEW q \in Procs, pc'[q] # "idle"
             PROVE  fd'[q] = path'
  BY DEF FollowInv
<1>2. CASE Restore(p)
  <2>1. q = p
    BY <1>1, <1>2 DEF Restore, TypeOK
  <2>2. QED
    BY <1>1, <1>2, <2>1 DEF Restore, TypeOK
<1>3. CASE ~Restore(p)
  <2>1. path' = path /\ ~stranded
    BY <1>3 DEF Step, Begin, Check, LockTarget, Load, Write, WriteFails, Checkpoint, Crash
  <2>2. CASE q # p
    BY <2>1, <2>2, OthersKeep DEF FollowInv
  <2>3. CASE q = p
    <3>1. ~Leave(p)
      BY <1>1, <2>3, LeaveFacts
    <3>2. ~Write(p) /\ ~WriteFails(p) /\ ~Checkpoint(p) /\ ~Crash(p)
      BY <3>1 DEF Write, WriteFails, Checkpoint, Crash
    <3>3. fd'[p] = path \/ (fd'[p] = fd[p] /\ pc[p] # "idle")
      BY <1>1, <1>3, <3>1, <3>2 DEF Step, TypeOK, Begin, Check, LockTarget, Load, Unlocked
    <3>4. QED
      BY <2>1, <2>3, <3>3 DEF FollowInv
  <2>4. QED
    BY <2>2, <2>3
<1>4. QED
  BY <1>2, <1>3

LEMMA CopyStep ==
  ASSUME IInv, CopyInv, NEW p \in Procs, Step(p)
  PROVE  CopyInv'
<1>1. TypeOK /\ TypeOK' /\ OpenInv
  BY NextInv DEF IInv, Next
<1> SUFFICES ASSUME NEW q \in Procs, pc'[q] = "copy"
             PROVE  /\ lock'[fd'[q]] = q
                    /\ op'[q] = "checkpoint" => files'[fd'[q]].tail = "none"
  BY DEF CopyInv
<1>2. CASE q # p
  <2>1. /\ pc[q] = "copy" /\ op'[q] = op[q] /\ fd'[q] = fd[q]
        /\ fd[q] \in Inodes /\ fd[q] <= used
    BY <1>1, <1>2, OthersKeep DEF TypeOK, OpenInv
  <2>2. lock[fd[q]] = q
    BY <2>1 DEF CopyInv
  <2>3. lock'[fd[q]] = q /\ files'[fd[q]] = files[fd[q]]
    BY <1>2, <2>1, <2>2, OthersKeep
  <2>4. QED
    BY <2>1, <2>3 DEF CopyInv
<1>3. CASE q = p
  <2>1. ~Leave(p)
    BY <1>1, <1>3, LeaveFacts
  <2>2. LockTarget(p) \/ Load(p)
    BY <1>1, <1>3, <2>1
    DEF Step, TypeOK, Begin, Check, Write, WriteFails, Checkpoint, Restore, Crash
  <2>3. CASE LockTarget(p)
    BY <1>1, <1>3, <2>3 DEF LockTarget, Unlocked, TypeOK
  <2>4. CASE Load(p)
    <3>1. /\ files' = [files EXCEPT ![fd[p]] = Repaired(files[fd[p]])]
          /\ lock' = [lock EXCEPT ![fd[p]] = p] /\ fd' = fd
      BY <1>1, <1>3, <2>1, <2>4 DEF Load, TypeOK
    <3>2. Repaired(files[fd[p]]).tail = "none"
      BY <1>1, RepairedFacts DEF TypeOK
    <3>3. QED
      BY <1>1, <1>3, <3>1, <3>2 DEF TypeOK
  <2>5. QED
    BY <2>2, <2>3, <2>4
<1>4. QED
  BY <1>2, <1>3

\* The files a step may write, and how.
LEMMA FilesFacts ==
  ASSUME IInv, NEW p \in Procs, Step(p), NEW i \in Inodes
  PROVE  \/ files'[i] = files[i]
         \/ Load(p) /\ i = fd[p] /\ Loadable(files[i]) /\ files'[i] = Repaired(files[i])
         \/ /\ Write(p) /\ i = fd[p] /\ files[i].tail = "none"
            /\ files'[i] = Extended(files[i], line[p])
         \/ /\ WriteFails(p) /\ i = fd[p] /\ files[i].tail = "none"
            /\ files'[i] \in Torn(files[i], line[p])
         \/ Restore(p) /\ i = used + 1 /\ files'[i] = saved
<1>1. TypeOK /\ WriterInv
  BY DEF IInv
<1>2. CASE Load(p)
  BY <1>1, <1>2 DEF Load, TypeOK
<1>3. CASE Write(p)
  BY <1>1, <1>3 DEF Write, TypeOK, WriterInv
<1>4. CASE WriteFails(p)
  BY <1>1, <1>4 DEF WriteFails, TypeOK, WriterInv
<1>5. CASE Restore(p)
  BY <1>1, <1>5 DEF Restore, TypeOK
<1>6. CASE ~(Load(p) \/ Write(p) \/ WriteFails(p) \/ Restore(p))
  BY <1>6 DEF Step, Begin, Check, LockTarget, Checkpoint, Crash
<1>7. QED
  BY <1>2, <1>3, <1>4, <1>5, <1>6

LEMMA FreshStep ==
  ASSUME IInv, FreshInv, NEW p \in Procs, Step(p)
  PROVE  FreshInv'
<1>1. TypeOK /\ TypeOK' /\ OpenInv
  BY NextInv DEF IInv, Next
<1> SUFFICES ASSUME NEW i \in Inodes, i > used' PROVE files'[i].tail = "none"
  BY DEF FreshInv
<1>2. i \in Nat /\ used \in Nat /\ fd[p] \in Nat /\ fd[p] <= used
  BY <1>1 DEF TypeOK, OpenInv, Inodes
<1>3. used' = used \/ (Restore(p) /\ used' = used + 1)
  BY DEF Step, Begin, Check, LockTarget, Load, Write, WriteFails, Checkpoint, Restore, Crash
<1>4. files'[i] = files[i]
  BY <1>2, <1>3, FilesFacts DEF Restore
<1>5. QED
  BY <1>2, <1>3, <1>4 DEF FreshInv

LEMMA WholeStep ==
  ASSUME IInv, FileInv, NEW p \in Procs, Step(p)
  PROVE  CheckpointWhole'
<1>1. TypeOK /\ WriterInv
  BY DEF IInv
<1> SUFFICES ASSUME ~stranded', saved' # None PROVE saved'.tail = "none"
  BY DEF CheckpointWhole
<1>2. ~stranded
  BY DEF Step, Begin, Check, LockTarget, Load, Write, WriteFails, Checkpoint, Restore, Crash
<1>3. CASE saved' = saved
  BY <1>2, <1>3 DEF FileInv, CheckpointWhole
<1>4. CASE saved' # saved /\ Check(p)
  BY <1>1, <1>4, RepairedFacts DEF Check, Restorable, TypeOK
<1>5. CASE Checkpoint(p)
  <2>1. fd[p] = path /\ lock[path] = p /\ files[path].tail = "none"
    BY <1>2, <1>5 DEF Checkpoint, FileInv, FollowInv, CopyInv
  <2>2. ~\E q \in Procs : pc[q] = "write" /\ fd[q] = path
    BY <1>1, <1>5, <2>1 DEF Checkpoint, WriterInv
  <2>3. saved' = files[path]
    BY <1>5, <2>2 DEF Checkpoint, Readings
  <2>4. QED
    BY <2>1, <2>3
<1>6. QED
  BY <1>3, <1>4, <1>5
  DEF Step, Begin, LockTarget, Load, Write, WriteFails, Restore, Crash

LEMMA AckedStep ==
  ASSUME IInv, FileInv, NEW p \in Procs, Step(p)
  PROVE  AckedInLog'
<1>1. TypeOK /\ WriterInv /\ OpenInv
  BY DEF IInv
<1> SUFFICES ASSUME ~stranded' PROVE acked' \subseteq IdsIn(files'[path'])
  BY DEF AckedInLog
<1>2. ~stranded /\ acked \subseteq IdsIn(files[path])
  <2>1. ~stranded
    BY DEF Step, Begin, Check, LockTarget, Load, Write, WriteFails, Checkpoint, Restore, Crash
  <2>2. QED
    BY <2>1 DEF FileInv, AckedInLog
<1>3. CASE Restore(p)
  <2>1. path' = used + 1 /\ path' \in Inodes /\ acked' \subseteq IdsIn(saved)
    BY <1>1, <1>3, SessionFileAssumption DEF Restore, TypeOK, Inodes
  <2>2. files'[path'] = saved
    BY <1>1, <1>3, <2>1 DEF Restore, TypeOK
  <2>3. QED
    BY <2>1, <2>2
<1>4. CASE Write(p)
  <2>1. fd[p] = path /\ line[p] \in Event /\ files[path] \in Content
    BY <1>1, <1>2, <1>4 DEF Write, FileInv, FollowInv, TypeOK
  <2>2. path' = path /\ files'[path] = Extended(files[path], line[p])
    BY <1>1, <1>4, <2>1 DEF Write, TypeOK
  <2>3. acked' = acked \union {line[p].id}
    BY <1>4 DEF Write
  <2>4. QED
    BY <1>2, <2>1, <2>2, <2>3, IdsFacts
<1>5. CASE ~Restore(p) /\ ~Write(p)
  <2>1. path' = path /\ acked' = acked /\ path \in Inodes /\ files[path] \in Content
    BY <1>1, <1>5
    DEF Step, Begin, Check, LockTarget, Load, WriteFails, Checkpoint, Crash, TypeOK
  <2>2. CASE files'[path] = Repaired(files[path])
    BY <2>1, <2>2, RepairedFacts, <1>2 DEF IdsIn
  <2>3. CASE WriteFails(p) /\ files'[path] \in Torn(files[path], line[p])
    <3>1. line[p] \in Event
      BY <1>1, <2>3 DEF WriteFails, TypeOK
    <3>2. QED
      BY <1>2, <2>1, <2>3, <3>1, IdsFacts
  <2>4. QED
    BY <1>2, <1>5, <2>1, <2>2, <2>3, FilesFacts
<1>6. QED
  BY <1>3, <1>4, <1>5

LEMMA FileNext == IInv /\ FileInv /\ [Next]_vars => FileInv'
<1> SUFFICES ASSUME IInv, FileInv, [Next]_vars PROVE FileInv'
  OBVIOUS
<1>1. ASSUME NEW p \in Procs, Step(p) PROVE FileInv'
  <2>1. FollowInv' /\ CopyInv' /\ FreshInv'
    BY <1>1, FollowStep, CopyStep, FreshStep DEF FileInv
  <2>2. CheckpointWhole' /\ AckedInLog'
    BY <1>1, WholeStep, AckedStep
  <2>3. QED
    BY <2>1, <2>2 DEF FileInv
<1>2. CASE UNCHANGED vars
  BY <1>2
  DEF vars, FileInv, FollowInv, CopyInv, FreshInv, CheckpointWhole, AckedInLog
<1>3. QED
  BY <1>1, <1>2 DEF Next

THEOREM FileInvariance == Spec => []FileInv
  BY InitFile, FileNext, Invariance, PTL DEF Spec

\* No append that returned Ok is lost to a crash, a repair or a failed write, as
\* long as no restore replaced the file under another operation.
THEOREM AckedSurvives == Spec => []AckedInLog
  BY FileInvariance, PTL DEF FileInv

\* Until then the flock keeps a checkpoint from copying half a line.
THEOREM CheckpointsAreWhole == Spec => []CheckpointWhole
  BY FileInvariance, PTL DEF FileInv

\* A file load_events refuses is never written again, by anybody: neither a
\* writer nor a repair has it open under its lock, and a restore uses a new one.
THEOREM RefusedStays == Spec => RefusedIsFrozen
<1>1. ASSUME IInv, FileInv, [Next]_vars,
             NEW i \in Inodes, files[i].tail = "stub"
      PROVE  files'[i] = files[i]
  <2>1. CASE UNCHANGED vars
    BY <2>1 DEF vars
  <2>2. ASSUME NEW p \in Procs, Step(p) PROVE files'[i] = files[i]
    <3>1. ~(Restore(p) /\ i = used + 1)
      BY <1>1 DEF IInv, TypeOK, Inodes, FileInv, FreshInv
    <3>2. ~Loadable(files[i])
      BY <1>1 DEF Loadable
    <3>3. QED
      BY <1>1, <2>2, <3>1, <3>2, FilesFacts
  <2>3. QED
    BY <1>1, <2>1, <2>2 DEF Next
<1>2. IInv /\ FileInv /\ [Next]_vars =>
        [\A i \in Inodes : files[i].tail = "stub" => files'[i] = files[i]]_vars
  BY <1>1
<1>3. QED
  BY <1>2, Invariance, FileInvariance, PTL DEF Spec, RefusedIsFrozen
=============================================================================
