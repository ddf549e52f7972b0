------------------------- MODULE SharedPartsProofs -------------------------
(***************************************************************************)
(* What is proved about four parts of a process that its runs share, for   *)
(* any sets of threads, messages and streams.  First the team runtime pool:*)
(* the gate counts its tickets and drains quietly, and the background      *)
(* controller accounts for its runs.  Then the message queue and its       *)
(* questioners: the log is ordered, an offset delivers it without gaps,    *)
(* and an answer reaches the node that asked.  Then the stream emitter: a  *)
(* reader returns each stream in order and without gaps.  Last the plugin  *)
(* kernel: the search orders every group that can be ordered, and mounting *)
(* leaves nothing behind.  The parts share no variable, and none uses what *)
(* is proved of another.                                                   *)
(***************************************************************************)
EXTENDS TeamPool, Questioner, StreamChannel, PluginKernel, FiniteSetTheorems,
        SequenceTheorems, WellFoundedInduction, TLAPS

----------------------------------------------------------------------------
(* The gate.                                                               *)

\* A closer that found the gate drained still finds it so, as long as the gate
\* it closed has not been opened again; and that gate is closed.
ClosedIsKept ==
  \A c \in Closers : fresh[c] => closed /\ (closer[c] = "drained" => drained)

\* The count may fall behind the tickets of its cycle but never exceeds them.
Counted ==
  /\ inflight \in Nat
  /\ inflight <= Cardinality(Out("current"))

GateShape ==
  /\ closed \in BOOLEAN /\ drained \in BOOLEAN /\ spoiled \in BOOLEAN
  /\ ticket \in [Members -> {"none", "current", "stale"}]
  /\ closer \in [Closers -> {"idle", "asleep", "woken", "drained"}]
  /\ fresh \in [Closers -> BOOLEAN]

GateInv == GateShape /\ Counted /\ CountMatches /\ ClosedIsKept

\* The tickets of the current cycle are finitely many.
LEMMA OutFinite ==
  /\ IsFiniteSet(Out("current"))
  /\ Cardinality(Out("current")) \in Nat
  /\ Cardinality(Members) \in Nat
  /\ Cardinality(Out("current")) <= Cardinality(Members)
<1>1. Out("current") \in SUBSET Members
  BY DEF Out
<1>2. QED
  BY <1>1, GateAssumption, FS_Subset, FS_CardinalityType

\* The inductive invariant gives the type of the counter and the quiet drain.
LEMMA GateInvImplies == GateInv => GateTypeOK /\ CountMatches /\ DrainIsQuiet
<1> SUFFICES ASSUME GateInv PROVE GateTypeOK /\ DrainIsQuiet
  BY DEF GateInv
<1>1. GateTypeOK
  BY OutFinite DEF GateInv, GateShape, Counted, GateTypeOK
<1>2. ASSUME NEW c \in Closers, closer[c] = "drained", fresh[c], ~spoiled
      PROVE  closed /\ Out("current") = {}
  <2>1. closed /\ inflight = 0
    BY <1>2 DEF GateInv, ClosedIsKept, CountMatches
  <2>2. Cardinality(Out("current")) = 0
    BY <1>2, <2>1 DEF GateInv, CountMatches
  <2>3. QED
    BY <2>1, <2>2, OutFinite, FS_EmptySet
<1>3. QED
  BY <1>1, <1>2 DEF DrainIsQuiet

LEMMA GateInitInv == GateInit => GateInv
<1> SUFFICES ASSUME GateInit PROVE GateInv
  OBVIOUS
<1>1. Out("current") = {}
  BY DEF GateInit, Out
<1>2. Cardinality(Out("current")) = 0
  BY <1>1, FS_EmptySet
<1>3. GateShape /\ ClosedIsKept
  BY DEF GateInit, GateShape, ClosedIsKept
<1>4. Counted /\ CountMatches
  BY <1>2 DEF GateInit, Counted, CountMatches
<1>5. QED
  BY <1>3, <1>4 DEF GateInv

LEMMA AdmitInv == ASSUME GateInv, NEW m \in Members, Admit(m) PROVE GateInv'
<1>1. GateShape'
  BY DEF GateInv, GateShape, Admit
<1>2. Out("current")' = Out("current") \cup {m} /\ m \notin Out("current")
  BY DEF GateInv, GateShape, Admit, Out
<1>3. Cardinality(Out("current"))' = Cardinality(Out("current")) + 1
  BY <1>2, OutFinite, FS_AddElement
<1>4. Counted' /\ CountMatches'
  BY <1>3, OutFinite DEF GateInv, Counted, CountMatches, Admit
<1>5. ClosedIsKept'
  BY DEF GateInv, ClosedIsKept, Admit
<1>6. QED
  BY <1>1, <1>4, <1>5 DEF GateInv

LEMMA ConsumeInv == ASSUME GateInv, NEW m \in Members, ConsumeDone(m) PROVE GateInv'
<1>1. GateShape'
  BY DEF GateInv, GateShape, ConsumeDone, Notified
<1>2. Out("current")' = Out("current") \ {m}
  BY DEF GateInv, GateShape, ConsumeDone, Out
<1>3. m \in Out("current") <=> ticket[m] = "current"
  BY DEF Out
<1>4. Cardinality(Out("current"))' = IF ticket[m] = "current"
                                     THEN Cardinality(Out("current")) - 1
                                     ELSE Cardinality(Out("current"))
  BY <1>2, <1>3, OutFinite, FS_RemoveElement
<1>5. Cardinality(Out("current"))' \in Nat
  BY <1>2, OutFinite, FS_RemoveElement, FS_CardinalityType
<1>6. ticket[m] \in {"current", "stale"}
  BY DEF GateInv, GateShape, ConsumeDone
<1>7. ASSUME inflight = 0 PROVE Counted' /\ CountMatches'
  <2>1. UNCHANGED <<inflight, drained, spoiled>>
    BY <1>7 DEF ConsumeDone
  <2>2. ~spoiled => Cardinality(Out("current")) = 0 /\ ticket[m] # "current"
    <3>1. Cardinality(Out("current")) = 0 => Out("current") = {}
      BY OutFinite, FS_EmptySet
    <3>2. QED
      BY <1>3, <1>7, <3>1 DEF GateInv, CountMatches
  <2>3. QED
    BY <1>4, <1>5, <1>7, <2>1, <2>2 DEF GateInv, Counted, CountMatches
<1>8. ASSUME inflight # 0 PROVE Counted' /\ CountMatches'
  <2>1. inflight' = inflight - 1 /\ inflight \in Nat /\ inflight' \in Nat
    BY <1>8 DEF ConsumeDone, GateInv, Counted
  <2>2. ~spoiled' => ~spoiled /\ ticket[m] # "stale"
    BY <1>8 DEF ConsumeDone
  <2>3. drained' <=> inflight' = 0
    BY <1>8, <2>1 DEF ConsumeDone, GateInv, CountMatches
  <2>4. inflight' <= Cardinality(Out("current"))'
    BY <1>4, <1>5, <1>6, <2>1, OutFinite DEF GateInv, Counted
  <2>5. ~spoiled' => inflight' = Cardinality(Out("current"))'
    BY <1>4, <1>6, <2>1, <2>2 DEF GateInv, CountMatches
  <2>6. QED
    BY <2>1, <2>3, <2>4, <2>5 DEF Counted, CountMatches
<1>9. ClosedIsKept'
  BY DEF GateInv, GateShape, ClosedIsKept, ConsumeDone, Notified
<1>10. QED
  BY <1>1, <1>7, <1>8, <1>9 DEF GateInv

LEMMA CloserInv ==
  ASSUME GateInv, NEW c \in Closers,
         Close(c) \/ Recheck(c) \/ WakeSpuriously(c) \/ CloserLeaves(c)
  PROVE  GateInv'
<1>1. UNCHANGED <<inflight, ticket, spoiled>>
  BY DEF Close, Recheck, WakeSpuriously, CloserLeaves
<1>2. Out("current")' = Out("current")
  BY <1>1 DEF Out
<1>3. GateShape'
  BY DEF GateInv, GateShape, Close, Recheck, WakeSpuriously, CloserLeaves
<1>4. Counted' /\ CountMatches'
  BY <1>1, <1>2
     DEF GateInv, GateShape, Counted, CountMatches, Close, Recheck, WakeSpuriously, CloserLeaves
<1>5. ClosedIsKept'
  BY DEF GateInv, GateShape, CountMatches, ClosedIsKept, Close, Recheck,
         WakeSpuriously, CloserLeaves
<1>6. QED
  BY <1>3, <1>4, <1>5 DEF GateInv

LEMMA ResetInv == ASSUME GateInv, Reset PROVE GateInv'
<1>1. Out("current")' = {}
  BY DEF Reset, Out
<1>2. Cardinality(Out("current"))' = 0
  BY <1>1, FS_EmptySet
<1>3. GateShape' /\ ClosedIsKept'
  BY DEF GateInv, GateShape, ClosedIsKept, Reset, Notified
<1>4. Counted' /\ CountMatches'
  BY <1>2 DEF Counted, CountMatches, Reset
<1>5. QED
  BY <1>3, <1>4 DEF GateInv

LEMMA GateNextInv == GateInv /\ [GateNext]_gateVars => GateInv'
<1> SUFFICES ASSUME GateInv, [GateNext]_gateVars PROVE GateInv'
  OBVIOUS
<1>1. CASE UNCHANGED gateVars
  BY <1>1 DEF gateVars, GateInv, GateShape, Counted, CountMatches, ClosedIsKept, Out
<1>2. QED
  BY <1>1, AdmitInv, ConsumeInv, CloserInv, ResetInv DEF GateNext

----------------------------------------------------------------------------
(* The background runs.                                                    *)

\* A task nobody has launched has no run, no handle and nothing to resume.
Unbegun ==
  /\ paused \subseteq begun
  /\ \A t \in Tasks \ begun : active[t] = NoLaunch /\ AtWork(t) = {}

\* At most one launch of a task is at work, and none while the task is paused.
OneAtWork ==
  \A t \in Tasks :
    /\ \A k, l \in AtWork(t) : k = l
    /\ t \in paused => AtWork(t) = {}

\* A registered handle is that of a run that works or has just finished, and no
\* other launch of its task is at work: aborting it stops the task.
HandleIsOnly ==
  \A t \in Tasks : active[t] # NoLaunch =>
    /\ launch[t][active[t]] \in {"running", "finished"}
    /\ AtWork(t) \subseteq {active[t]}

RunsInv ==
  RunsTypeOK /\ Unbegun /\ OneAtWork /\ HandleIsOnly /\ NoneLost /\ AtWorkIsRegistered

\* A set without two different members has at most one.
LEMMA AtMostOne ==
  ASSUME NEW S, \A x, y \in S : x = y
  PROVE  Cardinality(S) <= 1
<1>1. CASE S = {}
  BY <1>1, FS_EmptySet
<1>2. CASE S # {}
  <2>1. PICK x \in S : S = {x}
    BY <1>2
  <2>2. QED
    BY <2>1, FS_Singleton
<1>3. QED
  BY <1>1, <1>2

LEMMA RunsInvImplies == RunsInv => RunsAccounted
BY AtMostOne DEF RunsInv, RunsAccounted, OneAtWork, NotTwice

LEMMA RunsInitInv == RunsInit => RunsInv
BY DEF RunsInit, RunsInv, RunsTypeOK, Unbegun, OneAtWork, HandleIsOnly, NoneLost,
       AtWorkIsRegistered, AtWork, Stages

LEMMA LaunchInv == ASSUME RunsInv, NEW t \in Tasks, Launch(t) PROVE RunsInv'
<1>1. PICK l \in Launches : launch' = [launch EXCEPT ![t][l] = "starting"]
  BY DEF Launch
<1>2. /\ t \notin begun /\ t \notin paused /\ t \notin settled
      /\ active[t] = NoLaunch /\ AtWork(t) = {}
      /\ begun' = begun \cup {t}
      /\ UNCHANGED <<active, paused, settled, mistaken>>
  BY DEF Launch, RunsInv, RunsTypeOK, Unbegun
<1>3. /\ launch' \in [Tasks -> [Launches -> Stages]]
      /\ \A u \in Tasks, k \in Launches :
           launch'[u][k] = IF u = t /\ k = l THEN "starting" ELSE launch[u][k]
      /\ \A u \in Tasks \ {t} : AtWork(u)' = AtWork(u)
      /\ AtWork(t)' = AtWork(t) \cup {l}
  <2>1. "starting" \in Stages /\ RunsTypeOK
    BY DEF Stages, RunsInv
  <2>2. launch' \in [Tasks -> [Launches -> Stages]]
    BY <1>1, <2>1 DEF RunsTypeOK
  <2>3. \A u \in Tasks, k \in Launches :
          launch'[u][k] = IF u = t /\ k = l THEN "starting" ELSE launch[u][k]
    BY <1>1, <2>1 DEF RunsTypeOK
  <2>4. QED
    BY <2>2, <2>3 DEF AtWork
<1>4. RunsTypeOK' /\ Unbegun'
  BY <1>2, <1>3 DEF RunsInv, RunsTypeOK, Unbegun
<1>5. OneAtWork'
  BY <1>2, <1>3 DEF RunsInv, OneAtWork
<1>6. NoneLost'
  BY <1>2, <1>3 DEF RunsInv, RunsTypeOK, NoneLost
<1>7. HandleIsOnly'
  BY <1>2, <1>3 DEF RunsInv, RunsTypeOK, HandleIsOnly
<1>8. AtWorkIsRegistered'
  BY <1>2, <1>3 DEF RunsInv, RunsTypeOK, AtWorkIsRegistered
<1>9. QED
  BY <1>4, <1>5, <1>6, <1>7, <1>8 DEF RunsInv

LEMMA RegisterInv ==
  ASSUME RunsInv, NEW t \in Tasks, NEW l \in Launches, Register(t, l)
  PROVE  RunsInv'
<1>1. /\ launch[t][l] = "starting"
      /\ launch' = [launch EXCEPT ![t][l] = "running"]
      /\ active' = [active EXCEPT ![t] = l]
      /\ UNCHANGED <<paused, begun, settled, mistaken>>
  BY DEF Register
<1>2. l \in AtWork(t) /\ AtWork(t) = {l} /\ t \in begun /\ t \notin paused
  <2>1. l \in AtWork(t)
    BY <1>1 DEF AtWork
  <2>2. QED
    BY <2>1 DEF RunsInv, OneAtWork, Unbegun
<1>3. /\ launch' \in [Tasks -> [Launches -> Stages]]
      /\ \A u \in Tasks, k \in Launches :
           launch'[u][k] = IF u = t /\ k = l THEN "running" ELSE launch[u][k]
      /\ \A u \in Tasks : AtWork(u)' = AtWork(u)
  <2>1. "running" \in Stages /\ RunsTypeOK
    BY DEF Stages, RunsInv
  <2>2. /\ launch' \in [Tasks -> [Launches -> Stages]]
        /\ \A u \in Tasks, k \in Launches :
             launch'[u][k] = IF u = t /\ k = l THEN "running" ELSE launch[u][k]
        /\ \A u \in Tasks \ {t} : AtWork(u)' = AtWork(u)
        /\ AtWork(t)' = AtWork(t) \cup {l}
    <3>1. launch' \in [Tasks -> [Launches -> Stages]]
      BY <1>1, <2>1 DEF RunsTypeOK
    <3>2. \A u \in Tasks, k \in Launches :
            launch'[u][k] = IF u = t /\ k = l THEN "running" ELSE launch[u][k]
      BY <1>1, <2>1 DEF RunsTypeOK
    <3>3. QED
      BY <3>1, <3>2 DEF AtWork
  <2>3. QED
    BY <1>2, <2>2
<1>4. RunsTypeOK' /\ Unbegun' /\ OneAtWork' /\ NoneLost'
  BY <1>1, <1>2, <1>3 DEF RunsInv, RunsTypeOK, Unbegun, OneAtWork, NoneLost
<1>5. HandleIsOnly'
  BY <1>1, <1>2, <1>3 DEF RunsInv, RunsTypeOK, HandleIsOnly
<1>6. AtWorkIsRegistered'
  <2> SUFFICES ASSUME ~mistaken, NEW u \in Tasks
               PROVE  /\ \A k \in Launches : launch'[u][k] = "running" => active'[u] = k
                      /\ u \in settled => AtWork(u) = {} /\ u \notin paused
    BY <1>1, <1>3 DEF AtWorkIsRegistered
  <2>1. ASSUME NEW k \in Launches, launch'[u][k] = "running" PROVE active'[u] = k
    <3>1. CASE u = t
      <4>1. k = l
        BY <1>2, <1>3, <2>1, <3>1 DEF AtWork
      <4>2. QED
        BY <1>1, <3>1, <4>1 DEF RunsInv, RunsTypeOK
    <3>2. CASE u # t
      BY <1>1, <1>3, <2>1, <3>2 DEF RunsInv, RunsTypeOK, AtWorkIsRegistered
    <3>3. QED
      BY <3>1, <3>2
  <2>2. QED
    BY <2>1 DEF RunsInv, AtWorkIsRegistered
<1>7. QED
  BY <1>4, <1>5, <1>6 DEF RunsInv

LEMMA FinishInv ==
  ASSUME RunsInv, NEW t \in Tasks, NEW l \in Launches, Finish(t, l)
  PROVE  RunsInv'
<1>1. /\ launch[t][l] = "running"
      /\ launch' = [launch EXCEPT ![t][l] = "finished"]
      /\ settled' = settled \cup {t}
      /\ UNCHANGED <<active, paused, begun, mistaken>>
  BY DEF Finish
<1>2. AtWork(t) = {l} /\ t \in begun /\ t \notin paused
  <2>1. l \in AtWork(t)
    BY <1>1 DEF AtWork
  <2>2. QED
    BY <2>1 DEF RunsInv, OneAtWork, Unbegun
<1>3. /\ launch' \in [Tasks -> [Launches -> Stages]]
      /\ \A u \in Tasks, k \in Launches :
           launch'[u][k] = IF u = t /\ k = l THEN "finished" ELSE launch[u][k]
      /\ \A u \in Tasks \ {t} : AtWork(u)' = AtWork(u)
      /\ AtWork(t)' = {}
  <2>1. "finished" \in Stages /\ RunsTypeOK
    BY DEF Stages, RunsInv
  <2>2. /\ launch' \in [Tasks -> [Launches -> Stages]]
        /\ \A u \in Tasks, k \in Launches :
             launch'[u][k] = IF u = t /\ k = l THEN "finished" ELSE launch[u][k]
        /\ \A u \in Tasks \ {t} : AtWork(u)' = AtWork(u)
        /\ AtWork(t)' = AtWork(t) \ {l}
    <3>1. launch' \in [Tasks -> [Launches -> Stages]]
      BY <1>1, <2>1 DEF RunsTypeOK
    <3>2. \A u \in Tasks, k \in Launches :
            launch'[u][k] = IF u = t /\ k = l THEN "finished" ELSE launch[u][k]
      BY <1>1, <2>1 DEF RunsTypeOK
    <3>3. QED
      BY <3>1, <3>2 DEF AtWork
  <2>3. QED
    BY <1>2, <2>2
<1>4. RunsTypeOK' /\ Unbegun' /\ OneAtWork' /\ NoneLost'
  BY <1>1, <1>2, <1>3 DEF RunsInv, RunsTypeOK, Unbegun, OneAtWork, NoneLost
<1>5. HandleIsOnly'
  BY <1>1, <1>2, <1>3 DEF RunsInv, RunsTypeOK, HandleIsOnly
<1>6. AtWorkIsRegistered'
  BY <1>1, <1>2, <1>3 DEF RunsInv, RunsTypeOK, AtWorkIsRegistered
<1>7. QED
  BY <1>4, <1>5, <1>6 DEF RunsInv

\* By the task's id: the handle removed may be another launch's.
LEMMA DeregisterInv ==
  ASSUME RunsInv, NEW t \in Tasks, NEW l \in Launches, Deregister(t, l)
  PROVE  RunsInv'
<1>1. /\ launch[t][l] \in {"finished", "aborted"}
      /\ launch' = [launch EXCEPT ![t][l] = "gone"]
      /\ active' = [active EXCEPT ![t] = NoLaunch]
      /\ mistaken' = (mistaken \/ active[t] \notin {l, NoLaunch})
      /\ UNCHANGED <<paused, begun, settled>>
  BY DEF Deregister
<1>2. /\ launch' \in [Tasks -> [Launches -> Stages]]
      /\ \A u \in Tasks, k \in Launches :
           launch'[u][k] = IF u = t /\ k = l THEN "gone" ELSE launch[u][k]
      /\ \A u \in Tasks : AtWork(u)' = AtWork(u)
  <2>1. "gone" \in Stages /\ RunsTypeOK
    BY DEF Stages, RunsInv
  <2>2. /\ launch' \in [Tasks -> [Launches -> Stages]]
        /\ \A u \in Tasks, k \in Launches :
             launch'[u][k] = IF u = t /\ k = l THEN "gone" ELSE launch[u][k]
        /\ \A u \in Tasks \ {t} : AtWork(u)' = AtWork(u)
        /\ AtWork(t)' = AtWork(t) \ {l}
    <3>1. launch' \in [Tasks -> [Launches -> Stages]]
      BY <1>1, <2>1 DEF RunsTypeOK
    <3>2. \A u \in Tasks, k \in Launches :
            launch'[u][k] = IF u = t /\ k = l THEN "gone" ELSE launch[u][k]
      BY <1>1, <2>1 DEF RunsTypeOK
    <3>3. QED
      BY <3>1, <3>2 DEF AtWork
  <2>3. l \notin AtWork(t)
    BY <1>1 DEF AtWork
  <2>4. QED
    BY <2>2, <2>3
<1>3. RunsTypeOK' /\ Unbegun' /\ OneAtWork' /\ NoneLost'
  BY <1>1, <1>2 DEF RunsInv, RunsTypeOK, Unbegun, OneAtWork, NoneLost
<1>4. HandleIsOnly'
  BY <1>1, <1>2 DEF RunsInv, RunsTypeOK, HandleIsOnly
<1>5. AtWorkIsRegistered'
  <2> SUFFICES ASSUME ~mistaken', NEW u \in Tasks
               PROVE  /\ \A k \in Launches : launch'[u][k] = "running" => active'[u] = k
                      /\ u \in settled => AtWork(u) = {} /\ u \notin paused
    BY <1>1, <1>2 DEF AtWorkIsRegistered
  <2>1. ~mistaken /\ active[t] \in {l, NoLaunch}
    BY <1>1
  <2>2. ASSUME NEW k \in Launches, launch'[u][k] = "running" PROVE active'[u] = k
    <3>1. launch[u][k] = "running" /\ active[u] = k
      BY <1>1, <1>2, <2>1, <2>2 DEF RunsInv, AtWorkIsRegistered
    <3>2. u # t
      BY <1>1, <2>1, <3>1, RunsAssumption
    <3>3. QED
      BY <1>1, <3>1, <3>2 DEF RunsInv, RunsTypeOK
  <2>3. QED
    BY <2>1, <2>2 DEF RunsInv, AtWorkIsRegistered
<1>6. QED
  BY <1>3, <1>4, <1>5 DEF RunsInv
\* A pause stops every task that has a handle and leaves the others as they are.
LEMMA PauseInv == ASSUME RunsInv, Pause PROVE RunsInv'
<1>1. /\ launch' = [t \in Tasks |-> [l \in Launches |->
                      IF l = active[t] THEN "aborted" ELSE launch[t][l]]]
      /\ paused' = paused \cup Registered
      /\ active' = [t \in Tasks |-> NoLaunch]
      /\ mistaken' = (mistaken \/ \E t \in Registered : launch[t][active[t]] = "finished")
      /\ UNCHANGED <<begun, settled>>
  BY DEF Pause
<1>2. RunsTypeOK /\ Unbegun /\ OneAtWork /\ HandleIsOnly /\ NoneLost
  BY DEF RunsInv
<1>3. ASSUME NEW t \in Tasks
      PROVE  /\ t \in Registered => AtWork(t)' = {} /\ t \in paused'
             /\ t \notin Registered => AtWork(t)' = AtWork(t)
                                       /\ (t \in paused' <=> t \in paused)
  <2>1. \A l \in Launches :
          launch'[t][l] = IF l = active[t] THEN "aborted" ELSE launch[t][l]
    BY <1>1
  <2>2. CASE t \in Registered
    BY <1>1, <1>2, <2>1, <2>2 DEF Registered, HandleIsOnly, AtWork
  <2>3. CASE t \notin Registered
    BY <1>1, <2>1, <2>3, RunsAssumption DEF Registered, AtWork
  <2>4. QED
    BY <2>2, <2>3
<1>4. Registered \subseteq begun
  BY <1>2 DEF Registered, Unbegun
<1>5. RunsTypeOK'
  BY <1>1, <1>2, <1>4 DEF RunsTypeOK, Stages
<1>6. Unbegun'
  BY <1>1, <1>2, <1>3, <1>4 DEF Unbegun
<1>7. OneAtWork'
  BY <1>1, <1>2, <1>3 DEF OneAtWork
<1>8. NoneLost'
  BY <1>1, <1>2, <1>3 DEF RunsTypeOK, NoneLost
<1>9. HandleIsOnly'
  BY <1>1 DEF HandleIsOnly
<1>10. AtWorkIsRegistered'
  <2> SUFFICES ASSUME ~mistaken', NEW t \in Tasks
               PROVE  /\ \A l \in Launches : launch'[t][l] = "running" => active'[t] = l
                      /\ t \in settled => AtWork(t)' = {} /\ t \notin paused'
    BY <1>1 DEF AtWorkIsRegistered
  <2>1. AtWorkIsRegistered /\ ~mistaken
        /\ \A u \in Registered : launch[u][active[u]] # "finished"
    BY <1>1 DEF RunsInv
  <2>2. ASSUME NEW l \in Launches PROVE launch'[t][l] # "running"
    <3>1. launch[t][l] = "running" => active[t] = l
      BY <2>1 DEF AtWorkIsRegistered
    <3>2. launch'[t][l] = IF l = active[t] THEN "aborted" ELSE launch[t][l]
      BY <1>1
    <3>3. QED
      BY <3>1, <3>2
  <2>3. ASSUME t \in settled PROVE t \notin Registered
    <3>1. AtWork(t) = {}
      BY <2>1, <2>3 DEF AtWorkIsRegistered
    <3>2. ASSUME t \in Registered PROVE FALSE
      <4>1. active[t] \in Launches /\ launch[t][active[t]] = "running"
        BY <1>2, <2>1, <3>2 DEF Registered, HandleIsOnly, RunsTypeOK
      <4>2. QED
        BY <3>1, <4>1 DEF AtWork
    <3>3. QED
      BY <3>2
  <2>4. QED
    BY <1>3, <2>1, <2>2, <2>3 DEF AtWorkIsRegistered
<1>11. QED
  BY <1>5, <1>6, <1>7, <1>8, <1>9, <1>10 DEF RunsInv

\* A resume starts one launch of every paused task, none of which is at work.
LEMMA ResumeInv == ASSUME RunsInv, Resume PROVE RunsInv'
<1>1. PICK f \in [paused -> Launches] :
        launch' = [t \in Tasks |-> IF t \in paused
                                   THEN [launch[t] EXCEPT ![f[t]] = "starting"]
                                   ELSE launch[t]]
  BY DEF Resume
<1>2. /\ paused' = {}
      /\ active' = [t \in Tasks |-> IF t \in paused THEN NoLaunch ELSE active[t]]
      /\ UNCHANGED <<begun, settled, mistaken>>
  BY DEF Resume
<1>3. RunsTypeOK /\ Unbegun /\ OneAtWork /\ HandleIsOnly /\ NoneLost
  BY DEF RunsInv
<1>4. ASSUME NEW t \in Tasks
      PROVE  /\ t \in paused => /\ f[t] \in Launches
                                /\ AtWork(t)' = {f[t]}
                                /\ \A l \in Launches : launch'[t][l] # "running"
             /\ t \notin paused => launch'[t] = launch[t] /\ AtWork(t)' = AtWork(t)
  <2>1. CASE t \in paused
    <3>1. f[t] \in Launches /\ AtWork(t) = {}
      BY <1>3, <2>1 DEF OneAtWork
    <3>2. \A l \in Launches : launch'[t][l] = IF l = f[t] THEN "starting" ELSE launch[t][l]
      BY <1>1, <1>3, <2>1, <3>1 DEF RunsTypeOK
    <3>3. AtWork(t)' = {f[t]}
      BY <3>1, <3>2 DEF AtWork
    <3>4. \A l \in Launches : launch'[t][l] # "running"
      BY <3>1, <3>2 DEF AtWork
    <3>5. QED
      BY <2>1, <3>1, <3>3, <3>4
  <2>2. CASE t \notin paused
    BY <1>1, <2>2 DEF AtWork
  <2>3. QED
    BY <2>1, <2>2
<1>5. RunsTypeOK'
  <2>1. launch' \in [Tasks -> [Launches -> Stages]]
    BY <1>1, <1>3 DEF RunsTypeOK, Stages
  <2>2. QED
    BY <1>2, <1>3, <2>1 DEF RunsTypeOK
<1>6. Unbegun'
  BY <1>2, <1>3, <1>4 DEF Unbegun
<1>7. OneAtWork'
  BY <1>2, <1>3, <1>4 DEF OneAtWork
<1>8. NoneLost'
  <2> SUFFICES ASSUME NEW t \in begun
               PROVE  t \in settled \/ AtWork(t)' # {}
    BY <1>2 DEF NoneLost
  <2>1. t \in Tasks /\ (t \in settled \/ t \in paused \/ AtWork(t) # {})
    BY <1>3 DEF RunsTypeOK, NoneLost
  <2>2. QED
    BY <1>4, <2>1
<1>9. HandleIsOnly'
  BY <1>2, <1>3, <1>4 DEF HandleIsOnly
<1>10. AtWorkIsRegistered'
  BY <1>2, <1>3, <1>4 DEF RunsInv, AtWorkIsRegistered
<1>11. QED
  BY <1>5, <1>6, <1>7, <1>8, <1>9, <1>10 DEF RunsInv

LEMMA RunsNextInv == RunsInv /\ [RunsNext]_runsVars => RunsInv'
<1> SUFFICES ASSUME RunsInv, [RunsNext]_runsVars PROVE RunsInv'
  OBVIOUS
<1>1. CASE UNCHANGED runsVars
  BY <1>1 DEF runsVars, RunsInv, RunsTypeOK, Unbegun, OneAtWork, HandleIsOnly,
              NoneLost, AtWorkIsRegistered, AtWork
<1>2. QED
  BY <1>1, LaunchInv, RegisterInv, FinishInv, DeregisterInv, PauseInv, ResumeInv
     DEF RunsNext

----------------------------------------------------------------------------
(* Both together.                                                          *)

\* The gate and the background controller keep their invariants.
THEOREM PoolInvariance == PoolSpec => [](GateInv /\ RunsInv)
<1>1. PoolInit => GateInv /\ RunsInv
  BY GateInitInv, RunsInitInv DEF PoolInit
<1>2. GateInv /\ RunsInv /\ [PoolNext]_poolVars => GateInv' /\ RunsInv'
  BY GateNextInv, RunsNextInv DEF PoolNext, poolVars
<1>3. QED
  BY <1>1, <1>2, PTL DEF PoolSpec

\* The gate's counter is the number of tickets of its cycle that are out, and a
\* closer whose close_and_drain has returned finds the gate closed and empty,
\* however admissions, returns, wake-ups and resets are interleaved.
THEOREM GateIsSound == PoolSpec => []GateSound
<1>1. GateInv /\ RunsInv => GateSound
  BY GateInvImplies DEF RunsInv, GateSound, PoolTypeOK
<1>2. QED
  BY <1>1, PoolInvariance, PTL

\* No pause or resume of BackgroundTaskController loses or doubles a run, and a
\* run at work stays within reach of the next pause until a handle is removed
\* by mistake.
THEOREM RunsAreAccounted == PoolSpec => []RunsAccounted
<1>1. GateInv /\ RunsInv => RunsAccounted
  BY RunsInvImplies
<1>2. QED
  BY <1>1, PoolInvariance, PTL

----------------------------------------------------------------------------
(* The message queue: lemmas about numbers.                                *)

\* A non-empty set of numbers has a smallest one, and one within bounds a largest.
LEMMA SmallestOf ==
  ASSUME NEW S \in SUBSET Nat, S # {}
  PROVE  \E i \in S : \A j \in S : i <= j
<1>1. PICK i \in S : \A j \in S : ~(<<j, i>> \in OpToRel(<, Nat))
  BY WFMin, NatLessThanWellFounded
<1>2. \A j \in S : ~(j < i)
  BY <1>1 DEF OpToRel
<1>3. ASSUME NEW j \in S PROVE i <= j
  <2>1. i \in Nat /\ j \in Nat /\ ~(j < i)
    BY <1>2
  <2>2. QED
    BY <2>1
<1>4. QED
  BY <1>3

LEMMA LargestOf ==
  ASSUME NEW n \in Nat, NEW S \in SUBSET (1..n), S # {}
  PROVE  \E i \in S : \A j \in S : j <= i
<1> DEFINE T == {k \in Nat : \E i \in S : k = n - i}
<1>1. \A i \in S : n - i \in T
  OBVIOUS
<1>2. T \in SUBSET Nat /\ T # {}
  BY <1>1
<1>3. PICK k \in T : \A j \in T : k <= j
  BY <1>2, SmallestOf
<1>4. PICK i \in S : k = n - i
  BY <1>3
<1>5. \A j \in S : n - i <= n - j
  BY <1>1, <1>3, <1>4
<1>6. \A j \in S : j <= i
  BY <1>5
<1>7. QED
  BY <1>6

----------------------------------------------------------------------------
(* The texts.                                                              *)

\* Messages, numbers, None and Corrupt are told apart.
LEMMA QueueValues ==
  /\ Corrupt # None
  /\ \A m \in Messages : m # None /\ m # Corrupt /\ m.seq \in 0..MaxSeq /\ m.payload \in Payloads
  /\ \A n \in Nat : n # None /\ n # Corrupt
  /\ MaxSeq \in Nat
  BY QueueAssumption DEF Messages

LEMMA TextType ==
  ASSUME QueueTypeOK
  PROVE  /\ Text \in Seq(LogLines)
         /\ \A i \in DOMAIN Text : Text[i] \in LogLines
         /\ \A i \in DOMAIN Text : Text[i] # Corrupt => Text[i] \in Messages
<1>1. lines \in Seq(LogLines) /\ (tail # None => tail \in LogLines)
  BY DEF QueueTypeOK
<1>2. Text \in Seq(LogLines)
  BY <1>1 DEF Text
<1>3. QED
  BY <1>2 DEF LogLines

\* The line at which the search of a consume ends.
LEMMA FirstStopFacts ==
  ASSUME QueueTypeOK, NEW c \in Consumers, Stops(c) # {}
  PROVE  \E k \in DOMAIN seen[c] :
           /\ FirstStop(c) = seen[c][k] /\ seen[c][k] \in LogLines
           /\ seen[c][k] = Corrupt \/ seen[c][k].seq >= cursor
           /\ \A j \in 1..(k - 1) : seen[c][j] \in Messages /\ seen[c][j].seq < cursor
<1>1. seen[c] \in Seq(LogLines) /\ cursor \in Nat
  BY QueueValues DEF QueueTypeOK
<1>2. Stops(c) \in SUBSET Nat
  BY <1>1 DEF Stops
<1>3. \E i \in Stops(c) : \A j \in Stops(c) : i <= j
  BY <1>2, SmallestOf
<1> DEFINE k == CHOOSE i \in Stops(c) : \A j \in Stops(c) : i <= j
<1>4. k \in Stops(c) /\ \A j \in Stops(c) : k <= j
  BY <1>3
<1>5. FirstStop(c) = seen[c][k]
  BY DEF FirstStop
<1> HIDE DEF k
<1>6. k \in DOMAIN seen[c] /\ (seen[c][k] = Corrupt \/ seen[c][k].seq >= cursor)
  BY <1>4 DEF Stops
<1>7. ASSUME NEW j \in 1..(k - 1) PROVE seen[c][j] \in Messages /\ seen[c][j].seq < cursor
  <2>1. j \in DOMAIN seen[c] /\ ~(k <= j)
    BY <1>1, <1>6
  <2>2. j \notin Stops(c)
    BY <1>4, <2>1
  <2>3. seen[c][j] # Corrupt /\ ~(seen[c][j].seq >= cursor)
    BY <2>1, <2>2 DEF Stops
  <2>4. seen[c][j] \in Messages
    BY <1>1, <2>1, <2>3 DEF LogLines
  <2>5. QED
    BY <1>1, <2>3, <2>4, QueueValues
<1>8. seen[c][k] \in LogLines
  BY <1>1, <1>6
<1>9. QED
  BY <1>5, <1>6, <1>7, <1>8

\* The number a restarted queue continues with.
LEMMA RecoveredFacts ==
  ASSUME QueueTypeOK
  PROVE  /\ RecoveredSeq \in 0..(MaxSeq + 1)
         /\ Parsed = {} => RecoveredSeq = 0
         /\ Parsed # {} => \E k \in Parsed : RecoveredSeq = Text[k].seq + 1
                                          /\ \A j \in Parsed : j <= k
<1>1. Len(Text) \in Nat /\ Parsed \in SUBSET (1..Len(Text))
  BY TextType DEF Parsed
<1>2. CASE Parsed = {}
  BY <1>2, QueueValues DEF RecoveredSeq
<1>3. CASE Parsed # {}
  <2>1. \E i \in Parsed : \A j \in Parsed : j <= i
    BY <1>1, <1>3, LargestOf
  <2> DEFINE k == CHOOSE i \in Parsed : \A j \in Parsed : j <= i
  <2>2. k \in Parsed /\ \A j \in Parsed : j <= k
    BY <2>1
  <2>3. RecoveredSeq = Text[k].seq + 1
    BY <1>3 DEF RecoveredSeq
  <2> HIDE DEF k
  <2>4. Text[k] \in Messages
    BY <2>2, TextType DEF Parsed
  <2>5. Text[k].seq + 1 \in 0..(MaxSeq + 1)
    BY <2>4, QueueValues
  <2>6. QED
    BY <1>3, <2>2, <2>3, <2>5
<1>4. QED
  BY <1>2, <1>3

----------------------------------------------------------------------------
(* Typing.                                                                 *)

\* Publishers and consumers are at work only while the process runs, and
\* consumers for a node that waits.
AwakeInv ==
  /\ \A c \in Consumers : conPc[c] # "idle" => up /\ Waiting(c)
  /\ \A p \in Publishers : pubPc[p] # "idle" => up

BaseInv == QuestionTypeOK /\ AwakeInv

LEMMA PublishTyped ==
  ASSUME QuestionTypeOK, NEW p \in Publishers, Answer(p) \/ Publish(p)
  PROVE  QuestionTypeOK'
<1>1. QueueTypeOK
  BY DEF QuestionTypeOK
<1>2. ASSUME NEW q \in asked \ answering, PublishNumber(p, q), answering' = answering \union {q},
             UNCHANGED <<asking, expired, asked, taken, abandoned>>
      PROVE  QuestionTypeOK'
  <2>1. q \in Payloads /\ nextSeq \in Nat /\ nextSeq < MaxSeq
    BY <1>1, <1>2, QueueValues DEF QuestionTypeOK, QueueTypeOK, PublishNumber
  <2>2. [seq |-> nextSeq, payload |-> q] \in Messages /\ nextSeq + 1 \in 0..(MaxSeq + 1)
    BY <2>1, QueueValues DEF Messages
  <2>3. /\ outgoing' = [outgoing EXCEPT ![p] = [seq |-> nextSeq, payload |-> q]]
        /\ nextSeq' = nextSeq + 1 /\ pubPc' = [pubPc EXCEPT ![p] = "text"]
        /\ raced' = (raced \/ \E r \in Publishers : pubPc[r] # "idle")
        /\ UNCHANGED <<up, lines, tail, cursorFile, cursor, conPc, seen, incoming, acked,
                       delivered, dropped, cut>>
    BY <1>2 DEF PublishNumber, logVars, conVars
  <2>4. QueueTypeOK'
    BY <1>1, <2>2, <2>3 DEF QueueTypeOK
  <2>5. QED
    BY <1>2, <2>4 DEF QuestionTypeOK
<1>3. ASSUME PublishText(p) \/ PublishNewline(p) \/ PublishFails(p), UNCHANGED nodeVars
      PROVE  QuestionTypeOK'
  <2>1. pubPc[p] # "idle" => outgoing[p] \in Messages /\ outgoing[p].payload \in Payloads
    BY <1>1, QueueValues DEF QueueTypeOK
  <2>2. /\ Corrupt \in LogLines /\ Messages \subseteq LogLines
        /\ tail # None => tail \in LogLines
    BY <1>1 DEF QueueTypeOK, LogLines
  <2>3. CASE PublishText(p)
    <3>1. tail' \in LogLines /\ pubPc[p] = "text" /\ pubPc' = [pubPc EXCEPT ![p] = "newline"]
      BY <2>1, <2>2, <2>3 DEF PublishText
    <3>2. UNCHANGED <<up, lines, cursorFile, nextSeq, cursor, outgoing, conPc, seen, incoming,
                     acked, delivered, dropped, raced, cut>>
      BY <2>3 DEF PublishText, conVars, history
    <3>3. QueueTypeOK'
      BY <1>1, <2>1, <3>1, <3>2 DEF QueueTypeOK
    <3>4. QED
      BY <1>3, <3>3 DEF QuestionTypeOK, nodeVars
  <2>4. CASE PublishNewline(p)
    <3>1. /\ lines' \in Seq(LogLines) /\ tail' = None
          /\ pubPc' = [pubPc EXCEPT ![p] = "idle"] /\ outgoing' = [outgoing EXCEPT ![p] = None]
          /\ acked' \subseteq Payloads
      BY <1>1, <2>1, <2>2, <2>4 DEF PublishNewline, QueueTypeOK
    <3>2. UNCHANGED <<up, cursorFile, nextSeq, cursor, conPc, seen, incoming,
                     delivered, dropped, raced, cut>>
      BY <2>4 DEF PublishNewline, conVars
    <3>3. QueueTypeOK'
      BY <1>1, <3>1, <3>2 DEF QueueTypeOK
    <3>4. QED
      BY <1>3, <3>3 DEF QuestionTypeOK, nodeVars
  <2>5. CASE PublishFails(p)
    <3>1. /\ tail' \in LogLines \union {None} /\ cut' \in BOOLEAN
          /\ pubPc' = [pubPc EXCEPT ![p] = "idle"] /\ outgoing' = [outgoing EXCEPT ![p] = None]
      BY <1>1, <2>2, <2>5 DEF PublishFails, Leftovers, QueueTypeOK
    <3>2. UNCHANGED <<up, lines, cursorFile, nextSeq, cursor, conPc, seen, incoming,
                     acked, delivered, dropped, raced>>
      BY <2>5 DEF PublishFails, conVars
    <3>3. QueueTypeOK'
      BY <1>1, <3>1, <3>2 DEF QueueTypeOK
    <3>4. QED
      BY <1>3, <3>3 DEF QuestionTypeOK, nodeVars
  <2>6. QED
    BY <1>3, <2>3, <2>4, <2>5
<1>4. QED
  BY <1>2, <1>3 DEF Answer, Publish

LEMMA NodeTyped ==
  ASSUME QuestionTypeOK, NEW c \in Consumers, Ask(c) \/ Expire(c)
  PROVE  QuestionTypeOK'
<1>1. UNCHANGED queueVars
  BY DEF Ask, Expire
<1>2. QueueTypeOK'
  BY <1>1 DEF QuestionTypeOK, QueueTypeOK, queueVars, logVars, pubVars, conVars, history
<1>3. QED
  BY <1>2 DEF QuestionTypeOK, Ask, Expire

\* A consume that ends, and what its node makes of it.
LEMMA EndTyped ==
  ASSUME QuestionTypeOK, NEW c \in Consumers, ConsumeEnds(c),
         UNCHANGED <<up, lines, tail, nextSeq, cursor, pubPc, outgoing, acked, raced, cut>>,
         cursorFile' \in 0..(MaxSeq + 1) \union {None, Corrupt},
         delivered' \in Seq(Messages), dropped' \subseteq Payloads
  PROVE  QueueTypeOK'
<1>1. QueueTypeOK
  BY DEF QuestionTypeOK
<1>2. <<>> \in Seq(LogLines)
  OBVIOUS
<1>3. /\ conPc' = [conPc EXCEPT ![c] = "idle"] /\ seen' = [seen EXCEPT ![c] = <<>>]
      /\ incoming' = [incoming EXCEPT ![c] = None]
  BY DEF ConsumeEnds
<1>4. QED
  BY <1>1, <1>2, <1>3 DEF QueueTypeOK

LEMMA PollTyped ==
  ASSUME QuestionTypeOK, AwakeInv, NEW c \in Consumers, PollStep(c)
  PROVE  QuestionTypeOK'
<1>1. QueueTypeOK
  BY DEF QuestionTypeOK
<1>2. conPc[c] \in {"move", "commit", "store"} =>
        /\ incoming[c] \in Messages /\ incoming[c].payload \in Payloads
        /\ incoming[c].seq + 1 \in 0..(MaxSeq + 1)
  BY <1>1, QueueValues DEF QueueTypeOK
<1>3. CASE Poll(c)
  <2>1. seen' \in [Consumers -> Seq(LogLines)]
    BY <1>1, <1>3, TextType DEF Poll, ConsumeRead, QueueTypeOK
  <2>2. /\ conPc' = [conPc EXCEPT ![c] = "pick"]
        /\ raced' = (raced \/ \E q \in Consumers : conPc[q] # "idle")
        /\ UNCHANGED <<up, lines, tail, cursorFile, nextSeq, cursor, pubPc, outgoing, incoming,
                       acked, delivered, dropped, cut>>
    BY <1>3 DEF Poll, ConsumeRead, logVars, pubVars
  <2>3. QueueTypeOK'
    BY <1>1, <2>1, <2>2 DEF QueueTypeOK
  <2>4. QED
    BY <1>3, <2>3 DEF QuestionTypeOK, Poll, nodeVars
<1>4. CASE Receive(c)
  <2>1. CASE ConsumePick(c)
    <3>1. FirstStop(c) \in Messages
      BY <1>1, <2>1, FirstStopFacts DEF ConsumePick, Found, LogLines
    <3>2. <<>> \in Seq(LogLines)
      OBVIOUS
    <3>3. /\ incoming' = [incoming EXCEPT ![c] = FirstStop(c)]
          /\ seen' = [seen EXCEPT ![c] = <<>>] /\ conPc' = [conPc EXCEPT ![c] = "move"]
          /\ UNCHANGED <<up, lines, tail, cursorFile, nextSeq, cursor, pubPc, outgoing,
                         acked, delivered, dropped, raced, cut>>
      BY <2>1 DEF ConsumePick, logVars, pubVars, history
    <3>4. QueueTypeOK'
      BY <1>1, <3>1, <3>2, <3>3 DEF QueueTypeOK
    <3>5. QED
      BY <1>4, <3>4 DEF QuestionTypeOK, Receive, nodeVars
  <2>2. CASE ConsumeMove(c)
    <3>1. QueueTypeOK'
      BY <1>1, <1>2, <2>2 DEF ConsumeMove, QueueTypeOK, logVars, pubVars, history
    <3>2. QED
      BY <1>4, <3>1 DEF QuestionTypeOK, Receive, nodeVars
  <2>3. CASE ConsumeTruncate(c)
    <3>1. QueueTypeOK'
      BY <1>1, <1>2, <2>3 DEF ConsumeTruncate, QueueTypeOK, logVars, pubVars, history
    <3>2. QED
      BY <1>4, <3>1 DEF QuestionTypeOK, Receive, nodeVars
  <2>4. QED
    BY <1>4, <2>1, <2>2, <2>3 DEF Receive
<1>5. CASE PollEmpty(c) \/ PollRefused(c)
  <2>1. /\ ConsumeEnds(c)
        /\ UNCHANGED <<up, lines, tail, cursorFile, nextSeq, cursor, pubPc, outgoing, acked,
                       delivered, dropped, raced, cut>>
    BY <1>5 DEF PollEmpty, PollRefused, logVars, pubVars, history
  <2>2. /\ cursorFile \in 0..(MaxSeq + 1) \union {None, Corrupt}
        /\ delivered \in Seq(Messages) /\ dropped \subseteq Payloads
    BY <1>1 DEF QueueTypeOK
  <2>3. QueueTypeOK'
    BY <2>1, <2>2, EndTyped
  <2>4. GiveUp(c) \/ UNCHANGED nodeVars
    BY <1>5 DEF PollEmpty, PollRefused
  <2>5. QED
    BY <2>3, <2>4 DEF QuestionTypeOK, GiveUp, EndWait, nodeVars
<1>6. CASE Take(c)
  <2>1. /\ conPc[c] = "store" /\ cursorFile' = incoming[c].seq + 1
        /\ delivered' = Append(delivered, incoming[c]) /\ ConsumeEnds(c)
        /\ UNCHANGED <<up, lines, tail, nextSeq, cursor, pubPc, outgoing, acked, dropped, raced, cut>>
    BY <1>6 DEF Take, ConsumeStore, logVars, pubVars
  <2>2. /\ delivered' \in Seq(Messages) /\ dropped' \subseteq Payloads
        /\ cursorFile' \in 0..(MaxSeq + 1) \union {None, Corrupt}
    BY <1>1, <1>2, <2>1 DEF QueueTypeOK
  <2>3. QueueTypeOK'
    BY <2>1, <2>2, EndTyped
  <2>4. asking[c] \in Payloads
    BY <2>1 DEF QuestionTypeOK, AwakeInv, Waiting
  <2>5. QED
    BY <1>2, <1>6, <2>1, <2>3, <2>4 DEF QuestionTypeOK, Take, EndWait
<1>7. CASE TakeFails(c)
  <2>1. /\ conPc[c] \in {"commit", "store"} /\ dropped' = dropped \union {incoming[c].payload}
        /\ ConsumeEnds(c)
        /\ UNCHANGED <<up, lines, tail, cursorFile, nextSeq, cursor, pubPc, outgoing, acked,
                       delivered, raced, cut>>
    BY <1>7 DEF TakeFails, ConsumeFails, logVars, pubVars
  <2>2. /\ delivered' \in Seq(Messages) /\ dropped' \subseteq Payloads
        /\ cursorFile' \in 0..(MaxSeq + 1) \union {None, Corrupt}
    BY <1>1, <1>2, <2>1 DEF QueueTypeOK
  <2>3. QueueTypeOK'
    BY <2>1, <2>2, EndTyped
  <2>4. QED
    BY <1>7, <2>3 DEF QuestionTypeOK, TakeFails, GiveUp, EndWait
<1>8. QED
  BY <1>3, <1>4, <1>5, <1>6, <1>7 DEF PollStep

LEMMA RestartTyped ==
  ASSUME QuestionTypeOK, Crash \/ Restart
  PROVE  QuestionTypeOK'
<1>1. QueueTypeOK
  BY DEF QuestionTypeOK
<1>2. CASE Crash
  <2>1. /\ up' = FALSE /\ lines' = lines /\ tail' \in {tail, Corrupt}
        /\ cut' \in BOOLEAN /\ raced' = raced /\ cursorFile' = cursorFile
        /\ nextSeq' = 0 /\ cursor' = 0 /\ acked' = acked /\ delivered' = delivered
    BY <1>1, <1>2 DEF Crash, QueueCrash, QueueTypeOK
  <2>2. /\ pubPc' = [p \in Publishers |-> "idle"] /\ outgoing' = [p \in Publishers |-> None]
        /\ conPc' = [d \in Consumers |-> "idle"] /\ seen' = [d \in Consumers |-> <<>>]
        /\ incoming' = [d \in Consumers |-> None]
    BY <1>2 DEF Crash, QueueCrash
  <2>3. dropped' \subseteq Payloads
    <3>1. \A d \in Consumers : conPc[d] \in {"commit", "store"} => incoming[d].payload \in Payloads
      BY <1>1, QueueValues DEF QueueTypeOK
    <3>2. QED
      BY <1>1, <1>2, <3>1 DEF Crash, QueueCrash, QueueTypeOK
  <2>4. tail' \in LogLines \union {None} /\ 0 \in 0..(MaxSeq + 1)
    BY <1>1, <2>1, QueueValues DEF QueueTypeOK, LogLines
  <2>5. <<>> \in Seq(LogLines)
    OBVIOUS
  <2>6. QueueTypeOK'
    BY <1>1, <2>1, <2>2, <2>3, <2>4, <2>5 DEF QueueTypeOK
  <2>7. QED
    BY <1>2, <2>6 DEF QuestionTypeOK, Crash
<1>3. CASE Restart
  <2>1. /\ up' = TRUE /\ nextSeq' = RecoveredSeq
        /\ cursor' = IF cursorFile = None THEN 0 ELSE cursorFile
        /\ cursorFile # Corrupt
        /\ UNCHANGED <<lines, tail, cursorFile, pubPc, outgoing, conPc, seen, incoming, acked,
                       delivered, dropped, raced, cut>>
    BY <1>3 DEF Restart, QueueRestart, logVars, pubVars, conVars, history
  <2>2. cursor' \in 0..(MaxSeq + 1) /\ nextSeq' \in 0..(MaxSeq + 1)
    BY <1>1, <2>1, RecoveredFacts, QueueValues DEF QueueTypeOK
  <2>3. QueueTypeOK'
    BY <1>1, <2>1, <2>2 DEF QueueTypeOK
  <2>4. QED
    BY <1>3, <2>3 DEF QuestionTypeOK, Restart, nodeVars
<1>4. QED
  BY <1>2, <1>3

LEMMA AwakeStep == BaseInv /\ QuestionNext => AwakeInv'
<1> SUFFICES ASSUME BaseInv, QuestionNext PROVE AwakeInv'
  OBVIOUS
<1>1. QuestionTypeOK /\ AwakeInv
  BY DEF BaseInv
<1>2. ASSUME NEW c \in Consumers, Ask(c) \/ Expire(c) PROVE AwakeInv'
  BY <1>1, <1>2, QueueValues DEF Ask, Expire, AwakeInv, Waiting, QuestionTypeOK, QueueTypeOK, queueVars, logVars,
        pubVars, conVars, history
<1>3. ASSUME NEW c \in Consumers, PollStep(c) PROVE AwakeInv'
  <2>1. /\ up' = up /\ pubPc' = pubPc
        /\ \A d \in Consumers \ {c} : conPc'[d] = conPc[d] /\ asking'[d] = asking[d]
    <3>1. CASE Poll(c) \/ Receive(c)
      BY <1>1, <3>1 DEF Poll, Receive, ConsumeRead, ConsumePick, ConsumeMove, ConsumeTruncate,
            QuestionTypeOK, QueueTypeOK, pubVars, nodeVars
    <3>2. CASE PollEmpty(c) \/ PollRefused(c)
      BY <1>1, <3>2 DEF PollEmpty, PollRefused, ConsumeEnds, GiveUp, EndWait,
            QuestionTypeOK, QueueTypeOK, pubVars, nodeVars
    <3>3. CASE Take(c) \/ TakeFails(c)
      BY <1>1, <3>3 DEF Take, TakeFails, ConsumeStore, ConsumeFails, ConsumeEnds, GiveUp, EndWait,
            QuestionTypeOK, QueueTypeOK, pubVars, nodeVars
    <3>4. QED
      BY <1>3, <3>1, <3>2, <3>3 DEF PollStep
  <2>2. conPc'[c] # "idle" => up /\ Waiting(c) /\ asking'[c] = asking[c]
    <3>1. CASE Poll(c)
      BY <1>1, <3>1 DEF Poll, ConsumeRead, QuestionTypeOK, QueueTypeOK, nodeVars
    <3>2. CASE Receive(c)
      BY <1>1, <3>2 DEF Receive, ConsumePick, ConsumeMove, ConsumeTruncate, Found, AwakeInv, nodeVars
    <3>3. CASE PollEmpty(c) \/ PollRefused(c) \/ Take(c) \/ TakeFails(c)
      BY <1>1, <3>3 DEF PollEmpty, PollRefused, Take, TakeFails, ConsumeStore, ConsumeFails, ConsumeEnds,
            QuestionTypeOK, QueueTypeOK
    <3>4. QED
      BY <1>3, <3>1, <3>2, <3>3 DEF PollStep
  <2>3. QED
    BY <1>1, <2>1, <2>2 DEF AwakeInv, Waiting
<1>4. ASSUME NEW p \in Publishers, Answer(p) \/ Publish(p) PROVE AwakeInv'
  <2>1. /\ up' = up /\ conPc' = conPc /\ asking' = asking
        /\ \A q \in Publishers \ {p} : pubPc'[q] = pubPc[q]
        /\ pubPc'[p] # "idle" => up
    <3>1. CASE Answer(p)
      BY <1>1, <3>1 DEF Answer, PublishNumber, QuestionTypeOK, QueueTypeOK, conVars
    <3>2. CASE Publish(p)
      BY <1>1, <3>2 DEF Publish, PublishText, PublishNewline, PublishFails, QuestionTypeOK, QueueTypeOK, conVars,
            nodeVars, AwakeInv
    <3>3. QED
      BY <1>4, <3>1, <3>2
  <2>2. QED
    BY <1>1, <2>1 DEF AwakeInv, Waiting
<1>5. CASE Crash
  BY <1>5 DEF Crash, QueueCrash, AwakeInv
<1>6. CASE Restart
  BY <1>1, <1>6 DEF Restart, QueueRestart, AwakeInv, Waiting, pubVars, conVars, nodeVars
<1>7. QED
  BY <1>2, <1>3, <1>4, <1>5, <1>6 DEF QuestionNext

LEMMA BaseInit == QuestionInit => BaseInv
<1> SUFFICES ASSUME QuestionInit PROVE BaseInv
  OBVIOUS
<1>1. <<>> \in Seq(LogLines) /\ <<>> \in Seq(Messages) /\ 0 \in 0..(MaxSeq + 1)
  BY QueueValues
<1>2. QueueTypeOK
  BY <1>1 DEF QuestionInit, QueueInit, QueueTypeOK
<1>3. QED
  BY <1>2 DEF QuestionInit, QueueInit, BaseInv, QuestionTypeOK, AwakeInv

LEMMA BaseStep == BaseInv /\ [QuestionNext]_questionVars => BaseInv'
<1>1. BaseInv /\ QuestionNext => QuestionTypeOK'
  BY PublishTyped, NodeTyped, PollTyped, RestartTyped DEF QuestionNext, BaseInv
<1>2. BaseInv /\ UNCHANGED questionVars => BaseInv'
  <2> SUFFICES ASSUME BaseInv, UNCHANGED questionVars PROVE BaseInv'
    OBVIOUS
  <2>1. QueueTypeOK'
    BY DEF BaseInv, QuestionTypeOK, QueueTypeOK, questionVars, queueVars, logVars, pubVars, conVars, history
  <2>2. QED
    BY <2>1 DEF BaseInv, QuestionTypeOK, AwakeInv, Waiting, questionVars, queueVars, nodeVars, pubVars, conVars
<1>3. QED
  BY <1>1, <1>2, AwakeStep DEF BaseInv

\* Every variable of the queue and its nodes keeps its type, and who is at work in
\* the queue is a thread of a running process.
THEOREM QuestionerTyping == QuestionSpec => []BaseInv
<1>1. QuestionInit => BaseInv
  BY BaseInit
<1>2. BaseInv /\ [QuestionNext]_questionVars => BaseInv'
  BY BaseStep
<1>3. QED
  BY <1>1, <1>2, PTL DEF QuestionSpec

----------------------------------------------------------------------------
(* What a step does to the text of the log.                                *)

LEMMA TextExtends ==
  ASSUME QueueTypeOK, NEW l \in LogLines
  PROVE  /\ Append(Text, l) \in Seq(LogLines) /\ Len(Append(Text, l)) = Len(Text) + 1
         /\ \A i \in DOMAIN Text : Append(Text, l)[i] = Text[i]
         /\ Append(Text, l)[Len(Text) + 1] = l
  BY TextType

\* The lines stay, or become unreadable, and a new one is a publisher's or
\* unreadable.
TextGrows ==
  /\ \A i \in DOMAIN Text : i \in DOMAIN Text' /\ Text'[i] \in {Text[i], Corrupt}
  /\ \A i \in DOMAIN Text' : \/ i \in DOMAIN Text
                             \/ i = Len(Text) + 1 /\ Text'[i] = Corrupt
                             \/ /\ i = Len(Text) + 1
                                /\ \E p \in Publishers : PublishText(p) /\ Text'[i] = outgoing[p]

LEMMA CutGrows ==
  ASSUME QueueTypeOK, lines' = lines, tail' \in {tail, Corrupt}
  PROVE  TextGrows
<1>1. CASE tail' = tail
  BY <1>1 DEF TextGrows, Text
<1>2. CASE tail' = Corrupt /\ tail = None
  <2>1. Text' = Append(Text, Corrupt)
    BY <1>2, QueueValues DEF Text
  <2>2. Corrupt \in LogLines
    BY DEF LogLines
  <2> DEFINE text == Append(Text, Corrupt)
  <2>3. /\ text \in Seq(LogLines) /\ Len(text) = Len(Text) + 1
        /\ \A i \in DOMAIN Text : text[i] = Text[i]
        /\ text[Len(Text) + 1] = Corrupt
    BY <2>2, TextExtends
  <2> HIDE DEF text
  <2>4. Text' = text
    BY <2>1 DEF text
  <2>5. DOMAIN text = 1..(Len(Text) + 1) /\ Len(Text) \in Nat /\ DOMAIN Text = 1..Len(Text)
    BY <2>3, TextType
  <2>6. QED
    BY <2>3, <2>4, <2>5 DEF TextGrows
<1>3. CASE tail' = Corrupt /\ tail # None
  <2>1. Text' = Append(lines, Corrupt) /\ Text = Append(lines, tail)
    BY <1>3, QueueValues DEF Text
  <2>2. Corrupt \in LogLines /\ tail \in LogLines /\ lines \in Seq(LogLines)
    BY <1>3 DEF LogLines, QueueTypeOK
  <2>3. /\ DOMAIN Append(lines, Corrupt) = DOMAIN Append(lines, tail)
        /\ \A i \in DOMAIN Append(lines, tail) :
             Append(lines, Corrupt)[i] \in {Append(lines, tail)[i], Corrupt}
    BY <2>2
  <2>4. QED
    BY <2>1, <2>3 DEF TextGrows
<1>4. QED
  BY <1>1, <1>2, <1>3

LEMMA TextSteps == ASSUME BaseInv, [QuestionNext]_questionVars PROVE TextGrows
<1>1. QueueTypeOK
  BY DEF BaseInv, QuestionTypeOK
<1>2. CASE lines' = lines /\ tail' \in {tail, Corrupt}
  BY <1>1, <1>2, CutGrows
<1>3. ASSUME NEW p \in Publishers, PublishText(p) PROVE TextGrows
  <2>1. CASE tail # None
    BY <1>1, <1>3, <2>1, CutGrows DEF PublishText
  <2>2. CASE tail = None
    <3>1. outgoing[p] \in Messages /\ outgoing[p] # None /\ outgoing[p] \in LogLines
      BY <1>1, <1>3, QueueValues DEF PublishText, QueueTypeOK, LogLines
    <3>2. Text' = Append(Text, outgoing[p])
      BY <1>3, <2>2, <3>1 DEF PublishText, Text
    <3> DEFINE text == Append(Text, outgoing[p])
    <3>3. /\ text \in Seq(LogLines) /\ Len(text) = Len(Text) + 1
          /\ \A i \in DOMAIN Text : text[i] = Text[i]
          /\ text[Len(Text) + 1] = outgoing[p]
      BY <1>1, <3>1, TextExtends
    <3> HIDE DEF text
    <3>4. Text' = text
      BY <3>2 DEF text
    <3>5. DOMAIN text = 1..(Len(Text) + 1) /\ Len(Text) \in Nat /\ DOMAIN Text = 1..Len(Text)
      BY <1>1, <3>3, TextType
    <3>6. QED
      BY <1>3, <3>3, <3>4, <3>5 DEF TextGrows
  <2>3. QED
    BY <2>1, <2>2
<1>4. ASSUME NEW p \in Publishers, PublishNewline(p) PROVE TextGrows
  <2>1. CASE tail # None
    <3>1. Text' = Text
      BY <1>4, <2>1 DEF PublishNewline, Text
    <3>2. QED
      BY <3>1 DEF TextGrows
  <2>2. CASE tail = None
    <3>1. Text' = Append(Text, Corrupt)
      BY <1>4, <2>2 DEF PublishNewline, Text
    <3>2. Corrupt \in LogLines
      BY DEF LogLines
    <3> DEFINE text == Append(Text, Corrupt)
    <3>3. /\ text \in Seq(LogLines) /\ Len(text) = Len(Text) + 1
          /\ \A i \in DOMAIN Text : text[i] = Text[i]
          /\ text[Len(Text) + 1] = Corrupt
      BY <1>1, <3>2, TextExtends
    <3> HIDE DEF text
    <3>4. Text' = text
      BY <3>1 DEF text
    <3>5. DOMAIN text = 1..(Len(Text) + 1) /\ Len(Text) \in Nat /\ DOMAIN Text = 1..Len(Text)
      BY <1>1, <3>3, TextType
    <3>6. QED
      BY <3>3, <3>4, <3>5 DEF TextGrows
  <2>3. QED
    BY <2>1, <2>2
<1>5. ASSUME NEW c \in Consumers, Ask(c) \/ Expire(c) \/ PollStep(c) PROVE lines' = lines /\ tail' = tail
  BY <1>5 DEF Ask, Expire, PollStep, Poll, Receive, PollEmpty, PollRefused, Take, TakeFails, ConsumeRead,
        ConsumePick, ConsumeMove, ConsumeTruncate, ConsumeStore, ConsumeFails, queueVars, logVars
<1>6. ASSUME NEW p \in Publishers, Answer(p) \/ Publish(p)
      PROVE  \/ PublishText(p) \/ PublishNewline(p)
             \/ lines' = lines /\ tail' \in {tail, Corrupt}
  BY <1>6 DEF Answer, Publish, PublishNumber, PublishFails, Leftovers, logVars
<1>7. Crash \/ Restart \/ UNCHANGED questionVars => lines' = lines /\ tail' \in {tail, Corrupt}
  BY DEF Crash, Restart, QueueCrash, QueueRestart, questionVars, queueVars, logVars
<1>8. QED
  BY <1>2, <1>3, <1>4, <1>5, <1>6, <1>7 DEF QuestionNext

\* What can be parsed, and what can be read.
LEMMA ParsedSteps ==
  ASSUME QueueTypeOK, TextGrows
  PROVE  /\ \A i \in Parsed' :
              \/ i \in Parsed /\ Text'[i] = Text[i]
              \/ /\ i \notin DOMAIN Text /\ i = Len(Text) + 1
                 /\ \E p \in Publishers : PublishText(p) /\ Text'[i] = outgoing[p]
         /\ \A i \in Readable' : \A j \in DOMAIN Text : j <= i => Text[j] # Corrupt
         /\ \A i \in Readable' : i \in Parsed' /\ (i \in DOMAIN Text => i \in Readable)
<1>1. /\ Len(Text) \in Nat /\ DOMAIN Text = 1..Len(Text)
      /\ \A i \in DOMAIN Text : i \in DOMAIN Text' /\ Text'[i] \in {Text[i], Corrupt}
  BY TextType DEF TextGrows
<1>2. ASSUME NEW i \in Parsed'
      PROVE  \/ i \in Parsed /\ Text'[i] = Text[i]
             \/ /\ i \notin DOMAIN Text /\ i = Len(Text) + 1
                /\ \E p \in Publishers : PublishText(p) /\ Text'[i] = outgoing[p]
  <2>1. i \in DOMAIN Text' /\ Text'[i] # Corrupt
    BY <1>2 DEF Parsed
  <2>2. CASE i \in DOMAIN Text
    BY <1>1, <2>1, <2>2 DEF Parsed
  <2>3. CASE i \notin DOMAIN Text
    BY <2>1, <2>3 DEF TextGrows
  <2>4. QED
    BY <2>2, <2>3
<1>3. ASSUME NEW i \in Readable', NEW j \in DOMAIN Text, j <= i PROVE Text[j] # Corrupt
  <2>1. i \in DOMAIN Text' /\ \A k \in 1..i : Text'[k] # Corrupt
    BY <1>3 DEF Readable
  <2>2. i \in Nat
    BY <1>1, <2>1 DEF TextGrows
  <2>3. j \in 1..i
    BY <1>1, <1>3, <2>2
  <2>4. Text'[j] # Corrupt /\ Text'[j] \in {Text[j], Corrupt}
    BY <1>1, <2>1, <2>3
  <2>5. QED
    BY <2>4
<1>4. ASSUME NEW i \in Readable' PROVE i \in Parsed' /\ (i \in DOMAIN Text => i \in Readable)
  <2>1. i \in DOMAIN Text' /\ \A k \in 1..i : Text'[k] # Corrupt
    BY <1>4 DEF Readable
  <2>2. i \in Nat /\ i >= 1
    BY <1>1, <2>1 DEF TextGrows
  <2>3. i \in Parsed'
    BY <2>1, <2>2 DEF Parsed
  <2>4. ASSUME i \in DOMAIN Text, NEW k \in 1..i PROVE Text[k] # Corrupt
    <3>1. k \in DOMAIN Text /\ k <= i
      BY <1>1, <2>4
    <3>2. QED
      BY <1>3, <1>4, <3>1
  <2>5. QED
    BY <2>3, <2>4 DEF Readable
<1>5. QED
  BY <1>2, <1>3, <1>4

----------------------------------------------------------------------------
(* One publisher and one consumer at a time.                               *)

OneEach ==
  /\ \A c, d \in Consumers : conPc[c] # "idle" /\ conPc[d] # "idle" => c = d
  /\ \A p, q \in Publishers : pubPc[p] # "idle" /\ pubPc[q] # "idle" => p = q

LEMMA RacedStays == BaseInv /\ [QuestionNext]_questionVars => (raced => raced')
<1> SUFFICES ASSUME BaseInv, [QuestionNext]_questionVars, raced PROVE raced'
  OBVIOUS
<1>1. ASSUME NEW c \in Consumers, Ask(c) \/ Expire(c) \/ PollStep(c) PROVE raced'
  BY <1>1 DEF Ask, Expire, PollStep, Poll, Receive, PollEmpty, PollRefused, Take, TakeFails, ConsumeRead,
        ConsumePick, ConsumeMove, ConsumeTruncate, ConsumeStore, ConsumeFails, queueVars, history
<1>2. ASSUME NEW p \in Publishers, Answer(p) \/ Publish(p) PROVE raced'
  BY <1>2 DEF Answer, Publish, PublishNumber, PublishText, PublishNewline, PublishFails, history
<1>3. Crash \/ Restart \/ UNCHANGED questionVars => raced'
  BY DEF Crash, Restart, QueueCrash, QueueRestart, questionVars, queueVars, history
<1>4. QED
  BY <1>1, <1>2, <1>3 DEF QuestionNext

\* A consumer's step leaves the publishers and the other consumers alone.
PublishersRest == UNCHANGED <<nextSeq, lines, tail, pubPc, outgoing, acked, cut>>

LEMMA PollFrame ==
  ASSUME BaseInv, NEW c \in Consumers, PollStep(c)
  PROVE  /\ PublishersRest /\ up' = up
         /\ \A d \in Consumers \ {c} : conPc'[d] = conPc[d] /\ seen'[d] = seen[d] /\ incoming'[d] = incoming[d]
         /\ conPc[c] = "idle" => Poll(c)
<1>1. QueueTypeOK
  BY DEF BaseInv, QuestionTypeOK
<1>2. CASE Poll(c) \/ Receive(c)
  BY <1>1, <1>2 DEF Poll, Receive, ConsumeRead, ConsumePick, ConsumeMove, ConsumeTruncate, Found,
        QueueTypeOK, PublishersRest, logVars, pubVars, history
<1>3. CASE PollEmpty(c) \/ PollRefused(c)
  BY <1>1, <1>3 DEF PollEmpty, PollRefused, ConsumeEnds, Exhausted, Refused, QueueTypeOK, PublishersRest,
        logVars, pubVars, history
<1>4. CASE Take(c) \/ TakeFails(c)
  BY <1>1, <1>4 DEF Take, TakeFails, ConsumeStore, ConsumeFails, ConsumeEnds, QueueTypeOK, PublishersRest,
        logVars, pubVars
<1>5. QED
  BY <1>2, <1>3, <1>4 DEF PollStep

\* A publisher's step leaves the consumers alone.
ConsumersRest == UNCHANGED <<cursorFile, cursor, conPc, seen, incoming, delivered, dropped>>

LEMMA PublishFrame ==
  ASSUME BaseInv, NEW p \in Publishers, Answer(p) \/ Publish(p)
  PROVE  /\ ConsumersRest /\ up' = up
         /\ \A q \in Publishers \ {p} : pubPc'[q] = pubPc[q] /\ outgoing'[q] = outgoing[q]
         /\ pubPc[p] = "idle" => Answer(p)
<1>1. QueueTypeOK
  BY DEF BaseInv, QuestionTypeOK
<1>2. CASE Answer(p)
  BY <1>1, <1>2 DEF Answer, PublishNumber, QueueTypeOK, ConsumersRest, logVars, conVars
<1>3. CASE Publish(p)
  BY <1>1, <1>3 DEF Publish, PublishText, PublishNewline, PublishFails, QueueTypeOK, ConsumersRest,
        logVars, conVars, history
<1>4. QED
  BY <1>2, <1>3

\* The other steps: nobody is at work in the queue, or it does not change.
LEMMA OtherFrame ==
  ASSUME BaseInv
  PROVE  /\ \A c \in Consumers : Ask(c) \/ Expire(c) => UNCHANGED queueVars
         /\ UNCHANGED questionVars => UNCHANGED queueVars
         /\ Crash \/ Restart => /\ \A c \in Consumers : conPc'[c] = "idle"
                               /\ \A p \in Publishers : pubPc'[p] = "idle"
                               /\ UNCHANGED <<cursorFile, delivered, acked>>
<1>1. QueueTypeOK /\ AwakeInv
  BY DEF BaseInv, QuestionTypeOK
<1>2. ASSUME Crash
      PROVE  /\ \A c \in Consumers : conPc'[c] = "idle"
             /\ \A p \in Publishers : pubPc'[p] = "idle"
             /\ UNCHANGED <<cursorFile, delivered, acked>>
  BY <1>2 DEF Crash, QueueCrash, Received
<1>3. ASSUME Restart
      PROVE  /\ \A c \in Consumers : conPc'[c] = "idle"
             /\ \A p \in Publishers : pubPc'[p] = "idle"
             /\ UNCHANGED <<cursorFile, delivered, acked>>
  <2>1. /\ ~up /\ UNCHANGED <<cursorFile, pubPc, conPc, incoming, delivered, dropped, acked>>
    BY <1>3 DEF Restart, QueueRestart, pubVars, conVars, history
  <2>2. QED
    BY <1>1, <2>1 DEF AwakeInv
<1>4. \A c \in Consumers : Ask(c) \/ Expire(c) => UNCHANGED queueVars
  BY DEF Ask, Expire
<1>5. UNCHANGED questionVars => UNCHANGED queueVars
  BY DEF questionVars
<1>6. QED
  BY <1>2, <1>3, <1>4, <1>5

LEMMA OneEachStep ==
  ASSUME BaseInv, [QuestionNext]_questionVars, OneEach, ~raced'
  PROVE  OneEach'
<1>1. QueueTypeOK
  BY DEF BaseInv, QuestionTypeOK
<1>2. ASSUME NEW c \in Consumers, PollStep(c) PROVE OneEach'
  <2>1. /\ pubPc' = pubPc /\ \A d \in Consumers \ {c} : conPc'[d] = conPc[d]
        /\ conPc[c] = "idle" => Poll(c)
    BY <1>2, PollFrame DEF PublishersRest
  <2>2. Poll(c) => \A d \in Consumers : conPc[d] = "idle"
    BY DEF Poll, ConsumeRead
  <2>3. QED
    BY <2>1, <2>2 DEF OneEach
<1>3. ASSUME NEW p \in Publishers, Answer(p) \/ Publish(p) PROVE OneEach'
  <2>1. /\ conPc' = conPc /\ \A q \in Publishers \ {p} : pubPc'[q] = pubPc[q]
        /\ pubPc[p] = "idle" => Answer(p)
    BY <1>3, PublishFrame DEF ConsumersRest
  <2>2. Answer(p) => \A q \in Publishers : pubPc[q] = "idle"
    BY DEF Answer, PublishNumber
  <2>3. QED
    BY <2>1, <2>2 DEF OneEach
<1>4. UNCHANGED queueVars => OneEach'
  BY DEF queueVars, pubVars, conVars, OneEach
<1>5. Crash \/ Restart => OneEach'
  BY OtherFrame DEF OneEach
<1>6. QED
  BY <1>2, <1>3, <1>4, <1>5, OtherFrame DEF QuestionNext

----------------------------------------------------------------------------
(* The numbers grow along the log.                                         *)

LogInv ==
  /\ \A i, j \in Parsed : i < j => Text[i].seq < Text[j].seq
  /\ up => \A i \in Parsed : Text[i].seq < nextSeq
  /\ \A p \in Publishers : pubPc[p] # "idle" => outgoing[p].seq < nextSeq
  /\ \A p \in Publishers : pubPc[p] = "text" => \A i \in Parsed : Text[i].seq < outgoing[p].seq

LEMMA LogStep ==
  ASSUME BaseInv, [QuestionNext]_questionVars, OneEach, LogInv, ~raced'
  PROVE  LogInv'
<1>1. QueueTypeOK /\ TextGrows /\ AwakeInv /\ OneEach'
  BY TextSteps, OneEachStep DEF BaseInv, QuestionTypeOK
<1>2. /\ \A i \in Parsed : i \in Nat /\ i <= Len(Text) /\ Text[i] \in Messages /\ Text[i].seq \in Nat
      /\ Len(Text) \in Nat /\ nextSeq \in Nat
      /\ \A p \in Publishers : pubPc[p] # "idle" => outgoing[p].seq \in Nat
  BY <1>1, TextType, QueueValues DEF Parsed, QueueTypeOK
\* Where no new line comes, the order stays.
<1>3. ASSUME \A p \in Publishers : ~PublishText(p)
      PROVE  /\ \A i, j \in Parsed' : i < j => Text'[i].seq < Text'[j].seq
             /\ \A i \in Parsed' : i \in Parsed /\ Text'[i] = Text[i]
  <2>1. \A i \in Parsed' : i \in Parsed /\ Text'[i] = Text[i]
    BY <1>1, <1>3, ParsedSteps
  <2>2. QED
    BY <2>1 DEF LogInv
<1>4. ASSUME NEW p \in Publishers, PublishText(p) PROVE LogInv'
  <2>1. /\ pubPc[p] = "text" /\ pubPc' = [pubPc EXCEPT ![p] = "newline"]
        /\ UNCHANGED <<up, nextSeq, outgoing>>
    BY <1>4 DEF PublishText
  <2>2. \A q \in Publishers : pubPc[q] # "idle" => q = p
    BY <2>1 DEF OneEach
  <2>3. \A i \in Parsed' : \/ i \in Parsed /\ Text'[i] = Text[i]
                           \/ i = Len(Text) + 1 /\ Text'[i] = outgoing[p]
    <3>1. ASSUME NEW q \in Publishers, PublishText(q) PROVE q = p
      BY <2>2, <3>1 DEF PublishText
    <3>2. QED
      BY <1>1, <3>1, ParsedSteps
  <2>4. \A i \in Parsed : Text[i].seq < outgoing[p].seq
    BY <2>1 DEF LogInv
  <2>5. up /\ outgoing[p].seq < nextSeq
    BY <1>1, <2>1 DEF AwakeInv, LogInv
  <2>6. ASSUME NEW i \in Parsed', NEW j \in Parsed', i < j PROVE Text'[i].seq < Text'[j].seq
    <3>1. CASE i \in Parsed /\ Text'[i] = Text[i] /\ j \in Parsed /\ Text'[j] = Text[j]
      BY <2>6, <3>1 DEF LogInv
    <3>2. CASE i \in Parsed /\ Text'[i] = Text[i] /\ Text'[j] = outgoing[p]
      BY <2>4, <3>2
    <3>3. CASE i = Len(Text) + 1
      BY <1>2, <2>3, <2>6, <3>3
    <3>4. QED
      BY <2>3, <3>1, <3>2, <3>3
  <2>7. \A i \in Parsed' : Text'[i].seq < nextSeq'
    BY <2>1, <2>3, <2>5 DEF LogInv
  <2>8. \A q \in Publishers : pubPc'[q] # "idle" => outgoing'[q].seq < nextSeq'
    BY <1>1, <2>1 DEF LogInv, QueueTypeOK
  <2>9. \A q \in Publishers : pubPc'[q] # "text"
    BY <1>1, <2>1, <2>2 DEF QueueTypeOK
  <2>10. QED
    BY <2>6, <2>7, <2>8, <2>9 DEF LogInv
<1>5. ASSUME NEW p \in Publishers, Answer(p) PROVE LogInv'
  <2>1. /\ pubPc[p] = "idle" /\ pubPc' = [pubPc EXCEPT ![p] = "text"]
        /\ nextSeq' = nextSeq + 1 /\ up /\ UNCHANGED <<up, lines, tail>>
        /\ \E q : outgoing' = [outgoing EXCEPT ![p] = [seq |-> nextSeq, payload |-> q]]
    BY <1>5 DEF Answer, PublishNumber, logVars
  <2>2. outgoing'[p].seq = nextSeq /\ \A q \in Publishers : q # p => pubPc'[q] = "idle"
    BY <1>1, <2>1 DEF QueueTypeOK, OneEach
  <2>3. \A q \in Publishers : pubPc'[q] # "idle" => q = p
    BY <2>2
  <2>4. Text' = Text /\ Parsed' = Parsed
    BY <2>1 DEF Text, Parsed
  <2>5. \A i \in Parsed : Text[i].seq < nextSeq
    BY <2>1 DEF LogInv
  <2>6. QED
    BY <1>2, <2>1, <2>2, <2>3, <2>4, <2>5 DEF LogInv
<1>6. ASSUME NEW p \in Publishers, PublishNewline(p) \/ PublishFails(p) PROVE LogInv'
  <2>1. /\ pubPc[p] # "idle" /\ pubPc' = [pubPc EXCEPT ![p] = "idle"] /\ UNCHANGED <<up, nextSeq>>
    BY <1>6 DEF PublishNewline, PublishFails
  <2>2. \A q \in Publishers : pubPc'[q] = "idle"
    BY <1>1, <2>1 DEF QueueTypeOK, OneEach
  <2>3. ASSUME NEW q \in Publishers PROVE ~PublishText(q)
    BY <1>1, <1>6, <2>1, <2>2 DEF PublishText, QueueTypeOK
  <2>4. QED
    BY <1>3, <2>1, <2>2, <2>3 DEF LogInv
<1>7. ASSUME NEW c \in Consumers, PollStep(c) PROVE LogInv'
  <2>1. UNCHANGED <<up, nextSeq, lines, tail, pubPc, outgoing>>
    BY <1>7, PollFrame DEF PublishersRest
  <2>2. QED
    BY <2>1 DEF LogInv, Parsed, Text
<1>8. UNCHANGED queueVars => LogInv'
  BY DEF LogInv, Parsed, Text, queueVars, logVars, pubVars
<1>9. CASE Crash
  <2>1. up' = FALSE /\ \A q \in Publishers : pubPc'[q] = "idle"
    BY <1>9 DEF Crash, QueueCrash
  <2>2. ASSUME NEW q \in Publishers PROVE ~PublishText(q)
    BY <1>1, <2>1 DEF PublishText, QueueTypeOK
  <2>3. QED
    BY <1>3, <2>1, <2>2 DEF LogInv
<1>10. CASE Restart
  <2>1. /\ ~up /\ nextSeq' = RecoveredSeq /\ UNCHANGED <<lines, tail, pubPc>>
    BY <1>10 DEF Restart, QueueRestart, logVars, pubVars
  <2>2. Text' = Text /\ Parsed' = Parsed
    BY <2>1 DEF Text, Parsed
  <2>3. \A p \in Publishers : pubPc'[p] = "idle"
    BY <1>1, <2>1 DEF AwakeInv
  <2>4. ASSUME NEW i \in Parsed PROVE Text[i].seq < nextSeq'
    <3>1. PICK k \in Parsed : RecoveredSeq = Text[k].seq + 1 /\ \A j \in Parsed : j <= k
      BY <1>1, RecoveredFacts
    <3>2. i = k \/ i < k
      BY <1>2, <3>1
    <3>3. Text[i].seq <= Text[k].seq
      BY <1>2, <3>2 DEF LogInv
    <3>4. QED
      BY <1>2, <2>1, <3>1, <3>3
  <2>5. QED
    BY <2>2, <2>3, <2>4 DEF LogInv
<1>11. QED
  BY <1>4, <1>5, <1>6, <1>7, <1>8, <1>9, <1>10, OtherFrame DEF QuestionNext, Publish

----------------------------------------------------------------------------
(* What was delivered lies below the cursor, in memory and on disk.        *)

OrderInv ==
  /\ \A i, j \in DOMAIN delivered : i < j => delivered[i].seq < delivered[j].seq
  /\ up => \A i \in DOMAIN delivered : delivered[i].seq < cursor
  /\ cursorFile = None => delivered = <<>>
  /\ cursorFile \notin {None, Corrupt} => \A i \in DOMAIN delivered : delivered[i].seq < cursorFile
  /\ \A c \in Consumers : conPc[c] = "move" => cursor <= incoming[c].seq
  /\ \A c \in Consumers : conPc[c] \in {"commit", "store"} =>
       /\ cursor = incoming[c].seq + 1
       /\ \A i \in DOMAIN delivered : delivered[i].seq < incoming[c].seq

LEMMA OrderStep ==
  ASSUME BaseInv, [QuestionNext]_questionVars, OneEach, OrderInv, ~raced'
  PROVE  OrderInv'
<1>1. QueueTypeOK /\ AwakeInv /\ OneEach'
  BY OneEachStep DEF BaseInv, QuestionTypeOK
<1>2. /\ \A i \in DOMAIN delivered : delivered[i].seq \in Nat
      /\ cursor \in Nat
      /\ \A c \in Consumers : conPc[c] \in {"move", "commit", "store"} =>
           incoming[c] \in Messages /\ incoming[c].seq \in Nat
  BY <1>1, QueueValues DEF QueueTypeOK
<1>3. ASSUME NEW c \in Consumers, PollStep(c) PROVE OrderInv'
  <2>1. /\ \A d \in Consumers \ {c} : conPc'[d] = conPc[d] /\ incoming'[d] = incoming[d]
        /\ up' = up
    BY <1>3, PollFrame
  <2>2. conPc[c] # "idle" \/ conPc'[c] # "idle" => \A d \in Consumers \ {c} : conPc'[d] = "idle"
    BY <1>1, <2>1 DEF OneEach
  <2>3. CASE Poll(c)
    <3>1. /\ conPc' = [conPc EXCEPT ![c] = "pick"]
          /\ UNCHANGED <<up, cursor, cursorFile, incoming, delivered>>
      BY <2>3 DEF Poll, ConsumeRead
    <3>2. \A d \in Consumers : conPc'[d] \in {"move", "commit", "store"} => conPc'[d] = conPc[d]
      BY <1>1, <3>1 DEF QueueTypeOK
    <3>3. QED
      BY <3>1, <3>2 DEF OrderInv
  <2>4. CASE Receive(c)
    <3>1. CASE ConsumePick(c)
      <4>1. /\ incoming'[c] = FirstStop(c) /\ conPc'[c] = "move" /\ conPc[c] # "idle"
            /\ UNCHANGED <<up, cursor, cursorFile, delivered>>
        BY <1>1, <3>1 DEF ConsumePick, Found, QueueTypeOK, history
      <4>2. cursor <= incoming'[c].seq
        <5>1. Stops(c) # {} /\ FirstStop(c) # Corrupt
          BY <3>1 DEF ConsumePick, Found
        <5>2. FirstStop(c).seq >= cursor /\ FirstStop(c) \in LogLines
          BY <1>1, <5>1, FirstStopFacts
        <5>3. FirstStop(c).seq \in Nat
          BY <5>1, <5>2, QueueValues DEF LogLines
        <5>4. QED
          BY <1>2, <4>1, <5>2, <5>3
      <4>3. QED
        BY <2>2, <4>1, <4>2 DEF OrderInv
    <3>2. CASE ConsumeMove(c)
      <4>1. /\ conPc[c] = "move" /\ cursor' = incoming[c].seq + 1 /\ conPc'[c] = "commit"
            /\ UNCHANGED <<up, cursorFile, delivered, incoming>>
        BY <1>1, <3>2 DEF ConsumeMove, QueueTypeOK, history
      <4>2. up /\ cursor <= incoming[c].seq
        BY <1>1, <4>1 DEF AwakeInv, OrderInv
      <4>3. \A i \in DOMAIN delivered : delivered[i].seq < incoming[c].seq
        BY <1>2, <4>1, <4>2 DEF OrderInv
      <4>4. \A i \in DOMAIN delivered : delivered[i].seq < cursor'
        BY <1>2, <4>1, <4>3
      <4>5. QED
        BY <2>2, <4>1, <4>3, <4>4 DEF OrderInv
    <3>3. CASE ConsumeTruncate(c)
      <4>1. /\ conPc[c] = "commit" /\ cursorFile' = Corrupt /\ conPc'[c] = "store"
            /\ UNCHANGED <<up, cursor, delivered, incoming>>
        BY <1>1, <3>3 DEF ConsumeTruncate, QueueTypeOK, history
      <4>2. Corrupt # None
        BY QueueValues
      <4>3. QED
        BY <2>2, <4>1, <4>2 DEF OrderInv
    <3>4. QED
      BY <2>4, <3>1, <3>2, <3>3 DEF Receive
  <2>5. CASE PollEmpty(c) \/ PollRefused(c) \/ TakeFails(c)
    <3>1. /\ conPc[c] # "idle" /\ conPc'[c] = "idle"
          /\ UNCHANGED <<up, cursor, cursorFile, delivered>>
      BY <1>1, <2>5 DEF PollEmpty, PollRefused, TakeFails, Exhausted, Refused, ConsumeFails, ConsumeEnds,
            QueueTypeOK, history
    <3>2. QED
      BY <2>2, <3>1 DEF OrderInv
  <2>6. CASE Take(c)
    <3>1. /\ conPc[c] = "store" /\ cursorFile' = incoming[c].seq + 1 /\ conPc'[c] = "idle"
          /\ delivered' = Append(delivered, incoming[c]) /\ UNCHANGED <<up, cursor>>
      BY <1>1, <2>6 DEF Take, ConsumeStore, ConsumeEnds, QueueTypeOK
    <3>2. /\ cursor = incoming[c].seq + 1 /\ incoming[c].seq \in Nat
          /\ \A i \in DOMAIN delivered : delivered[i].seq < incoming[c].seq
      BY <1>2, <3>1 DEF OrderInv
    <3>3. incoming[c] \in Messages /\ delivered \in Seq(Messages)
      BY <1>1, <1>2, <3>1 DEF QueueTypeOK
    <3>4. /\ DOMAIN delivered' = 1..(Len(delivered) + 1) /\ DOMAIN delivered = 1..Len(delivered)
          /\ Len(delivered) \in Nat
          /\ \A i \in DOMAIN delivered : delivered'[i] = delivered[i]
          /\ delivered'[Len(delivered) + 1] = incoming[c]
      BY <3>1, <3>3
    <3>5. \A i \in DOMAIN delivered' : /\ delivered'[i].seq \in Nat
                                      /\ delivered'[i].seq < incoming[c].seq + 1
      BY <1>2, <3>2, <3>4
    <3>6. ASSUME NEW i \in DOMAIN delivered', NEW j \in DOMAIN delivered', i < j
          PROVE  delivered'[i].seq < delivered'[j].seq
      <4>1. i \in DOMAIN delivered /\ (j \in DOMAIN delivered \/ j = Len(delivered) + 1)
        BY <3>4, <3>6
      <4>2. QED
        BY <3>2, <3>4, <3>6, <4>1 DEF OrderInv
    <3>7. cursorFile' # None /\ cursorFile' = cursor'
      <4>1. incoming[c].seq + 1 \in Nat
        BY <3>2
      <4>2. incoming[c].seq + 1 # None
        BY <4>1, QueueValues
      <4>3. QED
        BY <3>1, <3>2, <4>2
    <3>8. QED
      BY <2>2, <3>1, <3>2, <3>5, <3>6, <3>7 DEF OrderInv
  <2>7. QED
    BY <1>3, <2>3, <2>4, <2>5, <2>6 DEF PollStep
<1>4. ASSUME NEW p \in Publishers, Answer(p) \/ Publish(p) PROVE OrderInv'
  BY <1>4, PublishFrame DEF ConsumersRest, OrderInv
<1>5. UNCHANGED queueVars => OrderInv'
  BY DEF OrderInv, queueVars, conVars, history
<1>6. CASE Crash
  <2>1. up' = FALSE /\ UNCHANGED <<cursorFile, delivered>> /\ \A d \in Consumers : conPc'[d] = "idle"
    BY <1>6 DEF Crash, QueueCrash
  <2>2. QED
    BY <2>1 DEF OrderInv
<1>7. CASE Restart
  <2>1. /\ ~up /\ cursorFile # Corrupt /\ cursor' = IF cursorFile = None THEN 0 ELSE cursorFile
        /\ UNCHANGED <<cursorFile, delivered, conPc>>
    BY <1>7 DEF Restart, QueueRestart, conVars, history
  <2>2. \A d \in Consumers : conPc'[d] = "idle"
    BY <1>1, <2>1 DEF AwakeInv
  <2>3. QED
    BY <2>1, <2>2 DEF OrderInv
<1>8. QED
  BY <1>3, <1>4, <1>5, <1>6, <1>7, OtherFrame DEF QuestionNext

----------------------------------------------------------------------------
(* What a consumer has read is still in the log, unless it became          *)
(* unreadable.                                                             *)

StillThere(l, i) == i \in DOMAIN Text /\ Text[i] \in {l, Corrupt}

SeenInv ==
  /\ \A c \in Consumers : \A i \in DOMAIN seen[c] : StillThere(seen[c][i], i)
  /\ \A c \in Consumers : conPc[c] = "move" =>
       \E k \in DOMAIN Text :
         /\ StillThere(incoming[c], k)
         /\ \A j \in 1..(k - 1) : Text[j] = Corrupt \/ Text[j].seq < cursor

LEMMA StillThereStays ==
  ASSUME TextGrows, NEW l, NEW i, StillThere(l, i)
  PROVE  StillThere(l, i)'
  BY DEF TextGrows, StillThere

LEMMA SeenStep ==
  ASSUME BaseInv, [QuestionNext]_questionVars, OneEach, SeenInv, ~raced'
  PROVE  SeenInv'
<1>1. QueueTypeOK /\ AwakeInv /\ OneEach' /\ TextGrows
  BY OneEachStep, TextSteps DEF BaseInv, QuestionTypeOK
<1>2. /\ Len(Text) \in Nat /\ DOMAIN Text = 1..Len(Text)
      /\ \A i \in DOMAIN Text : i \in DOMAIN Text' /\ Text'[i] \in {Text[i], Corrupt}
  BY <1>1, TextType DEF TextGrows
\* A line that is picked stays where it is.
<1>3. ASSUME NEW c \in Consumers, conPc[c] = "move", conPc'[c] = "move", incoming'[c] = incoming[c],
             cursor' = cursor
      PROVE  \E k \in DOMAIN Text' :
               /\ StillThere(incoming[c], k)'
               /\ \A j \in 1..(k - 1) : Text'[j] = Corrupt \/ Text'[j].seq < cursor'
  <2>1. PICK k \in DOMAIN Text :
          /\ StillThere(incoming[c], k)
          /\ \A j \in 1..(k - 1) : Text[j] = Corrupt \/ Text[j].seq < cursor
    BY <1>3 DEF SeenInv
  <2>2. PICK l : l = incoming[c]
    OBVIOUS
  <2>3. StillThere(l, k)'
    BY <1>1, <2>1, <2>2, StillThereStays
  <2>4. StillThere(incoming[c], k)'
    BY <1>3, <2>2, <2>3 DEF StillThere
  <2>5. ASSUME NEW j \in 1..(k - 1) PROVE Text'[j] = Corrupt \/ Text'[j].seq < cursor'
    <3>1. j \in DOMAIN Text
      BY <1>2
    <3>2. QED
      BY <1>2, <1>3, <2>1, <3>1
  <2>6. QED
    BY <1>2, <2>4, <2>5
<1>4. ASSUME NEW c \in Consumers, seen'[c] = seen[c]
      PROVE  \A i \in DOMAIN seen'[c] : StillThere(seen[c][i], i)'
  <2>1. PICK text : text = seen[c]
    OBVIOUS
  <2>2. ASSUME NEW i \in DOMAIN text PROVE StillThere(text[i], i)'
    <3>1. StillThere(text[i], i)
      BY <2>1 DEF SeenInv
    <3>2. QED
      BY <1>1, <3>1, StillThereStays
  <2>3. QED
    BY <1>4, <2>1, <2>2 DEF StillThere
<1>5. ASSUME UNCHANGED <<conPc, seen, incoming, cursor>> PROVE SeenInv'
  BY <1>3, <1>4, <1>5 DEF SeenInv
<1>6. ASSUME \A c \in Consumers : conPc'[c] = "idle" /\ seen'[c] \in {seen[c], <<>>} PROVE SeenInv'
  BY <1>4, <1>6 DEF SeenInv
<1>7. ASSUME NEW c \in Consumers, PollStep(c) PROVE SeenInv'
  <2>1. /\ \A d \in Consumers \ {c} : conPc'[d] = conPc[d] /\ incoming'[d] = incoming[d] /\ seen'[d] = seen[d]
        /\ lines' = lines /\ tail' = tail
    BY <1>7, PollFrame DEF PublishersRest
  <2>2. Text' = Text
    BY <2>1 DEF Text
  <2>3. conPc[c] # "idle" \/ conPc'[c] # "idle" => \A d \in Consumers \ {c} : conPc'[d] = "idle"
    BY <1>1, <2>1 DEF OneEach
  <2>4. CASE Poll(c)
    <3>1. seen'[c] = Text /\ conPc'[c] = "pick"
      BY <1>1, <2>4 DEF Poll, ConsumeRead, QueueTypeOK
    <3>2. \A i \in DOMAIN seen'[c] : StillThere(seen[c][i], i)'
      BY <2>2, <3>1 DEF StillThere
    <3>3. QED
      BY <1>4, <2>1, <2>3, <3>1, <3>2 DEF SeenInv
  <2>5. CASE ConsumePick(c)
    <3>1. /\ incoming'[c] = FirstStop(c) /\ conPc'[c] = "move" /\ conPc[c] = "pick" /\ seen'[c] = <<>>
          /\ cursor' = cursor /\ Stops(c) # {} /\ FirstStop(c) # Corrupt
      BY <1>1, <2>5 DEF ConsumePick, Found, QueueTypeOK
    <3>2. PICK k \in DOMAIN seen[c] :
            /\ FirstStop(c) = seen[c][k]
            /\ \A j \in 1..(k - 1) : seen[c][j] \in Messages /\ seen[c][j].seq < cursor
      BY <1>1, <3>1, FirstStopFacts
    <3>3. k \in DOMAIN Text /\ Text[k] \in {seen[c][k], Corrupt}
      BY <3>2 DEF SeenInv, StillThere
    <3>4. ASSUME NEW j \in 1..(k - 1) PROVE Text[j] = Corrupt \/ Text[j].seq < cursor
      <4>1. j \in DOMAIN seen[c]
        <5>1. seen[c] \in Seq(LogLines)
          BY <1>1 DEF QueueTypeOK
        <5>2. QED
          BY <3>2, <5>1
      <4>2. Text[j] \in {seen[c][j], Corrupt}
        BY <4>1 DEF SeenInv, StillThere
      <4>3. QED
        BY <3>2, <4>2
    <3>5. \E n \in DOMAIN Text' :
            /\ StillThere(incoming[c], n)'
            /\ \A j \in 1..(n - 1) : Text'[j] = Corrupt \/ Text'[j].seq < cursor'
      BY <2>2, <3>1, <3>2, <3>3, <3>4 DEF StillThere
    <3>6. QED
      BY <1>4, <2>1, <2>3, <3>1, <3>5 DEF SeenInv
  <2>6. CASE ConsumeMove(c) \/ ConsumeTruncate(c)
    <3>1. seen' = seen /\ conPc'[c] \in {"commit", "store"}
      BY <1>1, <2>6 DEF ConsumeMove, ConsumeTruncate, QueueTypeOK
    <3>2. QED
      BY <1>4, <2>1, <2>3, <3>1 DEF SeenInv
  <2>7. CASE PollEmpty(c) \/ PollRefused(c) \/ Take(c) \/ TakeFails(c)
    <3>1. conPc[c] # "idle" /\ conPc'[c] = "idle" /\ seen'[c] = <<>>
      BY <1>1, <2>7 DEF PollEmpty, PollRefused, Take, TakeFails, Exhausted, Refused, ConsumeFails,
            ConsumeStore, ConsumeEnds, QueueTypeOK
    <3>2. QED
      BY <1>6, <2>1, <2>3, <3>1
  <2>8. QED
    BY <1>7, <2>4, <2>5, <2>6, <2>7 DEF PollStep, Receive
<1>8. ASSUME NEW p \in Publishers, Answer(p) \/ Publish(p) PROVE SeenInv'
  BY <1>5, <1>8, PublishFrame DEF ConsumersRest
<1>9. UNCHANGED queueVars => SeenInv'
  BY <1>5 DEF queueVars, conVars
<1>10. CASE Crash \/ Restart
  <2>1. \A d \in Consumers : conPc'[d] = "idle"
    BY <1>10, OtherFrame
  <2>2. \A d \in Consumers : seen'[d] \in {seen[d], <<>>}
    BY <1>10 DEF Crash, QueueCrash, Restart, QueueRestart, conVars
  <2>3. QED
    BY <1>6, <2>1, <2>2
<1>11. QED
  BY <1>7, <1>8, <1>9, <1>10, OtherFrame DEF QuestionNext

----------------------------------------------------------------------------
(* Nothing is passed over.                                                 *)

\* The log has come to the number n, or a line of it cannot be read any more.
Reached(n) == n = 0 \/ \E i \in DOMAIN Text : Text[i] = Corrupt \/ n <= Text[i].seq + 1

\* Every message below n that can be read has been received.
Behind(n) == \A i \in Readable : Text[i].seq < n => Text[i].payload \in Received

CursorInv ==
  /\ up => Reached(cursor) /\ Behind(cursor)
  /\ cursorFile \notin {None, Corrupt} => Reached(cursorFile) /\ Behind(cursorFile)

LEMMA ReceivedGrows == ASSUME BaseInv, [QuestionNext]_questionVars PROVE Received \subseteq Received'
<1>1. QueueTypeOK
  BY DEF BaseInv, QuestionTypeOK
<1>2. ASSUME NEW c \in Consumers, PollStep(c) PROVE Received \subseteq Received'
  <2>1. \A d \in Consumers \ {c} : conPc'[d] = conPc[d] /\ incoming'[d] = incoming[d]
    BY <1>2, PollFrame
  <2>2. /\ \A i \in DOMAIN delivered : i \in DOMAIN delivered' /\ delivered'[i] = delivered[i]
        /\ dropped \subseteq dropped'
        /\ conPc[c] \in {"commit", "store"} =>
             \/ conPc'[c] \in {"commit", "store"} /\ incoming'[c] = incoming[c]
             \/ incoming[c].payload \in dropped'
             \/ \E i \in DOMAIN delivered' : delivered'[i] = incoming[c]
    <3>1. CASE Poll(c) \/ ConsumePick(c) \/ PollEmpty(c) \/ PollRefused(c)
      BY <1>1, <3>1 DEF Poll, ConsumePick, ConsumeRead, Found, PollEmpty, PollRefused, Exhausted, Refused, history
    <3>2. CASE ConsumeMove(c) \/ ConsumeTruncate(c)
      BY <1>1, <3>2 DEF ConsumeMove, ConsumeTruncate, QueueTypeOK, history
    <3>3. CASE Take(c)
      <4>1. conPc[c] = "store" /\ delivered' = Append(delivered, incoming[c]) /\ dropped' = dropped
        BY <3>3 DEF Take, ConsumeStore
      <4>2. delivered \in Seq(Messages) /\ incoming[c] \in Messages
        BY <1>1, <4>1 DEF QueueTypeOK
      <4>3. /\ \A i \in DOMAIN delivered : i \in DOMAIN delivered' /\ delivered'[i] = delivered[i]
            /\ Len(delivered) + 1 \in DOMAIN delivered' /\ delivered'[Len(delivered) + 1] = incoming[c]
        BY <4>1, <4>2
      <4>4. QED
        BY <4>1, <4>3
    <3>4. CASE TakeFails(c)
      BY <3>4 DEF TakeFails, ConsumeFails
    <3>5. QED
      BY <1>2, <3>1, <3>2, <3>3, <3>4 DEF PollStep, Receive
  <2>3. ASSUME NEW q \in Received PROVE q \in Received'
    <3>1. CASE q \in {delivered[i].payload : i \in DOMAIN delivered} \union dropped
      BY <2>2, <3>1 DEF Received
    <3>2. ASSUME NEW d \in Consumers, conPc[d] \in {"commit", "store"}, q = incoming[d].payload
          PROVE  q \in Received'
      BY <2>1, <2>2, <3>2 DEF Received
    <3>3. QED
      BY <3>1, <3>2 DEF Received
  <2>4. QED
    BY <2>3
<1>3. ASSUME NEW p \in Publishers, Answer(p) \/ Publish(p) PROVE Received \subseteq Received'
  BY <1>3, PublishFrame DEF ConsumersRest, Received
<1>4. UNCHANGED queueVars => Received \subseteq Received'
  BY DEF queueVars, conVars, history, Received
<1>5. ASSUME Crash \/ Restart PROVE Received \subseteq Received'
  <2>1. CASE Crash
    BY <2>1 DEF Crash, QueueCrash, Received
  <2>2. CASE Restart
    BY <2>2 DEF Restart, QueueRestart, Received, conVars, history
  <2>3. QED
    BY <1>5, <2>1, <2>2
<1>6. ASSUME NEW c \in Consumers, Ask(c) \/ Expire(c) PROVE Received \subseteq Received'
  BY <1>4, <1>6, OtherFrame
<1>7. UNCHANGED questionVars => Received \subseteq Received'
  BY <1>4, OtherFrame
<1>8. QED
  <2>1. CASE QuestionNext
    BY <1>2, <1>3, <1>5, <1>6, <2>1 DEF QuestionNext
  <2>2. QED
    BY <1>7, <2>1

\* Lines are never taken away, so what the log has come to, it keeps.
LEMMA ReachedStays ==
  ASSUME TextGrows, NEW n, Reached(n)
  PROVE  Reached(n)'
<1>1. CASE n = 0
  BY <1>1 DEF Reached
<1>2. ASSUME NEW i \in DOMAIN Text, Text[i] = Corrupt \/ n <= Text[i].seq + 1
      PROVE  Reached(n)'
  <2>1. i \in DOMAIN Text' /\ Text'[i] \in {Text[i], Corrupt}
    BY DEF TextGrows
  <2>2. Text'[i] = Corrupt \/ n <= Text'[i].seq + 1
    BY <1>2, <2>1
  <2>3. QED
    BY <2>1, <2>2 DEF Reached
<1>3. QED
  BY <1>1, <1>2 DEF Reached

\* A line that comes has a number that the cursor has not passed.
LEMMA BehindStays ==
  ASSUME BaseInv, [QuestionNext]_questionVars, LogInv, NEW n \in Nat, Reached(n), Behind(n)
  PROVE  Behind(n)'
<1>1. QueueTypeOK /\ TextGrows /\ Received \subseteq Received'
  BY TextSteps, ReceivedGrows DEF BaseInv, QuestionTypeOK
<1> SUFFICES ASSUME NEW i \in Readable', Text'[i].seq < n
             PROVE  Text'[i].payload \in Received'
  BY DEF Behind
<1>2. i \in Parsed' /\ (i \in DOMAIN Text => i \in Readable)
      /\ \A j \in DOMAIN Text : j <= i => Text[j] # Corrupt
  BY <1>1, ParsedSteps
<1>3. CASE i \in Parsed /\ Text'[i] = Text[i]
  <2>1. i \in Readable
    BY <1>2, <1>3 DEF Parsed
  <2>2. QED
    BY <1>1, <1>3, <2>1 DEF Behind
<1>4. CASE ~(i \in Parsed /\ Text'[i] = Text[i])
  <2>1. PICK p \in Publishers : PublishText(p) /\ Text'[i] = outgoing[p] /\ i = Len(Text) + 1
    BY <1>1, <1>2, <1>4, ParsedSteps
  <2>2. /\ outgoing[p].seq \in Nat /\ \A k \in Parsed : Text[k].seq < outgoing[p].seq
    BY <1>1, <2>1, QueueValues DEF PublishText, QueueTypeOK, LogInv
  <2>3. ASSUME NEW k \in DOMAIN Text PROVE Text[k] # Corrupt /\ k \in Parsed /\ Text[k].seq \in Nat
    <3>1. k \in 1..Len(Text) /\ Len(Text) \in Nat
      BY <1>1, TextType
    <3>2. k <= i
      BY <2>1, <3>1
    <3>3. Text[k] # Corrupt
      BY <1>2, <3>2
    <3>4. Text[k] \in Messages
      BY <1>1, <3>3, TextType
    <3>5. QED
      BY <3>3, <3>4, QueueValues DEF Parsed
  <2>4. n = 0 \/ \E k \in Parsed : Text[k].seq \in Nat /\ n <= Text[k].seq + 1
    BY <2>3 DEF Reached
  <2>5. n <= outgoing[p].seq
    BY <2>2, <2>4
  <2>6. FALSE
    BY <2>1, <2>2, <2>5
  <2>7. QED
    BY <2>6
<1>5. QED
  BY <1>3, <1>4

\* The move past a message leaves nothing behind but what was received.
LEMMA MoveReaches ==
  ASSUME BaseInv, OneEach, LogInv, OrderInv, SeenInv, CursorInv, ~raced',
         NEW c \in Consumers, ConsumeMove(c), NEW n, n = cursor'
  PROVE  Reached(n)' /\ Behind(n)'
<1>1. QueueTypeOK /\ AwakeInv
  BY DEF BaseInv, QuestionTypeOK
<1>2. /\ conPc[c] = "move" /\ n = incoming[c].seq + 1 /\ conPc' = [conPc EXCEPT ![c] = "commit"]
      /\ UNCHANGED <<lines, tail, incoming, delivered, dropped>> /\ up
  BY <1>1 DEF ConsumeMove, logVars, history, AwakeInv
<1>3. Text' = Text /\ Readable' = Readable
  BY <1>2 DEF Text, Readable
<1>4. PICK k \in DOMAIN Text :
        /\ Text[k] \in {incoming[c], Corrupt}
        /\ \A j \in 1..(k - 1) : Text[j] = Corrupt \/ Text[j].seq < cursor
  BY <1>2 DEF SeenInv, StillThere
<1>5. incoming[c] \in Messages /\ incoming[c].seq \in Nat
  BY <1>1, <1>2, QueueValues DEF QueueTypeOK
<1>6. Reached(n)'
  <2>1. Text[k] = Corrupt \/ n <= Text[k].seq + 1
    BY <1>2, <1>4, <1>5
  <2>2. QED
    BY <1>3, <1>4, <2>1 DEF Reached
<1>7. Received \subseteq Received' /\ incoming[c].payload \in Received'
  <2>1. conPc'[c] = "commit" /\ \A d \in Consumers : conPc[d] \in {"commit", "store"} => conPc'[d] = conPc[d]
    BY <1>1, <1>2 DEF QueueTypeOK
  <2>2. QED
    BY <1>2, <2>1 DEF Received
<1>8. ASSUME NEW i \in Readable, Text[i].seq < n PROVE Text[i].payload \in Received'
  <2>1. /\ i \in DOMAIN Text /\ i \in Nat /\ i >= 1 /\ k \in Nat /\ k >= 1
        /\ \A j \in 1..i : Text[j] # Corrupt
    BY <1>1, <1>4, TextType DEF Readable
  <2>2. Text[i] \in Messages /\ Text[i].seq \in Nat
    BY <1>1, <2>1, TextType, QueueValues
  <2>3. CASE i < k
    <3>1. Text[i].seq < cursor
      BY <1>4, <2>1, <2>3
    <3>2. Text[i].payload \in Received
      BY <1>2, <3>1 DEF CursorInv, Behind
    <3>3. QED
      BY <1>7, <3>2
  <2>4. CASE i = k
    <3>1. Text[i] = incoming[c]
      BY <1>4, <2>1, <2>4
    <3>2. QED
      BY <1>7, <3>1
  <2>5. CASE i > k
    <3>1. Text[k] # Corrupt /\ Text[i] # Corrupt
      BY <2>1, <2>5
    <3>2. Text[k] = incoming[c] /\ k \in Parsed /\ i \in Parsed
      BY <1>4, <2>1, <3>1 DEF Parsed
    <3>3. incoming[c].seq < Text[i].seq
      BY <2>5, <3>2 DEF LogInv
    <3>4. FALSE
      BY <1>2, <1>5, <1>8, <2>2, <3>3
    <3>5. QED
      BY <3>4
  <2>6. QED
    BY <2>1, <2>3, <2>4, <2>5
<1>9. Behind(n)'
  BY <1>3, <1>8 DEF Behind
<1>10. QED
  BY <1>6, <1>9

LEMMA CursorStep ==
  ASSUME BaseInv, [QuestionNext]_questionVars, OneEach, LogInv, OrderInv, SeenInv, CursorInv, ~raced'
  PROVE  CursorInv'
<1>1. QueueTypeOK /\ AwakeInv /\ TextGrows
  BY TextSteps DEF BaseInv, QuestionTypeOK
<1>2. cursor \in Nat /\ (cursorFile \notin {None, Corrupt} => cursorFile \in Nat)
  BY <1>1, QueueValues DEF QueueTypeOK
<1>3. ASSUME NEW n \in Nat, Reached(n), Behind(n) PROVE Reached(n)' /\ Behind(n)'
  BY <1>1, <1>3, ReachedStays, BehindStays
<1>4. ASSUME NEW n, n = cursor', up \/ n = 0, cursor' = cursor \/ n = 0 PROVE Reached(n)' /\ Behind(n)'
  <2>1. CASE n = 0
    <3>1. Reached(n) /\ Behind(n)
      <4>1. \A i \in Readable : Text[i].seq \in Nat
        <5>1. \A i \in Readable : i \in DOMAIN Text /\ Text[i] # Corrupt
          BY <1>1, TextType DEF Readable
        <5>2. QED
          BY <1>1, <5>1, TextType, QueueValues
      <4>2. QED
        BY <2>1, <4>1 DEF Reached, Behind
    <3>2. QED
      BY <1>3, <2>1, <3>1
  <2>2. CASE n = cursor /\ up
    <3>1. Reached(n) /\ Behind(n) /\ n \in Nat
      BY <1>2, <2>2 DEF CursorInv
    <3>2. QED
      BY <1>3, <3>1
  <2>3. QED
    BY <1>4, <2>1, <2>2
<1>5. ASSUME NEW n, n = cursorFile', n = cursorFile, n \notin {None, Corrupt} PROVE Reached(n)' /\ Behind(n)'
  <2>1. Reached(n) /\ Behind(n) /\ n \in Nat
    BY <1>2, <1>5 DEF CursorInv
  <2>2. QED
    BY <1>3, <2>1
<1>6. PICK m, f : m = cursor' /\ f = cursorFile'
  OBVIOUS
<1> DEFINE Goal == /\ up' => Reached(m)' /\ Behind(m)'
                   /\ f \notin {None, Corrupt} => Reached(f)' /\ Behind(f)'
<1>7. ASSUME cursor' = cursor, cursorFile' = cursorFile, up' => up PROVE Goal
  BY <1>4, <1>5, <1>6, <1>7
<1>8. ASSUME NEW c \in Consumers, PollStep(c) PROVE Goal
  <2>1. up' => up
    BY <1>8, PollFrame
  <2>2. CASE Poll(c) \/ ConsumePick(c) \/ PollEmpty(c) \/ PollRefused(c) \/ TakeFails(c)
    <3>1. cursor' = cursor /\ cursorFile' = cursorFile
      BY <2>2 DEF Poll, ConsumeRead, ConsumePick, PollEmpty, PollRefused, TakeFails, ConsumeFails
    <3>2. QED
      BY <1>7, <2>1, <3>1
  <2>3. CASE ConsumeMove(c)
    <3>1. cursorFile' = cursorFile
      BY <2>3 DEF ConsumeMove
    <3>2. Reached(m)' /\ Behind(m)'
      BY <1>6, <2>3, MoveReaches
    <3>3. QED
      BY <1>5, <1>6, <3>1, <3>2
  <2>4. CASE ConsumeTruncate(c)
    <3>1. cursorFile' = Corrupt /\ cursor' = cursor
      BY <2>4 DEF ConsumeTruncate
    <3>2. QED
      BY <1>4, <1>6, <2>1, <3>1
  <2>5. CASE Take(c)
    <3>1. conPc[c] = "store" /\ cursorFile' = incoming[c].seq + 1 /\ cursor' = cursor
      BY <2>5 DEF Take, ConsumeStore
    <3>2. up /\ cursor = incoming[c].seq + 1
      BY <1>1, <3>1 DEF AwakeInv, OrderInv
    <3>3. f = m
      BY <1>6, <3>1, <3>2
    <3>4. QED
      BY <1>4, <1>6, <3>1, <3>2, <3>3
  <2>6. QED
    BY <1>8, <2>2, <2>3, <2>4, <2>5 DEF PollStep, Receive
<1>9. ASSUME NEW p \in Publishers, Answer(p) \/ Publish(p) PROVE Goal
  <2>1. cursor' = cursor /\ cursorFile' = cursorFile /\ (up' => up)
    BY <1>9, PublishFrame DEF ConsumersRest
  <2>2. QED
    BY <1>7, <2>1
<1>10. ASSUME UNCHANGED queueVars PROVE Goal
  <2>1. cursor' = cursor /\ cursorFile' = cursorFile /\ (up' => up)
    BY <1>10 DEF queueVars
  <2>2. QED
    BY <1>7, <2>1
<1>11. ASSUME Crash PROVE Goal
  <2>1. ~up' /\ cursorFile' = cursorFile
    BY <1>11 DEF Crash, QueueCrash
  <2>2. QED
    BY <1>5, <1>6, <2>1
<1>12. ASSUME Restart PROVE Goal
  <2>1. cursorFile' = cursorFile /\ cursorFile # Corrupt
        /\ cursor' = IF cursorFile = None THEN 0 ELSE cursorFile
    BY <1>12 DEF Restart, QueueRestart
  <2>2. cursorFile = None => Reached(m)' /\ Behind(m)'
    BY <1>4, <1>6, <2>1
  <2>3. cursorFile # None => m = f
    BY <1>6, <2>1
  <2>4. QED
    BY <1>5, <1>6, <2>1, <2>2, <2>3
<1>13. Goal
  <2> HIDE DEF Goal
  <2>1. QED
    BY <1>8, <1>9, <1>10, <1>11, <1>12, OtherFrame DEF QuestionNext
<1>14. up' => Reached(cursor)' /\ Behind(cursor)'
  BY <1>6, <1>13 DEF Reached, Behind
<1>15. cursorFile' \notin {None, Corrupt} => Reached(cursorFile)' /\ Behind(cursorFile)'
  BY <1>6, <1>13 DEF Reached, Behind
<1>16. QED
  BY <1>14, <1>15 DEF CursorInv

----------------------------------------------------------------------------
(* The log with one offset.                                                *)

\* While two threads have not published, and two not consumed, at the same time.
SerialInv == ~raced => OneEach /\ LogInv /\ OrderInv /\ SeenInv /\ CursorInv

LEMMA SerialInit == QuestionInit => SerialInv
<1> SUFFICES ASSUME QuestionInit PROVE SerialInv
  OBVIOUS
<1>1. QueueInit
  BY DEF QuestionInit
<1>2. lines = <<>> /\ tail = None /\ cursor = 0 /\ cursorFile = None /\ delivered = <<>>
      /\ (\A p \in Publishers : pubPc[p] = "idle") /\ (\A c \in Consumers : conPc[c] = "idle" /\ seen[c] = <<>>)
  BY <1>1 DEF QueueInit
<1>3. Text = <<>> /\ Parsed = {} /\ Readable = {}
  BY <1>2 DEF Text, Parsed, Readable
<1>4. OneEach /\ LogInv /\ OrderInv
  BY <1>2, <1>3 DEF OneEach, LogInv, OrderInv
<1>5. SeenInv
  BY <1>2 DEF SeenInv
<1>6. CursorInv
  BY <1>2, <1>3 DEF CursorInv, Reached, Behind
<1>7. QED
  BY <1>4, <1>5, <1>6 DEF SerialInv

LEMMA SerialStep == BaseInv /\ SerialInv /\ [QuestionNext]_questionVars => SerialInv'
<1> SUFFICES ASSUME BaseInv, SerialInv, [QuestionNext]_questionVars, ~raced'
             PROVE  OneEach' /\ LogInv' /\ OrderInv' /\ SeenInv' /\ CursorInv'
  BY DEF SerialInv
<1>1. ~raced
  BY RacedStays
<1>2. OneEach /\ LogInv /\ OrderInv /\ SeenInv /\ CursorInv
  BY <1>1 DEF SerialInv
<1>3. QED
  BY <1>2, OneEachStep, LogStep, OrderStep, SeenStep, CursorStep

LEMMA SerialIsLog == BaseInv /\ SerialInv => LogWithOffset
<1> SUFFICES ASSUME BaseInv, SerialInv PROVE LogWithOffset
  OBVIOUS
<1>1. DeliveredInOrder
  BY DEF SerialInv, OrderInv, DeliveredInOrder
<1>2. NothingSkipped
  BY DEF SerialInv, CursorInv, Behind, NothingSkipped
<1>3. QED
  BY <1>1, <1>2 DEF LogWithOffset, BaseInv

LEMMA SerialInvariance == QuestionSpec => [](BaseInv /\ SerialInv)
<1>1. QuestionInit => BaseInv /\ SerialInv
  BY BaseInit, SerialInit
<1>2. BaseInv /\ SerialInv /\ [QuestionNext]_questionVars => BaseInv' /\ SerialInv'
  BY BaseStep, SerialStep
<1>3. QED
  BY <1>1, <1>2, PTL DEF QuestionSpec

\* No message is delivered twice or after a later one, and none that can be read
\* is passed over, across crashes, restarts and failed writes, as long as two
\* threads do not publish, and two do not consume, at once.
THEOREM DeliveryIsALog == QuestionSpec => []LogWithOffset
  BY SerialInvariance, SerialIsLog, PTL

----------------------------------------------------------------------------
(* A log that was never cut short is whole.                                *)

CleanLog ==
  /\ \A i \in DOMAIN Text : Text[i] # Corrupt
  /\ tail # None => \E p \in Publishers : pubPc[p] = "newline"
  /\ \A p \in Publishers : pubPc[p] = "newline" => tail = outgoing[p]
  /\ \A m \in acked : \E i \in DOMAIN Text : Text[i].payload = m

CleanInv == ~raced /\ ~cut => CleanLog

LEMMA CutStays == BaseInv /\ [QuestionNext]_questionVars => (cut => cut')
<1> SUFFICES ASSUME BaseInv, [QuestionNext]_questionVars, cut PROVE cut'
  OBVIOUS
<1>1. ASSUME NEW c \in Consumers, Ask(c) \/ Expire(c) \/ PollStep(c) PROVE cut'
  BY <1>1 DEF Ask, Expire, PollStep, Poll, Receive, PollEmpty, PollRefused, Take, TakeFails, ConsumeRead,
        ConsumePick, ConsumeMove, ConsumeTruncate, ConsumeStore, ConsumeFails, queueVars, history
<1>2. ASSUME NEW p \in Publishers, Answer(p) \/ Publish(p) PROVE cut'
  BY <1>2 DEF Answer, Publish, PublishNumber, PublishText, PublishNewline, PublishFails, history
<1>3. Crash \/ Restart \/ UNCHANGED questionVars => cut'
  BY DEF Crash, Restart, QueueCrash, QueueRestart, questionVars, queueVars, history
<1>4. QED
  BY <1>1, <1>2, <1>3 DEF QuestionNext

LEMMA CleanStep ==
  ASSUME BaseInv, [QuestionNext]_questionVars, OneEach, CleanLog, ~raced', ~cut'
  PROVE  CleanLog'
<1>1. QueueTypeOK /\ AwakeInv
  BY DEF BaseInv, QuestionTypeOK
\* The publishers and the log stay.
<1>2. ASSUME UNCHANGED <<lines, tail, pubPc, outgoing, acked>> PROVE CleanLog'
  BY <1>2 DEF CleanLog, Text
\* The log stays, and nobody is between a record and its newline.
<1>3. ASSUME UNCHANGED <<lines, tail, acked>>, \A p \in Publishers : pubPc[p] # "newline",
             \A p \in Publishers : pubPc'[p] # "newline"
      PROVE  CleanLog'
  BY <1>3 DEF CleanLog, Text
<1>4. ASSUME NEW p \in Publishers, PublishText(p) PROVE CleanLog'
  <2>1. /\ pubPc[p] = "text" /\ pubPc' = [pubPc EXCEPT ![p] = "newline"]
        /\ UNCHANGED <<lines, outgoing, acked>>
        /\ tail' = IF tail = None THEN outgoing[p] ELSE Corrupt
    BY <1>4 DEF PublishText, history
  <2>2. \A q \in Publishers : pubPc[q] # "newline" /\ (pubPc'[q] = "newline" => q = p)
    BY <1>1, <2>1 DEF OneEach, QueueTypeOK
  <2>3. tail = None /\ tail' = outgoing[p]
    BY <2>1, <2>2 DEF CleanLog
  <2>4. outgoing[p] \in Messages /\ outgoing[p] # None /\ outgoing[p] # Corrupt /\ outgoing[p] \in LogLines
    BY <1>1, <2>1, QueueValues DEF QueueTypeOK, LogLines
  <2>5. Text = lines /\ Text' = Append(Text, outgoing[p])
    BY <2>1, <2>3, <2>4 DEF Text
  <2>6. /\ Len(Text') = Len(Text) + 1 /\ Text' \in Seq(LogLines) /\ Len(Text) \in Nat
        /\ \A i \in DOMAIN Text : Text'[i] = Text[i]
        /\ Text'[Len(Text) + 1] = outgoing[p]
    BY <1>1, <2>4, <2>5, TextExtends, TextType
  <2>7. /\ \A i \in DOMAIN Text : i \in DOMAIN Text'
        /\ \A i \in DOMAIN Text' : i \in DOMAIN Text \/ i = Len(Text) + 1
    BY <1>1, <2>6, TextType
  <2>8. \A i \in DOMAIN Text' : Text'[i] # Corrupt
    BY <2>4, <2>6, <2>7 DEF CleanLog
  <2>9. \A m \in acked' : \E i \in DOMAIN Text' : Text'[i].payload = m
    BY <2>1, <2>6, <2>7 DEF CleanLog
  <2>10. pubPc'[p] = "newline" /\ \A q \in Publishers : pubPc'[q] = "newline" => tail' = outgoing'[q]
    BY <1>1, <2>1, <2>2, <2>3 DEF QueueTypeOK
  <2>11. QED
    BY <2>8, <2>9, <2>10 DEF CleanLog
<1>5. ASSUME NEW p \in Publishers, PublishNewline(p) PROVE CleanLog'
  <2>1. /\ pubPc[p] = "newline" /\ pubPc' = [pubPc EXCEPT ![p] = "idle"] /\ tail' = None
        /\ acked' = acked \union {outgoing[p].payload}
        /\ lines' = Append(lines, IF tail = None THEN Corrupt ELSE tail)
    BY <1>5 DEF PublishNewline
  <2>2. tail = outgoing[p] /\ tail \in Messages /\ tail # None /\ tail \in LogLines
    BY <1>1, <2>1, QueueValues DEF CleanLog, QueueTypeOK, LogLines
  <2>3. Text = Append(lines, tail) /\ Text' = Text /\ lines \in Seq(LogLines)
    BY <1>1, <2>1, <2>2 DEF Text, QueueTypeOK
  <2>4. Len(lines) + 1 \in DOMAIN Text /\ Text[Len(lines) + 1] = outgoing[p]
    BY <2>2, <2>3
  <2>5. \A m \in acked' : \E i \in DOMAIN Text' : Text'[i].payload = m
    BY <2>1, <2>3, <2>4 DEF CleanLog
  <2>6. \A q \in Publishers : pubPc'[q] # "newline"
    BY <1>1, <2>1 DEF OneEach, QueueTypeOK
  <2>7. \A i \in DOMAIN Text' : Text'[i] # Corrupt
    BY <2>3 DEF CleanLog
  <2>8. QED
    BY <2>1, <2>5, <2>6, <2>7 DEF CleanLog
<1>6. ASSUME NEW p \in Publishers, PublishFails(p) PROVE CleanLog'
  <2>1. /\ pubPc[p] # "idle" /\ pubPc[p] # "newline" /\ pubPc' = [pubPc EXCEPT ![p] = "idle"]
        /\ UNCHANGED <<lines, tail, acked>>
    BY <1>6 DEF PublishFails
  <2>2. \A q \in Publishers : pubPc[q] # "newline" /\ pubPc'[q] # "newline"
    BY <1>1, <2>1 DEF OneEach, QueueTypeOK
  <2>3. QED
    BY <1>3, <2>1, <2>2
<1>7. ASSUME NEW p \in Publishers, Answer(p) PROVE CleanLog'
  <2>1. /\ \A q \in Publishers : pubPc[q] = "idle"
        /\ pubPc' = [pubPc EXCEPT ![p] = "text"] /\ UNCHANGED <<lines, tail, acked>>
    BY <1>7 DEF Answer, PublishNumber, logVars
  <2>2. \A q \in Publishers : pubPc[q] # "newline" /\ pubPc'[q] # "newline"
    BY <1>1, <2>1 DEF QueueTypeOK
  <2>3. QED
    BY <1>3, <2>1, <2>2
<1>8. ASSUME NEW c \in Consumers, PollStep(c) PROVE CleanLog'
  BY <1>2, <1>8, PollFrame DEF PublishersRest
<1>9. UNCHANGED queueVars => CleanLog'
  BY <1>2 DEF queueVars, logVars, pubVars, history
<1>10. CASE Crash
  <2>1. /\ \A q \in Publishers : pubPc[q] # "newline" /\ pubPc'[q] # "newline"
        /\ UNCHANGED <<lines, tail, acked>>
    BY <1>10 DEF Crash, QueueCrash
  <2>2. QED
    BY <1>3, <2>1
<1>11. CASE Restart
  <2>1. UNCHANGED <<lines, tail, pubPc, outgoing, acked>>
    BY <1>11 DEF Restart, QueueRestart, logVars, pubVars, history
  <2>2. QED
    BY <1>2, <2>1
<1>12. QED
  BY <1>4, <1>5, <1>6, <1>7, <1>8, <1>9, <1>10, <1>11, OtherFrame DEF QuestionNext, Publish

LEMMA CleanIsReadable == BaseInv /\ CleanInv => AckedReadable
<1> SUFFICES ASSUME BaseInv, CleanInv, ~raced, ~cut, NEW m \in acked
             PROVE  \E i \in Readable : Text[i].payload = m
  BY DEF AckedReadable
<1>1. QueueTypeOK /\ CleanLog
  BY DEF BaseInv, QuestionTypeOK, CleanInv
<1>2. PICK i \in DOMAIN Text : Text[i].payload = m
  BY <1>1 DEF CleanLog
<1>3. \A j \in 1..i : j \in DOMAIN Text
  BY <1>1, TextType
<1>4. i \in Readable
  BY <1>1, <1>3 DEF CleanLog, Readable
<1>5. QED
  BY <1>2, <1>4

\* What was acknowledged is in the log and can be read there, until a line is cut
\* short or two publishes overlap.
THEOREM AcknowledgedIsReadable == QuestionSpec => []AckedReadable
<1>1. QuestionInit => CleanInv
  BY DEF QuestionInit, QueueInit, CleanInv, CleanLog, Text
<1>2. BaseInv /\ SerialInv /\ CleanInv /\ [QuestionNext]_questionVars => CleanInv'
  BY RacedStays, CutStays, CleanStep DEF SerialInv, CleanInv
<1>3. QED
  BY <1>1, <1>2, SerialInvariance, CleanIsReadable, PTL DEF QuestionSpec

----------------------------------------------------------------------------
(* Each question is answered once, and the messages carry its name.        *)

\* A message is in the log, or in the hands of a thread.
Carried(m) ==
  \/ \E i \in Parsed : m = Text[i]
  \/ \E p \in Publishers : pubPc[p] # "idle" /\ m = outgoing[p]
  \/ \E c \in Consumers : \E i \in DOMAIN seen[c] : m = seen[c][i]
  \/ \E c \in Consumers : conPc[c] \in {"move", "commit", "store"} /\ m = incoming[c]

OnceInv ==
  /\ \A m \in Messages : Carried(m) => m.payload \in answering
  /\ \A m, n \in Messages : Carried(m) /\ Carried(n) /\ m.payload = n.payload => m = n

\* A message that nobody carried is the one of an answer that begins.
LEMMA CarriedSteps ==
  ASSUME BaseInv, [QuestionNext]_questionVars, NEW m \in Messages, Carried(m)'
  PROVE  \/ Carried(m) /\ (answering \subseteq answering')
         \/ /\ m.payload \notin answering /\ answering' = answering \union {m.payload}
            /\ \E p \in Publishers : Answer(p) /\ m = outgoing'[p]
<1> DEFINE Fresh == /\ m.payload \notin answering /\ answering' = answering \union {m.payload}
                    /\ \E p \in Publishers : Answer(p) /\ m = outgoing'[p]
<1>1. QueueTypeOK /\ TextGrows /\ AwakeInv
  BY TextSteps DEF BaseInv, QuestionTypeOK
<1>2. m # Corrupt /\ m # None
  BY QueueValues
\* In the log.
<1>3. ASSUME NEW i \in Parsed', m = Text'[i] PROVE Carried(m)
  <2>1. CASE i \in Parsed /\ Text'[i] = Text[i]
    BY <1>3, <2>1 DEF Carried
  <2>2. ASSUME NEW p \in Publishers, PublishText(p), Text'[i] = outgoing[p] PROVE Carried(m)
    BY <1>3, <2>2 DEF Carried, PublishText
  <2>3. QED
    BY <1>1, <2>1, <2>2, ParsedSteps
\* With a publisher.
<1>4. ASSUME NEW p \in Publishers, pubPc'[p] # "idle", m = outgoing'[p] PROVE Carried(m) \/ Fresh
  <2>1. CASE pubPc[p] # "idle" /\ outgoing'[p] = outgoing[p]
    BY <1>4, <2>1 DEF Carried
  <2>2. CASE Answer(p)
    <3>1. PICK q \in asked \ answering : PublishNumber(p, q) /\ answering' = answering \union {q}
      BY <2>2 DEF Answer
    <3>2. m.payload = q
      BY <1>1, <1>4, <3>1 DEF PublishNumber, QueueTypeOK
    <3>3. QED
      BY <1>4, <2>2, <3>1, <3>2
  <2>3. CASE Publish(p)
    <3>1. PublishText(p)
      BY <1>1, <1>4, <2>3 DEF Publish, PublishNewline, PublishFails, QueueTypeOK
    <3>2. QED
      BY <2>1, <3>1 DEF PublishText
  <2>4. ASSUME NEW q \in Publishers, q # p, Answer(q) \/ Publish(q) PROVE Carried(m) \/ Fresh
    <3>1. pubPc'[p] = pubPc[p] /\ outgoing'[p] = outgoing[p]
      BY <2>4, PublishFrame
    <3>2. QED
      BY <1>4, <2>1, <3>1
  <2>5. ASSUME NEW c \in Consumers, PollStep(c) PROVE Carried(m) \/ Fresh
    BY <1>4, <2>1, <2>5, PollFrame DEF PublishersRest
  <2>6. UNCHANGED queueVars => Carried(m) \/ Fresh
    BY <1>4, <2>1 DEF queueVars, pubVars
  <2>7. ~Crash /\ ~Restart
    BY <1>4, OtherFrame
  <2> HIDE DEF Fresh
  <2>8. QED
    BY <2>2, <2>3, <2>4, <2>5, <2>6, <2>7, OtherFrame DEF QuestionNext
\* With a consumer.
<1>5. ASSUME NEW c \in Consumers, PollStep(c), NEW d \in Consumers,
             \/ \E i \in DOMAIN seen'[d] : m = seen'[d][i]
             \/ conPc'[d] \in {"move", "commit", "store"} /\ m = incoming'[d]
      PROVE  Carried(m)
  <2>1. CASE seen'[d] = seen[d] /\ conPc'[d] = conPc[d] /\ incoming'[d] = incoming[d]
    BY <1>5, <2>1 DEF Carried
  <2>2. CASE d # c
    BY <1>5, <2>1, <2>2, PollFrame
  <2>3. CASE d = c
    <3>1. CASE Poll(c)
      <4>1. seen'[c] = Text /\ conPc'[c] = "pick"
        BY <1>1, <3>1 DEF Poll, ConsumeRead, QueueTypeOK
      <4>2. PICK i \in DOMAIN Text : m = Text[i]
        BY <1>5, <2>3, <4>1
      <4>3. QED
        BY <1>2, <4>2 DEF Carried, Parsed
    <3>2. CASE ConsumePick(c)
      <4>1. incoming'[c] = FirstStop(c) /\ seen'[c] = <<>> /\ Stops(c) # {}
        BY <1>1, <3>2 DEF ConsumePick, Found, QueueTypeOK
      <4>2. m = FirstStop(c)
        BY <1>5, <2>3, <4>1
      <4>3. QED
        BY <1>1, <4>1, <4>2, FirstStopFacts DEF Carried
    <3>3. CASE ConsumeMove(c) \/ ConsumeTruncate(c)
      <4>1. conPc[c] \in {"move", "commit", "store"} /\ seen' = seen /\ incoming' = incoming
        BY <3>3 DEF ConsumeMove, ConsumeTruncate
      <4>2. QED
        BY <1>5, <2>3, <4>1 DEF Carried
    <3>4. CASE PollEmpty(c) \/ PollRefused(c) \/ Take(c) \/ TakeFails(c)
      <4>1. conPc'[c] = "idle" /\ seen'[c] = <<>>
        BY <1>1, <3>4 DEF PollEmpty, PollRefused, Take, TakeFails, ConsumeStore, ConsumeFails, ConsumeEnds,
              QueueTypeOK
      <4>2. QED
        BY <1>5, <2>3, <4>1
    <3>5. QED
      BY <1>5, <3>1, <3>2, <3>3, <3>4 DEF PollStep, Receive
  <2>4. QED
    BY <2>2, <2>3
<1>6. ASSUME NEW d \in Consumers,
             \/ \E i \in DOMAIN seen'[d] : m = seen'[d][i]
             \/ conPc'[d] \in {"move", "commit", "store"} /\ m = incoming'[d]
      PROVE  Carried(m)
  <2>1. CASE seen'[d] = seen[d] /\ conPc'[d] = conPc[d] /\ incoming'[d] = incoming[d]
    BY <1>6, <2>1 DEF Carried
  <2>2. ASSUME NEW p \in Publishers, Answer(p) \/ Publish(p) PROVE Carried(m)
    BY <2>1, <2>2, PublishFrame DEF ConsumersRest
  <2>3. UNCHANGED queueVars => Carried(m)
    BY <2>1 DEF queueVars, conVars
  <2>4. CASE Crash
    <3>1. seen'[d] = <<>> /\ conPc'[d] = "idle"
      BY <2>4 DEF Crash, QueueCrash
    <3>2. QED
      BY <1>6, <3>1
  <2>5. CASE Restart
    BY <2>1, <2>5 DEF Restart, QueueRestart, conVars
  <2>6. ASSUME NEW c \in Consumers, PollStep(c) PROVE Carried(m)
    BY <1>5, <1>6, <2>6
  <2>7. QED
    BY <2>2, <2>3, <2>4, <2>5, <2>6, OtherFrame DEF QuestionNext
<1>7. answering \subseteq answering'
  <2>1. ASSUME NEW c \in Consumers, Ask(c) \/ Expire(c) \/ PollStep(c) PROVE answering' = answering
    BY <2>1 DEF Ask, Expire, PollStep, Poll, Receive, PollEmpty, PollRefused, Take, TakeFails, GiveUp, EndWait,
          nodeVars
  <2>2. ASSUME NEW p \in Publishers, Answer(p) \/ Publish(p) PROVE answering \subseteq answering'
    BY <2>2 DEF Answer, Publish, nodeVars
  <2>3. Crash \/ Restart \/ UNCHANGED questionVars => answering' = answering
    BY DEF Crash, Restart, questionVars, nodeVars
  <2>4. QED
    BY <2>1, <2>2, <2>3 DEF QuestionNext
<1>8. Carried(m) \/ Fresh
  <2> HIDE DEF Fresh
  <2>1. \/ \E i \in Parsed' : m = Text'[i]
        \/ \E p \in Publishers : pubPc'[p] # "idle" /\ m = outgoing'[p]
        \/ \E c \in Consumers : \/ \E i \in DOMAIN seen'[c] : m = seen'[c][i]
                                \/ conPc'[c] \in {"move", "commit", "store"} /\ m = incoming'[c]
    BY DEF Carried
  <2>2. QED
    BY <1>3, <1>4, <1>6, <2>1
<1>9. QED
  BY <1>7, <1>8

LEMMA OnceStep == BaseInv /\ OnceInv /\ [QuestionNext]_questionVars => OnceInv'
<1> SUFFICES ASSUME BaseInv, OnceInv, [QuestionNext]_questionVars PROVE OnceInv'
  OBVIOUS
<1>1. ASSUME NEW m \in Messages, Carried(m)' PROVE m.payload \in answering'
  BY <1>1, CarriedSteps DEF OnceInv
<1>2. ASSUME NEW m \in Messages, NEW n \in Messages, Carried(m)', Carried(n)', m.payload = n.payload
      PROVE  m = n
  <2>1. CASE Carried(m) /\ Carried(n)
    BY <1>2, <2>1 DEF OnceInv
  <2>2. ASSUME ~Carried(m) PROVE m = n
    <3>1. m.payload \notin answering
      BY <1>2, <2>2, CarriedSteps
    <3>2. PICK p \in Publishers : Answer(p) /\ m = outgoing'[p]
      BY <1>2, <2>2, CarriedSteps
    <3>3. ~Carried(n)
      BY <1>2, <3>1 DEF OnceInv
    <3>4. PICK q \in Publishers : Answer(q) /\ n = outgoing'[q]
      BY <1>2, <3>3, CarriedSteps
    <3>5. p = q
      BY <3>2, <3>4 DEF Answer, PublishNumber, BaseInv, QuestionTypeOK, QueueTypeOK
    <3>6. QED
      BY <3>2, <3>4, <3>5
  <2>3. ASSUME ~Carried(n) PROVE m = n
    <3>1. n.payload \notin answering
      BY <1>2, <2>3, CarriedSteps
    <3>2. ~Carried(m)
      BY <1>2, <3>1 DEF OnceInv
    <3>3. QED
      BY <2>2, <3>2
  <2>4. QED
    BY <2>1, <2>2, <2>3
<1>3. QED
  BY <1>1, <1>2 DEF OnceInv

----------------------------------------------------------------------------
(* Answers reach the node that asked.                                      *)

Settled == {pair[1] : pair \in taken}

\* An answer that was taken lies below the cursor, in memory and on disk.
SettledBelow ==
  \A m \in Messages : Carried(m) /\ m.payload \in Settled =>
    /\ up => m.seq < cursor
    /\ cursorFile # None
    /\ cursorFile # Corrupt => m.seq < cursorFile

QuestionParts ==
  /\ \A c, d \in Consumers : Waiting(c) /\ Waiting(d) => c = d
  /\ asked \subseteq Settled \union {asking[c] : c \in Consumers}
  /\ \A pair \in taken : pair[1] = pair[2]
  /\ Settled \subseteq answering
  /\ SettledBelow
  /\ cursorFile = Corrupt => \E c \in Consumers : conPc[c] = "store"
  /\ \A c \in Consumers : conPc[c] = "move" =>
       cursor <= incoming[c].seq /\ incoming[c].payload = asking[c]
  /\ \A c \in Consumers : conPc[c] \in {"commit", "store"} =>
       cursor = incoming[c].seq + 1 /\ incoming[c].payload = asking[c]

QuestionInv == ~abandoned => QuestionParts

LEMMA AbandonedStays == [QuestionNext]_questionVars => (abandoned => abandoned')
<1> SUFFICES ASSUME [QuestionNext]_questionVars, abandoned PROVE abandoned'
  OBVIOUS
<1>1. ASSUME NEW c \in Consumers, Ask(c) \/ Expire(c) \/ PollStep(c) PROVE abandoned'
  BY <1>1 DEF Ask, Expire, PollStep, Poll, Receive, PollEmpty, PollRefused, Take, TakeFails, GiveUp, nodeVars
<1>2. ASSUME NEW p \in Publishers, Answer(p) \/ Publish(p) PROVE abandoned'
  BY <1>2 DEF Answer, Publish, nodeVars
<1>3. Crash \/ Restart \/ UNCHANGED questionVars => abandoned'
  BY DEF Crash, Restart, questionVars, nodeVars
<1>4. QED
  BY <1>1, <1>2, <1>3 DEF QuestionNext

\* Where what the cursor says stays, and no answer is taken, so does SettledBelow.
LEMMA SettledStays ==
  ASSUME BaseInv, [QuestionNext]_questionVars, QuestionParts, taken' = taken,
         up' => up, cursor' = cursor, cursorFile' = cursorFile
  PROVE  SettledBelow' /\ Settled' \subseteq answering' /\ Settled' = Settled
<1>1. Settled' = Settled
  BY DEF Settled
<1>2. ASSUME NEW m \in Messages, Carried(m)', m.payload \in Settled PROVE Carried(m)
  BY <1>2, CarriedSteps DEF QuestionParts
<1>3. answering \subseteq answering'
  <2>1. ASSUME NEW c \in Consumers, Ask(c) \/ Expire(c) \/ PollStep(c) PROVE answering' = answering
    BY <2>1 DEF Ask, Expire, PollStep, Poll, Receive, PollEmpty, PollRefused, Take, TakeFails, GiveUp, EndWait,
          nodeVars
  <2>2. ASSUME NEW p \in Publishers, Answer(p) \/ Publish(p) PROVE answering \subseteq answering'
    BY <2>2 DEF Answer, Publish, nodeVars
  <2>3. Crash \/ Restart \/ UNCHANGED questionVars => answering' = answering
    BY DEF Crash, Restart, questionVars, nodeVars
  <2>4. QED
    BY <2>1, <2>2, <2>3 DEF QuestionNext
<1>4. SettledBelow'
  <2> SUFFICES ASSUME NEW m \in Messages, Carried(m)', m.payload \in Settled'
               PROVE  /\ up' => m.seq < cursor'
                      /\ cursorFile' # None
                      /\ cursorFile' # Corrupt => m.seq < cursorFile'
    BY DEF SettledBelow
  <2>1. Carried(m) /\ m.payload \in Settled
    BY <1>1, <1>2
  <2>2. /\ up => m.seq < cursor
        /\ cursorFile # None
        /\ cursorFile # Corrupt => m.seq < cursorFile
    BY <2>1 DEF QuestionParts, SettledBelow
  <2>3. QED
    BY <2>2
<1>5. QED
  BY <1>1, <1>3, <1>4 DEF QuestionParts

\* A step of the one node that waits.
LEMMA PollQuestions ==
  ASSUME BaseInv, OnceInv, [QuestionNext]_questionVars, QuestionParts, ~abandoned', NEW c \in Consumers, PollStep(c)
  PROVE  QuestionParts'
<1>1. QueueTypeOK /\ AwakeInv /\ QuestionTypeOK
  BY DEF BaseInv, QuestionTypeOK
<1>2. /\ \A d \in Consumers \ {c} : conPc'[d] = conPc[d] /\ incoming'[d] = incoming[d]
      /\ up' => up
  BY PollFrame
<1>3. Waiting(c) /\ up
  <2>1. CASE Poll(c)
    BY <2>1 DEF Poll, ConsumeRead
  <2>2. CASE ~Poll(c)
    <3>1. conPc[c] # "idle"
      BY <2>2, PollFrame
    <3>2. QED
      BY <1>1, <3>1 DEF AwakeInv
  <2>3. QED
    BY <2>1, <2>2
<1>4. \A d \in Consumers \ {c} : conPc[d] = "idle" /\ conPc'[d] = "idle"
  BY <1>1, <1>2, <1>3 DEF AwakeInv, QuestionParts
<1>5. cursor \in Nat /\ \A m \in Messages : m.seq \in Nat
  BY <1>1, QueueValues DEF QueueTypeOK
\* What a step that only moves the consumer has to keep.
<1>6. ASSUME UNCHANGED <<asking, asked, taken>>, SettledBelow', Settled' \subseteq answering',
             cursorFile' = Corrupt => conPc'[c] = "store",
             conPc'[c] = "move" => cursor' <= incoming'[c].seq /\ incoming'[c].payload = asking'[c],
             conPc'[c] \in {"commit", "store"} =>
               cursor' = incoming'[c].seq + 1 /\ incoming'[c].payload = asking'[c]
      PROVE  QuestionParts'
  <2>1. Settled' = Settled
    BY <1>6 DEF Settled
  <2>2. /\ \A d, e \in Consumers : Waiting(d)' /\ Waiting(e)' => d = e
        /\ asked' \subseteq Settled' \union {asking'[d] : d \in Consumers}
        /\ \A pair \in taken' : pair[1] = pair[2]
    BY <1>6, <2>1 DEF QuestionParts, Waiting
  <2>3. cursorFile' = Corrupt => \E d \in Consumers : conPc'[d] = "store"
    BY <1>6
  <2>4. \A d \in Consumers : conPc'[d] = "move" =>
          cursor' <= incoming'[d].seq /\ incoming'[d].payload = asking'[d]
    BY <1>4, <1>6
  <2>5. \A d \in Consumers : conPc'[d] \in {"commit", "store"} =>
          cursor' = incoming'[d].seq + 1 /\ incoming'[d].payload = asking'[d]
    BY <1>4, <1>6
  <2>6. QED
    BY <1>6, <2>2, <2>3, <2>4, <2>5 DEF QuestionParts
<1>7. cursorFile = Corrupt => conPc[c] = "store"
  BY <1>4 DEF QuestionParts
<1>8. CASE Poll(c)
  <2>1. UNCHANGED <<asking, asked, taken, cursor, cursorFile>> /\ conPc[c] = "idle" /\ conPc'[c] = "pick"
    BY <1>1, <1>8 DEF Poll, ConsumeRead, nodeVars, QueueTypeOK
  <2>2. SettledBelow' /\ Settled' \subseteq answering'
    BY <1>2, <2>1, SettledStays
  <2>3. QED
    BY <1>6, <1>7, <2>1, <2>2
<1>9. CASE ConsumePick(c) /\ UNCHANGED nodeVars
  <2>1. /\ UNCHANGED <<asking, asked, taken, cursor, cursorFile>> /\ conPc[c] = "pick" /\ conPc'[c] = "move"
        /\ incoming'[c] = FirstStop(c) /\ Stops(c) # {} /\ FirstStop(c) # Corrupt
    BY <1>1, <1>9 DEF ConsumePick, Found, nodeVars, QueueTypeOK
  <2>2. SettledBelow' /\ Settled' \subseteq answering'
    BY <1>2, <2>1, SettledStays
  <2>3. PICK k \in DOMAIN seen[c] :
          FirstStop(c) = seen[c][k] /\ seen[c][k] \in LogLines /\ seen[c][k].seq >= cursor
    BY <1>1, <2>1, FirstStopFacts
  <2>4. PICK m \in Messages : m = FirstStop(c)
    BY <2>1, <2>3 DEF LogLines
  <2>5. Carried(m) /\ cursor <= m.seq
    BY <1>5, <2>3, <2>4 DEF Carried
  <2>6. m.payload \notin Settled
    BY <1>3, <1>5, <2>5 DEF QuestionParts, SettledBelow
  <2>7. m.payload \in asked
    BY <1>1, <2>5 DEF OnceInv, QuestionTypeOK
  <2>8. m.payload # None
    BY <2>4, QueueValues, NodeAssumption
  <2>9. m.payload = asking[c]
    BY <1>3, <2>6, <2>7, <2>8 DEF QuestionParts, Waiting
  <2>10. cursorFile' # Corrupt
    BY <1>7, <2>1
  <2>11. cursor' <= incoming'[c].seq /\ incoming'[c].payload = asking'[c]
    BY <2>1, <2>4, <2>5, <2>9
  <2>12. QED
    BY <1>6, <2>1, <2>2, <2>10, <2>11
<1>10. CASE ConsumeMove(c) /\ UNCHANGED nodeVars
  <2>1. /\ UNCHANGED <<asking, asked, taken, answering, cursorFile, incoming>>
        /\ conPc[c] = "move" /\ conPc'[c] = "commit" /\ cursor' = incoming[c].seq + 1
    BY <1>1, <1>10 DEF ConsumeMove, nodeVars, QueueTypeOK
  <2>2. /\ cursor <= incoming[c].seq /\ incoming[c].payload = asking[c] /\ incoming[c].seq \in Nat
    BY <1>1, <1>5, <2>1 DEF QuestionParts, QueueTypeOK
  <2>3. Settled' = Settled /\ Settled' \subseteq answering'
    BY <2>1 DEF Settled, QuestionParts
  <2>4. SettledBelow'
    <3> SUFFICES ASSUME NEW m \in Messages, Carried(m)', m.payload \in Settled'
                 PROVE  /\ up' => m.seq < cursor'
                        /\ cursorFile' # None
                        /\ cursorFile' # Corrupt => m.seq < cursorFile'
      BY DEF SettledBelow
    <3>1. m.payload \in Settled /\ Carried(m)
      BY <2>3, CarriedSteps DEF QuestionParts
    <3>2. /\ m.seq < cursor /\ cursorFile # None
          /\ cursorFile # Corrupt => m.seq < cursorFile
      BY <1>3, <3>1 DEF QuestionParts, SettledBelow
    <3>3. m.seq < cursor'
      BY <1>5, <2>1, <2>2, <3>2
    <3>4. QED
      BY <2>1, <3>2, <3>3
  <2>5. cursorFile' # Corrupt
    BY <1>7, <2>1
  <2>6. QED
    BY <1>6, <2>1, <2>2, <2>3, <2>4, <2>5
<1>11. CASE ConsumeTruncate(c) /\ UNCHANGED nodeVars
  <2>1. /\ UNCHANGED <<asking, asked, taken, answering, cursor, incoming>> /\ cursorFile' = Corrupt
        /\ conPc[c] = "commit" /\ conPc'[c] = "store"
    BY <1>1, <1>11 DEF ConsumeTruncate, nodeVars, QueueTypeOK
  <2>2. cursor = incoming[c].seq + 1 /\ incoming[c].payload = asking[c]
    BY <2>1 DEF QuestionParts
  <2>3. Settled' = Settled /\ Settled' \subseteq answering'
    BY <2>1 DEF Settled, QuestionParts
  <2>4. SettledBelow'
    <3> SUFFICES ASSUME NEW m \in Messages, Carried(m)', m.payload \in Settled'
                 PROVE  m.seq < cursor' /\ cursorFile' # None /\ cursorFile' = Corrupt
      BY DEF SettledBelow
    <3>1. m.payload \in Settled /\ Carried(m)
      BY <2>3, CarriedSteps DEF QuestionParts
    <3>2. m.seq < cursor
      BY <1>3, <3>1 DEF QuestionParts, SettledBelow
    <3>3. QED
      BY <2>1, <3>2, QueueValues
  <2>5. QED
    BY <1>6, <2>1, <2>2, <2>3, <2>4
<1>12. CASE PollEmpty(c) \/ PollRefused(c) \/ TakeFails(c)
  <2>1. PollEmpty(c) /\ UNCHANGED nodeVars
    BY <1>12 DEF PollEmpty, PollRefused, TakeFails, GiveUp
  <2>2. UNCHANGED <<asking, asked, taken, cursor, cursorFile>> /\ conPc[c] = "pick" /\ conPc'[c] = "idle"
    BY <1>1, <2>1 DEF PollEmpty, Exhausted, ConsumeEnds, nodeVars, QueueTypeOK
  <2>3. SettledBelow' /\ Settled' \subseteq answering'
    BY <1>2, <2>2, SettledStays
  <2>4. QED
    BY <1>6, <1>7, <2>2, <2>3
<1>13. CASE Take(c)
  <2>1. /\ conPc[c] = "store" /\ cursorFile' = incoming[c].seq + 1 /\ cursor' = cursor
        /\ taken' = taken \union {<<asking[c], incoming[c].payload>>}
        /\ asking' = [asking EXCEPT ![c] = None] /\ UNCHANGED <<asked, answering>>
        /\ conPc'[c] = "idle"
    BY <1>1, <1>13 DEF Take, ConsumeStore, ConsumeEnds, EndWait, QueueTypeOK
  <2>2. /\ cursor = incoming[c].seq + 1 /\ incoming[c].payload = asking[c]
        /\ incoming[c] \in Messages /\ incoming[c].seq \in Nat /\ Carried(incoming[c])
    BY <1>1, <1>5, <2>1 DEF QuestionParts, QueueTypeOK, Carried
  <2>3. Settled' = Settled \union {asking[c]}
    <3>1. <<asking[c], incoming[c].payload>>[1] = asking[c]
      OBVIOUS
    <3>2. \A q : q \in Settled' <=> q \in Settled \/ q = asking[c]
      BY <2>1, <3>1 DEF Settled
    <3>3. QED
      BY <3>2
  <2>4. asking[c] \in answering /\ Settled' \subseteq answering'
    BY <2>1, <2>2, <2>3 DEF OnceInv, QuestionParts
  <2>5. SettledBelow'
    <3> SUFFICES ASSUME NEW m \in Messages, Carried(m)', m.payload \in Settled'
                 PROVE  m.seq < cursor' /\ cursorFile' = cursor' /\ cursorFile' # None
      BY DEF SettledBelow
    <3>1. Carried(m)
      <4>1. m.payload \in answering
        BY <2>1, <2>4
      <4>2. QED
        BY <4>1, CarriedSteps
    <3>2. CASE m.payload \in Settled
      BY <1>3, <2>1, <2>2, <3>1, <3>2, QueueValues DEF QuestionParts, SettledBelow
    <3>3. CASE m.payload = asking[c]
      <4>1. m = incoming[c]
        BY <2>2, <3>1, <3>3 DEF OnceInv
      <4>2. QED
        BY <2>1, <2>2, <4>1, QueueValues
    <3>4. QED
      BY <2>3, <3>2, <3>3
  <2>6. \A d \in Consumers : ~Waiting(d)'
    BY <1>1, <1>3, <2>1 DEF Waiting, QuestionParts, QuestionTypeOK
  <2>7. asked' \subseteq Settled' \union {asking'[d] : d \in Consumers}
    <3>1. \A d \in Consumers : asking[d] = None \/ asking[d] = asking[c]
      BY <1>3 DEF Waiting, QuestionParts
    <3>2. asked \subseteq Settled'
      BY <1>1, <2>3, <3>1, NodeAssumption DEF QuestionParts, QuestionTypeOK
    <3>3. QED
      BY <2>1, <3>2
  <2>8. \A pair \in taken' : pair[1] = pair[2]
    BY <2>1, <2>2 DEF QuestionParts
  <2>9. cursorFile' # Corrupt /\ \A d \in Consumers : conPc'[d] = "idle"
    BY <1>4, <2>1, <2>2, QueueValues
  <2>10. QED
    BY <2>4, <2>5, <2>6, <2>7, <2>8, <2>9 DEF QuestionParts
<1>14. QED
  BY <1>8, <1>9, <1>10, <1>11, <1>12, <1>13 DEF PollStep, Receive

LEMMA QuestionStep ==
  ASSUME BaseInv, OnceInv, [QuestionNext]_questionVars, QuestionParts, ~abandoned'
  PROVE  QuestionParts'
<1>1. QueueTypeOK /\ AwakeInv /\ QuestionTypeOK
  BY DEF BaseInv, QuestionTypeOK
<1>2. \A c \in Consumers : conPc[c] \in {"move", "commit", "store"} =>
        incoming[c] \in Messages /\ incoming[c].seq \in Nat /\ Carried(incoming[c])
  BY <1>1, QueueValues DEF QueueTypeOK, Carried
\* The queue's part, where nobody moves.
<1>3. ASSUME NEW c \in Consumers, Ask(c) PROVE QuestionParts'
  <2>1. PICK q \in Payloads \ asked : asking' = [asking EXCEPT ![c] = q] /\ asked' = asked \union {q}
    BY <1>3 DEF Ask
  <2>2. UNCHANGED queueVars /\ UNCHANGED <<taken, answering>> /\ \A d \in Consumers : ~Waiting(d)
    BY <1>3 DEF Ask
  <2>3. \A d \in Consumers : conPc[d] = "idle" /\ conPc'[d] = "idle"
    BY <1>1, <2>2 DEF AwakeInv, queueVars, conVars
  <2>4. UNCHANGED <<up, cursor, cursorFile>>
    BY <2>2 DEF queueVars
  <2>5. SettledBelow' /\ Settled' \subseteq answering' /\ Settled' = Settled
    BY <2>2, <2>4, SettledStays
  <2>6. \A d, e \in Consumers : Waiting(d)' /\ Waiting(e)' => d = e
    BY <1>1, <2>1, <2>2 DEF Waiting, QuestionTypeOK
  <2>7. asked' \subseteq Settled' \union {asking'[d] : d \in Consumers}
    <3>1. asked \subseteq Settled
      <4> SUFFICES ASSUME NEW r \in asked PROVE r \in Settled
        OBVIOUS
      <4>1. r # None
        BY <1>1, NodeAssumption DEF QuestionTypeOK
      <4>2. QED
        BY <2>2, <4>1 DEF QuestionParts, Waiting
    <3>2. asking'[c] = q
      BY <1>1, <2>1 DEF QuestionTypeOK
    <3>3. QED
      BY <2>1, <2>5, <3>1, <3>2
  <2>8. cursorFile' # Corrupt
    BY <2>3, <2>4 DEF QuestionParts
  <2>9. \A pair \in taken' : pair[1] = pair[2]
    BY <2>2 DEF QuestionParts
  <2>10. QED
    BY <2>3, <2>5, <2>6, <2>7, <2>8, <2>9 DEF QuestionParts
\* Steps that leave the nodes, and the consumers' hands, alone.
<1>4. ASSUME UNCHANGED <<asking, asked, taken, up, cursor, cursorFile, conPc, incoming>>
      PROVE  QuestionParts'
  <2>1. SettledBelow' /\ Settled' \subseteq answering' /\ Settled' = Settled
    BY <1>4, SettledStays
  <2>2. /\ \A c, d \in Consumers : Waiting(c)' /\ Waiting(d)' => c = d
        /\ asked' \subseteq Settled' \union {asking'[c] : c \in Consumers}
        /\ \A pair \in taken' : pair[1] = pair[2]
    BY <1>4, <2>1 DEF QuestionParts, Waiting
  <2>3. cursorFile' = Corrupt => \E c \in Consumers : conPc'[c] = "store"
    BY <1>4 DEF QuestionParts
  <2>4. \A c \in Consumers : conPc'[c] = "move" =>
          cursor' <= incoming'[c].seq /\ incoming'[c].payload = asking'[c]
    BY <1>4 DEF QuestionParts
  <2>5. \A c \in Consumers : conPc'[c] \in {"commit", "store"} =>
          cursor' = incoming'[c].seq + 1 /\ incoming'[c].payload = asking'[c]
    BY <1>4 DEF QuestionParts
  <2>6. QED
    BY <2>1, <2>2, <2>3, <2>4, <2>5 DEF QuestionParts
<1>5. ASSUME NEW c \in Consumers, Expire(c) PROVE QuestionParts'
  BY <1>4, <1>5 DEF Expire, queueVars, conVars
<1>6. ASSUME NEW p \in Publishers, Answer(p) \/ Publish(p) PROVE QuestionParts'
  <2>1. UNCHANGED <<asking, asked, taken>>
    BY <1>6 DEF Answer, Publish, nodeVars
  <2>2. up' = up /\ UNCHANGED <<cursor, cursorFile, conPc, incoming>>
    BY <1>6, PublishFrame DEF ConsumersRest
  <2>3. QED
    BY <1>4, <2>1, <2>2
<1>7. ASSUME UNCHANGED questionVars PROVE QuestionParts'
  BY <1>4, <1>7 DEF questionVars, queueVars, conVars, nodeVars
<1>8. CASE Crash
  <2>1. /\ \A c \in Consumers : ~Waiting(c)
        /\ asking' = [c \in Consumers |-> None] /\ UNCHANGED <<asked, taken, answering, cursorFile>>
        /\ ~up' /\ \A c \in Consumers : conPc'[c] = "idle"
    BY <1>8 DEF Crash, QueueCrash
  <2>2. asking' = asking
    BY <1>1, <2>1 DEF Waiting, QuestionTypeOK
  <2>3. Settled' = Settled /\ Settled' \subseteq answering'
    BY <2>1 DEF Settled, QuestionParts
  <2>4. \A c \in Consumers : conPc[c] = "idle"
    BY <1>1, <2>1 DEF AwakeInv
  <2>5. cursorFile # Corrupt
    BY <2>4 DEF QuestionParts
  <2>6. SettledBelow'
    <3> SUFFICES ASSUME NEW m \in Messages, Carried(m)', m.payload \in Settled'
                 PROVE  /\ cursorFile' # None
                        /\ cursorFile' # Corrupt => m.seq < cursorFile'
      BY <2>1 DEF SettledBelow
    <3>1. m.payload \in Settled /\ Carried(m)
      BY <2>3, CarriedSteps DEF QuestionParts
    <3>2. QED
      BY <2>1, <3>1 DEF QuestionParts, SettledBelow
  <2>7. QED
    BY <2>1, <2>2, <2>3, <2>5, <2>6 DEF QuestionParts, Waiting
<1>9. CASE Restart
  <2>1. /\ ~up /\ cursorFile # Corrupt /\ cursor' = IF cursorFile = None THEN 0 ELSE cursorFile
        /\ UNCHANGED <<asking, asked, taken, answering, cursorFile, conPc, incoming>>
    BY <1>9 DEF Restart, QueueRestart, conVars, nodeVars
  <2>2. Settled' = Settled /\ Settled' \subseteq answering'
    BY <2>1 DEF Settled, QuestionParts
  <2>3. \A c \in Consumers : conPc'[c] = "idle"
    BY <1>1, <2>1 DEF AwakeInv
  <2>4. SettledBelow'
    <3> SUFFICES ASSUME NEW m \in Messages, Carried(m)', m.payload \in Settled'
                 PROVE  m.seq < cursor' /\ cursorFile' # None /\ m.seq < cursorFile'
      BY DEF SettledBelow
    <3>1. m.payload \in Settled /\ Carried(m)
      BY <2>2, CarriedSteps DEF QuestionParts
    <3>2. cursorFile # None /\ m.seq < cursorFile
      BY <2>1, <3>1 DEF QuestionParts, SettledBelow
    <3>3. QED
      BY <2>1, <3>2
  <2>5. QED
    BY <2>1, <2>2, <2>3, <2>4 DEF QuestionParts, Waiting
<1>10. QED
  BY <1>3, <1>5, <1>6, <1>7, <1>8, <1>9, PollQuestions DEF QuestionNext

\* A node takes the answer to its own question, although nothing in the answer
\* says so, as long as no question was given up before and no two nodes waited
\* at once.
THEOREM AnswersReachTheirQuestion == QuestionSpec => []AnswerMatches
<1>1. QuestionInit => OnceInv /\ QuestionInv
  <2> SUFFICES ASSUME QuestionInit PROVE OnceInv /\ QuestionInv
    OBVIOUS
  <2>1. /\ Text = <<>> /\ \A p \in Publishers : pubPc[p] = "idle"
        /\ \A c \in Consumers : conPc[c] = "idle" /\ seen[c] = <<>> /\ ~Waiting(c)
        /\ asked = {} /\ taken = {} /\ cursorFile = None
    BY DEF QuestionInit, QueueInit, Text, Waiting
  <2>2. \A m \in Messages : ~Carried(m)
    BY <2>1 DEF Carried, Parsed
  <2>3. Settled = {}
    BY <2>1 DEF Settled
  <2>4. QED
    BY <2>1, <2>2, <2>3, QueueValues DEF OnceInv, QuestionInv, QuestionParts, SettledBelow
<1>2. BaseInv /\ OnceInv /\ QuestionInv /\ [QuestionNext]_questionVars => QuestionInv'
  BY AbandonedStays, QuestionStep DEF QuestionInv
<1>3. QuestionInv => AnswerMatches
  BY DEF QuestionInv, QuestionParts, AnswerMatches
<1>4. QuestionInit => BaseInv
  BY BaseInit
<1>5. BaseInv /\ OnceInv /\ QuestionInv /\ [QuestionNext]_questionVars => BaseInv' /\ OnceInv' /\ QuestionInv'
  BY <1>2, BaseStep, OnceStep
<1>6. QED
  BY <1>1, <1>3, <1>4, <1>5, PTL DEF QuestionSpec

----------------------------------------------------------------------------
(* The stream's frames.                                                    *)

\* The last frame of each stream in F is the last that stream has sent.
Tops(F, n) ==
  \A i \in DOMAIN F :
    /\ F[i] # End
    /\ \A k \in (i + 1)..Len(F) : ~SameStream(F[i], F[k])
    => n[F[i][1]] = F[i][2] + 1

\* A stretch of a consecutive sequence is consecutive.
LEMMA StretchConsecutive ==
  ASSUME NEW S, NEW F \in Seq(S), NEW G \in Seq(S), NEW n \in Nat,
         n + Len(G) <= Len(F), \A i \in 1..Len(G) : G[i] = F[n + i],
         Consecutive(F)
  PROVE  Consecutive(G)
<1>1. DOMAIN F = 1..Len(F) /\ DOMAIN G = 1..Len(G) /\ Len(F) \in Nat /\ Len(G) \in Nat
  OBVIOUS
<1>2. SUFFICES ASSUME NEW i \in 1..Len(G), NEW j \in 1..Len(G),
                      i < j, SameStream(G[i], G[j]),
                      \A k \in (i + 1)..(j - 1) : ~SameStream(G[i], G[k])
               PROVE  G[j][2] = G[i][2] + 1
  BY <1>1 DEF Consecutive
<1>3. n + i \in 1..Len(F) /\ n + j \in 1..Len(F) /\ n + i < n + j
  BY <1>1, <1>2
<1>4. G[i] = F[n + i] /\ G[j] = F[n + j]
  OBVIOUS
<1>5. ASSUME NEW k \in (n + i + 1)..(n + j - 1) PROVE ~SameStream(F[n + i], F[k])
  <2>1. k - n \in (i + 1)..(j - 1) /\ k - n \in 1..Len(G) /\ n + (k - n) = k
    BY <1>1, <1>2, <1>5
  <2>2. G[k - n] = F[k]
    BY <2>1
  <2>3. QED
    BY <2>1, <2>2, <1>2, <1>4
<1>6. F[n + j][2] = F[n + i][2] + 1
  <2> DEFINE a == n + i
             b == n + j
  <2>1. /\ a \in DOMAIN F /\ b \in DOMAIN F /\ a < b /\ SameStream(F[a], F[b])
        /\ \A k \in (a + 1)..(b - 1) : ~SameStream(F[a], F[k])
    BY <1>1, <1>2, <1>3, <1>4, <1>5
  <2> HIDE DEF a, b
  <2>2. F[b][2] = F[a][2] + 1
    BY <2>1 DEF Consecutive
  <2>3. QED
    BY <2>2 DEF a, b
<1>7. QED
  BY <1>4, <1>6

\* The rest of a sequence keeps its last frames.
LEMMA RestTops ==
  ASSUME NEW S, NEW F \in Seq(S), NEW G \in Seq(S), NEW n \in Nat, NEW top,
         n + Len(G) = Len(F), \A i \in 1..Len(G) : G[i] = F[n + i],
         Tops(F, top)
  PROVE  Tops(G, top)
<1>1. DOMAIN F = 1..Len(F) /\ DOMAIN G = 1..Len(G) /\ Len(F) \in Nat /\ Len(G) \in Nat
  OBVIOUS
<1>2. SUFFICES ASSUME NEW i \in 1..Len(G), G[i] # End,
                      \A k \in (i + 1)..Len(G) : ~SameStream(G[i], G[k])
               PROVE  top[G[i][1]] = G[i][2] + 1
  BY <1>1 DEF Tops
<1>3. n + i \in 1..Len(F) /\ G[i] = F[n + i]
  BY <1>1, <1>2
<1>4. ASSUME NEW k \in (n + i + 1)..Len(F) PROVE ~SameStream(F[n + i], F[k])
  <2>1. k - n \in (i + 1)..Len(G) /\ k - n \in 1..Len(G) /\ n + (k - n) = k
    BY <1>1, <1>2, <1>4
  <2>2. G[k - n] = F[k]
    BY <2>1
  <2>3. QED
    BY <2>1, <2>2, <1>2, <1>3
<1>5. QED
  BY <1>1, <1>2, <1>3, <1>4 DEF Tops

\* The next frame of a stream continues it.
LEMMA NextFrame ==
  ASSUME NEW F \in Seq(Frames \union {End}), NEW top \in [Streams -> Nat],
         NEW s \in Streams, top[s] \in 0..Chunks,
         Consecutive(F), Tops(F, top)
  PROVE  /\ Consecutive(Append(F, <<s, top[s]>>))
         /\ Tops(Append(F, <<s, top[s]>>), [top EXCEPT ![s] = @ + 1])
<1> DEFINE x == <<s, top[s]>>
           G == Append(F, x)
           new == [top EXCEPT ![s] = @ + 1]
<1>1. Len(F) \in Nat /\ DOMAIN F = 1..Len(F)
  OBVIOUS
<1>2. x \in Frames /\ x # End
  BY StreamAssumption DEF Frames
<1>3. x[1] = s /\ x[2] = top[s]
  OBVIOUS
<1>4. G \in Seq(Frames \union {End}) /\ Len(G) = Len(F) + 1 /\ DOMAIN G = 1..(Len(F) + 1)
  BY <1>2
<1>5. G[Len(F) + 1] = x
  BY <1>1
<1>6. \A i \in 1..Len(F) : G[i] = F[i]
  BY <1>1
<1>7. \A i \in 1..Len(F) : F[i] = End \/ F[i] \in Frames
  BY <1>1
<1> HIDE DEF x, G
<1>8. Consecutive(G)
  <2>1. SUFFICES ASSUME NEW i \in 1..(Len(F) + 1), NEW j \in 1..(Len(F) + 1),
                        i < j, SameStream(G[i], G[j]),
                        \A k \in (i + 1)..(j - 1) : ~SameStream(G[i], G[k])
                 PROVE  G[j][2] = G[i][2] + 1
    BY <1>4 DEF Consecutive
  <2>2. i \in 1..Len(F) /\ G[i] = F[i]
    BY <2>1, <1>1, <1>6
  <2>3. \A k \in (i + 1)..(j - 1) : k \in 1..Len(F) /\ G[k] = F[k]
    BY <2>1, <1>1, <1>6
  <2>4. \A k \in (i + 1)..(j - 1) : ~SameStream(F[i], F[k])
    BY <2>1, <2>2, <2>3
  <2>5. CASE j \in 1..Len(F)
    <3>1. G[j] = F[j]
      BY <2>5, <1>6
    <3>2. F[j][2] = F[i][2] + 1
      BY <2>1, <2>2, <2>4, <2>5, <3>1, <1>1 DEF Consecutive
    <3>3. QED
      BY <3>1, <3>2, <2>2
  <2>6. CASE j = Len(F) + 1
    <3>1. G[j] = x
      BY <2>6, <1>5
    <3>2. F[i] # End /\ F[i][1] = s
      BY <2>1, <2>2, <3>1, <1>3 DEF SameStream
    <3>3. \A k \in (i + 1)..Len(F) : ~SameStream(F[i], F[k])
      BY <2>4, <2>6, <1>1
    <3>4. top[F[i][1]] = F[i][2] + 1
      BY <2>2, <3>2, <3>3, <1>1 DEF Tops
    <3>5. QED
      BY <3>1, <3>2, <3>4, <2>2, <1>3
  <2>7. QED
    BY <2>1, <2>5, <2>6, <1>1
<1>9. Tops(G, new)
  <2>1. SUFFICES ASSUME NEW i \in 1..(Len(F) + 1), G[i] # End,
                        \A k \in (i + 1)..(Len(F) + 1) : ~SameStream(G[i], G[k])
                 PROVE  new[G[i][1]] = G[i][2] + 1
    BY <1>4 DEF Tops
  <2>2. CASE i = Len(F) + 1
    BY <2>2, <1>3, <1>5
  <2>3. CASE i \in 1..Len(F)
    <3>1. G[i] = F[i] /\ F[i] # End /\ F[i] \in Frames
      BY <2>1, <2>3, <1>6, <1>7
    <3>2. \A k \in (i + 1)..Len(F) : ~SameStream(F[i], F[k])
      BY <2>1, <2>3, <3>1, <1>1, <1>6
    <3>3. ~SameStream(F[i], x)
      BY <2>1, <2>3, <3>1, <1>1, <1>5
    <3>4. F[i][1] # s
      BY <3>1, <3>3, <1>2, <1>3 DEF SameStream
    <3>5. top[F[i][1]] = F[i][2] + 1
      BY <2>3, <3>1, <3>2, <1>1 DEF Tops
    <3>6. F[i][1] \in Streams
      BY <3>1 DEF Frames
    <3>7. new[F[i][1]] = top[F[i][1]]
      BY <3>4, <3>6
    <3>8. QED
      BY <3>1, <3>5, <3>7
  <2>4. QED
    BY <2>1, <2>2, <2>3, <1>1
<1>10. QED
  BY <1>8, <1>9 DEF x, G

\* The end frame is of no stream.
LEMMA EndFrame ==
  ASSUME NEW F \in Seq(Frames \union {End}), NEW top, Consecutive(F), Tops(F, top)
  PROVE  Consecutive(Append(F, End)) /\ Tops(Append(F, End), top)
<1> DEFINE G == Append(F, End)
<1>1. Len(F) \in Nat /\ DOMAIN F = 1..Len(F)
  OBVIOUS
<1>2. Len(G) = Len(F) + 1 /\ DOMAIN G = 1..(Len(F) + 1)
  OBVIOUS
<1>3. G[Len(F) + 1] = End
  BY <1>1
<1>4. \A i \in 1..Len(F) : G[i] = F[i]
  BY <1>1
<1> HIDE DEF G
<1>5. Consecutive(G)
  <2>1. SUFFICES ASSUME NEW i \in 1..(Len(F) + 1), NEW j \in 1..(Len(F) + 1),
                        i < j, SameStream(G[i], G[j]),
                        \A k \in (i + 1)..(j - 1) : ~SameStream(G[i], G[k])
                 PROVE  G[j][2] = G[i][2] + 1
    BY <1>2 DEF Consecutive
  <2>2. i \in 1..Len(F) /\ j \in 1..Len(F)
    BY <2>1, <1>1, <1>3 DEF SameStream
  <2>3. G[i] = F[i] /\ G[j] = F[j]
    BY <2>2, <1>4
  <2>4. \A k \in (i + 1)..(j - 1) : k \in 1..Len(F) /\ G[k] = F[k]
    BY <2>2, <1>1, <1>4
  <2>5. QED
    BY <2>1, <2>2, <2>3, <2>4, <1>1 DEF Consecutive
<1>6. Tops(G, top)
  <2>1. SUFFICES ASSUME NEW i \in 1..(Len(F) + 1), G[i] # End,
                        \A k \in (i + 1)..(Len(F) + 1) : ~SameStream(G[i], G[k])
                 PROVE  top[G[i][1]] = G[i][2] + 1
    BY <1>2 DEF Tops
  <2>2. i \in 1..Len(F) /\ G[i] = F[i]
    BY <2>1, <1>1, <1>3, <1>4
  <2>3. \A k \in (i + 1)..Len(F) : ~SameStream(F[i], F[k])
    BY <2>1, <2>2, <1>1, <1>4
  <2>4. QED
    BY <2>1, <2>2, <2>3, <1>1 DEF Tops
<1>7. QED
  BY <1>5, <1>6 DEF G

----------------------------------------------------------------------------
(* Sequences put together.                                                 *)

LEMMA EmptyConcat ==
  ASSUME NEW S, NEW F \in Seq(S)
  PROVE  F \o <<>> = F /\ <<>> \o F = F
OBVIOUS

LEMMA AppendConcat ==
  ASSUME NEW S, NEW F \in Seq(S), NEW G \in Seq(S), NEW x \in S
  PROVE  F \o Append(G, x) = Append(F \o G, x)
<1> DEFINE H == F \o Append(G, x)
           K == Append(F \o G, x)
<1>1. H \in Seq(S) /\ K \in Seq(S) /\ Len(H) = Len(F) + Len(G) + 1 /\ Len(K) = Len(H)
  OBVIOUS
<1>2. ASSUME NEW i \in 1..Len(H) PROVE H[i] = K[i]
  BY <1>1
<1> HIDE DEF H, K
<1>3. QED
  BY <1>1, <1>2, SeqEqual DEF H, K

LEMMA TakeConcat ==
  ASSUME NEW S, NEW F \in Seq(S), NEW G \in Seq(S), G # <<>>
  PROVE  /\ Head(G) \in S /\ Tail(G) \in Seq(S) /\ Len(Tail(G)) = Len(G) - 1
         /\ \A i \in 1..Len(Tail(G)) : Tail(G)[i] = G[1 + i]
         /\ Append(F, Head(G)) \o Tail(G) = F \o G
<1>1. Len(G) \in Nat /\ Len(G) > 0 /\ Head(G) = G[1] /\ Head(G) \in S
  OBVIOUS
<1>2. Tail(G) \in Seq(S) /\ Len(Tail(G)) = Len(G) - 1
  BY <1>1
<1>3. \A i \in 1..Len(Tail(G)) : Tail(G)[i] = G[1 + i]
  BY <1>1, <1>2
<1> DEFINE A == Append(F, Head(G))
           H == A \o Tail(G)
           K == F \o G
<1>4. A \in Seq(S) /\ Len(A) = Len(F) + 1 /\ A[Len(F) + 1] = G[1]
  BY <1>1
<1>5. \A i \in 1..Len(F) : A[i] = F[i]
  BY <1>1
<1> HIDE DEF A
<1>6. H \in Seq(S) /\ K \in Seq(S) /\ Len(H) = Len(F) + Len(G) /\ Len(K) = Len(H)
  BY <1>1, <1>2, <1>4
<1>7. ASSUME NEW i \in 1..Len(H) PROVE H[i] = K[i]
  <2>1. CASE i <= Len(F)
    <3>1. H[i] = A[i]
      BY <2>1, <1>2, <1>4, <1>6, <1>7
    <3>2. K[i] = F[i]
      BY <2>1, <1>6, <1>7
    <3>3. QED
      BY <3>1, <3>2, <2>1, <1>5
  <2>2. CASE i = Len(F) + 1
    <3>1. H[i] = A[i]
      BY <2>2, <1>2, <1>4, <1>6, <1>7
    <3>2. K[i] = G[1]
      BY <2>2, <1>1, <1>6, <1>7
    <3>3. QED
      BY <3>1, <3>2, <2>2, <1>4
  <2>3. CASE i > Len(F) + 1
    <3>1. i - (Len(F) + 1) \in 1..Len(Tail(G))
      BY <2>3, <1>1, <1>2, <1>6, <1>7
    <3>2. H[i] = Tail(G)[i - Len(A)]
      <4> DEFINE T == Tail(G)
      <4>1. T \in Seq(S) /\ i \in 1..(Len(A) + Len(T)) /\ i > Len(A)
        BY <2>3, <1>1, <1>2, <1>4, <1>6, <1>7
      <4> HIDE DEF T
      <4>2. (A \o T)[i] = T[i - Len(A)]
        BY <4>1, <1>4
      <4>3. QED
        BY <4>2 DEF T
    <3>3. K[i] = G[i - Len(F)]
      BY <2>3, <1>1, <1>6, <1>7
    <3>4. QED
      BY <3>1, <3>2, <3>3, <1>3, <1>4
  <2>4. QED
    BY <2>1, <2>2, <2>3, <1>6, <1>7
<1> HIDE DEF H, K
<1>8. H = K
  BY <1>6, <1>7, SeqEqual
<1>9. QED
  BY <1>1, <1>2, <1>3, <1>8 DEF A, H, K

----------------------------------------------------------------------------
(* Types.                                                                  *)

\* What the actions add to the types.
StreamTypes ==
  /\ StreamTypeOK
  /\ \A s \in Streams : pc[s] \in {"idle", "read", "check", "send"} => sent[s] <= Chunks
  /\ \A s \in Streams : pc[s] \in {"send", "mark", "end"} => tries[s] < MaxTries

LEMMA StreamInitTypes == StreamInit => StreamTypes
<1> SUFFICES ASSUME StreamInit PROVE StreamTypes
  OBVIOUS
<1>1. 0 \in 0..Chunks /\ 0 \in 0..ChanCap /\ 0 \in 0..(Chunks + 1) /\ 0 \in 0..MaxTries
      /\ 0 < MaxTries /\ 0 <= Chunks /\ 0 <= QueueCap
  BY StreamAssumption
<1>2. <<>> \in Seq(Frames \union {End}) /\ <<>> \in Seq(Frames) /\ Len(<<>>) = 0
  OBVIOUS
<1>3. QED
  BY <1>1, <1>2 DEF StreamInit, StreamTypes, StreamTypeOK

LEMMA StreamNextTypes == StreamTypes /\ [StreamNext]_channelVars => StreamTypes'
<1> SUFFICES ASSUME StreamTypes, [StreamNext]_channelVars PROVE StreamTypes'
  OBVIOUS
<1> USE StreamAssumption
<1> DEFINE Goal == StreamTypes'
<1>0. /\ pc \in [Streams -> {"idle", "read", "check", "send", "close", "mark", "end", "ended"}]
      /\ failed \in [Streams -> BOOLEAN]
      /\ tries \in [Streams -> 0..MaxTries]
      /\ \A s \in Streams : pc[s] \in {"idle", "read", "check", "send"} => sent[s] <= Chunks
      /\ \A s \in Streams : pc[s] \in {"send", "mark", "end"} => tries[s] < MaxTries
  BY DEF StreamTypes, StreamTypeOK
<1>1. ASSUME NEW s \in Streams, Start(s) PROVE Goal
  <2>1. pc[s] = "idle" /\ tries' = tries /\ sent' = sent
    BY <1>1 DEF Start
  <2>2. \/ pc' = [pc EXCEPT ![s] = "read"] /\ failed' = failed
        \/ pc' = [pc EXCEPT ![s] = "close"] /\ failed' = [failed EXCEPT ![s] = TRUE]
    BY <1>1 DEF Start, Proceed, Fail, Goto
  <2>3. pc' \in [Streams -> {"idle", "read", "check", "send", "close", "mark", "end", "ended"}]
    BY <2>2, <1>0
  <2>4. failed' \in [Streams -> BOOLEAN]
    BY <2>2, <1>0
  <2>5. tries' \in [Streams -> 0..MaxTries]
    BY <2>1, <1>0
  <2>6. \A t \in Streams :
          pc'[t] \in {"idle", "read", "check", "send"} => sent'[t] <= Chunks
    BY <2>1, <2>2, <1>0
  <2>7. \A t \in Streams : pc'[t] \in {"send", "mark", "end"} => tries'[t] < MaxTries
    BY <2>1, <2>2, <1>0
  <2>8. provider' \in [Streams -> {"idle", "live", "done", "error", "aborted"}]
    BY <1>1 DEF Start, StreamTypes, StreamTypeOK
  <2>9. QED
    BY <1>1, <2>3, <2>4, <2>5, <2>6, <2>7, <2>8
       DEF Start, StreamTypes, StreamTypeOK, readerVars
<1>2. ASSUME NEW s \in Streams, Provide(s) PROVE Goal
  <2>1. made' \in [Streams -> 0..Chunks]
    <3>1. made \in [Streams -> 0..Chunks]
      BY DEF StreamTypes, StreamTypeOK
    <3>2. made[s] < Chunks /\ made' = [made EXCEPT ![s] = @ + 1]
      BY <1>2 DEF Provide
    <3>3. made[s] + 1 \in 0..Chunks
      BY <3>1, <3>2
    <3>4. QED
      BY <3>1, <3>2, <3>3
  <2>2. chan' \in [Streams -> 0..ChanCap]
    <3>1. chan[s] \in 0..ChanCap /\ (Listening(s) => chan[s] + 1 \in 0..ChanCap)
      BY <1>2 DEF Provide, StreamTypes, StreamTypeOK
    <3>2. QED
      BY <1>2, <3>1 DEF Provide, StreamTypes, StreamTypeOK
  <2>3. QED
    BY <1>2, <2>1, <2>2 DEF Provide, StreamTypes, StreamTypeOK, streamVars, readerVars, marks
<1>3. ASSUME NEW s \in Streams, ProviderEnds(s) PROVE Goal
  BY <1>3 DEF ProviderEnds, StreamTypes, StreamTypeOK, streamVars, readerVars, marks
<1>4. ASSUME NEW s \in Streams, ReceiveChunk(s) PROVE Goal
  <2>1. pc[s] = "read" /\ tries' = tries /\ sent' = sent
    BY <1>4 DEF ReceiveChunk
  <2>2. \/ pc' = [pc EXCEPT ![s] = "check"] /\ failed' = failed
        \/ pc' = [pc EXCEPT ![s] = "close"] /\ failed' = [failed EXCEPT ![s] = TRUE]
    BY <1>4 DEF ReceiveChunk, Proceed, Fail, Goto
  <2>3. pc' \in [Streams -> {"idle", "read", "check", "send", "close", "mark", "end", "ended"}]
    BY <2>2, <1>0
  <2>4. failed' \in [Streams -> BOOLEAN]
    BY <2>2, <1>0
  <2>5. tries' \in [Streams -> 0..MaxTries]
    BY <2>1, <1>0
  <2>6. \A t \in Streams :
          pc'[t] \in {"idle", "read", "check", "send"} => sent'[t] <= Chunks
    BY <2>1, <2>2, <1>0
  <2>7. \A t \in Streams : pc'[t] \in {"send", "mark", "end"} => tries'[t] < MaxTries
    BY <2>1, <2>2, <1>0
  <2>8. provider' \in [Streams -> {"idle", "live", "done", "error", "aborted"}]
    BY <1>4 DEF ReceiveChunk, StreamTypes, StreamTypeOK
  <2>9. chan' \in [Streams -> 0..ChanCap]
    BY <1>4 DEF ReceiveChunk, StreamTypes, StreamTypeOK
  <2>10. QED
    BY <1>4, <2>3, <2>4, <2>5, <2>6, <2>7, <2>8, <2>9
       DEF ReceiveChunk, StreamTypes, StreamTypeOK, readerVars, marks
<1>5. ASSUME NEW s \in Streams, ReceiveEnd(s) PROVE Goal
  <2>1. pc[s] = "read" /\ tries' = tries /\ sent' = sent
    BY <1>5 DEF ReceiveEnd
  <2>2. \/ pc' = [pc EXCEPT ![s] = "check"] /\ failed' = failed
        \/ pc' = [pc EXCEPT ![s] = "close"] /\ failed' = [failed EXCEPT ![s] = TRUE]
    BY <1>5 DEF ReceiveEnd, Proceed, Fail, Goto
  <2>3. pc' \in [Streams -> {"idle", "read", "check", "send", "close", "mark", "end", "ended"}]
    BY <2>2, <1>0
  <2>4. failed' \in [Streams -> BOOLEAN]
    BY <2>2, <1>0
  <2>5. tries' \in [Streams -> 0..MaxTries]
    BY <2>1, <1>0
  <2>6. \A t \in Streams :
          pc'[t] \in {"idle", "read", "check", "send"} => sent'[t] <= Chunks
    BY <2>1, <2>2, <1>0
  <2>7. \A t \in Streams : pc'[t] \in {"send", "mark", "end"} => tries'[t] < MaxTries
    BY <2>1, <2>2, <1>0
  <2>8. QED
    BY <1>5, <2>3, <2>4, <2>5, <2>6, <2>7
       DEF ReceiveEnd, StreamTypes, StreamTypeOK, providerVars, readerVars, marks
<1>6. ASSUME NEW s \in Streams, Emit(s) PROVE Goal
  <2>1. pc[s] = "check" /\ tries' = [tries EXCEPT ![s] = 0] /\ sent' = sent
    BY <1>6 DEF Emit
  <2>2. \/ pc' = [pc EXCEPT ![s] = "send"] /\ failed' = failed
        \/ pc' = [pc EXCEPT ![s] = "close"] /\ failed' = [failed EXCEPT ![s] = TRUE]
    BY <1>6 DEF Emit, Fail, Goto
  <2>3. pc' \in [Streams -> {"idle", "read", "check", "send", "close", "mark", "end", "ended"}]
    BY <2>2, <1>0
  <2>4. failed' \in [Streams -> BOOLEAN]
    BY <2>2, <1>0
  <2>5. tries' \in [Streams -> 0..MaxTries]
    BY <2>1, <1>0
  <2>6. \A t \in Streams :
          pc'[t] \in {"idle", "read", "check", "send"} => sent'[t] <= Chunks
    BY <2>1, <2>2, <1>0
  <2>7. \A t \in Streams : pc'[t] \in {"send", "mark", "end"} => tries'[t] < MaxTries
    BY <2>1, <2>2, <1>0
  <2>8. QED
    BY <1>6, <2>3, <2>4, <2>5, <2>6, <2>7
       DEF Emit, StreamTypes, StreamTypeOK, providerVars, readerVars, marks
<1>7. ASSUME NEW s \in Streams, SendFrame(s) PROVE Goal
  <2>1. <<s, sent[s]>> \in Frames /\ sent[s] + 1 \in 0..(Chunks + 1)
        /\ (sent[s] # Chunks => sent[s] + 1 <= Chunks)
    <3>1. pc[s] = "send"
      BY <1>7 DEF SendFrame
    <3>2. sent[s] \in Nat /\ sent[s] <= Chunks
      BY <3>1 DEF StreamTypes, StreamTypeOK
    <3>3. <<s, sent[s]>> \in Frames
      BY <3>2, <1>0 DEF Frames
    <3>4. QED
      BY <3>2, <3>3, <1>0
  <2>2. queue' \in Seq(Frames \union {End}) /\ Len(queue') <= QueueCap
    BY <1>7, <2>1 DEF SendFrame, Room, StreamTypes, StreamTypeOK
  <2>3. QED
    BY <1>7, <2>1, <2>2 DEF SendFrame, Goto, StreamTypes, StreamTypeOK, providerVars,
                            readerVars, marks
<1>8. ASSUME NEW s \in Streams, SendTimeout(s) PROVE Goal
  <2>1. pc[s] = "send" /\ tries' = [tries EXCEPT ![s] = @ + 1] /\ sent' = sent
    BY <1>8 DEF SendTimeout
  <2>2. \/ tries[s] + 1 # MaxTries /\ pc' = pc /\ failed' = failed
        \/ pc' = [pc EXCEPT ![s] = "close"] /\ failed' = [failed EXCEPT ![s] = TRUE]
    BY <1>8 DEF SendTimeout, Fail, Goto
  <2>3. pc' \in [Streams -> {"idle", "read", "check", "send", "close", "mark", "end", "ended"}]
    BY <2>2, <1>0
  <2>4. failed' \in [Streams -> BOOLEAN]
    BY <2>2, <1>0
  <2>5. tries' \in [Streams -> 0..MaxTries]
    BY <2>1, <1>0
  <2>6. \A t \in Streams :
          pc'[t] \in {"idle", "read", "check", "send"} => sent'[t] <= Chunks
    BY <2>1, <2>2, <1>0
  <2>7. \A t \in Streams : pc'[t] \in {"send", "mark", "end"} => tries'[t] < MaxTries
    BY <2>1, <2>2, <1>0
  <2>8. QED
    BY <1>8, <2>3, <2>4, <2>5, <2>6, <2>7
       DEF SendTimeout, StreamTypes, StreamTypeOK, providerVars, readerVars, marks
<1>9. ASSUME NEW s \in Streams, CloseStream(s) PROVE Goal
  <2>1. pc[s] = "close" /\ tries' = [tries EXCEPT ![s] = 0] /\ sent' = sent
    BY <1>9 DEF CloseStream
  <2>2. \/ pc' = [pc EXCEPT ![s] = "mark"]
        \/ pc' = [pc EXCEPT ![s] = "ended"]
    BY <1>9 DEF CloseStream, Goto
  <2>3. pc' \in [Streams -> {"idle", "read", "check", "send", "close", "mark", "end", "ended"}]
    BY <2>2, <1>0
  <2>4. tries' \in [Streams -> 0..MaxTries]
    BY <2>1, <1>0
  <2>5. \A t \in Streams :
          /\ pc'[t] \in {"idle", "read", "check", "send"} => sent'[t] <= Chunks
          /\ pc'[t] \in {"send", "mark", "end"} => tries'[t] < MaxTries
    BY <2>1, <2>2, <1>0
  <2>6. QED
    BY <1>9, <2>3, <2>4, <2>5
       DEF CloseStream, StreamTypes, StreamTypeOK, providerVars, readerVars, marks
<1>10. ASSUME NEW s \in Streams, MarkClosed(s) PROVE Goal
  BY <1>10 DEF MarkClosed, Goto, StreamTypes, StreamTypeOK, providerVars, readerVars, marks
<1>11. ASSUME NEW s \in Streams, SendEnd(s) PROVE Goal
  <2>1. queue' \in Seq(Frames \union {End}) /\ Len(queue') <= QueueCap
    BY <1>11 DEF SendEnd, Room, StreamTypes, StreamTypeOK
  <2>2. QED
    BY <1>11, <2>1 DEF SendEnd, Goto, StreamTypes, StreamTypeOK, providerVars, readerVars, marks
<1>12. ASSUME NEW s \in Streams, SendEndTimeout(s) PROVE Goal
  <2>1. pc[s] = "end" /\ tries' = [tries EXCEPT ![s] = @ + 1] /\ sent' = sent
    BY <1>12 DEF SendEndTimeout
  <2>2. \/ tries[s] + 1 # MaxTries /\ pc' = pc /\ failed' = failed
        \/ pc' = [pc EXCEPT ![s] = "ended"] /\ failed' = [failed EXCEPT ![s] = TRUE]
    BY <1>12 DEF SendEndTimeout, Goto
  <2>3. pc' \in [Streams -> {"idle", "read", "check", "send", "close", "mark", "end", "ended"}]
    BY <2>2, <1>0
  <2>4. failed' \in [Streams -> BOOLEAN]
    BY <2>2, <1>0
  <2>5. tries' \in [Streams -> 0..MaxTries]
    BY <2>1, <1>0
  <2>6. \A t \in Streams :
          pc'[t] \in {"idle", "read", "check", "send"} => sent'[t] <= Chunks
    BY <2>1, <2>2, <1>0
  <2>7. \A t \in Streams : pc'[t] \in {"send", "mark", "end"} => tries'[t] < MaxTries
    BY <2>1, <2>2, <1>0
  <2>8. endLost' \in BOOLEAN
    BY <1>12 DEF SendEndTimeout, StreamTypes, StreamTypeOK
  <2>9. QED
    BY <1>12, <2>3, <2>4, <2>5, <2>6, <2>7, <2>8
       DEF SendEndTimeout, StreamTypes, StreamTypeOK, providerVars, readerVars
<1>13. ASSUME NEW r \in Readers, Enter(r) PROVE Goal
  BY <1>13 DEF Enter, StreamTypes, StreamTypeOK, providerVars, streamVars, marks
<1>14. ASSUME NEW r \in Readers, Lock(r) PROVE Goal
  BY <1>14 DEF Lock, StreamTypes, StreamTypeOK, providerVars, streamVars, marks
<1>15. ASSUME NEW r \in Readers, TakeFrame(r) PROVE Goal
  <2>1. Head(queue) \in Frames \union {End} /\ queue' \in Seq(Frames \union {End})
        /\ Len(queue') <= QueueCap
    BY <1>15 DEF TakeFrame, StreamTypes, StreamTypeOK
  <2>2. Head(queue) # End => Append(out[r], Head(queue)) \in Seq(Frames)
    BY <2>1 DEF StreamTypes, StreamTypeOK
  <2>3. QED
    BY <1>15, <2>1, <2>2 DEF TakeFrame, Leave, StreamTypes, StreamTypeOK, providerVars,
                             streamVars, marks
<1>16. ASSUME NEW r \in Readers, ReaderGivesUp(r) PROVE Goal
  <2>1. <<>> \in Seq(Frames)
    OBVIOUS
  <2>2. QED
    BY <1>16, <2>1 DEF ReaderGivesUp, Leave, StreamTypes, StreamTypeOK, providerVars, streamVars
<1>17. CASE Cancel
  BY <1>17 DEF Cancel, StreamTypes, StreamTypeOK, providerVars, streamVars, readerVars, marks
<1>18. CASE UNCHANGED channelVars
  BY <1>18 DEF channelVars, StreamTypes, StreamTypeOK, providerVars, streamVars, readerVars, marks
<1> HIDE DEF Goal
<1>19. QED
  BY <1>1, <1>2, <1>3, <1>4, <1>5, <1>6, <1>7, <1>8, <1>9, <1>10, <1>11, <1>12, <1>13,
     <1>14, <1>15, <1>16, <1>17, <1>18 DEF StreamNext, StreamStep, ProviderStep, Goal

----------------------------------------------------------------------------
(* The order of the frames.                                                *)

\* What is in the queue, and what its holder has collected together with it,
\* is each stream in order up to the frame it sent last.  Nobody else has
\* frames that may still go on.
FrameOrderInv ==
  /\ Consecutive(queue) /\ Tops(queue, sent)
  /\ \A r \in Readers : Consecutive(out[r])
  /\ \A r \in Readers :
       lock = r => Consecutive(out[r] \o queue) /\ Tops(out[r] \o queue, sent)
  /\ \A r \in Readers : (reader[r] = "reading" => lock = r) /\ (lock = r => reader[r] = "reading")
  /\ \A r \in Readers : reader[r] \in {"idle", "waiting", "failed"} => out[r] = <<>>

LEMMA EmptyInOrder == Consecutive(<<>>) /\ \A top : Tops(<<>>, top)
BY DEF Consecutive, Tops

LEMMA StreamInitOrder == StreamInit => FrameOrderInv
<1> SUFFICES ASSUME StreamInit PROVE FrameOrderInv
  OBVIOUS
<1>1. queue = <<>> /\ lock = NoReader /\ \A r \in Readers : out[r] = <<>> /\ reader[r] = "idle"
  BY DEF StreamInit
<1>2. Consecutive(queue) /\ Tops(queue, sent) /\ \A r \in Readers : Consecutive(out[r])
  BY <1>1, EmptyInOrder
<1>3. QED
  BY <1>1, <1>2, StreamAssumption DEF FrameOrderInv

LEMMA OrderKept ==
  ASSUME FrameOrderInv, UNCHANGED <<queue, sent, out, lock, reader>> PROVE FrameOrderInv'
BY DEF FrameOrderInv

\* What a reader has collected are frames, of no other kind than the queue's.
LEMMA OutIsFrames ==
  ASSUME StreamTypes, NEW r \in Readers
  PROVE  /\ out[r] \in Seq(Frames) /\ out[r] \in Seq(Frames \union {End})
         /\ queue \in Seq(Frames \union {End})
         /\ out[r] \o queue \in Seq(Frames \union {End})
<1>1. out[r] \in Seq(Frames) /\ queue \in Seq(Frames \union {End})
  BY DEF StreamTypes, StreamTypeOK
<1>2. out[r] \in Seq(Frames \union {End})
  BY <1>1
<1>3. QED
  BY <1>1, <1>2

LEMMA FramesAppend ==
  ASSUME NEW F \in Seq(Frames \union {End}), NEW G \in Seq(Frames \union {End}),
         NEW x \in Frames \union {End}
  PROVE  F \o Append(G, x) = Append(F \o G, x)
BY AppendConcat

LEMMA SendFrameOrder ==
  ASSUME StreamTypes, FrameOrderInv, NEW s \in Streams, SendFrame(s) PROVE FrameOrderInv'
<1> DEFINE x == <<s, sent[s]>>
<1>1. /\ queue' = Append(queue, x) /\ sent' = [sent EXCEPT ![s] = @ + 1]
      /\ UNCHANGED <<out, lock, reader>>
  BY DEF SendFrame, readerVars
<1>2. sent \in [Streams -> Nat] /\ sent[s] \in 0..Chunks /\ x \in Frames \union {End}
  BY StreamAssumption DEF SendFrame, StreamTypes, StreamTypeOK, Frames
<1>3. queue \in Seq(Frames \union {End})
  BY DEF StreamTypes, StreamTypeOK
<1>4. Consecutive(queue) /\ Tops(queue, sent)
  BY DEF FrameOrderInv
<1>5. Consecutive(Append(queue, x)) /\ Tops(Append(queue, x), [sent EXCEPT ![s] = @ + 1])
  BY <1>2, <1>3, <1>4, NextFrame
<1>6. Consecutive(queue)' /\ Tops(queue, sent)'
  BY <1>1, <1>5
<1>7. ASSUME NEW r \in Readers, lock' = r
      PROVE  Consecutive(out[r] \o queue)' /\ Tops(out[r] \o queue, sent)'
  <2>1. Consecutive(out[r] \o queue) /\ Tops(out[r] \o queue, sent)
    BY <1>1, <1>7 DEF FrameOrderInv
  <2>2. out[r] \o queue \in Seq(Frames \union {End}) /\ out[r] \in Seq(Frames \union {End})
    BY OutIsFrames
  <2>3. /\ Consecutive(Append(out[r] \o queue, x))
        /\ Tops(Append(out[r] \o queue, x), [sent EXCEPT ![s] = @ + 1])
    BY <2>1, <2>2, <1>2, NextFrame
  <2>4. out[r] \o Append(queue, x) = Append(out[r] \o queue, x)
    BY <2>2, <1>2, <1>3, FramesAppend
  <2>5. out'[r] \o queue' = Append(out[r] \o queue, x)
    BY <2>4, <1>1
  <2>6. QED
    BY <2>3, <2>5, <1>1
<1>8. QED
  BY <1>1, <1>6, <1>7 DEF FrameOrderInv

LEMMA SendEndOrder ==
  ASSUME StreamTypes, FrameOrderInv, NEW s \in Streams, SendEnd(s) PROVE FrameOrderInv'
<1>1. queue' = Append(queue, End) /\ UNCHANGED <<sent, out, lock, reader>>
  BY DEF SendEnd, readerVars
<1>2. queue \in Seq(Frames \union {End})
  BY DEF StreamTypes, StreamTypeOK
<1>3. Consecutive(queue) /\ Tops(queue, sent)
  BY DEF FrameOrderInv
<1>4. Consecutive(Append(queue, End)) /\ Tops(Append(queue, End), sent)
  BY <1>2, <1>3, EndFrame
<1>5. Consecutive(queue)' /\ Tops(queue, sent)'
  BY <1>1, <1>4
<1>6. ASSUME NEW r \in Readers, lock' = r
      PROVE  Consecutive(out[r] \o queue)' /\ Tops(out[r] \o queue, sent)'
  <2>1. Consecutive(out[r] \o queue) /\ Tops(out[r] \o queue, sent)
    BY <1>1, <1>6 DEF FrameOrderInv
  <2>2. out[r] \o queue \in Seq(Frames \union {End}) /\ out[r] \in Seq(Frames \union {End})
    BY OutIsFrames
  <2>3. Consecutive(Append(out[r] \o queue, End)) /\ Tops(Append(out[r] \o queue, End), sent)
    BY <2>1, <2>2, EndFrame
  <2>4. End \in Frames \union {End}
    OBVIOUS
  <2>5. out[r] \o Append(queue, End) = Append(out[r] \o queue, End)
    BY <2>2, <2>4, <1>2, FramesAppend
  <2>6. out'[r] \o queue' = Append(out[r] \o queue, End)
    BY <2>5, <1>1
  <2>7. QED
    BY <2>3, <2>6, <1>1
<1>7. QED
  BY <1>1, <1>5, <1>6 DEF FrameOrderInv

LEMMA LockOrder ==
  ASSUME StreamTypes, FrameOrderInv, NEW r \in Readers, Lock(r) PROVE FrameOrderInv'
<1>1. /\ reader[r] = "waiting" /\ lock = NoReader /\ lock' = r
      /\ reader' = [reader EXCEPT ![r] = "reading"]
      /\ UNCHANGED <<queue, sent, out>>
  BY DEF Lock, streamVars
<1>2. reader \in [Readers -> {"idle", "waiting", "reading", "done", "failed"}]
  BY DEF StreamTypes, StreamTypeOK
<1>3. queue \in Seq(Frames \union {End}) /\ out[r] = <<>>
  BY <1>1 DEF StreamTypes, StreamTypeOK, FrameOrderInv
<1>4. out[r] \o queue = queue
  BY <1>3, EmptyConcat
<1>5. Consecutive(out[r] \o queue) /\ Tops(out[r] \o queue, sent)
  BY <1>4 DEF FrameOrderInv
<1>6. ASSUME NEW q \in Readers, lock' = q
      PROVE  Consecutive(out[q] \o queue)' /\ Tops(out[q] \o queue, sent)'
  BY <1>1, <1>5, <1>6
<1>7. \A q \in Readers : (reader'[q] = "reading" => lock' = q) /\ (lock' = q => reader'[q] = "reading")
  BY <1>1, <1>2, StreamAssumption DEF FrameOrderInv
<1>8. \A q \in Readers : reader'[q] \in {"idle", "waiting", "failed"} => out'[q] = <<>>
  BY <1>1, <1>2 DEF FrameOrderInv
<1>9. Consecutive(queue)' /\ Tops(queue, sent)' /\ \A q \in Readers : Consecutive(out[q])'
  BY <1>1 DEF FrameOrderInv
<1>10. QED
  BY <1>6, <1>7, <1>8, <1>9 DEF FrameOrderInv

LEMMA TakeFrameOrder ==
  ASSUME StreamTypes, FrameOrderInv, NEW r \in Readers, TakeFrame(r) PROVE FrameOrderInv'
<1> DEFINE T == Tail(queue)
           h == Head(queue)
<1>1. /\ reader[r] = "reading" /\ queue # <<>> /\ queue' = T /\ UNCHANGED sent
      /\ IF h = End
         THEN reader' = [reader EXCEPT ![r] = "done"] /\ lock' = NoReader /\ UNCHANGED out
         ELSE out' = [out EXCEPT ![r] = Append(@, h)] /\ UNCHANGED <<reader, lock>>
  BY DEF TakeFrame, Leave, streamVars
<1>2. /\ reader \in [Readers -> {"idle", "waiting", "reading", "done", "failed"}]
      /\ out \in [Readers -> Seq(Frames)]
  BY DEF StreamTypes, StreamTypeOK
<1>3. /\ out[r] \in Seq(Frames) /\ out[r] \in Seq(Frames \union {End})
      /\ queue \in Seq(Frames \union {End})
      /\ out[r] \o queue \in Seq(Frames \union {End})
  BY OutIsFrames
<1>4. lock = r
  BY <1>1 DEF FrameOrderInv
<1>5. /\ h \in Frames \union {End} /\ T \in Seq(Frames \union {End})
      /\ Len(T) = Len(queue) - 1
      /\ \A i \in 1..Len(T) : T[i] = queue[1 + i]
      /\ Append(out[r], h) \o T = out[r] \o queue
  BY <1>1, <1>3, TakeConcat
<1> HIDE DEF T, h
<1>6. Consecutive(T) /\ Tops(T, sent)
  <2>1. Consecutive(queue) /\ Tops(queue, sent)
    BY DEF FrameOrderInv
  <2>2. 1 + Len(T) = Len(queue) /\ 1 + Len(T) <= Len(queue) /\ 1 \in Nat
    BY <1>3, <1>5
  <2>3. Consecutive(T)
    BY <2>1, <2>2, <1>3, <1>5, StretchConsecutive
  <2>4. Tops(T, sent)
    BY <2>1, <2>2, <1>3, <1>5, RestTops
  <2>5. QED
    BY <2>3, <2>4
<1>7. Consecutive(queue)' /\ Tops(queue, sent)'
  BY <1>1, <1>6
<1>8. CASE h = End
  BY <1>1, <1>2, <1>4, <1>7, <1>8, StreamAssumption DEF FrameOrderInv
<1>9. CASE h # End
  <2>1. out' = [out EXCEPT ![r] = Append(@, h)] /\ UNCHANGED <<reader, lock>>
    BY <1>1, <1>9
  <2>2. out'[r] = Append(out[r], h) /\ \A q \in Readers \ {r} : out'[q] = out[q]
    BY <2>1, <1>2
  <2>3. Consecutive(out[r] \o queue) /\ Tops(out[r] \o queue, sent)
    BY <1>4 DEF FrameOrderInv
  <2>4. out'[r] \o queue' = out[r] \o queue
    BY <2>2, <1>1, <1>5
  <2>5. Consecutive(out[r] \o queue)' /\ Tops(out[r] \o queue, sent)'
    BY <2>3, <2>4, <1>1
  <2>6. Consecutive(Append(out[r], h))
    <3> DEFINE P == Append(out[r], h)
               W == out[r] \o queue
    <3>1. P \in Seq(Frames \union {End}) /\ W \in Seq(Frames \union {End}) /\ P \o T = W
      BY <1>3, <1>5
    <3> HIDE DEF P, W
    <3>2. 0 + Len(P) <= Len(W) /\ 0 \in Nat /\ \A i \in 1..Len(P) : P[i] = W[0 + i]
      BY <3>1, <1>5
    <3>3. Consecutive(W)
      BY <2>3 DEF W
    <3>4. Consecutive(P)
      BY <3>1, <3>2, <3>3, StretchConsecutive
    <3>5. QED
      BY <3>4 DEF P
  <2>7. \A q \in Readers : Consecutive(out[q])'
    BY <2>2, <2>6 DEF FrameOrderInv
  <2>8. \A q \in Readers : reader'[q] \in {"idle", "waiting", "failed"} => out'[q] = <<>>
    BY <2>1, <2>2, <1>1 DEF FrameOrderInv
  <2>9. \A q \in Readers : lock' = q => q = r
    BY <2>1, <1>4
  <2>10. QED
    BY <1>7, <2>1, <2>5, <2>7, <2>8, <2>9 DEF FrameOrderInv
<1>10. QED
  BY <1>8, <1>9

LEMMA GivesUpOrder ==
  ASSUME StreamTypes, FrameOrderInv, NEW r \in Readers, ReaderGivesUp(r) PROVE FrameOrderInv'
<1>1. /\ reader[r] = "reading" /\ reader' = [reader EXCEPT ![r] = "failed"]
      /\ lock' = NoReader /\ out' = [out EXCEPT ![r] = <<>>] /\ UNCHANGED <<queue, sent>>
  BY DEF ReaderGivesUp, Leave, streamVars
<1>2. /\ reader \in [Readers -> {"idle", "waiting", "reading", "done", "failed"}]
      /\ out \in [Readers -> Seq(Frames)]
  BY DEF StreamTypes, StreamTypeOK
<1>3. lock = r
  BY <1>1 DEF FrameOrderInv
<1>4. Consecutive(<<>>)
  BY EmptyInOrder
<1>5. \A q \in Readers : out'[q] = IF q = r THEN <<>> ELSE out[q]
  BY <1>1, <1>2
<1>6. \A q \in Readers : Consecutive(out[q])'
  BY <1>4, <1>5 DEF FrameOrderInv
<1>7. \A q \in Readers : lock' # q
  BY <1>1, StreamAssumption
<1>8. \A q \in Readers : reader'[q] # "reading"
  BY <1>1, <1>2, <1>3 DEF FrameOrderInv
<1>9. \A q \in Readers : reader'[q] \in {"idle", "waiting", "failed"} => out'[q] = <<>>
  BY <1>1, <1>2, <1>5 DEF FrameOrderInv
<1>10. Consecutive(queue)' /\ Tops(queue, sent)'
  BY <1>1 DEF FrameOrderInv
<1>11. QED
  BY <1>6, <1>7, <1>8, <1>9, <1>10 DEF FrameOrderInv

LEMMA StreamNextOrder == StreamTypes /\ FrameOrderInv /\ [StreamNext]_channelVars => FrameOrderInv'
<1> SUFFICES ASSUME StreamTypes, FrameOrderInv, [StreamNext]_channelVars PROVE FrameOrderInv'
  OBVIOUS
<1> DEFINE Goal == FrameOrderInv'
           Same == UNCHANGED <<queue, sent, out, lock, reader>>
<1>1. ASSUME NEW s \in Streams, Start(s) \/ ProviderStep(s) PROVE Same
  BY <1>1 DEF Start, ProviderStep, Provide, ProviderEnds, streamVars, readerVars
<1>2. ASSUME NEW s \in Streams, StreamStep(s), ~SendFrame(s), ~SendEnd(s) PROVE Same
  BY <1>2 DEF StreamStep, ReceiveChunk, ReceiveEnd, Emit, SendTimeout, CloseStream, MarkClosed,
              SendEndTimeout, readerVars
<1>3. ASSUME Cancel \/ UNCHANGED channelVars PROVE Same
  BY <1>3 DEF Cancel, channelVars, streamVars, readerVars
<1>4. Same => Goal
  BY OrderKept
<1>5. ASSUME NEW s \in Streams, SendFrame(s) PROVE Goal
  BY <1>5, SendFrameOrder
<1>6. ASSUME NEW s \in Streams, SendEnd(s) PROVE Goal
  BY <1>6, SendEndOrder
<1>7. ASSUME NEW r \in Readers, Enter(r) PROVE Goal
  <2>1. /\ reader[r] = "idle" /\ reader' = [reader EXCEPT ![r] = "waiting"]
        /\ UNCHANGED <<queue, sent, out, lock>>
    BY <1>7 DEF Enter, streamVars
  <2>2. reader \in [Readers -> {"idle", "waiting", "reading", "done", "failed"}]
    BY DEF StreamTypes, StreamTypeOK
  <2>3. \A q \in Readers : /\ reader'[q] = "reading" => reader[q] = "reading"
                           /\ reader[q] = "reading" => reader'[q] = "reading"
    BY <2>1, <2>2
  <2>4. \A q \in Readers : reader'[q] \in {"idle", "waiting", "failed"} => out'[q] = <<>>
    BY <2>1, <2>2 DEF FrameOrderInv
  <2>5. QED
    BY <2>1, <2>3, <2>4 DEF FrameOrderInv
<1>8. ASSUME NEW r \in Readers, Lock(r) PROVE Goal
  BY <1>8, LockOrder
<1>9. ASSUME NEW r \in Readers, TakeFrame(r) PROVE Goal
  BY <1>9, TakeFrameOrder
<1>10. ASSUME NEW r \in Readers, ReaderGivesUp(r) PROVE Goal
  BY <1>10, GivesUpOrder
<1> HIDE DEF Goal, Same
<1>11. QED
  BY <1>1, <1>2, <1>3, <1>4, <1>5, <1>6, <1>7, <1>8, <1>9, <1>10 DEF StreamNext, Goal

\* The frames a reader returns are in order.
LEMMA OrderImplies == StreamTypes /\ FrameOrderInv => InOrder
<1> SUFFICES ASSUME StreamTypes, FrameOrderInv, NEW r \in Readers
             PROVE  Consecutive(out[r] \o (IF lock = r THEN queue ELSE <<>>))
  BY DEF InOrder
<1>1. out[r] \o <<>> = out[r]
  BY OutIsFrames, EmptyConcat
<1>2. QED
  BY <1>1 DEF FrameOrderInv

----------------------------------------------------------------------------
(* A single stream.                                                        *)

\* As long as streams do not share the emitter, only one has been started, and
\* it is the one that closes the emitter.
SoloInv ==
  ~shared =>
    /\ \A s, t \in Streams : pc[s] # "idle" /\ pc[t] # "idle" => s = t
    /\ emitterClosed => \E s \in Streams : pc[s] \in {"end", "ended"}
    /\ \A s \in Streams : pc[s] \in {"end", "ended"} => emitterClosed

\* A stream that closes without having failed has sent all its frames.
DoneInv ==
  /\ \A s \in Streams : pc[s] \in {"close", "mark", "end", "ended"} /\ ~failed[s] =>
       sent[s] = Chunks + 1
  /\ \A s \in Streams : pc[s] = "idle" => sent[s] = 0 /\ ~failed[s]

LEMMA StreamInitSolo == StreamInit => SoloInv /\ DoneInv
BY DEF StreamInit, SoloInv, DoneInv

LEMMA StreamNextSolo == StreamTypes /\ SoloInv /\ [StreamNext]_channelVars => SoloInv'
<1> SUFFICES ASSUME StreamTypes, SoloInv, [StreamNext]_channelVars, ~shared' PROVE SoloInv'
  BY DEF SoloInv
<1> DEFINE Goal == SoloInv'
<1>1. pc \in [Streams -> {"idle", "read", "check", "send", "close", "mark", "end", "ended"}]
  BY DEF StreamTypes, StreamTypeOK
<1>2. ASSUME NEW s \in Streams, Start(s) PROVE Goal
  <2>1. ~shared /\ ~emitterClosed /\ ~emitterClosed' /\ \A t \in Streams : ~Open(t)
    BY <1>2 DEF Start
  <2>2. \A t \in Streams : pc[t] = "idle"
    BY <2>1, <1>1 DEF SoloInv, Open
  <2>3. \/ pc' = [pc EXCEPT ![s] = "read"]
        \/ pc' = [pc EXCEPT ![s] = "close"]
    BY <1>2 DEF Start, Proceed, Fail, Goto
  <2>4. \A t \in Streams : pc'[t] \notin {"end", "ended"} /\ (pc'[t] # "idle" => t = s)
    BY <2>2, <2>3, <1>1
  <2>5. QED
    BY <2>1, <2>4 DEF SoloInv
<1>3. ASSUME NEW s \in Streams, ProviderStep(s) PROVE Goal
  BY <1>3 DEF ProviderStep, Provide, ProviderEnds, streamVars, marks, SoloInv
<1>4. ASSUME NEW s \in Streams, ReceiveChunk(s) PROVE Goal
  BY <1>1, <1>4 DEF ReceiveChunk, Proceed, Fail, Goto, marks, SoloInv
<1>5. ASSUME NEW s \in Streams, ReceiveEnd(s) PROVE Goal
  BY <1>1, <1>5 DEF ReceiveEnd, Proceed, Fail, Goto, marks, SoloInv
<1>6. ASSUME NEW s \in Streams, Emit(s) PROVE Goal
  BY <1>1, <1>6 DEF Emit, Fail, Goto, marks, SoloInv
<1>7. ASSUME NEW s \in Streams, SendFrame(s) PROVE Goal
  BY <1>1, <1>7 DEF SendFrame, Goto, marks, SoloInv
<1>8. ASSUME NEW s \in Streams, SendTimeout(s) PROVE Goal
  BY <1>1, <1>8 DEF SendTimeout, Fail, Goto, marks, SoloInv
<1>9. ASSUME NEW s \in Streams, CloseStream(s) PROVE Goal
  <2>1. ~shared /\ pc[s] = "close" /\ UNCHANGED emitterClosed
    BY <1>9 DEF CloseStream, marks
  <2>2. ~emitterClosed
    BY <2>1 DEF SoloInv
  <2>3. pc' = [pc EXCEPT ![s] = "mark"]
    BY <1>9, <2>2 DEF CloseStream, Goto
  <2>4. QED
    BY <1>1, <2>1, <2>2, <2>3 DEF SoloInv
<1>10. ASSUME NEW s \in Streams, MarkClosed(s) PROVE Goal
  BY <1>1, <1>10 DEF MarkClosed, Goto, marks, SoloInv
<1>11. ASSUME NEW s \in Streams, SendEnd(s) PROVE Goal
  BY <1>1, <1>11 DEF SendEnd, Goto, marks, SoloInv
<1>12. ASSUME NEW s \in Streams, SendEndTimeout(s) PROVE Goal
  BY <1>1, <1>12 DEF SendEndTimeout, Goto, marks, SoloInv
<1>13. ASSUME NEW r \in Readers, Enter(r) \/ Lock(r) \/ TakeFrame(r) \/ ReaderGivesUp(r)
       PROVE  Goal
  BY <1>13 DEF Enter, Lock, TakeFrame, ReaderGivesUp, streamVars, marks, SoloInv
<1>14. ASSUME Cancel \/ UNCHANGED channelVars PROVE Goal
  BY <1>14 DEF Cancel, channelVars, streamVars, marks, SoloInv
<1> HIDE DEF Goal
<1>15. QED
  BY <1>2, <1>3, <1>4, <1>5, <1>6, <1>7, <1>8, <1>9, <1>10, <1>11, <1>12, <1>13, <1>14
     DEF StreamNext, StreamStep, Goal

LEMMA StreamNextDone == StreamTypes /\ DoneInv /\ [StreamNext]_channelVars => DoneInv'
<1> SUFFICES ASSUME StreamTypes, DoneInv, [StreamNext]_channelVars PROVE DoneInv'
  OBVIOUS
<1> DEFINE Goal == DoneInv'
<1>1. /\ pc \in [Streams -> {"idle", "read", "check", "send", "close", "mark", "end", "ended"}]
      /\ failed \in [Streams -> BOOLEAN]
      /\ sent \in [Streams -> 0..(Chunks + 1)]
  BY DEF StreamTypes, StreamTypeOK
<1>2. ASSUME NEW s \in Streams, Start(s) PROVE Goal
  BY <1>1, <1>2 DEF Start, Proceed, Fail, Goto, DoneInv
<1>3. ASSUME NEW s \in Streams, ProviderStep(s) PROVE Goal
  BY <1>3 DEF ProviderStep, Provide, ProviderEnds, streamVars, DoneInv
<1>4. ASSUME NEW s \in Streams, ReceiveChunk(s) PROVE Goal
  BY <1>1, <1>4 DEF ReceiveChunk, Proceed, Fail, Goto, DoneInv
<1>5. ASSUME NEW s \in Streams, ReceiveEnd(s) PROVE Goal
  BY <1>1, <1>5 DEF ReceiveEnd, Proceed, Fail, Goto, DoneInv
<1>6. ASSUME NEW s \in Streams, Emit(s) PROVE Goal
  BY <1>1, <1>6 DEF Emit, Fail, Goto, DoneInv
<1>7. ASSUME NEW s \in Streams, SendFrame(s) PROVE Goal
  BY <1>1, <1>7, StreamAssumption DEF SendFrame, Goto, DoneInv
<1>8. ASSUME NEW s \in Streams, SendTimeout(s) PROVE Goal
  BY <1>1, <1>8 DEF SendTimeout, Fail, Goto, DoneInv
<1>9. ASSUME NEW s \in Streams, CloseStream(s) PROVE Goal
  BY <1>1, <1>9 DEF CloseStream, Goto, DoneInv
<1>10. ASSUME NEW s \in Streams, MarkClosed(s) PROVE Goal
  BY <1>1, <1>10 DEF MarkClosed, Goto, DoneInv
<1>11. ASSUME NEW s \in Streams, SendEnd(s) PROVE Goal
  BY <1>1, <1>11 DEF SendEnd, Goto, DoneInv
<1>12. ASSUME NEW s \in Streams, SendEndTimeout(s) PROVE Goal
  BY <1>1, <1>12 DEF SendEndTimeout, Goto, DoneInv
<1>13. ASSUME NEW r \in Readers, Enter(r) \/ Lock(r) \/ TakeFrame(r) \/ ReaderGivesUp(r)
       PROVE  Goal
  BY <1>13 DEF Enter, Lock, TakeFrame, ReaderGivesUp, streamVars, DoneInv
<1>14. ASSUME Cancel \/ UNCHANGED channelVars PROVE Goal
  BY <1>14 DEF Cancel, channelVars, streamVars, DoneInv
<1> HIDE DEF Goal
<1>15. QED
  BY <1>2, <1>3, <1>4, <1>5, <1>6, <1>7, <1>8, <1>9, <1>10, <1>11, <1>12, <1>13, <1>14
     DEF StreamNext, StreamStep, Goal

----------------------------------------------------------------------------
(* The complete stream.                                                    *)

\* F is all that stream s has sent: n frames, and the end frame once it is over.
Whole(s, n, over, F) ==
  /\ Len(F) = n + (IF over THEN 1 ELSE 0)
  /\ \A i \in 1..n : F[i] = <<s, i - 1>>
  /\ over => F[n + 1] = End

WholeAnswer(s) == [i \in 1..(Chunks + 1) |-> <<s, i - 1>>]

\* What a stream that did not fail has sent waits in the queue or is collected
\* by its holder, until a reader has it all.
CompleteInv ==
  ~shared /\ ~spilled =>
    /\ (\A s \in Streams : pc[s] = "idle") =>
         queue = <<>> /\ \A r \in Readers : out[r] = <<>> /\ reader[r] # "done"
    /\ \A s \in Streams : pc[s] # "idle" /\ ~failed[s] =>
         /\ (\E r \in Readers : reader[r] = "done") =>
              /\ pc[s] = "ended" /\ queue = <<>>
              /\ \A r \in Readers : reader[r] = "done" => out[r] = WholeAnswer(s)
         /\ (\A r \in Readers : reader[r] # "done") =>
              /\ lock = NoReader => Whole(s, sent[s], pc[s] = "ended", queue)
              /\ \A r \in Readers :
                   lock = r => Whole(s, sent[s], pc[s] = "ended", out[r] \o queue)

LEMMA WholeFrame ==
  ASSUME NEW S, NEW F \in Seq(S), NEW n \in Nat, NEW s, <<s, n>> \in S,
         Whole(s, n, FALSE, F)
  PROVE  Whole(s, n + 1, FALSE, Append(F, <<s, n>>))
<1> DEFINE G == Append(F, <<s, n>>)
<1>1. Len(F) = n /\ \A i \in 1..n : F[i] = <<s, i - 1>>
  BY DEF Whole
<1>2. Len(G) = n + 1 /\ G[n + 1] = <<s, n>> /\ \A i \in 1..n : G[i] = F[i]
  BY <1>1
<1> HIDE DEF G
<1>3. \A i \in 1..(n + 1) : G[i] = <<s, i - 1>>
  BY <1>1, <1>2
<1>4. QED
  BY <1>2, <1>3 DEF Whole, G

LEMMA WholeEnd ==
  ASSUME NEW S, NEW F \in Seq(S), NEW n \in Nat, NEW s, End \in S, Whole(s, n, FALSE, F)
  PROVE  Whole(s, n, TRUE, Append(F, End))
<1> DEFINE G == Append(F, End)
<1>1. Len(F) = n /\ \A i \in 1..n : F[i] = <<s, i - 1>>
  BY DEF Whole
<1>2. Len(G) = n + 1 /\ G[n + 1] = End /\ \A i \in 1..n : G[i] = F[i]
  BY <1>1
<1> HIDE DEF G
<1>3. QED
  BY <1>1, <1>2 DEF Whole, G

\* A reader that finds the end frame has all the frames before it.
LEMMA WholeTaken ==
  ASSUME NEW F \in Seq(Frames), NEW G \in Seq(Frames \union {End}), G # <<>>, Head(G) = End,
         NEW s \in Streams, NEW n \in 0..(Chunks + 1), NEW over \in BOOLEAN,
         Whole(s, n, over, F \o G)
  PROVE  over = TRUE /\ Tail(G) = <<>> /\ Len(F) = n /\ \A i \in 1..n : F[i] = <<s, i - 1>>
<1> DEFINE W == F \o G
<1>1. Len(F) \in Nat /\ Len(G) \in Nat /\ Len(G) > 0 /\ G[1] = End
  OBVIOUS
<1>2. F \in Seq(Frames \union {End})
  OBVIOUS
<1>3. W \in Seq(Frames \union {End}) /\ Len(W) = Len(F) + Len(G)
  BY <1>2
<1>4. \A i \in 1..Len(F) : W[i] = F[i]
  BY <1>2
<1>5. W[Len(F) + 1] = End
  BY <1>1, <1>2
<1> HIDE DEF W
<1>6. /\ Len(W) = n + (IF over THEN 1 ELSE 0)
      /\ \A i \in 1..n : W[i] = <<s, i - 1>>
  BY DEF Whole, W
<1>7. n \in Nat /\ \A i \in 1..n : <<s, i - 1>> \in Frames
  BY StreamAssumption DEF Frames
<1>8. ~(Len(F) + 1 \in 1..n)
  BY <1>5, <1>6, <1>7, StreamAssumption
<1>9. Len(F) >= n
  BY <1>1, <1>7, <1>8
<1>10. over /\ Len(F) = n /\ Len(G) = 1
  <2>1. Len(F) + Len(G) = n + (IF over THEN 1 ELSE 0)
    BY <1>3, <1>6
  <2>2. CASE over
    <3>1. Len(F) + Len(G) = n + 1
      BY <2>1, <2>2
    <3>2. \A a, b \in Nat : a + b = n + 1 /\ b > 0 /\ a >= n => a = n /\ b = 1
      BY <1>7
    <3>3. Len(F) = n /\ Len(G) = 1
      BY <3>1, <3>2, <1>1, <1>9
    <3>4. QED
      BY <2>2, <3>3
  <2>3. CASE ~over
    BY <2>1, <2>3, <1>1, <1>7, <1>9
  <2>4. QED
    BY <2>2, <2>3
<1>11. Tail(G) = <<>>
  <2>1. Tail(G) \in Seq(Frames \union {End}) /\ Len(Tail(G)) = 0
    BY <1>1, <1>10
  <2>2. QED
    BY <2>1, EmptySeq
<1>12. \A i \in 1..n : F[i] = <<s, i - 1>>
  BY <1>4, <1>6, <1>10
<1>13. QED
  BY <1>10, <1>11, <1>12

LEMMA AllFrames ==
  ASSUME NEW F \in Seq(Frames), NEW s \in Streams, Len(F) = Chunks + 1,
         \A i \in 1..(Chunks + 1) : F[i] = <<s, i - 1>>
  PROVE  F = WholeAnswer(s)
<1> DEFINE A == [i \in 1..(Chunks + 1) |-> <<s, i - 1>>]
<1>1. \A i \in 1..(Chunks + 1) : <<s, i - 1>> \in Frames
  BY StreamAssumption DEF Frames
<1>2. A \in Seq(Frames) /\ Len(A) = Chunks + 1
  BY <1>1, StreamAssumption
<1>3. \A i \in 1..(Chunks + 1) : A[i] = F[i]
  OBVIOUS
<1> HIDE DEF A
<1>4. F = A
  BY <1>2, <1>3, SeqEqual
<1>5. QED
  BY <1>4 DEF A, WholeAnswer

LEMMA StreamInitComplete == StreamInit => CompleteInv
<1> SUFFICES ASSUME StreamInit PROVE CompleteInv
  OBVIOUS
<1>1. /\ queue = <<>> /\ \A s \in Streams : pc[s] = "idle"
      /\ \A r \in Readers : out[r] = <<>> /\ reader[r] = "idle"
  BY DEF StreamInit
<1>2. QED
  BY <1>1 DEF CompleteInv

\* A step that moves no frame.
LEMMA CompleteKept ==
  ASSUME CompleteInv, ~shared' => ~shared, ~spilled' => ~spilled,
         UNCHANGED <<queue, sent, out, lock>>,
         \A r \in Readers : /\ reader'[r] = "done" => reader[r] = "done"
                            /\ reader[r] = "done" => reader'[r] = "done",
         ~shared' => \A s \in Streams :
           /\ pc[s] = "idle" => pc'[s] = "idle"
           /\ pc'[s] = "idle" => pc[s] = "idle"
           /\ ~failed'[s] => /\ ~failed[s]
                             /\ (pc'[s] = "ended") = (pc[s] = "ended")
  PROVE  CompleteInv'
<1> SUFFICES ASSUME ~shared', ~spilled' PROVE CompleteInv'
  BY DEF CompleteInv
<1>1. (\A s \in Streams : pc'[s] = "idle") =>
        queue' = <<>> /\ \A r \in Readers : out'[r] = <<>> /\ reader'[r] # "done"
  BY DEF CompleteInv
<1>2. ASSUME NEW s \in Streams, pc'[s] # "idle", ~failed'[s], NEW r \in Readers,
             reader'[r] = "done"
      PROVE  /\ pc'[s] = "ended" /\ queue' = <<>>
             /\ \A q \in Readers : reader'[q] = "done" => out'[q] = WholeAnswer(s)
  BY <1>2 DEF CompleteInv
<1>3. ASSUME NEW s \in Streams, pc'[s] # "idle", ~failed'[s],
             \A r \in Readers : reader'[r] # "done"
      PROVE  /\ lock' = NoReader => Whole(s, sent'[s], pc'[s] = "ended", queue')
             /\ \A r \in Readers :
                  lock' = r => Whole(s, sent'[s], pc'[s] = "ended", out'[r] \o queue')
  BY <1>3 DEF CompleteInv
<1>4. QED
  BY <1>1, <1>2, <1>3 DEF CompleteInv, WholeAnswer

LEMMA StartComplete ==
  ASSUME StreamTypes, SoloInv, DoneInv, FrameOrderInv, CompleteInv, NEW s \in Streams, Start(s)
  PROVE  CompleteInv'
<1> SUFFICES ASSUME ~shared', ~spilled' PROVE CompleteInv'
  BY DEF CompleteInv
<1>1. pc \in [Streams -> {"idle", "read", "check", "send", "close", "mark", "end", "ended"}]
  BY DEF StreamTypes, StreamTypeOK
<1>2. /\ ~shared /\ ~spilled /\ ~emitterClosed /\ \A t \in Streams : ~Open(t)
      /\ UNCHANGED <<queue, sent, out, lock, reader>>
  BY DEF Start, readerVars
<1>3. \A t \in Streams : pc[t] = "idle"
  BY <1>1, <1>2 DEF SoloInv, Open
<1>4. queue = <<>> /\ \A r \in Readers : out[r] = <<>> /\ reader[r] # "done"
  BY <1>2, <1>3 DEF CompleteInv
<1>5. \/ pc' = [pc EXCEPT ![s] = "read"]
      \/ pc' = [pc EXCEPT ![s] = "close"]
  BY DEF Start, Proceed, Fail, Goto
<1>6. \A t \in Streams : pc'[t] # "ended" /\ (pc'[t] # "idle" => t = s)
  BY <1>1, <1>3, <1>5
<1>7. pc'[s] # "idle"
  BY <1>1, <1>5
<1>8. sent[s] = 0
  BY <1>3 DEF DoneInv
<1>9. Whole(s, 0, FALSE, <<>>)
  BY DEF Whole
<1>10. <<>> \o <<>> = <<>>
  OBVIOUS
<1>11. (pc'[s] = "ended") = FALSE
  BY <1>6
<1>12. Whole(s, sent'[s], pc'[s] = "ended", <<>>)
  BY <1>2, <1>8, <1>9, <1>11
<1>13. QED
  BY <1>2, <1>4, <1>6, <1>7, <1>10, <1>12 DEF CompleteInv

\* The only stream that has been started is at its own place.
LEMMA OnlyStream ==
  ASSUME SoloInv, ~shared, NEW s \in Streams, pc[s] # "idle", NEW t \in Streams, pc[t] # "idle"
  PROVE  t = s
BY DEF SoloInv

\* A stream sends while nobody has seen its end, unless it has failed.
LEMMA SentOnWhole ==
  ASSUME StreamTypes, CompleteInv, ~shared, ~spilled,
         NEW s \in Streams, pc[s] \notin {"idle", "ended"}, ~failed[s]
  PROVE  /\ \A r \in Readers : reader[r] # "done"
         /\ lock = NoReader => Whole(s, sent[s], FALSE, queue)
         /\ \A r \in Readers : lock = r => Whole(s, sent[s], FALSE, out[r] \o queue)
<1>1. (pc[s] = "ended") = FALSE
  OBVIOUS
<1>2. QED
  BY <1>1 DEF CompleteInv

LEMMA SendFrameComplete ==
  ASSUME StreamTypes, SoloInv, CompleteInv, NEW s \in Streams, SendFrame(s)
  PROVE  CompleteInv'
<1> SUFFICES ASSUME ~shared', ~spilled' PROVE CompleteInv'
  BY DEF CompleteInv
<1> DEFINE x == <<s, sent[s]>>
<1>1. /\ ~shared /\ ~spilled /\ pc[s] = "send" /\ queue' = Append(queue, x)
      /\ sent' = [sent EXCEPT ![s] = @ + 1]
      /\ UNCHANGED <<failed, out, lock, reader>>
  BY DEF SendFrame, readerVars, marks
<1>2. \/ pc' = [pc EXCEPT ![s] = "close"]
      \/ pc' = [pc EXCEPT ![s] = "read"]
  BY DEF SendFrame, Goto
<1>3. /\ pc \in [Streams -> {"idle", "read", "check", "send", "close", "mark", "end", "ended"}]
      /\ sent \in [Streams -> 0..(Chunks + 1)] /\ sent[s] \in 0..Chunks
      /\ queue \in Seq(Frames \union {End})
  BY <1>1 DEF StreamTypes, StreamTypeOK
<1>4. x \in Frames \union {End} /\ sent[s] \in Nat /\ sent'[s] = sent[s] + 1
  BY <1>1, <1>3, StreamAssumption DEF Frames
<1>5. pc'[s] # "idle" /\ (pc'[s] = "ended") = FALSE
      /\ \A t \in Streams : pc'[t] # "idle" => t = s
  BY <1>1, <1>2, <1>3, OnlyStream
<1>6. ASSUME ~failed'[s]
      PROVE  /\ \A r \in Readers : reader'[r] # "done"
             /\ lock' = NoReader => Whole(s, sent'[s], FALSE, queue')
             /\ \A r \in Readers : lock' = r => Whole(s, sent'[s], FALSE, out'[r] \o queue')
  <2>1. /\ \A r \in Readers : reader[r] # "done"
        /\ lock = NoReader => Whole(s, sent[s], FALSE, queue)
        /\ \A r \in Readers : lock = r => Whole(s, sent[s], FALSE, out[r] \o queue)
    BY <1>1, <1>6, SentOnWhole
  <2>2. ASSUME lock = NoReader PROVE Whole(s, sent[s] + 1, FALSE, Append(queue, x))
    BY <2>1, <2>2, <1>3, <1>4, WholeFrame
  <2>3. ASSUME NEW r \in Readers, lock = r
        PROVE  Whole(s, sent[s] + 1, FALSE, out[r] \o Append(queue, x))
    <3>1. /\ out[r] \o queue \in Seq(Frames \union {End})
          /\ out[r] \in Seq(Frames \union {End})
      BY OutIsFrames
    <3>2. Whole(s, sent[s] + 1, FALSE, Append(out[r] \o queue, x))
      BY <3>1, <2>1, <2>3, <1>4, WholeFrame
    <3>3. out[r] \o Append(queue, x) = Append(out[r] \o queue, x)
      BY <3>1, <1>3, <1>4, FramesAppend
    <3>4. QED
      BY <3>2, <3>3
  <2>4. QED
    BY <2>1, <2>2, <2>3, <1>1, <1>4
<1>7. QED
  BY <1>5, <1>6 DEF CompleteInv

LEMMA SendEndComplete ==
  ASSUME StreamTypes, SoloInv, CompleteInv, NEW s \in Streams, SendEnd(s)
  PROVE  CompleteInv'
<1> SUFFICES ASSUME ~shared', ~spilled' PROVE CompleteInv'
  BY DEF CompleteInv
<1>1. /\ ~shared /\ ~spilled /\ pc[s] = "end" /\ queue' = Append(queue, End)
      /\ pc' = [pc EXCEPT ![s] = "ended"]
      /\ UNCHANGED <<failed, sent, out, lock, reader>>
  BY DEF SendEnd, Goto, readerVars, marks
<1>2. /\ pc \in [Streams -> {"idle", "read", "check", "send", "close", "mark", "end", "ended"}]
      /\ sent[s] \in Nat
      /\ queue \in Seq(Frames \union {End}) /\ End \in Frames \union {End}
  BY StreamAssumption DEF StreamTypes, StreamTypeOK
<1>3. pc'[s] # "idle" /\ (pc'[s] = "ended") = TRUE
      /\ \A t \in Streams : pc'[t] # "idle" => t = s
  BY <1>1, <1>2, OnlyStream
<1>4. ASSUME ~failed'[s]
      PROVE  /\ \A r \in Readers : reader'[r] # "done"
             /\ lock' = NoReader => Whole(s, sent'[s], TRUE, queue')
             /\ \A r \in Readers : lock' = r => Whole(s, sent'[s], TRUE, out'[r] \o queue')
  <2>1. /\ \A r \in Readers : reader[r] # "done"
        /\ lock = NoReader => Whole(s, sent[s], FALSE, queue)
        /\ \A r \in Readers : lock = r => Whole(s, sent[s], FALSE, out[r] \o queue)
    BY <1>1, <1>4, SentOnWhole
  <2>2. ASSUME lock = NoReader PROVE Whole(s, sent[s], TRUE, Append(queue, End))
    BY <2>1, <2>2, <1>2, WholeEnd
  <2>3. ASSUME NEW r \in Readers, lock = r
        PROVE  Whole(s, sent[s], TRUE, out[r] \o Append(queue, End))
    <3>1. /\ out[r] \o queue \in Seq(Frames \union {End})
          /\ out[r] \in Seq(Frames \union {End})
      BY OutIsFrames
    <3>2. Whole(s, sent[s], TRUE, Append(out[r] \o queue, End))
      BY <3>1, <2>1, <2>3, <1>2, WholeEnd
    <3>3. out[r] \o Append(queue, End) = Append(out[r] \o queue, End)
      BY <3>1, <1>2, FramesAppend
    <3>4. QED
      BY <3>2, <3>3
  <2>4. QED
    BY <2>1, <2>2, <2>3, <1>1
<1>5. QED
  BY <1>3, <1>4 DEF CompleteInv

LEMMA LockComplete ==
  ASSUME StreamTypes, FrameOrderInv, CompleteInv, NEW r \in Readers, Lock(r)
  PROVE  CompleteInv'
<1> SUFFICES ASSUME ~shared', ~spilled' PROVE CompleteInv'
  BY DEF CompleteInv
<1>1. /\ ~shared /\ ~spilled /\ reader[r] = "waiting" /\ lock = NoReader /\ lock' = r
      /\ reader' = [reader EXCEPT ![r] = "reading"]
      /\ UNCHANGED <<queue, sent, out, pc, failed>>
  BY DEF Lock, streamVars, marks
<1>2. /\ reader \in [Readers -> {"idle", "waiting", "reading", "done", "failed"}]
      /\ queue \in Seq(Frames \union {End})
  BY DEF StreamTypes, StreamTypeOK
<1>3. out[r] = <<>>
  BY <1>1 DEF FrameOrderInv
<1>4. out[r] \o queue = queue
  BY <1>2, <1>3, EmptyConcat
<1>5. \A q \in Readers : /\ reader'[q] = "done" => reader[q] = "done"
                         /\ reader[q] = "done" => reader'[q] = "done"
  BY <1>1, <1>2
<1>6. (\A s \in Streams : pc'[s] = "idle") =>
        queue' = <<>> /\ \A q \in Readers : out'[q] = <<>> /\ reader'[q] # "done"
  BY <1>1, <1>5 DEF CompleteInv
<1>7. ASSUME NEW s \in Streams, pc'[s] # "idle", ~failed'[s], NEW p \in Readers,
             reader'[p] = "done"
      PROVE  /\ pc'[s] = "ended" /\ queue' = <<>>
             /\ \A q \in Readers : reader'[q] = "done" => out'[q] = WholeAnswer(s)
  BY <1>1, <1>5, <1>7 DEF CompleteInv
<1>8. ASSUME NEW s \in Streams, pc'[s] # "idle", ~failed'[s],
             \A q \in Readers : reader'[q] # "done"
      PROVE  /\ lock' = NoReader => Whole(s, sent'[s], pc'[s] = "ended", queue')
             /\ \A q \in Readers :
                  lock' = q => Whole(s, sent'[s], pc'[s] = "ended", out'[q] \o queue')
  <2>1. Whole(s, sent[s], pc[s] = "ended", queue)
    BY <1>1, <1>5, <1>8 DEF CompleteInv
  <2>2. Whole(s, sent'[s], pc'[s] = "ended", out'[r] \o queue')
    BY <2>1, <1>1, <1>4
  <2>3. QED
    BY <2>2, <1>1, StreamAssumption
<1>9. QED
  BY <1>6, <1>7, <1>8 DEF CompleteInv, WholeAnswer

LEMMA TakeFrameComplete ==
  ASSUME StreamTypes, SoloInv, DoneInv, FrameOrderInv, CompleteInv, NEW r \in Readers, TakeFrame(r)
  PROVE  CompleteInv'
<1> SUFFICES ASSUME ~shared', ~spilled' PROVE CompleteInv'
  BY DEF CompleteInv
<1> DEFINE T == Tail(queue)
           h == Head(queue)
<1>1. /\ ~shared /\ ~spilled /\ reader[r] = "reading" /\ queue # <<>> /\ queue' = T
      /\ UNCHANGED <<sent, pc, failed>>
      /\ IF h = End
         THEN reader' = [reader EXCEPT ![r] = "done"] /\ lock' = NoReader /\ UNCHANGED out
         ELSE out' = [out EXCEPT ![r] = Append(@, h)] /\ UNCHANGED <<reader, lock>>
  BY DEF TakeFrame, Leave, streamVars, marks
<1>2. /\ reader \in [Readers -> {"idle", "waiting", "reading", "done", "failed"}]
      /\ out \in [Readers -> Seq(Frames)] /\ lock \in Readers \union {NoReader}
      /\ pc \in [Streams -> {"idle", "read", "check", "send", "close", "mark", "end", "ended"}]
      /\ sent \in [Streams -> 0..(Chunks + 1)]
      /\ queue \in Seq(Frames \union {End})
  BY DEF StreamTypes, StreamTypeOK
<1>3. /\ out[r] \in Seq(Frames \union {End})
      /\ Append(out[r], h) \o T = out[r] \o queue
  BY <1>1, <1>2, OutIsFrames, TakeConcat
<1>4. lock = r
  BY <1>1 DEF FrameOrderInv
<1>5. ~\A s \in Streams : pc'[s] = "idle"
  BY <1>1 DEF CompleteInv
<1> HIDE DEF T, h
<1>6. ASSUME NEW s \in Streams, pc[s] # "idle", ~failed[s]
      PROVE  /\ \A q \in Readers : reader[q] # "done"
             /\ Whole(s, sent[s], pc[s] = "ended", out[r] \o queue)
  BY <1>1, <1>4, <1>6 DEF CompleteInv
<1>7. CASE h = End
  <2>1. reader' = [reader EXCEPT ![r] = "done"] /\ UNCHANGED out
    BY <1>1, <1>7
  <2>2. ASSUME NEW s \in Streams, pc'[s] # "idle", ~failed'[s]
        PROVE  /\ pc'[s] = "ended" /\ queue' = <<>>
               /\ \A q \in Readers : reader'[q] = "done" => out'[q] = WholeAnswer(s)
    <3>1. pc[s] # "idle" /\ ~failed[s] /\ sent[s] \in 0..(Chunks + 1)
      BY <2>2, <1>1, <1>2
    <3>2. \A q \in Readers : reader'[q] = "done" => q = r
      BY <3>1, <2>1, <1>2, <1>6
    <3>3. (pc[s] = "ended") \in BOOLEAN /\ out[r] \in Seq(Frames)
      BY <1>2
    <3>4. Whole(s, sent[s], pc[s] = "ended", out[r] \o queue)
      BY <3>1, <1>6
    <3>5. Head(queue) = End
      BY <1>7 DEF h
    <3>6. /\ pc[s] = "ended" /\ T = <<>>
          /\ Len(out[r]) = sent[s] /\ \A i \in 1..sent[s] : out[r][i] = <<s, i - 1>>
      <4> DEFINE n == sent[s]
                 F == out[r]
      <4>1. PICK over \in BOOLEAN : over = (pc[s] = "ended")
        BY <3>3
      <4>2. n \in 0..(Chunks + 1) /\ F \in Seq(Frames) /\ queue \in Seq(Frames \union {End})
            /\ queue # <<>> /\ Head(queue) = End /\ Whole(s, n, over, F \o queue)
        BY <3>1, <3>3, <3>4, <3>5, <4>1, <1>1, <1>2
      <4> HIDE DEF n, F
      <4>3. over = TRUE
        BY <4>2, WholeTaken
      <4>4. Tail(queue) = <<>>
        BY <4>2, WholeTaken
      <4>5. Len(F) = n /\ \A i \in 1..n : F[i] = <<s, i - 1>>
        <5>1. n \in 0..(Chunks + 1) /\ F \in Seq(Frames) /\ queue \in Seq(Frames \union {End})
          BY <4>2
        <5>2. queue # <<>> /\ Head(queue) = End /\ Whole(s, n, over, F \o queue)
          BY <4>2
        <5>3. QED
          BY <5>1, <5>2, WholeTaken, Zenon
      <4>6. QED
        BY <4>1, <4>3, <4>4, <4>5 DEF T, F, n
    <3>7. sent[s] = Chunks + 1
      BY <3>1, <3>6 DEF DoneInv
    <3>8. out[r] = WholeAnswer(s)
      BY <3>3, <3>6, <3>7, AllFrames
    <3>9. QED
      BY <3>2, <3>6, <3>8, <2>1, <1>1
  <2>3. \E q \in Readers : reader'[q] = "done"
    BY <2>1, <1>2
  <2>4. QED
    BY <2>2, <2>3, <1>5 DEF CompleteInv
<1>8. CASE h # End
  <2>1. out' = [out EXCEPT ![r] = Append(@, h)] /\ UNCHANGED <<reader, lock>>
    BY <1>1, <1>8
  <2>2. out'[r] \o queue' = out[r] \o queue
    BY <2>1, <1>1, <1>2, <1>3
  <2>3. ASSUME NEW s \in Streams, pc'[s] # "idle", ~failed'[s]
        PROVE  /\ \A q \in Readers : reader'[q] # "done"
               /\ Whole(s, sent'[s], pc'[s] = "ended", out'[r] \o queue')
    <3>1. pc[s] # "idle" /\ ~failed[s]
      BY <2>3, <1>1
    <3>2. Whole(s, sent[s], pc[s] = "ended", out[r] \o queue)
      BY <3>1, <1>6
    <3>3. Whole(s, sent'[s], pc'[s] = "ended", out'[r] \o queue')
      BY <3>2, <2>2, <1>1
    <3>4. QED
      BY <3>1, <3>3, <2>1, <1>6
  <2>4. lock' = r /\ lock' # NoReader
    BY <2>1, <1>4, StreamAssumption
  <2>5. QED
    BY <2>3, <2>4, <1>5 DEF CompleteInv
<1>9. QED
  BY <1>7, <1>8

LEMMA StreamNextComplete ==
  StreamTypes /\ SoloInv /\ DoneInv /\ FrameOrderInv /\ CompleteInv /\ [StreamNext]_channelVars
    => CompleteInv'
<1> SUFFICES ASSUME StreamTypes, SoloInv, DoneInv, FrameOrderInv, CompleteInv,
                    [StreamNext]_channelVars
             PROVE  CompleteInv'
  OBVIOUS
<1> DEFINE Goal == CompleteInv'
           Still == UNCHANGED <<queue, sent, out, lock, reader, shared, spilled>>
           Along == ~shared' => \A s \in Streams :
                      /\ pc[s] = "idle" => pc'[s] = "idle"
                      /\ pc'[s] = "idle" => pc[s] = "idle"
                      /\ ~failed'[s] => /\ ~failed[s]
                                        /\ (pc'[s] = "ended") = (pc[s] = "ended")
<1>1. /\ pc \in [Streams -> {"idle", "read", "check", "send", "close", "mark", "end", "ended"}]
      /\ failed \in [Streams -> BOOLEAN]
      /\ reader \in [Readers -> {"idle", "waiting", "reading", "done", "failed"}]
  BY DEF StreamTypes, StreamTypeOK
<1>2. ASSUME Still, Along PROVE Goal
  BY <1>2, CompleteKept
<1>3. ASSUME NEW s \in Streams, Start(s) PROVE Goal
  BY <1>3, StartComplete
<1>4. ASSUME NEW s \in Streams, ProviderStep(s) PROVE Still /\ Along
  BY <1>4 DEF ProviderStep, Provide, ProviderEnds, streamVars, readerVars, marks
<1>5. ASSUME NEW s \in Streams, ReceiveChunk(s) PROVE Still /\ Along
  BY <1>1, <1>5 DEF ReceiveChunk, Proceed, Fail, Goto, readerVars, marks
<1>6. ASSUME NEW s \in Streams, ReceiveEnd(s) PROVE Still /\ Along
  BY <1>1, <1>6 DEF ReceiveEnd, Proceed, Fail, Goto, readerVars, marks
<1>7. ASSUME NEW s \in Streams, Emit(s) PROVE Still /\ Along
  BY <1>1, <1>7 DEF Emit, Fail, Goto, readerVars, marks
<1>8. ASSUME NEW s \in Streams, SendFrame(s) PROVE Goal
  BY <1>8, SendFrameComplete
<1>9. ASSUME NEW s \in Streams, SendTimeout(s) PROVE Still /\ Along
  BY <1>1, <1>9 DEF SendTimeout, Fail, Goto, readerVars, marks
<1>10. ASSUME NEW s \in Streams, CloseStream(s) PROVE Still /\ Along
  <2>1. Still /\ pc[s] = "close" /\ UNCHANGED failed
        /\ pc' = [pc EXCEPT ![s] = IF emitterClosed THEN "ended" ELSE "mark"]
    BY <1>10 DEF CloseStream, Goto, readerVars, marks
  <2>2. ~shared' => ~emitterClosed
    BY <2>1 DEF SoloInv
  <2>3. QED
    BY <1>1, <2>1, <2>2
<1>11. ASSUME NEW s \in Streams, MarkClosed(s) PROVE Still /\ Along
  BY <1>1, <1>11 DEF MarkClosed, Goto, readerVars, marks
<1>12. ASSUME NEW s \in Streams, SendEnd(s) PROVE Goal
  BY <1>12, SendEndComplete
<1>13. ASSUME NEW s \in Streams, SendEndTimeout(s) PROVE Still /\ Along
  BY <1>1, <1>13 DEF SendEndTimeout, Goto, readerVars
<1>14. ASSUME NEW r \in Readers, Enter(r) PROVE Goal
  <2>1. /\ reader[r] = "idle" /\ reader' = [reader EXCEPT ![r] = "waiting"]
        /\ UNCHANGED <<queue, sent, out, lock, pc, failed, shared, spilled>>
    BY <1>14 DEF Enter, streamVars, marks
  <2>2. \A q \in Readers : /\ reader'[q] = "done" => reader[q] = "done"
                           /\ reader[q] = "done" => reader'[q] = "done"
    BY <2>1, <1>1
  <2>3. QED
    BY <2>1, <2>2, CompleteKept
<1>15. ASSUME NEW r \in Readers, Lock(r) PROVE Goal
  BY <1>15, LockComplete
<1>16. ASSUME NEW r \in Readers, TakeFrame(r) PROVE Goal
  BY <1>16, TakeFrameComplete
<1>17. ASSUME NEW r \in Readers, ReaderGivesUp(r) PROVE Goal
  BY <1>17 DEF ReaderGivesUp, CompleteInv
<1>18. ASSUME Cancel \/ UNCHANGED channelVars PROVE Still /\ Along
  BY <1>18 DEF Cancel, channelVars, streamVars, readerVars, marks
<1> HIDE DEF Goal, Still, Along
<1>19. QED
  BY <1>2, <1>3, <1>4, <1>5, <1>6, <1>7, <1>8, <1>9, <1>10, <1>11, <1>12, <1>13, <1>14,
     <1>15, <1>16, <1>17, <1>18 DEF StreamNext, StreamStep, Goal

\* A reader that ends after a stream that did not fail has all of it.
LEMMA CompleteImplies == CompleteInv => OkIsComplete
BY DEF CompleteInv, OkIsComplete, WholeAnswer

StreamInv == StreamTypes /\ FrameOrderInv /\ SoloInv /\ DoneInv /\ CompleteInv

\* What a reader returns of each stream is in order and without gaps, however
\* streams, readers, time-outs and cancellation interleave; and a reader that
\* ends normally has all of a stream that returned Ok, unless streams were open
\* together or an earlier reader failed.
THEOREM OutputIsFaithful == StreamSpec => []OutputFaithful
<1>1. StreamInit => StreamInv
  BY StreamInitTypes, StreamInitOrder, StreamInitSolo, StreamInitComplete DEF StreamInv
<1>2. StreamInv /\ [StreamNext]_channelVars => StreamInv'
  BY StreamNextTypes, StreamNextOrder, StreamNextSolo, StreamNextDone, StreamNextComplete
     DEF StreamInv
<1>3. StreamInv => OutputFaithful
  BY OrderImplies, CompleteImplies DEF StreamInv, StreamTypes, OutputFaithful
<1>4. QED
  BY <1>1, <1>2, <1>3, PTL DEF StreamSpec

----------------------------------------------------------------------------
(* Sets in ascending order.                                                *)

Ascends(f) == \A i, j \in DOMAIN f : i < j => f[i] < f[j]

\* A finite set of numbers can be listed in ascending order.
LEMMA AscendingExists ==
  ASSUME NEW S \in SUBSET Nat, IsFiniteSet(S)
  PROVE  \E f \in [1..Cardinality(S) -> S] : Ascends(f)
<1> DEFINE Listed(T) == \E f \in [1..Cardinality(T) -> T] : Ascends(f)
           Bad == {n \in Nat : \E T \in SUBSET Nat :
                     IsFiniteSet(T) /\ Cardinality(T) = n /\ ~Listed(T)}
<1>1. SUFFICES ASSUME ~Listed(S) PROVE FALSE
  OBVIOUS
<1>2. Cardinality(S) \in Bad
  BY <1>1, FS_CardinalityType
<1>3. Bad \in SUBSET Nat /\ Bad # {}
  BY <1>2
<1> HIDE DEF Listed
<1>4. PICK n \in Bad : \A m \in Bad : n <= m
  <2> HIDE DEF Bad
  <2>1. QED
    BY <1>3, SmallestOf
<1>5. PICK T \in SUBSET Nat : IsFiniteSet(T) /\ Cardinality(T) = n /\ ~Listed(T)
  BY <1>4
<1>6. T # {}
  <2>1. SUFFICES ASSUME T = {} PROVE FALSE
    OBVIOUS
  <2>2. Cardinality(T) = 0 /\ 1..0 = {}
    BY <2>1, FS_EmptySet
  <2> DEFINE f == [i \in 1..0 |-> i]
  <2>3. f \in [1..0 -> T] /\ Ascends(f)
    BY <2>2 DEF Ascends
  <2>4. QED
    BY <2>2, <2>3, <1>5 DEF Listed
<1>7. PICK m \in T : \A x \in T : m <= x
  BY <1>5, <1>6, SmallestOf
<1> DEFINE R == T \ {m}
<1>8. R \in SUBSET Nat /\ IsFiniteSet(R) /\ Cardinality(R) = n - 1 /\ n - 1 \in Nat
  <2>1. IsFiniteSet(R) /\ Cardinality(R) = n - 1
    BY <1>5, <1>7, FS_RemoveElement
  <2>2. Cardinality(R) \in Nat
    BY <2>1, FS_CardinalityType
  <2>3. QED
    BY <2>1, <2>2, <1>5
<1>9. Listed(R)
  <2>1. n - 1 \notin Bad
    BY <1>4, <1>8
  <2>2. QED
    BY <2>1, <1>8
<1>10. PICK g \in [1..(n - 1) -> R] : Ascends(g)
  BY <1>8, <1>9 DEF Listed
<1> DEFINE h == [i \in 1..n |-> IF i = 1 THEN m ELSE g[i - 1]]
<1>11. n \in Nat
  BY <1>4
<1>12. ASSUME NEW i \in 1..n PROVE h[i] \in T /\ (i # 1 => h[i] = g[i - 1] /\ h[i] \in R)
  BY <1>7, <1>10, <1>11
<1>13. h \in [1..n -> T]
  BY <1>12
<1>14. ASSUME NEW i \in 1..n, NEW j \in 1..n, i < j PROVE h[i] < h[j]
  <2>1. j # 1 /\ j - 1 \in 1..(n - 1) /\ h[j] = g[j - 1] /\ h[j] \in R
    BY <1>11, <1>12, <1>14
  <2>2. CASE i = 1
    <3>1. h[i] = m
      BY <2>2
    <3>2. m \in Nat /\ h[j] \in Nat /\ m <= h[j] /\ m # h[j]
      BY <2>1, <1>5, <1>7
    <3>3. QED
      BY <3>1, <3>2
  <2>3. CASE i # 1
    <3>1. i - 1 \in 1..(n - 1) /\ h[i] = g[i - 1] /\ i - 1 < j - 1
      BY <2>3, <1>11, <1>12, <1>14
    <3>2. g[i - 1] < g[j - 1]
      BY <3>1, <2>1, <1>10 DEF Ascends
    <3>3. QED
      BY <3>1, <3>2, <2>1
  <2>4. QED
    BY <2>2, <2>3
<1> HIDE DEF h
<1>15. Ascends(h)
  BY <1>13, <1>14 DEF Ascends
<1>16. QED
  BY <1>5, <1>13, <1>15 DEF Listed

\* Ascending lists every member once.
LEMMA AscendingLists ==
  ASSUME NEW S \in SUBSET Nat, IsFiniteSet(S)
  PROVE  /\ Ascending(S) \in Seq(S) /\ Len(Ascending(S)) = Cardinality(S)
         /\ Ascending(S) \in [1..Cardinality(S) -> S]
         /\ \A i, j \in 1..Cardinality(S) : Ascending(S)[i] = Ascending(S)[j] => i = j
         /\ \A x \in S : \E i \in 1..Cardinality(S) : Ascending(S)[i] = x
<1> DEFINE n == Cardinality(S)
           f == Ascending(S)
<1>1. n \in Nat
  BY FS_CardinalityType
<1>2. f \in [1..n -> S] /\ Ascends(f)
  BY AscendingExists DEF Ascending, Ascends
<1> HIDE DEF f, n
<1>3. \A i, j \in 1..n : f[i] = f[j] => i = j
  <2>1. SUFFICES ASSUME NEW i \in 1..n, NEW j \in 1..n, f[i] = f[j], i # j PROVE FALSE
    OBVIOUS
  <2>a. f[i] \in Nat
    BY <2>1, <1>2
  <2>b. i < j \/ j < i
    BY <2>1, <1>1
  <2>2. f[i] \in Nat /\ (i < j \/ j < i)
    BY <2>a, <2>b
  <2>3. f[i] < f[j] \/ f[j] < f[i]
    BY <2>1, <2>2, <1>2 DEF Ascends
  <2>4. QED
    BY <2>1, <2>2, <2>3
<1>4. f \in Injection(1..n, S)
  BY <1>2, <1>3 DEF Injection, IsInjective
<1>5. IsFiniteSet(1..n) /\ Cardinality(1..n) = n
  BY <1>1, FS_Interval
<1>6. f \in Surjection(1..n, S)
  BY <1>4, <1>5, FS_Injection DEF n
<1>7. \A x \in S : \E i \in 1..n : f[i] = x
  BY <1>6 DEF Surjection
<1>8. f \in Seq(S) /\ Len(f) = n
  BY <1>1, <1>2
<1>9. QED
  BY <1>2, <1>3, <1>7, <1>8 DEF f, n

----------------------------------------------------------------------------
(* The dependencies of a group.                                            *)

DeclaredOK ==
  provides \in [Plugins -> SUBSET Keys] /\ inject \in [Plugins -> SUBSET Keys]

\* The members of G that p depends on.
Needs(G, p) == {q \in G : inject[p] \cap provides[q] # {}}

\* One member provides a key.
LEMMA OneProvider ==
  ASSUME DeclaredOK, NEW G \in SUBSET Plugins, ~TwoProviders(G), NEW k \in Keys,
         NEW p \in Providers(G, k), NEW q \in Providers(G, k)
  PROVE  p = q
<1>1. SUFFICES ASSUME p # q PROVE FALSE
  OBVIOUS
<1>2. IsFiniteSet(Providers(G, k))
  BY KernelAssumption, FS_Subset DEF Providers
<1>3. {p, q} \in SUBSET Providers(G, k)
  OBVIOUS
<1>4. Cardinality({p, q}) = 2
  <2>1. IsFiniteSet({p}) /\ Cardinality({p}) = 1
    BY FS_Singleton
  <2>2. {p, q} = {p} \cup {q} /\ q \notin {p}
    BY <1>1
  <2>3. Cardinality({p} \cup {q}) = 2
    BY <2>1, <2>2, FS_AddElement
  <2>4. QED
    BY <2>2, <2>3
<1>5. Cardinality({p, q}) <= Cardinality(Providers(G, k)) /\ Cardinality(Providers(G, k)) \in Nat
  BY <1>2, <1>3, FS_Subset, FS_CardinalityType
<1>6. Cardinality(Providers(G, k)) > 1
  BY <1>4, <1>5
<1>7. QED
  BY <1>6 DEF TwoProviders

\* The visits a plugin makes are those of the members it depends on, at most one
\* for each key.
LEMMA DependenciesAre ==
  ASSUME DeclaredOK, NEW G \in SUBSET Plugins, ~TwoProviders(G), NEW p \in Plugins
  PROVE  /\ Dependencies(G, p) \in Seq(Visits)
         /\ Len(Dependencies(G, p)) <= Cardinality(Keys)
         /\ \A i \in DOMAIN Dependencies(G, p) :
              /\ Dependencies(G, p)[i][1] = "enter"
              /\ Dependencies(G, p)[i][2] \in Needs(G, p)
         /\ \A q \in Needs(G, p) : \E i \in DOMAIN Dependencies(G, p) :
              Dependencies(G, p)[i][2] = q
<1> DEFINE S == {k \in inject[p] : Providers(G, k) # {}}
           ks == Ascending(S)
           n == Cardinality(S)
           first(k) == CHOOSE q \in Providers(G, k) : TRUE
           D == [i \in DOMAIN ks |-> <<"enter", first(ks[i])>>]
<1>1. S \in SUBSET Keys /\ S \in SUBSET Nat /\ IsFiniteSet(S) /\ n <= Cardinality(Keys) /\ n \in Nat
  <2>1. S \in SUBSET Keys
    BY DEF DeclaredOK
  <2>2. IsFiniteSet(S) /\ Cardinality(S) <= Cardinality(Keys)
    BY <2>1, KernelAssumption, FS_Subset
  <2>3. QED
    BY <2>1, <2>2, KernelAssumption, FS_CardinalityType
<1> HIDE DEF n
<1>2. /\ ks \in [1..n -> S] /\ DOMAIN ks = 1..n
      /\ \A x \in S : \E i \in 1..n : ks[i] = x
  BY <1>1, AscendingLists DEF n
<1> HIDE DEF ks
<1>3. ASSUME NEW k \in S PROVE first(k) \in Providers(G, k) /\ first(k) \in Needs(G, p)
  <2>1. first(k) \in Providers(G, k)
    BY <1>3
  <2>2. QED
    BY <2>1, <1>3 DEF Providers, Needs
<1>4. \A i \in 1..n : ks[i] \in S
  BY <1>2
<1>5. DOMAIN D = 1..n /\ \A i \in 1..n : D[i] = <<"enter", first(ks[i])>>
  BY <1>2
<1>6. ASSUME NEW i \in 1..n PROVE D[i] \in Visits /\ D[i][1] = "enter" /\ D[i][2] \in Needs(G, p)
  <2>1. first(ks[i]) \in Needs(G, p)
    BY <1>3, <1>4
  <2> HIDE DEF first
  <2>2. QED
    BY <2>1, <1>5 DEF Visits, Needs
<1>7. D \in Seq(Visits) /\ Len(D) = n
  BY <1>1, <1>2, <1>6
<1>8. ASSUME NEW q \in Needs(G, p) PROVE \E i \in 1..n : D[i][2] = q
  <2>1. PICK k \in inject[p] : k \in provides[q] /\ q \in G
    BY DEF Needs
  <2>2. k \in S /\ q \in Providers(G, k) /\ k \in Keys
    BY <2>1 DEF Providers, DeclaredOK
  <2>3. PICK i \in 1..n : ks[i] = k
    BY <2>2, <1>2
  <2>4. first(k) \in Providers(G, k)
    BY <2>2, <1>3
  <2> HIDE DEF first
  <2>5. first(k) = q
    BY <2>2, <2>4, OneProvider
  <2>6. QED
    BY <2>3, <2>5, <1>5
<1>9. D = Dependencies(G, p)
  BY DEF Dependencies, ks
<1> HIDE DEF D
<1>10. QED
  BY <1>1, <1>5, <1>6, <1>7, <1>8, <1>9

\* The search begins with a visit of every member.
SearchStart(G) ==
  [colour |-> [p \in Plugins |-> "white"],
   stack |-> [i \in DOMAIN Ascending(G) |-> <<"enter", Ascending(G)[i]>>],
   order |-> <<>>, cycle |-> FALSE]

SearchOver(s) == s.cycle \/ s.stack = <<>>

\* A function that visits until the search is over.
Visiting(G, v) == v = [s \in Searches |-> IF SearchOver(s) THEN s ELSE v[Visit(G, s)]]

LEMMA SearchIs ==
  ASSUME NEW G, \E v : Visiting(G, v)
  PROVE  \E v : Visiting(G, v) /\ Search(G) = v[SearchStart(G)]
<1> DEFINE visit[s \in Searches] ==
             IF s.cycle \/ s.stack = <<>> THEN s ELSE visit[Visit(G, s)]
<1>1. visit = [s \in Searches |-> IF s.cycle \/ s.stack = <<>> THEN s ELSE visit[Visit(G, s)]]
  BY DEF Visiting, SearchOver
<1>2. Search(G) = visit[SearchStart(G)]
  BY DEF Search, SearchStart
<1> HIDE DEF visit
<1>3. QED
  BY <1>1, <1>2 DEF Visiting, SearchOver

\* What one visit does.
Left(s, t, p) ==
  /\ s.stack[1] = <<"leave", p>>
  /\ t.colour = [s.colour EXCEPT ![p] = "black"] /\ t.order = Append(s.order, p)
  /\ t.stack = Tail(s.stack) /\ t.cycle = FALSE

MetGray(s, t, p) ==
  /\ s.stack[1] = <<"enter", p>> /\ s.colour[p] = "gray"
  /\ t.colour = s.colour /\ t.order = s.order /\ t.stack = s.stack /\ t.cycle = TRUE

MetBlack(s, t, p) ==
  /\ s.stack[1] = <<"enter", p>> /\ s.colour[p] = "black"
  /\ t.colour = s.colour /\ t.order = s.order /\ t.stack = Tail(s.stack) /\ t.cycle = FALSE

Entered(G, s, t, p) ==
  /\ s.stack[1] = <<"enter", p>> /\ s.colour[p] = "white"
  /\ t.colour = [s.colour EXCEPT ![p] = "gray"] /\ t.order = s.order
  /\ t.stack = Dependencies(G, p) \o <<<<"leave", p>>>> \o Tail(s.stack) /\ t.cycle = FALSE

LEMMA VisitCases ==
  ASSUME DeclaredOK, NEW G \in SUBSET Plugins, ~TwoProviders(G),
         NEW s \in Searches, ~SearchOver(s)
  PROVE  /\ Visit(G, s) \in Searches
         /\ \E p \in Plugins : \/ Left(s, Visit(G, s), p)
                               \/ MetGray(s, Visit(G, s), p)
                               \/ MetBlack(s, Visit(G, s), p)
                               \/ Entered(G, s, Visit(G, s), p)
<1> DEFINE h == s.stack[1]
           p == h[2]
           rest == Tail(s.stack)
           t == Visit(G, s)
           C == [Plugins -> {"white", "gray", "black"}]
<1>0. s.cycle = FALSE
  BY DEF Searches, SearchOver
<1>1. /\ s = [colour |-> s.colour, stack |-> s.stack, order |-> s.order, cycle |-> s.cycle]
      /\ s.colour \in C /\ s.stack \in Seq(Visits) /\ s.order \in Seq(Plugins)
      /\ s.stack # <<>>
  BY DEF Searches, SearchOver
<1>2. Head(s.stack) = h /\ h \in Visits /\ rest \in Seq(Visits)
  BY <1>1
<1>3. p \in Plugins /\ (h = <<"enter", p>> \/ h = <<"leave", p>>)
  BY <1>2 DEF Visits
<1>4. CASE h = <<"leave", p>>
  <2>1. t = [s EXCEPT !.colour[p] = "black", !.order = Append(@, p), !.stack = rest]
    BY <1>2, <1>4 DEF Visit
  <2>2. t = [colour |-> [s.colour EXCEPT ![p] = "black"], stack |-> rest,
             order |-> Append(s.order, p), cycle |-> s.cycle]
    BY <2>1, <1>1
  <2>3. [s.colour EXCEPT ![p] = "black"] \in C /\ Append(s.order, p) \in Seq(Plugins)
    BY <1>1, <1>3
  <2>4. t \in Searches
    BY <2>2, <2>3, <1>1, <1>2 DEF Searches
  <2>5. Left(s, t, p)
    BY <2>2, <1>4, <1>0 DEF Left
  <2>6. QED
    BY <2>4, <2>5, <1>3
<1>5. CASE h = <<"enter", p>> /\ s.colour[p] = "gray"
  <2>1. t = [s EXCEPT !.cycle = TRUE]
    BY <1>2, <1>5 DEF Visit
  <2>2. t = [colour |-> s.colour, stack |-> s.stack, order |-> s.order, cycle |-> TRUE]
    BY <2>1, <1>1
  <2>3. t \in Searches
    BY <2>2, <1>1 DEF Searches
  <2>4. MetGray(s, t, p)
    BY <2>2, <1>5 DEF MetGray
  <2>5. QED
    BY <2>3, <2>4, <1>3
<1>6. CASE h = <<"enter", p>> /\ s.colour[p] = "black"
  <2>1. t = [s EXCEPT !.stack = rest]
    BY <1>2, <1>6 DEF Visit
  <2>2. t = [colour |-> s.colour, stack |-> rest, order |-> s.order, cycle |-> s.cycle]
    BY <2>1, <1>1
  <2>3. t \in Searches
    BY <2>2, <1>1, <1>2 DEF Searches
  <2>4. MetBlack(s, t, p)
    BY <2>2, <1>6, <1>0 DEF MetBlack
  <2>5. QED
    BY <2>3, <2>4, <1>3
<1>7. CASE h = <<"enter", p>> /\ s.colour[p] = "white"
  <2> DEFINE more == Dependencies(G, p) \o <<<<"leave", p>>>> \o rest
  <2>1. t = [s EXCEPT !.colour[p] = "gray", !.stack = more]
    BY <1>2, <1>7 DEF Visit
  <2>2. t = [colour |-> [s.colour EXCEPT ![p] = "gray"], stack |-> more,
             order |-> s.order, cycle |-> s.cycle]
    BY <2>1, <1>1
  <2>3. <<<<"leave", p>>>> \in Seq(Visits)
    BY <1>3 DEF Visits
  <2>4. Dependencies(G, p) \in Seq(Visits)
    BY <1>3, DependenciesAre
  <2>5. more \in Seq(Visits)
    BY <2>3, <2>4, <1>2
  <2>6. [s.colour EXCEPT ![p] = "gray"] \in C
    BY <1>1, <1>3
  <2> HIDE DEF more
  <2>7. t \in Searches
    BY <2>2, <2>5, <2>6, <1>1 DEF Searches
  <2>8. Entered(G, s, t, p)
    <3>1. /\ t.colour = [s.colour EXCEPT ![p] = "gray"] /\ t.order = s.order
          /\ t.stack = more /\ t.cycle = FALSE
      BY <2>2, <1>0
    <3> HIDE DEF t
    <3>2. QED
      BY <3>1, <1>7 DEF Entered, more
  <2>9. QED
    BY <2>7, <2>8, <1>3
<1>8. s.colour[p] \in {"white", "gray", "black"}
  BY <1>1, <1>3
<1>9. QED
  BY <1>3, <1>4, <1>5, <1>6, <1>7, <1>8

\* There is such a function, whether or not the search ends: it maps a search to
\* where it ends.
LEMMA VisitingExists ==
  ASSUME DeclaredOK, NEW G \in SUBSET Plugins, ~TwoProviders(G)
  PROVE  \E v : Visiting(G, v)
<1> DEFINE Shut(T) == \A s \in T : ~SearchOver(s) => Visit(G, s) \in T
           Ends(s) == {t \in Searches : /\ SearchOver(t)
                                        /\ \A T \in SUBSET Searches : Shut(T) /\ s \in T => t \in T}
           v == [s \in Searches |-> CHOOSE t : t \in Ends(s)]
<1>1. ASSUME NEW s \in Searches, SearchOver(s) PROVE v[s] = s
  <2>1. Shut({s}) /\ {s} \in SUBSET Searches
    BY <1>1
  <2>2. Ends(s) = {s}
    BY <1>1, <2>1
  <2> HIDE DEF Ends
  <2>3. QED
    BY <2>2
<1>2. ASSUME NEW s \in Searches, ~SearchOver(s) PROVE v[s] = v[Visit(G, s)]
  <2> DEFINE n == Visit(G, s)
  <2>1. n \in Searches
    BY <1>2, VisitCases
  <2> HIDE DEF n
  <2>2. ASSUME NEW t \in Ends(n) PROVE t \in Ends(s)
    <3>1. ASSUME NEW T \in SUBSET Searches, Shut(T), s \in T PROVE t \in T
      <4>1. n \in T
        BY <3>1, <1>2 DEF n
      <4>2. QED
        BY <4>1, <3>1, <2>2
    <3>2. QED
      BY <3>1, <2>2
  <2>3. ASSUME NEW t \in Ends(s) PROVE t \in Ends(n)
    <3>1. ASSUME NEW T \in SUBSET Searches, Shut(T), n \in T PROVE t \in T
      <4>1. Shut(T \cup {s}) /\ T \cup {s} \in SUBSET Searches
        BY <3>1 DEF n
      <4>2. t \in T \cup {s}
        BY <4>1, <2>3
      <4>3. QED
        BY <4>2, <2>3, <1>2
    <3>2. QED
      BY <3>1, <2>3
  <2>4. Ends(s) = Ends(n)
    BY <2>2, <2>3
  <2> HIDE DEF Ends
  <2>5. v[s] = v[n]
    BY <2>1, <2>4
  <2>6. QED
    BY <2>5 DEF n
<1>3. v = [s \in Searches |-> v[s]]
  OBVIOUS
<1> HIDE DEF v
<1>4. v = [s \in Searches |-> IF SearchOver(s) THEN s ELSE v[Visit(G, s)]]
  BY <1>1, <1>2, <1>3
<1>5. QED
  BY <1>4 DEF Visiting

----------------------------------------------------------------------------
(* What the search keeps.                                                  *)

Colours == [Plugins -> {"white", "gray", "black"}]

\* The order holds the plugins that are done, each after those it needs.
OrderSound(G, order, colour) ==
  /\ \A p \in Plugins : colour[p] = "black" => \E i \in 1..Len(order) : order[i] = p
  /\ \A i \in 1..Len(order) : colour[order[i]] = "black" /\ order[i] \in G
  /\ \A i, j \in 1..Len(order) : order[i] = order[j] => i = j
  /\ \A i \in 1..Len(order) : \A q \in Needs(G, order[i]) :
       \E j \in 1..(i - 1) : order[j] = q

\* The stack has one return for each plugin that is being visited.  What such a
\* plugin needs is done or comes before its return, and what stands right above
\* its return, down from the one before, it needs.
StackSound(G, stack, colour) ==
  /\ \A i \in 1..Len(stack) : stack[i][2] \in G
  /\ \A p \in Plugins : colour[p] = "gray" => \E i \in 1..Len(stack) : stack[i] = <<"leave", p>>
  /\ \A i \in 1..Len(stack) : stack[i][1] = "leave" => colour[stack[i][2]] = "gray"
  /\ \A i, j \in 1..Len(stack) : stack[i][1] = "leave" /\ stack[i] = stack[j] => i = j
  /\ \A i \in 1..Len(stack) : stack[i][1] = "leave" =>
       \A q \in Needs(G, stack[i][2]) :
         colour[q] = "black" \/ \E j \in 1..(i - 1) : stack[j][2] = q
  /\ \A i, j \in 1..Len(stack) :
       /\ i < j /\ stack[j][1] = "leave"
       /\ \A m \in (i + 1)..(j - 1) : stack[m][1] = "enter"
       => stack[i][2] \in Needs(G, stack[j][2])
  /\ \A p \in G : colour[p] = "black" \/ \E i \in 1..Len(stack) : stack[i][2] = p

LEMMA RestOfStack ==
  ASSUME NEW S, NEW st \in Seq(S), st # <<>>
  PROVE  /\ Len(st) \in Nat /\ Len(st) > 0 /\ Tail(st) \in Seq(S)
         /\ Len(Tail(st)) = Len(st) - 1
         /\ \A i \in 1..(Len(st) - 1) : Tail(st)[i] = st[i + 1]
OBVIOUS

\* The first visit taken off, when its plugin is done.
LEMMA RestSound ==
  ASSUME DeclaredOK, NEW G \in SUBSET Plugins, NEW st \in Seq(Visits), st # <<>>,
         NEW col \in Colours, NEW new \in Colours, NEW p \in Plugins,
         st[1] = <<"leave", p>> \/ (st[1] = <<"enter", p>> /\ col[p] = "black"),
         new = [col EXCEPT ![p] = "black"], StackSound(G, st, col)
  PROVE  StackSound(G, Tail(st), new)
<1> DEFINE R == Tail(st)
           n == Len(st)
<1>1. /\ n \in Nat /\ n > 0 /\ Len(R) = n - 1
      /\ \A i \in 1..(n - 1) : R[i] = st[i + 1]
  BY RestOfStack
<1> HIDE DEF R, n
<1>2. \A i \in 1..(n - 1) : i + 1 \in 1..n /\ R[i] = st[i + 1]
  BY <1>1
<1>3. \A i \in 2..n : i - 1 \in 1..(n - 1) /\ R[i - 1] = st[i]
  <2>1. SUFFICES ASSUME NEW i \in 2..n PROVE i - 1 \in 1..(n - 1) /\ R[i - 1] = st[i]
    OBVIOUS
  <2>2. i - 1 \in 1..(n - 1) /\ (i - 1) + 1 = i
    BY <1>1, <2>1
  <2>3. R[i - 1] = st[(i - 1) + 1]
    BY <1>1, <2>2
  <2>4. QED
    BY <2>2, <2>3
<1>4. st[1][2] = p /\ 1 \in 1..n
  BY <1>1
<1>5. new[p] = "black" /\ \A q \in Plugins : q # p => new[q] = col[q]
  BY DEF Colours
<1>6. \A i \in 1..n : st[i] \in Visits /\ st[i][2] \in Plugins
  BY DEF Visits, n
<1>7. \A i \in 2..n : st[i] # <<"leave", p>>
  <2>1. SUFFICES ASSUME NEW i \in 2..n, st[i] = <<"leave", p>> PROVE FALSE
    OBVIOUS
  <2>2. i \in 1..n /\ i # 1 /\ st[i][1] = "leave" /\ st[i][2] = p
    BY <1>1, <2>1
  <2>3. CASE st[1] = <<"leave", p>>
    <3>1. \A a, b \in 1..n : st[a][1] = "leave" /\ st[a] = st[b] => a = b
      BY DEF StackSound, n
    <3>2. QED
      BY <3>1, <2>1, <2>2, <2>3, <1>4
  <2>4. CASE col[p] = "black"
    BY <2>2, <2>4 DEF StackSound, n
  <2>5. QED
    BY <2>3, <2>4
<1>a. \A i \in 1..Len(R) : R[i][2] \in G
  BY <1>1, <1>2 DEF StackSound, n
<1>b. ASSUME NEW q \in Plugins, new[q] = "gray" PROVE \E i \in 1..Len(R) : R[i] = <<"leave", q>>
  <2>1. q # p /\ col[q] = "gray"
    BY <1>5, <1>b
  <2>2. PICK i \in 1..n : st[i] = <<"leave", q>>
    BY <2>1 DEF StackSound, n
  <2>3. i # 1
    BY <2>1, <2>2, <1>4
  <2>4. i \in 2..n
    BY <2>3, <1>1
  <2>5. QED
    BY <2>2, <2>4, <1>1, <1>3
<1>c. ASSUME NEW i \in 1..Len(R), R[i][1] = "leave" PROVE new[R[i][2]] = "gray"
  <2>1. i + 1 \in 1..n /\ i + 1 \in 2..n /\ R[i] = st[i + 1]
    BY <1>1, <1>2
  <2>2. col[st[i + 1][2]] = "gray"
    BY <2>1, <1>c DEF StackSound, n
  <2>3. st[i + 1] = <<"leave", st[i + 1][2]>>
    BY <2>1, <1>6, <1>c DEF Visits
  <2>4. st[i + 1][2] # p
    BY <2>1, <2>3, <1>7
  <2>5. QED
    BY <2>1, <2>2, <2>4, <1>5, <1>6
<1>d. ASSUME NEW i \in 1..Len(R), NEW j \in 1..Len(R), R[i][1] = "leave", R[i] = R[j]
      PROVE  i = j
  <2>1. i + 1 \in 1..n /\ R[i] = st[i + 1] /\ j + 1 \in 1..n /\ R[j] = st[j + 1]
    BY <1>1, <1>2
  <2>2. \A a, b \in 1..n : st[a][1] = "leave" /\ st[a] = st[b] => a = b
    BY DEF StackSound, n
  <2>3. st[i + 1][1] = "leave" /\ st[i + 1] = st[j + 1]
    BY <2>1, <1>d
  <2>4. i + 1 = j + 1
    BY <2>1, <2>2, <2>3
  <2>5. QED
    BY <2>4, <1>1
<1>e. ASSUME NEW i \in 1..Len(R), R[i][1] = "leave", NEW q \in Needs(G, R[i][2])
      PROVE  new[q] = "black" \/ \E j \in 1..(i - 1) : R[j][2] = q
  <2>1. i + 1 \in 1..n /\ R[i] = st[i + 1]
    BY <1>1, <1>2
  <2>2. col[q] = "black" \/ \E j \in 1..((i + 1) - 1) : st[j][2] = q
    BY <2>1, <1>e DEF StackSound, n
  <2>3. q \in Plugins
    BY DEF Needs
  <2>4. CASE col[q] = "black"
    BY <2>3, <2>4, <1>5
  <2>5. ASSUME NEW j \in 1..((i + 1) - 1), st[j][2] = q, q # p
        PROVE  \E m \in 1..(i - 1) : R[m][2] = q
    <3>1. j # 1
      BY <2>5, <1>4
    <3>2. j \in 2..n /\ j - 1 \in 1..(i - 1)
      BY <3>1, <2>1, <1>1
    <3>3. R[j - 1] = st[j]
      BY <3>2, <1>3
    <3>4. QED
      BY <3>2, <3>3, <2>5
  <2>6. QED
    BY <2>2, <2>4, <2>5, <1>5
<1>f. ASSUME NEW i \in 1..Len(R), NEW j \in 1..Len(R), i < j, R[j][1] = "leave",
             \A m \in (i + 1)..(j - 1) : R[m][1] = "enter"
      PROVE  R[i][2] \in Needs(G, R[j][2])
  <2>1. /\ i + 1 \in 1..n /\ R[i] = st[i + 1] /\ j + 1 \in 1..n /\ R[j] = st[j + 1]
        /\ i + 1 < j + 1
    BY <1>1, <1>2, <1>f
  <2>2. ASSUME NEW m \in ((i + 1) + 1)..((j + 1) - 1) PROVE st[m][1] = "enter"
    <3>1. m \in 2..n /\ m - 1 \in (i + 1)..(j - 1)
      BY <2>1, <1>1
    <3>2. QED
      BY <3>1, <1>3, <1>f
  <2>3. QED
    BY <2>1, <2>2, <1>f DEF StackSound, n
<1>g. ASSUME NEW q \in G, new[q] # "black" PROVE \E i \in 1..Len(R) : R[i][2] = q
  <2>1. q # p /\ col[q] # "black"
    BY <1>5, <1>g
  <2>2. PICK i \in 1..n : st[i][2] = q
    BY <2>1 DEF StackSound, n
  <2>3. i # 1
    BY <2>1, <2>2, <1>4
  <2>4. i \in 2..n
    BY <2>3, <1>1
  <2>5. QED
    BY <2>2, <2>4, <1>1, <1>3
<1>h. /\ \A q \in Plugins : new[q] = "gray" => \E i \in 1..Len(R) : R[i] = <<"leave", q>>
      /\ \A i \in 1..Len(R) : R[i][1] = "leave" => new[R[i][2]] = "gray"
      /\ \A i, j \in 1..Len(R) : R[i][1] = "leave" /\ R[i] = R[j] => i = j
  BY <1>b, <1>c, <1>d
<1>i. \A i \in 1..Len(R) : R[i][1] = "leave" =>
        \A q \in Needs(G, R[i][2]) : new[q] = "black" \/ \E j \in 1..(i - 1) : R[j][2] = q
  BY <1>e
<1>j. \A i, j \in 1..Len(R) :
        /\ i < j /\ R[j][1] = "leave"
        /\ \A m \in (i + 1)..(j - 1) : R[m][1] = "enter"
        => R[i][2] \in Needs(G, R[j][2])
  BY <1>f
<1>k. \A q \in G : new[q] = "black" \/ \E i \in 1..Len(R) : R[i][2] = q
  BY <1>g
<1>l. StackSound(G, R, new)
  BY <1>a, <1>h, <1>i, <1>j, <1>k DEF StackSound
<1> QED
  BY <1>l DEF R

\* A plugin is put in order when all it needs is.
LEMMA DoneSound ==
  ASSUME DeclaredOK, NEW G \in SUBSET Plugins, NEW st \in Seq(Visits), st # <<>>,
         NEW ord \in Seq(Plugins), NEW col \in Colours, NEW new \in Colours, NEW p \in Plugins,
         st[1] = <<"leave", p>>, new = [col EXCEPT ![p] = "black"],
         StackSound(G, st, col), OrderSound(G, ord, col)
  PROVE  OrderSound(G, Append(ord, p), new)
<1> DEFINE A == Append(ord, p)
           n == Len(ord)
<1>1. /\ n \in Nat /\ Len(A) = n + 1 /\ A[n + 1] = p
      /\ \A i \in 1..n : A[i] = ord[i]
  OBVIOUS
<1> HIDE DEF A, n
<1>2. 1 \in 1..Len(st) /\ st[1][1] = "leave" /\ st[1][2] = p /\ 1..(1 - 1) = {}
  BY RestOfStack
<1>3. p \in G /\ col[p] = "gray" /\ \A q \in Needs(G, p) : col[q] = "black"
  BY <1>2 DEF StackSound
<1>4. new[p] = "black" /\ \A q \in Plugins : q # p => new[q] = col[q]
  BY DEF Colours
<1>5. \A i \in 1..n : ord[i] \in Plugins /\ ord[i] # p
  BY <1>3 DEF OrderSound, n
<1>6. ASSUME NEW q \in Plugins, new[q] = "black" PROVE \E i \in 1..Len(A) : A[i] = q
  <2>1. CASE q = p
    <3>1. n + 1 \in 1..Len(A)
      BY <1>1
    <3>2. QED
      BY <2>1, <3>1, <1>1
  <2>2. CASE q # p
    <3>1. PICK i \in 1..n : ord[i] = q
      BY <2>2, <1>4, <1>6 DEF OrderSound, n
    <3>2. i \in 1..Len(A) /\ A[i] = q
      BY <3>1, <1>1
    <3>3. QED
      BY <3>2
  <2>3. QED
    BY <2>1, <2>2
<1>7. ASSUME NEW i \in 1..Len(A) PROVE new[A[i]] = "black" /\ A[i] \in G
  <2>1. CASE i = n + 1
    BY <2>1, <1>1, <1>3, <1>4
  <2>2. CASE i \in 1..n
    BY <2>2, <1>1, <1>4, <1>5 DEF OrderSound, n
  <2>3. QED
    BY <2>1, <2>2, <1>1
<1>8. ASSUME NEW i \in 1..Len(A), NEW j \in 1..Len(A), A[i] = A[j] PROVE i = j
  <2>1. \A a, b \in 1..n : ord[a] = ord[b] => a = b
    BY DEF OrderSound, n
  <2>2. (i \in 1..n \/ i = n + 1) /\ (j \in 1..n \/ j = n + 1)
    BY <1>1
  <2>3. QED
    BY <2>1, <2>2, <1>1, <1>5, <1>8
<1>9. ASSUME NEW i \in 1..Len(A), NEW q \in Needs(G, A[i])
      PROVE  \E j \in 1..(i - 1) : A[j] = q
  <2>1. CASE i = n + 1
    <3>1. q \in Plugins /\ col[q] = "black"
      BY <2>1, <1>1, <1>3, <1>9 DEF Needs
    <3>2. PICK j \in 1..n : ord[j] = q
      BY <3>1 DEF OrderSound, n
    <3>3. j \in 1..(i - 1) /\ A[j] = q
      BY <2>1, <3>2, <1>1
    <3>4. QED
      BY <3>3
  <2>2. CASE i \in 1..n
    <3>1. A[i] = ord[i]
      BY <2>2, <1>1
    <3>2. PICK j \in 1..(i - 1) : ord[j] = q
      BY <2>2, <3>1, <1>9 DEF OrderSound, n
    <3>3. A[j] = q
      BY <2>2, <3>2, <1>1
    <3>4. QED
      BY <3>2, <3>3
  <2>3. QED
    BY <2>1, <2>2, <1>1
<1>10. OrderSound(G, A, new)
  BY <1>6, <1>7, <1>8, <1>9 DEF OrderSound
<1>11. QED
  BY <1>10 DEF A

\* A white plugin that turns gray is in no order yet.
LEMMA GrayOrder ==
  ASSUME NEW G \in SUBSET Plugins, NEW ord \in Seq(Plugins), NEW col \in Colours,
         NEW new \in Colours, NEW p \in Plugins, col[p] = "white",
         new = [col EXCEPT ![p] = "gray"], OrderSound(G, ord, col)
  PROVE  OrderSound(G, ord, new)
<1>1. \A q \in Plugins : /\ new[q] = "black" => col[q] = "black"
                         /\ col[q] = "black" => new[q] = "black"
  BY DEF Colours
<1>2. \A i \in 1..Len(ord) : ord[i] \in Plugins
  OBVIOUS
<1>3. /\ \A q \in Plugins : new[q] = "black" => \E i \in 1..Len(ord) : ord[i] = q
      /\ \A i \in 1..Len(ord) : new[ord[i]] = "black" /\ ord[i] \in G
  BY <1>1, <1>2 DEF OrderSound
<1>4. QED
  BY <1>3 DEF OrderSound

\* A visit of a plugin that is being visited closes a cycle.
LEMMA GrayIsCycle ==
  ASSUME DeclaredOK, NEW G \in SUBSET Plugins, NEW st \in Seq(Visits), st # <<>>,
         NEW col \in Colours, NEW p \in Plugins, st[1] = <<"enter", p>>, col[p] = "gray",
         StackSound(G, st, col)
  PROVE  ~Acyclic(G)
<1>1. Len(st) \in Nat /\ Len(st) > 0
  BY RestOfStack
<1>2. PICK k \in 1..Len(st) : st[k] = <<"leave", p>>
  BY DEF StackSound
<1> DEFINE H == {st[i][2] : i \in {m \in 1..k : st[m][1] = "leave"}}
<1>3. p \in H /\ H \subseteq G
  BY <1>1, <1>2 DEF StackSound
<1>4. ASSUME NEW q \in H PROVE \E r \in H : r \in Needs(G, q)
  <2>1. PICK j \in 1..k : st[j][1] = "leave" /\ st[j][2] = q
    OBVIOUS
  <2>2. j # 1 /\ j \in Nat /\ j \in 1..Len(st)
    BY <2>1, <1>1
  <2> DEFINE Above == {m \in 1..(j - 1) : m = 1 \/ st[m][1] = "leave"}
             Gaps == {j - m : m \in Above}
  <2>3. 1 \in Above
    BY <2>1, <2>2
  <2>4. Gaps \in SUBSET Nat /\ Gaps # {}
    BY <2>2, <2>3
  <2> HIDE DEF Gaps
  <2>5. PICK g \in Gaps : \A h \in Gaps : g <= h
    BY <2>4, SmallestOf
  <2>6. PICK i \in Above : g = j - i
    BY <2>5 DEF Gaps
  <2>7. \A m \in Above : m <= i
    <3>1. SUFFICES ASSUME NEW m \in Above PROVE m <= i
      OBVIOUS
    <3>2. j - i <= j - m
      BY <2>5, <2>6 DEF Gaps
    <3>3. QED
      BY <3>2, <2>2
  <2>8. i \in 1..Len(st) /\ i < j /\ i \in 1..k
    BY <2>2, <2>1, <1>1
  <2>9. ASSUME NEW m \in (i + 1)..(j - 1) PROVE st[m][1] = "enter"
    <3>1. m \in 1..(j - 1) /\ m > i /\ m \in 1..Len(st)
      BY <2>2, <2>8
    <3>2. m \notin Above
      BY <3>1, <2>7, <2>8
    <3>3. st[m] \in Visits /\ st[m][1] # "leave"
      BY <3>1, <3>2
    <3>4. QED
      BY <3>3 DEF Visits
  <2>10. st[i][2] \in Needs(G, q)
    BY <2>1, <2>2, <2>8, <2>9 DEF StackSound
  <2>11. st[i][2] \in H
    <3>1. CASE i = 1
      BY <3>1, <1>3
    <3>2. CASE i # 1
      BY <3>2, <2>8
    <3>3. QED
      BY <3>1, <3>2
  <2>12. QED
    BY <2>10, <2>11
<1> HIDE DEF H
<1>5. ASSUME NEW q \in H PROVE inject[q] \cap UNION {provides[r] : r \in H} # {}
  <2>1. PICK r \in H : r \in Needs(G, q)
    BY <1>4
  <2>2. PICK x \in inject[q] : x \in provides[r]
    BY <2>1 DEF Needs
  <2>3. QED
    BY <2>1, <2>2
<1>6. H \in (SUBSET G) \ {{}}
  BY <1>3
<1>7. QED
  BY <1>5, <1>6 DEF Acyclic

\* A group all of which is in order has no cycle.
LEMMA OrderIsAcyclic ==
  ASSUME DeclaredOK, NEW G \in SUBSET Plugins, NEW ord \in Seq(Plugins), NEW col \in Colours,
         OrderSound(G, ord, col), \A p \in G : col[p] = "black"
  PROVE  Acyclic(G)
<1>1. SUFFICES ASSUME NEW H \in SUBSET G, H # {}
               PROVE  \E p \in H : inject[p] \cap UNION {provides[q] : q \in H} = {}
  BY DEF Acyclic
<1> DEFINE I == {i \in 1..Len(ord) : ord[i] \in H}
<1>2. PICK x \in H : TRUE
  BY <1>1
<1>3. x \in Plugins /\ col[x] = "black"
  BY <1>1
<1>4. \E i \in 1..Len(ord) : ord[i] = x
  BY <1>3 DEF OrderSound
<1>5. I \in SUBSET Nat /\ I # {}
  BY <1>4
<1>6. PICK i \in I : \A j \in I : i <= j
  BY <1>5, SmallestOf
<1> DEFINE p == ord[i]
<1>7. i \in 1..Len(ord) /\ p \in H /\ Len(ord) \in Nat
  BY <1>6
<1>8. ASSUME NEW q \in H PROVE inject[p] \cap provides[q] = {}
  <2>1. SUFFICES ASSUME q \in Needs(G, p) PROVE FALSE
    BY <1>1 DEF Needs
  <2>2. PICK j \in 1..(i - 1) : ord[j] = q
    BY <2>1, <1>7 DEF OrderSound
  <2>3. j \in I /\ j < i
    BY <2>2, <1>7
  <2>4. QED
    BY <2>3, <1>6, <1>7
<1>9. QED
  BY <1>7, <1>8

\* What a sequence put between two others looks like.
LEMMA Between ==
  ASSUME NEW S, NEW D \in Seq(S), NEW x \in S, NEW T \in Seq(S)
  PROVE  LET R == D \o <<x>> \o T
         IN /\ Len(R) = Len(D) + 1 + Len(T)
            /\ \A i \in 1..Len(D) : R[i] = D[i]
            /\ R[Len(D) + 1] = x
            /\ \A i \in 1..Len(T) : R[Len(D) + 1 + i] = T[i]
OBVIOUS

\* A plugin that is entered puts what it needs above its return.
LEMMA EnteredSound ==
  ASSUME DeclaredOK, NEW G \in SUBSET Plugins, ~TwoProviders(G),
         NEW st \in Seq(Visits), st # <<>>,
         NEW col \in Colours, NEW new \in Colours, NEW p \in Plugins,
         st[1] = <<"enter", p>>, col[p] = "white",
         new = [col EXCEPT ![p] = "gray"], StackSound(G, st, col)
  PROVE  StackSound(G, Dependencies(G, p) \o <<<<"leave", p>>>> \o Tail(st), new)
<1> DEFINE D == Dependencies(G, p)
           R == D \o <<<<"leave", p>>>> \o Tail(st)
           n == Len(st)
           d == Len(D)
<1>1. /\ n \in Nat /\ n > 0 /\ Tail(st) \in Seq(Visits) /\ Len(Tail(st)) = n - 1
      /\ \A i \in 1..(n - 1) : Tail(st)[i] = st[i + 1]
  BY RestOfStack
<1>2. /\ D \in Seq(Visits) /\ d \in Nat
      /\ \A i \in 1..d : D[i][1] = "enter" /\ D[i][2] \in Needs(G, p)
      /\ \A q \in Needs(G, p) : \E i \in 1..d : D[i][2] = q
  <2>1. D \in Seq(Visits)
    BY DependenciesAre
  <2>2. DOMAIN D = 1..d /\ d \in Nat
    BY <2>1
  <2> HIDE DEF d
  <2>3. QED
    BY <2>1, <2>2, DependenciesAre
<1>3. <<"leave", p>> \in Visits
  BY DEF Visits
<1> HIDE DEF D, n
<1>4. /\ Len(R) = d + 1 + Len(Tail(st))
      /\ \A i \in 1..d : R[i] = D[i]
      /\ R[d + 1] = <<"leave", p>>
      /\ \A i \in 1..Len(Tail(st)) : R[d + 1 + i] = Tail(st)[i]
  BY <1>1, <1>2, <1>3, Between
<1> HIDE DEF R, d
<1>5. Len(R) = d + n
  <2>1. \A a, b \in Nat : a + 1 + (b - 1) = a + b
    OBVIOUS
  <2>2. Len(R) = d + 1 + (n - 1)
    BY <1>1, <1>4
  <2>3. QED
    BY <2>1, <2>2, <1>1, <1>2
<1>6. \A i \in 2..n : i + d \in 1..Len(R) /\ R[i + d] = st[i]
  <2>1. SUFFICES ASSUME NEW i \in 2..n PROVE i + d \in 1..Len(R) /\ R[i + d] = st[i]
    OBVIOUS
  <2>2. i - 1 \in 1..(n - 1) /\ (i - 1) + 1 = i /\ d + 1 + (i - 1) = i + d /\ i + d \in 1..(d + n)
    BY <1>1, <1>2, <2>1
  <2>3. R[d + 1 + (i - 1)] = Tail(st)[i - 1] /\ Tail(st)[i - 1] = st[(i - 1) + 1]
    BY <1>1, <1>4, <2>2
  <2>4. QED
    BY <2>2, <2>3, <1>5
<1>7. ASSUME NEW i \in 1..Len(R), i \notin 1..d, i # d + 1
      PROVE  i - d \in 2..n /\ R[i] = st[i - d]
  <2>1. i - d \in 2..n /\ (i - d) + d = i
    BY <1>1, <1>2, <1>5, <1>7
  <2>2. R[(i - d) + d] = st[i - d]
    BY <2>1, <1>6
  <2>3. QED
    BY <2>1, <2>2
<1>8. d + 1 \in 1..Len(R) /\ R[d + 1][1] = "leave" /\ R[d + 1][2] = p /\ 2..n \in SUBSET (1..n)
  BY <1>1, <1>2, <1>4, <1>5
<1>9. new[p] = "gray" /\ \A q \in Plugins : q # p => new[q] = col[q]
  BY DEF Colours
<1>10. st[1][1] = "enter" /\ st[1][2] = p /\ 1 \in 1..n /\ p \in G
  <2>1. st[1][1] = "enter" /\ st[1][2] = p /\ 1 \in 1..n
    BY <1>1
  <2>2. QED
    BY <2>1 DEF StackSound, n
<1>11. \A i \in 1..n : st[i] \in Visits /\ st[i][2] \in Plugins
  BY DEF Visits, n
<1>12. \A i \in 1..d : R[i][1] = "enter" /\ R[i][2] \in Needs(G, p)
  BY <1>2, <1>4
<1>13. ASSUME NEW i \in 1..n, st[i][1] = "leave"
       PROVE  /\ st[i][2] # p /\ col[st[i][2]] = "gray" /\ new[st[i][2]] = "gray"
              /\ st[i] = <<"leave", st[i][2]>> /\ i \in 2..n
  <2>1. col[st[i][2]] = "gray"
    BY <1>13 DEF StackSound, n
  <2>2. st[i][2] # p /\ st[i][2] \in Plugins /\ i # 1
    BY <2>1, <1>10, <1>11, <1>13
  <2>3. st[i] = <<"leave", st[i][2]>>
    BY <1>11, <1>13 DEF Visits
  <2>4. i \in 2..n
    BY <2>2, <1>1
  <2>5. QED
    BY <2>1, <2>2, <2>3, <2>4, <1>9
<1>a. \A i \in 1..Len(R) : R[i][2] \in G
  <2>1. SUFFICES ASSUME NEW i \in 1..Len(R) PROVE R[i][2] \in G
    OBVIOUS
  <2>2. CASE i \in 1..d
    BY <2>2, <1>12 DEF Needs
  <2>3. CASE i = d + 1
    BY <2>3, <1>8, <1>10
  <2>4. CASE i \notin 1..d /\ i # d + 1
    <3>1. i - d \in 1..n /\ R[i] = st[i - d]
      BY <2>4, <1>7, <1>8
    <3>2. QED
      BY <3>1 DEF StackSound, n
  <2>5. QED
    BY <2>2, <2>3, <2>4
<1>b. \A q \in Plugins : new[q] = "gray" => \E i \in 1..Len(R) : R[i] = <<"leave", q>>
  <2>1. SUFFICES ASSUME NEW q \in Plugins, new[q] = "gray"
                 PROVE  \E i \in 1..Len(R) : R[i] = <<"leave", q>>
    OBVIOUS
  <2>2. CASE q = p
    BY <2>2, <1>4, <1>8
  <2>3. CASE q # p
    <3>1. PICK i \in 1..n : st[i] = <<"leave", q>>
      BY <2>1, <2>3, <1>9 DEF StackSound, n
    <3>2. i \in 2..n
      BY <3>1, <1>13
    <3>3. QED
      BY <3>1, <3>2, <1>6
  <2>4. QED
    BY <2>2, <2>3
<1>c. \A i \in 1..Len(R) : R[i][1] = "leave" => new[R[i][2]] = "gray"
  <2>1. SUFFICES ASSUME NEW i \in 1..Len(R), R[i][1] = "leave" PROVE new[R[i][2]] = "gray"
    OBVIOUS
  <2>2. i \notin 1..d
    BY <2>1, <1>12
  <2>3. CASE i = d + 1
    BY <2>3, <1>8, <1>9
  <2>4. CASE i # d + 1
    <3>1. i - d \in 1..n /\ R[i] = st[i - d]
      BY <2>2, <2>4, <1>7, <1>8
    <3>2. QED
      BY <3>1, <2>1, <1>13
  <2>5. QED
    BY <2>3, <2>4
<1>d. \A i, j \in 1..Len(R) : R[i][1] = "leave" /\ R[i] = R[j] => i = j
  <2>1. SUFFICES ASSUME NEW i \in 1..Len(R), NEW j \in 1..Len(R), R[i][1] = "leave", R[i] = R[j]
                 PROVE  i = j
    OBVIOUS
  <2>2. i \notin 1..d /\ j \notin 1..d
    BY <2>1, <1>12
  <2>3. ASSUME NEW k \in 1..Len(R), k \notin 1..d, k # d + 1, R[k][1] = "leave"
        PROVE  k - d \in 1..n /\ R[k] = st[k - d] /\ R[k][2] # p
    BY <2>3, <1>7, <1>8, <1>13
  <2>4. CASE i = d + 1
    BY <2>1, <2>2, <2>3, <2>4, <1>8
  <2>5. CASE j = d + 1
    BY <2>1, <2>2, <2>3, <2>5, <1>8
  <2>6. CASE i # d + 1 /\ j # d + 1
    <3>1. i - d \in 1..n /\ R[i] = st[i - d] /\ j - d \in 1..n /\ R[j] = st[j - d]
      BY <2>1, <2>2, <2>3, <2>6
    <3>2. \A a, b \in 1..n : st[a][1] = "leave" /\ st[a] = st[b] => a = b
      BY DEF StackSound, n
    <3>3. i - d = j - d
      BY <3>1, <3>2, <2>1
    <3>4. QED
      BY <3>3, <1>2
  <2>7. QED
    BY <2>4, <2>5, <2>6
<1>e. \A i \in 1..Len(R) : R[i][1] = "leave" =>
        \A q \in Needs(G, R[i][2]) : new[q] = "black" \/ \E j \in 1..(i - 1) : R[j][2] = q
  <2>1. SUFFICES ASSUME NEW i \in 1..Len(R), R[i][1] = "leave", NEW q \in Needs(G, R[i][2]),
                        new[q] # "black"
                 PROVE  \E j \in 1..(i - 1) : R[j][2] = q
    OBVIOUS
  <2>2. i \notin 1..d /\ q \in Plugins
    BY <2>1, <1>12 DEF Needs
  <2>3. CASE i = d + 1
    <3>1. PICK j \in 1..d : D[j][2] = q
      BY <2>1, <2>3, <1>2, <1>8
    <3>2. j \in 1..(i - 1) /\ R[j] = D[j]
      BY <3>1, <2>3, <1>2, <1>4
    <3>3. QED
      BY <3>1, <3>2
  <2>4. CASE i # d + 1
    <3>1. i - d \in 1..n /\ R[i] = st[i - d] /\ i - d \in 2..n
      BY <2>2, <2>4, <1>7, <1>8
    <3>2. col[q] # "black"
      BY <2>1, <2>2, <1>9
    <3>3. PICK j \in 1..((i - d) - 1) : st[j][2] = q
      BY <3>1, <3>2, <2>1 DEF StackSound, n
    <3>4. CASE j = 1
      <4>1. d + 1 \in 1..(i - 1) /\ R[d + 1][2] = q
        BY <3>1, <3>3, <3>4, <1>2, <1>8, <1>10
      <4>2. QED
        BY <4>1
    <3>5. CASE j # 1
      <4>1. j \in 2..n /\ j + d \in 1..(i - 1)
        BY <3>1, <3>3, <3>5, <1>1, <1>2
      <4>2. R[j + d] = st[j]
        BY <4>1, <1>6
      <4>3. QED
        BY <4>1, <4>2, <3>3
    <3>6. QED
      BY <3>4, <3>5
  <2>5. QED
    BY <2>3, <2>4
<1>f. \A i, j \in 1..Len(R) :
        /\ i < j /\ R[j][1] = "leave"
        /\ \A m \in (i + 1)..(j - 1) : R[m][1] = "enter"
        => R[i][2] \in Needs(G, R[j][2])
  <2>1. SUFFICES ASSUME NEW i \in 1..Len(R), NEW j \in 1..Len(R), i < j, R[j][1] = "leave",
                        \A m \in (i + 1)..(j - 1) : R[m][1] = "enter"
                 PROVE  R[i][2] \in Needs(G, R[j][2])
    OBVIOUS
  <2>2. j \notin 1..d
    BY <2>1, <1>12
  <2>3. CASE j = d + 1
    <3>1. i \in 1..d
      BY <2>1, <2>3, <1>2, <1>5, <1>1
    <3>2. QED
      BY <3>1, <2>3, <1>8, <1>12
  <2>4. CASE j # d + 1
    <3>1. j - d \in 2..n /\ R[j] = st[j - d] /\ j - d \in 1..n
      BY <2>2, <2>4, <1>7, <1>8
    <3>2. i \notin 1..d
      <4>1. SUFFICES ASSUME i \in 1..d PROVE FALSE
        OBVIOUS
      <4>2. d + 1 \in (i + 1)..(j - 1)
        BY <4>1, <3>1, <1>2, <1>5, <1>1
      <4>3. QED
        BY <4>2, <2>1, <1>8
    <3>3. i - d \in 1..n /\ R[i][2] = st[i - d][2] /\ i - d < j - d
      <4>1. CASE i = d + 1
        <5>1. i - d = 1
          BY <4>1, <1>2
        <5>2. QED
          BY <5>1, <4>1, <3>1, <1>8, <1>10
      <4>2. CASE i # d + 1
        <5>1. i - d \in 1..n /\ R[i] = st[i - d]
          BY <4>2, <3>2, <1>7, <1>8
        <5>2. i - d < j - d
          BY <2>1, <1>2
        <5>3. QED
          BY <5>1, <5>2
      <4>3. QED
        BY <4>1, <4>2
    <3>4. ASSUME NEW m \in ((i - d) + 1)..((j - d) - 1) PROVE st[m][1] = "enter"
      <4>1. m \in 2..n /\ m + d \in (i + 1)..(j - 1)
        BY <3>1, <3>3, <1>1, <1>2
      <4>2. R[m + d] = st[m]
        BY <4>1, <1>6
      <4>3. QED
        BY <4>1, <4>2, <2>1
    <3>5. st[j - d][1] = "leave"
      BY <3>1, <2>1
    <3>6. st[i - d][2] \in Needs(G, st[j - d][2])
      BY <3>1, <3>3, <3>4, <3>5 DEF StackSound, n
    <3>7. QED
      BY <3>1, <3>3, <3>6
  <2>5. QED
    BY <2>3, <2>4
<1>g. \A q \in G : new[q] = "black" \/ \E i \in 1..Len(R) : R[i][2] = q
  <2>1. SUFFICES ASSUME NEW q \in G, new[q] # "black" PROVE \E i \in 1..Len(R) : R[i][2] = q
    OBVIOUS
  <2>2. CASE q = p
    BY <2>2, <1>8
  <2>3. CASE q # p
    <3>1. PICK i \in 1..n : st[i][2] = q
      BY <2>1, <2>3, <1>9 DEF StackSound, n
    <3>2. i # 1
      BY <2>3, <3>1, <1>10
    <3>3. i \in 2..n
      BY <3>2, <1>1
    <3>4. QED
      BY <3>1, <3>3, <1>6
  <2>4. QED
    BY <2>2, <2>3
<1>h. StackSound(G, R, new)
  BY <1>a, <1>b, <1>c, <1>d, <1>e, <1>f, <1>g DEF StackSound
<1> QED
  BY <1>h DEF R, D

----------------------------------------------------------------------------
(* Where the search ends.                                                  *)

SearchInv(G, s) ==
  /\ OrderSound(G, s.order, s.colour)
  /\ StackSound(G, s.stack, s.colour)
  /\ s.cycle = TRUE => ~Acyclic(G)

LEMMA SearchBegins ==
  ASSUME NEW G \in SUBSET Plugins
  PROVE  SearchStart(G) \in Searches /\ SearchInv(G, SearchStart(G))
<1> DEFINE ps == Ascending(G)
           n == Cardinality(G)
           s == SearchStart(G)
           st == s.stack
<1>1. G \in SUBSET Nat /\ IsFiniteSet(G) /\ n \in Nat
  BY KernelAssumption, FS_Subset, FS_CardinalityType
<1>2. /\ ps \in [1..n -> G] /\ DOMAIN ps = 1..n
      /\ \A x \in G : \E i \in 1..n : ps[i] = x
  BY <1>1, AscendingLists
<1> HIDE DEF ps, n
<1>3. /\ s.colour = [p \in Plugins |-> "white"] /\ s.order = <<>> /\ s.cycle = FALSE
      /\ st = [i \in 1..n |-> <<"enter", ps[i]>>]
      /\ s = [colour |-> s.colour, stack |-> st, order |-> s.order, cycle |-> s.cycle]
  BY <1>2 DEF SearchStart, ps
<1>4. \A i \in 1..n : st[i] = <<"enter", ps[i]>> /\ ps[i] \in G
  BY <1>2, <1>3
<1> HIDE DEF st, s
<1>5. \A i \in 1..n : st[i] \in Visits /\ st[i][1] = "enter" /\ st[i][2] = ps[i]
  BY <1>4 DEF Visits
<1>6. st \in Seq(Visits) /\ Len(st) = n
  BY <1>1, <1>3, <1>5
<1>7. s.colour \in Colours /\ \A p \in Plugins : s.colour[p] = "white"
  BY <1>3 DEF Colours
<1>8. s \in Searches
  <2>1. s.order \in Seq(Plugins)
    <3>1. s.order = <<>> /\ <<>> \in Seq(Plugins)
      BY <1>3
    <3>2. QED
      BY <3>1
  <2>2. s.cycle \in BOOLEAN
    <3>1. s.cycle = FALSE
      BY <1>3
    <3>2. QED
      BY <3>1
  <2>3. s = [colour |-> s.colour, stack |-> st, order |-> s.order, cycle |-> s.cycle]
    BY <1>3
  <2>4. QED
    BY <2>1, <2>2, <2>3, <1>6, <1>7 DEF Searches, Colours
<1>9. OrderSound(G, s.order, s.colour)
  <2>1. Len(s.order) = 0 /\ 1..0 = {}
    BY <1>3
  <2>2. QED
    BY <2>1, <1>7 DEF OrderSound
<1>10. \A p \in G : \E i \in 1..Len(st) : st[i][2] = p
  <2>1. SUFFICES ASSUME NEW p \in G PROVE \E i \in 1..n : st[i][2] = p
    BY <1>6
  <2>2. PICK i \in 1..n : ps[i] = p
    BY <1>2
  <2>3. QED
    BY <2>2, <1>5
<1>11. /\ \A i \in 1..Len(st) : st[i][2] \in G
       /\ \A p \in Plugins : s.colour[p] # "gray"
       /\ \A i \in 1..Len(st) : st[i][1] # "leave"
  BY <1>4, <1>5, <1>6, <1>7
<1>12. StackSound(G, st, s.colour)
  BY <1>10, <1>11 DEF StackSound
<1>13. QED
  BY <1>3, <1>8, <1>9, <1>12 DEF SearchInv, s, st

LEMMA SearchKeeps ==
  ASSUME DeclaredOK, NEW G \in SUBSET Plugins, ~TwoProviders(G),
         NEW s \in Searches, ~SearchOver(s), SearchInv(G, s)
  PROVE  SearchInv(G, Visit(G, s))
<1> DEFINE t == Visit(G, s)
<1>1. /\ s.colour \in Colours /\ s.stack \in Seq(Visits) /\ s.order \in Seq(Plugins)
      /\ s.stack # <<>>
  BY DEF Searches, SearchOver, Colours
<1>2. t \in Searches /\ \E p \in Plugins : \/ Left(s, t, p) \/ MetGray(s, t, p)
                                           \/ MetBlack(s, t, p) \/ Entered(G, s, t, p)
  BY VisitCases
<1> HIDE DEF t
<1>3. t.colour \in Colours
  BY <1>2 DEF Searches, Colours
<1>4. OrderSound(G, s.order, s.colour) /\ StackSound(G, s.stack, s.colour)
  BY DEF SearchInv
<1>5. PICK p \in Plugins : \/ Left(s, t, p) \/ MetGray(s, t, p)
                           \/ MetBlack(s, t, p) \/ Entered(G, s, t, p)
  BY <1>2
<1>6. CASE Left(s, t, p)
  <2>1. /\ s.stack[1] = <<"leave", p>> /\ t.colour = [s.colour EXCEPT ![p] = "black"]
        /\ t.order = Append(s.order, p) /\ t.stack = Tail(s.stack) /\ t.cycle = FALSE
    BY <1>6 DEF Left
  <2>2. OrderSound(G, Append(s.order, p), t.colour)
    BY <2>1, <1>1, <1>3, <1>4, DoneSound
  <2>3. StackSound(G, Tail(s.stack), t.colour)
    BY <2>1, <1>1, <1>3, <1>4, RestSound
  <2>4. QED
    BY <2>1, <2>2, <2>3 DEF SearchInv, t
<1>7. CASE MetGray(s, t, p)
  <2>1. /\ s.stack[1] = <<"enter", p>> /\ s.colour[p] = "gray" /\ t.colour = s.colour
        /\ t.order = s.order /\ t.stack = s.stack
    BY <1>7 DEF MetGray
  <2>2. ~Acyclic(G)
    BY <2>1, <1>1, <1>4, GrayIsCycle
  <2>3. QED
    BY <2>1, <2>2, <1>4 DEF SearchInv, t
<1>8. CASE MetBlack(s, t, p)
  <2>1. /\ s.stack[1] = <<"enter", p>> /\ s.colour[p] = "black" /\ t.colour = s.colour
        /\ t.order = s.order /\ t.stack = Tail(s.stack) /\ t.cycle = FALSE
    BY <1>8 DEF MetBlack
  <2>2. t.colour = [s.colour EXCEPT ![p] = "black"]
    BY <2>1, <1>1 DEF Colours
  <2>3. StackSound(G, Tail(s.stack), t.colour)
    BY <2>1, <2>2, <1>1, <1>3, <1>4, RestSound
  <2>4. QED
    BY <2>1, <2>3, <1>4 DEF SearchInv, t
<1>9. CASE Entered(G, s, t, p)
  <2> DEFINE more == Dependencies(G, p) \o <<<<"leave", p>>>> \o Tail(s.stack)
  <2>1. /\ s.stack[1] = <<"enter", p>> /\ s.colour[p] = "white"
        /\ t.colour = [s.colour EXCEPT ![p] = "gray"]
        /\ t.order = s.order /\ t.stack = more /\ t.cycle = FALSE
    BY <1>9 DEF Entered
  <2>2. OrderSound(G, s.order, t.colour)
    BY <2>1, <1>1, <1>3, <1>4, GrayOrder
  <2>3. StackSound(G, more, t.colour)
    BY <2>1, <1>1, <1>3, <1>4, EnteredSound
  <2> HIDE DEF more
  <2>4. QED
    BY <2>1, <2>2, <2>3 DEF SearchInv, t
<1>10. QED
  BY <1>5, <1>6, <1>7, <1>8, <1>9

White(s) == {p \in Plugins : s.colour[p] = "white"}

\* A visit that finds no cycle makes fewer plugins white, or the stack shorter.
LEMMA VisitShrinks ==
  ASSUME DeclaredOK, NEW G \in SUBSET Plugins, ~TwoProviders(G),
         NEW s \in Searches, ~SearchOver(s), ~SearchOver(Visit(G, s))
  PROVE  LET w == Cardinality(White(s))
             x == Cardinality(White(Visit(G, s)))
         IN /\ w \in Nat /\ x \in Nat /\ Len(s.stack) \in Nat /\ Len(Visit(G, s).stack) \in Nat
            /\ x < w \/ (x <= w /\ Len(Visit(G, s).stack) < Len(s.stack))
<1> DEFINE t == Visit(G, s)
<1>1. /\ s.colour \in Colours /\ s.stack \in Seq(Visits) /\ s.stack # <<>>
  BY DEF Searches, SearchOver, Colours
<1>2. t \in Searches /\ \E p \in Plugins : \/ Left(s, t, p) \/ MetGray(s, t, p)
                                           \/ MetBlack(s, t, p) \/ Entered(G, s, t, p)
  BY VisitCases
<1> HIDE DEF t
<1>3. t.stack \in Seq(Visits)
  BY <1>2 DEF Searches
<1>4. PICK p \in Plugins : \/ Left(s, t, p) \/ MetBlack(s, t, p) \/ Entered(G, s, t, p)
  <2>1. t.cycle # TRUE
    BY DEF SearchOver, t
  <2>2. QED
    BY <2>1, <1>2 DEF MetGray
<1>5. /\ IsFiniteSet(White(s)) /\ IsFiniteSet(White(t))
      /\ Cardinality(White(s)) \in Nat /\ Cardinality(White(t)) \in Nat
      /\ Len(s.stack) \in Nat /\ Len(t.stack) \in Nat
  <2>1. White(s) \in SUBSET Plugins /\ White(t) \in SUBSET Plugins
    BY DEF White
  <2>2. IsFiniteSet(White(s)) /\ IsFiniteSet(White(t))
    BY <2>1, KernelAssumption, FS_Subset
  <2>3. QED
    BY <2>2, <1>1, <1>3, FS_CardinalityType
<1>6. CASE Left(s, t, p) \/ MetBlack(s, t, p)
  <2>1. White(t) \in SUBSET White(s)
    BY <1>1, <1>6 DEF Left, MetBlack, White, Colours
  <2>2. Cardinality(White(t)) <= Cardinality(White(s))
    BY <2>1, <1>5, FS_Subset
  <2>3. t.stack = Tail(s.stack)
    BY <1>6 DEF Left, MetBlack
  <2>4. Len(t.stack) = Len(s.stack) - 1
    BY <2>3, <1>1, RestOfStack
  <2>5. QED
    BY <2>2, <2>4, <1>5 DEF t
<1>7. CASE Entered(G, s, t, p)
  <2>1. White(t) = White(s) \ {p} /\ p \in White(s)
    BY <1>1, <1>7 DEF Entered, White, Colours
  <2>2. Cardinality(White(t)) = Cardinality(White(s)) - 1
    BY <2>1, <1>5, FS_RemoveElement
  <2>3. QED
    BY <2>2, <1>5 DEF t
<1>8. QED
  BY <1>4, <1>6, <1>7

\* The search ends, with the order of the group or on a cycle.
LEMMA SearchEnds ==
  ASSUME DeclaredOK, NEW G \in SUBSET Plugins, ~TwoProviders(G)
  PROVE  Search(G) \in Searches /\ SearchInv(G, Search(G)) /\ SearchOver(Search(G))
<1> DEFINE Good(t) == t \in Searches /\ SearchInv(G, t) /\ SearchOver(t)
<1>1. PICK v : Visiting(G, v) /\ Search(G) = v[SearchStart(G)]
  BY VisitingExists, SearchIs
<1>2. \A s \in Searches : v[s] = IF SearchOver(s) THEN s ELSE v[Visit(G, s)]
  <2>1. v = [s \in Searches |-> IF SearchOver(s) THEN s ELSE v[Visit(G, s)]]
    BY <1>1 DEF Visiting
  <2>2. QED
    BY <2>1
<1> DEFINE Bad == {s \in Searches : SearchInv(G, s) /\ ~Good(v[s])}
<1>3. SUFFICES ASSUME NEW b \in Bad PROVE FALSE
  <2>1. SearchStart(G) \in Searches /\ SearchInv(G, SearchStart(G))
    BY SearchBegins
  <2>2. SearchStart(G) \notin Bad
    BY <1>3
  <2>3. QED
    BY <2>1, <2>2, <1>1
<1>4. ASSUME NEW s \in Bad
      PROVE  /\ ~SearchOver(s) /\ ~SearchOver(Visit(G, s))
             /\ Visit(G, s) \in Bad /\ s \in Searches
  <2>1. s \in Searches /\ SearchInv(G, s) /\ ~Good(v[s])
    OBVIOUS
  <2>2. ~SearchOver(s)
    BY <2>1, <1>2
  <2>3. Visit(G, s) \in Searches /\ SearchInv(G, Visit(G, s))
    BY <2>1, <2>2, VisitCases, SearchKeeps
  <2>4. v[s] = v[Visit(G, s)]
    BY <2>1, <2>2, <1>2
  <2>5. Visit(G, s) \in Bad
    BY <2>1, <2>3, <2>4
  <2>6. ~SearchOver(Visit(G, s))
    <3>1. SUFFICES ASSUME SearchOver(Visit(G, s)) PROVE FALSE
      OBVIOUS
    <3>2. v[Visit(G, s)] = Visit(G, s)
      BY <3>1, <2>3, <1>2
    <3>3. QED
      BY <3>1, <3>2, <2>3, <2>5
  <2>7. QED
    BY <2>1, <2>2, <2>5, <2>6
<1> HIDE DEF Bad
<1> DEFINE w(s) == Cardinality(White(s))
           l(s) == Len(s.stack)
<1>5. ASSUME NEW s \in Bad
      PROVE  /\ w(s) \in Nat /\ w(Visit(G, s)) \in Nat /\ l(s) \in Nat /\ l(Visit(G, s)) \in Nat
             /\ w(Visit(G, s)) < w(s) \/ (w(Visit(G, s)) <= w(s) /\ l(Visit(G, s)) < l(s))
  BY <1>4, VisitShrinks
<1> HIDE DEF w, l
<1> DEFINE Ws == {w(s) : s \in Bad}
<1>6. Ws \in SUBSET Nat /\ Ws # {}
  BY <1>3, <1>5
<1> HIDE DEF Ws
<1>7. PICK m \in Ws : \A k \in Ws : m <= k
  BY <1>6, SmallestOf
<1> DEFINE Ls == {l(s) : s \in {r \in Bad : w(r) = m}}
<1>8. Ls \in SUBSET Nat /\ Ls # {}
  BY <1>5, <1>7 DEF Ws
<1> HIDE DEF Ls
<1>9. PICK h \in Ls : \A k \in Ls : h <= k
  BY <1>8, SmallestOf
<1>10. PICK s \in Bad : w(s) = m /\ l(s) = h
  BY <1>9 DEF Ls
<1> DEFINE t == Visit(G, s)
<1>11. t \in Bad
  BY <1>4
<1>12. /\ w(t) \in Nat /\ m \in Nat /\ l(t) \in Nat /\ h \in Nat
       /\ w(t) < m \/ (w(t) <= m /\ l(t) < h)
  BY <1>5, <1>10
<1> HIDE DEF t
<1>13. m <= w(t)
  BY <1>7, <1>11 DEF Ws
<1>14. w(t) = m /\ l(t) < h
  BY <1>12, <1>13
<1>15. h <= l(t)
  BY <1>9, <1>11, <1>14 DEF Ls
<1>16. QED
  BY <1>12, <1>14, <1>15

\* What a search finds: a cycle when there is one, else each member once, after
\* the members it needs.
LEMMA SearchFinds ==
  ASSUME DeclaredOK, NEW G \in SUBSET Plugins, ~TwoProviders(G)
  PROVE  /\ Search(G).order \in Seq(Plugins)
         /\ Search(G).cycle = TRUE => ~Acyclic(G)
         /\ Search(G).cycle # TRUE =>
              /\ Acyclic(G)
              /\ \A i, j \in 1..Len(Search(G).order) :
                   Search(G).order[i] = Search(G).order[j] => i = j
              /\ \A i \in 1..Len(Search(G).order) : Search(G).order[i] \in G
              /\ \A p \in G : \E i \in 1..Len(Search(G).order) : Search(G).order[i] = p
              /\ \A i \in 1..Len(Search(G).order) : \A q \in Needs(G, Search(G).order[i]) :
                   \E j \in 1..(i - 1) : Search(G).order[j] = q
<1> DEFINE s == Search(G)
<1>1. s \in Searches /\ SearchInv(G, s) /\ SearchOver(s)
  BY SearchEnds
<1> HIDE DEF s
<1>2. /\ s.order \in Seq(Plugins) /\ s.cycle \in BOOLEAN /\ s.colour \in Colours
      /\ s.stack \in Seq(Visits)
  BY <1>1 DEF Searches, Colours
<1>3. OrderSound(G, s.order, s.colour) /\ (s.cycle = TRUE => ~Acyclic(G))
  BY <1>1 DEF SearchInv
<1>4. ASSUME s.cycle # TRUE
      PROVE  Acyclic(G) /\ \A p \in G : s.colour[p] = "black"
  <2>1. s.stack = <<>>
    BY <1>1, <1>4, <1>2 DEF SearchOver
  <2>2. Len(s.stack) = 0 /\ 1..0 = {}
    BY <2>1
  <2>3. \A p \in G : s.colour[p] = "black"
    BY <2>2, <1>1 DEF SearchInv, StackSound
  <2>4. Acyclic(G)
    BY <2>3, <1>2, <1>3, OrderIsAcyclic
  <2>5. QED
    BY <2>3, <2>4
<1>5. ASSUME s.cycle # TRUE, NEW p \in G PROVE \E i \in 1..Len(s.order) : s.order[i] = p
  BY <1>3, <1>4, <1>5 DEF OrderSound
<1>6. /\ \A i, j \in 1..Len(s.order) : s.order[i] = s.order[j] => i = j
      /\ \A i \in 1..Len(s.order) : s.order[i] \in G
      /\ \A i \in 1..Len(s.order) : \A q \in Needs(G, s.order[i]) :
           \E j \in 1..(i - 1) : s.order[j] = q
  BY <1>3 DEF OrderSound
<1>7. QED
  BY <1>2, <1>3, <1>4, <1>5, <1>6 DEF s

----------------------------------------------------------------------------
(* The types, and what mounting begins with.                               *)

\* An order of a group: each member once, after the members it needs.
OrderOf(G, list) ==
  /\ list \in Seq(Plugins) /\ IsInjective(list)
  /\ \A i \in 1..Len(list) : list[i] \in G
  /\ \A p \in G : \E i \in 1..Len(list) : list[i] = p
  /\ \A i \in 1..Len(list) : \A q \in Needs(G, list[i]) : \E j \in 1..(i - 1) : list[j] = q

LEMMA MountAllCases ==
  ASSUME DeclaredOK, NEW c \in Callers, MountAll(c)
  PROVE  \E G \in SUBSET Plugins :
           \/ Begin(c, "refusing", <<>>, Fits(G)) /\ ~Fits(G)
           \/ \E list : /\ Begin(c, "check", list, Fits(G)) /\ OrderOf(G, list)
                        /\ ~TwoProviders(G) /\ Acyclic(G)
<1>1. PICK G \in SUBSET Plugins :
        IF TwoProviders(G) \/ Search(G).cycle
        THEN Begin(c, "refusing", <<>>, Fits(G))
        ELSE Begin(c, "check", Search(G).order, Fits(G))
  BY DEF MountAll
<1>2. CASE TwoProviders(G)
  BY <1>1, <1>2 DEF Fits
<1>3. CASE ~TwoProviders(G) /\ Search(G).cycle = TRUE
  <2>1. ~Acyclic(G)
    BY <1>3, SearchFinds
  <2>2. Begin(c, "refusing", <<>>, Fits(G))
    BY <1>1, <1>3
  <2>3. QED
    BY <2>1, <2>2 DEF Fits
<1>4. CASE ~TwoProviders(G) /\ Search(G).cycle # TRUE
  <2> DEFINE s == Search(G)
             list == s.order
  <2>1. s.cycle = FALSE
    <3>1. s \in Searches
      BY <1>4, SearchEnds
    <3> HIDE DEF s
    <3>2. s.cycle \in BOOLEAN
      BY <3>1 DEF Searches
    <3>3. QED
      BY <3>2, <1>4 DEF s
  <2>2. Begin(c, "check", list, Fits(G))
    BY <1>1, <1>4, <2>1
  <2>3. /\ list \in Seq(Plugins) /\ Acyclic(G)
        /\ \A i, j \in 1..Len(list) : list[i] = list[j] => i = j
        /\ \A i \in 1..Len(list) : list[i] \in G
        /\ \A p \in G : \E i \in 1..Len(list) : list[i] = p
        /\ \A i \in 1..Len(list) : \A q \in Needs(G, list[i]) : \E j \in 1..(i - 1) : list[j] = q
    BY <1>4, SearchFinds
  <2> HIDE DEF list
  <2>4. IsInjective(list)
    BY <2>3 DEF IsInjective
  <2>5. OrderOf(G, list)
    BY <2>3, <2>4 DEF OrderOf
  <2>6. QED
    BY <2>2, <2>3, <2>5, <1>4
<1>5. QED
  BY <1>2, <1>3, <1>4

\* The plugin in hand is the first of the list, and the keys that are still to be
\* looked up or registered are its own.
PlaceInv == \A c \in Callers :
  /\ stage[c] \in {"needs", "offers", "apply"} => todo[c] # <<>>
  /\ stage[c] = "needs" => keys[c] \subseteq inject[todo[c][1]]
  /\ stage[c] \in {"offers", "apply"} => keys[c] \subseteq provides[todo[c][1]]

\* A call begins with a list of plugins, no two the same.
LEMMA BeginTyped ==
  ASSUME KernelTypeOK, NEW c \in Callers, NEW place \in Places, NEW list \in Seq(Plugins),
         IsInjective(list), NEW fit, Begin(c, place, list, fit)
  PROVE  KernelTypeOK'
<1>1. /\ stage' = [stage EXCEPT ![c] = place] /\ todo' = [todo EXCEPT ![c] = list]
      /\ verdict' = [verdict EXCEPT ![c] = IF fit THEN "mount" ELSE "refuse"]
      /\ UNCHANGED <<provides, inject, registry, keys, effects, contested>>
  BY DEF Begin, Enters, declared
<1>2. stage' \in [Callers -> Places] /\ todo' \in [Callers -> Seq(Plugins)]
  BY <1>1 DEF KernelTypeOK
<1>3. verdict' \in [Callers -> {"open", "mount", "refuse"}]
  BY <1>1 DEF KernelTypeOK
<1>4. \A d \in Callers : todo'[d] = list \/ todo'[d] = todo[d]
  BY <1>1 DEF KernelTypeOK
<1>5. \A d \in Callers : IsInjective(todo'[d])
  BY <1>4 DEF KernelTypeOK
<1>6. QED
  BY <1>1, <1>2, <1>3, <1>5 DEF KernelTypeOK

LEMMA TailInjective ==
  ASSUME NEW S, NEW q \in Seq(S), q # <<>>, IsInjective(q)
  PROVE  Tail(q) \in Seq(S) /\ IsInjective(Tail(q))
<1>1. /\ Len(q) \in Nat /\ Tail(q) \in Seq(S) /\ Len(Tail(q)) = Len(q) - 1
      /\ \A i \in 1..(Len(q) - 1) : Tail(q)[i] = q[i + 1]
  BY RestOfStack
<1>2. DOMAIN Tail(q) = 1..(Len(q) - 1) /\ DOMAIN q = 1..Len(q)
  BY <1>1
<1>3. ASSUME NEW i \in 1..(Len(q) - 1), NEW j \in 1..(Len(q) - 1), Tail(q)[i] = Tail(q)[j]
      PROVE  i = j
  <2>1. i + 1 \in 1..Len(q) /\ j + 1 \in 1..Len(q) /\ q[i + 1] = q[j + 1]
    BY <1>1, <1>3
  <2>2. i + 1 = j + 1
    BY <2>1, <1>2 DEF IsInjective
  <2>3. QED
    BY <2>2
<1>4. QED
  BY <1>1, <1>2, <1>3 DEF IsInjective

LEMMA KernelTyped ==
  ASSUME KernelTypeOK, PlaceInv, [KernelNext]_kernelVars
  PROVE  KernelTypeOK'
<1> DEFINE Goal == KernelTypeOK'
<1>1. /\ provides \in [Plugins -> SUBSET Keys] /\ inject \in [Plugins -> SUBSET Keys]
      /\ registry \in [Keys -> {Nobody} \cup (Callers \X Plugins)]
      /\ stage \in [Callers -> Places] /\ todo \in [Callers -> Seq(Plugins)]
      /\ \A c \in Callers : IsInjective(todo[c])
      /\ keys \in [Callers -> SUBSET Keys] /\ effects \in [Callers -> SUBSET Effects]
      /\ verdict \in [Callers -> {"open", "mount", "refuse"}] /\ contested \in SUBSET Keys
  BY DEF KernelTypeOK
<1>2. IsInjective(<<>>) /\ \A p : IsInjective(<<p>>)
  BY DEF IsInjective
<1>3. ASSUME NEW c \in Callers, MountAll(c) PROVE Goal
  <2>1. PICK G \in SUBSET Plugins :
          \/ Begin(c, "refusing", <<>>, Fits(G)) /\ ~Fits(G)
          \/ \E list : /\ Begin(c, "check", list, Fits(G)) /\ OrderOf(G, list)
                       /\ ~TwoProviders(G) /\ Acyclic(G)
    BY <1>1, <1>3, MountAllCases DEF DeclaredOK
  <2>2. CASE Begin(c, "refusing", <<>>, Fits(G))
    <3>1. "refusing" \in Places /\ <<>> \in Seq(Plugins)
      BY DEF Places
    <3>2. QED
      BY <2>2, <3>1, <1>2, BeginTyped
  <2>3. CASE \E list : Begin(c, "check", list, Fits(G)) /\ OrderOf(G, list)
    <3>1. PICK list : Begin(c, "check", list, Fits(G)) /\ OrderOf(G, list)
      BY <2>3
    <3>2. "check" \in Places /\ list \in Seq(Plugins) /\ IsInjective(list)
      BY <3>1 DEF Places, OrderOf
    <3>3. QED
      BY <3>1, <3>2, BeginTyped
  <2>4. QED
    BY <2>1, <2>2, <2>3
<1>4. ASSUME NEW c \in Callers, Mount(c) PROVE Goal
  <2>1. PICK p \in Plugins : Begin(c, "check", <<p>>, Mountable(p))
    BY <1>4 DEF Mount
  <2>2. "check" \in Places /\ <<p>> \in Seq(Plugins) /\ IsInjective(<<p>>)
    BY <1>2 DEF Places
  <2>3. QED
    BY <2>1, <2>2, BeginTyped
<1>5. ASSUME NEW c \in Callers, TakeUp(c) \/ OffersFree(c) \/ NeedsFound(c) PROVE Goal
  <2>1. /\ \E place \in {"needs", "offers", "apply"} : stage' = [stage EXCEPT ![c] = place]
        /\ \/ keys' = [keys EXCEPT ![c] = provides[Head(todo[c])]]
           \/ keys' = [keys EXCEPT ![c] = inject[Head(todo[c])]]
        /\ todo[c] # <<>>
        /\ UNCHANGED <<provides, inject, registry, todo, effects, verdict>>
    BY <1>5 DEF TakeUp, OffersFree, NeedsFound, Enters, declared, PlaceInv
  <2>2. stage' \in [Callers -> Places]
    BY <2>1, <1>1 DEF Places
  <2>3. Head(todo[c]) \in Plugins
    BY <2>1, <1>1
  <2>4. provides[Head(todo[c])] \in SUBSET Keys /\ inject[Head(todo[c])] \in SUBSET Keys
    BY <2>3, <1>1
  <2>5. keys' \in [Callers -> SUBSET Keys]
    BY <2>1, <2>4, <1>1
  <2>6. contested' \in SUBSET Keys
    <3>1. CASE TakeUp(c) \/ OffersFree(c)
      BY <3>1, <1>1 DEF TakeUp, OffersFree
    <3>2. CASE NeedsFound(c)
      BY <3>2, <2>4, <1>1 DEF NeedsFound
    <3>3. QED
      BY <3>1, <3>2, <1>5
  <2>7. QED
    BY <2>1, <2>2, <2>5, <2>6, <1>1 DEF KernelTypeOK
<1>15. ASSUME NEW c \in Callers, LookUpNeed(c) \/ LookUpOffer(c) PROVE Goal
  <2>1. PICK k \in keys[c] :
          \/ /\ keys' = [keys EXCEPT ![c] = @ \ {k}]
             /\ UNCHANGED <<stage, todo>>
          \/ /\ keys' = [keys EXCEPT ![c] = {}] /\ todo' = [todo EXCEPT ![c] = <<>>]
             /\ stage' = [stage EXCEPT ![c] = "refusing"]
    BY <1>15 DEF LookUpNeed, LookUpOffer, LookUp, Enters
  <2>2. UNCHANGED <<provides, inject, registry, effects, verdict, contested>>
    BY <1>15 DEF LookUpNeed, LookUpOffer, LookUp, declared
  <2>3. stage' \in [Callers -> Places] /\ keys' \in [Callers -> SUBSET Keys]
    <3>1. "refusing" \in Places
      BY DEF Places
    <3>2. stage' \in [Callers -> Places]
      BY <2>1, <3>1, <1>1
    <3>3. keys[c] \ {k} \in SUBSET Keys /\ {} \in SUBSET Keys
      BY <1>1
    <3>4. PICK left \in SUBSET Keys : keys' = [keys EXCEPT ![c] = left]
      BY <2>1, <3>3
    <3>5. keys' \in [Callers -> SUBSET Keys]
      BY <3>4, <1>1
    <3>6. QED
      BY <3>2, <3>5
  <2>4. todo' \in [Callers -> Seq(Plugins)] /\ \A d \in Callers : IsInjective(todo'[d])
    <3>1. CASE todo' = todo
      BY <3>1, <1>1
    <3>2. CASE todo' = [todo EXCEPT ![c] = <<>>]
      <4>1. \A d \in Callers : todo'[d] = <<>> \/ todo'[d] = todo[d]
        BY <3>2, <1>1
      <4>2. todo' \in [Callers -> Seq(Plugins)]
        BY <3>2, <1>1
      <4>3. QED
        BY <4>1, <4>2, <1>1, <1>2
    <3>3. QED
      BY <2>1, <3>1, <3>2
  <2>5. QED
    BY <2>2, <2>3, <2>4, <1>1 DEF KernelTypeOK
<1>6. ASSUME NEW c \in Callers, RegisterKey(c) PROVE Goal
  <2>1. PICK k \in keys[c] :
          /\ registry' = [registry EXCEPT ![k] = <<c, Head(todo[c])>>]
          /\ effects' = [effects EXCEPT ![c] = @ \cup {[plugin |-> Head(todo[c]), key |-> k]}]
          /\ keys' = [keys EXCEPT ![c] = @ \ {k}]
    BY <1>6 DEF RegisterKey
  <2>2. /\ UNCHANGED <<provides, inject, stage, todo, contested>>
        /\ verdict' = [d \in Callers |-> IF d = c THEN verdict[d] ELSE "open"]
        /\ stage[c] = "apply"
    BY <1>6 DEF RegisterKey, Disturb, declared
  <2>3. Head(todo[c]) \in Plugins /\ k \in Keys
    BY <2>2, <1>1 DEF PlaceInv
  <2>4. [plugin |-> Head(todo[c]), key |-> k] \in Effects
    BY <2>3 DEF Effects
  <2>5. effects' \in [Callers -> SUBSET Effects]
    BY <2>1, <2>4, <1>1
  <2>6. registry' \in [Keys -> {Nobody} \cup (Callers \X Plugins)]
    BY <2>1, <2>3, <1>1
  <2>7. keys' \in [Callers -> SUBSET Keys]
    BY <2>1, <1>1
  <2>8. verdict' \in [Callers -> {"open", "mount", "refuse"}]
    BY <2>2, <1>1
  <2>9. QED
    BY <2>2, <2>5, <2>6, <2>7, <2>8, <1>1 DEF KernelTypeOK
<1>7. ASSUME NEW c \in Callers, Applied(c) PROVE Goal
  <2>1. /\ stage[c] = "apply" /\ stage' = [stage EXCEPT ![c] = "check"]
        /\ todo' = [todo EXCEPT ![c] = Tail(@)]
        /\ UNCHANGED <<provides, inject, registry, keys, effects, verdict, contested>>
    BY <1>7 DEF Applied, Enters, declared
  <2>2. stage' \in [Callers -> Places]
    BY <2>1, <1>1 DEF Places
  <2>3. todo[c] # <<>>
    BY <2>1 DEF PlaceInv
  <2>4. Tail(todo[c]) \in Seq(Plugins) /\ IsInjective(Tail(todo[c]))
    BY <2>3, <1>1, TailInjective
  <2>5. todo' \in [Callers -> Seq(Plugins)]
    BY <2>1, <2>4, <1>1
  <2>6. \A d \in Callers : todo'[d] = Tail(todo[c]) \/ todo'[d] = todo[d]
    BY <2>1, <1>1
  <2>7. \A d \in Callers : IsInjective(todo'[d])
    BY <2>4, <2>6, <1>1
  <2>8. QED
    BY <2>1, <2>2, <2>5, <2>7, <1>1 DEF KernelTypeOK
<1>8. ASSUME NEW c \in Callers, ApplyFails(c) PROVE Goal
  <2>1. /\ stage' = [stage EXCEPT ![c] = "failing"] /\ keys' = [keys EXCEPT ![c] = {}]
        /\ UNCHANGED <<provides, inject, registry, todo, effects, verdict, contested>>
    BY <1>8 DEF ApplyFails, Enters, declared
  <2>2. stage' \in [Callers -> Places] /\ keys' \in [Callers -> SUBSET Keys]
    BY <2>1, <1>1 DEF Places
  <2>3. QED
    BY <2>1, <2>2, <1>1 DEF KernelTypeOK
<1>9. ASSUME NEW c \in Callers, Mounted(c) PROVE Goal
  <2>1. /\ stage' = [stage EXCEPT ![c] = "mounted"]
        /\ UNCHANGED <<provides, inject, registry, todo, keys, effects, verdict, contested>>
    BY <1>9 DEF Mounted, Enters, declared
  <2>2. stage' \in [Callers -> Places]
    BY <2>1, <1>1 DEF Places
  <2>3. QED
    BY <2>1, <2>2, <1>1 DEF KernelTypeOK
<1>10. ASSUME NEW c \in Callers, Unmount(c) PROVE Goal
  <2>1. /\ stage' = [stage EXCEPT ![c] = "unmounting"] /\ verdict' = [verdict EXCEPT ![c] = "open"]
        /\ UNCHANGED <<provides, inject, registry, todo, keys, effects, contested>>
    BY <1>10 DEF Unmount, Enters, declared
  <2>2. stage' \in [Callers -> Places] /\ verdict' \in [Callers -> {"open", "mount", "refuse"}]
    BY <2>1, <1>1 DEF Places
  <2>3. QED
    BY <2>1, <2>2, <1>1 DEF KernelTypeOK
<1>11. ASSUME NEW c \in Callers, Undo(c) PROVE Goal
  <2>1. PICK e \in effects[c] : /\ registry' = [registry EXCEPT ![e.key] = Nobody]
                                /\ effects' = [effects EXCEPT ![c] = @ \ {e}]
    BY <1>11 DEF Undo
  <2>2. /\ verdict' = [d \in Callers |-> IF d = c THEN verdict[d] ELSE "open"]
        /\ UNCHANGED <<provides, inject, stage, todo, keys, contested>>
    BY <1>11 DEF Undo, Disturb, declared
  <2>3. registry' \in [Keys -> {Nobody} \cup (Callers \X Plugins)]
    BY <2>1, <1>1
  <2>4. effects' \in [Callers -> SUBSET Effects]
    BY <2>1, <1>1
  <2>5. verdict' \in [Callers -> {"open", "mount", "refuse"}]
    BY <2>2, <1>1
  <2>6. QED
    BY <2>2, <2>3, <2>4, <2>5, <1>1 DEF KernelTypeOK
<1>12. ASSUME NEW c \in Callers, Undone(c) PROVE Goal
  <2>1. /\ stage' = [stage EXCEPT ![c] = "idle"] /\ verdict' = [verdict EXCEPT ![c] = "open"]
        /\ todo' = [todo EXCEPT ![c] = <<>>] /\ contested' \subseteq contested
        /\ UNCHANGED <<provides, inject, registry, keys, effects>>
    BY <1>12 DEF Undone, Enters, declared
  <2>2. /\ stage' \in [Callers -> Places] /\ verdict' \in [Callers -> {"open", "mount", "refuse"}]
        /\ todo' \in [Callers -> Seq(Plugins)]
    BY <2>1, <1>1 DEF Places
  <2>3. \A d \in Callers : todo'[d] = <<>> \/ todo'[d] = todo[d]
    BY <2>1, <1>1
  <2>4. \A d \in Callers : IsInjective(todo'[d])
    BY <2>3, <1>1, <1>2
  <2>5. QED
    BY <2>1, <2>2, <2>4, <1>1 DEF KernelTypeOK
<1>13. ASSUME UNCHANGED kernelVars PROVE Goal
  BY <1>13 DEF KernelTypeOK, kernelVars, declared, callVars
<1> HIDE DEF Goal
<1>14. Goal
  <2>1. CASE KernelNext
    <3>1. PICK c \in Callers : \/ MountAll(c) \/ Mount(c) \/ TakeUp(c) \/ LookUpNeed(c)
                               \/ NeedsFound(c) \/ LookUpOffer(c) \/ OffersFree(c)
                               \/ RegisterKey(c) \/ Applied(c) \/ ApplyFails(c) \/ Mounted(c)
                               \/ Unmount(c) \/ Undo(c) \/ Undone(c)
      BY <2>1 DEF KernelNext
    <3>2. QED
      BY <3>1, <1>3, <1>4, <1>5, <1>6, <1>7, <1>8, <1>9, <1>10, <1>11, <1>12, <1>15
  <2>2. QED
    BY <2>1, <1>13
<1>16. QED
  BY <1>14 DEF Goal

----------------------------------------------------------------------------
(* The actions, told for their caller and for the others.                  *)

\* A step of c leaves the others where they are, and what their calls should end
\* in stays told only while the registry stays as it is.
Aside(c) ==
  /\ \A d \in Callers \ {c} :
       /\ stage'[d] = stage[d] /\ todo'[d] = todo[d] /\ keys'[d] = keys[d]
       /\ effects'[d] = effects[d]
       /\ verdict'[d] = "open" \/ (verdict'[d] = verdict[d] /\ registry' = registry)
  /\ provides' = provides /\ inject' = inject

\* The variables that hold something for each caller.
LEMMA PerCaller ==
  ASSUME KernelTypeOK
  PROVE  /\ DOMAIN stage = Callers /\ DOMAIN todo = Callers /\ DOMAIN keys = Callers
         /\ DOMAIN effects = Callers /\ DOMAIN verdict = Callers
         /\ stage = [c \in Callers |-> stage[c]] /\ todo = [c \in Callers |-> todo[c]]
         /\ keys = [c \in Callers |-> keys[c]] /\ effects = [c \in Callers |-> effects[c]]
         /\ verdict = [c \in Callers |-> verdict[c]]
BY DEF KernelTypeOK

LEMMA BeginAt ==
  ASSUME KernelTypeOK, NEW c \in Callers, NEW place, NEW list, NEW fit, Begin(c, place, list, fit)
  PROVE  /\ Aside(c)
         /\ stage'[c] = place /\ todo'[c] = list
         /\ verdict'[c] = IF fit THEN "mount" ELSE "refuse"
         /\ registry' = registry /\ effects' = effects /\ keys' = keys
         /\ contested' = contested
BY PerCaller DEF Begin, Enters, Aside, declared

\* The first plugin of a list, in the two ways the definitions name it.
LEMMA InHand ==
  ASSUME KernelTypeOK, NEW c \in Callers, todo[c] # <<>>
  PROVE  Head(todo[c]) = todo[c][1] /\ todo[c][1] \in Plugins
BY DEF KernelTypeOK

LEMMA TakeUpAt ==
  ASSUME KernelTypeOK, NEW c \in Callers, TakeUp(c)
  PROVE  /\ Aside(c)
         /\ stage[c] = "check" /\ todo[c] # <<>>
         /\ stage'[c] = "needs" /\ todo'[c] = todo[c] /\ keys'[c] = inject[todo[c][1]]
         /\ verdict'[c] = verdict[c]
         /\ registry' = registry /\ effects' = effects /\ contested' = contested
BY PerCaller, InHand DEF TakeUp, Enters, Aside, declared

\* A look-up that is fine goes on to the next key; one that is not ends the call.
Looked(c, k) == stage'[c] = stage[c] /\ todo'[c] = todo[c] /\ keys'[c] = keys[c] \ {k}

LEMMA NeedAt ==
  ASSUME KernelTypeOK, NEW c \in Callers, LookUpNeed(c)
  PROVE  /\ Aside(c)
         /\ stage[c] = "needs" /\ verdict'[c] = verdict[c]
         /\ registry' = registry /\ effects' = effects /\ contested' = contested
         /\ \E k \in keys[c] : \/ registry[k] # Nobody /\ Looked(c, k)
                               \/ registry[k] = Nobody /\ stage'[c] = "refusing"
<1>1. /\ stage[c] = "needs"
      /\ UNCHANGED <<provides, inject, registry, effects, verdict, contested>>
  BY DEF LookUpNeed, LookUp, declared
<1>2. PICK k \in keys[c] :
        IF k \in InRegistry
        THEN keys' = [keys EXCEPT ![c] = @ \ {k}] /\ UNCHANGED <<stage, todo>>
        ELSE /\ keys' = [keys EXCEPT ![c] = {}] /\ todo' = [todo EXCEPT ![c] = <<>>]
             /\ stage' = [stage EXCEPT ![c] = "refusing"]
  BY DEF LookUpNeed, LookUp, Enters
<1>3. k \in InRegistry <=> registry[k] # Nobody
  BY DEF InRegistry, KernelTypeOK
<1>4. Aside(c)
  BY <1>1, <1>2, PerCaller DEF Aside
<1>5. \/ registry[k] # Nobody /\ Looked(c, k)
      \/ registry[k] = Nobody /\ stage'[c] = "refusing"
  BY <1>2, <1>3, PerCaller DEF Looked
<1>6. QED
  BY <1>1, <1>4, <1>5

LEMMA NeedsFoundAt ==
  ASSUME KernelTypeOK, PlaceInv, NEW c \in Callers, NeedsFound(c)
  PROVE  /\ Aside(c)
         /\ stage[c] = "needs" /\ keys[c] = {} /\ todo[c] # <<>>
         /\ stage'[c] = "offers" /\ todo'[c] = todo[c] /\ keys'[c] = provides[todo[c][1]]
         /\ verdict'[c] = verdict[c]
         /\ registry' = registry /\ effects' = effects /\ contested \subseteq contested'
         /\ \A k \in provides[todo[c][1]] : \A d \in Callers \ {c} :
              k \in Offering(d) => k \in contested'
<1>1. stage[c] = "needs" /\ todo[c] # <<>>
  BY DEF NeedsFound, PlaceInv
<1>2. Head(todo[c]) = todo[c][1]
  BY <1>1, InHand
<1>3. /\ contested \subseteq contested'
      /\ \A k \in provides[Head(todo[c])] : \A d \in Callers \ {c} :
           k \in Offering(d) => k \in contested'
  BY DEF NeedsFound
<1>4. /\ Aside(c) /\ keys[c] = {}
      /\ stage'[c] = "offers" /\ todo'[c] = todo[c] /\ keys'[c] = provides[Head(todo[c])]
      /\ verdict'[c] = verdict[c] /\ registry' = registry /\ effects' = effects
  BY PerCaller DEF NeedsFound, Enters, Aside, declared
<1>5. QED
  BY <1>1, <1>2, <1>3, <1>4

LEMMA OfferAt ==
  ASSUME KernelTypeOK, NEW c \in Callers, LookUpOffer(c)
  PROVE  /\ Aside(c)
         /\ stage[c] = "offers" /\ verdict'[c] = verdict[c]
         /\ registry' = registry /\ effects' = effects /\ contested' = contested
         /\ \E k \in keys[c] : \/ registry[k] = Nobody /\ Looked(c, k)
                               \/ registry[k] # Nobody /\ stage'[c] = "refusing"
<1>1. /\ stage[c] = "offers"
      /\ UNCHANGED <<provides, inject, registry, effects, verdict, contested>>
  BY DEF LookUpOffer, LookUp, declared
<1>2. PICK k \in keys[c] :
        IF k \in Keys \ InRegistry
        THEN keys' = [keys EXCEPT ![c] = @ \ {k}] /\ UNCHANGED <<stage, todo>>
        ELSE /\ keys' = [keys EXCEPT ![c] = {}] /\ todo' = [todo EXCEPT ![c] = <<>>]
             /\ stage' = [stage EXCEPT ![c] = "refusing"]
  BY DEF LookUpOffer, LookUp, Enters
<1>3. k \in Keys \ InRegistry <=> registry[k] = Nobody
  BY DEF InRegistry, KernelTypeOK
<1>4. Aside(c)
  BY <1>1, <1>2, PerCaller DEF Aside
<1>5. \/ registry[k] = Nobody /\ Looked(c, k)
      \/ registry[k] # Nobody /\ stage'[c] = "refusing"
  BY <1>2, <1>3, PerCaller DEF Looked
<1>6. QED
  BY <1>1, <1>4, <1>5

LEMMA OffersFreeAt ==
  ASSUME KernelTypeOK, PlaceInv, NEW c \in Callers, OffersFree(c)
  PROVE  /\ Aside(c)
         /\ stage[c] = "offers" /\ keys[c] = {} /\ todo[c] # <<>>
         /\ stage'[c] = "apply" /\ todo'[c] = todo[c] /\ keys'[c] = provides[todo[c][1]]
         /\ verdict'[c] = verdict[c]
         /\ registry' = registry /\ effects' = effects /\ contested' = contested
<1>1. stage[c] = "offers" /\ todo[c] # <<>>
  BY DEF OffersFree, PlaceInv
<1>2. QED
  BY <1>1, PerCaller, InHand DEF OffersFree, Enters, Aside, declared

LEMMA RegisterAt ==
  ASSUME KernelTypeOK, NEW c \in Callers, RegisterKey(c)
  PROVE  /\ Aside(c)
         /\ stage[c] = "apply" /\ stage'[c] = "apply" /\ todo'[c] = todo[c]
         /\ verdict'[c] = verdict[c] /\ contested' = contested
         /\ \E k \in keys[c] :
              /\ registry' = [registry EXCEPT ![k] = <<c, Head(todo[c])>>]
              /\ effects'[c] = effects[c] \cup {[plugin |-> Head(todo[c]), key |-> k]}
              /\ keys'[c] = keys[c] \ {k}
BY PerCaller DEF RegisterKey, Disturb, Aside, declared

LEMMA AppliedAt ==
  ASSUME KernelTypeOK, NEW c \in Callers, Applied(c)
  PROVE  /\ Aside(c)
         /\ stage[c] = "apply" /\ stage'[c] = "check" /\ todo'[c] = Tail(todo[c])
         /\ keys[c] = {} /\ verdict'[c] = verdict[c]
         /\ registry' = registry /\ effects' = effects /\ contested' = contested
BY PerCaller DEF Applied, Enters, Aside, declared

LEMMA FailsAt ==
  ASSUME KernelTypeOK, NEW c \in Callers, ApplyFails(c)
  PROVE  /\ Aside(c)
         /\ stage'[c] = "failing" /\ todo'[c] = todo[c] /\ verdict'[c] = verdict[c]
         /\ registry' = registry /\ effects' = effects /\ contested' = contested
BY PerCaller DEF ApplyFails, Enters, Aside, declared

LEMMA MountedAt ==
  ASSUME KernelTypeOK, NEW c \in Callers, Mounted(c)
  PROVE  /\ Aside(c)
         /\ stage[c] = "check" /\ todo[c] = <<>> /\ stage'[c] = "mounted" /\ todo'[c] = todo[c]
         /\ verdict'[c] = verdict[c]
         /\ registry' = registry /\ effects' = effects /\ contested' = contested
BY PerCaller DEF Mounted, Enters, Aside, declared

LEMMA UnmountAt ==
  ASSUME KernelTypeOK, NEW c \in Callers, Unmount(c)
  PROVE  /\ Aside(c)
         /\ stage'[c] = "unmounting" /\ verdict'[c] = "open"
         /\ registry' = registry /\ effects' = effects /\ contested' = contested
BY PerCaller DEF Unmount, Enters, Aside, declared

LEMMA UndoAt ==
  ASSUME KernelTypeOK, NEW c \in Callers, Undo(c)
  PROVE  /\ Aside(c)
         /\ stage[c] \in {"refusing", "failing", "unmounting"} /\ stage'[c] = stage[c]
         /\ verdict'[c] = verdict[c] /\ contested' = contested
         /\ \E e \in effects[c] : /\ registry' = [registry EXCEPT ![e.key] = Nobody]
                                  /\ effects'[c] = effects[c] \ {e}
<1>1. PICK e \in effects[c] : /\ registry' = [registry EXCEPT ![e.key] = Nobody]
                              /\ effects' = [effects EXCEPT ![c] = @ \ {e}]
  BY DEF Undo
<1>2. /\ stage[c] \in {"refusing", "failing", "unmounting"}
      /\ verdict' = [d \in Callers |-> IF d = c THEN verdict[d] ELSE "open"]
      /\ UNCHANGED <<provides, inject, stage, todo, keys, contested>>
  BY DEF Undo, Undoing, Disturb, declared
<1>3. Aside(c)
  BY <1>1, <1>2, PerCaller DEF Aside
<1>4. QED
  BY <1>1, <1>2, <1>3, PerCaller

LEMMA UndoneAt ==
  ASSUME KernelTypeOK, NEW c \in Callers, Undone(c)
  PROVE  /\ Aside(c)
         /\ effects[c] = {} /\ stage'[c] = "idle" /\ verdict'[c] = "open"
         /\ registry' = registry /\ effects' = effects
         /\ \A k \in contested : k \in contested' \/
              \A d \in Callers \ {c} : k \notin Offering(d) /\ \A e \in effects[d] : e.key # k
<1>1. /\ Aside(c) /\ effects[c] = {} /\ stage'[c] = "idle" /\ verdict'[c] = "open"
      /\ registry' = registry /\ effects' = effects
  BY PerCaller DEF Undone, Enters, Aside, declared
<1>2. contested' = contested \cap
        UNION {Offering(d) \cup {e.key : e \in effects[d]} : d \in Callers \ {c}}
  BY DEF Undone
<1>3. QED
  BY <1>1, <1>2

\* mount_all and mount, for their caller: a list is begun, or refused at once.
Begun(c, place, list, fit) ==
  /\ stage[c] = "idle" /\ stage'[c] = place /\ todo'[c] = list
  /\ verdict'[c] = IF fit THEN "mount" ELSE "refuse"
  /\ registry' = registry /\ effects' = effects /\ keys' = keys /\ contested' = contested

LEMMA MountAllAt ==
  ASSUME KernelTypeOK, NEW c \in Callers, MountAll(c)
  PROVE  /\ Aside(c)
         /\ \E G \in SUBSET Plugins :
              \/ Begun(c, "refusing", <<>>, Fits(G)) /\ ~Fits(G)
              \/ \E list : /\ Begun(c, "check", list, Fits(G)) /\ OrderOf(G, list)
                           /\ ~TwoProviders(G) /\ Acyclic(G)
<1>1. ASSUME NEW place, NEW list, NEW fit, Begin(c, place, list, fit)
      PROVE  Aside(c) /\ Begun(c, place, list, fit)
  <2>1. stage[c] = "idle"
    BY <1>1 DEF Begin
  <2>2. QED
    BY <1>1, <2>1, BeginAt DEF Begun
<1>2. DeclaredOK
  BY DEF KernelTypeOK, DeclaredOK
<1>3. PICK G \in SUBSET Plugins :
        \/ Begin(c, "refusing", <<>>, Fits(G)) /\ ~Fits(G)
        \/ \E list : /\ Begin(c, "check", list, Fits(G)) /\ OrderOf(G, list)
                     /\ ~TwoProviders(G) /\ Acyclic(G)
  BY <1>2, MountAllCases
<1>4. QED
  BY <1>1, <1>3

LEMMA MountAt ==
  ASSUME KernelTypeOK, NEW c \in Callers, Mount(c)
  PROVE  Aside(c) /\ \E p \in Plugins : Begun(c, "check", <<p>>, Mountable(p))
<1>1. PICK p \in Plugins : Begin(c, "check", <<p>>, Mountable(p))
  BY DEF Mount
<1>2. stage[c] = "idle"
  BY <1>1 DEF Begin
<1>3. QED
  BY <1>1, <1>2, BeginAt DEF Begun

\* A caller acts, or is left where it is.
StillAt(d) ==
  /\ stage'[d] = stage[d] /\ todo'[d] = todo[d] /\ keys'[d] = keys[d]
  /\ effects'[d] = effects[d]
  /\ verdict'[d] = "open" \/ (verdict'[d] = verdict[d] /\ registry' = registry)

ActsAt(c) == \/ MountAll(c) \/ Mount(c) \/ TakeUp(c) \/ LookUpNeed(c) \/ NeedsFound(c)
             \/ LookUpOffer(c) \/ OffersFree(c) \/ RegisterKey(c) \/ Applied(c)
             \/ ApplyFails(c) \/ Mounted(c) \/ Unmount(c) \/ Undo(c) \/ Undone(c)

LEMMA ActsAside ==
  ASSUME KernelTypeOK, PlaceInv, NEW c \in Callers, ActsAt(c)
  PROVE  Aside(c)
BY MountAllAt, MountAt, TakeUpAt, NeedAt, NeedsFoundAt, OfferAt, OffersFreeAt, RegisterAt,
   AppliedAt, FailsAt, MountedAt, UnmountAt, UndoAt, UndoneAt DEF ActsAt

LEMMA StepOf ==
  ASSUME KernelTypeOK, PlaceInv, [KernelNext]_kernelVars, NEW d \in Callers
  PROVE  provides' = provides /\ inject' = inject /\ (ActsAt(d) \/ StillAt(d))
<1>1. CASE KernelNext
  <2>1. PICK c \in Callers : ActsAt(c)
    BY <1>1 DEF KernelNext, ActsAt
  <2>2. Aside(c)
    BY <2>1, ActsAside
  <2>3. QED
    BY <2>1, <2>2 DEF Aside, StillAt
<1>2. CASE UNCHANGED kernelVars
  BY <1>2 DEF kernelVars, declared, callVars, StillAt
<1>3. QED
  BY <1>1, <1>2

----------------------------------------------------------------------------
(* What a call applies, and what its effects hold.                         *)

LEMMA PlaceKept ==
  ASSUME KernelTypeOK, PlaceInv, [KernelNext]_kernelVars
  PROVE  PlaceInv'
<1> DEFINE Placed(c) ==
      /\ stage'[c] \in {"needs", "offers", "apply"} => todo'[c] # <<>>
      /\ stage'[c] = "needs" => keys'[c] \subseteq inject[todo'[c][1]]
      /\ stage'[c] \in {"offers", "apply"} => keys'[c] \subseteq provides[todo'[c][1]]
<1>1. ASSUME NEW c \in Callers PROVE Placed(c)
  <2>1. /\ stage[c] \in {"needs", "offers", "apply"} => todo[c] # <<>>
        /\ stage[c] = "needs" => keys[c] \subseteq inject[todo[c][1]]
        /\ stage[c] \in {"offers", "apply"} => keys[c] \subseteq provides[todo[c][1]]
    BY DEF PlaceInv
  <2>2. CASE StillAt(c)
    BY <2>1, <2>2 DEF StillAt
  <2>3. CASE MountAll(c) \/ Mount(c)
    BY <2>3, MountAllAt, MountAt DEF Begun
  <2>4. CASE TakeUp(c)
    BY <2>4, TakeUpAt
  <2>5. CASE LookUpNeed(c)
    BY <2>1, <2>5, NeedAt DEF Looked
  <2>6. CASE NeedsFound(c)
    BY <2>6, NeedsFoundAt
  <2>7. CASE LookUpOffer(c)
    BY <2>1, <2>7, OfferAt DEF Looked
  <2>8. CASE OffersFree(c)
    BY <2>8, OffersFreeAt
  <2>9. CASE RegisterKey(c)
    BY <2>1, <2>9, RegisterAt
  <2>10. CASE Applied(c) \/ ApplyFails(c) \/ Mounted(c) \/ Unmount(c) \/ Undo(c) \/ Undone(c)
    BY <2>10, AppliedAt, FailsAt, MountedAt, UnmountAt, UndoAt, UndoneAt
  <2> HIDE DEF Placed
  <2>11. QED
    BY <2>2, <2>3, <2>4, <2>5, <2>6, <2>7, <2>8, <2>9, <2>10, StepOf DEF ActsAt
<1>2. \A c \in Callers : provides' = provides /\ inject' = inject
  BY StepOf
<1>3. QED
  BY <1>1, <1>2 DEF PlaceInv

\* The registry and the effects change together: a key is registered, or an effect
\* of a call is dropped.
Registers(c, k) ==
  /\ stage[c] = "apply" /\ k \in keys[c]
  /\ registry' = [registry EXCEPT ![k] = <<c, Head(todo[c])>>]
  /\ effects'[c] = effects[c] \cup {[plugin |-> Head(todo[c]), key |-> k]}
  /\ \A d \in Callers \ {c} : effects'[d] = effects[d]

Drops(c, e) ==
  /\ e \in effects[c]
  /\ registry' = [registry EXCEPT ![e.key] = Nobody]
  /\ effects'[c] = effects[c] \ {e}
  /\ \A d \in Callers \ {c} : effects'[d] = effects[d]

LEMMA Together ==
  ASSUME KernelTypeOK, PlaceInv, [KernelNext]_kernelVars
  PROVE  \/ registry' = registry /\ effects' = effects
         \/ \E c \in Callers, k \in Keys :
              RegisterKey(c) /\ Registers(c, k) /\ keys'[c] = keys[c] \ {k}
         \/ \E c \in Callers, e \in Effects : Undo(c) /\ Drops(c, e)
<1>1. CASE KernelNext
  <2>1. PICK c \in Callers : ActsAt(c)
    BY <1>1 DEF KernelNext, ActsAt
  <2>2. Aside(c)
    BY <2>1, ActsAside
  <2>3. CASE RegisterKey(c)
    <3>1. PICK k \in keys[c] :
            /\ registry' = [registry EXCEPT ![k] = <<c, Head(todo[c])>>]
            /\ effects'[c] = effects[c] \cup {[plugin |-> Head(todo[c]), key |-> k]}
            /\ keys'[c] = keys[c] \ {k}
      BY <2>3, RegisterAt
    <3>2. stage[c] = "apply" /\ k \in Keys
      BY <2>3, RegisterAt DEF KernelTypeOK
    <3>3. QED
      BY <2>2, <2>3, <3>1, <3>2 DEF Registers, Aside
  <2>4. CASE Undo(c)
    <3>1. PICK e \in effects[c] : /\ registry' = [registry EXCEPT ![e.key] = Nobody]
                                  /\ effects'[c] = effects[c] \ {e}
      BY <2>4, UndoAt
    <3>2. e \in Effects
      BY DEF KernelTypeOK
    <3>3. QED
      BY <2>2, <2>4, <3>1, <3>2 DEF Drops, Aside
  <2>5. CASE ~RegisterKey(c) /\ ~Undo(c)
    BY <2>1, <2>5, MountAllAt, MountAt, TakeUpAt, NeedAt, NeedsFoundAt, OfferAt, OffersFreeAt,
       AppliedAt, FailsAt, MountedAt, UnmountAt, UndoneAt DEF ActsAt, Begun
  <2>6. QED
    BY <2>3, <2>4, <2>5
<1>2. CASE UNCHANGED kernelVars
  BY <1>2 DEF kernelVars, callVars
<1>3. QED
  BY <1>1, <1>2

\* What changes in the registry, key by key, and in the effects of that key.
Record(p, k) == [plugin |-> p, key |-> k]

LEMMA RegistersKey ==
  ASSUME KernelTypeOK, PlaceInv, NEW a \in Callers, NEW h \in Keys, Registers(a, h), NEW k \in Keys
  PROVE  /\ k # h => registry'[k] = registry[k]
         /\ k = h => registry'[k] = <<a, Head(todo[a])>>
         /\ \A c \in Callers : \A p : Record(p, k) \in effects'[c] <=>
              Record(p, k) \in effects[c] \/ (c = a /\ k = h /\ p = Head(todo[a]))
<1>1. /\ k # h => registry'[k] = registry[k]
      /\ k = h => registry'[k] = <<a, Head(todo[a])>>
  BY DEF Registers, KernelTypeOK
<1>2. \A p : Record(p, k) = Record(Head(todo[a]), h) <=> p = Head(todo[a]) /\ k = h
  BY DEF Record
<1>3. effects'[a] = effects[a] \cup {Record(Head(todo[a]), h)}
  BY DEF Registers, Record
<1>4. \A d \in Callers \ {a} : effects'[d] = effects[d]
  BY DEF Registers
<1>5. QED
  BY <1>1, <1>2, <1>3, <1>4

LEMMA DropsKey ==
  ASSUME KernelTypeOK, NEW a \in Callers, NEW e \in Effects, Drops(a, e), NEW k \in Keys
  PROVE  /\ k # e.key => registry'[k] = registry[k]
         /\ k = e.key => registry'[k] = Nobody
         /\ e = Record(e.plugin, e.key) /\ e.key \in Keys /\ e.plugin \in Plugins
         /\ \A c \in Callers : \A p : Record(p, k) \in effects'[c] <=>
              Record(p, k) \in effects[c] /\ ~(c = a /\ k = e.key /\ p = e.plugin)
<1>1. e = Record(e.plugin, e.key) /\ e.key \in Keys /\ e.plugin \in Plugins
  BY DEF Record, Effects
<1>2. /\ k # e.key => registry'[k] = registry[k]
      /\ k = e.key => registry'[k] = Nobody
  BY <1>1 DEF Drops, KernelTypeOK
<1>3. \A p : Record(p, k) = Record(e.plugin, e.key) <=> p = e.plugin /\ k = e.key
  BY DEF Record
<1>4. effects'[a] = effects[a] \ {Record(e.plugin, e.key)}
  BY <1>1 DEF Drops
<1>5. \A d \in Callers \ {a} : effects'[d] = effects[d]
  BY DEF Drops
<1>6. QED
  BY <1>1, <1>2, <1>3, <1>4, <1>5

\* Nothing is left behind: a step registers with its effect, and drops both.
LEMMA LeftKept ==
  ASSUME KernelTypeOK, PlaceInv, NothingLeft, [KernelNext]_kernelVars
  PROVE  NothingLeft'
<1>1. ASSUME NEW k \in Keys, NEW c \in Callers, NEW p \in Plugins, registry'[k] = <<c, p>>
      PROVE  Record(p, k) \in effects'[c]
  <2>1. registry[k] = <<c, p>> => Record(p, k) \in effects[c]
    BY DEF NothingLeft, Record
  <2>2. CASE registry' = registry /\ effects' = effects
    BY <1>1, <2>1, <2>2
  <2>3. ASSUME NEW a \in Callers, NEW h \in Keys, Registers(a, h)
        PROVE  Record(p, k) \in effects'[c]
    BY <1>1, <2>1, <2>3, RegistersKey
  <2>4. ASSUME NEW a \in Callers, NEW e \in Effects, Drops(a, e)
        PROVE  Record(p, k) \in effects'[c]
    <3>1. <<c, p>> # Nobody
      BY KernelAssumption
    <3>2. QED
      BY <1>1, <2>1, <2>4, <3>1, DropsKey
  <2>5. QED
    BY <2>2, <2>3, <2>4, Together
<1>2. QED
  BY <1>1 DEF NothingLeft, Record

\* A key that two calls do not offer at once: only one offers it, the registry has
\* nothing under it while that one goes from its look-up to its registration, and
\* what an effect holds is there.
Awaits(c, k) == \/ stage[c] = "offers" /\ k \in provides[todo[c][1]] \ keys[c]
                \/ stage[c] = "apply" /\ k \in keys[c]
AwaitedFree(k) == \A c \in Callers : Awaits(c, k) => registry[k] = Nobody
OfferedOnce(k) == \A c, d \in Callers : k \in Offering(c) /\ k \in Offering(d) => c = d
HeldThere(k) == \A c \in Callers : \A p \in Plugins :
                  Record(p, k) \in effects[c] => registry[k] = <<c, p>>
KeyInv(k) == AwaitedFree(k) /\ OfferedOnce(k) /\ HeldThere(k)
HeldInv == \A k \in Keys \ contested : KeyInv(k)

LEMMA OfferingIs ==
  ASSUME KernelTypeOK, PlaceInv, NEW c \in Callers
  PROVE  /\ stage[c] \in {"offers", "apply"} => Offering(c) = provides[todo[c][1]]
         /\ stage[c] \notin {"offers", "apply"} => Offering(c) = {}
         /\ \A k : Awaits(c, k) => k \in Offering(c)
<1>1. stage[c] \in {"offers", "apply"} => Head(todo[c]) = todo[c][1]
  BY InHand DEF PlaceInv
<1>2. stage[c] = "apply" => keys[c] \subseteq provides[todo[c][1]]
  BY DEF PlaceInv
<1>3. QED
  BY <1>1, <1>2 DEF Offering, Awaits

LEMMA OfferingStep ==
  ASSUME KernelTypeOK, PlaceInv, [KernelNext]_kernelVars, NEW c \in Callers, NEW k, k \in Offering(c)'
  PROVE  \/ k \in Offering(c)
         \/ NeedsFound(c) /\ k \in provides[todo[c][1]]
<1>1. stage'[c] \in {"offers", "apply"} /\ k \in provides[Head(todo'[c])]
  <2>1. provides' = provides
    BY StepOf
  <2>2. QED
    BY <2>1 DEF Offering
<1>2. CASE StillAt(c)
  BY <1>1, <1>2 DEF StillAt, Offering
<1>3. CASE NeedsFound(c)
  <2>1. todo'[c] = todo[c] /\ Head(todo[c]) = todo[c][1]
    BY <1>3, NeedsFoundAt, InHand
  <2>2. QED
    BY <1>1, <1>3, <2>1
<1>4. CASE LookUpOffer(c) \/ OffersFree(c) \/ RegisterKey(c)
  <2>1. stage[c] \in {"offers", "apply"} /\ todo'[c] = todo[c]
    BY <1>1, <1>4, OfferAt, OffersFreeAt, RegisterAt DEF Looked
  <2>2. QED
    BY <1>1, <2>1 DEF Offering
<1>5. CASE MountAll(c) \/ Mount(c)
  BY <1>1, <1>5, MountAllAt, MountAt DEF Begun
<1>6. CASE TakeUp(c) \/ LookUpNeed(c)
  BY <1>1, <1>6, TakeUpAt, NeedAt DEF Looked
<1>7. CASE Applied(c) \/ ApplyFails(c) \/ Mounted(c) \/ Unmount(c) \/ Undo(c) \/ Undone(c)
  BY <1>1, <1>7, AppliedAt, FailsAt, MountedAt, UnmountAt, UndoAt, UndoneAt
<1>8. QED
  BY <1>2, <1>3, <1>4, <1>5, <1>6, <1>7, StepOf DEF ActsAt

LEMMA OnceKept ==
  ASSUME KernelTypeOK, PlaceInv, [KernelNext]_kernelVars, NEW k \in Keys, k \notin contested',
         OfferedOnce(k)
  PROVE  OfferedOnce(k)'
<1>1. ASSUME NEW c \in Callers, NEW d \in Callers, c # d, k \in Offering(c)', k \in Offering(d)',
             NeedsFound(c), k \in provides[todo[c][1]]
      PROVE  FALSE
  <2>1. Aside(c) /\ (k \in Offering(d) => k \in contested')
    BY <1>1, NeedsFoundAt
  <2>2. Offering(d)' = Offering(d)
    BY <1>1, <2>1 DEF Aside, Offering
  <2>3. QED
    BY <1>1, <2>1, <2>2
<1>2. ASSUME NEW c \in Callers, NEW d \in Callers, c # d, k \in Offering(c)', k \in Offering(d)'
      PROVE  FALSE
  BY <1>1, <1>2, OfferingStep DEF OfferedOnce
<1>3. QED
  BY <1>2 DEF OfferedOnce

LEMMA AwaitsStep ==
  ASSUME KernelTypeOK, PlaceInv, [KernelNext]_kernelVars, NEW c \in Callers, NEW k \in Keys,
         AwaitedFree(k), Awaits(c, k)'
  PROVE  /\ registry[k] = Nobody
         /\ RegisterKey(c) => k \in keys'[c]
         /\ ~RegisterKey(c) /\ registry' # registry => Awaits(c, k)
<1>1. /\ \/ stage'[c] = "offers" /\ k \in provides[todo'[c][1]] \ keys'[c]
         \/ stage'[c] = "apply" /\ k \in keys'[c]
  <2>1. provides' = provides
    BY StepOf
  <2>2. QED
    BY <2>1 DEF Awaits
<1>2. Awaits(c, k) => registry[k] = Nobody
  BY DEF AwaitedFree
<1>3. CASE StillAt(c)
  <2>1. Awaits(c, k)
    BY <1>1, <1>3 DEF StillAt, Awaits
  <2>2. RegisterKey(c) => k \in keys'[c]
    BY <1>1, RegisterAt
  <2>3. QED
    BY <1>2, <2>1, <2>2
<1>4. CASE NeedsFound(c)
  BY <1>1, <1>4, NeedsFoundAt
<1>5. CASE LookUpOffer(c)
  <2>1. PICK h \in keys[c] : registry[h] = Nobody /\ Looked(c, h)
    BY <1>1, <1>5, OfferAt
  <2>2. stage[c] = "offers" /\ registry' = registry /\ ~RegisterKey(c)
    BY <1>5, OfferAt, RegisterAt
  <2>3. k = h \/ k \in provides[todo[c][1]] \ keys[c]
    BY <1>1, <2>1, <2>2 DEF Looked
  <2>4. QED
    BY <1>2, <2>1, <2>2, <2>3 DEF Awaits
<1>6. CASE OffersFree(c)
  <2>1. /\ stage[c] = "offers" /\ keys[c] = {} /\ keys'[c] = provides[todo[c][1]]
        /\ stage'[c] = "apply" /\ registry' = registry
    BY <1>6, OffersFreeAt
  <2>2. Awaits(c, k) /\ ~RegisterKey(c)
    BY <1>1, <2>1, RegisterAt DEF Awaits
  <2>3. QED
    BY <1>2, <2>1, <2>2
<1>7. CASE RegisterKey(c)
  <2>1. stage[c] = "apply" /\ k \in keys[c] /\ k \in keys'[c]
    BY <1>1, <1>7, RegisterAt
  <2>2. QED
    BY <1>2, <1>7, <2>1 DEF Awaits
<1>8. CASE MountAll(c) \/ Mount(c)
  BY <1>1, <1>8, MountAllAt, MountAt DEF Begun
<1>9. CASE TakeUp(c) \/ LookUpNeed(c)
  BY <1>1, <1>9, TakeUpAt, NeedAt DEF Looked
<1>10. CASE Applied(c) \/ ApplyFails(c) \/ Mounted(c) \/ Unmount(c) \/ Undo(c) \/ Undone(c)
  BY <1>1, <1>10, AppliedAt, FailsAt, MountedAt, UnmountAt, UndoAt, UndoneAt
<1>11. QED
  BY <1>3, <1>4, <1>5, <1>6, <1>7, <1>8, <1>9, <1>10, StepOf DEF ActsAt

LEMMA FreeKept ==
  ASSUME KernelTypeOK, PlaceInv, [KernelNext]_kernelVars, NEW k \in Keys, AwaitedFree(k), OfferedOnce(k)
  PROVE  AwaitedFree(k)'
<1>1. ASSUME NEW c \in Callers, Awaits(c, k)' PROVE registry'[k] = Nobody
  <2>1. /\ registry[k] = Nobody
        /\ RegisterKey(c) => k \in keys'[c]
        /\ ~RegisterKey(c) /\ registry' # registry => Awaits(c, k)
    BY <1>1, AwaitsStep
  <2>2. ASSUME NEW a \in Callers, NEW h \in Keys, RegisterKey(a), Registers(a, h),
               keys'[a] = keys[a] \ {h}
        PROVE  registry'[k] = Nobody
    <3>1. CASE c = a
      BY <2>1, <2>2, <3>1, RegistersKey
    <3>2. CASE c # a
      <4>1. CASE registry' = registry
        BY <2>1, <4>1
      <4>2. CASE registry' # registry /\ ~RegisterKey(c)
        <5>1. k \in Offering(c)
          BY <2>1, <4>2, OfferingIs
        <5>2. h \in Offering(a)
          <6>1. Awaits(a, h)
            BY <2>2 DEF Registers, Awaits
          <6>2. QED
            BY <6>1, OfferingIs
        <5>3. k # h
          BY <3>2, <5>1, <5>2 DEF OfferedOnce
        <5>4. QED
          BY <2>1, <2>2, <5>3, RegistersKey
      <4>3. CASE RegisterKey(c)
        <5>1. effects'[a] = effects[a] /\ keys'[a] = keys[a]
          BY <3>2, <4>3, RegisterAt DEF Aside
        <5>2. h \in keys[a]
          BY <2>2 DEF Registers
        <5>3. QED
          BY <2>2, <5>1, <5>2
      <4>4. QED
        BY <4>1, <4>2, <4>3
    <3>3. QED
      BY <3>1, <3>2
  <2>3. ASSUME NEW a \in Callers, NEW e \in Effects, Drops(a, e) PROVE registry'[k] = Nobody
    BY <2>1, <2>3, DropsKey
  <2>4. QED
    BY <2>1, <2>2, <2>3, Together
<1>2. QED
  BY <1>1 DEF AwaitedFree

LEMMA ThereKept ==
  ASSUME KernelTypeOK, PlaceInv, [KernelNext]_kernelVars, NEW k \in Keys, AwaitedFree(k), HeldThere(k)
  PROVE  HeldThere(k)'
<1>1. ASSUME NEW c \in Callers, NEW p \in Plugins, Record(p, k) \in effects'[c]
      PROVE  registry'[k] = <<c, p>>
  <2>1. \A d \in Callers : \A q \in Plugins : Record(q, k) \in effects[d] => registry[k] = <<d, q>>
    BY DEF HeldThere
  <2>2. \A d \in Callers : \A q \in Plugins : <<d, q>> # Nobody
    BY KernelAssumption
  <2>3. CASE registry' = registry /\ effects' = effects
    BY <1>1, <2>1, <2>3
  <2>4. ASSUME NEW a \in Callers, NEW h \in Keys, Registers(a, h)
        PROVE  registry'[k] = <<c, p>>
    <3>1. k = h => registry[k] = Nobody
      BY <2>4 DEF Registers, AwaitedFree, Awaits
    <3>2. Record(p, k) \in effects[c] => k # h
      BY <2>1, <2>2, <3>1
    <3>3. QED
      BY <1>1, <2>1, <2>4, <3>2, RegistersKey
  <2>5. ASSUME NEW a \in Callers, NEW e \in Effects, Drops(a, e)
        PROVE  registry'[k] = <<c, p>>
    <3>1. Record(p, k) \in effects[c] /\ ~(c = a /\ k = e.key /\ p = e.plugin)
      BY <1>1, <2>5, DropsKey
    <3>2. registry[k] = <<c, p>>
      BY <2>1, <3>1
    <3>3. k # e.key
      <4>1. SUFFICES ASSUME k = e.key PROVE FALSE
        OBVIOUS
      <4>2. Record(e.plugin, k) \in effects[a] /\ e.plugin \in Plugins
        BY <2>5, <4>1, DropsKey DEF Drops
      <4>3. registry[k] = <<a, e.plugin>>
        BY <2>1, <4>2
      <4>4. c = a /\ p = e.plugin
        BY <3>2, <4>3
      <4>5. QED
        BY <3>1, <4>1, <4>4
    <3>4. QED
      BY <2>5, <3>2, <3>3, DropsKey
  <2>6. QED
    BY <2>3, <2>4, <2>5, Together
<1>2. \A c \in Callers, p \in Plugins : (Record(p, k) \in effects[c])' <=> Record(p, k) \in effects'[c]
  BY DEF Record
<1>3. QED
  BY <1>1, <1>2 DEF HeldThere

\* A key is contested from the step that begins to offer it a second time until
\* nobody offers it and no effect holds it.
LEMMA ContestedStep ==
  ASSUME KernelTypeOK, PlaceInv, [KernelNext]_kernelVars, NEW k \in contested, k \notin contested'
  PROVE  KeyInv(k)'
<1>1. PICK c \in Callers : Undone(c)
  <2>1. ASSUME NEW c \in Callers, ActsAt(c), ~Undone(c) PROVE FALSE
    BY <2>1, MountAllAt, MountAt, TakeUpAt, NeedAt, NeedsFoundAt, OfferAt, OffersFreeAt,
       RegisterAt, AppliedAt, FailsAt, MountedAt, UnmountAt, UndoAt DEF ActsAt, Begun
  <2>2. CASE UNCHANGED kernelVars
    BY <2>2 DEF kernelVars
  <2>3. QED
    BY <2>1, <2>2 DEF KernelNext, ActsAt
<1>2. /\ Aside(c) /\ effects[c] = {} /\ stage'[c] = "idle" /\ effects' = effects
      /\ \A d \in Callers \ {c} : k \notin Offering(d) /\ \A e \in effects[d] : e.key # k
  BY <1>1, UndoneAt
<1>3. \A d \in Callers : k \notin Offering(d)'
  BY <1>2 DEF Aside, Offering
<1>4. \A d \in Callers : \A e \in effects'[d] : e.key # k
  BY <1>2
<1>5. provides' = provides
  BY <1>2 DEF Aside
<1>6. \A d \in Callers : ~Awaits(d, k)'
  <2>1. ASSUME NEW d \in Callers, Awaits(d, k)' PROVE FALSE
    <3>1. CASE d = c
      BY <1>2, <2>1, <3>1 DEF Awaits
    <3>2. CASE d # c
      <4>1. Awaits(d, k)
        BY <1>2, <1>5, <2>1, <3>2 DEF Awaits, Aside
      <4>2. QED
        BY <1>2, <3>2, <4>1, OfferingIs
    <3>3. QED
      BY <3>1, <3>2
  <2>2. QED
    BY <2>1
<1>7. \A d \in Callers, p \in Plugins : ~(Record(p, k) \in effects[d])'
  <2>1. \A p : Record(p, k).key = k
    BY DEF Record
  <2>2. QED
    BY <1>4, <2>1 DEF Record
<1>8. QED
  BY <1>3, <1>6, <1>7 DEF KeyInv, AwaitedFree, OfferedOnce, HeldThere

LEMMA HeldKept ==
  ASSUME KernelTypeOK, PlaceInv, HeldInv, [KernelNext]_kernelVars
  PROVE  HeldInv'
<1>1. ASSUME NEW k \in Keys, k \notin contested' PROVE KeyInv(k)'
  <2>1. CASE k \in contested
    BY <1>1, <2>1, ContestedStep
  <2>2. CASE k \notin contested
    <3>1. AwaitedFree(k) /\ OfferedOnce(k) /\ HeldThere(k)
      BY <2>2 DEF HeldInv, KeyInv
    <3>2. QED
      BY <1>1, <3>1, FreeKept, OnceKept, ThereKept DEF KeyInv
  <2>3. QED
    BY <2>1, <2>2
<1>2. QED
  BY <1>1 DEF HeldInv

----------------------------------------------------------------------------
(* Why a call is refused.                                                  *)

\* The rest of a call that is to succeed: no key of a plugin that is not applied
\* yet is taken, what such a plugin needs is registered or will be before it, and
\* no two plugins have a key in common.
NoneTaken(reg, place, list) ==
  \A i \in 1..Len(list) : \A k \in provides[list[i]] :
    (place = "apply" /\ i = 1) \/ reg[k] = Nobody
NeedsMet(reg, place, list, left) ==
  \A i \in 1..Len(list) : \A k \in inject[list[i]] :
    \/ place = "apply" /\ i = 1
    \/ reg[k] # Nobody
    \/ \E j \in 1..(i - 1) : k \in provides[list[j]] /\ (place = "apply" /\ j = 1 => k \in left)
NoneShared(list) ==
  \A i, j \in 1..Len(list) : i # j => provides[list[i]] \cap provides[list[j]] = {}
Ready(reg, place, list, left) ==
  NoneTaken(reg, place, list) /\ NeedsMet(reg, place, list, left) /\ NoneShared(list)

\* The rest of a call that is to be refused: a plugin that is not applied yet
\* needs a key nobody will have registered before it, or has one that is taken.
Blocked(reg, list, i) ==
  \/ \E k \in inject[list[i]] : reg[k] = Nobody /\ \A j \in 1..(i - 1) : k \notin provides[list[j]]
  \/ \E k \in provides[list[i]] : reg[k] # Nobody
Stuck(reg, place, list) ==
  \E i \in 1..Len(list) : ~(place = "apply" /\ i = 1) /\ Blocked(reg, list, i)

LEMMA FitsReady ==
  ASSUME DeclaredOK, NEW G \in SUBSET Plugins, NEW list, OrderOf(G, list), Fits(G), NEW left
  PROVE  Ready(registry, "check", list, left)
<1>1. /\ ~TwoProviders(G)
      /\ \A p \in G : /\ \A k \in inject[p] : registry[k] # Nobody \/ Providers(G, k) # {}
                      /\ \A k \in provides[p] : registry[k] = Nobody
  BY DEF Fits
<1>2. list \in Seq(Plugins) /\ \A i \in 1..Len(list) : list[i] \in G /\ list[i] \in Plugins
  BY DEF OrderOf
<1>3. ASSUME NEW i \in 1..Len(list), NEW k \in inject[list[i]], registry[k] = Nobody
      PROVE  \E j \in 1..(i - 1) : k \in provides[list[j]]
  <2>1. Providers(G, k) # {}
    BY <1>1, <1>2, <1>3
  <2>2. PICK q \in G : k \in provides[q]
    BY <2>1 DEF Providers
  <2>3. q \in Needs(G, list[i])
    BY <2>2 DEF Needs
  <2>4. PICK j \in 1..(i - 1) : list[j] = q
    BY <2>3 DEF OrderOf
  <2>5. QED
    BY <2>2, <2>4
<1>4. ASSUME NEW i \in 1..Len(list), NEW j \in 1..Len(list), i # j,
             NEW k \in provides[list[i]], k \in provides[list[j]]
      PROVE  FALSE
  <2>1. k \in Keys
    BY <1>2 DEF DeclaredOK
  <2>2. list[i] \in Providers(G, k) /\ list[j] \in Providers(G, k)
    BY <1>2, <1>4 DEF Providers
  <2>3. list[i] = list[j]
    BY <1>1, <2>1, <2>2, OneProvider
  <2>4. i \in DOMAIN list /\ j \in DOMAIN list
    BY <1>2
  <2>5. QED
    BY <2>3, <2>4, <1>4 DEF OrderOf, IsInjective
<1>5. \A i, j \in 1..Len(list) : i # j => provides[list[i]] \cap provides[list[j]] = {}
  BY <1>4
<1>6. \A i \in 1..Len(list) : \A k \in provides[list[i]] : registry[k] = Nobody
  BY <1>1, <1>2
<1>7. \A i \in 1..Len(list) : \A k \in inject[list[i]] :
        registry[k] # Nobody \/ \E j \in 1..(i - 1) : k \in provides[list[j]]
  BY <1>3
<1>8. QED
  BY <1>5, <1>6, <1>7 DEF Ready, NoneTaken, NeedsMet, NoneShared

LEMMA OneReady ==
  ASSUME NEW p \in Plugins, Mountable(p), NEW left
  PROVE  Ready(registry, "check", <<p>>, left)
<1>1. Len(<<p>>) = 1 /\ \A i \in 1..1 : i = 1 /\ <<p>>[i] = p
  OBVIOUS
<1>2. QED
  BY <1>1 DEF Ready, NoneTaken, NeedsMet, NoneShared, Mountable

LEMMA CheckedReady ==
  ASSUME DeclaredOK, NEW list \in Seq(Plugins), list # <<>>, NEW left,
         Ready(registry, "check", list, left)
  PROVE  Mountable(list[1]) /\ Ready(registry, "apply", list, provides[list[1]])
<1>1. Len(list) \in Nat /\ 1 \in 1..Len(list) /\ 1..(1 - 1) = {}
  OBVIOUS
<1>2. Mountable(list[1])
  BY <1>1 DEF Ready, NoneTaken, NeedsMet, Mountable
<1>3. /\ \A i \in 1..Len(list) : \A k \in provides[list[i]] : registry[k] = Nobody
      /\ \A i, j \in 1..Len(list) : i # j => provides[list[i]] \cap provides[list[j]] = {}
  BY DEF Ready, NoneTaken, NoneShared
<1>4. ASSUME NEW i \in 1..Len(list), NEW k \in inject[list[i]], registry[k] = Nobody
      PROVE  \E j \in 1..(i - 1) : k \in provides[list[j]] /\ (j = 1 => k \in provides[list[1]])
  <2>1. PICK j \in 1..(i - 1) : k \in provides[list[j]]
    BY <1>4 DEF Ready, NeedsMet
  <2>2. QED
    BY <2>1
<1>5. QED
  BY <1>2, <1>3, <1>4 DEF Ready, NoneTaken, NeedsMet, NoneShared

LEMMA RegisteredReady ==
  ASSUME DeclaredOK, NEW list \in Seq(Plugins), list # <<>>, NEW left \in SUBSET provides[list[1]],
         DOMAIN registry = Keys, NEW h \in left, NEW owner, owner # Nobody,
         Ready(registry, "apply", list, left)
  PROVE  Ready([registry EXCEPT ![h] = owner], "apply", list, left \ {h})
<1> DEFINE new == [registry EXCEPT ![h] = owner]
<1>1. Len(list) \in Nat /\ 1 \in 1..Len(list) /\ \A i \in 1..Len(list) : list[i] \in Plugins
  OBVIOUS
<1>2. h \in provides[list[1]] /\ h \in Keys
  BY <1>1 DEF DeclaredOK
<1>3. new[h] = owner /\ \A k \in Keys : k # h => new[k] = registry[k]
  BY <1>2
<1> HIDE DEF new
<1>4. \A i, j \in 1..Len(list) : i # j => provides[list[i]] \cap provides[list[j]] = {}
  BY DEF Ready, NoneShared
<1>5. ASSUME NEW i \in 1..Len(list), NEW k \in provides[list[i]], i # 1
      PROVE  new[k] = Nobody
  <2>1. k # h /\ k \in Keys /\ registry[k] = Nobody
    BY <1>1, <1>2, <1>4, <1>5 DEF Ready, NoneTaken, DeclaredOK
  <2>2. QED
    BY <2>1, <1>3
<1>6. ASSUME NEW i \in 1..Len(list), NEW k \in inject[list[i]], i # 1, new[k] = Nobody
      PROVE  \E j \in 1..(i - 1) : k \in provides[list[j]] /\ (j = 1 => k \in left \ {h})
  <2>1. k # h /\ k \in Keys /\ registry[k] = Nobody
    BY <1>1, <1>3, <1>6 DEF DeclaredOK
  <2>2. PICK j \in 1..(i - 1) : k \in provides[list[j]] /\ (j = 1 => k \in left)
    BY <2>1, <1>6 DEF Ready, NeedsMet
  <2>3. QED
    BY <2>1, <2>2
<1>7. Ready(new, "apply", list, left \ {h})
  BY <1>4, <1>5, <1>6 DEF Ready, NoneTaken, NeedsMet, NoneShared
<1>8. QED
  BY <1>7 DEF new

LEMMA AppliedReady ==
  ASSUME DeclaredOK, NEW list \in Seq(Plugins), list # <<>>, NEW left,
         Ready(registry, "apply", list, {})
  PROVE  Ready(registry, "check", Tail(list), left)
<1> DEFINE r == Tail(list)
           n == Len(list)
<1>1. /\ n \in Nat /\ n > 0 /\ Len(r) = n - 1 /\ \A i \in 1..(n - 1) : r[i] = list[i + 1]
  BY RestOfStack
<1> HIDE DEF r, n
<1>2. \A i \in 1..(n - 1) : i + 1 \in 1..n /\ i + 1 # 1 /\ r[i] = list[i + 1]
  BY <1>1
<1>3. ASSUME NEW i \in 1..(n - 1), NEW k \in provides[r[i]] PROVE registry[k] = Nobody
  BY <1>2, <1>3 DEF Ready, NoneTaken, n
<1>4. ASSUME NEW i \in 1..(n - 1), NEW k \in inject[r[i]], registry[k] = Nobody
      PROVE  \E j \in 1..(i - 1) : k \in provides[r[j]]
  <2>1. \A m \in 1..n : \A x \in inject[list[m]] : m # 1 /\ registry[x] = Nobody =>
          \E j \in 1..(m - 1) : j # 1 /\ x \in provides[list[j]]
    BY DEF Ready, NeedsMet, n
  <2>2. PICK j \in 1..((i + 1) - 1) : j # 1 /\ k \in provides[list[j]]
    BY <2>1, <1>2, <1>4
  <2>3. j - 1 \in 1..(i - 1) /\ j - 1 \in 1..(n - 1) /\ (j - 1) + 1 = j
    BY <2>2, <1>1
  <2>4. r[j - 1] = list[j]
    BY <2>3, <1>1
  <2>5. QED
    BY <2>2, <2>3, <2>4
<1>5. ASSUME NEW i \in 1..(n - 1), NEW j \in 1..(n - 1), i # j
      PROVE  provides[r[i]] \cap provides[r[j]] = {}
  <2>1. \A a, b \in 1..n : a # b => provides[list[a]] \cap provides[list[b]] = {}
    BY DEF Ready, NoneShared, n
  <2>2. i + 1 # j + 1
    BY <1>1, <1>5
  <2>3. QED
    BY <2>1, <2>2, <1>2
<1>6. Ready(registry, "check", r, left)
  BY <1>1, <1>3, <1>4, <1>5 DEF Ready, NoneTaken, NeedsMet, NoneShared
<1>7. QED
  BY <1>6 DEF r

LEMMA UnfitStuck ==
  ASSUME DeclaredOK, NEW G \in SUBSET Plugins, NEW list, OrderOf(G, list), ~Fits(G),
         ~TwoProviders(G), Acyclic(G)
  PROVE  Stuck(registry, "check", list)
<1>1. PICK p \in G : \/ \E k \in inject[p] : registry[k] = Nobody /\ Providers(G, k) = {}
                     \/ \E k \in provides[p] : registry[k] # Nobody
  BY DEF Fits
<1>2. PICK i \in 1..Len(list) : list[i] = p
  BY DEF OrderOf
<1>3. \A j \in 1..(i - 1) : list[j] \in G
  <2>1. list \in Seq(Plugins) /\ Len(list) \in Nat
    BY DEF OrderOf
  <2>2. \A j \in 1..(i - 1) : j \in 1..Len(list)
    BY <2>1, <1>2
  <2>3. QED
    BY <2>2 DEF OrderOf
<1>4. \A k : Providers(G, k) = {} => \A j \in 1..(i - 1) : k \notin provides[list[j]]
  BY <1>3 DEF Providers
<1>5. Blocked(registry, list, i)
  BY <1>1, <1>2, <1>4 DEF Blocked
<1>6. QED
  BY <1>5 DEF Stuck

LEMMA OneStuck ==
  ASSUME NEW p \in Plugins, ~Mountable(p)
  PROVE  Stuck(registry, "check", <<p>>)
<1>1. Len(<<p>>) = 1 /\ 1 \in 1..1 /\ <<p>>[1] = p /\ 1..(1 - 1) = {}
  OBVIOUS
<1>2. Blocked(registry, <<p>>, 1)
  BY <1>1 DEF Blocked, Mountable
<1>3. QED
  BY <1>1, <1>2 DEF Stuck

LEMMA CheckedStuck ==
  ASSUME NEW list, Stuck(registry, "check", list), Mountable(list[1])
  PROVE  Stuck(registry, "apply", list)
<1>1. PICK i \in 1..Len(list) : Blocked(registry, list, i)
  BY DEF Stuck
<1>2. i # 1
  BY <1>1 DEF Blocked, Mountable
<1>3. QED
  BY <1>1, <1>2 DEF Stuck

LEMMA RegisteredStuck ==
  ASSUME DeclaredOK, NEW list \in Seq(Plugins), DOMAIN registry = Keys,
         NEW h \in provides[list[1]], NEW owner, owner # Nobody,
         Stuck(registry, "apply", list)
  PROVE  Stuck([registry EXCEPT ![h] = owner], "apply", list)
<1> DEFINE new == [registry EXCEPT ![h] = owner]
<1>1. PICK i \in 1..Len(list) : i # 1 /\ Blocked(registry, list, i)
  BY DEF Stuck
<1>2. Len(list) \in Nat /\ 1 \in 1..(i - 1) /\ list[i] \in Plugins
  BY <1>1
<1>3. \A k \in Keys : (k # h => new[k] = registry[k]) /\ (k = h => new[k] = owner)
  OBVIOUS
<1> HIDE DEF new
<1>4. Blocked(new, list, i)
  <2>1. ASSUME NEW k \in inject[list[i]], registry[k] = Nobody,
               \A j \in 1..(i - 1) : k \notin provides[list[j]]
        PROVE  new[k] = Nobody
    <3>1. k \in Keys /\ k # h
      BY <2>1, <1>2 DEF DeclaredOK
    <3>2. QED
      BY <3>1, <2>1, <1>3
  <2>2. ASSUME NEW k \in provides[list[i]], registry[k] # Nobody PROVE new[k] # Nobody
    <3>1. k \in Keys
      BY <1>2 DEF DeclaredOK
    <3>2. QED
      BY <3>1, <2>2, <1>3
  <2>3. QED
    BY <2>1, <2>2, <1>1 DEF Blocked
<1>5. Stuck(new, "apply", list)
  BY <1>1, <1>4 DEF Stuck
<1>6. QED
  BY <1>5 DEF new

LEMMA AppliedStuck ==
  ASSUME NEW list \in Seq(Plugins), list # <<>>, Stuck(registry, "apply", list)
  PROVE  Stuck(registry, "check", Tail(list))
<1> DEFINE r == Tail(list)
           n == Len(list)
<1>1. /\ n \in Nat /\ n > 0 /\ Len(r) = n - 1 /\ \A i \in 1..(n - 1) : r[i] = list[i + 1]
  BY RestOfStack
<1>2. PICK i \in 1..n : i # 1 /\ Blocked(registry, list, i)
  BY DEF Stuck
<1> HIDE DEF r, n
<1>3. i - 1 \in 1..(n - 1) /\ r[i - 1] = list[i]
  <2>1. i - 1 \in 1..(n - 1) /\ (i - 1) + 1 = i
    BY <1>1, <1>2
  <2>2. r[i - 1] = list[(i - 1) + 1]
    BY <2>1, <1>1
  <2>3. QED
    BY <2>1, <2>2
<1>4. ASSUME NEW j \in 1..((i - 1) - 1) PROVE r[j] = list[j + 1] /\ j + 1 \in 1..(i - 1)
  BY <1>1, <1>2
<1>5. Blocked(registry, r, i - 1)
  BY <1>2, <1>3, <1>4 DEF Blocked
<1>6. Stuck(registry, "check", r)
  BY <1>1, <1>3, <1>5 DEF Stuck
<1>7. QED
  BY <1>6 DEF r

Under == {"check", "needs", "offers", "apply"}

MountInv == \A c \in Callers : verdict[c] = "mount" =>
  /\ stage[c] # "refusing"
  /\ stage[c] \in Under => Ready(registry, stage[c], todo[c], keys[c])

RefuseInv == \A c \in Callers : verdict[c] = "refuse" =>
  /\ stage[c] # "mounted"
  /\ stage[c] \in Under => Stuck(registry, stage[c], todo[c])

\* What a call has looked up is so, as long as nobody disturbs it.
LookedInv == \A c \in Callers : verdict[c] # "open" =>
  /\ stage[c] = "needs" => \A k \in inject[todo[c][1]] \ keys[c] : registry[k] # Nobody
  /\ stage[c] = "offers" => /\ \A k \in inject[todo[c][1]] : registry[k] # Nobody
                            /\ \A k \in provides[todo[c][1]] \ keys[c] : registry[k] = Nobody

LEMMA LookedKept ==
  ASSUME KernelTypeOK, PlaceInv, LookedInv, [KernelNext]_kernelVars
  PROVE  LookedInv'
<1> DEFINE Seen(c) ==
      /\ stage'[c] = "needs" => \A k \in inject[todo'[c][1]] \ keys'[c] : registry'[k] # Nobody
      /\ stage'[c] = "offers" =>
           /\ \A k \in inject[todo'[c][1]] : registry'[k] # Nobody
           /\ \A k \in provides[todo'[c][1]] \ keys'[c] : registry'[k] = Nobody
<1>1. ASSUME NEW c \in Callers, verdict'[c] # "open" PROVE Seen(c)
  <2>1. verdict[c] # "open" =>
          /\ stage[c] = "needs" => \A k \in inject[todo[c][1]] \ keys[c] : registry[k] # Nobody
          /\ stage[c] = "offers" =>
               /\ \A k \in inject[todo[c][1]] : registry[k] # Nobody
               /\ \A k \in provides[todo[c][1]] \ keys[c] : registry[k] = Nobody
    BY DEF LookedInv
  <2>2. CASE StillAt(c)
    <3>1. /\ verdict[c] # "open" /\ registry' = registry
          /\ stage'[c] = stage[c] /\ todo'[c] = todo[c] /\ keys'[c] = keys[c]
      BY <1>1, <2>2 DEF StillAt
    <3>2. QED
      BY <2>1, <3>1
  <2>3. CASE TakeUp(c)
    BY <2>3, TakeUpAt
  <2>4. CASE LookUpNeed(c)
    <3>1. PICK k \in keys[c] : \/ registry[k] # Nobody /\ Looked(c, k)
                               \/ stage'[c] = "refusing"
      BY <2>4, NeedAt
    <3>2. stage[c] = "needs" /\ verdict[c] # "open" /\ registry' = registry
      BY <1>1, <2>4, NeedAt
    <3>3. QED
      BY <2>1, <3>1, <3>2 DEF Looked
  <2>5. CASE NeedsFound(c)
    <3>1. /\ stage[c] = "needs" /\ keys[c] = {} /\ verdict[c] # "open" /\ registry' = registry
          /\ stage'[c] = "offers" /\ todo'[c] = todo[c] /\ keys'[c] = provides[todo[c][1]]
      BY <1>1, <2>5, NeedsFoundAt
    <3>2. QED
      BY <2>1, <3>1
  <2>6. CASE LookUpOffer(c)
    <3>1. PICK k \in keys[c] : \/ registry[k] = Nobody /\ Looked(c, k)
                               \/ stage'[c] = "refusing"
      BY <2>6, OfferAt
    <3>2. stage[c] = "offers" /\ verdict[c] # "open" /\ registry' = registry
      BY <1>1, <2>6, OfferAt
    <3>3. QED
      BY <2>1, <3>1, <3>2 DEF Looked
  <2>7. CASE MountAll(c) \/ Mount(c)
    BY <2>7, MountAllAt, MountAt DEF Begun
  <2>8. CASE OffersFree(c) \/ RegisterKey(c) \/ Applied(c) \/ ApplyFails(c) \/ Mounted(c)
    BY <2>8, OffersFreeAt, RegisterAt, AppliedAt, FailsAt, MountedAt
  <2>9. CASE Unmount(c) \/ Undo(c) \/ Undone(c)
    BY <2>9, UnmountAt, UndoAt, UndoneAt
  <2> HIDE DEF Seen
  <2>10. QED
    BY <2>2, <2>3, <2>4, <2>5, <2>6, <2>7, <2>8, <2>9, StepOf DEF ActsAt
<1>2. \A c \in Callers : provides' = provides /\ inject' = inject
  BY StepOf
<1>3. QED
  BY <1>1, <1>2 DEF LookedInv

\* Where a call looks keys up nothing is being applied.
LEMMA SamePlace ==
  ASSUME NEW reg, NEW place, NEW other, place # "apply", other # "apply", NEW list, NEW left, NEW rest
  PROVE  /\ Ready(reg, place, list, left) => Ready(reg, other, list, rest)
         /\ Stuck(reg, place, list) => Stuck(reg, other, list)
BY DEF Ready, NoneTaken, NeedsMet, NoneShared, Stuck

\* The facts of a step that both need.
LEMMA RegisterWhat ==
  ASSUME KernelTypeOK, PlaceInv, NEW c \in Callers, RegisterKey(c)
  PROVE  /\ stage[c] = "apply" /\ stage'[c] = "apply" /\ verdict'[c] = verdict[c]
         /\ todo'[c] = todo[c] /\ todo[c] \in Seq(Plugins) /\ todo[c] # <<>>
         /\ keys[c] \in SUBSET provides[todo[c][1]] /\ DOMAIN registry = Keys
         /\ \E h \in keys[c], owner \in Callers \X Plugins :
              /\ owner # Nobody /\ registry' = [registry EXCEPT ![h] = owner]
              /\ keys'[c] = keys[c] \ {h}
<1>1. /\ stage[c] = "apply" /\ stage'[c] = "apply" /\ verdict'[c] = verdict[c]
      /\ todo'[c] = todo[c] /\ todo[c] \in Seq(Plugins) /\ DOMAIN registry = Keys
  BY RegisterAt DEF KernelTypeOK
<1>2. todo[c] # <<>> /\ keys[c] \in SUBSET provides[todo[c][1]]
  BY <1>1 DEF PlaceInv
<1>3. Head(todo[c]) \in Plugins
  BY <1>1, <1>2
<1>4. PICK h \in keys[c] : /\ registry' = [registry EXCEPT ![h] = <<c, Head(todo[c])>>]
                           /\ keys'[c] = keys[c] \ {h}
  BY RegisterAt
<1>5. <<c, Head(todo[c])>> \in Callers \X Plugins /\ <<c, Head(todo[c])>> # Nobody
  BY <1>3, KernelAssumption
<1>6. QED
  BY <1>1, <1>2, <1>4, <1>5

LEMMA MountKept ==
  ASSUME KernelTypeOK, PlaceInv, MountInv, [KernelNext]_kernelVars
  PROVE  MountInv'
<1>1. ASSUME NEW c \in Callers, verdict'[c] = "mount"
      PROVE  /\ stage'[c] # "refusing"
             /\ stage'[c] \in Under => Ready(registry', stage'[c], todo'[c], keys'[c])
  <2> DEFINE Goal == /\ stage'[c] # "refusing"
                     /\ stage'[c] \in Under =>
                          Ready(registry', stage'[c], todo'[c], keys'[c])
  <2>1. verdict[c] = "mount" => /\ stage[c] # "refusing"
                                /\ stage[c] \in Under =>
                                     Ready(registry, stage[c], todo[c], keys[c])
    BY DEF MountInv
  <2>2. DeclaredOK /\ todo[c] \in Seq(Plugins)
    BY DEF KernelTypeOK, DeclaredOK
  <2> USE DEF Under
  <2>3. ASSUME StillAt(c) PROVE Goal
    <3>1. verdict[c] = "mount" /\ registry' = registry
      BY <2>3, <1>1 DEF StillAt
    <3>2. QED
      BY <3>1, <2>1, <2>3 DEF StillAt
  <2>4. ASSUME MountAll(c) PROVE Goal
    <3>1. PICK G \in SUBSET Plugins :
            \/ Begun(c, "refusing", <<>>, Fits(G)) /\ ~Fits(G)
            \/ \E list : Begun(c, "check", list, Fits(G)) /\ OrderOf(G, list)
      BY <2>4, MountAllAt
    <3>2. PICK list : Begun(c, "check", list, Fits(G)) /\ OrderOf(G, list) /\ Fits(G)
      BY <3>1, <1>1 DEF Begun
    <3>3. Ready(registry, "check", list, keys'[c])
      BY <3>2, <2>2, FitsReady
    <3>4. QED
      BY <3>2, <3>3 DEF Begun
  <2>5. ASSUME Mount(c) PROVE Goal
    <3>1. PICK p \in Plugins : Begun(c, "check", <<p>>, Mountable(p)) /\ Mountable(p)
      BY <2>5, <1>1, MountAt DEF Begun
    <3>2. Ready(registry, "check", <<p>>, keys'[c])
      BY <3>1, OneReady
    <3>3. QED
      BY <3>1, <3>2 DEF Begun
  <2>12. ASSUME TakeUp(c) \/ NeedsFound(c) PROVE Goal
    <3>1. /\ stage[c] \in {"check", "needs"} /\ stage'[c] \in {"needs", "offers"}
          /\ todo'[c] = todo[c] /\ verdict[c] = "mount" /\ registry' = registry
      BY <2>12, <1>1, TakeUpAt, NeedsFoundAt
    <3>2. Ready(registry, stage'[c], todo[c], keys'[c])
      BY <3>1, <2>1, SamePlace
    <3>3. QED
      BY <3>1, <3>2
  <2>13. ASSUME LookUpNeed(c) PROVE Goal
    <3>1. stage[c] = "needs" /\ verdict[c] = "mount" /\ registry' = registry
      BY <2>13, <1>1, NeedAt
    <3>2. todo[c] # <<>> /\ keys[c] \subseteq inject[todo[c][1]]
      BY <3>1 DEF PlaceInv
    <3>3. Ready(registry, "check", todo[c], keys[c])
      BY <3>1, <2>1, SamePlace
    <3>4. Mountable(todo[c][1])
      BY <3>2, <3>3, <2>2, CheckedReady
    <3>5. PICK k \in keys[c] : \/ Looked(c, k)
                               \/ registry[k] = Nobody
      BY <2>13, NeedAt
    <3>6. registry[k] # Nobody
      BY <3>2, <3>4 DEF Mountable
    <3>7. stage'[c] = "needs" /\ todo'[c] = todo[c]
      BY <3>1, <3>5, <3>6 DEF Looked
    <3>8. Ready(registry, "needs", todo[c], keys'[c])
      BY <3>3, SamePlace
    <3>9. QED
      BY <3>1, <3>7, <3>8
  <2>14. ASSUME LookUpOffer(c) PROVE Goal
    <3>1. stage[c] = "offers" /\ verdict[c] = "mount" /\ registry' = registry
      BY <2>14, <1>1, OfferAt
    <3>2. todo[c] # <<>> /\ keys[c] \subseteq provides[todo[c][1]]
      BY <3>1 DEF PlaceInv
    <3>3. Ready(registry, "check", todo[c], keys[c])
      BY <3>1, <2>1, SamePlace
    <3>4. Mountable(todo[c][1])
      BY <3>2, <3>3, <2>2, CheckedReady
    <3>5. PICK k \in keys[c] : \/ Looked(c, k)
                               \/ registry[k] # Nobody
      BY <2>14, OfferAt
    <3>6. registry[k] = Nobody
      BY <3>2, <3>4 DEF Mountable
    <3>7. stage'[c] = "offers" /\ todo'[c] = todo[c]
      BY <3>1, <3>5, <3>6 DEF Looked
    <3>8. Ready(registry, "offers", todo[c], keys'[c])
      BY <3>3, SamePlace
    <3>9. QED
      BY <3>1, <3>7, <3>8
  <2>6. ASSUME OffersFree(c) PROVE Goal
    <3>1. /\ stage[c] = "offers" /\ todo[c] # <<>> /\ todo'[c] = todo[c] /\ verdict[c] = "mount"
          /\ registry' = registry /\ stage'[c] = "apply" /\ keys'[c] = provides[todo[c][1]]
      BY <2>6, <1>1, OffersFreeAt
    <3>2. Ready(registry, "check", todo[c], keys[c])
      BY <3>1, <2>1, SamePlace
    <3>3. Ready(registry, "apply", todo[c], provides[todo[c][1]])
      BY <3>1, <3>2, <2>2, CheckedReady
    <3>4. QED
      BY <3>1, <3>3
  <2>7. ASSUME RegisterKey(c) PROVE Goal
    <3>1. /\ stage[c] = "apply" /\ stage'[c] = "apply" /\ verdict[c] = "mount"
          /\ todo'[c] = todo[c] /\ todo[c] # <<>>
          /\ keys[c] \in SUBSET provides[todo[c][1]] /\ DOMAIN registry = Keys
      BY <2>7, <1>1, RegisterWhat
    <3>2. PICK h \in keys[c], owner \in Callers \X Plugins :
            /\ owner # Nobody /\ registry' = [registry EXCEPT ![h] = owner]
            /\ keys'[c] = keys[c] \ {h}
      BY <2>7, RegisterWhat
    <3>3. Ready(registry, "apply", todo[c], keys[c])
      BY <3>1, <2>1
    <3>4. Ready([registry EXCEPT ![h] = owner], "apply", todo[c], keys[c] \ {h})
      BY <3>1, <3>2, <3>3, <2>2, RegisteredReady
    <3>5. QED
      BY <3>1, <3>2, <3>4
  <2>8. ASSUME Applied(c) PROVE Goal
    <3>1. /\ stage[c] = "apply" /\ stage'[c] = "check" /\ todo'[c] = Tail(todo[c])
          /\ keys[c] = {} /\ verdict[c] = "mount" /\ registry' = registry
      BY <2>8, <1>1, AppliedAt
    <3>2. Ready(registry, "apply", todo[c], {}) /\ todo[c] # <<>>
      BY <3>1, <2>1 DEF PlaceInv
    <3>3. Ready(registry, "check", Tail(todo[c]), keys'[c])
      BY <3>2, <2>2, AppliedReady
    <3>4. QED
      BY <3>1, <3>3
  <2>9. ASSUME ApplyFails(c) \/ Mounted(c) \/ Unmount(c) \/ Undone(c) PROVE Goal
    BY <2>9, <1>1, FailsAt, MountedAt, UnmountAt, UndoneAt
  <2>10. ASSUME Undo(c) PROVE Goal
    BY <2>10, <2>1, <1>1, UndoAt
  <2> HIDE DEF Goal
  <2>11. Goal
    BY <2>3, <2>4, <2>5, <2>6, <2>7, <2>8, <2>9, <2>10, <2>12, <2>13, <2>14, StepOf DEF ActsAt
  <2>15. QED
    BY <2>11 DEF Goal
<1>2. ASSUME NEW c \in Callers PROVE provides' = provides /\ inject' = inject
  BY StepOf
<1>3. ASSUME NEW c \in Callers, Ready(registry', stage'[c], todo'[c], keys'[c])
      PROVE  Ready(registry, stage[c], todo[c], keys[c])'
  <2>1. provides' = provides /\ inject' = inject
    BY <1>2
  <2>2. NoneTaken(registry, stage[c], todo[c])'
    BY <2>1, <1>3 DEF Ready, NoneTaken
  <2>3. NeedsMet(registry, stage[c], todo[c], keys[c])'
    BY <2>1, <1>3 DEF Ready, NeedsMet
  <2>4. NoneShared(todo[c])'
    BY <2>1, <1>3 DEF Ready, NoneShared
  <2>5. QED
    BY <2>2, <2>3, <2>4 DEF Ready
<1>4. QED
  BY <1>1, <1>3 DEF MountInv

LEMMA RefuseKept ==
  ASSUME KernelTypeOK, PlaceInv, LookedInv, RefuseInv, [KernelNext]_kernelVars
  PROVE  RefuseInv'
<1>1. ASSUME NEW c \in Callers, verdict'[c] = "refuse"
      PROVE  /\ stage'[c] # "mounted"
             /\ stage'[c] \in Under => Stuck(registry', stage'[c], todo'[c])
  <2> DEFINE Goal == /\ stage'[c] # "mounted"
                     /\ stage'[c] \in Under =>
                          Stuck(registry', stage'[c], todo'[c])
  <2>1. verdict[c] = "refuse" => /\ stage[c] # "mounted"
                                 /\ stage[c] \in Under =>
                                      Stuck(registry, stage[c], todo[c])
    BY DEF RefuseInv
  <2>2. DeclaredOK /\ todo[c] \in Seq(Plugins)
    BY DEF KernelTypeOK, DeclaredOK
  <2> USE DEF Under
  <2>3. ASSUME StillAt(c) PROVE Goal
    <3>1. verdict[c] = "refuse" /\ registry' = registry
      BY <2>3, <1>1 DEF StillAt
    <3>2. QED
      BY <3>1, <2>1, <2>3 DEF StillAt
  <2>4. ASSUME MountAll(c) PROVE Goal
    <3>1. PICK G \in SUBSET Plugins :
            \/ Begun(c, "refusing", <<>>, Fits(G)) /\ ~Fits(G)
            \/ \E list : /\ Begun(c, "check", list, Fits(G)) /\ OrderOf(G, list)
                         /\ ~TwoProviders(G) /\ Acyclic(G)
      BY <2>4, MountAllAt
    <3>2. CASE Begun(c, "refusing", <<>>, Fits(G))
      BY <3>2 DEF Begun
    <3>3. ASSUME NEW list, Begun(c, "check", list, Fits(G)), OrderOf(G, list),
                 ~TwoProviders(G), Acyclic(G)
          PROVE  Goal
      <4>1. ~Fits(G)
        BY <3>3, <1>1 DEF Begun
      <4>2. Stuck(registry, "check", list)
        BY <4>1, <3>3, <2>2, UnfitStuck
      <4>3. QED
        BY <4>2, <3>3 DEF Begun
    <3>4. QED
      BY <3>1, <3>2, <3>3
  <2>5. ASSUME Mount(c) PROVE Goal
    <3>1. PICK p \in Plugins : Begun(c, "check", <<p>>, Mountable(p)) /\ ~Mountable(p)
      BY <2>5, <1>1, MountAt DEF Begun
    <3>2. Stuck(registry, "check", <<p>>)
      BY <3>1, OneStuck
    <3>3. QED
      BY <3>1, <3>2 DEF Begun
  <2>14. ASSUME TakeUp(c) \/ NeedsFound(c) PROVE Goal
    <3>1. /\ stage[c] \in {"check", "needs"} /\ stage'[c] \in {"needs", "offers"}
          /\ todo'[c] = todo[c] /\ verdict[c] = "refuse" /\ registry' = registry
      BY <2>14, <1>1, TakeUpAt, NeedsFoundAt
    <3>2. Stuck(registry, stage'[c], todo[c])
      BY <3>1, <2>1, SamePlace
    <3>3. QED
      BY <3>1, <3>2
  <2>15. ASSUME LookUpNeed(c) \/ LookUpOffer(c) PROVE Goal
    <3>1. /\ stage[c] \in {"needs", "offers"} /\ verdict[c] = "refuse" /\ registry' = registry
          /\ \/ stage'[c] = stage[c] /\ todo'[c] = todo[c]
             \/ stage'[c] = "refusing"
      BY <2>15, <1>1, NeedAt, OfferAt DEF Looked
    <3>2. QED
      BY <3>1, <2>1
  <2>6. ASSUME OffersFree(c) PROVE Goal
    <3>1. /\ stage[c] = "offers" /\ keys[c] = {} /\ todo'[c] = todo[c] /\ verdict[c] = "refuse"
          /\ registry' = registry /\ stage'[c] = "apply"
      BY <2>6, <1>1, OffersFreeAt
    <3>2. Mountable(todo[c][1])
      BY <3>1 DEF LookedInv, Mountable
    <3>3. Stuck(registry, "check", todo[c])
      BY <3>1, <2>1, SamePlace
    <3>4. Stuck(registry, "apply", todo[c])
      BY <3>2, <3>3, CheckedStuck
    <3>5. QED
      BY <3>1, <3>4
  <2>7. ASSUME RegisterKey(c) PROVE Goal
    <3>1. /\ stage[c] = "apply" /\ stage'[c] = "apply" /\ verdict[c] = "refuse"
          /\ todo'[c] = todo[c]
          /\ keys[c] \in SUBSET provides[todo[c][1]] /\ DOMAIN registry = Keys
      BY <2>7, <1>1, RegisterWhat
    <3>2. PICK h \in keys[c], owner \in Callers \X Plugins :
            /\ owner # Nobody /\ registry' = [registry EXCEPT ![h] = owner]
            /\ keys'[c] = keys[c] \ {h}
      BY <2>7, RegisterWhat
    <3>3. Stuck(registry, "apply", todo[c]) /\ h \in provides[todo[c][1]]
      BY <3>1, <3>2, <2>1
    <3>4. Stuck([registry EXCEPT ![h] = owner], "apply", todo[c])
      BY <3>1, <3>2, <3>3, <2>2, RegisteredStuck
    <3>5. QED
      BY <3>1, <3>2, <3>4
  <2>8. ASSUME Applied(c) PROVE Goal
    <3>1. /\ stage[c] = "apply" /\ stage'[c] = "check" /\ todo'[c] = Tail(todo[c])
          /\ verdict[c] = "refuse" /\ registry' = registry
      BY <2>8, <1>1, AppliedAt
    <3>2. Stuck(registry, "apply", todo[c]) /\ todo[c] # <<>>
      BY <3>1, <2>1 DEF PlaceInv
    <3>3. Stuck(registry, "check", Tail(todo[c]))
      BY <3>2, <2>2, AppliedStuck
    <3>4. QED
      BY <3>1, <3>3
  <2>9. ASSUME Mounted(c) PROVE Goal
    <3>1. stage[c] = "check" /\ todo[c] = <<>> /\ verdict[c] = "refuse"
      BY <2>9, <1>1, MountedAt
    <3>2. Stuck(registry, "check", <<>>)
      BY <3>1, <2>1
    <3>3. Len(<<>>) = 0 /\ 1..0 = {}
      OBVIOUS
    <3>4. QED
      BY <3>2, <3>3 DEF Stuck
  <2>10. ASSUME ApplyFails(c) \/ Unmount(c) \/ Undone(c) PROVE Goal
    BY <2>10, <1>1, FailsAt, UnmountAt, UndoneAt
  <2>11. ASSUME Undo(c) PROVE Goal
    BY <2>11, <2>1, <1>1, UndoAt
  <2> HIDE DEF Goal
  <2>12. Goal
    BY <2>3, <2>4, <2>5, <2>6, <2>7, <2>8, <2>9, <2>10, <2>11, <2>14, <2>15, StepOf DEF ActsAt
  <2>13. QED
    BY <2>12 DEF Goal
<1>2. ASSUME NEW c \in Callers PROVE provides' = provides /\ inject' = inject
  BY StepOf
<1>3. ASSUME NEW c \in Callers, Stuck(registry', stage'[c], todo'[c])
      PROVE  Stuck(registry, stage[c], todo[c])'
  BY <1>2, <1>3 DEF Stuck, Blocked
<1>4. QED
  BY <1>1, <1>3 DEF RefuseInv

----------------------------------------------------------------------------
(* The theorems.                                                           *)

KernelIInv == /\ KernelTypeOK /\ PlaceInv /\ NothingLeft /\ HeldInv
              /\ LookedInv /\ MountInv /\ RefuseInv

LEMMA KernelBegins ==
  ASSUME KernelInit PROVE KernelIInv
<1>1. /\ provides \in [Plugins -> SUBSET Keys] /\ inject \in [Plugins -> SUBSET Keys]
      /\ registry = [k \in Keys |-> Nobody] /\ stage = [c \in Callers |-> "idle"]
      /\ todo = [c \in Callers |-> <<>>] /\ keys = [c \in Callers |-> {}]
      /\ effects = [c \in Callers |-> {}] /\ verdict = [c \in Callers |-> "open"]
      /\ contested = {}
  BY DEF KernelInit
<1>2. registry \in [Keys -> {Nobody} \cup (Callers \X Plugins)]
  BY <1>1
<1>3. stage \in [Callers -> Places] /\ keys \in [Callers -> SUBSET Keys]
      /\ verdict \in [Callers -> {"open", "mount", "refuse"}]
  BY <1>1 DEF Places
<1>4. todo \in [Callers -> Seq(Plugins)] /\ effects \in [Callers -> SUBSET Effects]
  BY <1>1
<1>5. \A c \in Callers : IsInjective(todo[c])
  BY <1>1 DEF IsInjective
<1>6. KernelTypeOK
  BY <1>1, <1>2, <1>3, <1>4, <1>5 DEF KernelTypeOK
<1>7. PlaceInv /\ LookedInv /\ MountInv /\ RefuseInv
  BY <1>1 DEF PlaceInv, LookedInv, MountInv, RefuseInv
<1>8. NothingLeft
  <2>1. ASSUME NEW k \in Keys, NEW c \in Callers, NEW p \in Plugins, registry[k] = <<c, p>>
        PROVE  FALSE
    BY <2>1, <1>1, KernelAssumption
  <2>2. QED
    BY <2>1 DEF NothingLeft
<1>9. HeldInv
  BY <1>1 DEF HeldInv, KeyInv, AwaitedFree, OfferedOnce, HeldThere, Awaits, Offering
<1>10. QED
  BY <1>6, <1>7, <1>8, <1>9 DEF KernelIInv

LEMMA KernelKept ==
  ASSUME KernelIInv, [KernelNext]_kernelVars PROVE KernelIInv'
<1>1. KernelTypeOK /\ PlaceInv /\ NothingLeft /\ HeldInv /\ LookedInv /\ MountInv /\ RefuseInv
  BY DEF KernelIInv
<1>2. KernelTypeOK' /\ PlaceInv' /\ NothingLeft' /\ HeldInv' /\ LookedInv' /\ MountInv' /\ RefuseInv'
  BY <1>1, KernelTyped, PlaceKept, LeftKept, HeldKept, LookedKept, MountKept, RefuseKept
<1>3. QED
  BY <1>2 DEF KernelIInv

LEMMA KernelHolds == KernelSpec => []KernelIInv
BY KernelBegins, KernelKept, PTL DEF KernelSpec

\* The registry is what the effects of the mounted plugins say.
THEOREM RegistryIsSound == KernelSpec => []RegistrySound
<1>1. KernelIInv => RegistrySound
  <2>1. ASSUME KernelIInv, NEW c \in Callers, NEW e \in effects[c], e.key \notin contested
        PROVE  registry[e.key] = <<c, e.plugin>>
    <3>1. e \in Effects
      BY <2>1 DEF KernelIInv, KernelTypeOK
    <3>2. e.key \in Keys /\ e.plugin \in Plugins /\ e = Record(e.plugin, e.key)
      BY <3>1 DEF Effects, Record
    <3>3. HeldThere(e.key)
      BY <2>1, <3>2 DEF KernelIInv, HeldInv, KeyInv
    <3>4. Record(e.plugin, e.key) \in effects[c]
      BY <2>1, <3>2
    <3>5. QED
      BY <3>2, <3>3, <3>4 DEF HeldThere
  <2>2. QED
    BY <2>1 DEF KernelIInv, RegistrySound, HeldIsRegistered
<1>2. QED
  BY <1>1, KernelHolds, PTL

\* A registration does not outlive its effect.
THEOREM NothingIsLeft == KernelSpec => []NothingLeft
<1>1. KernelIInv => NothingLeft
  BY DEF KernelIInv
<1>2. QED
  BY <1>1, KernelHolds, PTL

\* A group or a plugin is refused exactly when it does not fit.
THEOREM RefusalIsRight == KernelSpec => []RefusedUnlessFits
<1>1. KernelIInv => RefusedUnlessFits
  BY DEF KernelIInv, MountInv, RefuseInv, RefusedUnlessFits
<1>2. QED
  BY <1>1, KernelHolds, PTL
=============================================================================
