------------------------ MODULE TaskControllerProofs ------------------------
(***************************************************************************)
(* Proofs about TaskController, for every set of tasks, sessions and       *)
(* concurrent run_task calls.  The inductive invariant is the conjunction  *)
(* of the types, the agreement of slots and statuses, and the existence of *)
(* an executing call for every working task whose entry into working was   *)
(* saved.                                                                  *)
(***************************************************************************)
EXTENDS TaskController, TLAPS

\* The inductive invariant: types, slots and executing calls together.
IInv == TypeOK /\ SlotConsistent /\ WorkingIsExecuted

\* The sections of the table that run_task and the clients share.
TableType ==
  /\ status \in [Tasks -> TaskStatus \union {Absent}]
  /\ session \in [Tasks -> Sessions \union {None}]
  /\ errors \subseteq Tasks
  /\ slot \in [Sessions -> Tasks \union {None}]
  /\ \A t \in Tasks : Exists(t) <=> session[t] # None

\* An accepted status update (update_status) keeps the table well typed and the
\* slots in agreement with the statuses.
LEMMA ApplyStatusKeeps ==
  ASSUME NEW t \in Tasks, NEW to \in TaskStatus,
         TableType, SlotConsistent, Accepted(t, to), ApplyStatus(t, to)
  PROVE  TableType' /\ SlotConsistent'
<1> USE NoneAssumption DEF TableType, Accepted, ApplyStatus, Exists, Absent
<1>1. session[t] \in Sessions /\ status[t] # Absent
  OBVIOUS
<1>2. TableType'
  <2>1. SlotAfter(t, to) \in Tasks \union {None}
    BY <1>1 DEF SlotAfter
  <2>2. slot' \in [Sessions -> Tasks \union {None}]
    BY <1>1, <2>1
  <2>3. status' \in [Tasks -> TaskStatus \union {Absent}]
    OBVIOUS
  <2>4. \A u \in Tasks : status'[u] # Absent <=> session'[u] # None
    BY <1>1 DEF TaskStatus
  <2>5. QED
    BY <2>2, <2>3, <2>4
<1>3. CASE status[t] = to
  BY <1>3 DEF SlotConsistent
<1>4. CASE status[t] # to
  <2>1. to \in AllowedTransitions(status[t]) /\ (to = "working" => SlotAvailable(t))
    BY <1>4
  <2>2. slot' = [slot EXCEPT ![session[t]] = SlotAfter(t, to)]
    BY <1>4
  <2>3. status' = [status EXCEPT ![t] = to] /\ session' = session
    OBVIOUS
  <2>4. CASE to = "working"
    BY <1>1, <2>1, <2>2, <2>3, <2>4
    DEF SlotConsistent, SlotAvailable, SlotAfter, ActiveStatus
  <2>5. CASE to = "input-required"
    <3>1. status[t] = "working"
      BY <1>1, <2>1, <2>5 DEF AllowedTransitions, TaskStatus
    <3>2. slot' = slot
      BY <1>1, <2>2, <2>5 DEF SlotAfter
    <3>3. QED
      BY <1>1, <2>3, <2>5, <3>1, <3>2 DEF SlotConsistent, ActiveStatus
  <2>6. CASE to \in {"completed", "failed", "canceled", "paused"}
    <3>1. slot' = [slot EXCEPT ![session[t]] =
                     IF slot[session[t]] = t THEN None ELSE slot[session[t]]]
      BY <2>2, <2>6 DEF SlotAfter
    <3>2. QED
      BY <1>1, <2>3, <2>6, <3>1 DEF SlotConsistent, ActiveStatus
  <2>7. CASE to \in {"submitted", "waiting"}
    <3>1. status[t] \notin ActiveStatus
      BY <1>1, <2>1, <2>7 DEF AllowedTransitions, ActiveStatus, TaskStatus
    <3>2. slot' = slot
      BY <1>1, <2>2, <2>7 DEF SlotAfter
    <3>3. QED
      BY <1>1, <2>3, <2>7, <3>1, <3>2 DEF SlotConsistent, ActiveStatus
  <2>8. to \in {"working", "input-required", "completed", "failed", "canceled",
                "paused", "submitted", "waiting"}
    BY <1>1, <2>1 DEF AllowedTransitions, TaskStatus
  <2>9. QED
    BY <1>2, <2>4, <2>5, <2>6, <2>7, <2>8
<1>5. QED
  BY <1>2, <1>3, <1>4

\* The sections of the table other than a status update keep it well typed and
\* consistent: a task is created inactive, retried from failed, and removed
\* together with its slot.
LEMMA OtherSectionsKeep ==
  ASSUME NEW t \in Tasks, TableType, SlotConsistent,
         \/ \E s \in Sessions, st \in InitialStatuses : CreateTask(t, s, st)
         \/ RetryTask(t)
         \/ SetTaskError(t)
         \/ RemoveTask(t)
  PROVE  TableType' /\ SlotConsistent'
<1> USE NoneAssumption, CallerAssumption
    DEF TableType, Exists, Absent, TaskStatus, ActiveStatus
<1>1. ASSUME NEW s \in Sessions, NEW st \in InitialStatuses, CreateTask(t, s, st)
      PROVE  TableType' /\ SlotConsistent'
  <2>1. TableType'
    BY <1>1 DEF CreateTask
  <2>2. \A x \in Sessions : slot[x] # t
    BY <1>1 DEF CreateTask, SlotConsistent
  <2>3. SlotConsistent'
    BY <1>1, <2>2 DEF CreateTask, SlotConsistent
  <2>4. QED
    BY <2>1, <2>3
<1>2. CASE RetryTask(t)
  BY <1>2 DEF RetryTask, SlotConsistent
<1>3. CASE SetTaskError(t)
  BY <1>3 DEF SetTaskError, SlotConsistent
<1>4. CASE RemoveTask(t)
  <2>1. TableType'
    BY <1>4 DEF RemoveTask
  <2>2. \A s \in Sessions : slot'[s] # None => slot'[s] = slot[s] /\ slot[s] # t
    BY <1>4 DEF RemoveTask, SlotConsistent
  <2>3. SlotConsistent'
    BY <1>4, <2>1, <2>2 DEF RemoveTask, SlotConsistent
  <2>4. QED
    BY <2>1, <2>3
<1>5. QED
  BY <1>1, <1>2, <1>3, <1>4

----------------------------------------------------------------------------
\* The invariant holds of the empty controller.
LEMMA InitIInv == Init => IInv
BY NoneAssumption
DEF Init, EmptyTable, IInv, TypeOK, SlotConsistent, WorkingIsExecuted, Executed,
    Exists, Absent, Steps, ActiveStatus

\* The types of the run_task calls, kept apart from those of the table.
RunnerType ==
  /\ pc \in [Runners -> Steps]
  /\ job \in [Runners -> Tasks \union {None}]
  /\ jobSession \in [Runners -> Sessions \union {None}]
  /\ unsaved \subseteq Tasks
  /\ \A r \in Runners : pc[r] # "idle" => job[r] # None /\ jobSession[r] # None

\* An operation of a client, between any two steps of the run_task calls, keeps
\* the invariant: no client makes a task working.
LEMMA ClientKeeps ==
  ASSUME IInv, NEW t \in Tasks, Client(t)
  PROVE  IInv'
<1>1. TableType /\ SlotConsistent /\ RunnerType /\ WorkingIsExecuted
  BY DEF IInv, TypeOK, TableType, RunnerType
<1>2. UNCHANGED runnerVars /\ StillUnsaved
  BY DEF Client, Create, ClientUpdate, Cancel, Retry, Remove
<1>3. RunnerType'
  BY <1>1, <1>2 DEF RunnerType, runnerVars, StillUnsaved
<1>4. SUFFICES /\ TableType' /\ SlotConsistent'
               /\ \A u \in Tasks : status'[u] = "working" => status[u] = "working"
  BY <1>1, <1>2, <1>3
  DEF IInv, TypeOK, TableType, RunnerType, WorkingIsExecuted, Executed, StillUnsaved, runnerVars
<1>5. CASE \E s \in Sessions : Create(t, s)
  <2>1. PICK s \in Sessions, st \in InitialStatuses : CreateTask(t, s, st)
    BY <1>5 DEF Create
  <2>2. QED
    BY <1>1, <2>1, OtherSectionsKeep, CallerAssumption
    DEF CreateTask, TableType, ActiveStatus
<1>6. CASE ClientUpdate(t) \/ Cancel(t)
  <2>1. PICK to \in TaskStatus \ {"working"} : Accepted(t, to) /\ ApplyStatus(t, to)
    BY <1>6, CallerAssumption DEF ClientUpdate, Cancel, TaskStatus
  <2>2. QED
    BY <1>1, <2>1, ApplyStatusKeeps DEF ApplyStatus, TableType
<1>7. CASE Retry(t)
  BY <1>1, <1>7, OtherSectionsKeep DEF Retry, RetryTask, TableType
<1>8. CASE Remove(t)
  BY <1>1, <1>8, OtherSectionsKeep DEF Remove, RemoveTask, TableType, Absent
<1>9. QED
  BY <1>5, <1>6, <1>7, <1>8 DEF Client

\* A call that leaves the table alone keeps the invariant as long as it does
\* not leave or enter the executor.
LEMMA QuietRunnerKeeps ==
  ASSUME IInv, UNCHANGED <<tableVars, unsaved>>, RunnerType',
         \A r \in Runners : pc[r] = "executing" =>
           pc'[r] = "executing" /\ job'[r] = job[r]
  PROVE  IInv'
BY DEF IInv, TypeOK, SlotConsistent, WorkingIsExecuted, Executed, RunnerType, tableVars,
       Exists, Absent

\* Reading the task and checking the slot change nothing that is shared.
LEMMA AdmissionKeeps ==
  ASSUME IInv, NEW r \in Runners,
         (\E t \in Tasks : RunRead(r, t)) \/ RunAdmit(r)
  PROVE  IInv'
<1> USE NoneAssumption DEF RunnerType, Goto, Return, Steps
<1>1. RunnerType /\ TableType
  BY DEF IInv, TypeOK, TableType
<1>2. CASE \E t \in Tasks : RunRead(r, t)
  <2>1. PICK t \in Tasks : RunRead(r, t)
    BY <1>2
  <2>2. session[t] \in Sessions
    BY <1>1, <2>1 DEF RunRead, TableType, Exists, Absent
  <2>3. RunnerType'
    BY <1>1, <2>1, <2>2 DEF RunRead
  <2>4. QED
    BY <1>1, <2>1, <2>3, QuietRunnerKeeps DEF RunRead
<1>3. CASE RunAdmit(r)
  <2>1. RunnerType'
    BY <1>1, <1>3 DEF RunAdmit
  <2>2. QED
    BY <1>1, <1>3, <2>1, QuietRunnerKeeps DEF RunAdmit
<1>4. QED
  BY <1>2, <1>3

\* Entering working, under the same lock as the slot, is the one step that makes
\* a task working; the call that does it executes the task or could not save it.
LEMMA StartKeeps ==
  ASSUME IInv, NEW r \in Runners, RunStart(r)
  PROVE  IInv'
<1> USE NoneAssumption DEF RunnerType, Goto, Return, Steps
<1>1. RunnerType /\ TableType /\ SlotConsistent
  BY DEF IInv, TypeOK, TableType
<1>2. job[r] \in Tasks
  BY <1>1 DEF RunStart
<1>3. RunnerType'
  BY <1>1 DEF RunStart
<1>4. ASSUME Accepted(job[r], "working"), ApplyStatus(job[r], "working"),
             \A q \in Runners \ {r} : pc'[q] = pc[q] /\ job'[q] = job[q],
             unsaved \subseteq unsaved', pc[r] # "executing",
             \/ pc'[r] = "executing" /\ job'[r] = job[r]
             \/ job[r] \in unsaved'
      PROVE  IInv'
  <2>1. TableType' /\ SlotConsistent'
    BY <1>1, <1>2, <1>4, ApplyStatusKeeps DEF TaskStatus
  <2>2. WorkingIsExecuted'
    <3> SUFFICES ASSUME NEW u \in Tasks, status'[u] = "working"
                 PROVE  Executed(u)' \/ u \in unsaved'
      BY DEF WorkingIsExecuted
    <3>1. CASE u = job[r]
      BY <1>4, <3>1 DEF Executed
    <3>2. CASE u # job[r]
      <4>1. status[u] = "working"
        BY <1>1, <1>2, <1>4, <3>2 DEF ApplyStatus, TableType
      <4>2. Executed(u) \/ u \in unsaved
        BY <4>1 DEF IInv, WorkingIsExecuted
      <4>3. QED
        BY <1>4, <4>2 DEF Executed
    <3>3. QED
      BY <3>1, <3>2
  <2>3. QED
    BY <1>3, <2>1, <2>2 DEF IInv, TypeOK, TableType
<1>5. CASE Accepted(job[r], "working")
  <2>1. /\ ApplyStatus(job[r], "working") /\ pc[r] # "executing"
        /\ \A q \in Runners \ {r} : pc'[q] = pc[q] /\ job'[q] = job[q]
        /\ unsaved \subseteq unsaved'
    BY <1>1, <1>5 DEF RunStart
  <2>2. \/ pc'[r] = "executing" /\ job'[r] = job[r]
        \/ job[r] \in unsaved'
    BY <1>1, <1>5 DEF RunStart
  <2>3. QED
    BY <1>4, <1>5, <2>1, <2>2
<1>6. CASE ~Accepted(job[r], "working")
  BY <1>1, <1>3, <1>6, QuietRunnerKeeps DEF RunStart
<1>7. QED
  BY <1>5, <1>6

\* Writing the outcome: the call leaves the executor in the step that takes its
\* task out of working, whatever became of the task meanwhile.
LEMMA OutcomeKeeps ==
  ASSUME IInv, NEW r \in Runners, RunSucceed(r) \/ RunFail(r)
  PROVE  IInv'
<1> USE NoneAssumption DEF RunnerType, Goto, Return, Steps
<1>1. RunnerType /\ TableType /\ SlotConsistent
  BY DEF IInv, TypeOK, TableType
<1>2. job[r] \in Tasks /\ pc[r] = "executing"
  BY <1>1 DEF RunSucceed, RunFail
<1>3. RunnerType' /\ StillUnsaved
  BY <1>1 DEF RunSucceed, RunFail, StillUnsaved
<1>4. PICK to \in {"completed", "failed"} : UpdateStatus(job[r], to)
  BY DEF RunSucceed, RunFail
<1>5. TableType' /\ SlotConsistent'
  <2>1. CASE Accepted(job[r], to)
    BY <1>1, <1>2, <1>4, <2>1, ApplyStatusKeeps DEF UpdateStatus, TaskStatus
  <2>2. CASE ~Accepted(job[r], to)
    BY <1>1, <1>4, <2>2
    DEF UpdateStatus, tableVars, TableType, SlotConsistent, Exists
  <2>3. QED
    BY <2>1, <2>2
<1>6. status'[job[r]] # "working"
  <2>1. status[job[r]] = "working" => Accepted(job[r], to)
    BY <1>2, <1>4 DEF Accepted, Exists, Absent, AllowedTransitions
  <2>2. QED
    BY <1>1, <1>2, <1>4, <2>1 DEF UpdateStatus, ApplyStatus, TableType, tableVars
<1>7. \A u \in Tasks : status'[u] = "working" => status[u] = "working"
  BY <1>1, <1>2, <1>4, <1>6 DEF UpdateStatus, ApplyStatus, TableType, tableVars
<1>8. \A q \in Runners \ {r} : pc'[q] = pc[q] /\ job'[q] = job[q]
  BY <1>1 DEF RunSucceed, RunFail
<1>9. WorkingIsExecuted'
  <2> SUFFICES ASSUME NEW u \in Tasks, status'[u] = "working"
               PROVE  Executed(u)' \/ u \in unsaved'
    BY DEF WorkingIsExecuted
  <2>1. CASE u \in unsaved
    BY <1>3, <2>1 DEF StillUnsaved
  <2>2. CASE Executed(u)
    <3>1. PICK q \in Runners : pc[q] = "executing" /\ job[q] = u
      BY <2>2 DEF Executed
    <3>2. q # r
      BY <1>6, <3>1
    <3>3. QED
      BY <1>8, <3>1, <3>2 DEF Executed
  <2>3. QED
    BY <1>7, <2>1, <2>2 DEF IInv, WorkingIsExecuted
<1>10. QED
  BY <1>3, <1>5, <1>9 DEF IInv, TypeOK, TableType

\* Recording the error of a failed run touches the error messages only.
LEMMA RecordKeeps ==
  ASSUME IInv, NEW r \in Runners, RunRecordError(r)
  PROVE  IInv'
<1>1. RunnerType /\ TableType /\ SlotConsistent
  BY DEF IInv, TypeOK, TableType, RunnerType
<1>2. job[r] \in Tasks
  BY <1>1 DEF RunRecordError, RunnerType
<1>3. RunnerType'
  BY <1>1, NoneAssumption DEF RunRecordError, RunnerType, Return, Goto, Steps
<1>4. TableType' /\ SlotConsistent'
  BY <1>1, <1>2, OtherSectionsKeep DEF RunRecordError
<1>5. WorkingIsExecuted'
  BY <1>1 DEF IInv, WorkingIsExecuted, Executed, RunRecordError, SetTaskError,
              Return, Goto, RunnerType
<1>6. QED
  BY <1>3, <1>4, <1>5 DEF IInv, TypeOK, TableType, RunnerType

LEMMA NextIInv == IInv /\ [Next]_vars => IInv'
<1> SUFFICES ASSUME IInv, [Next]_vars PROVE IInv'
  OBVIOUS
<1>1. CASE \E t \in Tasks : Client(t)
  BY <1>1, ClientKeeps
<1>2. CASE \E r \in Runners, t \in Tasks : RunRead(r, t)
  BY <1>2, AdmissionKeeps
<1>3. CASE \E r \in Runners : RunStep(r)
  BY <1>3, AdmissionKeeps, StartKeeps, OutcomeKeeps, RecordKeeps DEF RunStep
<1>4. CASE UNCHANGED vars
  BY <1>4 DEF vars, IInv, TypeOK, SlotConsistent, WorkingIsExecuted, Executed, Exists
<1>5. QED
  BY <1>1, <1>2, <1>3, <1>4 DEF Next

\* The table, the slots and the executing calls agree in every reachable state.
THEOREM Invariance == Spec => []IInv
BY InitIInv, NextIInv, PTL DEF Spec

\* The types of the table and of the run_task calls.
THEOREM Typing == Spec => []TypeOK
BY Invariance, PTL DEF IInv

\* Slot map and statuses agree, for any number of tasks and run_task calls.
THEOREM SlotsAgree == Spec => []SlotConsistent
BY Invariance, PTL DEF IInv

\* A working task has a run_task call that will write its outcome, or the change
\* to working could not be saved: no third way leads to it.
THEOREM NoOrphanWorking == Spec => []WorkingIsExecuted
BY Invariance, PTL DEF IInv

\* At most one task of a session is active: both would own the same slot.
THEOREM OneActive == Spec => []OneActivePerSession
<1>1. IInv => OneActivePerSession
  BY DEF IInv, SlotConsistent, OneActivePerSession
<1>2. QED
  BY <1>1, Invariance, PTL

\* A failed run keeps its error, as long as callers do not fail tasks themselves:
\* only a retry and a removal take the error away, and with it the status.
THEOREM FailureIsRecorded ==
  ASSUME "failed" \notin InitialStatuses, "failed" \notin ClientStatuses
  PROVE  Spec => []FailedHasError
<1>1. Init => FailedHasError
  BY DEF Init, EmptyTable, FailedHasError, Absent
<1>2. ASSUME IInv, FailedHasError, [Next]_vars
      PROVE  FailedHasError'
  <2> SUFFICES ASSUME NEW u \in Tasks, status'[u] = "failed"
               PROVE  u \in errors' \/ \E q \in Runners : pc'[q] = "record" /\ job'[q] = u
    BY DEF FailedHasError
  <2>0. TypeOK
    BY <1>2 DEF IInv
  <2> USE <2>0 DEF TypeOK
  <2>old. status[u] = "failed" =>
            u \in errors \/ \E q \in Runners : pc[q] = "record" /\ job[q] = u
    BY <1>2 DEF FailedHasError
  <2>1. ASSUME NEW t \in Tasks, Client(t)
        PROVE  status[u] = "failed" /\ (u \in errors => u \in errors') /\ UNCHANGED runnerVars
    <3>1. CASE \E s \in Sessions : Create(t, s)
      BY <3>1, <2>0 DEF Create, CreateTask, Exists, Absent
    <3>2. CASE ClientUpdate(t)
      BY <3>2 DEF ClientUpdate, ApplyStatus
    <3>3. CASE Cancel(t)
      BY <3>3 DEF Cancel, ApplyStatus
    <3>4. CASE Retry(t)
      BY <3>4 DEF Retry, RetryTask
    <3>5. CASE Remove(t)
      BY <3>5 DEF Remove, RemoveTask, Absent
    <3>6. QED
      BY <2>1, <3>1, <3>2, <3>3, <3>4, <3>5 DEF Client
  <2>2. ASSUME NEW r \in Runners, pc[r] # "record", UNCHANGED tableVars,
               \A q \in Runners \ {r} : pc'[q] = pc[q] /\ job'[q] = job[q]
        PROVE  u \in errors' \/ \E q \in Runners : pc'[q] = "record" /\ job'[q] = u
    BY <2>2, <2>old DEF tableVars
  <2>3. ASSUME NEW r \in Runners, NEW t \in Tasks, RunRead(r, t)
        PROVE  u \in errors' \/ \E q \in Runners : pc'[q] = "record" /\ job'[q] = u
    BY <2>3, <2>2 DEF RunRead, Goto
  <2>4. ASSUME NEW r \in Runners, RunStep(r)
        PROVE  u \in errors' \/ \E q \in Runners : pc'[q] = "record" /\ job'[q] = u
    <3>1. CASE RunAdmit(r)
      BY <3>1, <2>2 DEF RunAdmit, Goto, Return
    <3>2. CASE RunStart(r) \/ RunSucceed(r)
      <4>1. status[u] = "failed" /\ errors' = errors
        BY <3>2 DEF RunStart, RunSucceed, UpdateStatus, ApplyStatus, tableVars
      <4>2. pc[r] # "record" /\ \A q \in Runners \ {r} : pc'[q] = pc[q] /\ job'[q] = job[q]
        BY <3>2 DEF RunStart, RunSucceed, Goto, Return
      <4>3. QED
        BY <4>1, <4>2, <2>old
    <3>3. CASE RunFail(r)
      <4>1. pc'[r] = "record" /\ job' = job /\ errors' = errors
            /\ \A q \in Runners \ {r} : pc'[q] = pc[q]
        BY <3>3 DEF RunFail, UpdateStatus, ApplyStatus, tableVars, Goto
      <4>2. CASE u = job[r]
        BY <4>1, <4>2
      <4>3. CASE u # job[r]
        <5>1. status[u] = "failed"
          BY <3>3, <4>3 DEF RunFail, UpdateStatus, ApplyStatus, tableVars
        <5>2. QED
          BY <4>1, <5>1, <2>old
      <4>4. QED
        BY <4>2, <4>3
    <3>4. CASE RunRecordError(r)
      <4>1. status[u] = "failed" /\ (u = job[r] => u \in errors') /\ (u \in errors => u \in errors')
        BY <3>4 DEF RunRecordError, SetTaskError, Exists, Absent
      <4>2. \A q \in Runners \ {r} : pc'[q] = pc[q] /\ job'[q] = job[q]
        BY <3>4 DEF RunRecordError, Goto, Return
      <4>3. QED
        BY <4>1, <4>2, <2>old
    <3>5. QED
      BY <2>4, <3>1, <3>2, <3>3, <3>4 DEF RunStep
  <2>5. CASE UNCHANGED vars
    BY <2>5, <2>old DEF vars
  <2>6. QED
    <3>1. CASE \E t \in Tasks : Client(t)
      BY <3>1, <2>1, <2>old DEF runnerVars
    <3>2. QED
      BY <1>2, <2>3, <2>4, <2>5, <3>1 DEF Next
<1>3. QED
  BY <1>1, <1>2, Invariance, PTL DEF Spec

----------------------------------------------------------------------------
(* Action properties and refinement.                                       *)

\* The four ways a step can change the table.
LEMMA TableSteps ==
  ASSUME IInv, [Next]_vars
  PROVE  \/ UNCHANGED tableVars
         \/ \E t \in Tasks, to \in TaskStatus : Accepted(t, to) /\ ApplyStatus(t, to)
         \/ \E t \in Tasks, s \in Sessions, st \in InitialStatuses : CreateTask(t, s, st)
         \/ \E t \in Tasks : RetryTask(t) \/ SetTaskError(t) \/ RemoveTask(t)
<1>1. CASE \E t \in Tasks : Client(t)
  BY <1>1, CallerAssumption
  DEF Client, Create, ClientUpdate, Cancel, Retry, Remove, TaskStatus
<1>2. CASE \E r \in Runners, t \in Tasks : RunRead(r, t)
  BY <1>2 DEF RunRead
<1>3. ASSUME NEW r \in Runners, RunStep(r)
      PROVE  \/ UNCHANGED tableVars
             \/ \E t \in Tasks, to \in TaskStatus : Accepted(t, to) /\ ApplyStatus(t, to)
             \/ \E t \in Tasks : SetTaskError(t)
  <2>1. pc[r] # "idle" => job[r] \in Tasks
    BY DEF IInv, TypeOK
  <2>2. CASE RunAdmit(r)
    BY <2>2 DEF RunAdmit
  <2>3. CASE RunStart(r)
    BY <2>1, <2>3 DEF RunStart, TaskStatus
  <2>4. CASE RunSucceed(r) \/ RunFail(r)
    BY <2>1, <2>4 DEF RunSucceed, RunFail, UpdateStatus, TaskStatus
  <2>5. CASE RunRecordError(r)
    BY <2>1, <2>5 DEF RunRecordError
  <2>6. QED
    BY <1>3, <2>2, <2>3, <2>4, <2>5 DEF RunStep
<1>4. CASE UNCHANGED vars
  BY <1>4 DEF vars, tableVars
<1>5. QED
  BY <1>1, <1>2, <1>3, <1>4 DEF Next

\* A late outcome, a second cancellation or a retry never changes a completed
\* or canceled task.
THEOREM FinalNeverChanges == Spec => FinalStays
<1>1. ASSUME IInv, [Next]_vars, NEW u \in Tasks, status[u] \in {"completed", "canceled"}
      PROVE  status'[u] \in {status[u], Absent}
  <2> USE DEF IInv, TypeOK
  <2>1. ASSUME NEW t \in Tasks, NEW to \in TaskStatus, Accepted(t, to), ApplyStatus(t, to)
        PROVE  status'[u] = status[u]
    BY <1>1, <2>1 DEF Accepted, ApplyStatus, AllowedTransitions
  <2>2. ASSUME NEW t \in Tasks, NEW s \in Sessions, NEW st \in InitialStatuses,
               CreateTask(t, s, st)
        PROVE  status'[u] = status[u]
    BY <1>1, <2>2 DEF CreateTask, Exists, Absent
  <2>3. ASSUME NEW t \in Tasks, RetryTask(t) \/ SetTaskError(t) \/ RemoveTask(t)
        PROVE  status'[u] \in {status[u], Absent}
    BY <1>1, <2>3 DEF RetryTask, SetTaskError, RemoveTask
  <2>4. QED
    BY <1>1, <2>1, <2>2, <2>3, TableSteps DEF tableVars
<1>2. IInv /\ [Next]_vars =>
        [\A t \in Tasks : status[t] \in {"completed", "canceled"} =>
           status'[t] \in {status[t], Absent}]_vars
  BY <1>1
<1>3. QED
  BY <1>2, Invariance, PTL DEF Spec, FinalStays

\* Under the invariant the active tasks of a session are exactly its slot.
LEMMA ActiveIsSlot ==
  ASSUME IInv, NEW s \in Sessions
  PROVE  ActiveTasks(s) = IF slot[s] = None THEN {} ELSE {slot[s]}
BY NoneAssumption
DEF IInv, TypeOK, SlotConsistent, ActiveTasks, ActiveStatus, Exists, Absent

\* A step changes at most one slot, and passes it through None.
LEMMA SlotSteps ==
  ASSUME IInv, [Next]_vars
  PROVE  \/ slot' = slot
         \/ \E s \in Sessions, t \in Tasks :
              \/ slot[s] = None /\ slot' = [slot EXCEPT ![s] = t]
              \/ slot[s] = t /\ slot' = [slot EXCEPT ![s] = None]
<1> USE NoneAssumption DEF IInv, TypeOK
<1>1. ASSUME NEW t \in Tasks, NEW to \in TaskStatus, Accepted(t, to), ApplyStatus(t, to)
      PROVE  \/ slot' = slot
             \/ slot[session[t]] = None /\ slot' = [slot EXCEPT ![session[t]] = t]
             \/ slot[session[t]] = t /\ slot' = [slot EXCEPT ![session[t]] = None]
  <2>1. session[t] \in Sessions
    BY <1>1 DEF Accepted
  <2>2. CASE status[t] = to
    BY <1>1, <2>2 DEF ApplyStatus
  <2>3. CASE status[t] # to
    <3>1. slot' = [slot EXCEPT ![session[t]] = SlotAfter(t, to)]
      BY <1>1, <2>3 DEF ApplyStatus
    <3>2. \/ SlotAfter(t, to) = slot[session[t]]
          \/ slot[session[t]] = None /\ SlotAfter(t, to) = t
          \/ slot[session[t]] = t /\ SlotAfter(t, to) = None
      BY <1>1, <2>3 DEF SlotAfter, Accepted, SlotAvailable
    <3>3. QED
      BY <2>1, <3>1, <3>2
  <2>4. QED
    BY <2>2, <2>3
<1>2. ASSUME NEW t \in Tasks, RemoveTask(t)
      PROVE  \/ slot' = slot
             \/ slot[session[t]] = t /\ slot' = [slot EXCEPT ![session[t]] = None]
  <2>1. session[t] \in Sessions
    BY <1>2 DEF RemoveTask
  <2>2. CASE slot[session[t]] = t
    <3>1. slot' = [slot EXCEPT ![session[t]] = None]
      BY <1>2, <2>1, <2>2 DEF RemoveTask
    <3>2. QED
      BY <2>2, <3>1
  <2>3. CASE slot[session[t]] # t
    <3>1. slot' = slot
      BY <1>2, <2>3 DEF RemoveTask
    <3>2. QED
      BY <3>1
  <2>4. QED
    BY <2>2, <2>3
<1>3. \A t \in Tasks : Exists(t) => session[t] \in Sessions
  OBVIOUS
<1>4. QED
  BY <1>1, <1>2, <1>3, TableSteps
  DEF tableVars, CreateTask, RetryTask, SetTaskError, RemoveTask, Accepted

\* The controller implements the abstract session slots: no session ever has a
\* second active task, not even between two steps of concurrent calls.
THEOREM Refinement == Spec => ImplementsSlots
<1>1. Init => Slots!Init
  BY DEF Init, EmptyTable, Slots!Init, ActiveBySession, ActiveTasks, ActiveStatus, Absent
<1>2. IInv /\ IInv' /\ [Next]_vars => [Slots!Next]_ActiveBySession
  <2> SUFFICES ASSUME IInv, IInv', [Next]_vars PROVE [Slots!Next]_ActiveBySession
    OBVIOUS
  <2>1. ActiveBySession = [s \in Sessions |-> IF slot[s] = None THEN {} ELSE {slot[s]}]
    BY ActiveIsSlot DEF ActiveBySession
  <2>2. ActiveBySession' = [s \in Sessions |-> IF slot'[s] = None THEN {} ELSE {slot'[s]}]
    <3>1. \A s \in Sessions : ActiveTasks(s)' = IF slot'[s] = None THEN {} ELSE {slot'[s]}
      BY ActiveIsSlot, NoneAssumption
      DEF IInv, TypeOK, SlotConsistent, ActiveTasks, ActiveStatus, Exists, Absent
    <3>2. QED
      BY <3>1 DEF ActiveBySession
  <2>3. CASE slot' = slot
    BY <2>1, <2>2, <2>3
  <2>4. ASSUME NEW s \in Sessions, NEW t \in Tasks, slot[s] = None,
               slot' = [slot EXCEPT ![s] = t]
        PROVE  Slots!Enter(s, t)
    <3>1. ActiveBySession[s] = {} /\ slot \in [Sessions -> Tasks \union {None}]
      BY <2>1, <2>4 DEF IInv, TypeOK
    <3>2. ActiveBySession' = [ActiveBySession EXCEPT ![s] = {t}]
      BY <2>1, <2>2, <2>4, <3>1, NoneAssumption
    <3>3. QED
      BY <3>1, <3>2 DEF Slots!Enter
  <2>5. ASSUME NEW s \in Sessions, NEW t \in Tasks, slot[s] = t,
               slot' = [slot EXCEPT ![s] = None]
        PROVE  Slots!Leave(s, t)
    <3>1. ActiveBySession[s] = {t} /\ slot \in [Sessions -> Tasks \union {None}]
      BY <2>1, <2>5, NoneAssumption DEF IInv, TypeOK
    <3>2. ActiveBySession' = [ActiveBySession EXCEPT ![s] = {}]
      BY <2>1, <2>2, <2>5, <3>1
    <3>3. QED
      BY <3>1, <3>2 DEF Slots!Leave
  <2>6. QED
    BY <2>3, <2>4, <2>5, SlotSteps DEF Slots!Next
<1>3. QED
  BY <1>1, <1>2, Invariance, PTL DEF Spec, ImplementsSlots, Slots!Spec
=============================================================================
