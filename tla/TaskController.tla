--------------------------- MODULE TaskController ---------------------------
(***************************************************************************)
(* LocalController in memory: clients that create, update, cancel, retry   *)
(* and remove tasks while concurrent run_task calls execute them.  run_task *)
(* is split where the code releases its locks: reading the task, checking  *)
(* the session slot, entering Working, awaiting the executor, and writing  *)
(* the outcome back.  Every change is followed by persist(), which may     *)
(* fail; what the file then holds is TaskStore's matter, and the one place *)
(* where a failed save changes what a call does next is modelled here.     *)
(***************************************************************************)
EXTENDS TaskTable

CONSTANT Runners     \* concurrent run_task calls

VARIABLES
  pc,                \* where each run_task call is
  job,               \* the task id it runs
  jobSession,        \* session_id of the copy of the task it took
  unsaved            \* the working tasks whose entry into working could not be
                     \* saved (history, read by no action)

runnerVars == <<pc, job, jobSession>>
vars == <<status, session, errors, slot, pc, job, jobSession, unsaved>>

Steps == {"idle", "admit", "start", "executing", "record"}

TypeOK ==
  /\ status \in [Tasks -> TaskStatus \union {Absent}]
  /\ session \in [Tasks -> Sessions \union {None}]
  /\ errors \subseteq Tasks
  /\ slot \in [Sessions -> Tasks \union {None}]
  /\ pc \in [Runners -> Steps]
  /\ job \in [Runners -> Tasks \union {None}]
  /\ jobSession \in [Runners -> Sessions \union {None}]
  /\ unsaved \subseteq Tasks
  /\ \A t \in Tasks : Exists(t) <=> session[t] # None
  /\ \A r \in Runners : pc[r] # "idle" => job[r] # None /\ jobSession[r] # None

Init ==
  /\ EmptyTable
  /\ pc = [r \in Runners |-> "idle"]
  /\ job = [r \in Runners |-> None]
  /\ jobSession = [r \in Runners |-> None]
  /\ unsaved = {}

\* A task that leaves working is no concern of the history any more.
StillUnsaved == unsaved' = {t \in unsaved : status'[t] = "working"}

----------------------------------------------------------------------------
(* Client operations: one critical section each.                           *)

Create(t, s) ==
  /\ \E st \in InitialStatuses : CreateTask(t, s, st)
  /\ UNCHANGED runnerVars
  /\ StillUnsaved

ClientUpdate(t) ==
  /\ \E to \in ClientStatuses : Accepted(t, to) /\ ApplyStatus(t, to)
  /\ UNCHANGED runnerVars
  /\ StillUnsaved

Cancel(t) ==
  /\ Accepted(t, "canceled")
  /\ ApplyStatus(t, "canceled")
  /\ UNCHANGED runnerVars
  /\ StillUnsaved

Retry(t) == RetryTask(t) /\ UNCHANGED runnerVars /\ StillUnsaved

Remove(t) == RemoveTask(t) /\ UNCHANGED runnerVars /\ StillUnsaved

----------------------------------------------------------------------------
(* run_task, step by step.                                                 *)

Goto(r, label) == pc' = [pc EXCEPT ![r] = label]

\* The call returns; its locals are gone.
Return(r) ==
  /\ Goto(r, "idle")
  /\ job' = [job EXCEPT ![r] = None]
  /\ jobSession' = [jobSession EXCEPT ![r] = None]

\* A copy of the task is taken; only submitted and waiting are runnable.
RunRead(r, t) ==
  /\ pc[r] = "idle"
  /\ status[t] \in {"submitted", "waiting"}
  /\ Goto(r, "admit")
  /\ job' = [job EXCEPT ![r] = t]
  /\ jobSession' = [jobSession EXCEPT ![r] = session[t]]
  /\ UNCHANGED <<tableVars, unsaved>>

\* Conflict check on the slot of the copied session, then the executor lookup,
\* which may find none.
RunAdmit(r) ==
  /\ pc[r] = "admit"
  /\ \/ /\ slot[jobSession[r]] \in {None, job[r]}
        /\ Goto(r, "start")
        /\ UNCHANGED <<job, jobSession>>
     \/ Return(r)
  /\ UNCHANGED <<tableVars, unsaved>>

\* update_status(Working)?: refused, or made and saved, or made and not saved: the
\* call then returns the error and leaves the task working.  A task that works
\* already is let through and not saved again.
RunStart(r) ==
  /\ pc[r] = "start"
  /\ \/ /\ Accepted(job[r], "working")
        /\ ApplyStatus(job[r], "working")
        /\ Goto(r, "executing")
        /\ UNCHANGED <<job, jobSession, unsaved>>
     \/ /\ Accepted(job[r], "working")
        /\ status[job[r]] # "working"
        /\ ApplyStatus(job[r], "working")
        /\ Return(r)
        /\ unsaved' = unsaved \union {job[r]}
     \/ /\ ~Accepted(job[r], "working")
        /\ Return(r)
        /\ UNCHANGED <<tableVars, unsaved>>

\* Faulty variant: the outcome is written without the transition check.
RunSucceedUnchecked(r) ==
  /\ pc[r] = "executing"
  /\ IF Exists(job[r]) THEN ApplyStatus(job[r], "completed")
                       ELSE UNCHANGED tableVars
  /\ Return(r)
  /\ StillUnsaved

RunSucceed(r) ==
  /\ pc[r] = "executing"
  /\ UpdateStatus(job[r], "completed")
  /\ Return(r)
  /\ StillUnsaved

\* Faulty variant: the error is recorded but the task stays working.
RunFailKeepsStatus(r) ==
  /\ pc[r] = "executing"
  /\ Goto(r, "record")
  /\ UNCHANGED <<job, jobSession>>
  /\ UNCHANGED <<tableVars, unsaved>>

\* Faulty variant: the error is not written after the status.
RunFailForgetsError(r) ==
  /\ pc[r] = "executing"
  /\ UpdateStatus(job[r], "failed")
  /\ Return(r)
  /\ StillUnsaved

RunFail(r) ==
  /\ pc[r] = "executing"
  /\ UpdateStatus(job[r], "failed")
  /\ Goto(r, "record")
  /\ UNCHANGED <<job, jobSession>>
  /\ StillUnsaved

RunRecordError(r) ==
  /\ pc[r] = "record"
  /\ SetTaskError(job[r])
  /\ Return(r)
  /\ UNCHANGED unsaved

----------------------------------------------------------------------------
Client(t) ==
  \/ \E s \in Sessions : Create(t, s)
  \/ ClientUpdate(t)
  \/ Cancel(t)
  \/ Retry(t)
  \/ Remove(t)

RunStep(r) ==
  \/ RunAdmit(r)
  \/ RunStart(r)
  \/ RunSucceed(r)
  \/ RunFail(r)
  \/ RunRecordError(r)

Next ==
  \/ \E t \in Tasks : Client(t)
  \/ \E r \in Runners, t \in Tasks : RunRead(r, t)
  \/ \E r \in Runners : RunStep(r)

Spec == Init /\ [][Next]_vars

\* A started run_task is polled until it returns, and executors return.
FairSpec == Spec /\ \A r \in Runners : WF_vars(RunStep(r))
----------------------------------------------------------------------------
(* Properties.                                                             *)

\* The slot map agrees with the statuses although they are two maps under two
\* mutexes: a slot names a task of its session that works or waits for input,
\* and such a task owns the slot of its session.
SlotConsistent ==
  /\ \A s \in Sessions : slot[s] # None =>
       session[slot[s]] = s /\ status[slot[s]] \in ActiveStatus
  /\ \A t \in Tasks : status[t] \in ActiveStatus => slot[session[t]] = t

\* Whatever the interleaving of run_task calls, pauses, resumptions and
\* removals, two tasks of one session are never active together.
OneActivePerSession ==
  \A t, u \in Tasks :
    /\ status[t] \in ActiveStatus
    /\ status[u] \in ActiveStatus
    /\ session[t] = session[u]
    => t = u

Executed(t) == \E r \in Runners : pc[r] = "executing" /\ job[r] = t

\* A working task has a run_task call that will write its outcome, whatever other
\* calls did to it since.  The one path that leaves a task working, and its session
\* blocked, with no call behind it is a save that failed as it entered working:
\* run_task then returns the error and leaves the status as it is.
WorkingIsExecuted ==
  \A t \in Tasks : status[t] = "working" => Executed(t) \/ t \in unsaved

\* The status and the error of a failed run are two critical sections with
\* retries, removals and other runs between them: still no task stays failed
\* without an error, as long as callers do not fail tasks themselves.
FailedHasError ==
  \A t \in Tasks : status[t] = "failed" =>
    t \in errors \/ \E r \in Runners : pc[r] = "record" /\ job[r] = t

\* An outcome that arrives after the task was completed or canceled changes
\* nothing: only remove_task takes such a task out of its final status.
FinalStays ==
  [][\A t \in Tasks : status[t] \in {"completed", "canceled"} =>
       status'[t] \in {status[t], Absent}]_vars

\* A working task eventually leaves working, whoever interferes with it, unless its
\* entry into working could not be saved and no other call executes it.
WorkingEnds ==
  \A t \in Tasks :
    status[t] = "working" /\ (t \in unsaved => Executed(t)) ~> status[t] # "working"

\* The controller implements the abstract session slots.
ActiveTasks(s) ==
  {t \in Tasks : session[t] = s /\ status[t] \in ActiveStatus}

ActiveBySession == [s \in Sessions |-> ActiveTasks(s)]

Slots == INSTANCE SessionSlots WITH active <- ActiveBySession

ImplementsSlots == Slots!Spec

\* The scheduler's conflict rule as documented: a session that already has a
\* working task rejects a new execution.
WorkingSessionRejectsRun ==
  [][\A r \in Runners : pc[r] = "start" /\ pc'[r] = "executing" =>
       ~ \E t \in Tasks : status[t] = "working"
                          /\ session[t] = session[job[r]]]_vars

=============================================================================
