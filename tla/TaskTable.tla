----------------------------- MODULE TaskTable -----------------------------
(***************************************************************************)
(* The task table of LocalController (ah-plugins-controller): the map of   *)
(* tasks, the status machine and the per-session working slot.  Every      *)
(* operator below is one critical section of the code, executed while the  *)
(* tasks mutex (and, inside it, the working mutex) is held.  The modules   *)
(* TaskController and TaskStore build their actions from these sections.   *)
(***************************************************************************)
EXTENDS Naturals, FiniteSets

CONSTANTS
  Tasks,             \* task ids
  Sessions,          \* session ids
  None,              \* the absent value: no task, no session
  InitialStatuses,   \* statuses callers give to create_task
  ClientStatuses     \* statuses callers ask update_status for directly

VARIABLES
  status,            \* task id -> status, Absent when the table has no entry
  session,           \* task id -> session_id of the entry, None when absent
  errors,            \* the tasks whose error_message is Some(_)
  slot               \* `working`: session id -> task id or None

tableVars == <<status, session, errors, slot>>

Absent == "absent"

TaskStatus == {"submitted", "working", "paused", "input-required",
               "completed", "canceled", "failed", "waiting", "unknown"}

\* The statuses in which a task owns its session's slot.
ActiveStatus == {"working", "input-required"}

ASSUME NoneAssumption == None \notin Tasks /\ None \notin Sessions

\* Every caller in the repository creates tasks with Task::submitted and leaves
\* entering working to run_task; create_task itself would accept any status.
ASSUME CallerAssumption ==
  /\ InitialStatuses \subseteq TaskStatus \ ActiveStatus
  /\ ClientStatuses \subseteq TaskStatus \ {"working"}

AllowedTransitions(from) ==
  CASE from = "submitted"      -> {"working", "canceled", "waiting"}
    [] from = "working"        -> {"completed", "failed", "paused",
                                   "canceled", "input-required"}
    [] from = "paused"         -> {"submitted", "canceled"}
    [] from = "input-required" -> {"working", "canceled"}
    [] from = "waiting"        -> {"submitted", "canceled"}
    [] OTHER                   -> {}

Exists(t) == status[t] # Absent

EmptyTable ==
  /\ status = [t \in Tasks |-> Absent]
  /\ session = [t \in Tasks |-> None]
  /\ errors = {}
  /\ slot = [s \in Sessions |-> None]

----------------------------------------------------------------------------
\* create_task: any status is accepted as given, and the slot is not touched.
CreateTask(t, s, st) ==
  /\ ~Exists(t)
  /\ status' = [status EXCEPT ![t] = st]
  /\ session' = [session EXCEPT ![t] = s]
  /\ UNCHANGED <<errors, slot>>

\* The session's slot is free or already this task's.
SlotAvailable(t) == slot[session[t]] \in {None, t}

\* Faulty variant: the working slot is not consulted.
AcceptedWithoutSlot(t, to) ==
  /\ Exists(t)
  /\ status[t] = to \/ to \in AllowedTransitions(status[t])

\* update_status succeeds: a repeated status is an accepted no-op.
Accepted(t, to) ==
  /\ Exists(t)
  /\ \/ status[t] = to
     \/ /\ to \in AllowedTransitions(status[t])
        /\ to = "working" => SlotAvailable(t)

\* Faulty variant: asking for input gives the slot away.
SlotAfterInputReleases(t, to) ==
  CASE to = "working" -> t
    [] to # "working" /\ slot[session[t]] = t -> None
    [] OTHER -> slot[session[t]]

SlotAfter(t, to) ==
  CASE to = "working" -> t
    [] to \in {"completed", "failed", "canceled", "paused"}
       /\ slot[session[t]] = t -> None
    [] OTHER -> slot[session[t]]

\* The critical section of an accepted update_status.
ApplyStatus(t, to) ==
  /\ status' = [status EXCEPT ![t] = to]
  /\ slot' = IF status[t] = to THEN slot
             ELSE [slot EXCEPT ![session[t]] = SlotAfter(t, to)]
  /\ UNCHANGED <<session, errors>>

\* update_status whose error the caller drops or returns.
UpdateStatus(t, to) ==
  IF Accepted(t, to) THEN ApplyStatus(t, to) ELSE UNCHANGED tableVars

RetryTask(t) ==
  /\ status[t] = "failed"
  /\ status' = [status EXCEPT ![t] = "submitted"]
  /\ errors' = errors \ {t}
  /\ UNCHANGED <<session, slot>>

\* set_task_error, and the same write at the end of a failed run_task.
SetTaskError(t) ==
  /\ errors' = IF Exists(t) THEN errors \union {t} ELSE errors
  /\ UNCHANGED <<status, session, slot>>

\* Faulty variant: removal forgets the slot.
RemoveTaskKeepsSlot(t) ==
  /\ Exists(t)
  /\ status' = [status EXCEPT ![t] = Absent]
  /\ session' = [session EXCEPT ![t] = None]
  /\ errors' = errors \ {t}
  /\ UNCHANGED slot

\* remove_task of a task without children.
RemoveTask(t) ==
  /\ Exists(t)
  /\ status' = [status EXCEPT ![t] = Absent]
  /\ session' = [session EXCEPT ![t] = None]
  /\ errors' = errors \ {t}
  /\ slot' = [s \in Sessions |->
                IF s = session[t] /\ slot[s] = t THEN None ELSE slot[s]]
=============================================================================
