--------------------------- MODULE BackgroundRuns ---------------------------
(***************************************************************************)
(* The controller of a team's background runs (BackgroundTaskController).  *)
(* A run registers when it has started and deregisters when it ends, in a  *)
(* thread of its own.  pause aborts every registered run and keeps how to  *)
(* launch it again; resume launches them.  The controller's mutex is held  *)
(* for the whole of a pause and of a resume.  Handles are kept under the   *)
(* task's id, so two launches of one task share an entry.                  *)
(***************************************************************************)
EXTENDS Naturals, FiniteSets

CONSTANTS
  Tasks,      \* task ids
  Launches,   \* launches of one task that may be alive at once
  NoLaunch

VARIABLES
  active,     \* task -> the launch whose handle is registered, or NoLaunch
  paused,     \* tasks to be launched again
  launch,     \* task -> launch -> where it is
  begun,      \* tasks the team has launched
  settled,    \* history: tasks a launch of which has finished its work
  mistaken    \* history: a launch deregistered another one's handle, or one that
              \* had finished its work was paused

runsVars == <<active, paused, launch, begun, settled, mistaken>>

ASSUME RunsAssumption == NoLaunch \notin Launches

Stages == {"gone", "starting", "running", "aborted", "finished"}

RunsInit ==
  /\ active = [t \in Tasks |-> NoLaunch]
  /\ paused = {}
  /\ launch = [t \in Tasks |-> [l \in Launches |-> "gone"]]
  /\ begun = {} /\ settled = {}
  /\ mistaken = FALSE

\* The launches of a task that are at work, or about to be.
AtWork(t) == {l \in Launches : launch[t][l] \in {"starting", "running"}}

----------------------------------------------------------------------------
Launch(t) ==
  /\ t \notin begun
  /\ begun' = begun \cup {t}
  /\ \E l \in Launches : launch' = [launch EXCEPT ![t][l] = "starting"]
  /\ UNCHANGED <<active, paused, settled, mistaken>>

Register(t, l) ==
  /\ launch[t][l] = "starting"
  /\ launch' = [launch EXCEPT ![t][l] = "running"]
  /\ active' = [active EXCEPT ![t] = l]
  /\ UNCHANGED <<paused, begun, settled, mistaken>>

Finish(t, l) ==
  /\ launch[t][l] = "running"
  /\ launch' = [launch EXCEPT ![t][l] = "finished"]
  /\ settled' = settled \cup {t}
  /\ UNCHANGED <<active, paused, begun, mistaken>>

\* The launcher's last act, after its work or after an abort; by task id.
Deregister(t, l) ==
  /\ launch[t][l] \in {"finished", "aborted"}
  /\ launch' = [launch EXCEPT ![t][l] = "gone"]
  /\ active' = [active EXCEPT ![t] = NoLaunch]
  /\ mistaken' = (mistaken \/ active[t] \notin {l, NoLaunch})
  /\ UNCHANGED <<paused, begun, settled>>

Registered == {t \in Tasks : active[t] # NoLaunch}

Pause ==
  /\ Registered # {}
  /\ launch' = [t \in Tasks |-> [l \in Launches |->
                  IF l = active[t] THEN "aborted" ELSE launch[t][l]]]
  /\ paused' = paused \cup Registered
  /\ active' = [t \in Tasks |-> NoLaunch]
  /\ mistaken' = (mistaken \/ \E t \in Registered : launch[t][active[t]] = "finished")
  /\ UNCHANGED <<begun, settled>>

\* Faulty variant: a launch registers at once, and its handle is then removed.
ResumeRemoves ==
  /\ paused # {}
  /\ \E f \in [paused -> Launches] :
       /\ \A t \in paused : launch[t][f[t]] = "gone"
       /\ launch' = [t \in Tasks |-> IF t \in paused
                                     THEN [launch[t] EXCEPT ![f[t]] = "running"]
                                     ELSE launch[t]]
  /\ paused' = {}
  /\ active' = [t \in Tasks |-> IF t \in paused THEN NoLaunch ELSE active[t]]
  /\ UNCHANGED <<begun, settled, mistaken>>

\* A launch starts a thread, which registers once it gets the mutex.
Resume ==
  /\ paused # {}
  /\ \E f \in [paused -> Launches] :
       /\ \A t \in paused : launch[t][f[t]] = "gone"
       /\ launch' = [t \in Tasks |-> IF t \in paused
                                     THEN [launch[t] EXCEPT ![f[t]] = "starting"]
                                     ELSE launch[t]]
  /\ paused' = {}
  /\ active' = [t \in Tasks |-> IF t \in paused THEN NoLaunch ELSE active[t]]
  /\ UNCHANGED <<begun, settled, mistaken>>

RunsNext ==
  \/ \E t \in Tasks : Launch(t)
  \/ \E t \in Tasks, l \in Launches : Register(t, l) \/ Finish(t, l) \/ Deregister(t, l)
  \/ Pause \/ Resume

----------------------------------------------------------------------------
(* Properties.                                                             *)

\* Every variable has its type, and only what was launched has been settled.
RunsTypeOK ==
  /\ active \in [Tasks -> Launches \cup {NoLaunch}]
  /\ paused \subseteq Tasks
  /\ launch \in [Tasks -> [Launches -> Stages]]
  /\ begun \subseteq Tasks /\ settled \subseteq begun
  /\ mistaken \in BOOLEAN

\* No run is lost between a pause and a resume, whichever of its threads is late:
\* a run that was launched has done its work, waits to be resumed, or is at it.
NoneLost ==
  \A t \in begun : t \in settled \/ t \in paused \/ AtWork(t) # {}

\* No run is doubled either: a task is at work once, and not while it is paused.
NotTwice ==
  \A t \in Tasks : /\ Cardinality(AtWork(t)) <= 1
                   /\ t \in paused => AtWork(t) = {}

\* A run at work can be paused: its handle is registered under its task, unless
\* an aborted launch deregistered late, by the id it shares with the next one.
\* Until then nothing that has finished is launched again.
AtWorkIsRegistered ==
  ~mistaken => \A t \in Tasks :
    /\ \A l \in Launches : launch[t][l] = "running" => active[t] = l
    /\ t \in settled => AtWork(t) = {} /\ t \notin paused
=============================================================================
