---------------------------- MODULE InteractGate ----------------------------
(***************************************************************************)
(* The gate of an active team (InteractGate).  A member is admitted with a *)
(* ticket and hands it back; a closer shuts the gate and sleeps until no   *)
(* ticket is out; a reset opens the gate for the next cycle of the team.   *)
(* Every operation holds the gate's mutex, except while a closer sleeps on *)
(* the condition variable: once notified it has to get the mutex again,    *)
(* and others may come first.                                              *)
(***************************************************************************)
EXTENDS Integers, FiniteSets

CONSTANTS
  Members,    \* callers of admit and consume_done
  Closers     \* callers of close_and_drain

VARIABLES
  closed, inflight, drained,   \* the gate's state
  ticket,     \* member -> "none", "current", or "stale" when the gate has been
              \* reset since; the gate cannot tell the last two apart
  closer,     \* closer -> its place in close_and_drain
  fresh,      \* history: closer -> the gate has not been reset since it closed it
  spoiled     \* history: a stale ticket was counted since the last reset

gateVars == <<closed, inflight, drained, ticket, closer, fresh, spoiled>>

ASSUME GateAssumption == IsFiniteSet(Members)

GateInit ==
  /\ closed = FALSE /\ inflight = 0 /\ drained = TRUE
  /\ ticket = [m \in Members |-> "none"]
  /\ closer = [c \in Closers |-> "idle"]
  /\ fresh = [c \in Closers |-> FALSE]
  /\ spoiled = FALSE

Out(kind) == {m \in Members : ticket[m] = kind}

\* notify_all: every sleeping closer will try to get the mutex.
Notified == [c \in Closers |-> IF closer[c] = "asleep" THEN "woken" ELSE closer[c]]

----------------------------------------------------------------------------
Admit(m) ==
  /\ ticket[m] = "none"
  /\ ~closed
  /\ inflight' = inflight + 1
  /\ drained' = FALSE
  /\ ticket' = [ticket EXCEPT ![m] = "current"]
  /\ UNCHANGED <<closed, closer, fresh, spoiled>>

\* Faulty variant: the last ticket wakes nobody.
ConsumeSilently(m) ==
  /\ ticket[m] # "none"
  /\ ticket' = [ticket EXCEPT ![m] = "none"]
  /\ inflight' = IF inflight = 0 THEN 0 ELSE inflight - 1
  /\ drained' = (drained \/ inflight = 1)
  /\ spoiled' = (spoiled \/ (inflight > 0 /\ ticket[m] = "stale"))
  /\ UNCHANGED <<closed, closer, fresh>>

\* A ticket handed back to a gate that counts none is ignored.
ConsumeDone(m) ==
  /\ ticket[m] # "none"
  /\ ticket' = [ticket EXCEPT ![m] = "none"]
  /\ IF inflight = 0
     THEN UNCHANGED <<inflight, drained, closer, spoiled>>
     ELSE /\ inflight' = inflight - 1
          /\ spoiled' = (spoiled \/ ticket[m] = "stale")
          /\ IF inflight = 1
             THEN drained' = TRUE /\ closer' = Notified
             ELSE UNCHANGED <<drained, closer>>
  /\ UNCHANGED <<closed, fresh>>

Close(c) ==
  /\ closer[c] = "idle"
  /\ closed' = TRUE
  /\ drained' = (drained \/ inflight = 0)
  /\ closer' = [closer EXCEPT ![c] = IF inflight = 0 \/ drained THEN "drained"
                                     ELSE "asleep"]
  /\ fresh' = [fresh EXCEPT ![c] = TRUE]
  /\ UNCHANGED <<inflight, ticket, spoiled>>

\* Faulty variant: the closer sleeps once and does not look again.
RecheckOnce(c) ==
  /\ closer[c] = "woken"
  /\ closer' = [closer EXCEPT ![c] = "drained"]
  /\ UNCHANGED <<closed, inflight, drained, ticket, fresh, spoiled>>

\* A closer that has the mutex again looks at the gate as it is now.
Recheck(c) ==
  /\ closer[c] = "woken"
  /\ closer' = [closer EXCEPT ![c] = IF drained THEN "drained" ELSE "asleep"]
  /\ UNCHANGED <<closed, inflight, drained, ticket, fresh, spoiled>>

\* A condition variable may wake a sleeper for no reason.
WakeSpuriously(c) ==
  /\ closer[c] = "asleep"
  /\ closer' = [closer EXCEPT ![c] = "woken"]
  /\ UNCHANGED <<closed, inflight, drained, ticket, fresh, spoiled>>

\* The closer does what it closed the gate for, and is done.
CloserLeaves(c) ==
  /\ closer[c] = "drained"
  /\ closer' = [closer EXCEPT ![c] = "idle"]
  /\ fresh' = [fresh EXCEPT ![c] = FALSE]
  /\ UNCHANGED <<closed, inflight, drained, ticket, spoiled>>

Reset ==
  /\ closed' = FALSE /\ inflight' = 0 /\ drained' = TRUE
  /\ ticket' = [m \in Members |-> IF ticket[m] = "none" THEN "none" ELSE "stale"]
  /\ closer' = Notified
  /\ fresh' = [c \in Closers |-> FALSE]
  /\ spoiled' = FALSE

GateNext ==
  \/ \E m \in Members : Admit(m) \/ ConsumeDone(m)
  \/ \E c \in Closers : Close(c) \/ Recheck(c) \/ WakeSpuriously(c) \/ CloserLeaves(c)
  \/ Reset

\* Who was admitted hands the ticket back, and a woken closer gets the mutex.
GateFairness ==
  /\ \A m \in Members : WF_gateVars(ConsumeDone(m))
  /\ \A c \in Closers : WF_gateVars(Recheck(c))

----------------------------------------------------------------------------
(* Properties.                                                             *)

\* Every variable has its type; the counter never wraps.
GateTypeOK ==
  /\ closed \in BOOLEAN
  /\ inflight \in 0..Cardinality(Members)
  /\ drained \in BOOLEAN
  /\ ticket \in [Members -> {"none", "current", "stale"}]
  /\ closer \in [Closers -> {"idle", "asleep", "woken", "drained"}]
  /\ fresh \in [Closers -> BOOLEAN]
  /\ spoiled \in BOOLEAN

\* The gate counts the tickets of its cycle, and calls itself drained when it
\* counts none; only a ticket of an earlier cycle that comes back spoils it.
CountMatches ==
  /\ drained <=> inflight = 0
  /\ ~spoiled => inflight = Cardinality(Out("current"))

\* When close_and_drain has returned, everybody who was admitted before has left
\* and nobody has been admitted since, unless the gate was reset in between or a
\* ticket of an earlier cycle spoiled the count.
DrainIsQuiet ==
  \A c \in Closers : closer[c] = "drained" /\ fresh[c] /\ ~spoiled =>
    closed /\ Out("current") = {}

\* close_and_drain returns when every ticket is handed back; a reset may let it
\* sleep on, because the gate it opens may never again be empty.
DrainEnds ==
  \A c \in Closers :
    closer[c] \in {"asleep", "woken"} ~> (closer[c] = "drained" \/ ~fresh[c])
=============================================================================
