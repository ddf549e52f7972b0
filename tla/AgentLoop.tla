----------------------------- MODULE AgentLoop -----------------------------
(***************************************************************************)
(* Runs of the agent loop on one session (AgentLoop::run_in_session).  A   *)
(* run first settles the tool calls earlier runs left behind, then adds    *)
(* the user's message and alternates model responses, whose deltas are     *)
(* persisted as they stream in, with tool executions.  All that survives a *)
(* run is the session's log and the leases of recovery claims; runs may    *)
(* stop anywhere and, in different processes, overlap.                     *)
(***************************************************************************)
EXTENDS Naturals, Sequences, FiniteSets

CONSTANTS
  Runs,             \* calls of run_in_session on the session
  Calls,            \* tool calls a model may make, told apart by their ids
  Idempotent,       \* calls of tools that declare idempotent()
  None,
  MaxIterations,    \* max_iterations
  MaxModelRetries, MaxToolRetries  \* of the rails; 0 without rails

ASSUME AgentLoopAssumption ==
  /\ Idempotent \subseteq Calls
  /\ None \notin Calls
  /\ MaxIterations \in Nat /\ MaxModelRetries \in Nat /\ MaxToolRetries \in Nat

VARIABLES
  log,          \* the session's events, those that some run reads back
  leased,       \* calls with a recovery claim whose lease has not run out
  pc, iteration, attempt,
  todo,         \* calls a run has still to settle, stream or execute
  current,      \* the call a run has claimed or is executing
  executions,   \* times each tool call was started: 0, 1, or 2 for more
  overlapped,   \* two runs have been active at once
  stolen        \* calls taken up while another run was still at work on them
                \* (executions, overlapped and stolen are history)

runVars == <<pc, iteration, attempt, todo, current>>
vars == <<log, leased, pc, iteration, attempt, todo, current, executions, overlapped, stolen>>

Record == [kind : {"user", "assistant", "delta", "opening", "result", "unknown"},
           calls : SUBSET Calls]

(* An assistant record without calls is an answer.  An "opening" delta     *)
(* leaves the call's arguments incomplete, a "delta" completes them.       *)
Rec(kind, calls) == [kind |-> kind, calls |-> calls]

Init ==
  /\ log = <<>> /\ leased = {}
  /\ pc = [r \in Runs |-> "idle"]
  /\ iteration = [r \in Runs |-> 0] /\ attempt = [r \in Runs |-> 0]
  /\ todo = [r \in Runs |-> {}] /\ current = [r \in Runs |-> None]
  /\ executions = [c \in Calls |-> 0]
  /\ overlapped = FALSE /\ stolen = {}

-----------------------------------------------------------------------------
(* What a run reads from the log.                                          *)

Carried(l, kinds) == UNION {l[i].calls : i \in {j \in DOMAIN l : l[j].kind \in kinds}}

Answers == {"result", "unknown"}
Answered(l) == Carried(l, Answers)
Known(l) == Carried(l, {"assistant", "delta", "opening"})

(* Announced by an Assistant event and not answered after it.              *)
Unanswered(l) ==
  {c \in Calls : \E i \in DOMAIN l :
     /\ l[i].kind = "assistant" /\ c \in l[i].calls
     /\ \A j \in DOMAIN l : j > i /\ l[j].kind \in Answers => c \notin l[j].calls}

Incomplete(l) == Carried(l, {"opening"}) \ Carried(l, {"delta"})

PendingToolCalls(l) == Unanswered(l) \union (Carried(l, {"delta"}) \ Answered(l))

\* Faulty variant: a lease is not looked at.
ClaimableLeased(c) == c \notin Answered(log)

Claimable(c) == c \notin Answered(log) /\ c \notin leased

Active(r) == pc[r] \notin {"idle", "ended"}
Live(r) == pc[r] \in {"stream", "tools", "invoked"}
Recovering(r) == pc[r] \in {"claimed", "recovering"}

Goto(r, place) == pc' = [pc EXCEPT ![r] = place]

(* A run returns, and its locals are gone.                                 *)
End(r) ==
  /\ Goto(r, "ended")
  /\ iteration' = [iteration EXCEPT ![r] = 0] /\ attempt' = [attempt EXCEPT ![r] = 0]
  /\ todo' = [todo EXCEPT ![r] = {}] /\ current' = [current EXCEPT ![r] = None]

Log(kind, calls) == log' = Append(log, Rec(kind, calls))
Execute(c) == executions' = [executions EXCEPT ![c] = IF @ = 0 THEN 1 ELSE 2]

-----------------------------------------------------------------------------
(* Recovery of what earlier runs left behind.                              *)

Start(r) ==
  /\ pc[r] = "idle"
  /\ Goto(r, "scan")
  /\ overlapped' = (overlapped \/ \E s \in Runs : Active(s))
  /\ UNCHANGED <<log, leased, iteration, attempt, todo, current, executions, stolen>>

(* A stream that broke off inside a call's arguments stops the run.        *)
Scan(r) ==
  /\ pc[r] = "scan"
  /\ \/ /\ Incomplete(log) # {}
        /\ End(r)
     \/ /\ Incomplete(log) = {}
        /\ Goto(r, "recover")
        /\ todo' = [todo EXCEPT ![r] = PendingToolCalls(log)]
        /\ UNCHANGED <<iteration, attempt, current>>
  /\ UNCHANGED <<log, leased, executions, overlapped, stolen>>

(* The claim does not see a run that executes the call from its own        *)
(* response: such a run takes no claim.                                    *)
Claim(r) ==
  \E c \in todo[r] :
    /\ pc[r] = "recover"
    /\ Claimable(c)
    /\ leased' = leased \union {c}
    /\ current' = [current EXCEPT ![r] = c]
    /\ Goto(r, "claimed")
    /\ stolen' = IF \E s \in Runs : Live(s) /\ c \in todo[s] THEN stolen \union {c} ELSE stolen
    /\ UNCHANGED <<log, iteration, attempt, todo, executions, overlapped>>

ClaimRefused(r) ==
  \E c \in todo[r] :
    /\ pc[r] = "recover"
    /\ ~Claimable(c)
    /\ End(r)
    /\ UNCHANGED <<log, leased, executions, overlapped, stolen>>

(* The lease runs out: its owner is gone, or slower than the lease.        *)
LeaseExpires(c) ==
  /\ c \in leased
  /\ leased' = leased \ {c}
  /\ stolen' = IF \E r \in Runs : Recovering(r) /\ current[r] = c
               THEN stolen \union {c} ELSE stolen
  /\ UNCHANGED <<log, runVars, executions, overlapped>>

RecoverUnknown(r) ==
  /\ pc[r] = "claimed" /\ current[r] \notin Idempotent
  /\ Log("unknown", {current[r]})
  /\ End(r)
  /\ UNCHANGED <<leased, executions, overlapped, stolen>>

RecoverExecute(r) ==
  /\ pc[r] = "claimed" /\ current[r] \in Idempotent
  /\ Execute(current[r])
  /\ Goto(r, "recovering")
  /\ UNCHANGED <<log, leased, iteration, attempt, todo, current, overlapped, stolen>>

RecoverResult(r) ==
  /\ pc[r] = "recovering"
  /\ Log("result", {current[r]})
  /\ todo' = [todo EXCEPT ![r] = @ \ {current[r]}]
  /\ current' = [current EXCEPT ![r] = None]
  /\ Goto(r, "recover")
  /\ UNCHANGED <<leased, iteration, attempt, executions, overlapped, stolen>>

\* Faulty variant: the user's message goes first when the run starts.
UserFirst(r) ==
  /\ pc[r] \in {"scan", "recover"}
  /\ pc[r] = "recover" => todo[r] = {}
  /\ Log("user", {})
  /\ Goto(r, "request")
  /\ UNCHANGED <<leased, iteration, attempt, todo, current, executions, overlapped, stolen>>

AppendUser(r) ==
  /\ pc[r] = "recover" /\ todo[r] = {}
  /\ Log("user", {})
  /\ Goto(r, "request")
  /\ UNCHANGED <<leased, iteration, attempt, todo, current, executions, overlapped, stolen>>

-----------------------------------------------------------------------------
(* One iteration: a model response, then its tool calls.                   *)

Request(r) ==
  /\ pc[r] = "request"
  /\ \/ /\ iteration[r] = MaxIterations
        /\ End(r)
     \/ /\ iteration[r] < MaxIterations
        /\ Goto(r, "stream")
        /\ attempt' = [attempt EXCEPT ![r] = 0]
        /\ UNCHANGED <<iteration, todo, current>>
  /\ UNCHANGED <<log, leased, executions, overlapped, stolen>>

StreamDelta(r) ==
  /\ pc[r] = "stream"
  /\ \E c \in Calls, kind \in {"opening", "delta"} :
       /\ \/ c \notin Known(log)
          \/ c \in todo[r] /\ c \in Incomplete(log) /\ kind = "delta"
       /\ Log(kind, {c})
       /\ todo' = [todo EXCEPT ![r] = @ \union {c}]
  /\ UNCHANGED <<leased, pc, iteration, attempt, current, executions, overlapped, stolen>>

(* The model fails, or a rail rejects its output, and the rails allow      *)
(* another attempt.  The deltas of this one stay in the log.               *)
RetryModel(r) ==
  /\ pc[r] = "stream"
  /\ attempt[r] < MaxModelRetries
  /\ attempt' = [attempt EXCEPT ![r] = @ + 1]
  /\ todo' = [todo EXCEPT ![r] = {}]
  /\ UNCHANGED <<log, leased, pc, iteration, current, executions, overlapped, stolen>>

(* An answer ends the run, unless the rails' completion promise is unmet.  *)
Answer(r) ==
  /\ pc[r] = "stream" /\ todo[r] = {}
  /\ Log("assistant", {})
  /\ \/ End(r)
     \/ /\ Goto(r, "request")
        /\ iteration' = [iteration EXCEPT ![r] = @ + 1]
        /\ attempt' = [attempt EXCEPT ![r] = 0]
        /\ UNCHANGED <<todo, current>>
  /\ UNCHANGED <<leased, executions, overlapped, stolen>>

\* Faulty variant: the calls are executed before the response is persisted.
AppendAssistantLater(r) ==
  /\ pc[r] = "stream" /\ todo[r] # {}
  /\ todo[r] \intersect Incomplete(log) = {}
  /\ attempt' = [attempt EXCEPT ![r] = 0]
  /\ Goto(r, "tools")
  /\ UNCHANGED <<log, leased, iteration, todo, current, executions, overlapped, stolen>>

AppendAssistant(r) ==
  /\ pc[r] = "stream" /\ todo[r] # {}
  /\ todo[r] \intersect Incomplete(log) = {}
  /\ Log("assistant", todo[r])
  /\ attempt' = [attempt EXCEPT ![r] = 0]
  /\ Goto(r, "tools")
  /\ UNCHANGED <<leased, iteration, todo, current, executions, overlapped, stolen>>

Invoke(r) ==
  \E c \in todo[r] :
    /\ pc[r] = "tools"
    /\ Execute(c)
    /\ current' = [current EXCEPT ![r] = c]
    /\ Goto(r, "invoked")
    /\ UNCHANGED <<log, leased, iteration, attempt, todo, overlapped, stolen>>

\* Faulty variant: the rails retry any tool.
RetryAnyTool(r) ==
  /\ pc[r] = "invoked"
  /\ attempt[r] < MaxToolRetries
  /\ attempt' = [attempt EXCEPT ![r] = @ + 1]
  /\ Execute(current[r])
  /\ UNCHANGED <<log, leased, pc, iteration, todo, current, overlapped, stolen>>

RetryTool(r) ==
  /\ pc[r] = "invoked"
  /\ current[r] \in Idempotent
  /\ attempt[r] < MaxToolRetries
  /\ attempt' = [attempt EXCEPT ![r] = @ + 1]
  /\ Execute(current[r])
  /\ UNCHANGED <<log, leased, pc, iteration, todo, current, overlapped, stolen>>

AppendResult(r) ==
  /\ pc[r] = "invoked"
  /\ Log("result", {current[r]})
  /\ todo' = [todo EXCEPT ![r] = @ \ {current[r]}]
  /\ current' = [current EXCEPT ![r] = None]
  /\ attempt' = [attempt EXCEPT ![r] = 0]
  /\ Goto(r, "tools")
  /\ UNCHANGED <<leased, iteration, executions, overlapped, stolen>>

NextIteration(r) ==
  /\ pc[r] = "tools" /\ todo[r] = {}
  /\ iteration' = [iteration EXCEPT ![r] = @ + 1]
  /\ Goto(r, "request")
  /\ UNCHANGED <<log, leased, attempt, todo, current, executions, overlapped, stolen>>

(* The run is interrupted, cancelled or out of time, an append fails, a    *)
(* tool to recover is not registered, the rails stop it, or the process    *)
(* dies: nothing is appended that a later run reads.                       *)
Stop(r) ==
  /\ Active(r)
  /\ End(r)
  /\ UNCHANGED <<log, leased, executions, overlapped, stolen>>

Step(r) ==
  \/ Scan(r) \/ Claim(r) \/ ClaimRefused(r) \/ RecoverUnknown(r) \/ RecoverExecute(r)
  \/ RecoverResult(r) \/ AppendUser(r)
  \/ Request(r) \/ StreamDelta(r) \/ RetryModel(r) \/ Answer(r) \/ AppendAssistant(r)
  \/ Invoke(r) \/ RetryTool(r) \/ AppendResult(r) \/ NextIteration(r)

Next ==
  \/ \E r \in Runs : Start(r) \/ Step(r) \/ Stop(r)
  \/ \E c \in Calls : LeaseExpires(c)

Spec == Init /\ [][Next]_vars

-----------------------------------------------------------------------------
Places == {"idle", "scan", "recover", "claimed", "recovering", "request", "stream",
           "tools", "invoked", "ended"}

TypeOK ==
  /\ log \in Seq(Record)
  /\ leased \subseteq Calls
  /\ pc \in [Runs -> Places]
  /\ iteration \in [Runs -> 0..MaxIterations]
  /\ attempt \in [Runs -> Nat]
  /\ todo \in [Runs -> SUBSET Calls]
  /\ current \in [Runs -> Calls \union {None}]
  /\ executions \in [Calls -> 0..2]
  /\ overlapped \in BOOLEAN
  /\ stolen \subseteq Calls
  /\ \A r \in Runs : pc[r] \in {"claimed", "recovering", "invoked"} => current[r] \in todo[r]
  /\ \A r \in Runs : Live(r) => iteration[r] < MaxIterations

(* A tool that does not declare itself idempotent is started at most once  *)
(* for a call, whatever crashes, retries, recoveries and overlapping runs  *)
(* happen.                                                                 *)
NonIdempotentOnce == \A c \in Calls \ Idempotent : executions[c] <= 1

(* The messages a model sees are a legal dialogue: as long as runs do not  *)
(* overlap, every user message and every response comes after the results  *)
(* of all calls announced before it.                                       *)
Legal(l) ==
  \A i \in DOMAIN l : l[i].kind \in {"user", "assistant"} =>
    \A j \in 1..(i - 1) : l[j].kind = "assistant" =>
      \A c \in l[j].calls :
        \E k \in (j + 1)..(i - 1) : l[k].kind \in Answers /\ c \in l[k].calls
LegalDialogue == ~overlapped => Legal(log)

(* Nobody executes a call another run is executing, unless it was stolen:  *)
(* its executing run took no claim or outlived its lease.                  *)
Executing(r) == pc[r] \in {"recovering", "invoked"}
OneExecutor ==
  \A r, s \in Runs :
    r # s /\ Executing(r) /\ Executing(s) /\ current[r] = current[s] => current[r] \in stolen

(* A call gets one result, unless it was stolen.                           *)
OneResult ==
  \A c \in Calls \ stolen :
    \A i, j \in DOMAIN log :
      log[i].kind \in Answers /\ log[j].kind \in Answers
        /\ c \in log[i].calls /\ c \in log[j].calls => i = j

(* The Assistant event that announces a call is on disk before its tool    *)
(* is executed (session.rs:33).  The exception is a call left behind by a  *)
(* response that broke off or was retried, which recovery executes without *)
(* one; it has been streamed to its end and its tool is idempotent.        *)
UnannouncedIsLeftover ==
  \A c \in Calls : executions[c] > 0 =>
    \/ c \in Carried(log, {"assistant"})
    \/ c \in Idempotent /\ c \in Carried(log, {"delta"})

\* Recovery settles a pending call once: runs that reach it together, live or
\* recovering, neither execute it at the same time nor append two results,
\* unless its claim expired or a live execution was mistaken for a dead one.
SettledOnce == OneExecutor /\ OneResult
=============================================================================
