------------------------------ MODULE TeamRuns ------------------------------
(***************************************************************************)
(* run_task on a TeamBoard.  A run claims a task for the team's first      *)
(* member; when the board gives it another task than it was asked for, it  *)
(* completes that one as skipped and fails.  Otherwise a subagent works on *)
(* the task, outside every lock, and the run completes it.  The other      *)
(* operations come from callers that have no run.                          *)
(***************************************************************************)
EXTENDS TeamBoard

CONSTANTS First, Other   \* the first member; the output of a skipped task and of
                         \* a direct call of complete_task

VARIABLES
  pc,            \* where a caller's run is, "idle" without one
  target, got,   \* the task the run is for, and the one it has claimed
  reported       \* pairs of a task and the output its run returned (history)

runVars == <<pc, target, got, reported>>
vars == <<boardVars, runVars>>

ASSUME RunsAssumption ==
  /\ First \in Members
  /\ Outputs = Callers \union {Other}
  /\ Other \notin Callers

Init ==
  /\ BoardInit
  /\ pc = [p \in Callers |-> "idle"]
  /\ target = [p \in Callers |-> None]
  /\ got = [p \in Callers |-> None]
  /\ reported = {}

Call(p) ==
  /\ pc[p] = "idle"
  /\ \/ \E t \in Tasks, reviewers \in ReviewerSets :
          \E deps \in SUBSET Tasks : Create(p, t, deps, reviewers)
     \/ \E t, d \in Tasks : Depend(p, t, d)
     \/ \E t \in Tasks, m \in Members : Claim(p, t, m)
     \/ \E t \in Tasks : Complete(p, t, Other) \/ Submit(p, t) \/ Settle(p, t)
     \/ \E t \in Tasks, m \in Members, approve \in BOOLEAN : Vote(p, t, m, approve)
     \/ Refuse(p)
  /\ UNCHANGED runVars

\* The table is loaded for a direct call, or for the run's claim or completion.
Begin(p) ==
  /\ pc[p] # "work"
  /\ Load(p)
  /\ UNCHANGED runVars

Run(p, t) ==
  /\ pc[p] = "idle" /\ read[p] = None
  /\ pc' = [pc EXCEPT ![p] = "claim"]
  /\ target' = [target EXCEPT ![p] = t]
  /\ UNCHANGED <<boardVars, got, reported>>

EndRun(p) ==
  /\ pc' = [pc EXCEPT ![p] = "idle"]
  /\ target' = [target EXCEPT ![p] = None]
  /\ got' = [got EXCEPT ![p] = None]

RunClaims(p) ==
  /\ pc[p] = "claim"
  /\ \E t \in Tasks :
       /\ Claim(p, t, First)
       /\ got' = [got EXCEPT ![p] = t]
       /\ pc' = [pc EXCEPT ![p] = IF t = target[p] THEN "work" ELSE "skip"]
  /\ UNCHANGED <<target, reported>>

RunFindsNone(p) ==
  /\ pc[p] = "claim"
  /\ Decides(p)
  /\ Candidates(View(p)) = {}
  /\ Return(p)
  /\ EndRun(p)
  /\ UNCHANGED <<board, claims, reported>>

\* The wrong task is completed as skipped; whether that succeeds is not looked at.
RunSkips(p) ==
  /\ pc[p] = "skip"
  /\ \/ Complete(p, got[p], Other)
     \/ /\ Decides(p)
        /\ got[p] \notin With(View(p), "in_progress") \intersect With(board, "in_progress")
        /\ Return(p)
        /\ UNCHANGED <<board, claims>>
  /\ EndRun(p)
  /\ UNCHANGED reported

\* The subagent ends; when it fails the task stays as it is.
Worked(p) ==
  /\ pc[p] = "work"
  /\ \/ pc' = [pc EXCEPT ![p] = "complete"] /\ UNCHANGED <<target, got>>
     \/ EndRun(p)
  /\ UNCHANGED <<boardVars, reported>>

RunReports(p) ==
  /\ pc[p] = "complete"
  /\ Complete(p, got[p], p)
  /\ reported' = reported \union {<<got[p], p>>}
  /\ EndRun(p)

\* Somebody else has completed or submitted the task: the run's output is lost.
RunRefused(p) ==
  /\ pc[p] = "complete"
  /\ Decides(p)
  /\ got[p] \notin With(View(p), "in_progress") \intersect With(board, "in_progress")
  /\ Return(p)
  /\ EndRun(p)
  /\ UNCHANGED <<board, claims, reported>>

\* A process dies; nobody takes its task back.
Crash(p) ==
  /\ durable
  /\ pc[p] # "idle" \/ read[p] # None
  /\ Return(p)
  /\ EndRun(p)
  /\ UNCHANGED <<board, claims, reported>>

Next ==
  \E p \in Callers :
    \/ Call(p) \/ Begin(p)
    \/ \E t \in Tasks : Run(p, t)
    \/ RunClaims(p) \/ RunFindsNone(p) \/ RunSkips(p)
    \/ Worked(p) \/ RunReports(p) \/ RunRefused(p)
    \/ Crash(p)

Spec == Init /\ [][Next]_vars

----------------------------------------------------------------------------
(* Properties.                                                             *)

TypeOK ==
  /\ durable \in BOOLEAN /\ raced \in BOOLEAN
  /\ board \in [Tasks -> Rows \union {None}]
  /\ read \in [Callers -> [Tasks -> Rows \union {None}] \union {None}]
  /\ claims \in [Tasks -> Nat]
  /\ pc \in [Callers -> {"idle", "claim", "skip", "work", "complete"}]
  /\ target \in [Callers -> Tasks \union {None}]
  /\ got \in [Callers -> Tasks \union {None}]
  /\ \A p \in Callers : pc[p] \in {"skip", "work", "complete"} => got[p] \in Tasks
  /\ reported \subseteq Tasks \X Callers

\* claim_task returns every task once: two runs never work on the same one, and
\* nobody claims what was done, skipped or left behind.
ClaimedOnce == ~raced => \A t \in Tasks : claims[t] <= 1

\* Work on a task began after all it depends on was done, dependencies added
\* later included.
DependenciesDone ==
  ~raced =>
    \A t \in Known(board) : board[t].status # "pending" => board[t].deps \subseteq With(board, "done")

\* The board never blocks itself: when nothing is being worked on or reviewed and
\* no review has failed, a pending task can be claimed.
SomethingClaimable ==
  ~raced /\ With(board, "pending") # {} =>
    Claimable(board) # {} \/
    \E status \in {"in_progress", "in_review", "failed"} : With(board, status) # {}

\* What run_task returned for a task stays the task's result, however the task
\* was claimed, reviewed or completed by others meanwhile, and the task is never
\* worked on again: without reviewers it stays done, with reviewers it is in
\* review or decided. A task reported earlier may still fail its review.
ReportedIsRecorded ==
  ~raced =>
    \A report \in reported :
      LET row == board[report[1]] IN
        /\ row.result = report[2]
        /\ row.status \in {"in_review", "done", "failed"}
        /\ row.reviewers = {} => row.status = "done"

\* A verdict is that of the votes that remain on the board, and on the board in
\* memory a task with reviewers is done only after one of them, who did not do
\* the task, approved.
VerdictFollowsVotes ==
  ~raced =>
    \A t \in Known(board) :
      /\ board[t].status = "failed" => ~Passed(board[t])
      /\ board[t].status = "done" /\ board[t].reviewers # {} =>
           /\ Passed(board[t])
           /\ durable \/ \E i \in Approvals(board[t]) :
                board[t].votes[i].member \in board[t].reviewers \ {board[t].assignee}

\* No member approves a task twice in one review, however the operations overlap;
\* on the board in memory no member votes twice.
ApprovesOnce ==
  \A t \in Known(board) : \A i, j \in DOMAIN board[t].votes :
    /\ i # j /\ board[t].votes[i].member = board[t].votes[j].member
       => durable /\ ~(board[t].votes[i].approve /\ board[t].votes[j].approve)

\* Work on a task begins once, through claim_task, and only after all it depends
\* on is done: no run repeats or overtakes another one.
WorkInOrder == ClaimedOnce /\ DependenciesDone

\* The verdict of a review is what the votes on the board amount to, whatever
\* votes and submissions came between, as long as no two operations overlapped.
\* An approval counts once for each member, always; a rejection does so on the
\* board in memory only: the SQLite board lets a member reject again and again.
ReviewSound == TypeOK /\ VerdictFollowsVotes /\ ApprovesOnce
=============================================================================
