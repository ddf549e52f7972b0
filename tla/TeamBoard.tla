----------------------------- MODULE TeamBoard -----------------------------
(***************************************************************************)
(* A team's task board: dependencies, claims, completion and review.  The  *)
(* board is either in memory, where an operation holds the board's mutex   *)
(* from its first read to its last write, or in an SQLite file, where each *)
(* process holds only its own connection: it reads the table, decides, and *)
(* updates columns of one row afterwards.  Callers are threads of one      *)
(* program for the board in memory, and processes for the other.  TeamRuns *)
(* adds run_task.                                                          *)
(***************************************************************************)
EXTENDS Naturals, Sequences, FiniteSets

CONSTANTS
  Callers,
  Tasks,         \* ids, ordered: the SQLite board lists them in this order
  Members,
  ReviewerSets,  \* the choices of reviewers of a new task
  Outputs,       \* results of tasks
  MaxVotes,      \* bound on the votes in a review of each task
  None

VARIABLES
  durable,       \* the board is the SQLite one
  board,         \* task -> row, None when there is no such task
  read,          \* caller -> the table as its operation has read it, or None
  claims,        \* task -> how often claim_task has returned it
  raced          \* two operations overlapped (claims and raced are history)

boardVars == <<durable, board, read, claims, raced>>

Statuses == {"pending", "in_progress", "in_review", "done", "failed"}
Votes == [member : Members, approve : BOOLEAN]
Rows == [status : Statuses, deps : SUBSET Tasks, assignee : Members \union {None},
         reviewers : SUBSET Members, votes : Seq(Votes), result : Outputs \union {None}]

ASSUME BoardAssumption ==
  /\ Tasks \subseteq Nat
  /\ ReviewerSets \subseteq SUBSET Members
  /\ MaxVotes \in [Tasks -> Nat]
  /\ None \notin Members \union Outputs \union Rows \union [Tasks -> Rows \union {None}]

BoardInit ==
  /\ durable \in BOOLEAN
  /\ board = [t \in Tasks |-> None]
  /\ read = [p \in Callers |-> None]
  /\ claims = [t \in Tasks |-> 0]
  /\ raced = FALSE

Known(b) == {t \in Tasks : b[t] # None}
With(b, status) == {t \in Known(b) : b[t].status = status}

----------------------------------------------------------------------------
(* How an operation reads and writes.                                      *)

\* The SQLite board loads the table.
Load(p) ==
  /\ durable
  /\ read[p] = None
  /\ read' = [read EXCEPT ![p] = board]
  /\ raced' = (raced \/ \E q \in Callers : read[q] # None)
  /\ UNCHANGED <<durable, board, claims>>

\* What the operation of p decides on.
Decides(p) == durable => read[p] # None
View(p) == IF durable THEN read[p] ELSE board

Return(p) ==
  /\ read' = [read EXCEPT ![p] = None]
  /\ UNCHANGED <<durable, raced>>

\* An operation that refuses, or only reads.
Refuse(p) ==
  /\ read[p] # None
  /\ Return(p)
  /\ UNCHANGED <<board, claims>>

Write(p, t, row) ==
  /\ board' = [board EXCEPT ![t] = row]
  /\ Return(p)

----------------------------------------------------------------------------
(* The operations.                                                         *)

\* create_task, and add_task as its callers in the repository use it: the task
\* is pending and has neither votes nor a result (add_task would take any row).
Create(p, t, deps, reviewers) ==
  /\ Decides(p)
  /\ board[t] = None
  /\ deps \subseteq Known(View(p))
  /\ Write(p, t, [status |-> "pending", deps |-> deps, assignee |-> None,
                  reviewers |-> reviewers, votes |-> <<>>, result |-> None])
  /\ UNCHANGED claims

\* The tasks d waits for, itself included.
Upstream(b, d) ==
  {x \in Tasks : \A S \in SUBSET Tasks :
     d \in S /\ (\A y \in S \intersect Known(b) : b[y].deps \subseteq S) => x \in S}

\* Faulty variant: only the direct cycle is refused.
DependUnchecked(p, t, d) ==
  /\ Decides(p)
  /\ {t, d} \subseteq Known(View(p))
  /\ View(p)[t].status = "pending"
  /\ t # d
  /\ Write(p, t, [board[t] EXCEPT !.deps = View(p)[t].deps \union {d}])
  /\ UNCHANGED claims

Depend(p, t, d) ==
  /\ Decides(p)
  /\ {t, d} \subseteq Known(View(p))
  /\ View(p)[t].status = "pending"
  /\ t \notin Upstream(View(p), d)
  /\ Write(p, t, [board[t] EXCEPT !.deps = View(p)[t].deps \union {d}])
  /\ UNCHANGED claims

\* Faulty variant: a dependency in review counts as done.
ClaimableInReview(b) ==
  {t \in With(b, "pending") :
     b[t].deps \subseteq With(b, "done") \union With(b, "in_review")}

Claimable(b) == {t \in With(b, "pending") : b[t].deps \subseteq With(b, "done")}

\* The candidate: the first row of the table, or any entry of the hash map.
Candidates(b) ==
  IF durable THEN {t \in Claimable(b) : \A s \in Claimable(b) : t <= s} ELSE Claimable(b)

\* The update does not look at the row again.
Claim(p, t, m) ==
  /\ Decides(p)
  /\ t \in Candidates(View(p))
  /\ Write(p, t, [board[t] EXCEPT !.status = "in_progress", !.assignee = m])
  /\ claims' = [claims EXCEPT ![t] = @ + 1]

\* Faulty variant: a task in any state can be completed.
CompleteAny(p, t, output) ==
  /\ Decides(p)
  /\ t \in Known(View(p))
  /\ Write(p, t,
       [board[t] EXCEPT !.status = IF View(p)[t].reviewers = {} THEN "done" ELSE "in_review",
                        !.result = output, !.votes = <<>>])
  /\ UNCHANGED claims

\* The update has the status in its condition.
Complete(p, t, output) ==
  /\ Decides(p)
  /\ t \in With(View(p), "in_progress") \intersect With(board, "in_progress")
  /\ Write(p, t,
       [board[t] EXCEPT !.status = IF View(p)[t].reviewers = {} THEN "done" ELSE "in_review",
                        !.result = output, !.votes = <<>>])
  /\ UNCHANGED claims

Submit(p, t) ==
  /\ Decides(p)
  /\ t \in With(View(p), "in_progress")
  /\ Write(p, t, [board[t] EXCEPT !.status = "in_review", !.votes = <<>>])
  /\ UNCHANGED claims

HasVoted(row, m) ==
  \E i \in DOMAIN row.votes :
    row.votes[i].member = m /\ (durable => row.votes[i].approve)

\* The board in memory wants a reviewer who did not do the task.  The SQLite one
\* takes any member, and finds only approving votes in the list.
MayVote(row, m) ==
  /\ ~HasVoted(row, m)
  /\ ~durable /\ row.reviewers # {} => m \in row.reviewers /\ m # row.assignee

Vote(p, t, m, approve) ==
  /\ Decides(p)
  /\ t \in With(View(p), "in_review")
  /\ MayVote(View(p)[t], m)
  /\ Len(View(p)[t].votes) < MaxVotes[t]
  /\ Write(p, t, [board[t] EXCEPT !.votes =
                    Append(View(p)[t].votes, [member |-> m, approve |-> approve])])
  /\ UNCHANGED claims

Approvals(row) == {i \in DOMAIN row.votes : row.votes[i].approve}
Passed(row) == Cardinality(Approvals(row)) > Cardinality(DOMAIN row.votes \ Approvals(row))

\* Faulty variant: a tie passes.
SettleTie(p, t) ==
  /\ Decides(p)
  /\ t \in With(View(p), "in_review")
  /\ Write(p, t, [board[t] EXCEPT !.status =
       IF Cardinality(Approvals(View(p)[t])) * 2 >= Len(View(p)[t].votes)
       THEN "done" ELSE "failed"])
  /\ UNCHANGED claims

Settle(p, t) ==
  /\ Decides(p)
  /\ t \in With(View(p), "in_review")
  /\ Write(p, t, [board[t] EXCEPT !.status = IF Passed(View(p)[t]) THEN "done" ELSE "failed"])
  /\ UNCHANGED claims
=============================================================================
