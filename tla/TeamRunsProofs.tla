--------------------------- MODULE TeamRunsProofs ---------------------------
(***************************************************************************)
(* Proofs about the team board and its runs, for any number of callers,    *)
(* tasks, members and votes.  Without overlap what an operation has read   *)
(* is the board it writes, so that each operation is one step of one row;  *)
(* the invariants of the board are about those steps.                      *)
(***************************************************************************)
EXTENDS TeamRuns, TLAPS, FiniteSetTheorems

\* Tasks are never taken from the board.
KeepsKnown ==
  \A p \in Callers : read[p] # None => Known(read[p]) \subseteq Known(board)

\* Only the SQLite board is read ahead, and without overlap by one caller whose
\* copy is still the board.
ViewInv ==
  /\ \A p \in Callers : read[p] # None => durable
  /\ ~raced =>
       /\ \A p \in Callers : read[p] # None => read[p] = board
       /\ \A p, q \in Callers : read[p] # None /\ read[q] # None => p = q

\* ApprovesOnce of any table.
OnceOn(b) ==
  \A t \in Known(b) : \A i, j \in DOMAIN b[t].votes :
    i # j /\ b[t].votes[i].member = b[t].votes[j].member
      => durable /\ ~(b[t].votes[i].approve /\ b[t].votes[j].approve)

OnceInv == OnceOn(board) /\ \A p \in Callers : read[p] # None => OnceOn(read[p])

BaseInv == TypeOK /\ KeepsKnown /\ ViewInv /\ OnceInv

\* The operations that write the board.
Operation(p) ==
  \E t \in Tasks :
    \/ \E reviewers \in ReviewerSets, deps \in SUBSET Tasks : Create(p, t, deps, reviewers)
    \/ \E d \in Tasks : Depend(p, t, d)
    \/ \E m \in Members : Claim(p, t, m)
    \/ \E output \in Outputs : Complete(p, t, output)
    \/ Submit(p, t)
    \/ \E m \in Members, approve \in BOOLEAN : Vote(p, t, m, approve)
    \/ Settle(p, t)

Step(p) ==
  \/ Call(p) \/ Begin(p)
  \/ \E t \in Tasks : Run(p, t)
  \/ RunClaims(p) \/ RunFindsNone(p) \/ RunSkips(p)
  \/ Worked(p) \/ RunReports(p) \/ RunRefused(p)
  \/ Crash(p)

----------------------------------------------------------------------------
\* A step is an operation, or it leaves the board and the claims alone.
LEMMA StepKinds ==
  ASSUME TypeOK, NEW p \in Callers, Step(p)
  PROVE  /\ durable' = durable
         /\ \/ Operation(p)
            \/ UNCHANGED <<board, claims>> /\ Load(p)
            \/ UNCHANGED <<board, claims, raced>> /\ read' = [read EXCEPT ![p] = None]
            \/ UNCHANGED <<board, claims, raced, read>>
<1>1. p \in Outputs /\ Other \in Outputs /\ First \in Members
  BY RunsAssumption
<1>2. CASE Call(p)
  <2>1. Operation(p) \/ Refuse(p)
    BY <1>1, <1>2 DEF Call, Operation
  <2>2. durable' = durable
    BY <1>2 DEF Call, Create, Depend, Claim, Complete, Submit, Settle, Vote, Refuse, Write, Return
  <2>3. QED
    BY <2>1, <2>2 DEF Refuse, Return
<1>3. CASE Begin(p)
  BY <1>3 DEF Begin, Load
<1>4. CASE RunClaims(p)
  <2>1. Operation(p)
    BY <1>1, <1>4 DEF RunClaims, Operation
  <2>2. QED
    BY <1>4, <2>1 DEF RunClaims, Claim, Write, Return
<1>5. CASE RunSkips(p)
  <2>1. got[p] \in Tasks
    BY <1>5 DEF RunSkips, TypeOK
  <2>2. Operation(p) \/ (Return(p) /\ UNCHANGED <<board, claims>>)
    BY <1>1, <1>5, <2>1 DEF RunSkips, Operation
  <2>3. durable' = durable
    BY <1>5 DEF RunSkips, Complete, Write, Return
  <2>4. QED
    BY <2>2, <2>3 DEF Return
<1>6. CASE RunReports(p)
  <2>1. got[p] \in Tasks
    BY <1>6 DEF RunReports, TypeOK
  <2>2. Operation(p)
    BY <1>1, <1>6, <2>1 DEF RunReports, Operation
  <2>3. QED
    BY <1>6, <2>2 DEF RunReports, Complete, Write, Return
<1>7. CASE RunFindsNone(p) \/ RunRefused(p) \/ Crash(p)
  BY <1>7 DEF RunFindsNone, RunRefused, Crash, Return
<1>8. CASE Worked(p) \/ \E t \in Tasks : Run(p, t)
  BY <1>8 DEF Worked, Run, boardVars
<1>9. QED
  BY <1>2, <1>3, <1>4, <1>5, <1>6, <1>7, <1>8 DEF Step

\* What the operations do to a table's rows, whatever table they decided on.
LEMMA OperationWrites ==
  ASSUME BaseInv, NEW p \in Callers, Operation(p)
  PROVE  /\ read' = [read EXCEPT ![p] = None] /\ UNCHANGED <<durable, raced>>
         /\ claims' \in [Tasks -> Nat]
         /\ \E t \in Tasks, row \in Rows :
              /\ board' = [board EXCEPT ![t] = row]
              /\ \/ row.votes = <<>>
                 \/ t \in Known(board) /\ row.votes = board[t].votes
                 \/ /\ t \in Known(View(p))
                    /\ \E m \in Members, approve \in BOOLEAN :
                         /\ MayVote(View(p)[t], m)
                         /\ row.votes = Append(View(p)[t].votes,
                                               [member |-> m, approve |-> approve])
<1>1. TypeOK /\ KeepsKnown
  BY DEF BaseInv
<1>2. \A t \in Known(board) : board[t] \in Rows
  BY <1>1 DEF TypeOK, Known
<1>3. /\ View(p) \in [Tasks -> Rows \union {None}] \/ ~Decides(p)
      /\ Decides(p) => Known(View(p)) \subseteq Known(board)
  BY <1>1 DEF TypeOK, KeepsKnown, View, Decides
<1> SUFFICES ASSUME NEW t \in Tasks,
      \/ \E reviewers \in ReviewerSets, deps \in SUBSET Tasks : Create(p, t, deps, reviewers)
      \/ \E d \in Tasks : Depend(p, t, d)
      \/ \E m \in Members : Claim(p, t, m)
      \/ \E output \in Outputs : Complete(p, t, output)
      \/ Submit(p, t)
      \/ \E m \in Members, approve \in BOOLEAN : Vote(p, t, m, approve)
      \/ Settle(p, t)
      PROVE  /\ read' = [read EXCEPT ![p] = None] /\ UNCHANGED <<durable, raced>>
             /\ claims' \in [Tasks -> Nat]
             /\ \E row \in Rows :
                  /\ board' = [board EXCEPT ![t] = row]
                  /\ \/ row.votes = <<>>
                     \/ t \in Known(board) /\ row.votes = board[t].votes
                     \/ /\ t \in Known(View(p))
                        /\ \E m \in Members, approve \in BOOLEAN :
                             /\ MayVote(View(p)[t], m)
                             /\ row.votes = Append(View(p)[t].votes,
                                                   [member |-> m, approve |-> approve])
  BY DEF Operation
<1>4. ASSUME NEW reviewers \in ReviewerSets, NEW deps \in SUBSET Tasks,
             Create(p, t, deps, reviewers)
      PROVE  \E row \in Rows : board' = [board EXCEPT ![t] = row] /\ row.votes = <<>>
  <2>1. [status |-> "pending", deps |-> deps, assignee |-> None,
         reviewers |-> reviewers, votes |-> <<>>, result |-> None] \in Rows
    BY BoardAssumption DEF Rows, Statuses
  <2>2. QED
    BY <1>4, <2>1 DEF Create, Write
<1>5. ASSUME NEW d \in Tasks, Depend(p, t, d)
      PROVE  \E row \in Rows : /\ board' = [board EXCEPT ![t] = row]
                               /\ t \in Known(board) /\ row.votes = board[t].votes
  <2>1. t \in Known(board) /\ View(p)[t].deps \union {d} \in SUBSET Tasks
    BY <1>3, <1>5 DEF Depend, Known, Rows
  <2>2. board[t] \in Rows
    BY <1>2, <2>1
  <2>3. /\ [board[t] EXCEPT !.deps = View(p)[t].deps \union {d}] \in Rows
        /\ [board[t] EXCEPT !.deps = View(p)[t].deps \union {d}].votes = board[t].votes
    BY <2>1, <2>2 DEF Rows
  <2>4. QED
    BY <1>5, <2>1, <2>3 DEF Depend, Write
<1>6. ASSUME NEW m \in Members, Claim(p, t, m)
      PROVE  \E row \in Rows : /\ board' = [board EXCEPT ![t] = row]
                               /\ t \in Known(board) /\ row.votes = board[t].votes
  <2>1. t \in Known(board)
    BY <1>3, <1>6 DEF Claim, Candidates, Claimable, With
  <2>2. board[t] \in Rows
    BY <1>2, <2>1
  <2>3. /\ [board[t] EXCEPT !.status = "in_progress", !.assignee = m] \in Rows
        /\ [board[t] EXCEPT !.status = "in_progress", !.assignee = m].votes = board[t].votes
    BY <2>2 DEF Rows, Statuses
  <2>4. QED
    BY <1>6, <2>1, <2>3 DEF Claim, Write
<1>7. ASSUME NEW output \in Outputs, Complete(p, t, output)
      PROVE  \E row \in Rows : board' = [board EXCEPT ![t] = row] /\ row.votes = <<>>
  <2> DEFINE status == IF View(p)[t].reviewers = {} THEN "done" ELSE "in_review"
  <2>1. board[t] \in Rows
    BY <1>2, <1>7 DEF Complete, With
  <2>2. <<>> \in Seq(Votes) /\ status \in Statuses
    BY DEF Statuses
  <2> HIDE DEF status
  <2>3. [board[t] EXCEPT !.status = status, !.result = output, !.votes = <<>>] \in Rows
    BY <2>1, <2>2 DEF Rows
  <2>4. [board[t] EXCEPT !.status = status, !.result = output, !.votes = <<>>].votes = <<>>
    BY <2>1 DEF Rows
  <2>5. board' = [board EXCEPT ![t] = [board[t] EXCEPT !.status = status, !.result = output,
                                                       !.votes = <<>>]]
    BY <1>7 DEF Complete, Write, status
  <2>6. QED
    BY <2>3, <2>4, <2>5
<1>8. ASSUME Submit(p, t)
      PROVE  \E row \in Rows : board' = [board EXCEPT ![t] = row] /\ row.votes = <<>>
  <2>1. board[t] \in Rows
    BY <1>2, <1>3, <1>8 DEF Submit, With
  <2>2. <<>> \in Seq(Votes)
    OBVIOUS
  <2>3. [board[t] EXCEPT !.status = "in_review", !.votes = <<>>] \in Rows
    BY <2>1, <2>2 DEF Rows, Statuses
  <2>4. [board[t] EXCEPT !.status = "in_review", !.votes = <<>>].votes = <<>>
    BY <2>1 DEF Rows
  <2>5. QED
    BY <1>8, <2>3, <2>4 DEF Submit, Write
<1>9. ASSUME NEW m \in Members, NEW approve \in BOOLEAN, Vote(p, t, m, approve)
      PROVE  \E row \in Rows :
               /\ board' = [board EXCEPT ![t] = row]
               /\ t \in Known(View(p)) /\ MayVote(View(p)[t], m)
               /\ row.votes = Append(View(p)[t].votes, [member |-> m, approve |-> approve])
  <2> DEFINE votes == Append(View(p)[t].votes, [member |-> m, approve |-> approve])
  <2>1. board[t] \in Rows /\ View(p)[t] \in Rows
    BY <1>2, <1>3, <1>9 DEF Vote, With, Known
  <2>2. votes \in Seq(Votes)
    BY <2>1 DEF Rows, Votes
  <2>3. [board[t] EXCEPT !.votes = votes] \in Rows /\ [board[t] EXCEPT !.votes = votes].votes = votes
    BY <2>1, <2>2 DEF Rows
  <2>4. QED
    BY <1>9, <2>3 DEF Vote, Write, With
<1>10. ASSUME Settle(p, t)
       PROVE  \E row \in Rows : /\ board' = [board EXCEPT ![t] = row]
                                /\ t \in Known(board) /\ row.votes = board[t].votes
  <2> DEFINE status == IF Passed(View(p)[t]) THEN "done" ELSE "failed"
  <2>1. t \in Known(board) /\ board[t] \in Rows
    BY <1>2, <1>3, <1>10 DEF Settle, With
  <2>2. /\ [board[t] EXCEPT !.status = status] \in Rows
        /\ [board[t] EXCEPT !.status = status].votes = board[t].votes
    BY <2>1 DEF Rows, Statuses
  <2>3. QED
    BY <1>10, <2>1, <2>2 DEF Settle, Write
<1>11. read' = [read EXCEPT ![p] = None] /\ UNCHANGED <<durable, raced>>
  BY DEF Create, Depend, Claim, Complete, Submit, Vote, Settle, Write, Return
<1>12. claims' \in [Tasks -> Nat]
  <2>1. claims \in [Tasks -> Nat]
    BY <1>1 DEF TypeOK
  <2>2. claims' = claims \/ claims' = [claims EXCEPT ![t] = @ + 1]
    BY DEF Create, Depend, Claim, Complete, Submit, Vote, Settle
  <2>3. QED
    BY <2>1, <2>2
<1>13. \E row \in Rows :
         /\ board' = [board EXCEPT ![t] = row]
         /\ \/ row.votes = <<>>
            \/ t \in Known(board) /\ row.votes = board[t].votes
            \/ /\ t \in Known(View(p))
               /\ \E m \in Members, approve \in BOOLEAN :
                    /\ MayVote(View(p)[t], m)
                    /\ row.votes = Append(View(p)[t].votes,
                                          [member |-> m, approve |-> approve])
  <2>1. ASSUME NEW reviewers \in ReviewerSets, NEW deps \in SUBSET Tasks,
               Create(p, t, deps, reviewers)
        PROVE  \E row \in Rows : board' = [board EXCEPT ![t] = row] /\ row.votes = <<>>
    BY <1>4, <2>1
  <2>2. ASSUME \/ \E d \in Tasks : Depend(p, t, d)
               \/ \E m \in Members : Claim(p, t, m)
               \/ Settle(p, t)
        PROVE  \E row \in Rows : /\ board' = [board EXCEPT ![t] = row]
                                 /\ t \in Known(board) /\ row.votes = board[t].votes
    BY <1>5, <1>6, <1>10, <2>2
  <2>3. CASE Submit(p, t) \/ \E output \in Outputs : Complete(p, t, output)
    BY <1>7, <1>8, <2>3
  <2>4. CASE \E m \in Members, approve \in BOOLEAN : Vote(p, t, m, approve)
    <3>1. PICK m \in Members, approve \in BOOLEAN : Vote(p, t, m, approve)
      BY <2>4
    <3>2. PICK row \in Rows :
            /\ board' = [board EXCEPT ![t] = row]
            /\ t \in Known(View(p)) /\ MayVote(View(p)[t], m)
            /\ row.votes = Append(View(p)[t].votes, [member |-> m, approve |-> approve])
      BY <3>1, <1>9
    <3>3. QED
      BY <3>2
  <2>5. CASE \E reviewers \in ReviewerSets, deps \in SUBSET Tasks : Create(p, t, deps, reviewers)
    BY <2>1, <2>5
  <2>6. CASE \/ \E d \in Tasks : Depend(p, t, d)
             \/ \E m \in Members : Claim(p, t, m)
             \/ Settle(p, t)
    BY <2>2, <2>6
  <2>7. QED
    BY <2>3, <2>4, <2>5, <2>6
<1>14. QED
  BY <1>11, <1>12, <1>13

\* A vote that MayVote admits leaves no two approvals of one member, and no two
\* votes of one on the board in memory.
LEMMA VoteOnce ==
  ASSUME NEW b, NEW t \in Known(b), b[t] \in Rows, OnceOn(b), NEW m \in Members,
         NEW approve \in BOOLEAN, MayVote(b[t], m),
         NEW votes, votes = Append(b[t].votes, [member |-> m, approve |-> approve]),
         NEW i \in DOMAIN votes, NEW j \in DOMAIN votes, i # j,
         votes[i].member = votes[j].member
  PROVE  durable /\ ~(votes[i].approve /\ votes[j].approve)
<1> DEFINE old == b[t].votes  vote == [member |-> m, approve |-> approve]
<1>1. old \in Seq(Votes) /\ vote \in Votes
  BY DEF Rows, Votes
<1>2. \A k \in DOMAIN old : old[k].member = m => durable /\ ~old[k].approve
  BY DEF MayVote, HasVoted
<1>3. \A k, l \in DOMAIN old : k # l /\ old[k].member = old[l].member
        => durable /\ ~(old[k].approve /\ old[l].approve)
  BY DEF OnceOn
<1> HIDE DEF old, vote
<1>4. votes = Append(old, vote) /\ vote.member = m
  BY DEF old, vote
<1>5. \A k \in DOMAIN votes : \/ k \in DOMAIN old /\ votes[k] = old[k]
                              \/ k = Len(old) + 1 /\ votes[k] = vote
  BY <1>1, <1>4
<1>6. CASE i \in DOMAIN old /\ votes[i] = old[i]
  BY <1>2, <1>3, <1>4, <1>5, <1>6
<1>7. CASE i = Len(old) + 1 /\ votes[i] = vote
  BY <1>2, <1>4, <1>5, <1>7
<1>8. QED
  BY <1>5, <1>6, <1>7

LEMMA OperationKeepsOnce ==
  ASSUME BaseInv, NEW p \in Callers, Operation(p)
  PROVE  OnceInv'
<1>1. TypeOK /\ KeepsKnown /\ OnceInv /\ UNCHANGED durable
  BY OperationWrites DEF BaseInv
<1>2. PICK t \in Tasks, row \in Rows :
        /\ board' = [board EXCEPT ![t] = row]
        /\ \/ row.votes = <<>>
           \/ t \in Known(board) /\ row.votes = board[t].votes
           \/ /\ t \in Known(View(p))
              /\ \E m \in Members, approve \in BOOLEAN :
                   /\ MayVote(View(p)[t], m)
                   /\ row.votes = Append(View(p)[t].votes,
                                         [member |-> m, approve |-> approve])
  BY OperationWrites
<1>3. Decides(p)
  BY DEF Operation, Create, Depend, Claim, Complete, Submit, Vote, Settle
<1>4. OnceOn(View(p)) /\ View(p) \in [Tasks -> Rows \union {None}]
  BY <1>1, <1>3 DEF OnceInv, Decides, View, TypeOK
<1>5. ASSUME NEW i \in DOMAIN row.votes, NEW j \in DOMAIN row.votes, i # j,
             row.votes[i].member = row.votes[j].member
      PROVE  durable /\ ~(row.votes[i].approve /\ row.votes[j].approve)
  <2>1. CASE row.votes = <<>>
    BY <1>5, <2>1
  <2>2. CASE t \in Known(board) /\ row.votes = board[t].votes
    BY <1>1, <1>5, <2>2 DEF OnceInv, OnceOn
  <2>3. CASE /\ t \in Known(View(p))
             /\ \E m \in Members, approve \in BOOLEAN :
                  /\ MayVote(View(p)[t], m)
                  /\ row.votes = Append(View(p)[t].votes, [member |-> m, approve |-> approve])
    <3>1. View(p)[t] \in Rows
      BY <1>4, <2>3 DEF Known
    <3>2. PICK m \in Members, approve \in BOOLEAN :
                  /\ MayVote(View(p)[t], m)
                  /\ row.votes = Append(View(p)[t].votes, [member |-> m, approve |-> approve])
      BY <2>3
    <3>3. QED
      BY <1>4, <1>5, <2>3, <3>1, <3>2, VoteOnce
  <2>4. QED
    BY <1>2, <2>1, <2>2, <2>3
<1>6. OnceOn(board')
  <2> SUFFICES ASSUME NEW s \in Known(board')
               PROVE  \A i, j \in DOMAIN board'[s].votes :
                        i # j /\ board'[s].votes[i].member = board'[s].votes[j].member
                          => durable /\ ~(board'[s].votes[i].approve /\ board'[s].votes[j].approve)
    BY DEF OnceOn
  <2>1. CASE s = t
    <3>1. board'[s] = row
      BY <1>1, <1>2, <2>1 DEF TypeOK
    <3>2. QED
      BY <1>5, <3>1
  <2>2. CASE s # t
    <3>1. s \in Known(board) /\ board'[s] = board[s]
      BY <1>1, <1>2, <2>2 DEF TypeOK, Known
    <3>2. QED
      BY <1>1, <3>1 DEF OnceInv, OnceOn
  <2>3. QED
    BY <2>1, <2>2
<1>7. \A q \in Callers : read'[q] # None => read'[q] = read[q]
  BY <1>1, OperationWrites DEF TypeOK
<1>8. \A q \in Callers : read'[q] # None => OnceOn(read'[q])
  BY <1>1, <1>7 DEF OnceInv
<1>9. QED
  BY <1>1, <1>6, <1>8 DEF OnceInv, OnceOn

LEMMA NoneNoTable ==
  /\ None \notin Rows /\ None \notin [Tasks -> Rows \union {None}]
  BY BoardAssumption

LEMMA BaseInit == Init => BaseInv
<1> SUFFICES ASSUME Init PROVE BaseInv
  OBVIOUS
<1>1. Known(board) = {} /\ \A p \in Callers : read[p] = None
  BY DEF Init, BoardInit, Known
<1>2. TypeOK
  BY DEF Init, BoardInit, TypeOK
<1>3. QED
  BY <1>1, <1>2 DEF BaseInv, KeepsKnown, ViewInv, OnceInv, OnceOn

LEMMA StepTypes ==
  ASSUME BaseInv, NEW p \in Callers, Step(p)
  PROVE  TypeOK'
<1>1. TypeOK
  BY DEF BaseInv
<1>2. durable' \in BOOLEAN /\ raced' \in BOOLEAN
  <2>1. durable' \in BOOLEAN
    BY <1>1, StepKinds DEF TypeOK
  <2>2. ASSUME Load(p) PROVE raced' \in BOOLEAN
    BY <2>2 DEF Load
  <2>3. QED
    BY <1>1, <2>1, <2>2, StepKinds, OperationWrites DEF TypeOK
<1>3. board' \in [Tasks -> Rows \union {None}]
  <2>1. ASSUME Operation(p) PROVE board' \in [Tasks -> Rows \union {None}]
    BY <1>1, <2>1, OperationWrites DEF TypeOK
  <2>2. QED
    BY <1>1, <2>1, StepKinds DEF TypeOK
<1>4. read' \in [Callers -> [Tasks -> Rows \union {None}] \union {None}]
  <2>1. ASSUME Load(p) PROVE read' \in [Callers -> [Tasks -> Rows \union {None}] \union {None}]
    BY <1>1, <2>1 DEF Load, TypeOK
  <2>2. QED
    BY <1>1, <2>1, StepKinds, OperationWrites DEF TypeOK
<1>5. claims' \in [Tasks -> Nat]
  BY <1>1, StepKinds, OperationWrites DEF TypeOK
<1>6. /\ pc' \in [Callers -> {"idle", "claim", "skip", "work", "complete"}]
      /\ target' \in [Callers -> Tasks \union {None}]
      /\ got' \in [Callers -> Tasks \union {None}]
      /\ \A q \in Callers : pc'[q] \in {"skip", "work", "complete"} => got'[q] \in Tasks
      /\ reported' \subseteq Tasks \X Callers
  <2> DEFINE Good == /\ pc' \in [Callers -> {"idle", "claim", "skip", "work", "complete"}]
                     /\ target' \in [Callers -> Tasks \union {None}]
                     /\ got' \in [Callers -> Tasks \union {None}]
                     /\ \A q \in Callers : pc'[q] \in {"skip", "work", "complete"} => got'[q] \in Tasks
                     /\ reported' \subseteq Tasks \X Callers
  <2>1. ASSUME EndRun(p), UNCHANGED reported PROVE Good
    BY <1>1, <2>1 DEF EndRun, TypeOK
  <2>2. ASSUME UNCHANGED runVars PROVE Good
    BY <1>1, <2>2 DEF runVars, TypeOK
  <2>3. ASSUME RunClaims(p) PROVE Good
    BY <1>1, <2>3 DEF RunClaims, TypeOK
  <2>4. ASSUME NEW t \in Tasks, Run(p, t) PROVE Good
    BY <1>1, <2>4 DEF Run, TypeOK
  <2>5. ASSUME Worked(p) PROVE Good
    <3>1. CASE EndRun(p)
      BY <2>1, <2>5, <3>1 DEF Worked
    <3>2. CASE pc' = [pc EXCEPT ![p] = "complete"] /\ UNCHANGED <<target, got>>
      BY <1>1, <2>5, <3>2 DEF Worked, TypeOK
    <3>3. QED
      BY <2>5, <3>1, <3>2 DEF Worked
  <2>6. ASSUME RunReports(p) PROVE Good
    <3>1. got[p] \in Tasks /\ UNCHANGED durable
      BY <1>1, <2>6 DEF RunReports, TypeOK, Complete, Write, Return
    <3>2. reported' \subseteq Tasks \X Callers
      BY <1>1, <2>6, <3>1 DEF RunReports, TypeOK
    <3>3. QED
      BY <1>1, <2>6, <3>2 DEF RunReports, EndRun, TypeOK
  <2>7. QED
    BY <2>1, <2>2, <2>3, <2>4, <2>5, <2>6
       DEF Step, Call, Begin, RunFindsNone, RunSkips, RunRefused, Crash
<1>7. QED
  BY <1>2, <1>3, <1>4, <1>5, <1>6 DEF TypeOK

LEMMA StepKnown ==
  ASSUME BaseInv, NEW p \in Callers, Step(p)
  PROVE  Known(board) \subseteq Known(board')
<1>1. TypeOK
  BY DEF BaseInv
<1>2. ASSUME Operation(p) PROVE Known(board) \subseteq Known(board')
  BY <1>1, <1>2, OperationWrites, NoneNoTable DEF TypeOK, Known
<1>3. QED
  BY <1>1, <1>2, StepKinds DEF Known

LEMMA StepReads ==
  ASSUME BaseInv, NEW p \in Callers, Step(p)
  PROVE  KeepsKnown' /\ ViewInv'
<1>1. TypeOK /\ KeepsKnown /\ ViewInv /\ durable' = durable
  BY StepKinds DEF BaseInv
<1>2. Known(board) \subseteq Known(board')
  BY StepKnown
<1>3. CASE Load(p)
  <2>1. /\ read' = [read EXCEPT ![p] = board] /\ board' = board /\ durable
        /\ raced' = (raced \/ \E q \in Callers : read[q] # None)
    BY <1>3 DEF Load
  <2>2. KeepsKnown'
    BY <1>1, <2>1 DEF KeepsKnown, TypeOK, Known
  <2>3. ~raced' => ~raced /\ \A q \in Callers : read[q] = None
    BY <2>1
  <2>4. QED
    BY <1>1, <2>1, <2>2, <2>3 DEF ViewInv, TypeOK
<1>4. CASE /\ read' = [read EXCEPT ![p] = None] /\ raced' = raced
           /\ Operation(p) \/ board' = board
  <2>1. \A q \in Callers : read'[q] # None => q # p /\ read'[q] = read[q]
    BY <1>1, <1>4 DEF TypeOK
  <2>2. KeepsKnown'
    BY <1>1, <1>2, <2>1 DEF KeepsKnown
  <2>3. Operation(p) => Decides(p)
    BY DEF Operation, Create, Depend, Claim, Complete, Submit, Vote, Settle
  <2>4. ASSUME ~raced, NEW q \in Callers, read'[q] # None PROVE read'[q] = board'
    BY <1>1, <1>4, <2>1, <2>3, <2>4 DEF ViewInv, Decides
  <2>5. QED
    BY <1>1, <1>4, <2>1, <2>2, <2>4 DEF ViewInv
<1>5. CASE UNCHANGED <<board, raced, read>>
  BY <1>1, <1>5 DEF KeepsKnown, ViewInv, Known
<1>6. QED
  BY <1>1, <1>3, <1>4, <1>5, StepKinds, OperationWrites

LEMMA StepOnce ==
  ASSUME BaseInv, NEW p \in Callers, Step(p)
  PROVE  OnceInv'
<1>1. TypeOK /\ OnceInv /\ durable' = durable
  BY StepKinds DEF BaseInv
<1>2. CASE Operation(p)
  BY <1>2, OperationKeepsOnce
<1>3. CASE board' = board /\ \A q \in Callers : read'[q] \in {None, board, read[q]}
  BY <1>1, <1>3 DEF OnceInv, OnceOn, Known
<1>4. Load(p) \/ read' = [read EXCEPT ![p] = None] \/ read' = read
        => \A q \in Callers : read'[q] \in {None, board, read[q]}
  BY <1>1 DEF Load, TypeOK
<1>5. QED
  BY <1>1, <1>2, <1>3, <1>4, StepKinds DEF Load

LEMMA BaseStep ==
  ASSUME BaseInv, [Next]_vars
  PROVE  BaseInv'
<1>1. ASSUME NEW p \in Callers, Step(p) PROVE BaseInv'
  BY <1>1, StepTypes, StepReads, StepOnce DEF BaseInv
<1>2. CASE UNCHANGED vars
  BY <1>2 DEF vars, boardVars, runVars, BaseInv, TypeOK, KeepsKnown, ViewInv, OnceInv, OnceOn, Known
<1>3. QED
  BY <1>1, <1>2 DEF Next, Step

----------------------------------------------------------------------------
(* Without overlap a step changes one row of the board, in one of these    *)
(* ways.                                                                   *)

Adds(t, row) ==
  /\ board[t] = None
  /\ row.status = "pending" /\ row.deps \subseteq Known(board) /\ row.votes = <<>>
  /\ claims' = claims

Waits(t, row) ==
  /\ t \in With(board, "pending") /\ row.status = "pending"
  /\ \E d \in Known(board) : t \notin Upstream(board, d) /\ row.deps = board[t].deps \union {d}
  /\ row.votes = board[t].votes /\ row.reviewers = board[t].reviewers
  /\ claims' = claims

Begins(t, row) ==
  /\ t \in Claimable(board) /\ row.status = "in_progress"
  /\ row.deps = board[t].deps
  /\ row.votes = board[t].votes /\ row.reviewers = board[t].reviewers
  /\ claims' = [claims EXCEPT ![t] = @ + 1]

Hands(t, row) ==
  /\ t \in With(board, "in_progress")
  /\ row.status = "in_review" \/ (row.status = "done" /\ row.reviewers = {})
  /\ row.deps = board[t].deps
  /\ row.votes = <<>>
  /\ claims' = claims

Judges(t, row) ==
  /\ t \in With(board, "in_review")
  /\ \/ /\ row.status = "in_review"
        /\ \E m \in Members, approve \in BOOLEAN :
             /\ MayVote(board[t], m)
             /\ row.votes = Append(board[t].votes, [member |-> m, approve |-> approve])
     \/ /\ row.status = IF Passed(board[t]) THEN "done" ELSE "failed"
        /\ row.votes = board[t].votes
  /\ row.deps = board[t].deps /\ row.result = board[t].result
  /\ row.reviewers = board[t].reviewers /\ row.assignee = board[t].assignee
  /\ claims' = claims

Effect(t, row) ==
  /\ board' = [board EXCEPT ![t] = row]
  /\ Adds(t, row) \/ Waits(t, row) \/ Begins(t, row) \/ Hands(t, row) \/ Judges(t, row)

LEMMA SerialOperation ==
  ASSUME BaseInv, ~raced, NEW p \in Callers, Operation(p)
  PROVE  \E t \in Tasks, row \in Rows : Effect(t, row)
<1>1. TypeOK /\ ViewInv /\ Decides(p)
  BY DEF BaseInv, Operation, Create, Depend, Claim, Complete, Submit, Vote, Settle
<1>2. View(p) = board
  BY <1>1 DEF ViewInv, View, Decides
<1>3. \A t \in Known(board) : board[t] \in Rows
  BY <1>1 DEF TypeOK, Known
<1> SUFFICES ASSUME NEW t \in Tasks,
      \/ \E reviewers \in ReviewerSets, deps \in SUBSET Tasks : Create(p, t, deps, reviewers)
      \/ \E d \in Tasks : Depend(p, t, d)
      \/ \E m \in Members : Claim(p, t, m)
      \/ \E output \in Outputs : Complete(p, t, output)
      \/ Submit(p, t)
      \/ \E m \in Members, approve \in BOOLEAN : Vote(p, t, m, approve)
      \/ Settle(p, t)
      PROVE  \E row \in Rows : Effect(t, row)
  BY DEF Operation
<1>4. ASSUME NEW reviewers \in ReviewerSets, NEW deps \in SUBSET Tasks,
             Create(p, t, deps, reviewers)
      PROVE  \E row \in Rows : Effect(t, row)
  <2> DEFINE row == [status |-> "pending", deps |-> deps, assignee |-> None,
                     reviewers |-> reviewers, votes |-> <<>>, result |-> None]
  <2>1. row \in Rows
    BY BoardAssumption DEF Rows, Statuses
  <2>2. Adds(t, row) /\ board' = [board EXCEPT ![t] = row]
    BY <1>2, <1>4 DEF Create, Write, Adds
  <2>3. QED
    BY <2>1, <2>2 DEF Effect
<1>5. ASSUME NEW d \in Tasks, Depend(p, t, d)
      PROVE  \E row \in Rows : Effect(t, row)
  <2> DEFINE row == [board[t] EXCEPT !.deps = board[t].deps \union {d}]
  <2>1. /\ t \in Known(board) /\ d \in Known(board) /\ t \notin Upstream(board, d)
        /\ board[t].status = "pending" /\ claims' = claims
        /\ board' = [board EXCEPT ![t] = row]
    BY <1>2, <1>5 DEF Depend, Write
  <2>2. board[t] \in Rows
    BY <1>3, <2>1
  <2>3. /\ row \in Rows /\ row.deps = board[t].deps \union {d}
        /\ row.status = board[t].status /\ row.votes = board[t].votes
        /\ row.reviewers = board[t].reviewers
    BY <2>2 DEF Rows
  <2> HIDE DEF row
  <2>4. Waits(t, row)
    BY <2>1, <2>3 DEF Waits, With
  <2>5. QED
    BY <2>1, <2>3, <2>4 DEF Effect
<1>6. ASSUME NEW m \in Members, Claim(p, t, m)
      PROVE  \E row \in Rows : Effect(t, row)
  <2> DEFINE row == [board[t] EXCEPT !.status = "in_progress", !.assignee = m]
  <2>1. /\ t \in Claimable(board) /\ claims' = [claims EXCEPT ![t] = @ + 1]
        /\ board' = [board EXCEPT ![t] = row]
    BY <1>2, <1>6 DEF Claim, Write, Candidates
  <2>2. board[t] \in Rows
    BY <1>3, <2>1 DEF Claimable, With
  <2>3. /\ row \in Rows /\ row.deps = board[t].deps
        /\ row.status = "in_progress" /\ row.votes = board[t].votes
        /\ row.reviewers = board[t].reviewers
    BY <2>2 DEF Rows, Statuses
  <2> HIDE DEF row
  <2>4. Begins(t, row)
    BY <2>1, <2>3 DEF Begins
  <2>5. QED
    BY <2>1, <2>3, <2>4 DEF Effect
<1>7. ASSUME NEW output \in Outputs, Complete(p, t, output)
      PROVE  \E row \in Rows : Effect(t, row)
  <2> DEFINE status == IF board[t].reviewers = {} THEN "done" ELSE "in_review"
             row == [board[t] EXCEPT !.status = status, !.result = output, !.votes = <<>>]
  <2>1. /\ t \in With(board, "in_progress") /\ claims' = claims
        /\ board' = [board EXCEPT ![t] = row]
    BY <1>2, <1>7 DEF Complete, Write
  <2>2. board[t] \in Rows /\ status \in Statuses /\ <<>> \in Seq(Votes)
    BY <1>3, <2>1 DEF With, Statuses
  <2>3. status = "in_review" \/ (status = "done" /\ board[t].reviewers = {})
    OBVIOUS
  <2> HIDE DEF status
  <2>4. row \in Rows
    BY <2>2 DEF Rows
  <2>5. /\ row.deps = board[t].deps /\ row.status = status /\ row.votes = <<>>
        /\ row.reviewers = board[t].reviewers
    BY <2>2 DEF Rows
  <2> HIDE DEF row
  <2>6. Hands(t, row)
    BY <2>1, <2>3, <2>5 DEF Hands
  <2>7. QED
    BY <2>1, <2>4, <2>6 DEF Effect
<1>8. ASSUME Submit(p, t)
      PROVE  \E row \in Rows : Effect(t, row)
  <2> DEFINE row == [board[t] EXCEPT !.status = "in_review", !.votes = <<>>]
  <2>1. /\ t \in With(board, "in_progress") /\ claims' = claims
        /\ board' = [board EXCEPT ![t] = row]
    BY <1>2, <1>8 DEF Submit, Write
  <2>2. board[t] \in Rows /\ <<>> \in Seq(Votes)
    BY <1>3, <2>1 DEF With
  <2>3. row \in Rows
    BY <2>2 DEF Rows, Statuses
  <2>4. row.deps = board[t].deps /\ row.status = "in_review" /\ row.votes = <<>>
    BY <2>2 DEF Rows
  <2> HIDE DEF row
  <2>5. Hands(t, row)
    BY <2>1, <2>4 DEF Hands
  <2>6. QED
    BY <2>1, <2>3, <2>5 DEF Effect
<1>9. ASSUME NEW m \in Members, NEW approve \in BOOLEAN, Vote(p, t, m, approve)
      PROVE  \E row \in Rows : Effect(t, row)
  <2> DEFINE votes == Append(board[t].votes, [member |-> m, approve |-> approve])
             row == [board[t] EXCEPT !.votes = votes]
  <2>1. /\ t \in With(board, "in_review") /\ claims' = claims /\ MayVote(board[t], m)
        /\ board' = [board EXCEPT ![t] = row]
    BY <1>2, <1>9 DEF Vote, Write
  <2>2. board[t] \in Rows /\ board[t].status = "in_review"
    BY <1>3, <2>1 DEF With
  <2>3. votes \in Seq(Votes)
    BY <2>2 DEF Rows, Votes
  <2>4. /\ row \in Rows /\ row.deps = board[t].deps
        /\ row.status = "in_review" /\ row.votes = votes /\ row.result = board[t].result
        /\ row.reviewers = board[t].reviewers /\ row.assignee = board[t].assignee
    BY <2>2, <2>3 DEF Rows
  <2> HIDE DEF row
  <2>5. Judges(t, row)
    BY <2>1, <2>4 DEF Judges
  <2>6. QED
    BY <2>1, <2>4, <2>5 DEF Effect
<1>10. ASSUME Settle(p, t)
       PROVE  \E row \in Rows : Effect(t, row)
  <2> DEFINE status == IF Passed(board[t]) THEN "done" ELSE "failed"
             row == [board[t] EXCEPT !.status = status]
  <2>1. /\ t \in With(board, "in_review") /\ claims' = claims
        /\ board' = [board EXCEPT ![t] = row]
    BY <1>2, <1>10 DEF Settle, Write
  <2>2. board[t] \in Rows /\ status \in Statuses
    BY <1>3, <2>1 DEF With, Statuses
  <2>3. status = IF Passed(board[t]) THEN "done" ELSE "failed"
    OBVIOUS
  <2> HIDE DEF status
  <2>4. /\ row \in Rows /\ row.deps = board[t].deps
        /\ row.status = status /\ row.votes = board[t].votes /\ row.result = board[t].result
        /\ row.reviewers = board[t].reviewers /\ row.assignee = board[t].assignee
    BY <2>2 DEF Rows
  <2> HIDE DEF row
  <2>5. Judges(t, row)
    BY <2>1, <2>3, <2>4 DEF Judges
  <2>6. QED
    BY <2>1, <2>4, <2>5 DEF Effect
<1>11. QED
  BY <1>4, <1>5, <1>6, <1>7, <1>8, <1>9, <1>10

\* Overlap is remembered, and without it a step has one of the effects or leaves
\* the board and the claims alone.
LEMMA SerialStep ==
  ASSUME BaseInv, [Next]_vars, ~raced'
  PROVE  /\ ~raced /\ durable' = durable
         /\ UNCHANGED <<board, claims>> \/ \E t \in Tasks, row \in Rows : Effect(t, row)
<1>1. TypeOK
  BY DEF BaseInv
<1>2. ASSUME NEW p \in Callers, Step(p)
      PROVE  /\ ~raced /\ durable' = durable
             /\ UNCHANGED <<board, claims>> \/ Operation(p)
  BY <1>1, <1>2, StepKinds, OperationWrites DEF Load
<1>3. QED
  BY <1>2, SerialOperation DEF Next, Step, vars, boardVars

\* What an effect leaves as it was: no task is taken off or sent back, the other
\* rows stay, and what is done stays done.
LEMMA EffectFrame ==
  ASSUME BaseInv, NEW t \in Tasks, NEW row \in Rows, Effect(t, row)
  PROVE  /\ Known(board') = Known(board) \union {t}
         /\ \A s \in Tasks : s # t => board'[s] = board[s]
         /\ board'[t] = row
         /\ With(board, "done") \subseteq With(board', "done")
<1>1. TypeOK /\ row # None
  BY NoneNoTable DEF BaseInv
<1>2. board'[t] = row /\ \A s \in Tasks : s # t => board'[s] = board[s]
  BY <1>1 DEF Effect, TypeOK
<1>3. Known(board') = Known(board) \union {t}
  BY <1>1, <1>2 DEF Known
<1>4. t \notin With(board, "done")
  BY DEF Effect, Adds, Waits, Begins, Hands, Judges, Claimable, With, Known
<1>5. With(board, "done") \subseteq With(board', "done")
  BY <1>2, <1>3, <1>4 DEF With, Known
<1>6. QED
  BY <1>2, <1>3, <1>5

----------------------------------------------------------------------------
(* Claims and dependencies.                                                *)

\* A task has been claimed at most once, and only when it has left "pending".
ClaimsInv ==
  \A t \in Tasks :
    /\ claims[t] <= 1
    /\ t \notin Known(board) \/ t \in With(board, "pending") => claims[t] = 0

\* Dependencies are on the board, and done once the task has been claimed.
DepsInv ==
  \A t \in Known(board) :
    /\ board[t].deps \subseteq Known(board)
    /\ board[t].status # "pending" => board[t].deps \subseteq With(board, "done")

\* No tasks wait for each other: among any of them one waits for none of them.
Acyclic ==
  \A S \in SUBSET Known(board) :
    S # {} => \E t \in S : board[t].deps \intersect S = {}

WorkInv == ~raced => ClaimsInv /\ DepsInv /\ Acyclic

LEMMA UpstreamClosed ==
  ASSUME NEW b, NEW d \in Tasks, \A t \in Known(b) : b[t].deps \subseteq Tasks
  PROVE  /\ d \in Upstream(b, d)
         /\ \A x \in Upstream(b, d) \intersect Known(b) : b[x].deps \subseteq Upstream(b, d)
<1>1. d \in Upstream(b, d)
  BY DEF Upstream
<1>2. ASSUME NEW x \in Upstream(b, d), x \in Known(b), NEW y \in b[x].deps
      PROVE  y \in Upstream(b, d)
  <2>1. y \in Tasks
    BY <1>2
  <2>2. ASSUME NEW S \in SUBSET Tasks, d \in S,
               \A z \in S \intersect Known(b) : b[z].deps \subseteq S
        PROVE  y \in S
    <3>1. x \in S
      BY <2>2 DEF Upstream
    <3>2. QED
      BY <1>2, <2>2, <3>1
  <2>3. QED
    BY <2>1, <2>2 DEF Upstream
<1>3. QED
  BY <1>1, <1>2

LEMMA EffectClaims ==
  ASSUME BaseInv, ClaimsInv, NEW t \in Tasks, NEW row \in Rows, Effect(t, row)
  PROVE  ClaimsInv'
<1>1. TypeOK
  BY DEF BaseInv
<1>2. /\ Known(board') = Known(board) \union {t}
      /\ \A s \in Tasks : s # t => board'[s] = board[s]
      /\ board'[t] = row
  BY EffectFrame
<1>3. ASSUME NEW s \in Tasks, s # t
      PROVE  /\ claims'[s] <= 1
             /\ s \notin Known(board') \/ s \in With(board', "pending") => claims'[s] = 0
  <2>1. claims'[s] = claims[s]
    BY <1>1, <1>3 DEF Effect, Adds, Waits, Begins, Hands, Judges, TypeOK
  <2>2. s \notin Known(board') \/ s \in With(board', "pending")
          => s \notin Known(board) \/ s \in With(board, "pending")
    BY <1>2, <1>3 DEF With
  <2>3. QED
    BY <2>1, <2>2 DEF ClaimsInv
<1>4. claims'[t] <= 1 /\ (row.status = "pending" => claims'[t] = 0)
  <2>1. CASE Adds(t, row) \/ Waits(t, row)
    BY <2>1 DEF Adds, Waits, ClaimsInv, Known
  <2>2. CASE Begins(t, row)
    <3>1. claims[t] = 0
      BY <2>2 DEF Begins, Claimable, ClaimsInv
    <3>2. claims'[t] = claims[t] + 1
      BY <1>1, <2>2 DEF Begins, TypeOK
    <3>3. QED
      BY <2>2, <3>1, <3>2 DEF Begins
  <2>3. CASE Hands(t, row) \/ Judges(t, row)
    BY <2>3 DEF Hands, Judges, ClaimsInv
  <2>4. QED
    BY <2>1, <2>2, <2>3 DEF Effect
<1>5. t \in Known(board') /\ (t \in With(board', "pending") => row.status = "pending")
  BY <1>2 DEF With
<1>6. QED
  BY <1>3, <1>4, <1>5 DEF ClaimsInv

LEMMA EffectDeps ==
  ASSUME BaseInv, DepsInv, NEW t \in Tasks, NEW row \in Rows, Effect(t, row)
  PROVE  DepsInv'
<1>1. /\ Known(board') = Known(board) \union {t}
      /\ \A s \in Tasks : s # t => board'[s] = board[s]
      /\ board'[t] = row
      /\ With(board, "done") \subseteq With(board', "done")
  BY EffectFrame
<1>2. ASSUME NEW s \in Known(board'), s # t
      PROVE  /\ board'[s].deps \subseteq Known(board')
             /\ board'[s].status # "pending" => board'[s].deps \subseteq With(board', "done")
  <2>1. s \in Known(board) /\ board'[s] = board[s]
    BY <1>1, <1>2 DEF Known
  <2>2. QED
    BY <1>1, <2>1 DEF DepsInv
<1>3. /\ row.deps \subseteq Known(board)
      /\ row.status # "pending" => row.deps \subseteq With(board, "done")
  BY DEF Effect, Adds, Waits, Begins, Hands, Judges, Claimable, With, DepsInv
<1>4. QED
  BY <1>1, <1>2, <1>3 DEF DepsInv

LEMMA EffectAcyclic ==
  ASSUME BaseInv, DepsInv, Acyclic, NEW t \in Tasks, NEW row \in Rows, Effect(t, row)
  PROVE  Acyclic'
<1>1. /\ Known(board') = Known(board) \union {t}
      /\ \A s \in Tasks : s # t => board'[s] = board[s]
      /\ board'[t] = row
  BY EffectFrame
<1>2. Known(board) \subseteq Tasks
  BY DEF Known
<1> SUFFICES ASSUME NEW S \in SUBSET Known(board'), S # {}
             PROVE  \E s \in S : board'[s].deps \intersect S = {}
  BY DEF Acyclic
<1>3. CASE t \notin S
  <2>1. S \in SUBSET Known(board) /\ \A s \in S : board'[s] = board[s]
    BY <1>1, <1>2, <1>3
  <2>2. QED
    BY <2>1 DEF Acyclic
<1>4. CASE t \in S /\ Adds(t, row)
  <2> DEFINE U == S \ {t}
  <2>1. t \notin Known(board)
    BY <1>4 DEF Adds, Known
  <2>2. CASE U = {}
    BY <1>1, <1>4, <2>1, <2>2 DEF Adds
  <2>3. CASE U # {}
    <3>1. PICK s \in U : board[s].deps \intersect U = {}
      BY <1>1, <2>3 DEF Acyclic
    <3>2. s \in Known(board) /\ board'[s] = board[s]
      BY <1>1, <1>2
    <3>3. t \notin board[s].deps
      BY <2>1, <3>2 DEF DepsInv
    <3>4. QED
      BY <3>1, <3>2, <3>3
  <2>4. QED
    BY <2>2, <2>3
<1>5. CASE t \in S /\ Waits(t, row)
  <2>1. t \in Known(board) /\ S \in SUBSET Known(board)
    BY <1>1, <1>5 DEF Waits, With
  <2>2. PICK d \in Known(board) : t \notin Upstream(board, d) /\ row.deps = board[t].deps \union {d}
    BY <1>5 DEF Waits
  <2>3. CASE d \notin S
    <3>1. PICK s \in S : board[s].deps \intersect S = {}
      BY <2>1 DEF Acyclic
    <3>2. CASE s = t
      BY <1>1, <2>2, <2>3, <3>1, <3>2
    <3>3. CASE s # t
      BY <1>1, <1>2, <2>1, <3>1, <3>3
    <3>4. QED
      BY <3>2, <3>3
  <2>4. CASE d \in S
    <3> DEFINE U == S \intersect Upstream(board, d)
    <3>1. \A s \in Known(board) : board[s].deps \subseteq Tasks
      BY <1>2 DEF DepsInv
    <3>2. d \in Tasks /\ d \in U /\ U \in SUBSET Known(board)
      BY <1>2, <2>1, <2>4, <3>1, UpstreamClosed
    <3>3. PICK s \in U : board[s].deps \intersect U = {}
      BY <3>2 DEF Acyclic
    <3>4. board[s].deps \subseteq Upstream(board, d)
      BY <1>2, <3>1, <3>2, UpstreamClosed
    <3>5. board[s].deps \intersect S = {} /\ s # t
      BY <2>2, <3>3, <3>4
    <3>6. QED
      BY <1>1, <1>2, <3>2, <3>5
  <2>5. QED
    BY <2>3, <2>4
<1>6. CASE t \in S /\ (Begins(t, row) \/ Hands(t, row) \/ Judges(t, row))
  <2>1. t \in Known(board) /\ row.deps = board[t].deps
    BY <1>6 DEF Begins, Hands, Judges, Claimable, With
  <2>2. S \in SUBSET Known(board) /\ \A s \in S : board'[s].deps = board[s].deps
    BY <1>1, <1>2, <2>1
  <2>3. QED
    BY <2>2 DEF Acyclic
<1>7. QED
  BY <1>3, <1>4, <1>5, <1>6 DEF Effect

LEMMA WorkInit == Init => WorkInv
<1> SUFFICES ASSUME Init PROVE ClaimsInv /\ DepsInv /\ Acyclic
  BY DEF WorkInv
<1>1. Known(board) = {} /\ \A t \in Tasks : claims[t] = 0
  BY DEF Init, BoardInit, Known
<1>2. QED
  BY <1>1 DEF ClaimsInv, DepsInv, Acyclic

LEMMA WorkStep ==
  ASSUME BaseInv, WorkInv, [Next]_vars
  PROVE  WorkInv'
<1> SUFFICES ASSUME ~raced' PROVE ClaimsInv' /\ DepsInv' /\ Acyclic'
  BY DEF WorkInv
<1>1. ClaimsInv /\ DepsInv /\ Acyclic
  BY SerialStep DEF WorkInv
<1>2. CASE UNCHANGED <<board, claims>>
  BY <1>1, <1>2 DEF ClaimsInv, DepsInv, Acyclic, With, Known
<1>3. QED
  BY <1>1, <1>2, SerialStep, EffectClaims, EffectDeps, EffectAcyclic

THEOREM WorkInvariance == Spec => [](BaseInv /\ WorkInv)
<1>1. Init => BaseInv /\ WorkInv
  BY BaseInit, WorkInit
<1>2. BaseInv /\ WorkInv /\ [Next]_vars => BaseInv' /\ WorkInv'
  BY BaseStep, WorkStep
<1>3. QED
  BY <1>1, <1>2, PTL DEF Spec

\* WorkInOrder holds for any tasks, callers and ReviewerSets: while operations
\* do not overlap claim_task returns a task at most once, and only after all that
\* it depends on is done.
THEOREM WorkIsOrdered == Spec => []WorkInOrder
<1>1. BaseInv /\ WorkInv => WorkInOrder
  BY DEF WorkInv, ClaimsInv, DepsInv, WorkInOrder, ClaimedOnce, DependenciesDone
<1>2. QED
  BY <1>1, WorkInvariance, PTL

\* SomethingClaimable holds for any graph of tasks: add_dependency refuses every
\* cycle, so that among the pending tasks one waits for none of them.
THEOREM BoardNeverBlocks == Spec => []SomethingClaimable
<1>1. ASSUME BaseInv, WorkInv PROVE SomethingClaimable
  <2> SUFFICES ASSUME ~raced, With(board, "pending") # {},
                      With(board, "in_progress") = {}, With(board, "in_review") = {},
                      With(board, "failed") = {}
               PROVE  Claimable(board) # {}
    BY DEF SomethingClaimable
  <2>1. DepsInv /\ Acyclic
    BY <1>1 DEF WorkInv
  <2>2. \A s \in Known(board) : s \in With(board, "pending") \/ s \in With(board, "done")
    BY <1>1 DEF BaseInv, TypeOK, Known, With, Rows, Statuses
  <2>3. With(board, "pending") \in SUBSET Known(board)
    BY DEF With
  <2>4. PICK t \in With(board, "pending") : board[t].deps \intersect With(board, "pending") = {}
    BY <2>1, <2>3 DEF Acyclic
  <2>5. board[t].deps \subseteq With(board, "done")
    BY <2>1, <2>2, <2>3, <2>4 DEF DepsInv
  <2>6. QED
    BY <2>5 DEF Claimable
<1>2. BaseInv /\ WorkInv => SomethingClaimable
  BY <1>1
<1>3. QED
  BY <1>2, WorkInvariance, PTL

----------------------------------------------------------------------------
(* Reviews and reports.                                                    *)

\* A review begins without votes; on the board in memory only reviewers who did
\* not do the task vote.
VotesInv ==
  \A t \in Known(board) :
    /\ board[t].status \in {"pending", "in_progress"} => board[t].votes = <<>>
    /\ ~durable /\ board[t].reviewers # {} =>
         \A i \in DOMAIN board[t].votes :
           board[t].votes[i].member \in board[t].reviewers \ {board[t].assignee}

\* The verdict is that of the votes.
VerdictInv ==
  \A t \in Known(board) :
    /\ board[t].status = "failed" => ~Passed(board[t])
    /\ board[t].status = "done" /\ board[t].reviewers # {} => Passed(board[t])

ReportedOn(b, report) ==
  /\ report[1] \in Known(b)
  /\ b[report[1]].status \in {"in_review", "done", "failed"}
  /\ b[report[1]].result = report[2]
  /\ b[report[1]].reviewers = {} => b[report[1]].status = "done"

\* What a run has reported has left work for good.
ReportsInv == \A report \in reported : ReportedOn(board, report)

ReviewInv == ~raced => VotesInv /\ VerdictInv /\ ReportsInv

LEMMA EffectVotes ==
  ASSUME BaseInv, VotesInv, UNCHANGED durable,
         NEW t \in Tasks, NEW row \in Rows, Effect(t, row)
  PROVE  VotesInv'
<1>1. /\ Known(board') = Known(board) \union {t}
      /\ \A s \in Tasks : s # t => board'[s] = board[s]
      /\ board'[t] = row
  BY EffectFrame
<1>2. \A s \in Known(board') : s # t => s \in Known(board) /\ board'[s] = board[s]
  BY <1>1 DEF Known
<1>3. row.status \in {"pending", "in_progress"} => row.votes = <<>>
  <2>1. CASE Waits(t, row) \/ Begins(t, row)
    BY <2>1 DEF Waits, Begins, Claimable, With, VotesInv
  <2>2. CASE Judges(t, row)
    BY <2>2 DEF Judges
  <2>3. QED
    BY <2>1, <2>2 DEF Effect, Adds, Hands
<1>4. ASSUME ~durable, row.reviewers # {}, NEW i \in DOMAIN row.votes
      PROVE  row.votes[i].member \in row.reviewers \ {row.assignee}
  <2>1. CASE row.votes = <<>>
    BY <2>1
  <2>2. CASE Waits(t, row) \/ Begins(t, row)
    BY <2>1, <2>2 DEF Waits, Begins, Claimable, With, VotesInv
  <2>3. CASE Judges(t, row)
    <3>1. /\ t \in Known(board) /\ board[t] \in Rows
          /\ row.reviewers = board[t].reviewers /\ row.assignee = board[t].assignee
      BY <2>3 DEF Judges, With, Known, BaseInv, TypeOK
    <3>2. \A j \in DOMAIN board[t].votes :
            board[t].votes[j].member \in row.reviewers \ {row.assignee}
      BY <1>4, <3>1 DEF VotesInv
    <3>3. CASE row.votes = board[t].votes
      BY <3>2, <3>3
    <3>4. CASE \E m \in Members, approve \in BOOLEAN :
                 /\ MayVote(board[t], m)
                 /\ row.votes = Append(board[t].votes, [member |-> m, approve |-> approve])
      <4> DEFINE old == board[t].votes
      <4>1. PICK m \in Members, approve \in BOOLEAN :
                 /\ MayVote(board[t], m)
                 /\ row.votes = Append(old, [member |-> m, approve |-> approve])
        BY <3>4
      <4>2. m \in row.reviewers \ {row.assignee}
        BY <1>4, <3>1, <4>1 DEF MayVote
      <4>3. old \in Seq(Votes) /\ [member |-> m, approve |-> approve] \in Votes
        BY <3>1 DEF Rows, Votes
      <4> HIDE DEF old
      <4>4. \/ i \in DOMAIN old /\ row.votes[i] = old[i]
            \/ row.votes[i] = [member |-> m, approve |-> approve]
        BY <1>4, <4>1, <4>3
      <4>5. QED
        BY <3>2, <4>2, <4>4 DEF old
    <3>5. QED
      BY <2>3, <3>3, <3>4 DEF Judges
  <2>4. QED
    BY <2>1, <2>2, <2>3 DEF Effect, Adds, Hands
<1>5. QED
  BY <1>1, <1>2, <1>3, <1>4 DEF VotesInv

LEMMA EffectVerdict ==
  ASSUME BaseInv, VerdictInv, NEW t \in Tasks, NEW row \in Rows, Effect(t, row)
  PROVE  VerdictInv'
<1>1. /\ Known(board') = Known(board) \union {t}
      /\ \A s \in Tasks : s # t => board'[s] = board[s]
      /\ board'[t] = row
  BY EffectFrame
<1>2. \A s \in Known(board') : s # t => s \in Known(board) /\ board'[s] = board[s]
  BY <1>1 DEF Known
<1>3. /\ row.status = "failed" => ~Passed(row)
      /\ row.status = "done" /\ row.reviewers # {} => Passed(row)
  <2>1. CASE Judges(t, row)
    <3>1. row.votes = board[t].votes => Passed(row) = Passed(board[t])
      BY DEF Passed, Approvals
    <3>2. CASE row.status = "in_review"
      BY <3>2
    <3>3. CASE /\ row.status = IF Passed(board[t]) THEN "done" ELSE "failed"
               /\ row.votes = board[t].votes
      BY <3>1, <3>3
    <3>4. QED
      BY <2>1, <3>2, <3>3 DEF Judges
  <2>2. QED
    BY <2>1 DEF Effect, Adds, Waits, Begins, Hands
<1>4. QED
  BY <1>1, <1>2, <1>3 DEF VerdictInv

LEMMA EffectReports ==
  ASSUME BaseInv, NEW t \in Tasks, NEW row \in Rows, Effect(t, row),
         NEW report \in reported, ReportedOn(board, report)
  PROVE  ReportedOn(board', report)
<1>1. /\ Known(board') = Known(board) \union {t}
      /\ \A s \in Tasks : s # t => board'[s] = board[s]
      /\ board'[t] = row
  BY EffectFrame
<1>2. CASE report[1] # t
  BY <1>1, <1>2 DEF ReportedOn, Known
<1>3. CASE report[1] = t
  <2>1. Judges(t, row)
    BY <1>3 DEF Effect, Adds, Waits, Begins, Hands, ReportedOn, Claimable, With, Known
  <2>2. /\ row.status \in {"in_review", "done", "failed"} /\ row.result = board[t].result
        /\ row.reviewers # {}
    BY <1>3, <2>1 DEF Judges, With, ReportedOn
  <2>3. QED
    BY <1>1, <1>3, <2>2 DEF ReportedOn
<1>4. QED
  BY <1>2, <1>3

\* A run reports the result that its completion has recorded.
LEMMA NewReport ==
  ASSUME BaseInv, ~raced, NEW p \in Callers, RunReports(p)
  PROVE  ReportedOn(board', <<got[p], p>>)
<1>1. TypeOK /\ ViewInv /\ Decides(p)
  BY DEF BaseInv, RunReports, Complete
<1>2. View(p) = board
  BY <1>1 DEF ViewInv, View, Decides
<1> DEFINE t == got[p]
           status == IF board[t].reviewers = {} THEN "done" ELSE "in_review"
           row == [board[t] EXCEPT !.status = status, !.result = p, !.votes = <<>>]
<1>3. /\ t \in With(board, "in_progress")
      /\ board' = [board EXCEPT ![t] = row]
  BY <1>2 DEF RunReports, Complete, Write
<1>4. /\ t \in Tasks /\ board[t] \in Rows /\ status \in {"in_review", "done", "failed"}
      /\ board[t].reviewers = {} => status = "done"
  BY <1>1, <1>3 DEF TypeOK, With, Known
<1> HIDE DEF status, t
<1>5. /\ row.status = status /\ row.result = p /\ board'[t] = row
      /\ row.reviewers = board[t].reviewers
  BY <1>1, <1>3, <1>4 DEF Rows, TypeOK
<1>6. status \in Statuses /\ p \in Outputs /\ <<>> \in Seq(Votes)
  BY <1>4, RunsAssumption DEF Statuses
<1>7. row \in Rows
  BY <1>4, <1>6 DEF Rows
<1>8. t \in Known(board')
  BY <1>4, <1>5, <1>7, NoneNoTable DEF Known
<1>9. QED
  BY <1>4, <1>5, <1>8 DEF ReportedOn, t

LEMMA ReviewInit == Init => ReviewInv
<1> SUFFICES ASSUME Init PROVE VotesInv /\ VerdictInv /\ ReportsInv
  BY DEF ReviewInv
<1>1. Known(board) = {} /\ reported = {}
  BY DEF Init, BoardInit, Known
<1>2. QED
  BY <1>1 DEF VotesInv, VerdictInv, ReportsInv

LEMMA ReviewStep ==
  ASSUME BaseInv, ReviewInv, [Next]_vars
  PROVE  ReviewInv'
<1> SUFFICES ASSUME ~raced' PROVE VotesInv' /\ VerdictInv' /\ ReportsInv'
  BY DEF ReviewInv
<1>1. VotesInv /\ VerdictInv /\ ReportsInv /\ ~raced /\ durable' = durable
  BY SerialStep DEF ReviewInv
<1>2. VotesInv' /\ VerdictInv'
  <2>1. CASE UNCHANGED <<board, claims>>
    BY <1>1, <2>1 DEF VotesInv, VerdictInv, Known
  <2>2. QED
    BY <1>1, <2>1, SerialStep, EffectVotes, EffectVerdict
<1>3. \A report \in reported : ReportedOn(board', report)
  <2>1. CASE UNCHANGED <<board, claims>>
    BY <1>1, <2>1 DEF ReportsInv
  <2>2. QED
    BY <1>1, <2>1, SerialStep, EffectReports DEF ReportsInv
<1>4. \/ reported' = reported
      \/ \E p \in Callers : RunReports(p) /\ reported' = reported \union {<<got[p], p>>}
  BY DEF Next, vars, runVars, Call, Begin, Run, RunClaims, RunFindsNone, RunSkips, Worked,
         RunReports, RunRefused, Crash
<1>5. ReportsInv'
  BY <1>1, <1>3, <1>4, NewReport DEF ReportsInv
<1>6. QED
  BY <1>2, <1>5

THEOREM ReviewInvariance == Spec => [](BaseInv /\ ReviewInv)
<1>1. Init => BaseInv /\ ReviewInv
  BY BaseInit, ReviewInit
<1>2. BaseInv /\ ReviewInv /\ [Next]_vars => BaseInv' /\ ReviewInv'
  BY BaseStep, ReviewStep
<1>3. QED
  BY <1>1, <1>2, PTL DEF Spec

\* ReportedIsRecorded holds for any callers and tasks: the completion of a run
\* writes its output in the step that returns it, and only a task in progress is
\* written a result.
THEOREM ReportsStay == Spec => []ReportedIsRecorded
<1>1. BaseInv /\ ReviewInv => ReportedIsRecorded
  BY DEF ReviewInv, ReportsInv, ReportedOn, ReportedIsRecorded
<1>2. QED
  BY <1>1, ReviewInvariance, PTL

\* What has passed has an approval.
LEMMA PassedIsApproved ==
  ASSUME NEW row \in Rows, Passed(row)
  PROVE  Approvals(row) # {}
<1>1. row.votes \in Seq(Votes) /\ DOMAIN row.votes = 1..Len(row.votes) /\ Len(row.votes) \in Nat
  BY DEF Rows
<1>2. IsFiniteSet(DOMAIN row.votes)
  BY <1>1, FS_Interval
<1>3. IsFiniteSet(DOMAIN row.votes \ Approvals(row))
  BY <1>2, FS_Subset
<1>4. Cardinality(DOMAIN row.votes \ Approvals(row)) \in Nat
  BY <1>3, FS_CardinalityType
<1>5. Cardinality({}) = 0
  BY FS_EmptySet
<1>6. QED
  BY <1>4, <1>5 DEF Passed

\* ReviewSound holds for any members, reviewers and votes: a verdict is that of
\* the votes on the board, and vote_review lets nobody approve twice, which holds
\* even when processes overlap. It may let a member of the SQLite board reject twice.
THEOREM ReviewsAreSound == Spec => []ReviewSound
<1>1. ASSUME BaseInv, ReviewInv PROVE ReviewSound
  <2>1. TypeOK /\ ApprovesOnce
    BY <1>1 DEF BaseInv, OnceInv, OnceOn, ApprovesOnce
  <2>2. ASSUME ~raced, NEW t \in Known(board), board[t].status = "done",
               board[t].reviewers # {}, ~durable
        PROVE  \E i \in Approvals(board[t]) :
                 board[t].votes[i].member \in board[t].reviewers \ {board[t].assignee}
    <3>1. VotesInv /\ VerdictInv /\ board[t] \in Rows
      BY <1>1, <2>1, <2>2 DEF ReviewInv, TypeOK, Known
    <3>2. Approvals(board[t]) # {}
      BY <2>2, <3>1, PassedIsApproved DEF VerdictInv
    <3>3. QED
      BY <2>2, <3>1, <3>2 DEF VotesInv, Approvals
  <2>3. VerdictFollowsVotes
    BY <1>1, <2>2 DEF ReviewInv, VerdictInv, VerdictFollowsVotes
  <2>4. QED
    BY <2>1, <2>3 DEF ReviewSound
<1>2. BaseInv /\ ReviewInv => ReviewSound
  BY <1>1
<1>3. QED
  BY <1>2, ReviewInvariance, PTL
=============================================================================
