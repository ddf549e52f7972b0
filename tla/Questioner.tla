----------------------------- MODULE Questioner -----------------------------
(***************************************************************************)
(* Questioner nodes of workflow runs, all with one node id, and those who  *)
(* answer.  A node publishes its question and polls the answer channel     *)
(* until a message arrives or its deadline has passed.  Nothing in an      *)
(* answer says which question it is for.  MessageQueue is the answer       *)
(* channel; the question channel is the set of open questions.             *)
(***************************************************************************)
EXTENDS MessageQueue

VARIABLES
  asking,        \* the question a node waits with, None when it does not
  expired,       \* its deadline has passed
  asked,         \* questions published so far
  answering,     \* questions somebody has taken up
  taken,         \* pairs of a question and the answer its node took
  abandoned      \* a question was given up, or two nodes waited at once
                 \* (taken and abandoned are history, read by no action)

\* A question is not None.
ASSUME NodeAssumption == None \notin Payloads

nodeVars == <<asking, expired, asked, answering, taken, abandoned>>
questionVars == <<queueVars, nodeVars>>

QuestionInit ==
  /\ QueueInit
  /\ asking = [c \in Consumers |-> None]
  /\ expired = [c \in Consumers |-> FALSE]
  /\ asked = {} /\ answering = {} /\ taken = {}
  /\ abandoned = FALSE

Waiting(c) == asking[c] # None

\* The question is published and the deadline set.
Ask(c) ==
  /\ up
  /\ ~Waiting(c)
  /\ \E q \in Payloads \ asked :
       /\ asking' = [asking EXCEPT ![c] = q]
       /\ asked' = asked \union {q}
  /\ expired' = [expired EXCEPT ![c] = FALSE]
  /\ abandoned' = (abandoned \/ \E d \in Consumers : Waiting(d))
  /\ UNCHANGED <<queueVars, answering, taken>>

\* The clock passes the deadline.
Expire(c) ==
  /\ Waiting(c)
  /\ ~expired[c]
  /\ expired' = [expired EXCEPT ![c] = TRUE]
  /\ UNCHANGED <<queueVars, asking, asked, answering, taken, abandoned>>

Poll(c) ==
  /\ Waiting(c)
  /\ ConsumeRead(c)
  /\ UNCHANGED nodeVars

\* The node ends, with an error if it has no answer.
EndWait(c) ==
  /\ asking' = [asking EXCEPT ![c] = None]
  /\ expired' = [expired EXCEPT ![c] = FALSE]
  /\ UNCHANGED <<asked, answering>>

GiveUp(c) == EndWait(c) /\ abandoned' = TRUE /\ UNCHANGED taken

\* Faulty variant: the deadline is not looked at.
PollEmptyForEver(c) ==
  /\ Exhausted(c)
  /\ ConsumeEnds(c)
  /\ UNCHANGED <<up, logVars, cursorFile, nextSeq, cursor, pubVars, history>>
  /\ UNCHANGED nodeVars

\* No message: poll again, unless the deadline has passed.
PollEmpty(c) ==
  /\ Exhausted(c)
  /\ ConsumeEnds(c)
  /\ UNCHANGED <<up, logVars, cursorFile, nextSeq, cursor, pubVars, history>>
  /\ IF expired[c] THEN GiveUp(c) ELSE UNCHANGED nodeVars

\* A line that does not parse fails the node.
PollRefused(c) ==
  /\ Refused(c)
  /\ ConsumeEnds(c)
  /\ UNCHANGED <<up, logVars, cursorFile, nextSeq, cursor, pubVars, history>>
  /\ GiveUp(c)

\* The first message is the answer, however late it is.
Take(c) ==
  /\ ConsumeStore(c)
  /\ taken' = taken \union {<<asking[c], incoming[c].payload>>}
  /\ EndWait(c)
  /\ UNCHANGED abandoned

TakeFails(c) == ConsumeFails(c) /\ GiveUp(c)

Receive(c) == (ConsumePick(c) \/ ConsumeMove(c) \/ ConsumeTruncate(c)) /\ UNCHANGED nodeVars

\* Somebody takes up a question; the answer carries its name here.
Answer(p) ==
  /\ \E q \in asked \ answering :
       /\ PublishNumber(p, q)
       /\ answering' = answering \union {q}
  /\ UNCHANGED <<asking, expired, asked, taken, abandoned>>

Publish(p) ==
  /\ PublishText(p) \/ PublishNewline(p) \/ PublishFails(p)
  /\ UNCHANGED nodeVars

Crash ==
  /\ QueueCrash
  /\ asking' = [c \in Consumers |-> None]
  /\ expired' = [c \in Consumers |-> FALSE]
  /\ abandoned' = (abandoned \/ \E c \in Consumers : Waiting(c))
  /\ UNCHANGED <<asked, answering, taken>>

Restart == QueueRestart /\ UNCHANGED nodeVars

PollStep(c) ==
  Poll(c) \/ Receive(c) \/ PollEmpty(c) \/ PollRefused(c) \/ Take(c) \/ TakeFails(c)

QuestionNext ==
  \/ \E c \in Consumers : Ask(c) \/ Expire(c) \/ PollStep(c)
  \/ \E p \in Publishers : Answer(p) \/ Publish(p)
  \/ Crash
  \/ Restart

QuestionSpec == QuestionInit /\ [][QuestionNext]_questionVars

\* A node's future is polled while the process runs, and time passes; nobody has
\* to answer.
QuestionFairSpec ==
  QuestionSpec /\ \A c \in Consumers : WF_questionVars(Expire(c)) /\ WF_questionVars(PollStep(c))

----------------------------------------------------------------------------
(* Properties.                                                             *)

QuestionTypeOK ==
  /\ QueueTypeOK
  /\ asking \in [Consumers -> Payloads \union {None}]
  /\ expired \in [Consumers -> BOOLEAN]
  /\ asked \subseteq Payloads /\ answering \subseteq asked
  /\ taken \subseteq Payloads \X Payloads
  /\ abandoned \in BOOLEAN

\* A node takes the answer to its own question, although nothing in the answer
\* says so, as long as no question was given up before and no two nodes waited
\* at once.
AnswerMatches == ~abandoned => \A pair \in taken : pair[1] = pair[2]

\* A waiting node ends, answered or not, also when answers to others keep coming
\* or the channel cannot be read.
QuestionEnds == \A c \in Consumers : Waiting(c) ~> ~Waiting(c)

\* The queue below the questions is a log with one offset: consume delivers what
\* was published in its order, nothing twice and nothing left out, across
\* crashes, restarts and failed writes.
LogWithOffset == QuestionTypeOK /\ DeliveredInOrder /\ NothingSkipped
=============================================================================
