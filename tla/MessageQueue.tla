---------------------------- MODULE MessageQueue ----------------------------
(***************************************************************************)
(* One channel of a FileQueue: an append-only log of numbered lines and a  *)
(* cursor file, with the next number and the cursor in memory.  publish    *)
(* takes its number under a mutex and writes the line afterwards; consume  *)
(* reads the log, then the cursor, and moves the cursor afterwards.  This  *)
(* module has the state and the steps; Questioner has the threads that     *)
(* publish and consume.                                                    *)
(***************************************************************************)
EXTENDS Naturals, Sequences, FiniteSets

CONSTANTS
  Publishers, Consumers,   \* threads of the process that uses the channel
  Payloads,      \* what is published, each at most once
  MaxSeq,        \* bound on the sequence numbers
  None,
  Corrupt        \* a line, or a cursor file, that does not parse

VARIABLES
  up,            \* the process runs
  lines, tail,   \* the log: complete lines, and what follows the last newline
  cursorFile,    \* None when there is none
  nextSeq, cursor,         \* in memory
  pubPc, outgoing,         \* a publisher's place and message
  conPc, seen, incoming,   \* a consumer's place, its copy of the log, its message
  acked,         \* payloads whose publish returned Ok
  delivered,     \* messages returned by consume, in order
  dropped,       \* payloads of consumes that failed after their choice
  raced, cut     \* two publishes or two consumes ran at once; a line was left
                 \* unfinished (these five are history, read by no action)

logVars == <<lines, tail>>
pubVars == <<pubPc, outgoing>>
conVars == <<conPc, seen, incoming>>
history == <<acked, delivered, dropped, raced, cut>>
queueVars == <<up, logVars, cursorFile, nextSeq, cursor, pubVars, conVars, history>>

Messages == [seq : 0..MaxSeq, payload : Payloads]

ASSUME QueueAssumption ==
  /\ MaxSeq \in Nat
  /\ None \notin Messages \union Nat \union {Corrupt}
  /\ Corrupt \notin Messages \union Nat

QueueInit ==
  /\ up = TRUE
  /\ lines = <<>> /\ tail = None
  /\ cursorFile = None
  /\ nextSeq = 0 /\ cursor = 0
  /\ pubPc = [p \in Publishers |-> "idle"]
  /\ outgoing = [p \in Publishers |-> None]
  /\ conPc = [c \in Consumers |-> "idle"]
  /\ seen = [c \in Consumers |-> <<>>]
  /\ incoming = [c \in Consumers |-> None]
  /\ acked = {}
  /\ delivered = <<>>
  /\ dropped = {}
  /\ raced = FALSE /\ cut = FALSE

\* What text.lines() gives: the last line needs no newline.
Text == IF tail = None THEN lines ELSE Append(lines, tail)

----------------------------------------------------------------------------
(* publish                                                                 *)

\* Faulty variant: the number is read and not advanced.
PublishNumberKept(p, payload) ==
  /\ up
  /\ pubPc[p] = "idle"
  /\ nextSeq < MaxSeq
  /\ outgoing' = [outgoing EXCEPT ![p] = [seq |-> nextSeq, payload |-> payload]]
  /\ pubPc' = [pubPc EXCEPT ![p] = "text"]
  /\ raced' = (raced \/ \E q \in Publishers : pubPc[q] # "idle")
  /\ UNCHANGED <<up, logVars, cursorFile, nextSeq, cursor, conVars, acked, delivered,
                 dropped, cut>>

\* The number, under the mutex of next_seq.
PublishNumber(p, payload) ==
  /\ up
  /\ pubPc[p] = "idle"
  /\ nextSeq < MaxSeq
  /\ outgoing' = [outgoing EXCEPT ![p] = [seq |-> nextSeq, payload |-> payload]]
  /\ nextSeq' = nextSeq + 1
  /\ pubPc' = [pubPc EXCEPT ![p] = "text"]
  /\ raced' = (raced \/ \E q \in Publishers : pubPc[q] # "idle")
  /\ UNCHANGED <<up, logVars, cursorFile, cursor, conVars, acked, delivered,
                 dropped, cut>>

\* writeln! writes the record and the newline one after the other.
PublishText(p) ==
  /\ pubPc[p] = "text"
  /\ tail' = IF tail = None THEN outgoing[p] ELSE Corrupt
  /\ pubPc' = [pubPc EXCEPT ![p] = "newline"]
  /\ UNCHANGED <<up, lines, cursorFile, nextSeq, cursor, outgoing, conVars, history>>

\* Faulty variant: the record is not terminated.
PublishUnterminated(p) ==
  /\ pubPc[p] = "newline"
  /\ pubPc' = [pubPc EXCEPT ![p] = "idle"]
  /\ outgoing' = [outgoing EXCEPT ![p] = None]
  /\ acked' = acked \union {outgoing[p].payload}
  /\ UNCHANGED <<up, logVars, cursorFile, nextSeq, cursor, conVars, delivered,
                 dropped, raced, cut>>

PublishNewline(p) ==
  /\ pubPc[p] = "newline"
  /\ lines' = Append(lines, IF tail = None THEN Corrupt ELSE tail)
  /\ tail' = None
  /\ pubPc' = [pubPc EXCEPT ![p] = "idle"]
  /\ outgoing' = [outgoing EXCEPT ![p] = None]
  /\ acked' = acked \union {outgoing[p].payload}
  /\ UNCHANGED <<up, cursorFile, nextSeq, cursor, conVars, delivered, dropped,
                 raced, cut>>

\* What a failed or interrupted write of publisher p leaves behind the last line.
Leftovers(p) == IF pubPc[p] = "text" THEN {tail, Corrupt} ELSE {tail}

\* A write fails; the number is not given back.
PublishFails(p) ==
  /\ pubPc[p] # "idle"
  /\ tail' \in Leftovers(p)
  /\ cut' = (cut \/ pubPc[p] = "newline" \/ tail' # tail)
  /\ pubPc' = [pubPc EXCEPT ![p] = "idle"]
  /\ outgoing' = [outgoing EXCEPT ![p] = None]
  /\ UNCHANGED <<up, lines, cursorFile, nextSeq, cursor, conVars, acked, delivered,
                 dropped, raced>>

----------------------------------------------------------------------------
(* consume                                                                 *)

ConsumeRead(c) ==
  /\ up
  /\ conPc[c] = "idle"
  /\ seen' = [seen EXCEPT ![c] = Text]
  /\ conPc' = [conPc EXCEPT ![c] = "pick"]
  /\ raced' = (raced \/ \E q \in Consumers : conPc[q] # "idle")
  /\ UNCHANGED <<up, logVars, cursorFile, nextSeq, cursor, pubVars, incoming,
                 acked, delivered, dropped, cut>>

\* Lines that end the search: a message from the cursor on, or one that does not
\* parse.
Stops(c) ==
  {i \in DOMAIN seen[c] : seen[c][i] = Corrupt \/ seen[c][i].seq >= cursor}
FirstStop(c) == seen[c][CHOOSE i \in Stops(c) : \A j \in Stops(c) : i <= j]

Found(c) == conPc[c] = "pick" /\ Stops(c) # {} /\ FirstStop(c) # Corrupt
Refused(c) == conPc[c] = "pick" /\ Stops(c) # {} /\ FirstStop(c) = Corrupt
Exhausted(c) == conPc[c] = "pick" /\ Stops(c) = {}

\* consume returns without a message.
ConsumeEnds(c) ==
  /\ conPc' = [conPc EXCEPT ![c] = "idle"]
  /\ seen' = [seen EXCEPT ![c] = <<>>]
  /\ incoming' = [incoming EXCEPT ![c] = None]

\* The cursor, under its mutex, and the first line from it on.
ConsumePick(c) ==
  /\ Found(c)
  /\ incoming' = [incoming EXCEPT ![c] = FirstStop(c)]
  /\ seen' = [seen EXCEPT ![c] = <<>>]
  /\ conPc' = [conPc EXCEPT ![c] = "move"]
  /\ UNCHANGED <<up, logVars, cursorFile, nextSeq, cursor, pubVars, history>>

\* Faulty variant: the cursor is left at the message.
ConsumeMoveTo(c) ==
  /\ conPc[c] = "move"
  /\ cursor' = incoming[c].seq
  /\ conPc' = [conPc EXCEPT ![c] = "commit"]
  /\ UNCHANGED <<up, logVars, cursorFile, nextSeq, pubVars, seen, incoming, history>>

\* The cursor again under its mutex, wherever it is by now.
ConsumeMove(c) ==
  /\ conPc[c] = "move"
  /\ cursor' = incoming[c].seq + 1
  /\ conPc' = [conPc EXCEPT ![c] = "commit"]
  /\ UNCHANGED <<up, logVars, cursorFile, nextSeq, pubVars, seen, incoming, history>>

\* fs::write empties the cursor file and then writes it.
ConsumeTruncate(c) ==
  /\ conPc[c] = "commit"
  /\ cursorFile' = Corrupt
  /\ conPc' = [conPc EXCEPT ![c] = "store"]
  /\ UNCHANGED <<up, logVars, nextSeq, cursor, pubVars, seen, incoming, history>>

ConsumeStore(c) ==
  /\ conPc[c] = "store"
  /\ cursorFile' = incoming[c].seq + 1
  /\ delivered' = Append(delivered, incoming[c])
  /\ ConsumeEnds(c)
  /\ UNCHANGED <<up, logVars, nextSeq, cursor, pubVars, acked, dropped, raced, cut>>

\* The cursor file cannot be written; the cursor in memory has moved.
ConsumeFails(c) ==
  /\ conPc[c] \in {"commit", "store"}
  /\ dropped' = dropped \union {incoming[c].payload}
  /\ ConsumeEnds(c)
  /\ UNCHANGED <<up, logVars, cursorFile, nextSeq, cursor, pubVars, acked,
                 delivered, raced, cut>>

----------------------------------------------------------------------------
(* The process dies and opens the queue again.                             *)

QueueCrash ==
  /\ up
  /\ up' = FALSE
  /\ \/ UNCHANGED tail
     \/ \E p \in Publishers : pubPc[p] = "text" /\ tail' = Corrupt
  /\ cut' = (cut \/ tail' # tail \/ \E p \in Publishers : pubPc[p] = "newline")
  /\ dropped' = dropped \union
       {incoming[c].payload : c \in {c \in Consumers : conPc[c] \in {"commit", "store"}}}
  /\ pubPc' = [p \in Publishers |-> "idle"]
  /\ outgoing' = [p \in Publishers |-> None]
  /\ conPc' = [c \in Consumers |-> "idle"]
  /\ seen' = [c \in Consumers |-> <<>>]
  /\ incoming' = [c \in Consumers |-> None]
  /\ nextSeq' = 0 /\ cursor' = 0
  /\ UNCHANGED <<lines, cursorFile, acked, delivered, raced>>

\* The last line that parses, not the largest number.
Parsed == {i \in DOMAIN Text : Text[i] # Corrupt}
RecoveredSeq ==
  IF Parsed = {} THEN 0
  ELSE Text[CHOOSE i \in Parsed : \A j \in Parsed : j <= i].seq + 1

\* FileQueue::open fails on a cursor file that does not parse.
QueueRestart ==
  /\ ~up
  /\ cursorFile # Corrupt
  /\ up' = TRUE
  /\ nextSeq' = RecoveredSeq
  /\ cursor' = IF cursorFile = None THEN 0 ELSE cursorFile
  /\ UNCHANGED <<logVars, cursorFile, pubVars, conVars, history>>

----------------------------------------------------------------------------
(* Properties.                                                             *)

LogLines == Messages \union {Corrupt}

QueueTypeOK ==
  /\ up \in BOOLEAN
  /\ lines \in Seq(LogLines) /\ tail \in LogLines \union {None}
  /\ cursorFile \in 0..(MaxSeq + 1) \union {None, Corrupt}
  /\ nextSeq \in 0..(MaxSeq + 1) /\ cursor \in 0..(MaxSeq + 1)
  /\ pubPc \in [Publishers -> {"idle", "text", "newline"}]
  /\ outgoing \in [Publishers -> Messages \union {None}]
  /\ conPc \in [Consumers -> {"idle", "pick", "move", "commit", "store"}]
  /\ seen \in [Consumers -> Seq(LogLines)]
  /\ incoming \in [Consumers -> Messages \union {None}]
  /\ \A p \in Publishers : pubPc[p] # "idle" => outgoing[p] \in Messages
  /\ \A c \in Consumers :
       conPc[c] \in {"move", "commit", "store"} => incoming[c] \in Messages
  /\ acked \subseteq Payloads /\ dropped \subseteq Payloads
  /\ delivered \in Seq(Messages)
  /\ raced \in BOOLEAN /\ cut \in BOOLEAN

\* The queue is a log with an offset: no message is delivered twice or after a
\* later one, across crashes, restarts and failed writes, as long as two threads
\* do not publish, and two do not consume, at the same time.
DeliveredInOrder ==
  ~raced => \A i, j \in DOMAIN delivered : i < j => delivered[i].seq < delivered[j].seq

\* Nothing that can be read is passed over: a message behind the cursor was
\* delivered or is being delivered, or its consume failed half-way.
Readable == {i \in DOMAIN Text : \A j \in 1..i : Text[j] # Corrupt}
Received == {delivered[i].payload : i \in DOMAIN delivered} \union dropped \union
            {incoming[c].payload : c \in {c \in Consumers : conPc[c] \in {"commit", "store"}}}
NothingSkipped ==
  ~raced /\ up =>
    \A i \in Readable : Text[i].seq < cursor => Text[i].payload \in Received

\* An acknowledged publish is in the log and can be read there, and the log stays
\* readable, until a line is cut short or two publishes overlap.
AckedReadable ==
  ~raced /\ ~cut =>
    acked \subseteq {Text[i].payload : i \in Readable}
=============================================================================
