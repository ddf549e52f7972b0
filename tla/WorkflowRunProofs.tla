------------------------- MODULE WorkflowRunProofs -------------------------
(***************************************************************************)
(* Proofs about workflow runs and their checkpoint, for any workflows,     *)
(* runs and values.  A run's outputs, and the lines of the checkpoint, are *)
(* each a part of one execution of the workflow: closed under predecessors *)
(* and with every output computed from those before it.  A run goes on     *)
(* from the part it has loaded, and the file from the part it has, with    *)
(* the same steps.                                                         *)
(***************************************************************************)
EXTENDS WorkflowRun, WellFoundedInduction, TLAPS

----------------------------------------------------------------------------
(* The invariants.                                                         *)

Holds(r) == pc[r] \in {"part", "rest", "newline", "emit"}
OnFile(r) == Active(r) /\ Checkpointed(r)

\* A line of a node has its output.
Proper(line) == line.node \in Nodes => line.output \in W!Outputs

\* What belongs to a place: only checkpointed runs write, nothing is passed
\* before the plan is made, and what a run holds is the header or the line of a
\* node.
Placed(r) ==
  /\ pc[r] \in {"open", "part", "rest", "newline"} => Checkpointed(r)
  /\ pc[r] \in {"idle", "open", "plan"} =>
       done[r] = {} /\ outputs[r] = W!NoOutputs /\ told[r] = W!NoOutputs
  /\ pc[r] = "idle" \/ ~Checkpointed(r) => base[r] = {} /\ loaded[r] = W!NoOutputs
  /\ Holds(r) => \/ writing[r] = HeaderLine /\ pc[r] # "emit"
                 \/ writing[r].node \in Nodes /\ writing[r].output \in W!Outputs
  /\ Holds(r) /\ writing[r] = HeaderLine =>
       done[r] = {} /\ outputs[r] = W!NoOutputs /\ told[r] = W!NoOutputs

\* Until a checkpointed run is called the file is empty, and its lines are proper.
FileFits ==
  /\ job = None => /\ lines = <<>> /\ tail = EmptyTail /\ settled = {}
                   /\ \A r \in Runs : pc[r] # "idle" => ~Checkpointed(r)
  /\ \A i \in DOMAIN lines : Proper(lines[i])
  /\ Proper(tail.line)

PlaceInv == (\A r \in Runs : Placed(r)) /\ FileFits

\* The node of the line a run holds is one that it is about to pass.
Ahead(r) ==
  Holds(r) /\ writing[r] # HeaderLine =>
    LET n == writing[r].node
    IN  /\ n \in workflow[r].nodes \ done[r]
        /\ W!Predecessors(workflow[r], n) \subseteq done[r]
        /\ ~Skipped(r, n)
        /\ loaded[r][n] = None
        /\ writing[r].output \in Output(r, n)

NodeInv == \A r \in Runs : Ahead(r)

BaseInv == TypeOK /\ PlaceInv /\ NodeInv

\* The nodes with a line in a text, and that none has two.
NodesIn(text) == {text[i].node : i \in DOMAIN text} \intersect Nodes
NoTwice(text) ==
  \A i, j \in DOMAIN text : text[i].node = text[j].node /\ text[i].node \in Nodes => i = j

OneUser == \A q, r \in Runs : OnFile(q) /\ OnFile(r) => q = r

InHand(r) == IF pc[r] \in {"newline", "emit"} THEN {writing[r].node} ELSE {}

\* A node in the file is one that the run has loaded, passed or written.
Accounted(r) ==
  OnFile(r) =>
    NodesIn(Text) \subseteq {n \in Nodes : loaded[r][n] # None} \union done[r] \union InHand(r)

\* What follows the last line while the run writes.
TailFits(r) ==
  /\ pc[r] = "rest" => \/ tail.state = "garbage"
                       \/ tail.state = "part" /\ tail.by = r
  /\ pc[r] = "newline" => \/ tail.state = "garbage"
                          \/ tail.state = "whole" /\ tail.line = writing[r]

\* Without overlap one run at a time uses the file, and no node gets two lines.
SoloInv ==
  ~overlapped => /\ OneUser
                 /\ NoTwice(Text)
                 /\ \A r \in Runs : Accounted(r) /\ TailFits(r)

\* While no line is cut short as well, only a run that is writing leaves anything
\* behind the last line, and what was loaded, written or told stays recorded.
WholeInv ==
  ~overlapped /\ ~cut =>
    /\ \A i \in DOMAIN lines : lines[i].node \in Nodes \/ (i = 1 /\ lines[i] = HeaderLine)
    /\ tail.state # "garbage"
    /\ tail # EmptyTail => \E r \in Runs : pc[r] \in {"rest", "newline"}
    /\ \A r \in Runs :
         /\ pc[r] \in {"part", "rest", "newline"} /\ writing[r] = HeaderLine => lines = <<>>
         /\ OnFile(r) => \A n \in Nodes : loaded[r][n] # None => Recorded[n] = loaded[r][n]
         /\ OnFile(r) /\ pc[r] \in {"newline", "emit"} /\ writing[r] # HeaderLine =>
              Recorded[writing[r].node] = writing[r].output
         /\ pc[r] # "idle" /\ Checkpointed(r) =>
              \A n \in Nodes : told[r][n] # None => Recorded[n] = told[r][n]

FileInv == SoloInv /\ WholeInv

\* S has been passed with the outputs out, in an execution of w on in.
Partial(w, in, S, out) ==
  /\ S \subseteq w.nodes
  /\ \A n \in S : W!Predecessors(w, n) \subseteq S
  /\ \A n \in S : IF n = w.end \/ ~W!Allowed(w, n, out) THEN out[n] = None
                  ELSE out[n] # None /\ out[n].given = W!InputFor(w, n, out, in)
  /\ \A n \in Nodes \ S : out[n] = None

\* A run is part of an execution, and agrees with the part it has loaded.
RunGood(r) ==
  /\ Partial(workflow[r], input[r], done[r], outputs[r])
  /\ Active(r) =>
       /\ Partial(workflow[r], input[r], base[r], loaded[r])
       /\ \A n \in done[r] \intersect base[r] : outputs[r][n] = loaded[r][n]

ResumeInv ==
  \A r \in Runs :
    pc[r] # "idle" /\ workflow[r] \in Local /\ trusted[r] => RunGood(r)

\* The runs of the file are about its job.
JobInv ==
  /\ ~mixed => \A r \in Runs : pc[r] # "idle" /\ Checkpointed(r) =>
                 job # None /\ workflow[r] = job.workflow /\ input[r] = job.input
  /\ ~overlapped /\ ~mixed => \A r \in Runs : OnFile(r) => trusted[r]

\* The file agrees with the run that uses it.
Agrees(r) ==
  /\ \A n \in base[r] : n \in settled /\ Recorded[n] = loaded[r][n]
  /\ \A n \in done[r] : n \in settled /\ Recorded[n] = outputs[r][n]
  /\ pc[r] \in {"newline", "emit"} /\ writing[r] # HeaderLine =>
       writing[r].node \in settled /\ Recorded[writing[r].node] = writing[r].output
  /\ \A n \in settled : \/ n \in base[r] \union done[r]
                        \/ pc[r] \in {"newline", "emit"} /\ n = writing[r].node

\* While it is whole the file is part of an execution of its job.
MergedInv ==
  /\ ~overlapped /\ ~mixed /\ Intact /\ job # None /\ job.workflow \in Local
  => /\ Partial(job.workflow, job.input, settled, Recorded)
     /\ \A r \in Runs : OnFile(r) => Agrees(r)

ExecutionInv == ResumeInv /\ JobInv /\ MergedInv

----------------------------------------------------------------------------
(* Texts of lines.                                                         *)

LEMMA SmallestOf ==
  ASSUME NEW S \in SUBSET Nat, S # {}
  PROVE  \E i \in S : \A j \in S : i <= j
<1>1. PICK i \in S : \A j \in S : ~(<<j, i>> \in OpToRel(<, Nat))
  BY WFMin, NatLessThanWellFounded
<1>2. \A j \in S : ~(j < i)
  BY <1>1 DEF OpToRel
<1>3. ASSUME NEW j \in S PROVE i <= j
  <2>1. i \in Nat /\ j \in Nat /\ ~(j < i)
    BY <1>2
  <2>2. QED
    BY <2>1
<1>4. QED
  BY <1>3

LEMMA LargestOf ==
  ASSUME NEW n \in Nat, NEW S \in SUBSET (1..n), S # {}
  PROVE  \E i \in S : \A j \in S : j <= i
<1> DEFINE T == {k \in Nat : \E i \in S : k = n - i}
<1>1. \A i \in S : n - i \in T
  OBVIOUS
<1>2. T \in SUBSET Nat /\ T # {}
  BY <1>1
<1>3. PICK k \in T : \A j \in T : k <= j
  BY <1>2, SmallestOf
<1>4. PICK i \in S : k = n - i
  BY <1>3
<1>5. \A j \in S : n - i <= n - j
  BY <1>1, <1>3, <1>4
<1>6. \A j \in S : j <= i
  BY <1>5
<1>7. QED
  BY <1>6

LEMMA NamesApart ==
  /\ Header \notin Nodes /\ Corrupt \notin Nodes /\ None \notin Nodes
  /\ Header # Corrupt /\ Header # None /\ Corrupt # None
  /\ None \notin W!Outputs /\ None \notin Values /\ None \notin Runs
  /\ None \notin [workflow : Workflows, input : Inputs]
  BY RunAssumption

\* The last line of a node is what Latest finds.
LEMMA LatestFound ==
  ASSUME NEW text \in Seq(Lines), NEW n \in Nodes
  PROVE  /\ Latest(text, n) \in W!Outputs \union {None}
         /\ (\A i \in DOMAIN text : text[i].node # n) => Latest(text, n) = None
         /\ (\E i \in DOMAIN text : text[i].node = n) =>
              \E i \in DOMAIN text : /\ text[i].node = n /\ Latest(text, n) = text[i].output
                                     /\ \A j \in DOMAIN text : text[j].node = n => j <= i
<1> DEFINE own == {i \in DOMAIN text : text[i].node = n}
<1>1. Len(text) \in Nat /\ DOMAIN text = 1..Len(text) /\ own \in SUBSET (1..Len(text))
  OBVIOUS
<1>2. \A i \in DOMAIN text : text[i].output \in W!Outputs \union {None}
  <2>1. \A i \in DOMAIN text : text[i] \in Lines
    OBVIOUS
  <2>2. QED
    BY <2>1 DEF Lines
<1>3. CASE own = {}
  <2>1. Latest(text, n) = None
    BY <1>3 DEF Latest
  <2>2. QED
    BY <1>3, <2>1
<1>4. CASE own # {}
  <2> DEFINE last == CHOOSE i \in own : \A j \in own : j <= i
  <2>1. \E i \in own : \A j \in own : j <= i
    BY <1>1, <1>4, LargestOf
  <2>2. last \in own /\ \A j \in own : j <= last
    BY <2>1
  <2>3. Latest(text, n) = text[last].output
    BY <1>4 DEF Latest
  <2> HIDE DEF last
  <2>4. last \in DOMAIN text /\ text[last].node = n
    BY <2>2
  <2>5. \A j \in DOMAIN text : text[j].node = n => j <= last
    BY <2>2
  <2>6. QED
    BY <1>2, <2>3, <2>4, <2>5
<1>5. QED
  BY <1>3, <1>4

\* An appended line overrides the earlier lines of its node, and no others.
LEMMA LatestAppend ==
  ASSUME NEW text \in Seq(Lines), NEW line \in Lines, NEW n \in Nodes
  PROVE  Latest(Append(text, line), n) = IF line.node = n THEN line.output ELSE Latest(text, n)
<1> DEFINE longer == Append(text, line)
<1>1. /\ longer \in Seq(Lines) /\ DOMAIN longer = 1..(Len(text) + 1) /\ DOMAIN text = 1..Len(text)
      /\ longer[Len(text) + 1] = line /\ \A i \in DOMAIN text : longer[i] = text[i]
      /\ Len(text) \in Nat
  OBVIOUS
<1> HIDE DEF longer
<1>2. CASE line.node = n
  <2>1. \E i \in DOMAIN longer : longer[i].node = n
    BY <1>1, <1>2
  <2>2. PICK i \in DOMAIN longer : /\ Latest(longer, n) = longer[i].output
                                   /\ \A j \in DOMAIN longer : longer[j].node = n => j <= i
    BY <1>1, <2>1, LatestFound
  <2>3. Len(text) + 1 <= i
    BY <1>1, <1>2, <2>2
  <2>4. i = Len(text) + 1
    BY <1>1, <2>2, <2>3
  <2>5. QED
    BY <1>1, <1>2, <2>2, <2>4 DEF longer
<1>3. CASE line.node # n /\ \A i \in DOMAIN text : text[i].node # n
  <2>1. \A i \in DOMAIN longer : longer[i].node # n
    BY <1>1, <1>3
  <2>2. Latest(longer, n) = None /\ Latest(text, n) = None
    BY <1>1, <1>3, <2>1, LatestFound
  <2>3. QED
    BY <1>3, <2>2 DEF longer
<1>4. CASE line.node # n /\ \E i \in DOMAIN text : text[i].node = n
  <2>1. PICK i \in DOMAIN text : /\ text[i].node = n /\ Latest(text, n) = text[i].output
                                 /\ \A j \in DOMAIN text : text[j].node = n => j <= i
    BY <1>4, LatestFound
  <2>2. \E j \in DOMAIN longer : longer[j].node = n
    BY <1>1, <2>1
  <2>3. PICK k \in DOMAIN longer : /\ longer[k].node = n /\ Latest(longer, n) = longer[k].output
                                   /\ \A j \in DOMAIN longer : longer[j].node = n => j <= k
    BY <1>1, <2>2, LatestFound
  <2>4. k \in DOMAIN text /\ longer[k] = text[k]
    BY <1>1, <1>4, <2>3
  <2>5. k <= i /\ i <= k
    BY <1>1, <2>1, <2>3, <2>4
  <2>6. i = k
    BY <1>1, <2>1, <2>4, <2>5
  <2>7. QED
    BY <1>4, <2>1, <2>3, <2>4, <2>6 DEF longer
<1>5. QED
  BY <1>2, <1>3, <1>4

LEMMA RecordsType ==
  ASSUME NEW text \in Seq(Lines)
  PROVE  Records(text) \in States
  BY LatestFound DEF Records, States

\* The lines a text consists of.
LEMMA LineTypes ==
  /\ HeaderLine \in Lines /\ CorruptLine \in Lines /\ NoLine \in Lines
  /\ \A n \in Nodes, out \in W!Outputs : Entry(n, out) \in Lines
  BY DEF HeaderLine, CorruptLine, NoLine, Entry, Lines

LEMMA TextType ==
  ASSUME TypeOK
  PROVE  TailLine \in Lines /\ Text \in Seq(Lines) /\ Recorded \in States
<1>1. TailLine \in Lines
  BY LineTypes DEF TypeOK, TailLine
<1>2. Text \in Seq(Lines)
  BY <1>1 DEF TypeOK, Text
<1>3. QED
  BY <1>1, <1>2, RecordsType DEF Recorded

----------------------------------------------------------------------------
(* Workflows.                                                              *)

LEMMA WorkflowShape ==
  ASSUME NEW w \in Workflows
  PROVE  /\ w.nodes \subseteq Nodes /\ w.starts \subseteq w.nodes
         /\ \A n : W!Predecessors(w, n) \subseteq w.nodes
         /\ \A n : W!Incoming(w, n) \subseteq Nat
         /\ \A i \in DOMAIN w.edges :
              /\ w.edges[i].from \in w.nodes
              /\ w.edges[i].condition # None =>
                   w.edges[i].condition.node \in Nodes
<1>1. W!IsWorkflow(w)
  BY RunAssumption
<1>2. /\ w.nodes \subseteq Nodes /\ w.starts \subseteq w.nodes
      /\ w.edges \in Seq([from : w.nodes, to : w.nodes, condition : W!Conditions \union {None}])
  BY <1>1 DEF W!IsWorkflow
<1>3. \A i \in DOMAIN w.edges :
        w.edges[i] \in [from : w.nodes, to : w.nodes, condition : W!Conditions \union {None}]
  <2> DEFINE edges == w.edges
             E == [from : w.nodes, to : w.nodes, condition : W!Conditions \union {None}]
  <2> HIDE DEF E, edges
  <2>1. edges \in Seq(E)
    BY <1>2 DEF E, edges
  <2>2. \A i \in DOMAIN edges : edges[i] \in E
    BY <2>1
  <2>3. QED
    BY <2>2 DEF E, edges
<1>4. \A i \in DOMAIN w.edges :
              /\ w.edges[i].from \in w.nodes
              /\ w.edges[i].condition # None => w.edges[i].condition.node \in Nodes
  BY <1>3 DEF W!Conditions
<1>5. DOMAIN w.edges = 1..Len(w.edges) /\ Len(w.edges) \in Nat
  BY <1>2
<1>6. \A n : W!Predecessors(w, n) \subseteq w.nodes
  BY <1>4 DEF W!Predecessors, W!Incoming
<1>7. \A n : W!Incoming(w, n) \subseteq Nat
  BY <1>5 DEF W!Incoming
<1>8. QED
  BY <1>2, <1>4, <1>6, <1>7

LEMMA FirstAvailable ==
  ASSUME NEW w \in Workflows, NEW n, NEW out, W!Available(w, n, out) # {}
  PROVE  W!First(W!Available(w, n, out)) \in W!Available(w, n, out)
<1>1. W!Available(w, n, out) \in SUBSET Nat
  BY WorkflowShape DEF W!Available
<1>2. \E i \in W!Available(w, n, out) : \A j \in W!Available(w, n, out) : i <= j
  BY <1>1, SmallestOf
<1>3. QED
  BY <1>2 DEF W!First

LEMMA InputType ==
  ASSUME NEW w \in Workflows, NEW n, NEW out \in States, NEW in \in Inputs
  PROVE  W!InputFor(w, n, out, in) \in Values \union {None}
<1>1. CASE n \in w.starts
  BY <1>1, RunAssumption DEF W!InputFor
<1>2. CASE n \notin w.starts /\ W!Available(w, n, out) # {}
  <2> DEFINE i == W!First(W!Available(w, n, out))
  <2>1. i \in W!Available(w, n, out)
    BY <1>2, FirstAvailable
  <2> HIDE DEF i
  <2>2. i \in DOMAIN w.edges /\ out[w.edges[i].from] # None
    BY <2>1 DEF W!Available, W!Incoming
  <2>3. w.edges[i].from \in Nodes
    BY <2>2, WorkflowShape
  <2>4. out[w.edges[i].from] \in W!Outputs
    BY <2>2, <2>3 DEF States
  <2>5. out[w.edges[i].from].value \in Values
    BY <2>4 DEF W!Outputs
  <2>6. QED
    BY <1>2, <2>5 DEF W!InputFor, i
<1>3. QED
  BY <1>1, <1>2 DEF W!InputFor

LEMMA OutputType ==
  ASSUME NEW w \in Workflows, NEW n, NEW out \in States, NEW in \in Inputs,
         NEW x \in W!OutputsOn(w, n, W!InputFor(w, n, out, in))
  PROVE  x \in W!Outputs /\ x.given = W!InputFor(w, n, out, in)
<1> DEFINE given == W!InputFor(w, n, out, in)
<1>1. given \in Values \union {None} /\ (n \in w.starts => given \in Values)
  BY InputType, RunAssumption DEF W!InputFor
<1> HIDE DEF given
<1>2. x \in W!OutputsOn(w, n, given)
  BY DEF given
<1>3. QED
  BY <1>1, <1>2 DEF W!OutputsOn, W!Outputs, given

Closed(w, S) == S \subseteq w.nodes /\ \A k \in S : W!Predecessors(w, k) \subseteq S

\* What an execution does with a node depends only on what comes before it.
LEMMA Localness ==
  ASSUME NEW w \in Local, NEW n \in Nodes, NEW S, Closed(w, S),
         W!Predecessors(w, n) \subseteq S,
         NEW a, NEW b, \A k \in S : a[k] = b[k]
  PROVE  /\ W!Allowed(w, n, a) <=> W!Allowed(w, n, b)
         /\ \A in : W!InputFor(w, n, a, in) = W!InputFor(w, n, b, in)
<1>1. w \in Workflows /\ W!LocalConditions(w)
  BY DEF Local
<1>2. W!Ancestors(w, n) \subseteq S
  BY DEF W!Ancestors, Closed
<1>3. \A i \in W!Incoming(w, n) :
        /\ i \in DOMAIN w.edges
        /\ w.edges[i].from \in S
        /\ w.edges[i].condition # None => w.edges[i].condition.node \in S
  BY <1>1, <1>2 DEF W!Incoming, W!Predecessors, W!LocalConditions
<1>4. \A i \in W!Incoming(w, n) :
        W!EdgeAllows(w.edges[i].condition, a) <=> W!EdgeAllows(w.edges[i].condition, b)
  BY <1>3 DEF W!EdgeAllows
<1>5. W!Allowed(w, n, a) <=> W!Allowed(w, n, b)
  BY <1>4 DEF W!Allowed
<1>6. W!Available(w, n, a) = W!Available(w, n, b)
  BY <1>3 DEF W!Available
<1>7. ASSUME NEW in PROVE W!InputFor(w, n, a, in) = W!InputFor(w, n, b, in)
  <2>1. CASE W!Available(w, n, a) # {}
    <3> DEFINE i == W!First(W!Available(w, n, a))
    <3>1. i \in W!Available(w, n, a)
      BY <1>1, <2>1, FirstAvailable
    <3> HIDE DEF i
    <3>2. w.edges[i].from \in S
      BY <1>3, <3>1 DEF W!Available
    <3>3. a[w.edges[i].from] = b[w.edges[i].from]
      BY <3>2
    <3>4. i = W!First(W!Available(w, n, b))
      BY <1>6 DEF i
    <3>5. QED
      BY <1>6, <3>3, <3>4 DEF W!InputFor, i
  <2>2. QED
    BY <1>6, <2>1 DEF W!InputFor
<1>8. QED
  BY <1>5, <1>7

\* Passing one more node whose predecessors have been passed.
LEMMA PartialExtends ==
  ASSUME NEW w \in Local, NEW in, NEW S, NEW out, Partial(w, in, S, out),
         NEW n \in w.nodes \ S, W!Predecessors(w, n) \subseteq S, DOMAIN out = Nodes, NEW x,
         IF n = w.end \/ ~W!Allowed(w, n, out) THEN x = None
         ELSE x # None /\ x.given = W!InputFor(w, n, out, in)
  PROVE  Partial(w, in, S \union {n}, [out EXCEPT ![n] = x])
<1> DEFINE more == [out EXCEPT ![n] = x]
<1>1. w \in Workflows /\ w.nodes \subseteq Nodes
  BY WorkflowShape DEF Local
<1>2. /\ more[n] = x /\ \A k \in S : more[k] = out[k]
      /\ \A k \in Nodes \ (S \union {n}) : more[k] = out[k]
  BY <1>1 DEF Partial
<1> HIDE DEF more
<1>3. Closed(w, S)
  BY DEF Partial, Closed
<1>4. ASSUME NEW k \in S \union {n}
      PROVE  /\ W!Predecessors(w, k) \subseteq S
             /\ W!Allowed(w, k, more) <=> W!Allowed(w, k, out)
             /\ W!InputFor(w, k, more, in) = W!InputFor(w, k, out, in)
  <2>1. W!Predecessors(w, k) \subseteq S /\ k \in Nodes
    BY <1>1 DEF Partial
  <2>2. QED
    BY <1>2, <1>3, <2>1, Localness
<1>5. ASSUME NEW k \in S \union {n}
      PROVE  IF k = w.end \/ ~W!Allowed(w, k, more) THEN more[k] = None
             ELSE more[k] # None /\ more[k].given = W!InputFor(w, k, more, in)
  <2>1. CASE k = n
    BY <1>2, <1>4, <2>1
  <2>2. CASE k \in S
    BY <1>2, <1>4, <2>2 DEF Partial
  <2>3. QED
    BY <2>1, <2>2
<1>6. S \union {n} \subseteq w.nodes /\ \A k \in S \union {n} : W!Predecessors(w, k) \subseteq S \union {n}
  BY <1>4 DEF Partial
<1>7. \A k \in Nodes \ (S \union {n}) : more[k] = None
  BY <1>2 DEF Partial
<1>8. Partial(w, in, S \union {n}, more)
  BY <1>5, <1>6, <1>7 DEF Partial
<1>9. QED
  BY <1>8 DEF more

\* Two parts that agree where both are defined treat a node alike when it is in
\* one and its predecessors are in the other.
LEMMA PartsAgree ==
  ASSUME NEW w \in Local, NEW in, NEW S, NEW a, Partial(w, in, S, a),
         NEW B, NEW b, Partial(w, in, B, b), \A k \in S \intersect B : a[k] = b[k],
         NEW n \in B, W!Predecessors(w, n) \subseteq S
  PROVE  /\ W!Allowed(w, n, a) <=> W!Allowed(w, n, b)
         /\ W!InputFor(w, n, a, in) = W!InputFor(w, n, b, in)
<1>1. n \in Nodes
  BY WorkflowShape DEF Local, Partial
<1>2. Closed(w, S \intersect B) /\ W!Predecessors(w, n) \subseteq S \intersect B
  BY DEF Partial, Closed
<1>3. QED
  BY <1>1, <1>2, Localness

LEMMA PartialNothing ==
  ASSUME NEW w, NEW in
  PROVE  Partial(w, in, {}, W!NoOutputs)
  BY DEF Partial, W!NoOutputs

----------------------------------------------------------------------------
(* Types.                                                                  *)

Step(r) ==
  \/ BeginPlain(r) \/ BeginCheckpointed(r) \/ Open(r) \/ Plan(r)
  \/ \E n \in Nodes : Advance(r, n)
  \/ Write(r) \/ Emit(r) \/ Finish(r) \/ Stop(r)

\* The three disjuncts of a step that concern a node, with the node named.
LEMMA StepCases ==
  ASSUME NEW r \in Runs, Step(r)
  PROVE  \/ BeginPlain(r) \/ BeginCheckpointed(r) \/ Open(r) \/ Plan(r)
         \/ \E n \in Nodes : Skip(r, n)
         \/ \E n \in Nodes : Reuse(r, n)
         \/ \E n \in Nodes : Execute(r, n)
         \/ WritePart(r) \/ WriteRest(r) \/ WriteNewline(r)
         \/ Emit(r) \/ Finish(r) \/ Stop(r)
  BY DEF Step, Advance, Write

Places == {"idle", "open", "plan", "node", "part", "rest", "newline", "emit",
           "finished", "stopped"}

LEMMA PassTypes ==
  ASSUME TypeOK, NEW r \in Runs, NEW n \in Nodes, NEW out \in W!Outputs \union {None}
  PROVE  /\ Pass(r, n, out) => /\ done' \in [Runs -> SUBSET Nodes]
                               /\ outputs' \in [Runs -> States]
         /\ Tell(r, n, out) => told' \in [Runs -> States]
<1>1. outputs[r] \in States /\ told[r] \in States /\ done[r] \in SUBSET Nodes
  BY DEF TypeOK
<1>2. \A f \in States : [f EXCEPT ![n] = out] \in States
  BY DEF States
<1>3. ASSUME Pass(r, n, out)
      PROVE  done' \in [Runs -> SUBSET Nodes] /\ outputs' \in [Runs -> States]
  <2>1. outputs' = [outputs EXCEPT ![r] = [outputs[r] EXCEPT ![n] = out]]
    BY <1>3 DEF Pass
  <2>2. outputs' \in [Runs -> States]
    BY <1>1, <1>2, <2>1 DEF TypeOK
  <2>3. QED
    BY <1>1, <1>3, <2>2 DEF Pass, TypeOK
<1>4. ASSUME Tell(r, n, out)
      PROVE  told' \in [Runs -> States]
  <2>1. told' = [told EXCEPT ![r] = IF Streamed(r) THEN [told[r] EXCEPT ![n] = out] ELSE told[r]]
    <3>1. CASE Streamed(r)
      BY <1>4, <3>1 DEF Tell
    <3>2. CASE ~Streamed(r)
      <4>1. told' = [told EXCEPT ![r] = [told[r] EXCEPT ![n] = told[r][n]]]
        BY <1>4, <3>2 DEF Tell
      <4>2. [told[r] EXCEPT ![n] = told[r][n]] = told[r]
        BY <1>1 DEF States
      <4>3. QED
        BY <3>2, <4>1, <4>2
    <3>3. QED
      BY <3>1, <3>2
  <2>2. QED
    BY <1>1, <1>2, <2>1 DEF TypeOK
<1>5. QED
  BY <1>3, <1>4

\* What a run that has been called was called with.
LEMMA CalledTypes ==
  ASSUME TypeOK, NEW r \in Runs, pc[r] # "idle"
  PROVE  /\ mode[r] \in Modes /\ workflow[r] \in Workflows /\ input[r] \in Inputs
         /\ workflow[r].nodes \subseteq Nodes
         /\ outputs[r] \in States /\ loaded[r] \in States
  BY WorkflowShape DEF TypeOK

LEMMA StateTypes ==
  ASSUME BaseInv, NEW r \in Runs, Step(r)
  PROVE  /\ loaded' \in [Runs -> States] /\ outputs' \in [Runs -> States]
         /\ told' \in [Runs -> States] /\ done' \in [Runs -> SUBSET Nodes]
         /\ writing' \in [Runs -> Lines]
<1> DEFINE Good == /\ loaded' \in [Runs -> States] /\ outputs' \in [Runs -> States]
                   /\ told' \in [Runs -> States] /\ done' \in [Runs -> SUBSET Nodes]
                   /\ writing' \in [Runs -> Lines]
<1>1. TypeOK /\ PlaceInv
  BY DEF BaseInv
<1>2. UNCHANGED <<loaded, outputs, told, done, writing>> => Good
  BY <1>1 DEF TypeOK
<1>3. CASE BeginCheckpointed(r)
  <2>1. loaded' = loaded \/ loaded' = [loaded EXCEPT ![r] = Recorded]
    BY <1>3 DEF BeginCheckpointed
  <2>2. Recorded \in States
    BY <1>1, TextType
  <2>3. UNCHANGED <<outputs, told, done, writing>>
    BY <1>3 DEF BeginCheckpointed, Call
  <2>4. QED
    BY <1>1, <2>1, <2>2, <2>3 DEF TypeOK
<1>4. CASE Open(r)
  <2>1. writing' = writing \/ writing' = [writing EXCEPT ![r] = HeaderLine]
    BY <1>4 DEF Open
  <2>2. QED
    BY <1>1, <1>4, <2>1, LineTypes DEF Open, TypeOK, runVars
<1>5. ASSUME NEW n \in Nodes, Skip(r, n) PROVE Good
  <2>1. UNCHANGED <<loaded, told, writing>> /\ Pass(r, n, None)
    BY <1>5 DEF Skip, runVars
  <2>2. QED
    BY <1>1, <2>1, PassTypes DEF TypeOK
<1>6. ASSUME NEW n \in Nodes, Reuse(r, n) PROVE Good
  <2>1. loaded[r][n] \in W!Outputs \union {None}
    BY <1>1 DEF TypeOK, States
  <2>2. UNCHANGED <<loaded, writing>> /\ Pass(r, n, loaded[r][n]) /\ Tell(r, n, loaded[r][n])
    BY <1>6 DEF Reuse, runVars
  <2>3. QED
    BY <1>1, <2>1, <2>2, PassTypes DEF TypeOK
<1>7. ASSUME NEW n \in Nodes, Execute(r, n) PROVE Good
  <2>1. PICK out \in Output(r, n) : writing' = [writing EXCEPT ![r] = Entry(n, out)]
    BY <1>7 DEF Execute
  <2>2. pc[r] # "idle"
    BY <1>7 DEF Execute, Ready
  <2>3. out \in W!Outputs
    BY <1>1, <2>2, CalledTypes, OutputType DEF Output
  <2>4. UNCHANGED <<loaded, outputs, told, done>>
    BY <1>7 DEF Execute, runVars
  <2>5. QED
    BY <1>1, <2>1, <2>3, <2>4, LineTypes DEF TypeOK
<1>8. CASE Emit(r)
  <2>1. writing[r].node \in Nodes /\ writing[r].output \in W!Outputs
    BY <1>1, <1>8 DEF Emit, PlaceInv, Placed, Holds
  <2>2. /\ UNCHANGED <<loaded, writing>> /\ Pass(r, writing[r].node, writing[r].output)
        /\ Tell(r, writing[r].node, writing[r].output)
    BY <1>8 DEF Emit, runVars
  <2>3. QED
    BY <1>1, <2>1, <2>2, PassTypes DEF TypeOK
<1>9. CASE BeginPlain(r) \/ Plan(r) \/ WritePart(r) \/ WriteRest(r) \/ WriteNewline(r)
           \/ Finish(r) \/ Stop(r)
  BY <1>2, <1>9 DEF BeginPlain, Call, Plan, WritePart, WriteRest, WriteNewline, Finish, Stop, runVars
<1>10. QED
  BY <1>3, <1>4, <1>5, <1>6, <1>7, <1>8, <1>9, StepCases

LEMMA RunTypes ==
  ASSUME BaseInv, NEW r \in Runs, Step(r)
  PROVE  /\ pc' \in [Runs -> Places]
         /\ mode' \in [Runs -> Modes \union {None}]
         /\ workflow' \in [Runs -> Workflows \union {None}]
         /\ input' \in [Runs -> Inputs \union {None}]
         /\ \A q \in Runs : pc'[q] # "idle" =>
              mode'[q] \in Modes /\ workflow'[q] \in Workflows /\ input'[q] \in Inputs
<1> DEFINE Good == /\ mode' \in [Runs -> Modes \union {None}]
                   /\ workflow' \in [Runs -> Workflows \union {None}]
                   /\ input' \in [Runs -> Inputs \union {None}]
                   /\ \A q \in Runs : pc'[q] # "idle" =>
                        mode'[q] \in Modes /\ workflow'[q] \in Workflows /\ input'[q] \in Inputs
<1>1. TypeOK
  BY DEF BaseInv
<1>2. pc' \in [Runs -> Places] /\ \A q \in Runs : q # r => pc'[q] = pc[q]
  BY <1>1, StepCases DEF TypeOK, Places, BeginPlain, BeginCheckpointed, Open, Plan, Skip, Reuse,
       Execute, WritePart, WriteRest, WriteNewline, Emit, Finish, Stop, Goto
<1>3. CASE BeginPlain(r) \/ BeginCheckpointed(r)
  <2>1. PICK w \in Workflows, in \in Inputs, m \in Modes : Call(r, w, in, m)
    BY <1>3 DEF BeginPlain, BeginCheckpointed
  <2>2. QED
    BY <1>1, <1>2, <2>1 DEF Call, TypeOK
<1>4. CASE UNCHANGED runVars /\ pc[r] # "idle"
  BY <1>1, <1>2, <1>4 DEF runVars, TypeOK
<1>5. QED
  BY <1>2, <1>3, <1>4, StepCases DEF Open, Plan, Skip, Reuse,
       Execute, WritePart, WriteRest, WriteNewline, Emit, Finish, Stop, Ready, Active

LEMMA FileTypes ==
  ASSUME BaseInv, NEW r \in Runs, Step(r)
  PROVE  /\ lines' \in Seq(Lines)
         /\ tail' \in [state : {"empty", "part", "whole", "garbage"},
                       by : Runs \union {None}, line : Lines]
         /\ settled' \in SUBSET Nodes
<1> DEFINE Good == /\ lines' \in Seq(Lines)
                   /\ tail' \in [state : {"empty", "part", "whole", "garbage"},
                                 by : Runs \union {None}, line : Lines]
                   /\ settled' \in SUBSET Nodes
<1>1. TypeOK /\ writing[r] \in Lines /\ TailLine \in Lines
  BY TextType DEF BaseInv, TypeOK
<1>2. UNCHANGED <<lines, tail, settled>> => Good
  BY <1>1 DEF TypeOK
<1>3. ASSUME NEW n \in Nodes, Skip(r, n) PROVE Good
  BY <1>1, <1>3 DEF Skip, Settled, fileVars, TypeOK
<1>4. CASE WritePart(r)
  BY <1>1, <1>4, LineTypes DEF WritePart, ghosts, TypeOK
<1>5. CASE WriteRest(r)
  <2>1. settled' \in SUBSET Nodes
    BY <1>1, <1>5 DEF WriteRest, TypeOK
  <2>2. QED
    BY <1>1, <1>5, <2>1, LineTypes DEF WriteRest, TypeOK
<1>6. CASE WriteNewline(r)
  BY <1>1, <1>6, LineTypes DEF WriteNewline, EmptyTail, ghosts, TypeOK
<1>7. CASE BeginPlain(r) \/ BeginCheckpointed(r) \/ Open(r) \/ Plan(r) \/ Emit(r) \/ Finish(r) \/ Stop(r)
           \/ \E n \in Nodes : Reuse(r, n) \/ Execute(r, n)
  BY <1>2, <1>7 DEF BeginPlain, BeginCheckpointed, Call, Open, Plan, Emit, Finish, Stop, Reuse,
       Execute, fileVars, ghosts
<1>8. QED
  BY <1>3, <1>4, <1>5, <1>6, <1>7, StepCases

LEMMA GhostTypes ==
  ASSUME BaseInv, NEW r \in Runs, Step(r)
  PROVE  /\ job' \in [workflow : Workflows, input : Inputs] \union {None}
         /\ overlapped' \in BOOLEAN /\ mixed' \in BOOLEAN /\ cut' \in BOOLEAN
         /\ base' \in [Runs -> SUBSET Nodes] /\ trusted' \in [Runs -> BOOLEAN]
<1>1. TypeOK
  BY DEF BaseInv
<1>2. CASE UNCHANGED <<job, overlapped, mixed, base, trusted>> /\ (Stop(r) \/ cut' = cut)
  BY <1>1, <1>2 DEF TypeOK, Stop
<1>3. CASE BeginCheckpointed(r)
  <2>1. PICK w \in Workflows, in \in Inputs :
           /\ UNCHANGED cut
           /\ LET this == [workflow |-> w, input |-> in]
              IN  /\ job' = IF job = None THEN this ELSE job
                  /\ mixed' = (mixed \/ job \notin {None, this})
    BY <1>3 DEF BeginCheckpointed, Call
  <2>2. job' \in [workflow : Workflows, input : Inputs] \union {None} /\ mixed' \in BOOLEAN
    BY <1>1, <2>1 DEF TypeOK
  <2>3. overlapped' \in BOOLEAN
    BY <1>3 DEF BeginCheckpointed
  <2>4. base' \in [Runs -> SUBSET Nodes]
    BY <1>1, <1>3 DEF BeginCheckpointed, TypeOK
  <2>5. (~overlapped /\ ~mixed') \in BOOLEAN
    OBVIOUS
  <2>6. trusted' = [trusted EXCEPT ![r] = ~overlapped /\ ~mixed']
    BY <1>3 DEF BeginCheckpointed
  <2>7. trusted' \in [Runs -> BOOLEAN]
    BY <1>1, <2>5, <2>6 DEF TypeOK
  <2>8. QED
    BY <1>1, <2>1, <2>2, <2>3, <2>4, <2>7 DEF TypeOK
<1>4. QED
  BY <1>2, <1>3, StepCases DEF BeginPlain, Call, Open, Plan, Skip, Reuse, Execute, WritePart, WriteRest,
     WriteNewline, Emit, Finish, Stop, ghosts

LEMMA TypeStep ==
  ASSUME BaseInv, NEW r \in Runs, Step(r)
  PROVE  TypeOK'
  BY StateTypes, RunTypes, FileTypes, GhostTypes DEF TypeOK, Places

----------------------------------------------------------------------------
(* Places.                                                                 *)

\* A step is about one run, and what a run was called with and has found stays.
LEMMA Keeps ==
  ASSUME TypeOK, NEW r \in Runs, Step(r), NEW q \in Runs
  PROVE  /\ q # r => /\ pc'[q] = pc[q] /\ mode'[q] = mode[q]
                     /\ workflow'[q] = workflow[q] /\ input'[q] = input[q]
                     /\ loaded'[q] = loaded[q] /\ outputs'[q] = outputs[q]
                     /\ done'[q] = done[q] /\ writing'[q] = writing[q]
                     /\ told'[q] = told[q] /\ base'[q] = base[q] /\ trusted'[q] = trusted[q]
         /\ pc[q] # "idle" => /\ pc'[q] # "idle" /\ mode'[q] = mode[q]
                              /\ workflow'[q] = workflow[q] /\ input'[q] = input[q]
                              /\ loaded'[q] = loaded[q]
                              /\ base'[q] = base[q] /\ trusted'[q] = trusted[q]
<1>1. CASE BeginPlain(r)
  BY <1>1 DEF BeginPlain, Call, Goto, TypeOK
<1>2. CASE BeginCheckpointed(r)
  BY <1>2 DEF BeginCheckpointed, Call, Goto, TypeOK
<1>3. ASSUME NEW n \in Nodes, Skip(r, n) \/ Reuse(r, n) PROVE UNCHANGED <<pc, runVars, writing, base, trusted>>
  BY <1>3 DEF Skip, Reuse, ghosts
<1>4. ASSUME NEW n \in Nodes, Skip(r, n) \/ Reuse(r, n), q # r
      PROVE  outputs'[q] = outputs[q] /\ done'[q] = done[q] /\ told'[q] = told[q]
  BY <1>4 DEF Skip, Reuse, Pass, Tell, TypeOK
<1>5. CASE Emit(r)
  BY <1>5 DEF Emit, Pass, Tell, runVars, ghosts, Goto, TypeOK
<1>6. ASSUME NEW n \in Nodes, Execute(r, n)
      PROVE  /\ pc' = [pc EXCEPT ![r] = IF Checkpointed(r) THEN "part" ELSE "emit"]
             /\ \E line : writing' = [writing EXCEPT ![r] = line]
             /\ UNCHANGED <<runVars, outputs, done, told, ghosts>>
  BY <1>6 DEF Execute, Goto
<1>7. CASE \E n \in Nodes : Execute(r, n)
  BY <1>6, <1>7 DEF runVars, ghosts, TypeOK
<1>8. CASE \E n \in Nodes : Skip(r, n) \/ Reuse(r, n)
  BY <1>3, <1>4, <1>8 DEF runVars
<1>9. CASE Open(r) \/ Plan(r) \/ WritePart(r) \/ WriteRest(r) \/ WriteNewline(r) \/ Finish(r) \/ Stop(r)
  BY <1>9 DEF Open, Plan, WritePart, WriteRest, WriteNewline, Finish, Stop, Goto, runVars, ghosts, TypeOK
<1>10. QED
  BY <1>1, <1>2, <1>5, <1>7, <1>8, <1>9, StepCases

LEMMA PlacedStep ==
  ASSUME BaseInv, NEW r \in Runs, Step(r)
  PROVE  \A q \in Runs : Placed(q)'
<1>1. TypeOK /\ PlaceInv /\ Placed(r)
  BY DEF BaseInv, PlaceInv
<1>2. ASSUME NEW q \in Runs, q # r PROVE Placed(q)'
  BY <1>1, <1>2, Keeps DEF PlaceInv, Placed, Checkpointed, Holds
<1> SUFFICES Placed(r)'
  BY <1>2
<1>3. CASE BeginPlain(r)
  <2>1. /\ pc[r] = "idle" /\ pc'[r] = "plan" /\ mode'[r] \in {"run", "stream"}
        /\ UNCHANGED <<outputs, done, told, base, loaded>>
    BY <1>1, <1>3 DEF BeginPlain, Call, Goto, TypeOK
  <2>2. QED
    BY <1>1, <2>1 DEF Placed, Checkpointed, Holds
<1>4. CASE BeginCheckpointed(r)
  <2>1. /\ pc[r] = "idle" /\ pc'[r] \in {"open", "stopped"}
        /\ mode'[r] \in {"run_checkpointed", "stream_checkpointed"}
        /\ UNCHANGED <<outputs, done, told>>
    BY <1>1, <1>4 DEF BeginCheckpointed, Call, Goto, TypeOK
  <2>2. QED
    BY <1>1, <2>1 DEF Placed, Checkpointed, Holds
<1>5. CASE Open(r)
  <2>1. /\ pc[r] = "open" /\ UNCHANGED <<mode, outputs, done, told, base, loaded>>
        /\ \/ pc'[r] = "plan"
           \/ pc'[r] = "part" /\ writing'[r] = HeaderLine
    BY <1>1, <1>5 DEF Open, Goto, runVars, ghosts, TypeOK
  <2>2. QED
    BY <1>1, <2>1 DEF Placed, Checkpointed, Holds
<1>6. CASE Plan(r) \/ Finish(r) \/ Stop(r)
  <2>1. pc[r] # "idle" /\ pc'[r] \in {"node", "stopped", "finished"} /\ UNCHANGED <<mode, base, loaded>>
    BY <1>1, <1>6 DEF Plan, Finish, Stop, Active, Goto, runVars, ghosts, TypeOK
  <2>2. QED
    BY <1>1, <2>1 DEF Placed, Checkpointed, Holds
<1>7. CASE \E n \in Nodes : Skip(r, n) \/ Reuse(r, n)
  <2>1. pc[r] = "node" /\ pc'[r] = "node" /\ UNCHANGED <<mode, base, loaded>>
    BY <1>7 DEF Skip, Reuse, Ready, runVars, ghosts
  <2>2. QED
    BY <1>1, <2>1 DEF Placed, Checkpointed, Holds
<1>8. ASSUME NEW n \in Nodes, Execute(r, n) PROVE Placed(r)'
  <2>1. PICK out \in Output(r, n) : writing' = [writing EXCEPT ![r] = Entry(n, out)]
    BY <1>8 DEF Execute
  <2>2. pc[r] = "node"
    BY <1>8 DEF Execute, Ready
  <2>3. out \in W!Outputs
    BY <1>1, <2>2, CalledTypes, OutputType DEF Output
  <2>4. writing'[r].node = n /\ writing'[r].output = out /\ writing'[r] # HeaderLine
    BY <1>1, <2>1, NamesApart DEF TypeOK, Entry, HeaderLine
  <2>5. /\ pc'[r] = (IF Checkpointed(r) THEN "part" ELSE "emit")
        /\ UNCHANGED <<mode, base, loaded>>
    BY <1>1, <1>8 DEF Execute, Goto, runVars, ghosts, TypeOK
  <2>6. QED
    BY <1>1, <2>2, <2>3, <2>4, <2>5 DEF Placed, Checkpointed, Holds
<1>9. CASE WritePart(r) \/ WriteRest(r) \/ WriteNewline(r)
  <2>1. /\ pc[r] \in {"part", "rest", "newline"}
        /\ \/ pc'[r] \in {"rest", "newline"}
           \/ pc'[r] = "plan" /\ writing[r] = HeaderLine
           \/ pc'[r] = "emit" /\ writing[r] # HeaderLine
        /\ UNCHANGED <<mode, base, loaded, outputs, done, told, writing>>
    BY <1>1, <1>9 DEF WritePart, WriteRest, WriteNewline, Goto, runVars, ghosts, TypeOK
  <2>2. QED
    BY <1>1, <2>1 DEF Placed, Checkpointed, Holds
<1>10. CASE Emit(r)
  <2>1. pc[r] = "emit" /\ pc'[r] = "node" /\ UNCHANGED <<mode, base, loaded>>
    BY <1>1, <1>10 DEF Emit, Goto, runVars, ghosts, TypeOK
  <2>2. QED
    BY <1>1, <2>1 DEF Placed, Checkpointed, Holds
<1>11. QED
  BY <1>3, <1>4, <1>5, <1>6, <1>7, <1>8, <1>9, <1>10, StepCases

LEMMA FitsStep ==
  ASSUME BaseInv, NEW r \in Runs, Step(r)
  PROVE  FileFits'
<1>1. TypeOK /\ PlaceInv /\ Placed(r) /\ FileFits
  BY DEF BaseInv, PlaceInv
<1>2. job = None => ~Checkpointed(r) \/ pc[r] = "idle"
  BY <1>1 DEF FileFits
<1>3. pc[r] \in {"part", "rest", "newline"} => job # None
  BY <1>1, <1>2 DEF Placed
<1>4. CASE BeginPlain(r)
  <2>1. /\ mode'[r] \in {"run", "stream"} /\ UNCHANGED <<lines, tail, settled, job>>
    BY <1>1, <1>4 DEF BeginPlain, Call, fileVars, TypeOK
  <2>2. \A q \in Runs : q # r => pc'[q] = pc[q] /\ mode'[q] = mode[q]
    BY <1>1, Keeps
  <2>3. QED
    BY <1>1, <2>1, <2>2 DEF FileFits, Proper, Checkpointed
<1>5. CASE BeginCheckpointed(r)
  <2>1. job' # None
    BY <1>5, NamesApart DEF BeginCheckpointed
  <2>2. UNCHANGED <<lines, tail>>
    BY <1>5 DEF BeginCheckpointed, Call, fileVars
  <2>3. QED
    BY <1>1, <2>1, <2>2 DEF FileFits, Proper
<1>6. CASE UNCHANGED <<mode, lines, tail, job>> /\ pc[r] # "idle"
           /\ (settled' = settled \/ Checkpointed(r))
  <2>1. \A q \in Runs : pc'[q] # "idle" => pc[q] # "idle"
    BY <1>1, <1>6, Keeps
  <2>2. QED
    BY <1>1, <1>2, <1>6, <2>1 DEF FileFits, Proper, Checkpointed
<1>7. CASE WritePart(r) \/ WriteRest(r)
  <2>1. job' # None /\ lines' = lines
    BY <1>3, <1>7 DEF WritePart, WriteRest, ghosts
  <2>2. Proper(writing[r]) \/ WritePart(r)
    BY <1>1, <1>7, NamesApart DEF WriteRest, Placed, Holds, Proper, HeaderLine, Entry
  <2>3. Proper(NoLine)
    BY NamesApart DEF Proper, NoLine, Entry
  <2>4. tail'.line = NoLine \/ (tail'.line = writing[r] /\ WriteRest(r))
    BY <1>7 DEF WritePart, WriteRest
  <2>5. ~(WritePart(r) /\ WriteRest(r))
    BY DEF WritePart, WriteRest
  <2>6. QED
    BY <1>1, <2>1, <2>2, <2>3, <2>4, <2>5 DEF FileFits, Proper
<1>8. CASE WriteNewline(r)
  <2>1. job' # None /\ lines' = Append(lines, TailLine) /\ tail' = EmptyTail
    BY <1>3, <1>8 DEF WriteNewline, ghosts
  <2>2. Proper(TailLine) /\ Proper(EmptyTail.line)
    BY <1>1, NamesApart DEF Proper, TailLine, CorruptLine, Entry, FileFits, EmptyTail, NoLine
  <2>3. \A i \in DOMAIN lines' : lines'[i] = TailLine \/ (i \in DOMAIN lines /\ lines'[i] = lines[i])
    BY <1>1, <2>1, TextType DEF TypeOK
  <2>4. QED
    BY <1>1, <2>1, <2>2, <2>3 DEF FileFits, Proper
<1>9. QED
  BY <1>4, <1>5, <1>6, <1>7, <1>8, StepCases
     DEF Open, Plan, Skip, Reuse, Execute, Emit, Finish, Stop, Ready, Active, Settled,
         runVars, fileVars, ghosts

\* Being about to pass a node, as long as nothing else is passed.
LEMMA AheadFrame ==
  ASSUME NEW q \in Runs, Ahead(q),
         workflow'[q] = workflow[q], input'[q] = input[q], loaded'[q] = loaded[q],
         outputs'[q] = outputs[q], done'[q] = done[q], writing'[q] = writing[q],
         Holds(q)' => Holds(q)
  PROVE  Ahead(q)'
<1>1. PICK n : n = writing[q].node
  OBVIOUS
<1>2. (Skipped(q, n)' <=> Skipped(q, n)) /\ Output(q, n)' = Output(q, n)
  BY DEF Skipped, Output, W!Allowed, W!Incoming, W!EdgeAllows, W!OutputsOn, W!InputFor, W!Available, W!First
<1>3. CASE ~Holds(q) \/ writing[q] = HeaderLine
  BY <1>3 DEF Ahead, HeaderLine, Entry
<1>4. CASE Holds(q) /\ writing[q] # HeaderLine
  <2>1. /\ n \in workflow[q].nodes \ done[q]
        /\ W!Predecessors(workflow[q], n) \subseteq done[q]
        /\ ~Skipped(q, n)
        /\ loaded[q][n] = None
        /\ writing[q].output \in Output(q, n)
    BY <1>1, <1>4 DEF Ahead
  <2>2. /\ n \in workflow'[q].nodes \ done'[q]
        /\ W!Predecessors(workflow'[q], n) \subseteq done'[q]
        /\ ~Skipped(q, n)'
        /\ loaded'[q][n] = None
        /\ writing'[q].output \in Output(q, n)'
    BY <1>2, <2>1
  <2>3. writing'[q].node = n
    BY <1>1
  <2>4. QED
    BY <2>2, <2>3 DEF Ahead, W!Predecessors, W!Incoming
<1>5. QED
  BY <1>3, <1>4

LEMMA NodeStep ==
  ASSUME BaseInv, NEW r \in Runs, Step(r)
  PROVE  NodeInv'
<1>1. TypeOK /\ PlaceInv /\ NodeInv /\ Placed(r)
  BY DEF BaseInv, PlaceInv
<1>2. ASSUME NEW q \in Runs, q # r PROVE Ahead(q)'
  <2>1. /\ workflow'[q] = workflow[q] /\ input'[q] = input[q] /\ loaded'[q] = loaded[q]
        /\ outputs'[q] = outputs[q] /\ done'[q] = done[q] /\ writing'[q] = writing[q]
        /\ Holds(q)' => Holds(q)
    BY <1>1, <1>2, Keeps DEF Holds
  <2>2. QED
    BY <1>1, <2>1, AheadFrame DEF NodeInv
<1> SUFFICES Ahead(r)'
  BY <1>2 DEF NodeInv
<1>3. CASE WritePart(r) \/ WriteRest(r) \/ WriteNewline(r)
  <2>1. /\ workflow' = workflow /\ input' = input /\ loaded' = loaded
        /\ outputs' = outputs /\ done' = done /\ writing' = writing /\ Holds(r)
    BY <1>3 DEF WritePart, WriteRest, WriteNewline, Holds, runVars
  <2>2. QED
    BY <1>1, <2>1, AheadFrame DEF NodeInv
<1>4. CASE Open(r)
  <2>1. pc'[r] = "plan" \/ writing'[r] = HeaderLine
    BY <1>1, <1>4 DEF Open, Goto, TypeOK
  <2>2. QED
    BY <2>1 DEF Ahead, Holds, HeaderLine, Entry
<1>5. ASSUME NEW n \in Nodes, Execute(r, n) PROVE Ahead(r)'
  <2>1. PICK out \in Output(r, n) : writing' = [writing EXCEPT ![r] = Entry(n, out)]
    BY <1>5 DEF Execute
  <2>2. writing'[r].node = n /\ writing'[r].output = out
    BY <1>1, <2>1 DEF TypeOK, Entry
  <2>3. /\ n \in workflow[r].nodes \ done[r]
        /\ W!Predecessors(workflow[r], n) \subseteq done[r]
        /\ ~Skipped(r, n) /\ loaded[r][n] = None
    BY <1>5 DEF Execute, Ready
  <2>4. workflow' = workflow /\ input' = input /\ loaded' = loaded /\ outputs' = outputs /\ done' = done
    BY <1>5 DEF Execute, runVars
  <2>5. (Skipped(r, n)' <=> Skipped(r, n)) /\ Output(r, n)' = Output(r, n)
    <3>1. Skipped(r, n)' <=> Skipped(r, n)
      BY <2>4 DEF Skipped
    <3>2. Output(r, n)' = Output(r, n)
      BY <2>4 DEF Output
    <3>3. QED
      BY <3>1, <3>2
  <2>6. W!Predecessors(workflow'[r], n) = W!Predecessors(workflow[r], n)
    BY <2>4
  <2> DEFINE node == writing'[r].node  output == writing'[r].output
  <2>7. /\ node \in workflow'[r].nodes \ done'[r]
        /\ W!Predecessors(workflow'[r], node) \subseteq done'[r]
        /\ ~Skipped(r, n)' /\ n = node
        /\ loaded'[r][node] = None
        /\ output \in Output(r, n)'
    BY <2>1, <2>2, <2>3, <2>4, <2>5, <2>6
  <2>8. QED
    BY <2>7 DEF Ahead, W!Predecessors, W!Incoming
<1>6. CASE ~Holds(r)'
  BY <1>6 DEF Ahead, Holds
<1>7. BeginPlain(r) \/ BeginCheckpointed(r) \/ Plan(r) \/ Emit(r) \/ Finish(r) \/ Stop(r)
        \/ (\E n \in Nodes : Skip(r, n) \/ Reuse(r, n)) => ~Holds(r)'
  BY <1>1 DEF BeginPlain, BeginCheckpointed, Plan, Emit, Finish, Stop, Skip, Reuse, Ready, Goto,
              Holds, TypeOK
<1>8. QED
  BY <1>3, <1>4, <1>5, <1>6, <1>7, StepCases

LEMMA BaseInit == Init => BaseInv
<1> SUFFICES ASSUME Init PROVE BaseInv
  OBVIOUS
<1>1. W!NoOutputs \in States /\ EmptyTail.line = NoLine /\ NoLine \in Lines
  BY LineTypes DEF W!NoOutputs, States, EmptyTail
<1>2. EmptyTail \in [state : {"empty", "part", "whole", "garbage"},
                     by : Runs \union {None}, line : Lines]
  BY <1>1 DEF EmptyTail
<1>3. TypeOK
  <2>1. lines \in Seq(Lines)
    BY DEF Init
  <2>2. QED
    BY <1>1, <1>2, <2>1 DEF Init, TypeOK
<1>4. \A r \in Runs : pc[r] = "idle" /\ done[r] = {} /\ outputs[r] = W!NoOutputs
                      /\ told[r] = W!NoOutputs /\ base[r] = {} /\ loaded[r] = W!NoOutputs
  BY DEF Init
<1>5. NodeInv /\ \A r \in Runs : Placed(r)
  BY <1>4 DEF NodeInv, Ahead, Placed, Holds
<1>6. FileFits
  BY <1>1, <1>4, NamesApart DEF Init, FileFits, Proper, NoLine, Entry
<1>7. QED
  BY <1>3, <1>5, <1>6 DEF BaseInv, PlaceInv

LEMMA BaseStep ==
  ASSUME BaseInv, NEW r \in Runs, Step(r)
  PROVE  BaseInv'
  BY TypeStep, PlacedStep, FitsStep, NodeStep DEF BaseInv, PlaceInv

\* Steps that change nothing.
LEMMA BaseStutters ==
  ASSUME BaseInv, UNCHANGED vars
  PROVE  BaseInv'
<1>1. UNCHANGED <<pc, mode, workflow, input, loaded, outputs, done, writing, told, lines, tail,
                  job, settled, overlapped, mixed, cut, base, trusted>>
  BY DEF vars, runVars, fileVars, ghosts
<1>2. TypeOK'
  BY <1>1 DEF BaseInv, TypeOK
<1>3. FileFits' /\ \A r \in Runs : Placed(r)'
  BY <1>1 DEF BaseInv, PlaceInv, FileFits, Placed, Checkpointed, Holds, Proper
<1>4. NodeInv'
  BY <1>1, AheadFrame DEF BaseInv, NodeInv, Holds
<1>5. QED
  BY <1>2, <1>3, <1>4 DEF BaseInv, PlaceInv

----------------------------------------------------------------------------
(* The file, used by one run at a time.                                    *)

LEMMA TextAppend ==
  ASSUME NEW text \in Seq(Lines), NEW line \in Lines
  PROVE  /\ NodesIn(Append(text, line)) = NodesIn(text) \union ({line.node} \intersect Nodes)
         /\ NoTwice(Append(text, line)) => NoTwice(text)
         /\ NoTwice(text) /\ line.node \notin NodesIn(text) => NoTwice(Append(text, line))
<1> DEFINE longer == Append(text, line)
<1>1. /\ longer[Len(text) + 1] = line /\ \A i \in DOMAIN text : longer[i] = text[i]
      /\ DOMAIN longer = 1..(Len(text) + 1) /\ DOMAIN text = 1..Len(text)
      /\ Len(text) \in Nat
  OBVIOUS
<1> HIDE DEF longer
<1>2. /\ DOMAIN longer = DOMAIN text \union {Len(text) + 1}
      /\ Len(text) + 1 \notin DOMAIN text
  BY <1>1
<1>3. NodesIn(longer) = NodesIn(text) \union ({line.node} \intersect Nodes)
  BY <1>1, <1>2 DEF NodesIn
<1>4. NoTwice(longer) => NoTwice(text)
  BY <1>1, <1>2 DEF NoTwice
<1>5. ASSUME NoTwice(text), line.node \notin NodesIn(text) PROVE NoTwice(longer)
  <2>1. \A i \in DOMAIN text : text[i].node \in Nodes => text[i].node # line.node
    BY <1>5 DEF NodesIn
  <2>2. QED
    BY <1>1, <1>2, <1>5, <2>1 DEF NoTwice
<1>6. QED
  BY <1>3, <1>4, <1>5 DEF longer

\* A node has a recorded output exactly when it has a line.
LEMMA RecordedNodes ==
  ASSUME BaseInv
  PROVE  \A n \in Nodes : /\ n \in NodesIn(Text) => Recorded[n] \in W!Outputs
                          /\ n \notin NodesIn(Text) => Recorded[n] = None
<1>1. Text \in Seq(Lines) /\ TypeOK
  BY TextType DEF BaseInv
<1>2. \A i \in DOMAIN Text : Proper(Text[i])
  <2>1. \A i \in DOMAIN lines : Proper(lines[i])
    BY DEF BaseInv, PlaceInv, FileFits
  <2>2. Proper(TailLine) /\ TailLine \in Lines
    BY <1>1, NamesApart, TextType DEF BaseInv, PlaceInv, FileFits, Proper, TailLine, CorruptLine, Entry
  <2>3. CASE tail.state = "empty"
    BY <2>1, <2>3 DEF Text
  <2>4. CASE tail.state # "empty"
    <3>1. Text = Append(lines, TailLine) /\ lines \in Seq(Lines)
      BY <1>1, <2>4 DEF Text, TypeOK
    <3>2. \A i \in DOMAIN Text : Text[i] = TailLine \/ (i \in DOMAIN lines /\ Text[i] = lines[i])
      BY <2>2, <3>1
    <3>3. QED
      BY <2>1, <2>2, <3>2
  <2>5. QED
    BY <2>3, <2>4
<1>3. ASSUME NEW n \in Nodes
      PROVE  /\ n \in NodesIn(Text) => Recorded[n] \in W!Outputs
             /\ n \notin NodesIn(Text) => Recorded[n] = None
  <2>1. Recorded[n] = Latest(Text, n)
    BY DEF Recorded, Records
  <2>2. n \in NodesIn(Text) => \E i \in DOMAIN Text : Text[i].node = n
    BY DEF NodesIn
  <2>3. n \notin NodesIn(Text) => \A i \in DOMAIN Text : Text[i].node # n
    BY DEF NodesIn
  <2>4. QED
    BY <1>1, <1>2, <2>1, <2>2, <2>3, LatestFound DEF Proper
<1>4. QED
  BY <1>3

\* How the text of the file changes.
LEMMA TextSteps ==
  ASSUME BaseInv, NEW r \in Runs, Step(r)
  PROVE  /\ \/ Text' = Text
            \/ WritePart(r) /\ Text' = Append(lines, CorruptLine)
            \/ /\ WriteRest(r)
               /\ Text' = Append(lines, IF tail.state = "part" /\ tail.by = r
                                        THEN writing[r] ELSE CorruptLine)
            \/ WriteNewline(r) /\ tail.state = "empty"
         /\ Text = lines \/ Text = Append(lines, TailLine)
         /\ lines \in Seq(Lines) /\ TailLine \in Lines
<1>1. TypeOK /\ lines \in Seq(Lines) /\ TailLine \in Lines
  BY TextType DEF BaseInv, TypeOK
<1>2. Text = lines \/ Text = Append(lines, TailLine)
  BY DEF Text
<1>3. ASSUME UNCHANGED <<lines, tail>> PROVE Text' = Text
  BY <1>3 DEF Text, TailLine
<1>4. CASE WritePart(r)
  <2>1. lines' = lines /\ tail'.state \in {"part", "garbage"}
    BY <1>4 DEF WritePart
  <2>2. Text' = Append(lines, CorruptLine)
    BY <2>1 DEF Text, TailLine, CorruptLine, Entry
  <2>3. QED
    BY <1>1, <1>2, <1>4, <2>2
<1>5. CASE WriteRest(r)
  <2> DEFINE own == tail.state = "part" /\ tail.by = r
  <2>1. /\ lines' = lines
        /\ own => tail'.state = "whole" /\ tail'.line = writing[r]
        /\ ~own => tail'.state = "garbage"
    BY <1>5 DEF WriteRest
  <2>2. Text' = Append(lines, IF own THEN writing[r] ELSE CorruptLine)
    BY <2>1 DEF Text, TailLine, CorruptLine, Entry
  <2>3. QED
    BY <1>1, <1>2, <1>5, <2>2
<1>6. CASE WriteNewline(r) /\ tail.state # "empty"
  <2>1. lines' = Append(lines, TailLine) /\ tail'.state = "empty"
    BY <1>6 DEF WriteNewline, EmptyTail
  <2>2. Text' = Text
    BY <1>6, <2>1 DEF Text
  <2>3. QED
    BY <1>1, <1>2, <2>2
<1>7. CASE BeginPlain(r) \/ BeginCheckpointed(r) \/ Open(r) \/ Plan(r) \/ Emit(r) \/ Finish(r)
           \/ Stop(r) \/ \E n \in Nodes : Skip(r, n) \/ Reuse(r, n) \/ Execute(r, n)
  <2>1. UNCHANGED <<lines, tail>>
    BY <1>7 DEF BeginPlain, BeginCheckpointed, Call, Open, Plan, Emit, Finish, Stop, Skip, Reuse,
                Execute, fileVars
  <2>2. QED
    BY <1>1, <1>2, <1>3, <2>1
<1>8. QED
  BY <1>1, <1>2, <1>4, <1>5, <1>6, <1>7, StepCases

\* Who uses the file: a run begins to, goes on, or ends.
LEMMA Users ==
  ASSUME BaseInv, NEW r \in Runs, Step(r)
  PROVE  /\ \A q \in Runs : OnFile(q)' => OnFile(q) \/ (q = r /\ BeginCheckpointed(r))
         /\ overlapped => overlapped'
         /\ BeginCheckpointed(r) /\ ~overlapped' => \A q \in Runs : ~OnFile(q)
         /\ WritePart(r) \/ WriteRest(r) \/ WriteNewline(r) => OnFile(r)
         /\ \A q \in Runs : pc[q] \in {"part", "rest", "newline"} => OnFile(q)
<1>1. TypeOK /\ \A q \in Runs : Placed(q)
  BY DEF BaseInv, PlaceInv
<1>2. ASSUME NEW q \in Runs, OnFile(q)' PROVE OnFile(q) \/ (q = r /\ BeginCheckpointed(r))
  <2>1. CASE pc[q] # "idle"
    <3>1. mode'[q] = mode[q] /\ (Active(q)' => Active(q))
      <4>1. pc[q] \in {"finished", "stopped"} => pc'[q] = pc[q]
        <5>1. q = r => pc[q] \notin {"finished", "stopped"}
          BY <2>1, StepCases DEF BeginPlain, BeginCheckpointed, Call, Open, Plan, Skip, Reuse, Execute,
             Ready, WritePart, WriteRest, WriteNewline, Emit, Finish, Stop, Active
        <5>2. QED
          BY <1>1, <5>1, Keeps
      <4>2. QED
        BY <1>1, <2>1, <4>1, Keeps DEF Active
    <3>2. QED
      BY <1>2, <3>1 DEF OnFile, Checkpointed
  <2>2. CASE pc[q] = "idle"
    <3>1. q = r /\ (BeginPlain(r) \/ BeginCheckpointed(r))
      <4>1. q = r
        BY <1>1, <1>2, <2>2, Keeps DEF OnFile, Active
      <4>2. QED
        BY <2>2, <4>1, StepCases DEF Open, Plan, Skip, Reuse, Execute,
             Ready, WritePart, WriteRest, WriteNewline, Emit, Finish, Stop, Active
    <3>2. BeginPlain(r) => mode'[r] \in {"run", "stream"}
      BY <1>1 DEF BeginPlain, Call, TypeOK
    <3>3. QED
      BY <1>2, <3>1, <3>2 DEF OnFile, Checkpointed
  <2>3. QED
    BY <2>1, <2>2
<1>3. overlapped => overlapped'
  BY StepCases DEF BeginPlain, BeginCheckpointed, Call, Open, Plan, Skip, Reuse, Execute,
             WritePart, WriteRest, WriteNewline, Emit, Finish, Stop, ghosts
<1>4. BeginCheckpointed(r) /\ ~overlapped' => \A q \in Runs : ~OnFile(q)
  BY DEF BeginCheckpointed, OnFile
<1>5. \A q \in Runs : pc[q] \in {"part", "rest", "newline"} => OnFile(q)
  BY <1>1 DEF Placed, OnFile, Active
<1>6. WritePart(r) \/ WriteRest(r) \/ WriteNewline(r) => OnFile(r)
  BY <1>5 DEF WritePart, WriteRest, WriteNewline
<1>7. QED
  BY <1>2, <1>3, <1>4, <1>5, <1>6

LEMMA SoloStep ==
  ASSUME BaseInv, SoloInv, NEW r \in Runs, Step(r)
  PROVE  SoloInv'
<1> SUFFICES ASSUME ~overlapped'
             PROVE  /\ OneUser'
                    /\ NoTwice(Text')
                    /\ \A q \in Runs : Accounted(q)' /\ TailFits(q)'
  BY DEF SoloInv, NoTwice
<1>1. /\ TypeOK /\ Placed(r) /\ Ahead(r) /\ ~overlapped /\ OneUser /\ NoTwice(Text)
      /\ \A q \in Runs : Accounted(q) /\ TailFits(q)
  BY Users DEF SoloInv, BaseInv, PlaceInv, NodeInv
<1>2. OneUser'
  BY <1>1, Users DEF OneUser
<1>3. Text = lines \/ Text = Append(lines, TailLine)
  BY TextSteps
<1>4. lines \in Seq(Lines) /\ TailLine \in Lines /\ writing[r] \in Lines /\ CorruptLine \in Lines
  BY <1>1, TextSteps, LineTypes DEF TypeOK
<1>5. NoTwice(lines) /\ NodesIn(lines) \subseteq NodesIn(Text)
  BY <1>1, <1>3, <1>4, TextAppend
<1>6. WriteNewline(r) => tail.state # "empty"
  BY <1>1 DEF WriteNewline, TailFits
<1>7. WriteRest(r) => writing[r].node \notin NodesIn(lines)
  <2> SUFFICES ASSUME WriteRest(r), writing[r].node \in NodesIn(lines) PROVE FALSE
    OBVIOUS
  <2>1. writing[r].node \in Nodes /\ pc[r] = "rest" /\ OnFile(r) /\ writing[r].node \in NodesIn(Text)
    BY <1>5, Users DEF NodesIn, WriteRest
  <2>2. writing[r] # HeaderLine
    BY <2>1, NamesApart DEF HeaderLine, Entry
  <2>3. writing[r].node \notin done[r] /\ loaded[r][writing[r].node] = None
    BY <1>1, <2>1, <2>2 DEF Ahead, Holds
  <2>4. QED
    BY <1>1, <2>1, <2>3 DEF Accounted, InHand
<1>8. CorruptLine.node \notin Nodes
  BY NamesApart DEF CorruptLine, Entry
<1>9. \/ Text' = Text
      \/ WritePart(r) /\ Text' = Append(lines, CorruptLine)
      \/ WriteRest(r) /\ (Text' = Append(lines, CorruptLine) \/ Text' = Append(lines, writing[r]))
  BY <1>6, TextSteps
<1>10. /\ NoTwice(Text')
       /\ NodesIn(Text') \subseteq NodesIn(Text) \union (IF WriteRest(r) THEN {writing[r].node} ELSE {})
  <2> DEFINE corrupted == Append(lines, CorruptLine)
             written == Append(lines, writing[r])
  <2>1. NodesIn(corrupted) \subseteq NodesIn(Text)
    BY <1>4, <1>5, <1>8, TextAppend
  <2>2. NoTwice(corrupted)
    <3>1. CorruptLine.node \notin NodesIn(lines)
      BY <1>8 DEF NodesIn
    <3>2. QED
      BY <1>4, <1>5, <3>1, TextAppend
  <2>3. NodesIn(written) \subseteq NodesIn(Text) \union {writing[r].node}
    BY <1>4, <1>5, TextAppend
  <2>4. WriteRest(r) => NoTwice(written)
    BY <1>4, <1>5, <1>7, TextAppend
  <2> HIDE DEF corrupted, written
  <2>5. \/ Text' = Text \/ Text' = corrupted
        \/ WriteRest(r) /\ Text' = written
    BY <1>9 DEF corrupted, written
  <2> DEFINE text == Text'
  <2>6. text = Text \/ text = corrupted \/ (WriteRest(r) /\ text = written)
    BY <2>5
  <2> HIDE DEF text
  <2>7. NoTwice(text)
    BY <1>1, <2>2, <2>4, <2>6
  <2>8. NodesIn(text) \subseteq NodesIn(Text) \union (IF WriteRest(r) THEN {writing[r].node} ELSE {})
    BY <2>1, <2>3, <2>6
  <2>9. QED
    BY <2>7, <2>8 DEF text
<1>11. NodesIn(Text') \subseteq NodesIn(Text) \union (IF WriteRest(r) THEN {writing[r].node} ELSE {})
  BY <1>10
<1>12. ASSUME NEW q \in Runs, q # r PROVE Accounted(q)' /\ TailFits(q)'
  <2>1. OnFile(q)' => OnFile(q)
    BY <1>12, Users
  <2>2. OnFile(q)' => ~WritePart(r) /\ ~WriteRest(r) /\ ~WriteNewline(r)
    BY <1>1, <1>12, <2>1, Users DEF OneUser
  <2>3. /\ pc'[q] = pc[q] /\ loaded'[q] = loaded[q] /\ done'[q] = done[q] /\ writing'[q] = writing[q]
    BY <1>1, <1>12, Keeps
  <2>4. OnFile(q)' => Text' = Text
    BY <1>9, <2>2
  <2>5. Accounted(q)'
    <3> SUFFICES ASSUME OnFile(q)'
                 PROVE  NodesIn(Text') \subseteq
                          {n \in Nodes : loaded'[q][n] # None} \union done'[q] \union InHand(q)'
      BY DEF Accounted, NodesIn
    <3>1. NodesIn(Text) \subseteq {n \in Nodes : loaded[q][n] # None} \union done[q] \union InHand(q)
      BY <1>1, <2>1 DEF Accounted
    <3>2. InHand(q)' = InHand(q)
      BY <2>3 DEF InHand
    <3>3. QED
      BY <2>3, <2>4, <3>1, <3>2
  <2>6. pc[q] \in {"rest", "newline"} => OnFile(q)
    BY Users
  <2>7. pc[q] \in {"rest", "newline"} => ~WritePart(r) /\ ~WriteRest(r) /\ ~WriteNewline(r)
    BY <1>1, <1>12, <2>6, Users DEF OneUser
  <2>8. ~WritePart(r) /\ ~WriteRest(r) /\ ~WriteNewline(r) => tail' = tail
    BY StepCases DEF BeginPlain, BeginCheckpointed, Call, Open, Plan, Emit, Finish, Stop, Skip, Reuse,
                Execute, fileVars
  <2>9. TailFits(q)'
    BY <1>1, <2>3, <2>7, <2>8 DEF TailFits
  <2>10. QED
    BY <2>5, <2>9
<1>13. TailFits(r)'
  <2>1. CASE WritePart(r)
    <3>1. pc'[r] = "rest" /\ (tail'.state = "garbage" \/ (tail'.state = "part" /\ tail'.by = r))
      BY <1>1, <2>1 DEF WritePart, Goto, TypeOK
    <3>2. QED
      BY <3>1 DEF TailFits
  <2>2. CASE WriteRest(r)
    <3>1. /\ pc'[r] = "newline" /\ writing' = writing
          /\ tail'.state = "garbage" \/ (tail'.state = "whole" /\ tail'.line = writing[r])
      BY <1>1, <2>2 DEF WriteRest, Goto, TypeOK
    <3>2. QED
      BY <3>1 DEF TailFits
  <2>3. CASE pc'[r] \notin {"rest", "newline"}
    BY <2>3 DEF TailFits
  <2>4. QED
    BY <1>1, <2>1, <2>2, <2>3, StepCases DEF BeginPlain, BeginCheckpointed, Open, Plan, Emit, Finish,
       Stop, Skip, Reuse, Execute, Ready, WriteNewline, Goto, TypeOK
<1>14. Accounted(r)'
  <2> SUFFICES ASSUME OnFile(r)'
               PROVE  NodesIn(Text') \subseteq
                        {n \in Nodes : loaded'[r][n] # None} \union done'[r] \union InHand(r)'
    BY DEF Accounted, NodesIn
  <2>1. NodesIn(Text') \subseteq Nodes
    BY DEF NodesIn
  <2>2. CASE BeginCheckpointed(r)
    <3>1. loaded'[r] = Recorded
      BY <1>1, <2>2 DEF BeginCheckpointed, Goto, OnFile, Active, TypeOK
    <3>2. Text' = Text
      BY <1>9, <2>2 DEF BeginCheckpointed, Call, WritePart, WriteRest
    <3>3. QED
      BY <2>1, <3>1, <3>2, RecordedNodes, NamesApart
  <2>3. CASE ~BeginCheckpointed(r)
    <3>1. NodesIn(Text) \subseteq {n \in Nodes : loaded[r][n] # None} \union done[r] \union InHand(r)
      BY <1>1, <2>3, Users DEF Accounted
    <3>2. OnFile(r) /\ loaded'[r] = loaded[r]
      BY <1>1, <2>3, Users, Keeps DEF OnFile, Active
    <3>3. CASE WriteRest(r)
      <4>1. InHand(r)' = {writing[r].node} /\ done' = done /\ InHand(r) = {}
        BY <1>1, <3>3 DEF WriteRest, InHand, Goto, TypeOK
      <4>2. QED
        BY <1>11, <3>1, <3>2, <4>1
    <3>4. CASE ~WriteRest(r) /\ InHand(r) = {}
      <4>1. done[r] \subseteq done'[r]
        <5>1. \/ done' = done
              \/ \E n \in Nodes : done' = [done EXCEPT ![r] = @ \union {n}]
              \/ Emit(r)
          BY StepCases DEF BeginPlain, BeginCheckpointed, Call, Open, Plan, Finish, Stop, Skip, Reuse,
             Execute, Pass, WritePart, WriteRest, WriteNewline
        <5>2. Emit(r) => InHand(r) # {}
          BY DEF Emit, InHand
        <5>3. QED
          BY <1>1, <3>4, <5>1, <5>2 DEF TypeOK
      <4>2. QED
        BY <1>11, <3>1, <3>2, <3>4, <4>1
    <3>5. CASE WriteNewline(r)
      <4>1. pc[r] = "newline" /\ InHand(r) = {writing[r].node} /\ done' = done /\ writing' = writing
        BY <3>5 DEF WriteNewline, InHand
      <4>2. CASE writing[r] = HeaderLine
        <5>1. writing[r].node \notin Nodes
          BY <4>2, NamesApart DEF HeaderLine, Entry
        <5>2. ~WriteRest(r)
          BY <4>1 DEF WriteRest
        <5>3. QED
          BY <1>11, <2>1, <3>1, <3>2, <4>1, <5>1, <5>2
      <4>3. CASE writing[r] # HeaderLine
        <5>1. pc'[r] = "emit"
          BY <1>1, <3>5, <4>3 DEF WriteNewline, Goto, TypeOK
        <5>2. InHand(r)' = {writing[r].node}
          BY <4>1, <5>1 DEF InHand
        <5>3. ~WriteRest(r)
          BY <4>1 DEF WriteRest
        <5>4. QED
          BY <1>11, <3>1, <3>2, <4>1, <5>2, <5>3
      <4>4. QED
        BY <4>2, <4>3
    <3>6. CASE Emit(r)
      <4>1. InHand(r) = {writing[r].node} /\ done'[r] = done[r] \union {writing[r].node}
        BY <1>1, <3>6 DEF Emit, InHand, Pass, TypeOK
      <4>2. ~WriteRest(r)
        BY <3>6 DEF Emit, WriteRest
      <4>3. QED
        BY <1>11, <3>1, <3>2, <4>1, <4>2
    <3>7. InHand(r) = {} \/ pc[r] \in {"newline", "emit"}
      BY DEF InHand
    <3>8. pc[r] \in {"newline", "emit"} => WriteNewline(r) \/ Emit(r) \/ Stop(r)
      BY StepCases DEF BeginPlain, BeginCheckpointed, Call, Open, Plan, Finish, Skip, Reuse,
             Execute, Ready, WritePart, WriteRest
    <3>9. ~Stop(r)
      BY <1>1 DEF Stop, OnFile, Active, Goto, TypeOK
    <3>10. QED
      BY <3>3, <3>4, <3>5, <3>6, <3>7, <3>8, <3>9
  <2>4. QED
    BY <2>2, <2>3
<1>15. QED
  BY <1>2, <1>10, <1>12, <1>13, <1>14

LEMMA SoloInit == Init => SoloInv
<1> SUFFICES ASSUME Init PROVE SoloInv
  OBVIOUS
<1>1. \A r \in Runs : pc[r] = "idle"
  BY DEF Init
<1>2. Text = <<>>
  BY DEF Init, Text, EmptyTail
<1>3. QED
  BY <1>1, <1>2 DEF SoloInv, OneUser, OnFile, Active, NoTwice, Accounted, TailFits

\* As long as the file stays intact, only the end of a line changes what is recorded.
LEMMA IntactSteps ==
  ASSUME BaseInv, NEW r \in Runs, Step(r), Intact'
  PROVE  /\ Intact
         /\ WriteRest(r) => tail.state = "part" /\ tail.by = r
         /\ \A n \in Nodes :
              Recorded'[n] = IF WriteRest(r) /\ n = writing[r].node THEN writing[r].output
                             ELSE Recorded[n]
<1>1. /\ TypeOK /\ lines \in Seq(Lines) /\ TailLine \in Lines /\ writing[r] \in Lines
      /\ CorruptLine \in Lines /\ CorruptLine.node = Corrupt /\ Corrupt \notin Nodes
  BY TextType, LineTypes, NamesApart DEF BaseInv, TypeOK, CorruptLine, Entry
<1>2. \A n \in Nodes : Recorded'[n] = Latest(Text', n) /\ Recorded[n] = Latest(Text, n)
  BY DEF Recorded, Records
<1>3. CASE WritePart(r)
  <2>1. lines' = lines /\ tail'.state # "garbage"
    BY <1>3 DEF WritePart, Intact
  <2>2. tail.state = "empty"
    BY <1>3, <2>1 DEF WritePart
  <2>3. Text = lines
    BY <2>2 DEF Text
  <2>4. tail'.state = "part"
    BY <1>3, <2>2 DEF WritePart
  <2>5. Text' = Append(lines, CorruptLine)
    BY <2>1, <2>4 DEF Text, TailLine, CorruptLine, Entry
  <2>6. \A n \in Nodes : Latest(Append(lines, CorruptLine), n) = Latest(lines, n)
    BY <1>1, LatestAppend
  <2>7. \A n \in Nodes : Recorded'[n] = Recorded[n]
    BY <1>2, <2>3, <2>5, <2>6
  <2>8. Intact /\ ~WriteRest(r)
    BY <1>3, <2>1, <2>2 DEF Intact, WritePart, WriteRest
  <2>9. QED
    BY <2>7, <2>8
<1>4. CASE WriteRest(r)
  <2>1. lines' = lines /\ tail'.state # "garbage"
    BY <1>4 DEF WriteRest, Intact
  <2>2. tail.state = "part" /\ tail.by = r
    BY <1>4, <2>1 DEF WriteRest
  <2>3. tail'.state = "whole" /\ tail'.line = writing[r]
    BY <1>4, <2>2 DEF WriteRest
  <2>4. Text = Append(lines, CorruptLine) /\ Text' = Append(lines, writing[r])
    BY <2>1, <2>2, <2>3 DEF Text, TailLine, CorruptLine, Entry
  <2>5. \A n \in Nodes : /\ Latest(Append(lines, CorruptLine), n) = Latest(lines, n)
                         /\ Latest(Append(lines, writing[r]), n) =
                              IF writing[r].node = n THEN writing[r].output ELSE Latest(lines, n)
    BY <1>1, LatestAppend
  <2>6. \A n \in Nodes :
              Recorded'[n] = IF n = writing[r].node THEN writing[r].output ELSE Recorded[n]
    BY <1>2, <2>4, <2>5
  <2>7. Intact
    BY <2>1, <2>2 DEF Intact
  <2>8. QED
    BY <1>4, <2>2, <2>6, <2>7
<1>5. CASE WriteNewline(r)
  <2>1. lines' = Append(lines, TailLine)
    BY <1>5 DEF WriteNewline
  <2>2. Len(lines) + 1 \in DOMAIN lines' /\ lines'[Len(lines) + 1] = TailLine
    BY <1>1, <2>1
  <2>3. \A i \in DOMAIN lines : i \in DOMAIN lines' /\ lines'[i] = lines[i]
    BY <1>1, <2>1
  <2>4. TailLine.node # Corrupt
    BY <2>2 DEF Intact
  <2>5. tail.state = "whole"
    BY <1>1, <2>4 DEF TailLine
  <2>6. Intact /\ ~WriteRest(r)
    BY <1>5, <2>3, <2>5 DEF Intact, WriteNewline, WriteRest
  <2>7. Text' = Text
    BY <2>5, <2>6, <1>5, TextSteps DEF WritePart, WriteNewline
  <2>8. QED
    BY <1>2, <2>6, <2>7
<1>6. CASE ~WritePart(r) /\ ~WriteRest(r) /\ ~WriteNewline(r)
  <2>1. UNCHANGED <<lines, tail>>
    BY <1>6, StepCases DEF BeginPlain, BeginCheckpointed, Call, Open, Plan, Emit, Finish, Stop, Skip, Reuse,
                Execute, fileVars
  <2>2. Intact
    BY <2>1 DEF Intact
  <2>3. Text' = Text
    BY <1>6, <2>1 DEF Text, TailLine
  <2>4. QED
    BY <1>2, <1>6, <2>2, <2>3
<1>7. QED
  BY <1>3, <1>4, <1>5, <1>6

\* What a run is about to write has no line yet.
LEMMA Unwritten ==
  ASSUME BaseInv, SoloInv, ~overlapped, NEW r \in Runs, pc[r] \in {"part", "rest"},
         writing[r] # HeaderLine
  PROVE  /\ writing[r].node \in Nodes /\ writing[r].output \in W!Outputs
         /\ writing[r].node \notin done[r] /\ loaded[r][writing[r].node] = None
         /\ Recorded[writing[r].node] = None
<1>1. OnFile(r) /\ Accounted(r) /\ Ahead(r) /\ Placed(r) /\ InHand(r) = {}
  BY DEF BaseInv, PlaceInv, NodeInv, SoloInv, OnFile, Placed, Active, InHand
<1>2. writing[r].node \in Nodes /\ writing[r].output \in W!Outputs
  BY <1>1 DEF Placed, Holds
<1>3. writing[r].node \notin done[r] /\ loaded[r][writing[r].node] = None
  BY <1>1 DEF Ahead, Holds
<1>4. writing[r].node \notin NodesIn(Text)
  BY <1>1, <1>3 DEF Accounted
<1>5. QED
  BY <1>2, <1>3, <1>4, RecordedNodes

\* Which steps leave the file and what a run holds alone.
LEMMA QuietSteps ==
  ASSUME BaseInv, NEW r \in Runs, Step(r)
  PROVE  /\ ~WritePart(r) /\ ~WriteRest(r) /\ ~WriteNewline(r) => lines' = lines /\ tail' = tail
         /\ WritePart(r) \/ WriteRest(r) => lines' = lines
         /\ (\A n \in Nodes : ~Execute(r, n)) /\ ~Open(r) => writing' = writing
         /\ pc[r] = "rest" => WriteRest(r) \/ Stop(r)
         /\ pc[r] = "newline" => WriteNewline(r) \/ Stop(r)
         /\ cut => cut'
         /\ Stop(r) /\ pc[r] \in {"rest", "newline"} => cut'
<1>1. ~WritePart(r) /\ ~WriteRest(r) /\ ~WriteNewline(r) => lines' = lines /\ tail' = tail
  BY StepCases DEF BeginPlain, BeginCheckpointed, Call, Open, Plan, Emit, Finish, Stop, Skip, Reuse,
                Execute, fileVars
<1>2. WritePart(r) \/ WriteRest(r) => lines' = lines
  BY DEF WritePart, WriteRest
<1>3. (\A n \in Nodes : ~Execute(r, n)) /\ ~Open(r) => writing' = writing
  BY StepCases DEF BeginPlain, BeginCheckpointed, Call, Plan, Emit, Finish, Stop, Skip, Reuse,
                WritePart, WriteRest, WriteNewline
<1>4. pc[r] = "rest" => WriteRest(r) \/ Stop(r)
  BY StepCases DEF BeginPlain, BeginCheckpointed, Call, Open, Plan, Emit, Finish, Skip, Reuse,
                Execute, Ready, WritePart, WriteNewline
<1>5. pc[r] = "newline" => WriteNewline(r) \/ Stop(r)
  BY StepCases DEF BeginPlain, BeginCheckpointed, Call, Open, Plan, Emit, Finish, Skip, Reuse,
                Execute, Ready, WritePart, WriteRest
<1>6. cut => cut'
  BY StepCases DEF BeginPlain, BeginCheckpointed, Call, Open, Plan, Emit, Finish, Stop, Skip, Reuse,
                Execute, WritePart, WriteRest, WriteNewline, ghosts
<1>7. Stop(r) /\ pc[r] \in {"rest", "newline"} => cut'
  BY DEF Stop
<1>8. QED
  BY <1>1, <1>2, <1>3, <1>4, <1>5, <1>6, <1>7

\* What the file's condition asks of one run.
Kept(r) ==
  /\ pc[r] \in {"part", "rest", "newline"} /\ writing[r] = HeaderLine => lines = <<>>
  /\ OnFile(r) => \A n \in Nodes : loaded[r][n] # None => Recorded[n] = loaded[r][n]
  /\ OnFile(r) /\ pc[r] \in {"newline", "emit"} /\ writing[r] # HeaderLine =>
       Recorded[writing[r].node] = writing[r].output
  /\ pc[r] # "idle" /\ Checkpointed(r) =>
       \A n \in Nodes : told[r][n] # None => Recorded[n] = told[r][n]

\* The lines stay records, and no line is damaged.
LEMMA WholeFile ==
  ASSUME BaseInv, SoloInv, WholeInv, NEW r \in Runs, Step(r), ~overlapped', ~cut'
  PROVE  /\ \A i \in DOMAIN lines' : lines'[i].node \in Nodes \/ (i = 1 /\ lines'[i] = HeaderLine)
         /\ tail'.state # "garbage"
         /\ tail' # EmptyTail => \E q \in Runs : pc'[q] \in {"rest", "newline"}
         /\ Intact'
<1>1. /\ TypeOK /\ Placed(r) /\ ~overlapped /\ ~cut /\ OneUser /\ TailFits(r)
      /\ \A i \in DOMAIN lines : lines[i].node \in Nodes \/ (i = 1 /\ lines[i] = HeaderLine)
      /\ tail.state # "garbage"
      /\ tail # EmptyTail => \E q \in Runs : pc[q] \in {"rest", "newline"}
      /\ pc[r] \in {"part", "rest", "newline"} /\ writing[r] = HeaderLine => lines = <<>>
  BY Users, QuietSteps DEF BaseInv, PlaceInv, SoloInv, WholeInv
<1>2. WritePart(r) => tail = EmptyTail
  <2> SUFFICES ASSUME WritePart(r), NEW q \in Runs, pc[q] \in {"rest", "newline"} PROVE FALSE
    BY <1>1
  <2>1. OnFile(q) /\ OnFile(r)
    BY Users
  <2>2. q = r
    BY <1>1, <2>1 DEF OneUser
  <2>3. QED
    BY <2>2 DEF WritePart
<1>3. WriteRest(r) => tail.state = "part" /\ tail.by = r
  BY <1>1 DEF WriteRest, TailFits
<1>4. WriteNewline(r) => tail.state = "whole" /\ tail.line = writing[r]
  BY <1>1 DEF WriteNewline, TailFits
<1>5. \A i \in DOMAIN lines' : lines'[i].node \in Nodes \/ (i = 1 /\ lines'[i] = HeaderLine)
  <2>1. CASE WriteNewline(r)
    <3>1. TailLine = writing[r] /\ lines' = Append(lines, writing[r]) /\ pc[r] = "newline"
      BY <1>4, <2>1 DEF WriteNewline, TailLine
    <3>2. CASE writing[r] = HeaderLine
      <4>1. lines = <<>>
        BY <1>1, <3>1, <3>2
      <4>2. lines' = <<HeaderLine>>
        BY <3>1, <3>2, <4>1
      <4>3. QED
        BY <4>2
    <3>3. CASE writing[r] # HeaderLine
      <4>1. writing[r].node \in Nodes
        BY <1>1, <3>1, <3>3 DEF Placed, Holds
      <4>2. lines \in Seq(Lines)
        BY <1>1 DEF TypeOK
      <4>3. \A i \in DOMAIN lines' : lines'[i] = writing[r] \/ (i \in DOMAIN lines /\ lines'[i] = lines[i])
        BY <3>1, <4>2
      <4>4. QED
        BY <1>1, <4>1, <4>3
    <3>4. QED
      BY <3>2, <3>3
  <2>2. CASE ~WriteNewline(r)
    <3>1. lines' = lines
      BY <2>2, QuietSteps
    <3>2. QED
      BY <1>1, <3>1
  <2>3. QED
    BY <2>1, <2>2
<1>6. tail'.state # "garbage"
  <2>1. WritePart(r) => tail'.state = "part"
    BY <1>2 DEF WritePart, EmptyTail
  <2>2. WriteRest(r) => tail'.state = "whole"
    BY <1>3 DEF WriteRest
  <2>3. WriteNewline(r) => tail'.state = "empty"
    BY DEF WriteNewline, EmptyTail
  <2>4. QED
    BY <1>1, <2>1, <2>2, <2>3, QuietSteps
<1>7. ASSUME tail' # EmptyTail PROVE \E q \in Runs : pc'[q] \in {"rest", "newline"}
  <2>1. CASE WritePart(r) \/ WriteRest(r)
    BY <1>1, <2>1 DEF WritePart, WriteRest, Goto, TypeOK
  <2>2. CASE WriteNewline(r)
    BY <1>7, <2>2 DEF WriteNewline
  <2>3. CASE ~WritePart(r) /\ ~WriteRest(r) /\ ~WriteNewline(r)
    <3>1. PICK q \in Runs : pc[q] \in {"rest", "newline"}
      BY <1>1, <1>7, <2>3, QuietSteps
    <3>2. q # r
      BY <2>3, <3>1, QuietSteps
    <3>3. QED
      BY <1>1, <3>1, <3>2, Keeps
  <2>4. QED
    BY <2>1, <2>2, <2>3
<1>8. Intact'
  <2>1. \A i \in DOMAIN lines' : lines'[i].node # Corrupt
    BY <1>5, NamesApart DEF HeaderLine, Entry
  <2>2. QED
    BY <1>6, <2>1 DEF Intact
<1>9. QED
  BY <1>5, <1>6, <1>7, <1>8

LEMMA KeptStep ==
  ASSUME BaseInv, SoloInv, WholeInv, NEW r \in Runs, Step(r), ~overlapped', ~cut', NEW q \in Runs
  PROVE  Kept(q)'
<1>1. /\ TypeOK /\ Placed(r) /\ Placed(q) /\ ~overlapped /\ ~cut /\ OneUser /\ Kept(q)
  BY Users, QuietSteps DEF BaseInv, PlaceInv, SoloInv, WholeInv, Kept
<1>2. \A n \in Nodes :
        Recorded'[n] = IF WriteRest(r) /\ n = writing[r].node THEN writing[r].output ELSE Recorded[n]
  BY WholeFile, IntactSteps
<1>3. \A n \in Nodes : Recorded[n] # None => Recorded'[n] = Recorded[n]
  <2>1. ASSUME WriteRest(r), writing[r].node \in Nodes PROVE Recorded[writing[r].node] = None
    <3>1. pc[r] = "rest" /\ writing[r] # HeaderLine
      BY <2>1, NamesApart DEF WriteRest, HeaderLine, Entry
    <3>2. QED
      BY <1>1, <3>1, Unwritten
  <2>2. QED
    BY <1>2, <2>1
<1>4. pc'[q] \in {"part", "rest", "newline"} /\ writing'[q] = HeaderLine => lines' = <<>>
  <2> SUFFICES ASSUME pc'[q] \in {"part", "rest", "newline"}, writing'[q] = HeaderLine
               PROVE  lines' = <<>>
    OBVIOUS
  <2>1. CASE q # r
    <3>1. pc[q] \in {"part", "rest", "newline"} /\ writing[q] = HeaderLine
      BY <1>1, <2>1, Keeps
    <3>2. lines = <<>> /\ OnFile(q)
      BY <1>1, <3>1, Users DEF Kept
    <3>3. ~WritePart(r) /\ ~WriteRest(r) /\ ~WriteNewline(r)
      BY <1>1, <2>1, <3>2, Users DEF OneUser
    <3>4. QED
      BY <3>2, <3>3, QuietSteps
  <2>2. CASE q = r
    <3>1. CASE Open(r)
      <4>1. pc'[r] = "part" => lines = <<>>
        BY <1>1, <3>1 DEF Open, Goto, TypeOK
      <4>2. pc'[r] \notin {"rest", "newline"} /\ lines' = lines
        BY <1>1, <3>1 DEF Open, Goto, fileVars, TypeOK
      <4>3. QED
        BY <2>2, <4>1, <4>2
    <3>2. CASE WritePart(r) \/ WriteRest(r)
      <4>1. writing' = writing /\ lines' = lines /\ pc[r] \in {"part", "rest", "newline"}
        BY <3>2 DEF WritePart, WriteRest
      <4>2. QED
        BY <1>1, <2>2, <4>1 DEF Kept
    <3>3. ASSUME NEW n \in Nodes, Execute(r, n) PROVE FALSE
      <4>1. \E out : writing' = [writing EXCEPT ![r] = Entry(n, out)]
        BY <3>3 DEF Execute
      <4>2. writing'[r].node = n
        BY <1>1, <4>1 DEF TypeOK, Entry
      <4>3. QED
        BY <2>2, <4>2, NamesApart DEF HeaderLine, Entry
    <3>4. pc'[r] \in {"part", "rest", "newline"} =>
            Open(r) \/ WritePart(r) \/ WriteRest(r) \/ \E n \in Nodes : Execute(r, n)
      BY <1>1, StepCases DEF BeginPlain, BeginCheckpointed, Plan, Skip, Reuse, Ready, WriteNewline,
         Emit, Finish, Stop, Goto, TypeOK
    <3>5. QED
      BY <2>2, <3>1, <3>2, <3>3, <3>4
  <2>3. QED
    BY <2>1, <2>2
<1>5. ASSUME OnFile(q)', NEW n \in Nodes, loaded'[q][n] # None PROVE Recorded'[n] = loaded'[q][n]
  <2>1. CASE q = r /\ BeginCheckpointed(r)
    <3>1. loaded'[r] = Recorded
      BY <1>1, <1>5, <2>1 DEF BeginCheckpointed, Goto, OnFile, Active, TypeOK
    <3>2. QED
      BY <1>3, <1>5, <2>1, <3>1
  <2>2. CASE OnFile(q)
    <3>1. loaded'[q] = loaded[q]
      BY <1>1, <2>2, Keeps DEF OnFile, Active
    <3>2. Recorded[n] = loaded[q][n]
      BY <1>1, <1>5, <2>2, <3>1 DEF Kept
    <3>3. QED
      BY <1>3, <1>5, <3>1, <3>2
  <2>3. QED
    BY <1>5, <2>1, <2>2, Users
<1>6. ASSUME OnFile(q)', pc'[q] \in {"newline", "emit"}, writing'[q] # HeaderLine
      PROVE  Recorded'[writing'[q].node] = writing'[q].output
  <2>1. CASE q = r /\ WriteRest(r)
    <3>1. writing' = writing /\ writing[r].node \in Nodes
      BY <1>1, <1>6, <2>1 DEF WriteRest, Placed, Holds
    <3>2. QED
      BY <1>2, <2>1, <3>1
  <2>2. CASE ~(q = r /\ WriteRest(r))
    <3>1. pc[q] \in {"newline", "emit"} /\ writing'[q] = writing[q] /\ OnFile(q)
      <4>1. CASE q # r
        BY <1>1, <1>6, <4>1, Keeps, Users
      <4>2. CASE q = r
        <5>1. ASSUME NEW n \in Nodes, Execute(r, n) PROVE FALSE
          <6>1. pc[r] = "node" /\ mode' = mode
            BY <5>1 DEF Execute, Ready, runVars
          <6>2. Checkpointed(r)
            BY <1>6, <4>2, <6>1 DEF OnFile, Checkpointed
          <6>3. pc'[r] = "part"
            BY <1>1, <5>1, <6>2 DEF Execute, Goto, TypeOK
          <6>4. QED
            BY <1>6, <4>2, <6>3
        <5>2. WriteNewline(r)
          BY <1>1, <1>6, <2>2, <4>2, <5>1, StepCases DEF BeginPlain, BeginCheckpointed, Open, Plan, Skip,
             Reuse, Ready, WritePart, Emit, Finish, Stop, Goto, TypeOK
        <5>3. pc[r] = "newline" /\ writing' = writing /\ OnFile(r)
          BY <5>2, Users DEF WriteNewline
        <5>4. QED
          BY <4>2, <5>3
      <4>3. QED
        BY <4>1, <4>2
    <3>2. writing[q].node \in Nodes /\ writing[q].output \in W!Outputs
      BY <1>1, <1>6, <3>1 DEF Placed, Holds
    <3>3. Recorded[writing[q].node] = writing[q].output
      BY <1>1, <1>6, <3>1 DEF Kept
    <3>4. QED
      BY <1>3, <3>1, <3>2, <3>3, NamesApart
  <2>3. QED
    BY <2>1, <2>2
<1>7. ASSUME pc'[q] # "idle", Checkpointed(q)', NEW n \in Nodes, told'[q][n] # None
      PROVE  Recorded'[n] = told'[q][n]
  <2>1. ASSUME pc[q] # "idle", told'[q][n] = told[q][n] PROVE Recorded'[n] = told'[q][n]
    <3>1. Checkpointed(q)
      BY <1>1, <1>7, <2>1, Keeps DEF Checkpointed
    <3>2. Recorded[n] = told[q][n]
      BY <1>1, <1>7, <2>1, <3>1 DEF Kept
    <3>3. QED
      BY <1>3, <1>7, <2>1, <3>2
  <2>2. ASSUME told[q][n] = told'[q][n], pc[q] = "idle" PROVE FALSE
    BY <1>1, <1>7, <2>2 DEF Placed, W!NoOutputs
  <2>3. ASSUME NEW k \in Nodes, NEW out, Tell(r, k, out)
        PROVE  told'[q][n] = told[q][n] \/ (q = r /\ k = n /\ told'[q][n] = out)
    <3>1. told[r] \in States
      BY <1>1 DEF TypeOK
    <3>2. QED
      BY <1>1, <2>3, <3>1 DEF Tell, TypeOK, States
  <2>4. CASE Emit(r)
    <3>1. Tell(r, writing[r].node, writing[r].output) /\ pc[r] = "emit" /\ writing[r].node \in Nodes
          /\ writing[r] # HeaderLine
      BY <1>1, <2>4, NamesApart DEF Emit, Placed, Holds, HeaderLine, Entry
    <3>2. CASE q = r /\ n = writing[r].node /\ told'[q][n] = writing[r].output
      <4>1. OnFile(r)
        BY <1>1, <1>7, <3>1, <3>2, Keeps DEF OnFile, Active, Checkpointed
      <4>2. Recorded[n] = writing[r].output
        BY <1>1, <3>1, <3>2, <4>1 DEF Kept
      <4>3. QED
        BY <1>3, <1>7, <3>2, <4>2
    <3>3. QED
      BY <2>1, <2>2, <2>3, <3>1, <3>2
  <2>5. CASE \E k \in Nodes : Reuse(r, k)
    <3>1. PICK k \in Nodes : Reuse(r, k)
      BY <2>5
    <3>2. Tell(r, k, loaded[r][k]) /\ pc[r] = "node"
      BY <3>1 DEF Reuse, Ready
    <3>3. CASE q = r /\ n = k /\ told'[q][n] = loaded[r][k]
      <4>1. OnFile(r)
        BY <1>1, <1>7, <3>2, <3>3, Keeps DEF OnFile, Active, Checkpointed
      <4>2. Recorded[n] = loaded[r][n]
        BY <1>1, <1>7, <3>3, <4>1 DEF Kept
      <4>3. QED
        BY <1>3, <1>7, <3>3, <4>2
    <3>4. QED
      BY <2>1, <2>2, <2>3, <3>2, <3>3
  <2>6. CASE told' = told
    BY <2>1, <2>2, <2>6
  <2>7. QED
    BY <2>4, <2>5, <2>6, StepCases DEF BeginPlain, BeginCheckpointed, Call, Open, Plan, Skip, Execute,
       WritePart, WriteRest, WriteNewline, Finish, Stop
<1>8. QED
  BY <1>4, <1>5, <1>6, <1>7 DEF Kept

LEMMA WholeStep ==
  ASSUME BaseInv, SoloInv, WholeInv, NEW r \in Runs, Step(r)
  PROVE  WholeInv'
<1> SUFFICES ASSUME ~overlapped', ~cut'
             PROVE  /\ \A i \in DOMAIN lines' :
                         lines'[i].node \in Nodes \/ (i = 1 /\ lines'[i] = HeaderLine)
                    /\ tail'.state # "garbage"
                    /\ tail' # EmptyTail => \E q \in Runs : pc'[q] \in {"rest", "newline"}
                    /\ \A q \in Runs : Kept(q)'
  BY DEF WholeInv, Kept, OnFile, Active, Checkpointed
<1>1. \A q \in Runs : Kept(q)'
  BY KeptStep
<1>2. QED
  BY <1>1, WholeFile

LEMMA WholeInit == Init => WholeInv
<1> SUFFICES ASSUME Init PROVE WholeInv
  OBVIOUS
<1>1. /\ lines = <<>> /\ tail = EmptyTail /\ EmptyTail.state = "empty"
      /\ \A r \in Runs : pc[r] = "idle"
  BY DEF Init, EmptyTail
<1>2. QED
  BY <1>1 DEF WholeInv, OnFile, Active

LEMMA FileStutters ==
  ASSUME FileInv, UNCHANGED vars
  PROVE  FileInv'
<1>1. UNCHANGED <<pc, mode, workflow, input, loaded, outputs, done, writing, told, lines, tail,
                  job, settled, overlapped, mixed, cut, base, trusted>>
  BY DEF vars, runVars, fileVars, ghosts
<1>2. Text' = Text /\ Recorded' = Recorded
  BY <1>1 DEF Text, TailLine, Recorded
<1>3. \A r \in Runs : (OnFile(r)' <=> OnFile(r)) /\ (Checkpointed(r)' <=> Checkpointed(r))
  BY <1>1 DEF OnFile, Active, Checkpointed
<1>4. \A r \in Runs : (Accounted(r)' <=> Accounted(r)) /\ (TailFits(r)' <=> TailFits(r))
  BY <1>1, <1>2, <1>3 DEF Accounted, TailFits, NodesIn, InHand
<1>5. SoloInv'
  BY <1>1, <1>2, <1>3, <1>4 DEF FileInv, SoloInv, OneUser, NoTwice
<1>6. WholeInv'
  BY <1>1, <1>2, <1>3 DEF FileInv, WholeInv
<1>7. QED
  BY <1>5, <1>6 DEF FileInv

\* The invariant of the checkpoint file and of the runs that use it.
THEOREM FileInvariance == Spec => [](BaseInv /\ FileInv)
<1>1. Init => BaseInv /\ FileInv
  BY BaseInit, SoloInit, WholeInit DEF FileInv
<1>2. BaseInv /\ FileInv /\ [Next]_vars => (BaseInv /\ FileInv)'
  <2>1. ASSUME BaseInv, FileInv, NEW r \in Runs, Step(r) PROVE BaseInv' /\ FileInv'
    BY <2>1, BaseStep, SoloStep, WholeStep DEF FileInv
  <2>2. Next => \E r \in Runs : Step(r)
    BY DEF Next, Step
  <2>3. QED
    BY <2>1, <2>2, BaseStutters, FileStutters
<1>3. QED
  BY <1>1, <1>2, PTL DEF Spec

\* A node never gets a second line, so none is executed again once its output is
\* recorded, and the file can be loaded unless a line was cut short: what
\* run_checkpointed and load_workflow_checkpoint rely on, for any runs and workflows
\* as long as two runs do not use the file at once.
THEOREM CheckpointIsSound == Spec => []CheckpointSound
<1>1. BaseInv /\ FileInv => CheckpointSound
  <2> SUFFICES ASSUME BaseInv, FileInv PROVE CheckpointSound
    OBVIOUS
  <2>1. TypeOK /\ OneLinePerNode
    BY DEF BaseInv, FileInv, SoloInv, OneLinePerNode, NoTwice
  <2>2. StaysLoadable
    <3> SUFFICES ASSUME ~overlapped, ~cut, tail = EmptyTail PROVE Loadable
      BY DEF StaysLoadable
    <3>1. Text = lines
      BY DEF Text, EmptyTail
    <3>2. QED
      BY <3>1 DEF FileInv, WholeInv, Loadable
  <2>3. QED
    BY <2>1, <2>2 DEF CheckpointSound
<1>2. QED
  BY <1>1, FileInvariance, PTL

\* What run_checkpointed_streaming told the consumer about a node is what every
\* later run of the checkpoint loads.
THEOREM ToldStaysRecorded == Spec => []ToldIsRecorded
<1>1. BaseInv /\ FileInv => ToldIsRecorded
  <2> SUFFICES ASSUME BaseInv, FileInv, ~overlapped, ~cut, NEW r \in Runs, NEW n \in Nodes,
                      Checkpointed(r), told[r][n] # None
               PROVE  Recorded[n] = told[r][n]
    BY DEF ToldIsRecorded
  <2>1. pc[r] # "idle"
    BY DEF BaseInv, PlaceInv, Placed, W!NoOutputs
  <2>2. QED
    BY <2>1 DEF FileInv, WholeInv
<1>2. QED
  BY <1>1, FileInvariance, PTL

----------------------------------------------------------------------------
(* Runs and the file as parts of one execution.                            *)

\* Loaded outputs say of a node what the run that comes to it finds out itself.
LEMMA LoadedFits ==
  ASSUME NEW r \in Runs, workflow[r] \in Local, RunGood(r), Active(r),
         NEW n \in base[r], W!Predecessors(workflow[r], n) \subseteq done[r]
  PROVE  IF Skipped(r, n) THEN loaded[r][n] = None
         ELSE /\ loaded[r][n] # None
              /\ loaded[r][n].given = W!InputFor(workflow[r], n, outputs[r], input[r])
<1> DEFINE w == workflow[r]  in == input[r]
<1>1. /\ w \in Local /\ Partial(w, in, done[r], outputs[r]) /\ Partial(w, in, base[r], loaded[r])
      /\ \A k \in done[r] \intersect base[r] : outputs[r][k] = loaded[r][k]
  BY DEF RunGood
<1>2. /\ W!Allowed(w, n, outputs[r]) <=> W!Allowed(w, n, loaded[r])
      /\ W!InputFor(w, n, outputs[r], in) = W!InputFor(w, n, loaded[r], in)
  BY <1>1, PartsAgree
<1>3. QED
  BY <1>1, <1>2 DEF Partial, Skipped

\* Passing a node on which the run and what it has loaded agree.
LEMMA GoodPass ==
  ASSUME TypeOK, NEW r \in Runs, workflow[r] \in Local, RunGood(r), Active(r),
         NEW n \in workflow[r].nodes \ done[r],
         W!Predecessors(workflow[r], n) \subseteq done[r], NEW x,
         IF Skipped(r, n) THEN x = None
         ELSE x # None /\ x.given = W!InputFor(workflow[r], n, outputs[r], input[r]),
         n \in base[r] => x = loaded[r][n]
  PROVE  LET D == done[r] \union {n}  O == [outputs[r] EXCEPT ![n] = x]
         IN  /\ Partial(workflow[r], input[r], D, O)
             /\ \A k \in D \intersect base[r] : O[k] = loaded[r][k]
<1> DEFINE w == workflow[r]  in == input[r]
           D == done[r] \union {n}  O == [outputs[r] EXCEPT ![n] = x]
<1>1. outputs[r] \in States /\ DOMAIN outputs[r] = Nodes
  BY DEF TypeOK, States
<1>2. /\ w \in Local /\ Partial(w, in, done[r], outputs[r])
      /\ \A k \in done[r] \intersect base[r] : outputs[r][k] = loaded[r][k]
  BY DEF RunGood
<1>3. IF n = w.end \/ ~W!Allowed(w, n, outputs[r]) THEN x = None
      ELSE x # None /\ x.given = W!InputFor(w, n, outputs[r], in)
  BY DEF Skipped
<1>4. Partial(w, in, D, O)
  BY <1>1, <1>2, <1>3, PartialExtends
<1>5. n \in Nodes
  BY WorkflowShape DEF Local
<1>6. ASSUME NEW k \in D \intersect base[r] PROVE O[k] = loaded[r][k]
  BY <1>1, <1>2, <1>5
<1>7. QED
  BY <1>4, <1>6

\* A run that begins loads a part of an execution of its job.
LEMMA LoadsPart ==
  ASSUME BaseInv, MergedInv, NEW r \in Runs, BeginCheckpointed(r), Loadable,
         ~overlapped, ~mixed', workflow'[r] \in Local
  PROVE  Partial(workflow'[r], input'[r], settled, Recorded)
<1>1. TypeOK /\ FileFits
  BY DEF BaseInv, PlaceInv
<1>2. Intact
  <2>1. ASSUME NEW i \in DOMAIN Text PROVE Text[i].node # Corrupt
    BY NamesApart DEF Loadable, HeaderLine, Entry
  <2>2. CASE tail.state = "empty"
    BY <2>1, <2>2 DEF Text, Intact
  <2>3. CASE tail.state # "empty"
    <3>1. Text = Append(lines, TailLine) /\ lines \in Seq(Lines)
      BY <1>1, <2>3 DEF Text, TypeOK
    <3>2. /\ Len(lines) + 1 \in DOMAIN Text /\ Text[Len(lines) + 1] = TailLine
          /\ \A i \in DOMAIN lines : i \in DOMAIN Text /\ Text[i] = lines[i]
      BY <3>1
    <3>3. TailLine.node # Corrupt
      BY <2>1, <3>2
    <3>4. tail.state = "whole"
      BY <3>3 DEF TailLine, CorruptLine, Entry
    <3>5. QED
      BY <2>1, <3>2, <3>4 DEF Intact
  <2>4. QED
    BY <2>2, <2>3
<1>3. PICK w \in Workflows, in \in Inputs :
        /\ workflow'[r] = w /\ input'[r] = in
        /\ mixed' = (mixed \/ job \notin {None, [workflow |-> w, input |-> in]})
  BY <1>1 DEF BeginCheckpointed, Call, TypeOK
<1>4. CASE job = None
  <2>1. settled = {} /\ Text = <<>>
    BY <1>1, <1>4 DEF FileFits, Text, EmptyTail
  <2>2. Recorded = W!NoOutputs
    BY <2>1 DEF Recorded, Records, Latest, W!NoOutputs
  <2>3. QED
    BY <2>1, <2>2, PartialNothing
<1>5. CASE job # None
  <2>1. ~mixed /\ job = [workflow |-> w, input |-> in]
    BY <1>3, <1>5
  <2>2. job.workflow = w /\ job.input = in
    BY <2>1
  <2>3. Partial(job.workflow, job.input, settled, Recorded)
    BY <1>2, <1>3, <1>5, <2>1, <2>2 DEF MergedInv
  <2>4. QED
    BY <1>3, <2>2, <2>3
<1>6. QED
  BY <1>4, <1>5

\* A called run stays good when its outputs do not change.
LEMMA GoodFrame ==
  ASSUME BaseInv, NEW r \in Runs, Step(r), NEW q \in Runs, pc[q] # "idle", RunGood(q),
         outputs'[q] = outputs[q], done'[q] = done[q]
  PROVE  RunGood(q)'
<1>1. TypeOK
  BY DEF BaseInv
<1>2. /\ workflow'[q] = workflow[q] /\ input'[q] = input[q]
      /\ base'[q] = base[q] /\ loaded'[q] = loaded[q]
  BY <1>1, Keeps
<1>3. Active(q)' => Active(q)
  <2>1. pc[q] \in {"finished", "stopped"} => pc'[q] = pc[q]
    <3>1. q = r => pc[q] \notin {"finished", "stopped"}
      BY StepCases DEF BeginPlain, BeginCheckpointed, Call, Open, Plan, Skip, Reuse, Execute,
             Ready, WritePart, WriteRest, WriteNewline, Emit, Finish, Stop, Active
    <3>2. QED
      BY <1>1, <3>1, Keeps
  <2>2. QED
    BY <2>1 DEF Active
<1>4. QED
  BY <1>2, <1>3 DEF RunGood

\* A run stays good when it passes a node with the output of the execution.
LEMMA GoodPasses ==
  ASSUME BaseInv, NEW r \in Runs, Step(r), workflow[r] \in Local, RunGood(r), Active(r),
         NEW n \in workflow[r].nodes \ done[r],
         W!Predecessors(workflow[r], n) \subseteq done[r], NEW x, Pass(r, n, x),
         IF Skipped(r, n) THEN x = None
         ELSE x # None /\ x.given = W!InputFor(workflow[r], n, outputs[r], input[r]),
         n \in base[r] => x = loaded[r][n]
  PROVE  RunGood(r)'
<1> DEFINE D == done[r] \union {n}  O == [outputs[r] EXCEPT ![n] = x]
<1>1. TypeOK /\ pc[r] # "idle"
  BY DEF BaseInv, Active
<1>2. /\ Partial(workflow[r], input[r], D, O)
      /\ \A k \in D \intersect base[r] : O[k] = loaded[r][k]
  BY <1>1, GoodPass
<1>3. done'[r] = D /\ outputs'[r] = O
  BY <1>1 DEF Pass, TypeOK
<1>4. /\ workflow'[r] = workflow[r] /\ input'[r] = input[r]
      /\ base'[r] = base[r] /\ loaded'[r] = loaded[r]
  BY <1>1, Keeps
<1>5. Partial(workflow[r], input[r], base[r], loaded[r])
  BY DEF RunGood
<1> HIDE DEF D, O
<1>6. QED
  BY <1>2, <1>3, <1>4, <1>5 DEF RunGood

LEMMA ResumeStep ==
  ASSUME BaseInv, ResumeInv, MergedInv, NEW r \in Runs, Step(r)
  PROVE  ResumeInv'
<1> SUFFICES ASSUME NEW q \in Runs, pc'[q] # "idle", workflow'[q] \in Local, trusted'[q]
             PROVE  RunGood(q)'
  BY DEF ResumeInv
<1>1. TypeOK /\ Placed(r) /\ Placed(q) /\ Ahead(r)
  BY DEF BaseInv, PlaceInv, NodeInv
<1>2. CASE pc[q] = "idle"
  <2>1. q = r
    BY <1>1, <1>2, Keeps
  <2>2. done[r] = {} /\ outputs[r] = W!NoOutputs /\ base[r] = {} /\ loaded[r] = W!NoOutputs
    BY <1>1, <1>2, <2>1 DEF Placed
  <2>3. Partial(workflow'[r], input'[r], {}, W!NoOutputs)
    BY PartialNothing
  <2>4. CASE BeginPlain(r)
    <3>1. done' = done /\ outputs' = outputs /\ base' = base /\ loaded' = loaded
      BY <2>4 DEF BeginPlain, Call
    <3>2. QED
      BY <2>1, <2>2, <2>3, <3>1 DEF RunGood
  <2>5. CASE BeginCheckpointed(r)
    <3>1. done' = done /\ outputs' = outputs
      BY <2>5 DEF BeginCheckpointed, Call
    <3>2. /\ trusted'[r] => ~overlapped /\ ~mixed'
          /\ base'[r] = settled
      BY <1>1, <2>5 DEF BeginCheckpointed, TypeOK
    <3>3. CASE Loadable
      <4>1. loaded'[r] = Recorded
        BY <1>1, <2>5, <3>3 DEF BeginCheckpointed, TypeOK
      <4>2. Partial(workflow'[r], input'[r], settled, Recorded)
        BY <2>1, <2>5, <3>2, <3>3, LoadsPart
      <4> DEFINE w == workflow'[r]  in == input'[r]  found == Recorded  known == settled
      <4>3. /\ Partial(w, in, {}, W!NoOutputs) /\ Partial(w, in, known, found)
            /\ workflow'[r] = w /\ input'[r] = in /\ done'[r] = {} /\ outputs'[r] = W!NoOutputs
            /\ base'[r] = known /\ loaded'[r] = found
        BY <2>2, <2>3, <3>1, <3>2, <4>1, <4>2
      <4> HIDE DEF w, in, found, known
      <4>4. QED
        BY <2>1, <4>3 DEF RunGood
    <3>4. CASE ~Loadable
      <4>1. pc'[r] = "stopped"
        BY <1>1, <2>5, <3>4 DEF BeginCheckpointed, Goto, TypeOK
      <4>2. QED
        BY <2>1, <2>2, <2>3, <3>1, <4>1 DEF RunGood, Active
    <3>5. QED
      BY <3>3, <3>4
  <2>6. QED
    BY <1>2, <2>1, <2>4, <2>5, StepCases DEF Open, Plan, Skip, Reuse, Execute,
             Ready, WritePart, WriteRest, WriteNewline, Emit, Finish, Stop, Active
<1>3. CASE pc[q] # "idle"
  <2>1. workflow[q] \in Local /\ trusted[q]
    BY <1>1, <1>3, Keeps
  <2>2. RunGood(q)
    BY <1>3, <2>1 DEF ResumeInv
  <2>3. CASE q # r
    BY <1>1, <1>3, <2>2, <2>3, Keeps, GoodFrame
  <2>4. CASE q = r /\ \E n \in Nodes : Skip(r, n)
    <3>1. PICK n \in Nodes : Skip(r, n)
      BY <2>4
    <3>2. /\ n \in workflow[r].nodes \ done[r] /\ W!Predecessors(workflow[r], n) \subseteq done[r]
          /\ Skipped(r, n) /\ Pass(r, n, None) /\ Active(r)
      BY <3>1 DEF Skip, Ready, Active
    <3>3. n \in base[r] => loaded[r][n] = None
      BY <2>1, <2>2, <2>4, <3>2, LoadedFits
    <3>4. QED
      BY <2>1, <2>2, <2>4, <3>2, <3>3, GoodPasses
  <2>5. CASE q = r /\ \E n \in Nodes : Reuse(r, n)
    <3>1. PICK n \in Nodes : Reuse(r, n)
      BY <2>5
    <3>2. /\ n \in workflow[r].nodes \ done[r] /\ W!Predecessors(workflow[r], n) \subseteq done[r]
          /\ ~Skipped(r, n) /\ Pass(r, n, loaded[r][n]) /\ Active(r) /\ loaded[r][n] # None
      BY <3>1 DEF Reuse, Ready, Active
    <3>3. n \in base[r]
      BY <2>2, <2>5, <3>2 DEF RunGood, Partial
    <3>4. loaded[r][n].given = W!InputFor(workflow[r], n, outputs[r], input[r])
      BY <2>1, <2>2, <2>5, <3>2, <3>3, LoadedFits
    <3>5. QED
      BY <2>1, <2>2, <2>5, <3>2, <3>4, GoodPasses
  <2>6. CASE q = r /\ Emit(r)
    <3> DEFINE n == writing[r].node
    <3>1. Pass(r, n, writing[r].output) /\ Active(r) /\ Holds(r)
      BY <2>6 DEF Emit, Active, Holds
    <3>2. writing[r] # HeaderLine
      BY <1>1, <2>6, NamesApart DEF Emit, Placed, Holds, HeaderLine, Entry
    <3>3. /\ n \in workflow[r].nodes \ done[r] /\ W!Predecessors(workflow[r], n) \subseteq done[r]
          /\ ~Skipped(r, n) /\ loaded[r][n] = None /\ writing[r].output \in Output(r, n)
      BY <1>1, <3>1, <3>2 DEF Ahead
    <3>4. n \notin base[r]
      BY <2>1, <2>2, <2>6, <3>1, <3>3, LoadedFits
    <3>5. writing[r].output # None
          /\ writing[r].output.given = W!InputFor(workflow[r], n, outputs[r], input[r])
      BY <1>1, <1>3, <2>6, <3>3, CalledTypes, OutputType, NamesApart DEF Output
    <3>6. QED
      BY <2>1, <2>2, <2>6, <3>1, <3>3, <3>4, <3>5, GoodPasses
  <2>7. CASE UNCHANGED <<outputs, done>>
    BY <1>3, <2>2, <2>7, GoodFrame
  <2>8. QED
    BY <2>3, <2>4, <2>5, <2>6, <2>7, StepCases DEF BeginPlain, BeginCheckpointed, Call, Open, Plan,
       Execute, WritePart, WriteRest, WriteNewline, Finish, Stop
<1>4. QED
  BY <1>2, <1>3

LEMMA JobStep ==
  ASSUME BaseInv, SoloInv, JobInv, NEW r \in Runs, Step(r)
  PROVE  JobInv'
<1>1. TypeOK /\ FileFits
  BY DEF BaseInv, PlaceInv
<1>2. CASE BeginCheckpointed(r)
  <2>1. PICK w \in Workflows, in \in Inputs :
          /\ workflow'[r] = w /\ input'[r] = in
          /\ job' = IF job = None THEN [workflow |-> w, input |-> in] ELSE job
          /\ mixed' = (mixed \/ job \notin {None, [workflow |-> w, input |-> in]})
    BY <1>1, <1>2 DEF BeginCheckpointed, Call, TypeOK
  <2>2. [workflow |-> w, input |-> in] # None
    BY NamesApart
  <2>3. ASSUME ~mixed', NEW q \in Runs, pc'[q] # "idle", Checkpointed(q)'
        PROVE  job' # None /\ workflow'[q] = job'.workflow /\ input'[q] = job'.input
    <3>1. CASE q = r
      <4>1. job \in {None, [workflow |-> w, input |-> in]}
        BY <2>1, <2>3
      <4>2. job' = [workflow |-> w, input |-> in]
        BY <2>1, <4>1
      <4>3. job' # None /\ job'.workflow = w /\ job'.input = in
        BY <2>2, <4>2
      <4>4. QED
        BY <2>1, <3>1, <4>3
    <3>2. CASE q # r
      <4>1. pc[q] # "idle" /\ Checkpointed(q) /\ workflow'[q] = workflow[q] /\ input'[q] = input[q]
        BY <1>1, <2>3, <3>2, Keeps DEF Checkpointed
      <4>2. job # None /\ ~mixed
        BY <1>1, <2>1, <2>3, <4>1 DEF FileFits
      <4>3. QED
        BY <2>1, <4>1, <4>2 DEF JobInv
    <3>3. QED
      BY <3>1, <3>2
  <2>4. ASSUME ~overlapped', ~mixed', NEW q \in Runs, OnFile(q)' PROVE trusted'[q]
    <3>1. q = r /\ ~overlapped
      BY <1>2, <2>4, Users
    <3>2. trusted'[r] = (~overlapped /\ ~mixed')
      BY <1>1, <1>2 DEF BeginCheckpointed, TypeOK
    <3>3. QED
      BY <2>4, <3>1, <3>2
  <2>5. QED
    BY <2>3, <2>4 DEF JobInv
<1>3. CASE ~BeginCheckpointed(r)
  <2>1. UNCHANGED <<job, overlapped, mixed, trusted>>
    BY <1>3, StepCases DEF BeginPlain, Call, Open, Plan, Skip, Reuse, Execute,
             WritePart, WriteRest, WriteNewline, Emit, Finish, Stop, ghosts
  <2>2. ASSUME NEW q \in Runs, pc'[q] # "idle", Checkpointed(q)'
        PROVE  pc[q] # "idle" /\ Checkpointed(q) /\ workflow'[q] = workflow[q] /\ input'[q] = input[q]
    <3>1. CASE pc[q] = "idle"
      <4>1. q = r /\ BeginPlain(r)
        BY <1>1, <1>3, <2>2, <3>1, Keeps, StepCases DEF Open, Plan, Skip, Reuse, Execute,
             Ready, WritePart, WriteRest, WriteNewline, Emit, Finish, Stop, Active
      <4>2. mode'[r] \in {"run", "stream"}
        BY <1>1, <4>1 DEF BeginPlain, Call, TypeOK
      <4>3. QED
        BY <2>2, <4>1, <4>2 DEF Checkpointed
    <3>2. QED
      BY <1>1, <2>2, <3>1, Keeps DEF Checkpointed
  <2>3. \A q \in Runs : OnFile(q)' => OnFile(q)
    BY <1>3, Users
  <2>4. QED
    BY <2>1, <2>2, <2>3 DEF JobInv
<1>4. QED
  BY <1>2, <1>3

\* The history: what stays true, and which steps settle a node.
LEMMA HistorySteps ==
  ASSUME BaseInv, NEW r \in Runs, Step(r)
  PROVE  /\ mixed => mixed'
         /\ ~BeginCheckpointed(r) => job' = job
         /\ BeginCheckpointed(r) /\ job # None => job' = job
         /\ ~WriteRest(r) /\ (\A n \in Nodes : ~Skip(r, n)) => settled' = settled
         /\ ~Checkpointed(r) /\ ~WriteRest(r) => settled' = settled
<1>1. mixed => mixed'
  BY StepCases DEF BeginPlain, BeginCheckpointed, Call, Open, Plan, Skip, Reuse, Execute,
             WritePart, WriteRest, WriteNewline, Emit, Finish, Stop, ghosts
<1>2. ~BeginCheckpointed(r) => job' = job
  BY StepCases DEF BeginPlain, Call, Open, Plan, Skip, Reuse, Execute,
             WritePart, WriteRest, WriteNewline, Emit, Finish, Stop, ghosts
<1>3. BeginCheckpointed(r) /\ job # None => job' = job
  BY DEF BeginCheckpointed
<1>4. ~WriteRest(r) /\ (\A n \in Nodes : ~Skip(r, n)) => settled' = settled
  BY StepCases DEF BeginPlain, BeginCheckpointed, Call, Open, Plan, Reuse, Execute,
             WritePart, WriteNewline, Emit, Finish, Stop, ghosts
<1>5. \A n \in Nodes : Skip(r, n) /\ ~Checkpointed(r) => settled' = settled
  BY DEF Skip, Settled
<1>6. QED
  BY <1>1, <1>2, <1>3, <1>4, <1>5

\* The run that uses the file and the file treat the node that comes next alike.
LEMMA FileAgreesOn ==
  ASSUME BaseInv, ExecutionInv, ~overlapped, ~mixed, Intact, NEW r \in Runs, OnFile(r),
         workflow[r] \in Local \/ job.workflow \in Local,
         NEW n \in workflow[r].nodes \ done[r],
         W!Predecessors(workflow[r], n) \subseteq done[r]
  PROVE  /\ job # None /\ workflow[r] = job.workflow /\ input[r] = job.input
         /\ workflow[r] \in Local /\ RunGood(r) /\ Agrees(r)
         /\ Partial(workflow[r], input[r], settled, Recorded)
         /\ W!Predecessors(workflow[r], n) \subseteq settled
         /\ n \in settled => n \in base[r] \/ (pc[r] \in {"newline", "emit"} /\ n = writing[r].node)
         /\ W!Allowed(workflow[r], n, outputs[r]) <=> W!Allowed(workflow[r], n, Recorded)
         /\ W!InputFor(workflow[r], n, outputs[r], input[r]) =
              W!InputFor(workflow[r], n, Recorded, input[r])
<1>1. pc[r] # "idle" /\ Checkpointed(r) /\ n \in Nodes
  BY CalledTypes DEF BaseInv, OnFile, Active
<1>2. job # None /\ workflow[r] = job.workflow /\ input[r] = job.input /\ trusted[r]
  BY <1>1 DEF ExecutionInv, JobInv
<1>3. workflow[r] \in Local /\ RunGood(r)
  BY <1>1, <1>2 DEF ExecutionInv, ResumeInv
<1>4. Partial(workflow[r], input[r], settled, Recorded) /\ Agrees(r)
  BY <1>2, <1>3 DEF ExecutionInv, MergedInv
<1>5. W!Predecessors(workflow[r], n) \subseteq settled
  BY <1>4 DEF Agrees
<1>6. Closed(workflow[r], done[r]) /\ \A k \in done[r] : outputs[r][k] = Recorded[k]
  BY <1>3, <1>4 DEF RunGood, Partial, Closed, Agrees
<1> DEFINE found == Recorded
<1>7. \A k \in done[r] : outputs[r][k] = found[k]
  BY <1>6
<1> HIDE DEF found
<1>8. /\ W!Allowed(workflow[r], n, outputs[r]) <=> W!Allowed(workflow[r], n, found)
      /\ W!InputFor(workflow[r], n, outputs[r], input[r]) =
              W!InputFor(workflow[r], n, found, input[r])
  BY <1>1, <1>3, <1>6, <1>7, Localness
<1>9. n \in settled => n \in base[r] \/ (pc[r] \in {"newline", "emit"} /\ n = writing[r].node)
  BY <1>4 DEF Agrees
<1>10. QED
  BY <1>2, <1>3, <1>4, <1>5, <1>8, <1>9 DEF found

LEMMA RecordedFunction ==
  /\ Recorded = [n \in Nodes |-> Recorded[n]]
  /\ Recorded' = [n \in Nodes |-> Recorded'[n]]
  BY DEF Recorded, Records

\* The file settles the node n with the output x.
FileSettles(n, x) ==
  /\ job # None /\ n \in job.workflow.nodes \ settled
  /\ W!Predecessors(job.workflow, n) \subseteq settled
  /\ job' = job /\ settled' = settled \union {n}
  /\ Recorded' = [Recorded EXCEPT ![n] = x]
  /\ IF n = job.workflow.end \/ ~W!Allowed(job.workflow, n, Recorded) THEN x = None
     ELSE x \in W!OutputsOn(job.workflow, n,
                             W!InputFor(job.workflow, n, Recorded, job.input))

\* The line of a node that is about to be written belongs to a node that is not settled.
LEMMA WritesUnsettled ==
  ASSUME BaseInv, ExecutionInv, ~overlapped, ~mixed, Intact, NEW r \in Runs,
         pc[r] \in {"part", "rest"}, writing[r] # HeaderLine,
         workflow[r] \in Local \/ job.workflow \in Local
  PROVE  /\ writing[r].node \in workflow[r].nodes \ done[r]
         /\ W!Predecessors(workflow[r], writing[r].node) \subseteq done[r]
         /\ ~Skipped(r, writing[r].node)
         /\ writing[r].output \in Output(r, writing[r].node)
         /\ writing[r].node \notin settled /\ writing[r].node \notin base[r]
<1> DEFINE n == writing[r].node
<1>1. /\ n \in workflow[r].nodes \ done[r] /\ W!Predecessors(workflow[r], n) \subseteq done[r]
      /\ ~Skipped(r, n) /\ loaded[r][n] = None /\ writing[r].output \in Output(r, n)
  BY DEF BaseInv, NodeInv, Ahead, Holds
<1>2. OnFile(r) /\ Active(r)
  BY DEF BaseInv, PlaceInv, Placed, OnFile, Active
<1>3. workflow[r] \in Local /\ RunGood(r) /\ (n \in settled => n \in base[r])
  BY <1>1, <1>2, FileAgreesOn
<1>4. n \notin base[r]
  BY <1>1, <1>2, <1>3, LoadedFits
<1>5. QED
  BY <1>1, <1>3, <1>4

LEMMA SettleSteps ==
  ASSUME BaseInv, SoloInv, ExecutionInv, NEW r \in Runs, Step(r),
         ~overlapped', ~mixed', Intact', job' # None, job'.workflow \in Local
  PROVE  \/ settled' = settled /\ Recorded' = Recorded /\ (job # None => job' = job)
         \/ \E n \in Nodes : \E x : FileSettles(n, x)
<1>1. TypeOK /\ Placed(r) /\ ~overlapped /\ ~mixed /\ Intact /\ (job # None => job' = job)
  BY Users, HistorySteps, IntactSteps DEF BaseInv, PlaceInv
<1>2. \A n \in Nodes :
        Recorded'[n] = IF WriteRest(r) /\ n = writing[r].node THEN writing[r].output ELSE Recorded[n]
  BY IntactSteps
<1>3. CASE \E n \in Nodes : Skip(r, n)
  <2>1. PICK n \in Nodes : Skip(r, n)
    BY <1>3
  <2>2. /\ n \in workflow[r].nodes \ done[r] /\ W!Predecessors(workflow[r], n) \subseteq done[r]
        /\ Skipped(r, n) /\ pc[r] = "node"
    BY <2>1 DEF Skip, Ready
  <2>3. ~WriteRest(r) /\ ~BeginCheckpointed(r)
    BY <2>2 DEF WriteRest, BeginCheckpointed, Call
  <2>4. Recorded' = Recorded
    BY <1>2, <2>3, RecordedFunction
  <2>5. CASE Checkpointed(r) /\ n \notin settled
    <3>1. settled' = settled \union {n} /\ job' = job
      BY <2>1, <2>3, <2>5, HistorySteps DEF Skip, Settled
    <3>2. OnFile(r)
      BY <2>2, <2>5 DEF OnFile, Active
    <3>3. /\ job # None /\ workflow[r] = job.workflow /\ Partial(workflow[r], input[r], settled, Recorded)
          /\ W!Predecessors(workflow[r], n) \subseteq settled
          /\ W!Allowed(workflow[r], n, outputs[r]) <=> W!Allowed(workflow[r], n, Recorded)
      BY <1>1, <2>2, <3>1, <3>2, FileAgreesOn
    <3>4. Recorded[n] = None
      BY <2>5, <3>3 DEF Partial
    <3>5. Recorded = [Recorded EXCEPT ![n] = None]
      BY <3>4, RecordedFunction
    <3>6. FileSettles(n, None)
      BY <2>2, <2>4, <2>5, <3>1, <3>3, <3>5 DEF FileSettles, Skipped
    <3>7. QED
      BY <3>6
  <2>6. CASE ~Checkpointed(r) \/ n \in settled
    <3>1. settled' = settled
      BY <2>1, <2>6 DEF Skip, Settled
    <3>2. QED
      BY <1>1, <2>4, <3>1
  <2>7. QED
    BY <2>5, <2>6
<1>4. CASE WriteRest(r)
  <2>1. /\ pc[r] = "rest" /\ job' = job
        /\ settled' = settled \union ({writing[r].node} \intersect Nodes)
    BY <1>4 DEF WriteRest
  <2>2. CASE writing[r] = HeaderLine
    <3>1. writing[r].node \notin Nodes
      BY <2>2, NamesApart DEF HeaderLine, Entry
    <3>2. \A n \in Nodes : Recorded'[n] = Recorded[n]
      BY <1>2, <3>1
    <3>3. Recorded' = Recorded
      BY <3>2, RecordedFunction
    <3>4. QED
      BY <2>1, <3>1, <3>3
  <2>3. CASE writing[r] # HeaderLine
    <3> DEFINE n == writing[r].node  x == writing[r].output
    <3>1. /\ n \in workflow[r].nodes \ done[r] /\ W!Predecessors(workflow[r], n) \subseteq done[r]
          /\ ~Skipped(r, n) /\ x \in Output(r, n) /\ n \notin settled
      BY <1>1, <2>1, <2>3, WritesUnsettled
    <3>2. OnFile(r)
      BY <1>4, Users
    <3>3. /\ job # None /\ workflow[r] = job.workflow /\ input[r] = job.input
          /\ W!Predecessors(workflow[r], n) \subseteq settled
          /\ W!Allowed(workflow[r], n, outputs[r]) <=> W!Allowed(workflow[r], n, Recorded)
          /\ W!InputFor(workflow[r], n, outputs[r], input[r]) =
               W!InputFor(workflow[r], n, Recorded, input[r])
      BY <1>1, <2>1, <3>1, <3>2, FileAgreesOn
    <3>4. n \in Nodes
      BY <1>1, <2>1, <2>3 DEF Placed, Holds
    <3>5. Recorded' = [Recorded EXCEPT ![n] = x]
      <4>1. \A k \in Nodes : Recorded'[k] = IF k = n THEN x ELSE Recorded[k]
        BY <1>2, <1>4
      <4>2. QED
        BY <4>1, RecordedFunction
    <3>6. x \in W!OutputsOn(job.workflow, n, W!InputFor(job.workflow, n, Recorded, job.input))
      BY <3>1, <3>3 DEF Output
    <3>7. ~(n = job.workflow.end \/ ~W!Allowed(job.workflow, n, Recorded))
      BY <3>1, <3>3 DEF Skipped
    <3>8. settled' = settled \union {n}
      BY <2>1, <3>4
    <3>9. n \in job.workflow.nodes \ settled /\ W!Predecessors(job.workflow, n) \subseteq settled
      BY <3>1, <3>3
    <3>10. FileSettles(n, x)
      BY <2>1, <3>3, <3>5, <3>6, <3>7, <3>8, <3>9 DEF FileSettles
    <3>11. QED
      BY <3>4, <3>10
  <2>4. QED
    BY <2>2, <2>3
<1>5. CASE ~WriteRest(r) /\ \A n \in Nodes : ~Skip(r, n)
  <2>1. settled' = settled
    BY <1>5, HistorySteps
  <2>2. Recorded' = Recorded
    BY <1>2, <1>5, RecordedFunction
  <2>3. QED
    BY <1>1, <2>1, <2>2
<1>6. QED
  BY <1>3, <1>4, <1>5

\* The run that uses the file keeps agreeing with it.
LEMMA AgreesStep ==
  ASSUME BaseInv, SoloInv, ExecutionInv, NEW r \in Runs, Step(r),
         ~overlapped', ~mixed', Intact', job' # None, job'.workflow \in Local,
         NEW q \in Runs, OnFile(q)'
  PROVE  Agrees(q)'
<1>1. /\ TypeOK /\ Placed(r) /\ Ahead(r) /\ ~overlapped /\ ~mixed /\ Intact /\ OneUser
      /\ job # None => job' = job
  BY Users, HistorySteps, IntactSteps DEF BaseInv, PlaceInv, NodeInv, SoloInv
<1>2. \A n \in Nodes :
        Recorded'[n] = IF WriteRest(r) /\ n = writing[r].node THEN writing[r].output ELSE Recorded[n]
  BY IntactSteps
<1>3. OnFile(q) => workflow[q] \in Local /\ Agrees(q) /\ RunGood(q)
  <2> SUFFICES ASSUME OnFile(q) PROVE workflow[q] \in Local /\ Agrees(q) /\ RunGood(q)
    OBVIOUS
  <2>1. job # None /\ workflow[q] = job.workflow /\ trusted[q] /\ pc[q] # "idle"
    BY <1>1 DEF ExecutionInv, JobInv, OnFile, Active
  <2>2. workflow[q] \in Local
    BY <1>1, <2>1
  <2>3. QED
    BY <1>1, <2>1, <2>2 DEF ExecutionInv, MergedInv, ResumeInv
<1>4. settled \subseteq Nodes /\ base[q] \subseteq Nodes /\ done[q] \subseteq Nodes
  BY <1>1 DEF TypeOK
<1>5. CASE ~OnFile(q)
  <2>1. q = r /\ BeginCheckpointed(r) /\ pc[r] = "idle"
    BY <1>5, Users DEF BeginCheckpointed, Call
  <2>2. Loadable
    BY <1>1, <2>1 DEF BeginCheckpointed, Goto, OnFile, Active, TypeOK
  <2>3. /\ loaded'[r] = Recorded /\ pc'[r] = "open" /\ base'[r] = settled /\ done'[r] = {}
        /\ settled' = settled
    BY <1>1, <2>1, <2>2 DEF BeginCheckpointed, Call, Goto, TypeOK, Placed
  <2>4. ~WriteRest(r)
    BY <2>1 DEF WriteRest
  <2>5. \A n \in settled : Recorded'[n] = Recorded[n]
    BY <1>2, <1>4, <2>4
  <2>6. QED
    BY <2>1, <2>3, <2>5 DEF Agrees
<1>6. CASE OnFile(q) /\ q # r
  <2>1. ~OnFile(r) /\ ~WriteRest(r)
    BY <1>1, <1>6, Users DEF OneUser
  <2>2. ~Checkpointed(r) \/ \A n \in Nodes : ~Skip(r, n)
    BY <2>1 DEF OnFile, Active, Skip, Ready
  <2>3. settled' = settled
    BY <2>1, <2>2, HistorySteps
  <2>4. \A n \in Nodes : Recorded'[n] = Recorded[n]
    BY <1>2, <2>1
  <2>5. /\ pc'[q] = pc[q] /\ base'[q] = base[q] /\ done'[q] = done[q] /\ loaded'[q] = loaded[q]
        /\ outputs'[q] = outputs[q] /\ writing'[q] = writing[q]
    BY <1>1, <1>6, Keeps
  <2>6. pc[q] \in {"newline", "emit"} /\ writing[q] # HeaderLine => writing[q].node \in Nodes
    BY DEF BaseInv, PlaceInv, Placed, Holds
  <2>7. QED
    BY <1>3, <1>4, <1>6, <2>3, <2>4, <2>5, <2>6 DEF Agrees
<1>7. CASE OnFile(q) /\ q = r
  <2>1. /\ workflow[r] \in Local /\ Agrees(r) /\ RunGood(r) /\ Active(r) /\ Checkpointed(r)
        /\ OnFile(r)' /\ OnFile(r)
    BY <1>3, <1>7 DEF OnFile
  <2>2. base'[r] = base[r] /\ loaded'[r] = loaded[r] /\ ~BeginPlain(r) /\ ~BeginCheckpointed(r)
    BY <1>1, <2>1, Keeps DEF Active, BeginPlain, BeginCheckpointed, Call
  <2>3. ~Finish(r) /\ ~Stop(r)
    BY <1>1, <2>1 DEF Finish, Stop, Goto, OnFile, Active, TypeOK
  <2>4. CASE \E n \in Nodes : Skip(r, n)
    <3>1. PICK n \in Nodes : Skip(r, n)
      BY <2>4
    <3>2. /\ n \in workflow[r].nodes \ done[r] /\ W!Predecessors(workflow[r], n) \subseteq done[r]
          /\ Skipped(r, n) /\ pc[r] = "node" /\ pc' = pc
      BY <3>1 DEF Skip, Ready
    <3>3. ~WriteRest(r) /\ settled' = settled \union {n}
      BY <2>1, <3>1, <3>2 DEF Skip, Settled, WriteRest
    <3>4. \A k \in Nodes : Recorded'[k] = Recorded[k]
      BY <1>2, <3>3
    <3>5. done'[r] = done[r] \union {n} /\ outputs'[r] = [outputs[r] EXCEPT ![n] = None]
      BY <1>1, <3>1 DEF Skip, Pass, TypeOK
    <3>6. outputs[r] \in States
      BY <1>1 DEF TypeOK
    <3>7. outputs'[r][n] = None /\ \A k \in done[r] : outputs'[r][k] = outputs[r][k]
      BY <1>4, <3>2, <3>5, <3>6 DEF States
    <3>8. /\ Partial(workflow[r], input[r], settled, Recorded)
          /\ W!Allowed(workflow[r], n, outputs[r]) <=> W!Allowed(workflow[r], n, Recorded)
      BY <1>1, <2>1, <3>2, FileAgreesOn
    <3>9. Recorded[n] = None
      <4>1. CASE n \in settled
        BY <3>2, <3>8, <4>1 DEF Partial, Skipped
      <4>2. CASE n \notin settled
        BY <3>8, <4>2 DEF Partial
      <4>3. QED
        BY <4>1, <4>2
    <3>10. /\ \A k \in base[r] : k \in settled' /\ Recorded'[k] = loaded'[r][k]
           /\ \A k \in done'[r] : k \in settled' /\ Recorded'[k] = outputs'[r][k]
      BY <1>4, <1>7, <2>1, <2>2, <3>3, <3>4, <3>5, <3>7, <3>9 DEF Agrees
    <3>11. \A k \in settled' : k \in base[r] \union done'[r]
      BY <2>1, <3>2, <3>3, <3>5 DEF Agrees
    <3>12. pc'[r] = "node"
      BY <3>2
    <3>13. QED
      BY <1>7, <2>2, <3>10, <3>11, <3>12 DEF Agrees
  <2>5. CASE \E n \in Nodes : Reuse(r, n)
    <3>1. PICK n \in Nodes : Reuse(r, n)
      BY <2>5
    <3>2. loaded[r][n] # None /\ pc[r] = "node" /\ pc' = pc /\ settled' = settled
      BY <3>1 DEF Reuse, Ready, ghosts
    <3>3. ~WriteRest(r)
      BY <3>2 DEF WriteRest
    <3>4. \A k \in Nodes : Recorded'[k] = Recorded[k]
      BY <1>2, <3>3
    <3>5. done'[r] = done[r] \union {n} /\ outputs'[r] = [outputs[r] EXCEPT ![n] = loaded[r][n]]
      BY <1>1, <3>1 DEF Reuse, Pass, TypeOK
    <3>6. outputs[r] \in States /\ n \notin done[r]
      BY <1>1, <3>1 DEF TypeOK, Reuse, Ready
    <3>7. outputs'[r][n] = loaded[r][n] /\ \A k \in done[r] : outputs'[r][k] = outputs[r][k]
      BY <1>4, <3>5, <3>6 DEF States
    <3>8. n \in base[r]
      BY <2>1, <3>2 DEF RunGood, Partial
    <3>9. Recorded[n] = loaded[r][n] /\ n \in settled
      BY <2>1, <3>8 DEF Agrees
    <3>10. /\ \A k \in base[r] : k \in settled' /\ Recorded'[k] = loaded'[r][k]
           /\ \A k \in done'[r] : k \in settled' /\ Recorded'[k] = outputs'[r][k]
      BY <1>4, <1>7, <2>1, <2>2, <3>2, <3>4, <3>5, <3>7, <3>9 DEF Agrees
    <3>11. \A k \in settled' : k \in base[r] \union done'[r]
      BY <2>1, <3>2, <3>5 DEF Agrees
    <3>12. QED
      BY <1>7, <2>2, <3>2, <3>10, <3>11 DEF Agrees
  <2>6. CASE WriteRest(r)
    <3> DEFINE n == writing[r].node
    <3>1. /\ pc[r] = "rest" /\ pc'[r] = "newline" /\ writing' = writing
          /\ settled' = settled \union ({n} \intersect Nodes)
          /\ done' = done /\ outputs' = outputs
      BY <1>1, <2>6 DEF WriteRest, Goto, TypeOK
    <3>2. writing[r] # HeaderLine => n \in Nodes /\ n \notin settled
      BY <1>1, <2>1, <3>1, WritesUnsettled DEF Placed, Holds
    <3>3. writing[r] = HeaderLine => n \notin Nodes
      BY NamesApart DEF HeaderLine, Entry
    <3>4. \A k \in settled : Recorded'[k] = Recorded[k]
      BY <1>2, <1>4, <3>2, <3>3
    <3>5. writing[r] # HeaderLine => n \in settled' /\ Recorded'[n] = writing[r].output
      BY <1>2, <2>6, <3>1, <3>2
    <3>6. /\ \A k \in base[r] : k \in settled' /\ Recorded'[k] = loaded[r][k]
          /\ \A k \in done[r] : k \in settled' /\ Recorded'[k] = outputs[r][k]
      BY <2>1, <3>1, <3>4 DEF Agrees
    <3>7. \A k \in settled' : k \in base[r] \union done[r] \/ k = n
      BY <2>1, <3>1 DEF Agrees
    <3>8. QED
      BY <1>7, <2>2, <3>1, <3>5, <3>6, <3>7 DEF Agrees
  <2>7. CASE Emit(r)
    <3> DEFINE n == writing[r].node
    <3>1. /\ pc[r] = "emit" /\ pc'[r] = "node" /\ settled' = settled
          /\ n \in Nodes /\ writing[r] # HeaderLine
      BY <1>1, <2>7, NamesApart DEF Emit, Goto, ghosts, Placed, Holds, TypeOK, HeaderLine, Entry
    <3>2. ~WriteRest(r)
      BY <3>1 DEF WriteRest
    <3>3. \A k \in Nodes : Recorded'[k] = Recorded[k]
      BY <1>2, <3>2
    <3>4. /\ done'[r] = done[r] \union {n}
          /\ outputs'[r] = [outputs[r] EXCEPT ![n] = writing[r].output]
      BY <1>1, <2>7 DEF Emit, Pass, TypeOK
    <3>5. outputs[r] \in States /\ n \notin done[r]
      BY <1>1, <3>1 DEF TypeOK, Ahead, Holds
    <3>6. outputs'[r][n] = writing[r].output /\ \A k \in done[r] : outputs'[r][k] = outputs[r][k]
      BY <1>4, <3>1, <3>4, <3>5 DEF States
    <3>7. n \in settled /\ Recorded[n] = writing[r].output
      BY <2>1, <3>1 DEF Agrees
    <3>8. /\ \A k \in base[r] : k \in settled' /\ Recorded'[k] = loaded'[r][k]
          /\ \A k \in done'[r] : k \in settled' /\ Recorded'[k] = outputs'[r][k]
      BY <1>4, <1>7, <2>1, <2>2, <3>1, <3>3, <3>4, <3>6, <3>7 DEF Agrees
    <3>9. \A k \in settled' : k \in base[r] \union done'[r]
      BY <2>1, <3>1, <3>4 DEF Agrees
    <3>10. QED
      BY <1>7, <2>2, <3>1, <3>8, <3>9 DEF Agrees
  <2>8. CASE WriteNewline(r)
    <3>1. /\ pc[r] = "newline" /\ settled' = settled /\ writing' = writing
          /\ done' = done /\ outputs' = outputs
          /\ pc'[r] = IF writing[r] = HeaderLine THEN "plan" ELSE "emit"
      BY <1>1, <2>8 DEF WriteNewline, Goto, ghosts, TypeOK
    <3>2. ~WriteRest(r)
      BY <3>1 DEF WriteRest
    <3>3. \A k \in Nodes : Recorded'[k] = Recorded[k]
      BY <1>2, <3>2
    <3>4. writing[r] = HeaderLine => writing[r].node \notin Nodes
      BY NamesApart DEF HeaderLine, Entry
    <3>5. writing[r] # HeaderLine => writing[r].node \in Nodes
      BY <1>1, <3>1 DEF Placed, Holds
    <3>6. /\ \A k \in base[r] : k \in settled' /\ Recorded'[k] = loaded[r][k]
          /\ \A k \in done[r] : k \in settled' /\ Recorded'[k] = outputs[r][k]
      BY <1>4, <1>7, <2>1, <3>1, <3>3 DEF Agrees
    <3>7. writing[r] # HeaderLine =>
            writing[r].node \in settled' /\ Recorded'[writing[r].node] = writing[r].output
      BY <2>1, <3>1, <3>3, <3>5 DEF Agrees
    <3>8. \A k \in settled' : k \in base[r] \union done[r] \/ (k = writing[r].node /\ pc'[r] = "emit")
      BY <1>4, <2>1, <3>1, <3>4 DEF Agrees
    <3>9. QED
      BY <1>7, <2>2, <3>1, <3>6, <3>7, <3>8 DEF Agrees
  <2>9. CASE Open(r) \/ Plan(r) \/ WritePart(r) \/ \E n \in Nodes : Execute(r, n)
    <3>1. /\ UNCHANGED <<outputs, done, settled>>
          /\ pc[r] \in {"open", "plan", "part", "node"}
      BY <2>9 DEF Open, Plan, WritePart, Execute, Ready, ghosts
    <3>2. pc'[r] \notin {"newline", "emit"}
      BY <1>1, <2>1, <2>9 DEF Open, Plan, WritePart, Execute, Goto, TypeOK
    <3>3. ~WriteRest(r)
      BY <3>1 DEF WriteRest
    <3>4. \A k \in Nodes : Recorded'[k] = Recorded[k]
      BY <1>2, <3>3
    <3>5. /\ \A k \in base[r] : k \in settled' /\ Recorded'[k] = loaded[r][k]
          /\ \A k \in done[r] : k \in settled' /\ Recorded'[k] = outputs[r][k]
      BY <1>4, <1>7, <2>1, <3>1, <3>4 DEF Agrees
    <3>6. \A k \in settled' : k \in base[r] \union done[r]
      BY <2>1, <3>1 DEF Agrees
    <3>7. QED
      BY <1>7, <2>2, <3>1, <3>2, <3>5, <3>6 DEF Agrees
  <2>10. QED
    BY <2>2, <2>3, <2>4, <2>5, <2>6, <2>7, <2>8, <2>9, StepCases
<1>8. QED
  BY <1>5, <1>6, <1>7

LEMMA MergedStep ==
  ASSUME BaseInv, SoloInv, ExecutionInv, NEW r \in Runs, Step(r)
  PROVE  MergedInv'
<1> SUFFICES ASSUME ~overlapped', ~mixed', Intact', job' # None, job'.workflow \in Local
             PROVE  /\ Partial(job'.workflow, job'.input, settled', Recorded')
                    /\ \A q \in Runs : OnFile(q)' => Agrees(q)'
  BY DEF MergedInv
<1>1. \A q \in Runs : OnFile(q)' => Agrees(q)'
  BY AgreesStep
<1>2. TypeOK /\ FileFits /\ ~overlapped /\ ~mixed /\ Intact
  BY Users, HistorySteps, IntactSteps DEF BaseInv, PlaceInv
<1>3. job # None => Partial(job.workflow, job.input, settled, Recorded)
  <2>1. job # None => job' = job
    BY HistorySteps
  <2>2. QED
    BY <1>2, <2>1 DEF ExecutionInv, MergedInv
<1> DEFINE found == Recorded'  known == settled'
<1>4. Partial(job'.workflow, job'.input, known, found)
  <2>1. CASE settled' = settled /\ Recorded' = Recorded /\ (job # None => job' = job)
    <3>1. CASE job # None
      BY <1>3, <2>1, <3>1
    <3>2. CASE job = None
      <4>1. settled = {} /\ Text = <<>>
        BY <1>2, <3>2 DEF FileFits, Text, EmptyTail
      <4>2. Recorded = W!NoOutputs
        BY <4>1 DEF Recorded, Records, Latest, W!NoOutputs
      <4>3. QED
        BY <2>1, <4>1, <4>2, PartialNothing
    <3>3. QED
      BY <3>1, <3>2
  <2>2. ASSUME NEW n \in Nodes, NEW x, FileSettles(n, x)
        PROVE  Partial(job'.workflow, job'.input, known, found)
    <3> DEFINE w == job.workflow  in == job.input  given == W!InputFor(w, n, Recorded, in)
    <3>1. /\ job # None /\ n \in w.nodes \ settled /\ W!Predecessors(w, n) \subseteq settled
          /\ job' = job /\ known = settled \union {n} /\ found = [Recorded EXCEPT ![n] = x]
          /\ IF n = w.end \/ ~W!Allowed(w, n, Recorded) THEN x = None
             ELSE x \in W!OutputsOn(w, n, given)
      BY <2>2 DEF FileSettles
    <3>2. w \in Local /\ w \in Workflows /\ in \in Inputs
      BY <1>2, <3>1 DEF Local, TypeOK
    <3>3. Recorded \in States /\ DOMAIN Recorded = Nodes
      BY <1>2, TextType DEF States
    <3>4. x \in W!OutputsOn(w, n, given) => x # None /\ x.given = given
      BY <3>2, <3>3, OutputType, NamesApart
    <3> HIDE DEF given
    <3>5. IF n = w.end \/ ~W!Allowed(w, n, Recorded) THEN x = None
          ELSE x # None /\ x.given = W!InputFor(w, n, Recorded, in)
      BY <3>1, <3>4 DEF given
    <3>6. Partial(w, in, settled \union {n}, [Recorded EXCEPT ![n] = x])
      BY <1>3, <3>1, <3>2, <3>3, <3>5, PartialExtends
    <3>7. QED
      BY <3>1, <3>6
  <2>3. QED
    BY <2>1, <2>2, SettleSteps
<1>5. QED
  BY <1>1, <1>4

LEMMA ExecutionInit == Init => ExecutionInv
<1> SUFFICES ASSUME Init PROVE ExecutionInv
  OBVIOUS
<1>1. job = None /\ \A r \in Runs : pc[r] = "idle"
  BY DEF Init
<1>2. QED
  BY <1>1 DEF ExecutionInv, ResumeInv, JobInv, MergedInv, OnFile, Active

LEMMA ExecutionStutters ==
  ASSUME ExecutionInv, UNCHANGED vars
  PROVE  ExecutionInv'
<1>1. UNCHANGED <<pc, mode, workflow, input, loaded, outputs, done, writing, told, lines, tail,
                  job, settled, overlapped, mixed, cut, base, trusted>>
  BY DEF vars, runVars, fileVars, ghosts
<1>2. Recorded' = Recorded /\ (Intact' <=> Intact)
  BY <1>1 DEF Text, TailLine, Recorded, Intact
<1>3. \A r \in Runs : (OnFile(r)' <=> OnFile(r)) /\ (RunGood(r)' <=> RunGood(r))
  BY <1>1 DEF OnFile, Active, Checkpointed, RunGood
<1>4. \A r \in Runs : Agrees(r)' <=> Agrees(r)
  BY <1>1, <1>2 DEF Agrees
<1>5. ResumeInv' /\ JobInv'
  BY <1>1, <1>3 DEF ExecutionInv, ResumeInv, JobInv, Checkpointed
<1>6. MergedInv'
  BY <1>1, <1>2, <1>3, <1>4 DEF ExecutionInv, MergedInv
<1>7. QED
  BY <1>5, <1>6 DEF ExecutionInv

\* The invariant of what the runs and the file say about an execution.
THEOREM ExecutionInvariance == Spec => []ExecutionInv
<1>1. BaseInv /\ FileInv /\ ExecutionInv /\ [Next]_vars => ExecutionInv'
  <2>1. ASSUME BaseInv, FileInv, ExecutionInv, NEW r \in Runs, Step(r) PROVE ExecutionInv'
    BY <2>1, ResumeStep, JobStep, MergedStep DEF ExecutionInv, FileInv
  <2>2. Next => \E r \in Runs : Step(r)
    BY DEF Next, Step
  <2>3. QED
    BY <2>1, <2>2, ExecutionStutters
<1>2. QED
  BY <1>1, ExecutionInit, FileInvariance, PTL DEF Spec

\* A run that goes on from a checkpoint never combines outputs of different
\* executions: what run_checkpointed reuses was computed from the outputs it has, for
\* any local workflow, wherever the runs before it stopped.
THEOREM ResumptionIsConsistent == Spec => []ResumedRunConsistent
<1>1. ExecutionInv => ResumedRunConsistent
  <2> SUFFICES ASSUME ExecutionInv, NEW r \in Runs, pc[r] # "idle", workflow[r] \in Local, trusted[r]
               PROVE  Consistent(r)
    BY DEF ResumedRunConsistent
  <2>1. RunGood(r)
    BY DEF ExecutionInv, ResumeInv
  <2>2. QED
    BY <2>1 DEF RunGood, Partial, Consistent, Skipped
<1>2. QED
  BY <1>1, ExecutionInvariance, PTL

\* The runs of one checkpoint together implement one uninterrupted run: each step
\* of run_checkpointed starts it, settles its next node with an output that node may
\* have, or changes nothing of it.
THEOREM RunsImplementOne == Spec => ImplementsOneRun
<1> DEFINE Whole == /\ ~overlapped /\ ~mixed /\ Intact
                    /\ job # None => job.workflow \in Local
           Body == Whole' => [W!Next]_(W!resultVars)
<1>1. ASSUME BaseInv, FileInv, ExecutionInv, NEW r \in Runs, Step(r), Whole'
      PROVE  [W!Next]_(W!resultVars)
  <2>1. TypeOK /\ SoloInv /\ FileFits
    BY <1>1 DEF BaseInv, PlaceInv, FileInv
  <2>2. CASE job' = None
    <3>1. job = None /\ settled = {} /\ ~BeginCheckpointed(r)
      <4>1. BeginCheckpointed(r) => job' # None
        <5>1. \A w \in Workflows, in \in Inputs : [workflow |-> w, input |-> in] # None
          BY NamesApart
        <5>2. QED
          BY <5>1 DEF BeginCheckpointed
      <4>2. job = None
        BY <1>1, <2>2, <4>1, HistorySteps
      <4>3. QED
        BY <2>1, <2>2, <4>1, <4>2 DEF FileFits
    <3>2. ~Checkpointed(r) \/ BeginPlain(r)
      <4>1. pc[r] # "idle" => ~Checkpointed(r)
        BY <2>1, <3>1 DEF FileFits
      <4>2. pc[r] = "idle" => BeginPlain(r)
        BY <1>1, <3>1, StepCases DEF Open, Plan, Skip, Reuse, Execute,
             Ready, WritePart, WriteRest, WriteNewline, Emit, Finish, Stop, Active
      <4>3. QED
        BY <4>1, <4>2
    <3>3. ~WriteRest(r)
      BY <1>1, <2>1, <3>1, Users DEF FileFits, OnFile, Active
    <3>4. settled' = settled
      BY <1>1, <3>2, <3>3, HistorySteps DEF BeginPlain, Call
    <3>5. \A n \in Nodes : Recorded'[n] = Recorded[n]
      BY <1>1, <3>3, IntactSteps
    <3>6. Recorded' = Recorded
      BY <3>5, RecordedFunction
    <3>7. QED
      BY <2>2, <3>1, <3>4, <3>6 DEF W!resultVars
  <2>3. CASE job' # None
    <3>1. CASE settled' = settled /\ Recorded' = Recorded /\ (job # None => job' = job)
      <4>1. CASE job # None
        BY <3>1, <4>1 DEF W!resultVars
      <4>2. CASE job = None
        <5>1. BeginCheckpointed(r)
          BY <1>1, <2>3, <4>2, HistorySteps
        <5>2. \E w \in Workflows, in \in Inputs : job' = [workflow |-> w, input |-> in]
          BY <4>2, <5>1 DEF BeginCheckpointed
        <5>3. W!Start
          BY <3>1, <4>2, <5>2 DEF W!Start
        <5>4. QED
          BY <5>3 DEF W!Next
      <4>3. QED
        BY <4>1, <4>2
    <3>2. ASSUME NEW n \in Nodes, NEW x, FileSettles(n, x) PROVE W!Next
      <4>1. n = job.workflow.end \/ ~W!Allowed(job.workflow, n, Recorded) => Recorded' = Recorded
        <5>1. ASSUME n = job.workflow.end \/ ~W!Allowed(job.workflow, n, Recorded)
              PROVE  Recorded' = Recorded
          <6>1. x = None /\ Recorded' = [Recorded EXCEPT ![n] = x] /\ n \notin settled /\ job' = job
            BY <3>2, <5>1 DEF FileSettles
          <6>2. Partial(job.workflow, job.input, settled, Recorded)
            <7>1. ~overlapped /\ ~mixed /\ Intact /\ job # None /\ job.workflow \in Local
              BY <1>1, <2>3, <6>1, Users, HistorySteps, IntactSteps
            <7>2. QED
              BY <1>1, <7>1 DEF ExecutionInv, MergedInv
          <6>3. Recorded[n] = None
            BY <6>1, <6>2 DEF Partial
          <6>4. QED
            BY <6>1, <6>3, RecordedFunction
        <5>2. QED
          BY <5>1
      <4>2. W!Settle(n)
        BY <3>2, <4>1 DEF FileSettles, W!Settle
      <4>3. QED
        BY <4>2 DEF W!Next
    <3>3. QED
      BY <1>1, <2>1, <2>3, <3>1, <3>2, SettleSteps
  <2>4. QED
    BY <2>2, <2>3
<1>2. ASSUME BaseInv, FileInv, ExecutionInv, [Next]_vars PROVE [Body]_vars
  <2>1. Next => \E r \in Runs : Step(r)
    BY DEF Next, Step
  <2>2. QED
    BY <1>1, <1>2, <2>1
<1>3. BaseInv /\ FileInv /\ ExecutionInv /\ [Next]_vars => [Body]_vars
  BY <1>2
<1>4. QED
  BY <1>3, FileInvariance, ExecutionInvariance, PTL DEF Spec, ImplementsOneRun

\* Before any run is called the file stands for an execution that has not begun.
THEOREM RunsStartAsOne == Spec => W!Init
<1>1. Init => W!Init
  <2> SUFFICES ASSUME Init PROVE W!Init
    OBVIOUS
  <2>1. Text = <<>>
    BY DEF Init, Text, EmptyTail
  <2>2. Recorded = W!NoOutputs
    BY <2>1 DEF Recorded, Records, Latest, W!NoOutputs
  <2>3. QED
    BY <2>2 DEF Init, W!Init
<1>2. QED
  BY <1>1, PTL DEF Spec
=============================================================================
