----------------------------- MODULE WorkflowRun -----------------------------
(***************************************************************************)
(* WorkflowEngineImpl: runs of a workflow, plain ones and ones with a      *)
(* checkpoint file, with or without a stream sink.  A checkpointed run     *)
(* loads the file, executes the nodes that have no line in it and appends  *)
(* a line after each.  A line reaches the file in pieces, without a lock.  *)
(* A run may end in an error, or with its process, between any two steps,  *)
(* and another run may be started on the same file.                        *)
(***************************************************************************)
EXTENDS Naturals, Sequences, FiniteSets

CONSTANTS
  Runs,          \* calls of the engine
  Nodes, Workflows, Inputs, Values, None,
  Modes,         \* entry points used, a subset of AllModes
  Header, Corrupt  \* the version line, and a line that is not a record

VARIABLES
  pc,            \* where a run is
  mode, workflow, input,   \* what it was called with
  loaded,        \* the outputs it found in the checkpoint
  outputs, done, \* its state: outputs so far, nodes it has passed
  writing,       \* the line it is appending
  told,          \* outputs its sink was given in resume and node events
  lines, tail,   \* the checkpoint: complete lines, and what follows the last
  job,           \* workflow and input of the first checkpointed run
  settled,       \* nodes settled by some checkpointed run
  overlapped, mixed, cut,  \* two runs used the file at once; with different
                 \* workflows or inputs; a line was left unfinished
  base, trusted  \* a run's settled when it was called, and whether the file had
                 \* then been used by one run at a time for the same job
                 \* (these seven are history: no action reads them)

runVars == <<mode, workflow, input, loaded>>
fileVars == <<lines, tail>>
ghosts == <<job, settled, overlapped, mixed, cut, base, trusted>>
vars == <<pc, runVars, outputs, done, writing, told, fileVars, ghosts>>

AllModes == {"run", "stream", "run_checkpointed", "stream_checkpointed"}

\* The readable part of the checkpoint, as the outputs of one run.
Entry(n, out) == [node |-> n, output |-> out]
HeaderLine == Entry(Header, None)
CorruptLine == Entry(Corrupt, None)
NoLine == Entry(None, None)
EmptyTail == [state |-> "empty", by |-> None, line |-> NoLine]

TailLine == IF tail.state = "whole" THEN tail.line ELSE CorruptLine
Text == IF tail.state = "empty" THEN lines ELSE Append(lines, TailLine)

Latest(text, n) ==
  LET own == {i \in DOMAIN text : text[i].node = n}
  IN  IF own = {} THEN None
      ELSE text[CHOOSE i \in own : \A j \in own : j <= i].output
Records(text) == [n \in Nodes |-> Latest(text, n)]
Recorded == Records(Text)

\* The workflow's semantics.
W == INSTANCE WorkflowResult WITH outputs <- Recorded

ASSUME RunAssumption ==
  /\ \A w \in Workflows : W!IsWorkflow(w)
  /\ Inputs \subseteq Values
  /\ Modes \subseteq AllModes
  /\ Header # Corrupt
  /\ {Header, Corrupt, None} \cap Nodes = {}
  /\ None \notin W!Outputs \union W!Conditions \union Values \union {Header, Corrupt}
  /\ None \notin Runs \union [workflow : Workflows, input : Inputs]

Local == {w \in Workflows : W!LocalConditions(w)}

Checkpointed(r) == mode[r] \in {"run_checkpointed", "stream_checkpointed"}
Streamed(r) == mode[r] \in {"stream", "stream_checkpointed"}
Active(r) == pc[r] \notin {"idle", "finished", "stopped"}

Init ==
  /\ pc = [r \in Runs |-> "idle"]
  /\ mode = [r \in Runs |-> None]
  /\ workflow = [r \in Runs |-> None]
  /\ input = [r \in Runs |-> None]
  /\ loaded = [r \in Runs |-> W!NoOutputs]
  /\ outputs = [r \in Runs |-> W!NoOutputs]
  /\ done = [r \in Runs |-> {}]
  /\ writing = [r \in Runs |-> NoLine]
  /\ told = [r \in Runs |-> W!NoOutputs]
  /\ lines = <<>>
  /\ tail = EmptyTail
  /\ job = None
  /\ settled = {}
  /\ overlapped = FALSE
  /\ mixed = FALSE
  /\ cut = FALSE
  /\ base = [r \in Runs |-> {}]
  /\ trusted = [r \in Runs |-> TRUE]

Goto(r, place) == pc' = [pc EXCEPT ![r] = place]

----------------------------------------------------------------------------
(* Starting a run.                                                         *)

\* Every line is a record, except that the first may be the header.
Loadable == \A i \in DOMAIN Text : Text[i].node \in Nodes \/ (i = 1 /\ Text[i] = HeaderLine)

Call(r, w, in, m) ==
  /\ pc[r] = "idle"
  /\ mode' = [mode EXCEPT ![r] = m]
  /\ workflow' = [workflow EXCEPT ![r] = w]
  /\ input' = [input EXCEPT ![r] = in]
  /\ UNCHANGED <<outputs, done, writing, told, fileVars, settled, cut>>

BeginPlain(r) ==
  /\ \E w \in Workflows, in \in Inputs, m \in Modes \cap {"run", "stream"} :
       Call(r, w, in, m)
  /\ Goto(r, "plan")
  /\ UNCHANGED <<loaded, job, overlapped, mixed, base, trusted>>

\* load_workflow_checkpoint comes before anything else; the file is not locked.
BeginCheckpointed(r) ==
  /\ \E w \in Workflows, in \in Inputs,
        m \in Modes \cap {"run_checkpointed", "stream_checkpointed"} :
       /\ Call(r, w, in, m)
       /\ LET this == [workflow |-> w, input |-> in]
          IN  /\ job' = IF job = None THEN this ELSE job
              /\ mixed' = (mixed \/ job \notin {None, this})
  /\ overlapped' = (overlapped \/ \E q \in Runs : Active(q) /\ Checkpointed(q))
  /\ base' = [base EXCEPT ![r] = settled]
  /\ trusted' = [trusted EXCEPT ![r] = ~overlapped /\ ~mixed']
  /\ IF Loadable
     THEN loaded' = [loaded EXCEPT ![r] = Recorded] /\ Goto(r, "open")
     ELSE UNCHANGED loaded /\ Goto(r, "stopped")

\* Faulty variant: the header is written whether or not the file is empty.
OpenAlwaysHeader(r) ==
  /\ pc[r] = "open"
  /\ writing' = [writing EXCEPT ![r] = HeaderLine]
  /\ Goto(r, "part")
  /\ UNCHANGED <<runVars, outputs, done, told, fileVars, ghosts>>

\* ensure_checkpoint_header
Open(r) ==
  /\ pc[r] = "open"
  /\ IF lines = <<>> /\ tail = EmptyTail
     THEN writing' = [writing EXCEPT ![r] = HeaderLine] /\ Goto(r, "part")
     ELSE UNCHANGED writing /\ Goto(r, "plan")
  /\ UNCHANGED <<runVars, outputs, done, told, fileVars, ghosts>>

\* topo_order, and the check for a Start node that run_checkpointed lacks.
Plan(r) ==
  /\ pc[r] = "plan"
  /\ Goto(r, IF \/ W!HasCycle(workflow[r])
                \/ workflow[r].starts = {} /\ mode[r] # "run_checkpointed"
             THEN "stopped" ELSE "node")
  /\ UNCHANGED <<runVars, outputs, done, writing, told, fileVars, ghosts>>

----------------------------------------------------------------------------
(* The nodes, in any order in which each follows its predecessors: the     *)
(* order of topo_order depends on that of a HashMap.                       *)

\* Faulty variant: nodes are taken in the order of the specification.
ReadyUnordered(r, n) == pc[r] = "node" /\ n \in workflow[r].nodes \ done[r]

Ready(r, n) ==
  /\ pc[r] = "node"
  /\ n \in workflow[r].nodes \ done[r]
  /\ W!Predecessors(workflow[r], n) \subseteq done[r]

Skipped(r, n) == n = workflow[r].end \/ ~W!Allowed(workflow[r], n, outputs[r])

Pass(r, n, out) ==
  /\ done' = [done EXCEPT ![r] = @ \union {n}]
  /\ outputs' = [outputs EXCEPT ![r][n] = out]

Tell(r, n, out) == told' = [told EXCEPT ![r][n] = IF Streamed(r) THEN out ELSE @]

Settled(r, n) == settled' = IF Checkpointed(r) THEN settled \union {n} ELSE settled

\* The End node, and nodes that an incoming edge does not allow.
Skip(r, n) ==
  /\ Ready(r, n)
  /\ Skipped(r, n)
  /\ Pass(r, n, None)
  /\ Settled(r, n)
  /\ UNCHANGED <<pc, runVars, writing, told, fileVars,
                 job, overlapped, mixed, cut, base, trusted>>

\* A node with a line is not executed again.
Reuse(r, n) ==
  /\ Ready(r, n)
  /\ ~Skipped(r, n)
  /\ loaded[r][n] # None
  /\ Pass(r, n, loaded[r][n])
  /\ Tell(r, n, loaded[r][n])
  /\ UNCHANGED <<pc, runVars, writing, fileVars, ghosts>>

\* What executing n may give.
Output(r, n) ==
  W!OutputsOn(workflow[r], n, W!InputFor(workflow[r], n, outputs[r], input[r]))

\* Faulty variant: every node is given the input of the workflow.
ExecuteOnInput(r, n) ==
  /\ Ready(r, n)
  /\ ~Skipped(r, n)
  /\ loaded[r][n] = None
  /\ \E out \in W!OutputsOn(workflow[r], n, input[r]) :
       writing' = [writing EXCEPT ![r] = Entry(n, out)]
  /\ Goto(r, IF Checkpointed(r) THEN "part" ELSE "emit")
  /\ UNCHANGED <<runVars, outputs, done, told, fileVars, ghosts>>

\* Faulty variant: the node event goes to the sink before the line is written.
ExecuteTellsFirst(r, n) ==
  /\ Ready(r, n)
  /\ ~Skipped(r, n)
  /\ loaded[r][n] = None
  /\ \E out \in Output(r, n) :
       writing' = [writing EXCEPT ![r] = Entry(n, out)] /\ Tell(r, n, out)
  /\ Goto(r, IF Checkpointed(r) THEN "part" ELSE "emit")
  /\ UNCHANGED <<runVars, outputs, done, fileVars, ghosts>>

\* execute_node and its streamed forms; it may also fail (Stop).
Execute(r, n) ==
  /\ Ready(r, n)
  /\ ~Skipped(r, n)
  /\ loaded[r][n] = None
  /\ \E out \in Output(r, n) : writing' = [writing EXCEPT ![r] = Entry(n, out)]
  /\ Goto(r, IF Checkpointed(r) THEN "part" ELSE "emit")
  /\ UNCHANGED <<runVars, outputs, done, told, fileVars, ghosts>>

\* writeln! hands the line to the file in several writes.
WritePart(r) ==
  /\ pc[r] = "part"
  /\ tail' = IF tail.state = "empty"
             THEN [state |-> "part", by |-> r, line |-> NoLine]
             ELSE [state |-> "garbage", by |-> None, line |-> NoLine]
  /\ Goto(r, "rest")
  /\ UNCHANGED <<runVars, outputs, done, writing, told, lines, ghosts>>

WriteRest(r) ==
  /\ pc[r] = "rest"
  /\ tail' = IF tail.state = "part" /\ tail.by = r
             THEN [state |-> "whole", by |-> None, line |-> writing[r]]
             ELSE [state |-> "garbage", by |-> None, line |-> NoLine]
  /\ settled' = settled \union ({writing[r].node} \cap Nodes)
  /\ Goto(r, "newline")
  /\ UNCHANGED <<runVars, outputs, done, writing, told, lines,
                 job, overlapped, mixed, cut, base, trusted>>

\* The end of the line, and sync_data.
WriteNewline(r) ==
  /\ pc[r] = "newline"
  /\ lines' = Append(lines, TailLine)
  /\ tail' = EmptyTail
  /\ Goto(r, IF writing[r] = HeaderLine THEN "plan" ELSE "emit")
  /\ UNCHANGED <<runVars, outputs, done, writing, told, ghosts>>

\* The node event goes to the sink, then the output into the state.
Emit(r) ==
  /\ pc[r] = "emit"
  /\ Tell(r, writing[r].node, writing[r].output)
  /\ Pass(r, writing[r].node, writing[r].output)
  /\ Goto(r, "node")
  /\ UNCHANGED <<runVars, writing, fileVars, ghosts>>

\* All nodes are passed; a missing End node is noticed only now.
Finish(r) ==
  /\ pc[r] = "node"
  /\ done[r] = workflow[r].nodes
  /\ Goto(r, IF workflow[r].end = None THEN "stopped" ELSE "finished")
  /\ UNCHANGED <<runVars, outputs, done, writing, told, fileVars, ghosts>>

\* A node, the sink or the disk fails, the stream is cancelled, or the process
\* dies.  An unfinished line stays as it is.
Stop(r) ==
  /\ Active(r)
  /\ Goto(r, "stopped")
  /\ cut' = (cut \/ pc[r] \in {"rest", "newline"})
  /\ UNCHANGED <<runVars, outputs, done, writing, told, fileVars,
                 job, settled, overlapped, mixed, base, trusted>>

Advance(r, n) == Skip(r, n) \/ Reuse(r, n) \/ Execute(r, n)
Write(r) == WritePart(r) \/ WriteRest(r) \/ WriteNewline(r)

Next ==
  \E r \in Runs :
    \/ BeginPlain(r) \/ BeginCheckpointed(r) \/ Open(r) \/ Plan(r)
    \/ \E n \in Nodes : Advance(r, n)
    \/ Write(r) \/ Emit(r) \/ Finish(r) \/ Stop(r)

Spec == Init /\ [][Next]_vars

----------------------------------------------------------------------------
(* Properties.                                                             *)

Lines == [node : Nodes \union {Header, Corrupt, None}, output : W!Outputs \union {None}]
States == [Nodes -> W!Outputs \union {None}]

TypeOK ==
  /\ pc \in [Runs -> {"idle", "open", "plan", "node", "part", "rest", "newline",
                      "emit", "finished", "stopped"}]
  /\ mode \in [Runs -> Modes \union {None}]
  /\ workflow \in [Runs -> Workflows \union {None}]
  /\ input \in [Runs -> Inputs \union {None}]
  /\ \A r \in Runs : pc[r] # "idle" => mode[r] \in Modes /\ workflow[r] \in Workflows /\ input[r] \in Inputs
  /\ loaded \in [Runs -> States] /\ outputs \in [Runs -> States] /\ told \in [Runs -> States]
  /\ done \in [Runs -> SUBSET Nodes]
  /\ writing \in [Runs -> Lines]
  /\ lines \in Seq(Lines)
  /\ tail \in [state : {"empty", "part", "whole", "garbage"},
               by : Runs \union {None}, line : Lines]
  /\ job \in [workflow : Workflows, input : Inputs] \union {None}
  /\ settled \in SUBSET Nodes
  /\ overlapped \in BOOLEAN /\ mixed \in BOOLEAN /\ cut \in BOOLEAN
  /\ base \in [Runs -> SUBSET Nodes] /\ trusted \in [Runs -> BOOLEAN]

\* The outputs of run r are those of one execution of its workflow on its input:
\* what it has passed without an output was not allowed, and every output was
\* computed from the input that the other outputs give.
Consistent(r) ==
  \A n \in done[r] :
    IF Skipped(r, n) THEN outputs[r][n] = None
    ELSE /\ outputs[r][n] # None
         /\ outputs[r][n].given = W!InputFor(workflow[r], n, outputs[r], input[r])

\* A resumed run never combines outputs that belong to different executions,
\* wherever the runs before it stopped and whoever uses the file from now on:
\* unless it had been used for another input or workflow, or by two runs at once,
\* or a condition looks at a node that need not come first.
ResumedRunConsistent ==
  \A r \in Runs :
    /\ pc[r] # "idle" /\ workflow[r] \in Local
    /\ trusted[r]
    => Consistent(r)

Intact == tail.state # "garbage" /\ \A i \in DOMAIN lines : lines[i].node # Corrupt

\* All runs on one checkpoint together take the steps of a single uninterrupted
\* run: nodes are settled once, in order, whatever stops and resumes.
ImplementsOneRun ==
  [][(/\ ~overlapped /\ ~mixed /\ Intact
      /\ job # None => job.workflow \in Local)'
     => [W!Next]_(W!resultVars)]_vars

\* A node never gets a second line, so none is executed again once its output is
\* recorded, unless two runs used the file at once.
OneLinePerNode ==
  ~overlapped =>
    \A i, j \in DOMAIN Text : Text[i].node = Text[j].node /\ Text[i].node \in Nodes => i = j

\* A checkpoint is refused only after a line was cut short or two runs used the
\* file at once, and it is not refused otherwise, whoever stopped where.
StaysLoadable == ~overlapped /\ ~cut /\ tail = EmptyTail => Loadable

\* What a stream's consumer was told about a node is what every later run of the
\* checkpoint reuses.
ToldIsRecorded ==
  ~overlapped /\ ~cut =>
    \A r \in Runs, n \in Nodes :
      Checkpointed(r) /\ told[r][n] # None => Recorded[n] = told[r][n]

\* The checkpoint file stays what a resumption expects: readable as long as
\* nothing cut a line, and with one line for a node, which is therefore never
\* executed again once its output is recorded.
CheckpointSound == TypeOK /\ OneLinePerNode /\ StaysLoadable
=============================================================================
