--------------------------- MODULE WorkflowResult ---------------------------
(***************************************************************************)
(* What one uninterrupted run of a workflow does: nodes are settled in an  *)
(* order in which each follows its predecessors; a node whose incoming     *)
(* edges all allow it is executed on the output of its first available     *)
(* predecessor, the others are skipped.  It also holds the definitions of  *)
(* a workflow that WorkflowRun uses.                                       *)
(***************************************************************************)
EXTENDS Naturals, Sequences, FiniteSets

CONSTANTS
  Nodes,         \* node ids
  Workflows,     \* the specifications that may be run
  Values,        \* what a node's output may be
  Inputs,        \* inputs of a workflow, some of these values
  None           \* absent output, end node or condition; the empty input

VARIABLES
  job,           \* None or the workflow and the input being run
  settled,       \* nodes that were executed or skipped
  outputs        \* the output of each node, None when it has none

resultVars == <<job, settled, outputs>>

\* A condition compares the output of a node with a value.
Conditions == [node : Nodes, equal : BOOLEAN, value : Values]

IsWorkflow(w) ==
  /\ w.nodes \subseteq Nodes
  /\ w.starts \subseteq w.nodes
  /\ w.end \in w.nodes \union {None}
  /\ w.edges \in Seq([from : w.nodes, to : w.nodes,
                      condition : Conditions \union {None}])

\* An output and the input it was computed from.
Outputs == [value : Values, given : Values \union {None}]
NoOutputs == [n \in Nodes |-> None]

Incoming(w, n) == {i \in DOMAIN w.edges : w.edges[i].to = n}
Predecessors(w, n) == {w.edges[i].from : i \in Incoming(w, n)}

\* A condition on a node that has no output compares with an absent value.
EdgeAllows(condition, out) ==
  condition # None =>
    (condition.equal <=> /\ out[condition.node] # None
                         /\ out[condition.node].value = condition.value)

Allowed(w, n, out) ==
  \A i \in Incoming(w, n) : EdgeAllows(w.edges[i].condition, out)

\* The incoming edges whose source has an output; the first one gives the input.
Available(w, n, out) == {i \in Incoming(w, n) : out[w.edges[i].from] # None}
First(edges) == CHOOSE i \in edges : \A j \in edges : i <= j

InputFor(w, n, out, input) ==
  IF n \in w.starts THEN input
  ELSE IF Available(w, n, out) = {} THEN None
  ELSE out[w.edges[First(Available(w, n, out))].from].value

\* A Start node hands on its input; what other nodes compute is external.
OutputsOn(w, n, given) ==
  [value : IF n \in w.starts THEN {given} ELSE Values, given : {given}]

\* Some nodes that all wait for one another.
HasCycle(w) ==
  \E S \in SUBSET w.nodes : S # {} /\ \A n \in S : Predecessors(w, n) \cap S # {}

\* Nodes that come before n in every order.
Ancestors(w, n) ==
  {m \in w.nodes : \A S \in SUBSET w.nodes :
     /\ Predecessors(w, n) \subseteq S
     /\ \A k \in S : Predecessors(w, k) \subseteq S
     => m \in S}

\* Every condition looks at a node that comes before the edge's target.
LocalConditions(w) ==
  \A i \in DOMAIN w.edges :
    w.edges[i].condition # None =>
      w.edges[i].condition.node \in Ancestors(w, w.edges[i].to)

----------------------------------------------------------------------------
Init ==
  /\ job = None
  /\ settled = {}
  /\ outputs = NoOutputs

Start ==
  /\ job = None
  /\ \E w \in Workflows, input \in Inputs : job' = [workflow |-> w, input |-> input]
  /\ UNCHANGED <<settled, outputs>>

Settle(n) ==
  /\ job # None
  /\ n \in job.workflow.nodes \ settled
  /\ Predecessors(job.workflow, n) \subseteq settled
  /\ settled' = settled \union {n}
  /\ IF n = job.workflow.end \/ ~Allowed(job.workflow, n, outputs)
     THEN UNCHANGED outputs
     ELSE \E out \in OutputsOn(job.workflow, n,
                                InputFor(job.workflow, n, outputs, job.input)) :
            outputs' = [outputs EXCEPT ![n] = out]
  /\ UNCHANGED job

Next == Start \/ \E n \in Nodes : Settle(n)

Spec == Init /\ [][Next]_resultVars
=============================================================================
