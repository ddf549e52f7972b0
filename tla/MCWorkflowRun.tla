--------------------------- MODULE MCWorkflowRun ---------------------------
EXTENDS WorkflowRun, TLC
CONSTANTS s, a, b, e, v1, v2
Edge(from, to, condition) == [from |-> from, to |-> to, condition |-> condition]
If(n, v) == [node |-> n, equal |-> TRUE, value |-> v]
IfNot(n, v) == [node |-> n, equal |-> FALSE, value |-> v]

\* Two branches that exclude each other; the second also takes the first's
\* output when there is one.
Branches ==
  [nodes |-> {s, a, b, e}, starts |-> {s}, end |-> e,
   edges |-> <<Edge(s, a, If(s, v1)), Edge(a, b, None), Edge(s, b, IfNot(a, v1)),
               Edge(b, e, None), Edge(a, e, None)>>]
\* A condition on a node of the other branch.
Crossed ==
  [nodes |-> {s, a, b, e}, starts |-> {s}, end |-> e,
   edges |-> <<Edge(s, a, None), Edge(s, b, If(a, v1)), Edge(b, e, None)>>]
\* Two nodes that wait for each other.
Cyclic ==
  [nodes |-> {s, a, b}, starts |-> {s}, end |-> None,
   edges |-> <<Edge(s, a, None), Edge(a, b, None), Edge(b, a, None)>>]
\* No End node: noticed after the nodes have been executed.
Endless == [nodes |-> {s, a}, starts |-> {s}, end |-> None, edges |-> <<Edge(s, a, None)>>]

MCNodes == {s, a, b, e}
MCWorkflows == {Branches, Crossed, Cyclic, Endless}
RunSymmetry == Permutations(Runs)

Started == {r \in Runs : pc[r] # "idle"}

\* Plain runs share nothing with others.  A file that two runs use at once is
\* followed to its third line, with two runs for one job; one used for different
\* jobs, with two runs.
Bounds ==
  /\ \A r \in Started : mode[r] = "run" => Started = {r}
  /\ overlapped => ~mixed /\ Len(lines) <= 2 /\ Cardinality(Started) <= 2
  /\ mixed => Cardinality(Started) <= 2
=============================================================================
