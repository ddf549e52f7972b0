----------------------------- MODULE MCTeamRuns -----------------------------
EXTENDS TeamRuns, TLC

CONSTANTS m1, m2, p1, p2

MCReviewerSets == {{}, {m1, m2}}
MCMaxVotes == [t \in Tasks |-> IF t = 1 THEN 2 ELSE 1]
MCOutputs == Callers \union {Other}
\* Bound: overlapping operations are followed on one task.
OverlapOnOneTask == raced => Known(board) \subseteq {1}
Symmetry == Permutations(Callers)
=============================================================================
