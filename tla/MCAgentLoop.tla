---------------------------- MODULE MCAgentLoop ----------------------------
EXTENDS AgentLoop, TLC

CONSTANT MaxLog   \* bound on the events of the session

Symmetry == Permutations(Runs)
Bounded == Len(log) <= MaxLog
=============================================================================
