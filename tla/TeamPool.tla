------------------------------ MODULE TeamPool ------------------------------
(***************************************************************************)
(* What a runtime keeps beside an active team: the gate its members pass   *)
(* and the controller of its background runs, each with a mutex of its     *)
(* own and neither calling the other.                                      *)
(***************************************************************************)
EXTENDS InteractGate, BackgroundRuns

poolVars == <<gateVars, runsVars>>

PoolInit == GateInit /\ RunsInit

PoolNext == \/ GateNext /\ UNCHANGED runsVars
            \/ RunsNext /\ UNCHANGED gateVars

PoolSpec == PoolInit /\ [][PoolNext]_poolVars
PoolFairSpec == PoolSpec /\ GateFairness

\* Every variable of the two parts has its type.
PoolTypeOK == GateTypeOK /\ RunsTypeOK

\* close_and_drain of the gate can rely on its count: it is that of the tickets
\* that are out, and a closer that has returned finds nobody inside.
GateSound == PoolTypeOK /\ CountMatches /\ DrainIsQuiet

\* The background controller accounts for every run it was given: the run has
\* settled, is paused or is at work, is so once, and can be paused while at work.
RunsAccounted == NoneLost /\ NotTwice /\ AtWorkIsRegistered
=============================================================================
