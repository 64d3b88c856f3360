--------------------------- MODULE MCClientTui ---------------------------
(* The two parts of the client TUI for TLC.  They share no variable and no    *)
(* step, so a behaviour chooses one of them and the other stands still:        *)
(* two processes with two names and three menu actions, or one process that    *)
(* starts three kernels.                                                       *)
EXTENDS ConfigStore, KernelManager, TLC

CONSTANTS p1, p2, n1, n2
MCProcs == {p1, p2}
MCNames == {n1, n2}

VARIABLE part   \* which of the two runs

TuiInit == Init /\ ManagerInit /\ part \in {"store", "manager"}
StoreRuns == part = "store" /\ Next /\ UNCHANGED <<managerVars, part>>
ManagerRuns == part = "manager" /\ ManagerNext /\ UNCHANGED <<vars, part>>
TuiNext == StoreRuns \/ ManagerRuns

(* Whatever stands still has no step that fairness could demand. *)
TuiSpec == /\ TuiInit /\ [][TuiNext]_<<vars, managerVars, part>>
           /\ StoreFairness /\ ManagerFairness
=============================================================================
