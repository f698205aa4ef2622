---------------------------- MODULE MCHostMetrics ----------------------------
(* Enough generations for two restarts, and a slot for every poll they leave *)
(* behind.                                                                   *)
EXTENDS HostMetrics, TLC

MCSymmetry == Permutations(Polls) \cup Permutations(Workspaces)
===============================================================================
