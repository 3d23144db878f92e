---------------------------- MODULE MCAgentRunner ----------------------------
(* Instances of AgentRunner for TLC.  Workloads and children are model      *)
(* values no definition tells apart, so they are symmetric; the symmetry is *)
(* used in the runs that check no liveness property.                        *)
EXTENDS AgentRunner, TLC

Symmetry == Permutations(Workloads) \cup Permutations(Children)
=============================================================================
