-------------------------- MODULE MCWorkloadControl --------------------------
(* Instances of WorkloadControl for TLC.  Symmetric sets are used only in    *)
(* runs without liveness properties.                                         *)
EXTENDS WorkloadControl, TLC

Symmetry ==
  Permutations(Commands) \cup Permutations(Requests) \cup Permutations(Reconcilers)
    \cup Permutations(Agents)
=============================================================================
