------------------------------ MODULE MCCluster ------------------------------
(***************************************************************************)
(* A whole benchmark over four nodes: what the cluster promises, the       *)
(* inductive invariant that the proofs use and the refinement.  Nodes are  *)
(* told apart by their place in the host list, so there is no symmetry to  *)
(* use.                                                                    *)
(***************************************************************************)
EXTENDS PhasesRefinement, ClusterInvariant
=============================================================================
