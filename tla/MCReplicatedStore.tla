-------------------------- MODULE MCReplicatedStore --------------------------
(***************************************************************************)
(* Instances of ReplicatedStore for TLC.                                   *)
(***************************************************************************)
EXTENDS ReplicatedStore

\* Nodes and keys are only compared.
Symmetry == Permutations(Nodes) \union Permutations(ReplKeys)

=============================================================================
