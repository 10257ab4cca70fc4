--------------------------- MODULE MCExplanations ---------------------------
(* Small instances of Explanations: one or two expenses, two replicas. *)
EXTENDS Explanations, TLC

ReplicaSymmetry == Permutations(Replicas) \cup Permutations(Contents) \cup Permutations(Batches)
=============================================================================
