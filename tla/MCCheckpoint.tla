---------------------------- MODULE MCCheckpoint ----------------------------
(* Checkpoint with few artifacts and creations. *)
EXTENDS Checkpoint, TLC

(* Artifacts are interchangeable. *)
Symmetry == Permutations(Artifacts)

=============================================================================
