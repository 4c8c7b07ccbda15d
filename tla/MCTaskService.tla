--------------------------- MODULE MCTaskService ----------------------------
(* TaskService on small sets of model values, with the bounds its runs use. *)
EXTENDS TaskService, TLC

(* Callers, attempts and approvals are interchangeable. *)
Symmetry ==
  Permutations(Callers) \cup Permutations(Attempts) \cup Permutations(Approvals)

=============================================================================
