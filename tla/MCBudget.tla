------------------------------ MODULE MCBudget ------------------------------
(* Budget with few callers and limits that a handful of calls can reach. *)
EXTENDS Budget, TLC

(* Tasks, callers and approvals are interchangeable. *)
Symmetry ==
  Permutations(Tasks) \cup Permutations(Callers) \cup Permutations(Approvals)

=============================================================================
