--------------------------- MODULE MCSupervisor ---------------------------
(* Instances of ModelSupervisor for TLC. *)
EXTENDS ModelSupervisor, TLC

\* Requests are interchangeable.
RequestSymmetry == Permutations(Requests)
=============================================================================
