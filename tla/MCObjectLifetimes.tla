------------------------- MODULE MCObjectLifetimes -------------------------
(* ObjectLifetimes for TLC. *)
EXTENDS ObjectLifetimes, TLC

(* Objects of a class are interchangeable. *)
Symmetry == Permutations(Programs) \cup Permutations(Kernels) \cup Permutations(Buffers)
=============================================================================
