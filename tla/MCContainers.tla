----------------------------- MODULE MCContainers -----------------------------
(* Instances of Containers for TLC. *)
EXTENDS Containers, TLC

\* Handlers and containers are interchangeable in every property.
Symmetry == Permutations(Handlers) \cup Permutations(Cnts)
=============================================================================
