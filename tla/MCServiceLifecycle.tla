-------------------------- MODULE MCServiceLifecycle --------------------------
(* Instances of ServiceLifecycle for TLC. *)
EXTENDS ServiceLifecycle, TLC

(* Server identities and clients are interchangeable. *)
Symmetry == Permutations(Servers) \cup Permutations(Clients)
===============================================================================
