----------------------------- MODULE MCConfigStore -----------------------------
EXTENDS ConfigStore, FiniteSets, TLC

(* Clients are interchangeable. *)
Symmetry == Permutations(Clients)

(* The bound of the exploration: one hazard at a time, and after unlocked   *)
(* saves have overlapped, which every property excludes, only the requests *)
(* in progress.                                                            *)
OneHazard ==
  /\ Cardinality(met) <= 1
  /\ "overlap" \in met => Pending # {}
================================================================================
