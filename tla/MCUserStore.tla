----------------------------- MODULE MCUserStore -----------------------------
(* Instances of UserStore for TLC: the first revision enables every login,  *)
(* a later one disables one of them.                                        *)
EXTENDS UserStore, TLC

CONSTANT Disabled   (* the logins the later revisions disable *)

EnabledAll ==
  [r \in Revs \cup {NoRev} |->
     IF r = NoRev THEN {} ELSE IF r = FirstRev THEN Logins
     ELSE Logins \ Disabled]

(* Admins are interchangeable. *)
Symmetry == Permutations(Admins)

(* The bound of the exploration: once two saves have overlapped, which the  *)
(* properties of the run exclude, only the saves in progress go on.         *)
OverlapEnds ==
  ~Serial => /\ \E a \in Admins : apc[a] # "idle"
             /\ \A l \in Logins : lpc[l] = "idle"
===============================================================================
