---------------------------- MODULE MCUserSession ----------------------------
(* UserSession for TLC: every page is of one user.                         *)
EXTENDS UserSession, TLC

CONSTANT u1

SlotSymmetry == Permutations(Slot)

OneUser == [p \in Page |-> u1]
=============================================================================
