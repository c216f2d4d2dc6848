---------------------------- MODULE MCPlayground ----------------------------
(* Playground for TLC: members are interchangeable, and so are handlers.   *)
EXTENDS Playground, TLC

Symmetry == Permutations(Member) \cup Permutations(Caller)
=============================================================================
