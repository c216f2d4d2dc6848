---------------------------- MODULE MCStatusTrust ----------------------------
(* StatusTrust for TLC: callers are interchangeable; members are not, as   *)
(* Init gives every caller the same one.                                   *)
EXTENDS StatusTrust, TLC

Symmetry == Permutations(Caller)
=============================================================================
