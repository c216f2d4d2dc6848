--------------------------- MODULE MCRequestLimiter ---------------------------
(* RequestLimiter with a history of what was admitted, and for TLC the     *)
(* slots made interchangeable.                                             *)
EXTENDS RequestLimiter, TLC

VARIABLE okAt       \* when a Check last returned OK

Admits == \E c \in Slot : call[c] = "select" /\ call'[c] = "ok"

MCInit == Init /\ okAt = -Interval
MCNext == Next /\ okAt' = IF Admits THEN now ELSE okAt
MCSpec == MCInit /\ [][MCNext]_<<vars, okAt>>

SlotSymmetry == Permutations(Slot)

(***************************************************************************)
(* "allow only 1 request for every interval" (ratelimit.go:35): two Checks *)
(* that return OK are an interval apart.                                   *)
(***************************************************************************)
AdmissionSpacing == [][Admits => now - okAt >= Interval]_<<vars, okAt>>
=============================================================================
