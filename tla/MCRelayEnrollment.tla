------------------------- MODULE MCRelayEnrollment -------------------------
(***************************************************************************)
(* RelayEnrollment for TLC: two users whose installations overlap, so that *)
(* a choice can be offered to either.                                      *)
(***************************************************************************)
EXTENDS RelayEnrollment, TLC

CONSTANTS i1, i2, i3, u1, u2

OverlappingOwners == (u1 :> {i1, i2}) @@ (u2 :> {i2, i3})

Symmetry == Permutations(Sessions) \cup Permutations(Handlers)
=============================================================================
