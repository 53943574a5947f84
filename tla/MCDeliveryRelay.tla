-------------------------- MODULE MCDeliveryRelay --------------------------
(***************************************************************************)
(* DeliveryRelay for TLC.  Deliveries that are not poisoned are            *)
(* interchangeable, and so are servers; the liveness run uses no symmetry. *)
(***************************************************************************)
EXTENDS DeliveryRelay, TLC

Symmetry == Permutations(Deliveries \ Poison) \cup Permutations(Servers)
=============================================================================
