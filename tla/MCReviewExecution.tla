------------------------- MODULE MCReviewExecution -------------------------
(***************************************************************************)
(* ReviewExecution for TLC.  Worker processes are interchangeable; runs    *)
(* that check a liveness property do not use the symmetry.                 *)
(***************************************************************************)
EXTENDS ReviewExecution, TLC

Symmetry == Permutations(Workers)
=============================================================================
