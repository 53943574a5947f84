------------------------ MODULE MCFeedbackLearning ------------------------
(* FeedbackLearning for TLC: operators are interchangeable. *)
EXTENDS FeedbackLearning, TLC

Symmetry == Permutations(Moderators)
===========================================================================
