---------------------------- MODULE MCIndexStore ----------------------------
\* Instances of IndexStore for TLC, the policy that an index build discovers
\* and stores with its snapshot, and what a review reads of the snapshots.
EXTENDS IndexStore, PathGlobs, PolicyResolution, ContextRetrieval, TLC

CONSTANTS c1, c2

\* One file changes between the revisions, one stays, one is there in the
\* second only.
MCTree == (c1 :> [a |-> "a1", b |-> "b1", c |-> Missing]) @@
          (c2 :> [a |-> "a2", b |-> "b1", c |-> "c2"])
Symmetry == Permutations(Shared)
MCPaths == {"a", "b", "c"}

\* The globs of a policy match what they spell, and nested policies resolve as
\* their reference definitions say, over bounded patterns, layers, paths and
\* triggers; a review reads the snapshots of repositories that an operator
\* clustered and no others.  Evaluated once, in the initial state.
PolicyHolds == Init => GlobsMatch /\ PolicyResolved /\ ContextIsGranted
=============================================================================
