------------------------- MODULE MCFindingLineage -------------------------
EXTENDS FindingLineage

\* Two findings of one file that are alike; the third is in a file of its own.
MCSimilar == {<<1, 2>>, <<2, 1>>}
MCPathOf(f) == IF f = 3 THEN "b.py" ELSE "a.py"
===========================================================================
