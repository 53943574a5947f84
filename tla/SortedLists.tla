---------------------------- MODULE SortedLists ----------------------------
(***************************************************************************)
(* Lists as Python's sorted(), slices and comprehensions make them, written *)
(* without recursion so that theorems can be proved about what they hold,  *)
(* and the answers of functions that may raise an error.                   *)
(***************************************************************************)
EXTENDS Integers, Sequences, FiniteSets

\* What a function returns, or the ValueError it raises instead.
Returns(value) == [raised |-> FALSE, value |-> value]
Raises == [raised |-> TRUE, value |-> <<>>]

Least(a, b) == IF a <= b THEN a ELSE b
Most(a, b) == IF a >= b THEN a ELSE b

\* The elements of S, sorted by the pairs of R: at n, the one with n - 1 before it.
Sorted(S, R) ==
    [n \in 1..Cardinality(S) |-> CHOOSE x \in S : Cardinality({y \in S : <<y, x>> \in R}) = n - 1]

\* Numbers, the least first.
Increasing(S) == Sorted(S, {pair \in S \X S : pair[1] < pair[2]})

\* A list, cut off after so many of its elements.
UpTo(limit, list) == [n \in 1..Least(Len(list), limit) |-> list[n]]

\* The numbers of a list, added up.
SumOf(list) ==
    LET sum[n \in 0..Len(list)] == IF n = 0 THEN 0 ELSE sum[n - 1] + list[n]
    IN  sum[Len(list)]

\* The elements of a list at these positions, in the order of the list.
Picked(list, positions) == [n \in 1..Cardinality(positions) |-> list[Increasing(positions)[n]]]
=============================================================================
