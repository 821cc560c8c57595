-------------------------------- MODULE Sums --------------------------------
(* Sums of amounts of money, in cents or any other unit.                   *)
EXTENDS Integers, FiniteSets

\* The sum of f over S, of amounts that are not negative: every unit of money
\* is a pair of what it belongs to and its number there.
SumOf(f, S) == Cardinality(UNION {{x} \X (1..f[x]) : x \in S})
=============================================================================
