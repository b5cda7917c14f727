-------------------------------- MODULE Sums --------------------------------
(* Sums and orders, written so that they can be reasoned about without recursion. *)
EXTENDS Naturals, FiniteSets

\* The sum of the values of a function is the number of the units they are made of.
Units(f) == UNION {{x} \X (1 .. f[x]) : x \in DOMAIN f}
SumOf(f) == Cardinality(Units(f))

\* A finite set of numbers as an increasing sequence.
InOrder(S) == CHOOSE s \in [1 .. Cardinality(S) -> S] : \A i, j \in DOMAIN s : i < j => s[i] < s[j]
=============================================================================
