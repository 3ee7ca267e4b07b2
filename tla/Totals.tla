------------------------------- MODULE Totals -------------------------------
(***************************************************************************)
(* Totals of ledgers: the sum of a function with natural values over a     *)
(* finite set, by which every property that says "this number is the sum   *)
(* of those" is stated.  The sum is the number of units held: a holder x   *)
(* with f[x] units owns the pairs <<x, 1>> ... <<x, f[x]>>, and the total  *)
(* counts the pairs.  No recursion is needed, so the provers can use it.   *)
(***************************************************************************)
EXTENDS Integers, FiniteSets

UnitsOf(f, x) == {x} \X (1..f[x])

Units(f, S) == UNION {UnitsOf(f, x) : x \in S}

Total(f, S) == Cardinality(Units(f, S))
=============================================================================
