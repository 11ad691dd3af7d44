------------------------------- MODULE Totals -------------------------------
(***************************************************************************)
(* The sum of the values of a function to the natural numbers, as the      *)
(* number of units that it counts: a sum that is a cardinality can be      *)
(* reasoned about with the facts on finite sets.                           *)
(***************************************************************************)
EXTENDS Integers, FiniteSets

\* The units that f counts: the first, the second, ... of each x.
Units(f) == UNION {{x} \X (1 .. f[x]) : x \in DOMAIN f}

Total(f) == Cardinality(Units(f))
=============================================================================
