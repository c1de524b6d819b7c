-------------------------------- MODULE Sums ---------------------------------
(***************************************************************************)
(* The sum of a function over a finite set, as the number of unit atoms it *)
(* counts.  A fold computes the same number, but what a recursive          *)
(* definition computes for every set is out of the provers' reach; the     *)
(* cardinality of a union of disjoint intervals is not.                    *)
(***************************************************************************)
EXTENDS Integers, FiniteSets

Units(S, f) == UNION { {x} \X (1..f[x]) : x \in S }

Sum(S, f) == Cardinality(Units(S, f))

=============================================================================
