-------------------------------- MODULE Sums --------------------------------
(* The sum of a finite family of natural numbers, as SQL's sum() over rows. *)
(* It counts unit tokens, one for each unit of each value, so that facts    *)
(* about sums follow from facts about cardinality.                          *)
EXTENDS Integers, FiniteSets

Units(f) == UNION {{x} \X (1 .. f[x]) : x \in DOMAIN f}

Total(f) == Cardinality(Units(f))
=============================================================================
