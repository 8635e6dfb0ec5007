------------------------------- MODULE Money -------------------------------
(***************************************************************************)
(* Sums of money.  Amounts are naturals: the USD quantum of the program    *)
(* (nine decimal places) is the unit.  A sum over a finite set is the      *)
(* number of its units, one unit <<x, i>> for each i in 1..f[x]: counting  *)
(* units needs no recursion, so the laws of sums follow from the laws of   *)
(* cardinality (module IngestionRunProofs).                                *)
(***************************************************************************)
EXTENDS Naturals, FiniteSets

Units(f, S) == UNION {{x} \X (1..f[x]) : x \in S}

Total(f, S) == Cardinality(Units(f, S))
=============================================================================
