--------------------------- MODULE RunningTotals ---------------------------
(***************************************************************************)
(* Sums as the running totals of their terms.                              *)
(***************************************************************************)
EXTENDS Integers

\* The totals of the first n terms, from the empty one on.
AreTotals(total, term, n) ==
  total = [k \in 0 .. n |-> IF k = 0 THEN 0 ELSE total[k - 1] + term[k]]

Total(term, n) ==
  LET total[k \in 0 .. n] == IF k = 0 THEN 0 ELSE total[k - 1] + term[k]
  IN  total[n]
=============================================================================
