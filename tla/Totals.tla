-------------------------------- MODULE Totals --------------------------------
(***************************************************************************)
(* sum() over a list of numbers, as the scores and the speech metrics take *)
(* it: a recursive function, so that its properties can be proved for      *)
(* lists of any length (ComputationsProofs).                               *)
(***************************************************************************)
EXTENDS Integers, Sequences

\* The sums of the first 0, 1, 2, ... numbers.
PartialSums(numbers) ==
    LET sum[k \in 0 .. Len(numbers)] == IF k = 0 THEN 0 ELSE sum[k - 1] + numbers[k]
    IN  sum

Total(numbers) == PartialSums(numbers)[Len(numbers)]
===============================================================================
