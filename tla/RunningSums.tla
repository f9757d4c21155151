---------------------------- MODULE RunningSums ----------------------------
(***************************************************************************)
(* Sums over a list of numbers: sizes of chunks, of waves, of sections,    *)
(* and where each of them begins if they lie one after the other.          *)
(*                                                                         *)
(* They are recursive functions and no folds: what they are for the first  *)
(* n + 1 numbers follows from what they are for the first n.               *)
(***************************************************************************)
EXTENDS Naturals, Sequences

(* The sums of the first numbers, from none of them to all. *)
Sums(numbers) ==
  LET sum[n \in 0 .. Len(numbers)] == IF n = 0 THEN 0 ELSE sum[n - 1] + numbers[n]
  IN  sum

SumAll(numbers) == Sums(numbers)[Len(numbers)]
=============================================================================
