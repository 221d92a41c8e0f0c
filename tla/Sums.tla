-------------------------------- MODULE Sums --------------------------------
(***************************************************************************)
(* Finite sums of f[1] + ... + f[n], as a recursive function so that both  *)
(* TLC and the proofs can use them: the amounts owed to all shipments, the *)
(* percentages of a milestone schedule, the releases of a milestone batch. *)
(***************************************************************************)
EXTENDS Integers

\* The sequence of partial sums 0, f[1], f[1] + f[2], ...
PartialSums(f, n) ==
    LET p[i \in 0 .. n] == IF i = 0 THEN 0 ELSE p[i - 1] + f[i]
    IN  p

SumTo(f, n) == PartialSums(f, n)[n]
=============================================================================
