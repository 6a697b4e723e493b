---------------------------- MODULE FunctionSums ----------------------------
(***************************************************************************)
(* Sums of integer-valued functions over 1..n, used to total account       *)
(* balances.  The sum is a recursive function, so the same definition is   *)
(* evaluated by TLC and unfolded in proofs.                                *)
(***************************************************************************)
EXTENDS Integers

\* f is summed from index 1 up to every index of 0..n.
PartialSums(f, n) ==
    LET p[i \in 0..n] == IF i = 0 THEN 0 ELSE p[i - 1] + f[i] IN p

\* f[1] + ... + f[n].
SumTo(f, n) == PartialSums(f, n)[n]
=============================================================================
