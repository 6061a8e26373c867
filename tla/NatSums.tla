------------------------------ MODULE NatSums ------------------------------
(***************************************************************************)
(* Finite sums over the port and queue numbers of a switch.  The code      *)
(* numbers both from 1 (ConfigNPort's loop, the data queues of             *)
(* BEgressQueue), so a sum over them is a sum over 1..n.  The sum is a     *)
(* recursive function, so that TLC evaluates it and TLAPS can reason about *)
(* it (module NatSums_proofs).                                             *)
(***************************************************************************)
EXTENDS Integers

(* f[1] + f[2] + ... + f[n] *)
SumTo(f, n) ==
  LET partial[k \in 0..n] == IF k = 0 THEN 0 ELSE partial[k - 1] + f[k]
  IN  partial[n]

Smaller(a, b) == IF a <= b THEN a ELSE b

Larger(a, b) == IF a >= b THEN a ELSE b

=============================================================================
