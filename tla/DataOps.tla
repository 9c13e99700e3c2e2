------------------------------- MODULE DataOps -------------------------------
(***************************************************************************)
(* Sums and selections of sequences, as recursive functions of a number of *)
(* elements: what SumSeq and SelectSeq compute, in a form that an          *)
(* induction over that number reaches.                                     *)
(***************************************************************************)
EXTENDS Integers, Sequences

\* f[1] + ... + f[n]
SumTo(f, n) ==
  LET s[i \in 0..n] == IF i = 0 THEN 0 ELSE s[i - 1] + f[i]
  IN  s[n]

\* The elements of q that are in T, in their order, of its first n or of all.
KeptTo(q, T, n) ==
  LET k[i \in 0..n] == IF i = 0 THEN <<>>
                       ELSE IF q[i] \in T THEN Append(k[i - 1], q[i]) ELSE k[i - 1]
  IN  k[n]
Kept(q, T) == KeptTo(q, T, Len(q))
=============================================================================
