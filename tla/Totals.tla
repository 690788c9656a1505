------------------------------- MODULE Totals -------------------------------
(***************************************************************************)
(* Sums of a function on 1..n, and the members of a sequence that are in a *)
(* set: each written as a recursive function.                              *)
(***************************************************************************)
EXTENDS Integers, Sequences

\* Totals of the prefixes of f: RunningTotal(f, n)[k] = f[1] + ... + f[k].
RunningTotal(f, n) ==
    LET total[k \in 0..n] == IF k = 0 THEN 0 ELSE total[k - 1] + f[k]
    IN  total

SumTo(f, n) == RunningTotal(f, n)[n]

\* Those of a sequence that are in a set, in its order.
Among(s, S) ==
    LET picked[i \in 0..Len(s)] ==
            IF i = 0 THEN <<>>
            ELSE IF s[i] \in S THEN Append(picked[i - 1], s[i]) ELSE picked[i - 1]
    IN  picked[Len(s)]
=============================================================================
