-------------------------------- MODULE Lists --------------------------------
(***************************************************************************)
(* What the models of the catalogues and of the documents do with          *)
(* sequences, beside what the libraries offer.  Recursion goes over the    *)
(* positions of a sequence.                                                *)
(***************************************************************************)
EXTENDS Naturals, SequencesExt

\* The elements at some positions, in order.
At(s, positions) ==
    LET some[i \in 0..Len(s)] ==
          IF i = 0 THEN <<>>
          ELSE IF i \in positions THEN Append(some[i - 1], s[i]) ELSE some[i - 1]
    IN some[Len(s)]

Sum(s) ==
    LET sum[i \in 0..Len(s)] == IF i = 0 THEN 0 ELSE sum[i - 1] + s[i]
    IN sum[Len(s)]

\* Every element once, where it is first.
Added(seen, x) == IF x \in ToSet(seen) THEN seen ELSE Append(seen, x)
Distinct(s) ==
    LET seen[i \in 0..Len(s)] == IF i = 0 THEN <<>> ELSE Added(seen[i - 1], s[i])
    IN seen[Len(s)]

AtMost(n, s) == IF Len(s) > n THEN SubSeq(s, 1, n) ELSE s
=============================================================================
