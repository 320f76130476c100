------------------------------- MODULE Lists -------------------------------
(***************************************************************************)
(* What Python does to lists, in the form of recursive functions: theorems *)
(* about SelectSeq, SortSeq or a fold would need operators as parameters.  *)
(***************************************************************************)
EXTENDS Integers, Sequences

\* [e for e in seq if e in S]
Sieve(seq, S) ==
  LET kept[i \in 0..Len(seq)] ==
        IF i = 0 THEN <<>>
        ELSE IF seq[i] \in S THEN Append(kept[i - 1], seq[i]) ELSE kept[i - 1]
  IN  kept[Len(seq)]

\* sum(numbers)
Total(numbers) ==
  LET upto[i \in 0..Len(numbers)] == IF i = 0 THEN 0 ELSE upto[i - 1] + numbers[i]
  IN  upto[Len(numbers)]
=============================================================================
