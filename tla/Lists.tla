------------------------------- MODULE Lists -------------------------------
(* What is left of a list, read from its beginning, when some of it is     *)
(* passed over: the lines of the crontab, the snapshots of a dataset.      *)
EXTENDS Integers, Sequences

\* the elements of list at places S, in their order
Pick(list, S) ==
  LET out[i \in 0 .. Len(list)] ==
        IF i = 0 THEN <<>> ELSE IF i \in S THEN Append(out[i - 1], list[i]) ELSE out[i - 1]
  IN out[Len(list)]
=============================================================================
