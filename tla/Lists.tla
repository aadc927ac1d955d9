--------------------------------- MODULE Lists ---------------------------------
(* What the modules about texts and files share. *)
EXTENDS Naturals, SequencesExt

Least(a, b) == IF a < b THEN a ELSE b
Most(a, b) == IF a < b THEN b ELSE a

\* Over each member of a sequence, one after the other.
Upto(n) == [i \in 1 .. n |-> i]

\* The members of a sequence that are in S, in their order.
Among(seq, S) ==
  FoldLeft(LAMBDA found, x : IF x \in S THEN Append(found, x) ELSE found, <<>>, seq)
Without(seq, x) == Among(seq, ToSet(seq) \ {x})
===============================================================================
