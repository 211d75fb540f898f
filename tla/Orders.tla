------------------------------- MODULE Orders -------------------------------
(* Sets of numbers in rising order, and what a sequence has at them.       *)
EXTENDS Integers, FiniteSets

(* The numbers of a finite set, each once, the least first.                *)
Rising(S) ==
    CHOOSE order \in [1 .. Cardinality(S) -> S] :
        \A i, j \in DOMAIN order : i < j => order[i] < order[j]

(* What seq has at some places, in its order.                              *)
Picked(seq, places) ==
    LET order == Rising(places) IN [i \in DOMAIN order |-> seq[order[i]]]
=============================================================================
