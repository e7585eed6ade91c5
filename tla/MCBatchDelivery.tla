-------------------------- MODULE MCBatchDelivery --------------------------
(* Values for TLC: a batch that comes with two contents, one that comes    *)
(* with one, and one whose processing is refused.                          *)
EXTENDS BatchDelivery, TLC

CONSTANTS b1, b2, b3, x, y

Repeated == [batch |-> b1, content |-> x]
Conflicting == [batch |-> b1, content |-> y]
Other == [batch |-> b2, content |-> x]
Bad == [batch |-> b3, content |-> x]

AllSent == {Repeated, Conflicting, Other, Bad}
Refusals == {Bad}

Symmetry == Permutations(Request) \union Permutations(Consumer)
=============================================================================
