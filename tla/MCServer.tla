------------------------------- MODULE MCServer -------------------------------
(* Server with model values: how many requests each peer sends, and the    *)
(* symmetry of connections whose peers send as many. *)
EXTENDS Server, TLC

CONSTANTS First  \* a connection

OneEach == [c \in Conns |-> 1]
TwoEach == [c \in Conns |-> 2]
TwoFromFirst == [c \in Conns |-> IF c = First THEN 2 ELSE 0]

Interchangeable == Permutations(Conns)

=============================================================================
