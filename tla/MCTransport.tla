---------------------------- MODULE MCTransport ----------------------------
(* Instances of Transport: two players who dial in again, on one node or on two.*)
EXTENDS Transport, TLC

CONSTANTS a, b, c1, c2, c3, c4, n1, n2

\* a dials in twice, b once.
OwnerOfTwo == (c1 :> a) @@ (c2 :> a) @@ (c3 :> b)

\* Both dial in twice.
OwnerOfPair == (c1 :> a) @@ (c2 :> a) @@ (c3 :> b) @@ (c4 :> b)

\* Every connection on one node, or the second one on another.
AtHome == [c \in Conn |-> n1]
AtTwo == [c \in Conn |-> IF c = c2 THEN n2 ELSE n1]
=============================================================================
