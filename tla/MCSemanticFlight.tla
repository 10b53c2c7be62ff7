-------------------------- MODULE MCSemanticFlight --------------------------
(* Instances of SemanticFlight for TLC: two calls for one request, one for *)
(* another, and two for a program; the cache file of the requests also has *)
(* the verdict of a third from an earlier scan.                            *)
EXTENDS SemanticFlight

CONSTANTS a1, a2, b1, t1, t2, q1, q2, q3, p1, none, earlier, gaveup

Asks == [c \in {a1, a2, b1, t1, t2} |-> IF c \in {a1, a2} THEN q1 ELSE IF c = b1 THEN q2 ELSE p1]
=============================================================================
