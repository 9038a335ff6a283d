--------------------------- MODULE MCSocketCanBus ---------------------------
(* A small instance of SocketCanBus: who wants what.                        *)
EXTENDS SocketCanBus

CONSTANTS p1, p2, c1, c2, k1, k2, s1, ka, kb

\* c1 subscribes without filters, c2 only to frames of kind ka.
MCWants == [c \in Subs |-> IF c = c1 THEN Kinds ELSE {ka}]
=============================================================================
