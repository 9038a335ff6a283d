----------------------------- MODULE MCJ1939Tp -----------------------------
(* A small instance of J1939Tp: the goroutines have an address each or share one. *)
EXTENDS J1939Tp

CONSTANTS g1, g2

OwnOrShared == {[g \in Senders |-> g], [g \in Senders |-> g1]}
TwoAndOne == [g \in Senders |-> IF g = g1 THEN 2 ELSE 1]
\* Messages of two and of three packets, of the wanted group and of another.
Mixed == [g \in Senders |->
    IF g = g1 THEN {[packets |-> 3, pgn |-> "A"], [packets |-> 2, pgn |-> "B"]}
    ELSE {[packets |-> 2, pgn |-> "A"]}]
=============================================================================
