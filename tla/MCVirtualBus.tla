---------------------------- MODULE MCVirtualBus ----------------------------
(* Small instances of VirtualBus: who wants what and under which policy.    *)
EXTENDS VirtualBus, TLC

CONSTANTS s1, s2, c1, c2, k1, k2, ka, kb

\* c1 subscribes without filters, c2 only to frames of kind ka.
MCWants == [c \in Subs |-> IF c = c1 THEN Kinds ELSE {ka}]

AllDropOldest == [c \in Subs |-> "DropOldest"]
OldestAndBlock == [c \in Subs |-> IF c = c1 THEN "DropOldest" ELSE "Block"]
NewestAndBlock == [c \in Subs |-> IF c = c1 THEN "DropNewest" ELSE "Block"]

\* Senders differ in nothing but their names (safety runs only).
SenderSymmetry == Permutations(Senders)
=============================================================================
