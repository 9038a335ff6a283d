--------------------------- MODULE MCDiagnostics ---------------------------
(* A small instance of Diagnostics: both clients, and an ECU that may ask   *)
(* the one for patience twice and the other once.                           *)
EXTENDS Diagnostics

TwiceAndOnce == [k \in Kinds |-> IF k = "uds" THEN 2 ELSE 1]
=============================================================================
