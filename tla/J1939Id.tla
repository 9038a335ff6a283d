------------------------------ MODULE J1939Id ------------------------------
(***************************************************************************)
(* j1939/pgn.go: the fields of a J1939 frame in its 29-bit identifier.       *)
(* Shifts and masks are products, quotients and remainders.                  *)
(***************************************************************************)
EXTENDS Naturals

BroadcastAddr == 255

IsPeerToPeer(pgn) == (pgn \div 256) % 256 < 240

\* priority | dp at bit 24 | pf at 16 | ps at 8, of a broadcast group only | src.
FaultNoPS(pgn) == 0
PS(pgn) == IF IsPeerToPeer(pgn) THEN 0 ELSE pgn % 256
EncodeID(priority, pgn, src) ==
    (priority % 8) * 67108864 + ((pgn \div 65536) % 2) * 16777216
        + ((pgn \div 256) % 256) * 65536 + PS(pgn) * 256 + src

\* Bus.Send puts the destination in the place of ps.
SendID(f, src) ==
    EncodeID(f.priority, f.pgn, src) + IF IsPeerToPeer(f.pgn) THEN f.dst * 256 ELSE 0

DecodeID(id) ==
    LET dp == (id \div 16777216) % 2
        pf == (id \div 65536) % 256
        ps == (id \div 256) % 256
    IN  [priority |-> (id \div 67108864) % 8, src |-> id % 256,
         pgn |-> dp * 65536 + pf * 256 + IF pf < 240 THEN 0 ELSE ps]

\* What Bus.Subscribe delivers of a frame with identifier id.
Received(id) ==
    LET f == DecodeID(id)
    IN  [priority |-> f.priority, pgn |-> f.pgn, src |-> f.src,
         dst |-> IF IsPeerToPeer(f.pgn) THEN (id \div 256) % 256 ELSE BroadcastAddr]
=============================================================================
