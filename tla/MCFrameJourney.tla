--------------------------- MODULE MCFrameJourney ---------------------------
(* A small instance of FrameJourney, at the limits of every field.          *)
EXTENDS FrameJourney, TLC

FlagSets == SUBSET {"ext", "rtr", "fd", "brs", "esi", "xl"}
Addressed == [sdt |-> 255, vcid |-> 1, af |-> 70000, sec |-> TRUE]
AllFrames == UNION {
    {Frame(id, flags, a, Bytes(n)) : id \in {0, 2047, 2048, 536870911, 536870912},
         a \in {NoXL, Addressed}, n \in {0, 1, 8, 9, 12, 64, 65, 2048, 2049}} : flags \in FlagSets}

\* Groups of both kinds, on both data pages; the low byte of a peer-to-peer group is 0.
AllJ1939Frames ==
    [priority : {0, 3, 7}, pgn : {0, 59904, 61444, 65535, 125440, 126980}, src : {0},
     dst : {0, 17, 255}]

Signals ==
    [start : {0, 3, 7, 8, 12, 15}, length : {1, 3, 9}, little : BOOLEAN, signed : BOOLEAN]
SecondSignals ==
    [start : {1, 7, 10}, length : {4}, little : BOOLEAN, signed : {TRUE}]
AllLayouts == {[speed |-> s, torque |-> t] : s \in Signals, t \in SecondSignals}
SomeValues == {-9, 5, 300}

\* Two messages, signals with labels, lines that are wrong and lines in between: files
\* of a few lines of any kind, and longer ones whose lines are all proper.
ProperLines ==
    {BO("engine", 8, TRUE), BO("brake", 8, TRUE), Other,
     SG("a", 0, 8, TRUE), SG("a", 511, 64, TRUE),
     VAL("engine", "a", 0 :> "off" @@ 1 :> "on", TRUE, TRUE),
     VAL("engine", "a", 0 :> "idle", TRUE, TRUE)}
AllLines == ProperLines \cup
    {BO("engine", 4, TRUE), BO("brake", 8, FALSE), Empty,
     SG("b", 512, 1, TRUE), SG("b", 0, 65, TRUE),
     VAL("engine", "a", <<>>, TRUE, FALSE), VAL("brake", "b", <<>>, FALSE, TRUE)}
SmallFile(lines) == Len(lines) <= 4 \/ (Len(lines) = 5 /\ \A i \in 1 .. 5 : lines[i] \in ProperLines)
=============================================================================
