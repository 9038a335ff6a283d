\* Two goroutines, with two messages and one, from one address or two; frames get lost,
\* transfers are abandoned, the consumer stalls.  Everything comes to rest, so no deadlock check.
SPECIFICATION FairSpec
CONSTANTS
    g1 = g1
    g2 = g2
    Senders = {g1, g2}
    Addressings <- OwnOrShared
    PGNs = {"A", "B"}
    Wanted = {"A"}
    Messages <- Mixed
    RawDepth = 2
    OutDepth = 1
    MaxSends <- TwoAndOne
CHECK_DEADLOCK FALSE
INVARIANTS TypeOK PiecesInPlace
PROPERTIES ImplementsChannel CancelEnds
