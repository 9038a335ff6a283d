\* Clean and faulty transfers, and a foreign peer.
SPECIFICATION FairSpec
CONSTANTS
    a = a
    b = b
    Ends = {a, b}
    Settings <- Situations
INVARIANTS
    TypeOK
    NoOverrun
PROPERTIES
    ImplementsChannel
    AllArrive
    SendEnds
