\* Feeders, sinks and forwarders around one bus with channels of two frames.
SPECIFICATION Spec
CONSTANTS
    Arrangements <- Small
    Depth = 2
    OutDepth = 2
    Buffer = 1
    Count = 2
INVARIANTS
    TypeOK
    NumbersTell
    SuccessIsComplete
PROPERTIES
    ImplementsStream
    EverythingEnds
