\* Three calls, each of either service and either item; requests and answers get lost
\* or come late.  Everything comes to rest after the last call, so no deadlock check.
SPECIFICATION FairSpec
CONSTANTS
    Kinds = {"uds", "obd"}
    Services = {"read", "write"}
    Items = {"x", "y"}
    Pendings <- TwiceAndOnce
    MaxCalls = 3
CHECK_DEADLOCK FALSE
INVARIANTS
    TypeOK
    SuccessOfService
PROPERTIES
    ImplementsRequestReply
    ReliableAnswers
