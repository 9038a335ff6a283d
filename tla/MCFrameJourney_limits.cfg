\* Frames at the limits of every field, crossing two buses.  A journey ends, so no
\* deadlock check.
SPECIFICATION Spec
CONSTANTS
    RawFrames <- AllFrames
    J1939Frames <- AllJ1939Frames
    Sources = {0, 255}
    Layouts <- AllLayouts
    DLC = 2
    MessageID = 256
    Values <- SomeValues
    Considered <- SmallFile
    Lines <- AllLines
    MaxHops = 2
CHECK_DEADLOCK FALSE
INVARIANTS
    TypeOK
    WellFormedOnBus
    ChangedOnlyByTapes
    AddressSurvives
    SignalsSurvive
    ParseMeetsMeaning
