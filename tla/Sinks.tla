-------------------------------- MODULE Sinks --------------------------------
(***************************************************************************)
(* What drains a bus: recorder.Record, cantool's `dump' and `subscribe      *)
(* --count', and the interop reader.                                        *)
(***************************************************************************)
EXTENDS Feeds

CONSTANTS
    Buffer,     \* lines that fit the bufio.Writer of Record
    Count       \* frames the reader collects, and --count of a subscribe that has one

ASSUME SinksAssumption == Buffer \in Nat \ {0} /\ Count \in Nat \ {0}

VARIABLES
    at, sunk,           \* the sink: its pc, its result
    buffered, written,  \* frames it holds back, frames it has handed to its output
    missing             \* history: the places in written of frames the output refused

sinkVars == <<at, sunk, buffered, written, missing>>

\* "record", "dump", "subscribe", "subscribeCount" or "reader".
sink == arranged.sink

SinksInit == at = "new" /\ sunk = "running" /\ buffered = <<>> /\ written = <<>> /\ missing = {}

SinkEnds(how) == at' = "done" /\ sunk' = how
SinkGoesOn == UNCHANGED <<at, sunk>>
Idle == UNCHANGED <<arranged, feederVars, cancelled>>

SinkSubscribe ==
    /\ sink # "none" /\ at = "new"
    /\ \/ open /\ Join("sink") /\ at' = "loop" /\ UNCHANGED sunk
       \/ ~open /\ SinkEnds("error") /\ UNCHANGED busVars
    /\ UNCHANGED <<buffered, written, missing>> /\ Idle

Receives == at = "loop" /\ Pending("sink") /\ Receive("sink") /\ Idle
Frame == Head(chan["sink"])

\* Every sink but Record puts a frame out as it comes; some stop at a number of them.
Reached == sink \in {"reader", "subscribeCount"} /\ Len(written') >= Count
SinkPut ==
    /\ Receives /\ sink # "record"
    /\ written' = Append(written, Frame)
    /\ IF Reached THEN SinkEnds("nil") ELSE SinkGoesOn
    /\ UNCHANGED <<buffered, missing>>

\* The output of subscribe breaks (the reader keeps its frames).
SinkPutFails ==
    /\ Receives /\ sink \in {"subscribe", "subscribeCount"}
    /\ SinkEnds("error")
    /\ UNCHANGED <<buffered, written, missing>>

\* The output of dump breaks: it does not look at what Printf returns and goes on.
DumpLoses ==
    /\ Receives /\ sink = "dump"
    /\ written' = Append(written, Frame) /\ missing' = missing \cup {Len(written')}
    /\ SinkGoesOn
    /\ UNCHANGED buffered

\* Record writes through a buffer, whose content goes out when there is no room.
RecordLine ==
    /\ Receives /\ sink = "record"
    /\ \/ Len(buffered) < Buffer /\ buffered' = Append(buffered, Frame) /\ UNCHANGED written
       \/ Len(buffered) >= Buffer /\ buffered' = <<Frame>> /\ written' = written \o buffered
    /\ SinkGoesOn /\ UNCHANGED missing
RecordLineFails ==
    /\ Receives /\ sink = "record" /\ Len(buffered) >= Buffer
    /\ SinkEnds("error")
    /\ UNCHANGED <<buffered, written, missing>>

Stays == Idle /\ UNCHANGED busVars
Flush == written' = written \o buffered /\ buffered' = <<>> /\ UNCHANGED missing
FlushFails == buffered # <<>> /\ UNCHANGED <<written, buffered, missing>>

\* The channel has ended: an error for the reader; Record returns what Flush returns.
SinkEOF ==
    /\ at = "loop" /\ AtEnd("sink") /\ sink # "record" /\ Stays
    /\ SinkEnds(IF sink = "reader" THEN "error" ELSE "nil")
    /\ UNCHANGED <<buffered, written, missing>>
FaultFlushUnread == "nil"
FlushError == "error"
RecordEOF ==
    /\ at = "loop" /\ AtEnd("sink") /\ sink = "record" /\ Stays
    /\ \/ Flush /\ SinkEnds("nil")
       \/ FlushFails /\ SinkEnds(FlushError)

\* Cancelled: what the channel still holds is left there, and Record does not look at
\* what its Flush returns.  The reader has a deadline instead of a ctx.
SinkCancelled ==
    /\ at = "loop" /\ cancelled /\ sink \notin {"record", "reader"} /\ Stays
    /\ SinkEnds("nil")
    /\ UNCHANGED <<buffered, written, missing>>
RecordCancelled ==
    /\ at = "loop" /\ cancelled /\ sink = "record" /\ Stays
    /\ SinkEnds("cancelled")
    /\ Flush \/ FlushFails
ReaderDeadline ==
    /\ at = "loop" /\ sink = "reader" /\ Stays
    /\ SinkEnds("error")
    /\ UNCHANGED <<buffered, written, missing>>

Drain ==
    \/ SinkSubscribe \/ SinkPut \/ SinkPutFails \/ DumpLoses \/ RecordLine \/ RecordLineFails
    \/ SinkEOF \/ RecordEOF \/ SinkCancelled \/ RecordCancelled \/ ReaderDeadline

\* A sink hands its output an unbroken beginning of what its subscription was given;
\* one that ends without an error and was not cancelled all of it, or the number of
\* frames it was asked for, and the output has taken them (recorder.go:37,
\* main.go:405-407, can-interop-peer main.go:199).  Of dump only the former holds: it
\* reports success for lines that were not printed, too (main.go:228).
SunkInFull ==
    LET stream == accepted["sink"]
    IN  /\ Len(written) <= Len(stream) /\ written = SubSeq(stream, 1, Len(written))
        /\ sunk = "nil" =>
            /\ \/ cancelled /\ sink # "reader"
               \/ sink \in {"reader", "subscribeCount"} /\ Len(written) = Count
               \/ sink # "reader" /\ written = stream
            /\ sink # "dump" => missing = {}
=============================================================================
