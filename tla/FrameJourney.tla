---------------------------- MODULE FrameJourney ----------------------------
(***************************************************************************)
(* A frame from the program that makes it over several buses: it is given   *)
(* as it is, made by j1939.Bus.Send, or its payload by dbc's DB.Encode; it   *)
(* crosses virtual and CAN_RAW buses, relay adapters, and recordings that    *)
(* are replayed; at its end DecodeID and DB.Decode read it.  Before any       *)
(* frame, dbc's Parse has read its file.                                     *)
(***************************************************************************)
EXTENDS FrameFormats, J1939Id, SignalCodec, DbcFile

CONSTANTS
    RawFrames,      \* frames programs send as they are, invalid ones included
    J1939Frames,    \* frames given to j1939.Bus.Send
    Sources,        \* source addresses
    Layouts,        \* dbc messages: each a function from signals to their layouts
    DLC, MessageID, \* of these messages
    Values,         \* values given to DB.Encode
    Lines,          \* of dbc files
    MaxHops         \* bound: buses crossed

VARIABLES
    load,       \* history: what the program sends, and as which kind of message
    frame,      \* the frame as it is now
    origin,     \* history: the frame as it was first handed to a bus
    unpacked,   \* signals DB.Encode has not packed yet
    hops,       \* buses crossed
    at,         \* "app" before the first bus, "bus", or "refused"
    taped       \* history: it has been recorded and replayed

\* Of the 18 bits of a group the code keeps 17 (pgn.go:45 and 74), and the low byte of a
\* group that is peer to peer is 0.
MaxPGN == 131071
\* Up to 53 bits an integer and the float64 the code computes with are the same.
\* A value is in -2^53 .. 2^53 - 1, said in numbers TLC has.
IsSignal(sig) ==
    /\ sig.start \in Nat /\ sig.length \in 1 .. 53
    /\ sig.little \in BOOLEAN /\ sig.signed \in BOOLEAN
IsValue(v) == v \in Int /\ (v \div Power[26]) \div Power[27] \in {-1, 0}
ASSUME JourneyAssumption ==
    /\ \A f \in RawFrames : IsFrame(f)
    /\ J1939Frames \subseteq [priority : 0 .. 7, pgn : 0 .. MaxPGN, src : 0 .. 255, dst : 0 .. 255]
    /\ \A f \in J1939Frames : IsPeerToPeer(f.pgn) => f.pgn % 256 = 0
    /\ \A layout \in Layouts : \A n \in DOMAIN layout : IsSignal(layout[n])
    /\ \A v \in Values : IsValue(v)
    /\ \A line \in Lines : line.keyword \in Keywords
    /\ Sources \subseteq 0 .. 255 /\ DLC \in Nat /\ MessageID \in Nat /\ MaxHops \in Nat

fileVars == <<file, state>>
vars == <<fileVars, load, frame, origin, unpacked, hops, at, taped>>

Bytes(n) == [len |-> n, bits |-> {}]

J1939Load(f, src) ==
    /\ load = [kind |-> "j1939", fields |-> [f EXCEPT !.src = src]]
    /\ frame = Frame(SendID(f, src), {"ext"}, NoXL, Bytes(8))
    /\ unpacked = {}

DBCLoad(layout, values) ==
    /\ load = [kind |-> "dbc", layout |-> layout, values |-> values]
    /\ frame = Frame(MessageID, {}, NoXL, Bytes(DLC))
    /\ unpacked = DOMAIN layout

Init ==
    /\ \/ \E f \in RawFrames : load = [kind |-> "raw"] /\ frame = f /\ unpacked = {}
       \/ \E f \in J1939Frames, src \in Sources : J1939Load(f, src)
       \/ load = [kind |-> "file"] /\ frame = Frame(0, {}, NoXL, Bytes(0)) /\ unpacked = {}
       \/ \E layout \in Layouts : \E values \in [DOMAIN layout -> Values] : DBCLoad(layout, values)
    /\ origin = frame /\ ParseInit
    /\ hops = 0 /\ at = "app" /\ taped = FALSE

\* One turn of DB.Encode's loop over a map, which has no order.
Pack(n) ==
    /\ n \in unpacked
    /\ LET sig == load.layout[n]
       IN  frame' = [frame EXCEPT !.data = PackRaw(@, PhysicalToRaw(load.values[n], sig), sig)]
    /\ origin' = frame'
    /\ unpacked' = unpacked \ {n}
    /\ UNCHANGED <<fileVars, load, hops, at, taped>>

\* A program that only loads a database.
LoadFile(line) ==
    /\ load.kind = "file"
    /\ ReadLine(line)
    /\ UNCHANGED <<load, frame, origin, unpacked, hops, at, taped>>

-----------------------------------------------------------------------------
(* Buses *)

\* Send of a bus that carries XL frames or not, given f; what a subscriber receives
\* is carried.
Crosses(f, accepted, carried) ==
    /\ load.kind # "file" /\ unpacked = {} /\ at # "refused" /\ hops < MaxHops
    /\ hops' = hops + 1
    /\ IF accepted THEN at' = "bus" /\ frame' = carried
       ELSE at' = "refused" /\ frame' = f
    /\ UNCHANGED <<fileVars, load, origin, unpacked>>

VirtualHop ==
    /\ Crosses(frame, ValidateFrame(frame), frame)
    /\ UNCHANGED taped

SocketHop ==
    /\ Crosses(frame, ValidateFrame(frame) /\ ~frame.xl, DecodeFrame(EncodeFrame(frame)))
    /\ UNCHANGED taped

\* cantool's convert makes a message of a frame, its send a frame of the message.
ConvertHop ==
    /\ at = "app"
    /\ LET f == FromMessage(ToMessage(frame))
       IN  Crosses(f, ValidateFrame(frame) /\ ValidateFrame(f), f)
    /\ UNCHANGED taped

\* A relay: the adapter's Subscribe on one bus, its Send on a virtual one.
RelayHop ==
    /\ at = "bus"
    /\ LET f == FromMessage(ToMessage(frame)) IN Crosses(f, ValidateFrame(f), f)
    /\ UNCHANGED taped

\* Record on one bus, Replay on a virtual one.
TapeHop ==
    /\ at = "bus"
    /\ LET f == ParseLine(FormatLine(frame)) IN Crosses(f, ValidateFrame(f), f)
    /\ taped' = TRUE

Next ==
    \/ \E n \in unpacked : Pack(n)
    \/ \E line \in Lines : LoadFile(line)
    \/ VirtualHop \/ SocketHop \/ ConvertHop \/ RelayHop \/ TapeHop

Spec == Init /\ [][Next]_vars

-----------------------------------------------------------------------------
(* Properties *)

\* Every variable has its type; no bit of a payload lies beyond its end.
TypeOK ==
    /\ IsFrame(frame) /\ IsFrame(origin)
    /\ at \in {"app", "bus", "refused"} /\ hops \in 0 .. MaxHops
    /\ unpacked # {} => load.kind = "dbc" /\ unpacked \subseteq DOMAIN load.layout
    /\ taped \in BOOLEAN

\* The frames ISO 11898-1 knows: what each format says of identifier, flags and length.
FDLengths == 0 .. 8 \cup {12, 16, 20, 24} \cup {32, 48, 64}
InFormat(f) ==
    LET flags == FlagsOf(f) \ {"ext"}
    IN  CASE "xl" \in flags -> flags \subseteq {"xl", "esi"} /\ ~f.ext /\ f.data.len \in 1 .. MaxXLDataLen
          [] "fd" \in flags -> flags \subseteq {"fd", "brs", "esi"} /\ f.data.len \in FDLengths
          [] "rtr" \in flags -> flags = {"rtr"} /\ f.data.len = 0
          [] OTHER -> flags = {} /\ f.data.len \in 0 .. 8
WellFormed(f) == InFormat(f) /\ f.id \in 0 .. (IF f.ext THEN MaxExtID ELSE MaxStdID)

\* Whatever way a frame took to a bus, it is one the standard knows (REQ-SEC-001).
WellFormedOnBus == at = "bus" => WellFormed(frame)

\* What is left of a frame in a candump line: neither that it is remote, nor that its
\* sender is error-passive, nor that it is an XL frame with its addressing; and of ext only
\* what the identifier tells, for a frame that is not FD.
Retold(f) ==
    [f EXCEPT !.ext = ~f.fd /\ f.id > MaxStdID, !.rtr = FALSE, !.esi = FALSE,
              !.xl = FALSE, !.addressing = NoXL]

\* A frame of which no bus takes what is left.
Garbled(f) == \/ f.fd /\ f.id > MaxStdID
              \/ f.xl /\ f.data.len > 8

\* A well-formed frame, with addressing only if it is XL, crosses every bus and relay as it
\* is (adapt.go:24-25 "The conversion is lossless via FromMessage"), and is refused only by
\* CAN_RAW sockets, if it is XL.  A tape reports nothing and sends on what is left of the
\* frame: a data frame for a remote one, a standard one for an extended identifier up to
\* 0x7FF, a classic one for XL; only what is then garbled is refused.
ChangedOnlyByTapes ==
    WellFormed(origin) /\ (origin.xl \/ origin.addressing = NoXL) /\ at # "app" =>
        /\ frame = IF taped THEN Retold(origin) ELSE origin
        /\ at = "refused" => frame.xl \/ (taped /\ Garbled(origin))

\* The identifier of a J1939 frame tells every receiver the addressing its sender gave it,
\* the broadcast address standing for the destination of a broadcast group.  j1939's
\* Subscribe looks at it if the frame is extended, as it is unless a tape has carried an
\* identifier up to 0x7FF (priority 0, group 0, a destination up to 7).
AddressSurvives ==
    load.kind = "j1939" /\ at = "bus" =>
        /\ Received(frame.id) =
               [load.fields EXCEPT !.dst = IF IsPeerToPeer(load.fields.pgn) THEN @ ELSE BroadcastAddr]
        /\ frame.ext \/ (taped /\ frame.id <= MaxStdID)

\* The positions of a signal by the DBC format's own numbering: least significant
\* first, or most significant first through the bytes.
MotorolaIndex(p) == 8 * (p \div 8) + 7 - (p % 8)
Positions(sig) ==
    IF sig.little THEN sig.start .. sig.start + sig.length - 1
    ELSE LET first == MotorolaIndex(sig.start)
         IN  {MotorolaIndex(k) : k \in first .. first + sig.length - 1}

\* A signal of the message that lies inside the payload and overlaps no other.
Clean(n) ==
    LET layout == load.layout
    IN  /\ Positions(layout[n]) \subseteq 0 .. 8 * DLC - 1
        /\ \A m \in DOMAIN layout \ {n} : Positions(layout[m]) \cap Positions(layout[n]) = {}

Nearest(v, sig) ==
    LET range == Least(sig) .. Greatest(sig)
    IN  IF v \in range THEN v ELSE IF v < 0 THEN Least(sig) ELSE Greatest(sig)

\* Whatever the order of DB.Encode's map and whatever the way, a receiver decodes the
\* value of every clean signal, or the nearest the signal can hold, and the other
\* signals stay within their own positions (REQ-DBC-005, REQ-DBC-007, REQ-SEC-004).
SignalsSurvive ==
    load.kind = "dbc" /\ at = "bus" =>
        /\ \A n \in DOMAIN load.layout : Clean(n) =>
              DecodeSignal(frame.data, load.layout[n]) = Nearest(load.values[n], load.layout[n])
        /\ frame.data.bits \subseteq UNION {Positions(load.layout[n]) : n \in DOMAIN load.layout}

\* The database Parse returns is the one the lines mean, whatever is repeated, out of
\* place or interrupted, and it returns an error exactly when a line it has to
\* understand is wrong (REQ-DBC-001 .. 004, REQ-DBC-006).
ParseMeetsMeaning == Database = Meaning(file)
=============================================================================
