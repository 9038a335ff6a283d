---------------------------- MODULE FrameFormats ----------------------------
(***************************************************************************)
(* can.Frame and its forms: what can.ValidateFrame accepts, the kernel's    *)
(* can_frame and canfd_frame (socketcan), relay.Message (adapt.go) and a     *)
(* candump line (recorder).  Data is its length and the set of its 1 bits.  *)
(* Definitions named Fault... are seeded bugs.                              *)
(***************************************************************************)
EXTENDS Naturals

MaxStdID == 2047
MaxExtID == 536870911
MaxXLDataLen == 2048

NoXL == [sdt |-> 0, vcid |-> 0, af |-> 0, sec |-> FALSE]

\* f with exactly the flags in flags set.
Frame(id, flags, addressing, data) ==
    [id |-> id, ext |-> "ext" \in flags, rtr |-> "rtr" \in flags, fd |-> "fd" \in flags,
     brs |-> "brs" \in flags, esi |-> "esi" \in flags, xl |-> "xl" \in flags,
     addressing |-> addressing, data |-> data]

Flags == {"ext", "rtr", "fd", "brs", "esi", "xl"}
FlagsOf(f) == {flag \in Flags : f[flag]}

\* A Go value of these types; no bit of its data lies beyond the end.
IsPayload(d) ==
    d = [len |-> d.len, bits |-> d.bits] /\ d.len \in Nat /\ \A b \in d.bits : b < 8 * d.len
IsFrame(f) ==
    /\ f = Frame(f.id, FlagsOf(f), f.addressing, f.data)
    /\ f.id \in Nat /\ IsPayload(f.data)
    /\ f.addressing \in [sdt : 0 .. 255, vcid : 0 .. 255, af : Nat, sec : BOOLEAN]

-----------------------------------------------------------------------------
(* can.go *)

FaultAnyFDLen(n) == n <= 64
ValidFDDataLen(n) == n <= 8 \/ n \in {12, 16, 20, 24, 32, 48, 64}

ValidXL(f) ==
    /\ FlagsOf(f) \cap {"ext", "rtr", "brs"} = {}
    /\ f.id <= MaxStdID
    /\ f.data.len \in 1 .. MaxXLDataLen

ValidClassicOrFD(f) ==
    /\ f.id <= IF f.ext THEN MaxExtID ELSE MaxStdID
    /\ f.rtr => ~f.fd /\ f.data.len = 0
    /\ IF f.fd THEN f.data.len <= 64 /\ ValidFDDataLen(f.data.len) ELSE f.data.len <= 8
    /\ f.brs => f.fd

ValidateFrame(f) ==
    /\ ~(f.fd /\ f.xl)
    /\ f.esi => f.fd \/ f.xl
    /\ IF f.xl THEN ValidXL(f) ELSE ValidClassicOrFD(f)

-----------------------------------------------------------------------------
(* socketcan/bus_linux.go *)

\* The size of what is read or written tells the two layouts apart.
EncodeFrame(f) ==
    [id |-> f.id, eff |-> f.ext, rtr |-> f.rtr, data |-> f.data,
     size |-> IF f.fd THEN 72 ELSE 16,
     flags |-> IF f.fd THEN FlagsOf(f) \cap {"brs", "esi"} ELSE {}]

FaultNoESI(raw) == raw.flags \ {"esi"}
FDFlags(raw) == raw.flags

Capped(data, max) ==
    LET len == IF data.len > max THEN max ELSE data.len
    IN  [len |-> len, bits |-> {b \in data.bits : b < 8 * len}]

DecodeFrame(raw) ==
    LET id == raw.id % (1 + IF raw.eff THEN MaxExtID ELSE MaxStdID)
        ext == IF raw.eff THEN {"ext"} ELSE {}
        rtr == IF raw.rtr THEN {"rtr"} ELSE {}
    IN  IF raw.size = 72
        THEN Frame(id, ext \cup {"fd"} \cup FDFlags(raw), NoXL, Capped(raw.data, 64))
        ELSE Frame(id, ext \cup rtr, NoXL, Capped(raw.data, 8))

-----------------------------------------------------------------------------
(* adapt.go.  A flag that is false and a number that is 0 come back as such   *)
(* whether or not their key is there, so both are modelled by their absence. *)

ToMessage(f) ==
    [id |-> f.id, payload |-> f.data,
     true |-> FlagsOf(f) \cup (IF f.addressing.sec THEN {"sec"} ELSE {}),
     number |-> [k \in {k \in {"sdt", "vcid", "af"} : f.addressing[k] # 0} |-> f.addressing[k]]]

\* strconv.ParseUint of the value of key k, with the width of its field; a number
\* that does not fit leaves the field 0.
Representable(n, k) == k = "af" \/ n < 256
Parsed(m, k) ==
    IF k \in DOMAIN m.number /\ Representable(m.number[k], k) THEN m.number[k] ELSE 0

FromMessage(m) ==
    Frame(m.id, m.true \ {"sec"},
          [sdt |-> Parsed(m, "sdt"), vcid |-> Parsed(m, "vcid"), af |-> Parsed(m, "af"),
           sec |-> "sec" \in m.true],
          m.payload)

-----------------------------------------------------------------------------
(* recorder.go.  A classic line has no place for ext and rtr, an FD line none *)
(* for ext and esi, and neither for the fields of CAN XL.                    *)

FormatLine(f) ==
    [id |-> f.id, separator |-> IF f.fd THEN "##" ELSE "#",
     flags |-> IF f.fd THEN FlagsOf(f) \cap {"brs"} ELSE {}, data |-> f.data]

ParseLine(line) ==
    LET flags == IF line.separator = "##" THEN {"fd"} \cup line.flags
                 ELSE IF line.id > MaxStdID THEN {"ext"} ELSE {}
    IN  Frame(line.id, flags, NoXL, line.data)
=============================================================================
