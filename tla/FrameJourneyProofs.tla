------------------------- MODULE FrameJourneyProofs -------------------------
(***************************************************************************)
(* Whatever frames, groups, databases and number of hops, a frame on a bus   *)
(* is well-formed, a well-formed one is what it was when it set out, and the *)
(* receiver of a J1939 frame reads the addressing it was sent with.  The     *)
(* conversions are shown lossless first; a hop then keeps the invariant      *)
(* because what it carries is the frame it was given.  Of the files Parse     *)
(* reads, what they mean is followed line by line: each line changes the     *)
(* meaning as it changes the database.  Of the signals DB.Encode packs, the    *)
(* receiver decodes the values: what a walk over the bits adds up is their     *)
(* number, by induction over the bits.                                         *)
(***************************************************************************)
EXTENDS FrameJourney, WellFoundedInduction, TLAPS

(* Frames *)

\* A frame made of flags has these flags, and the other fields it is given.
LEMMA FlagsAre ==
    ASSUME NEW id, NEW flags, flags \subseteq Flags, NEW a, NEW d
    PROVE  /\ FlagsOf(Frame(id, flags, a, d)) = flags
           /\ Frame(id, flags, a, d).id = id /\ Frame(id, flags, a, d).addressing = a
           /\ Frame(id, flags, a, d).data = d
<1> DEFINE f == Frame(id, flags, a, d)
<1>1. f.id = id /\ f.addressing = a /\ f.data = d
  BY DEF Frame
<1>2. \A flag \in Flags : f[flag] = (flag \in flags)
  <2>1. f["ext"] = ("ext" \in flags) /\ f["rtr"] = ("rtr" \in flags) /\ f["fd"] = ("fd" \in flags)
    BY DEF Frame
  <2>2. f["brs"] = ("brs" \in flags) /\ f["esi"] = ("esi" \in flags) /\ f["xl"] = ("xl" \in flags)
    BY DEF Frame
  <2> HIDE DEF f
  <2> QED BY <2>1, <2>2 DEF Flags
<1> HIDE DEF f
<1>3. FlagsOf(f) = flags
  BY <1>2 DEF FlagsOf
<1> QED BY <1>1, <1>3 DEF f

\* The flag fields of a frame say what FlagsOf says.
LEMMA FieldsAre ==
    ASSUME NEW f, IsFrame(f)
    PROVE  /\ f.ext = ("ext" \in FlagsOf(f)) /\ f.rtr = ("rtr" \in FlagsOf(f)) /\ f.fd = ("fd" \in FlagsOf(f))
           /\ f.brs = ("brs" \in FlagsOf(f)) /\ f.esi = ("esi" \in FlagsOf(f)) /\ f.xl = ("xl" \in FlagsOf(f))
           /\ FlagsOf(f) \subseteq Flags
<1>1. FlagsOf(f) \subseteq Flags
  BY DEF FlagsOf
<1> DEFINE flags == FlagsOf(f)
<1>2. f = Frame(f.id, flags, f.addressing, f.data)
  BY DEF IsFrame
<1> HIDE DEF flags
<1>3. /\ f.ext = ("ext" \in flags) /\ f.rtr = ("rtr" \in flags) /\ f.fd = ("fd" \in flags)
      /\ f.brs = ("brs" \in flags) /\ f.esi = ("esi" \in flags) /\ f.xl = ("xl" \in flags)
  BY <1>2 DEF Frame
<1> QED BY <1>1, <1>3 DEF flags

\* Frame makes a frame.
LEMMA Made ==
    ASSUME NEW id, id \in Nat, NEW flags, flags \subseteq Flags, NEW d, IsPayload(d),
           NEW a, a \in [sdt : 0 .. 255, vcid : 0 .. 255, af : Nat, sec : BOOLEAN]
    PROVE  IsFrame(Frame(id, flags, a, d))
BY FlagsAre DEF IsFrame

\* No addressing is an addressing.
LEMMA Plain == NoXL \in [sdt : 0 .. 255, vcid : 0 .. 255, af : Nat, sec : BOOLEAN]
BY DEF NoXL

\* ValidateFrame (can.go:216) accepts exactly the frames the standard knows.
LEMMA Validated ==
    ASSUME NEW f, IsFrame(f)
    PROVE  ValidateFrame(f) <=> WellFormed(f)
<1> DEFINE n == f.data.len
           flags == FlagsOf(f)
           limit == IF f.ext THEN MaxExtID ELSE MaxStdID
<1>1. /\ f.ext = ("ext" \in flags) /\ f.rtr = ("rtr" \in flags) /\ f.fd = ("fd" \in flags)
      /\ f.brs = ("brs" \in flags) /\ f.esi = ("esi" \in flags) /\ f.xl = ("xl" \in flags)
      /\ flags \subseteq {"ext", "rtr", "fd", "brs", "esi", "xl"}
  BY FieldsAre DEF Flags
<1>2. n \in Nat /\ f.id \in Nat
  BY DEF IsFrame, IsPayload
<1>3. MaxStdID \in Nat /\ MaxExtID \in Nat
  BY SMT DEF MaxStdID, MaxExtID
<1>4. WellFormed(f) <=> InFormat(f) /\ f.id <= limit
  BY <1>2, <1>3 DEF WellFormed
<1> DEFINE Ext == "ext" \in flags
           Rtr == "rtr" \in flags
           FD == "fd" \in flags
           BRS == "brs" \in flags
           ESI == "esi" \in flags
           XL == "xl" \in flags
<1>5. InFormat(f) <=>
        IF XL THEN ~Rtr /\ ~FD /\ ~BRS /\ ~Ext /\ n \in 1 .. MaxXLDataLen
        ELSE IF FD THEN ~Rtr /\ n \in FDLengths
        ELSE IF Rtr THEN ~BRS /\ ~ESI /\ n = 0
        ELSE ~BRS /\ ~ESI /\ n \in 0 .. 8
  <2>1. CASE XL
    <3>1. InFormat(f) <=> flags \ {"ext"} \subseteq {"xl", "esi"} /\ ~f.ext /\ n \in 1 .. MaxXLDataLen
      BY <2>1 DEF InFormat
    <3>2. flags \ {"ext"} \subseteq {"xl", "esi"} <=> ~Rtr /\ ~FD /\ ~BRS
      BY <1>1, <2>1
    <3> HIDE DEF n
    <3> QED BY <2>1, <3>1, <3>2, <1>1
  <2>2. CASE ~XL /\ FD
    <3>1. InFormat(f) <=> flags \ {"ext"} \subseteq {"fd", "brs", "esi"} /\ n \in FDLengths
      BY <2>2 DEF InFormat
    <3>2. flags \ {"ext"} \subseteq {"fd", "brs", "esi"} <=> ~Rtr
      BY <1>1, <2>2
    <3> QED BY <2>2, <3>1, <3>2
  <2>3. CASE ~XL /\ ~FD /\ Rtr
    <3>1. InFormat(f) <=> flags \ {"ext"} = {"rtr"} /\ n = 0
      BY <2>3 DEF InFormat
    <3>2. flags \ {"ext"} = {"rtr"} <=> ~BRS /\ ~ESI
      BY <1>1, <2>3
    <3> QED BY <2>3, <3>1, <3>2
  <2>4. CASE ~XL /\ ~FD /\ ~Rtr
    <3>1. InFormat(f) <=> flags \ {"ext"} = {} /\ n \in 0 .. 8
      BY <2>4 DEF InFormat
    <3>2. flags \ {"ext"} = {} <=> ~BRS /\ ~ESI
      BY <1>1, <2>4
    <3> QED BY <2>4, <3>1, <3>2
  <2> QED BY <2>1, <2>2, <2>3, <2>4
<1>6. ValidXL(f) <=> ~Ext /\ ~Rtr /\ ~BRS /\ f.id <= MaxStdID /\ n \in 1 .. MaxXLDataLen
  BY DEF ValidXL
<1>7. ValidClassicOrFD(f) <=>
        /\ f.id <= limit
        /\ Rtr => ~FD /\ n = 0
        /\ IF FD THEN n <= 64 /\ ValidFDDataLen(n) ELSE n <= 8
        /\ BRS => FD
  BY <1>1, Zenon DEF ValidClassicOrFD
<1>8. n <= 64 /\ ValidFDDataLen(n) <=> n \in FDLengths
  BY <1>2, SMT DEF ValidFDDataLen, FDLengths
<1>9. ValidateFrame(f) <=> ~(FD /\ XL) /\ (ESI => FD \/ XL) /\ IF XL THEN ValidXL(f) ELSE ValidClassicOrFD(f)
  BY <1>1 DEF ValidateFrame
<1>10. limit = IF Ext THEN MaxExtID ELSE MaxStdID
  BY <1>1
<1>11. n \in 0 .. 8 <=> n <= 8
  BY <1>2
<1>12. n = 0 => n <= 8
  BY <1>2
<1> HIDE DEF n, flags, limit, Ext, Rtr, FD, BRS, ESI, XL
<1> QED BY <1>4, <1>5, <1>6, <1>7, <1>8, <1>9, <1>10, <1>11, <1>12

-----------------------------------------------------------------------------
(* Conversions *)

\* The limits of a well-formed frame that encodeFrame and FormatLine rely on.
LEMMA Known ==
    ASSUME NEW f, IsFrame(f), WellFormed(f)
    PROVE  /\ f.id \in Nat /\ f.id <= MaxExtID /\ (~f.ext => f.id <= MaxStdID)
           /\ f.data.len \in Nat
           /\ ~f.xl => f.data.len <= 64 /\ (~f.fd => f.data.len <= 8 /\ ~f.brs /\ ~f.esi)
           /\ f.fd => ~f.rtr
<1> DEFINE n == f.data.len
<1>1. n \in Nat /\ f.id \in Nat
  BY DEF IsFrame, IsPayload
<1>2. MaxStdID \in Nat /\ MaxExtID \in Nat /\ MaxStdID <= MaxExtID
  BY SMT DEF MaxStdID, MaxExtID
<1>3. f.id <= IF f.ext THEN MaxExtID ELSE MaxStdID
  BY <1>1, <1>2 DEF WellFormed
<1>4. f.id <= MaxExtID /\ (~f.ext => f.id <= MaxStdID)
  BY <1>1, <1>2, <1>3
<1>5. ValidateFrame(f)
  BY Validated
<1>8. ~f.xl => /\ f.rtr => ~f.fd /\ n = 0
               /\ IF f.fd THEN n <= 64 /\ ValidFDDataLen(n) ELSE n <= 8
               /\ f.brs => f.fd
  BY <1>5, Zenon DEF ValidateFrame, ValidClassicOrFD
<1>9. ~(f.fd /\ f.xl) /\ (f.esi => f.fd \/ f.xl)
  BY <1>5 DEF ValidateFrame
<1>10. n <= 8 => n <= 64
  BY <1>1
<1> HIDE DEF n
<1>11. ~f.xl => n <= 64 /\ (~f.fd => n <= 8 /\ ~f.brs /\ ~f.esi)
  BY <1>8, <1>9, <1>10
<1>12. f.fd => ~f.rtr
  BY <1>8, <1>9
<1> QED BY <1>1, <1>4, <1>11, <1>12 DEF n

\* FromMessage gives back the frame that ToMessage was given (adapt.go:24).
LEMMA LosslessMessage ==
    ASSUME NEW f, IsFrame(f)
    PROVE  FromMessage(ToMessage(f)) = f
<1> DEFINE m == ToMessage(f)
           a == f.addressing
           flags == FlagsOf(f)
<1>1. /\ f = Frame(f.id, flags, a, f.data) /\ flags \subseteq Flags
      /\ a \in [sdt : 0 .. 255, vcid : 0 .. 255, af : Nat, sec : BOOLEAN]
  BY FieldsAre DEF IsFrame
<1>2. /\ m.id = f.id /\ m.payload = f.data
      /\ m.true = flags \cup (IF a.sec THEN {"sec"} ELSE {})
      /\ m.number = [k \in {k \in {"sdt", "vcid", "af"} : a[k] # 0} |-> a[k]]
  BY DEF ToMessage
<1>3. m.true \ {"sec"} = flags
  BY <1>1, <1>2 DEF Flags
<1>4. ("sec" \in m.true) = a.sec
  <2>1. a.sec \in BOOLEAN
    BY <1>1
  <2>2. "sec" \notin flags
    BY <1>1 DEF Flags
  <2> QED BY <1>2, <2>1, <2>2
<1>5. /\ a = [sdt |-> a.sdt, vcid |-> a.vcid, af |-> a.af, sec |-> a.sec]
      /\ a.sdt \in 0 .. 255 /\ a.vcid \in 0 .. 255 /\ a.af \in Nat
  BY <1>1
<1>6. ASSUME NEW k \in {"sdt", "vcid", "af"}
      PROVE  Parsed(m, k) = a[k]
  <2>1. a[k] \in Nat /\ Representable(a[k], k)
    <3>1. /\ k = "sdt" => a[k] = a.sdt
          /\ k = "vcid" => a[k] = a.vcid
          /\ k = "af" => a[k] = a.af
      OBVIOUS
    <3> HIDE DEF a
    <3> QED BY <1>5, <3>1 DEF Representable
  <2>2. DOMAIN m.number = {j \in {"sdt", "vcid", "af"} : a[j] # 0}
    BY <1>2
  <2>3. CASE a[k] = 0
    BY <2>2, <2>3 DEF Parsed
  <2>4. CASE a[k] # 0
    <3>1. k \in DOMAIN m.number /\ m.number[k] = a[k]
      BY <1>2, <2>2, <2>4
    <3> QED BY <2>1, <3>1 DEF Parsed
  <2> QED BY <2>3, <2>4
<1>7. Parsed(m, "sdt") = a.sdt /\ Parsed(m, "vcid") = a.vcid /\ Parsed(m, "af") = a.af
  BY <1>6
<1>8. FromMessage(m) = Frame(m.id, m.true \ {"sec"},
          [sdt |-> Parsed(m, "sdt"), vcid |-> Parsed(m, "vcid"), af |-> Parsed(m, "af"),
           sec |-> "sec" \in m.true],
          m.payload)
  BY DEF FromMessage
<1> HIDE DEF m, a, flags
<1>9. FromMessage(m) = Frame(f.id, flags, a, f.data)
  BY <1>2, <1>3, <1>4, <1>5, <1>7, <1>8
<1> QED BY <1>1, <1>9 DEF m

\* A payload that fits is not cut by decodeFrame.
LEMMA Uncapped ==
    ASSUME NEW d, IsPayload(d), NEW max \in Nat, d.len <= max
    PROVE  Capped(d, max) = d
<1>1. d.len \in Nat /\ d = [len |-> d.len, bits |-> d.bits] /\ \A b \in d.bits : b < 8 * d.len
  BY DEF IsPayload
<1>2. ~(d.len > max)
  BY <1>1
<1>3. {b \in d.bits : b < 8 * d.len} = d.bits
  BY <1>1
<1>4. Capped(d, max) = [len |-> d.len, bits |-> d.bits]
  BY <1>2, <1>3 DEF Capped
<1> QED BY <1>1, <1>4, Zenon

\* A well-formed frame that is not XL comes out of a socket as it went in, but for its
\* addressing.
LEMMA LosslessSocket ==
    ASSUME NEW f, IsFrame(f), WellFormed(f), ~f.xl
    PROVE  DecodeFrame(EncodeFrame(f)) = Frame(f.id, FlagsOf(f), NoXL, f.data)
<1> DEFINE raw == EncodeFrame(f)
           flags == FlagsOf(f)
           id == raw.id % (1 + IF raw.eff THEN MaxExtID ELSE MaxStdID)
           ext == IF raw.eff THEN {"ext"} ELSE {}
           rtr == IF raw.rtr THEN {"rtr"} ELSE {}
<1>1. /\ f.ext = ("ext" \in flags) /\ f.rtr = ("rtr" \in flags) /\ f.fd = ("fd" \in flags)
      /\ f.brs = ("brs" \in flags) /\ f.esi = ("esi" \in flags) /\ f.xl = ("xl" \in flags)
      /\ flags \subseteq {"ext", "rtr", "fd", "brs", "esi", "xl"}
  BY FieldsAre DEF Flags
<1>2. /\ f.id \in Nat /\ f.id <= MaxExtID /\ (~f.ext => f.id <= MaxStdID)
      /\ f.data.len <= 64 /\ (~f.fd => f.data.len <= 8 /\ ~f.brs /\ ~f.esi)
      /\ f.fd => ~f.rtr
  BY Known
<1>3. /\ raw.id = f.id /\ raw.eff = f.ext /\ raw.rtr = f.rtr /\ raw.data = f.data
      /\ f.fd => raw.size = 72 /\ FDFlags(raw) = flags \cap {"brs", "esi"}
      /\ ~f.fd => raw.size = 16
  BY DEF EncodeFrame, FDFlags
<1>4. IsPayload(f.data)
  BY DEF IsFrame
<1>5. id = f.id
  <2>1. CASE f.ext
    <3>1. id = f.id % (1 + MaxExtID)
      BY <1>3, <2>1
    <3> QED BY <1>2, <3>1, SMT DEF MaxExtID
  <2>2. CASE ~f.ext
    <3>1. id = f.id % (1 + MaxStdID)
      BY <1>3, <2>2
    <3> QED BY <1>2, <2>2, <3>1, SMT DEF MaxStdID
  <2> QED BY <2>1, <2>2
<1>6. DecodeFrame(raw) =
        IF raw.size = 72
        THEN Frame(id, ext \cup {"fd"} \cup FDFlags(raw), NoXL, Capped(raw.data, 64))
        ELSE Frame(id, ext \cup rtr, NoXL, Capped(raw.data, 8))
  BY DEF DecodeFrame
<1>7. ext = IF f.ext THEN {"ext"} ELSE {}
  BY <1>3
<1>8. rtr = IF f.rtr THEN {"rtr"} ELSE {}
  BY <1>3
<1> HIDE DEF raw, flags, id, ext, rtr
<1>9. CASE f.fd
  <2>1. ext \cup {"fd"} \cup FDFlags(raw) = flags
    BY <1>1, <1>2, <1>3, <1>7, <1>9
  <2>2. Capped(raw.data, 64) = f.data
    BY <1>2, <1>3, <1>4, Uncapped
  <2>3. DecodeFrame(raw) = Frame(f.id, flags, NoXL, f.data)
    BY <1>3, <1>5, <1>6, <1>9, <2>1, <2>2
  <2> QED BY <2>3 DEF raw, flags
<1>10. CASE ~f.fd
  <2>1. ext \cup rtr = flags
    BY <1>1, <1>2, <1>7, <1>8, <1>10
  <2>2. Capped(raw.data, 8) = f.data
    BY <1>2, <1>3, <1>4, <1>10, Uncapped
  <2>3. DecodeFrame(raw) = Frame(f.id, flags, NoXL, f.data)
    BY <1>3, <1>5, <1>6, <1>10, <2>1, <2>2
  <2> QED BY <2>3 DEF raw, flags
<1> QED BY <1>9, <1>10

\* The fields of what is left of a frame in a line.
LEMMA RetoldIs ==
    ASSUME NEW f, IsFrame(f)
    PROVE  Retold(f) = [id |-> f.id, ext |-> ~f.fd /\ f.id > MaxStdID, rtr |-> FALSE, fd |-> f.fd,
                        brs |-> f.brs, esi |-> FALSE, xl |-> FALSE, addressing |-> NoXL,
                        data |-> f.data]
<1>1. PICK id, flags, a, d : f = Frame(id, flags, a, d)
  BY DEF IsFrame
<1>2. f = [id |-> id, ext |-> "ext" \in flags, rtr |-> "rtr" \in flags, fd |-> "fd" \in flags,
           brs |-> "brs" \in flags, esi |-> "esi" \in flags, xl |-> "xl" \in flags,
           addressing |-> a, data |-> d]
  BY <1>1 DEF Frame
<1>3. /\ f.id = id /\ f.fd = ("fd" \in flags) /\ f.brs = ("brs" \in flags) /\ f.data = d
  BY <1>2
<1>4. PICK ext : ext = (~f.fd /\ f.id > MaxStdID)
  OBVIOUS
<1>5. Retold(f) = [f EXCEPT !.ext = ext, !.rtr = FALSE, !.esi = FALSE, !.xl = FALSE,
                            !.addressing = NoXL]
  BY <1>4, Zenon DEF Retold
<1>6. Retold(f) = [id |-> id, ext |-> ext, rtr |-> FALSE, fd |-> "fd" \in flags,
                   brs |-> "brs" \in flags, esi |-> FALSE, xl |-> FALSE, addressing |-> NoXL,
                   data |-> d]
  BY <1>2, <1>5
<1> QED BY <1>3, <1>4, <1>6, Zenon

\* The same, field by field.
LEMMA FieldsRetold ==
    ASSUME NEW f, IsFrame(f)
    PROVE  /\ Retold(f).id = f.id /\ Retold(f).data = f.data /\ Retold(f).addressing = NoXL
           /\ Retold(f).fd = f.fd /\ Retold(f).brs = f.brs
           /\ Retold(f).ext <=> ~f.fd /\ f.id > MaxStdID
           /\ ~Retold(f).rtr /\ ~Retold(f).esi /\ ~Retold(f).xl
<1>1. PICK ext : ext = (~f.fd /\ f.id > MaxStdID)
  OBVIOUS
<1>2. Retold(f) = [id |-> f.id, ext |-> ext, rtr |-> FALSE, fd |-> f.fd, brs |-> f.brs, esi |-> FALSE,
                   xl |-> FALSE, addressing |-> NoXL, data |-> f.data]
  BY <1>1, RetoldIs, Zenon
<1>3. /\ Retold(f).id = f.id /\ Retold(f).data = f.data /\ Retold(f).addressing = NoXL
      /\ Retold(f).fd = f.fd /\ Retold(f).brs = f.brs /\ Retold(f).ext = ext
      /\ ~Retold(f).rtr /\ ~Retold(f).esi /\ ~Retold(f).xl
  BY <1>2
<1> QED BY <1>1, <1>3, Zenon

\* Two truth values.
LEMMA SameTruth == \A a, b \in BOOLEAN : (a <=> b) => a = b
OBVIOUS

\* Writing a frame of the standard as a line and reading that leaves what Retold says.
LEMMA ToldByLine ==
    ASSUME NEW f, IsFrame(f), WellFormed(f)
    PROVE  ParseLine(FormatLine(f)) = Retold(f)
<1> DEFINE flags == FlagsOf(f)
           line == FormatLine(f)
           read == IF line.separator = "##" THEN {"fd"} \cup line.flags
                   ELSE IF line.id > MaxStdID THEN {"ext"} ELSE {}
<1>1. /\ f.fd = ("fd" \in flags) /\ f.brs = ("brs" \in flags) /\ f.xl = ("xl" \in flags)
  BY FieldsAre
<1>2. ~f.fd => ~f.brs
  <2>1. CASE f.xl
    <3>1. ValidateFrame(f)
      BY Validated
    <3>2. FlagsOf(f) \cap {"ext", "rtr", "brs"} = {}
      BY <2>1, <3>1, Zenon DEF ValidateFrame, ValidXL
    <3> QED BY <3>2, FieldsAre
  <2>2. CASE ~f.xl
    BY <2>2, Known
  <2> QED BY <2>1, <2>2
<1>3. /\ line.id = f.id /\ line.data = f.data
      /\ f.fd => line.separator = "##" /\ line.flags = flags \cap {"brs"}
      /\ ~f.fd => line.separator = "#"
  BY DEF FormatLine
<1>4. ParseLine(line) = Frame(line.id, read, NoXL, line.data)
  BY DEF ParseLine
<1>5. /\ ("ext" \in read) <=> (~f.fd /\ f.id > MaxStdID)
      /\ ("fd" \in read) <=> f.fd
      /\ ("brs" \in read) <=> f.brs
      /\ "rtr" \notin read /\ "esi" \notin read /\ "xl" \notin read
  <2>1. CASE f.fd
    <3>1. read = {"fd"} \cup (flags \cap {"brs"})
      BY <1>3, <2>1
    <3> HIDE DEF read, flags
    <3> QED BY <1>1, <2>1, <3>1
  <2>2. CASE ~f.fd
    <3>1. read = IF f.id > MaxStdID THEN {"ext"} ELSE {}
      BY <1>3, <2>2
    <3> HIDE DEF read, flags
    <3> QED BY <1>1, <1>2, <2>2, <3>1
  <2> QED BY <2>1, <2>2
<1> HIDE DEF line, read, flags
<1>6. /\ ("ext" \in read) = (~f.fd /\ f.id > MaxStdID)
      /\ ("fd" \in read) = f.fd /\ ("brs" \in read) = f.brs
      /\ ("rtr" \in read) = FALSE /\ ("esi" \in read) = FALSE /\ ("xl" \in read) = FALSE
  <2>0. /\ ("ext" \in read) \in BOOLEAN /\ (~f.fd /\ f.id > MaxStdID) \in BOOLEAN
        /\ ("fd" \in read) \in BOOLEAN /\ f.fd \in BOOLEAN
        /\ ("brs" \in read) \in BOOLEAN /\ f.brs \in BOOLEAN
    BY <1>1
  <2>1. ("ext" \in read) = (~f.fd /\ f.id > MaxStdID)
    BY <1>5, <2>0, SameTruth
  <2>2. ("fd" \in read) = f.fd
    BY <1>5, <2>0, SameTruth
  <2>3. ("brs" \in read) = f.brs
    BY <1>5, <2>0, SameTruth
  <2>4. ("rtr" \in read) = FALSE /\ ("esi" \in read) = FALSE /\ ("xl" \in read) = FALSE
    BY <1>5
  <2> QED BY <2>1, <2>2, <2>3, <2>4
<1>7. ParseLine(line) =
        [id |-> f.id, ext |-> ~f.fd /\ f.id > MaxStdID, rtr |-> FALSE, fd |-> f.fd, brs |-> f.brs,
         esi |-> FALSE, xl |-> FALSE, addressing |-> NoXL, data |-> f.data]
  BY <1>3, <1>4, <1>6, Zenon DEF Frame
<1> QED BY <1>7, RetoldIs DEF line

\* A second tape changes nothing more.
LEMMA RetoldOnce ==
    ASSUME NEW f, IsFrame(f), IsFrame(Retold(f))
    PROVE  Retold(Retold(f)) = Retold(f)
<1>1. Retold(f).id = f.id /\ Retold(f).fd = f.fd /\ Retold(f).brs = f.brs /\ Retold(f).data = f.data
  BY FieldsRetold
<1> QED BY <1>1, RetoldIs

\* What is left of a frame of the standard is one, unless it is garbled.
LEMMA LeftWellFormed ==
    ASSUME NEW f, IsFrame(f), WellFormed(f), IsFrame(Retold(f)), ~Garbled(f)
    PROVE  WellFormed(Retold(f))
<1> DEFINE g == Retold(f)
           n == f.data.len
<1>1. /\ g.id = f.id /\ g.data = f.data /\ g.fd = f.fd /\ g.brs = f.brs
      /\ g.ext <=> ~f.fd /\ f.id > MaxStdID
      /\ ~g.rtr /\ ~g.esi /\ ~g.xl
  BY FieldsRetold
<1>2. f.id \in Nat /\ n \in Nat /\ f.id <= MaxExtID /\ (~f.xl /\ ~f.fd => n <= 8)
  BY Known
<1>3. MaxStdID \in Nat /\ MaxExtID \in Nat
  BY SMT DEF MaxStdID, MaxExtID
<1>4. ValidateFrame(f)
  BY Validated
<1>5. (f.fd => f.id <= MaxStdID) /\ (f.xl => n <= 8)
  BY <1>2, <1>3 DEF Garbled
<1>6. ~f.xl => (f.fd => n <= 64 /\ ValidFDDataLen(n)) /\ (f.brs => f.fd)
  BY <1>4, Zenon DEF ValidateFrame, ValidClassicOrFD
<1>7. f.xl => ~f.fd /\ ~f.brs
  <2>1. f.xl => FlagsOf(f) \cap {"ext", "rtr", "brs"} = {} /\ ~f.fd
    BY <1>4, Zenon DEF ValidateFrame, ValidXL
  <2> QED BY <2>1, FieldsAre
<1>8. f.id <= IF g.ext THEN MaxExtID ELSE MaxStdID
  BY <1>1, <1>2, <1>3, <1>5
<1>9. IF f.fd THEN n <= 64 /\ ValidFDDataLen(n) ELSE n <= 8
  BY <1>2, <1>5, <1>6, <1>7
<1>10. g.brs => g.fd
  BY <1>1, <1>6, <1>7
<1> HIDE DEF g
<1>11. ValidClassicOrFD(g)
  BY <1>1, <1>8, <1>9, <1>10, Zenon DEF ValidClassicOrFD, n
<1>12. ValidateFrame(g)
  BY <1>1, <1>11, Zenon DEF ValidateFrame
<1> QED BY <1>12, Validated DEF g

\* What a line of any frame is read as is a frame, and so is what a socket makes of it.
LEMMA ReadBack ==
    ASSUME NEW f, IsFrame(f)
    PROVE  IsFrame(ParseLine(FormatLine(f)))
<1> DEFINE line == FormatLine(f)
           read == IF line.separator = "##" THEN {"fd"} \cup line.flags
                   ELSE IF line.id > MaxStdID THEN {"ext"} ELSE {}
<1>1. line.id = f.id /\ line.data = f.data /\ line.flags \subseteq {"brs"}
  BY DEF FormatLine
<1>2. read \subseteq Flags
  <2> HIDE DEF line
  <2> QED BY <1>1 DEF Flags
<1>3. ParseLine(line) = Frame(line.id, read, NoXL, line.data)
  BY DEF ParseLine
<1>4. f.id \in Nat /\ IsPayload(f.data)
  BY DEF IsFrame
<1> HIDE DEF line, read
<1> QED BY <1>1, <1>2, <1>3, <1>4, Made, Plain DEF line

-----------------------------------------------------------------------------
(* J1939 identifiers *)

\* The last byte of a number, and the others.
LEMMA Digits ==
    ASSUME NEW q, q \in Nat, NEW w, w \in Nat, NEW n, n \in Nat, q < 256, n = w * 256 + q
    PROVE  n % 256 = q /\ n \div 256 = w
BY SMT

\* A shift by several bytes is several shifts.
LEMMA Shifts ==
    ASSUME NEW n, n \in Nat
    PROVE  /\ n \div 65536 = (n \div 256) \div 256
           /\ n \div 16777216 = ((n \div 256) \div 256) \div 256
           /\ n \div 67108864 = (((n \div 256) \div 256) \div 256) \div 4
<1>1. n \div 65536 = (n \div 256) \div 256
  BY SMT
<1>2. n \div 16777216 = ((n \div 256) \div 256) \div 256
  BY SMT
<1>3. n \div 67108864 = (((n \div 256) \div 256) \div 256) \div 4
  BY SMT
<1> QED BY <1>1, <1>2, <1>3, SMT

\* The fields of an identifier in their places.
Composed(p, e, pf, low, src) == p * 67108864 + e * 16777216 + pf * 65536 + low * 256 + src
\* The fields that DecodeID finds in their places.
IsIdentifier(id, p, e, pf, low, src) ==
    /\ id \in Nat /\ id <= 536870911
    /\ (id \div 67108864) % 8 = p /\ (id \div 16777216) % 2 = e
    /\ (id \div 65536) % 256 = pf /\ (id \div 256) % 256 = low /\ id % 256 = src

\* No field of an identifier spills into another.
LEMMA Identifier ==
    ASSUME NEW p, p \in Nat, p < 8, NEW e, e \in Nat, e < 2, NEW pf, pf \in Nat, pf < 256,
           NEW low, low \in Nat, low < 256, NEW src, src \in Nat, src < 256
    PROVE  IsIdentifier(Composed(p, e, pf, low, src), p, e, pf, low, src)
<1> DEFINE id == Composed(p, e, pf, low, src)
           a == p * 4 + e
           b == a * 256 + pf
           c == b * 256 + low
<1>1. a \in Nat /\ b \in Nat /\ c \in Nat /\ id \in Nat /\ pf \in Nat /\ low \in Nat /\ src \in Nat
  BY SMT DEF Composed
<1>2. id = c * 256 + src
  BY SMT DEF Composed
<1>3. id <= 536870911
  BY SMT DEF Composed
<1>4. a % 2 = e /\ (a \div 4) % 8 = p
  BY SMT
<1>5. pf < 256 /\ low < 256 /\ src < 256
  BY SMT
<1>6. b = a * 256 + pf /\ c = b * 256 + low
  OBVIOUS
<1> HIDE DEF a, b, c, id
<1>7. b % 256 = pf /\ b \div 256 = a
  BY <1>1, <1>5, <1>6, Digits, SMT
<1>8. c % 256 = low /\ c \div 256 = b
  BY <1>1, <1>5, <1>6, Digits, SMT
<1>9. id % 256 = src /\ id \div 256 = c
  BY <1>1, <1>5, <1>2, Digits, SMT
<1>10. id \div 65536 = b /\ id \div 16777216 = a /\ id \div 67108864 = a \div 4
  BY <1>1, <1>7, <1>8, <1>9, Shifts, SMT
<1> QED BY <1>1, <1>3, <1>4, <1>7, <1>8, <1>9, <1>10, SMT DEF id, IsIdentifier

\* A number is its last byte and the others.
LEMMA Quotient ==
    ASSUME NEW n, n \in Nat
    PROVE  /\ n \div 256 \in Nat /\ n % 256 \in Nat /\ n % 256 < 256
           /\ n = (n \div 256) * 256 + (n % 256)
BY SMT

\* The three fields of a group of 17 bits.
LEMMA Group ==
    ASSUME NEW pgn, pgn \in Nat, pgn < 131072
    PROVE  /\ pgn \in Nat /\ (pgn \div 65536) % 2 = pgn \div 65536
           /\ pgn \div 65536 \in Nat /\ pgn \div 65536 < 2
           /\ (pgn \div 256) % 256 \in Nat /\ (pgn \div 256) % 256 < 256
           /\ pgn % 256 \in Nat /\ pgn % 256 < 256
           /\ pgn = (pgn \div 65536) * 65536 + ((pgn \div 256) % 256) * 256 + (pgn % 256)
<1>1. pgn \in Nat /\ pgn < 131072
  BY SMT
<1> DEFINE c == pgn \div 256
           b == c \div 256
           low == pgn % 256
           pf == c % 256
<1>2. c \in Nat /\ low \in Nat /\ low < 256 /\ pgn = c * 256 + low
  BY <1>1, Quotient, SMT
<1>3. b \in Nat /\ pf \in Nat /\ pf < 256 /\ c = b * 256 + pf
  <2> HIDE DEF c
  <2> QED BY <1>2, Quotient, SMT
<1>4. pgn \div 65536 = b
  BY <1>1, Shifts, SMT
<1>5. pf = (pgn \div 256) % 256 /\ low = pgn % 256
  OBVIOUS
<1> HIDE DEF b, pf, c, low
<1>6. b < 2
  BY <1>1, <1>2, <1>3, SMT
<1>7. b % 2 = b
  BY <1>3, <1>6, SMT
<1>8. pgn = b * 65536 + pf * 256 + low
  BY <1>2, <1>3, SMT
<1> QED BY <1>1, <1>2, <1>3, <1>4, <1>5, <1>6, <1>7, <1>8, SMT

\* DecodeID and Subscribe find what EncodeID and Send put into an identifier (pgn.go:69, 88).
LEMMA Sent ==
    ASSUME NEW f, NEW src, src \in Nat, src < 256,
           f.priority \in Nat, f.priority < 8, f.pgn \in Nat, f.pgn <= MaxPGN,
           f.dst \in Nat, f.dst < 256,
           IsPeerToPeer(f.pgn) => f.pgn % 256 = 0
    PROVE  /\ SendID(f, src) \in Nat /\ SendID(f, src) <= MaxExtID
           /\ Received(SendID(f, src)) =
                [priority |-> f.priority, src |-> src, pgn |-> f.pgn,
                 dst |-> IF IsPeerToPeer(f.pgn) THEN f.dst ELSE BroadcastAddr]
<1> DEFINE p == f.priority
           e == f.pgn \div 65536
           pf == (f.pgn \div 256) % 256
           low == IF IsPeerToPeer(f.pgn) THEN f.dst ELSE f.pgn % 256
           id == Composed(p, e, pf, low, src)
<1>1. /\ e % 2 = e /\ e \in Nat /\ e < 2 /\ pf \in Nat /\ pf < 256
      /\ f.pgn % 256 \in Nat /\ f.pgn % 256 < 256
      /\ f.pgn = e * 65536 + pf * 256 + (f.pgn % 256)
  BY Group, SMT DEF MaxPGN
<1>2. p \in Nat /\ p < 8 /\ p % 8 = p
  BY SMT
<1>3. low \in Nat /\ low < 256
  BY <1>1
<1>4. IsPeerToPeer(f.pgn) <=> pf < 240
  BY SMT DEF IsPeerToPeer
<1>5. EncodeID(p, f.pgn, src) = (p % 8) * 67108864 + (e % 2) * 16777216 + pf * 65536 + PS(f.pgn) * 256 + src
  BY SMT DEF EncodeID
<1>6. /\ SendID(f, src) = EncodeID(p, f.pgn, src) + IF IsPeerToPeer(f.pgn) THEN f.dst * 256 ELSE 0
      /\ PS(f.pgn) = IF IsPeerToPeer(f.pgn) THEN 0 ELSE f.pgn % 256
  BY DEF SendID, PS
<1> HIDE DEF p, e, pf
<1>7. SendID(f, src) = id
  <2>1. EncodeID(p, f.pgn, src) = p * 67108864 + e * 16777216 + pf * 65536 + PS(f.pgn) * 256 + src
    BY <1>1, <1>2, <1>5
  <2>2. CASE IsPeerToPeer(f.pgn)
    <3>1. PS(f.pgn) = 0 /\ low = f.dst /\ SendID(f, src) = EncodeID(p, f.pgn, src) + f.dst * 256
      BY <2>2, <1>6
    <3> HIDE DEF low
    <3> QED BY <2>1, <3>1, <1>1, <1>2, <1>3, SMT DEF Composed
  <2>3. CASE ~IsPeerToPeer(f.pgn)
    <3>1. PS(f.pgn) = low /\ SendID(f, src) = EncodeID(p, f.pgn, src) + 0
      BY <2>3, <1>6
    <3> HIDE DEF low
    <3> QED BY <2>1, <3>1, <1>1, <1>2, <1>3, SMT DEF Composed
  <2> QED BY <2>2, <2>3
<1> HIDE DEF id, low
<1>8. /\ id \in Nat /\ id <= 536870911
      /\ id % 256 = src
      /\ (id \div 256) % 256 = low
      /\ (id \div 65536) % 256 = pf
      /\ (id \div 16777216) % 2 = e
      /\ (id \div 67108864) % 8 = p
  <2>1. /\ p \in Nat /\ p < 8 /\ e \in Nat /\ e < 2 /\ pf \in Nat /\ pf < 256
        /\ low \in Nat /\ low < 256
    BY <1>1, <1>2, <1>3
  <2>2. id = Composed(p, e, pf, low, src)
    BY DEF id
  <2>3. IsIdentifier(id, p, e, pf, low, src)
    BY <2>1, <2>2, Identifier, Zenon
  <2> QED BY <2>3, SMT DEF IsIdentifier
<1>9. DecodeID(id) = [priority |-> p, src |-> src, pgn |-> f.pgn]
  <2>1. DecodeID(id) = [priority |-> p, src |-> src,
                        pgn |-> e * 65536 + pf * 256 + IF pf < 240 THEN 0 ELSE low]
    <3> DEFINE pr == (id \div 67108864) % 8
               dp == (id \div 16777216) % 2
               f1 == (id \div 65536) % 256
               ps == (id \div 256) % 256
               sr == id % 256
    <3>1. pr = p /\ dp = e /\ f1 = pf /\ ps = low /\ sr = src
      BY <1>8, SMT
    <3>2. DecodeID(id) = [priority |-> pr, src |-> sr,
                          pgn |-> dp * 65536 + f1 * 256 + IF f1 < 240 THEN 0 ELSE ps]
      BY SMT DEF DecodeID
    <3> HIDE DEF pr, dp, f1, ps, sr
    <3> QED BY <3>1, <3>2, SMT
  <2>2. f.pgn % 256 = IF pf < 240 THEN 0 ELSE low
    BY <1>4 DEF low
  <2> QED BY <1>1, <2>1, <2>2, SMT
<1>10. Received(id) = [priority |-> p, pgn |-> f.pgn, src |-> src,
                       dst |-> IF IsPeerToPeer(f.pgn) THEN low ELSE BroadcastAddr]
  <2>1. DecodeID(id).priority = p /\ DecodeID(id).src = src /\ DecodeID(id).pgn = f.pgn
    BY <1>9
  <2> QED BY <2>1, <1>8, SMT DEF Received
<1>11. IsPeerToPeer(f.pgn) => low = f.dst
  BY DEF low
<1> QED BY <1>7, <1>8, <1>10, <1>11, SMT DEF MaxExtID, p

-----------------------------------------------------------------------------
(* Journeys *)

\* Packing a signal sets no bit beyond the end.
LEMMA Packed ==
    ASSUME NEW d, IsPayload(d), NEW raw, NEW sig
    PROVE  IsPayload(PackRaw(d, raw, sig))
<1> DEFINE new == {Walk(sig)[i] : i \in {i \in 0 .. sig.length - 1 :
                      /\ Inside(Walk(sig)[i], d.len)
                      /\ (raw \div Power[RawBit(sig, i)]) % 2 = 1}}
<1>1. d = [len |-> d.len, bits |-> d.bits] /\ d.len \in Nat /\ \A b \in d.bits : b < 8 * d.len
  BY DEF IsPayload
<1>2. \A b \in new : b < 8 * d.len
  BY DEF Inside
<1>3. PackRaw(d, raw, sig) = [d EXCEPT !.bits = d.bits \cup new]
  BY DEF PackRaw
<1> HIDE DEF new
<1>4. PackRaw(d, raw, sig) = [len |-> d.len, bits |-> d.bits \cup new]
  BY <1>1, <1>3
<1> QED BY <1>1, <1>2, <1>4 DEF IsPayload

\* Where the frame at hand comes from: it is the first one until a bus has it, J1939's
\* is made from fields, and only what is complete is sent.
OriginInv ==
    /\ unpacked # {} => at = "app"
    /\ at = "app" => frame = origin /\ ~taped
    /\ load.kind = "j1939" =>
          \E f \in J1939Frames, src \in Sources :
              /\ load.fields = [f EXCEPT !.src = src]
              /\ origin = Frame(SendID(f, src), {"ext"}, NoXL, Bytes(8))

\* The inductive invariant.
IInv == TypeOK /\ OriginInv /\ WellFormedOnBus /\ ChangedOnlyByTapes

\* A J1939 frame given to Send, by its fields.
LEMMA Fields ==
    ASSUME NEW f, f \in J1939Frames
    PROVE  /\ f.priority \in Nat /\ f.priority < 8 /\ f.pgn \in Nat /\ f.pgn <= MaxPGN
           /\ f.dst \in Nat /\ f.dst < 256
           /\ IsPeerToPeer(f.pgn) => f.pgn % 256 = 0
<1>1. f \in [priority : 0 .. 7, pgn : 0 .. MaxPGN, src : 0 .. 255, dst : 0 .. 255]
  BY JourneyAssumption
<1>2. f.priority \in 0 .. 7 /\ f.pgn \in 0 .. MaxPGN /\ f.dst \in 0 .. 255
  BY <1>1
<1>3. MaxPGN \in Nat
  BY SMT DEF MaxPGN
<1>4. IsPeerToPeer(f.pgn) => f.pgn % 256 = 0
  BY JourneyAssumption
<1> QED BY <1>2, <1>3, <1>4

\* A source address is a byte.
LEMMA Source ==
    ASSUME NEW src, src \in Sources
    PROVE  src \in Nat /\ src < 256
<1>1. src \in 0 .. 255
  BY JourneyAssumption
<1> QED BY <1>1

\* So for every frame and source address of the instance.
LEMMA SentID ==
    ASSUME NEW f, f \in J1939Frames, NEW src, src \in Sources
    PROVE  /\ SendID(f, src) \in Nat /\ SendID(f, src) <= MaxExtID
           /\ Received(SendID(f, src)) =
                [priority |-> f.priority, src |-> src, pgn |-> f.pgn,
                 dst |-> IF IsPeerToPeer(f.pgn) THEN f.dst ELSE BroadcastAddr]
<1>1. /\ f.priority \in Nat /\ f.priority < 8 /\ f.pgn \in Nat /\ f.pgn <= MaxPGN
      /\ f.dst \in Nat /\ f.dst < 256
      /\ IsPeerToPeer(f.pgn) => f.pgn % 256 = 0
  BY Fields
<1>2. src \in Nat /\ src < 256
  BY Source
<1> QED BY <1>1, <1>2, Sent, Zenon

\* The types of the other constants.
LEMMA Limits == DLC \in Nat /\ MessageID \in Nat /\ MaxHops \in Nat
BY JourneyAssumption, Zenon

\* A payload of zero bytes is one.
LEMMA Empty8 ==
    ASSUME NEW n, n \in Nat
    PROVE  IsPayload(Bytes(n))
BY DEF Bytes, IsPayload

\* It holds before the first bus.
LEMMA InitHolds == Init => IInv
<1> SUFFICES ASSUME Init PROVE IInv
  OBVIOUS
<1>1. origin = frame /\ hops = 0 /\ at = "app" /\ taped = FALSE
  BY DEF Init
<1>2. IsFrame(frame) /\ (unpacked # {} => load.kind = "dbc" /\ unpacked \subseteq DOMAIN load.layout)
  <2>1. ASSUME NEW f \in RawFrames, load = [kind |-> "raw"], frame = f, unpacked = {}
        PROVE  <1>2
    BY <2>1, JourneyAssumption
  <2>2. ASSUME NEW f \in J1939Frames, NEW src \in Sources, J1939Load(f, src)
        PROVE  <1>2
    <3>1. frame = Frame(SendID(f, src), {"ext"}, NoXL, Bytes(8)) /\ unpacked = {}
      BY <2>2 DEF J1939Load
    <3>2. SendID(f, src) \in Nat
      BY SentID
    <3> QED BY <3>1, <3>2, Made, Plain, Empty8 DEF Flags
  <2>3. CASE load = [kind |-> "file"] /\ frame = Frame(0, {}, NoXL, Bytes(0)) /\ unpacked = {}
    BY <2>3, Made, Plain, Empty8
  <2>4. ASSUME NEW layout \in Layouts, NEW values \in [DOMAIN layout -> Values], DBCLoad(layout, values)
        PROVE  <1>2
    <3>1. /\ load = [kind |-> "dbc", layout |-> layout, values |-> values]
          /\ frame = Frame(MessageID, {}, NoXL, Bytes(DLC)) /\ unpacked = DOMAIN layout
      BY <2>4 DEF DBCLoad
    <3>2. IsFrame(frame)
      BY <3>1, Made, Plain, Empty8, Limits
    <3> QED BY <3>1, <3>2
  <2> QED BY <2>1, <2>2, <2>3, <2>4 DEF Init
<1>3. TypeOK
  <2>1. hops \in 0 .. MaxHops
    BY <1>1, Limits
  <2>2. IsFrame(origin)
    BY <1>1, <1>2
  <2>3. at \in {"app", "bus", "refused"} /\ taped \in BOOLEAN
    BY <1>1
  <2> QED BY <1>2, <2>1, <2>2, <2>3 DEF TypeOK
<1>4. OriginInv
  <2>1. load.kind = "j1939" =>
          \E f \in J1939Frames, src \in Sources :
              /\ load.fields = [f EXCEPT !.src = src]
              /\ frame = Frame(SendID(f, src), {"ext"}, NoXL, Bytes(8))
    BY DEF Init, J1939Load, DBCLoad
  <2> QED BY <1>1, <2>1 DEF OriginInv
<1> QED BY <1>1, <1>3, <1>4 DEF IInv, WellFormedOnBus, ChangedOnlyByTapes

\* What every way keeps: the frame the standard knows, addressed only if it is XL.
Kept == WellFormed(origin) /\ (origin.xl \/ origin.addressing = NoXL)

\* The first frame, or what is left of it.
Told == IF taped THEN Retold(origin) ELSE origin

\* On its way a frame that is kept is that.
LEMMA OnItsWay ==
    ASSUME IInv, Kept, at # "refused"
    PROVE  frame = Told /\ WellFormed(frame)
<1>1. CASE at = "app"
  BY <1>1 DEF IInv, OriginInv, Told, Kept
<1>2. CASE at # "app"
  <2>1. frame = Told
    BY <1>2, Zenon DEF IInv, ChangedOnlyByTapes, Kept, Told
  <2>2. at = "bus"
    BY <1>2 DEF IInv, TypeOK
  <2> QED BY <2>1, <2>2 DEF IInv, WellFormedOnBus
<1> QED BY <1>1, <1>2

\* A bus that is given f and carries it as carried keeps the invariant, when it takes
\* what the standard knows and gives what it takes.
LEMMA HopKeeps ==
    ASSUME IInv, NEW f, NEW accepted, NEW carried, Crosses(f, accepted, carried),
           taped' \in BOOLEAN, IsFrame(f), accepted => IsFrame(carried) /\ WellFormed(carried),
           NEW told, told = IF taped' THEN Retold(origin) ELSE origin,
           Kept => IF accepted THEN carried = told
                   ELSE f = told /\ (f.xl \/ (taped' /\ Garbled(origin)))
    PROVE  IInv'
<1>1. /\ unpacked = {} /\ hops < MaxHops /\ hops' = hops + 1
      /\ accepted => at' = "bus" /\ frame' = carried
      /\ ~accepted => at' = "refused" /\ frame' = f
      /\ load' = load /\ origin' = origin /\ unpacked' = unpacked
  BY DEF Crosses
<1>2. IsFrame(frame) /\ IsFrame(origin) /\ hops \in 0 .. MaxHops
  BY DEF IInv, TypeOK
<1>3. TypeOK'
  <2>1. hops' \in 0 .. MaxHops
    BY <1>1, <1>2, Limits
  <2>2. IsFrame(frame')
    BY <1>1
  <2>3. IsFrame(origin') /\ (unpacked' # {} => load'.kind = "dbc" /\ unpacked' \subseteq DOMAIN load'.layout)
    BY <1>1, <1>2
  <2>4. at' \in {"app", "bus", "refused"}
    BY <1>1
  <2> QED BY <2>1, <2>2, <2>3, <2>4 DEF TypeOK
<1>4. OriginInv'
  <2>1. at' # "app" /\ unpacked' = {}
    BY <1>1
  <2>2. OriginInv
    BY DEF IInv
  <2> QED BY <1>1, <2>1, <2>2 DEF OriginInv
<1>5. WellFormedOnBus'
  BY <1>1 DEF WellFormedOnBus
<1>6. ChangedOnlyByTapes'
  <2> SUFFICES ASSUME Kept
               PROVE  /\ frame' = IF taped' THEN Retold(origin) ELSE origin
                      /\ at' = "refused" => frame'.xl \/ (taped' /\ Garbled(origin))
    BY <1>1, Zenon DEF ChangedOnlyByTapes, Kept
  <2> QED BY <1>1
<1> QED BY <1>3, <1>4, <1>5, <1>6 DEF IInv

\* virtual.Bus sends what ValidateFrame accepts, as it is.
LEMMA VirtualKeeps == IInv /\ VirtualHop => IInv'
<1> SUFFICES ASSUME IInv, VirtualHop PROVE IInv'
  OBVIOUS
<1>1. Crosses(frame, ValidateFrame(frame), frame) /\ taped' = taped /\ at # "refused"
  BY DEF VirtualHop, Crosses
<1>2. IsFrame(frame) /\ taped \in BOOLEAN
  BY DEF IInv, TypeOK
<1>3. ValidateFrame(frame) <=> WellFormed(frame)
  BY <1>2, Validated
<1>4. ASSUME Kept PROVE frame = Told /\ ValidateFrame(frame)
  BY <1>1, <1>3, <1>4, OnItsWay
<1>5. Told = IF taped' THEN Retold(origin) ELSE origin
  BY <1>1 DEF Told
<1> QED BY <1>1, <1>2, <1>3, <1>4, <1>5, HopKeeps

\* A socket carries all but XL frames, and drops only addressing, which no other frame of the standard has.
LEMMA SocketKeeps == IInv /\ SocketHop => IInv'
<1> SUFFICES ASSUME IInv, SocketHop PROVE IInv'
  OBVIOUS
<1> DEFINE carried == DecodeFrame(EncodeFrame(frame))
           accepted == ValidateFrame(frame) /\ ~frame.xl
<1>1. Crosses(frame, accepted, carried) /\ taped' = taped /\ at # "refused"
  BY DEF SocketHop, Crosses
<1>2. IsFrame(frame) /\ taped \in BOOLEAN
  BY DEF IInv, TypeOK
<1>3. ValidateFrame(frame) <=> WellFormed(frame)
  BY <1>2, Validated
<1>4. ASSUME accepted
      PROVE  /\ carried = Frame(frame.id, FlagsOf(frame), NoXL, frame.data)
             /\ IsFrame(carried) /\ WellFormed(carried)
  <2>1. carried = Frame(frame.id, FlagsOf(frame), NoXL, frame.data)
    BY <1>2, <1>3, <1>4, LosslessSocket
  <2>2. frame.id \in Nat /\ IsPayload(frame.data)
    BY <1>2 DEF IsFrame
  <2>3. FlagsOf(frame) \subseteq Flags
    BY DEF FlagsOf
  <2>4. IsFrame(carried)
    BY <2>1, <2>2, <2>3, Made, Plain
  <2>5. carried.id = frame.id /\ carried.data = frame.data /\ FlagsOf(carried) = FlagsOf(frame)
    BY <2>1, <2>3, FlagsAre
  <2>6. carried.ext = frame.ext
    BY <1>2, <2>4, <2>5, FieldsAre
  <2> HIDE DEF carried
  <2>7. WellFormed(carried)
    <3>1. WellFormed(frame)
      BY <1>3, <1>4
    <3>2. InFormat(frame) <=> InFormat(carried)
      BY <2>5, <2>6, Zenon DEF InFormat
    <3> QED BY <3>1, <3>2, <2>5, <2>6 DEF WellFormed
  <2> QED BY <2>1, <2>4, <2>7 DEF carried
<1>5. ASSUME Kept
      PROVE  IF accepted THEN carried = Told ELSE frame = Told /\ frame.xl
  <2>1. frame = Told
    BY <1>1, <1>5, OnItsWay
  <2>2. ValidateFrame(frame)
    BY <1>1, <1>3, <1>5, OnItsWay
  <2>3. CASE accepted
    <3>1. frame.addressing = NoXL
      <4>1. CASE taped
        BY <2>1, <4>1, FieldsRetold DEF Told, IInv, TypeOK
      <4>2. CASE ~taped
        BY <1>5, <2>1, <2>3, <4>2 DEF Kept, Told
      <4> QED BY <4>1, <4>2
    <3>2. frame = Frame(frame.id, FlagsOf(frame), NoXL, frame.data)
      BY <1>2, <3>1 DEF IsFrame
    <3> QED BY <1>4, <2>1, <2>3, <3>2
  <2>4. CASE ~accepted
    <3>1. frame.xl
      BY <2>2, <2>4
    <3> QED BY <2>1, <2>4, <3>1
  <2> QED BY <2>3, <2>4
<1>6. Told = IF taped' THEN Retold(origin) ELSE origin
  BY <1>1 DEF Told
<1> HIDE DEF carried, accepted
<1> QED BY <1>1, <1>2, <1>4, <1>5, <1>6, HopKeeps

\* convert and send of cantool.
LEMMA ConvertKeeps == IInv /\ ConvertHop => IInv'
<1> SUFFICES ASSUME IInv, ConvertHop PROVE IInv'
  OBVIOUS
<1> DEFINE f == FromMessage(ToMessage(frame))
<1>1. /\ Crosses(f, ValidateFrame(frame) /\ ValidateFrame(f), f)
      /\ taped' = taped /\ at = "app"
  BY DEF ConvertHop
<1>2. IsFrame(frame) /\ taped \in BOOLEAN
  BY DEF IInv, TypeOK
<1>3. f = frame /\ (ValidateFrame(frame) <=> WellFormed(frame))
  BY <1>2, LosslessMessage, Validated
<1> HIDE DEF f
<1>4. Crosses(frame, ValidateFrame(frame) /\ ValidateFrame(frame), frame)
  BY <1>1, <1>3
<1>5. ASSUME Kept PROVE frame = Told /\ ValidateFrame(frame)
  BY <1>1, <1>3, <1>5, OnItsWay
<1>6. Told = IF taped' THEN Retold(origin) ELSE origin
  BY <1>1 DEF Told
<1> QED BY <1>1, <1>2, <1>3, <1>4, <1>5, <1>6, HopKeeps

\* An adapter between two buses.
LEMMA RelayKeeps == IInv /\ RelayHop => IInv'
<1> SUFFICES ASSUME IInv, RelayHop PROVE IInv'
  OBVIOUS
<1> DEFINE f == FromMessage(ToMessage(frame))
<1>1. Crosses(f, ValidateFrame(f), f) /\ taped' = taped /\ at = "bus"
  BY DEF RelayHop
<1>2. IsFrame(frame) /\ taped \in BOOLEAN
  BY DEF IInv, TypeOK
<1>3. f = frame /\ (ValidateFrame(frame) <=> WellFormed(frame))
  BY <1>2, LosslessMessage, Validated
<1> HIDE DEF f
<1>4. Crosses(frame, ValidateFrame(frame), frame)
  BY <1>1, <1>3
<1>5. ASSUME Kept PROVE frame = Told /\ ValidateFrame(frame)
  BY <1>1, <1>3, <1>5, OnItsWay
<1>6. Told = IF taped' THEN Retold(origin) ELSE origin
  BY <1>1 DEF Told
<1> QED BY <1>1, <1>2, <1>3, <1>4, <1>5, <1>6, HopKeeps

\* A recording between two buses.
LEMMA TapeKeeps == IInv /\ TapeHop => IInv'
<1> SUFFICES ASSUME IInv, TapeHop PROVE IInv'
  OBVIOUS
<1> DEFINE f == ParseLine(FormatLine(frame))
<1>1. Crosses(f, ValidateFrame(f), f) /\ taped' = TRUE /\ at = "bus"
  BY DEF TapeHop
<1>2. IsFrame(frame)
  BY DEF IInv, TypeOK
<1>3. IsFrame(f) /\ (ValidateFrame(f) <=> WellFormed(f))
  BY <1>2, ReadBack, Validated
<1>4. ASSUME Kept
      PROVE  f = Retold(origin) /\ (ValidateFrame(f) \/ Garbled(origin))
  <2>1. frame = Told /\ WellFormed(frame)
    BY <1>1, <1>4, OnItsWay
  <2>2. f = Retold(frame)
    BY <1>2, <2>1, ToldByLine
  <2>3. IsFrame(origin)
    BY DEF IInv, TypeOK
  <2> HIDE DEF f
  <2>4. f = Retold(origin)
    <3>1. CASE taped
      BY <1>2, <2>1, <2>2, <2>3, <3>1, RetoldOnce DEF Told
    <3>2. CASE ~taped
      BY <2>1, <2>2, <3>2 DEF Told
    <3> QED BY <3>1, <3>2
  <2>5. ~Garbled(origin) => WellFormed(f)
    BY <1>3, <1>4, <2>3, <2>4, LeftWellFormed DEF Kept
  <2> QED BY <1>3, <2>4, <2>5
<1> HIDE DEF f
<1>5. Retold(origin) = IF taped' THEN Retold(origin) ELSE origin
  BY <1>1
<1>6. Kept => IF ValidateFrame(f) THEN f = Retold(origin)
              ELSE f = Retold(origin) /\ (f.xl \/ (taped' /\ Garbled(origin)))
  BY <1>1, <1>4
<1>7. taped' \in BOOLEAN
  BY <1>1
<1> QED BY <1>1, <1>3, <1>5, <1>6, <1>7, HopKeeps

\* Encode packs one more signal, before the first bus.
LEMMA PackKeeps ==
    ASSUME IInv, NEW n \in unpacked, Pack(n)
    PROVE  IInv'
<1> DEFINE sig == load.layout[n]
           d == PackRaw(frame.data, PhysicalToRaw(load.values[n], sig), sig)
<1>1. /\ frame' = [frame EXCEPT !.data = d] /\ origin' = frame' /\ unpacked' = unpacked \ {n}
      /\ UNCHANGED <<load, hops, at, taped>>
  BY DEF Pack
<1>2. /\ IsFrame(frame) /\ hops \in 0 .. MaxHops /\ taped \in BOOLEAN
      /\ load.kind = "dbc" /\ unpacked \subseteq DOMAIN load.layout
  BY DEF IInv, TypeOK
<1>3. at = "app"
  BY DEF IInv, OriginInv
<1>4. IsFrame(frame')
  <2>1. frame = Frame(frame.id, FlagsOf(frame), frame.addressing, frame.data)
        /\ frame.id \in Nat /\ IsPayload(frame.data)
        /\ frame.addressing \in [sdt : 0 .. 255, vcid : 0 .. 255, af : Nat, sec : BOOLEAN]
    BY <1>2 DEF IsFrame
  <2>2. IsPayload(d)
    BY <2>1, Packed
  <2> HIDE DEF d
  <2>3. FlagsOf(frame) \subseteq Flags
    BY DEF FlagsOf
  <2>4. frame' = Frame(frame.id, FlagsOf(frame), frame.addressing, d)
    <3>1. ASSUME NEW id, NEW flags, NEW a, NEW d1
          PROVE  [Frame(id, flags, a, d1) EXCEPT !.data = d] = Frame(id, flags, a, d)
      BY DEF Frame
    <3>2. [Frame(frame.id, FlagsOf(frame), frame.addressing, frame.data) EXCEPT !.data = d]
            = Frame(frame.id, FlagsOf(frame), frame.addressing, d)
      BY <3>1
    <3> QED BY <1>1, <2>1, <3>2
  <2> QED BY <2>1, <2>2, <2>3, <2>4, Made
<1>5. TypeOK'
  BY <1>1, <1>2, <1>3, <1>4 DEF TypeOK
<1>6. OriginInv'
  <2>1. ~taped /\ at' = "app" /\ taped' = taped /\ load' = load /\ frame' = origin'
    BY <1>1, <1>3 DEF IInv, OriginInv
  <2>2. load'.kind # "j1939"
    BY <1>2, <2>1
  <2> QED BY <2>1, <2>2 DEF OriginInv
<1>7. WellFormedOnBus' /\ ChangedOnlyByTapes'
  BY <1>1, <1>3 DEF WellFormedOnBus, ChangedOnlyByTapes
<1> QED BY <1>5, <1>6, <1>7 DEF IInv

\* Reading a line of a database, and stuttering.
LEMMA RestKeeps == IInv /\ UNCHANGED <<load, frame, origin, unpacked, hops, at, taped>> => IInv'
<1> SUFFICES ASSUME IInv, UNCHANGED <<load, frame, origin, unpacked, hops, at, taped>> PROVE IInv'
  OBVIOUS
<1>1. TypeOK'
  BY DEF IInv, TypeOK
<1>2. OriginInv'
  BY DEF IInv, OriginInv
<1>3. WellFormedOnBus' /\ ChangedOnlyByTapes'
  <2>1. WellFormedOnBus /\ ChangedOnlyByTapes
    BY DEF IInv
  <2> QED BY <2>1 DEF WellFormedOnBus, ChangedOnlyByTapes
<1> QED BY <1>1, <1>2, <1>3 DEF IInv

\* Every step keeps the invariant.
LEMMA NextKeeps == IInv /\ [Next]_vars => IInv'
<1> SUFFICES ASSUME IInv, [Next]_vars PROVE IInv'
  OBVIOUS
<1>1. CASE UNCHANGED vars
  BY <1>1, RestKeeps DEF vars
<1>2. ASSUME NEW n \in unpacked, Pack(n)
      PROVE  IInv'
  BY <1>2, PackKeeps
<1>3. ASSUME NEW line \in Lines, LoadFile(line)
      PROVE  IInv'
  BY <1>3, RestKeeps DEF LoadFile
<1>4. CASE VirtualHop
  BY <1>4, VirtualKeeps
<1>5. CASE SocketHop
  BY <1>5, SocketKeeps
<1>6. CASE ConvertHop
  BY <1>6, ConvertKeeps
<1>7. CASE RelayHop
  BY <1>7, RelayKeeps
<1>8. CASE TapeHop
  BY <1>8, TapeKeeps
<1> QED BY <1>1, <1>2, <1>3, <1>4, <1>5, <1>6, <1>7, <1>8 DEF Next

\* The invariant holds throughout.
THEOREM JourneyInvariant == Spec => []IInv
BY InitHolds, NextKeeps, PTL DEF Spec

\* Every variable has its type; in particular no bit lies beyond the end of a payload.
THEOREM JourneyTypeCorrect == Spec => []TypeOK
<1>1. IInv => TypeOK
  BY DEF IInv
<1> QED BY <1>1, JourneyInvariant, PTL

\* Every frame on a bus is one ISO 11898-1 knows, whichever way it came (REQ-SEC-001).
THEOREM JourneyWellFormed == Spec => []WellFormedOnBus
<1>1. IInv => WellFormedOnBus
  BY DEF IInv
<1> QED BY <1>1, JourneyInvariant, PTL

\* ChangedOnlyByTapes (FrameJourney): a frame the standard knows crosses every bus and relay as
\* it is, refused only by sockets if it is XL; a tape leaves of it what a candump line tells,
\* and what is then no frame of the standard is refused.
THEOREM OnlyTapesChange == Spec => []ChangedOnlyByTapes
<1>1. IInv => ChangedOnlyByTapes
  BY DEF IInv
<1> QED BY <1>1, JourneyInvariant, PTL

\* AddressSurvives (FrameJourney): the identifier of a J1939 frame tells the addressing its
\* sender gave it on every bus, and the frame is extended, as j1939's Subscribe demands,
\* unless a tape has carried an identifier up to 0x7FF.
THEOREM JourneyAddress == Spec => []AddressSurvives
<1>1. IInv => AddressSurvives
  <2> SUFFICES ASSUME IInv, load.kind = "j1939", at = "bus"
               PROVE  /\ Received(frame.id) =
                           [load.fields EXCEPT !.dst = IF IsPeerToPeer(load.fields.pgn)
                                                       THEN load.fields.dst ELSE BroadcastAddr]
                      /\ frame.ext \/ (taped /\ frame.id <= MaxStdID)
    BY DEF AddressSurvives
  <2>1. PICK f \in J1939Frames, src \in Sources :
          /\ load.fields = [f EXCEPT !.src = src]
          /\ origin = Frame(SendID(f, src), {"ext"}, NoXL, Bytes(8))
    BY DEF IInv, OriginInv
  <2>2. /\ SendID(f, src) \in Nat /\ SendID(f, src) <= MaxExtID
        /\ Received(SendID(f, src)) =
             [priority |-> f.priority, src |-> src, pgn |-> f.pgn,
              dst |-> IF IsPeerToPeer(f.pgn) THEN f.dst ELSE BroadcastAddr]
    BY SentID
  <2>3. /\ FlagsOf(origin) = {"ext"} /\ origin.id = SendID(f, src)
        /\ origin.addressing = NoXL /\ origin.data = Bytes(8) /\ IsFrame(origin) /\ origin.ext
    <3>1. /\ FlagsOf(origin) = {"ext"} /\ origin.id = SendID(f, src)
          /\ origin.addressing = NoXL /\ origin.data = Bytes(8)
      BY <2>1, FlagsAre DEF Flags
    <3>2. IsFrame(origin)
      BY DEF IInv, TypeOK
    <3> QED BY <3>1, <3>2, FieldsAre
  <2>4. InFormat(origin)
    <3>1. FlagsOf(origin) \ {"ext"} = {} /\ origin.data.len = 8
      BY <2>3 DEF Bytes
    <3> QED BY <3>1 DEF InFormat
  <2>5. Kept
    <3>1. MaxExtID \in Nat
      BY SMT DEF MaxExtID
    <3> QED BY <2>2, <2>3, <2>4, <3>1 DEF Kept, WellFormed
  <2>6. frame.id = origin.id /\ (frame.ext \/ (taped /\ frame.id <= MaxStdID))
    <3>1. frame = Told
      BY <2>5, OnItsWay
    <3>2. CASE taped
      <4>1. frame.id = origin.id /\ (frame.ext <=> ~origin.fd /\ origin.id > MaxStdID)
        BY <2>3, <3>1, <3>2, FieldsRetold DEF Told
      <4>2. ~origin.fd
        BY <2>3, FieldsAre
      <4>3. MaxStdID \in Nat
        BY SMT DEF MaxStdID
      <4> QED BY <2>2, <2>3, <3>2, <4>1, <4>2, <4>3
    <3>3. CASE ~taped
      BY <2>3, <3>1, <3>3 DEF Told
    <3> QED BY <3>2, <3>3
  <2>7. f \in [priority : 0 .. 7, pgn : 0 .. MaxPGN, src : 0 .. 255, dst : 0 .. 255]
    BY JourneyAssumption
  <2>8. load.fields = [priority |-> f.priority, pgn |-> f.pgn, src |-> src, dst |-> f.dst]
    BY <2>1, <2>7
  <2> QED BY <2>2, <2>3, <2>6, <2>8
<1> QED BY <1>1, JourneyInvariant, PTL

-----------------------------------------------------------------------------
(* A database file that grows by a line. *)

\* The lines it had stay where they were.
LEMMA FileGrows ==
    ASSUME NEW lines \in Seq(Lines), NEW line \in Lines, NEW n, n = Len(lines)
    PROVE  /\ n \in Nat /\ DOMAIN lines = 1 .. n /\ DOMAIN Append(lines, line) = 1 .. n + 1
           /\ Len(Append(lines, line)) = n + 1 /\ Append(lines, line)[n + 1] = line
           /\ \A i \in 1 .. n : Append(lines, line)[i] = lines[i]
           /\ Append(lines, line) \in Seq(Lines)
OBVIOUS

\* more is the file lines, of n lines, with line at its end.
Grows(lines, line, more, n) ==
    /\ n \in Nat /\ line \in Lines /\ Len(lines) = n /\ Len(more) = n + 1
    /\ DOMAIN lines = 1 .. n /\ DOMAIN more = 1 .. n + 1 /\ more[n + 1] = line
    /\ \A i \in 1 .. n : more[i] = lines[i]

\* Of each keyword, it has the lines it had and perhaps the new one.
LEMMA LinesGrow ==
    ASSUME NEW lines, NEW line, NEW more, NEW n, Grows(lines, line, more, n), NEW k
    PROVE  /\ LinesOf(lines, k) \subseteq 1 .. n
           /\ LinesOf(more, k) = LinesOf(lines, k) \cup (IF line.keyword = k THEN {n + 1} ELSE {})
<1>1. LinesOf(lines, k) \subseteq 1 .. n
  BY DEF LinesOf, Grows
<1>2. ASSUME NEW i
      PROVE  i \in LinesOf(more, k) <=> i \in LinesOf(lines, k) \/ (line.keyword = k /\ i = n + 1)
  <2>1. i \in 1 .. n + 1 <=> i \in 1 .. n \/ i = n + 1
    BY DEF Grows
  <2>2. n + 1 \notin 1 .. n
    BY DEF Grows
  <2> QED BY <2>1, <2>2 DEF LinesOf, Grows
<1> QED BY <1>1, <1>2

\* A line's message is the one it belonged to ...
LEMMA HeadsStay ==
    ASSUME NEW lines, NEW line, NEW more, NEW n, Grows(lines, line, more, n), NEW i \in 1 .. n + 1
    PROVE  Heads(more, i) = Heads(lines, i) /\ HeadOf(more, i) = HeadOf(lines, i)
<1>1. ASSUME NEW h PROVE h \in Heads(more, i) <=> h \in Heads(lines, i)
  <2>1. n \in Nat /\ \A j \in 1 .. n : more[j] = lines[j]
    BY DEF Grows
  <2>2. ASSUME h < i PROVE h \in LinesOf(more, "BO_") <=> h \in LinesOf(lines, "BO_")
    BY <2>1, <2>2, LinesGrow
  <2>3. ASSUME h \in LinesOf(lines, "BO_"), NEW j \in h + 1 .. i - 1 PROVE more[j] = lines[j]
    <3>1. h \in 1 .. n
      BY <2>3, LinesGrow
    <3>2. j \in 1 .. n
      BY <3>1, <2>1
    <3> QED BY <3>2, <2>1
  <2> QED BY <2>2, <2>3 DEF Heads
<1>2. Heads(more, i) = Heads(lines, i)
  BY <1>1
<1> QED BY <1>2 DEF HeadOf

\* ... and the message of a line to come is the new line's, if it starts one.
LEMMA HeadsNext ==
    ASSUME NEW lines, NEW line, NEW more, NEW n, Grows(lines, line, more, n)
    PROVE  HeadOf(more, n + 2) = IF line.keyword = "BO_" THEN n + 1
                                 ELSE IF line.keyword \in {"SG_", "empty"} THEN HeadOf(lines, n + 1) ELSE 0
<1>m. PICK m : m = n + 2
  OBVIOUS
<1> SUFFICES HeadOf(more, m) = IF line.keyword = "BO_" THEN n + 1
                               ELSE IF line.keyword \in {"SG_", "empty"} THEN HeadOf(lines, n + 1) ELSE 0
  BY <1>m
<1>0. n \in Nat /\ more[n + 1] = line /\ m = n + 2 /\ m - 1 = n + 1 /\ n + 1 - 1 = n
      /\ \A i \in 1 .. n : more[i] = lines[i]
  BY <1>m DEF Grows
<1>1. \A h \in LinesOf(lines, "BO_") : h \in 1 .. n /\ h # n + 1
  BY <1>0, LinesGrow
<1>2. ASSUME line.keyword = "BO_" PROVE Heads(more, m) = {n + 1}
  <2>1. ASSUME NEW h \in Heads(more, m) PROVE h = n + 1
    <3>1. h \in LinesOf(lines, "BO_") \/ h = n + 1
      BY <1>2, LinesGrow DEF Heads
    <3>2. h \notin LinesOf(lines, "BO_")
      <4> SUFFICES ASSUME h \in LinesOf(lines, "BO_") PROVE FALSE
        OBVIOUS
      <4>1. n + 1 \in h + 1 .. m - 1
        BY <1>0, <1>1
      <4>2. \A j \in h + 1 .. m - 1 : more[j].keyword \in {"SG_", "empty"}
        BY DEF Heads
      <4>3. more[n + 1].keyword \in {"SG_", "empty"}
        BY <4>1, <4>2
      <4> QED BY <4>3, <1>0, <1>2
    <3> QED BY <3>1, <3>2
  <2>2. n + 1 \in Heads(more, m)
    <3>1. n + 1 \in LinesOf(more, "BO_") /\ n + 1 < m
      BY <1>0, <1>2, LinesGrow
    <3>2. \A j \in n + 1 + 1 .. m - 1 : more[j].keyword \in {"SG_", "empty"}
      BY <1>0
    <3> QED BY <3>1, <3>2 DEF Heads
  <2> QED BY <2>1, <2>2
<1>3. ASSUME line.keyword # "BO_", line.keyword \notin {"SG_", "empty"} PROVE Heads(more, m) = {}
  <2> SUFFICES ASSUME NEW h \in Heads(more, m) PROVE FALSE
    OBVIOUS
  <2>1. h \in LinesOf(lines, "BO_")
    BY <1>3, LinesGrow DEF Heads
  <2>2. n + 1 \in h + 1 .. m - 1
    BY <2>1, <1>0, <1>1
  <2>3. \A j \in h + 1 .. m - 1 : more[j].keyword \in {"SG_", "empty"}
    BY DEF Heads
  <2>4. more[n + 1].keyword \in {"SG_", "empty"}
    BY <2>2, <2>3
  <2> QED BY <2>4, <1>0, <1>3
<1>4. ASSUME line.keyword \in {"SG_", "empty"} PROVE Heads(more, m) = Heads(lines, n + 1)
  <2>1. LinesOf(more, "BO_") = LinesOf(lines, "BO_")
    BY <1>4, LinesGrow
  <2>2. ASSUME NEW h \in LinesOf(lines, "BO_")
        PROVE  h \in Heads(more, m) <=> h \in Heads(lines, n + 1)
    <3>1. h < m /\ h < n + 1 /\ h \in Nat
      BY <1>0, <1>1
    <3>2. \A j : j \in h + 1 .. m - 1 <=> j \in h + 1 .. n + 1 - 1 \/ j = n + 1
      BY <1>0, <1>1
    <3>3. \A j \in h + 1 .. n + 1 - 1 : more[j] = lines[j]
      BY <1>0, <1>1
    <3> QED BY <2>1, <3>1, <3>2, <3>3, <1>0, <1>4 DEF Heads
  <2>3. Heads(more, m) \subseteq LinesOf(lines, "BO_") /\ Heads(lines, n + 1) \subseteq LinesOf(lines, "BO_")
    BY <2>1 DEF Heads
  <2> QED BY <2>2, <2>3
<1>5. CASE line.keyword = "BO_"
  <2>1. HeadOf(more, m) = CHOOSE h \in {n + 1} : TRUE
    BY <1>2, <1>5 DEF HeadOf
  <2> QED BY <2>1, <1>5
<1>6. CASE line.keyword # "BO_" /\ line.keyword \in {"SG_", "empty"}
  <2>1. Heads(more, m) = Heads(lines, n + 1)
    BY <1>4, <1>6
  <2>2. HeadOf(more, m) = HeadOf(lines, n + 1)
    BY <2>1 DEF HeadOf
  <2> QED BY <2>2, <1>6
<1>7. CASE line.keyword # "BO_" /\ line.keyword \notin {"SG_", "empty"}
  BY <1>3, <1>7 DEF HeadOf
<1> QED BY <1>5, <1>6, <1>7

\* The message a line belongs to starts before it, and only signals lie between.
LEMMA HeadIs ==
    ASSUME NEW lines, NEW i, HeadOf(lines, i) # 0
    PROVE  /\ HeadOf(lines, i) \in LinesOf(lines, "BO_") /\ HeadOf(lines, i) < i
           /\ \A j \in HeadOf(lines, i) + 1 .. i - 1 : lines[j].keyword \in {"SG_", "empty"}
<1>1. HeadOf(lines, i) \in Heads(lines, i)
  BY DEF HeadOf
<1> QED BY <1>1 DEF Heads

\* The latest of lines that include a new one is the new one.
LEMMA LatestNew ==
    ASSUME NEW n \in Nat, NEW S, S \subseteq 1 .. n
    PROVE  Latest(S \cup {n + 1}) = n + 1
<1>1. \A j \in S \cup {n + 1} : j <= n + 1 /\ (j # n + 1 => ~(n + 1 <= j))
  OBVIOUS
<1>2. n + 1 \in S \cup {n + 1} /\ \A j \in S \cup {n + 1} : j <= n + 1
  BY <1>1
<1>3. \A i \in S \cup {n + 1} : (\A j \in S \cup {n + 1} : j <= i) => i = n + 1
  BY <1>1
<1> QED BY <1>2, <1>3 DEF Latest

\* The latest of some lines is one of them.
LEMMA LatestIn ==
    ASSUME NEW n \in Nat, NEW S, S \subseteq 1 .. n, S # {}
    PROVE  Latest(S) \in S
<1> DEFINE R == OpToRel(<, Nat)
           T == {n - i : i \in S}
<1>1. IsWellFoundedOn(R, Nat)
  BY NatLessThanWellFounded
<1>2. \A a, b \in Nat : <<a, b>> \in R <=> a < b
  BY DEF OpToRel
<1> HIDE DEF R
<1>3. T \subseteq Nat /\ T # {}
  <2>1. ASSUME NEW y \in T PROVE y \in Nat
    <3>1. PICK i \in S : y = n - i
      OBVIOUS
    <3>2. i \in 1 .. n
      OBVIOUS
    <3> QED BY <3>1, <3>2
  <2>2. PICK i \in S : TRUE
    OBVIOUS
  <2>3. n - i \in T
    OBVIOUS
  <2> HIDE DEF T
  <2> QED BY <2>1, <2>3
<1>4. PICK x \in T : \A y \in T : <<y, x>> \notin R
  BY <1>1, <1>3, WFMin
<1>5. PICK i \in S : x = n - i
  OBVIOUS
<1>6. ASSUME NEW j \in S PROVE j <= i
  <2>1. n - j \in T /\ n - j \in Nat /\ n - i \in Nat
    BY <1>3, <1>5
  <2>2. ~(n - j < n - i)
    BY <2>1, <1>2, <1>4, <1>5
  <2> QED BY <2>2, <1>5
<1> QED BY <1>6 DEF Latest

\* The definition of a message as of a line it had is the one it was; as of the new line it
\* is that line if it is one of the message.
LEMMA BodyGrows ==
    ASSUME NEW lines, NEW line, NEW more, NEW n, Grows(lines, line, more, n), NEW id
    PROVE  /\ \A m \in 1 .. n : BodyAsOf(more, m, id) = BodyAsOf(lines, m, id)
           /\ BodyAsOf(more, n + 1, id) =
                 IF line.keyword = "BO_" /\ line.id = id THEN n + 1 ELSE BodyAsOf(lines, n, id)
<1> DEFINE Bos(l, m) == {h \in LinesOf(l, "BO_") : h <= m /\ l[h].id = id}
<1>0. n \in Nat /\ more[n + 1] = line /\ \A i \in 1 .. n : more[i] = lines[i]
  BY DEF Grows
<1>1. /\ LinesOf(lines, "BO_") \subseteq 1 .. n
      /\ \A h : h \in LinesOf(more, "BO_") <=>
            h \in LinesOf(lines, "BO_") \/ (line.keyword = "BO_" /\ h = n + 1)
  BY LinesGrow
<1>2. ASSUME NEW m \in 1 .. n PROVE Bos(more, m) = Bos(lines, m)
  <2>1. ~(n + 1 <= m)
    BY <1>0
  <2> QED BY <2>1, <1>0, <1>1
<1>3. Bos(more, n + 1) = Bos(lines, n) \cup (IF line.keyword = "BO_" /\ line.id = id THEN {n + 1} ELSE {})
  <2> SUFFICES ASSUME NEW h
               PROVE  h \in Bos(more, n + 1) <=>
                         h \in Bos(lines, n) \/ (line.keyword = "BO_" /\ line.id = id /\ h = n + 1)
    OBVIOUS
  <2>1. CASE h \in LinesOf(lines, "BO_")
    <3>1. h \in 1 .. n /\ h <= n /\ h <= n + 1 /\ h # n + 1
      BY <2>1, <1>0, <1>1
    <3> QED BY <3>1, <2>1, <1>0, <1>1
  <2>2. CASE h \notin LinesOf(lines, "BO_")
    <3>1. n + 1 <= n + 1
      BY <1>0
    <3> QED BY <3>1, <2>2, <1>0, <1>1
  <2> QED BY <2>1, <2>2
<1>4. \A l, m : BodyAsOf(l, m, id) = IF Bos(l, m) = {} THEN 0 ELSE Latest(Bos(l, m))
  BY DEF BodyAsOf
<1>5. Bos(lines, n) \subseteq 1 .. n
  BY <1>1
<1> HIDE DEF Bos
<1>6. CASE line.keyword = "BO_" /\ line.id = id
  <2>1. Bos(more, n + 1) = Bos(lines, n) \cup {n + 1}
    BY <1>3, <1>6
  <2>2. Latest(Bos(lines, n) \cup {n + 1}) = n + 1
    BY <1>0, <1>5, LatestNew
  <2>3. BodyAsOf(more, n + 1, id) = Latest(Bos(more, n + 1))
    BY <2>1, <1>4
  <2> QED BY <2>1, <2>2, <2>3, <1>2, <1>4, <1>6
<1>7. CASE ~(line.keyword = "BO_" /\ line.id = id)
  <2>1. Bos(more, n + 1) = Bos(lines, n)
    BY <1>3, <1>7
  <2> QED BY <2>1, <1>2, <1>4, <1>7
<1> QED BY <1>6, <1>7

\* The signals of a message as of a line it had are those they were.
LEMMA SignalsStay ==
    ASSUME NEW lines, NEW line, NEW more, NEW n, Grows(lines, line, more, n), NEW m \in 1 .. n,
           NEW id, NEW name
    PROVE  SignalLines(more, m, id, name) = SignalLines(lines, m, id, name)
<1>0. n \in Nat /\ \A i \in 1 .. n : more[i] = lines[i] /\ HeadOf(more, i) = HeadOf(lines, i)
  BY HeadsStay DEF Grows
<1>1. BodyAsOf(more, m, id) = BodyAsOf(lines, m, id)
  BY BodyGrows
<1>2. LinesOf(lines, "SG_") \subseteq 1 .. n
      /\ \A i : i \in LinesOf(more, "SG_") <=>
            i \in LinesOf(lines, "SG_") \/ (line.keyword = "SG_" /\ i = n + 1)
  BY LinesGrow
<1>3. ASSUME NEW i
      PROVE  i \in SignalLines(more, m, id, name) <=> i \in SignalLines(lines, m, id, name)
  <2>1. CASE i \in LinesOf(lines, "SG_")
    BY <2>1, <1>0, <1>1, <1>2 DEF SignalLines
  <2>2. CASE i \notin LinesOf(lines, "SG_")
    <3>1. ~(n + 1 <= m)
      BY <1>0
    <3> QED BY <3>1, <2>2, <1>2 DEF SignalLines
  <2> QED BY <2>1, <2>2
<1> QED BY <1>3

\* After n lines, line defines a signal called name of message id.
Gains(lines, line, n, id, name) ==
    /\ line.keyword = "SG_" /\ line.name = name
    /\ BodyAsOf(lines, n, id) # 0 /\ HeadOf(lines, n + 1) = BodyAsOf(lines, n, id)

\* A new definition of a message has no signals yet; else its signals are those it had and
\* the new one, if it is one of its own.
LEMMA SignalsGrow ==
    ASSUME NEW lines, NEW line, NEW more, NEW n, Grows(lines, line, more, n), NEW id, NEW name,
           NEW p, p = n + 1
    PROVE  /\ line.keyword = "BO_" /\ line.id = id => SignalLines(more, p, id, name) = {}
           /\ ~(line.keyword = "BO_" /\ line.id = id) /\ Gains(lines, line, n, id, name) =>
                 SignalLines(more, p, id, name) = SignalLines(lines, n, id, name) \cup {p}
           /\ ~(line.keyword = "BO_" /\ line.id = id) /\ ~Gains(lines, line, n, id, name) =>
                 SignalLines(more, p, id, name) = SignalLines(lines, n, id, name)
<1>0. n \in Nat /\ p = n + 1 /\ more[p] = line /\ n + 1 \in 1 .. n + 1
      /\ \A i \in 1 .. n : more[i] = lines[i] /\ i <= n /\ i <= p /\ i # p /\ i \in 1 .. n + 1
  BY DEF Grows
<1>h. \A i \in 1 .. n + 1 : HeadOf(more, i) = HeadOf(lines, i)
  BY HeadsStay
<1>1. BodyAsOf(more, p, id) =
         IF line.keyword = "BO_" /\ line.id = id THEN p ELSE BodyAsOf(lines, n, id)
  BY BodyGrows
<1>2. LinesOf(lines, "SG_") \subseteq 1 .. n
      /\ \A i : i \in LinesOf(more, "SG_") <=>
            i \in LinesOf(lines, "SG_") \/ (line.keyword = "SG_" /\ i = p)
  BY LinesGrow
<1>g. Gains(lines, line, n, id, name) <=>
         /\ line.keyword = "SG_" /\ line.name = name
         /\ BodyAsOf(lines, n, id) # 0 /\ HeadOf(lines, p) = BodyAsOf(lines, n, id)
  BY DEF Gains
<1>3. CASE line.keyword = "BO_" /\ line.id = id
  <2>1. ASSUME NEW i \in SignalLines(more, p, id, name) PROVE FALSE
    <3>1. i \in LinesOf(lines, "SG_") /\ i \in 1 .. n
      BY <1>2, <1>3 DEF SignalLines
    <3>2. HeadOf(more, i) = p /\ p # 0
      BY <1>0, <1>1, <1>3 DEF SignalLines
    <3>3. p < i
      BY <3>2, HeadIs
    <3> QED BY <3>1, <3>3, <1>0
  <2> QED BY <2>1, <1>3
<1>4. CASE ~(line.keyword = "BO_" /\ line.id = id)
  <2>1. ASSUME NEW i
        PROVE  i \in SignalLines(more, p, id, name) <=>
                  \/ i \in SignalLines(lines, n, id, name)
                  \/ Gains(lines, line, n, id, name) /\ i = p
    <3>1. CASE i \in LinesOf(lines, "SG_")
      <4>1. i \in 1 .. n
        BY <3>1, <1>2
      <4>2. more[i] = lines[i] /\ i <= n /\ i <= p /\ i # p /\ HeadOf(more, i) = HeadOf(lines, i)
        BY <4>1, <1>0, <1>h
      <4> QED BY <4>2, <3>1, <1>g, <1>1, <1>2, <1>4 DEF SignalLines
    <3>2. CASE i \notin LinesOf(lines, "SG_") /\ i # p
      BY <3>2, <1>g, <1>2 DEF SignalLines
    <3>3. CASE i \notin LinesOf(lines, "SG_") /\ i = p
      <4>1. HeadOf(more, p) = HeadOf(lines, p) /\ p <= p
        BY <1>0, <1>h
      <4> QED BY <4>1, <3>3, <1>g, <1>0, <1>1, <1>2, <1>4 DEF SignalLines
    <3> QED BY <3>1, <3>2, <3>3
  <2> QED BY <2>1, <1>4
<1> QED BY <1>3, <1>4

\* The new line has to be understood and cannot be.
WrongLine(lines, line, n) ==
    \/ line.keyword = "BO_" /\ ~line.proper
    \/ line.keyword = "SG_" /\ HeadOf(lines, n + 1) # 0 /\ ~Sound(line)
    \/ /\ line.keyword = "VAL_"
       /\ ~line.proper \/ (~line.readable /\ SignalLines(lines, n, line.id, line.name) # {})

\* A line that was wrong still is, and perhaps the new one.
LEMMA WrongGrows ==
    ASSUME NEW lines, NEW line, NEW more, NEW n, Grows(lines, line, more, n)
    PROVE  /\ (\E i \in DOMAIN more : Wrong(more, i)) <=>
                 (\E i \in DOMAIN lines : Wrong(lines, i)) \/ WrongLine(lines, line, n)
<1>0. n \in Nat /\ more[n + 1] = line /\ n + 1 \in 1 .. n + 1 /\ 1 .. n + 1 = 1 .. n \cup {n + 1}
      /\ DOMAIN lines = 1 .. n /\ DOMAIN more = 1 .. n + 1
      /\ \A i \in 1 .. n : more[i] = lines[i] /\ i \in 1 .. n + 1
  BY DEF Grows
<1>1. ASSUME NEW i \in 1 .. n PROVE Wrong(more, i) <=> Wrong(lines, i)
  <2>1. SignalLines(more, i, lines[i].id, lines[i].name) = SignalLines(lines, i, lines[i].id, lines[i].name)
    BY SignalsStay
  <2>2. HeadOf(more, i) = HeadOf(lines, i) /\ more[i] = lines[i]
    BY <1>0, HeadsStay
  <2>3. PICK line1, head, defs :
            /\ line1 = lines[i] /\ head = HeadOf(lines, i)
            /\ defs = SignalLines(lines, i, line1.id, line1.name)
    OBVIOUS
  <2> DEFINE Bad ==
        \/ line1.keyword = "BO_" /\ ~line1.proper
        \/ /\ line1.keyword = "SG_" /\ head # 0
           /\ ~line1.proper \/ line1.length \notin 1 .. 64 \/ line1.start \notin 0 .. 511
        \/ line1.keyword = "VAL_" /\ (~line1.proper \/ (~line1.readable /\ defs # {}))
  <2>4. Wrong(lines, i) <=> Bad
    BY <2>3 DEF Wrong
  <2>5. Wrong(more, i) <=> Bad
    <3>1. more[i] = line1 /\ HeadOf(more, i) = head
      BY <2>2, <2>3
    <3>2. SignalLines(more, i, line1.id, line1.name) = defs
      BY <2>1, <2>3
    <3> QED BY <3>1, <3>2 DEF Wrong
  <2> HIDE DEF Bad
  <2> QED BY <2>4, <2>5
<1>2. Wrong(more, n + 1) <=> WrongLine(lines, line, n)
  <2>1. HeadOf(more, n + 1) = HeadOf(lines, n + 1)
    BY <1>0, HeadsStay
  <2>2. CASE line.keyword = "VAL_"
    <3>p. PICK p : p = n + 1
      OBVIOUS
    <3>1. ASSUME NEW id, NEW name
          PROVE  SignalLines(more, p, id, name) = SignalLines(lines, n, id, name)
      <4>1. line.keyword # "BO_" /\ line.keyword # "SG_"
        BY <2>2
      <4>2. ~Gains(lines, line, n, id, name)
        BY <4>1 DEF Gains
      <4> QED BY <4>1, <4>2, <3>p, SignalsGrow
    <3>2. more[p] = line
      BY <3>p, <1>0
    <3>3. Wrong(more, p) <=>
            ~line.proper \/ (~line.readable /\ SignalLines(more, p, line.id, line.name) # {})
      BY <3>2, <2>2 DEF Wrong
    <3>4. WrongLine(lines, line, n) <=>
            ~line.proper \/ (~line.readable /\ SignalLines(lines, n, line.id, line.name) # {})
      BY <2>2 DEF WrongLine
    <3>5. SignalLines(more, p, line.id, line.name) = SignalLines(lines, n, line.id, line.name)
      BY <3>1
    <3>6. Wrong(more, p) <=> WrongLine(lines, line, n)
      BY <3>3, <3>4, <3>5
    <3> QED BY <3>6, <3>p
  <2>3. CASE line.keyword = "SG_"
    BY <2>1, <2>3, <1>0 DEF Wrong, WrongLine, Sound
  <2>4. CASE line.keyword = "BO_"
    BY <2>4, <1>0 DEF Wrong, WrongLine
  <2>5. CASE line.keyword \notin {"BO_", "SG_", "VAL_"}
    BY <2>5, <1>0 DEF Wrong, WrongLine
  <2> QED BY <2>2, <2>3, <2>4, <2>5
<1> QED BY <1>0, <1>1, <1>2

\* The VAL_ lines since a signal's definition are those there were, and the new one.
LEMMA SinceGrows ==
    ASSUME NEW lines, NEW line, NEW more, NEW n, Grows(lines, line, more, n), NEW id, NEW name,
           ~(line.keyword = "BO_" /\ line.id = id)
    PROVE  /\ Since(lines, id, name) \subseteq 1 .. n
           /\ Since(more, id, name) = Since(lines, id, name) \cup
                 (IF /\ line.keyword = "VAL_" /\ line.id = id /\ line.name = name
                     /\ SignalLines(lines, n, id, name) # {}
                  THEN {n + 1} ELSE {})
<1>p. PICK p : p = n + 1
  OBVIOUS
<1>0. n \in Nat /\ more[p] = line /\ Len(lines) = n /\ Len(more) = p
      /\ \A i \in 1 .. n : more[i] = lines[i] /\ i < p /\ ~(p < i) /\ i # p
  BY <1>p DEF Grows
<1>1. LinesOf(lines, "VAL_") \subseteq 1 .. n /\ LinesOf(lines, "SG_") \subseteq 1 .. n
      /\ \A i : i \in LinesOf(more, "VAL_") <=>
            i \in LinesOf(lines, "VAL_") \/ (line.keyword = "VAL_" /\ i = p)
  BY <1>p, LinesGrow
<1>2. SignalLines(lines, n, id, name) \subseteq 1 .. n
  BY <1>1 DEF SignalLines
<1>3. \A i : i \in SignalLines(more, p, id, name) =>
               i \in SignalLines(lines, n, id, name) \/ (line.keyword = "SG_" /\ i = p)
  <2>1. Gains(lines, line, n, id, name) => line.keyword = "SG_"
    BY DEF Gains
  <2>2. \/ SignalLines(more, p, id, name) = SignalLines(lines, n, id, name) \cup {p} /\ line.keyword = "SG_"
        \/ SignalLines(more, p, id, name) = SignalLines(lines, n, id, name)
    BY <1>p, <2>1, SignalsGrow
  <2> QED BY <2>2
<1>4. SignalLines(lines, n, id, name) \subseteq SignalLines(more, p, id, name)
  BY <1>p, SignalsGrow
<1>5. ASSUME NEW v
      PROVE  v \in Since(more, id, name) <=>
                \/ v \in Since(lines, id, name)
                \/ /\ line.keyword = "VAL_" /\ line.id = id /\ line.name = name
                   /\ SignalLines(lines, n, id, name) # {} /\ v = p
  <2>1. CASE v \in LinesOf(lines, "VAL_")
    <3>1. v \in 1 .. n /\ more[v] = lines[v] /\ v # p /\ ~(p < v)
      BY <2>1, <1>0, <1>1
    <3>2. (\E i \in SignalLines(more, p, id, name) : i < v) <=>
             (\E i \in SignalLines(lines, n, id, name) : i < v)
      BY <3>1, <1>3, <1>4
    <3> QED BY <3>1, <3>2, <2>1, <1>0, <1>1 DEF Since
  <2>2. CASE v \notin LinesOf(lines, "VAL_") /\ v # p
    BY <2>2, <1>1 DEF Since
  <2>3. CASE v \notin LinesOf(lines, "VAL_") /\ v = p
    <3>1. line.keyword = "VAL_" =>
            ((\E i \in SignalLines(more, p, id, name) : i < p) <=> SignalLines(lines, n, id, name) # {})
      BY <1>0, <1>2, <1>3, <1>4
    <3> QED BY <3>1, <2>3, <1>0, <1>1 DEF Since
  <2> QED BY <2>1, <2>2, <2>3
<1> QED BY <1>1, <1>5, <1>p DEF Since

\* The messages of a file.
Ids(lines) == {lines[h].id : h \in LinesOf(lines, "BO_")}

\* A message is defined by the latest of its BO_ lines, if it has any.
LEMMA BodyIs ==
    ASSUME NEW lines, NEW n \in Nat, DOMAIN lines = 1 .. n, NEW id
    PROVE  IF id \in Ids(lines)
           THEN /\ BodyAsOf(lines, n, id) \in LinesOf(lines, "BO_")
                /\ BodyAsOf(lines, n, id) \in 1 .. n /\ lines[BodyAsOf(lines, n, id)].id = id
           ELSE BodyAsOf(lines, n, id) = 0
<1> DEFINE Bos == {h \in LinesOf(lines, "BO_") : h <= n /\ lines[h].id = id}
<1>1. LinesOf(lines, "BO_") \subseteq 1 .. n /\ \A h \in 1 .. n : h <= n
  BY DEF LinesOf
<1>2. Bos = {h \in LinesOf(lines, "BO_") : lines[h].id = id} /\ Bos \subseteq 1 .. n
  BY <1>1
<1>3. id \in Ids(lines) <=> Bos # {}
  BY <1>2 DEF Ids
<1>4. BodyAsOf(lines, n, id) = IF Bos = {} THEN 0 ELSE Latest(Bos)
  BY DEF BodyAsOf
<1>5. Bos # {} => Latest(Bos) \in Bos
  BY <1>2, LatestIn
<1> QED BY <1>2, <1>3, <1>4, <1>5

\* A new VAL_ line of a signal adds its labels, over those there were.
LEMMA LabelsGrow ==
    ASSUME NEW lines, NEW line, NEW more, NEW n, Grows(lines, line, more, n), NEW id, NEW name,
           Since(lines, id, name) \subseteq 1 .. n
    PROVE  /\ Since(more, id, name) = Since(lines, id, name) =>
                 Labels(more, id, name) = Labels(lines, id, name)
           /\ Since(more, id, name) = Since(lines, id, name) \cup {n + 1} =>
                 Labels(more, id, name) = PutAll(Labels(lines, id, name), line.pairs)
<1> DEFINE since == Since(lines, id, name)
           Of(l, S, raw) == {v \in S : raw \in DOMAIN l[v].pairs}
           All(l, S) == UNION {DOMAIN l[v].pairs : v \in S}
           Given(l, S) == [raw \in All(l, S) |-> l[Latest(Of(l, S, raw))].pairs[raw]]
<1>p. PICK p : p = n + 1
  OBVIOUS
<1>0. n \in Nat /\ more[p] = line /\ since \subseteq 1 .. n /\ p \notin since
      /\ \A i \in 1 .. n : more[i] = lines[i]
  BY <1>p DEF Grows
<1>1. Labels(more, id, name) = Given(more, Since(more, id, name)) /\ Labels(lines, id, name) = Given(lines, since)
  BY DEF Labels
<1> HIDE DEF since
<1>2. \A v \in since : more[v] = lines[v]
  BY <1>0
<1>3. All(more, since) = All(lines, since) /\ \A raw : Of(more, since, raw) = Of(lines, since, raw)
  BY <1>2
<1>4. ASSUME NEW raw \in All(lines, since)
      PROVE  /\ Latest(Of(lines, since, raw)) \in since
             /\ more[Latest(Of(lines, since, raw))] = lines[Latest(Of(lines, since, raw))]
  <2>1. Of(lines, since, raw) \subseteq since /\ Of(lines, since, raw) # {}
    OBVIOUS
  <2>2. Of(lines, since, raw) \subseteq 1 .. n
    BY <2>1, <1>0
  <2> HIDE DEF Of
  <2>3. Latest(Of(lines, since, raw)) \in Of(lines, since, raw)
    BY <2>1, <2>2, <1>0, LatestIn
  <2>4. Latest(Of(lines, since, raw)) \in since
    BY <2>1, <2>3
  <2> QED BY <2>4, <1>2
<1>5. Given(more, since) = Given(lines, since)
  <2> HIDE DEF Of, All
  <2> QED BY <1>3, <1>4
<1>6. Given(more, since \cup {p}) = PutAll(Given(lines, since), line.pairs)
  <2>1. All(more, since \cup {p}) = DOMAIN line.pairs \cup All(lines, since)
    <3>1. All(more, since \cup {p}) = All(more, since) \cup DOMAIN more[p].pairs
      OBVIOUS
    <3> HIDE DEF All
    <3> QED BY <3>1, <1>0, <1>3
  <2>2. ASSUME NEW raw \in DOMAIN line.pairs
        PROVE  more[Latest(Of(more, since \cup {p}, raw))] = line
    <3>1. Of(more, since \cup {p}, raw) = Of(more, since, raw) \cup {p} /\ Of(more, since, raw) \subseteq 1 .. n
      BY <1>0
    <3> HIDE DEF Of
    <3>2. Latest(Of(more, since, raw) \cup {n + 1}) = n + 1
      BY <3>1, <1>0, LatestNew
    <3>3. Latest(Of(more, since \cup {p}, raw)) = p
      BY <3>1, <3>2, <1>p
    <3> QED BY <3>3, <1>0
  <2>3. ASSUME NEW raw, raw \notin DOMAIN line.pairs
        PROVE  Of(more, since \cup {p}, raw) = Of(lines, since, raw)
    <3>1. Of(more, since \cup {p}, raw) = Of(more, since, raw)
      BY <2>3, <1>0
    <3> QED BY <3>1, <1>3
  <2> DEFINE old == Given(lines, since)
             new == Given(more, since \cup {p})
  <2>4. DOMAIN new = DOMAIN line.pairs \cup All(lines, since) /\ DOMAIN old = All(lines, since)
    BY <2>1
  <2>5. ASSUME NEW raw \in DOMAIN new
        PROVE  new[raw] = IF raw \in DOMAIN line.pairs THEN line.pairs[raw] ELSE old[raw]
    <3> HIDE DEF Of, All
    <3>1. CASE raw \in DOMAIN line.pairs
      BY <3>1, <2>2
    <3>2. CASE raw \notin DOMAIN line.pairs
      <4>1. raw \in All(lines, since)
        BY <3>2, <2>4
      <4> QED BY <4>1, <3>2, <2>3, <1>4
    <3> QED BY <3>1, <3>2
  <2>6. new = [raw \in DOMAIN new |-> new[raw]]
    OBVIOUS
  <2> HIDE DEF new, old
  <2>7. new = [raw \in DOMAIN line.pairs \cup DOMAIN old |->
                  IF raw \in DOMAIN line.pairs THEN line.pairs[raw] ELSE old[raw]]
    BY <2>4, <2>5, <2>6
  <2>8. new = PutAll(old, line.pairs)
    BY <2>7 DEF PutAll
  <2> QED BY <2>8 DEF new, old
<1> HIDE DEF Given
<1> QED BY <1>1, <1>5, <1>6, <1>p DEF since

\* As long as only signals followed a message, none of them has labels.
LEMMA NoLabelsYet ==
    ASSUME NEW lines, NEW n \in Nat, DOMAIN lines = 1 .. n, Len(lines) = n, NEW id, NEW name,
           BodyAsOf(lines, n, id) # 0, HeadOf(lines, n + 1) = BodyAsOf(lines, n, id)
    PROVE  Since(lines, id, name) = {} /\ Labels(lines, id, name) = Nothing
<1>1. ASSUME NEW v \in Since(lines, id, name) PROVE FALSE
  <2>1. v \in 1 .. n /\ lines[v].keyword = "VAL_" /\ \E i \in SignalLines(lines, n, id, name) : i < v
    BY DEF Since, LinesOf
  <2>2. PICK i \in SignalLines(lines, n, id, name) : i < v
    BY <2>1
  <2>3. i \in 1 .. n /\ HeadOf(lines, i) = BodyAsOf(lines, n, id)
    BY DEF SignalLines, LinesOf
  <2>4. PICK b : b = BodyAsOf(lines, n, id)
    OBVIOUS
  <2>5. b \in 1 .. n /\ b < i
    BY <2>3, <2>4, HeadIs DEF LinesOf
  <2>6. \A j \in b + 1 .. n + 1 - 1 : lines[j].keyword \in {"SG_", "empty"}
    BY <2>4, HeadIs
  <2>7. v \in b + 1 .. n + 1 - 1
    BY <2>1, <2>2, <2>3, <2>5
  <2> QED BY <2>1, <2>6, <2>7
<1>2. Since(lines, id, name) = {}
  BY <1>1
<1>3. Labels(lines, id, name) = Nothing
  <2>1. UNION {DOMAIN lines[v].pairs : v \in {}} = {}
    OBVIOUS
  <2> QED BY <1>2, <2>1 DEF Labels, Nothing
<1> QED BY <1>2, <1>3

\* The signals of a message are those it has lines for.
LEMMA NameIs ==
    ASSUME NEW lines, NEW id, NEW name
    PROVE  name \in SignalNames(lines, id) <=> SignalLines(lines, Len(lines), id, name) # {}
BY DEF SignalNames, SignalLines

\* As long as a signal gets no new definition, it is what it was but for its labels.
LEMMA SignalKeeps ==
    ASSUME NEW lines, NEW line, NEW more, NEW n, Grows(lines, line, more, n), NEW id, NEW name,
           SignalLines(lines, n, id, name) # {},
           SignalLines(more, Len(more), id, name) = SignalLines(lines, n, id, name)
    PROVE  SignalMeant(more, id, name) =
              [SignalMeant(lines, id, name) EXCEPT !.labels = Labels(more, id, name)]
<1> DEFINE S == SignalLines(lines, n, id, name)
<1>0. n \in Nat /\ Len(lines) = n /\ \A i \in 1 .. n : more[i] = lines[i]
  BY DEF Grows
<1>1. S \subseteq 1 .. n
  BY LinesGrow DEF SignalLines
<1>2. S # {} /\ SignalLines(more, Len(more), id, name) = S /\ SignalLines(lines, Len(lines), id, name) = S
  BY <1>0
<1> HIDE DEF S
<1>3. Latest(S) \in S
  BY <1>0, <1>1, <1>2, LatestIn
<1>4. more[Latest(S)] = lines[Latest(S)]
  BY <1>0, <1>1, <1>3
<1> QED BY <1>2, <1>4 DEF SignalMeant

\* What a message means is kept by a line of no signal of it ...
LEMMA MessageKeeps ==
    ASSUME NEW lines, NEW line, NEW more, NEW n, Grows(lines, line, more, n), NEW id \in Ids(lines),
           ~(line.keyword = "BO_" /\ line.id = id),
           ~(line.keyword = "SG_" /\ HeadOf(lines, n + 1) = BodyAsOf(lines, n, id)),
           ~(line.keyword = "VAL_" /\ line.id = id /\ SignalLines(lines, n, id, line.name) # {})
    PROVE  MessageMeant(more, id) = MessageMeant(lines, id)
<1>p. PICK p : p = n + 1
  OBVIOUS
<1>0. n \in Nat /\ Len(lines) = n /\ Len(more) = p /\ DOMAIN lines = 1 .. n
      /\ \A i \in 1 .. n : more[i] = lines[i]
  BY <1>p DEF Grows
<1>1. ASSUME NEW name PROVE SignalLines(more, p, id, name) = SignalLines(lines, n, id, name)
  <2>1. ~Gains(lines, line, n, id, name)
    BY DEF Gains
  <2> QED BY <2>1, <1>p, SignalsGrow
<1>2. ASSUME NEW name PROVE Since(more, id, name) = Since(lines, id, name) /\ Since(lines, id, name) \subseteq 1 .. n
  BY SinceGrows
<1>3. ASSUME NEW name PROVE Labels(more, id, name) = Labels(lines, id, name)
  BY <1>2, LabelsGrow
<1>4. ASSUME NEW name \in SignalNames(lines, id) PROVE SignalMeant(more, id, name) = SignalMeant(lines, id, name)
  <2>1. SignalMeant(more, id, name) = [SignalMeant(lines, id, name) EXCEPT !.labels = Labels(more, id, name)]
    BY <1>0, <1>1, NameIs, SignalKeeps
  <2> QED BY <2>1, <1>3 DEF SignalMeant
<1>5. SignalNames(more, id) = SignalNames(lines, id)
  <2>1. ASSUME NEW name PROVE name \in SignalNames(more, id) <=> name \in SignalNames(lines, id)
    BY <1>0, <1>1, NameIs
  <2> QED BY <2>1
<1>6. lines[BodyAsOf(more, p, id)] = lines[BodyAsOf(lines, n, id)] /\ BodyAsOf(more, p, id) \in 1 .. n
  <2>1. BodyAsOf(lines, n, id) \in 1 .. n
    BY <1>0, BodyIs
  <2>2. BodyAsOf(more, p, id) = BodyAsOf(lines, n, id)
    BY <1>p, BodyGrows
  <2> QED BY <2>1, <2>2
<1>7. more[BodyAsOf(more, Len(more), id)].dlc = lines[BodyAsOf(lines, Len(lines), id)].dlc
  BY <1>0, <1>6
<1> QED BY <1>4, <1>5, <1>7 DEF MessageMeant

\* ... a new signal, or a new definition of one, is put among its signals, without labels ...
LEMMA MessageGainsSignal ==
    ASSUME NEW lines, NEW line, NEW more, NEW n, Grows(lines, line, more, n), NEW id \in Ids(lines),
           line.keyword = "SG_", HeadOf(lines, n + 1) = BodyAsOf(lines, n, id)
    PROVE  MessageMeant(more, id) =
              [MessageMeant(lines, id) EXCEPT !.signals =
                 Put(@, line.name, [start |-> line.start, length |-> line.length, labels |-> Nothing])]
<1>p. PICK p : p = n + 1
  OBVIOUS
<1>0. n \in Nat /\ Len(lines) = n /\ Len(more) = p /\ DOMAIN lines = 1 .. n /\ more[p] = line
      /\ \A i \in 1 .. n : more[i] = lines[i]
  BY <1>p DEF Grows
<1>b. BodyAsOf(lines, n, id) \in 1 .. n /\ BodyAsOf(lines, n, id) # 0
  BY <1>0, BodyIs
<1>1. ASSUME NEW name
      PROVE  /\ line.name = name =>
                   SignalLines(more, p, id, name) = SignalLines(lines, n, id, name) \cup {p}
             /\ line.name # name => SignalLines(more, p, id, name) = SignalLines(lines, n, id, name)
             /\ SignalLines(lines, n, id, name) \subseteq 1 .. n
  <2>1. Gains(lines, line, n, id, name) <=> line.name = name
    BY <1>b DEF Gains
  <2>2. SignalLines(lines, n, id, name) \subseteq 1 .. n
    BY LinesGrow DEF SignalLines
  <2> QED BY <2>1, <2>2, <1>p, SignalsGrow
<1>2. ASSUME NEW name PROVE Since(more, id, name) = Since(lines, id, name) /\ Since(lines, id, name) \subseteq 1 .. n
  BY SinceGrows
<1>3. ASSUME NEW name PROVE Labels(more, id, name) = Labels(lines, id, name) /\ Labels(more, id, name) = Nothing
  <2>1. Labels(more, id, name) = Labels(lines, id, name)
    BY <1>2, LabelsGrow
  <2>2. Labels(lines, id, name) = Nothing
    BY <1>0, <1>b, NoLabelsYet
  <2> QED BY <2>1, <2>2
<1>4. ASSUME NEW name \in SignalNames(lines, id), name # line.name
      PROVE SignalMeant(more, id, name) = SignalMeant(lines, id, name)
  <2>1. SignalLines(lines, n, id, name) # {}
    BY <1>0, NameIs
  <2>2. SignalLines(more, Len(more), id, name) = SignalLines(lines, n, id, name)
    BY <1>0, <1>1, <1>4
  <2>3. SignalMeant(more, id, name) = [SignalMeant(lines, id, name) EXCEPT !.labels = Labels(more, id, name)]
    BY <2>1, <2>2, SignalKeeps
  <2> QED BY <2>3, <1>3 DEF SignalMeant
<1>5. SignalNames(more, id) = {line.name} \cup SignalNames(lines, id)
  <2>1. ASSUME NEW name PROVE name \in SignalNames(more, id) <=> name = line.name \/ name \in SignalNames(lines, id)
    <3>1. CASE name = line.name
      <4>1. p \in SignalLines(more, p, id, name)
        BY <3>1, <1>1
      <4> QED BY <3>1, <4>1, <1>0, NameIs
    <3>2. CASE name # line.name
      BY <3>2, <1>0, <1>1, NameIs
    <3> QED BY <3>1, <3>2
  <2> QED BY <2>1
<1>6. SignalMeant(more, id, line.name) = [start |-> line.start, length |-> line.length, labels |-> Nothing]
  <2>1. SignalLines(more, Len(more), id, line.name) = SignalLines(lines, n, id, line.name) \cup {n + 1}
    BY <1>0, <1>1, <1>p
  <2>2. Latest(SignalLines(more, Len(more), id, line.name)) = p
    <3>1. PICK T : T = SignalLines(lines, n, id, line.name)
      OBVIOUS
    <3>2. T \subseteq 1 .. n
      BY <3>1, <1>1
    <3>3. Latest(T \cup {n + 1}) = n + 1
      BY <3>2, <1>0, LatestNew
    <3> QED BY <2>1, <3>1, <3>3, <1>p
  <2> QED BY <2>2, <1>0, <1>3 DEF SignalMeant
<1>7. more[BodyAsOf(more, Len(more), id)].dlc = lines[BodyAsOf(lines, Len(lines), id)].dlc
  <2>1. BodyAsOf(more, p, id) = BodyAsOf(lines, n, id)
    BY <1>p, BodyGrows
  <2> QED BY <2>1, <1>0, <1>b
<1>8. [name \in SignalNames(more, id) |-> SignalMeant(more, id, name)] =
        Put([name \in SignalNames(lines, id) |-> SignalMeant(lines, id, name)], line.name,
            [start |-> line.start, length |-> line.length, labels |-> Nothing])
  <2> DEFINE new == [name \in SignalNames(more, id) |-> SignalMeant(more, id, name)]
             old == [name \in SignalNames(lines, id) |-> SignalMeant(lines, id, name)]
             def == [start |-> line.start, length |-> line.length, labels |-> Nothing]
  <2>1. DOMAIN new = {line.name} \cup DOMAIN old /\ new = [name \in DOMAIN new |-> new[name]]
    BY <1>5
  <2>2. ASSUME NEW name \in DOMAIN new
        PROVE  new[name] = IF name = line.name THEN def ELSE old[name]
    <3> HIDE DEF def
    <3> QED BY <1>4, <1>5, <1>6 DEF def
  <2> HIDE DEF new, old, def
  <2>3. new = [name \in {line.name} \cup DOMAIN old |-> IF name = line.name THEN def ELSE old[name]]
    BY <2>1, <2>2
  <2>4. new = Put(old, line.name, def)
    BY <2>3 DEF Put
  <2> QED BY <2>4 DEF new, old, def
<1> DEFINE dlc == lines[BodyAsOf(lines, Len(lines), id)].dlc
           new == [name \in SignalNames(more, id) |-> SignalMeant(more, id, name)]
           old == [name \in SignalNames(lines, id) |-> SignalMeant(lines, id, name)]
           def == [start |-> line.start, length |-> line.length, labels |-> Nothing]
<1>9. MessageMeant(lines, id) = [dlc |-> dlc, signals |-> old] /\ MessageMeant(more, id) = [dlc |-> dlc, signals |-> new]
  BY <1>7 DEF MessageMeant
<1>10. new = Put(old, line.name, def)
  BY <1>8
<1>11. MessageMeant(more, id) = [MessageMeant(lines, id) EXCEPT !.signals = Put(@, line.name, def)]
  <2> HIDE DEF dlc, new, old, def
  <2> QED BY <1>9, <1>10
<1> QED BY <1>11

\* ... and a VAL_ line of one of its signals adds labels to this one.
LEMMA MessageGainsLabels ==
    ASSUME NEW lines, NEW line, NEW more, NEW n, Grows(lines, line, more, n), NEW id \in Ids(lines),
           line.keyword = "VAL_", line.id = id, SignalLines(lines, n, id, line.name) # {}
    PROVE  /\ line.name \in DOMAIN MessageMeant(lines, id).signals
           /\ MessageMeant(more, id) =
                 [MessageMeant(lines, id) EXCEPT !.signals[line.name].labels = PutAll(@, line.pairs)]
<1>p. PICK p : p = n + 1
  OBVIOUS
<1>0. n \in Nat /\ Len(lines) = n /\ Len(more) = p /\ DOMAIN lines = 1 .. n
      /\ \A i \in 1 .. n : more[i] = lines[i]
  BY <1>p DEF Grows
<1>1. ASSUME NEW name PROVE SignalLines(more, p, id, name) = SignalLines(lines, n, id, name)
  <2>1. ~Gains(lines, line, n, id, name)
    BY DEF Gains
  <2> QED BY <2>1, <1>p, SignalsGrow
<1>2. ASSUME NEW name
      PROVE  /\ Since(more, id, name) =
                   Since(lines, id, name) \cup (IF line.name = name THEN {n + 1} ELSE {})
             /\ Since(lines, id, name) \subseteq 1 .. n
  BY SinceGrows
<1>3. ASSUME NEW name
      PROVE  Labels(more, id, name) =
               IF line.name = name THEN PutAll(Labels(lines, id, name), line.pairs) ELSE Labels(lines, id, name)
  BY <1>2, LabelsGrow
<1>4. ASSUME NEW name \in SignalNames(lines, id)
      PROVE  SignalMeant(more, id, name) =
               IF name = line.name
               THEN [SignalMeant(lines, id, name) EXCEPT !.labels = PutAll(@, line.pairs)]
               ELSE SignalMeant(lines, id, name)
  <2>1. SignalMeant(more, id, name) = [SignalMeant(lines, id, name) EXCEPT !.labels = Labels(more, id, name)]
    BY <1>0, <1>1, NameIs, SignalKeeps
  <2>2. SignalMeant(lines, id, name).labels = Labels(lines, id, name)
        /\ SignalMeant(lines, id, name) = [SignalMeant(lines, id, name) EXCEPT !.labels = Labels(lines, id, name)]
    BY DEF SignalMeant
  <2> QED BY <2>1, <2>2, <1>3
<1>5. SignalNames(more, id) = SignalNames(lines, id) /\ line.name \in SignalNames(lines, id)
  <2>1. ASSUME NEW name PROVE name \in SignalNames(more, id) <=> name \in SignalNames(lines, id)
    BY <1>0, <1>1, NameIs
  <2>2. line.name \in SignalNames(lines, id)
    BY <1>0, NameIs
  <2> QED BY <2>1, <2>2
<1>7. more[BodyAsOf(more, Len(more), id)].dlc = lines[BodyAsOf(lines, Len(lines), id)].dlc
  <2>1. BodyAsOf(more, p, id) = BodyAsOf(lines, n, id)
    BY <1>p, BodyGrows
  <2>2. BodyAsOf(lines, n, id) \in 1 .. n
    BY <1>0, BodyIs
  <2> QED BY <2>1, <2>2, <1>0
<1>8. [name \in SignalNames(more, id) |-> SignalMeant(more, id, name)] =
        [[name \in SignalNames(lines, id) |-> SignalMeant(lines, id, name)]
            EXCEPT ![line.name].labels = PutAll(@, line.pairs)]
  <2> DEFINE new == [name \in SignalNames(more, id) |-> SignalMeant(more, id, name)]
             old == [name \in SignalNames(lines, id) |-> SignalMeant(lines, id, name)]
  <2>1. DOMAIN new = DOMAIN old /\ line.name \in DOMAIN old /\ new = [name \in DOMAIN new |-> new[name]]
    BY <1>5
  <2>2. ASSUME NEW name \in DOMAIN old
        PROVE  new[name] = IF name = line.name
                           THEN [old[name] EXCEPT !.labels = PutAll(@, line.pairs)] ELSE old[name]
    BY <1>4, <1>5
  <2> HIDE DEF new, old
  <2>3. new = [name \in DOMAIN old |-> IF name = line.name
                  THEN [old[name] EXCEPT !.labels = PutAll(@, line.pairs)] ELSE old[name]]
    BY <2>1, <2>2
  <2>4. [old EXCEPT ![line.name].labels = PutAll(@, line.pairs)]
          = [name \in DOMAIN old |-> IF name = line.name
                  THEN [old[name] EXCEPT !.labels = PutAll(@, line.pairs)] ELSE old[name]]
    BY <2>1
  <2> QED BY <2>3, <2>4 DEF new, old
<1> DEFINE dlc == lines[BodyAsOf(lines, Len(lines), id)].dlc
           new == [name \in SignalNames(more, id) |-> SignalMeant(more, id, name)]
           old == [name \in SignalNames(lines, id) |-> SignalMeant(lines, id, name)]
<1>9. MessageMeant(lines, id) = [dlc |-> dlc, signals |-> old] /\ MessageMeant(more, id) = [dlc |-> dlc, signals |-> new]
  BY <1>7 DEF MessageMeant
<1>10. new = [old EXCEPT ![line.name].labels = PutAll(@, line.pairs)] /\ line.name \in DOMAIN old
  BY <1>5, <1>8
<1> HIDE DEF dlc, new, old
<1>11. line.name \in DOMAIN MessageMeant(lines, id).signals
  BY <1>9, <1>10
<1>12. [MessageMeant(lines, id) EXCEPT !.signals[line.name].labels = PutAll(@, line.pairs)]
         = [dlc |-> dlc, signals |-> [old EXCEPT ![line.name].labels = PutAll(@, line.pairs)]]
  BY <1>9
<1> QED BY <1>9, <1>10, <1>11, <1>12

-----------------------------------------------------------------------------
(* What the database is after each line *)

\* What the lines mean if none is wrong, the message that is being read, and that it is
\* the latest of its ID.
Meant(lines) == [id \in Ids(lines) |-> MessageMeant(lines, id)]
Bad(lines) == \E i \in DOMAIN lines : Wrong(lines, i)
Reading(lines) ==
    LET head == HeadOf(lines, Len(lines) + 1)
    IN  IF head = 0 THEN NoMessage ELSE <<lines[head].id>>
LatestRead(lines) ==
    LET head == HeadOf(lines, Len(lines) + 1)
    IN  head # 0 => BodyAsOf(lines, Len(lines), lines[head].id) = head

\* A BO_ line adds its message, every other line none.
LEMMA IdsGrow ==
    ASSUME NEW lines, NEW line, NEW more, NEW n, Grows(lines, line, more, n)
    PROVE  Ids(more) = Ids(lines) \cup (IF line.keyword = "BO_" THEN {line.id} ELSE {})
<1>0. n \in Nat /\ more[n + 1] = line /\ \A i \in 1 .. n : more[i] = lines[i]
  BY DEF Grows
<1>1. LinesOf(lines, "BO_") \subseteq 1 .. n
      /\ LinesOf(more, "BO_") = LinesOf(lines, "BO_") \cup (IF line.keyword = "BO_" THEN {n + 1} ELSE {})
  BY LinesGrow
<1>2. \A h \in LinesOf(lines, "BO_") : more[h] = lines[h]
  BY <1>0, <1>1
<1>3. CASE line.keyword = "BO_"
  <2>1. LinesOf(more, "BO_") = LinesOf(lines, "BO_") \cup {n + 1}
    BY <1>1, <1>3
  <2> QED BY <2>1, <1>0, <1>2, <1>3 DEF Ids
<1>4. CASE line.keyword # "BO_"
  <2>1. LinesOf(more, "BO_") = LinesOf(lines, "BO_")
    BY <1>1, <1>4
  <2> QED BY <2>1, <1>2, <1>4 DEF Ids
<1> QED BY <1>3, <1>4

\* A BO_ line puts a message without signals, over one with its ID.
LEMMA MeantMessage ==
    ASSUME NEW lines, NEW line, NEW more, NEW n, Grows(lines, line, more, n), line.keyword = "BO_"
    PROVE  Meant(more) = Put(Meant(lines), line.id, [dlc |-> line.dlc, signals |-> Nothing])
<1>p. PICK p : p = n + 1
  OBVIOUS
<1>0. Len(more) = p /\ more[p] = line
  BY <1>p DEF Grows
<1>1. MessageMeant(more, line.id) = [dlc |-> line.dlc, signals |-> Nothing]
  <2>1. BodyAsOf(more, p, line.id) = p
    BY <1>p, BodyGrows
  <2>2. \A name : SignalLines(more, p, line.id, name) = {}
    BY <1>p, SignalsGrow
  <2>3. \A name : name \notin SignalNames(more, line.id)
    BY <2>2, <1>0, NameIs
  <2>4. SignalNames(more, line.id) = {}
    BY <2>3
  <2>5. [name \in SignalNames(more, line.id) |-> SignalMeant(more, line.id, name)] = Nothing
    BY <2>4 DEF Nothing
  <2> QED BY <2>1, <2>5, <1>0 DEF MessageMeant
<1>2. ASSUME NEW id \in Ids(lines), id # line.id PROVE MessageMeant(more, id) = MessageMeant(lines, id)
  BY <1>2, MessageKeeps
<1>3. Ids(more) = {line.id} \cup Ids(lines)
  BY IdsGrow
<1> DEFINE new == Meant(more)
           old == Meant(lines)
           def == [dlc |-> line.dlc, signals |-> Nothing]
<1>4. DOMAIN new = {line.id} \cup DOMAIN old /\ new = [id \in DOMAIN new |-> new[id]]
  BY <1>3 DEF Meant
<1>5. ASSUME NEW id \in DOMAIN new PROVE new[id] = IF id = line.id THEN def ELSE old[id]
  <2> HIDE DEF def
  <2> QED BY <1>1, <1>2, <1>3 DEF Meant, def
<1> HIDE DEF new, old, def
<1>6. new = [id \in {line.id} \cup DOMAIN old |-> IF id = line.id THEN def ELSE old[id]]
  BY <1>4, <1>5
<1>7. new = Put(old, line.id, def)
  BY <1>6 DEF Put
<1> QED BY <1>7 DEF new, old, def

\* An SG_ line puts a signal into the message that is being read.
LEMMA MeantSignal ==
    ASSUME NEW lines, NEW line, NEW more, NEW n, Grows(lines, line, more, n), line.keyword = "SG_",
           NEW head, head = HeadOf(lines, n + 1), head # 0, LatestRead(lines)
    PROVE  /\ lines[head].id \in Ids(lines)
           /\ Meant(more) =
                 [Meant(lines) EXCEPT ![lines[head].id].signals =
                    Put(@, line.name, [start |-> line.start, length |-> line.length, labels |-> Nothing])]
<1>0. Len(lines) = n /\ n \in Nat /\ DOMAIN lines = 1 .. n
  BY DEF Grows
<1> DEFINE msg == lines[head].id
           def == [start |-> line.start, length |-> line.length, labels |-> Nothing]
<1>1. head \in LinesOf(lines, "BO_") /\ BodyAsOf(lines, n, msg) = head
  BY <1>0, HeadIs DEF LatestRead
<1>2. msg \in Ids(lines)
  BY <1>1 DEF Ids
<1>3. ASSUME NEW id \in Ids(lines), id # msg PROVE MessageMeant(more, id) = MessageMeant(lines, id)
  <2>1. lines[BodyAsOf(lines, n, id)].id = id
    BY <1>0, BodyIs
  <2>2. BodyAsOf(lines, n, id) # head
    BY <2>1, <1>3
  <2> QED BY <2>2, MessageKeeps
<1>4. MessageMeant(more, msg) = [MessageMeant(lines, msg) EXCEPT !.signals = Put(@, line.name, def)]
  BY <1>1, <1>2, MessageGainsSignal
<1>5. Ids(more) = Ids(lines)
  BY IdsGrow
<1> DEFINE new == Meant(more)
           old == Meant(lines)
<1> HIDE DEF msg, def
<1>6. DOMAIN new = DOMAIN old /\ msg \in DOMAIN old /\ new = [id \in DOMAIN new |-> new[id]]
  BY <1>2, <1>5 DEF Meant
<1>7. ASSUME NEW id \in DOMAIN old
      PROVE  new[id] = IF id = msg THEN [old[id] EXCEPT !.signals = Put(@, line.name, def)] ELSE old[id]
  BY <1>3, <1>4, <1>5 DEF Meant
<1> HIDE DEF new, old
<1>8. new = [id \in DOMAIN old |->
               IF id = msg THEN [old[id] EXCEPT !.signals = Put(@, line.name, def)] ELSE old[id]]
  BY <1>6, <1>7
<1>9. new = [old EXCEPT ![msg].signals = Put(@, line.name, def)]
  BY <1>6, <1>8
<1> QED BY <1>2, <1>9 DEF new, old, msg, def

\* A VAL_ line of a signal that is known puts labels there.
LEMMA MeantLabels ==
    ASSUME NEW lines, NEW line, NEW more, NEW n, Grows(lines, line, more, n), line.keyword = "VAL_",
           SignalLines(lines, n, line.id, line.name) # {}
    PROVE  Meant(more) =
              [Meant(lines) EXCEPT ![line.id].signals[line.name].labels = PutAll(@, line.pairs)]
<1>0. Len(lines) = n /\ n \in Nat /\ DOMAIN lines = 1 .. n
  BY DEF Grows
<1>2. line.id \in Ids(lines)
  <2>1. BodyAsOf(lines, n, line.id) # 0
    BY DEF SignalLines
  <2> QED BY <2>1, <1>0, BodyIs
<1>3. ASSUME NEW id \in Ids(lines), id # line.id PROVE MessageMeant(more, id) = MessageMeant(lines, id)
  BY <1>3, MessageKeeps
<1>4. MessageMeant(more, line.id) =
        [MessageMeant(lines, line.id) EXCEPT !.signals[line.name].labels = PutAll(@, line.pairs)]
  BY <1>2, MessageGainsLabels
<1>5. Ids(more) = Ids(lines)
  BY IdsGrow
<1> DEFINE new == Meant(more)
           old == Meant(lines)
<1>6. DOMAIN new = DOMAIN old /\ line.id \in DOMAIN old /\ new = [id \in DOMAIN new |-> new[id]]
  BY <1>2, <1>5 DEF Meant
<1>7. ASSUME NEW id \in DOMAIN old
      PROVE  new[id] = IF id = line.id
                       THEN [old[id] EXCEPT !.signals[line.name].labels = PutAll(@, line.pairs)] ELSE old[id]
  BY <1>3, <1>4, <1>5 DEF Meant
<1> HIDE DEF new, old
<1>8. new = [id \in DOMAIN old |->
               IF id = line.id
               THEN [old[id] EXCEPT !.signals[line.name].labels = PutAll(@, line.pairs)] ELSE old[id]]
  BY <1>6, <1>7
<1>9. new = [old EXCEPT ![line.id].signals[line.name].labels = PutAll(@, line.pairs)]
  BY <1>6, <1>8
<1> QED BY <1>9 DEF new, old

\* Every other line leaves what there is.
LEMMA MeantKeeps ==
    ASSUME NEW lines, NEW line, NEW more, NEW n, Grows(lines, line, more, n), line.keyword # "BO_",
           ~(line.keyword = "SG_" /\ HeadOf(lines, n + 1) # 0),
           ~(line.keyword = "VAL_" /\ SignalLines(lines, n, line.id, line.name) # {})
    PROVE  Meant(more) = Meant(lines)
<1>0. n \in Nat /\ DOMAIN lines = 1 .. n
  BY DEF Grows
<1>1. ASSUME NEW id \in Ids(lines) PROVE MessageMeant(more, id) = MessageMeant(lines, id)
  <2>1. BodyAsOf(lines, n, id) # 0
    BY <1>0, BodyIs
  <2>2. ~(line.keyword = "SG_" /\ HeadOf(lines, n + 1) = BodyAsOf(lines, n, id))
    BY <2>1
  <2>3. ~(line.keyword = "VAL_" /\ line.id = id /\ SignalLines(lines, n, id, line.name) # {})
    OBVIOUS
  <2> QED BY <2>2, <2>3, MessageKeeps
<1>2. Ids(more) = Ids(lines)
  BY IdsGrow
<1> QED BY <1>1, <1>2 DEF Meant

\* The message being read is the one a BO_ line starts, and none after a VAL_ line or one
\* Parse does not know.
LEMMA ReadingGrows ==
    ASSUME NEW lines, NEW line, NEW more, NEW n, Grows(lines, line, more, n), LatestRead(lines)
    PROVE  /\ LatestRead(more)
           /\ Reading(more) = IF line.keyword = "BO_" THEN <<line.id>>
                              ELSE IF line.keyword \in {"SG_", "empty"} THEN Reading(lines) ELSE NoMessage
<1>p. PICK p : p = n + 1
  OBVIOUS
<1>m. PICK m : m = n + 2
  OBVIOUS
<1>0. Len(more) = p /\ Len(lines) = n /\ more[p] = line /\ n \in Nat /\ Len(more) + 1 = m /\ p # 0
      /\ \A i \in 1 .. n : more[i] = lines[i]
  BY <1>p, <1>m DEF Grows
<1>1. HeadOf(more, m) = IF line.keyword = "BO_" THEN p
                        ELSE IF line.keyword \in {"SG_", "empty"} THEN HeadOf(lines, p) ELSE 0
  BY <1>p, <1>m, HeadsNext
<1>2. \A id : BodyAsOf(more, p, id) =
                 IF line.keyword = "BO_" /\ line.id = id THEN p ELSE BodyAsOf(lines, n, id)
  BY <1>p, BodyGrows
<1>3. HeadOf(lines, p) # 0 =>
        /\ more[HeadOf(lines, p)] = lines[HeadOf(lines, p)]
        /\ BodyAsOf(lines, n, lines[HeadOf(lines, p)].id) = HeadOf(lines, p)
  <2>1. HeadOf(lines, p) # 0 => HeadOf(lines, p) \in 1 .. n
    BY HeadIs, LinesGrow
  <2> QED BY <2>1, <1>0, <1>p DEF LatestRead
<1>4. LatestRead(more) <=> (HeadOf(more, m) # 0 => BodyAsOf(more, p, more[HeadOf(more, m)].id) = HeadOf(more, m))
  BY <1>0 DEF LatestRead
<1>5. Reading(more) = IF HeadOf(more, m) = 0 THEN NoMessage ELSE <<more[HeadOf(more, m)].id>>
  BY <1>0 DEF Reading
<1>6. Reading(lines) = IF HeadOf(lines, p) = 0 THEN NoMessage ELSE <<lines[HeadOf(lines, p)].id>>
  BY <1>0, <1>p DEF Reading
<1>7. CASE line.keyword = "BO_"
  BY <1>7, <1>0, <1>1, <1>2, <1>4, <1>5
<1>8. CASE line.keyword # "BO_" /\ line.keyword \in {"SG_", "empty"}
  BY <1>8, <1>0, <1>1, <1>2, <1>3, <1>4, <1>5, <1>6
<1>9. CASE line.keyword # "BO_" /\ line.keyword \notin {"SG_", "empty"}
  BY <1>9, <1>0, <1>1, <1>4, <1>5
<1> QED BY <1>7, <1>8, <1>9

\* Parse has failed if a line is wrong; else it has what the lines mean so far.
ParseInv ==
    /\ file \in Seq(Lines)
    /\ Bad(file) => state.failed
    /\ ~Bad(file) => state = [db |-> Meant(file), cur |-> Reading(file), failed |-> FALSE]
    /\ LatestRead(file)

\* No lines mean the empty database.
LEMMA ParseStarts == ParseInit => ParseInv
<1> SUFFICES ASSUME ParseInit PROVE ParseInv
  OBVIOUS
<1>1. file = <<>> /\ DOMAIN file = {} /\ Len(file) = 0 /\ file \in Seq(Lines)
  BY DEF ParseInit
<1>2. ~Bad(file)
  BY <1>1 DEF Bad
<1>3. \A k : LinesOf(file, k) = {}
  BY <1>1 DEF LinesOf
<1>4. HeadOf(file, Len(file) + 1) = 0
  BY <1>3 DEF HeadOf, Heads
<1>5. LatestRead(file) /\ Reading(file) = NoMessage
  BY <1>4 DEF LatestRead, Reading
<1>6. Meant(file) = Nothing
  <2>1. Ids(file) = {}
    BY <1>3 DEF Ids
  <2> QED BY <2>1 DEF Meant, Nothing
<1>7. state = [db |-> Nothing, cur |-> NoMessage, failed |-> FALSE]
  BY DEF ParseInit
<1> QED BY <1>1, <1>2, <1>5, <1>6, <1>7 DEF ParseInv

\* A VAL_ line names a signal of the database if its message has a line for it.
LEMMA KnownIs ==
    ASSUME NEW lines, NEW n \in Nat, DOMAIN lines = 1 .. n, Len(lines) = n, NEW id, NEW name
    PROVE  (id \in DOMAIN Meant(lines) /\ name \in DOMAIN Meant(lines)[id].signals)
              <=> SignalLines(lines, n, id, name) # {}
<1>1. DOMAIN Meant(lines) = Ids(lines)
  BY DEF Meant
<1>2. id \in Ids(lines) => DOMAIN Meant(lines)[id].signals = SignalNames(lines, id)
  BY DEF Meant, MessageMeant
<1>3. id \notin Ids(lines) => SignalLines(lines, n, id, name) = {}
  <2>1. id \notin Ids(lines) => BodyAsOf(lines, n, id) = 0
    BY BodyIs
  <2> QED BY <2>1 DEF SignalLines
<1> QED BY <1>1, <1>2, <1>3, NameIs

\* Whatever a line says, Parse goes on to what the file means with it.
LEMMA ParseKeeps ==
    ASSUME ParseInv, NEW line \in Lines, ReadLine(line)
    PROVE  ParseInv'
<1>l. PICK lines : lines = file
  OBVIOUS
<1>m. PICK more : more = Append(lines, line)
  OBVIOUS
<1>n. PICK n : n = Len(lines)
  OBVIOUS
<1>1. file' = more /\ ~state.failed
  BY <1>l, <1>m DEF ReadLine
<1>2. lines \in Seq(Lines)
  BY <1>l DEF ParseInv
<1>3. Grows(lines, line, more, n) /\ more \in Seq(Lines)
  BY <1>2, <1>m, <1>n, FileGrows DEF Grows
<1>4. n \in Nat /\ Len(lines) = n /\ DOMAIN lines = 1 .. n
  BY <1>3 DEF Grows
<1>5. /\ ~Bad(lines) /\ LatestRead(lines)
      /\ state = [db |-> Meant(lines), cur |-> Reading(lines), failed |-> FALSE]
  BY <1>1, <1>l DEF ParseInv
<1>6. state.db = Meant(lines) /\ state.cur = Reading(lines) /\ state.failed = FALSE
  BY <1>5
<1>7. Bad(more) <=> WrongLine(lines, line, n)
  BY <1>3, <1>5, WrongGrows DEF Bad
<1>8. /\ LatestRead(more)
      /\ Reading(more) = IF line.keyword = "BO_" THEN <<line.id>>
                         ELSE IF line.keyword \in {"SG_", "empty"} THEN Reading(lines) ELSE NoMessage
  BY <1>3, <1>5, ReadingGrows
<1> DEFINE Right == [db |-> Meant(more), cur |-> Reading(more), failed |-> FALSE]
<1>9. SUFFICES IF WrongLine(lines, line, n) THEN state'.failed ELSE state' = Right
  <2>1. ASSUME IF WrongLine(lines, line, n) THEN state'.failed ELSE state' = Right
        PROVE  ParseInv'
    <3>1. Bad(file') => state'.failed
      BY <1>1, <1>7, <2>1
    <3>2. ~Bad(file') => state' = [db |-> Meant(file'), cur |-> Reading(file'), failed |-> FALSE]
      BY <1>1, <1>7, <2>1
    <3> QED BY <3>1, <3>2, <1>1, <1>3, <1>8 DEF ParseInv
  <2> QED BY <2>1
<1>10. Fail.failed = TRUE
  BY <1>5 DEF Fail
<1>11. Left = [db |-> Meant(lines), cur |-> NoMessage, failed |-> FALSE]
  <2>1. PICK db : db = Meant(lines)
    OBVIOUS
  <2>2. PICK cur : cur = Reading(lines)
    OBVIOUS
  <2>3. state = [db |-> db, cur |-> cur, failed |-> FALSE]
    BY <2>1, <2>2, <1>5
  <2>4. Left = [[db |-> db, cur |-> cur, failed |-> FALSE] EXCEPT !.cur = NoMessage]
    BY <2>3 DEF Left
  <2>5. Left = [db |-> db, cur |-> NoMessage, failed |-> FALSE]
    BY <2>4
  <2> QED BY <2>1, <2>5
<1>12. CASE line.keyword = "BO_"
  <2>1. state' = ReadBO(line)
    BY <1>12 DEF ReadLine
  <2>2. CASE ~line.proper
    BY <2>1, <2>2, <1>10, <1>12 DEF ReadBO, WrongLine
  <2>3. CASE line.proper
    <3>1. ~WrongLine(lines, line, n)
      BY <2>3, <1>12 DEF WrongLine
    <3>2. Meant(more) = Put(Meant(lines), line.id, [dlc |-> line.dlc, signals |-> Nothing])
      BY <1>3, <1>12, MeantMessage
    <3>3. state' = [state EXCEPT !.db = Put(@, line.id, [dlc |-> line.dlc, signals |-> Nothing]),
                                 !.cur = <<line.id>>]
      BY <2>1, <2>3 DEF ReadBO
    <3>4. Reading(more) = <<line.id>>
      BY <1>8, <1>12
    <3>5. state' = Right
      BY <3>2, <3>3, <3>4, <1>5
    <3> QED BY <3>1, <3>5
  <2> QED BY <2>2, <2>3
<1>13. CASE line.keyword = "SG_"
  <2>h. PICK head : head = HeadOf(lines, n + 1)
    OBVIOUS
  <2>1. state' = ReadSG(line)
    BY <1>13 DEF ReadLine
  <2>2. Reading(more) = Reading(lines)
    BY <1>8, <1>13
  <2>3. Reading(lines) = IF head = 0 THEN NoMessage ELSE <<lines[head].id>>
    BY <2>h, <1>4 DEF Reading
  <2>4. WrongLine(lines, line, n) <=> head # 0 /\ ~Sound(line)
    BY <2>h, <1>13 DEF WrongLine
  <2>5. CASE head = 0
    <3>1. state' = state
      BY <2>1, <2>3, <2>5, <1>6 DEF ReadSG
    <3>2. Meant(more) = Meant(lines)
      BY <2>5, <2>h, <1>3, <1>13, MeantKeeps
    <3>3. state' = Right
      BY <3>1, <3>2, <2>2, <1>5
    <3> QED BY <3>3, <2>4, <2>5
  <2>6. CASE head # 0
    <3>1. state.cur # NoMessage /\ state.cur[1] = lines[head].id
      BY <2>3, <2>6, <1>6 DEF NoMessage
    <3>2. CASE ~Sound(line)
      BY <3>1, <3>2, <2>1, <2>4, <2>6, <1>10 DEF ReadSG
    <3>3. CASE Sound(line)
      <4> DEFINE def == [start |-> line.start, length |-> line.length, labels |-> Nothing]
      <4>1. Meant(more) = [Meant(lines) EXCEPT ![lines[head].id].signals = Put(@, line.name, def)]
        BY <2>h, <2>6, <1>3, <1>5, <1>13, MeantSignal
      <4>2. state' = [state EXCEPT !.db[lines[head].id].signals = Put(@, line.name, def)]
        BY <3>1, <3>3, <2>1 DEF ReadSG
      <4> HIDE DEF def
      <4>3. state' = Right
        BY <4>1, <4>2, <2>2, <1>5
      <4> QED BY <4>3, <3>3, <2>4
    <3> QED BY <3>2, <3>3
  <2> QED BY <2>5, <2>6
<1>14. CASE line.keyword = "VAL_"
  <2> DEFINE known == SignalLines(lines, n, line.id, line.name) # {}
  <2>1. state' = ReadVAL(line)
    BY <1>14 DEF ReadLine
  <2>2. (line.id \in DOMAIN state.db /\ line.name \in DOMAIN state.db[line.id].signals) <=> known
    BY <1>4, <1>6, KnownIs
  <2>3. Reading(more) = NoMessage
    BY <1>8, <1>14
  <2>4. WrongLine(lines, line, n) <=> ~line.proper \/ (~line.readable /\ known)
    BY <1>14 DEF WrongLine
  <2>5. CASE ~line.proper \/ (known /\ ~line.readable)
    BY <2>1, <2>2, <2>4, <2>5, <1>10 DEF ReadVAL
  <2>6. CASE ~(~line.proper \/ (known /\ ~line.readable)) /\ ~known
    <3>1. state' = Left
      BY <2>1, <2>2, <2>6 DEF ReadVAL
    <3>2. Meant(more) = Meant(lines)
      BY <2>6, <1>3, <1>14, MeantKeeps
    <3>3. state' = Right
      BY <3>1, <3>2, <2>3, <1>11
    <3> QED BY <3>3, <2>4, <2>6
  <2>7. CASE ~(~line.proper \/ (known /\ ~line.readable)) /\ known
    <3>1. state' = [Left EXCEPT !.db[line.id].signals[line.name].labels = PutAll(@, line.pairs)]
      BY <2>1, <2>2, <2>7 DEF ReadVAL
    <3>2. Meant(more) = [Meant(lines) EXCEPT ![line.id].signals[line.name].labels = PutAll(@, line.pairs)]
      BY <2>7, <1>3, <1>14, MeantLabels
    <3>3. state' = Right
      BY <3>1, <3>2, <2>3, <1>11
    <3> QED BY <3>3, <2>4, <2>7
  <2> QED BY <2>5, <2>6, <2>7
<1>15. CASE line.keyword \in {"other", "empty"}
  <2>1. ~WrongLine(lines, line, n) /\ Meant(more) = Meant(lines)
    BY <1>3, <1>15, MeantKeeps DEF WrongLine
  <2>2. CASE line.keyword = "other"
    <3>1. state' = Left /\ Reading(more) = NoMessage
      BY <2>2, <1>8 DEF ReadLine
    <3> QED BY <3>1, <2>1, <1>11
  <2>3. CASE line.keyword = "empty"
    <3>1. state' = state /\ Reading(more) = Reading(lines)
      BY <2>3, <1>8 DEF ReadLine
    <3> QED BY <3>1, <2>1, <1>5
  <2> QED BY <2>2, <2>3, <1>15
<1> QED BY <1>12, <1>13, <1>14, <1>15, JourneyAssumption DEF Keywords

\* With the invariant, the database is what the lines mean.
LEMMA ParseTells == ParseInv => ParseMeetsMeaning
<1> SUFFICES ASSUME ParseInv PROVE ParseMeetsMeaning
  OBVIOUS
<1>1. Meaning(file) = IF Bad(file) THEN NoDatabase ELSE Meant(file)
  BY DEF Meaning, Bad, Meant, Ids
<1>2. CASE Bad(file)
  BY <1>1, <1>2 DEF ParseInv, ParseMeetsMeaning, Database
<1>3. CASE ~Bad(file)
  <2>1. state.failed = FALSE /\ state.db = Meant(file)
    BY <1>3 DEF ParseInv
  <2> QED BY <1>1, <1>3, <2>1 DEF ParseMeetsMeaning, Database
<1> QED BY <1>2, <1>3

\* A program that loads a database gets the one its lines mean, or an error when one
\* of them is wrong: whatever the lines and however many.
THEOREM ParseRight == Spec => []ParseMeetsMeaning
<1>1. Init => ParseInv
  BY ParseStarts DEF Init
<1>2. ParseInv /\ [Next]_vars => ParseInv'
  <2> SUFFICES ASSUME ParseInv, [Next]_vars PROVE ParseInv'
    OBVIOUS
  <2>1. ASSUME NEW line \in Lines, LoadFile(line) PROVE ParseInv'
    BY <2>1, ParseKeeps DEF LoadFile
  <2>2. ASSUME UNCHANGED fileVars PROVE ParseInv'
    <3>1. file' = file /\ state' = state
      BY <2>2 DEF fileVars
    <3> QED BY <3>1 DEF ParseInv
  <2>3. (\E n \in unpacked : Pack(n)) => UNCHANGED fileVars
    BY DEF Pack, fileVars
  <2>4. VirtualHop \/ SocketHop \/ ConvertHop \/ RelayHop \/ TapeHop => UNCHANGED fileVars
    BY DEF VirtualHop, SocketHop, ConvertHop, RelayHop, TapeHop, Crosses, fileVars
  <2>5. UNCHANGED vars => UNCHANGED fileVars
    BY DEF vars, fileVars
  <2> QED BY <2>1, <2>2, <2>3, <2>4, <2>5 DEF Next
<1> QED BY <1>1, <1>2, ParseTells, PTL DEF Spec

-----------------------------------------------------------------------------
(* Signals: numbers and their bits *)

\* What holds of 0 and of the next of each number it holds of, holds up to m.
LEMMA Inducts ==
    ASSUME NEW m \in Nat, NEW S, 0 \in S, \A k \in 0 .. m : k # m /\ k \in S => k + 1 \in S
    PROVE  \A k \in 0 .. m : k \in S
<1> DEFINE R == OpToRel(<, Nat)
           T == {k \in 0 .. m : k \notin S}
<1>1. IsWellFoundedOn(R, Nat)
  BY NatLessThanWellFounded
<1>2. \A a, b \in Nat : <<a, b>> \in R <=> a < b
  BY DEF OpToRel
<1> HIDE DEF R
<1> SUFFICES ASSUME T # {} PROVE FALSE
  OBVIOUS
<1>3. PICK x \in T : \A y \in T : <<y, x>> \notin R
  <2>1. T \subseteq Nat
    OBVIOUS
  <2> HIDE DEF T
  <2> QED BY <2>1, <1>1, WFMin
<1>4. x \in 0 .. m /\ x # 0
  OBVIOUS
<1>5. x - 1 \in 0 .. m /\ x - 1 # m /\ x - 1 < x /\ x - 1 \in Nat /\ x \in Nat /\ x - 1 + 1 = x
  BY <1>4
<1>6. x - 1 \notin T
  BY <1>2, <1>3, <1>5
<1>7. x - 1 \in S
  BY <1>5, <1>6
<1>8. x \in S
  BY <1>5, <1>7
<1> QED BY <1>8

\* The powers of two are what their definition says.
LEMMA PowerIs == Power = [k \in 0 .. 64 |-> IF k = 0 THEN 1 ELSE 2 * Power[k - 1]]
<1> DEFINE Powers(f, m) == f = [k \in 0 .. m |-> IF k = 0 THEN 1 ELSE 2 * f[k - 1]]
           S == {m \in 0 .. 64 : \E f : Powers(f, m)}
<1>1. 0 \in S
  <2> DEFINE f == [k \in 0 .. 0 |-> 1]
  <2>1. Powers(f, 0)
    OBVIOUS
  <2> HIDE DEF Powers, f
  <2> QED BY <2>1
<1>2. ASSUME NEW m \in 0 .. 64, m # 64, m \in S PROVE m + 1 \in S
  <2>1. PICK f : Powers(f, m)
    BY <1>2
  <2> DEFINE g == [k \in 0 .. m + 1 |-> IF k = m + 1 THEN 2 * f[m] ELSE f[k]]
  <2>2. \A k \in 0 .. m : f[k] = IF k = 0 THEN 1 ELSE 2 * f[k - 1]
    BY <2>1
  <2>3. ASSUME NEW k \in 0 .. m + 1 PROVE g[k] = IF k = 0 THEN 1 ELSE 2 * g[k - 1]
    <3>1. CASE k = m + 1
      <4>1. k # 0 /\ k - 1 = m /\ m \in 0 .. m + 1 /\ m # m + 1
        BY <3>1
      <4> QED BY <3>1, <4>1
    <3>2. CASE k # m + 1 /\ k # 0
      <4>1. k \in 0 .. m /\ k - 1 \in 0 .. m + 1 /\ k - 1 # m + 1
        BY <3>2
      <4> QED BY <3>2, <4>1, <2>2
    <3>3. CASE k = 0
      BY <3>3, <2>2
    <3> QED BY <3>1, <3>2, <3>3
  <2> HIDE DEF g
  <2>4. g = [k \in 0 .. m + 1 |-> g[k]]
    BY DEF g
  <2>5. Powers(g, m + 1)
    BY <2>3, <2>4
  <2>6. m + 1 \in 0 .. 64
    BY <1>2
  <2> HIDE DEF Powers
  <2> QED BY <2>5, <2>6
<1> HIDE DEF S
<1>3. 64 \in S
  BY <1>1, <1>2, Inducts
<1>4. \E f : Powers(f, 64)
  BY <1>3 DEF S
<1> QED BY <1>4 DEF Power

\* Each is twice the one before.
LEMMA Powers ==
    /\ Power[0] = 1
    /\ \A k \in 0 .. 63 : Power[k + 1] = 2 * Power[k]
    /\ \A k \in 0 .. 64 : Power[k] \in Nat /\ Power[k] >= 1
<1>1. \A k \in 0 .. 64 : Power[k] = IF k = 0 THEN 1 ELSE 2 * Power[k - 1]
  BY PowerIs
<1>2. Power[0] = 1
  BY <1>1
<1>3. ASSUME NEW k \in 0 .. 63 PROVE Power[k + 1] = 2 * Power[k]
  <2>1. k + 1 \in 0 .. 64 /\ k + 1 # 0 /\ k + 1 - 1 = k
    OBVIOUS
  <2> QED BY <2>1, <1>1
<1> DEFINE S == {k \in 0 .. 64 : Power[k] \in Nat /\ Power[k] >= 1}
<1>4. 0 \in S
  BY <1>2
<1>5. ASSUME NEW k \in 0 .. 64, k # 64, k \in S PROVE k + 1 \in S
  <2>1. k \in 0 .. 63 /\ k + 1 \in 0 .. 64
    BY <1>5
  <2> QED BY <2>1, <1>3, <1>5
<1>6. \A k \in 0 .. 64 : k \in S
  <2> HIDE DEF S
  <2> QED BY <1>4, <1>5, Inducts
<1> QED BY <1>2, <1>3, <1>6

\* There is one quotient and one remainder below the divisor.
LEMMA Divided ==
    ASSUME NEW d \in Nat \ {0}, NEW r \in Int
    PROVE  r \div d \in Int /\ r % d \in 0 .. d - 1 /\ r = (d * (r \div d)) + (r % d)
<1>1. r \div d \in Int /\ r % d \in 0 .. d - 1
  OBVIOUS
<1>2. r = (d * (r \div d)) + (r % d)
  OBVIOUS
<1> QED BY <1>1, <1>2

\* What is left over once a multiple of the divisor is taken is the remainder.
LEMMA Remainder ==
    ASSUME NEW d \in Nat \ {0}, NEW q \in Int, NEW c \in 0 .. d - 1, NEW r \in Int, r = (d * q) + c
    PROVE  r % d = c
<1>1. PICK h \in Int : r = (d * h) + (r % d)
  BY Divided
<1>2. PICK a \in 0 .. d - 1 : a = r % d
  BY Divided
<1>3. d * (q - h) = a - c
  <2>1. (d * q) + c = (d * h) + a
    BY <1>1, <1>2
  <2> QED BY <2>1
<1>4. CASE q - h >= 1
  <2>1. d * (q - h) >= d
    BY <1>4
  <2> QED BY <2>1, <1>3
<1>5. CASE q - h <= -1
  <2>1. d * (h - q) >= d
    BY <1>5
  <2>2. d * (h - q) = c - a
    BY <1>3
  <2> QED BY <2>1, <2>2
<1>6. CASE q = h
  BY <1>6, <1>2, <1>3
<1> QED BY <1>4, <1>5, <1>6

\* Half of a number and its last bit.
LEMMA Halves ==
    ASSUME NEW q \in Nat
    PROVE  q \div 2 \in Nat /\ q % 2 \in {0, 1} /\ q = (2 * (q \div 2)) + (q % 2)
OBVIOUS

\* Bit k of a number is what separates its remainders by two neighbouring powers.
LEMMA BitStep ==
    ASSUME NEW r \in Nat, NEW p \in Nat \ {0}
    PROVE  r % (2 * p) = (r % p) + (IF (r \div p) % 2 = 1 THEN p ELSE 0)
<1>1. PICK q : q = r \div p
  OBVIOUS
<1>2. PICK a : a = r % p
  OBVIOUS
<1>3. q \in Nat /\ a \in Nat /\ a < p /\ r = p * q + a
  <2>1. r \div p \in Nat
    OBVIOUS
  <2> QED BY <2>1, <1>1, <1>2, Divided
<1>4. PICK h : h = q \div 2
  OBVIOUS
<1>c. PICK c : c = q % 2
  OBVIOUS
<1>5. h \in Nat /\ c \in {0, 1} /\ q = 2 * h + c
  BY <1>3, <1>4, <1>c, Halves
<1>6. PICK b : b = IF c = 1 THEN p ELSE 0
  OBVIOUS
<1>7. a + b \in 0 .. 2 * p - 1 /\ r = (2 * p) * h + (a + b)
  <2>1. p * q = p * (2 * h) + p * c
    BY <1>5
  <2>2. p * (2 * h) = (2 * p) * h /\ (2 * p) * h \in Int
    BY <1>5
  <2>3. p * c = b
    BY <1>5, <1>6
  <2>4. p * q = (2 * p) * h + b /\ b \in {0, p}
    BY <2>1, <2>2, <2>3, <1>6
  <2> QED BY <2>2, <2>4, <1>3
<1>8. r % (2 * p) = a + b
  <2>1. PICK d : d = 2 * p
    OBVIOUS
  <2>2. PICK e : e = a + b
    OBVIOUS
  <2>3. d \in Nat \ {0} /\ r = (d * h) + e /\ e \in 0 .. d - 1 /\ h \in Int /\ r \in Int
    BY <2>1, <2>2, <1>5, <1>7
  <2>4. r % d = e
    BY <2>3, Remainder
  <2> QED BY <2>1, <2>2, <2>4
<1> QED BY <1>1, <1>2, <1>c, <1>6, <1>8

-----------------------------------------------------------------------------
(* Signals: their positions *)

\* The Motorola numbering is its own inverse, and the walk counts up in it.
LEMMA Motorola ==
    ASSUME NEW p \in Nat
    PROVE  /\ MotorolaIndex(p) \in Nat /\ MotorolaIndex(MotorolaIndex(p)) = p
           /\ Below(p) \in Nat /\ MotorolaIndex(Below(p)) = MotorolaIndex(p) + 1
<1>1. PICK q \in Nat : q = p \div 8
  OBVIOUS
<1>2. PICK a \in 0 .. 7 : a = p % 8 /\ p = 8 * q + a
  BY <1>1
<1>3. MotorolaIndex(p) = 8 * q + 7 - a
  BY <1>1, <1>2 DEF MotorolaIndex
<1>4. PICK m \in Nat : m = 8 * q + 7 - a
  BY <1>2
<1>5. m \div 8 = q /\ m % 8 = 7 - a
  BY <1>4
<1>6. MotorolaIndex(m) = p
  BY <1>2, <1>5 DEF MotorolaIndex
<1>7. CASE a = 0
  <2>1. PICK b \in Nat : b = p + 15 /\ b = 8 * (q + 1) + 7
    BY <1>2, <1>7
  <2>2. b \div 8 = q + 1 /\ b % 8 = 7
    BY <2>1
  <2>3. MotorolaIndex(b) = 8 * (q + 1) + 7 - 7
    BY <2>2 DEF MotorolaIndex
  <2>4. Below(p) = b
    BY <2>1, <1>2, <1>7 DEF Below
  <2> QED BY <2>1, <2>3, <2>4, <1>3, <1>4, <1>6, <1>7
<1>8. CASE a # 0
  <2>1. PICK b \in Nat : b = p - 1 /\ b = 8 * q + (a - 1)
    BY <1>2, <1>8
  <2>2. b \div 8 = q /\ b % 8 = a - 1
    BY <2>1, <1>8
  <2>3. MotorolaIndex(b) = 8 * q + 7 - (a - 1)
    BY <2>2 DEF MotorolaIndex
  <2>4. Below(p) = b
    BY <2>1, <1>2, <1>8 DEF Below
  <2> QED BY <2>1, <2>3, <2>4, <1>3, <1>4, <1>6, <1>8
<1> QED BY <1>7, <1>8

\* The i-th position of a signal by the numbering of its byte order.
At(sig, i) == IF sig.little THEN sig.start + i ELSE MotorolaIndex(MotorolaIndex(sig.start) + i)

\* The code's walk from bit to bit comes by these.
LEMMA WalkIs ==
    ASSUME NEW sig, IsSignal(sig), NEW i \in 0 .. sig.length - 1
    PROVE  Walk(sig)[i] = At(sig, i) /\ At(sig, i) \in Nat
<1> DEFINE m == sig.length - 1
           Step(p) == IF sig.little THEN p + 1 ELSE Below(p)
           Is(f) == f = [j \in 0 .. m |-> IF j = 0 THEN sig.start ELSE Step(f[j - 1])]
           w == [j \in 0 .. m |-> At(sig, j)]
<1>0. sig.start \in Nat /\ m \in Nat /\ sig.little \in BOOLEAN /\ MotorolaIndex(sig.start) \in Nat
  BY Motorola DEF IsSignal
<1>1. \A j \in Nat : At(sig, j) \in Nat /\ At(sig, j + 1) = Step(At(sig, j))
  <2> SUFFICES ASSUME NEW j \in Nat PROVE At(sig, j) \in Nat /\ At(sig, j + 1) = Step(At(sig, j))
    OBVIOUS
  <2>1. CASE sig.little
    BY <2>1, <1>0 DEF At
  <2>2. CASE ~sig.little
    <3>1. PICK k \in Nat : k = MotorolaIndex(sig.start) + j
      BY <1>0
    <3>2. PICK p \in Nat : p = MotorolaIndex(k) /\ MotorolaIndex(p) = k
      BY Motorola
    <3>3. At(sig, j) = p
      BY <2>2, <3>1, <3>2 DEF At
    <3>4. At(sig, j + 1) = MotorolaIndex(k + 1)
      <4>1. MotorolaIndex(sig.start) + (j + 1) = k + 1
        BY <3>1, <1>0
      <4> QED BY <2>2, <4>1 DEF At
    <3>5. Below(p) \in Nat /\ MotorolaIndex(Below(p)) = k + 1 /\ MotorolaIndex(MotorolaIndex(Below(p))) = Below(p)
      BY <3>2, Motorola
    <3>6. At(sig, j + 1) = Below(p)
      BY <3>4, <3>5
    <3> QED BY <2>2, <3>2, <3>3, <3>6
  <2> QED BY <2>1, <2>2
<1>2. At(sig, 0) = sig.start
  BY <1>0, Motorola DEF At
<1> HIDE DEF m, Step
<1>3. Is(w)
  <2>1. ASSUME NEW j \in 0 .. m PROVE w[j] = IF j = 0 THEN sig.start ELSE Step(w[j - 1])
    <3>1. CASE j = 0
      BY <3>1, <1>0, <1>2
    <3>2. CASE j # 0
      <4>1. j - 1 \in 0 .. m /\ j - 1 \in Nat /\ j - 1 + 1 = j
        BY <3>2, <1>0
      <4>2. At(sig, j) = Step(At(sig, j - 1))
        BY <4>1, <1>1
      <4> QED BY <4>1, <4>2, <3>2
    <3> QED BY <3>1, <3>2
  <2>2. w = [j \in 0 .. m |-> w[j]]
    OBVIOUS
  <2> HIDE DEF w
  <2> QED BY <2>1, <2>2
<1>4. Walk(sig) = CHOOSE f : Is(f)
  BY DEF Walk, m, Step
<1>5. Is(Walk(sig))
  <2> HIDE DEF Is, w
  <2> QED BY <1>3, <1>4
<1>6. \A j \in 0 .. m : Walk(sig)[j] = IF j = 0 THEN sig.start ELSE Step(Walk(sig)[j - 1])
  BY <1>5
<1> DEFINE S == {j \in 0 .. m : Walk(sig)[j] = At(sig, j)}
<1>7. 0 \in S
  BY <1>0, <1>2, <1>6
<1>8. ASSUME NEW j \in 0 .. m, j # m, j \in S PROVE j + 1 \in S
  <2>1. j + 1 \in 0 .. m /\ j + 1 # 0 /\ j + 1 - 1 = j /\ j \in Nat
    BY <1>8, <1>0
  <2>2. Walk(sig)[j + 1] = Step(Walk(sig)[j])
    BY <2>1, <1>6
  <2> QED BY <2>1, <2>2, <1>1, <1>8
<1>9. \A j \in 0 .. m : j \in S
  <2> HIDE DEF S
  <2> QED BY <1>0, <1>7, <1>8, Inducts
<1>10. i \in 0 .. m /\ i \in Nat
  BY DEF m
<1> QED BY <1>1, <1>9, <1>10

\* It comes by each position of the signal once, and by no other.
LEMMA PositionsAre ==
    ASSUME NEW sig, IsSignal(sig)
    PROVE  /\ Positions(sig) = {At(sig, i) : i \in 0 .. sig.length - 1}
           /\ \A i, j \in 0 .. sig.length - 1 : At(sig, i) = At(sig, j) => i = j
<1>0. sig.start \in Nat /\ sig.length \in Nat /\ sig.little \in BOOLEAN /\ MotorolaIndex(sig.start) \in Nat
  BY Motorola DEF IsSignal
<1>1. CASE sig.little
  <2>1. \A p : p \in sig.start .. sig.start + sig.length - 1 <=>
               \E i \in 0 .. sig.length - 1 : p = sig.start + i
    <3>1. ASSUME NEW p \in sig.start .. sig.start + sig.length - 1
          PROVE  p - sig.start \in 0 .. sig.length - 1 /\ p = sig.start + (p - sig.start)
      BY <1>0
    <3> QED BY <3>1, <1>0
  <2>2. Positions(sig) = sig.start .. sig.start + sig.length - 1 /\ \A i : At(sig, i) = sig.start + i
    BY <1>1 DEF Positions, At
  <2> QED BY <2>1, <2>2, <1>0
<1>2. CASE ~sig.little
  <2>1. PICK first \in Nat : first = MotorolaIndex(sig.start)
    BY <1>0
  <2>2. Positions(sig) = {MotorolaIndex(k) : k \in first .. first + sig.length - 1}
        /\ \A i : At(sig, i) = MotorolaIndex(first + i)
    BY <1>2, <2>1 DEF Positions, At
  <2>3. \A k : k \in first .. first + sig.length - 1 <=>
               \E i \in 0 .. sig.length - 1 : k = first + i
    <3>1. ASSUME NEW k \in first .. first + sig.length - 1
          PROVE  k - first \in 0 .. sig.length - 1 /\ k = first + (k - first)
      BY <1>0
    <3> QED BY <3>1, <1>0
  <2>4. Positions(sig) = {At(sig, i) : i \in 0 .. sig.length - 1}
    BY <2>2, <2>3
  <2>5. ASSUME NEW i \in 0 .. sig.length - 1, NEW j \in 0 .. sig.length - 1, At(sig, i) = At(sig, j)
        PROVE  i = j
    <3>1. first + i \in Nat /\ first + j \in Nat
      BY <1>0
    <3>2. MotorolaIndex(first + i) = MotorolaIndex(first + j)
      BY <2>2, <2>5
    <3>3. first + i = first + j
      BY <3>1, <3>2, Motorola
    <3> QED BY <3>3, <1>0
  <2> QED BY <2>4, <2>5
<1> QED BY <1>0, <1>1, <1>2

-----------------------------------------------------------------------------
(* Signals: what was packed is extracted *)

\* Bit i of r, counted along the walk.
BitAt(r, sig, i) == (r \div Power[RawBit(sig, i)]) % 2 = 1

\* What is extracted from bits that are those of r is r.
LEMMA ExtractIs ==
    ASSUME NEW sig, IsSignal(sig), NEW r \in Nat, r < Power[sig.length], NEW data,
           \A i \in 0 .. sig.length - 1 : Walk(sig)[i] \in data.bits <=> BitAt(r, sig, i)
    PROVE  ExtractRaw(data, sig) = r
<1> DEFINE m == sig.length
           Add(k) == IF Walk(sig)[k - 1] \in data.bits THEN Power[RawBit(sig, k - 1)] ELSE 0
           Is(f) == f = [k \in 0 .. m |-> IF k = 0 THEN 0 ELSE f[k - 1] + Add(k)]
           Part(k) == IF sig.little THEN r % Power[k] ELSE r - (r % Power[m - k])
           w == [k \in 0 .. m |-> Part(k)]
<1>0. m \in 1 .. 53 /\ m \in Nat /\ sig.little \in BOOLEAN
  BY DEF IsSignal
<1>1. r % 1 = 0 /\ r % Power[m] = r
  <2>1. r = (1 * r) + 0 /\ 1 \in Nat \ {0} /\ 0 \in 0 .. 1 - 1 /\ r \in Int
    OBVIOUS
  <2>2. PICK p : p = Power[m]
    OBVIOUS
  <2>3. p \in Nat \ {0} /\ r < p
    <3>1. m \in 0 .. 64 /\ p = Power[sig.length]
      BY <2>2, <1>0
    <3>2. p \in Nat /\ p >= 1
      BY <3>1, Powers
    <3> QED BY <3>1, <3>2
  <2>4. r = (p * 0) + r /\ r \in 0 .. p - 1 /\ 0 \in Int
    BY <2>3
  <2>5. r % 1 = 0
    BY <2>1, Remainder
  <2>6. r % p = r
    BY <2>3, <2>4, Remainder
  <2> QED BY <2>2, <2>5, <2>6
<1>2. Part(0) = 0 /\ Part(m) = r
  <2>1. CASE sig.little
    BY <2>1, <1>0, <1>1, Powers
  <2>2. CASE ~sig.little
    <3>1. m - 0 = m /\ m - m = 0
      BY <1>0
    <3>2. Part(0) = r - r /\ Part(m) = r - 0
      BY <2>2, <3>1, <1>0, <1>1, Powers
    <3> QED BY <3>2
  <2> QED BY <2>1, <2>2
<1>3. ASSUME NEW k \in 0 .. m, k # m PROVE Part(k + 1) = Part(k) + Add(k + 1)
  <2>0. k \in 0 .. m - 1 /\ k + 1 - 1 = k /\ k \in 0 .. 63 /\ m - 1 - k \in 0 .. 63
    BY <1>0, <1>3
  <2>1. Add(k + 1) = IF BitAt(r, sig, k) THEN Power[RawBit(sig, k)] ELSE 0
    BY <2>0
  <2>2. CASE sig.little
    <3>1. PICK p : p = Power[k]
      OBVIOUS
    <3>2. p \in Nat \ {0} /\ Power[k + 1] = 2 * p
      BY <2>0, <3>1, Powers
    <3>3. r % (2 * p) = (r % p) + (IF (r \div p) % 2 = 1 THEN p ELSE 0)
      BY <3>2, BitStep
    <3>4. RawBit(sig, k) = k
      BY <2>2 DEF RawBit
    <3>5. Add(k + 1) = IF (r \div p) % 2 = 1 THEN p ELSE 0
      BY <2>1, <3>1, <3>4 DEF BitAt
    <3>6. Part(k + 1) = r % (2 * p) /\ Part(k) = r % p
      BY <2>2, <3>1, <3>2
    <3> HIDE DEF Part, Add
    <3> QED BY <3>3, <3>5, <3>6
  <2>3. CASE ~sig.little
    <3>0. PICK j : j = m - 1 - k
      OBVIOUS
    <3>1. PICK p : p = Power[j]
      OBVIOUS
    <3>2. p \in Nat \ {0} /\ Power[j + 1] = 2 * p
      <4>1. j \in 0 .. 63 /\ j \in 0 .. 64
        BY <2>0, <3>0
      <4>2. Power[j] \in Nat /\ Power[j] >= 1
        BY <4>1, Powers
      <4>3. Power[j + 1] = 2 * Power[j]
        BY <4>1, Powers
      <4> QED BY <4>2, <4>3, <3>1
    <3>3. r % (2 * p) = (r % p) + (IF (r \div p) % 2 = 1 THEN p ELSE 0)
      BY <3>2, BitStep
    <3>4. RawBit(sig, k) = j /\ m - k = j + 1 /\ m - (k + 1) = j
      BY <2>3, <2>0, <3>0, <1>0 DEF RawBit
    <3>5. Add(k + 1) = IF (r \div p) % 2 = 1 THEN p ELSE 0
      BY <2>1, <3>1, <3>4 DEF BitAt
    <3>6. Part(k + 1) = r - (r % p) /\ Part(k) = r - (r % (2 * p))
      BY <2>3, <3>1, <3>2, <3>4
    <3>7. PICK a : a = r % p
      OBVIOUS
    <3>8. a \in Int
      BY <3>2, <3>7, Divided
    <3>9. PICK b : b = Add(k + 1)
      OBVIOUS
    <3>10. b \in Int /\ r % (2 * p) = a + b
      BY <3>2, <3>3, <3>5, <3>7, <3>9
    <3> HIDE DEF Part, Add
    <3>11. Part(k + 1) = r - a /\ Part(k) = r - (a + b)
      BY <3>6, <3>7, <3>10
    <3>12. r - a = (r - (a + b)) + b
      BY <3>8, <3>10
    <3> QED BY <3>9, <3>11, <3>12
  <2> QED BY <2>2, <2>3
<1> HIDE DEF Add, Part
<1>4. Is(w)
  <2>1. ASSUME NEW k \in 0 .. m PROVE w[k] = IF k = 0 THEN 0 ELSE w[k - 1] + Add(k)
    <3>1. CASE k = 0
      BY <3>1, <1>2
    <3>2. CASE k # 0
      <4>1. k - 1 \in 0 .. m /\ k - 1 # m /\ k - 1 + 1 = k
        BY <3>2, <1>0
      <4>2. Part(k) = Part(k - 1) + Add(k)
        BY <4>1, <1>3
      <4> QED BY <4>1, <4>2, <3>2
    <3> QED BY <3>1, <3>2
  <2>2. w = [k \in 0 .. m |-> w[k]]
    OBVIOUS
  <2> HIDE DEF w
  <2> QED BY <2>1, <2>2
<1>5. PICK f : f = CHOOSE g : Is(g)
  OBVIOUS
<1>6. Is(f)
  <2> HIDE DEF Is, w
  <2> QED BY <1>4, <1>5
<1>7. ExtractRaw(data, sig) = f[m]
  BY <1>5 DEF ExtractRaw, Add
<1>8. \A k \in 0 .. m : f[k] = IF k = 0 THEN 0 ELSE f[k - 1] + Add(k)
  BY <1>6
<1> DEFINE S == {k \in 0 .. m : f[k] = Part(k)}
<1>9. 0 \in S
  BY <1>0, <1>2, <1>8
<1>10. ASSUME NEW k \in 0 .. m, k # m, k \in S PROVE k + 1 \in S
  <2>1. k + 1 \in 0 .. m /\ k + 1 # 0 /\ k + 1 - 1 = k
    BY <1>10, <1>0
  <2>2. f[k + 1] = f[k] + Add(k + 1)
    BY <2>1, <1>8
  <2> QED BY <2>1, <2>2, <1>3, <1>10
<1>11. \A k \in 0 .. m : k \in S
  <2> HIDE DEF S
  <2> QED BY <1>0, <1>9, <1>10, Inducts
<1> QED BY <1>0, <1>2, <1>7, <1>11

\* The raw value of a number fits the signal, and stands for the nearest the signal has.
LEMMA RawIs ==
    ASSUME NEW sig, IsSignal(sig), NEW v \in Int
    PROVE  LET raw == PhysicalToRaw(v, sig)
           IN  /\ raw \in Nat /\ raw < Power[sig.length]
               /\ (IF sig.signed /\ raw >= Power[sig.length - 1] THEN raw - Power[sig.length] ELSE raw)
                     = Nearest(v, sig)
<1> DEFINE L == Power[sig.length]
           H == Power[sig.length - 1]
<1>0. sig.length \in 0 .. 64 /\ sig.length - 1 \in 0 .. 63 /\ sig.length - 1 + 1 = sig.length /\ sig.signed \in BOOLEAN
  BY DEF IsSignal
<1>1. L = 2 * H /\ H \in Nat /\ H >= 1 /\ L \in Nat \ {0}
  <2>1. H \in Nat /\ H >= 1
    <3>1. sig.length - 1 \in 0 .. 64
      BY <1>0
    <3> QED BY <3>1, Powers
  <2>2. L = 2 * H
    BY <1>0, Powers
  <2> HIDE DEF L, H
  <2> QED BY <2>1, <2>2
<1>2. Least(sig) = (IF sig.signed THEN -H ELSE 0) /\ Greatest(sig) = (IF sig.signed THEN H ELSE L) - 1
  BY DEF Least, Greatest
<1> DEFINE c == IF v < Least(sig) THEN Least(sig) ELSE IF v > Greatest(sig) THEN Greatest(sig) ELSE v
<1>3. PhysicalToRaw(v, sig) = c % L
  <2>0. Least(sig) \in Int /\ Greatest(sig) \in Int /\ Least(sig) <= 0 /\ Greatest(sig) >= 0
    <3> HIDE DEF L, H
    <3> QED BY <1>0, <1>1, <1>2
  <2>1. CASE v < Least(sig)
    <3>1. ~(v > Greatest(sig))
      BY <2>0, <2>1
    <3> QED BY <2>1, <3>1 DEF PhysicalToRaw
  <2>2. CASE ~(v < Least(sig)) /\ v > Greatest(sig)
    BY <2>2 DEF PhysicalToRaw
  <2>3. CASE ~(v < Least(sig)) /\ ~(v > Greatest(sig))
    BY <2>3 DEF PhysicalToRaw
  <2> QED BY <2>1, <2>2, <2>3
<1> HIDE DEF L, H
<1>4. c = Nearest(v, sig) /\ c \in Int /\ c >= Least(sig) /\ c <= Greatest(sig)
  <2>1. Least(sig) \in Int /\ Greatest(sig) \in Int /\ Least(sig) <= 0 /\ Greatest(sig) >= 0
    BY <1>0, <1>1, <1>2
  <2> QED BY <2>1 DEF Nearest
<1> HIDE DEF c
<1>5. PICK raw : raw = PhysicalToRaw(v, sig)
  OBVIOUS
<1>6. CASE c >= 0
  <2>1. c = (L * 0) + c /\ c \in 0 .. L - 1
    BY <1>0, <1>1, <1>2, <1>4, <1>6
  <2>2. c % L = c
    BY <2>1, <1>1, <1>4, Remainder
  <2>3. sig.signed => c < H
    BY <1>1, <1>2, <1>4
  <2> QED BY <2>1, <2>2, <2>3, <1>1, <1>3, <1>4 DEF L, H
<1>7. CASE c < 0
  <2>1. sig.signed /\ c >= -H
    BY <1>0, <1>2, <1>4, <1>7
  <2>2. PICK e : e = c + L
    OBVIOUS
  <2>3. e \in 0 .. L - 1 /\ c = (L * (-1)) + e /\ e >= H /\ e - L = c /\ e \in Nat
    BY <2>1, <2>2, <1>1, <1>4, <1>7
  <2>4. c % L = e
    BY <2>3, <1>1, <1>4, Remainder
  <2>5. raw = e
    BY <2>4, <1>3, <1>5
  <2>6. sig.signed /\ e >= H /\ e - L = Nearest(v, sig) /\ e \in Nat /\ e < L
    BY <2>1, <2>3, <1>1, <1>4
  <2> QED BY <2>5, <2>6, <1>5 DEF L, H
<1> QED BY <1>4, <1>6, <1>7

-----------------------------------------------------------------------------
(* Signals: what DB.Encode has written *)

\* The positions inside the payload where raw has a bit that is 1.
Ones(raw, sig) ==
    {Walk(sig)[i] : i \in {i \in 0 .. sig.length - 1 :
        Inside(Walk(sig)[i], DLC) /\ BitAt(raw, sig, i)}}

\* Those of the signals that are packed.
Written(layout, values, packed) ==
    UNION {Ones(PhysicalToRaw(values[n], layout[n]), layout[n]) : n \in packed}

\* The frame DB.Encode makes holds these bits and no other, and only a whole one is sent.
EncodedInv ==
    load.kind = "dbc" =>
        /\ load.layout \in Layouts /\ load.values \in [DOMAIN load.layout -> Values]
        /\ origin = Frame(MessageID, {}, NoXL,
               [len |-> DLC, bits |-> Written(load.layout, load.values, DOMAIN load.layout \ unpacked)])
        /\ at = "bus" => unpacked = {} /\ WellFormed(origin)

\* packRaw adds the ones of the signal.
LEMMA PackWrites ==
    ASSUME NEW B, NEW raw, NEW sig
    PROVE  PackRaw([len |-> DLC, bits |-> B], raw, sig) = [len |-> DLC, bits |-> B \cup Ones(raw, sig)]
<1> DEFINE d == [len |-> DLC, bits |-> B]
<1>1. d.len = DLC /\ d.bits = B
  OBVIOUS
<1>2. PackRaw(d, raw, sig) = [d EXCEPT !.bits = B \cup Ones(raw, sig)]
  <2> HIDE DEF d
  <2> QED BY <1>1 DEF PackRaw, Ones, BitAt
<1> QED BY <1>2

\* A load of bits a program starts with: nothing is written yet.
LEMMA EncodedStarts == Init => EncodedInv
<1> SUFFICES ASSUME Init, load.kind = "dbc" PROVE EncodedInv
  BY DEF EncodedInv
<1>1. origin = frame /\ at = "app"
  BY DEF Init
<1>a. PICK layout \in Layouts : \E values \in [DOMAIN layout -> Values] : DBCLoad(layout, values)
  BY DEF Init, J1939Load
<1>2. PICK values \in [DOMAIN layout -> Values] : DBCLoad(layout, values)
  BY <1>a
<1>3. /\ load.layout = layout /\ load.values = values /\ unpacked = DOMAIN layout
      /\ origin = Frame(MessageID, {}, NoXL, Bytes(DLC))
  BY <1>1, <1>2 DEF DBCLoad
<1>4. Written(layout, values, DOMAIN layout \ unpacked) = {}
  BY <1>3 DEF Written
<1> QED BY <1>1, <1>3, <1>4 DEF EncodedInv, Bytes

\* Each turn of Encode's loop writes one more signal.
LEMMA EncodedPacks ==
    ASSUME IInv, EncodedInv, NEW n \in unpacked, Pack(n)
    PROVE  EncodedInv'
<1> DEFINE sig == load.layout[n]
           raw == PhysicalToRaw(load.values[n], sig)
           packed == DOMAIN load.layout \ unpacked
           B == Written(load.layout, load.values, packed)
           d == [len |-> DLC, bits |-> B]
           new == [len |-> DLC, bits |-> B \cup Ones(raw, sig)]
<1>1. /\ frame' = [frame EXCEPT !.data = PackRaw(frame.data, raw, sig)] /\ origin' = frame'
      /\ unpacked' = unpacked \ {n} /\ load' = load /\ at' = at
  BY DEF Pack
<1>2. at = "app" /\ frame = origin /\ load.kind = "dbc" /\ n \in DOMAIN load.layout
  BY DEF IInv, OriginInv, TypeOK
<1>3. /\ load.layout \in Layouts /\ load.values \in [DOMAIN load.layout -> Values]
      /\ origin = Frame(MessageID, {}, NoXL, d)
  BY <1>2 DEF EncodedInv
<1>4. PackRaw(d, raw, sig) = new
  BY PackWrites
<1>5. Written(load.layout, load.values, DOMAIN load.layout \ unpacked') = B \cup Ones(raw, sig)
  <2>1. DOMAIN load.layout \ unpacked' = packed \cup {n}
    BY <1>1, <1>2
  <2> HIDE DEF packed
  <2> QED BY <2>1 DEF Written
<1> HIDE DEF d, sig, raw, B
<1>6. frame' = Frame(MessageID, {}, NoXL, new)
  <2>1. frame.data = d
    BY <1>2, <1>3 DEF Frame
  <2>2. frame' = [Frame(MessageID, {}, NoXL, d) EXCEPT !.data = new]
    BY <1>1, <1>2, <1>3, <1>4, <2>1
  <2> HIDE DEF new
  <2> QED BY <2>2 DEF Frame
<1>7. load'.layout \in Layouts /\ load'.values \in [DOMAIN load'.layout -> Values]
  BY <1>1, <1>3
<1>8. origin' = Frame(MessageID, {}, NoXL,
               [len |-> DLC, bits |-> Written(load'.layout, load'.values, DOMAIN load'.layout \ unpacked')])
  BY <1>1, <1>5, <1>6
<1>9. at' # "bus"
  BY <1>1, <1>2
<1> QED BY <1>7, <1>8, <1>9 DEF EncodedInv

\* A bus takes only what is packed, from a program only what ValidateFrame accepts.
LEMMA EncodedCrosses ==
    ASSUME IInv, EncodedInv, NEW f, NEW accepted, NEW carried, Crosses(f, accepted, carried),
           at = "app" /\ accepted => ValidateFrame(frame)
    PROVE  EncodedInv'
<1>1. /\ unpacked = {} /\ unpacked' = unpacked /\ load' = load /\ origin' = origin
      /\ at' = "bus" => accepted
      /\ at # "refused"
  BY DEF Crosses
<1>2. at \in {"app", "bus", "refused"} /\ IsFrame(frame) /\ (at = "app" => frame = origin)
  BY DEF IInv, TypeOK, OriginInv
<1>3. at' = "bus" /\ load.kind = "dbc" => WellFormed(origin)
  <2>1. CASE at = "app"
    BY <2>1, <1>1, <1>2, Validated
  <2>2. CASE at = "bus"
    BY <2>2 DEF EncodedInv
  <2> QED BY <2>1, <2>2, <1>1, <1>2
<1> QED BY <1>1, <1>3 DEF EncodedInv

\* Every step keeps it.
LEMMA EncodedKeeps == IInv /\ EncodedInv /\ [Next]_vars => EncodedInv'
<1> SUFFICES ASSUME IInv, EncodedInv, [Next]_vars PROVE EncodedInv'
  OBVIOUS
<1>1. ASSUME NEW n \in unpacked, Pack(n) PROVE EncodedInv'
  BY <1>1, EncodedPacks
<1>2. ASSUME UNCHANGED <<load, frame, origin, unpacked, hops, at, taped>> PROVE EncodedInv'
  BY <1>2 DEF EncodedInv
<1>3. ASSUME NEW line \in Lines, LoadFile(line) PROVE EncodedInv'
  BY <1>2, <1>3 DEF LoadFile
<1>4. CASE VirtualHop
  BY <1>4, EncodedCrosses DEF VirtualHop
<1>5. CASE SocketHop
  BY <1>5, EncodedCrosses DEF SocketHop
<1>6. CASE ConvertHop
  <2>1. PICK f : Crosses(f, ValidateFrame(frame) /\ ValidateFrame(f), f)
    BY <1>6 DEF ConvertHop
  <2> QED BY <2>1, EncodedCrosses
<1>7. CASE RelayHop
  <2>1. PICK f : at = "bus" /\ Crosses(f, ValidateFrame(f), f)
    BY <1>7 DEF RelayHop
  <2> QED BY <2>1, EncodedCrosses
<1>8. CASE TapeHop
  <2>1. PICK f : at = "bus" /\ Crosses(f, ValidateFrame(f), f)
    BY <1>8 DEF TapeHop
  <2> QED BY <2>1, EncodedCrosses
<1>9. CASE UNCHANGED vars
  BY <1>2, <1>9 DEF vars
<1> QED BY <1>1, <1>3, <1>4, <1>5, <1>6, <1>7, <1>8, <1>9 DEF Next

-----------------------------------------------------------------------------
(* Signals: what a receiver decodes *)

\* The positions of a signal that overlaps no other say the bits of its raw value.
LEMMA CleanBits ==
    ASSUME NEW layout \in Layouts, NEW values, NEW n \in DOMAIN layout,
           Positions(layout[n]) \subseteq 0 .. 8 * DLC - 1,
           \A m \in DOMAIN layout \ {n} : Positions(layout[m]) \cap Positions(layout[n]) = {},
           NEW i \in 0 .. layout[n].length - 1
    PROVE  Walk(layout[n])[i] \in Written(layout, values, DOMAIN layout)
             <=> BitAt(PhysicalToRaw(values[n], layout[n]), layout[n], i)
<1> DEFINE sig == layout[n]
           p == Walk(sig)[i]
           raw(m) == PhysicalToRaw(values[m], layout[m])
<1>1. \A m \in DOMAIN layout : IsSignal(layout[m])
  BY JourneyAssumption
<1>2. \A m \in DOMAIN layout : \A j \in 0 .. layout[m].length - 1 :
          Walk(layout[m])[j] = At(layout[m], j) /\ At(layout[m], j) \in Positions(layout[m])
  BY <1>1, WalkIs, PositionsAre
<1>3. p = At(sig, i) /\ p \in Positions(sig) /\ Inside(p, DLC)
  <2>1. p = At(sig, i) /\ p \in Positions(sig)
    BY <1>2
  <2> HIDE DEF p, sig
  <2>2. p \in 0 .. 8 * DLC - 1
    BY <2>1 DEF sig
  <2>3. DLC \in Nat
    BY Limits
  <2> QED BY <2>1, <2>2, <2>3 DEF Inside
<1>4. ASSUME BitAt(raw(n), sig, i) PROVE p \in Written(layout, values, DOMAIN layout)
  <2>1. p \in Ones(raw(n), sig)
    BY <1>3, <1>4 DEF Ones
  <2> QED BY <2>1 DEF Written
<1>5. ASSUME p \in Written(layout, values, DOMAIN layout) PROVE BitAt(raw(n), sig, i)
  <2>1. PICK m \in DOMAIN layout : p \in Ones(raw(m), layout[m])
    BY <1>5 DEF Written
  <2>2. PICK j \in 0 .. layout[m].length - 1 : p = Walk(layout[m])[j] /\ BitAt(raw(m), layout[m], j)
    BY <2>1 DEF Ones
  <2>3. p \in Positions(layout[m]) /\ p = At(layout[m], j)
    BY <1>2, <2>2
  <2>4. m = n
    BY <1>3, <2>3
  <2>5. j = i
    BY <1>1, <1>3, <2>3, <2>4, PositionsAre
  <2> QED BY <2>2, <2>4, <2>5
<1> QED BY <1>4, <1>5

\* A frame of a database reaches every bus as it was encoded.
LEMMA EncodedArrives ==
    ASSUME IInv, EncodedInv, load.kind = "dbc", at = "bus"
    PROVE  frame.data.bits = Written(load.layout, load.values, DOMAIN load.layout)
<1> DEFINE d == [len |-> DLC, bits |-> Written(load.layout, load.values, DOMAIN load.layout)]
<1>1. origin = Frame(MessageID, {}, NoXL, d) /\ WellFormed(origin)
  <2>1. unpacked = {} /\ DOMAIN load.layout \ {} = DOMAIN load.layout
    BY DEF EncodedInv
  <2> QED BY <2>1 DEF EncodedInv
<1>2. d.bits = Written(load.layout, load.values, DOMAIN load.layout)
  OBVIOUS
<1> HIDE DEF d
<1>3. FlagsOf(origin) = {} /\ origin.addressing = NoXL /\ origin.data = d
  BY <1>1, FlagsAre
<1>5. Kept
  BY <1>1, <1>3 DEF Kept
<1>6. frame.data = origin.data
  <2>1. frame = Told /\ IsFrame(origin)
    BY <1>5, OnItsWay DEF IInv, TypeOK
  <2>2. Retold(origin).data = origin.data
    BY <2>1, FieldsRetold
  <2> QED BY <2>1, <2>2 DEF Told
<1> QED BY <1>2, <1>3, <1>6

\* Whatever a database describes, whatever the values, the order of packing and the way,
\* a receiver decodes of every clean signal its value or the nearest it can hold, and no
\* signal leaves its positions.
THEOREM SignalsArrive == Spec => []SignalsSurvive
<1>1. IInv /\ EncodedInv => SignalsSurvive
  <2> SUFFICES ASSUME IInv, EncodedInv, load.kind = "dbc", at = "bus"
               PROVE  /\ \A n \in DOMAIN load.layout : Clean(n) =>
                            DecodeSignal(frame.data, load.layout[n]) = Nearest(load.values[n], load.layout[n])
                      /\ frame.data.bits \subseteq UNION {Positions(load.layout[n]) : n \in DOMAIN load.layout}
    BY Zenon DEF SignalsSurvive
  <2>1. load.layout \in Layouts /\ load.values \in [DOMAIN load.layout -> Values]
    BY DEF EncodedInv
  <2>2. PICK layout \in Layouts : layout = load.layout
    BY <2>1
  <2>3. PICK values \in [DOMAIN layout -> Values] : values = load.values
    BY <2>1, <2>2
  <2>4. PICK data : data = frame.data
    OBVIOUS
  <2>5. data.bits = Written(layout, values, DOMAIN layout)
    BY <2>2, <2>3, <2>4, EncodedArrives
  <2>6. \A n \in DOMAIN layout : IsSignal(layout[n]) /\ values[n] \in Int
    BY JourneyAssumption DEF IsValue
  <2>7. ASSUME NEW n \in DOMAIN layout, Clean(n)
        PROVE  DecodeSignal(data, layout[n]) = Nearest(values[n], layout[n])
    <3>1. PICK sig : sig = layout[n]
      OBVIOUS
    <3>2. PICK raw : raw = PhysicalToRaw(values[n], sig)
      OBVIOUS
    <3>3. IsSignal(sig) /\ values[n] \in Int
      BY <2>6, <3>1
    <3>4. /\ raw \in Nat /\ raw < Power[sig.length]
          /\ (IF sig.signed /\ raw >= Power[sig.length - 1] THEN raw - Power[sig.length] ELSE raw)
                = Nearest(values[n], sig)
      BY <3>2, <3>3, RawIs
    <3>5. /\ Positions(layout[n]) \subseteq 0 .. 8 * DLC - 1
          /\ \A m \in DOMAIN layout \ {n} : Positions(layout[m]) \cap Positions(layout[n]) = {}
      BY <2>2, <2>7 DEF Clean
    <3>6. ASSUME NEW i \in 0 .. sig.length - 1
          PROVE  Walk(sig)[i] \in data.bits <=> BitAt(raw, sig, i)
      <4>1. Walk(layout[n])[i] \in Written(layout, values, DOMAIN layout)
              <=> BitAt(PhysicalToRaw(values[n], layout[n]), layout[n], i)
        BY <3>1, <3>5, CleanBits
      <4> QED BY <4>1, <2>5, <3>1, <3>2
    <3>7. ExtractRaw(data, sig) = raw
      BY <3>3, <3>4, <3>6, ExtractIs
    <3> QED BY <3>1, <3>4, <3>7 DEF DecodeSignal
  <2>8. ASSUME NEW p \in data.bits
        PROVE  \E n \in DOMAIN layout : p \in Positions(layout[n])
    <3>1. PICK n \in DOMAIN layout : p \in Ones(PhysicalToRaw(values[n], layout[n]), layout[n])
      BY <2>5, <2>8 DEF Written
    <3>2. PICK i \in 0 .. layout[n].length - 1 : p = Walk(layout[n])[i]
      BY <3>1 DEF Ones
    <3>3. p \in Positions(layout[n])
      BY <2>6, <3>2, WalkIs, PositionsAre
    <3> QED BY <3>3
  <2> QED BY <2>2, <2>3, <2>4, <2>7, <2>8
<1>2. Init => IInv /\ EncodedInv
  BY InitHolds, EncodedStarts
<1>3. IInv /\ EncodedInv /\ [Next]_vars => (IInv /\ EncodedInv)'
  BY NextKeeps, EncodedKeeps
<1> QED BY <1>1, <1>2, <1>3, PTL DEF Spec
=============================================================================
