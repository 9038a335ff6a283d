---------------------------- MODULE SignalCodec ----------------------------
(***************************************************************************)
(* dbc/encode.go and dbc/parser.go: signals packed into and extracted from  *)
(* the bits of a payload.  Bit b of byte n is position 8 * n + b; factor is *)
(* 1 and offset 0, so a physical value is a raw integer.                    *)
(* Definitions named Fault... are seeded bugs.                              *)
(***************************************************************************)
EXTENDS Integers

\* 1 << k
Power[k \in 0 .. 64] == IF k = 0 THEN 1 ELSE 2 * Power[k - 1]

\* physicalToRaw: clamped to the signal's range, negative values as two's complement.
Least(sig) == IF sig.signed THEN -Power[sig.length - 1] ELSE 0
Greatest(sig) == Power[IF sig.signed THEN sig.length - 1 ELSE sig.length] - 1
FaultWraps(v, sig) == v % Power[sig.length]
PhysicalToRaw(v, sig) ==
    LET clamped == CASE v < Least(sig) -> Least(sig)
                     [] v > Greatest(sig) -> Greatest(sig)
                     [] OTHER -> v
    IN  clamped % Power[sig.length]

\* A big-endian signal starts at its most significant bit and goes down: through
\* the byte, then on at bit 7 of the next.
Below(p) == IF p % 8 = 0 THEN p + 15 ELSE p - 1
Walk(sig) ==
    LET walk[i \in 0 .. sig.length - 1] ==
            IF i = 0 THEN sig.start
            ELSE IF sig.little THEN walk[i - 1] + 1 ELSE Below(walk[i - 1])
    IN  walk

\* The bit of the raw value at the i-th position of the walk.
RawBit(sig, i) == IF sig.little THEN i ELSE sig.length - 1 - i

\* Positions beyond the payload are passed over.
FaultBeyondEnd(p, len) == TRUE
Inside(p, len) == p < 8 * len

\* packRaw: it sets bits and clears none.
PackRaw(data, raw, sig) ==
    [data EXCEPT !.bits = @ \cup
        {Walk(sig)[i] : i \in {i \in 0 .. sig.length - 1 :
            /\ Inside(Walk(sig)[i], data.len)
            /\ (raw \div Power[RawBit(sig, i)]) % 2 = 1}}]

\* extractRaw: the bit of the raw value at each position that is set.
ExtractRaw(data, sig) ==
    LET raw[k \in 0 .. sig.length] ==
            IF k = 0 THEN 0
            ELSE raw[k - 1] + (IF Walk(sig)[k - 1] \in data.bits THEN Power[RawBit(sig, k - 1)] ELSE 0)
    IN  raw[sig.length]

\* Signal.Decode: sign extension.
DecodeSignal(data, sig) ==
    LET raw == ExtractRaw(data, sig)
    IN  IF sig.signed /\ raw >= Power[sig.length - 1] THEN raw - Power[sig.length] ELSE raw
=============================================================================
