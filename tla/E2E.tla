--------------------------------- MODULE E2E ---------------------------------
(***************************************************************************)
(* safety/e2e.go: the end-to-end protection of payloads.  A Protector       *)
(* numbers what it protects, any goroutine using it; a Receiver checks the  *)
(* CRC outside its lock and the number inside.  A message is known by its   *)
(* place in the numbering; of the CRC only matters that it fits the         *)
(* Receiver's Config and the content, which is assumed when no fault has    *)
(* struck.                                                                  *)
(***************************************************************************)
EXTENDS Integers, Sequences, SequencesExt

CONSTANTS
    Modulus,    \* how many sequence counters there are: 2^32
    Checkers,   \* goroutines that call Unwrap on the one Receiver
    NoMessage,
    Start,      \* how many payloads were protected before
    MaxProtect, \* bound: calls of Protect, those included
    MaxFaults   \* bound: what goes wrong on the wire

ASSUME E2EAssumption ==
    /\ Modulus \in Nat \ {0}
    /\ NoMessage \notin Nat
    /\ MaxProtect \in Nat /\ Start \in 0 .. MaxProtect /\ MaxFaults \in Nat

VARIABLES
    count,      \* how many payloads the Protector has numbered
    wire,       \* what is on its way to the Receiver
    faults,     \* what went wrong so far
    first, lastSeq,     \* the Receiver
    checking,   \* checking[c]: the message whose CRC c has passed
    latest      \* history: how the last Unwrap ended, and the last message before it
                \* that passed the CRC

e2eVars == <<count, wire, faults, first, lastSeq, checking, latest>>

E2EInit ==
    /\ count = Start /\ wire = <<>> /\ faults = 0
    /\ first = TRUE /\ lastSeq = 0
    /\ checking = [c \in Checkers |-> NoMessage]
    /\ latest = [kind |-> "none", n |-> 0, before |-> NoMessage]

\* A payload with its header; one without is too short to hold it.
FaultNoWrap(n) == [n |-> n, seq |-> n, sound |-> TRUE]
Header(n) == [n |-> n, seq |-> n % Modulus, sound |-> TRUE]
Unprotected == <<>>

\* p.seq.Add(1) - 1, then the header is built from that number alone.
Protect(n) ==
    /\ n = count /\ count < MaxProtect
    /\ count' = count + 1
    /\ UNCHANGED <<wire, faults, first, lastSeq, checking, latest>>

\* A message on the wire arrives in its turn; or it is lost, or damaged (or of another
\* Config), or something that is on the wire comes a second time after it.
Deliver(m) == wire' = Append(wire, m) /\ UNCHANGED faults
Disturb(m) ==
    /\ faults < MaxFaults /\ faults' = faults + 1
    /\ \/ wire' = wire
       \/ m # Unprotected /\ wire' = Append(wire, [m EXCEPT !.sound = FALSE])
       \/ \E again \in ToSet(Append(wire, m)) : wire' = wire \o <<m, again>>
Transmit(m) ==
    /\ Deliver(m) \/ Disturb(m)
    /\ UNCHANGED <<count, first, lastSeq, checking, latest>>

\* The Unwrap of m ends.  Errors before the sequence check leave no trace.
LastHeard == IF latest.kind = "none" THEN NoMessage ELSE latest.n
Conclude(kind, m) == latest' = [kind |-> kind, n |-> m.n, before |-> LastHeard]

UnwrapShort(c) ==
    /\ checking[c] = NoMessage /\ wire # <<>> /\ Head(wire) = Unprotected
    /\ wire' = Tail(wire)
    /\ UNCHANGED <<count, faults, first, lastSeq, checking, latest>>

UnwrapCRCMismatch(c) ==
    /\ checking[c] = NoMessage /\ wire # <<>> /\ Head(wire) # Unprotected /\ ~Head(wire).sound
    /\ wire' = Tail(wire)
    /\ UNCHANGED <<count, faults, first, lastSeq, checking, latest>>

UnwrapCRCMatch(c) ==
    /\ checking[c] = NoMessage /\ wire # <<>> /\ Head(wire) # Unprotected /\ Head(wire).sound
    /\ wire' = Tail(wire)
    /\ checking' = [checking EXCEPT ![c] = Head(wire)]
    /\ UNCHANGED <<count, faults, first, lastSeq, latest>>

InSequence(m) == first \/ m.seq = (lastSeq + 1) % Modulus
FaultNoResync(m) == lastSeq
LastOnGap(m) == m.seq

UnwrapGap(c) ==
    /\ checking[c] # NoMessage /\ ~InSequence(checking[c])
    /\ lastSeq' = LastOnGap(checking[c])
    /\ Conclude("gap", checking[c])
    /\ checking' = [checking EXCEPT ![c] = NoMessage]
    /\ UNCHANGED <<count, wire, faults, first>>

UnwrapOk(c) ==
    /\ checking[c] # NoMessage /\ InSequence(checking[c])
    /\ first' = FALSE /\ lastSeq' = checking[c].seq
    /\ Conclude("ok", checking[c])
    /\ checking' = [checking EXCEPT ![c] = NoMessage]
    /\ UNCHANGED <<count, wire, faults>>

Unwrap ==
    \E c \in Checkers :
        UnwrapShort(c) \/ UnwrapCRCMismatch(c) \/ UnwrapCRCMatch(c) \/ UnwrapGap(c) \/ UnwrapOk(c)

\* The protection on its own: what is transmitted may be anything protected so far.
E2ENext ==
    \/ \E n \in Nat : Protect(n)
    \/ Transmit(Unprotected) \/ \E n \in Start .. count - 1 : Transmit(Header(n))
    \/ Unwrap
E2ESpec == E2EInit /\ [][E2ENext]_e2eVars

\* A sequence error is reported exactly where the message before it was not the one
\* protected before it, whatever is lost, repeated, damaged or overtaken, however many
\* errors came before (one hole costs one error), and across the wrap of the counter
\* (REQ-SAFETY-009, REQ-SAFETY-010): only a jump by a whole cycle goes unnoticed.
GapsExact ==
    latest.kind # "none" =>
        (latest.kind = "ok" <=>
            latest.before = NoMessage \/ (latest.n - latest.before - 1) % Modulus = 0)
=============================================================================
