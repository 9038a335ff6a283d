-------------------------------- MODULE IsoTp --------------------------------
(***************************************************************************)
(* isotp/transport.go: ISO 15765-2 segmentation between the two ends of an  *)
(* address pair.  Each end is a Conn: a goroutine in Send, a goroutine in   *)
(* Recv, and the one subscription channel rxCh that both of them read.      *)
(*                                                                         *)
(* A payload is known by its number and its length; a frame carries a       *)
(* segment of it, whose bytes are only counted.  bus.Send puts a frame      *)
(* straight into the peer's rxCh (its inside is VirtualBus), where it is    *)
(* discarded when there is no room (DropNewest).                            *)
(***************************************************************************)
EXTENDS Naturals, Sequences

CONSTANTS
    Ends,       \* the two Conns
    Settings    \* the situations they are put in

\* receivers: ends whose caller calls Recv, again and again
\* foreign:   ends that are no go-CAN Conn: they read and answer as they like
\* lengths:   lengths[e], the payload lengths e's caller hands to Send
\* block:     block[e], Config.BlockSize
\* depth:     capacity of rxCh
\* sns:       how many sequence numbers there are: 16
\* lossy:     frames can be lost on the wire
\* hasty:     timeouts and cancellations can strike at any time; otherwise only
\*            when no frame is on its way and no Send can move
\* retries:   a caller goes on using Send after it has failed
\* closes:    the bus can be closed
\* sends:     bound, payloads per end
MaxPayload == 4095
ASSUME SettingsAssumption ==
    \A g \in Settings :
        /\ g.foreign \subseteq Ends /\ g.receivers \subseteq Ends \ g.foreign
        /\ g.lengths \in [Ends -> SUBSET (1 .. MaxPayload)] /\ g.block \in [Ends -> 0 .. 255]
        /\ g.depth \in Nat \ {0} /\ g.sns \in Nat \ {0, 1} /\ g.sends \in Nat
        /\ g.lossy \in BOOLEAN /\ g.hasty \in BOOLEAN
        /\ g.retries \in BOOLEAN /\ g.closes \in BOOLEAN
ASSUME EndsAssumption == \E e \in Ends : \E p \in Ends \ {e} : Ends = {e, p}

VARIABLES
    setting,    \* one of Settings, chosen at the start
    up,         \* the bus is open
    rx,         \* rx[e]: e's rxCh
    lost,       \* some frame did not reach its rxCh
    tx,         \* tx[e]: Send's pc, len(payload), bytes sent, sn, fc, blockCount
    rv,         \* rv[e]: Recv's pc, length, buf, len(buf), sn, cfInBlock
    payloads,   \* history, payloads[e]: lengths of the payloads e has sent, by number
    result,     \* history, result[e]: how each of these Sends ended
    delivered   \* history, delivered[e]: what the Recvs of e have returned

world == <<setting, up>>
vars == <<world, rx, lost, tx, rv, payloads, result, delivered>>
sendVars == <<tx, payloads, result>>
recvVars == <<rv, delivered>>

Receivers == setting.receivers
Foreign == setting.foreign
Conns == Ends \ Foreign
Peer(e) == CHOOSE p \in Ends : p # e
Least(a, b) == IF a < b THEN a ELSE b

\* A segment: place i of payload n, size bytes of it.
Segment(n, i, size) == [n |-> n, i |-> i, size |-> size]
SF(seg) == [type |-> "SF", seg |-> seg]
FF(seg, length) == [type |-> "FF", seg |-> seg, length |-> length]
CF(seg, sn) == [type |-> "CF", seg |-> seg, sn |-> sn]
FC(status, bs) == [type |-> "FC", status |-> status, bs |-> bs]

\* The segments of payload n of the given length: what a receiver must end up with.
CFCount(length) == length \div 7
Whole(n, length) ==
    IF length <= 7 THEN <<Segment(n, 0, length)>>
    ELSE [j \in 1 .. 1 + CFCount(length) |->
             Segment(n, j - 1, IF j = 1 THEN 6 ELSE Least(7, length - 6 - 7 * (j - 2)))]

\* The local variables of Send and of Recv, before a transfer and after it.
NoSend == [pc |-> "idle", length |-> 0, sent |-> 0, sn |-> 1, fc |-> FC("CTS", 0), block |-> 0]
NoRecv == [pc |-> "first", length |-> 0, buf |-> <<>>, have |-> 0, sn |-> 1, block |-> 0]

Init ==
    /\ setting \in Settings
    /\ up = TRUE /\ lost = FALSE
    /\ rx = [e \in Ends |-> <<>>]
    /\ tx = [e \in Ends |-> NoSend] /\ rv = [e \in Ends |-> NoRecv]
    /\ payloads = [e \in Ends |-> <<>>] /\ result = [e \in Ends |-> <<>>]
    /\ delivered = [e \in Ends |-> <<>>]

-----------------------------------------------------------------------------
(* The bus *)

\* e's bus.Send of f, the channels being q: into the peer's rxCh, or lost.
Put(e, q, f) ==
    /\ up
    /\ \/ /\ Len(q[Peer(e)]) < setting.depth
          /\ rx' = [q EXCEPT ![Peer(e)] = Append(@, f)]
          /\ UNCHANGED lost
       \/ /\ setting.lossy \/ Len(q[Peer(e)]) >= setting.depth
          /\ rx' = q
          /\ lost' = TRUE

Arrived(e, type) == rx[e] # <<>> /\ Head(rx[e]).type = type
Rest(e) == [rx EXCEPT ![e] = Tail(@)]

\* rxCh is closed and read to its end.
AtEOF(e) == ~up /\ rx[e] = <<>>

Close ==
    /\ setting.closes /\ up
    /\ up' = FALSE
    /\ UNCHANGED <<setting, rx, lost, sendVars, recvVars>>

-----------------------------------------------------------------------------
(* Send.  pc: "idle"; "first" waits for the flow control that answers the    *)
(* first frame; "loop" is the head of the loop; "resume" is past the wait it *)
(* starts with; "block" waits at the end of a block.  Definitions named      *)
(* Fault... are seeded bugs no specification uses.                           *)

MaySend(e) ==
    /\ e \in Conns /\ tx[e].pc = "idle"
    /\ setting.lengths[e] # {} /\ Len(payloads[e]) < setting.sends
    /\ setting.retries \/ \A i \in DOMAIN result[e] : result[e][i] # "failed"

Number(e) == Len(payloads[e])
Submit(e, length) == payloads' = [payloads EXCEPT ![e] = Append(@, length)]
Outcome(e, how) == result' = [result EXCEPT ![e] = Append(@, how)]
Returns(e, how) == Outcome(e, how) /\ tx' = [tx EXCEPT ![e] = NoSend]
Continues(e, t) == tx' = [tx EXCEPT ![e] = t] /\ UNCHANGED result

\* bus.Send fails, before anything has been sent.
SendOnClosed(e, length) ==
    /\ MaySend(e) /\ ~up
    /\ Submit(e, length)
    /\ Returns(e, "failed")
    /\ UNCHANGED <<world, rx, lost, recvVars>>

SendSingleFrame(e, length) ==
    /\ MaySend(e) /\ length <= 7
    /\ Submit(e, length)
    /\ Put(e, rx, SF(Segment(Number(e) + 1, 0, length)))
    /\ Returns(e, "ok")
    /\ UNCHANGED <<world, recvVars>>

SendFirstFrame(e, length) ==
    /\ MaySend(e) /\ length > 7
    /\ Submit(e, length)
    /\ Put(e, rx, FF(Segment(Number(e) + 1, 0, 6), length))
    /\ Continues(e, [NoSend EXCEPT !.pc = "first", !.length = length, !.sent = 6])
    /\ UNCHANGED <<world, recvVars>>

\* waitFC has been called and has not returned.
WaitsForFC(e) ==
    \/ tx[e].pc \in {"first", "block"}
    \/ tx[e].pc = "loop" /\ tx[e].fc.status = "Wait"

\* waitFC skips what is no flow control.
SkipToFC(e) ==
    /\ e \in Conns /\ WaitsForFC(e)
    /\ rx[e] # <<>> /\ ~Arrived(e, "FC")
    /\ rx' = Rest(e)
    /\ UNCHANGED <<world, lost, sendVars, recvVars>>

AllSent(e) == tx[e].sent >= tx[e].length

\* The flow control that answers the first frame: only here is Overflow looked at.
FirstFC(e) ==
    /\ e \in Conns /\ tx[e].pc = "first" /\ Arrived(e, "FC")
    /\ rx' = Rest(e)
    /\ IF Head(rx[e]).status = "Overflow" THEN Returns(e, "failed")
       ELSE Continues(e, [tx[e] EXCEPT !.pc = "loop", !.fc = Head(rx[e])])
    /\ UNCHANGED <<world, lost, payloads, recvVars>>

\* The one that follows a Wait: the loop goes on whatever it says.
FCAfterWait(e) ==
    /\ e \in Conns /\ tx[e].pc = "loop" /\ tx[e].fc.status = "Wait" /\ Arrived(e, "FC")
    /\ rx' = Rest(e)
    /\ Continues(e, [tx[e] EXCEPT !.pc = "resume", !.fc = Head(rx[e]), !.block = 0])
    /\ UNCHANGED <<world, lost, payloads, recvVars>>

\* The one that ends a block, awaited even when nothing is left to send.
FCAfterBlock(e) ==
    /\ e \in Conns /\ tx[e].pc = "block" /\ Arrived(e, "FC")
    /\ rx' = Rest(e)
    /\ IF AllSent(e) THEN Returns(e, "ok")
       ELSE Continues(e, [tx[e] EXCEPT !.pc = "loop", !.fc = Head(rx[e]), !.block = 0])
    /\ UNCHANGED <<world, lost, payloads, recvVars>>

FaultBlockIgnored(e) == FALSE
BlockFull(e) == tx[e].fc.bs > 0 /\ tx[e].block + 1 >= tx[e].fc.bs

CanSendCF(e) ==
    \/ tx[e].pc = "resume"
    \/ tx[e].pc = "loop" /\ tx[e].fc.status # "Wait"

NextSN(e) == (tx[e].sn + 1) % setting.sns

SendConsecutiveFrame(e) ==
    LET size == Least(7, tx[e].length - tx[e].sent)
        last == tx[e].sent + size >= tx[e].length
    IN  /\ e \in Conns /\ CanSendCF(e)
        /\ Put(e, rx, CF(Segment(Number(e), (tx[e].sent + 1) \div 7, size), tx[e].sn))
        /\ IF last /\ ~BlockFull(e) THEN Returns(e, "ok")
           ELSE Continues(e, [tx[e] EXCEPT !.pc = IF BlockFull(e) THEN "block" ELSE "loop",
                                           !.sent = @ + size, !.sn = NextSN(e), !.block = @ + 1])
        /\ UNCHANGED <<world, payloads, recvVars>>

\* A timeout is possible now.
Late == setting.hasty \/ \A e \in Ends : rx[e] = <<>> /\ ~CanSendCF(e)

FaultNoTimeout(e) == AtEOF(e)
GivesUp(e) == Late \/ AtEOF(e)

\* waitFC times out, is cancelled or finds its channel closed; or bus.Send fails.
SendFails(e) ==
    /\ e \in Conns
    /\ \/ WaitsForFC(e) /\ GivesUp(e)
       \/ CanSendCF(e) /\ ~up
    /\ Returns(e, "failed")
    /\ UNCHANGED <<world, rx, lost, payloads, recvVars>>

-----------------------------------------------------------------------------
(* Recv, called again as soon as it returns.  pc: "first", "cf". *)

Deliver(e, b) == delivered' = [delivered EXCEPT ![e] = Append(@, b)]
Restart(e) == rv' = [rv EXCEPT ![e] = NoRecv]

RecvSingleFrame(e) ==
    /\ e \in Receivers /\ rv[e].pc = "first" /\ Arrived(e, "SF")
    /\ rx' = Rest(e)
    /\ Deliver(e, <<Head(rx[e]).seg>>)
    /\ UNCHANGED <<world, lost, rv, sendVars>>

\* Anything else: "unexpected frame type".
RecvStray(e) ==
    /\ e \in Receivers /\ rv[e].pc = "first" /\ (Arrived(e, "CF") \/ Arrived(e, "FC"))
    /\ rx' = Rest(e)
    /\ UNCHANGED <<world, lost, recvVars, sendVars>>

\* A first frame is answered with Continue To Send; Recv fails if that fails.
RecvFirstFrame(e) ==
    /\ e \in Receivers /\ rv[e].pc = "first" /\ Arrived(e, "FF") /\ up
    /\ Put(e, Rest(e), FC("CTS", setting.block[e]))
    /\ LET f == Head(rx[e]) IN
       rv' = [rv EXCEPT ![e] = [pc |-> "cf", length |-> f.length, buf |-> <<f.seg>>,
                                have |-> f.seg.size, sn |-> 1, block |-> 0]]
    /\ UNCHANGED <<world, delivered, sendVars>>

RecvFirstFrameOnClosed(e) ==
    /\ e \in Receivers /\ rv[e].pc = "first" /\ Arrived(e, "FF") /\ ~up
    /\ rx' = Rest(e)
    /\ UNCHANGED <<world, lost, recvVars, sendVars>>

\* recvCF skips what is no consecutive frame.
SkipToCF(e) ==
    /\ e \in Receivers /\ rv[e].pc = "cf"
    /\ rx[e] # <<>> /\ ~Arrived(e, "CF")
    /\ rx' = Rest(e)
    /\ UNCHANGED <<world, lost, recvVars, sendVars>>

ExpectedSN(e) == Head(rx[e]).sn = rv[e].sn

RecvWrongSN(e) ==
    /\ e \in Receivers /\ rv[e].pc = "cf" /\ Arrived(e, "CF") /\ ~ExpectedSN(e)
    /\ rx' = Rest(e)
    /\ Restart(e)
    /\ UNCHANGED <<world, lost, delivered, sendVars>>

\* buf with the segment of the consecutive frame, cut to what the message lacks.
Chunk(e) ==
    LET seg == Head(rx[e]).seg
    IN  [seg EXCEPT !.size = Least(@, rv[e].length - rv[e].have)]
Grown(e) == Append(rv[e].buf, Chunk(e))
FaultNeverComplete(e) == rv[e].have + Chunk(e).size > rv[e].length
FaultOneByteShort(e) == rv[e].have + Chunk(e).size + 1 >= rv[e].length
Completes(e) == rv[e].have + Chunk(e).size >= rv[e].length

RecvLast(e) ==
    /\ e \in Receivers /\ rv[e].pc = "cf" /\ Arrived(e, "CF") /\ ExpectedSN(e) /\ Completes(e)
    /\ rx' = Rest(e)
    /\ Deliver(e, Grown(e))
    /\ Restart(e)
    /\ UNCHANGED <<world, lost, sendVars>>

FaultBlockUnanswered(e) == FALSE
BlockReceived(e) == setting.block[e] # 0 /\ rv[e].block + 1 = setting.block[e]

\* More is to come; at the end of a block flow control asks for it.
RecvConsecutiveFrame(e) ==
    /\ e \in Receivers /\ rv[e].pc = "cf" /\ Arrived(e, "CF") /\ ExpectedSN(e) /\ ~Completes(e)
    /\ BlockReceived(e) => up
    /\ rv' = [rv EXCEPT ![e] = [rv[e] EXCEPT
                !.buf = Grown(e), !.have = @ + Chunk(e).size, !.sn = (@ + 1) % setting.sns,
                !.block = IF BlockReceived(e) THEN 0 ELSE @ + 1]]
    /\ IF BlockReceived(e) THEN Put(e, Rest(e), FC("CTS", setting.block[e]))
       ELSE rx' = Rest(e) /\ UNCHANGED lost
    /\ UNCHANGED <<world, delivered, sendVars>>

RecvBlockOnClosed(e) ==
    /\ e \in Receivers /\ rv[e].pc = "cf" /\ Arrived(e, "CF") /\ ExpectedSN(e) /\ ~Completes(e)
    /\ BlockReceived(e) /\ ~up
    /\ rx' = Rest(e)
    /\ Restart(e)
    /\ UNCHANGED <<world, lost, delivered, sendVars>>

\* recvCF times out, is cancelled or finds its channel closed.
RecvFails(e) ==
    /\ e \in Receivers /\ rv[e].pc = "cf" /\ GivesUp(e)
    /\ Restart(e)
    /\ UNCHANGED <<world, rx, lost, delivered, sendVars>>

-----------------------------------------------------------------------------
(* An end that is not a go-CAN Conn *)

ForeignRead(e) ==
    /\ e \in Foreign /\ rx[e] # <<>>
    /\ rx' = Rest(e)
    /\ UNCHANGED <<world, lost, sendVars, recvVars>>

ForeignFC(e) ==
    /\ e \in Foreign
    /\ \E status \in {"CTS", "Wait", "Overflow"} : Put(e, rx, FC(status, setting.block[e]))
    /\ UNCHANGED <<world, sendVars, recvVars>>

\* Every payload is sent and nothing is left to be read.
AllDone ==
    /\ \A e \in Conns : tx[e].pc = "idle" /\ ~MaySend(e)
    /\ \A e \in Receivers : rv[e].pc = "first" /\ rx[e] = <<>>
    /\ UNCHANGED vars

SendCall(e) ==
    \E length \in setting.lengths[e] :
        SendOnClosed(e, length) \/ SendSingleFrame(e, length) \/ SendFirstFrame(e, length)
SendStep(e) ==
    \/ SkipToFC(e) \/ FirstFC(e) \/ FCAfterWait(e) \/ FCAfterBlock(e)
    \/ SendConsecutiveFrame(e) \/ SendFails(e)
RecvStep(e) ==
    \/ RecvSingleFrame(e) \/ RecvStray(e) \/ RecvFirstFrame(e) \/ RecvFirstFrameOnClosed(e)
    \/ SkipToCF(e) \/ RecvWrongSN(e) \/ RecvLast(e) \/ RecvConsecutiveFrame(e)
    \/ RecvBlockOnClosed(e) \/ RecvFails(e)

Next ==
    \/ \E e \in Ends : SendCall(e) \/ SendStep(e) \/ RecvStep(e) \/ ForeignRead(e) \/ ForeignFC(e)
    \/ Close
    \/ AllDone

Spec == Init /\ [][Next]_vars

\* A goroutine that can go on does; nobody is forced to call Send, to answer as a
\* foreign end or to close the bus.
FairSpec == Spec /\ \A e \in Ends : WF_vars(SendStep(e)) /\ WF_vars(RecvStep(e))
-----------------------------------------------------------------------------
(* Properties *)

Segments == [n : Nat, i : Nat, size : 0 .. 7]
FlowControls == [type : {"FC"}, status : {"CTS", "Wait", "Overflow"}, bs : 0 .. 255]
Frames ==
    [type : {"SF"}, seg : Segments] \cup [type : {"FF"}, seg : Segments, length : 8 .. MaxPayload]
    \cup [type : {"CF"}, seg : Segments, sn : 0 .. setting.sns - 1]
    \cup FlowControls

SendStates ==
    [pc : {"idle", "first", "loop", "resume", "block"},
     length : 0 .. MaxPayload, sent : 0 .. MaxPayload, sn : 0 .. setting.sns - 1,
     fc : FlowControls, block : 0 .. MaxPayload]
RecvStates ==
    [pc : {"first", "cf"}, length : 0 .. MaxPayload, buf : Seq(Segments), have : 0 .. MaxPayload,
     sn : 0 .. setting.sns - 1, block : 0 .. MaxPayload]

\* Every variable has its type; Send never overshoots its payload, and what Recv
\* has gathered is always short of the declared length.
TypeOK ==
    /\ setting \in Settings
    /\ up \in BOOLEAN /\ lost \in BOOLEAN
    /\ rx \in [Ends -> Seq(Frames)] /\ \A e \in Ends : Len(rx[e]) <= setting.depth
    /\ tx \in [Ends -> SendStates] /\ rv \in [Ends -> RecvStates]
    /\ \A e \in Ends : tx[e].sent <= tx[e].length
    /\ \A e \in Ends : tx[e].pc \in {"first", "loop", "resume"} => ~AllSent(e)
    /\ \A e \in Ends : rv[e].pc = "cf" => rv[e].have < rv[e].length
    /\ payloads \in [Ends -> Seq(1 .. MaxPayload)]
    /\ result \in [Ends -> Seq({"ok", "failed"})]
    /\ delivered \in [Ends -> Seq(Seq(Segments))]

\* The number of p's payload that b is, 0 if b is none of them.
Identity(p, b) ==
    IF \E n \in DOMAIN payloads[p] : b = Whole(n, payloads[p][n])
    THEN CHOOSE n \in DOMAIN payloads[p] : b = Whole(n, payloads[p][n])
    ELSE 0

\* Seen from its callers a Conn is a channel that may lose a message but never
\* delivers a part of one, a mixture of two, one twice or two out of order,
\* whatever is lost, late or read by the wrong goroutine - as long as a caller
\* stops sending when Send has failed (Recv, transport.go:202, REQ-ISOTP-011).
\* Nothing is claimed of a caller that retries.
Claimed(h, nothing) == IF setting.retries THEN nothing ELSE h
Channel == INSTANCE MessageChannel WITH
    sent <- [e \in Ends |-> Claimed(Len(payloads[e]), 0)],
    received <- [e \in Ends |-> Claimed(
        [j \in DOMAIN delivered[Peer(e)] |-> Identity(e, delivered[Peer(e)][j])], <<>>)]
ImplementsChannel == Channel!ChSpec

\* "Recv reassembles and returns the next ISO-TP message" (transport.go:202):
\* what it returns is one message its peer sent, whole.
DeliversWhole ==
    \A e \in Ends : \A j \in DOMAIN delivered[e] : Identity(Peer(e), delivered[e][j]) # 0

\* Nothing is lost on the wire, nobody gives up early, and no Conn is used by a
\* sender and a receiver at once.
Undisturbed ==
    /\ ~setting.lossy /\ ~setting.hasty /\ ~setting.closes /\ Foreign = {}
    /\ \A e \in Ends : setting.lengths[e] # {} => e \notin Receivers /\ Peer(e) \in Receivers

\* Block-size flow control keeps the transfer inside the subscription channel:
\* on a bus that loses nothing, no frame finds rxCh full (REQ-ISOTP-008).
NoOverrun == Undisturbed => ~lost

\* With a peer in Recv, a bus that loses nothing and timeouts no earlier than
\* they must, no Send fails.
NoSendFails == Undisturbed => \A e \in Ends : \A i \in DOMAIN result[e] : result[e][i] # "failed"

\* Under the same conditions every payload handed to Send arrives and its Send
\* says so, also when the sequence number wraps around.
NothingOutstanding ==
    \A e \in Ends : \A n \in DOMAIN payloads[e] :
        /\ n \in DOMAIN result[e] /\ result[e][n] = "ok"
        /\ \E j \in DOMAIN delivered[Peer(e)] : Identity(e, delivered[Peer(e)][j]) = n
AllArrive == Undisturbed ~> NothingOutstanding

\* A transfer always comes to an end: no Send stays in its waits for ever.
SendEnds == \A e \in Ends : tx[e].pc # "idle" ~> tx[e].pc = "idle"
=============================================================================
