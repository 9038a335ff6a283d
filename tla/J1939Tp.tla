------------------------------- MODULE J1939Tp -------------------------------
(***************************************************************************)
(* j1939/tp.go: broadcast messages of several packets.  SendTP announces a  *)
(* message (TP.CM_BAM) and sends its packets (TP.DT) one by one; the        *)
(* goroutine of SubscribeTP reassembles them, one session per source        *)
(* address.  The frames pass through its raw subscription (see VirtualBus). *)
(***************************************************************************)
EXTENDS Naturals, Sequences, FiniteSets

CONSTANTS
    Senders,    \* goroutines that call SendTP, one message after the other
    Addressings,    \* who sends from which source address: functions of Senders
    PGNs,       \* parameter groups
    Wanted,     \* those SubscribeTP was asked for
    Messages,   \* Messages[g]: what g may send, each a number of packets (SendTP:
                \* 2 .. 255) and a parameter group
    RawDepth,   \* capacity of the raw subscription
    OutDepth,   \* capacity of the channel SubscribeTP returns
    MaxSends    \* bound: MaxSends[g] messages of g

ASSUME ConfigAssumption ==
    /\ \A a \in Addressings : DOMAIN a = Senders
    /\ Wanted \subseteq PGNs
    /\ DOMAIN Messages = Senders
    /\ \A g \in Senders : Messages[g] \subseteq [packets : 2 .. 255, pgn : PGNs]
    /\ RawDepth \in Nat \ {0} /\ OutDepth \in Nat \ {0}
    /\ MaxSends \in [Senders -> Nat]

VARIABLES
    addr,       \* addr[g]: the source address of the j1939.Bus g sends on
    up,         \* the CAN bus is open
    raw,        \* the raw subscription
    at,         \* at[g]: the packet g sends next, 0 when it is not in SendTP
    messages,   \* history, messages[g]: packets and PGN of each message of g ...
    unannounced,    \* ... and those <<g, n>> whose announcement was lost
    sessions,   \* sessions[a]: the reassembly under way for address a, <<>> if none
    loop,       \* SubscribeTP's goroutine: "new", "select", "emit" or "exited"
    assembled,  \* the frame it is about to deliver
    out,        \* the channel SubscribeTP returned
    cancelled,  \* SubscribeTP's context is cancelled
    emitted,    \* history: every frame put on out ...
    received    \* ... and the numbers of g's messages among them, see Deliver

sendVars == <<at, messages, unannounced>>
historyVars == <<emitted, received>>
loopVars == <<sessions, loop, assembled, out, historyVars>>
vars == <<addr, up, raw, sendVars, loopVars, cancelled>>

Addresses == {addr[g] : g \in Senders}

\* msg is history: the message it announces, by its sender and number.
BAM(a, m, msg) ==
    [type |-> "BAM", src |-> a, packets |-> m.packets, pgn |-> m.pgn, msg |-> msg]
DT(a, seq, piece) == [type |-> "DT", src |-> a, seq |-> seq, piece |-> piece]
\* Packet i of message n of g; Blank is a stretch of the buffer nobody has filled.
Piece(g, n, i) == <<g, n, i>>
Blank == <<>>

Init ==
    /\ addr \in Addressings
    /\ up = TRUE /\ raw = <<>> /\ cancelled = FALSE
    /\ at = [g \in Senders |-> 0] /\ messages = [g \in Senders |-> <<>>]
    /\ unannounced = {}
    /\ sessions = [a \in Addresses |-> <<>>]
    /\ loop = "new" /\ assembled = <<>> /\ out = <<>>
    /\ emitted = <<>> /\ received = [g \in Senders |-> <<>>]

-----------------------------------------------------------------------------
(* SendTP.  Definitions named Fault... are seeded bugs. *)

Number(g) == Len(messages[g])
Current(g) == messages[g][Number(g)]

\* can.Send of f reaches the raw subscription, if there is one yet; or f is lost, on the
\* wire or because the subscription is full.
Reaches(f) == up /\ loop # "new" /\ Len(raw) < RawDepth /\ raw' = Append(raw, f)
Lost == up /\ UNCHANGED raw

SendAnnounce(g, m) ==
    /\ at[g] = 0 /\ Number(g) < MaxSends[g]
    /\ \/ Reaches(BAM(addr[g], m, <<g, Number(g) + 1>>)) /\ UNCHANGED unannounced
       \/ Lost /\ unannounced' = unannounced \cup {<<g, Number(g) + 1>>}
    /\ messages' = [messages EXCEPT ![g] = Append(@, m)]
    /\ at' = [at EXCEPT ![g] = 1]
    /\ UNCHANGED <<addr, up, loopVars, cancelled>>

Seq1(g) == at[g]

SendPacket(g) ==
    /\ at[g] > 0
    /\ Reaches(DT(addr[g], Seq1(g), Piece(g, Number(g), at[g]))) \/ Lost
    /\ at' = [at EXCEPT ![g] = IF @ = Current(g).packets THEN 0 ELSE @ + 1]
    /\ UNCHANGED <<addr, up, messages, unannounced, loopVars, cancelled>>

\* can.Send fails, or ctx is cancelled in the delay before a packet but the first.
SendStops(g) ==
    /\ at[g] > 0 /\ (at[g] > 1 \/ ~up)
    /\ at' = [at EXCEPT ![g] = 0]
    /\ UNCHANGED <<addr, up, raw, messages, unannounced, loopVars, cancelled>>

Close ==
    /\ up
    /\ up' = FALSE
    /\ UNCHANGED <<addr, raw, sendVars, loopVars, cancelled>>

-----------------------------------------------------------------------------
(* SubscribeTP's goroutine *)

\* The call of SubscribeTP, which may come in the middle of a transfer.
SubscribeTP ==
    /\ loop = "new" /\ up
    /\ loop' = "select"
    /\ UNCHANGED <<addr, up, raw, sendVars, sessions, assembled, out, historyVars, cancelled>>

Arrived(type) == loop = "select" /\ raw # <<>> /\ Head(raw).type = type
Session == sessions[Head(raw).src]

\* A new announcement replaces the session of its source.
FaultSessionKept == Session # <<>>
Ignored == FALSE

RecvAnnounce ==
    /\ Arrived("BAM")
    /\ raw' = Tail(raw)
    /\ LET f == Head(raw) IN
       sessions' = IF Ignored THEN sessions
                   ELSE [sessions EXCEPT ![f.src] =
                            <<[packets |-> f.packets, pgn |-> f.pgn, msg |-> f.msg,
                               buf |-> [i \in 1 .. f.packets |-> Blank], seen |-> {}]>>]
    /\ UNCHANGED <<addr, up, sendVars, loop, assembled, out, historyVars, cancelled>>

\* There is a session, the packet is one of its packets and has not been seen.
Fits ==
    /\ Session # <<>>
    /\ Head(raw).seq \in 1 .. Session[1].packets
    /\ Head(raw).seq \notin Session[1].seen

Filled ==
    LET f == Head(raw)
    IN  [Session[1] EXCEPT !.buf[f.seq] = f.piece, !.seen = @ \cup {f.seq}]
FaultOneTooMany(s) == Cardinality(s.seen) > s.packets
FaultOneMissing(s) == Cardinality(s.seen) >= s.packets - 1
Complete(s) == Cardinality(s.seen) = s.packets
Matches(s) == s.pgn \in Wanted

RecvSkip ==
    /\ Arrived("DT") /\ ~Fits
    /\ raw' = Tail(raw)
    /\ UNCHANGED <<addr, up, sendVars, loopVars, cancelled>>

RecvPacket ==
    /\ Arrived("DT") /\ Fits /\ ~Complete(Filled)
    /\ raw' = Tail(raw)
    /\ sessions' = [sessions EXCEPT ![Head(raw).src] = <<Filled>>]
    /\ UNCHANGED <<addr, up, sendVars, loop, assembled, out, historyVars, cancelled>>

\* The last packet ends the session; the frame is delivered if it was asked for.
RecvLastPacket ==
    /\ Arrived("DT") /\ Fits /\ Complete(Filled)
    /\ raw' = Tail(raw)
    /\ sessions' = [sessions EXCEPT ![Head(raw).src] = <<>>]
    /\ IF Matches(Filled)
       THEN /\ loop' = "emit"
            /\ assembled' = <<[src |-> Head(raw).src, pgn |-> Filled.pgn, buf |-> Filled.buf]>>
       ELSE UNCHANGED <<loop, assembled>>
    /\ UNCHANGED <<addr, up, sendVars, out, historyVars, cancelled>>

\* The number of g's message that the assembled frame f is, 0 if it is none.
Identity(g, f) ==
    LET Is(n) == /\ f.pgn = messages[g][n].pgn
                 /\ f.buf = [i \in 1 .. messages[g][n].packets |-> Piece(g, n, i)]
    IN  IF \E n \in DOMAIN messages[g] : Is(n)
        THEN CHOOSE n \in DOMAIN messages[g] : Is(n) ELSE 0

\* A frame nothing can have confused: its address is used by one goroutine only, and
\* it has no part of a message whose announcement was lost.
Sure(g, f) ==
    /\ f.src = addr[g] /\ \A h \in Senders : addr[h] = addr[g] => h = g
    /\ \A i \in DOMAIN f.buf : f.buf[i] = Blank \/ <<f.buf[i][1], f.buf[i][2]>> \notin unannounced

\* Of each source, the messages consumers get that nothing can have confused.
Deliver(f) ==
    /\ emitted' = Append(emitted, f)
    /\ received' = [g \in Senders |->
          IF Sure(g, f) THEN Append(received[g], Identity(g, f)) ELSE received[g]]

Emit ==
    /\ loop = "emit" /\ Len(out) < OutDepth
    /\ out' = Append(out, assembled[1]) /\ Deliver(assembled[1])
    /\ assembled' = <<>>
    /\ loop' = "select"
    /\ UNCHANGED <<addr, up, raw, sendVars, sessions, cancelled>>

\* ctx.Done() is a case of both selects.
FaultEmitIgnoresCtx == loop = "select" /\ cancelled
CtxDone == cancelled
RxCancelled ==
    /\ loop \in {"select", "emit"} /\ CtxDone
    /\ loop' = "exited"
    /\ UNCHANGED <<addr, up, raw, sendVars, sessions, assembled, out, historyVars, cancelled>>

\* raw is closed and read to its end.
RxClosed ==
    /\ loop = "select" /\ ~up /\ raw = <<>>
    /\ loop' = "exited"
    /\ UNCHANGED <<addr, up, raw, sendVars, sessions, assembled, out, historyVars, cancelled>>

CtxCancel ==
    /\ ~cancelled /\ loop # "new"
    /\ cancelled' = TRUE
    /\ UNCHANGED <<addr, up, raw, sendVars, loopVars>>

Consume ==
    /\ out # <<>>
    /\ out' = Tail(out)
    /\ UNCHANGED <<addr, up, raw, sendVars, sessions, loop, assembled, historyVars, cancelled>>

Next ==
    \/ \E g \in Senders :
         \/ \E m \in Messages[g] : SendAnnounce(g, m)
         \/ SendPacket(g) \/ SendStops(g)
    \/ SubscribeTP \/ Close \/ CtxCancel \/ Consume
    \/ RecvAnnounce \/ RecvSkip \/ RecvPacket \/ RecvLastPacket \/ Emit
    \/ RxCancelled \/ RxClosed

Spec == Init /\ [][Next]_vars

\* The goroutine of SubscribeTP runs; its select does not ignore a cancelled
\* context for ever.  The consumer need not read.
FairSpec ==
    /\ Spec
    /\ WF_vars(RecvAnnounce \/ RecvSkip \/ RecvPacket \/ RecvLastPacket \/ Emit \/ RxClosed)
    /\ WF_vars(RxCancelled)

-----------------------------------------------------------------------------
(* Properties *)

\* Every variable has its type, and a session is always short of a packet.
TypeOK ==
    /\ up \in BOOLEAN /\ cancelled \in BOOLEAN
    /\ Len(raw) <= RawDepth /\ Len(out) <= OutDepth
    /\ \A i \in DOMAIN raw : raw[i].src \in Addresses /\ raw[i].type \in {"BAM", "DT"}
    /\ at \in [Senders -> 0 .. 255]
    /\ \A g \in Senders : at[g] > 0 => at[g] <= Current(g).packets
    /\ \A a \in Addresses : sessions[a] # <<>> =>
          /\ sessions[a][1].seen \subseteq 1 .. sessions[a][1].packets
          /\ Cardinality(sessions[a][1].seen) < sessions[a][1].packets
    /\ loop \in {"new", "select", "emit", "exited"}
    /\ Len(assembled) <= 1 /\ (loop = "emit" => Len(assembled) = 1)

\* Whatever is lost, given up or sent at the same time from one address, a delivered
\* frame is of a wanted group somebody announced from that address with that many
\* packets, no part of it is left blank, and every part is one its sender put at that
\* place (tp.go:230-259).
Announced(f) ==
    \E g \in Senders : addr[g] = f.src /\ \E n \in DOMAIN messages[g] :
        <<g, n>> \notin unannounced /\ messages[g][n] = [packets |-> Len(f.buf), pgn |-> f.pgn]
PiecesInPlace ==
    \A i \in DOMAIN emitted :
        LET f == emitted[i] IN
        /\ f.pgn \in Wanted /\ Announced(f)
        /\ \A j \in DOMAIN f.buf : \E g \in Senders :
              addr[g] = f.src /\ \E n \in DOMAIN messages[g] : f.buf[j] = Piece(g, n, j)

\* Of each source such frames are its messages, whole, once and in order, whichever
\* packets are lost and whichever transfers are abandoned (REQ-J1939-008; "no corrupt
\* frame is delivered", tp_test.go:285).
Channel == INSTANCE MessageChannel WITH
    Ends <- Senders,
    sent <- [g \in Senders |-> Number(g)]
ImplementsChannel == Channel!ChSpec

\* The goroutine exits once ctx is done, even while a stalled consumer leaves it no
\* room (tp.go:145-147).
CancelEnds == cancelled ~> loop = "exited"
=============================================================================
