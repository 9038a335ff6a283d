------------------------------ MODULE Forwarder ------------------------------
(***************************************************************************)
(* The goroutine that forwards a bus subscription to a channel of its own:  *)
(* adapt.go's canAdapter.Subscribe, which numbers what it forwards and      *)
(* follows the relay back-pressure policy, and j1939/pgn.go's               *)
(* Bus.Subscribe, which forwards what its filter wants and always waits.    *)
(***************************************************************************)
EXTENDS Feeds

CONSTANT OutDepth   \* capacity of out

ASSUME ForwarderAssumption == OutDepth \in Nat \ {0}

VARIABLES
    out, life,      \* out, and whether it exists and is open
    pc, seq, msg,   \* the goroutine: where it is, its counter, the message in hand
    given, pushed   \* histories: what it took from the bus to forward, what it put on out

forwarderVars == <<out, life, pc, seq, msg, given, pushed>>
Elsewhere == UNCHANGED <<arranged, feederVars, cancelled>>

\* The BackPressure of the adapter, or "j1939".
policy == arranged.node

ForwarderInit ==
    /\ out = <<>> /\ life = "none"
    /\ pc = "new" /\ seq = 0 /\ msg = [n |-> 0, kind |-> "wanted", seq |-> 0]
    /\ given = <<>> /\ pushed = <<>>

FwdSubscribe ==
    /\ policy # "none" /\ pc = "new"
    /\ \/ open /\ Join("node") /\ life' = "open" /\ pc' = "range"
       \/ ~open /\ UNCHANGED <<busVars, life>> /\ pc' = "done"
    /\ UNCHANGED <<out, seq, msg, given, pushed>> /\ Elsewhere

FaultCountsDelivered == Len(pushed) + 1
NextSeq == seq + 1

\* The j1939 filter and its check of the identifier format.
Wanted(f) == policy = "j1939" => f.kind = "wanted"

FwdTake ==
    LET f == Head(chan["node"])
    IN  /\ pc = "range" /\ Pending("node") /\ Receive("node")
        /\ IF Wanted(f)
           THEN /\ seq' = NextSeq /\ msg' = [n |-> f.n, kind |-> f.kind, seq |-> NextSeq]
                /\ pc' = "put" /\ given' = Append(given, f)
           ELSE UNCHANGED <<seq, msg, pc, given>>
        /\ UNCHANGED <<out, life, pushed>> /\ Elsewhere

FaultOneTooMany == Len(out) > OutDepth
Full == Len(out) >= OutDepth
PutOut ==
    /\ out' = Append(out, msg) /\ pushed' = Append(pushed, msg)
    /\ pc' = "range"
    /\ Elsewhere /\ UNCHANGED <<busVars, life, seq, msg, given>>

\* Block and j1939 wait here until there is room.
FwdPut == pc = "put" /\ ~Full /\ PutOut

FwdDrop ==
    /\ pc = "put" /\ policy = "DropNewest" /\ Full
    /\ pc' = "range"
    /\ Elsewhere /\ UNCHANGED <<busVars, out, life, seq, msg, given, pushed>>

\* DropOldest: found full, it receives once and sends once, waiting for each.
FwdFull ==
    /\ pc = "put" /\ policy = "DropOldest" /\ Full
    /\ pc' = "evict"
    /\ Elsewhere /\ UNCHANGED <<busVars, out, life, seq, msg, given, pushed>>
FaultEvictsNewest == SubSeq(out, 1, Len(out) - 1)
Evicted == Tail(out)
FwdEvict ==
    /\ pc = "evict" /\ out # <<>>
    /\ out' = Evicted
    /\ pc' = "refill"
    /\ Elsewhere /\ UNCHANGED <<busVars, life, seq, msg, given, pushed>>
FwdRefill == pc = "refill" /\ ~Full /\ PutOut

\* The bus is closed and its channel read to the end; out is closed on return.
FwdEnd ==
    /\ pc = "range" /\ AtEnd("node")
    /\ life' = "closed" /\ pc' = "done"
    /\ Elsewhere /\ UNCHANGED <<busVars, out, seq, msg, given, pushed>>

Forward ==
    \/ FwdSubscribe \/ FwdTake \/ FwdPut \/ FwdDrop \/ FwdFull \/ FwdEvict \/ FwdRefill \/ FwdEnd

\* The consumer of out.
Consume ==
    /\ out # <<>>
    /\ out' = Tail(out)
    /\ Elsewhere /\ UNCHANGED <<busVars, life, pc, seq, msg, given, pushed>>

\* The number of a message tells its place among the frames the subscription was to
\* forward, and numbers grow: a hole in those a consumer sees is exactly what back-pressure
\* dropped, and a forwarder that waits drops nothing (adapt.go:134, REQ-CAN-007).
InHand == IF pc = "put" THEN <<msg>> ELSE <<>>
NumbersTell ==
    /\ \A i \in DOMAIN pushed :
          /\ pushed[i].seq \in DOMAIN given /\ given[pushed[i].seq].n = pushed[i].n
          /\ \A k \in 1 .. i - 1 : pushed[k].seq < pushed[i].seq
    /\ policy \in {"Block", "j1939"} => Len(pushed) + Len(InHand) = Len(given)

\* Seen from its consumer, out is a can.Bus subscription: a bounded FIFO of frames in
\* bus order, none twice, closed once and for good (can.go:162-174).
Named(s) == [i \in DOMAIN s |-> [src |-> "bus", n |-> s[i].n, kind |-> s[i].kind]]
Stream == INSTANCE CanBus WITH
    Subs <- {"node"}, Sources <- {"bus"}, Kinds <- {"wanted", "other"},
    Wants <- [c \in {"node"} |-> {"wanted", "other"}], Depth <- OutDepth, Ranks <- Places,
    shut <- life = "closed", life <- [c \in {"node"} |-> life],
    stream <- [c \in {"node"} |-> Named(pushed)], queue <- [c \in {"node"} |-> Named(out)]
ImplementsStream == Stream!BusSpec
=============================================================================
