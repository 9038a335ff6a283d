------------------------------ MODULE Pipeline ------------------------------
(***************************************************************************)
(* A bus with what stands around it: a feeder, a sink, and a forwarder with *)
(* the consumer of its channel, each where the arrangement has it.  The bus *)
(* may be closed and the programs cancelled at any time.                    *)
(***************************************************************************)
EXTENDS Forwarder, Sinks

vars == <<feedVars, forwarderVars, sinkVars>>

Init == FeedsInit /\ ForwarderInit /\ SinksInit

\* Nothing more comes from outside; what still ends is EverythingEnds.
Quiet == ~open /\ cancelled /\ fed # "running" /\ UNCHANGED vars

Next ==
    \/ (Feed \/ BusClose \/ Cancel) /\ UNCHANGED <<forwarderVars, sinkVars>>
    \/ (Forward \/ Consume) /\ UNCHANGED sinkVars
    \/ Drain /\ UNCHANGED forwarderVars
    \/ Quiet

\* The goroutines run, and so does a consumer in arrangements where it keeps reading;
\* nobody has to close the bus, to cancel or to feed.
Spec ==
    /\ Init /\ [][Next]_vars
    /\ WF_vars(Forward /\ UNCHANGED sinkVars)
    /\ WF_vars(Drain /\ UNCHANGED forwarderVars)
    /\ WF_vars(arranged.reads /\ Consume /\ UNCHANGED sinkVars)

FrameType == [n : Places, kind : {"wanted", "other"}]
MessageType == [n : Places \cup {0}, kind : {"wanted", "other"}, seq : Nat]

\* Every variable has its type and no channel or buffer holds more than its capacity.
TypeOK ==
    /\ arranged \in Arrangements
    /\ place \in 1 .. Len(input) + 1 /\ fed \in {"running", "nil", "error", "cancelled"}
    /\ cancelled \in BOOLEAN /\ open \in BOOLEAN /\ joined \subseteq Subs
    /\ chan \in [Subs -> Seq(FrameType)] /\ \A c \in Subs : Len(chan[c]) <= Depth
    /\ passed \in Seq(Places) /\ accepted \in [Subs -> Seq(FrameType)]
    /\ out \in Seq(MessageType) /\ Len(out) <= OutDepth /\ life \in {"none", "open", "closed"}
    /\ pc \in {"new", "range", "put", "evict", "refill", "done"}
    /\ seq \in Nat /\ msg \in MessageType
    /\ given \in Seq(FrameType) /\ pushed \in Seq(MessageType)
    /\ at \in {"new", "loop", "done"} /\ sunk \in {"running", "nil", "error", "cancelled"}
    /\ buffered \in Seq(FrameType) /\ Len(buffered) <= Buffer /\ written \in Seq(FrameType)
    /\ missing \subseteq 1 .. Len(written)

\* A success says what it seems to say: a feeder that ends without an error has sent
\* every frame of its input, and a sink has put out all it was given, or as many frames
\* as it was asked for; and neither skips, repeats or swaps a frame (recorder.go:37 and
\* 68, main.go:336-337, can-interop-peer main.go:199).  Excepted are a sink that was
\* cancelled, and dump, whose success says only that it has tried to print every frame.
SuccessIsComplete == FedInFull /\ SunkInFull

\* Closing the bus ends everything around it: the forwarder closes its channel as long
\* as it waits for nobody (DropNewest) or its consumer keeps reading (Block, j1939), and
\* every sink returns; so does a cancelled sink, without a close (adapt.go:133,
\* recorder.go:37, main.go:405-407).
WaitsForReader ==
    \/ policy \in {"Block", "j1939"} /\ ~arranged.reads
    \/ policy = "DropOldest"
EverythingEnds ==
    /\ ~open ~> (sink = "none" \/ at = "done") /\ (policy = "none" \/ WaitsForReader \/ life # "open")
    /\ cancelled ~> sink \in {"none", "reader"} \/ at = "done"
=============================================================================
