--------------------------- MODULE PipelineProofs ---------------------------
(***************************************************************************)
(* Theorems about a bus with a feeder, a forwarder and a sink, for inputs,  *)
(* channels, buffers and counts of any size.                                *)
(***************************************************************************)
EXTENDS Pipeline, SequenceTheorems, TLAPS

USE DEF feederVars, busVars, feedVars, forwarderVars, sinkVars, Elsewhere, Idle, Stays,
        feeder, input, policy, sink

-----------------------------------------------------------------------------
(* The inductive invariant. *)

\* The feeder has sent what comes before the place it is at.
FedInv ==
    /\ \A j \in DOMAIN passed :
          /\ passed[j] \in DOMAIN input /\ input[passed[j]] # "bad" /\ passed[j] < place
          /\ \A k \in 1 .. j - 1 : passed[k] < passed[j]
          /\ SentUpTo(passed[j])
    /\ SentUpTo(place - 1)
    /\ fed = "nil" => place > Len(input)

Busy == pc \in {"put", "evict", "refill"}

\* The counter of the forwarder is the number of frames it was to forward; the message in
\* hand is the last of them, and those put out came before it.
CountInv ==
    /\ seq = Len(given)
    /\ \A i \in DOMAIN pushed :
          /\ pushed[i].seq \in DOMAIN given /\ given[pushed[i].seq].n = pushed[i].n
          /\ \A k \in 1 .. i - 1 : pushed[k].seq < pushed[i].seq
    /\ Busy => /\ msg.seq = seq /\ seq \in DOMAIN given /\ given[seq].n = msg.n
               /\ \A i \in DOMAIN pushed : pushed[i].seq < seq
    /\ policy \in {"Block", "j1939"} =>
          /\ pc \notin {"evict", "refill"}
          /\ Len(pushed) + Len(InHand) = Len(given)

\* Frames keep the order of the input on their way through the forwarder.
WayInv ==
    LET way == chan["node"] IN
    /\ \A j \in DOMAIN way : way[j].n < place /\ \A k \in 1 .. j - 1 : way[k].n < way[j].n
    /\ \A i \in DOMAIN pushed :
          pushed[i].n < place /\ \A j \in DOMAIN way : pushed[i].n < way[j].n
    /\ Busy => /\ msg.n \in Places /\ msg.n < place
               /\ \A j \in DOMAIN way : msg.n < way[j].n
               /\ \A i \in DOMAIN pushed : pushed[i].n < msg.n

\* out exists while the goroutine runs.
LifeInv ==
    /\ pc = "new" => life = "none"
    /\ pc = "range" \/ Busy => life = "open"
    /\ pc = "done" => life # "open"

\* What a sink has handed to its output (w) and what it holds back (b) are, in this order, a beginning of
\* the stream it was given; the rest is what waits in its channel.
OutOf(w, b, stream) ==
    /\ \A i \in DOMAIN w : i \in DOMAIN stream /\ w[i] = stream[i]
    /\ \A i \in DOMAIN b : Len(w) + i \in DOMAIN stream /\ b[i] = stream[Len(w) + i]
Rest(way, w, b, stream) ==
    /\ Len(stream) = Len(w) + Len(b) + Len(way)
    /\ \A i \in DOMAIN way : way[i] = stream[Len(w) + Len(b) + i]
SunkInv ==
    /\ OutOf(written, buffered, accepted["sink"])
    /\ at # "done" =>
          /\ sunk = "running"
          /\ Rest(chan["sink"], written, buffered, accepted["sink"])
          /\ sink \in {"reader", "subscribeCount"} => Len(written) < Count
    /\ sink # "record" => buffered = <<>>
    /\ sink # "dump" => missing = {}
    /\ sunk = "nil" =>
          \/ cancelled /\ sink # "reader"
          \/ sink \in {"reader", "subscribeCount"} /\ Len(written) = Count
          \/ sink # "reader" /\ ~open /\ Len(written) = Len(accepted["sink"])

NodeInv == CountInv /\ WayInv /\ LifeInv
IInv == TypeOK /\ FedInv /\ NodeInv /\ SunkInv

-----------------------------------------------------------------------------
(* Sequences, and the bus. *)

\* A sequence with an element more.
LEMMA Appended ==
    ASSUME NEW S, NEW s \in Seq(S), NEW e \in S
    PROVE  /\ Append(s, e) \in Seq(S) /\ Len(Append(s, e)) = Len(s) + 1 /\ Len(s) \in Nat
           /\ DOMAIN s = 1 .. Len(s) /\ DOMAIN Append(s, e) = 1 .. Len(s) + 1
           /\ Append(s, e)[Len(s) + 1] = e
           /\ \A i \in 1 .. Len(s) : Append(s, e)[i] = s[i]
BY AppendProperties, LenProperties

\* A sequence without its first element.
LEMMA Shortened ==
    ASSUME NEW S, NEW s \in Seq(S), s # <<>>
    PROVE  /\ Tail(s) \in Seq(S) /\ Len(Tail(s)) = Len(s) - 1 /\ Len(s) \in Nat /\ Len(s) > 0
           /\ DOMAIN s = 1 .. Len(s) /\ DOMAIN Tail(s) = 1 .. Len(s) - 1
           /\ Head(s) = s[1] /\ Head(s) \in S
           /\ \A i \in 1 .. Len(s) - 1 : Tail(s)[i] = s[i + 1]
<1>1. Len(s) \in Nat /\ Len(s) > 0 /\ DOMAIN s = 1 .. Len(s)
  BY EmptySeq, LenProperties
<1>2. /\ Tail(s) \in Seq(S) /\ Len(Tail(s)) = Len(s) - 1 /\ Head(s) = s[1] /\ Head(s) \in S
      /\ \A i \in 1 .. Len(s) - 1 : Tail(s)[i] = s[i + 1]
  BY <1>1, HeadTailProperties
<1> QED BY <1>1, <1>2, LenProperties

\* The input of a feeder, and the place it is at.
LEMMA InputIs ==
    ASSUME arranged \in Arrangements
    PROVE  /\ input \in Seq({"wanted", "other", "bad", "refused"})
           /\ Len(input) \in Nat /\ DOMAIN input = 1 .. Len(input)
           /\ DOMAIN input \subseteq Places /\ Places \subseteq Nat
<1>1. \A a \in Arrangements : /\ a.input \in Seq({"wanted", "other", "bad", "refused"})
                              /\ Len(a.input) \in Nat /\ DOMAIN a.input = 1 .. Len(a.input)
  BY FeedsAssumption, LenProperties
<1>2. Places \subseteq Nat
  BY <1>1 DEF Places
<1>3. DOMAIN input \subseteq Places
  BY DEF Places
<1> QED BY <1>1, <1>2, <1>3

\* The channels of the bus.
BusType ==
    /\ chan \in [Subs -> Seq(FrameType)] /\ \A c \in Subs : Len(chan[c]) <= Depth
    /\ accepted \in [Subs -> Seq(FrameType)]
    /\ open \in BOOLEAN /\ joined \subseteq Subs

\* What the channels and the histories of the bus hold.
LEMMA ChannelIs ==
    ASSUME BusType, NEW c \in Subs
    PROVE  /\ chan[c] \in Seq(FrameType) /\ Len(chan[c]) \in Nat
           /\ DOMAIN chan[c] = 1 .. Len(chan[c])
           /\ accepted[c] \in Seq(FrameType) /\ Len(accepted[c]) \in Nat
           /\ DOMAIN accepted[c] = 1 .. Len(accepted[c])
BY LenProperties DEF BusType

\* A frame is put on some of the channels.
LEMMA SendIs ==
    ASSUME BusType, NEW f \in FrameType, BusSend(f)
    PROVE  /\ BusType' /\ open' = open
           /\ \A c \in Subs :
                 \/ chan'[c] = chan[c] /\ accepted'[c] = accepted[c]
                 \/ chan'[c] = Append(chan[c], f) /\ accepted'[c] = Append(accepted[c], f)
<1>1. ASSUME NEW c \in Subs
      PROVE  /\ chan'[c] \in Seq(FrameType) /\ Len(chan'[c]) <= Depth
             /\ accepted'[c] \in Seq(FrameType)
             /\ \/ chan'[c] = chan[c] /\ accepted'[c] = accepted[c]
                \/ chan'[c] = Append(chan[c], f) /\ accepted'[c] = Append(accepted[c], f)
  <2>1. CASE c \in Takers
    <3>1. chan'[c] = Append(chan[c], f) /\ accepted'[c] = Append(accepted[c], f)
      BY <2>1 DEF BusSend
    <3>2. Len(chan[c]) < Depth /\ Len(chan[c]) \in Nat /\ Depth \in Nat
      BY <2>1, FeedsAssumption, ChannelIs DEF Takers
    <3> QED BY <3>1, <3>2, ChannelIs, Appended
  <2>2. CASE c \notin Takers
    BY <2>2 DEF BusSend, BusType
  <2> QED BY <2>1, <2>2
<1>2. /\ chan' = [c \in Subs |-> chan'[c]] /\ accepted' = [c \in Subs |-> accepted'[c]]
      /\ open' = open /\ joined' = joined
  BY DEF BusSend
<1>3. chan' \in [Subs -> Seq(FrameType)] /\ accepted' \in [Subs -> Seq(FrameType)]
  BY <1>1, <1>2
<1>4. FrameType' = FrameType /\ Subs' = Subs
  BY DEF FrameType, Subs
<1> QED BY <1>1, <1>2, <1>3 DEF BusType

\* A frame is taken from one.
LEMMA ReceiveIs ==
    ASSUME BusType, NEW c \in Subs, Pending(c), Receive(c)
    PROVE  /\ BusType' /\ open' = open /\ accepted' = accepted
           /\ chan'[c] = Tail(chan[c]) /\ \A d \in Subs \ {c} : chan'[d] = chan[d]
           /\ Head(chan[c]) = chan[c][1] /\ Head(chan[c]) \in FrameType
           /\ Len(chan[c]) > 0 /\ Len(chan'[c]) = Len(chan[c]) - 1
           /\ \A i \in 1 .. Len(chan[c]) - 1 : chan'[c][i] = chan[c][i + 1]
<1>1. chan[c] \in Seq(FrameType) /\ chan[c] # <<>>
  BY ChannelIs DEF Pending
<1>2. chan' = [chan EXCEPT ![c] = Tail(chan[c])] /\ open' = open /\ accepted' = accepted
      /\ joined' = joined
  BY DEF Receive
<1>3. chan'[c] = Tail(chan[c]) /\ \A d \in Subs \ {c} : chan'[d] = chan[d]
  BY <1>2 DEF BusType
<1>4. Len(chan'[c]) = Len(chan[c]) - 1 /\ Tail(chan[c]) \in Seq(FrameType) /\ Len(chan[c]) \in Nat
  BY <1>1, <1>3, Shortened
<1>5. Depth \in Nat /\ Len(chan[c]) <= Depth
  BY FeedsAssumption DEF BusType
<1>6. BusType'
  <2>1. chan' \in [Subs -> Seq(FrameType)]
    BY <1>2, <1>4 DEF BusType
  <2>2. \A d \in Subs : Len(chan'[d]) <= Depth
    <3>1. Len(chan'[c]) <= Depth
      BY <1>4, <1>5
    <3>2. \A d \in Subs \ {c} : Len(chan'[d]) <= Depth
      BY <1>3 DEF BusType
    <3> QED BY <3>1, <3>2
  <2> QED BY <1>2, <2>1, <2>2 DEF BusType
<1> QED BY <1>1, <1>2, <1>3, <1>4, <1>6, Shortened

-----------------------------------------------------------------------------
(* Type correctness. *)

FeedType ==
    /\ arranged \in Arrangements /\ cancelled \in BOOLEAN
    /\ place \in 1 .. Len(input) + 1 /\ fed \in {"running", "nil", "error", "cancelled"}
    /\ passed \in Seq(Places)
NodeType ==
    /\ out \in Seq(MessageType) /\ Len(out) <= OutDepth /\ life \in {"none", "open", "closed"}
    /\ pc \in {"new", "range", "put", "evict", "refill", "done"}
    /\ seq \in Nat /\ msg \in MessageType
    /\ given \in Seq(FrameType) /\ pushed \in Seq(MessageType)
SinkType ==
    /\ at \in {"new", "loop", "done"} /\ sunk \in {"running", "nil", "error", "cancelled"}
    /\ buffered \in Seq(FrameType) /\ Len(buffered) <= Buffer /\ written \in Seq(FrameType)
    /\ missing \subseteq 1 .. Len(written)

\* The type invariant is about four groups of variables.
LEMMA TypeIs == TypeOK <=> FeedType /\ BusType /\ NodeType /\ SinkType
BY DEF TypeOK, FeedType, BusType, NodeType, SinkType

\* A feeder keeps the types.
LEMMA FeedTyped ==
    ASSUME FeedType, BusType, Feed \/ BusClose \/ Cancel
    PROVE  FeedType' /\ BusType'
<1>1. /\ Len(input) \in Nat /\ DOMAIN input = 1 .. Len(input) /\ place \in 1 .. Len(input) + 1
      /\ DOMAIN input \subseteq Places
  BY InputIs DEF FeedType
<1>2. CASE SkipMalformed
  <2>1. place + 1 \in 1 .. Len(input) + 1
    BY <1>1, <1>2 DEF SkipMalformed, Feeding
  <2> QED BY <1>2, <2>1 DEF SkipMalformed, FeedType, BusType
<1>3. CASE FeedFrame
  <2>1. place + 1 \in 1 .. Len(input) + 1 /\ place \in Places
    BY <1>1, <1>3 DEF FeedFrame, Feeding
  <2>2. [n |-> place, kind |-> input[place]] \in FrameType
    BY <1>3, <2>1 DEF FeedFrame, Proper, FrameType
  <2>3. BusType'
    BY <1>3, <2>2, SendIs DEF FeedFrame
  <2>4. passed' \in Seq(Places)
    BY <1>3, <2>1, Appended DEF FeedFrame, FeedType
  <2> QED BY <1>3, <2>1, <2>3, <2>4 DEF FeedFrame, FeedType
<1>4. CASE StopAtMalformed \/ FeedRefused \/ ReplayCancelled \/ FeedEOF \/ FeedReadFails
  <2>1. /\ UNCHANGED <<arranged, place, passed, cancelled, open, chan, joined, accepted>>
        /\ fed' \in {"nil", "error", "cancelled"}
    BY <1>4 DEF StopAtMalformed, FeedRefused, ReplayCancelled, FeedEOF, FeedReadFails, FeederEnds, RefusalIs
  <2> QED BY <2>1 DEF FeedType, BusType
<1>5. CASE BusClose \/ Cancel
  BY <1>5 DEF BusClose, Cancel, FeedType, BusType
<1> QED BY <1>2, <1>3, <1>4, <1>5 DEF Feed

\* So does the forwarder, with the consumer of its channel.
LEMMA NodeTyped ==
    ASSUME NodeType, BusType, FeedType, Forward \/ Consume
    PROVE  NodeType' /\ BusType' /\ FeedType'
<1>1. FeedType'
  BY DEF Forward, Consume, FwdSubscribe, FwdTake, FwdPut, FwdDrop, FwdFull, FwdEvict, FwdRefill,
         FwdEnd, PutOut, FeedType
<1>2. OutDepth \in Nat /\ Len(out) \in Nat /\ "node" \in Subs
  BY ForwarderAssumption, LenProperties DEF NodeType, Subs
<1>3. CASE FwdSubscribe
  BY <1>1, <1>3 DEF FwdSubscribe, Join, NodeType, BusType, Subs
<1>4. CASE FwdTake
  <2>1. Pending("node") /\ Receive("node")
    BY <1>4 DEF FwdTake
  <2>2. BusType' /\ Head(chan["node"]) \in FrameType
    BY <1>2, <2>1, ReceiveIs
  <2> DEFINE f == Head(chan["node"])
  <2>3. Append(given, f) \in Seq(FrameType) /\ seq + 1 \in Nat
    BY <2>2, Appended DEF NodeType
  <2>4. [n |-> f.n, kind |-> f.kind, seq |-> seq + 1] \in MessageType
    BY <2>2, <2>3 DEF FrameType, MessageType
  <2>5. CASE Wanted(f)
    BY <1>1, <1>4, <2>2, <2>3, <2>4, <2>5 DEF FwdTake, NextSeq, NodeType
  <2>6. CASE ~Wanted(f)
    BY <1>1, <1>4, <2>2, <2>6 DEF FwdTake, NodeType
  <2> QED BY <2>5, <2>6
<1>5. CASE PutOut /\ ~Full
  <2>1. out' \in Seq(MessageType) /\ Len(out') <= OutDepth /\ pushed' \in Seq(MessageType)
    BY <1>2, <1>5, Appended DEF PutOut, Full, NodeType
  <2> QED BY <1>1, <1>5, <2>1 DEF PutOut, NodeType, BusType
<1>6. CASE FwdDrop \/ FwdFull \/ FwdEnd
  BY <1>1, <1>6 DEF FwdDrop, FwdFull, FwdEnd, NodeType, BusType
<1>7. CASE FwdEvict \/ Consume
  <2>1. out' = Tail(out) /\ out # <<>>
    BY <1>7 DEF FwdEvict, Evicted, Consume
  <2>2. out' \in Seq(MessageType) /\ Len(out') <= OutDepth
    BY <1>2, <2>1, Shortened DEF NodeType
  <2> QED BY <1>1, <1>7, <2>2 DEF FwdEvict, Consume, NodeType, BusType
<1> QED BY <1>3, <1>4, <1>5, <1>6, <1>7 DEF Forward, FwdPut, FwdRefill

\* What goes out of the buffer comes after what is out.
LEMMA FlushKeepsPlaces ==
    ASSUME SinkType, written' = written \o buffered, missing' = missing
    PROVE  written' \in Seq(FrameType) /\ missing' \subseteq 1 .. Len(written')
<1>1. /\ written' \in Seq(FrameType) /\ Len(written') = Len(written) + Len(buffered)
      /\ Len(written) \in Nat /\ Len(buffered) \in Nat
  BY ConcatProperties, LenProperties DEF SinkType
<1> QED BY <1>1 DEF SinkType

\* And a sink.
LEMMA SinkTyped ==
    ASSUME SinkType, BusType, FeedType, Drain
    PROVE  SinkType' /\ BusType' /\ FeedType'
<1>1. FeedType'
  BY DEF Drain, SinkSubscribe, SinkPut, SinkPutFails, DumpLoses, RecordLine, RecordLineFails, SinkEOF, RecordEOF,
         SinkCancelled, RecordCancelled, ReaderDeadline, Receives, FeedType
<1>2. Buffer \in Nat /\ Buffer > 0 /\ Len(buffered) \in Nat /\ "sink" \in Subs
  BY SinksAssumption, LenProperties DEF SinkType, Subs
<1>3. CASE SinkSubscribe
  BY <1>1, <1>3 DEF SinkSubscribe, Join, SinkEnds, SinkType, BusType, Subs
<1>4. CASE SinkPut \/ SinkPutFails \/ DumpLoses \/ RecordLine \/ RecordLineFails
  <2>1. BusType' /\ Frame \in FrameType
    <3>1. Receives
      BY <1>4 DEF SinkPut, SinkPutFails, DumpLoses, RecordLine, RecordLineFails
    <3> QED BY <1>2, <3>1, ReceiveIs DEF Receives, Frame
  <2>2. SinkType'
    <3>1. CASE SinkPut \/ DumpLoses
      <4>1. written' \in Seq(FrameType) /\ Len(written') = Len(written) + 1
        BY <2>1, <3>1, Appended DEF SinkPut, DumpLoses, SinkType
      <4>2. missing' \subseteq 1 .. Len(written')
        <5>1. Len(written) \in Nat /\ missing \subseteq 1 .. Len(written)
          BY LenProperties DEF SinkType
        <5>2. missing' = missing \/ missing' = missing \cup {Len(written')}
          BY <3>1 DEF SinkPut, DumpLoses
        <5>3. 1 .. Len(written) \subseteq 1 .. Len(written') /\ Len(written') \in 1 .. Len(written')
          BY <4>1, <5>1
        <5> QED BY <5>1, <5>2, <5>3
      <4> QED BY <3>1, <4>1, <4>2 DEF SinkPut, DumpLoses, SinkEnds, SinkGoesOn, SinkType
    <3>2. CASE SinkPutFails \/ RecordLineFails
      BY <3>2 DEF SinkPutFails, RecordLineFails, SinkEnds, SinkType
    <3>3. CASE RecordLine
      <4>1. CASE Len(buffered) < Buffer /\ buffered' = Append(buffered, Frame) /\ UNCHANGED written
        <5>1. buffered' \in Seq(FrameType) /\ Len(buffered') <= Buffer
          BY <1>2, <2>1, <4>1, Appended DEF SinkType
        <5>2. missing' \subseteq 1 .. Len(written')
          BY <3>3, <4>1 DEF RecordLine, SinkType
        <5> QED BY <3>3, <4>1, <5>1, <5>2 DEF RecordLine, SinkGoesOn, SinkType
      <4>2. CASE buffered' = <<Frame>> /\ written' = written \o buffered
        <5>1. buffered' \in Seq(FrameType) /\ Len(buffered') <= Buffer
          BY <1>2, <2>1, <4>2
        <5>2. written' \in Seq(FrameType) /\ missing' \subseteq 1 .. Len(written')
          BY <3>3, <4>2, FlushKeepsPlaces DEF RecordLine
        <5> QED BY <3>3, <5>1, <5>2 DEF RecordLine, SinkGoesOn, SinkType
      <4> QED BY <3>3, <4>1, <4>2 DEF RecordLine
    <3> QED BY <1>4, <3>1, <3>2, <3>3
  <2> QED BY <1>1, <2>1, <2>2
<1>5. CASE SinkEOF \/ RecordEOF \/ SinkCancelled \/ RecordCancelled \/ ReaderDeadline
  <2>1. /\ UNCHANGED <<open, chan, joined, accepted>>
        /\ at' = "done" /\ sunk' \in {"nil", "error", "cancelled"} /\ missing' = missing
        /\ \/ UNCHANGED <<written, buffered>>
           \/ written' = written \o buffered /\ buffered' = <<>>
    BY <1>5 DEF SinkEOF, RecordEOF, SinkCancelled, RecordCancelled, ReaderDeadline, SinkEnds, Flush,
           FlushFails, FlushError
  <2>2. BusType'
    BY <2>1 DEF BusType
  <2>3. /\ written' \in Seq(FrameType) /\ buffered' \in Seq(FrameType) /\ Len(buffered') <= Buffer
        /\ missing' \subseteq 1 .. Len(written')
    <3>1. CASE UNCHANGED <<written, buffered>>
      BY <2>1, <3>1 DEF SinkType
    <3>2. CASE written' = written \o buffered /\ buffered' = <<>>
      <4>1. written' \in Seq(FrameType) /\ missing' \subseteq 1 .. Len(written')
        BY <2>1, <3>2, FlushKeepsPlaces
      <4> QED BY <1>2, <3>2, <4>1
    <3> QED BY <2>1, <3>1, <3>2
  <2> QED BY <1>1, <2>1, <2>2, <2>3 DEF SinkType
<1> QED BY <1>3, <1>4, <1>5 DEF Drain

\* Who moves, and what stays.
LEMMA StepIs ==
    ASSUME [Next]_vars
    PROVE  \/ (Feed \/ BusClose \/ Cancel) /\ UNCHANGED <<forwarderVars, sinkVars>>
           \/ (Forward \/ Consume) /\ UNCHANGED <<feederVars, cancelled, arranged, sinkVars>>
           \/ Drain /\ UNCHANGED <<feederVars, cancelled, arranged, forwarderVars>>
           \/ UNCHANGED vars
<1>1. Forward \/ Consume => UNCHANGED <<feederVars, cancelled, arranged>>
  BY DEF Forward, Consume, FwdSubscribe, FwdTake, FwdPut, FwdDrop, FwdFull, FwdEvict, FwdRefill,
         FwdEnd, PutOut
<1>2. Drain => UNCHANGED <<feederVars, cancelled, arranged>>
  BY DEF Drain, SinkSubscribe, SinkPut, SinkPutFails, DumpLoses, RecordLine, RecordLineFails, SinkEOF, RecordEOF,
         SinkCancelled, RecordCancelled, ReaderDeadline, Receives
<1> QED BY <1>1, <1>2 DEF Next, Quiet

\* Every step keeps the types.
LEMMA TypeStep == TypeOK /\ [Next]_vars => TypeOK'
<1> SUFFICES ASSUME FeedType, BusType, NodeType, SinkType, [Next]_vars
             PROVE  FeedType' /\ BusType' /\ NodeType' /\ SinkType'
  BY TypeIs DEF TypeOK, FeedType, BusType, NodeType, SinkType
<1>1. CASE (Feed \/ BusClose \/ Cancel) /\ UNCHANGED <<forwarderVars, sinkVars>>
  BY <1>1, FeedTyped DEF NodeType, SinkType
<1>2. CASE (Forward \/ Consume) /\ UNCHANGED sinkVars
  BY <1>2, NodeTyped DEF SinkType
<1>3. CASE Drain /\ UNCHANGED forwarderVars
  BY <1>3, SinkTyped DEF NodeType
<1>4. CASE UNCHANGED vars
  BY <1>4 DEF vars, FeedType, BusType, NodeType, SinkType
<1> QED BY <1>1, <1>2, <1>3, <1>4 DEF Next, Quiet

\* They are right at the start.
LEMMA TypeInit == Init => TypeOK
<1> SUFFICES ASSUME Init PROVE TypeOK
  OBVIOUS
<1>1. FeedType
  <2>1. arranged \in Arrangements /\ place = 1 /\ passed = <<>> /\ fed = "running"
        /\ cancelled = FALSE
    BY DEF Init, FeedsInit
  <2>2. place \in 1 .. Len(input) + 1
    BY <2>1, InputIs
  <2>3. passed \in Seq(Places)
    BY <2>1, EmptySeq
  <2>4. cancelled \in BOOLEAN
    BY <2>1
  <2> QED BY <2>1, <2>2, <2>3, <2>4 DEF FeedType
<1>2. BusType
  BY FeedsAssumption DEF Init, FeedsInit, BusType
<1>3. NodeType
  BY ForwarderAssumption DEF Init, ForwarderInit, NodeType, MessageType
<1>4. SinkType
  BY SinksAssumption DEF Init, SinksInit, SinkType
<1> QED BY <1>1, <1>2, <1>3, <1>4, TypeIs

\* TypeOK (Pipeline): every variable keeps its type, and no channel of the bus, no channel of
\* a forwarder and no buffer of a recorder ever holds more than its capacity.
THEOREM PipelineTypeCorrect == Spec => []TypeOK
  BY TypeInit, TypeStep, PTL DEF Spec

-----------------------------------------------------------------------------
(* The feeder. *)

\* Nothing is skipped up to a place, if nothing is up to the one before and this one is sent.
LEMMA SentMore ==
    ASSUME FeedType, FedInv, Feeding,
           \/ Is("bad") /\ passed' = passed
           \/ passed' = Append(passed, place)
    PROVE  /\ \A i \in 1 .. place : input[i] # "bad" => \E j \in DOMAIN passed' : passed'[j] = i
           /\ \A p \in Nat : SentUpTo(p) =>
                 \A i \in 1 .. p : input[i] # "bad" => \E j \in DOMAIN passed' : passed'[j] = i
<1>1. /\ passed \in Seq(Places) /\ Len(passed) \in Nat /\ DOMAIN passed = 1 .. Len(passed)
      /\ place \in 1 .. Len(input) /\ place \in Nat /\ place \in Places /\ Len(input) \in Nat
  BY InputIs, LenProperties DEF FeedType, Feeding
<1>2. \A i : (\E j \in DOMAIN passed : passed[j] = i) => (\E j \in DOMAIN passed' : passed'[j] = i)
  BY <1>1, Appended
<1>3. input[place] # "bad" => \E j \in DOMAIN passed' : passed'[j] = place
  BY <1>1, Appended DEF Is
<1>4. \A i \in 1 .. place - 1 : input[i] # "bad" => \E j \in DOMAIN passed' : passed'[j] = i
  BY <1>2 DEF FedInv, SentUpTo
<1>5. \A i \in 1 .. place : i = place \/ i \in 1 .. place - 1
  BY <1>1
<1> QED BY <1>2, <1>3, <1>4, <1>5 DEF SentUpTo

\* What the feeder has sent, when it goes on to the next place.
LEMMA FedOn ==
    ASSUME FeedType, FedInv, Feeding, UNCHANGED <<arranged, fed>>, place' = place + 1,
           \/ Is("bad") /\ passed' = passed
           \/ ~Is("bad") /\ passed' = Append(passed, place)
    PROVE  FedInv'
<1>1. /\ passed \in Seq(Places) /\ Len(passed) \in Nat /\ DOMAIN passed = 1 .. Len(passed)
      /\ place \in DOMAIN input /\ place \in Nat /\ place \in Places /\ Len(input) \in Nat
      /\ DOMAIN input \subseteq Nat /\ (place + 1) - 1 = place /\ fed = "running"
  BY InputIs, LenProperties DEF FeedType, Feeding
<1> DEFINE Told(p) == \A i \in 1 .. p : input[i] # "bad" => \E j \in DOMAIN passed' : passed'[j] = i
<1>2. Told(place) /\ \A p \in Nat : SentUpTo(p) => Told(p)
  <2>1. Told(place)
    BY SentMore
  <2>2. ASSUME NEW p \in Nat, SentUpTo(p) PROVE Told(p)
    BY <2>2, SentMore
  <2> HIDE DEF Told
  <2> QED BY <2>1, <2>2
<1> HIDE DEF Told
<1>3. ASSUME NEW j \in DOMAIN passed'
      PROVE  /\ passed'[j] \in DOMAIN input /\ input[passed'[j]] # "bad" /\ passed'[j] < place + 1
             /\ \A k \in 1 .. j - 1 : passed'[k] < passed'[j]
             /\ Told(passed'[j])
  <2>1. CASE j \in DOMAIN passed
    <3>1. passed'[j] = passed[j] /\ \A k \in 1 .. j - 1 : passed'[k] = passed[k]
      BY <1>1, <2>1, Appended
    <3>2. /\ passed[j] \in DOMAIN input /\ input[passed[j]] # "bad" /\ passed[j] < place
          /\ \A k \in 1 .. j - 1 : passed[k] < passed[j]
          /\ SentUpTo(passed[j])
      BY <2>1 DEF FedInv
    <3>3. passed[j] \in Nat
      BY <1>1, <3>2
    <3>4. Told(passed[j])
      BY <1>2, <3>2, <3>3
    <3>5. passed[j] < place + 1
      BY <1>1, <3>2, <3>3
    <3> QED BY <3>1, <3>2, <3>4, <3>5
  <2>2. CASE j \notin DOMAIN passed
    <3>1. /\ ~Is("bad") /\ j = Len(passed) + 1 /\ passed'[j] = place
          /\ \A k \in 1 .. j - 1 : k \in DOMAIN passed /\ passed'[k] = passed[k]
      BY <1>1, <2>2, Appended
    <3>2. \A k \in DOMAIN passed : passed[k] < place
      BY DEF FedInv
    <3> QED BY <1>1, <1>2, <3>1, <3>2 DEF Is
  <2> QED BY <2>1, <2>2
<1>4. fed' # "nil"
  BY <1>1
<1> QED BY <1>1, <1>2, <1>3, <1>4 DEF FedInv, SentUpTo, Told

\* FedInv after any step.
LEMMA FedStep ==
    ASSUME TypeOK, FedInv, [Next]_vars
    PROVE  FedInv'
<1>1. FeedType /\ Len(input) \in Nat /\ place \in Nat
  BY TypeIs, InputIs DEF FeedType
<1>2. CASE UNCHANGED <<arranged, feederVars>>
  BY <1>2 DEF FedInv, SentUpTo
<1>3. CASE SkipMalformed
  BY <1>1, <1>3, FedOn DEF SkipMalformed
<1>4. CASE FeedFrame
  BY <1>1, <1>4, FedOn DEF FeedFrame, Proper, Is
<1>5. CASE StopAtMalformed \/ FeedRefused \/ ReplayCancelled \/ FeedEOF \/ FeedReadFails
  <2>1. UNCHANGED <<arranged, place, passed>> /\ (fed' = "nil" => place > Len(input))
    BY <1>5 DEF StopAtMalformed, FeedRefused, ReplayCancelled, FeedEOF, FeedReadFails, FeederEnds, RefusalIs
  <2> QED BY <2>1 DEF FedInv, SentUpTo
<1>6. CASE BusClose \/ Cancel
  BY <1>2, <1>6 DEF BusClose, Cancel
<1>7. CASE UNCHANGED vars
  BY <1>2, <1>7 DEF vars
<1> QED BY <1>2, <1>3, <1>4, <1>5, <1>6, <1>7, StepIs DEF Feed

-----------------------------------------------------------------------------
(* The forwarder. *)

\* What the variables of the forwarder hold.
LEMMA NodeHas ==
    ASSUME NodeType
    PROVE  /\ given \in Seq(FrameType) /\ Len(given) \in Nat /\ DOMAIN given = 1 .. Len(given)
           /\ pushed \in Seq(MessageType) /\ Len(pushed) \in Nat /\ DOMAIN pushed = 1 .. Len(pushed)
           /\ msg \in MessageType /\ seq \in Nat
BY LenProperties DEF NodeType

\* A frame is taken that is to be forwarded.
LEMMA CountTaken ==
    ASSUME NodeType, BusType, CountInv, FwdTake
    PROVE  CountInv'
<1> DEFINE f == Head(chan["node"])
<1>1. f \in FrameType /\ pc = "range" /\ pushed' = pushed /\ arranged' = arranged
  BY ReceiveIs DEF FwdTake, Subs
<1>2. CASE Wanted(f)
  <2>1. /\ given' = Append(given, f) /\ seq' = seq + 1 /\ pc' = "put"
        /\ msg' = [n |-> f.n, kind |-> f.kind, seq |-> seq + 1]
    BY <1>2 DEF FwdTake, NextSeq
  <2> HIDE DEF f
  <2>2. /\ Len(given') = seq + 1 /\ DOMAIN given' = 1 .. seq + 1 /\ given'[seq + 1] = f
        /\ \A i \in 1 .. seq : given'[i] = given[i]
        /\ DOMAIN given = 1 .. seq /\ seq \in Nat
    BY <1>1, <2>1, NodeHas, Appended DEF CountInv
  <2>3. \A i \in DOMAIN pushed :
          /\ pushed[i].seq \in 1 .. seq /\ given[pushed[i].seq].n = pushed[i].n
          /\ \A k \in 1 .. i - 1 : pushed[k].seq < pushed[i].seq
    BY <2>2 DEF CountInv
  <2>4. \A i \in DOMAIN pushed :
          /\ pushed[i].seq \in DOMAIN given' /\ given'[pushed[i].seq].n = pushed[i].n
          /\ pushed[i].seq < seq + 1
    BY <2>2, <2>3
  <2>5. msg'.seq = seq + 1 /\ msg'.n = f.n
    BY <2>1
  <2>6. policy \in {"Block", "j1939"} =>
          /\ pc' \notin {"evict", "refill"}
          /\ Len(pushed) + Len(InHand)' = seq + 1
    <3>1. SUFFICES ASSUME policy \in {"Block", "j1939"} PROVE Len(pushed) + Len(InHand)' = seq + 1
      BY <2>1
    <3>2. Len(InHand) = 0 /\ Len(InHand)' = 1
      BY <1>1, <2>1 DEF InHand
    <3>3. Len(pushed) + 0 = seq /\ Len(pushed) \in Nat
      BY <3>1, <3>2, NodeHas DEF CountInv
    <3> QED BY <2>2, <3>2, <3>3
  <2>7. seq + 1 \in 1 .. seq + 1
    BY <2>2
  <2> QED BY <1>1, <2>1, <2>2, <2>3, <2>4, <2>5, <2>6, <2>7 DEF CountInv, Busy
<1>3. CASE ~Wanted(f)
  <2>1. UNCHANGED <<seq, msg, pc, given>>
    BY <1>3 DEF FwdTake
  <2> QED BY <1>1, <2>1 DEF CountInv, Busy, InHand
<1> QED BY <1>2, <1>3

\* The message in hand is put out.
LEMMA CountPut ==
    ASSUME NodeType, CountInv, Busy, PutOut, pc = "put" \/ pc = "refill"
    PROVE  CountInv'
<1>1. /\ pushed' = Append(pushed, msg) /\ pc' = "range" /\ UNCHANGED <<seq, msg, given, arranged>>
  BY DEF PutOut
<1>2. /\ msg.seq = seq /\ seq \in DOMAIN given /\ given[seq].n = msg.n /\ seq = Len(given)
      /\ \A i \in DOMAIN pushed :
            /\ pushed[i].seq < seq
            /\ pushed[i].seq \in DOMAIN given /\ given[pushed[i].seq].n = pushed[i].n
            /\ \A k \in 1 .. i - 1 : pushed[k].seq < pushed[i].seq
  BY DEF CountInv
<1>3. /\ DOMAIN pushed' = 1 .. Len(pushed) + 1 /\ Len(pushed') = Len(pushed) + 1
      /\ pushed'[Len(pushed) + 1] = msg /\ Len(pushed) \in Nat /\ DOMAIN pushed = 1 .. Len(pushed)
      /\ \A i \in 1 .. Len(pushed) : pushed'[i] = pushed[i]
  BY <1>1, NodeHas, Appended
<1>4. ASSUME NEW i \in DOMAIN pushed'
      PROVE  /\ pushed'[i].seq \in DOMAIN given /\ given[pushed'[i].seq].n = pushed'[i].n
             /\ \A k \in 1 .. i - 1 : pushed'[k].seq < pushed'[i].seq
  <2>1. CASE i \in 1 .. Len(pushed)
    <3>1. \A k \in 1 .. i - 1 : k \in 1 .. Len(pushed)
      BY <1>3, <2>1
    <3> QED BY <1>2, <1>3, <2>1, <3>1
  <2>2. CASE i \notin 1 .. Len(pushed)
    <3>1. i = Len(pushed) + 1 /\ \A k \in 1 .. i - 1 : k \in 1 .. Len(pushed)
      BY <1>3, <2>2
    <3> QED BY <1>2, <1>3, <3>1
  <2> QED BY <2>1, <2>2
<1>5. policy \in {"Block", "j1939"} => Len(pushed') + Len(InHand)' = Len(given)
  <2>1. SUFFICES ASSUME policy \in {"Block", "j1939"} PROVE Len(pushed') + Len(InHand)' = Len(given)
    OBVIOUS
  <2>2. pc = "put" /\ Len(pushed) + Len(InHand) = Len(given)
    BY <2>1 DEF CountInv
  <2>3. Len(InHand) = 1 /\ Len(InHand)' = 0
    BY <1>1, <2>2 DEF InHand
  <2> QED BY <1>3, <2>2, <2>3
<1> QED BY <1>1, <1>2, <1>4, <1>5 DEF CountInv, Busy

\* CountInv after any step.
LEMMA CountStep ==
    ASSUME TypeOK, CountInv, [Next]_vars
    PROVE  CountInv'
<1>1. NodeType /\ BusType
  BY TypeIs
<1>2. CASE UNCHANGED <<arranged, pushed, given, seq, msg, pc>>
  BY <1>2 DEF CountInv, Busy, InHand
<1>3. CASE FwdTake
  BY <1>1, <1>3, CountTaken
<1>4. CASE FwdPut \/ FwdRefill
  BY <1>1, <1>4, CountPut DEF FwdPut, FwdRefill, Busy
<1>5. CASE FwdSubscribe \/ FwdEnd
  <2>1. UNCHANGED <<arranged, pushed, given, seq, msg>> /\ ~Busy /\ ~Busy'
    BY <1>5 DEF FwdSubscribe, FwdEnd, Busy
  <2>2. InHand' = InHand
    BY <2>1 DEF InHand, Busy
  <2> QED BY <2>1, <2>2 DEF CountInv, Busy
<1>6. CASE FwdDrop \/ FwdFull \/ FwdEvict
  <2>1. /\ UNCHANGED <<arranged, pushed, given, seq, msg>> /\ (Busy' => Busy)
        /\ policy \notin {"Block", "j1939"}
    BY <1>6 DEF FwdDrop, FwdFull, FwdEvict, Busy, CountInv
  <2> QED BY <2>1 DEF CountInv
<1>7. CASE Consume
  BY <1>2, <1>7 DEF Consume
<1>8. CASE (Feed \/ BusClose \/ Cancel) /\ UNCHANGED forwarderVars
  <2>1. arranged' = arranged
    BY <1>8 DEF Feed, BusClose, Cancel, SkipMalformed, StopAtMalformed, FeedFrame, FeedRefused,
           ReplayCancelled, FeedEOF, FeedReadFails, FeederEnds
  <2> QED BY <1>2, <1>8, <2>1
<1>9. CASE UNCHANGED vars
  BY <1>2, <1>9 DEF vars
<1> QED BY <1>2, <1>3, <1>4, <1>5, <1>6, <1>7, <1>8, <1>9, StepIs DEF Forward

\* Frames on the way of the forwarder have places in the input.
LEMMA NumbersAre ==
    ASSUME TypeOK
    PROVE  /\ \A j \in DOMAIN chan["node"] : chan["node"][j].n \in Nat
           /\ \A i \in DOMAIN pushed : pushed[i].n \in Nat
           /\ msg.n \in Nat
<1>1. BusType /\ NodeType /\ "node" \in Subs /\ Places \subseteq Nat
  BY TypeIs, InputIs DEF Subs, FeedType
<1>2. \A f \in FrameType : f.n \in Nat
  BY <1>1 DEF FrameType
<1>3. \A m \in MessageType : m.n \in Nat
  <2>1. \A m \in MessageType : m.n \in Places \cup {0}
    BY DEF MessageType
  <2>2. \A x \in Places \cup {0} : x \in Nat
    BY <1>1
  <2> QED BY <2>1, <2>2
<1>4. \A j \in DOMAIN chan["node"] : chan["node"][j] \in FrameType
  BY <1>1, ChannelIs, ElementOfSeq
<1>5. msg \in MessageType /\ pushed \in Seq(MessageType) /\ DOMAIN pushed = 1 .. Len(pushed)
  BY <1>1, NodeHas
<1>6. \A i \in DOMAIN pushed : pushed[i] \in MessageType
  BY <1>5, ElementOfSeq
<1> QED BY <1>2, <1>3, <1>4, <1>5, <1>6

\* A frame joins the way of the forwarder, at its end: it is the newest.
LEMMA WayFed ==
    ASSUME TypeOK, WayInv, FeedFrame, UNCHANGED forwarderVars
    PROVE  WayInv'
<1> DEFINE way == chan["node"]
           f == [n |-> place, kind |-> input[place]]
<1>1. BusType /\ NodeType /\ FeedType /\ "node" \in Subs
  BY TypeIs DEF Subs
<1>2. place \in Nat /\ place \in Places /\ Places \subseteq Nat
  BY <1>1, InputIs DEF FeedType, FeedFrame, Feeding
<1>3. f \in FrameType /\ BusSend(f) /\ place' = place + 1
  BY <1>2 DEF FeedFrame, FrameType, Proper
<1>4. way' = way \/ way' = Append(way, f)
  BY <1>1, <1>3, SendIs
<1>5. way \in Seq(FrameType) /\ Len(way) \in Nat /\ DOMAIN way = 1 .. Len(way)
  BY <1>1, ChannelIs
<1>6. /\ \A j \in DOMAIN way : way[j].n \in Nat
      /\ \A i \in DOMAIN pushed : pushed[i].n \in Nat
      /\ msg.n \in Nat
  BY NumbersAre
<1>7. f.n = place
  OBVIOUS
<1> HIDE DEF f, way
<1>8. \A j \in DOMAIN way' :
         \/ j \in DOMAIN way /\ way'[j] = way[j] /\ \A k \in 1 .. j - 1 : k \in DOMAIN way /\ way'[k] = way[k]
         \/ way'[j].n = place /\ \A k \in 1 .. j - 1 : k \in DOMAIN way /\ way'[k] = way[k]
  BY <1>3, <1>4, <1>5, <1>7, Appended
<1>9. /\ \A j \in DOMAIN way : way[j].n < place /\ \A k \in 1 .. j - 1 : way[k].n < way[j].n
      /\ \A i \in DOMAIN pushed :
            pushed[i].n < place /\ \A j \in DOMAIN way : pushed[i].n < way[j].n
      /\ Busy => /\ msg.n \in Places /\ msg.n < place
                 /\ \A j \in DOMAIN way : msg.n < way[j].n
                 /\ \A i \in DOMAIN pushed : pushed[i].n < msg.n
  BY DEF WayInv, way
<1>10. ASSUME NEW j \in DOMAIN way'
       PROVE  /\ way'[j].n < place + 1 /\ \A k \in 1 .. j - 1 : way'[k].n < way'[j].n
              /\ \A i \in DOMAIN pushed : pushed[i].n < way'[j].n
              /\ Busy => msg.n < way'[j].n
  BY <1>2, <1>6, <1>8, <1>9
<1>11. (\A i \in DOMAIN pushed : pushed[i].n < place + 1) /\ (Busy => msg.n < place + 1)
  BY <1>2, <1>6, <1>9
<1>12. UNCHANGED <<pushed, msg, Busy>>
  BY DEF Busy
<1> QED BY <1>3, <1>9, <1>10, <1>11, <1>12 DEF WayInv, way

\* The forwarder takes the next frame of its way.
LEMMA WayTaken ==
    ASSUME TypeOK, WayInv, FwdTake
    PROVE  WayInv'
<1> DEFINE way == chan["node"]
           f == Head(way)
<1>1. BusType /\ "node" \in Subs
  BY TypeIs DEF Subs
<1>2. /\ f = way[1] /\ f \in FrameType /\ Len(way) > 0 /\ Len(way) \in Nat
      /\ DOMAIN way = 1 .. Len(way) /\ DOMAIN way' = 1 .. Len(way) - 1
      /\ \A j \in DOMAIN way' : way'[j] = way[j + 1] /\ j + 1 \in DOMAIN way
  <2>1. Pending("node") /\ Receive("node")
    BY DEF FwdTake
  <2>2. /\ f = way[1] /\ f \in FrameType /\ Len(way) > 0 /\ Len(way') = Len(way) - 1 /\ BusType'
        /\ \A j \in 1 .. Len(way) - 1 : way'[j] = way[j + 1]
    BY <1>1, <2>1, ReceiveIs
  <2>3. Len(way) \in Nat /\ DOMAIN way = 1 .. Len(way) /\ DOMAIN way' = 1 .. Len(way')
    BY <1>1, <2>2, ChannelIs, LenProperties DEF BusType
  <2> HIDE DEF way, f
  <2> QED BY <2>2, <2>3
<1>3. /\ UNCHANGED <<place, pushed, arranged>> /\ pc = "range"
      /\ \/ pc' = "range"
         \/ msg'.n = f.n
  BY DEF FwdTake
<1>4. f.n \in Places
  BY <1>2 DEF FrameType
<1>5. /\ \A j \in DOMAIN way : way[j].n < place /\ \A k \in 1 .. j - 1 : way[k].n < way[j].n
      /\ \A i \in DOMAIN pushed :
            pushed[i].n < place /\ \A j \in DOMAIN way : pushed[i].n < way[j].n
  BY DEF WayInv
<1> HIDE DEF way, f
<1>6. 1 \in DOMAIN way /\ \A j \in DOMAIN way' : 1 \in 1 .. (j + 1) - 1
  BY <1>2
<1>7. f.n < place /\ (\A j \in DOMAIN way' : f.n < way'[j].n)
      /\ \A i \in DOMAIN pushed : pushed[i].n < f.n
  BY <1>2, <1>5, <1>6
<1>8. \A j \in DOMAIN way' : way'[j].n < place /\ \A k \in 1 .. j - 1 : way'[k].n < way'[j].n
  <2> TAKE j \in DOMAIN way'
  <2>1. way'[j] = way[j + 1] /\ j + 1 \in DOMAIN way
    BY <1>2
  <2>2. \A k \in 1 .. j - 1 : way'[k] = way[k + 1] /\ k + 1 \in 1 .. (j + 1) - 1
    BY <1>2
  <2> QED BY <1>5, <2>1, <2>2
<1>9. \A i \in DOMAIN pushed : \A j \in DOMAIN way' : pushed[i].n < way'[j].n
  BY <1>2, <1>5
<1> QED BY <1>3, <1>4, <1>5, <1>7, <1>8, <1>9 DEF WayInv, Busy, way

\* It puts the message out: what is still on its way is newer.
LEMMA WayPut ==
    ASSUME NodeType, WayInv, Busy, PutOut
    PROVE  WayInv'
<1>1. /\ pushed' = Append(pushed, msg) /\ pc' = "range" /\ UNCHANGED <<place, chan, arranged>>
  BY DEF PutOut
<1>2. \A i \in DOMAIN pushed' : pushed'[i] = msg \/ (i \in DOMAIN pushed /\ pushed'[i] = pushed[i])
  <2>1. pushed \in Seq(MessageType) /\ msg \in MessageType
    BY DEF NodeType
  <2>2. /\ DOMAIN pushed = 1 .. Len(pushed) /\ DOMAIN pushed' = 1 .. Len(pushed) + 1
        /\ pushed'[Len(pushed) + 1] = msg /\ Len(pushed) \in Nat
        /\ \A i \in 1 .. Len(pushed) : pushed'[i] = pushed[i]
    BY <1>1, <2>1, Appended
  <2> QED BY <2>2
<1> QED BY <1>1, <1>2 DEF WayInv, Busy

\* WayInv after any step.
LEMMA WayStep ==
    ASSUME TypeOK, WayInv, [Next]_vars
    PROVE  WayInv'
<1>1. NodeType /\ BusType /\ "node" \in Subs /\ "sink" \in Subs
  BY TypeIs DEF Subs
<1>2. CASE UNCHANGED <<place, pushed, msg>> /\ chan'["node"] = chan["node"] /\ (Busy' => Busy)
  BY <1>2 DEF WayInv
<1>3. CASE FwdTake
  BY <1>3, WayTaken
<1>4. CASE FwdPut \/ FwdRefill
  BY <1>1, <1>4, WayPut DEF FwdPut, FwdRefill, Busy
<1>5. CASE FwdSubscribe \/ FwdEnd \/ FwdDrop \/ FwdFull \/ FwdEvict \/ Consume
  BY <1>2, <1>5 DEF FwdSubscribe, Join, FwdEnd, FwdDrop, FwdFull, FwdEvict, Consume, Busy
<1>6. CASE FeedFrame /\ UNCHANGED forwarderVars
  BY <1>6, WayFed
<1>7. CASE SkipMalformed /\ UNCHANGED forwarderVars
  <2>1. place' = place + 1 /\ UNCHANGED <<chan, pushed, msg, Busy>>
    BY <1>7 DEF SkipMalformed, Busy
  <2>2. place \in Nat /\ Places \subseteq Nat
    BY TypeIs, InputIs DEF FeedType
  <2>3. /\ \A j \in DOMAIN chan["node"] : chan["node"][j].n \in Nat
        /\ \A i \in DOMAIN pushed : pushed[i].n \in Nat
        /\ msg.n \in Nat
    BY NumbersAre
  <2>4. \A n \in Nat : n < place => n < place + 1
    BY <2>2
  <2> QED BY <2>1, <2>3, <2>4 DEF WayInv
<1>8. CASE (StopAtMalformed \/ FeedRefused \/ ReplayCancelled \/ FeedEOF \/ FeedReadFails \/ BusClose \/ Cancel)
           /\ UNCHANGED forwarderVars
  BY <1>2, <1>8 DEF StopAtMalformed, FeedRefused, ReplayCancelled, FeedEOF, FeedReadFails, FeederEnds, BusClose,
                    Cancel, Busy
<1>9. CASE Drain /\ UNCHANGED <<feederVars, forwarderVars>>
  <2>1. chan'["node"] = chan["node"]
    <3>1. CASE Receives
      BY <1>1, <3>1, ReceiveIs DEF Receives
    <3>2. CASE UNCHANGED chan
      BY <3>2
    <3> QED BY <1>9, <3>1, <3>2
          DEF Drain, SinkSubscribe, Join, SinkPut, SinkPutFails, DumpLoses, RecordLine, RecordLineFails, SinkEOF,
              RecordEOF, SinkCancelled, RecordCancelled, ReaderDeadline
  <2> QED BY <1>2, <1>9, <2>1 DEF Busy
<1>10. CASE UNCHANGED vars
  BY <1>2, <1>10 DEF vars, Busy
<1> QED BY <1>3, <1>4, <1>5, <1>6, <1>7, <1>8, <1>9, <1>10, StepIs DEF Forward, Feed

\* out exists as long as the goroutine runs.
LEMMA LifeStep ==
    ASSUME LifeInv, [Next]_vars
    PROVE  LifeInv'
<1>1. CASE UNCHANGED <<pc, life>>
  BY <1>1 DEF LifeInv, Busy
<1>2. CASE Forward
  BY <1>2 DEF Forward, FwdSubscribe, FwdTake, FwdPut, FwdDrop, FwdFull, FwdEvict, FwdRefill, FwdEnd,
              PutOut, LifeInv, Busy
<1> QED BY <1>1, <1>2, StepIs DEF Consume, vars

-----------------------------------------------------------------------------
(* The sinks. *)

\* The stream of a subscription grows by a frame that waits in its channel.
LEMMA RestGrows ==
    ASSUME NEW S, NEW w \in Seq(S), NEW b \in Seq(S), NEW stream \in Seq(S), NEW way \in Seq(S),
           NEW f \in S, OutOf(w, b, stream)
    PROVE  /\ OutOf(w, b, Append(stream, f))
           /\ Rest(way, w, b, stream) => Rest(Append(way, f), w, b, Append(stream, f))
<1>1. /\ Len(w) \in Nat /\ Len(b) \in Nat /\ Len(way) \in Nat /\ Len(stream) \in Nat
      /\ DOMAIN w = 1 .. Len(w) /\ DOMAIN b = 1 .. Len(b) /\ DOMAIN way = 1 .. Len(way)
      /\ DOMAIN stream = 1 .. Len(stream)
  BY LenProperties
<1> DEFINE s == Append(stream, f)
           v == Append(way, f)
<1>2. /\ Len(s) = Len(stream) + 1 /\ DOMAIN s = 1 .. Len(stream) + 1 /\ s[Len(stream) + 1] = f
      /\ \A i \in 1 .. Len(stream) : s[i] = stream[i]
  BY Appended
<1>3. /\ Len(v) = Len(way) + 1 /\ DOMAIN v = 1 .. Len(way) + 1 /\ v[Len(way) + 1] = f
      /\ \A i \in 1 .. Len(way) : v[i] = way[i]
  BY Appended
<1> HIDE DEF s, v
<1>4. OutOf(w, b, s)
  BY <1>1, <1>2 DEF OutOf
<1>5. ASSUME Rest(way, w, b, stream)
      PROVE  Rest(v, w, b, s)
  <2>1. Len(stream) = Len(w) + Len(b) + Len(way)
    BY <1>5 DEF Rest
  <2>2. \A i \in 1 .. Len(way) : way[i] = stream[Len(w) + Len(b) + i]
    BY <1>1, <1>5 DEF Rest
  <2>3. Len(s) = Len(w) + Len(b) + Len(v)
    BY <1>1, <1>2, <1>3, <2>1
  <2>4. \A i \in 1 .. Len(way) : Len(w) + Len(b) + i \in 1 .. Len(stream)
    BY <1>1, <2>1
  <2>5. ASSUME NEW i, i \in DOMAIN v
        PROVE  v[i] = s[Len(w) + Len(b) + i]
    <3>1. CASE i \in 1 .. Len(way)
      BY <1>2, <1>3, <2>2, <2>4, <3>1
    <3>2. CASE i = Len(way) + 1
      <4>1. Len(w) + Len(b) + i = Len(stream) + 1
        BY <1>1, <2>1, <3>2
      <4> QED BY <1>2, <1>3, <3>2, <4>1
    <3> QED BY <1>1, <1>3, <2>5, <3>1, <3>2
  <2> QED BY <2>3, <2>5 DEF Rest
<1> QED BY <1>4, <1>5 DEF s, v

\* The next frame of the channel is held back, or put out where nothing is held back.
LEMMA NextOut ==
    ASSUME NEW S, NEW w \in Seq(S), NEW b \in Seq(S), NEW stream \in Seq(S), NEW way \in Seq(S),
           OutOf(w, b, stream), Rest(way, w, b, stream), way # <<>>
    PROVE  /\ OutOf(w, Append(b, Head(way)), stream)
           /\ Rest(Tail(way), w, Append(b, Head(way)), stream)
           /\ b = <<>> => /\ OutOf(Append(w, Head(way)), b, stream)
                          /\ Rest(Tail(way), Append(w, Head(way)), b, stream)
<1> DEFINE f == Head(way)
           rest == Tail(way)
           held == Append(b, f)
           put == Append(w, f)
<1>1. /\ Len(w) \in Nat /\ Len(b) \in Nat /\ Len(stream) \in Nat
      /\ DOMAIN w = 1 .. Len(w) /\ DOMAIN b = 1 .. Len(b) /\ DOMAIN stream = 1 .. Len(stream)
  BY LenProperties
<1>2. /\ Len(rest) = Len(way) - 1 /\ DOMAIN rest = 1 .. Len(way) - 1 /\ f = way[1] /\ f \in S
      /\ \A i \in 1 .. Len(way) - 1 : rest[i] = way[i + 1]
      /\ Len(way) \in Nat /\ Len(way) > 0 /\ DOMAIN way = 1 .. Len(way)
  BY Shortened
<1> HIDE DEF f, rest
<1>3. /\ Len(held) = Len(b) + 1 /\ DOMAIN held = 1 .. Len(b) + 1 /\ held[Len(b) + 1] = f
      /\ \A i \in 1 .. Len(b) : held[i] = b[i]
  BY <1>2, Appended
<1>4. /\ Len(put) = Len(w) + 1 /\ DOMAIN put = 1 .. Len(w) + 1 /\ put[Len(w) + 1] = f
      /\ \A i \in 1 .. Len(w) : put[i] = w[i]
  BY <1>2, Appended
<1> HIDE DEF held, put
<1>5. /\ Len(stream) = Len(w) + Len(b) + Len(way)
      /\ \A i \in 1 .. Len(way) : way[i] = stream[Len(w) + Len(b) + i]
      /\ \A i \in 1 .. Len(w) : i \in 1 .. Len(stream) /\ w[i] = stream[i]
      /\ \A i \in 1 .. Len(b) : Len(w) + i \in 1 .. Len(stream) /\ b[i] = stream[Len(w) + i]
  BY <1>1, <1>2 DEF Rest, OutOf
<1>6. f = stream[Len(w) + Len(b) + 1] /\ Len(w) + Len(b) + 1 \in 1 .. Len(stream)
  BY <1>1, <1>2, <1>5
<1>7. \A i \in 1 .. Len(way) - 1 : rest[i] = stream[Len(w) + Len(b) + 1 + i]
  <2> TAKE i \in 1 .. Len(way) - 1
  <2>1. i + 1 \in 1 .. Len(way) /\ Len(w) + Len(b) + (i + 1) = Len(w) + Len(b) + 1 + i
    BY <1>1, <1>2
  <2>2. way[i + 1] = stream[Len(w) + Len(b) + (i + 1)]
    BY <1>5, <2>1
  <2> QED BY <1>2, <2>1, <2>2
<1>8. OutOf(w, held, stream)
  <2>1. ASSUME NEW i, i \in DOMAIN held
        PROVE  Len(w) + i \in DOMAIN stream /\ held[i] = stream[Len(w) + i]
    <3>1. CASE i \in 1 .. Len(b)
      BY <1>1, <1>3, <1>5, <3>1
    <3>2. CASE i = Len(b) + 1
      <4>1. Len(w) + i = Len(w) + Len(b) + 1
        BY <1>1, <3>2
      <4> QED BY <1>1, <1>3, <1>6, <3>2, <4>1
    <3> QED BY <1>1, <1>3, <2>1, <3>1, <3>2
  <2> QED BY <1>1, <1>5, <2>1 DEF OutOf
<1>9. Rest(rest, w, held, stream)
  <2>1. Len(stream) = Len(w) + Len(held) + Len(rest) /\ Len(w) + Len(held) = Len(w) + Len(b) + 1
    BY <1>1, <1>2, <1>3, <1>5
  <2> QED BY <1>2, <1>7, <2>1 DEF Rest
<1>10. ASSUME b = <<>>
       PROVE  OutOf(put, b, stream) /\ Rest(rest, put, b, stream)
  <2>1. Len(b) = 0 /\ DOMAIN b = {}
    BY <1>1, <1>10
  <2>2. Len(w) + Len(b) + 1 = Len(w) + 1 /\ Len(put) + Len(b) = Len(w) + Len(b) + 1
    BY <1>1, <1>4, <2>1
  <2>3. \A i \in DOMAIN put : i \in DOMAIN stream /\ put[i] = stream[i]
    <3>1. \A i \in DOMAIN put : i \in 1 .. Len(w) \/ i = Len(w) + 1
      BY <1>1, <1>4
    <3> QED BY <1>1, <1>4, <1>5, <1>6, <2>2, <3>1
  <2>4. Len(stream) = Len(put) + Len(b) + Len(rest)
    <3>1. /\ Len(stream) = Len(w) + Len(b) + Len(way) /\ Len(put) = Len(w) + 1
          /\ Len(rest) = Len(way) - 1 /\ Len(b) = 0 /\ Len(way) \in Nat /\ Len(w) \in Nat
      BY <1>1, <1>2, <1>4, <1>5, <2>1
    <3> QED BY <3>1
  <2> QED BY <1>2, <1>7, <2>1, <2>2, <2>3, <2>4 DEF OutOf, Rest
<1> QED BY <1>8, <1>9, <1>10 DEF f, rest, held, put

\* What is held back goes out.
LEMMA FlushedOut ==
    ASSUME NEW S, NEW w \in Seq(S), NEW b \in Seq(S), NEW stream \in Seq(S), NEW way \in Seq(S),
           OutOf(w, b, stream)
    PROVE  /\ w \o b \in Seq(S) /\ Len(w \o b) = Len(w) + Len(b)
           /\ OutOf(w \o b, <<>>, stream)
           /\ Rest(way, w, b, stream) => Rest(way, w \o b, <<>>, stream)
<1> DEFINE put == w \o b
<1>1. /\ Len(w) \in Nat /\ Len(b) \in Nat /\ Len(stream) \in Nat
      /\ DOMAIN w = 1 .. Len(w) /\ DOMAIN b = 1 .. Len(b) /\ DOMAIN stream = 1 .. Len(stream)
  BY LenProperties
<1>2. /\ put \in Seq(S) /\ Len(put) = Len(w) + Len(b)
      /\ \A i \in 1 .. Len(w) + Len(b) : put[i] = IF i <= Len(w) THEN w[i] ELSE b[i - Len(w)]
  BY ConcatProperties
<1>3. DOMAIN put = 1 .. Len(w) + Len(b)
  BY <1>2, LenProperties
<1> HIDE DEF put
<1>4. ASSUME NEW i, i \in DOMAIN put
      PROVE  i \in DOMAIN stream /\ put[i] = stream[i]
  <2>1. CASE i <= Len(w)
    <3>1. i \in DOMAIN w /\ put[i] = w[i]
      BY <1>1, <1>2, <1>3, <1>4, <2>1
    <3> QED BY <3>1 DEF OutOf
  <2>2. CASE ~(i <= Len(w))
    <3>1. i - Len(w) \in DOMAIN b /\ put[i] = b[i - Len(w)] /\ Len(w) + (i - Len(w)) = i
      BY <1>1, <1>2, <1>3, <1>4, <2>2
    <3>2. Len(w) + (i - Len(w)) \in DOMAIN stream /\ b[i - Len(w)] = stream[Len(w) + (i - Len(w))]
      BY <3>1 DEF OutOf
    <3> QED BY <3>1, <3>2
  <2> QED BY <2>1, <2>2
<1>5. OutOf(put, <<>>, stream)
  BY <1>4 DEF OutOf
<1>6. ASSUME Rest(way, w, b, stream) PROVE Rest(way, put, <<>>, stream)
  <2>1. Len(put) + Len(<<>>) = Len(w) + Len(b)
    BY <1>1, <1>2
  <2> QED BY <1>6, <2>1 DEF Rest
<1> QED BY <1>2, <1>5, <1>6 DEF put

\* What a sink holds, and what the bus holds for it.
LEMMA SinkHas ==
    ASSUME TypeOK
    PROVE  /\ "sink" \in Subs /\ accepted["sink"] \in Seq(FrameType) /\ chan["sink"] \in Seq(FrameType)
           /\ buffered \in Seq(FrameType) /\ written \in Seq(FrameType)
           /\ Len(written) \in Nat /\ Len(accepted["sink"]) \in Nat
           /\ DOMAIN accepted["sink"] = 1 .. Len(accepted["sink"]) /\ Count \in Nat
           /\ DOMAIN written = 1 .. Len(written)
BY TypeIs, ChannelIs, LenProperties, SinksAssumption DEF Subs, SinkType

\* The bus gives a sink a frame more.
LEMMA SunkFed ==
    ASSUME TypeOK, SunkInv, FeedFrame, UNCHANGED sinkVars
    PROVE  SunkInv'
<1> DEFINE stream == accepted["sink"]
           way == chan["sink"]
           f == [n |-> place, kind |-> input[place]]
<1>1. BusType /\ FeedType /\ "sink" \in Subs
  BY TypeIs DEF Subs
<1>2. f \in FrameType /\ BusSend(f)
  <2>1. place \in Places
    BY <1>1, InputIs DEF FeedType, FeedFrame, Feeding
  <2> QED BY <2>1 DEF FeedFrame, Proper, FrameType
<1>3. \/ way' = way /\ stream' = stream
      \/ way' = Append(way, f) /\ stream' = Append(stream, f)
  BY <1>1, <1>2, SendIs
<1>4. UNCHANGED <<at, sunk, written, buffered, missing, arranged, cancelled, open>> /\ open
  BY <1>2 DEF FeedFrame, BusSend
<1>5. /\ stream \in Seq(FrameType) /\ way \in Seq(FrameType)
      /\ buffered \in Seq(FrameType) /\ written \in Seq(FrameType)
  BY SinkHas
<1>6. /\ OutOf(written, buffered, stream)
      /\ at # "done" => Rest(way, written, buffered, stream)
  BY DEF SunkInv
<1> HIDE DEF f, stream, way
<1>7. /\ OutOf(written, buffered, stream')
      /\ at # "done" => Rest(way', written, buffered, stream')
  BY <1>2, <1>3, <1>5, <1>6, RestGrows
<1> QED BY <1>4, <1>7 DEF SunkInv, stream, way

\* It puts a frame out, or takes it into its buffer; or it fails at it.
LEMMA SunkTook ==
    ASSUME TypeOK, SunkInv, SinkPut \/ SinkPutFails \/ DumpLoses \/ RecordLine \/ RecordLineFails
    PROVE  SunkInv'
<1> DEFINE stream == accepted["sink"]
           way == chan["sink"]
<1>1. BusType /\ Receives /\ Pending("sink") /\ Receive("sink")
  BY TypeIs DEF SinkPut, SinkPutFails, DumpLoses, RecordLine, RecordLineFails, Receives
<1>2. /\ stream \in Seq(FrameType) /\ way \in Seq(FrameType) /\ "sink" \in Subs
      /\ buffered \in Seq(FrameType) /\ written \in Seq(FrameType)
      /\ Len(written) \in Nat /\ Count \in Nat
  BY SinkHas
<1>3. /\ way' = Tail(way) /\ stream' = stream /\ open' = open /\ way # <<>>
      /\ UNCHANGED <<arranged, cancelled>> /\ Head(way) \in FrameType
  BY <1>1, <1>2, ReceiveIs DEF Receives, Pending
<1>4. /\ OutOf(written, buffered, stream) /\ Rest(way, written, buffered, stream)
      /\ sunk = "running" /\ (sink # "record" => buffered = <<>>)
      /\ (sink \in {"reader", "subscribeCount"} => Len(written) < Count)
      /\ (sink # "dump" => missing = {})
  BY <1>1 DEF SunkInv, Receives
<1>5. Frame = Head(way)
  BY DEF Frame
<1> HIDE DEF stream, way
<1>6. CASE SinkPut
  <2>1. /\ written' = Append(written, Head(way)) /\ buffered' = buffered /\ buffered = <<>>
        /\ sink # "record" /\ missing' = missing
    BY <1>4, <1>5, <1>6 DEF SinkPut
  <2>2. OutOf(written', buffered', stream') /\ Rest(way', written', buffered', stream')
    BY <1>2, <1>3, <1>4, <2>1, NextOut
  <2>3. Len(written') = Len(written) + 1
    BY <1>2, <1>3, <2>1, Appended
  <2>4. CASE Reached
    <3>1. sink \in {"reader", "subscribeCount"} /\ Len(written') >= Count /\ at' = "done"
          /\ sunk' = "nil"
      BY <1>6, <2>4 DEF SinkPut, Reached, SinkEnds
    <3>2. Len(written') = Count
      BY <1>2, <1>4, <2>3, <3>1
    <3> QED BY <1>3, <2>1, <2>2, <3>1, <3>2 DEF SunkInv, stream, way
  <2>5. CASE ~Reached
    <3>1. (sink \in {"reader", "subscribeCount"} => Len(written') < Count) /\ at' = at
          /\ sunk' = "running"
      BY <1>2, <1>4, <1>6, <2>3, <2>5 DEF SinkPut, Reached, SinkGoesOn
    <3> QED BY <1>3, <2>1, <2>2, <3>1 DEF SunkInv, stream, way
  <2> QED BY <2>4, <2>5
<1>7. CASE SinkPutFails \/ RecordLineFails
  <2>1. at' = "done" /\ sunk' = "error" /\ UNCHANGED <<buffered, written, missing>>
    BY <1>7 DEF SinkPutFails, RecordLineFails, SinkEnds
  <2> QED BY <1>3, <1>4, <2>1 DEF SunkInv, stream, way
<1>8. CASE RecordLine
  <2>1. sink = "record" /\ at' = at /\ sunk' = "running" /\ missing' = missing
    BY <1>4, <1>8 DEF RecordLine, SinkGoesOn
  <2>2. OutOf(written', buffered', stream') /\ Rest(way', written', buffered', stream')
    <3>1. CASE buffered' = Append(buffered, Frame) /\ UNCHANGED written
      BY <1>2, <1>3, <1>4, <1>5, <3>1, NextOut
    <3>2. CASE buffered' = <<Frame>> /\ written' = written \o buffered
      <4>1. /\ written' \in Seq(FrameType) /\ OutOf(written', <<>>, stream)
            /\ Rest(way, written', <<>>, stream)
        BY <1>2, <1>4, <3>2, FlushedOut
      <4>2. <<>> \in Seq(FrameType) /\ Append(<<>>, Head(way)) = <<Head(way)>>
        OBVIOUS
      <4>3. /\ OutOf(written', Append(<<>>, Head(way)), stream)
            /\ Rest(Tail(way), written', Append(<<>>, Head(way)), stream)
        BY <1>2, <1>3, <4>1, <4>2, NextOut
      <4> QED BY <1>3, <1>5, <3>2, <4>2, <4>3
    <3> QED BY <1>8, <3>1, <3>2 DEF RecordLine
  <2> QED BY <1>3, <2>1, <2>2 DEF SunkInv, stream, way
<1>9. CASE DumpLoses
  <2>1. /\ written' = Append(written, Head(way)) /\ buffered' = buffered /\ buffered = <<>>
        /\ sink = "dump" /\ at' = at /\ sunk' = "running"
    BY <1>4, <1>5, <1>9 DEF DumpLoses, SinkGoesOn
  <2>2. OutOf(written', buffered', stream') /\ Rest(way', written', buffered', stream')
    BY <1>2, <1>3, <1>4, <2>1, NextOut
  <2> QED BY <1>3, <2>1, <2>2 DEF SunkInv, stream, way
<1> QED BY <1>6, <1>7, <1>8, <1>9

\* It ends: with all it was given only if its channel had ended.
LEMMA SunkEnds ==
    ASSUME TypeOK, SunkInv,
           SinkEOF \/ RecordEOF \/ SinkCancelled \/ RecordCancelled \/ ReaderDeadline
    PROVE  SunkInv'
<1> DEFINE stream == accepted["sink"]
           way == chan["sink"]
<1>1. /\ stream \in Seq(FrameType) /\ way \in Seq(FrameType)
      /\ buffered \in Seq(FrameType) /\ written \in Seq(FrameType)
      /\ Len(written) \in Nat /\ Len(stream) \in Nat
  BY SinkHas
<1>2. /\ at = "loop" /\ at' = "done" /\ UNCHANGED <<arranged, cancelled, open, chan, accepted>>
      /\ missing' = missing
      /\ \/ UNCHANGED <<written, buffered>>
         \/ sink = "record" /\ written' = written \o buffered /\ buffered' = <<>>
  BY DEF SinkEOF, RecordEOF, SinkCancelled, RecordCancelled, ReaderDeadline, SinkEnds, Flush,
         FlushFails
<1>3. /\ OutOf(written, buffered, stream) /\ Rest(way, written, buffered, stream)
      /\ (sink # "record" => buffered = <<>>) /\ (sink # "dump" => missing = {})
  BY <1>2 DEF SunkInv
<1> HIDE DEF stream, way
<1>4. /\ OutOf(written', buffered', stream) /\ Rest(way, written', buffered', stream)
      /\ (sink # "record" => buffered' = <<>>) /\ written' \in Seq(FrameType)
  <2>1. CASE UNCHANGED <<written, buffered>>
    BY <1>1, <1>3, <2>1
  <2>2. CASE written' = written \o buffered /\ buffered' = <<>>
    <3>1. /\ written \o buffered \in Seq(FrameType) /\ OutOf(written \o buffered, <<>>, stream)
          /\ Rest(way, written \o buffered, <<>>, stream)
      BY <1>1, <1>3, FlushedOut
    <3> QED BY <2>2, <3>1
  <2> QED BY <1>2, <2>1, <2>2
<1>5. sunk' = "nil" =>
        \/ cancelled /\ sink # "reader"
        \/ sink # "reader" /\ ~open /\ way = <<>> /\ buffered' = <<>>
  <2>1. CASE SinkEOF
    BY <1>4, <2>1 DEF SinkEOF, SinkEnds, AtEnd, way
  <2>2. CASE RecordEOF
    BY <2>2 DEF RecordEOF, SinkEnds, AtEnd, Flush, FlushError, way
  <2>3. CASE SinkCancelled \/ RecordCancelled \/ ReaderDeadline
    BY <2>3 DEF SinkCancelled, RecordCancelled, ReaderDeadline, SinkEnds
  <2> QED BY <2>1, <2>2, <2>3
<1>6. way = <<>> /\ buffered' = <<>> => Len(written') = Len(stream)
  <2>1. SUFFICES ASSUME way = <<>>, buffered' = <<>> PROVE Len(written') = Len(stream)
    OBVIOUS
  <2>2. Len(written') \in Nat /\ Len(way) = 0 /\ Len(buffered') = 0
    BY <1>4, <2>1, LenProperties
  <2> QED BY <1>4, <2>2 DEF Rest
<1> QED BY <1>2, <1>3, <1>4, <1>5, <1>6 DEF SunkInv, stream, way

\* SunkInv after any step.
LEMMA SunkStep ==
    ASSUME TypeOK, SunkInv, [Next]_vars
    PROVE  SunkInv'
<1>1. BusType /\ "sink" \in Subs /\ "node" \in Subs /\ "node" # "sink"
  BY TypeIs DEF Subs
<1>2. CASE /\ UNCHANGED <<at, sunk, written, buffered, missing, arranged>>
           /\ chan'["sink"] = chan["sink"] /\ accepted'["sink"] = accepted["sink"]
           /\ (cancelled => cancelled') /\ (open' => open)
  BY <1>2 DEF SunkInv
<1>3. CASE (Feed \/ BusClose \/ Cancel) /\ UNCHANGED sinkVars
  <2>1. CASE FeedFrame
    BY <1>3, <2>1, SunkFed
  <2>2. CASE SkipMalformed \/ StopAtMalformed \/ FeedRefused \/ ReplayCancelled \/ FeedEOF \/ FeedReadFails
             \/ BusClose \/ Cancel
    BY <1>2, <1>3, <2>2 DEF SkipMalformed, StopAtMalformed, FeedRefused, ReplayCancelled, FeedEOF, FeedReadFails,
                          FeederEnds, BusClose, Cancel
  <2> QED BY <1>3, <2>1, <2>2 DEF Feed
<1>4. CASE (Forward \/ Consume) /\ UNCHANGED <<cancelled, arranged, sinkVars>>
  <2>1. /\ chan'["sink"] = chan["sink"] /\ accepted' = accepted /\ open' = open
    <3>1. CASE Receive("node") /\ Pending("node")
      BY <1>1, <3>1, ReceiveIs
    <3>2. CASE UNCHANGED <<chan, accepted, open>>
      BY <3>2
    <3> QED BY <1>4, <3>1, <3>2
          DEF Forward, Consume, FwdSubscribe, Join, FwdTake, FwdPut, FwdDrop, FwdFull, FwdEvict,
              FwdRefill, FwdEnd, PutOut
  <2> QED BY <1>2, <1>4, <2>1
<1>5. CASE SinkSubscribe
  <2>1. UNCHANGED <<written, buffered, missing, arranged, chan, accepted, cancelled, open>>
    BY <1>5 DEF SinkSubscribe, Join
  <2>2. at = "new" /\ \/ at' = "loop" /\ sunk' = sunk
                      \/ at' = "done" /\ sunk' = "error"
    BY <1>5 DEF SinkSubscribe, SinkEnds
  <2> QED BY <2>1, <2>2 DEF SunkInv
<1>6. CASE SinkPut \/ SinkPutFails \/ DumpLoses \/ RecordLine \/ RecordLineFails
  BY <1>6, SunkTook
<1>7. CASE SinkEOF \/ RecordEOF \/ SinkCancelled \/ RecordCancelled \/ ReaderDeadline
  BY <1>7, SunkEnds
<1>8. CASE UNCHANGED vars
  BY <1>2, <1>8 DEF vars
<1> QED BY <1>3, <1>4, <1>5, <1>6, <1>7, <1>8, StepIs DEF Drain

-----------------------------------------------------------------------------
(* The invariant, and what follows from it. *)

\* The invariant holds at the start.
LEMMA InvInit == Init => IInv
<1> SUFFICES ASSUME Init PROVE IInv
  OBVIOUS
<1>1. /\ place = 1 /\ fed = "running" /\ passed = <<>>
      /\ chan["sink"] = <<>> /\ chan["node"] = <<>> /\ accepted["sink"] = <<>>
      /\ pc = "new" /\ life = "none" /\ seq = 0 /\ given = <<>> /\ pushed = <<>>
      /\ at = "new" /\ sunk = "running" /\ buffered = <<>> /\ written = <<>> /\ missing = {}
  BY DEF Init, FeedsInit, ForwarderInit, SinksInit, Subs
<1>2. TypeOK
  BY TypeInit
<1>3. FedInv
  BY <1>1 DEF FedInv, SentUpTo
<1>4. CountInv
  <2>1. InHand = <<>> /\ ~Busy
    BY <1>1 DEF InHand, Busy
  <2> QED BY <1>1, <2>1 DEF CountInv
<1>5. WayInv /\ LifeInv
  BY <1>1 DEF WayInv, LifeInv, Busy
<1>6. SunkInv
  <2>1. 0 < Count
    BY SinksAssumption
  <2> QED BY <1>1, <2>1 DEF SunkInv, OutOf, Rest
<1> QED BY <1>2, <1>3, <1>4, <1>5, <1>6 DEF IInv, NodeInv

\* Every step keeps it.
LEMMA InvStep == IInv /\ [Next]_vars => IInv'
BY TypeStep, FedStep, CountStep, WayStep, LifeStep, SunkStep DEF IInv, NodeInv

\* Feeder, forwarder and sink do their part at any time: what has been sent is what comes
\* before the place in the input, what a forwarder numbers is counted where it is taken, and
\* what a sink has handed to its output, what it holds back and what waits for it are what its
\* subscription was given; only dump goes on after its output has refused a frame.
THEOREM PipelineInvariant == Spec => []IInv
  BY InvInit, InvStep, PTL DEF Spec

\* NumbersTell (Forwarder): the number of a message tells which of the frames to be forwarded it
\* is, and numbers grow, so that a hole is what back-pressure dropped; a policy that waits
\* drops nothing.
THEOREM AdapterNumbersTell == Spec => []NumbersTell
<1>1. IInv => NumbersTell
  BY DEF IInv, NodeInv, CountInv, NumbersTell
<1> QED BY <1>1, PipelineInvariant, PTL

\* What a feeder has sent, of its input.
LEMMA FedAll == IInv => FedInFull
<1> SUFFICES ASSUME IInv PROVE FedInFull
  OBVIOUS
<1>1. FedInv /\ FeedType
  BY TypeIs DEF IInv
<1>2. Len(input) \in Nat /\ place \in 1 .. Len(input) + 1
  BY <1>1, InputIs DEF FeedType
<1>3. fed = "nil" => SentUpTo(Len(input))
  <2>1. SUFFICES ASSUME fed = "nil" PROVE SentUpTo(Len(input))
    OBVIOUS
  <2>2. place > Len(input) /\ SentUpTo(place - 1)
    BY <1>1, <2>1 DEF FedInv
  <2>3. place - 1 = Len(input)
    BY <1>2, <2>2
  <2> QED BY <2>2, <2>3
<1> QED BY <1>1, <1>3 DEF FedInv, FedInFull

\* What a sink has put out, of its stream.
LEMMA SunkAll == IInv => SunkInFull
<1> SUFFICES ASSUME IInv PROVE SunkInFull
  OBVIOUS
<1> DEFINE stream == accepted["sink"]
           n == Len(written)
<1>1. SunkInv
  BY DEF IInv
<1>2. /\ stream \in Seq(FrameType) /\ written \in Seq(FrameType) /\ n \in Nat /\ Len(stream) \in Nat
      /\ DOMAIN stream = 1 .. Len(stream) /\ DOMAIN written = 1 .. n
  BY SinkHas DEF IInv
<1>3. \A i \in 1 .. n : i \in 1 .. Len(stream) /\ written[i] = stream[i]
  BY <1>1, <1>2 DEF SunkInv, OutOf
<1> HIDE DEF stream, n
<1>4. n <= Len(stream)
  <2>1. CASE n = 0
    BY <1>2, <2>1
  <2>2. CASE n # 0
    <3>1. n \in 1 .. n
      BY <1>2, <2>2
    <3> QED BY <1>2, <1>3, <3>1
  <2> QED BY <2>1, <2>2
<1>5. written = SubSeq(stream, 1, n)
  <2>1. /\ SubSeq(stream, 1, n) \in Seq(FrameType) /\ Len(SubSeq(stream, 1, n)) = n
        /\ \A i \in 1 .. n : SubSeq(stream, 1, n)[i] = stream[i]
    <3>1. \A i \in 1 .. n : i \in 1 .. Len(stream)
      BY <1>3
    <3>2. SubSeq(stream, 1, n) = [i \in 1 .. n |-> stream[i]]
      BY <1>2
    <3>3. \A i \in 1 .. n : stream[i] \in FrameType
      BY <1>2, <3>1, ElementOfSeq
    <3>4. [i \in 1 .. n |-> stream[i]] \in Seq(FrameType) /\ Len([i \in 1 .. n |-> stream[i]]) = n
      BY <1>2, <3>3
    <3> QED BY <3>2, <3>4
  <2>2. Len(written) = n
    BY DEF n
  <2> QED BY <1>2, <1>3, <2>1, <2>2, SeqEqual
<1>6. n = Len(stream) => written = stream
  <2>1. Len(written) = n
    BY DEF n
  <2> QED BY <1>2, <1>3, <2>1, SeqEqual
<1>7. sunk = "nil" =>
        \/ cancelled /\ sink # "reader"
        \/ sink \in {"reader", "subscribeCount"} /\ n = Count
        \/ sink # "reader" /\ n = Len(stream)
  BY <1>1 DEF SunkInv, stream, n
<1>8. sink # "dump" => missing = {}
  BY <1>1 DEF SunkInv
<1> QED BY <1>4, <1>5, <1>6, <1>7, <1>8 DEF SunkInFull, stream, n

\* SuccessIsComplete (Pipeline): a feeder that ends without an error has sent every frame of its
\* input, and a sink that does and was not cancelled has handed to its output all it was given
\* or as many frames as it was asked for; the output has taken them, except that dump reports
\* success for lines it could not print, too.  At any time neither has skipped, repeated or
\* swapped a frame.  Inputs and outputs may fail at any place.
THEOREM SuccessTellsTruth == Spec => []SuccessIsComplete
<1>1. IInv => SuccessIsComplete
  BY FedAll, SunkAll DEF SuccessIsComplete
<1> QED BY <1>1, PipelineInvariant, PTL

-----------------------------------------------------------------------------
(* The channel of the forwarder is a subscription of a can.Bus, for its consumer. *)

\* A message as its consumer sees it.
Item(m) == [src |-> "bus", n |-> m.n, kind |-> m.kind]
Items == [src : {"bus"}, n : Places \cup {0}, kind : {"wanted", "other"}]

\* The messages of a channel as their consumer sees them.
LEMMA NamedIs ==
    ASSUME NEW s, s \in Seq(MessageType)
    PROVE  /\ Named(s) \in Seq(Items) /\ Len(Named(s)) = Len(s) /\ Len(s) \in Nat
           /\ DOMAIN Named(s) = 1 .. Len(s)
           /\ \A i \in 1 .. Len(s) : Named(s)[i] = Item(s[i])
<1>1. DOMAIN s = 1 .. Len(s) /\ Len(s) \in Nat
  BY LenProperties
<1>2. \A i \in 1 .. Len(s) : Item(s[i]) \in Items
  <2>1. \A m \in MessageType : Item(m) \in Items
    BY DEF MessageType, Item, Items
  <2>2. \A i \in 1 .. Len(s) : s[i] \in MessageType
    BY ElementOfSeq
  <2> QED BY <2>1, <2>2
<1>3. Named(s) = [i \in 1 .. Len(s) |-> Item(s[i])]
  BY <1>1 DEF Named, Item
<1>4. Named(s) \in Seq(Items) /\ Len(Named(s)) = Len(s)
  <2> HIDE DEF Item, Items
  <2> QED BY <1>1, <1>2, <1>3
<1> QED BY <1>1, <1>3, <1>4

\* A message more.
LEMMA NamedGrows ==
    ASSUME NEW s, s \in Seq(MessageType), NEW m, m \in MessageType
    PROVE  Named(Append(s, m)) = Append(Named(s), Item(m))
<1> DEFINE t == Append(s, m)
<1>1. /\ t \in Seq(MessageType) /\ Len(t) = Len(s) + 1 /\ Len(s) \in Nat /\ t[Len(s) + 1] = m
      /\ \A i \in 1 .. Len(s) : t[i] = s[i]
  BY Appended
<1> HIDE DEF t
<1>2. /\ Named(s) \in Seq(Items) /\ Len(Named(s)) = Len(s)
      /\ \A i \in 1 .. Len(s) : Named(s)[i] = Item(s[i])
  BY NamedIs
<1>3. /\ Named(t) \in Seq(Items) /\ Len(Named(t)) = Len(t)
      /\ \A i \in 1 .. Len(t) : Named(t)[i] = Item(t[i])
  BY <1>1, NamedIs
<1>4. Item(m) \in Items
  BY DEF MessageType, Item, Items
<1>5. /\ Append(Named(s), Item(m)) \in Seq(Items) /\ Len(Append(Named(s), Item(m))) = Len(s) + 1
      /\ Append(Named(s), Item(m))[Len(s) + 1] = Item(m)
      /\ \A i \in 1 .. Len(s) : Append(Named(s), Item(m))[i] = Named(s)[i]
  BY <1>2, <1>4, Appended
<1>6. \A i \in 1 .. Len(s) + 1 : i \in 1 .. Len(s) \/ i = Len(s) + 1
  BY <1>1
<1>7. \A i \in 1 .. Len(t) : Named(t)[i] = Append(Named(s), Item(m))[i]
  BY <1>1, <1>2, <1>3, <1>5, <1>6
<1>8. Named(t) = Append(Named(s), Item(m))
  BY <1>1, <1>3, <1>5, <1>7, SeqEqual
<1> QED BY <1>8 DEF t

\* A message less.
LEMMA NamedShrinks ==
    ASSUME NEW s, s \in Seq(MessageType), s # <<>>
    PROVE  Named(s) # <<>> /\ Named(Tail(s)) = Tail(Named(s))
<1> DEFINE t == Tail(s)
<1>1. /\ t \in Seq(MessageType) /\ Len(t) = Len(s) - 1 /\ Len(s) \in Nat /\ Len(s) > 0
      /\ \A i \in 1 .. Len(s) - 1 : t[i] = s[i + 1]
  BY Shortened
<1> HIDE DEF t
<1>2. /\ Named(s) \in Seq(Items) /\ Len(Named(s)) = Len(s)
      /\ \A i \in 1 .. Len(s) : Named(s)[i] = Item(s[i])
  BY NamedIs
<1>3. /\ Named(t) \in Seq(Items) /\ Len(Named(t)) = Len(t)
      /\ \A i \in 1 .. Len(t) : Named(t)[i] = Item(t[i])
  BY <1>1, NamedIs
<1>4. Named(s) # <<>>
  BY <1>1, <1>2, EmptySeq
<1>5. /\ Tail(Named(s)) \in Seq(Items) /\ Len(Tail(Named(s))) = Len(s) - 1
      /\ \A i \in 1 .. Len(s) - 1 : Tail(Named(s))[i] = Named(s)[i + 1]
  BY <1>2, <1>4, Shortened
<1>6. \A i \in 1 .. Len(s) - 1 : i + 1 \in 1 .. Len(s)
  BY <1>1
<1>7. \A i \in 1 .. Len(t) : Named(t)[i] = Tail(Named(s))[i]
  BY <1>1, <1>2, <1>3, <1>5, <1>6
<1>8. Named(t) = Tail(Named(s))
  BY <1>1, <1>3, <1>5, <1>7, SeqEqual
<1> QED BY <1>4, <1>8 DEF t

\* What a step can do to the channel of the forwarder.
LEMMA StreamMoves ==
    ASSUME IInv, [Next]_vars
    PROVE  \/ UNCHANGED <<out, pushed, life>>
           \/ life = "none" /\ life' = "open" /\ UNCHANGED <<out, pushed>>
           \/ Busy /\ Len(out) < OutDepth /\ life = "open" /\ life' = life
              /\ out' = Append(out, msg) /\ pushed' = Append(pushed, msg)
           \/ out # <<>> /\ out' = Tail(out) /\ UNCHANGED <<pushed, life>>
           \/ life = "open" /\ life' = "closed" /\ UNCHANGED <<out, pushed>>
<1>1. LifeInv /\ Len(out) \in Nat /\ OutDepth \in Nat
  <2>1. out \in Seq(MessageType)
    BY DEF IInv, TypeOK
  <2> QED BY <2>1, ForwarderAssumption, LenProperties DEF IInv, NodeInv
<1>2. CASE FwdSubscribe
  BY <1>1, <1>2 DEF FwdSubscribe, LifeInv
<1>3. CASE FwdTake \/ FwdDrop \/ FwdFull
  BY <1>3 DEF FwdTake, FwdDrop, FwdFull
<1>4. CASE FwdPut \/ FwdRefill
  BY <1>1, <1>4 DEF FwdPut, FwdRefill, PutOut, Full, LifeInv, Busy
<1>5. CASE FwdEvict \/ Consume
  BY <1>5 DEF FwdEvict, Evicted, Consume
<1>6. CASE FwdEnd
  BY <1>1, <1>6 DEF FwdEnd, LifeInv
<1>7. CASE UNCHANGED forwarderVars
  BY <1>7
<1> QED BY <1>2, <1>3, <1>4, <1>5, <1>6, <1>7, StepIs DEF Forward, vars

\* Every step is a step of the subscription or none.
LEMMA StreamStep ==
    ASSUME IInv, [Next]_vars
    PROVE  [Stream!BusNext]_(Stream!busVars)
<1>1. /\ out \in Seq(MessageType) /\ pushed \in Seq(MessageType) /\ msg \in MessageType
      /\ WayInv
  BY DEF IInv, NodeInv, TypeOK
<1>2. CASE UNCHANGED <<out, pushed, life>>
  <2>1. UNCHANGED Stream!busVars
    BY <1>2 DEF Stream!busVars, Named
  <2> QED BY <2>1
<1>3. CASE life = "none" /\ life' = "open" /\ UNCHANGED <<out, pushed>>
  <2>1. Named(out)' = Named(out) /\ Named(pushed)' = Named(pushed)
    BY <1>3 DEF Named
  <2>2. Stream!Open("node")
    <3> HIDE DEF Named
    <3> QED BY <1>3, <2>1 DEF Stream!Open
  <2> QED BY <2>2 DEF Stream!BusNext
<1>4. CASE Busy /\ Len(out) < OutDepth /\ life = "open" /\ life' = life
           /\ out' = Append(out, msg) /\ pushed' = Append(pushed, msg)
  <2>1. /\ Named(out)' = Append(Named(out), Item(msg))
        /\ Named(pushed)' = Append(Named(pushed), Item(msg))
    <3>1. Named(out)' = Named(out') /\ Named(pushed)' = Named(pushed')
      BY DEF Named
    <3> QED BY <1>1, <1>4, <3>1, NamedGrows
  <2>2. Len(Named(out)) < OutDepth
    BY <1>1, <1>4, NamedIs
  <2>3. Item(msg) \in Stream!Frames
    <3>1. msg.n \in Places /\ msg.kind \in {"wanted", "other"}
      BY <1>1, <1>4 DEF WayInv, MessageType
    <3> QED BY <3>1 DEF Item, Stream!Frames
  <2>4. \A i \in DOMAIN Named(pushed) : Named(pushed)[i].n < Item(msg).n
    <3>1. \A i \in DOMAIN pushed : pushed[i].n < msg.n
      BY <1>1, <1>4 DEF WayInv
    <3>2. /\ DOMAIN Named(pushed) = 1 .. Len(pushed) /\ DOMAIN pushed = 1 .. Len(pushed)
          /\ \A i \in 1 .. Len(pushed) : Named(pushed)[i] = Item(pushed[i])
      BY <1>1, NamedIs, LenProperties
    <3>3. \A m : Item(m).n = m.n
      BY DEF Item
    <3> QED BY <3>1, <3>2, <3>3
  <2>5. Stream!Newer("node", Item(msg))
    BY <2>4 DEF Stream!Newer
  <2>6. Item(msg).kind \in {"wanted", "other"}
    BY <2>3 DEF Stream!Frames
  <2>7. Stream!Offer("node", Item(msg))
    <3> HIDE DEF Named, Item
    <3> QED BY <1>4, <2>1, <2>2, <2>5, <2>6 DEF Stream!Offer
  <2> QED BY <2>3, <2>7 DEF Stream!BusNext
<1>5. CASE out # <<>> /\ out' = Tail(out) /\ UNCHANGED <<pushed, life>>
  <2>1. Named(out) # <<>> /\ Named(out)' = Tail(Named(out)) /\ Named(pushed)' = Named(pushed)
    <3>1. Named(out)' = Named(out') /\ Named(pushed)' = Named(pushed')
      BY DEF Named
    <3> QED BY <1>1, <1>5, <3>1, NamedShrinks
  <2>2. Stream!Leave("node")
    <3> HIDE DEF Named
    <3> QED BY <1>5, <2>1 DEF Stream!Leave
  <2> QED BY <2>2 DEF Stream!BusNext
<1>6. CASE life = "open" /\ life' = "closed" /\ UNCHANGED <<out, pushed>>
  <2>1. Named(out)' = Named(out) /\ Named(pushed)' = Named(pushed)
    BY <1>6 DEF Named
  <2>2. Stream!CloseAll
    <3> HIDE DEF Named
    <3> QED BY <1>6, <2>1 DEF Stream!CloseAll
  <2> QED BY <2>2 DEF Stream!BusNext
<1> QED BY <1>2, <1>3, <1>4, <1>5, <1>6, StreamMoves

\* ImplementsStream (Forwarder): the channel an adapter or a j1939 filter hands out is, for its
\* consumer, a subscription of a can.Bus: a bounded FIFO of frames in bus order, none twice,
\* closed once and for good - under every policy, whatever it drops.
THEOREM AdapterImplementsStream == Spec => ImplementsStream
<1>1. Init => Stream!BusInit
  <2> SUFFICES ASSUME Init PROVE Stream!BusInit
    OBVIOUS
  <2>1. out = <<>> /\ pushed = <<>> /\ life = "none"
    BY DEF Init, ForwarderInit
  <2>2. Named(<<>>) = <<>>
    <3>1. <<>> \in Seq(MessageType) /\ Len(<<>>) = 0
      OBVIOUS
    <3>2. Named(<<>>) \in Seq(Items) /\ Len(Named(<<>>)) = 0
      BY <3>1, NamedIs
    <3> QED BY <3>2, EmptySeq
  <2> HIDE DEF Named
  <2> QED BY <2>1, <2>2 DEF Stream!BusInit
<1>2. IInv /\ [Next]_vars => [Stream!BusNext]_(Stream!busVars)
  BY StreamStep
<1> QED BY <1>1, <1>2, PipelineInvariant, PTL DEF Spec, ImplementsStream, Stream!BusSpec
=============================================================================
