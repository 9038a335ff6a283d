-------------------------------- MODULE Feeds --------------------------------
(***************************************************************************)
(* What feeds a bus from outside: recorder.Replay, cantool's `send --format *)
(* json' and the interop writer; and the bus as its subscribers see it (its *)
(* inside is VirtualBus).  A frame is numbered by its place in the input.   *)
(***************************************************************************)
EXTENDS Naturals, Sequences

CONSTANTS
    Arrangements,   \* which feeder, with which input, and who listens
    Depth           \* capacity of the channel of a subscription

\* feeder: "replay", "sendJSON" or "writer"
\* input:  its items: frames by their kind, "bad" for what does not parse, "refused"
\*         for a frame the bus does not take
\* sink, node: the program that reads the bus, the goroutine that forwards it; or "none"
ASSUME FeedsAssumption ==
    /\ Depth \in Nat \ {0}
    /\ \A a \in Arrangements :
        /\ a.feeder \in {"replay", "sendJSON", "writer"}
        /\ a.input \in Seq({"wanted", "other", "bad", "refused"})
        /\ a.feeder = "writer" => \A i \in DOMAIN a.input : a.input[i] \in {"wanted", "other"}

VARIABLES
    arranged,           \* one of Arrangements, chosen at the start
    place, fed,         \* the feeder: the item it is at, and its result
    cancelled,          \* the ctx of the programs has been cancelled
    open, chan, joined, \* the bus: not closed, the channels of its subscriptions, and
                        \* which of them have been made
    passed, accepted    \* histories: frames bus.Send took; those put on each channel

feederVars == <<place, fed, passed>>
busVars == <<open, chan, joined, accepted>>
feedVars == <<arranged, feederVars, cancelled, busVars>>

Subs == {"sink", "node"}
Places == UNION {DOMAIN a.input : a \in Arrangements}
feeder == arranged.feeder
input == arranged.input

FeedsInit ==
    /\ arranged \in Arrangements
    /\ place = 1 /\ fed = "running" /\ cancelled = FALSE
    /\ open = TRUE /\ joined = {}
    /\ chan = [c \in Subs |-> <<>>] /\ accepted = [c \in Subs |-> <<>>]
    /\ passed = <<>>

-----------------------------------------------------------------------------
(* The bus *)

\* bus.Subscribe by c, on an open bus.
Join(c) == joined' = joined \cup {c} /\ UNCHANGED <<open, chan, accepted>>

\* A receive from the channel of c; it is closed and read to its end.
Pending(c) == chan[c] # <<>>
Receive(c) == chan' = [chan EXCEPT ![c] = Tail(@)] /\ UNCHANGED <<open, joined, accepted>>
FaultNeverClosed(c) == FALSE
AtEnd(c) == ~open /\ chan[c] = <<>>

\* bus.Send of f: every subscription with room takes it.
Takers == {c \in joined : Len(chan[c]) < Depth}
BusSend(f) ==
    /\ chan' = [c \in Subs |-> IF c \in Takers THEN Append(chan[c], f) ELSE chan[c]]
    /\ accepted' = [c \in Subs |-> IF c \in Takers THEN Append(accepted[c], f) ELSE accepted[c]]
    /\ UNCHANGED <<open, joined>>

BusClose ==
    /\ open /\ open' = FALSE
    /\ UNCHANGED <<arranged, feederVars, cancelled, chan, joined, accepted>>
Cancel ==
    /\ ~cancelled /\ cancelled' = TRUE
    /\ UNCHANGED <<arranged, feederVars, busVars>>

-----------------------------------------------------------------------------
(* The feeders *)

Feeding == fed = "running" /\ place \in DOMAIN input
Is(kind) == input[place] = kind
Proper == input[place] \in {"wanted", "other"}
FeederEnds(how) == fed' = how /\ UNCHANGED <<arranged, place, passed, cancelled, busVars>>

\* Replay skips what does not parse; the others cannot go on.
SkipMalformed ==
    /\ Feeding /\ Is("bad") /\ feeder = "replay"
    /\ place' = place + 1
    /\ UNCHANGED <<arranged, fed, passed, cancelled, busVars>>
StopAtMalformed == Feeding /\ Is("bad") /\ feeder # "replay" /\ FeederEnds("error")

FeedFrame ==
    /\ Feeding /\ Proper /\ open
    /\ BusSend([n |-> place, kind |-> input[place]])
    /\ passed' = Append(passed, place) /\ place' = place + 1
    /\ UNCHANGED <<arranged, fed, cancelled>>

\* bus.Send fails; Replay prefers to report a cancellation.
RefusalIs == IF feeder = "replay" /\ cancelled THEN "cancelled" ELSE "error"
FeedRefused ==
    /\ Feeding
    /\ Is("refused") \/ (Proper /\ ~open)
    /\ FeederEnds(RefusalIs)

\* Replay looks at its ctx only while it waits between two frames.
ReplayCancelled ==
    /\ Feeding /\ feeder = "replay" /\ cancelled
    /\ ~Is("bad") /\ \E i \in 1 .. place - 1 : input[i] # "bad"
    /\ FeederEnds("cancelled")

FeedEOF == fed = "running" /\ place > Len(input) /\ FeederEnds("nil")

\* Reading the input fails, at any place of it: the file breaks, or a line is too long
\* for Replay's Scanner.  The writer has its frames in memory.
FeedReadFails == fed = "running" /\ feeder # "writer" /\ FeederEnds("error")

Feed ==
    \/ SkipMalformed \/ StopAtMalformed \/ FeedFrame \/ FeedRefused \/ ReplayCancelled
    \/ FeedEOF \/ FeedReadFails

\* A feeder that ends without an error has sent every frame of its input, and at any
\* time it has sent, each once and in order, all those before some place of it
\* (recorder.go:68, main.go:336-337).
SentUpTo(p) == \A i \in 1 .. p : input[i] # "bad" => \E j \in DOMAIN passed : passed[j] = i
FedInFull ==
    /\ \A j \in DOMAIN passed :
          /\ passed[j] \in DOMAIN input /\ input[passed[j]] # "bad"
          /\ \A k \in 1 .. j - 1 : passed[k] < passed[j]
          /\ SentUpTo(passed[j])
    /\ fed = "nil" => SentUpTo(Len(input))
=============================================================================
