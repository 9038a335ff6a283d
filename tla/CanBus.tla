------------------------------- MODULE CanBus -------------------------------
(***************************************************************************)
(* What the can.Bus interface (can.go) promises to its users, whatever the *)
(* transport underneath: independent subscriptions, each a bounded FIFO    *)
(* stream that may lose frames but never reorders, duplicates or invents   *)
(* one, and a Close that ends every stream at once and for good.           *)
(***************************************************************************)
EXTENDS Naturals, Sequences

CONSTANTS
    Subs,       \* the Subscribe calls, each with the channel it gets
    Sources,    \* the goroutines (or peers) frames come from
    Kinds,      \* what filters can tell apart in a frame
    Wants,      \* Wants[c]: the kinds the filters of c let through
    Depth,      \* capacity of a subscriber channel
    Ranks       \* numbers that order the frames of one source

VARIABLES
    shut,       \* Close has taken effect
    life,       \* life[c]: "none", "open" or "closed"
    stream,     \* stream[c]: every frame ever accepted for c, in order
    queue       \* queue[c]: what c's channel holds now

busVars == <<shut, life, stream, queue>>

\* A frame is known by its source and its rank among that source's frames.
Frames == [src : Sources, n : Ranks, kind : Kinds]

BusInit ==
    /\ shut = FALSE
    /\ life = [c \in Subs |-> "none"]
    /\ stream = [c \in Subs |-> <<>>]
    /\ queue = [c \in Subs |-> <<>>]

\* Subscribe returns an open, empty channel; after Close it must fail.
Open(c) ==
    /\ ~shut
    /\ life[c] = "none"
    /\ life' = [life EXCEPT ![c] = "open"]
    /\ UNCHANGED <<shut, stream, queue>>

\* f comes after every frame of the same source that c was given.
Newer(c, f) ==
    \A i \in DOMAIN stream[c] : stream[c][i].src = f.src => stream[c][i].n < f.n

\* A matching frame is accepted for an open channel that has room.
Offer(c, f) ==
    /\ life[c] = "open"
    /\ f.kind \in Wants[c]
    /\ Newer(c, f)
    /\ Len(queue[c]) < Depth
    /\ stream' = [stream EXCEPT ![c] = Append(@, f)]
    /\ queue' = [queue EXCEPT ![c] = Append(@, f)]
    /\ UNCHANGED <<shut, life>>

\* The oldest frame leaves: read by the consumer, or displaced by a newer one.
Leave(c) ==
    /\ queue[c] # <<>>
    /\ queue' = [queue EXCEPT ![c] = Tail(@)]
    /\ UNCHANGED <<shut, life, stream>>

\* Close ends every open channel in one step; what is buffered stays readable.
CloseAll ==
    /\ ~shut
    /\ shut' = TRUE
    /\ life' = [c \in Subs |-> IF life[c] = "open" THEN "closed" ELSE life[c]]
    /\ UNCHANGED <<stream, queue>>

BusNext ==
    \/ \E c \in Subs : Open(c) \/ Leave(c)
    \/ \E c \in Subs, f \in Frames : Offer(c, f)
    \/ CloseAll

BusSpec == BusInit /\ [][BusNext]_busVars
=============================================================================
