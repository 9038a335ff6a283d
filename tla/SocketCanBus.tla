---------------------------- MODULE SocketCanBus ----------------------------
(***************************************************************************)
(* socketcan/bus_linux.go: a Bus on a Linux CAN_RAW socket.  One goroutine, *)
(* readLoop, copies what the kernel received to the subscriptions; Close    *)
(* runs beside it in separate steps, and so do Subscribe, which never looks *)
(* whether the bus is closed, and Send, a single write(2) on the socket.    *)
(*                                                                         *)
(* Critical sections of b.mu that cannot block are one action; readLoop     *)
(* holds the read lock while it is in "walk".                               *)
(***************************************************************************)
EXTENDS Naturals, Sequences, FiniteSets

CONSTANTS
    Peers,      \* the other nodes on the CAN bus
    Subs,       \* goroutines that call Subscribe once and range over the channel
    Closers,    \* goroutines that call Close
    Senders,    \* goroutines that call Send
    Kinds,      \* what filters can tell apart in a frame
    Wants,      \* Wants[c]: the kinds that pass the filters of c
    Depth,      \* ChanDepth: capacity of a subscriber channel
    SockDepth,  \* frames the kernel keeps for the socket
    MaxFrames,  \* bound: frames per peer
    MaxSends    \* bound: calls of Send per sender

ASSUME ConfigAssumption ==
    /\ Subs \cap Closers = {} /\ Subs \cap Senders = {} /\ Closers \cap Senders = {}
    /\ Kinds # {}
    /\ Wants \in [Subs -> SUBSET Kinds]
    /\ Depth \in Nat \ {0} /\ SockDepth \in Nat \ {0}
    /\ MaxFrames \in Nat /\ MaxSends \in Nat

VARIABLES
    sock, fd,           \* frames waiting in the kernel; the descriptor is open
    up,                 \* the interface is up
    done,               \* b.done is closed
    subs, closed,       \* b.subs; Close's critical section has run
    chan, open,         \* per subscription: buffer; not yet close()d
    once,               \* b.once: "new", "running" or "over"
    loop, frame, todo,  \* readLoop: where it is, the frame in hand, subscriptions left
    pc,                 \* per goroutine: where it is
    count,              \* frames each peer has sent
    calls,              \* calls of Send made by each sender
    put, late           \* histories: what was put on each channel; the subscriptions
                        \* made when Close had ended the others

kernelVars == <<sock, fd, up, count>>
busVars == <<done, subs, closed, once>>
chanVars == <<chan, open, put, late>>
loopVars == <<loop, frame, todo>>
vars == <<kernelVars, busVars, chanVars, loopVars, calls, pc>>

Frames == [src : Peers, n : 1 .. MaxFrames, kind : Kinds]
Hold == frame[1]        \* the frame in hand

Init ==
    /\ sock = <<>> /\ fd = TRUE /\ up = TRUE /\ done = FALSE
    /\ subs = <<>> /\ closed = FALSE /\ once = "new"
    /\ chan = [c \in Subs |-> <<>>] /\ open = [c \in Subs |-> FALSE]
    /\ loop = "poll" /\ frame = <<>> /\ todo = <<>>
    /\ pc = [p \in Subs \cup Closers \cup Senders |-> IF p \in Subs THEN "new" ELSE "idle"]
    /\ count = [p \in Peers |-> 0]
    /\ calls = [s \in Senders |-> 0]
    /\ put = [c \in Subs |-> <<>>] /\ late = {}

Goto(p, l) == pc' = [pc EXCEPT ![p] = l]

\* The kernel receives a frame for the socket; it keeps no more than SockDepth.
Arrive(p, k) ==
    /\ up /\ count[p] < MaxFrames
    /\ count' = [count EXCEPT ![p] = @ + 1]
    /\ sock' = IF Len(sock) < SockDepth
               THEN Append(sock, [src |-> p, n |-> count[p] + 1, kind |-> k]) ELSE sock
    /\ UNCHANGED <<fd, up, busVars, chanVars, loopVars, calls, pc>>

\* The interface is taken down and does not come back.
GoesDown == up /\ up' = FALSE /\ UNCHANGED <<sock, fd, count, busVars, chanVars, loopVars, calls, pc>>

-----------------------------------------------------------------------------
(* readLoop.  "poll" looks at done, "enter" is before unix.Read, "read" inside  *)
(* it, "lock" before RLock.  Definitions named Fault... are seeded bugs.        *)

LoopPolls ==
    /\ loop = "poll"
    /\ loop' = IF done THEN "exited" ELSE "enter"
    /\ UNCHANGED <<kernelVars, busVars, chanVars, frame, todo, calls, pc>>

\* Read fails on a closed descriptor; one already inside it is not woken by close(2).
LoopEnters ==
    /\ loop = "enter"
    /\ loop' = IF fd THEN "read" ELSE "exited"
    /\ UNCHANGED <<kernelVars, busVars, chanVars, frame, todo, calls, pc>>

\* Read reports once that the interface is gone, and readLoop ends without a word to
\* its subscriptions.
LoopFails ==
    /\ loop = "read" /\ ~up
    /\ loop' = "exited"
    /\ UNCHANGED <<kernelVars, busVars, chanVars, frame, todo, calls, pc>>

\* Read returns the next frame; one of another size than a CAN or CAN FD frame
\* is skipped, which the kernel never hands out.
LoopReads ==
    /\ loop = "read" /\ sock # <<>>
    /\ frame' = <<Head(sock)>>
    /\ sock' = Tail(sock)
    /\ loop' = "lock"
    /\ UNCHANGED <<fd, up, count, busVars, chanVars, todo, calls, pc>>

LoopLocks ==
    /\ loop = "lock"
    /\ loop' = "walk"
    /\ todo' = subs
    /\ UNCHANGED <<kernelVars, busVars, chanVars, frame, calls, pc>>

Target == Head(todo)
FaultFiltersIgnored(c) == TRUE
Matches(c) == Hold.kind \in Wants[c]
FaultOneTooMany(c) == Len(chan[c]) <= Depth
HasRoom(c) == Len(chan[c]) < Depth

\* select { case s.ch <- f: default: }, whatever BackPressure was asked for.
LoopDelivers ==
    /\ loop = "walk" /\ todo # <<>>
    /\ todo' = Tail(todo)
    /\ IF Matches(Target) /\ HasRoom(Target)
       THEN /\ chan' = [chan EXCEPT ![Target] = Append(@, Hold)]
            /\ put' = [put EXCEPT ![Target] = Append(@, Hold)]
       ELSE UNCHANGED <<chan, put>>
    /\ UNCHANGED <<kernelVars, busVars, open, late, loop, frame, calls, pc>>

LoopUnlocks ==
    /\ loop = "walk" /\ todo = <<>>
    /\ loop' = "poll" /\ frame' = <<>>
    /\ UNCHANGED <<kernelVars, busVars, chanVars, todo, calls, pc>>

LoopStep == LoopPolls \/ LoopEnters \/ LoopFails \/ LoopReads \/ LoopLocks \/ LoopDelivers \/ LoopUnlocks

-----------------------------------------------------------------------------
(* Subscribe and the consumers *)

\* Nobody holds the read lock.
FaultNoLock == TRUE
FaultWaitsForLoop == loop = "exited"
Exclusive == loop # "walk"

SubscribeCall(c) ==
    /\ pc[c] = "new"
    /\ Goto(c, "lock")
    /\ UNCHANGED <<kernelVars, busVars, chanVars, loopVars, calls>>

\* No look at done or closed: it always succeeds, and a late one stays on the list.
Subscribe(c) ==
    /\ pc[c] = "lock" /\ Exclusive
    /\ subs' = Append(subs, c)
    /\ open' = [open EXCEPT ![c] = TRUE]
    /\ Goto(c, "reading")
    /\ late' = IF closed THEN late \cup {c} ELSE late
    /\ UNCHANGED <<kernelVars, done, closed, once, chan, put, loopVars, calls>>

Receive(c) ==
    /\ pc[c] = "reading" /\ chan[c] # <<>>
    /\ chan' = [chan EXCEPT ![c] = Tail(@)]
    /\ UNCHANGED <<kernelVars, busVars, open, put, late, loopVars, calls, pc>>

ReceiveEOF(c) ==
    /\ pc[c] = "reading" /\ chan[c] = <<>> /\ ~open[c]
    /\ Goto(c, "eof")
    /\ UNCHANGED <<kernelVars, busVars, chanVars, loopVars, calls>>

-----------------------------------------------------------------------------
(* Close: once.Do(close(done); unix.Close(fd); end the subscriptions) *)

CloseCall(k) ==
    /\ pc[k] = "idle"
    /\ Goto(k, "once")
    /\ UNCHANGED <<kernelVars, busVars, chanVars, loopVars, calls>>

CloseFirst(k) ==
    /\ pc[k] = "once" /\ once = "new"
    /\ once' = "running"
    /\ done' = TRUE
    /\ Goto(k, "fd")
    /\ UNCHANGED <<kernelVars, subs, closed, chanVars, loopVars, calls>>

\* A second caller leaves Do when the first has left it.
FaultOnceReturnsEarly == once # "new"
OnceOver == once = "over"
CloseAgain(k) ==
    /\ pc[k] = "once" /\ OnceOver
    /\ Goto(k, "done")
    /\ UNCHANGED <<kernelVars, busVars, chanVars, loopVars, calls>>

CloseSocket(k) ==
    /\ pc[k] = "fd"
    /\ fd' = FALSE
    /\ Goto(k, "lock")
    /\ UNCHANGED <<sock, up, count, busVars, chanVars, loopVars, calls>>

EndStreams == open' = [c \in Subs |-> open[c] /\ \A i \in DOMAIN subs : subs[i] # c]

CloseSubs(k) ==
    /\ pc[k] = "lock" /\ Exclusive
    /\ EndStreams
    /\ subs' = <<>> /\ closed' = TRUE /\ once' = "over"
    /\ Goto(k, "done")
    /\ UNCHANGED <<kernelVars, done, chan, put, late, loopVars, calls>>

CloseStep(k) == CloseFirst(k) \/ CloseAgain(k) \/ CloseSocket(k) \/ CloseSubs(k)

-----------------------------------------------------------------------------
(* Send: a write(2), which may have to wait for room in the socket's send buffer and *)
(* then keeps the socket although the descriptor is closed.                            *)

SendEnters(s) ==
    /\ pc[s] = "idle" /\ calls[s] < MaxSends
    /\ calls' = [calls EXCEPT ![s] = @ + 1]
    /\ Goto(s, IF fd THEN "write" ELSE "idle")
    /\ UNCHANGED <<kernelVars, busVars, chanVars, loopVars>>
SendReturns(s) ==       \* with or without an error
    /\ pc[s] = "write" /\ Goto(s, "idle")
    /\ UNCHANGED <<kernelVars, busVars, chanVars, loopVars, calls>>

Next ==
    \/ GoesDown \/ \E p \in Peers, k \in Kinds : Arrive(p, k)
    \/ LoopStep
    \/ \E c \in Subs : SubscribeCall(c) \/ Subscribe(c) \/ Receive(c) \/ ReceiveEOF(c)
    \/ \E k \in Closers : CloseCall(k) \/ CloseStep(k)
    \/ \E s \in Senders : SendEnters(s) \/ SendReturns(s)

Spec == Init /\ [][Next]_vars

\* Goroutines that can go on do, and consumers keep reading.  Nobody is forced
\* to call anything, and peers need not send.
FairSpec ==
    /\ Spec /\ WF_vars(LoopStep)
    /\ \A c \in Subs : WF_vars(Subscribe(c)) /\ WF_vars(Receive(c) \/ ReceiveEOF(c))
    /\ \A k \in Closers : WF_vars(CloseStep(k))

-----------------------------------------------------------------------------
(* Properties *)

\* Every variable has its type; readLoop holds a frame exactly while it has one
\* to deliver, and a channel never holds more than its capacity.
TypeOK ==
    /\ sock \in Seq(Frames) /\ Len(sock) <= SockDepth /\ fd \in BOOLEAN /\ up \in BOOLEAN
    /\ done \in BOOLEAN /\ closed \in BOOLEAN /\ once \in {"new", "running", "over"}
    /\ subs \in Seq(Subs) /\ todo \in Seq(Subs) /\ open \in [Subs -> BOOLEAN]
    /\ chan \in [Subs -> Seq(Frames)] /\ \A c \in Subs : Len(chan[c]) <= Depth
    /\ put \in [Subs -> Seq(Frames)] /\ late \subseteq Subs
    /\ calls \in [Senders -> 0 .. MaxSends] /\ \A s \in Senders : pc[s] \in {"idle", "write"}
    /\ loop \in {"poll", "enter", "read", "lock", "walk", "exited"}
    /\ frame \in Seq(Frames) /\ Len(frame) = IF loop \in {"lock", "walk"} THEN 1 ELSE 0
    /\ count \in [Peers -> 0 .. MaxFrames]
    /\ \A c \in Subs : pc[c] \in {"new", "lock", "reading", "eof"}
    /\ \A k \in Closers : pc[k] \in {"idle", "once", "fd", "lock", "done"}

\* readLoop, which outlives Close by a frame, never sends on a closed channel
\* (bus_linux.go:181-188 against 154-159).
NoSendOnClosed == loop = "walk" => \A i \in DOMAIN todo : open[todo[i]]

\* When one Close has returned the streams have ended, the descriptor is closed and no
\* other Close is still at it (once.Do); and from then on no Send gets hold of the
\* descriptor, which by then may be another file's (bus_linux.go:125 against 149-161).
Returned == \E k \in Closers : pc[k] = "done"
ClosedOnReturn ==
    /\ [](Returned => closed /\ done /\ \A k \in Closers : pc[k] \notin {"fd", "lock"})
    /\ [][Returned => \A s \in Senders : pc'[s] = "write" => pc[s] = "write"]_vars

\* What can.go promises of any Bus, kept towards every subscription that was made when
\* Close had not yet ended the others.
Bus == INSTANCE CanBus WITH
    Sources <- Peers,
    Ranks <- 1 .. MaxFrames,
    shut <- closed,
    life <- [c \in Subs |-> IF c \in late \/ pc[c] \in {"new", "lock"} THEN "none"
                            ELSE IF open[c] THEN "open" ELSE "closed"],
    stream <- [c \in Subs |-> IF c \in late THEN <<>> ELSE put[c]],
    queue <- [c \in Subs |-> IF c \in late THEN <<>> ELSE chan[c]]
ImplementsBus == Bus!BusSpec

\* Once Close is called it returns, the consumer of every subscription made in time
\* sees its channel end, and readLoop ends unless it is inside a read for which no
\* frame comes, even when the interface has gone (bus_linux.go:149-175).
CloseReturns == \A k \in Closers : pc[k] # "idle" ~> pc[k] = "done"
StreamsEnd == \A c \in Subs : (closed /\ pc[c] = "reading" /\ c \notin late) ~> pc[c] = "eof"
LoopEnds == done ~> (loop = "exited" \/ (loop = "read" /\ sock = <<>> /\ up))
ShutdownCompletes == CloseReturns /\ StreamsEnd /\ LoopEnds
=============================================================================
