----------------------------- MODULE VirtualBus -----------------------------
(***************************************************************************)
(* virtual/bus.go: the in-process bus.  Goroutines call Send, Subscribe,   *)
(* Close and CloseWithDrain concurrently; Send walks the subscriptions     *)
(* while it holds the read lock, so every channel operation of that walk   *)
(* is a step of its own and interleaves with other senders, with the       *)
(* consumers and with whoever waits for the write lock.                    *)
(*                                                                         *)
(* sync.RWMutex: `writer' is the goroutine that has announced itself in    *)
(* Lock; from then on RLock blocks, and the writer's critical section runs *)
(* once the readers that were inside have left.                            *)
(***************************************************************************)
EXTENDS Naturals, Sequences, FiniteSets

CONSTANTS
    Senders,    \* goroutines that call Send
    Subs,       \* goroutines that call Subscribe once and range over the channel
    Closers,    \* goroutines that shut the bus down ...
    Drainers,   \* ... those of them that call CloseWithDrain
    Keen,       \* consumers that never stop reading
    Impatient,  \* goroutines whose ctx may be cancelled during a call
    Kinds,      \* what filters can tell apart in a frame
    Wants,      \* Wants[c]: the kinds that pass the filters of c
    Policy,     \* Policy[c]: the back-pressure policy of c
    Depth,      \* ChanDepth: capacity of a subscriber channel
    MaxSends    \* bound: calls of Send per sender

Policies == {"DropNewest", "DropOldest", "Block"}
Procs == Senders \cup Subs \cup Closers
NoProc == "NoProc"

ASSUME ProcsAssumption ==
    /\ Senders \cap Subs = {} /\ Senders \cap Closers = {} /\ Subs \cap Closers = {}
    /\ NoProc \notin Procs
    /\ Drainers \subseteq Closers /\ Keen \subseteq Subs
    /\ Impatient \subseteq Senders \cup Drainers
ASSUME ConfigAssumption ==
    /\ Kinds # {}
    /\ Wants \in [Subs -> SUBSET Kinds]
    /\ Policy \in [Subs -> Policies]
    /\ Depth \in Nat \ {0}
    /\ MaxSends \in Nat

VARIABLES
    readers, writer,                \* b.mu
    subs, closed,                   \* b.subs, b.closed
    chan, open,                     \* per subscription: buffer; not yet close()d
    writeCount, deliverCount, dropCount, errorCount,    \* b.*Count
    pc, kind, todo, calls,          \* per goroutine: where it is, what it sends, the
                                    \* subscriptions its loop over b.subs has left,
                                    \* how often it called Send
    cancelled,                      \* goroutines whose ctx has been cancelled
    put, got, evicted               \* histories: put on, read from, thrown out of a channel

lockVars == <<readers, writer>>
busVars == <<subs, closed>>
chanVars == <<chan, open>>
counters == <<writeCount, deliverCount, dropCount, errorCount>>
procVars == <<pc, kind, todo, calls>>
history == <<put, got, evicted>>
vars == <<lockVars, busVars, chanVars, counters, procVars, cancelled, history>>

\* Every frame sent is a distinct one: its sender and the number of the call.
Frames == [src : Senders, n : 1 .. MaxSends, kind : Kinds]
Frame(s) == [src |-> s, n |-> calls[s], kind |-> kind[s]]

Init ==
    /\ readers = {} /\ writer = NoProc
    /\ subs = <<>> /\ closed = FALSE
    /\ chan = [c \in Subs |-> <<>>] /\ open = [c \in Subs |-> FALSE]
    /\ writeCount = 0 /\ deliverCount = 0 /\ dropCount = 0 /\ errorCount = 0
    /\ pc = [p \in Procs |-> IF p \in Subs THEN "new" ELSE "idle"]
    /\ kind = [s \in Senders |-> CHOOSE k \in Kinds : TRUE]
    /\ todo = [p \in Senders \cup Closers |-> <<>>]
    /\ calls = [s \in Senders |-> 0]
    /\ cancelled = {}
    /\ put = [c \in Subs |-> <<>>] /\ got = [c \in Subs |-> <<>>]
    /\ evicted = [c \in Subs |-> 0]

-----------------------------------------------------------------------------
(* sync.RWMutex.  Definitions named Fault... are seeded bugs: each is what   *)
(* the definition after it would be in a plausible wrong version of the code; *)
(* no specification uses them.                                                *)

Goto(p, l) == pc' = [pc EXCEPT ![p] = l]

FaultNoRLock(p) == writer = NoProc /\ UNCHANGED lockVars
RLock(p) == writer = NoProc /\ readers' = readers \cup {p} /\ UNCHANGED writer
RUnlock(p) == readers' = readers \ {p} /\ UNCHANGED writer
Announce(p) == writer = NoProc /\ writer' = p /\ UNCHANGED readers
Exclusive(p) == writer = p /\ readers = {}
Unlock == writer' = NoProc /\ UNCHANGED readers

-----------------------------------------------------------------------------
(* Send(ctx, f).  ctx is never looked at. *)

\* ValidateFrame fails: counted and returned before the lock is touched.
SendInvalid(s) ==
    /\ pc[s] = "idle" /\ calls[s] < MaxSends
    /\ calls' = [calls EXCEPT ![s] = @ + 1]
    /\ errorCount' = errorCount + 1
    /\ UNCHANGED <<lockVars, busVars, chanVars, writeCount, deliverCount, dropCount,
                   pc, kind, todo, cancelled, history>>

SendCall(s) ==
    /\ pc[s] = "idle" /\ calls[s] < MaxSends
    /\ \E k \in Kinds : kind' = [kind EXCEPT ![s] = k]
    /\ calls' = [calls EXCEPT ![s] = @ + 1]
    /\ Goto(s, "rlock")
    /\ UNCHANGED <<lockVars, busVars, chanVars, counters, todo, cancelled, history>>

SendLock(s) ==
    /\ pc[s] = "rlock"
    /\ RLock(s)
    /\ Goto(s, "check")
    /\ UNCHANGED <<busVars, chanVars, counters, kind, todo, calls, cancelled, history>>

SendRefused(s) ==
    /\ pc[s] = "check" /\ closed
    /\ errorCount' = errorCount + 1
    /\ RUnlock(s)
    /\ Goto(s, "idle")
    /\ UNCHANGED <<busVars, chanVars, writeCount, deliverCount, dropCount,
                   kind, todo, calls, cancelled, history>>

SendAccepted(s) ==
    /\ pc[s] = "check" /\ ~closed
    /\ writeCount' = writeCount + 1
    /\ todo' = [todo EXCEPT ![s] = subs]
    /\ Goto(s, "deliver")
    /\ UNCHANGED <<lockVars, busVars, chanVars, deliverCount, dropCount, errorCount,
                   kind, calls, cancelled, history>>

\* The subscription p is at (its loop ranges over the list as it was on entry),
\* whether there is one, and whether its filters pass the frame.
Target(p) == Head(todo[p])
AtTarget(p) == todo[p] # <<>>
FaultFiltersIgnored(s) == TRUE
Matches(s) == kind[s] \in Wants[Target(s)]
FaultOneTooMany(c) == Len(chan[c]) > Depth
Full(c) == Len(chan[c]) >= Depth

\* What a full channel means under each policy.
FaultBlockDiscards(c) == Policy[c] # "DropOldest"
Discards(c) == Policy[c] = "DropNewest"
FaultNewestDisplaces(c) == Policy[c] # "Block"
Displaces(c) == Policy[c] = "DropOldest"

\* s.ch <- f, the one place frames enter a channel.
PutOn(c, f) ==
    /\ chan' = [chan EXCEPT ![c] = Append(@, f)]
    /\ put' = [put EXCEPT ![c] = Append(@, f)]
    /\ UNCHANGED <<open, got, evicted>>

Advance(p) == todo' = [todo EXCEPT ![p] = Tail(@)]

CountDrop ==
    /\ dropCount' = dropCount + 1
    /\ UNCHANGED <<writeCount, deliverCount, errorCount>>
FaultWrongCounter == CountDrop
CountDelivery ==
    /\ deliverCount' = deliverCount + 1
    /\ UNCHANGED <<writeCount, dropCount, errorCount>>

SendSkip(s) ==
    /\ pc[s] = "deliver" /\ AtTarget(s) /\ ~Matches(s)
    /\ Advance(s)
    /\ UNCHANGED <<lockVars, busVars, chanVars, counters, pc, kind, calls, cancelled, history>>

\* There is room: every policy puts the frame on the channel.
SendPut(s) ==
    /\ pc[s] = "deliver" /\ AtTarget(s) /\ Matches(s) /\ ~Full(Target(s))
    /\ PutOn(Target(s), Frame(s))
    /\ Goto(s, "count")
    /\ UNCHANGED <<lockVars, busVars, counters, kind, todo, calls, cancelled>>

\* DropNewest, full: the new frame is discarded and counted.
SendDrop(s) ==
    /\ pc[s] = "deliver" /\ AtTarget(s) /\ Matches(s) /\ Full(Target(s))
    /\ Discards(Target(s))
    /\ CountDrop
    /\ Advance(s)
    /\ UNCHANGED <<lockVars, busVars, chanVars, pc, kind, calls, cancelled, history>>

\* DropOldest, full: commits to the receive that will make room ...
SendFull(s) ==
    /\ pc[s] = "deliver" /\ AtTarget(s) /\ Matches(s) /\ Full(Target(s))
    /\ Displaces(Target(s))
    /\ Goto(s, "evict")
    /\ UNCHANGED <<lockVars, busVars, chanVars, counters, kind, todo, calls, cancelled, history>>

\* ... <-s.ch, which blocks if the consumer has emptied the channel since ...
SendEvict(s) ==
    /\ pc[s] = "evict" /\ chan[Target(s)] # <<>>
    /\ chan' = [chan EXCEPT ![Target(s)] = Tail(@)]
    /\ evicted' = [evicted EXCEPT ![Target(s)] = @ + 1]
    /\ Goto(s, "refill")
    /\ UNCHANGED <<lockVars, busVars, open, counters, kind, todo, calls, cancelled, put, got>>

\* ... and s.ch <- f, which blocks if another sender took the room.
SendRefill(s) ==
    /\ pc[s] = "refill" /\ ~Full(Target(s))
    /\ PutOn(Target(s), Frame(s))
    /\ Goto(s, "count")
    /\ UNCHANGED <<lockVars, busVars, counters, kind, todo, calls, cancelled>>

SendCount(s) ==
    /\ pc[s] = "count"
    /\ CountDelivery
    /\ Advance(s)
    /\ Goto(s, "deliver")
    /\ UNCHANGED <<lockVars, busVars, chanVars, kind, calls, cancelled, history>>

SendReturn(s) ==
    /\ pc[s] = "deliver" /\ ~AtTarget(s)
    /\ RUnlock(s)
    /\ Goto(s, "idle")
    /\ UNCHANGED <<busVars, chanVars, counters, kind, todo, calls, cancelled, history>>

-----------------------------------------------------------------------------
(* Subscribe, and the loop that ranges over the channel it returned *)

SubscribeCall(c) ==
    /\ pc[c] = "new"
    /\ Announce(c)
    /\ Goto(c, "lock")
    /\ UNCHANGED <<busVars, chanVars, counters, kind, todo, calls, cancelled, history>>

SubscribeRefused(c) ==
    /\ pc[c] = "lock" /\ Exclusive(c) /\ closed
    /\ Unlock
    /\ Goto(c, "refused")
    /\ UNCHANGED <<busVars, chanVars, counters, kind, todo, calls, cancelled, history>>

Subscribe(c) ==
    /\ pc[c] = "lock" /\ Exclusive(c) /\ ~closed
    /\ subs' = Append(subs, c)
    /\ open' = [open EXCEPT ![c] = TRUE]
    /\ Unlock
    /\ Goto(c, "reading")
    /\ UNCHANGED <<closed, chan, counters, kind, todo, calls, cancelled, history>>

Receive(c) ==
    /\ pc[c] = "reading" /\ chan[c] # <<>>
    /\ got' = [got EXCEPT ![c] = Append(@, Head(chan[c]))]
    /\ chan' = [chan EXCEPT ![c] = Tail(@)]
    /\ UNCHANGED <<lockVars, busVars, open, counters, procVars, cancelled, put, evicted>>

\* The range loop ends: the channel is closed and nothing is left in it.
ReceiveEOF(c) ==
    /\ pc[c] = "reading" /\ chan[c] = <<>> /\ ~open[c]
    /\ Goto(c, "eof")
    /\ UNCHANGED <<lockVars, busVars, chanVars, counters, kind, todo, calls, cancelled, history>>

-----------------------------------------------------------------------------
(* Close and CloseWithDrain(ctx) *)

CloseCall(k) ==
    /\ pc[k] = "idle" /\ k \notin Drainers
    /\ Goto(k, "closing")
    /\ UNCHANGED <<lockVars, busVars, chanVars, counters, kind, todo, calls, cancelled, history>>

DrainCall(k) ==
    /\ pc[k] = "idle" /\ k \in Drainers
    /\ Goto(k, "drain")
    /\ UNCHANGED <<lockVars, busVars, chanVars, counters, kind, todo, calls, cancelled, history>>

\* select: ctx.Done() is ready.
FaultCtxIgnored(k) == FALSE
CtxDone(k) == k \in cancelled
DrainGiveUp(k) ==
    /\ pc[k] = "drain" /\ CtxDone(k)
    /\ Goto(k, "closing")
    /\ UNCHANGED <<lockVars, busVars, chanVars, counters, kind, todo, calls, cancelled, history>>

\* select: the ticker fires; allDrained waits for the read lock.
DrainTick(k) ==
    /\ pc[k] = "drain"
    /\ Goto(k, "rlock")
    /\ UNCHANGED <<lockVars, busVars, chanVars, counters, kind, todo, calls, cancelled, history>>

ScanLock(k) ==
    /\ pc[k] = "rlock"
    /\ RLock(k)
    /\ todo' = [todo EXCEPT ![k] = subs]
    /\ Goto(k, "scan")
    /\ UNCHANGED <<busVars, chanVars, counters, kind, calls, cancelled, history>>

ScanEmpty(k) ==
    /\ pc[k] = "scan" /\ AtTarget(k) /\ chan[Target(k)] = <<>>
    /\ Advance(k)
    /\ UNCHANGED <<lockVars, busVars, chanVars, counters, pc, kind, calls, cancelled, history>>

ScanPending(k) ==
    /\ pc[k] = "scan" /\ AtTarget(k) /\ chan[Target(k)] # <<>>
    /\ todo' = [todo EXCEPT ![k] = <<>>]
    /\ RUnlock(k)
    /\ Goto(k, "drain")
    /\ UNCHANGED <<busVars, chanVars, counters, kind, calls, cancelled, history>>

ScanDrained(k) ==
    /\ pc[k] = "scan" /\ ~AtTarget(k)
    /\ RUnlock(k)
    /\ Goto(k, "closing")
    /\ UNCHANGED <<busVars, chanVars, counters, kind, todo, calls, cancelled, history>>

CloseLock(k) ==
    /\ pc[k] = "closing"
    /\ Announce(k)
    /\ Goto(k, "lock")
    /\ UNCHANGED <<busVars, chanVars, counters, kind, todo, calls, cancelled, history>>

\* close(s.ch) for every s in b.subs.
EndStreams == open' = [c \in Subs |-> open[c] /\ \A i \in DOMAIN subs : subs[i] # c]

\* The critical section; a second Close finds the bus closed and does nothing.
Close(k) ==
    /\ pc[k] = "lock" /\ Exclusive(k)
    /\ closed' = TRUE
    /\ EndStreams
    /\ subs' = <<>>
    /\ Unlock
    /\ Goto(k, "done")
    /\ UNCHANGED <<chan, counters, kind, todo, calls, cancelled, history>>

-----------------------------------------------------------------------------
\* The caller's context is cancelled while its call is running.
CtxCancel(p) ==
    /\ p \in Impatient \ cancelled
    /\ pc[p] \notin {"idle", "done"}
    /\ cancelled' = cancelled \cup {p}
    /\ UNCHANGED <<lockVars, busVars, chanVars, counters, procVars, history>>

\* Everybody has finished.
AllDone ==
    /\ \A s \in Senders : pc[s] = "idle" /\ calls[s] = MaxSends
    /\ \A c \in Subs : pc[c] \in {"eof", "refused"}
    /\ \A k \in Closers : pc[k] = "done"
    /\ UNCHANGED vars

\* What a goroutine does by itself once it has called Send.
SendStep(s) ==
    \/ SendLock(s) \/ SendRefused(s) \/ SendAccepted(s) \/ SendSkip(s) \/ SendPut(s)
    \/ SendDrop(s) \/ SendFull(s) \/ SendEvict(s) \/ SendRefill(s) \/ SendCount(s)
    \/ SendReturn(s)
SubscribeStep(c) == SubscribeRefused(c) \/ Subscribe(c)
ConsumeStep(c) == Receive(c) \/ ReceiveEOF(c)
DrainStep(k) == DrainTick(k) \/ ScanLock(k) \/ ScanEmpty(k) \/ ScanPending(k) \/ ScanDrained(k)
CloseStep(k) == CloseLock(k) \/ Close(k)

Next ==
    \/ \E s \in Senders : SendInvalid(s) \/ SendCall(s) \/ SendStep(s)
    \/ \E c \in Subs : SubscribeCall(c) \/ SubscribeStep(c) \/ ConsumeStep(c)
    \/ \E k \in Closers : CloseCall(k) \/ DrainCall(k) \/ DrainGiveUp(k)
                          \/ DrainStep(k) \/ CloseStep(k)
    \/ \E p \in Impatient : CtxCancel(p)
    \/ AllDone

Spec == Init /\ [][Next]_vars

\* The Go scheduler runs every goroutine that can run; a select with two ready
\* cases does not ignore one of them forever.  Nobody is forced to call
\* anything, and consumers need not read.
Fairness ==
    /\ \A s \in Senders : WF_vars(SendStep(s))
    /\ \A c \in Subs : WF_vars(SubscribeStep(c))
    /\ \A k \in Closers : WF_vars(DrainStep(k)) /\ WF_vars(CloseStep(k))
                          /\ SF_vars(DrainGiveUp(k))
FairSpec == Spec /\ Fairness

\* In addition the keen consumers keep reading their channels.
ReadingSpec == FairSpec /\ \A c \in Keen : WF_vars(ConsumeStep(c))

-----------------------------------------------------------------------------
(* Properties *)

SenderPCs == {"idle", "rlock", "check", "deliver", "evict", "refill", "count"}
SubPCs == {"new", "lock", "reading", "refused", "eof"}
CloserPCs == {"idle", "drain", "rlock", "scan", "closing", "lock", "done"}

LockType == readers \subseteq Senders \cup Closers /\ writer \in Subs \cup Closers \cup {NoProc}
ListType == subs \in Seq(Subs) /\ closed \in BOOLEAN
ChanType ==
    /\ chan \in [Subs -> Seq(Frames)] /\ \A c \in Subs : Len(chan[c]) <= Depth
    /\ open \in [Subs -> BOOLEAN]
CountType ==
    writeCount \in Nat /\ deliverCount \in Nat /\ dropCount \in Nat /\ errorCount \in Nat
PCType ==
    /\ pc \in [Procs -> SenderPCs \cup SubPCs \cup CloserPCs]
    /\ \A s \in Senders : pc[s] \in SenderPCs
    /\ \A c \in Subs : pc[c] \in SubPCs
    /\ \A k \in Closers : pc[k] \in CloserPCs
LocalType ==
    /\ kind \in [Senders -> Kinds]
    /\ todo \in [Senders \cup Closers -> Seq(Subs)]
    /\ calls \in [Senders -> 0 .. MaxSends]
    /\ \A s \in Senders : /\ pc[s] # "idle" => calls[s] > 0
                          /\ pc[s] \in {"evict", "refill", "count"} => todo[s] # <<>>
HistoryType ==
    /\ cancelled \subseteq Impatient
    /\ put \in [Subs -> Seq(Frames)] /\ got \in [Subs -> Seq(Frames)]
    /\ evicted \in [Subs -> Nat]

\* Every variable has its type, a channel never holds more than its capacity,
\* and a sender inside a channel operation has a frame and a channel.
TypeOK ==
    LockType /\ ListType /\ ChanType /\ CountType /\ PCType /\ LocalType /\ HistoryType

\* Inside the walk over b.subs a sender stands at a channel that is not closed:
\* no interleaving with Close makes Send panic with "send on
\* closed channel" or lose its place in the list (bus.go:95-123 against 150-161).
AtOpenTarget(s) == AtTarget(s) /\ open[Target(s)]
NoSendOnClosed ==
    \A s \in Senders :
        /\ pc[s] = "deliver" /\ AtTarget(s) => AtOpenTarget(s)
        /\ pc[s] \in {"evict", "refill", "count"} => AtOpenTarget(s)

\* Close ends every stream and only Close does: as long as the consumer has not
\* seen the end of its channel, that channel is open exactly when the bus is
\* (can.go:169, REQ-CAN-008).
ClosedTogether ==
    \A c \in Subs : /\ pc[c] = "reading" => (open[c] <=> ~closed)
                    /\ pc[c] = "eof" => closed

\* A sender that has passed a subscription has done right by it: a frame the
\* filters reject is not on the channel, one they accept was put there unless
\* the policy allows to discard it (REQ-VIRT-001, REQ-VIRT-004; Block and
\* DropOldest never discard the new frame).
WalkDelivers ==
    \A s \in Senders : pc[s] \in {"deliver", "evict", "refill", "count"} =>
        \A i \in 1 .. Len(subs) - Len(todo[s]) :
            LET c == subs[i]
                there == \E j \in DOMAIN put[c] : put[c][j] = Frame(s)
            IN  /\ there => kind[s] \in Wants[c]
                /\ kind[s] \in Wants[c] /\ Policy[c] # "DropNewest" => there

\* Two frames of one goroutine reach a subscriber at most once each and in the
\* order they were sent, however senders, evictions and reads interleave.
Stream(c) == got[c] \o chan[c]
InSendOrder ==
    \A c \in Subs : \A i, j \in DOMAIN Stream(c) :
        (i < j /\ Stream(c)[i].src = Stream(c)[j].src) => Stream(c)[i].n < Stream(c)[j].n

\* The metrics add up: what was counted as delivered, plus the senders between their
\* channel send and their counter, is every frame ever put on a channel; and each of
\* these the consumer has read, can still read or lost to an eviction.
Deliveries == UNION {{c} \X DOMAIN put[c] : c \in Subs}
Uncounted == {s \in Senders : pc[s] = "count"}
DeliveriesAccounted ==
    /\ deliverCount + Cardinality(Uncounted) = Cardinality(Deliveries)
    /\ \A c \in Subs : Len(put[c]) = Len(Stream(c)) + evicted[c]

\* Once the bus is closed no frame enters any channel, not even by a Send that
\* was under way when Close was called.
QuietAfterClose == [][closed => put' = put]_vars

\* The strengthening of the safety properties that is inductive.
Walking == {"deliver", "evict", "refill", "count"}

\* Whoever is inside Send's critical section holds the read lock.
LockInv == \A s \in Senders : pc[s] \in Walking \cup {"check"} => s \in readers

\* A channel is open from the return of Subscribe until Close, and b.subs lists
\* exactly the open channels, each once.
OpenInv == \A c \in Subs : /\ open[c] <=> (pc[c] = "reading" /\ ~closed)
                           /\ pc[c] = "eof" => closed
RegInv ==
    /\ \A c \in Subs : open[c] <=> \E i \in DOMAIN subs : subs[i] = c
    /\ \A i, j \in DOMAIN subs : subs[i] = subs[j] => i = j

\* What a walk still has to visit is open, and each channel comes once.
WalkInv ==
    \A s \in Senders : pc[s] \in Walking =>
        /\ \A i \in DOMAIN todo[s] : open[todo[s][i]]
        /\ \A i, j \in DOMAIN todo[s] : todo[s][i] = todo[s][j] => i = j

SafetyInv == LockInv /\ OpenInv /\ RegInv /\ WalkInv

\* s has yet to put the frame of its current call on c.
Pending(s, c) ==
    \/ pc[s] \in {"rlock", "check"}
    \/ pc[s] \in {"deliver", "evict", "refill"} /\ \E i \in DOMAIN todo[s] : todo[s][i] = c
    \/ pc[s] = "count" /\ \E i \in DOMAIN todo[s] : todo[s][i] = c /\ i # 1

\* The frames of one sender on one channel carry growing numbers, none of a call
\* not made yet, and none of the current call while that one is pending; and a
\* sender that makes room does so for a frame the filters accept.
OrderInv ==
    /\ \A c \in Subs : \A i, j \in DOMAIN put[c] :
          i < j /\ put[c][i].src = put[c][j].src => put[c][i].n < put[c][j].n
    /\ \A c \in Subs : \A i \in DOMAIN put[c] :
          LET s == put[c][i].src
          IN  put[c][i].n <= calls[s] /\ (Pending(s, c) => put[c][i].n < calls[s])
    /\ \A s \in Senders : pc[s] \in {"evict", "refill"} => Matches(s)

\* What can.go promises of any Bus: the virtual bus implements it.  A channel is
\* closed once its Subscribe has returned it and it no longer is open.
Bus == INSTANCE CanBus WITH
    Sources <- Senders,
    Ranks <- 1 .. MaxSends,
    shut <- closed,
    life <- [c \in Subs |-> IF open[c] THEN "open"
                            ELSE IF pc[c] \in {"reading", "eof"} THEN "closed" ELSE "none"],
    stream <- put,
    queue <- chan
ImplementsBus == Bus!BusSpec

\* Every Send returns, so no sender keeps the read lock forever.
SendReturns == \A s \in Senders : pc[s] # "idle" ~> pc[s] = "idle"

\* Close and CloseWithDrain return: the former whatever consumers do, the
\* latter once its context is cancelled (bus.go:209-210).
CloseReturns ==
    \A k \in Closers : (pc[k] \notin {"idle", "drain", "rlock", "scan"}) ~> pc[k] = "done"
DrainHonoursCtx ==
    \A k \in Drainers : (k \in cancelled) ~> pc[k] = "done"

\* Every consumer that keeps reading sees its range loop end after Close.
ConsumersFinish == \A c \in Keen : (closed /\ pc[c] = "reading") ~> pc[c] = "eof"

\* A shutdown that was begun, or that its context cuts short, completes for its caller
\* and for every consumer (bus.go:150-161 and 209-221).
ShutdownCompletes == CloseReturns /\ DrainHonoursCtx /\ ConsumersFinish
=============================================================================
