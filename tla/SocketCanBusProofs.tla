------------------------- MODULE SocketCanBusProofs -------------------------
(***************************************************************************)
(* Theorems about the CAN_RAW bus, for any set of peers, subscribers,       *)
(* closers and senders and any depth of channels and socket.                *)
(***************************************************************************)
EXTENDS SocketCanBus, SequenceTheorems, TLAPS

USE DEF kernelVars, busVars, chanVars, loopVars

-----------------------------------------------------------------------------
(* The inductive invariant. *)

Procs == Subs \cup Closers \cup Senders

WalkType ==
    /\ subs \in Seq(Subs) /\ todo \in Seq(Subs)
    /\ open \in [Subs -> BOOLEAN]
CloseType ==
    /\ pc \in [Procs -> {"new", "lock", "reading", "eof", "idle", "once", "fd", "done", "write"}]
    /\ fd \in BOOLEAN /\ done \in BOOLEAN /\ closed \in BOOLEAN
    /\ once \in {"new", "running", "over"}

\* A subscription on the list has an open channel, and so has one that readLoop is
\* still to visit, for Close cannot end any while readLoop is in its walk.
WalkInv == (\A i \in DOMAIN subs : open[subs[i]]) /\ NoSendOnClosed

\* Close's steps are taken by one closer, in their order; who has returned came after it.
Closing(k) == pc[k] \in {"fd", "lock"}
OnceInv ==
    /\ \A k \in Closers : pc[k] \in {"idle", "once", "fd", "lock", "done"}
    /\ \A k \in Closers : Closing(k) => once = "running"
    /\ \A k, l \in Closers : Closing(k) /\ Closing(l) => k = l
    /\ \A k \in Closers : pc[k] = "lock" => ~fd
    /\ \A k \in Closers : pc[k] = "done" => once = "over"
    /\ once # "new" => done
    /\ once = "over" => closed /\ ~fd

IInv == WalkType /\ CloseType /\ WalkInv /\ OnceInv

-----------------------------------------------------------------------------
(* readLoop and the subscriptions. *)

\* Nobody subscribes, closes or sends before the first step.
LEMMA InitInv == Init => IInv
<1> SUFFICES ASSUME Init PROVE IInv
  OBVIOUS
<1>1. WalkType
  <2>1. <<>> \in Seq(Subs)
    BY EmptySeq
  <2>2. open \in [Subs -> BOOLEAN]
    BY Zenon DEF Init
  <2> QED BY <2>1, <2>2 DEF Init, WalkType
<1>2. CloseType
  BY DEF Init, CloseType, Procs
<1>3. WalkInv
  BY DEF Init, WalkInv, NoSendOnClosed
<1>4. OnceInv
  BY ConfigAssumption DEF Init, OnceInv, Closing
<1> QED BY <1>1, <1>2, <1>3, <1>4 DEF IInv

\* A step that leaves the subscriptions alone keeps what is said of the walk, if
\* readLoop neither enters it nor is given another list.
LEMMA WalkStays ==
    ASSUME WalkType, WalkInv, UNCHANGED <<subs, open, todo>>, loop' = "walk" => loop = "walk"
    PROVE  WalkType' /\ WalkInv'
BY DEF WalkType, WalkInv, NoSendOnClosed

\* readLoop: it takes the list under the lock and goes through it.
LEMMA LoopKeepsWalk ==
    ASSUME WalkType, WalkInv, LoopStep
    PROVE  WalkType' /\ WalkInv' /\ UNCHANGED <<pc, fd, busVars>>
<1>1. UNCHANGED <<open, pc, fd, busVars>>
  BY DEF LoopStep, LoopPolls, LoopEnters, LoopFails, LoopReads, LoopLocks, LoopDelivers, LoopUnlocks
<1>2. CASE LoopPolls \/ LoopEnters \/ LoopFails \/ LoopReads \/ LoopUnlocks
  <2>1. todo' = todo /\ loop' # "walk"
    BY <1>2 DEF LoopPolls, LoopEnters, LoopFails, LoopReads, LoopUnlocks
  <2> QED BY <2>1, <1>1, WalkStays
<1>3. CASE LoopLocks
  BY <1>1, <1>3 DEF LoopLocks, WalkType, WalkInv, NoSendOnClosed
<1>4. CASE LoopDelivers
  <2>1. todo \in Seq(Subs) /\ todo # <<>> /\ todo' = Tail(todo) /\ loop = "walk"
    BY <1>4 DEF LoopDelivers, WalkType
  <2>2. /\ Tail(todo) \in Seq(Subs)
        /\ \A i \in DOMAIN Tail(todo) : i + 1 \in DOMAIN todo /\ Tail(todo)[i] = todo[i + 1]
    BY <2>1, HeadTailProperties
  <2>3. \A i \in DOMAIN todo' : open'[todo'[i]]
    BY <2>1, <2>2, <1>1 DEF WalkInv, NoSendOnClosed
  <2> QED BY <2>1, <2>2, <2>3, <1>1 DEF WalkType, WalkInv, NoSendOnClosed
<1> QED BY <1>1, <1>2, <1>3, <1>4 DEF LoopStep

\* Subscribe opens a channel and puts it on the list.
LEMMA SubscribeKeepsWalk ==
    ASSUME WalkType, WalkInv, NEW c \in Subs, Subscribe(c)
    PROVE  WalkType' /\ WalkInv'
<1>1. /\ subs' = Append(subs, c) /\ open' = [open EXCEPT ![c] = TRUE]
      /\ UNCHANGED <<todo, loop>>
  BY DEF Subscribe
<1>2. \A d \in Subs : open[d] => open'[d]
  BY <1>1 DEF WalkType
<1>3. open'[c] /\ open' \in [Subs -> BOOLEAN]
  BY <1>1 DEF WalkType
<1>4. subs' \in Seq(Subs) /\ DOMAIN subs' = 1 .. Len(subs) + 1
  BY <1>1, AppendProperties DEF WalkType
<1>5. \A i \in DOMAIN subs' : open'[subs'[i]]
  BY <1>1, <1>2, <1>3, <1>4, ElementOfSeq DEF WalkType, WalkInv
<1>6. loop' = "walk" => \A i \in DOMAIN todo' : open'[todo'[i]]
  BY <1>1, <1>2, ElementOfSeq DEF WalkType, WalkInv, NoSendOnClosed
<1> QED
  BY <1>1, <1>3, <1>4, <1>5, <1>6 DEF WalkType, WalkInv, NoSendOnClosed

\* Close ends the streams when readLoop is outside its walk, and leaves no list.
LEMMA CloseSubsKeepsWalk ==
    ASSUME WalkType, WalkInv, NEW k \in Closers, CloseSubs(k)
    PROVE  WalkType' /\ WalkInv'
<1>1. loop' # "walk" /\ subs' = <<>> /\ todo' = todo /\ open' \in [Subs -> BOOLEAN]
  <2>1. \A c \in Subs : (open[c] /\ \A i \in DOMAIN subs : subs[i] # c) \in BOOLEAN
    OBVIOUS
  <2>2. open' \in [Subs -> BOOLEAN]
    BY <2>1, Zenon DEF CloseSubs, EndStreams
  <2> QED BY <2>2 DEF CloseSubs, Exclusive
<1>2. subs' \in Seq(Subs) /\ DOMAIN subs' = {}
  BY <1>1, EmptySeq
<1> QED
  BY <1>1, <1>2 DEF WalkType, WalkInv, NoSendOnClosed

-----------------------------------------------------------------------------
(* Close. *)

\* A goroutine that is not a closer moves, and the closers stay where they are.
LEMMA OthersKeepOnce ==
    ASSUME CloseType, OnceInv, NEW p \in Subs \cup Senders,
           NEW l \in {"lock", "reading", "eof", "idle", "write"},
           Goto(p, l), UNCHANGED <<fd, done, closed, once>>
    PROVE  CloseType' /\ OnceInv' /\ \A k \in Closers : pc'[k] = pc[k]
<1>1. \A k \in Closers : pc'[k] = pc[k]
  BY ConfigAssumption DEF Goto, CloseType, Procs
<1>2. CloseType'
  BY DEF Goto, CloseType, Procs
<1> QED BY <1>1, <1>2 DEF OnceInv, Closing

\* Each step of Close.
LEMMA CloseKeepsOnce ==
    ASSUME CloseType, OnceInv, NEW k \in Closers, CloseCall(k) \/ CloseStep(k)
    PROVE  CloseType' /\ OnceInv'
<1>k. k \in Procs /\ \A l \in Closers : l \in Procs
  BY DEF Procs
<1>1. CASE CloseCall(k)
  <2>1. /\ pc' = [pc EXCEPT ![k] = "once"] /\ UNCHANGED <<fd, done, closed, once>>
    BY <1>1 DEF CloseCall, Goto
  <2>2. pc'[k] = "once" /\ \A l \in Closers \ {k} : pc'[l] = pc[l]
    BY <2>1, <1>k DEF CloseType
  <2> QED BY <2>1, <2>2 DEF CloseType, OnceInv, Closing
<1>2. CASE CloseFirst(k)
  <2>1. /\ pc' = [pc EXCEPT ![k] = "fd"] /\ UNCHANGED <<fd, closed>>
        /\ once = "new" /\ once' = "running" /\ done' = TRUE
    BY <1>2 DEF CloseFirst, Goto
  <2>2. pc'[k] = "fd" /\ \A l \in Closers \ {k} : pc'[l] = pc[l]
    BY <2>1, <1>k DEF CloseType
  <2> QED BY <2>1, <2>2 DEF CloseType, OnceInv, Closing
<1>3. CASE CloseAgain(k)
  <2>1. /\ pc' = [pc EXCEPT ![k] = "done"] /\ once = "over" /\ UNCHANGED <<fd, done, closed, once>>
    BY <1>3 DEF CloseAgain, OnceOver, Goto
  <2>2. pc'[k] = "done" /\ \A l \in Closers \ {k} : pc'[l] = pc[l]
    BY <2>1, <1>k DEF CloseType
  <2> QED BY <2>1, <2>2 DEF CloseType, OnceInv, Closing
<1>4. CASE CloseSocket(k)
  <2>1. /\ pc[k] = "fd" /\ pc' = [pc EXCEPT ![k] = "lock"] /\ fd' = FALSE
        /\ UNCHANGED <<done, closed, once>>
    BY <1>4 DEF CloseSocket, Goto
  <2>2. pc'[k] = "lock" /\ \A l \in Closers \ {k} : pc'[l] = pc[l]
    BY <2>1, <1>k DEF CloseType
  <2> QED BY <2>1, <2>2 DEF CloseType, OnceInv, Closing
<1>5. CASE CloseSubs(k)
  <2>1. /\ pc[k] = "lock" /\ pc' = [pc EXCEPT ![k] = "done"]
        /\ once' = "over" /\ closed' = TRUE /\ UNCHANGED <<fd, done>>
    BY <1>5 DEF CloseSubs, Goto
  <2>2. pc'[k] = "done" /\ \A l \in Closers \ {k} : pc'[l] = pc[l]
    BY <2>1, <1>k DEF CloseType
  <2>3. once = "running" /\ ~fd /\ \A l \in Closers \ {k} : ~Closing(l)
    BY <2>1 DEF OnceInv, Closing
  <2> QED BY <2>1, <2>2, <2>3 DEF CloseType, OnceInv, Closing
<1> QED BY <1>1, <1>2, <1>3, <1>4, <1>5 DEF CloseStep

-----------------------------------------------------------------------------
(* The theorems. *)

\* Every step keeps the invariant.
LEMMA StepKeeps == IInv /\ [Next]_vars => IInv'
<1> SUFFICES ASSUME IInv, [Next]_vars PROVE IInv'
  OBVIOUS
<1> USE DEF IInv
<1>1. CASE UNCHANGED <<pc, fd, busVars, open, todo, loop>>
  BY <1>1, WalkStays DEF CloseType, OnceInv, Closing
<1>2. CASE LoopStep
  BY <1>2, LoopKeepsWalk DEF CloseType, OnceInv, Closing
<1>3. ASSUME NEW c \in Subs, SubscribeCall(c) \/ Receive(c) \/ ReceiveEOF(c) PROVE IInv'
  <2>1. UNCHANGED <<fd, busVars, open, todo, loop>>
    BY <1>3 DEF SubscribeCall, Receive, ReceiveEOF
  <2>2. pc' = pc \/ Goto(c, "lock") \/ Goto(c, "eof")
    BY <1>3 DEF SubscribeCall, Receive, ReceiveEOF
  <2>3. CASE pc' = pc
    BY <2>1, <2>3, <1>1
  <2>4. CASE Goto(c, "lock") \/ Goto(c, "eof")
    BY <2>1, <2>4, OthersKeepOnce, WalkStays
  <2> QED BY <2>2, <2>3, <2>4
<1>4. ASSUME NEW c \in Subs, Subscribe(c) PROVE IInv'
  <2>1. Goto(c, "reading") /\ UNCHANGED <<fd, done, closed, once>>
    BY <1>4 DEF Subscribe
  <2> QED BY <2>1, <1>4, OthersKeepOnce, SubscribeKeepsWalk
<1>5. ASSUME NEW k \in Closers, CloseCall(k) \/ CloseStep(k) PROVE IInv'
  <2>1. CloseType' /\ OnceInv'
    BY <1>5, CloseKeepsOnce
  <2>2. CASE CloseSubs(k)
    BY <2>1, <2>2, CloseSubsKeepsWalk
  <2>3. CASE CloseCall(k) \/ CloseFirst(k) \/ CloseAgain(k) \/ CloseSocket(k)
    <3>1. UNCHANGED <<subs, open, todo, loop>>
      BY <2>3 DEF CloseCall, CloseFirst, CloseAgain, CloseSocket
    <3> QED BY <3>1, <2>1, WalkStays
  <2> QED BY <1>5, <2>2, <2>3 DEF CloseStep
<1>6. ASSUME NEW s \in Senders, SendEnters(s) \/ SendReturns(s) PROVE IInv'
  <2>1. /\ UNCHANGED <<fd, busVars, open, todo, loop>>
        /\ Goto(s, "write") \/ Goto(s, "idle")
    BY <1>6 DEF SendEnters, SendReturns
  <2> QED BY <2>1, OthersKeepOnce, WalkStays
<1>7. CASE UNCHANGED vars
  BY <1>1, <1>7 DEF vars
<1>8. CASE GoesDown \/ \E p \in Peers, k \in Kinds : Arrive(p, k)
  BY <1>1, <1>8 DEF GoesDown, Arrive
<1> QED
  BY <1>2, <1>3, <1>4, <1>5, <1>6, <1>7, <1>8 DEF Next

\* The invariant holds throughout.
THEOREM SocketInvariant == Spec => []IInv
BY InitInv, StepKeeps, PTL DEF Spec

\* readLoop never sends on a closed channel, however many goroutines subscribe and
\* close while it walks its list (socketcan/bus_linux.go:149-188).
THEOREM LoopNeverSendsOnClosed == Spec => []NoSendOnClosed
<1>1. IInv => NoSendOnClosed
  BY DEF IInv, WalkInv
<1> QED BY <1>1, SocketInvariant, PTL

\* A Send cannot get hold of the descriptor once a Close has returned.
LEMMA NoSendAfter ==
    IInv /\ [Next]_vars
    => [Returned => \A s \in Senders : pc'[s] = "write" => pc[s] = "write"]_vars
<1> SUFFICES ASSUME IInv, [Next]_vars, Returned, NEW s \in Senders, pc'[s] = "write"
             PROVE  pc[s] = "write"
  OBVIOUS
<1>1. ~fd
  BY DEF IInv, OnceInv, Returned
<1>2. pc \in [Procs -> {"new", "lock", "reading", "eof", "idle", "once", "fd", "done", "write"}]
      /\ s \in Procs
  BY DEF IInv, CloseType, Procs
<1>3. \/ pc' = pc
      \/ \E p \in Procs, l \in {"lock", "reading", "eof", "idle", "once", "fd", "done"} : Goto(p, l)
  <2>1. CASE LoopStep \/ GoesDown \/ (\E p \in Peers, k \in Kinds : Arrive(p, k)) \/ UNCHANGED vars
    BY <2>1 DEF LoopStep, LoopPolls, LoopEnters, LoopFails, LoopReads, LoopLocks, LoopDelivers,
                LoopUnlocks, GoesDown, Arrive, vars
  <2>2. ASSUME NEW c \in Subs, SubscribeCall(c) \/ Subscribe(c) \/ Receive(c) \/ ReceiveEOF(c)
        PROVE  \/ pc' = pc
               \/ \E p \in Procs, l \in {"lock", "reading", "eof", "idle", "once", "fd", "done"} : Goto(p, l)
    BY <2>2 DEF SubscribeCall, Subscribe, Receive, ReceiveEOF, Procs
  <2>3. ASSUME NEW k \in Closers, CloseCall(k) \/ CloseStep(k)
        PROVE  \E p \in Procs, l \in {"lock", "reading", "eof", "idle", "once", "fd", "done"} : Goto(p, l)
    BY <2>3 DEF CloseCall, CloseStep, CloseFirst, CloseAgain, CloseSocket, CloseSubs, Procs
  <2>4. ASSUME NEW t \in Senders, SendEnters(t) \/ SendReturns(t)
        PROVE  \E p \in Procs, l \in {"lock", "reading", "eof", "idle", "once", "fd", "done"} : Goto(p, l)
    BY <2>4, <1>1 DEF SendEnters, SendReturns, Procs
  <2> QED BY <2>1, <2>2, <2>3, <2>4 DEF Next
<1> QED BY <1>2, <1>3 DEF Goto

\* When one Close has returned, the streams have ended, the descriptor is closed and
\* nobody is at either; no later Send can reach a file that reuses its number
\* (socketcan/bus_linux.go:149-161, 125).
THEOREM ReturnIsFinal == Spec => ClosedOnReturn
<1>1. IInv => (Returned => closed /\ done /\ \A k \in Closers : pc[k] \notin {"fd", "lock"})
  BY DEF IInv, OnceInv, Returned, Closing
<1>2. Spec => [][Next]_vars
  BY PTL DEF Spec
<1> QED
  BY <1>1, <1>2, NoSendAfter, SocketInvariant, PTL DEF ClosedOnReturn

-----------------------------------------------------------------------------
(* The CAN_RAW bus keeps the promises of can.Bus: every step of             *)
(* SocketCanBus is a step of CanBus or none, for any constants.             *)

-----------------------------------------------------------------------------
(* The inductive invariant: who is on the lists, and the order in which the *)
(* frames of one peer lie between the wire and the subscriptions.           *)

\* f was sent before g, if the same peer sent both.
Older(f, g) == f.src = g.src => f.n < g.n

\* A channel is open only once its Subscribe has run, and is on the list until Close
\* takes it off; before, nothing is known of it.
Started(c) == pc[c] \in {"reading", "eof"}
LifeInv ==
    /\ closed => once = "over"
    /\ ~closed => late = {} /\ \A c \in Subs : open[c] => \E i \in DOMAIN subs : subs[i] = c
    /\ \A c \in Subs : open[c] => Started(c)
    /\ \A c \in Subs : ~Started(c) => c \notin late /\ put[c] = <<>> /\ chan[c] = <<>>
ListInv ==
    /\ \A i \in DOMAIN subs : Started(subs[i])
    /\ \A i \in DOMAIN todo : Started(todo[i])
    /\ \A i, j \in DOMAIN subs : subs[i] = subs[j] => i = j
    /\ \A i, j \in DOMAIN todo : todo[i] = todo[j] => i = j

\* The wire is in order; the frame in hand is before it, and what was put on a channel
\* before both, unless readLoop has been there with this frame.
SockInv ==
    /\ \A i \in DOMAIN sock : sock[i].n <= count[sock[i].src]
    /\ \A i, j \in DOMAIN sock : i < j => Older(sock[i], sock[j])
HandInv ==
    loop \in {"lock", "walk"} =>
        Hold.n <= count[Hold.src] /\ \A j \in DOMAIN sock : Older(Hold, sock[j])
PutInv ==
    \A c \in Subs : \A i \in DOMAIN put[c] :
        /\ put[c][i].n <= count[put[c][i].src]
        /\ \A j \in DOMAIN sock : Older(put[c][i], sock[j])
        /\ loop = "lock" => Older(put[c][i], Hold)
AheadInv ==
    loop = "walk" =>
        \A k \in DOMAIN todo : \A i \in DOMAIN put[todo[k]] : Older(put[todo[k]][i], Hold)
FlowInv == SockInv /\ HandInv /\ PutInv /\ AheadInv

\* TypeOK, part by part.
KernelOK ==
    /\ sock \in Seq(Frames) /\ Len(sock) <= SockDepth /\ fd \in BOOLEAN /\ up \in BOOLEAN
    /\ count \in [Peers -> 0 .. MaxFrames]
ListOK ==
    /\ done \in BOOLEAN /\ closed \in BOOLEAN /\ once \in {"new", "running", "over"}
    /\ subs \in Seq(Subs) /\ open \in [Subs -> BOOLEAN] /\ late \subseteq Subs
ChanOK ==
    /\ chan \in [Subs -> Seq(Frames)] /\ \A c \in Subs : Len(chan[c]) <= Depth
    /\ put \in [Subs -> Seq(Frames)]
LoopOK ==
    /\ todo \in Seq(Subs)
    /\ loop \in {"poll", "enter", "read", "lock", "walk", "exited"}
    /\ frame \in Seq(Frames) /\ Len(frame) = IF loop \in {"lock", "walk"} THEN 1 ELSE 0
CallsOK == calls \in [Senders -> 0 .. MaxSends]
PcOK ==
    /\ \A c \in Subs : pc[c] \in {"new", "lock", "reading", "eof"}
    /\ \A k \in Closers : pc[k] \in {"idle", "once", "fd", "lock", "done"}
    /\ \A s \in Senders : pc[s] \in {"idle", "write"}

\* TypeOK is its parts.
LEMMA TypeParts == TypeOK <=> KernelOK /\ ListOK /\ ChanOK /\ LoopOK /\ CallsOK /\ PcOK
BY DEF TypeOK, KernelOK, ListOK, ChanOK, LoopOK, CallsOK, PcOK

BusInv == TypeOK /\ IInv /\ LifeInv /\ ListInv /\ FlowInv

-----------------------------------------------------------------------------
(* Sequences. *)

\* A sequence with an element more.
LEMMA Appended ==
    ASSUME NEW S, NEW s \in Seq(S), NEW e \in S
    PROVE  /\ Append(s, e) \in Seq(S) /\ Len(Append(s, e)) = Len(s) + 1 /\ Len(s) \in Nat
           /\ DOMAIN s = 1 .. Len(s) /\ DOMAIN Append(s, e) = 1 .. Len(s) + 1
           /\ Append(s, e)[Len(s) + 1] = e
           /\ \A i \in 1 .. Len(s) : Append(s, e)[i] = s[i]
BY AppendProperties, LenProperties

\* A sequence without its first element.
LEMMA Shortened ==
    ASSUME NEW S, NEW s \in Seq(S), s # <<>>
    PROVE  /\ Tail(s) \in Seq(S) /\ Len(Tail(s)) = Len(s) - 1 /\ Len(s) \in Nat /\ Len(s) > 0
           /\ DOMAIN s = 1 .. Len(s) /\ DOMAIN Tail(s) = 1 .. Len(s) - 1
           /\ Head(s) = s[1] /\ Head(s) \in S
           /\ \A i \in 1 .. Len(s) - 1 : Tail(s)[i] = s[i + 1]
BY HeadTailProperties, LenProperties, EmptySeq

-----------------------------------------------------------------------------
(* The start. *)

\* Nothing has come, and nobody has subscribed.
LEMMA BusInitInv == Init => BusInv
<1> SUFFICES ASSUME Init PROVE BusInv
  OBVIOUS
<1>1. \A S : <<>> \in Seq(S) /\ Len(<<>>) = 0
  BY EmptySeq
<1>2. /\ \A c \in Subs : pc[c] = "new"
      /\ \A k \in Closers : pc[k] = "idle"
      /\ \A s \in Senders : pc[s] = "idle"
  BY ConfigAssumption DEF Init
<1>3. TypeOK
  <2>1. KernelOK
    BY <1>1, ConfigAssumption DEF Init, KernelOK
  <2>2. ListOK
    <3>1. open \in [Subs -> BOOLEAN]
      BY Zenon DEF Init
    <3> QED BY <3>1, <1>1 DEF Init, ListOK
  <2>3. ChanOK
    BY <1>1, ConfigAssumption DEF Init, ChanOK
  <2>4. LoopOK
    BY <1>1 DEF Init, LoopOK
  <2>5. CallsOK
    BY ConfigAssumption DEF Init, CallsOK
  <2>6. PcOK
    BY <1>2 DEF PcOK
  <2> QED BY <2>1, <2>2, <2>3, <2>4, <2>5, <2>6, TypeParts
<1>4. LifeInv
  BY <1>2 DEF Init, LifeInv, Started
<1>5. ListInv
  BY DEF Init, ListInv
<1>6. FlowInv
  BY DEF Init, FlowInv, SockInv, HandInv, PutInv, AheadInv
<1> QED BY <1>3, <1>4, <1>5, <1>6, InitInv DEF BusInv

-----------------------------------------------------------------------------
(* Goroutines move. *)

\* One goes on, the others stay.
LEMMA Moves ==
    ASSUME CloseType, NEW p \in Procs, NEW l, Goto(p, l)
    PROVE  pc'[p] = l /\ \A q \in Procs \ {p} : pc'[q] = pc[q]
BY DEF CloseType, Goto

\* A subscriber moves.
LEMMA SubMoves ==
    ASSUME CloseType, PcOK, NEW c \in Subs, NEW l \in {"new", "lock", "reading", "eof"}, Goto(c, l)
    PROVE  PcOK' /\ pc'[c] = l /\ \A d \in Subs \ {c} : pc'[d] = pc[d]
<1>1. pc'[c] = l /\ \A q \in Procs \ {c} : pc'[q] = pc[q]
  BY Moves DEF Procs
<1>2. \A q \in Closers \cup Senders : q \in Procs \ {c}
  BY ConfigAssumption DEF Procs
<1>3. \A d \in Subs \ {c} : pc'[d] = pc[d]
  BY <1>1 DEF Procs
<1> QED BY <1>1, <1>2, <1>3 DEF PcOK

\* A closer moves.
LEMMA CloserMoves ==
    ASSUME CloseType, PcOK, NEW k \in Closers, NEW l \in {"idle", "once", "fd", "lock", "done"},
           Goto(k, l)
    PROVE  PcOK' /\ \A c \in Subs : pc'[c] = pc[c]
<1>1. pc'[k] = l /\ \A q \in Procs \ {k} : pc'[q] = pc[q]
  BY Moves DEF Procs
<1>2. \A q \in Subs \cup Senders : q \in Procs \ {k}
  BY ConfigAssumption DEF Procs
<1>3. \A d \in Closers \ {k} : pc'[d] = pc[d]
  BY <1>1 DEF Procs
<1> QED BY <1>1, <1>2, <1>3 DEF PcOK

\* A sender moves.
LEMMA SenderMoves ==
    ASSUME CloseType, PcOK, NEW s \in Senders, NEW l \in {"idle", "write"}, Goto(s, l)
    PROVE  PcOK' /\ \A c \in Subs : pc'[c] = pc[c]
<1>1. pc'[s] = l /\ \A q \in Procs \ {s} : pc'[q] = pc[q]
  BY Moves DEF Procs
<1>2. \A q \in Subs \cup Closers : q \in Procs \ {s}
  BY ConfigAssumption DEF Procs
<1>3. \A d \in Senders \ {s} : pc'[d] = pc[d]
  BY <1>1 DEF Procs
<1> QED BY <1>1, <1>2, <1>3 DEF PcOK

-----------------------------------------------------------------------------
(* What does not touch frames. *)

flow == <<sock, count, loop, frame, todo, put>>

\* Frames stay where they are.
LEMMA FlowStays == FlowInv /\ UNCHANGED flow => FlowInv'
BY DEF flow, FlowInv, SockInv, HandInv, PutInv, AheadInv, Hold

\* Nor subscriptions.
LEMMA LifeStays ==
    ASSUME LifeInv, ListInv, UNCHANGED <<closed, late, open, subs, todo, put, chan>>,
           once' = once \/ ~closed, \A c \in Subs : pc'[c] = pc[c], TypeOK
    PROVE  LifeInv' /\ ListInv'
<1>1. \A c \in Subs : Started(c)' <=> Started(c)
  BY DEF Started
<1>2. LifeInv'
  BY <1>1 DEF LifeInv
<1>3. ListInv'
  <2>1. (\A i \in DOMAIN subs : subs[i] \in Subs) /\ (\A i \in DOMAIN todo : todo[i] \in Subs)
    BY ElementOfSeq, LenProperties DEF TypeOK
  <2> QED BY <2>1, <1>1 DEF ListInv
<1> QED BY <1>2, <1>3

-----------------------------------------------------------------------------
(* The wire and readLoop. *)

Rest == TypeOK /\ LifeInv /\ ListInv /\ FlowInv

\* A frame comes: it is after all that came before.
LEMMA ArriveKeeps ==
    ASSUME BusInv, NEW p \in Peers, NEW k \in Kinds, Arrive(p, k)
    PROVE  Rest'
<1> DEFINE f == [src |-> p, n |-> count[p] + 1, kind |-> k]
<1>0. /\ count[p] < MaxFrames /\ count' = [count EXCEPT ![p] = @ + 1]
      /\ sock' = IF Len(sock) < SockDepth THEN Append(sock, f) ELSE sock
      /\ UNCHANGED <<fd, up, calls, pc>> /\ UNCHANGED busVars /\ UNCHANGED chanVars /\ UNCHANGED loopVars
  BY DEF Arrive
<1>t. /\ sock \in Seq(Frames) /\ Len(sock) <= SockDepth /\ count \in [Peers -> 0 .. MaxFrames]
      /\ MaxFrames \in Nat /\ SockDepth \in Nat /\ put \in [Subs -> Seq(Frames)]
      /\ SockInv /\ HandInv /\ PutInv /\ AheadInv /\ TypeOK
  BY ConfigAssumption DEF BusInv, FlowInv, TypeOK
<1>c. PICK m \in 0 .. MaxFrames : m = count[p]
  BY <1>t
<1>m. m + 1 \in 0 .. MaxFrames /\ m + 1 \in 1 .. MaxFrames
  <2>1. count[p] < MaxFrames
    BY <1>0
  <2>2. MaxFrames \in Nat
    BY <1>t
  <2> QED BY <2>1, <2>2, <1>c
<1>1. /\ count' \in [Peers -> 0 .. MaxFrames] /\ count'[p] = m + 1
      /\ \A q \in Peers \ {p} : count'[q] = count[q]
  BY <1>m, <1>0, <1>c, <1>t
<1>g. \A q \in Peers, n \in Nat : n <= count[q] => n <= count'[q]
  <2> SUFFICES ASSUME NEW q \in Peers, NEW n \in Nat, n <= count[q] PROVE n <= count'[q]
    OBVIOUS
  <2>1. CASE q = p
    <3>1. n <= m
      BY <2>1, <1>c
    <3> QED BY <3>1, <2>1, <1>1
  <2>2. CASE q # p
    BY <2>2, <1>1
  <2> QED BY <2>1, <2>2
<1>f. f \in Frames
  BY <1>m, <1>c DEF Frames
<1>2. /\ sock' \in Seq(Frames) /\ Len(sock') <= SockDepth
      /\ DOMAIN sock = 1 .. Len(sock) /\ Len(sock) \in Nat
      /\ \A i \in DOMAIN sock : sock[i] \in Frames
      /\ \/ sock' = sock
         \/ /\ DOMAIN sock' = 1 .. Len(sock) + 1 /\ sock'[Len(sock) + 1] = f
            /\ \A i \in 1 .. Len(sock) : sock'[i] = sock[i]
  <2> HIDE DEF f
  <2>1. /\ Append(sock, f) \in Seq(Frames) /\ Len(Append(sock, f)) = Len(sock) + 1
        /\ Len(sock) \in Nat /\ DOMAIN sock = 1 .. Len(sock)
        /\ DOMAIN Append(sock, f) = 1 .. Len(sock) + 1 /\ Append(sock, f)[Len(sock) + 1] = f
        /\ \A i \in 1 .. Len(sock) : Append(sock, f)[i] = sock[i]
    BY <1>t, <1>f, Appended
  <2>2. \A i \in DOMAIN sock : sock[i] \in Frames
    BY <1>t, <2>1, ElementOfSeq
  <2>3. CASE Len(sock) < SockDepth
    <3>1. sock' = Append(sock, f)
      BY <1>0, <2>3
    <3>2. Len(sock) + 1 <= SockDepth
      BY <2>1, <2>3, <1>t
    <3> QED BY <3>1, <3>2, <2>1, <2>2
  <2>4. CASE ~(Len(sock) < SockDepth)
    <3>1. sock' = sock
      BY <1>0, <2>4
    <3> QED BY <3>1, <2>1, <2>2, <1>t
  <2> QED BY <2>3, <2>4
<1>n. \A h \in Frames : h.src \in Peers /\ h.n \in Nat /\ (h.n <= count[h.src] => Older(h, f))
  <2> SUFFICES ASSUME NEW h \in Frames
               PROVE  h.src \in Peers /\ h.n \in Nat /\ (h.n <= count[h.src] => Older(h, f))
    OBVIOUS
  <2>1. h.src \in Peers /\ h.n \in 1 .. MaxFrames
    BY DEF Frames
  <2>2. PICK n \in 1 .. MaxFrames : n = h.n
    BY <2>1
  <2>3. ASSUME h.n <= count[h.src], h.src = p PROVE h.n < f.n
    <3>1. n <= m
      BY <2>2, <2>3, <1>c
    <3>2. f.n = m + 1
      BY <1>c
    <3> QED BY <3>1, <3>2, <2>2
  <2>4. h.n \in Nat
    BY <2>2
  <2>5. f.src = p
    OBVIOUS
  <2>6. h.n <= count[h.src] => Older(h, f)
    <3> HIDE DEF f
    <3> QED BY <2>3, <2>5 DEF Older
  <2> QED BY <2>1, <2>4, <2>6
<1>3. \A i \in DOMAIN sock' : \/ i \in DOMAIN sock /\ sock'[i] = sock[i]
                              \/ sock'[i] = f /\ i = Len(sock) + 1
  BY <1>2
<1>o. \A h \in Frames :
        h.n <= count[h.src] /\ (\A j \in DOMAIN sock : Older(h, sock[j]))
        => h.n <= count'[h.src] /\ \A j \in DOMAIN sock' : Older(h, sock'[j])
  <2> HIDE DEF f
  <2> QED BY <1>3, <1>n, <1>g
<1>4. SockInv'
  <2>1. ASSUME NEW i \in DOMAIN sock' PROVE sock'[i].n <= count'[sock'[i].src]
    <3>1. CASE i \in DOMAIN sock /\ sock'[i] = sock[i]
      BY <3>1, <1>t, <1>2, <1>n, <1>g DEF SockInv
    <3>2. CASE sock'[i] = f
      <4>1. f.n = m + 1 /\ f.src = p
        BY <1>c
      <4> QED BY <4>1, <3>2, <1>1
    <3> QED BY <3>1, <3>2, <1>3
  <2>2. ASSUME NEW i \in DOMAIN sock', NEW j \in DOMAIN sock', i < j
        PROVE  Older(sock'[i], sock'[j])
    <3>1. i \in DOMAIN sock /\ sock'[i] = sock[i]
      BY <2>2, <1>2, <1>3
    <3>2. CASE j \in DOMAIN sock /\ sock'[j] = sock[j]
      BY <3>1, <3>2, <2>2, <1>t DEF SockInv
    <3>3. CASE sock'[j] = f
      <4> HIDE DEF f
      <4> QED BY <3>1, <3>3, <1>t, <1>2, <1>n DEF SockInv
    <3> QED BY <3>2, <3>3, <1>3
  <2> QED BY <2>1, <2>2 DEF SockInv
<1>5. HandInv'
  <2> SUFFICES ASSUME loop \in {"lock", "walk"}
               PROVE  Hold.n <= count'[Hold.src] /\ \A j \in DOMAIN sock' : Older(Hold, sock'[j])
    BY <1>0 DEF HandInv, Hold
  <2>1. frame \in Seq(Frames) /\ Len(frame) = 1
    BY <1>t DEF TypeOK
  <2>2. Hold \in Frames
    BY <2>1, ElementOfSeq DEF Hold
  <2> QED BY <2>2, <1>o, <1>t DEF HandInv
<1>6. PutInv'
  <2>1. \A c \in Subs : \A i \in DOMAIN put[c] : put[c][i] \in Frames
    BY <1>t, ElementOfSeq, LenProperties
  <2> QED BY <2>1, <1>0, <1>o, <1>t DEF PutInv, Hold
<1>7. AheadInv'
  BY <1>0, <1>t DEF AheadInv, Hold
<1>8. TypeOK'
  BY <1>0, <1>1, <1>2, <1>t DEF TypeOK
<1>9. LifeInv' /\ ListInv'
  BY <1>0, <1>t, LifeStays DEF BusInv
<1> QED BY <1>4, <1>5, <1>6, <1>7, <1>8, <1>9 DEF Rest, FlowInv

\* readLoop outside its walk.
LEMMA LoopIdleKeeps ==
    ASSUME BusInv, LoopPolls \/ LoopEnters \/ LoopFails \/ LoopUnlocks
    PROVE  Rest'
<1>0. /\ UNCHANGED kernelVars /\ UNCHANGED busVars /\ UNCHANGED chanVars /\ UNCHANGED <<todo, calls, pc>>
      /\ loop' \in {"poll", "enter", "read", "exited"}
      /\ \/ frame' = frame /\ loop \in {"poll", "enter", "read"}
         \/ frame' = <<>>
  BY DEF LoopPolls, LoopEnters, LoopFails, LoopUnlocks
<1>1. TypeOK'
  <2>t. TypeOK
    BY DEF BusInv
  <2>1. frame' \in Seq(Frames) /\ Len(frame') = 0
    <3>1. CASE frame' = <<>>
      BY <3>1, EmptySeq
    <3>2. CASE frame' = frame /\ loop \in {"poll", "enter", "read"}
      BY <3>2, <2>t DEF TypeOK
    <3> QED BY <3>1, <3>2, <1>0
  <2> QED BY <2>1, <2>t, <1>0 DEF TypeOK
<1>2. LifeInv' /\ ListInv'
  BY <1>0, LifeStays DEF BusInv
<1>3. FlowInv'
  BY <1>0 DEF BusInv, FlowInv, SockInv, HandInv, PutInv, AheadInv
<1> QED BY <1>1, <1>2, <1>3 DEF Rest

\* It takes the oldest frame of the wire into its hand.
LEMMA LoopReadsKeeps ==
    ASSUME BusInv, LoopReads
    PROVE  Rest'
<1>0. /\ sock # <<>> /\ frame' = <<Head(sock)>> /\ sock' = Tail(sock) /\ loop' = "lock"
      /\ UNCHANGED <<fd, up, count, todo, calls, pc>> /\ UNCHANGED busVars /\ UNCHANGED chanVars
  BY DEF LoopReads
<1>t. /\ sock \in Seq(Frames) /\ Len(sock) <= SockDepth /\ SockDepth \in Nat
      /\ SockInv /\ PutInv /\ TypeOK
  BY ConfigAssumption DEF BusInv, FlowInv, TypeOK
<1>1. /\ sock' \in Seq(Frames) /\ Len(sock') = Len(sock) - 1 /\ Len(sock) \in Nat /\ Len(sock) > 0
      /\ DOMAIN sock = 1 .. Len(sock) /\ DOMAIN sock' = 1 .. Len(sock) - 1
      /\ Head(sock) = sock[1] /\ Head(sock) \in Frames
      /\ \A i \in 1 .. Len(sock) - 1 : sock'[i] = sock[i + 1]
  BY <1>0, <1>t, Shortened
<1>2. /\ 1 \in DOMAIN sock /\ frame'[1] = sock[1]
      /\ \A i \in DOMAIN sock' : i + 1 \in DOMAIN sock /\ 1 < i + 1 /\ sock'[i] = sock[i + 1]
  BY <1>0, <1>1
<1>3. TypeOK'
  <2>1. frame' \in Seq(Frames) /\ Len(frame') = 1
    BY <1>0, <1>1
  <2>2. Len(sock') <= SockDepth
    BY <1>1, <1>t
  <2> QED BY <2>1, <2>2, <1>0, <1>1, <1>t DEF TypeOK
<1>4. LifeInv' /\ ListInv'
  BY <1>0, LifeStays DEF BusInv
<1>5. SockInv'
  <2>1. \A i \in DOMAIN sock' : sock'[i].n <= count'[sock'[i].src]
    BY <1>0, <1>2, <1>t DEF SockInv
  <2>2. ASSUME NEW i \in DOMAIN sock', NEW j \in DOMAIN sock', i < j
        PROVE  Older(sock'[i], sock'[j])
    <3>1. i + 1 < j + 1
      BY <2>2, <1>1
    <3> QED BY <3>1, <1>2, <1>t DEF SockInv
  <2> QED BY <2>1, <2>2 DEF SockInv
<1>6. HandInv'
  BY <1>0, <1>2, <1>t DEF SockInv, HandInv, Hold
<1>7. PutInv'
  BY <1>0, <1>2, <1>t DEF PutInv, Hold
<1>8. AheadInv'
  BY <1>0 DEF AheadInv
<1> QED BY <1>3, <1>4, <1>5, <1>6, <1>7, <1>8 DEF Rest, FlowInv

\* It takes the list, on which no channel has the frame yet.
LEMMA LoopLocksKeeps ==
    ASSUME BusInv, LoopLocks
    PROVE  Rest'
<1>0. /\ loop = "lock" /\ loop' = "walk" /\ todo' = subs
      /\ UNCHANGED kernelVars /\ UNCHANGED busVars /\ UNCHANGED chanVars /\ UNCHANGED <<frame, calls, pc>>
  BY DEF LoopLocks
<1>t. TypeOK /\ FlowInv /\ LifeInv /\ ListInv
  BY DEF BusInv
<1>1. TypeOK'
  BY <1>0, <1>t DEF TypeOK
<1>2. LifeInv'
  BY <1>0, <1>t DEF LifeInv, Started
<1>3. ListInv'
  BY <1>0, <1>t DEF ListInv, Started
<1>4. SockInv' /\ HandInv' /\ PutInv'
  BY <1>0, <1>t DEF FlowInv, SockInv, HandInv, PutInv, Hold
<1>5. AheadInv'
  <2>1. \A k \in DOMAIN subs : subs[k] \in Subs
    BY <1>t, ElementOfSeq, LenProperties DEF TypeOK
  <2> QED BY <2>1, <1>0, <1>t DEF FlowInv, PutInv, AheadInv, Hold
<1> QED BY <1>1, <1>2, <1>3, <1>4, <1>5 DEF Rest, FlowInv

\* It puts the frame on a channel, which is not on the rest of its list.
LEMMA LoopDeliversKeeps ==
    ASSUME BusInv, LoopDelivers
    PROVE  Rest'
<1> DEFINE c == Target
<1>0. /\ loop = "walk" /\ todo # <<>> /\ todo' = Tail(todo)
      /\ \/ /\ Len(chan[c]) < Depth
            /\ chan' = [chan EXCEPT ![c] = Append(@, Hold)]
            /\ put' = [put EXCEPT ![c] = Append(@, Hold)]
         \/ UNCHANGED <<chan, put>>
      /\ UNCHANGED kernelVars /\ UNCHANGED busVars /\ UNCHANGED <<open, late, loop, frame, calls, pc>>
  BY DEF LoopDelivers, HasRoom
<1>t. /\ TypeOK /\ SockInv /\ HandInv /\ PutInv /\ AheadInv /\ LifeInv /\ ListInv
      /\ put \in [Subs -> Seq(Frames)] /\ chan \in [Subs -> Seq(Frames)]
      /\ Depth \in Nat /\ todo \in Seq(Subs)
  BY ConfigAssumption DEF BusInv, FlowInv, TypeOK
<1>1. /\ todo' \in Seq(Subs) /\ Len(todo) \in Nat /\ Len(todo) > 0
      /\ DOMAIN todo = 1 .. Len(todo) /\ DOMAIN todo' = 1 .. Len(todo) - 1
      /\ c = todo[1] /\ c \in Subs /\ \A i \in 1 .. Len(todo) - 1 : todo'[i] = todo[i + 1]
  BY <1>0, <1>t, Shortened DEF Target
<1>2. /\ 1 \in DOMAIN todo
      /\ \A i \in DOMAIN todo' : i + 1 \in DOMAIN todo /\ todo'[i] = todo[i + 1]
      /\ \A i \in DOMAIN todo' : todo'[i] # c
  <2>1. 1 \in DOMAIN todo
    BY <1>1
  <2>2. \A i \in DOMAIN todo' : i + 1 \in DOMAIN todo /\ todo'[i] = todo[i + 1] /\ i + 1 # 1
    BY <1>1
  <2> HIDE DEF c
  <2> QED BY <2>1, <2>2, <1>1, <1>t DEF ListInv
<1>h. Hold \in Frames
  <2>1. frame \in Seq(Frames) /\ Len(frame) = 1
    BY <1>0, <1>t DEF TypeOK
  <2> QED BY <2>1, ElementOfSeq DEF Hold
<1> HIDE DEF c
<1>3. /\ put' \in [Subs -> Seq(Frames)] /\ chan' \in [Subs -> Seq(Frames)]
      /\ \A d \in Subs : Len(chan'[d]) <= Depth
      /\ \A d \in Subs \ {c} : put'[d] = put[d] /\ chan'[d] = chan[d]
      /\ \A i \in DOMAIN put'[c] : \/ i \in DOMAIN put[c] /\ put'[c][i] = put[c][i]
                                   \/ put'[c][i] = Hold
  <2>1. CASE UNCHANGED <<chan, put>>
    BY <2>1, <1>t DEF TypeOK
  <2>2. CASE /\ Len(chan[c]) < Depth
             /\ chan' = [chan EXCEPT ![c] = Append(@, Hold)]
             /\ put' = [put EXCEPT ![c] = Append(@, Hold)]
    <3>1. /\ Append(put[c], Hold) \in Seq(Frames) /\ Append(chan[c], Hold) \in Seq(Frames)
          /\ Len(Append(chan[c], Hold)) = Len(chan[c]) + 1 /\ Len(chan[c]) \in Nat
          /\ DOMAIN put[c] = 1 .. Len(put[c]) /\ Len(put[c]) \in Nat
          /\ DOMAIN Append(put[c], Hold) = 1 .. Len(put[c]) + 1
          /\ Append(put[c], Hold)[Len(put[c]) + 1] = Hold
          /\ \A i \in 1 .. Len(put[c]) : Append(put[c], Hold)[i] = put[c][i]
      BY <1>1, <1>t, <1>h, Appended
    <3>2. Len(Append(chan[c], Hold)) <= Depth
      BY <3>1, <2>2, <1>t
    <3>3. \A i \in DOMAIN Append(put[c], Hold) :
             \/ i \in DOMAIN put[c] /\ Append(put[c], Hold)[i] = put[c][i]
             \/ Append(put[c], Hold)[i] = Hold
      BY <3>1
    <3>4. /\ put'[c] = Append(put[c], Hold) /\ chan'[c] = Append(chan[c], Hold)
          /\ \A d \in Subs \ {c} : put'[d] = put[d] /\ chan'[d] = chan[d]
          /\ put' \in [Subs -> Seq(Frames)] /\ chan' \in [Subs -> Seq(Frames)]
      BY <2>2, <3>1, <1>1, <1>t
    <3>5. \A d \in Subs : Len(chan'[d]) <= Depth
      BY <3>2, <3>4, <1>t DEF TypeOK
    <3> QED BY <3>3, <3>4, <3>5
  <2> QED BY <1>0, <2>1, <2>2
<1>4. TypeOK'
  BY <1>0, <1>1, <1>3, <1>t DEF TypeOK
<1>5. ListInv'
  <2>1. \A i, j \in DOMAIN todo' : todo'[i] = todo'[j] => i = j
    <3> SUFFICES ASSUME NEW i \in DOMAIN todo', NEW j \in DOMAIN todo', todo'[i] = todo'[j]
                 PROVE  i = j
      OBVIOUS
    <3>1. i + 1 = j + 1
      BY <1>2, <1>t DEF ListInv
    <3> QED BY <3>1, <1>1
  <2> QED BY <2>1, <1>0, <1>2, <1>t DEF ListInv, Started
<1>6. LifeInv'
  <2>1. Started(c)
    BY <1>1, <1>2, <1>t DEF ListInv
  <2> QED BY <2>1, <1>0, <1>3, <1>t DEF LifeInv, Started
<1>7. SockInv' /\ HandInv'
  BY <1>0, <1>t DEF SockInv, HandInv, Hold
<1>8. PutInv'
  <2> SUFFICES ASSUME NEW d \in Subs, NEW i \in DOMAIN put'[d]
               PROVE  /\ put'[d][i].n <= count[put'[d][i].src]
                      /\ \A j \in DOMAIN sock : Older(put'[d][i], sock[j])
    BY <1>0 DEF PutInv
  <2>1. \/ i \in DOMAIN put[d] /\ put'[d][i] = put[d][i]
        \/ put'[d][i] = Hold
    BY <1>3
  <2> QED BY <2>1, <1>0, <1>t DEF PutInv, HandInv
<1>9. AheadInv'
  <2>1. \A i \in DOMAIN todo' : todo'[i] \in Subs \ {c}
    BY <1>1, <1>2, ElementOfSeq, LenProperties
  <2>2. \A i \in DOMAIN todo' : put'[todo'[i]] = put[todo[i + 1]] /\ i + 1 \in DOMAIN todo
    BY <2>1, <1>2, <1>3
  <2> QED BY <2>2, <1>0, <1>2, <1>t DEF AheadInv, Hold
<1> QED BY <1>4, <1>5, <1>6, <1>7, <1>8, <1>9 DEF Rest, FlowInv
-----------------------------------------------------------------------------
(* The subscriptions, Close and Send. *)

\* A call of Subscribe starts, or the consumer has seen the end.
LEMMA SubWaitsKeeps ==
    ASSUME BusInv, NEW c \in Subs, SubscribeCall(c) \/ ReceiveEOF(c)
    PROVE  Rest'
<1>t. TypeOK /\ FlowInv /\ LifeInv /\ ListInv /\ CloseType /\ PcOK
  BY TypeParts DEF BusInv, IInv
<1>0. /\ UNCHANGED kernelVars /\ UNCHANGED busVars /\ UNCHANGED chanVars /\ UNCHANGED loopVars
      /\ UNCHANGED calls
      /\ \/ pc[c] = "new" /\ Goto(c, "lock")
         \/ pc[c] = "reading" /\ Goto(c, "eof")
  BY DEF SubscribeCall, ReceiveEOF
<1>1. /\ PcOK' /\ \A d \in Subs \ {c} : pc'[d] = pc[d]
      /\ \/ pc[c] = "new" /\ pc'[c] = "lock"
         \/ pc[c] = "reading" /\ pc'[c] = "eof"
  BY <1>0, <1>t, SubMoves
<1>2. \A d \in Subs : Started(d)' <=> Started(d)
  BY <1>1 DEF Started
<1>3. TypeOK'
  BY <1>0, <1>1, <1>t DEF TypeOK, PcOK
<1>4. LifeInv'
  BY <1>0, <1>2, <1>t DEF LifeInv
<1>5. ListInv'
  <2>1. (\A i \in DOMAIN subs : subs[i] \in Subs) /\ (\A i \in DOMAIN todo : todo[i] \in Subs)
    BY <1>t, ElementOfSeq, LenProperties DEF TypeOK
  <2> QED BY <2>1, <1>0, <1>2, <1>t DEF ListInv
<1>6. FlowInv'
  BY <1>0, <1>t, FlowStays DEF flow
<1> QED BY <1>3, <1>4, <1>5, <1>6 DEF Rest

\* Subscribe: a new channel, which was not on the list.
LEMMA SubscribeKeeps ==
    ASSUME BusInv, NEW c \in Subs, Subscribe(c)
    PROVE  Rest'
<1>t. /\ TypeOK /\ FlowInv /\ LifeInv /\ ListInv /\ CloseType /\ PcOK
      /\ subs \in Seq(Subs) /\ open \in [Subs -> BOOLEAN] /\ late \subseteq Subs
  BY TypeParts DEF BusInv, IInv, TypeOK
<1>0. /\ pc[c] = "lock" /\ subs' = Append(subs, c) /\ open' = [open EXCEPT ![c] = TRUE]
      /\ Goto(c, "reading") /\ late' = IF closed THEN late \cup {c} ELSE late
      /\ UNCHANGED kernelVars /\ UNCHANGED <<done, closed, once, chan, put, calls>> /\ UNCHANGED loopVars
  BY DEF Subscribe
<1>1. PcOK' /\ pc'[c] = "reading" /\ \A d \in Subs \ {c} : pc'[d] = pc[d]
  BY <1>0, <1>t, SubMoves
<1>2. /\ ~Started(c) /\ \A d \in Subs : (Started(d) => pc'[d] \in {"reading", "eof"})
      /\ \A d \in Subs : (pc'[d] \in {"reading", "eof"} <=> Started(d) \/ d = c)
  BY <1>0, <1>1 DEF Started
<1>3. /\ subs' \in Seq(Subs) /\ Len(subs) \in Nat
      /\ DOMAIN subs = 1 .. Len(subs) /\ DOMAIN subs' = 1 .. Len(subs) + 1
      /\ subs'[Len(subs) + 1] = c /\ \A i \in 1 .. Len(subs) : subs'[i] = subs[i]
  BY <1>0, <1>t, Appended
<1>4. /\ \A i \in DOMAIN subs' : \/ i \in DOMAIN subs /\ subs'[i] = subs[i]
                                 \/ i = Len(subs) + 1 /\ subs'[i] = c
      /\ \A i \in DOMAIN subs : i \in DOMAIN subs' /\ subs[i] \in Subs /\ subs[i] # c
      /\ Len(subs) + 1 \in DOMAIN subs'
  <2>1. \A i \in DOMAIN subs : subs[i] \in Subs /\ subs[i] # c
    BY <1>2, <1>3, <1>t, ElementOfSeq DEF ListInv
  <2>2. PICK n \in Nat : n = Len(subs)
    BY <1>3
  <2>3. \A i \in 1 .. n + 1 : i \in 1 .. n \/ i = n + 1
    BY <2>2
  <2>4. \A i \in 1 .. n : i \in 1 .. n + 1
    BY <2>2
  <2>5. n + 1 \in 1 .. n + 1
    BY <2>2
  <2> QED BY <2>1, <2>2, <2>3, <2>4, <2>5, <1>3
<1>5. open' \in [Subs -> BOOLEAN] /\ open'[c] /\ \A d \in Subs \ {c} : open'[d] = open[d]
  BY <1>0, <1>t
<1>6. TypeOK'
  <2>1. late' \subseteq Subs
    BY <1>0, <1>t
  <2> QED BY <2>1, <1>0, <1>1, <1>3, <1>5, <1>t DEF TypeOK, PcOK
<1>7. LifeInv'
  <2>1. (closed' => once' = "over") /\ (~closed' => late' = {})
    BY <1>0, <1>t DEF LifeInv
  <2>2. ASSUME ~closed', NEW d \in Subs, open'[d] PROVE \E i \in DOMAIN subs' : subs'[i] = d
    <3>1. CASE d = c
      BY <3>1, <1>3, <1>4
    <3>2. CASE d # c
      <4>1. PICK i \in DOMAIN subs : subs[i] = d
        BY <3>2, <2>2, <1>0, <1>5, <1>t DEF LifeInv
      <4> QED BY <4>1, <1>3, <1>4
    <3> QED BY <3>1, <3>2
  <2>3. \A d \in Subs : open'[d] => pc'[d] \in {"reading", "eof"}
    BY <1>1, <1>2, <1>5, <1>t DEF LifeInv
  <2>4. \A d \in Subs : ~(pc'[d] \in {"reading", "eof"}) => d \notin late' /\ put'[d] = <<>> /\ chan'[d] = <<>>
    BY <1>0, <1>2, <1>t DEF LifeInv
  <2> QED BY <2>1, <2>2, <2>3, <2>4 DEF LifeInv, Started
<1>8. ListInv'
  <2>1. \A i \in DOMAIN subs' : pc'[subs'[i]] \in {"reading", "eof"}
    BY <1>1, <1>2, <1>4, <1>t DEF ListInv
  <2>2. \A i \in DOMAIN todo : pc'[todo[i]] \in {"reading", "eof"}
    <3>1. \A i \in DOMAIN todo : todo[i] \in Subs
      BY <1>t, ElementOfSeq, LenProperties DEF TypeOK
    <3> QED BY <3>1, <1>2, <1>t DEF ListInv
  <2>3. \A i, j \in DOMAIN subs' : subs'[i] = subs'[j] => i = j
    BY <1>4, <1>t DEF ListInv
  <2> QED BY <2>1, <2>2, <2>3, <1>0, <1>t DEF ListInv, Started
<1>9. FlowInv'
  BY <1>0, <1>t, FlowStays DEF flow
<1> QED BY <1>6, <1>7, <1>8, <1>9 DEF Rest

\* A consumer reads.
LEMMA ReceiveKeeps ==
    ASSUME BusInv, NEW c \in Subs, Receive(c)
    PROVE  Rest'
<1>t. /\ TypeOK /\ FlowInv /\ LifeInv /\ ListInv
      /\ chan \in [Subs -> Seq(Frames)] /\ Depth \in Nat
  BY ConfigAssumption DEF BusInv, TypeOK
<1>0. /\ pc[c] = "reading" /\ chan[c] # <<>> /\ chan' = [chan EXCEPT ![c] = Tail(@)]
      /\ UNCHANGED kernelVars /\ UNCHANGED busVars /\ UNCHANGED loopVars
      /\ UNCHANGED <<open, put, late, calls, pc>>
  BY DEF Receive
<1>1. /\ Tail(chan[c]) \in Seq(Frames) /\ Len(Tail(chan[c])) = Len(chan[c]) - 1 /\ Len(chan[c]) \in Nat
  BY <1>0, <1>t, Shortened
<1>2. /\ chan' \in [Subs -> Seq(Frames)] /\ chan'[c] = Tail(chan[c])
      /\ \A d \in Subs \ {c} : chan'[d] = chan[d]
  BY <1>0, <1>1, <1>t
<1>3. \A d \in Subs : Len(chan'[d]) <= Depth
  <2>1. Len(chan[c]) <= Depth
    BY <1>t DEF TypeOK
  <2>2. Len(chan'[c]) <= Depth
    BY <2>1, <1>1, <1>2, <1>t
  <2> QED BY <2>2, <1>2, <1>t DEF TypeOK
<1>4. TypeOK'
  BY <1>0, <1>2, <1>3, <1>t DEF TypeOK
<1>5. LifeInv'
  BY <1>0, <1>2, <1>t DEF LifeInv, Started
<1>6. ListInv'
  BY <1>0, <1>t DEF ListInv, Started
<1>7. FlowInv'
  BY <1>0, <1>t, FlowStays DEF flow
<1> QED BY <1>4, <1>5, <1>6, <1>7 DEF Rest

\* What Close does before it ends the streams, and Send, leaves alone.
Quiet ==
    /\ PcOK' /\ (\A c \in Subs : pc'[c] = pc[c])
    /\ UNCHANGED <<sock, count, closed, subs>> /\ UNCHANGED chanVars /\ UNCHANGED loopVars
    /\ fd' \in BOOLEAN /\ up' \in BOOLEAN /\ done' \in BOOLEAN
    /\ once' = once \/ (~closed /\ once' = "running")
    /\ calls' \in [Senders -> 0 .. MaxSends]
\* Those steps keep the invariant.
LEMMA CallsKeep ==
    ASSUME BusInv,
           \/ \E k \in Closers : CloseCall(k) \/ CloseFirst(k) \/ CloseAgain(k) \/ CloseSocket(k)
           \/ \E s \in Senders : SendEnters(s) \/ SendReturns(s)
           \/ GoesDown \/ UNCHANGED vars
    PROVE  Rest'
<1>t. TypeOK /\ FlowInv /\ LifeInv /\ ListInv /\ CloseType /\ PcOK
  BY TypeParts DEF BusInv, IInv
<1>1. Quiet
  <2>1. ASSUME NEW k \in Closers, CloseCall(k) \/ CloseFirst(k) \/ CloseAgain(k) \/ CloseSocket(k)
        PROVE  Quiet
    <3>1. \E l \in {"idle", "once", "fd", "lock", "done"} : Goto(k, l)
      BY <2>1 DEF CloseCall, CloseFirst, CloseAgain, CloseSocket
    <3>2. PcOK' /\ \A c \in Subs : pc'[c] = pc[c]
      BY <3>1, <1>t, CloserMoves
    <3>3. CloseFirst(k) => ~closed
      BY <1>t DEF CloseFirst, LifeInv
    <3> QED
      BY <2>1, <3>2, <3>3, <1>t DEF CloseCall, CloseFirst, CloseAgain, CloseSocket, TypeOK, Quiet
  <2>2. ASSUME NEW s \in Senders, SendEnters(s) \/ SendReturns(s)
        PROVE  Quiet
    <3>1. \E l \in {"idle", "write"} : Goto(s, l)
      BY <2>2 DEF SendEnters, SendReturns
    <3>2. PcOK' /\ \A c \in Subs : pc'[c] = pc[c]
      BY <3>1, <1>t, SenderMoves
    <3>3. calls' \in [Senders -> 0 .. MaxSends]
      <4>1. CASE SendReturns(s)
        BY <4>1, <1>t DEF SendReturns, TypeOK
      <4>2. CASE SendEnters(s)
        <5>1. calls \in [Senders -> 0 .. MaxSends] /\ calls[s] < MaxSends /\ MaxSends \in Nat
          BY <4>2, <1>t, ConfigAssumption DEF SendEnters, TypeOK
        <5>2. calls[s] + 1 \in 0 .. MaxSends
          <6>1. PICK n \in 0 .. MaxSends : n = calls[s]
            BY <5>1
          <6> QED BY <6>1, <5>1
        <5>3. calls' = [calls EXCEPT ![s] = @ + 1]
          BY <4>2 DEF SendEnters
        <5> QED BY <5>1, <5>2, <5>3
      <4> QED BY <2>2, <4>1, <4>2
    <3> QED BY <2>2, <3>2, <3>3, <1>t DEF SendEnters, SendReturns, TypeOK, Quiet
  <2>3. CASE GoesDown \/ UNCHANGED vars
    BY <2>3, <1>t DEF GoesDown, vars, TypeOK, PcOK, Quiet
  <2> QED BY <2>1, <2>2, <2>3
<1>2. TypeOK'
  BY <1>1, <1>t DEF TypeOK, PcOK, Quiet
<1>3. LifeInv' /\ ListInv'
  <2>1. UNCHANGED <<closed, late, open, subs, todo, put, chan>> /\ (once' = once \/ ~closed)
    BY <1>1 DEF Quiet
  <2> QED BY <2>1, <1>1, <1>t, LifeStays DEF Quiet
<1>4. FlowInv'
  BY <1>1, <1>t, FlowStays DEF flow, Quiet
<1> QED BY <1>2, <1>3, <1>4 DEF Rest

\* Close ends the streams.
LEMMA CloseSubsKeeps ==
    ASSUME BusInv, NEW k \in Closers, CloseSubs(k)
    PROVE  Rest'
<1>t. TypeOK /\ FlowInv /\ LifeInv /\ ListInv /\ CloseType /\ PcOK
  BY TypeParts DEF BusInv, IInv
<1>0. /\ EndStreams /\ subs' = <<>> /\ closed' = TRUE /\ once' = "over" /\ Goto(k, "done")
      /\ UNCHANGED kernelVars /\ UNCHANGED <<done, chan, put, late, calls>> /\ UNCHANGED loopVars
  BY DEF CloseSubs
<1>1. PcOK' /\ \A c \in Subs : pc'[c] = pc[c]
  BY <1>0, <1>t, CloserMoves
<1>2. open' \in [Subs -> BOOLEAN] /\ \A c \in Subs : open'[c] => open[c]
  <2>1. \A c \in Subs : (open[c] /\ \A i \in DOMAIN subs : subs[i] # c) \in BOOLEAN
    OBVIOUS
  <2>2. open' \in [Subs -> BOOLEAN]
    BY <2>1, <1>0, Zenon DEF EndStreams
  <2>3. \A c \in Subs : open'[c] => open[c]
    BY <1>0 DEF EndStreams
  <2> QED BY <2>2, <2>3
<1>3. subs' \in Seq(Subs) /\ DOMAIN subs' = {}
  BY <1>0, EmptySeq
<1>4. TypeOK'
  BY <1>0, <1>1, <1>2, <1>3, <1>t DEF TypeOK, PcOK
<1>5. \A c \in Subs : Started(c)' <=> Started(c)
  BY <1>1 DEF Started
<1>6. LifeInv'
  BY <1>0, <1>2, <1>5, <1>t DEF LifeInv
<1>7. ListInv'
  <2>1. \A i \in DOMAIN todo : todo[i] \in Subs
    BY <1>t, ElementOfSeq, LenProperties DEF TypeOK
  <2> QED BY <2>1, <1>0, <1>3, <1>5, <1>t DEF ListInv
<1>8. FlowInv'
  BY <1>0, <1>t, FlowStays DEF flow
<1> QED BY <1>4, <1>6, <1>7, <1>8 DEF Rest

-----------------------------------------------------------------------------
(* The theorems. *)

\* Every step keeps the invariant.
LEMMA BusInvKept == BusInv /\ [Next]_vars => BusInv'
<1> SUFFICES ASSUME BusInv, [Next]_vars PROVE BusInv'
  OBVIOUS
<1>1. IInv'
  BY StepKeeps DEF BusInv
<1>2. CASE \E p \in Peers, k \in Kinds : Arrive(p, k)
  BY <1>1, <1>2, ArriveKeeps DEF BusInv, Rest
<1>3. CASE LoopStep
  BY <1>1, <1>3, LoopIdleKeeps, LoopReadsKeeps, LoopLocksKeeps, LoopDeliversKeeps
     DEF LoopStep, BusInv, Rest
<1>4. ASSUME NEW c \in Subs, SubscribeCall(c) \/ Subscribe(c) \/ Receive(c) \/ ReceiveEOF(c)
      PROVE  BusInv'
  BY <1>1, <1>4, SubWaitsKeeps, SubscribeKeeps, ReceiveKeeps DEF BusInv, Rest
<1>5. ASSUME NEW k \in Closers, CloseSubs(k) PROVE BusInv'
  BY <1>1, <1>5, CloseSubsKeeps DEF BusInv, Rest
<1>6. CASE \/ \E k \in Closers : CloseCall(k) \/ CloseFirst(k) \/ CloseAgain(k) \/ CloseSocket(k)
           \/ \E s \in Senders : SendEnters(s) \/ SendReturns(s)
           \/ GoesDown \/ UNCHANGED vars
  BY <1>1, <1>6, CallsKeep DEF BusInv, Rest
<1> QED BY <1>2, <1>3, <1>4, <1>5, <1>6 DEF Next, CloseStep

\* It holds throughout.
THEOREM BusInvariant == Spec => []BusInv
<1> QED BY BusInitInv, BusInvKept, PTL DEF Spec

\* The types, with the bounds of channels and socket.
THEOREM SocketTypeCorrect == Spec => []TypeOK
<1>1. BusInv => TypeOK
  BY DEF BusInv
<1> QED BY <1>1, BusInvariant, PTL

-----------------------------------------------------------------------------
(* The refinement. *)

\* Nothing CanBus knows changes.
LEMMA Stutters ==
    ASSUME UNCHANGED <<closed, open, late, chan, put>>,
           \A c \in Subs : pc'[c] \in {"new", "lock"} <=> pc[c] \in {"new", "lock"}
    PROVE  UNCHANGED Bus!busVars
BY DEF Bus!busVars

\* Subscribe opens a stream, unless Close has been there.
LEMMA SubscribeRefines ==
    ASSUME BusInv, NEW c \in Subs, Subscribe(c)
    PROVE  Bus!BusNext \/ UNCHANGED Bus!busVars
<1>t. /\ TypeOK /\ LifeInv /\ CloseType /\ PcOK
      /\ open \in [Subs -> BOOLEAN]
  BY TypeParts DEF BusInv, IInv, TypeOK
<1>0. /\ pc[c] = "lock" /\ open' = [open EXCEPT ![c] = TRUE]
      /\ Goto(c, "reading") /\ late' = IF closed THEN late \cup {c} ELSE late
      /\ UNCHANGED <<closed, chan, put>>
  BY DEF Subscribe
<1>1. pc'[c] = "reading" /\ \A d \in Subs \ {c} : pc'[d] = pc[d]
  BY <1>0, <1>t, SubMoves
<1>2. open'[c] /\ \A d \in Subs \ {c} : open'[d] = open[d]
  BY <1>0, <1>t
<1>3. c \notin late /\ put[c] = <<>> /\ chan[c] = <<>>
  BY <1>0, <1>t DEF LifeInv, Started
<1>4. CASE closed
  BY <1>0, <1>1, <1>2, <1>3, <1>4 DEF Bus!busVars
<1>5. CASE ~closed
  <2>1. Bus!Open(c)
    BY <1>0, <1>1, <1>2, <1>3, <1>5 DEF Bus!Open
  <2> QED BY <2>1 DEF Bus!BusNext
<1> QED BY <1>4, <1>5

\* A read takes the oldest frame.
LEMMA ReceiveRefines ==
    ASSUME BusInv, NEW c \in Subs, Receive(c)
    PROVE  Bus!BusNext \/ UNCHANGED Bus!busVars
<1>0. /\ chan[c] # <<>> /\ chan' = [chan EXCEPT ![c] = Tail(@)]
      /\ UNCHANGED <<closed, open, put, late, pc>> /\ chan \in [Subs -> Seq(Frames)]
  BY DEF Receive, BusInv, TypeOK
<1>1. chan'[c] = Tail(chan[c]) /\ \A d \in Subs \ {c} : chan'[d] = chan[d]
  BY <1>0
<1>2. CASE c \in late
  BY <1>0, <1>1, <1>2 DEF Bus!busVars
<1>3. CASE c \notin late
  <2>1. Bus!Leave(c)
    BY <1>0, <1>1, <1>3 DEF Bus!Leave
  <2> QED BY <2>1 DEF Bus!BusNext
<1> QED BY <1>2, <1>3

\* readLoop offers its frame to an open channel that has nothing newer of that peer.
LEMMA DeliverRefines ==
    ASSUME BusInv, LoopDelivers
    PROVE  Bus!BusNext \/ UNCHANGED Bus!busVars
<1>t. /\ loop = "walk" /\ todo # <<>>
      /\ chan \in [Subs -> Seq(Frames)] /\ put \in [Subs -> Seq(Frames)] /\ todo \in Seq(Subs)
      /\ frame \in Seq(Frames) /\ Len(frame) = 1 /\ AheadInv /\ LifeInv /\ NoSendOnClosed
  BY DEF LoopDelivers, BusInv, TypeOK, FlowInv, IInv, WalkInv
<1>c. PICK c \in Subs : c = Target /\ c = todo[1] /\ 1 \in DOMAIN todo
  BY <1>t, Shortened DEF Target
<1>f. PICK f \in Frames : f = Hold
  <2>1. frame \in Seq(Frames) /\ 1 \in 1 .. Len(frame)
    BY <1>t
  <2> QED BY <2>1, ElementOfSeq DEF Hold
<1>0. /\ UNCHANGED closed /\ UNCHANGED open /\ UNCHANGED late /\ UNCHANGED pc
      /\ \/ /\ f.kind \in Wants[c] /\ Len(chan[c]) < Depth
            /\ chan' = [chan EXCEPT ![c] = Append(@, f)]
            /\ put' = [put EXCEPT ![c] = Append(@, f)]
         \/ UNCHANGED <<chan, put>>
  BY <1>c, <1>f DEF LoopDelivers, HasRoom, Matches
<1>1. open[c] /\ pc[c] \notin {"new", "lock"}
  BY <1>c, <1>t DEF NoSendOnClosed, LifeInv, Started
<1>2. \A i \in DOMAIN put[c] : Older(put[c][i], f)
  BY <1>c, <1>f, <1>t DEF AheadInv
<1>3. CASE UNCHANGED <<chan, put>>
  BY <1>0, <1>3, Stutters
<1>4. CASE /\ f.kind \in Wants[c] /\ Len(chan[c]) < Depth
           /\ chan' = [chan EXCEPT ![c] = Append(@, f)]
           /\ put' = [put EXCEPT ![c] = Append(@, f)]
  <2>1. /\ chan'[c] = Append(chan[c], f) /\ \A d \in Subs \ {c} : chan'[d] = chan[d]
        /\ put'[c] = Append(put[c], f) /\ \A d \in Subs \ {c} : put'[d] = put[d]
    BY <1>4, <1>t
  <2>2. CASE c \in late
    BY <2>1, <2>2, <1>0 DEF Bus!busVars
  <2>3. CASE c \notin late
    <3> DEFINE life == [d \in Subs |-> IF d \in late \/ pc[d] \in {"new", "lock"} THEN "none"
                                       ELSE IF open[d] THEN "open" ELSE "closed"]
               stream == [d \in Subs |-> IF d \in late THEN <<>> ELSE put[d]]
               queue == [d \in Subs |-> IF d \in late THEN <<>> ELSE chan[d]]
    <3>1. Bus!Newer(c, f)
      BY <2>3, <1>2 DEF Bus!Newer, Older
    <3>2. life[c] = "open" /\ stream[c] = put[c] /\ queue[c] = chan[c]
      BY <2>3, <1>1
    <3>3. [d \in Subs |-> IF d \in late' THEN <<>> ELSE put'[d]]
          = [stream EXCEPT ![c] = Append(@, f)]
      BY <3>2, <2>1, <2>3, <1>0
    <3>4. [d \in Subs |-> IF d \in late' THEN <<>> ELSE chan'[d]]
          = [queue EXCEPT ![c] = Append(@, f)]
      BY <3>2, <2>1, <2>3, <1>0
    <3>5. [d \in Subs |-> IF d \in late' \/ pc'[d] \in {"new", "lock"} THEN "none"
                          ELSE IF open'[d] THEN "open" ELSE "closed"] = life
      BY <1>0
    <3>6. f.kind \in Wants[c] /\ Len(queue[c]) < Depth
      BY <3>2, <1>4
    <3>7. closed' = closed
      BY <1>0
    <3>8. Bus!Offer(c, f)
      BY ONLY <3>1, <3>2, <3>3, <3>4, <3>5, <3>6, <3>7 DEF Bus!Offer
    <3>9. f \in Bus!Frames
      BY DEF Frames, Bus!Frames
    <3> QED BY <3>8, <3>9 DEF Bus!BusNext
  <2> QED BY <2>2, <2>3
<1> QED BY <1>0, <1>3, <1>4

\* The critical section of Close ends every stream that is not late.
LEMMA CloseSubsRefines ==
    ASSUME BusInv, NEW k \in Closers, CloseSubs(k)
    PROVE  Bus!BusNext \/ UNCHANGED Bus!busVars
<1>t. TypeOK /\ LifeInv /\ CloseType /\ PcOK /\ OnceInv
  BY TypeParts DEF BusInv, IInv
<1>0. /\ pc[k] = "lock" /\ EndStreams /\ closed' = TRUE /\ Goto(k, "done")
      /\ UNCHANGED <<chan, put, late>>
  BY DEF CloseSubs
<1>1. \A c \in Subs : pc'[c] = pc[c]
  BY <1>0, <1>t, CloserMoves
<1>2. ~closed
  BY <1>0, <1>t DEF OnceInv, Closing, LifeInv
<1>3. late = {} /\ \A c \in Subs : ~open'[c]
  BY <1>0, <1>2, <1>t DEF LifeInv, EndStreams
<1>4. Bus!CloseAll
  BY <1>0, <1>1, <1>2, <1>3 DEF Bus!CloseAll
<1> QED BY <1>4 DEF Bus!BusNext

\* The CAN_RAW bus implements can.Bus towards every subscription made before Close has
\* ended the others, whatever readLoop still does after Close.
THEOREM SocketImplements == Spec => ImplementsBus
<1>1. Init => Bus!BusInit
  <2> SUFFICES ASSUME Init PROVE Bus!BusInit
    OBVIOUS
  <2>1. \A c \in Subs : pc[c] = "new"
    BY ConfigAssumption DEF Init
  <2>2. closed = FALSE /\ late = {} /\ put = [c \in Subs |-> <<>>] /\ chan = [c \in Subs |-> <<>>]
    BY DEF Init
  <2> QED BY <2>1, <2>2 DEF Bus!BusInit
<1>2. BusInv /\ [Next]_vars => [Bus!BusNext]_(Bus!busVars)
  <2> SUFFICES ASSUME BusInv, [Next]_vars PROVE Bus!BusNext \/ UNCHANGED Bus!busVars
    OBVIOUS
  <2>t. CloseType /\ PcOK
    BY TypeParts DEF BusInv, IInv
  <2>1. ASSUME NEW c \in Subs, Subscribe(c) PROVE Bus!BusNext \/ UNCHANGED Bus!busVars
    BY <2>1, SubscribeRefines
  <2>2. ASSUME NEW c \in Subs, Receive(c) PROVE Bus!BusNext \/ UNCHANGED Bus!busVars
    BY <2>2, ReceiveRefines
  <2>3. ASSUME NEW c \in Subs, SubscribeCall(c) \/ ReceiveEOF(c)
        PROVE  UNCHANGED Bus!busVars
    <3>1. /\ UNCHANGED <<closed, open, late, chan, put>>
          /\ \/ pc[c] = "new" /\ Goto(c, "lock")
             \/ pc[c] = "reading" /\ Goto(c, "eof")
      BY <2>3 DEF SubscribeCall, ReceiveEOF
    <3>2. /\ \/ pc[c] = "new" /\ pc'[c] = "lock"
             \/ pc[c] = "reading" /\ pc'[c] = "eof"
          /\ \A d \in Subs \ {c} : pc'[d] = pc[d]
      BY <3>1, <2>t, SubMoves
    <3>3. \A d \in Subs : pc'[d] \in {"new", "lock"} <=> pc[d] \in {"new", "lock"}
      BY <3>2
    <3> QED BY <3>1, <3>3, Stutters
  <2>4. ASSUME NEW k \in Closers, CloseSubs(k) PROVE Bus!BusNext \/ UNCHANGED Bus!busVars
    BY <2>4, CloseSubsRefines
  <2>5. ASSUME NEW k \in Closers, CloseCall(k) \/ CloseFirst(k) \/ CloseAgain(k) \/ CloseSocket(k)
        PROVE  UNCHANGED Bus!busVars
    <3>1. /\ UNCHANGED <<closed, open, late, chan, put>>
          /\ \E l \in {"idle", "once", "fd", "lock", "done"} : Goto(k, l)
      BY <2>5 DEF CloseCall, CloseFirst, CloseAgain, CloseSocket
    <3>2. \A c \in Subs : pc'[c] = pc[c]
      BY <3>1, <2>t, CloserMoves
    <3> QED BY <3>1, <3>2, Stutters
  <2>6. ASSUME NEW s \in Senders, SendEnters(s) \/ SendReturns(s)
        PROVE  UNCHANGED Bus!busVars
    <3>1. /\ UNCHANGED <<closed, open, late, chan, put>>
          /\ \E l \in {"idle", "write"} : Goto(s, l)
      BY <2>6 DEF SendEnters, SendReturns
    <3>2. \A c \in Subs : pc'[c] = pc[c]
      BY <3>1, <2>t, SenderMoves
    <3> QED BY <3>1, <3>2, Stutters
  <2>7. CASE LoopDelivers
    BY <2>7, DeliverRefines
  <2>8. CASE \/ LoopPolls \/ LoopEnters \/ LoopFails \/ LoopReads \/ LoopLocks \/ LoopUnlocks
             \/ GoesDown \/ (\E p \in Peers, k \in Kinds : Arrive(p, k)) \/ UNCHANGED vars
    <3>1. UNCHANGED <<closed, open, late, chan, put, pc>>
      BY <2>8 DEF LoopPolls, LoopEnters, LoopFails, LoopReads, LoopLocks, LoopUnlocks,
                  GoesDown, Arrive, vars
    <3> QED BY <3>1, Stutters
  <2> QED
    BY <2>1, <2>2, <2>3, <2>4, <2>5, <2>6, <2>7, <2>8 DEF Next, LoopStep, CloseStep
<1> QED
  BY <1>1, <1>2, BusInvariant, PTL DEF Spec, ImplementsBus, Bus!BusSpec
=============================================================================
