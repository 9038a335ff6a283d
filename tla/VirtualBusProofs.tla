-------------------------- MODULE VirtualBusProofs --------------------------
(***************************************************************************)
(* Theorems about the virtual bus, for any set of senders, subscribers and *)
(* closers, any filters, policies, channel depth and number of calls.      *)
(***************************************************************************)
EXTENDS VirtualBus, SequenceTheorems, FiniteSetTheorems, TLAPS

\* Abbreviations of tuples of variables carry no content of their own.
USE DEF lockVars, busVars, chanVars, counters, procVars, history

-----------------------------------------------------------------------------
(* Type correctness: first the helpers the actions are built from. *)

\* Moving a sender to one of its own labels keeps the labels typed, and the
\* other goroutines where they are.
LEMMA GotoSender ==
    ASSUME PCType, NEW s \in Senders, NEW l \in SenderPCs, Goto(s, l)
    PROVE  PCType' /\ pc'[s] = l /\ \A p \in Procs \ {s} : pc'[p] = pc[p]
BY ProcsAssumption DEF PCType, Goto, Procs

\* The same for a subscriber.
LEMMA GotoSub ==
    ASSUME PCType, NEW c \in Subs, NEW l \in SubPCs, Goto(c, l)
    PROVE  PCType' /\ pc'[c] = l /\ \A p \in Procs \ {c} : pc'[p] = pc[p]
BY ProcsAssumption DEF PCType, Goto, Procs

\* The same for a closer.
LEMMA GotoCloser ==
    ASSUME PCType, NEW k \in Closers, NEW l \in CloserPCs, Goto(k, l)
    PROVE  PCType' /\ pc'[k] = l /\ \A p \in Procs \ {k} : pc'[p] = pc[p]
BY ProcsAssumption DEF PCType, Goto, Procs

\* The frame a sender is sending is one of the frames of the model.
LEMMA FrameType ==
    ASSUME LocalType, NEW s \in Senders, pc[s] # "idle"
    PROVE  Frame(s) \in Frames
BY ConfigAssumption DEF LocalType, Frame, Frames

\* The subscription a walk is at is a subscription, and what is left after it
\* is again a list of subscriptions.
LEMMA TargetType ==
    ASSUME LocalType, NEW p \in Senders \cup Closers, AtTarget(p)
    PROVE  /\ Target(p) \in Subs
           /\ Tail(todo[p]) \in Seq(Subs)
<1>1. todo[p] \in Seq(Subs) /\ todo[p] # <<>>
  BY DEF LocalType, AtTarget
<1> QED
  BY <1>1, HeadTailProperties DEF Target

\* Putting a frame on a channel that is not full keeps the channel typed and
\* within its capacity.
LEMMA PutOnType ==
    ASSUME ChanType, HistoryType, NEW c \in Subs, NEW f \in Frames,
           PutOn(c, f), ~Full(c), UNCHANGED cancelled
    PROVE  ChanType' /\ HistoryType'
<1>1. /\ Append(chan[c], f) \in Seq(Frames)
      /\ Len(Append(chan[c], f)) = Len(chan[c]) + 1
      /\ Append(put[c], f) \in Seq(Frames)
  BY AppendProperties DEF ChanType, HistoryType
<1>2. Len(chan[c]) + 1 <= Depth
  <2>1. Len(chan[c]) \in Nat /\ Depth \in Nat
    BY ConfigAssumption, LenProperties DEF ChanType
  <2> QED BY <2>1 DEF Full
<1> QED
  BY <1>1, <1>2 DEF PutOn, ChanType, HistoryType

\* Taking the oldest frame out keeps the channel typed and within its capacity.
LEMMA TakeType ==
    ASSUME ChanType, NEW c \in Subs, chan[c] # <<>>,
           chan' = [chan EXCEPT ![c] = Tail(@)], UNCHANGED open
    PROVE  ChanType' /\ Head(chan[c]) \in Frames
<1>1. chan[c] \in Seq(Frames) /\ Len(chan[c]) <= Depth
  BY DEF ChanType
<1>2. Len(Tail(chan[c])) = Len(chan[c]) - 1 /\ Len(chan[c]) \in Nat
  BY <1>1, HeadTailProperties, LenProperties
<1>3. Depth \in Nat
  BY ConfigAssumption
<1>4. Tail(chan[c]) \in Seq(Frames) /\ Head(chan[c]) \in Frames /\ Len(Tail(chan[c])) <= Depth
  BY <1>1, <1>2, <1>3, HeadTailProperties
<1> QED
  BY <1>4 DEF ChanType

\* A sender step that moves on in the walk keeps the locals typed.
LEMMA AdvanceType ==
    ASSUME LocalType, NEW p \in Senders \cup Closers, AtTarget(p), Advance(p),
           UNCHANGED <<kind, calls>>,
           \A s \in Senders : pc'[s] = pc[s] \/ (s = p /\ pc[s] # "idle" /\ pc'[s] = "deliver"),
           p \in Senders => pc'[p] \notin {"evict", "refill", "count"}
    PROVE  LocalType'
<1>1. Tail(todo[p]) \in Seq(Subs)
  BY TargetType
<1> QED
  BY <1>1 DEF LocalType, Advance

-----------------------------------------------------------------------------
(* Type correctness: the actions. *)

\* One step of a sender keeps the types.
LEMMA SenderType ==
    ASSUME TypeOK, NEW s \in Senders, SendInvalid(s) \/ SendCall(s) \/ SendStep(s)
    PROVE  TypeOK'
<1> USE DEF TypeOK
<1>p. s \in Procs /\ \A t \in Senders : t \in Procs
  BY DEF Procs
<1>l. /\ "idle" \in SenderPCs /\ "rlock" \in SenderPCs /\ "check" \in SenderPCs
      /\ "deliver" \in SenderPCs /\ "evict" \in SenderPCs /\ "refill" \in SenderPCs
      /\ "count" \in SenderPCs
  BY DEF SenderPCs
<1>1. CASE SendInvalid(s)
  <2>1. LocalType'
    BY <1>1, ConfigAssumption DEF SendInvalid, LocalType
  <2> QED
    BY <1>1, <2>1
       DEF SendInvalid, LockType, ListType, ChanType, CountType, PCType, HistoryType
<1>2. CASE SendCall(s)
  <2>1. PCType' /\ pc'[s] = "rlock" /\ \A p \in Procs \ {s} : pc'[p] = pc[p]
    BY <1>2, <1>l, GotoSender DEF SendCall
  <2>2. LocalType'
    <3>1. kind' \in [Senders -> Kinds]
      BY <1>2 DEF SendCall, LocalType
    <3>2. calls' \in [Senders -> 0 .. MaxSends] /\ calls'[s] > 0
      BY <1>2, ConfigAssumption DEF SendCall, LocalType
    <3>3. \A t \in Senders \ {s} : calls'[t] = calls[t] /\ pc'[t] = pc[t]
      BY <1>2, <1>p, <2>1 DEF SendCall, LocalType
    <3> QED
      BY <1>2, <2>1, <3>1, <3>2, <3>3 DEF SendCall, LocalType
  <2> QED
    BY <1>2, <2>1, <2>2
       DEF SendCall, LockType, ListType, ChanType, CountType, HistoryType
<1>3. CASE SendLock(s)
  <2>1. PCType' /\ pc'[s] = "check" /\ \A p \in Procs \ {s} : pc'[p] = pc[p]
    BY <1>3, <1>l, GotoSender DEF SendLock
  <2>2. LocalType'
    BY <1>3, <1>p, <2>1 DEF SendLock, LocalType
  <2> QED
    BY <1>3, <2>1, <2>2
       DEF SendLock, RLock, LockType, ListType, ChanType, CountType, HistoryType
<1>4. CASE SendRefused(s)
  <2>1. PCType' /\ pc'[s] = "idle" /\ \A p \in Procs \ {s} : pc'[p] = pc[p]
    BY <1>4, <1>l, GotoSender DEF SendRefused
  <2>2. LocalType'
    BY <1>4, <1>p, <2>1 DEF SendRefused, LocalType
  <2> QED
    BY <1>4, <2>1, <2>2
       DEF SendRefused, RUnlock, LockType, ListType, ChanType, CountType, HistoryType
<1>5. CASE SendAccepted(s)
  <2>1. PCType' /\ pc'[s] = "deliver" /\ \A p \in Procs \ {s} : pc'[p] = pc[p]
    BY <1>5, <1>l, GotoSender DEF SendAccepted
  <2>2. LocalType'
    BY <1>5, <1>p, <2>1 DEF SendAccepted, LocalType, ListType
  <2> QED
    BY <1>5, <2>1, <2>2
       DEF SendAccepted, LockType, ListType, ChanType, CountType, HistoryType
<1>6. CASE SendSkip(s)
  <2>1. LocalType'
    BY <1>6, AdvanceType DEF SendSkip
  <2> QED
    BY <1>6, <2>1
       DEF SendSkip, LockType, ListType, ChanType, CountType, PCType, HistoryType
<1>7. CASE SendPut(s)
  <2>1. PCType' /\ pc'[s] = "count" /\ \A p \in Procs \ {s} : pc'[p] = pc[p]
    BY <1>7, <1>l, GotoSender DEF SendPut
  <2>2. LocalType'
    BY <1>7, <1>p, <2>1 DEF SendPut, LocalType, AtTarget
  <2>3. Target(s) \in Subs /\ Frame(s) \in Frames
    BY <1>7, TargetType, FrameType DEF SendPut
  <2>4. ChanType' /\ HistoryType'
    BY <1>7, <2>3, PutOnType DEF SendPut
  <2> QED
    BY <1>7, <2>1, <2>2, <2>4 DEF SendPut, LockType, ListType, CountType
<1>8. CASE SendDrop(s)
  <2>1. LocalType'
    BY <1>8, AdvanceType DEF SendDrop
  <2> QED
    BY <1>8, <2>1
       DEF SendDrop, CountDrop, LockType, ListType, ChanType, CountType, PCType, HistoryType
<1>9. CASE SendFull(s)
  <2>1. PCType' /\ pc'[s] = "evict" /\ \A p \in Procs \ {s} : pc'[p] = pc[p]
    BY <1>9, <1>l, GotoSender DEF SendFull
  <2>2. LocalType'
    BY <1>9, <1>p, <2>1 DEF SendFull, LocalType, AtTarget
  <2> QED
    BY <1>9, <2>1, <2>2
       DEF SendFull, LockType, ListType, ChanType, CountType, HistoryType
<1>10. CASE SendEvict(s)
  <2>1. PCType' /\ pc'[s] = "refill" /\ \A p \in Procs \ {s} : pc'[p] = pc[p]
    BY <1>10, <1>l, GotoSender DEF SendEvict
  <2>2. LocalType'
    BY <1>10, <1>p, <2>1 DEF SendEvict, LocalType
  <2>3. Target(s) \in Subs
    BY <1>10, TargetType DEF SendEvict, LocalType, AtTarget
  <2>4. ChanType'
    BY <1>10, <2>3, TakeType DEF SendEvict
  <2>5. HistoryType'
    BY <1>10, <2>3 DEF SendEvict, HistoryType
  <2> QED
    BY <1>10, <2>1, <2>2, <2>4, <2>5 DEF SendEvict, LockType, ListType, CountType
<1>11. CASE SendRefill(s)
  <2>1. PCType' /\ pc'[s] = "count" /\ \A p \in Procs \ {s} : pc'[p] = pc[p]
    BY <1>11, <1>l, GotoSender DEF SendRefill
  <2>2. LocalType'
    BY <1>11, <1>p, <2>1 DEF SendRefill, LocalType
  <2>3. Target(s) \in Subs /\ Frame(s) \in Frames
    BY <1>11, TargetType, FrameType DEF SendRefill, LocalType, AtTarget
  <2>4. ChanType' /\ HistoryType'
    BY <1>11, <2>3, PutOnType DEF SendRefill
  <2> QED
    BY <1>11, <2>1, <2>2, <2>4 DEF SendRefill, LockType, ListType, CountType
<1>12. CASE SendCount(s)
  <2>1. PCType' /\ pc'[s] = "deliver" /\ \A p \in Procs \ {s} : pc'[p] = pc[p]
    BY <1>12, <1>l, GotoSender DEF SendCount
  <2>2. AtTarget(s)
    BY <1>12 DEF SendCount, LocalType, AtTarget
  <2>3. LocalType'
    BY <1>12, <1>p, <2>1, <2>2, AdvanceType DEF SendCount
  <2> QED
    BY <1>12, <2>1, <2>3
       DEF SendCount, CountDelivery, LockType, ListType, ChanType, CountType, HistoryType
<1>13. CASE SendReturn(s)
  <2>1. PCType' /\ pc'[s] = "idle" /\ \A p \in Procs \ {s} : pc'[p] = pc[p]
    BY <1>13, <1>l, GotoSender DEF SendReturn
  <2>2. LocalType'
    BY <1>13, <1>p, <2>1 DEF SendReturn, LocalType
  <2> QED
    BY <1>13, <2>1, <2>2
       DEF SendReturn, RUnlock, LockType, ListType, ChanType, CountType, HistoryType
<1> QED
  BY <1>1, <1>2, <1>3, <1>4, <1>5, <1>6, <1>7, <1>8, <1>9, <1>10, <1>11, <1>12, <1>13
     DEF SendStep

\* One step of a subscriber or of its consumer keeps the types.
LEMMA SubType ==
    ASSUME TypeOK, NEW c \in Subs, SubscribeCall(c) \/ SubscribeStep(c) \/ ConsumeStep(c)
    PROVE  TypeOK'
<1> USE DEF TypeOK
<1>p. c \in Procs /\ c \notin Senders /\ \A t \in Senders : t \in Procs
  BY ProcsAssumption DEF Procs
<1>l. /\ "lock" \in SubPCs /\ "refused" \in SubPCs /\ "reading" \in SubPCs /\ "eof" \in SubPCs
  BY DEF SubPCs
<1>1. CASE SubscribeCall(c)
  <2>1. PCType' /\ \A p \in Procs \ {c} : pc'[p] = pc[p]
    BY <1>1, <1>l, GotoSub DEF SubscribeCall
  <2>2. LocalType'
    BY <1>1, <1>p, <2>1 DEF SubscribeCall, LocalType
  <2> QED
    BY <1>1, <2>1, <2>2
       DEF SubscribeCall, Announce, LockType, ListType, ChanType, CountType, HistoryType
<1>2. CASE SubscribeRefused(c)
  <2>1. PCType' /\ \A p \in Procs \ {c} : pc'[p] = pc[p]
    BY <1>2, <1>l, GotoSub DEF SubscribeRefused
  <2>2. LocalType'
    BY <1>2, <1>p, <2>1 DEF SubscribeRefused, LocalType
  <2> QED
    BY <1>2, <2>1, <2>2
       DEF SubscribeRefused, Unlock, LockType, ListType, ChanType, CountType, HistoryType
<1>3. CASE Subscribe(c)
  <2>1. PCType' /\ \A p \in Procs \ {c} : pc'[p] = pc[p]
    BY <1>3, <1>l, GotoSub DEF Subscribe
  <2>2. LocalType'
    BY <1>3, <1>p, <2>1 DEF Subscribe, LocalType
  <2>3. ListType'
    BY <1>3, AppendProperties DEF Subscribe, ListType
  <2>4. ChanType'
    BY <1>3 DEF Subscribe, ChanType
  <2> QED
    BY <1>3, <2>1, <2>2, <2>3, <2>4 DEF Subscribe, Unlock, LockType, CountType, HistoryType
<1>4. CASE Receive(c)
  <2>1. ChanType' /\ Head(chan[c]) \in Frames
    BY <1>4, TakeType DEF Receive
  <2>2. Append(got[c], Head(chan[c])) \in Seq(Frames)
    BY <2>1, AppendProperties DEF HistoryType
  <2>3. HistoryType'
    BY <1>4, <2>2 DEF Receive, HistoryType
  <2> QED
    BY <1>4, <2>1, <2>3 DEF Receive, LockType, ListType, CountType, PCType, LocalType
<1>5. CASE ReceiveEOF(c)
  <2>1. PCType' /\ \A p \in Procs \ {c} : pc'[p] = pc[p]
    BY <1>5, <1>l, GotoSub DEF ReceiveEOF
  <2>2. LocalType'
    BY <1>5, <1>p, <2>1 DEF ReceiveEOF, LocalType
  <2> QED
    BY <1>5, <2>1, <2>2
       DEF ReceiveEOF, LockType, ListType, ChanType, CountType, HistoryType
<1> QED
  BY <1>1, <1>2, <1>3, <1>4, <1>5 DEF SubscribeStep, ConsumeStep

\* One step of a closer keeps the types.
LEMMA CloserType ==
    ASSUME TypeOK, NEW k \in Closers,
           CloseCall(k) \/ DrainCall(k) \/ DrainGiveUp(k) \/ DrainStep(k) \/ CloseStep(k)
    PROVE  TypeOK'
<1> USE DEF TypeOK
<1>p. k \in Procs /\ k \notin Senders /\ \A t \in Senders : t \in Procs
  BY ProcsAssumption DEF Procs
<1>l. /\ "idle" \in CloserPCs /\ "drain" \in CloserPCs /\ "rlock" \in CloserPCs
      /\ "scan" \in CloserPCs /\ "closing" \in CloserPCs /\ "lock" \in CloserPCs
      /\ "done" \in CloserPCs
  BY DEF CloserPCs
<1>1. CASE CloseCall(k)
  <2>1. PCType' /\ \A p \in Procs \ {k} : pc'[p] = pc[p]
    BY <1>1, <1>l, GotoCloser DEF CloseCall
  <2>2. LocalType'
    BY <1>1, <1>p, <2>1 DEF CloseCall, LocalType
  <2> QED
    BY <1>1, <2>1, <2>2
       DEF CloseCall, LockType, ListType, ChanType, CountType, HistoryType
<1>2. CASE DrainCall(k)
  <2>1. PCType' /\ \A p \in Procs \ {k} : pc'[p] = pc[p]
    BY <1>2, <1>l, GotoCloser DEF DrainCall
  <2>2. LocalType'
    BY <1>2, <1>p, <2>1 DEF DrainCall, LocalType
  <2> QED
    BY <1>2, <2>1, <2>2
       DEF DrainCall, LockType, ListType, ChanType, CountType, HistoryType
<1>3. CASE DrainGiveUp(k)
  <2>1. PCType' /\ \A p \in Procs \ {k} : pc'[p] = pc[p]
    BY <1>3, <1>l, GotoCloser DEF DrainGiveUp
  <2>2. LocalType'
    BY <1>3, <1>p, <2>1 DEF DrainGiveUp, LocalType
  <2> QED
    BY <1>3, <2>1, <2>2
       DEF DrainGiveUp, LockType, ListType, ChanType, CountType, HistoryType
<1>4. CASE DrainTick(k)
  <2>1. PCType' /\ \A p \in Procs \ {k} : pc'[p] = pc[p]
    BY <1>4, <1>l, GotoCloser DEF DrainTick
  <2>2. LocalType'
    BY <1>4, <1>p, <2>1 DEF DrainTick, LocalType
  <2> QED
    BY <1>4, <2>1, <2>2
       DEF DrainTick, LockType, ListType, ChanType, CountType, HistoryType
<1>5. CASE ScanLock(k)
  <2>1. PCType' /\ \A p \in Procs \ {k} : pc'[p] = pc[p]
    BY <1>5, <1>l, GotoCloser DEF ScanLock
  <2>2. LocalType'
    BY <1>5, <1>p, <2>1 DEF ScanLock, ListType, LocalType
  <2> QED
    BY <1>5, <2>1, <2>2
       DEF ScanLock, RLock, LockType, ListType, ChanType, CountType, HistoryType
<1>6. CASE ScanPending(k)
  <2>1. PCType' /\ \A p \in Procs \ {k} : pc'[p] = pc[p]
    BY <1>6, <1>l, GotoCloser DEF ScanPending
  <2>2. LocalType'
    BY <1>6, <1>p, <2>1 DEF ScanPending, ListType, LocalType
  <2> QED
    BY <1>6, <2>1, <2>2
       DEF ScanPending, RUnlock, LockType, ListType, ChanType, CountType, HistoryType
<1>7. CASE ScanDrained(k)
  <2>1. PCType' /\ \A p \in Procs \ {k} : pc'[p] = pc[p]
    BY <1>7, <1>l, GotoCloser DEF ScanDrained
  <2>2. LocalType'
    BY <1>7, <1>p, <2>1 DEF ScanDrained, LocalType
  <2> QED
    BY <1>7, <2>1, <2>2
       DEF ScanDrained, RUnlock, LockType, ListType, ChanType, CountType, HistoryType
<1>8. CASE CloseLock(k)
  <2>1. PCType' /\ \A p \in Procs \ {k} : pc'[p] = pc[p]
    BY <1>8, <1>l, GotoCloser DEF CloseLock
  <2>2. LocalType'
    BY <1>8, <1>p, <2>1 DEF CloseLock, LocalType
  <2> QED
    BY <1>8, <2>1, <2>2
       DEF CloseLock, Announce, LockType, ListType, ChanType, CountType, HistoryType
<1>9. CASE ScanEmpty(k)
  <2>1. LocalType'
    BY <1>9, <1>p, AdvanceType DEF ScanEmpty
  <2> QED
    BY <1>9, <2>1
       DEF ScanEmpty, LockType, ListType, ChanType, CountType, PCType, HistoryType
<1>10. CASE Close(k)
  <2>1. PCType' /\ \A p \in Procs \ {k} : pc'[p] = pc[p]
    BY <1>10, <1>l, GotoCloser DEF Close
  <2>2. LocalType'
    BY <1>10, <1>p, <2>1 DEF Close, LocalType
  <2>3. ListType'
    BY <1>10 DEF Close, ListType
  <2>4. ChanType'
    BY <1>10 DEF Close, EndStreams, ChanType
  <2> QED
    BY <1>10, <2>1, <2>2, <2>3, <2>4 DEF Close, Unlock, LockType, CountType, HistoryType
<1> QED
  BY <1>1, <1>2, <1>3, <1>4, <1>5, <1>6, <1>7, <1>8, <1>9, <1>10 DEF DrainStep, CloseStep

\* The initial state is typed.
LEMMA InitType == Init => TypeOK
<1> SUFFICES ASSUME Init PROVE TypeOK
  OBVIOUS
<1>1. LockType /\ ListType /\ ChanType /\ CountType /\ HistoryType
  <2>1. LockType /\ ListType /\ CountType
    <3>1. readers = {} /\ writer = NoProc
      BY DEF Init
    <3>2. subs = <<>> /\ closed = FALSE
      BY DEF Init
    <3>3. subs \in Seq(Subs)
      BY <3>2
    <3>4. CountType
      BY DEF Init, CountType
    <3> QED
      BY <3>1, <3>2, <3>3, <3>4 DEF LockType, ListType
  <2>2. <<>> \in Seq(Frames) /\ Len(<<>>) = 0 /\ Depth \in Nat
    BY ConfigAssumption
  <2>3. ChanType
    BY <2>2 DEF Init, ChanType
  <2>4. HistoryType
    BY <2>2 DEF Init, HistoryType
  <2> QED
    BY <2>1, <2>3, <2>4
<1>2. PCType
  BY ProcsAssumption DEF Init, PCType, Procs, SenderPCs, SubPCs, CloserPCs
<1>3. LocalType
  <2>1. (CHOOSE k \in Kinds : TRUE) \in Kinds
    BY ConfigAssumption
  <2>2. pc = [p \in Procs |-> IF p \in Subs THEN "new" ELSE "idle"]
    BY DEF Init
  <2>3. \A s \in Senders : pc[s] = "idle"
    BY <2>2, ProcsAssumption DEF Procs
  <2> QED
    BY <2>1, <2>3, ConfigAssumption DEF Init, LocalType
<1> QED
  BY <1>1, <1>2, <1>3 DEF TypeOK

\* Every step keeps the types.
LEMMA NextType == TypeOK /\ [Next]_vars => TypeOK'
<1> SUFFICES ASSUME TypeOK, [Next]_vars PROVE TypeOK'
  OBVIOUS
<1>1. ASSUME NEW s \in Senders, SendInvalid(s) \/ SendCall(s) \/ SendStep(s)
      PROVE  TypeOK'
  BY <1>1, SenderType
<1>2. ASSUME NEW c \in Subs, SubscribeCall(c) \/ SubscribeStep(c) \/ ConsumeStep(c)
      PROVE  TypeOK'
  BY <1>2, SubType
<1>3. ASSUME NEW k \in Closers,
             CloseCall(k) \/ DrainCall(k) \/ DrainGiveUp(k) \/ DrainStep(k) \/ CloseStep(k)
      PROVE  TypeOK'
  BY <1>3, CloserType
<1>4. ASSUME NEW p \in Impatient, CtxCancel(p)
      PROVE  TypeOK'
  BY <1>4 DEF CtxCancel, TypeOK, LockType, ListType, ChanType, CountType, PCType,
              LocalType, HistoryType
<1>5. CASE AllDone \/ UNCHANGED vars
  <2>1. UNCHANGED vars
    BY <1>5 DEF AllDone
  <2> QED
    BY <2>1 DEF vars, TypeOK, LockType, ListType, ChanType, CountType, PCType,
                LocalType, HistoryType
<1> QED
  BY <1>1, <1>2, <1>3, <1>4, <1>5 DEF Next

\* Type correctness: in every reachable state every variable has its type, and
\* no subscriber channel ever holds more frames than its capacity.
THEOREM TypeCorrect == Spec => []TypeOK
BY InitType, NextType, PTL DEF Spec

-----------------------------------------------------------------------------
(* Safety: nobody sends on a closed channel, and Close ends every stream. *)

\* The subscriptions left to visit are open and come once each.
GoodList(l) == /\ \A i \in DOMAIN l : open[l[i]]
               /\ \A i, j \in DOMAIN l : l[i] = l[j] => i = j

\* Dropping the first element of a list keeps every other one, once.
LEMMA TailKeepsOrder ==
    ASSUME NEW S, NEW l \in Seq(S), l # <<>>
    PROVE  /\ \A i \in DOMAIN Tail(l) : i + 1 \in DOMAIN l /\ Tail(l)[i] = l[i + 1]
           /\ DOMAIN Tail(l) \subseteq Nat
<1>1. Tail(l) \in Seq(S) /\ Len(Tail(l)) = Len(l) - 1 /\ Len(l) \in Nat
      /\ \A i \in 1 .. Len(Tail(l)) : Tail(l)[i] = l[i + 1]
  BY HeadTailProperties, LenProperties
<1>2. DOMAIN Tail(l) = 1 .. Len(Tail(l)) /\ DOMAIN l = 1 .. Len(l)
  BY <1>1, LenProperties
<1> QED
  BY <1>1, <1>2

\* What is left after the first subscription of a good list is a good list.
LEMMA TailGood ==
    ASSUME NEW l \in Seq(Subs), l # <<>>, GoodList(l)
    PROVE  GoodList(Tail(l))
<1>1. \A i \in DOMAIN Tail(l) : i + 1 \in DOMAIN l /\ Tail(l)[i] = l[i + 1] /\ i \in Nat
  BY TailKeepsOrder
<1> QED
  BY <1>1 DEF GoodList

\* A step of sender s touches neither the list of subscriptions nor the closing
\* of channels: the invariant survives if s itself keeps its part of it.
LEMMA SenderFrame ==
    ASSUME TypeOK, SafetyInv, NEW s \in Senders,
           \A p \in Procs \ {s} : pc'[p] = pc[p],
           \A p \in (Senders \cup Closers) \ {s} : todo'[p] = todo[p],
           readers \ {s} \subseteq readers',
           UNCHANGED <<subs, closed, open>>,
           pc'[s] \in Walking \cup {"check"} => s \in readers',
           pc'[s] \in Walking => GoodList(todo'[s])
    PROVE  SafetyInv'
<1>1. \A c \in Subs : c \in Procs \ {s}
  BY ProcsAssumption DEF Procs
<1>2. OpenInv'
  BY <1>1 DEF SafetyInv, OpenInv
<1>3. RegInv'
  BY DEF SafetyInv, RegInv
<1>4. ASSUME NEW t \in Senders PROVE t = s \/ (pc'[t] = pc[t] /\ todo'[t] = todo[t])
  BY DEF Procs
<1>5. LockInv'
  BY <1>4 DEF SafetyInv, LockInv
<1>6. WalkInv'
  BY <1>4 DEF SafetyInv, WalkInv, GoodList
<1> QED
  BY <1>2, <1>3, <1>5, <1>6 DEF SafetyInv

\* A step of any other goroutine that touches neither the senders nor the
\* subscriptions and closed channels.
LEMMA OtherFrame ==
    ASSUME TypeOK, SafetyInv,
           \A s \in Senders : pc'[s] = pc[s] /\ todo'[s] = todo[s],
           \A c \in Subs : \/ pc'[c] = pc[c]
                           \/ /\ pc[c] # "reading" /\ pc'[c] # "reading"
                              /\ pc'[c] # "eof"
                           \/ pc[c] = "reading" /\ pc'[c] = "eof" /\ closed,
           \A s \in Senders : s \in readers => s \in readers',
           UNCHANGED <<subs, closed, open>>
    PROVE  SafetyInv'
<1>1. LockInv' /\ RegInv' /\ WalkInv'
  BY DEF SafetyInv, LockInv, RegInv, WalkInv
<1>2. OpenInv'
  <2> SUFFICES ASSUME NEW c \in Subs
               PROVE  /\ open'[c] <=> (pc'[c] = "reading" /\ ~closed')
                      /\ pc'[c] = "eof" => closed'
    BY DEF OpenInv
  <2> QED
    BY DEF SafetyInv, OpenInv
<1> QED
  BY <1>1, <1>2 DEF SafetyInv

\* One step of a sender keeps the invariant.
LEMMA SenderSafe ==
    ASSUME TypeOK, SafetyInv, NEW s \in Senders,
           SendInvalid(s) \/ SendCall(s) \/ SendStep(s)
    PROVE  SafetyInv'
<1> USE DEF TypeOK
<1>p. s \in Procs
  BY DEF Procs
<1>l. /\ "idle" \in SenderPCs /\ "rlock" \in SenderPCs /\ "check" \in SenderPCs
      /\ "deliver" \in SenderPCs /\ "evict" \in SenderPCs /\ "refill" \in SenderPCs
      /\ "count" \in SenderPCs
  BY DEF SenderPCs
<1>w. /\ pc[s] \in Walking \cup {"check"} => s \in readers
      /\ pc[s] \in Walking => GoodList(todo[s])
  BY DEF SafetyInv, LockInv, WalkInv, GoodList
<1>t. pc[s] \in Walking /\ AtTarget(s) => GoodList(Tail(todo[s]))
  BY <1>w, TailGood DEF AtTarget, LocalType
<1>1. CASE SendInvalid(s)
  BY <1>1, <1>w, SenderFrame DEF SendInvalid
<1>2. CASE SendCall(s)
  BY <1>2, <1>l, GotoSender, SenderFrame DEF SendCall, Walking
<1>3. CASE SendLock(s)
  BY <1>3, <1>l, GotoSender, SenderFrame DEF SendLock, RLock, Walking, LockType
<1>4. CASE SendRefused(s)
  BY <1>4, <1>l, GotoSender, SenderFrame DEF SendRefused, RUnlock, Walking
<1>5. CASE SendAccepted(s)
  <2>1. pc'[s] = "deliver" /\ \A p \in Procs \ {s} : pc'[p] = pc[p]
    BY <1>5, <1>l, GotoSender DEF SendAccepted
  <2>2. todo' = [todo EXCEPT ![s] = subs] /\ todo'[s] = subs
    BY <1>5 DEF SendAccepted, LocalType
  <2>3. GoodList(subs)
    <3>1. \A i \in DOMAIN subs : subs[i] \in Subs
      BY DEF ListType
    <3> QED
      BY <3>1 DEF SafetyInv, RegInv, GoodList
  <2>4. s \in readers /\ readers' = readers
    BY <1>5, <1>w DEF SendAccepted
  <2>5. \A p \in (Senders \cup Closers) \ {s} : todo'[p] = todo[p]
    BY <2>2 DEF LocalType
  <2> QED
    BY <1>5, <2>1, <2>2, <2>3, <2>4, <2>5, SenderFrame DEF SendAccepted
<1>6. CASE SendSkip(s)
  <2>1. GoodList(Tail(todo[s]))
    BY <1>6, <1>t DEF SendSkip, Walking
  <2>2. todo'[s] = Tail(todo[s]) /\ \A p \in (Senders \cup Closers) \ {s} : todo'[p] = todo[p]
    BY <1>6 DEF SendSkip, Advance, LocalType
  <2> QED
    BY <1>6, <1>w, <2>1, <2>2, SenderFrame DEF SendSkip
<1>7. CASE SendPut(s)
  BY <1>7, <1>w, <1>l, GotoSender, SenderFrame DEF SendPut, PutOn, Walking
<1>8. CASE SendDrop(s)
  <2>1. GoodList(Tail(todo[s]))
    BY <1>8, <1>t DEF SendDrop, Walking
  <2>2. todo'[s] = Tail(todo[s]) /\ \A p \in (Senders \cup Closers) \ {s} : todo'[p] = todo[p]
    BY <1>8 DEF SendDrop, Advance, LocalType
  <2> QED
    BY <1>8, <1>w, <2>1, <2>2, SenderFrame DEF SendDrop
<1>9. CASE SendFull(s)
  BY <1>9, <1>w, <1>l, GotoSender, SenderFrame DEF SendFull, Walking
<1>10. CASE SendEvict(s)
  BY <1>10, <1>w, <1>l, GotoSender, SenderFrame DEF SendEvict, Walking
<1>11. CASE SendRefill(s)
  BY <1>11, <1>w, <1>l, GotoSender, SenderFrame DEF SendRefill, PutOn, Walking
<1>12. CASE SendCount(s)
  <2>1. pc[s] = "count" /\ AtTarget(s)
    BY <1>12 DEF SendCount, LocalType, AtTarget
  <2>2. GoodList(Tail(todo[s])) /\ s \in readers
    BY <1>t, <1>w, <2>1 DEF Walking
  <2>3. todo'[s] = Tail(todo[s]) /\ \A p \in (Senders \cup Closers) \ {s} : todo'[p] = todo[p]
    BY <1>12 DEF SendCount, Advance, LocalType
  <2>4. \A p \in Procs \ {s} : pc'[p] = pc[p]
    BY <1>12, <1>l, GotoSender DEF SendCount
  <2> QED
    BY <1>12, <2>2, <2>3, <2>4, SenderFrame DEF SendCount
<1>13. CASE SendReturn(s)
  BY <1>13, <1>l, GotoSender, SenderFrame DEF SendReturn, RUnlock, Walking
<1> QED
  BY <1>1, <1>2, <1>3, <1>4, <1>5, <1>6, <1>7, <1>8, <1>9, <1>10, <1>11, <1>12, <1>13
     DEF SendStep

\* Nobody is in Send's critical section while a writer is in its own.
LEMMA AloneInside ==
    ASSUME SafetyInv, NEW p, Exclusive(p)
    PROVE  \A s \in Senders : pc[s] \notin Walking \cup {"check"}
BY DEF SafetyInv, LockInv, Exclusive

\* One step of a subscriber keeps the invariant.
LEMMA SubSafe ==
    ASSUME TypeOK, SafetyInv, NEW c \in Subs,
           SubscribeCall(c) \/ SubscribeStep(c) \/ ConsumeStep(c)
    PROVE  SafetyInv'
<1> USE DEF TypeOK
<1>p. /\ c \in Procs /\ \A d \in Subs : d \in Procs
      /\ \A s \in Senders : s \in Procs \ {c}
  BY ProcsAssumption DEF Procs
<1>l. /\ "lock" \in SubPCs /\ "refused" \in SubPCs /\ "reading" \in SubPCs /\ "eof" \in SubPCs
  BY DEF SubPCs
<1>1. CASE SubscribeCall(c)
  <2>1. pc'[c] \in {"lock", "refused"} /\ \A p \in Procs \ {c} : pc'[p] = pc[p]
    BY <1>1, <1>l, GotoSub DEF SubscribeCall
  <2>2. pc[c] \in {"new", "lock"} /\ UNCHANGED <<readers, todo, subs, closed, open>>
    BY <1>1 DEF SubscribeCall, Announce
  <2> QED
    BY <1>p, <2>1, <2>2, OtherFrame
<1>2. CASE SubscribeRefused(c)
  <2>1. pc'[c] \in {"lock", "refused"} /\ \A p \in Procs \ {c} : pc'[p] = pc[p]
    BY <1>2, <1>l, GotoSub DEF SubscribeRefused
  <2>2. pc[c] \in {"new", "lock"} /\ UNCHANGED <<readers, todo, subs, closed, open>>
    BY <1>2 DEF SubscribeRefused, Unlock
  <2> QED
    BY <1>p, <2>1, <2>2, OtherFrame
<1>3. CASE Subscribe(c)
  <2>1. pc'[c] = "reading" /\ \A p \in Procs \ {c} : pc'[p] = pc[p]
    BY <1>3, <1>l, GotoSub DEF Subscribe
  <2>2. \A s \in Senders : pc'[s] \notin Walking \cup {"check"}
    BY <1>3, <1>p, <2>1, AloneInside DEF Subscribe
  <2>3. LockInv' /\ WalkInv'
    BY <2>2 DEF LockInv, WalkInv
  <2>4. open'[c] = TRUE /\ ~open[c] /\ \A d \in Subs \ {c} : open'[d] = open[d]
    BY <1>3 DEF Subscribe, ChanType, SafetyInv, OpenInv
  <2>5. OpenInv'
    BY <1>3, <1>p, <2>1, <2>4 DEF Subscribe, SafetyInv, OpenInv
  <2>6. /\ DOMAIN subs' = 1 .. Len(subs) + 1 /\ DOMAIN subs = 1 .. Len(subs) /\ Len(subs) \in Nat
        /\ subs'[Len(subs) + 1] = c
        /\ \A i \in 1 .. Len(subs) : subs'[i] = subs[i]
    <3>1. subs \in Seq(Subs) /\ subs' = Append(subs, c)
      BY <1>3 DEF Subscribe, ListType
    <3> QED
      BY <3>1, AppendProperties, LenProperties
  <2>7. RegInv'
    <3>1. \A i \in DOMAIN subs : subs[i] # c
      BY <2>4 DEF SafetyInv, RegInv
    <3>2. ASSUME NEW d \in Subs
          PROVE  open'[d] <=> \E i \in DOMAIN subs' : subs'[i] = d
      <4>1. CASE d = c
        BY <2>4, <2>6, <4>1
      <4>2. CASE d # c
        BY <2>4, <2>6, <4>2 DEF SafetyInv, RegInv
      <4> QED
        BY <4>1, <4>2
    <3>3. \A i, j \in DOMAIN subs' : subs'[i] = subs'[j] => i = j
      BY <2>6, <3>1 DEF SafetyInv, RegInv
    <3> QED
      BY <3>2, <3>3 DEF RegInv
  <2> QED
    BY <2>3, <2>5, <2>7 DEF SafetyInv
<1>4. CASE Receive(c)
  BY <1>4, OtherFrame DEF Receive
<1>5. CASE ReceiveEOF(c)
  <2>1. closed
    BY <1>5 DEF ReceiveEOF, SafetyInv, OpenInv
  <2> QED
    BY <1>5, <1>p, <1>l, <2>1, GotoSub, OtherFrame DEF ReceiveEOF
<1> QED
  BY <1>1, <1>2, <1>3, <1>4, <1>5 DEF SubscribeStep, ConsumeStep

\* One step of a closer keeps the invariant.
LEMMA CloserSafe ==
    ASSUME TypeOK, SafetyInv, NEW k \in Closers,
           CloseCall(k) \/ DrainCall(k) \/ DrainGiveUp(k) \/ DrainStep(k) \/ CloseStep(k)
    PROVE  SafetyInv'
<1> USE DEF TypeOK
<1>p. /\ k \in Procs /\ k \notin Senders
      /\ \A s \in Senders \cup Subs : s \in Procs \ {k}
  BY ProcsAssumption DEF Procs
<1>l. /\ "idle" \in CloserPCs /\ "drain" \in CloserPCs /\ "rlock" \in CloserPCs
      /\ "scan" \in CloserPCs /\ "closing" \in CloserPCs /\ "lock" \in CloserPCs
      /\ "done" \in CloserPCs
  BY DEF CloserPCs
<1>1. CASE CloseCall(k)
  <2>1. \A p \in Procs \ {k} : pc'[p] = pc[p]
    BY <1>1, <1>l, GotoCloser DEF CloseCall
  <2>2. /\ \A s \in Senders : todo'[s] = todo[s] /\ (s \in readers => s \in readers')
        /\ UNCHANGED <<subs, closed, open>>
    BY <1>1, <1>p DEF CloseCall
  <2> QED
    BY <1>p, <2>1, <2>2, OtherFrame
<1>2. CASE DrainCall(k)
  <2>1. \A p \in Procs \ {k} : pc'[p] = pc[p]
    BY <1>2, <1>l, GotoCloser DEF DrainCall
  <2>2. /\ \A s \in Senders : todo'[s] = todo[s] /\ (s \in readers => s \in readers')
        /\ UNCHANGED <<subs, closed, open>>
    BY <1>2, <1>p DEF DrainCall
  <2> QED
    BY <1>p, <2>1, <2>2, OtherFrame
<1>3. CASE DrainGiveUp(k)
  <2>1. \A p \in Procs \ {k} : pc'[p] = pc[p]
    BY <1>3, <1>l, GotoCloser DEF DrainGiveUp
  <2>2. /\ \A s \in Senders : todo'[s] = todo[s] /\ (s \in readers => s \in readers')
        /\ UNCHANGED <<subs, closed, open>>
    BY <1>3, <1>p DEF DrainGiveUp
  <2> QED
    BY <1>p, <2>1, <2>2, OtherFrame
<1>4. CASE DrainTick(k)
  <2>1. \A p \in Procs \ {k} : pc'[p] = pc[p]
    BY <1>4, <1>l, GotoCloser DEF DrainTick
  <2>2. /\ \A s \in Senders : todo'[s] = todo[s] /\ (s \in readers => s \in readers')
        /\ UNCHANGED <<subs, closed, open>>
    BY <1>4, <1>p DEF DrainTick
  <2> QED
    BY <1>p, <2>1, <2>2, OtherFrame
<1>5. CASE ScanLock(k)
  <2>1. \A p \in Procs \ {k} : pc'[p] = pc[p]
    BY <1>5, <1>l, GotoCloser DEF ScanLock
  <2>2. /\ \A s \in Senders : todo'[s] = todo[s] /\ (s \in readers => s \in readers')
        /\ UNCHANGED <<subs, closed, open>>
    BY <1>5, <1>p DEF ScanLock, RLock, LocalType
  <2> QED
    BY <1>p, <2>1, <2>2, OtherFrame
<1>6. CASE ScanPending(k)
  <2>1. \A p \in Procs \ {k} : pc'[p] = pc[p]
    BY <1>6, <1>l, GotoCloser DEF ScanPending
  <2>2. /\ \A s \in Senders : todo'[s] = todo[s] /\ (s \in readers => s \in readers')
        /\ UNCHANGED <<subs, closed, open>>
    BY <1>6, <1>p DEF ScanPending, RUnlock, LocalType
  <2> QED
    BY <1>p, <2>1, <2>2, OtherFrame
<1>7. CASE ScanDrained(k)
  <2>1. \A p \in Procs \ {k} : pc'[p] = pc[p]
    BY <1>7, <1>l, GotoCloser DEF ScanDrained
  <2>2. /\ \A s \in Senders : todo'[s] = todo[s] /\ (s \in readers => s \in readers')
        /\ UNCHANGED <<subs, closed, open>>
    BY <1>7, <1>p DEF ScanDrained, RUnlock
  <2> QED
    BY <1>p, <2>1, <2>2, OtherFrame
<1>8. CASE CloseLock(k)
  <2>1. \A p \in Procs \ {k} : pc'[p] = pc[p]
    BY <1>8, <1>l, GotoCloser DEF CloseLock
  <2>2. /\ \A s \in Senders : todo'[s] = todo[s] /\ (s \in readers => s \in readers')
        /\ UNCHANGED <<subs, closed, open>>
    BY <1>8, <1>p DEF CloseLock, Announce
  <2> QED
    BY <1>p, <2>1, <2>2, OtherFrame
<1>9. CASE ScanEmpty(k)
  BY <1>9, <1>p, OtherFrame DEF ScanEmpty, Advance, LocalType
<1>10. CASE Close(k)
  <2>1. \A p \in Procs \ {k} : pc'[p] = pc[p]
    BY <1>10, <1>l, GotoCloser DEF Close
  <2>2. \A s \in Senders : pc'[s] \notin Walking \cup {"check"}
    BY <1>10, <1>p, <2>1, AloneInside DEF Close
  <2>3. LockInv' /\ WalkInv'
    BY <2>2 DEF LockInv, WalkInv
  <2>4. \A c \in Subs : ~open'[c]
    BY <1>10 DEF Close, EndStreams, SafetyInv, RegInv
  <2>5. OpenInv'
    BY <1>10, <1>p, <2>1, <2>4 DEF Close, SafetyInv, OpenInv
  <2>6. RegInv'
    BY <1>10, <2>4 DEF Close, RegInv
  <2> QED
    BY <2>3, <2>5, <2>6 DEF SafetyInv
<1> QED
  BY <1>1, <1>2, <1>3, <1>4, <1>5, <1>6, <1>7, <1>8, <1>9, <1>10 DEF DrainStep, CloseStep

\* The invariant holds at the start ...
LEMMA InitSafe == Init => SafetyInv
<1> SUFFICES ASSUME Init PROVE SafetyInv
  OBVIOUS
<1>1. /\ subs = <<>> /\ \A c \in Subs : open[c] = FALSE
      /\ \A s \in Senders : pc[s] = "idle"
      /\ \A c \in Subs : pc[c] = "new"
  BY ProcsAssumption DEF Init, Procs
<1> QED
  BY <1>1 DEF SafetyInv, LockInv, OpenInv, RegInv, WalkInv, Walking

\* ... and every step keeps it.
LEMMA NextSafe == TypeOK /\ SafetyInv /\ [Next]_vars => SafetyInv'
<1> SUFFICES ASSUME TypeOK, SafetyInv, [Next]_vars PROVE SafetyInv'
  OBVIOUS
<1>1. ASSUME NEW s \in Senders, SendInvalid(s) \/ SendCall(s) \/ SendStep(s)
      PROVE  SafetyInv'
  BY <1>1, SenderSafe
<1>2. ASSUME NEW c \in Subs, SubscribeCall(c) \/ SubscribeStep(c) \/ ConsumeStep(c)
      PROVE  SafetyInv'
  BY <1>2, SubSafe
<1>3. ASSUME NEW k \in Closers,
             CloseCall(k) \/ DrainCall(k) \/ DrainGiveUp(k) \/ DrainStep(k) \/ CloseStep(k)
      PROVE  SafetyInv'
  BY <1>3, CloserSafe
<1>4. ASSUME NEW p \in Impatient, CtxCancel(p)
      PROVE  SafetyInv'
  BY <1>4, OtherFrame DEF CtxCancel
<1>5. CASE AllDone \/ UNCHANGED vars
  <2>1. UNCHANGED vars
    BY <1>5 DEF AllDone
  <2> QED
    BY <2>1, OtherFrame DEF vars
<1> QED
  BY <1>1, <1>2, <1>3, <1>4, <1>5 DEF Next

\* Types and the safety invariant together are an invariant of the bus.
THEOREM SafetyInvariant == Spec => [](TypeOK /\ SafetyInv)
BY InitType, InitSafe, NextType, NextSafe, PTL DEF Spec

\* Send never sends on a closed channel, whoever calls Close and whenever.
THEOREM NeverSendsOnClosed == Spec => []NoSendOnClosed
<1>1. TypeOK /\ SafetyInv => NoSendOnClosed
  <2> SUFFICES ASSUME TypeOK, SafetyInv, NEW s \in Senders, pc[s] \in Walking, AtTarget(s)
               PROVE  open[Target(s)]
    BY DEF NoSendOnClosed, AtOpenTarget, Walking, TypeOK, LocalType, AtTarget
  <2>1. todo[s] \in Seq(Subs) /\ todo[s] # <<>>
    BY DEF TypeOK, LocalType, AtTarget
  <2>2. 1 \in DOMAIN todo[s] /\ Target(s) = todo[s][1]
    BY <2>1, HeadTailProperties, LenProperties, EmptySeq DEF Target
  <2> QED
    BY <2>2 DEF SafetyInv, WalkInv
<1> QED
  BY <1>1, SafetyInvariant, PTL

\* A consumer's channel is open exactly as long as the bus is, and its loop ends
\* only after Close.
THEOREM StreamsEndTogether == Spec => []ClosedTogether
<1>1. SafetyInv => ClosedTogether
  BY DEF SafetyInv, OpenInv, ClosedTogether
<1> QED
  BY <1>1, SafetyInvariant, PTL

-----------------------------------------------------------------------------
(* After Close no frame enters a channel. *)

\* A goroutine that is about to put a frame on a channel does so on an open bus.
LEMMA PutOnOpenBus ==
    ASSUME TypeOK, SafetyInv, NEW s \in Senders, SendPut(s) \/ SendRefill(s)
    PROVE  Target(s) \in Subs /\ open[Target(s)] /\ ~closed
<1>1. pc[s] \in Walking /\ AtTarget(s)
  BY DEF SendPut, SendRefill, Walking, TypeOK, LocalType, AtTarget
<1>2. todo[s] \in Seq(Subs) /\ todo[s] # <<>>
  BY <1>1 DEF TypeOK, LocalType, AtTarget
<1>3. 1 \in DOMAIN todo[s] /\ Target(s) = todo[s][1] /\ Target(s) \in Subs
  BY <1>2, HeadTailProperties, LenProperties, EmptySeq DEF Target
<1>4. open[Target(s)]
  BY <1>1, <1>3 DEF SafetyInv, WalkInv
<1> QED
  BY <1>3, <1>4 DEF SafetyInv, OpenInv

\* Only SendPut and SendRefill put anything on a channel.
LEMMA OnlySendPuts ==
    ASSUME [Next]_vars, \A s \in Senders : ~SendPut(s) /\ ~SendRefill(s)
    PROVE  put' = put
<1>1. ASSUME NEW s \in Senders, SendInvalid(s) \/ SendCall(s) \/ SendStep(s)
      PROVE  put' = put
  BY <1>1 DEF SendStep, SendInvalid, SendCall, SendLock, SendRefused, SendAccepted,
              SendSkip, SendDrop, SendFull, SendEvict, SendCount, SendReturn
<1>2. ASSUME NEW c \in Subs, SubscribeCall(c) \/ SubscribeStep(c) \/ ConsumeStep(c)
      PROVE  put' = put
  BY <1>2 DEF SubscribeCall, SubscribeStep, ConsumeStep, SubscribeRefused, Subscribe,
              Receive, ReceiveEOF
<1>3. ASSUME NEW k \in Closers,
             CloseCall(k) \/ DrainCall(k) \/ DrainGiveUp(k) \/ DrainStep(k) \/ CloseStep(k)
      PROVE  put' = put
  BY <1>3 DEF CloseCall, DrainCall, DrainGiveUp, DrainStep, CloseStep, DrainTick, ScanLock,
              ScanEmpty, ScanPending, ScanDrained, CloseLock, Close
<1>4. ASSUME NEW p \in Impatient, CtxCancel(p)
      PROVE  put' = put
  BY <1>4 DEF CtxCancel
<1>5. CASE AllDone \/ UNCHANGED vars
  BY <1>5 DEF AllDone, vars
<1> QED
  BY <1>1, <1>2, <1>3, <1>4, <1>5 DEF Next

\* Once the bus is closed no Send, not even one under way, delivers anything.
THEOREM NothingAfterClose == Spec => QuietAfterClose
<1>1. TypeOK /\ SafetyInv /\ [Next]_vars => [closed => put' = put]_vars
  BY PutOnOpenBus, OnlySendPuts
<1> QED
  BY <1>1, SafetyInvariant, PTL DEF Spec, QuietAfterClose

-----------------------------------------------------------------------------
(* Order: no frame of a sender is repeated or overtaken on a channel. *)

\* The calls of a sender only grow, and nothing becomes pending but by a call.
NoNewPending ==
    \A s \in Senders :
        /\ calls'[s] >= calls[s]
        /\ \A c \in Subs : Pending(s, c)' => Pending(s, c) \/ calls'[s] > calls[s]

\* A step that puts nothing on a channel keeps the order.
LEMMA OrderFrame ==
    ASSUME TypeOK, TypeOK', OrderInv, put' = put, NoNewPending,
           \A s \in Senders : pc'[s] \in {"evict", "refill"} => Matches(s)'
    PROVE  OrderInv'
<1>1. ASSUME NEW c \in Subs, NEW i \in DOMAIN put[c]
      PROVE  LET s == put[c][i].src
             IN  put[c][i].n <= calls'[s] /\ (Pending(s, c)' => put[c][i].n < calls'[s])
  <2> DEFINE s == put[c][i].src
  <2>1. s \in Senders /\ put[c][i].n \in Nat
    <3>1. put[c] \in Seq(Frames)
      BY DEF TypeOK, HistoryType
    <3>2. put[c][i] \in Frames
      BY <3>1, ElementOfSeq, LenProperties
    <3> QED
      BY <3>2 DEF Frames
  <2>2. calls[s] \in Nat /\ calls'[s] \in Nat
    BY <2>1, ConfigAssumption DEF TypeOK, LocalType
  <2>3. put[c][i].n <= calls[s] /\ (Pending(s, c) => put[c][i].n < calls[s])
    BY DEF OrderInv
  <2> QED
    BY <2>1, <2>2, <2>3 DEF NoNewPending
<1> QED
  BY <1>1 DEF OrderInv

\* The step of a goroutine that is not a sender, and puts nothing on a channel.
LEMMA OtherOrder ==
    ASSUME TypeOK, TypeOK', OrderInv, put' = put, calls' = calls, kind' = kind,
           \A s \in Senders : pc'[s] = pc[s] /\ todo'[s] = todo[s]
    PROVE  OrderInv'
<1>1. \A s \in Senders : calls[s] \in Nat
  BY ConfigAssumption DEF TypeOK, LocalType
<1>2. NoNewPending
  BY <1>1 DEF NoNewPending, Pending
<1>3. \A s \in Senders : pc'[s] \in {"evict", "refill"} => Matches(s)'
  BY DEF OrderInv, Matches, Target
<1> QED
  BY <1>2, <1>3, OrderFrame

\* The same for a sender, which may move in its own call.
LEMMA SenderOrderFrame ==
    ASSUME TypeOK, TypeOK', OrderInv, put' = put, NEW s \in Senders,
           \A t \in Senders \ {s} : /\ pc'[t] = pc[t] /\ todo'[t] = todo[t]
                                    /\ calls'[t] = calls[t] /\ kind'[t] = kind[t],
           calls'[s] >= calls[s],
           \A c \in Subs : Pending(s, c)' => Pending(s, c) \/ calls'[s] > calls[s],
           pc'[s] \in {"evict", "refill"} => Matches(s)'
    PROVE  OrderInv'
<1>1. \A t \in Senders : calls[t] \in Nat
  BY ConfigAssumption DEF TypeOK, LocalType
<1>2. NoNewPending
  BY <1>1 DEF NoNewPending, Pending
<1>3. \A t \in Senders : pc'[t] \in {"evict", "refill"} => Matches(t)'
  BY DEF OrderInv, Matches, Target
<1> QED
  BY <1>2, <1>3, OrderFrame

\* A sender that has put its frame on the channel it is at is done with it, and
\* as far with every other channel as before.
LEMMA PutOrder ==
    ASSUME TypeOK, SafetyInv, OrderInv, NEW s \in Senders,
           NEW c \in Subs, c = Target(s), pc[s] \in {"deliver", "refill"}, AtTarget(s),
           PutOn(c, Frame(s)), pc' = [pc EXCEPT ![s] = "count"],
           UNCHANGED <<todo, calls, kind>>
    PROVE  OrderInv'
<1>1. todo[s] \in Seq(Subs) /\ todo[s] # <<>>
  BY DEF TypeOK, LocalType, AtTarget
<1>2. 1 \in DOMAIN todo[s] /\ todo[s][1] = c
  BY <1>1, HeadTailProperties, LenProperties, EmptySeq DEF Target
<1>3. s \in Procs /\ pc'[s] = "count" /\ \A t \in Senders \ {s} : pc'[t] = pc[t]
  BY DEF TypeOK, PCType, Procs
<1>4. Pending(s, c) /\ ~Pending(s, c)'
  <2>1. \A i \in DOMAIN todo[s] : todo[s][i] = c => i = 1
    BY <1>2 DEF SafetyInv, WalkInv, Walking
  <2>2. Pending(s, c)
    BY <1>2 DEF Pending
  <2>3. ASSUME Pending(s, c)' PROVE FALSE
    <3>1. PICK i \in DOMAIN todo[s] : todo[s][i] = c /\ i # 1
      BY <1>3, <2>3 DEF Pending
    <3> QED
      BY <2>1, <3>1
  <2> QED
    BY <2>2, <2>3
<1>5. \A t \in Senders, d \in Subs : Pending(t, d)' => Pending(t, d)
  BY <1>3 DEF Pending
<1>6. \A t \in Senders : calls[t] \in Nat
  BY ConfigAssumption DEF TypeOK, LocalType
<1>7. /\ put[c] \in Seq(Frames) /\ Len(put[c]) \in Nat
      /\ put'[c] = Append(put[c], Frame(s))
      /\ \A d \in Subs \ {c} : put'[d] = put[d]
  BY LenProperties DEF TypeOK, HistoryType, PutOn
<1>8. Frame(s) \in Frames /\ Frame(s).src = s /\ Frame(s).n = calls[s]
  <2>1. pc[s] # "idle"
    OBVIOUS
  <2> QED
    BY <2>1, FrameType DEF TypeOK, Frame
<1>9. /\ DOMAIN put'[c] = 1 .. Len(put[c]) + 1 /\ DOMAIN put[c] = 1 .. Len(put[c])
      /\ put'[c][Len(put[c]) + 1] = Frame(s)
      /\ \A i \in 1 .. Len(put[c]) : put'[c][i] = put[c][i] /\ put[c][i] \in Frames
  BY <1>7, <1>8, AppendProperties, LenProperties, ElementOfSeq
<1>10. \A i \in DOMAIN put[c] : put[c][i].src = s => put[c][i].n < calls[s]
  BY <1>4, <1>6 DEF OrderInv
<1>11. ASSUME NEW d \in Subs, NEW i \in DOMAIN put'[d], NEW j \in DOMAIN put'[d],
              i < j, put'[d][i].src = put'[d][j].src
       PROVE  put'[d][i].n < put'[d][j].n
  <2>1. CASE d # c
    BY <1>7, <1>11, <2>1 DEF OrderInv
  <2>2. CASE d = c /\ j = Len(put[c]) + 1
    <3>1. i \in DOMAIN put[c] /\ put'[c][i] = put[c][i] /\ put'[c][j] = Frame(s)
      BY <1>7, <1>9, <1>11, <2>2
    <3> QED
      BY <1>8, <1>10, <1>11, <2>2, <3>1
  <2>3. CASE d = c /\ j # Len(put[c]) + 1
    <3>1. i \in DOMAIN put[c] /\ j \in DOMAIN put[c]
          /\ put'[c][i] = put[c][i] /\ put'[c][j] = put[c][j]
      BY <1>7, <1>9, <1>11, <2>3
    <3> QED
      BY <1>11, <2>3, <3>1 DEF OrderInv
  <2> QED
    BY <2>1, <2>2, <2>3
<1>12. ASSUME NEW d \in Subs, NEW i \in DOMAIN put'[d]
       PROVE  \E t \in Senders : /\ put'[d][i].src = t
                                 /\ put'[d][i].n <= calls'[t]
                                 /\ Pending(t, d)' => put'[d][i].n < calls'[t]
  <2>1. CASE d = c /\ i = Len(put[c]) + 1
    <3>1. put'[d][i] = Frame(s)
      BY <1>9, <2>1
    <3>2. calls'[s] = calls[s] /\ calls[s] <= calls[s] /\ ~Pending(s, d)'
      BY <1>4, <1>6, <2>1
    <3> QED
      BY <1>8, <3>1, <3>2
  <2>2. CASE d # c \/ i # Len(put[c]) + 1
    <3>1. i \in DOMAIN put[d] /\ put'[d][i] = put[d][i]
      <4>1. CASE d # c
        BY <1>7, <4>1
      <4>2. CASE d = c
        <5>1. i \in 1 .. Len(put[c])
          BY <1>7, <1>9, <2>2, <4>2
        <5> QED
          BY <1>9, <4>2, <5>1
      <4> QED
        BY <4>1, <4>2
    <3>2. put[d] \in Seq(Frames)
      BY DEF TypeOK, HistoryType
    <3>3. put[d][i] \in Frames
      BY <3>1, <3>2, ElementOfSeq, LenProperties
    <3>4. put[d][i].src \in Senders
      BY <3>3 DEF Frames
    <3>5. PICK t \in Senders : put[d][i].src = t
      BY <3>4
    <3>6. put[d][i].n <= calls[t] /\ (Pending(t, d) => put[d][i].n < calls[t])
      BY <3>1, <3>5 DEF OrderInv
    <3> QED
      BY <1>5, <3>1, <3>5, <3>6
  <2> QED
    BY <2>1, <2>2
<1>13. \A t \in Senders : pc'[t] \in {"evict", "refill"} => Matches(t)'
  BY <1>3 DEF OrderInv, Matches, Target
<1> QED
  BY <1>11, <1>12, <1>13 DEF OrderInv

\* One step of a sender keeps the order.
LEMMA SenderOrder ==
    ASSUME TypeOK, TypeOK', SafetyInv, OrderInv, NEW s \in Senders,
           SendInvalid(s) \/ SendCall(s) \/ SendStep(s)
    PROVE  OrderInv'
<1>p. s \in Procs /\ \A t \in Senders \ {s} : t \in Procs \ {s}
  BY DEF Procs
<1>l. /\ "idle" \in SenderPCs /\ "rlock" \in SenderPCs /\ "check" \in SenderPCs
      /\ "deliver" \in SenderPCs /\ "evict" \in SenderPCs /\ "count" \in SenderPCs
      /\ "refill" \in SenderPCs
  BY DEF SenderPCs
<1>n. calls[s] \in Nat /\ PCType
  BY ConfigAssumption DEF TypeOK, LocalType
<1>t. ASSUME AtTarget(s), Advance(s), pc'[s] = "deliver", NEW c \in Subs, Pending(s, c)'
      PROVE  \E i \in DOMAIN todo[s] : todo[s][i] = c /\ i # 1
  <2>1. todo[s] \in Seq(Subs) /\ todo[s] # <<>> /\ todo'[s] = Tail(todo[s])
    BY <1>t DEF TypeOK, LocalType, AtTarget, Advance
  <2>2. PICK i \in DOMAIN Tail(todo[s]) : Tail(todo[s])[i] = c
    BY <1>t, <2>1 DEF Pending
  <2>3. i + 1 \in DOMAIN todo[s] /\ todo[s][i + 1] = c /\ i \in Nat /\ i # 0
    <3>1. Tail(todo[s]) \in Seq(Subs)
      BY <2>1, HeadTailProperties
    <3> QED
      BY <2>1, <2>2, <3>1, TailKeepsOrder, LenProperties
  <2> QED
    BY <2>3
<1>1. CASE SendInvalid(s)
  BY <1>1, <1>n, SenderOrderFrame DEF SendInvalid, TypeOK, LocalType
<1>2. CASE SendCall(s)
  <2>1. pc'[s] = "rlock" /\ \A p \in Procs \ {s} : pc'[p] = pc[p]
    BY <1>2, <1>n, <1>l, GotoSender DEF SendCall
  <2>2. /\ calls'[s] > calls[s] /\ calls'[s] >= calls[s] /\ put' = put /\ todo' = todo
        /\ \A t \in Senders \ {s} : calls'[t] = calls[t] /\ kind'[t] = kind[t]
    BY <1>2, <1>n DEF SendCall, TypeOK, LocalType
  <2> QED
    BY <1>p, <1>n, <2>1, <2>2, SenderOrderFrame
<1>3. CASE SendLock(s)
  <2>1. pc'[s] = "check" /\ \A p \in Procs \ {s} : pc'[p] = pc[p]
    BY <1>3, <1>n, <1>l, GotoSender DEF SendLock
  <2>2. pc[s] = "rlock" /\ UNCHANGED <<put, todo, calls, kind>>
    BY <1>3 DEF SendLock
  <2>3. \A c \in Subs : Pending(s, c)
    BY <2>2 DEF Pending
  <2> QED
    BY <1>p, <1>n, <2>1, <2>2, <2>3, SenderOrderFrame
<1>4. CASE SendRefused(s)
  <2>1. pc'[s] = "idle" /\ \A p \in Procs \ {s} : pc'[p] = pc[p]
    BY <1>4, <1>n, <1>l, GotoSender DEF SendRefused
  <2>2. UNCHANGED <<put, todo, calls, kind>>
    BY <1>4 DEF SendRefused
  <2>3. \A c \in Subs : ~Pending(s, c)'
    BY <2>1 DEF Pending
  <2> QED
    BY <1>p, <1>n, <2>1, <2>2, <2>3, SenderOrderFrame
<1>5. CASE SendAccepted(s)
  <2>1. pc'[s] = "deliver" /\ \A p \in Procs \ {s} : pc'[p] = pc[p]
    BY <1>5, <1>n, <1>l, GotoSender DEF SendAccepted
  <2>2. pc[s] = "check" /\ UNCHANGED <<put, calls, kind>>
        /\ \A t \in Senders \ {s} : todo'[t] = todo[t]
    BY <1>5 DEF SendAccepted, TypeOK, LocalType
  <2>3. \A c \in Subs : Pending(s, c)
    BY <2>2 DEF Pending
  <2> QED
    BY <1>p, <1>n, <2>1, <2>2, <2>3, SenderOrderFrame
<1>6. CASE SendSkip(s)
  <2>1. /\ pc[s] = "deliver" /\ AtTarget(s) /\ Advance(s)
        /\ UNCHANGED <<put, calls, kind, pc>>
    BY <1>6 DEF SendSkip
  <2>2. \A c \in Subs : Pending(s, c)' => Pending(s, c)
    BY <1>t, <2>1 DEF Pending
  <2>3. \A t \in Senders \ {s} : todo'[t] = todo[t]
    BY <2>1 DEF Advance, TypeOK, LocalType
  <2> QED
    BY <1>n, <2>1, <2>2, <2>3, SenderOrderFrame
<1>7. CASE SendPut(s)
  <2>1. PICK c \in Subs : c = Target(s)
    BY <1>7, PutOnOpenBus
  <2> QED
    BY <1>7, <2>1, PutOrder DEF SendPut, Goto
<1>8. CASE SendDrop(s)
  <2>1. /\ pc[s] = "deliver" /\ AtTarget(s) /\ Advance(s)
        /\ UNCHANGED <<put, calls, kind, pc>>
    BY <1>8 DEF SendDrop
  <2>2. \A c \in Subs : Pending(s, c)' => Pending(s, c)
    BY <1>t, <2>1 DEF Pending
  <2>3. \A t \in Senders \ {s} : todo'[t] = todo[t]
    BY <2>1 DEF Advance, TypeOK, LocalType
  <2> QED
    BY <1>n, <2>1, <2>2, <2>3, SenderOrderFrame
<1>9. CASE SendFull(s)
  <2>1. pc'[s] = "evict" /\ \A p \in Procs \ {s} : pc'[p] = pc[p]
    BY <1>9, <1>n, <1>l, GotoSender DEF SendFull
  <2>2. pc[s] = "deliver" /\ Matches(s) /\ UNCHANGED <<put, todo, calls, kind>>
    BY <1>9 DEF SendFull
  <2>3. \A c \in Subs : Pending(s, c)' => Pending(s, c)
    BY <2>1, <2>2 DEF Pending
  <2>4. Matches(s)'
    BY <2>2 DEF Matches, Target
  <2> QED
    BY <1>p, <1>n, <2>1, <2>2, <2>3, <2>4, SenderOrderFrame
<1>10. CASE SendEvict(s)
  <2>1. pc'[s] = "refill" /\ \A p \in Procs \ {s} : pc'[p] = pc[p]
    BY <1>10, <1>n, <1>l, GotoSender DEF SendEvict
  <2>2. pc[s] = "evict" /\ UNCHANGED <<put, todo, calls, kind>>
    BY <1>10 DEF SendEvict
  <2>3. \A c \in Subs : Pending(s, c)' => Pending(s, c)
    BY <2>1, <2>2 DEF Pending
  <2>4. Matches(s)'
    BY <2>2 DEF OrderInv, Matches, Target
  <2> QED
    BY <1>p, <1>n, <2>1, <2>2, <2>3, <2>4, SenderOrderFrame
<1>11. CASE SendRefill(s)
  <2>1. PICK c \in Subs : c = Target(s)
    BY <1>11, PutOnOpenBus
  <2>2. AtTarget(s)
    BY <1>11 DEF SendRefill, TypeOK, LocalType, AtTarget
  <2> QED
    BY <1>11, <2>1, <2>2, PutOrder DEF SendRefill, Goto
<1>12. CASE SendCount(s)
  <2>1. pc'[s] = "deliver" /\ \A p \in Procs \ {s} : pc'[p] = pc[p]
    BY <1>12, <1>n, <1>l, GotoSender DEF SendCount
  <2>2. /\ pc[s] = "count" /\ AtTarget(s) /\ Advance(s)
        /\ UNCHANGED <<put, calls, kind>>
    BY <1>12 DEF SendCount, TypeOK, LocalType, AtTarget
  <2>3. \A c \in Subs : Pending(s, c)' => Pending(s, c)
    BY <1>t, <2>1, <2>2 DEF Pending
  <2>4. \A t \in Senders \ {s} : todo'[t] = todo[t]
    BY <2>2 DEF Advance, TypeOK, LocalType
  <2> QED
    BY <1>p, <1>n, <2>1, <2>2, <2>3, <2>4, SenderOrderFrame
<1>13. CASE SendReturn(s)
  <2>1. pc'[s] = "idle" /\ \A p \in Procs \ {s} : pc'[p] = pc[p]
    BY <1>13, <1>n, <1>l, GotoSender DEF SendReturn
  <2>2. UNCHANGED <<put, todo, calls, kind>>
    BY <1>13 DEF SendReturn
  <2>3. \A c \in Subs : ~Pending(s, c)'
    BY <2>1 DEF Pending
  <2> QED
    BY <1>p, <1>n, <2>1, <2>2, <2>3, SenderOrderFrame
<1> QED
  BY <1>1, <1>2, <1>3, <1>4, <1>5, <1>6, <1>7, <1>8, <1>9, <1>10, <1>11, <1>12, <1>13
     DEF SendStep

\* The order holds at the start ...
LEMMA InitOrder == Init => OrderInv
<1> SUFFICES ASSUME Init PROVE OrderInv
  OBVIOUS
<1>1. \A c \in Subs : put[c] = <<>>
  BY DEF Init
<1>2. \A s \in Senders : pc[s] = "idle"
  BY ProcsAssumption DEF Init, Procs
<1> QED
  BY <1>1, <1>2 DEF OrderInv

\* ... and every step keeps it.
LEMMA NextOrder == TypeOK /\ SafetyInv /\ OrderInv /\ [Next]_vars => OrderInv'
<1> SUFFICES ASSUME TypeOK, SafetyInv, OrderInv, [Next]_vars PROVE OrderInv'
  OBVIOUS
<1>0. TypeOK'
  BY NextType
<1>p. /\ \A c \in Subs, s \in Senders : s \in Procs \ {c}
      /\ \A k \in Closers, s \in Senders : s \in Procs \ {k} /\ s # k
  BY ProcsAssumption DEF Procs
<1>c. PCType
  BY DEF TypeOK
<1>1. ASSUME NEW s \in Senders, SendInvalid(s) \/ SendCall(s) \/ SendStep(s)
      PROVE  OrderInv'
  BY <1>0, <1>1, SenderOrder
<1>2. ASSUME NEW c \in Subs, SubscribeCall(c) \/ SubscribeStep(c) \/ ConsumeStep(c)
      PROVE  OrderInv'
  <2>1. UNCHANGED <<put, calls, kind, todo>>
    BY <1>2 DEF SubscribeCall, SubscribeStep, ConsumeStep, SubscribeRefused, Subscribe,
                Receive, ReceiveEOF
  <2>2. pc' = pc \/ \E l \in SubPCs : Goto(c, l)
    BY <1>2 DEF SubscribeCall, SubscribeStep, ConsumeStep, SubscribeRefused, Subscribe,
                Receive, ReceiveEOF, SubPCs
  <2>3. \A s \in Senders : pc'[s] = pc[s]
    BY <1>c, <1>p, <2>2, GotoSub
  <2> QED
    BY <1>0, <2>1, <2>3, OtherOrder
<1>3. ASSUME NEW k \in Closers,
             CloseCall(k) \/ DrainCall(k) \/ DrainGiveUp(k) \/ DrainStep(k) \/ CloseStep(k)
      PROVE  OrderInv'
  <2>1. UNCHANGED <<put, calls, kind>> /\ \A s \in Senders : todo'[s] = todo[s]
    BY <1>3, <1>p DEF CloseCall, DrainCall, DrainGiveUp, DrainStep, CloseStep, DrainTick,
          ScanLock, ScanEmpty, ScanPending, ScanDrained, CloseLock, Close, Advance,
          TypeOK, LocalType
  <2>2. pc' = pc \/ \E l \in CloserPCs : Goto(k, l)
    BY <1>3 DEF CloseCall, DrainCall, DrainGiveUp, DrainStep, CloseStep, DrainTick,
          ScanLock, ScanEmpty, ScanPending, ScanDrained, CloseLock, Close, CloserPCs
  <2>3. \A s \in Senders : pc'[s] = pc[s]
    BY <1>c, <1>p, <2>2, GotoCloser
  <2> QED
    BY <1>0, <2>1, <2>3, OtherOrder
<1>4. ASSUME NEW p \in Impatient, CtxCancel(p)
      PROVE  OrderInv'
  BY <1>0, <1>4, OtherOrder DEF CtxCancel
<1>5. CASE AllDone \/ UNCHANGED vars
  <2>1. UNCHANGED vars
    BY <1>5 DEF AllDone
  <2> QED
    BY <1>0, <2>1, OtherOrder DEF vars
<1> QED
  BY <1>1, <1>2, <1>3, <1>4, <1>5 DEF Next

\* Types, safety and order together are an invariant of the bus.
THEOREM OrderInvariant == Spec => [](TypeOK /\ SafetyInv /\ OrderInv)
BY InitType, InitSafe, InitOrder, NextType, NextSafe, NextOrder, PTL DEF Spec

-----------------------------------------------------------------------------
(* The virtual bus implements the can.Bus contract. *)

\* A step that leaves the channels alone, and moves consumers only where the
\* contract sees no difference, is a stutter.
LEMMA StutterStep ==
    ASSUME UNCHANGED <<closed, open, put, chan>>,
           \A c \in Subs : \/ pc'[c] = pc[c]
                           \/ pc[c] \notin {"reading", "eof"} /\ pc'[c] \notin {"reading", "eof"}
                           \/ pc[c] \in {"reading", "eof"} /\ pc'[c] \in {"reading", "eof"}
    PROVE  UNCHANGED Bus!busVars
BY DEF Bus!busVars

\* A frame put on a channel that is not full is an Offer.
LEMMA PutIsOffer ==
    ASSUME TypeOK, SafetyInv, OrderInv, NEW s \in Senders, SendPut(s) \/ SendRefill(s)
    PROVE  \E c \in Subs, f \in Bus!Frames : Bus!Offer(c, f)
<1>1. Target(s) \in Subs /\ open[Target(s)]
  BY PutOnOpenBus
<1> DEFINE c == Target(s)
           f == Frame(s)
<1>2. f \in Frames /\ f.src = s /\ f.n = calls[s] /\ f.kind = kind[s]
  BY FrameType DEF SendPut, SendRefill, TypeOK, Frame
<1>3. f \in Bus!Frames
  BY <1>2 DEF Frames, Bus!Frames
<1>4. f.kind \in Wants[c]
  BY <1>2 DEF SendPut, SendRefill, Matches, OrderInv
<1>5. Pending(s, c)
  <2>1. pc[s] \in {"deliver", "refill"} /\ AtTarget(s)
    BY DEF SendPut, SendRefill, TypeOK, LocalType, AtTarget
  <2>2. todo[s] \in Seq(Subs) /\ todo[s] # <<>>
    BY <2>1 DEF TypeOK, LocalType, AtTarget
  <2>3. 1 \in DOMAIN todo[s] /\ todo[s][1] = c
    BY <2>2, HeadTailProperties, LenProperties, EmptySeq DEF Target
  <2> QED
    BY <2>1, <2>3 DEF Pending
<1>6. Bus!Newer(c, f)
  <2>1. ASSUME NEW i \in DOMAIN put[c], put[c][i].src = s PROVE put[c][i].n < calls[s]
    BY <1>1, <1>5, <2>1 DEF OrderInv
  <2> QED
    BY <1>2, <2>1 DEF Bus!Newer
<1>7. Len(chan[c]) < Depth
  <2>1. chan[c] \in Seq(Frames) /\ Depth \in Nat /\ ~Full(c)
    BY <1>1, ConfigAssumption DEF SendPut, SendRefill, TypeOK, ChanType
  <2> QED
    BY <2>1, LenProperties DEF Full
<1>8. /\ put' = [put EXCEPT ![c] = Append(@, f)]
      /\ chan' = [chan EXCEPT ![c] = Append(@, f)]
      /\ UNCHANGED <<closed, open>>
  BY DEF SendPut, SendRefill, PutOn
<1>9. \A d \in Subs : pc'[d] = pc[d]
  BY ProcsAssumption, GotoSender
     DEF SendPut, SendRefill, TypeOK, SenderPCs, Procs
<1>10. Bus!Offer(c, f)
  BY <1>1, <1>4, <1>6, <1>7, <1>8, <1>9 DEF Bus!Offer
<1> QED
  BY <1>1, <1>3, <1>10

\* A step of a sender is an Offer, a Leave or a stutter.
LEMMA SenderRefines ==
    ASSUME TypeOK, SafetyInv, OrderInv, NEW s \in Senders,
           SendInvalid(s) \/ SendCall(s) \/ SendStep(s)
    PROVE  Bus!BusNext \/ UNCHANGED Bus!busVars
<1>p. \A c \in Subs : c \in Procs \ {s}
  BY ProcsAssumption DEF Procs
<1>c. PCType
  BY DEF TypeOK
<1>1. pc' = pc \/ \E l \in SenderPCs : Goto(s, l)
  BY DEF SendStep, SendInvalid, SendCall, SendLock, SendRefused, SendAccepted, SendSkip,
         SendPut, SendDrop, SendFull, SendEvict, SendRefill, SendCount, SendReturn, SenderPCs
<1>2. \A c \in Subs : pc'[c] = pc[c]
  BY <1>p, <1>c, <1>1, GotoSender
<1>3. CASE SendPut(s) \/ SendRefill(s)
  BY <1>3, PutIsOffer DEF Bus!BusNext
<1>4. CASE SendEvict(s)
  <2>1. Target(s) \in Subs
    BY <1>4, TargetType DEF SendEvict, TypeOK, LocalType, AtTarget
  <2>2. Bus!Leave(Target(s))
    BY <1>2, <1>4, <2>1 DEF SendEvict, Bus!Leave
  <2> QED
    BY <2>1, <2>2 DEF Bus!BusNext
<1>5. CASE ~(SendPut(s) \/ SendRefill(s) \/ SendEvict(s))
  <2>1. UNCHANGED <<closed, open, put, chan>>
    BY <1>5 DEF SendStep, SendInvalid, SendCall, SendLock, SendRefused, SendAccepted,
                SendSkip, SendDrop, SendFull, SendCount, SendReturn
  <2> QED
    BY <1>2, <2>1, StutterStep
<1> QED
  BY <1>3, <1>4, <1>5

\* A step of a subscriber is an Open, a Leave or a stutter.
LEMMA SubRefines ==
    ASSUME TypeOK, SafetyInv, NEW c \in Subs,
           SubscribeCall(c) \/ SubscribeStep(c) \/ ConsumeStep(c)
    PROVE  Bus!BusNext \/ UNCHANGED Bus!busVars
<1>l. /\ "lock" \in SubPCs /\ "refused" \in SubPCs /\ "reading" \in SubPCs /\ "eof" \in SubPCs
      /\ \A d \in Subs \ {c} : d \in Procs \ {c}
  BY DEF SubPCs, Procs
<1>c. PCType
  BY DEF TypeOK
<1>1. CASE Subscribe(c)
  <2>1. pc[c] = "lock" /\ pc'[c] = "reading" /\ \A d \in Subs \ {c} : pc'[d] = pc[d]
    BY <1>1, <1>c, <1>l, GotoSub DEF Subscribe
  <2>2. ~open[c] /\ open'[c] /\ \A d \in Subs \ {c} : open'[d] = open[d]
    BY <1>1, <2>1 DEF Subscribe, SafetyInv, OpenInv, TypeOK, ChanType
  <2>3. UNCHANGED <<closed, put, chan>> /\ ~closed
    BY <1>1 DEF Subscribe
  <2>4. Bus!Open(c)
    BY <2>1, <2>2, <2>3 DEF Bus!Open
  <2> QED
    BY <2>4 DEF Bus!BusNext
<1>2. CASE Receive(c)
  <2>1. Bus!Leave(c)
    BY <1>2 DEF Receive, Bus!Leave
  <2> QED
    BY <2>1 DEF Bus!BusNext
<1>3. CASE SubscribeCall(c)
  <2>1. pc'[c] = "lock" /\ pc[c] = "new" /\ \A d \in Subs \ {c} : pc'[d] = pc[d]
    BY <1>3, <1>c, <1>l, GotoSub DEF SubscribeCall
  <2> QED
    BY <1>3, <2>1, StutterStep DEF SubscribeCall
<1>4. CASE SubscribeRefused(c)
  <2>1. pc'[c] = "refused" /\ pc[c] = "lock" /\ \A d \in Subs \ {c} : pc'[d] = pc[d]
    BY <1>4, <1>c, <1>l, GotoSub DEF SubscribeRefused
  <2> QED
    BY <1>4, <2>1, StutterStep DEF SubscribeRefused
<1>5. CASE ReceiveEOF(c)
  <2>1. pc'[c] = "eof" /\ pc[c] = "reading" /\ \A d \in Subs \ {c} : pc'[d] = pc[d]
    BY <1>5, <1>c, <1>l, GotoSub DEF ReceiveEOF
  <2> QED
    BY <1>5, <2>1, StutterStep DEF ReceiveEOF
<1> QED
  BY <1>1, <1>2, <1>3, <1>4, <1>5 DEF SubscribeStep, ConsumeStep

\* The first Close is CloseAll; every other step of a closer is a stutter.
LEMMA CloserRefines ==
    ASSUME TypeOK, SafetyInv, NEW k \in Closers,
           CloseCall(k) \/ DrainCall(k) \/ DrainGiveUp(k) \/ DrainStep(k) \/ CloseStep(k)
    PROVE  Bus!BusNext \/ UNCHANGED Bus!busVars
<1>p. \A c \in Subs : c \in Procs \ {k}
  BY ProcsAssumption DEF Procs
<1>c. PCType
  BY DEF TypeOK
<1>1. pc' = pc \/ \E l \in CloserPCs : Goto(k, l)
  BY DEF CloseCall, DrainCall, DrainGiveUp, DrainStep, CloseStep, DrainTick,
         ScanLock, ScanEmpty, ScanPending, ScanDrained, CloseLock, Close, CloserPCs
<1>2. \A c \in Subs : pc'[c] = pc[c]
  BY <1>p, <1>c, <1>1, GotoCloser
<1>3. CASE Close(k)
  <2>1. \A c \in Subs : ~open'[c]
    BY <1>3 DEF Close, EndStreams, SafetyInv, RegInv
  <2>2. \A c \in Subs : open[c] => pc[c] = "reading" /\ ~closed
    BY DEF SafetyInv, OpenInv
  <2>3. closed' = TRUE /\ UNCHANGED <<put, chan>>
    BY <1>3 DEF Close
  <2>4. CASE closed
    <3>1. open' = open
      BY <1>3, <2>2, <2>4 DEF Close, EndStreams, TypeOK, ChanType
    <3>2. closed' = closed
      BY <2>3, <2>4 DEF TypeOK, ListType
    <3> QED
      BY <1>2, <2>3, <3>1, <3>2, StutterStep
  <2>5. CASE ~closed
    BY <1>2, <2>1, <2>2, <2>3, <2>5 DEF Bus!CloseAll, Bus!BusNext
  <2> QED
    BY <2>4, <2>5
<1>4. CASE ~Close(k)
  <2>1. UNCHANGED <<closed, open, put, chan>>
    BY <1>4 DEF CloseCall, DrainCall, DrainGiveUp, DrainStep, CloseStep, DrainTick,
                ScanLock, ScanEmpty, ScanPending, ScanDrained, CloseLock
  <2> QED
    BY <1>2, <2>1, StutterStep
<1> QED
  BY <1>3, <1>4

\* The virtual bus implements can.Bus: independent bounded FIFO subscriptions
\* that drop but never reorder, repeat or invent frames, and one final Close.
THEOREM Implementation == Spec => ImplementsBus
<1>1. Init => Bus!BusInit
  <2> SUFFICES ASSUME Init PROVE Bus!BusInit
    OBVIOUS
  <2>1. \A c \in Subs : pc[c] = "new" /\ open[c] = FALSE
    BY ProcsAssumption DEF Init, Procs
  <2>2. /\ closed = FALSE /\ put = [c \in Subs |-> <<>>] /\ chan = [c \in Subs |-> <<>>]
    BY DEF Init
  <2> QED
    BY <2>1, <2>2 DEF Bus!BusInit
<1>2. TypeOK /\ SafetyInv /\ OrderInv /\ [Next]_vars => [Bus!BusNext]_(Bus!busVars)
  <2> SUFFICES ASSUME TypeOK, SafetyInv, OrderInv, [Next]_vars
               PROVE  Bus!BusNext \/ UNCHANGED Bus!busVars
    OBVIOUS
  <2>1. ASSUME NEW s \in Senders, SendInvalid(s) \/ SendCall(s) \/ SendStep(s)
        PROVE  Bus!BusNext \/ UNCHANGED Bus!busVars
    BY <2>1, SenderRefines
  <2>2. ASSUME NEW c \in Subs, SubscribeCall(c) \/ SubscribeStep(c) \/ ConsumeStep(c)
        PROVE  Bus!BusNext \/ UNCHANGED Bus!busVars
    BY <2>2, SubRefines
  <2>3. ASSUME NEW k \in Closers,
               CloseCall(k) \/ DrainCall(k) \/ DrainGiveUp(k) \/ DrainStep(k) \/ CloseStep(k)
        PROVE  Bus!BusNext \/ UNCHANGED Bus!busVars
    BY <2>3, CloserRefines
  <2>4. ASSUME NEW p \in Impatient, CtxCancel(p)
        PROVE  Bus!BusNext \/ UNCHANGED Bus!busVars
    BY <2>4, StutterStep DEF CtxCancel
  <2>5. CASE AllDone \/ UNCHANGED vars
    <3>1. UNCHANGED vars
      BY <2>5 DEF AllDone
    <3> QED
      BY <3>1, StutterStep DEF vars
  <2> QED
    BY <2>1, <2>2, <2>3, <2>4, <2>5 DEF Next
<1> QED
  BY <1>1, <1>2, OrderInvariant, PTL DEF Spec, ImplementsBus, Bus!BusSpec

-----------------------------------------------------------------------------
(* The walk of Send over the subscriptions does right by each it passes,    *)
(* proved from the order of the frames on each channel.                     *)

\* The frame s is sending is on the channel of c.
There(s, c) == \E j \in DOMAIN put[c] : put[c][j] = Frame(s)
Served(s, c) ==
    /\ There(s, c) => kind[s] \in Wants[c]
    /\ kind[s] \in Wants[c] /\ Policy[c] # "DropNewest" => There(s, c)

\* How many subscriptions a walk has passed.
Passed(s) == Len(subs) - Len(todo[s])

\* What a walk has left is the end of the list, the subscriptions before it are served,
\* and a sender about to count a delivery has made one.
Walked(s) ==
    pc[s] \in Walking =>
        /\ Len(todo[s]) <= Len(subs)
        /\ \A j \in DOMAIN todo[s] : todo[s][j] = subs[Passed(s) + j]
        /\ \A i \in 1 .. Passed(s) : Served(s, subs[i])
        /\ pc[s] = "count" => Matches(s) /\ There(s, Target(s))
WalkedInv == \A s \in Senders : Walked(s)

-----------------------------------------------------------------------------
(* What the steps of others leave alone. *)

\* Lists of subscriptions have a length and an index for each of their members.
LEMMA ListFacts ==
    ASSUME TypeOK
    PROVE  /\ Len(subs) \in Nat /\ DOMAIN subs = 1 .. Len(subs)
           /\ \A i \in DOMAIN subs : subs[i] \in Subs
           /\ \A s \in Senders : /\ todo[s] \in Seq(Subs) /\ Len(todo[s]) \in Nat
                                 /\ DOMAIN todo[s] = 1 .. Len(todo[s])
BY LenProperties, ElementOfSeq DEF TypeOK, ListType, LocalType

\* A step that lets a sender be, and puts no frame of its on a channel.
LEMMA WalkedFrame ==
    ASSUME TypeOK, NEW s \in Senders, Walked(s), subs' = subs,
           pc'[s] = pc[s], todo'[s] = todo[s], kind'[s] = kind[s], calls'[s] = calls[s],
           \A c \in Subs : There(s, c)' <=> There(s, c)
    PROVE  Walked(s)'
<1> SUFFICES ASSUME pc[s] \in Walking PROVE Walked(s)'
  BY DEF Walked
<1>1. Passed(s)' = Passed(s)
  BY DEF Passed
<1>2. \A i \in 1 .. Passed(s) : subs[i] \in Subs
  BY ListFacts DEF Walked, Passed
<1>3. \A i \in 1 .. Passed(s) : Served(s, subs[i])'
  BY <1>2 DEF Walked, Served
<1>4. pc[s] = "count" => Matches(s)' /\ There(s, Target(s))'
  <2> SUFFICES ASSUME pc[s] = "count" PROVE Matches(s)' /\ There(s, Target(s))'
    OBVIOUS
  <2>1. Target(s) \in Subs
    BY TargetType DEF TypeOK, LocalType, AtTarget
  <2>2. Target(s)' = Target(s) /\ Matches(s)' = Matches(s)
    BY DEF Target, Matches
  <2> QED BY <2>1, <2>2 DEF Walked
<1> QED
  BY <1>1, <1>3, <1>4 DEF Walked

\* A step that puts nothing on a channel changes nothing in what is there.
LEMMA SamePut ==
    ASSUME NEW s \in Senders, put' = put, kind'[s] = kind[s], calls'[s] = calls[s]
    PROVE  \A c \in Subs : There(s, c)' <=> There(s, c)
BY DEF There, Frame

\* A frame put on a channel is there, and no frame of another sender comes with it.
LEMMA PutThere ==
    ASSUME TypeOK, NEW s \in Senders, pc[s] # "idle", NEW c \in Subs,
           put' = [put EXCEPT ![c] = Append(@, Frame(s))],
           UNCHANGED <<kind, calls>>
    PROVE  /\ There(s, c)'
           /\ \A d \in Subs \ {c} : There(s, d)' <=> There(s, d)
           /\ \A t \in Senders \ {s} : \A d \in Subs : There(t, d)' <=> There(t, d)
<1>1. Frame(s) \in Frames /\ Frame(s).src = s
  BY FrameType DEF TypeOK, Frame
<1>2. /\ put[c] \in Seq(Frames) /\ Len(put[c]) \in Nat
      /\ put'[c] = Append(put[c], Frame(s)) /\ \A d \in Subs \ {c} : put'[d] = put[d]
  BY LenProperties DEF TypeOK, HistoryType
<1>3. /\ DOMAIN put'[c] = 1 .. Len(put[c]) + 1 /\ DOMAIN put[c] = 1 .. Len(put[c])
      /\ put'[c][Len(put[c]) + 1] = Frame(s)
      /\ \A i \in 1 .. Len(put[c]) : put'[c][i] = put[c][i]
  BY <1>1, <1>2, AppendProperties, LenProperties
<1>4. \A t \in Senders : Frame(t)' = Frame(t)
  BY DEF Frame
<1>5. There(s, c)'
  <2>1. Len(put[c]) + 1 \in DOMAIN put'[c]
    BY <1>2, <1>3
  <2> QED BY <2>1, <1>3, <1>4 DEF There
<1>6. \A t \in Senders, d \in Subs \ {c} : There(t, d)' <=> There(t, d)
  BY <1>2, <1>4 DEF There
<1>7. ASSUME NEW t \in Senders \ {s} PROVE There(t, c)' <=> There(t, c)
  <2>1. Frame(t) # Frame(s)
    BY DEF Frame
  <2>2. \A j \in DOMAIN put[c] : j \in DOMAIN put'[c] /\ put'[c][j] = put[c][j]
    BY <1>2, <1>3
  <2>3. \A j \in DOMAIN put'[c] : put'[c][j] = Frame(t) => j \in DOMAIN put[c]
    BY <1>2, <1>3, <2>1
  <2> QED BY <2>2, <2>3, <1>4 DEF There
<1> QED BY <1>5, <1>6, <1>7

-----------------------------------------------------------------------------
(* The sender's own steps. *)

\* A frame that is pending for a subscription is not there yet.
LEMMA PendingNotThere ==
    ASSUME TypeOK, OrderInv, NEW s \in Senders, NEW c \in Subs, Pending(s, c)
    PROVE  ~There(s, c)
<1>1. calls[s] \in Nat
  BY ConfigAssumption DEF TypeOK, LocalType
<1>2. ASSUME NEW j \in DOMAIN put[c], put[c][j] = Frame(s) PROVE FALSE
  <2>1. put[c][j].src = s /\ put[c][j].n = calls[s]
    BY <1>2 DEF Frame
  <2>2. put[c][j].n < calls[s]
    BY <2>1 DEF OrderInv
  <2> QED BY <1>1, <2>1, <2>2
<1> QED BY <1>2 DEF There

\* The walk goes on after a subscription it has served.
LEMMA AdvanceWalked ==
    ASSUME TypeOK, NEW s \in Senders, Walked(s), pc[s] \in Walking, AtTarget(s),
           Advance(s), Served(s, Target(s)), pc'[s] = "deliver",
           UNCHANGED <<subs, put, kind, calls>>
    PROVE  Walked(s)'
<1>1. /\ todo[s] \in Seq(Subs) /\ todo[s] # <<>> /\ Len(todo[s]) \in Nat /\ Len(subs) \in Nat
      /\ DOMAIN todo[s] = 1 .. Len(todo[s]) /\ todo'[s] = Tail(todo[s])
  BY ListFacts DEF TypeOK, LocalType, AtTarget, Advance
<1>2. /\ Tail(todo[s]) \in Seq(Subs) /\ Len(Tail(todo[s])) = Len(todo[s]) - 1
      /\ Target(s) = todo[s][1]
      /\ \A j \in 1 .. Len(Tail(todo[s])) : Tail(todo[s])[j] = todo[s][j + 1]
  BY <1>1, HeadTailProperties DEF Target
<1>3. /\ DOMAIN Tail(todo[s]) = 1 .. Len(todo[s]) - 1 /\ 1 \in DOMAIN todo[s]
      /\ Len(todo[s]) >= 1
  BY <1>1, <1>2, LenProperties, EmptySeq
<1>4. Passed(s) \in Nat /\ Passed(s)' = Passed(s) + 1 /\ Len(todo'[s]) <= Len(subs)
  <2>1. Len(todo[s]) <= Len(subs)
    BY DEF Walked
  <2>2. Len(todo'[s]) = Len(todo[s]) - 1 /\ subs' = subs
    BY <1>1, <1>2
  <2>3. Passed(s) = Len(subs) - Len(todo[s]) /\ Passed(s)' = Len(subs') - Len(todo'[s])
    BY DEF Passed
  <2> QED BY <1>1, <1>3, <2>1, <2>2, <2>3
<1>5. \A j \in DOMAIN todo'[s] : todo'[s][j] = subs[Passed(s)' + j]
  <2> SUFFICES ASSUME NEW j \in DOMAIN todo'[s] PROVE todo'[s][j] = subs[Passed(s)' + j]
    OBVIOUS
  <2>1. j \in Nat /\ j + 1 \in DOMAIN todo[s] /\ todo'[s][j] = todo[s][j + 1]
    BY <1>1, <1>2, <1>3
  <2>2. todo[s][j + 1] = subs[Passed(s) + (j + 1)]
    BY <2>1 DEF Walked
  <2> QED BY <2>1, <2>2, <1>4
<1>6. \A i \in 1 .. Passed(s)' : Served(s, subs[i])'
  <2> SUFFICES ASSUME NEW i \in 1 .. Passed(s) + 1 PROVE Served(s, subs[i])
    BY <1>4 DEF Served, There, Frame
  <2>1. CASE i = Passed(s) + 1
    BY <2>1, <1>2, <1>3 DEF Walked
  <2>2. CASE i # Passed(s) + 1
    <3>1. i \in 1 .. Passed(s)
      BY <2>2, <1>4
    <3> QED BY <3>1 DEF Walked
  <2> QED BY <2>1, <2>2
<1>7. subs' = subs /\ pc'[s] # "count"
  OBVIOUS
<1>8. \A j \in DOMAIN todo'[s] : todo'[s][j] = subs'[Passed(s)' + j]
  BY <1>5, <1>7
<1>9. Len(todo'[s]) <= Len(subs')
  BY <1>4, <1>7
<1> QED
  BY <1>6, <1>7, <1>8, <1>9 DEF Walked

\* The walk puts its frame on the channel it is at.
LEMMA PutWalked ==
    ASSUME TypeOK, NEW s \in Senders, Walked(s), pc[s] \in Walking, AtTarget(s), Matches(s),
           PutOn(Target(s), Frame(s)), pc'[s] = "count", UNCHANGED <<subs, todo, kind, calls>>
    PROVE  Walked(s)'
<1>1. Target(s) \in Subs /\ pc[s] # "idle"
  BY TargetType DEF TypeOK, Walking
<1>2. /\ There(s, Target(s))' /\ \A d \in Subs \ {Target(s)} : There(s, d)' <=> There(s, d)
  <2>1. PICK c \in Subs : c = Target(s)
    BY <1>1
  <2>2. put' = [put EXCEPT ![c] = Append(@, Frame(s))] /\ UNCHANGED <<kind, calls>>
    BY <2>1 DEF PutOn
  <2>3. There(s, c)' /\ \A d \in Subs \ {c} : There(s, d)' <=> There(s, d)
    BY <1>1, <2>2, PutThere
  <2>4. Target(s)' = c
    BY <2>1 DEF Target
  <2>5. There(s, Target(s))'
    BY <2>3, <2>4 DEF There
  <2> QED BY <2>1, <2>3, <2>5
<1>3. Target(s)' = Target(s) /\ Matches(s)' /\ Passed(s)' = Passed(s)
  BY DEF Target, Matches, Passed
<1>4. \A i \in 1 .. Passed(s) : subs[i] \in Subs
  BY ListFacts DEF Walked, Passed
<1>5. ASSUME NEW i \in 1 .. Passed(s) PROVE Served(s, subs[i])'
  <2>1. CASE subs[i] = Target(s)
    BY <2>1, <1>2, <1>3 DEF Served, Matches
  <2>2. CASE subs[i] # Target(s)
    BY <2>2, <1>2, <1>4 DEF Walked, Served
  <2> QED BY <2>1, <2>2
<1> QED
  BY <1>2, <1>3, <1>5 DEF Walked

\* The steps of the sender itself.
LEMMA SenderWalked ==
    ASSUME TypeOK, OrderInv, NEW s \in Senders, Walked(s),
           SendInvalid(s) \/ SendCall(s) \/ SendStep(s)
    PROVE  Walked(s)'
<1>p. PCType /\ s \in Procs
  BY DEF TypeOK, Procs
<1>l. \A l \in SenderPCs : Goto(s, l) => pc'[s] = l
  BY <1>p, GotoSender
<1>m. /\ "idle" \in SenderPCs /\ "rlock" \in SenderPCs /\ "check" \in SenderPCs
      /\ "deliver" \in SenderPCs /\ "evict" \in SenderPCs /\ "refill" \in SenderPCs
      /\ "count" \in SenderPCs
  BY DEF SenderPCs
<1>h. AtTarget(s) => 1 \in DOMAIN todo[s] /\ todo[s][1] = Target(s) /\ Target(s) \in Subs
  <2>1. AtTarget(s) => todo[s] \in Seq(Subs) /\ todo[s] # <<>>
    BY DEF TypeOK, LocalType, AtTarget
  <2> QED BY <2>1, HeadTailProperties, LenProperties, EmptySeq DEF Target
<1>1. CASE SendInvalid(s)
  BY <1>1 DEF SendInvalid, Walked, Walking
<1>2. CASE SendCall(s) \/ SendLock(s) \/ SendRefused(s) \/ SendReturn(s)
  <2>1. pc'[s] \in {"rlock", "check", "idle"}
    BY <1>2, <1>l, <1>m DEF SendCall, SendLock, SendRefused, SendReturn
  <2> QED BY <2>1 DEF Walked, Walking
<1>3. CASE SendAccepted(s)
  <2>1. pc'[s] = "deliver" /\ todo'[s] = subs /\ subs' = subs
    BY <1>3, <1>l, <1>m DEF SendAccepted, TypeOK, LocalType
  <2>2. Len(subs) \in Nat /\ DOMAIN subs = 1 .. Len(subs)
    BY ListFacts
  <2>3. Passed(s)' = 0 /\ Len(todo'[s]) <= Len(subs')
    BY <2>1, <2>2 DEF Passed
  <2>4. \A j \in DOMAIN todo'[s] : todo'[s][j] = subs'[Passed(s)' + j]
    BY <2>1, <2>2, <2>3
  <2> QED BY <2>1, <2>3, <2>4 DEF Walked
<1>4. CASE SendSkip(s)
  <2>1. pc[s] = "deliver" /\ AtTarget(s) /\ ~Matches(s) /\ Advance(s)
        /\ UNCHANGED <<subs, put, kind, calls, pc>>
    BY <1>4 DEF SendSkip
  <2>2. Pending(s, Target(s)) /\ Target(s) \in Subs
    BY <2>1, <1>h DEF Pending
  <2>3. ~There(s, Target(s))
    BY <2>2, PendingNotThere
  <2>4. Served(s, Target(s))
    BY <2>1, <2>3 DEF Served, Matches
  <2> QED BY <2>1, <2>4, AdvanceWalked DEF Walking
<1>5. CASE SendDrop(s)
  <2>1. pc[s] = "deliver" /\ AtTarget(s) /\ Matches(s) /\ Advance(s)
        /\ Policy[Target(s)] = "DropNewest" /\ UNCHANGED <<subs, put, kind, calls, pc>>
    BY <1>5 DEF SendDrop, Discards
  <2>2. Served(s, Target(s))
    BY <2>1 DEF Served, Matches
  <2> QED BY <2>1, <2>2, AdvanceWalked DEF Walking
<1>6. CASE SendCount(s)
  <2>1. pc[s] = "count" /\ AtTarget(s) /\ Advance(s) /\ pc'[s] = "deliver"
        /\ UNCHANGED <<subs, put, kind, calls>>
    BY <1>6, <1>l, <1>m DEF SendCount, TypeOK, LocalType, AtTarget
  <2>2. Served(s, Target(s))
    BY <2>1 DEF Walked, Walking, Served, Matches
  <2> QED BY <2>1, <2>2, AdvanceWalked DEF Walking
<1>7. CASE SendPut(s)
  <2>1. pc[s] = "deliver" /\ AtTarget(s) /\ Matches(s) /\ pc'[s] = "count"
        /\ PutOn(Target(s), Frame(s)) /\ UNCHANGED <<subs, todo, kind, calls>>
    BY <1>7, <1>l, <1>m DEF SendPut
  <2> QED BY <2>1, PutWalked DEF Walking
<1>8. CASE SendRefill(s)
  <2>1. pc[s] = "refill" /\ AtTarget(s) /\ Matches(s) /\ pc'[s] = "count"
        /\ PutOn(Target(s), Frame(s)) /\ UNCHANGED <<subs, todo, kind, calls>>
    BY <1>8, <1>l, <1>m DEF SendRefill, OrderInv, TypeOK, LocalType, AtTarget
  <2> QED BY <2>1, PutWalked DEF Walking
<1>9. CASE SendFull(s) \/ SendEvict(s)
  <2>1. pc[s] \in Walking /\ pc'[s] \in {"evict", "refill"}
        /\ UNCHANGED <<subs, todo, put, kind, calls>>
    BY <1>9, <1>l, <1>m DEF SendFull, SendEvict, Walking
  <2> QED BY <2>1 DEF Walked, Served, There, Frame, Passed
<1> QED
  BY <1>1, <1>2, <1>3, <1>4, <1>5, <1>6, <1>7, <1>8, <1>9 DEF SendStep

-----------------------------------------------------------------------------
(* The theorem. *)

\* A step of one sender keeps the walks of the others.
LEMMA SendersWalked ==
    ASSUME TypeOK, OrderInv, WalkedInv, NEW s \in Senders,
           SendInvalid(s) \/ SendCall(s) \/ SendStep(s)
    PROVE  WalkedInv'
<1>1. Walked(s)'
  BY SenderWalked DEF WalkedInv
<1>2. ASSUME NEW t \in Senders \ {s} PROVE Walked(t)'
  <2>1. /\ subs' = subs /\ pc'[t] = pc[t] /\ todo'[t] = todo[t]
        /\ kind'[t] = kind[t] /\ calls'[t] = calls[t]
    BY DEF SendStep, SendInvalid, SendCall, SendLock, SendRefused, SendAccepted, SendSkip, SendPut,
           SendDrop, SendFull, SendEvict, SendRefill, SendCount, SendReturn, Goto, Advance,
           TypeOK, PCType, LocalType, Procs
  <2>2. \A c \in Subs : There(t, c)' <=> There(t, c)
    <3>1. CASE SendPut(s) \/ SendRefill(s)
      <4>1. /\ pc[s] # "idle" /\ UNCHANGED <<kind, calls>>
            /\ put' = [put EXCEPT ![Target(s)] = Append(@, Frame(s))]
        BY <3>1 DEF SendPut, SendRefill, PutOn
      <4>2. Target(s) \in Subs
        BY <3>1, TargetType DEF SendPut, SendRefill, TypeOK, LocalType, AtTarget
      <4> QED BY <4>1, <4>2, PutThere
    <3>2. CASE ~SendPut(s) /\ ~SendRefill(s)
      <4>1. put' = put
        BY <3>2 DEF SendStep, SendInvalid, SendCall, SendLock, SendRefused, SendAccepted,
                    SendSkip, SendDrop, SendFull, SendEvict, SendCount, SendReturn
      <4> QED BY <4>1, <2>1, SamePut
    <3> QED BY <3>1, <3>2
  <2> QED BY <2>1, <2>2, WalkedFrame DEF WalkedInv
<1> QED BY <1>1, <1>2 DEF WalkedInv

\* A step of anyone else leaves every sender alone, and the list too unless nobody
\* walks over it.
LEMMA OthersWalked ==
    ASSUME TypeOK, SafetyInv, WalkedInv, UNCHANGED <<put, kind, calls>>,
           \A s \in Senders : pc'[s] = pc[s] /\ todo'[s] = todo[s],
           subs' = subs \/ readers = {}
    PROVE  WalkedInv'
<1> SUFFICES ASSUME NEW s \in Senders, pc[s] \in Walking PROVE Walked(s)'
  BY DEF WalkedInv, Walked
<1>1. subs' = subs
  BY DEF SafetyInv, LockInv
<1> QED BY <1>1, SamePut, WalkedFrame DEF WalkedInv

\* Every step keeps the walks.
LEMMA NextWalked == TypeOK /\ SafetyInv /\ OrderInv /\ WalkedInv /\ [Next]_vars => WalkedInv'
<1> SUFFICES ASSUME TypeOK, SafetyInv, OrderInv, WalkedInv, [Next]_vars PROVE WalkedInv'
  OBVIOUS
<1>p. /\ \A c \in Subs, s \in Senders : s \in Procs \ {c}
      /\ \A k \in Closers, s \in Senders : s \in Procs \ {k} /\ s # k
  BY ProcsAssumption DEF Procs
<1>c. PCType
  BY DEF TypeOK
<1>1. ASSUME NEW s \in Senders, SendInvalid(s) \/ SendCall(s) \/ SendStep(s)
      PROVE  WalkedInv'
  BY <1>1, SendersWalked
<1>2. ASSUME NEW c \in Subs, SubscribeCall(c) \/ SubscribeStep(c) \/ ConsumeStep(c)
      PROVE  WalkedInv'
  <2>1. UNCHANGED <<put, calls, kind, todo>> /\ (subs' = subs \/ readers = {})
    BY <1>2 DEF SubscribeCall, SubscribeStep, ConsumeStep, SubscribeRefused, Subscribe,
                Receive, ReceiveEOF, Exclusive
  <2>2. pc' = pc \/ \E l \in SubPCs : Goto(c, l)
    BY <1>2 DEF SubscribeCall, SubscribeStep, ConsumeStep, SubscribeRefused, Subscribe,
                Receive, ReceiveEOF, SubPCs
  <2>3. \A s \in Senders : pc'[s] = pc[s]
    BY <1>c, <1>p, <2>2, GotoSub
  <2> QED
    BY <2>1, <2>3, OthersWalked
<1>3. ASSUME NEW k \in Closers,
             CloseCall(k) \/ DrainCall(k) \/ DrainGiveUp(k) \/ DrainStep(k) \/ CloseStep(k)
      PROVE  WalkedInv'
  <2>1. UNCHANGED <<put, calls, kind>> /\ \A s \in Senders : todo'[s] = todo[s]
    BY <1>3, <1>p DEF CloseCall, DrainCall, DrainGiveUp, DrainStep, CloseStep, DrainTick,
          ScanLock, ScanEmpty, ScanPending, ScanDrained, CloseLock, Close, Advance,
          TypeOK, LocalType
  <2>2. subs' = subs \/ readers = {}
    BY <1>3 DEF CloseCall, DrainCall, DrainGiveUp, DrainStep, CloseStep, DrainTick,
          ScanLock, ScanEmpty, ScanPending, ScanDrained, CloseLock, Close, Exclusive
  <2>3. pc' = pc \/ \E l \in CloserPCs : Goto(k, l)
    BY <1>3 DEF CloseCall, DrainCall, DrainGiveUp, DrainStep, CloseStep, DrainTick,
          ScanLock, ScanEmpty, ScanPending, ScanDrained, CloseLock, Close, CloserPCs
  <2>4. \A s \in Senders : pc'[s] = pc[s]
    BY <1>c, <1>p, <2>3, GotoCloser
  <2> QED
    BY <2>1, <2>2, <2>4, OthersWalked
<1>4. ASSUME NEW p \in Impatient, CtxCancel(p)
      PROVE  WalkedInv'
  BY <1>4, OthersWalked DEF CtxCancel
<1>5. CASE AllDone \/ UNCHANGED vars
  <2>1. UNCHANGED vars
    BY <1>5 DEF AllDone
  <2> QED
    BY <2>1, OthersWalked DEF vars
<1> QED
  BY <1>1, <1>2, <1>3, <1>4, <1>5 DEF Next

\* Nobody walks at the start.
LEMMA InitWalked == Init => WalkedInv
<1> SUFFICES ASSUME Init PROVE WalkedInv
  OBVIOUS
<1>1. \A s \in Senders : pc[s] = "idle"
  BY ProcsAssumption DEF Init, Procs
<1> QED
  BY <1>1 DEF WalkedInv, Walked, Walking

\* A sender that has passed a subscription has put its frame there exactly if the
\* filters accept it, but for frames that DropNewest discards, whatever other senders,
\* consumers and closers do meanwhile (virtual/bus.go:95-123).
THEOREM WalkIsRight == Spec => []WalkDelivers
<1>1. WalkedInv => WalkDelivers
  BY DEF WalkedInv, Walked, WalkDelivers, Walking, Passed, Served, There
<1>2. Spec => []WalkedInv
  BY InitWalked, NextWalked, OrderInvariant, PTL DEF Spec
<1> QED
  BY <1>1, <1>2, PTL

-----------------------------------------------------------------------------
(* The metrics: every frame put on a channel is counted, and is found again. *)

\* What makes DeliveriesAccounted inductive: the sets it counts are finite.
AccountInv == IsFiniteSet(Uncounted) /\ IsFiniteSet(Deliveries) /\ DeliveriesAccounted

\* The channels of a bus, as long as nobody touches them.
LEMMA StreamIs ==
    ASSUME TypeOK, NEW c \in Subs
    PROVE  /\ chan[c] \in Seq(Frames) /\ got[c] \in Seq(Frames) /\ put[c] \in Seq(Frames)
           /\ Len(chan[c]) \in Nat /\ Len(got[c]) \in Nat /\ Len(put[c]) \in Nat
           /\ DOMAIN put[c] = 1 .. Len(put[c]) /\ evicted[c] \in Nat
           /\ Len(Stream(c)) = Len(got[c]) + Len(chan[c])
<1>1. /\ chan[c] \in Seq(Frames) /\ got[c] \in Seq(Frames) /\ put[c] \in Seq(Frames)
      /\ evicted[c] \in Nat
  BY DEF TypeOK, ChanType, HistoryType
<1> QED BY <1>1, LenProperties, ConcatProperties DEF Stream

\* A goroutine that comes from, and goes to, anywhere but its counter.
LEMMA SameUncounted ==
    ASSUME TypeOK, NEW p \in Procs, NEW l, Goto(p, l), pc[p] # "count", l # "count"
    PROVE  Uncounted' = Uncounted
BY DEF Goto, Uncounted, TypeOK, PCType

\* The sum is the same when neither counters nor channels change.
LEMMA SameAccount ==
    ASSUME AccountInv, UNCHANGED <<chan, deliverCount, history>>, Uncounted' = Uncounted
    PROVE  AccountInv'
<1>1. Deliveries' = Deliveries /\ \A c \in Subs : Stream(c)' = Stream(c)
  BY DEF Deliveries, Stream
<1> QED BY <1>1 DEF AccountInv, DeliveriesAccounted

\* Nor when a sender, a subscriber or a closer does something else.
LEMMA ElsewhereAccount ==
    ASSUME TypeOK, AccountInv, UNCHANGED <<chan, deliverCount, history>>,
           \/ pc' = pc
           \/ \E p \in Procs : pc[p] # "count" /\ \E l : l # "count" /\ Goto(p, l)
    PROVE  AccountInv'
<1>1. Uncounted' = Uncounted
  <2>1. CASE pc' = pc
    BY <2>1 DEF Uncounted
  <2>2. CASE \E p \in Procs : pc[p] # "count" /\ \E l : l # "count" /\ Goto(p, l)
    BY <2>2, SameUncounted
  <2> QED BY <2>1, <2>2
<1> QED BY <1>1, SameAccount

\* Sums of what is read, there and evicted.
LEMMA Sums ==
    ASSUME NEW g \in Nat, NEW n \in Nat, NEW e \in Nat
    PROVE  /\ (g + (n + 1)) + e = (g + n + e) + 1
           /\ g + (n - 1) + (e + 1) = g + n + e
           /\ (g + 1) + (n - 1) + e = g + n + e
OBVIOUS

\* A frame is put on a channel: it is not counted yet.
LEMMA PutAccount ==
    ASSUME TypeOK, AccountInv, NEW s \in Senders, SendPut(s) \/ SendRefill(s)
    PROVE  AccountInv'
<1> DEFINE c == Target(s)
<1>1. s \in Procs /\ pc[s] \in {"deliver", "refill"} /\ AtTarget(s)
  BY DEF SendPut, SendRefill, TypeOK, LocalType, AtTarget, Procs
<1>2. c \in Subs /\ Frame(s) \in Frames
  BY <1>1, TargetType, FrameType DEF TypeOK
<1>3. /\ chan' = [chan EXCEPT ![c] = Append(@, Frame(s))]
      /\ put' = [put EXCEPT ![c] = Append(@, Frame(s))]
      /\ UNCHANGED <<got, evicted, deliverCount>> /\ Goto(s, "count")
  BY DEF SendPut, SendRefill, PutOn
<1>4. \A d \in Subs : chan[d] \in Seq(Frames) /\ put[d] \in Seq(Frames) /\ Len(put[d]) \in Nat
  BY StreamIs
<1> HIDE DEF c
<1>5. /\ Len(put'[c]) = Len(put[c]) + 1 /\ DOMAIN put'[c] = 1 .. Len(put[c]) + 1
      /\ Len(chan'[c]) = Len(chan[c]) + 1 /\ chan'[c] \in Seq(Frames)
      /\ DOMAIN put[c] = 1 .. Len(put[c])
      /\ \A d \in Subs \ {c} : put'[d] = put[d] /\ chan'[d] = chan[d]
  <2>1. /\ Len(Append(put[c], Frame(s))) = Len(put[c]) + 1
        /\ Len(Append(chan[c], Frame(s))) = Len(chan[c]) + 1
        /\ Append(put[c], Frame(s)) \in Seq(Frames) /\ Append(chan[c], Frame(s)) \in Seq(Frames)
    BY <1>2, <1>4, AppendProperties
  <2>2. put'[c] = Append(put[c], Frame(s)) /\ chan'[c] = Append(chan[c], Frame(s))
    BY <1>2, <1>3 DEF TypeOK, ChanType, HistoryType
  <2>3. DOMAIN put'[c] = 1 .. Len(put'[c]) /\ DOMAIN put[c] = 1 .. Len(put[c])
    BY <1>2, <1>4, <2>1, <2>2, LenProperties
  <2> QED BY <1>3, <2>1, <2>2, <2>3 DEF TypeOK, ChanType, HistoryType
<1> DEFINE new == <<c, Len(put[c]) + 1>>
<1>6. Deliveries' = Deliveries \cup {new} /\ new \notin Deliveries
  <2>1. \A d \in Subs : {d} \X DOMAIN put'[d] =
            ({d} \X DOMAIN put[d]) \cup (IF d = c THEN {new} ELSE {})
    <3>1. 1 .. Len(put[c]) + 1 = (1 .. Len(put[c])) \cup {Len(put[c]) + 1}
      BY <1>2, <1>4
    <3> QED BY <1>5, <3>1
  <2>2. Deliveries' = Deliveries \cup {new}
    BY <1>2, <2>1 DEF Deliveries
  <2>3. Len(put[c]) + 1 \notin DOMAIN put[c]
    BY <1>2, <1>4, <1>5
  <2>4. new \notin Deliveries
    BY <2>3 DEF Deliveries
  <2> QED BY <2>2, <2>4
<1>7. Uncounted' = Uncounted \cup {s} /\ s \notin Uncounted
  BY <1>1, <1>3 DEF Uncounted, Goto, TypeOK, PCType
<1> HIDE DEF new
<1>8. /\ IsFiniteSet(Deliveries') /\ Cardinality(Deliveries') = Cardinality(Deliveries) + 1
      /\ IsFiniteSet(Uncounted') /\ Cardinality(Uncounted') = Cardinality(Uncounted) + 1
  BY <1>6, <1>7, FS_AddElement DEF AccountInv
<1>9. deliverCount' + Cardinality(Uncounted') = Cardinality(Deliveries')
  <2>1. deliverCount \in Nat /\ Cardinality(Uncounted) \in Nat
    BY FS_CardinalityType DEF TypeOK, CountType, AccountInv
  <2>2. deliverCount + Cardinality(Uncounted) = Cardinality(Deliveries)
    BY DEF AccountInv, DeliveriesAccounted
  <2> QED BY <1>3, <1>8, <2>1, <2>2
<1>10. \A d \in Subs : Len(put'[d]) = Len(Stream(d)') + evicted'[d]
  <2> TAKE d \in Subs
  <2>1. /\ Len(put[d]) = Len(Stream(d)) + evicted[d] /\ Len(Stream(d)) = Len(got[d]) + Len(chan[d])
        /\ Len(got[d]) \in Nat /\ Len(chan[d]) \in Nat /\ evicted[d] \in Nat
        /\ got[d] \in Seq(Frames)
    BY StreamIs DEF AccountInv, DeliveriesAccounted
  <2>2. chan'[d] \in Seq(Frames) /\ got'[d] = got[d] /\ evicted'[d] = evicted[d]
    BY <1>3, <1>4, <1>5
  <2>3. Len(Stream(d)') = Len(got[d]) + Len(chan'[d])
    BY <2>1, <2>2, ConcatProperties DEF Stream
  <2>4. CASE d = c
    <3>1. Len(put'[d]) = Len(put[d]) + 1 /\ Len(chan'[d]) = Len(chan[d]) + 1
      BY <1>5, <2>4
    <3>6. Len(got[d]) \in Nat /\ Len(chan[d]) \in Nat /\ evicted[d] \in Nat
      BY <2>1
    <3>2. (Len(got[d]) + (Len(chan[d]) + 1)) + evicted[d] = (Len(got[d]) + Len(chan[d]) + evicted[d]) + 1
      BY <3>6, Sums
    <3>3. Len(Stream(d)') = Len(got[d]) + (Len(chan[d]) + 1)
      BY <2>3, <3>1
    <3>4. Len(put[d]) = Len(got[d]) + Len(chan[d]) + evicted[d]
      BY <2>1
    <3>5. Len(Stream(d)') + evicted'[d] = (Len(got[d]) + (Len(chan[d]) + 1)) + evicted[d]
      BY <2>2, <3>3
    <3> QED BY <3>1, <3>2, <3>4, <3>5
  <2>5. CASE d # c
    BY <1>5, <2>1, <2>2, <2>3, <2>5
  <2> QED BY <2>4, <2>5
<1> QED BY <1>8, <1>9, <1>10 DEF AccountInv, DeliveriesAccounted

\* It is counted.
LEMMA CountAccount ==
    ASSUME TypeOK, AccountInv, NEW s \in Senders, SendCount(s)
    PROVE  AccountInv'
<1>1. /\ pc[s] = "count" /\ Goto(s, "deliver") /\ deliverCount' = deliverCount + 1
      /\ UNCHANGED <<chan, history>>
  BY DEF SendCount, CountDelivery
<1>2. Uncounted' = Uncounted \ {s} /\ s \in Uncounted
  <2>1. pc'[s] = "deliver" /\ \A t \in Senders \ {s} : pc'[t] = pc[t]
    BY <1>1 DEF Goto, TypeOK, PCType, Procs
  <2> QED BY <1>1, <2>1 DEF Uncounted
<1>3. IsFiniteSet(Uncounted') /\ Cardinality(Uncounted') = Cardinality(Uncounted) - 1
  BY <1>2, FS_RemoveElement DEF AccountInv
<1>4. Deliveries' = Deliveries /\ \A c \in Subs : Stream(c)' = Stream(c)
  BY <1>1 DEF Deliveries, Stream
<1>5. deliverCount \in Nat /\ Cardinality(Uncounted) \in Nat
  BY FS_CardinalityType DEF TypeOK, CountType, AccountInv
<1>6. deliverCount' + Cardinality(Uncounted') = deliverCount + Cardinality(Uncounted)
  BY <1>1, <1>3, <1>5
<1> QED BY <1>1, <1>3, <1>4, <1>6 DEF AccountInv, DeliveriesAccounted

\* A frame leaves its channel, thrown out or read: it is found among those.
LEMMA TakeAccount ==
    ASSUME TypeOK, AccountInv, NEW c \in Subs, chan[c] # <<>>, Uncounted' = Uncounted,
           chan' = [chan EXCEPT ![c] = Tail(@)], UNCHANGED <<deliverCount, put>>,
           \/ evicted' = [evicted EXCEPT ![c] = @ + 1] /\ got' = got
           \/ evicted' = evicted /\ got' = [got EXCEPT ![c] = Append(@, Head(chan[c]))]
    PROVE  AccountInv'
<1>1. Deliveries' = Deliveries
  BY DEF Deliveries
<1>2. \A d \in Subs : /\ chan[d] \in Seq(Frames) /\ got[d] \in Seq(Frames)
                      /\ Len(chan[d]) \in Nat /\ Len(got[d]) \in Nat /\ evicted[d] \in Nat
                      /\ Len(Stream(d)) = Len(got[d]) + Len(chan[d])
                      /\ Len(put[d]) = Len(Stream(d)) + evicted[d]
  BY StreamIs DEF AccountInv, DeliveriesAccounted
<1>3. /\ Tail(chan[c]) \in Seq(Frames) /\ Head(chan[c]) \in Frames
      /\ Len(Tail(chan[c])) = Len(chan[c]) - 1
      /\ Append(got[c], Head(chan[c])) \in Seq(Frames)
      /\ Len(Append(got[c], Head(chan[c]))) = Len(got[c]) + 1
  <2>1. /\ Tail(chan[c]) \in Seq(Frames) /\ Head(chan[c]) \in Frames
        /\ Len(Tail(chan[c])) = Len(chan[c]) - 1
    BY <1>2, HeadTailProperties
  <2>2. got[c] \in Seq(Frames)
    BY <1>2
  <2> QED BY <2>1, <2>2, AppendProperties
<1>4. chan'[c] = Tail(chan[c]) /\ \A d \in Subs \ {c} : chan'[d] = chan[d]
  BY DEF TypeOK, ChanType
<1>5. /\ \A d \in Subs \ {c} : got'[d] = got[d] /\ evicted'[d] = evicted[d]
      /\ \/ evicted'[c] = evicted[c] + 1 /\ got'[c] = got[c]
         \/ evicted'[c] = evicted[c] /\ got'[c] = Append(got[c], Head(chan[c]))
  BY DEF TypeOK, HistoryType
<1>6. \A d \in Subs : /\ chan'[d] \in Seq(Frames) /\ got'[d] \in Seq(Frames)
                      /\ Len(got'[d]) + Len(chan'[d]) + evicted'[d] = Len(put[d])
  <2>1. chan'[c] \in Seq(Frames) /\ got'[c] \in Seq(Frames)
    BY <1>2, <1>3, <1>4, <1>5
  <2>2. Len(got'[c]) + Len(chan'[c]) + evicted'[c] = Len(put[c])
    <3>1. /\ Len(put[c]) = Len(got[c]) + Len(chan[c]) + evicted[c] /\ Len(got[c]) \in Nat
          /\ Len(chan[c]) \in Nat /\ evicted[c] \in Nat
      BY <1>2
    <3>2. Len(chan'[c]) = Len(chan[c]) - 1
      BY <1>3, <1>4
    <3>3. \/ evicted'[c] = evicted[c] + 1 /\ Len(got'[c]) = Len(got[c])
          \/ evicted'[c] = evicted[c] /\ Len(got'[c]) = Len(got[c]) + 1
      BY <1>3, <1>5
    <3>5. Len(got[c]) \in Nat /\ Len(chan[c]) \in Nat /\ evicted[c] \in Nat
      BY <3>1
    <3>4. Len(got'[c]) + Len(chan'[c]) + evicted'[c] = Len(got[c]) + Len(chan[c]) + evicted[c]
      <4>1. /\ Len(got[c]) + (Len(chan[c]) - 1) + (evicted[c] + 1) = Len(got[c]) + Len(chan[c]) + evicted[c]
            /\ (Len(got[c]) + 1) + (Len(chan[c]) - 1) + evicted[c] = Len(got[c]) + Len(chan[c]) + evicted[c]
        <5>1. PICK g \in Nat, n \in Nat, e \in Nat : g = Len(got[c]) /\ n = Len(chan[c]) /\ e = evicted[c]
          BY <3>5
        <5>2. g + (n - 1) + (e + 1) = g + n + e /\ (g + 1) + (n - 1) + e = g + n + e
          BY Sums
        <5> QED BY <5>1, <5>2
      <4>2. CASE evicted'[c] = evicted[c] + 1 /\ Len(got'[c]) = Len(got[c])
        BY <3>2, <4>1, <4>2
      <4>3. CASE evicted'[c] = evicted[c] /\ Len(got'[c]) = Len(got[c]) + 1
        BY <3>2, <4>1, <4>3
      <4> QED BY <3>3, <4>2, <4>3
    <3> QED BY <3>1, <3>4
  <2>3. \A d \in Subs \ {c} : Len(got'[d]) + Len(chan'[d]) + evicted'[d] = Len(put[d])
    BY <1>2, <1>4, <1>5
  <2> QED BY <1>2, <1>4, <1>5, <2>1, <2>2, <2>3
<1>7. \A d \in Subs : Len(put'[d]) = Len(Stream(d)') + evicted'[d]
  <2> TAKE d \in Subs
  <2>1. Len(got'[d] \o chan'[d]) = Len(got'[d]) + Len(chan'[d])
    BY <1>6, ConcatProperties
  <2>2. Stream(d)' = got'[d] \o chan'[d] /\ put'[d] = put[d]
    BY DEF Stream
  <2>3. Len(got'[d]) + Len(chan'[d]) + evicted'[d] = Len(put[d])
    BY <1>6
  <2> QED BY <2>1, <2>2, <2>3
<1> QED BY <1>1, <1>7 DEF AccountInv, DeliveriesAccounted

\* AccountInv after any step.
LEMMA NextAccount == TypeOK /\ AccountInv /\ [Next]_vars => AccountInv'
<1> SUFFICES ASSUME TypeOK, AccountInv, [Next]_vars PROVE AccountInv'
  OBVIOUS
<1>1. ASSUME NEW s \in Senders, SendInvalid(s) \/ SendCall(s) \/ SendStep(s)
      PROVE  AccountInv'
  <2>1. CASE SendPut(s) \/ SendRefill(s)
    BY <2>1, PutAccount
  <2>2. CASE SendCount(s)
    BY <2>2, CountAccount
  <2>3. CASE SendEvict(s)
    <3>1. s \in Procs /\ AtTarget(s) /\ Target(s) \in Subs
      BY <2>3, TargetType DEF SendEvict, TypeOK, LocalType, AtTarget, Procs
    <3>2. Uncounted' = Uncounted
      BY <2>3, <3>1, SameUncounted DEF SendEvict
    <3> QED BY <2>3, <3>1, <3>2, TakeAccount DEF SendEvict
  <2>4. CASE \/ SendInvalid(s) \/ SendCall(s) \/ SendLock(s) \/ SendRefused(s) \/ SendAccepted(s)
             \/ SendSkip(s) \/ SendDrop(s) \/ SendFull(s) \/ SendReturn(s)
    <3>1. UNCHANGED <<chan, deliverCount, history>>
      BY <2>4 DEF SendInvalid, SendCall, SendLock, SendRefused, SendAccepted, SendSkip, SendDrop,
                  CountDrop, SendFull, SendReturn
    <3>2. s \in Procs /\ (pc' = pc \/ (pc[s] # "count" /\ \E l : l # "count" /\ Goto(s, l)))
      BY <2>4 DEF SendInvalid, SendCall, SendLock, SendRefused, SendAccepted, SendSkip, SendDrop,
                  SendFull, SendReturn, Procs
    <3> QED BY <3>1, <3>2, ElsewhereAccount
  <2> QED BY <1>1, <2>1, <2>2, <2>3, <2>4 DEF SendStep
<1>2. ASSUME NEW c \in Subs, SubscribeCall(c) \/ SubscribeStep(c) \/ ConsumeStep(c)
      PROVE  AccountInv'
  <2>1. CASE Receive(c)
    <3>1. Uncounted' = Uncounted
      BY <2>1 DEF Receive, Uncounted
    <3> QED BY <2>1, <3>1, TakeAccount DEF Receive
  <2>2. CASE SubscribeCall(c) \/ SubscribeStep(c) \/ ReceiveEOF(c)
    <3>1. UNCHANGED <<chan, deliverCount, history>> /\ c \in Procs
      BY <2>2 DEF SubscribeCall, SubscribeStep, SubscribeRefused, Subscribe, ReceiveEOF, Procs
    <3>2. pc[c] # "count" /\ \E l : l # "count" /\ Goto(c, l)
      BY <2>2 DEF SubscribeCall, SubscribeStep, SubscribeRefused, Subscribe, ReceiveEOF
    <3> QED BY <3>1, <3>2, ElsewhereAccount
  <2> QED BY <1>2, <2>1, <2>2 DEF ConsumeStep
<1>3. ASSUME NEW k \in Closers,
             CloseCall(k) \/ DrainCall(k) \/ DrainGiveUp(k) \/ DrainStep(k) \/ CloseStep(k)
      PROVE  AccountInv'
  <2>1. UNCHANGED <<chan, deliverCount, history>> /\ k \in Procs
    BY <1>3 DEF CloseCall, DrainCall, DrainGiveUp, DrainStep, DrainTick, ScanLock, ScanEmpty,
                ScanPending, ScanDrained, CloseStep, CloseLock, Close, Procs
  <2>2. pc' = pc \/ (pc[k] # "count" /\ \E l : l # "count" /\ Goto(k, l))
    BY <1>3 DEF CloseCall, DrainCall, DrainGiveUp, DrainStep, DrainTick, ScanLock, ScanEmpty,
                ScanPending, ScanDrained, CloseStep, CloseLock, Close
  <2> QED BY <2>1, <2>2, ElsewhereAccount
<1>4. ASSUME NEW p \in Impatient, CtxCancel(p)
      PROVE  AccountInv'
  BY <1>4, ElsewhereAccount DEF CtxCancel
<1>5. CASE AllDone \/ UNCHANGED vars
  BY <1>5, ElsewhereAccount DEF AllDone, vars
<1> QED BY <1>1, <1>2, <1>3, <1>4, <1>5 DEF Next

\* Nothing has been put on a channel at the start.
LEMMA InitAccount == Init => AccountInv
<1> SUFFICES ASSUME Init PROVE AccountInv
  OBVIOUS
<1>1. Uncounted = {}
  BY DEF Init, Uncounted, Procs
<1>2. /\ deliverCount = 0
      /\ \A c \in Subs : put[c] = <<>> /\ got[c] = <<>> /\ chan[c] = <<>> /\ evicted[c] = 0
  BY DEF Init
<1>3. Deliveries = {}
  BY <1>2 DEF Deliveries
<1>4. \A c \in Subs : Len(Stream(c)) = 0 /\ Len(put[c]) = 0
  <2>1. <<>> \in Seq(Frames) /\ Len(<<>>) = 0
    OBVIOUS
  <2>2. Len(<<>> \o <<>>) = Len(<<>>) + Len(<<>>)
    BY <2>1, ConcatProperties
  <2>3. Len(<<>> \o <<>>) = 0
    BY <2>1, <2>2
  <2> QED BY <1>2, <2>1, <2>3 DEF Stream
<1> QED BY <1>1, <1>2, <1>3, <1>4, FS_EmptySet DEF AccountInv, DeliveriesAccounted

\* DeliveriesAccounted: at any time the delivery counter, with the senders that are between
\* their channel send and their counter, is the number of frames ever put on a channel, and
\* each of these is read, still there or evicted - for any number of senders and channels.
THEOREM CountersAddUp == Spec => []DeliveriesAccounted
<1>1. Init => TypeOK /\ AccountInv
  BY InitType, InitAccount
<1>2. (TypeOK /\ AccountInv) /\ [Next]_vars => (TypeOK /\ AccountInv)'
  BY NextType, NextAccount
<1>3. AccountInv => DeliveriesAccounted
  BY DEF AccountInv
<1> QED BY <1>1, <1>2, <1>3, PTL DEF Spec

-----------------------------------------------------------------------------
(* Who waits for whom.  Every wait of the bus is one of three, read off the   *)
(* guards of its steps: for b.mu, for room in a channel, for a frame in one.  *)

\* p holds the read lock by where it is: in Send's walk, or in allDrained's scan.
Within(p) == \/ p \in Senders /\ pc[p] \in Walking \cup {"check"}
             \/ p \in Closers /\ pc[p] = "scan"

\* b.mu is read-held by those who are within and nobody else, its writer is the one that is
\* at Lock, and room is only made in channels whose policy is DropOldest.
HolderInv ==
    /\ \A p \in Procs : p \in readers <=> Within(p)
    /\ \A p \in Procs : writer = p <=> pc[p] = "lock"
    /\ \A s \in Senders : pc[s] \in {"evict", "refill"} => Displaces(Target(s))

\* p waits for b.mu: behind an announced writer, or as that writer for the readers to leave.
Barred(p) == \/ pc[p] \in {"rlock", "new", "closing"} /\ writer # NoProc
             \/ pc[p] = "lock" /\ readers # {}

\* s waits, with the read lock, for room: in a channel with the policy Block, or in one it
\* has made room in before another sender took it ...
AwaitsRoom(s) ==
    \/ /\ pc[s] = "deliver" /\ AtTarget(s) /\ Matches(s) /\ Full(Target(s))
       /\ ~Discards(Target(s)) /\ ~Displaces(Target(s))
    \/ pc[s] = "refill" /\ Full(Target(s))

\* ... or for a frame to throw out of a channel that was full when it looked.
AwaitsFrame(s) == pc[s] = "evict" /\ chan[Target(s)] = <<>>

\* Nobody waits in a circle: behind a wait for b.mu is a holder who does not wait for it;
\* behind a wait for room a consumer that is in its loop and has a frame to read; and a
\* wait for a frame is one on an open channel with the policy DropOldest.
WaitsExplained ==
    /\ \A p \in Procs : Barred(p) =>
          \E h \in Procs : (h \in readers \/ (readers = {} /\ writer = h)) /\ ~Barred(h)
    /\ \A s \in Senders : AwaitsRoom(s) =>
          pc[Target(s)] = "reading" /\ chan[Target(s)] # <<>>
    /\ \A s \in Senders : AwaitsFrame(s) =>
          pc[Target(s)] = "reading" /\ open[Target(s)] /\ Displaces(Target(s))

\* A step of p that leaves the other goroutines where they are keeps HolderInv, if p takes
\* and leaves the lock with its label.
LEMMA HolderFrame ==
    ASSUME HolderInv, NEW p \in Procs,
           \A q \in Procs \ {p} : pc'[q] = pc[q] /\ (q \in readers' <=> q \in readers),
           \A s \in Senders \ {p} : todo'[s] = todo[s],
           p \in readers' <=> Within(p)',
           \/ writer' = writer /\ (pc[p] = "lock" <=> pc'[p] = "lock")
           \/ writer = NoProc /\ writer' = p /\ pc'[p] = "lock"
           \/ writer = p /\ writer' = NoProc /\ pc'[p] # "lock",
           p \in Senders /\ pc'[p] \in {"evict", "refill"} => Displaces(Head(todo'[p]))
    PROVE  HolderInv'
<1>1. ASSUME NEW q \in Procs PROVE q \in readers' <=> Within(q)'
  <2>1. CASE q = p
    BY <2>1
  <2>2. CASE q # p
    BY <2>2 DEF HolderInv, Within
  <2> QED BY <2>1, <2>2
<1>2. ASSUME NEW q \in Procs PROVE writer' = q <=> pc'[q] = "lock"
  <2>1. NoProc \notin Procs
    BY ProcsAssumption
  <2>2. CASE q = p
    BY <2>1, <2>2 DEF HolderInv
  <2>3. CASE q # p
    BY <2>1, <2>3 DEF HolderInv
  <2> QED BY <2>2, <2>3
<1>3. ASSUME NEW s \in Senders, pc'[s] \in {"evict", "refill"} PROVE Displaces(Target(s)')
  <2>1. s \in Procs
    BY DEF Procs
  <2>2. CASE s = p
    BY <1>3, <2>2 DEF Target
  <2>3. CASE s # p
    BY <1>3, <2>1, <2>3 DEF HolderInv, Target
  <2> QED BY <2>2, <2>3
<1> QED BY <1>1, <1>2, <1>3 DEF HolderInv, Displaces, Target

\* One step of a sender keeps HolderInv.
LEMMA SenderHolds ==
    ASSUME TypeOK, HolderInv, NEW s \in Senders, SendInvalid(s) \/ SendCall(s) \/ SendStep(s)
    PROVE  HolderInv'
<1>p. s \in Procs /\ s \notin Closers /\ PCType /\ todo \in [Senders \cup Closers -> Seq(Subs)]
  BY ProcsAssumption DEF Procs, TypeOK, LocalType
<1>l. /\ "idle" \in SenderPCs /\ "rlock" \in SenderPCs /\ "check" \in SenderPCs
      /\ "deliver" \in SenderPCs /\ "evict" \in SenderPCs /\ "refill" \in SenderPCs
      /\ "count" \in SenderPCs
  BY DEF SenderPCs
<1>h. s \in readers <=> Within(s)
  BY <1>p DEF HolderInv
<1>1. CASE SendInvalid(s) \/ SendSkip(s) \/ SendDrop(s)
  <2>1. UNCHANGED <<pc, readers, writer>> /\ pc[s] \in {"idle", "deliver"}
    BY <1>1 DEF SendInvalid, SendSkip, SendDrop
  <2>2. \A t \in Senders \ {s} : todo'[t] = todo[t]
    BY <1>1, <1>p DEF SendInvalid, SendSkip, SendDrop, Advance
  <2>3. s \in readers' <=> Within(s)'
    BY <1>h, <2>1 DEF Within
  <2> QED BY <1>p, <2>1, <2>2, <2>3, HolderFrame
<1>2. CASE SendCall(s)
  <2>1. pc[s] = "idle" /\ pc'[s] = "rlock" /\ \A p \in Procs \ {s} : pc'[p] = pc[p]
    BY <1>2, <1>p, <1>l, GotoSender DEF SendCall
  <2>2. UNCHANGED <<readers, writer, todo>>
    BY <1>2 DEF SendCall
  <2>3. s \in readers' <=> Within(s)'
    BY <1>p, <1>h, <2>1, <2>2 DEF Within, Walking
  <2> QED BY <1>p, <2>1, <2>2, <2>3, HolderFrame
<1>3. CASE SendLock(s)
  <2>1. pc[s] = "rlock" /\ pc'[s] = "check" /\ \A p \in Procs \ {s} : pc'[p] = pc[p]
    BY <1>3, <1>p, <1>l, GotoSender DEF SendLock
  <2>2. UNCHANGED <<writer, todo>> /\ readers' = readers \cup {s}
    BY <1>3 DEF SendLock, RLock
  <2>3. s \in readers' <=> Within(s)'
    BY <1>p, <2>1, <2>2 DEF Within
  <2> QED BY <1>p, <2>1, <2>2, <2>3, HolderFrame
<1>4. CASE SendRefused(s) \/ SendReturn(s)
  <2>1. pc[s] \in {"check", "deliver"} /\ pc'[s] = "idle" /\ \A p \in Procs \ {s} : pc'[p] = pc[p]
    BY <1>4, <1>p, <1>l, GotoSender DEF SendRefused, SendReturn
  <2>2. UNCHANGED <<writer, todo>> /\ readers' = readers \ {s}
    BY <1>4 DEF SendRefused, SendReturn, RUnlock
  <2>3. s \in readers' <=> Within(s)'
    BY <1>p, <2>1, <2>2 DEF Within, Walking
  <2> QED BY <1>p, <2>1, <2>2, <2>3, HolderFrame
<1>5. CASE SendAccepted(s) \/ SendCount(s)
  <2>1. /\ pc[s] \in {"check", "count"} /\ pc'[s] = "deliver"
        /\ \A p \in Procs \ {s} : pc'[p] = pc[p]
    BY <1>5, <1>p, <1>l, GotoSender DEF SendAccepted, SendCount
  <2>2. UNCHANGED <<readers, writer>> /\ \A t \in Senders \ {s} : todo'[t] = todo[t]
    BY <1>5, <1>p DEF SendAccepted, SendCount, Advance
  <2>3. s \in readers' <=> Within(s)'
    BY <1>h, <1>p, <2>1, <2>2 DEF Within, Walking
  <2> QED BY <1>p, <2>1, <2>2, <2>3, HolderFrame
<1>6. CASE SendPut(s) \/ SendRefill(s)
  <2>1. /\ pc[s] \in {"deliver", "refill"} /\ pc'[s] = "count"
        /\ \A p \in Procs \ {s} : pc'[p] = pc[p]
    BY <1>6, <1>p, <1>l, GotoSender DEF SendPut, SendRefill
  <2>2. UNCHANGED <<readers, writer, todo>>
    BY <1>6 DEF SendPut, SendRefill
  <2>3. s \in readers' <=> Within(s)'
    BY <1>h, <1>p, <2>1, <2>2 DEF Within, Walking
  <2> QED BY <1>p, <2>1, <2>2, <2>3, HolderFrame
<1>7. CASE SendFull(s) \/ SendEvict(s)
  <2>1. /\ pc[s] \in {"deliver", "evict"} /\ pc'[s] \in {"evict", "refill"}
        /\ \A p \in Procs \ {s} : pc'[p] = pc[p]
    BY <1>7, <1>p, <1>l, GotoSender DEF SendFull, SendEvict
  <2>2. UNCHANGED <<readers, writer, todo>>
    BY <1>7 DEF SendFull, SendEvict
  <2>3. s \in readers' <=> Within(s)'
    BY <1>h, <1>p, <2>1, <2>2 DEF Within, Walking
  <2>4. Displaces(Target(s))
    BY <1>7 DEF SendFull, SendEvict, HolderInv
  <2>5. Displaces(Head(todo'[s]))
    BY <2>2, <2>4 DEF Target
  <2> QED BY <1>p, <2>1, <2>2, <2>3, <2>5, HolderFrame
<1> QED
  BY <1>1, <1>2, <1>3, <1>4, <1>5, <1>6, <1>7 DEF SendStep

\* One step of a subscriber keeps HolderInv.
LEMMA SubHolds ==
    ASSUME TypeOK, HolderInv, NEW c \in Subs,
           SubscribeCall(c) \/ SubscribeStep(c) \/ ConsumeStep(c)
    PROVE  HolderInv'
<1>p. c \in Procs /\ c \notin Senders /\ c \notin Closers /\ PCType
  BY ProcsAssumption DEF Procs, TypeOK
<1>l. /\ "lock" \in SubPCs /\ "refused" \in SubPCs /\ "reading" \in SubPCs /\ "eof" \in SubPCs
  BY DEF SubPCs
<1>r. c \notin readers /\ ~Within(c)'
  BY <1>p DEF HolderInv, Within
<1>1. CASE SubscribeCall(c)
  <2>1. pc'[c] = "lock" /\ \A p \in Procs \ {c} : pc'[p] = pc[p]
    BY <1>1, <1>p, <1>l, GotoSub DEF SubscribeCall
  <2>2. UNCHANGED <<readers, todo>> /\ writer = NoProc /\ writer' = c
    BY <1>1 DEF SubscribeCall, Announce
  <2> QED BY <1>p, <1>r, <2>1, <2>2, HolderFrame
<1>2. CASE SubscribeRefused(c) \/ Subscribe(c)
  <2>1. pc'[c] \in {"refused", "reading"} /\ \A p \in Procs \ {c} : pc'[p] = pc[p]
    BY <1>2, <1>p, <1>l, GotoSub DEF SubscribeRefused, Subscribe
  <2>2. UNCHANGED <<readers, todo>> /\ writer = c /\ writer' = NoProc
    BY <1>2 DEF SubscribeRefused, Subscribe, Exclusive, Unlock
  <2> QED BY <1>p, <1>r, <2>1, <2>2, HolderFrame
<1>3. CASE Receive(c)
  BY <1>3, <1>p, <1>r, HolderFrame DEF Receive
<1>4. CASE ReceiveEOF(c)
  <2>1. pc[c] = "reading" /\ pc'[c] = "eof" /\ \A p \in Procs \ {c} : pc'[p] = pc[p]
    BY <1>4, <1>p, <1>l, GotoSub DEF ReceiveEOF
  <2>2. UNCHANGED <<readers, writer, todo>>
    BY <1>4 DEF ReceiveEOF
  <2> QED BY <1>p, <1>r, <2>1, <2>2, HolderFrame
<1> QED BY <1>1, <1>2, <1>3, <1>4 DEF SubscribeStep, ConsumeStep

\* One step of a closer keeps HolderInv.
LEMMA CloserHolds ==
    ASSUME TypeOK, HolderInv, NEW k \in Closers,
           CloseCall(k) \/ DrainCall(k) \/ DrainGiveUp(k) \/ DrainStep(k) \/ CloseStep(k)
    PROVE  HolderInv'
<1>p. k \in Procs /\ k \notin Senders /\ PCType /\ todo \in [Senders \cup Closers -> Seq(Subs)]
  BY ProcsAssumption DEF Procs, TypeOK, LocalType
<1>l. /\ "idle" \in CloserPCs /\ "drain" \in CloserPCs /\ "rlock" \in CloserPCs
      /\ "scan" \in CloserPCs /\ "closing" \in CloserPCs /\ "lock" \in CloserPCs
      /\ "done" \in CloserPCs
  BY DEF CloserPCs
<1>h. k \in readers <=> pc[k] = "scan"
  BY <1>p DEF HolderInv, Within
<1>1. CASE CloseCall(k) \/ DrainCall(k) \/ DrainGiveUp(k) \/ DrainTick(k)
  <2>1. /\ pc[k] \in {"idle", "drain"} /\ pc'[k] \in {"closing", "drain", "rlock"}
        /\ \A p \in Procs \ {k} : pc'[p] = pc[p]
    BY <1>1, <1>p, <1>l, GotoCloser DEF CloseCall, DrainCall, DrainGiveUp, DrainTick
  <2>2. UNCHANGED <<readers, writer, todo>>
    BY <1>1 DEF CloseCall, DrainCall, DrainGiveUp, DrainTick
  <2>3. k \in readers' <=> Within(k)'
    BY <1>h, <1>p, <2>1, <2>2 DEF Within
  <2> QED BY <1>p, <2>1, <2>2, <2>3, HolderFrame
<1>2. CASE ScanLock(k)
  <2>1. pc[k] = "rlock" /\ pc'[k] = "scan" /\ \A p \in Procs \ {k} : pc'[p] = pc[p]
    BY <1>2, <1>p, <1>l, GotoCloser DEF ScanLock
  <2>2. readers' = readers \cup {k} /\ UNCHANGED writer /\ \A s \in Senders \ {k} : todo'[s] = todo[s]
    BY <1>2, <1>p DEF ScanLock, RLock
  <2>3. k \in readers' <=> Within(k)'
    BY <1>p, <2>1, <2>2 DEF Within
  <2> QED BY <1>p, <2>1, <2>2, <2>3, HolderFrame
<1>3. CASE ScanEmpty(k)
  <2>1. UNCHANGED <<pc, readers, writer>> /\ \A s \in Senders \ {k} : todo'[s] = todo[s]
    BY <1>3, <1>p DEF ScanEmpty, Advance
  <2>2. k \in readers' <=> Within(k)'
    BY <1>h, <1>p, <2>1 DEF Within
  <2> QED BY <1>p, <2>1, <2>2, HolderFrame
<1>4. CASE ScanPending(k) \/ ScanDrained(k)
  <2>1. /\ pc[k] = "scan" /\ pc'[k] \in {"drain", "closing"}
        /\ \A p \in Procs \ {k} : pc'[p] = pc[p]
    BY <1>4, <1>p, <1>l, GotoCloser DEF ScanPending, ScanDrained
  <2>2. readers' = readers \ {k} /\ UNCHANGED writer /\ \A s \in Senders \ {k} : todo'[s] = todo[s]
    BY <1>4, <1>p DEF ScanPending, ScanDrained, RUnlock
  <2>3. k \in readers' <=> Within(k)'
    BY <1>p, <2>1, <2>2 DEF Within
  <2> QED BY <1>p, <2>1, <2>2, <2>3, HolderFrame
<1>5. CASE CloseLock(k)
  <2>1. pc[k] = "closing" /\ pc'[k] = "lock" /\ \A p \in Procs \ {k} : pc'[p] = pc[p]
    BY <1>5, <1>p, <1>l, GotoCloser DEF CloseLock
  <2>2. UNCHANGED <<readers, todo>> /\ writer = NoProc /\ writer' = k
    BY <1>5 DEF CloseLock, Announce
  <2>3. k \in readers' <=> Within(k)'
    BY <1>h, <1>p, <2>1, <2>2 DEF Within
  <2> QED BY <1>p, <2>1, <2>2, <2>3, HolderFrame
<1>6. CASE Close(k)
  <2>1. pc[k] = "lock" /\ pc'[k] = "done" /\ \A p \in Procs \ {k} : pc'[p] = pc[p]
    BY <1>6, <1>p, <1>l, GotoCloser DEF Close
  <2>2. UNCHANGED <<readers, todo>> /\ writer = k /\ writer' = NoProc
    BY <1>6 DEF Close, Exclusive, Unlock
  <2>3. k \in readers' <=> Within(k)'
    BY <1>h, <1>p, <2>1, <2>2 DEF Within
  <2> QED BY <1>p, <2>1, <2>2, <2>3, HolderFrame
<1> QED BY <1>1, <1>2, <1>3, <1>4, <1>5, <1>6 DEF DrainStep, CloseStep

\* HolderInv holds at the start, when nobody is inside, ...
LEMMA InitHolds == Init => HolderInv
<1> SUFFICES ASSUME Init PROVE HolderInv
  OBVIOUS
<1>1. readers = {} /\ writer = NoProc /\ \A p \in Procs : pc[p] \in {"new", "idle"}
  BY DEF Init
<1>2. \A p \in Procs : ~Within(p) /\ pc[p] # "lock" /\ p # NoProc
  BY <1>1, ProcsAssumption DEF Within, Walking
<1>3. \A s \in Senders : pc[s] \notin {"evict", "refill"}
  BY <1>1 DEF Procs
<1> QED BY <1>1, <1>2, <1>3 DEF HolderInv

\* ... and every step keeps it.
LEMMA NextHolds == TypeOK /\ HolderInv /\ [Next]_vars => HolderInv'
<1> SUFFICES ASSUME TypeOK, HolderInv, [Next]_vars PROVE HolderInv'
  OBVIOUS
<1>1. ASSUME NEW s \in Senders, SendInvalid(s) \/ SendCall(s) \/ SendStep(s)
      PROVE  HolderInv'
  BY <1>1, SenderHolds
<1>2. ASSUME NEW c \in Subs, SubscribeCall(c) \/ SubscribeStep(c) \/ ConsumeStep(c)
      PROVE  HolderInv'
  BY <1>2, SubHolds
<1>3. ASSUME NEW k \in Closers,
             CloseCall(k) \/ DrainCall(k) \/ DrainGiveUp(k) \/ DrainStep(k) \/ CloseStep(k)
      PROVE  HolderInv'
  BY <1>3, CloserHolds
<1>4. CASE (\E p \in Impatient : CtxCancel(p)) \/ AllDone \/ UNCHANGED vars
  <2>1. UNCHANGED <<pc, readers, writer, todo>>
    BY <1>4 DEF CtxCancel, AllDone, vars
  <2> QED BY <2>1 DEF HolderInv, Within, Displaces, Target
<1> QED BY <1>1, <1>2, <1>3, <1>4 DEF Next

\* Who is inside with a read lock, or alone with the write lock, does not wait for b.mu.
LEMMA HolderMoves ==
    ASSUME TypeOK, HolderInv, NEW p \in Procs, Barred(p)
    PROVE  \E h \in Procs : (h \in readers \/ (readers = {} /\ writer = h)) /\ ~Barred(h)
<1>1. CASE readers # {}
  <2>1. PICK h \in readers : TRUE
    BY <1>1
  <2>2. h \in Procs
    BY DEF TypeOK, LockType, Procs
  <2>3. Within(h)
    BY <2>2 DEF HolderInv
  <2>4. ~Barred(h)
    BY <2>3 DEF Within, Walking, Barred
  <2> QED BY <2>1, <2>2, <2>4
<1>2. CASE readers = {}
  <2>1. writer # NoProc
    BY <1>2 DEF Barred
  <2>2. writer \in Procs /\ pc[writer] = "lock"
    BY <2>1 DEF TypeOK, LockType, Procs, HolderInv
  <2>3. ~Barred(writer)
    BY <1>2, <2>2 DEF Barred
  <2> QED BY <1>2, <2>2, <2>3
<1> QED BY <1>1, <1>2

\* The consumer of the channel a sender stands at has subscribed and has not seen its end.
LEMMA TargetReads ==
    ASSUME TypeOK, SafetyInv, NEW s \in Senders, pc[s] \in Walking, AtTarget(s)
    PROVE  Target(s) \in Subs /\ open[Target(s)] /\ pc[Target(s)] = "reading"
<1>1. todo[s] \in Seq(Subs) /\ todo[s] # <<>>
  BY DEF TypeOK, LocalType, AtTarget
<1>2. 1 \in DOMAIN todo[s] /\ Target(s) = todo[s][1]
  BY <1>1, HeadTailProperties, LenProperties, EmptySeq DEF Target
<1>3. Target(s) \in Subs
  BY TargetType DEF TypeOK
<1>4. open[Target(s)]
  BY <1>2 DEF SafetyInv, WalkInv
<1> QED BY <1>3, <1>4 DEF SafetyInv, OpenInv

\* A full channel has a frame in it, its capacity being at least one.
LEMMA FullHasFrame ==
    ASSUME TypeOK, NEW c \in Subs, Full(c)
    PROVE  chan[c] # <<>>
<1>1. Len(chan[c]) >= Depth /\ Depth \in Nat \ {0}
  BY ConfigAssumption DEF Full
<1>2. Len(<<>>) = 0
  OBVIOUS
<1> QED BY <1>1, <1>2

\* Nobody waits in a circle, for any number of goroutines, filters, policies and capacities.
\* Who waits for b.mu has before him a holder that does not; a sender that waits for room in
\* a channel waits for a consumer in its loop with a frame to read, so one that reads lets it
\* go on; and the only other wait is the eviction's, on a channel with the policy DropOldest:
\* without that policy consumers that read are all it takes to keep the bus moving.
THEOREM NoCircularWait == Spec => []WaitsExplained
<1>1. Init => TypeOK /\ SafetyInv /\ HolderInv
  BY InitType, InitSafe, InitHolds
<1>2. (TypeOK /\ SafetyInv /\ HolderInv) /\ [Next]_vars => (TypeOK /\ SafetyInv /\ HolderInv)'
  BY NextType, NextSafe, NextHolds
<1>3. TypeOK /\ SafetyInv /\ HolderInv => WaitsExplained
  <2> SUFFICES ASSUME TypeOK, SafetyInv, HolderInv PROVE WaitsExplained
    OBVIOUS
  <2>1. ASSUME NEW p \in Procs, Barred(p)
        PROVE  \E h \in Procs : (h \in readers \/ (readers = {} /\ writer = h)) /\ ~Barred(h)
    BY <2>1, HolderMoves
  <2>2. ASSUME NEW s \in Senders, AwaitsRoom(s)
        PROVE  pc[Target(s)] = "reading" /\ chan[Target(s)] # <<>>
    <3>1. pc[s] \in Walking /\ AtTarget(s) /\ Full(Target(s))
      BY <2>2 DEF AwaitsRoom, Walking, TypeOK, LocalType, AtTarget
    <3> QED BY <3>1, TargetReads, FullHasFrame
  <2>3. ASSUME NEW s \in Senders, AwaitsFrame(s)
        PROVE  pc[Target(s)] = "reading" /\ open[Target(s)] /\ Displaces(Target(s))
    <3>1. pc[s] \in Walking /\ AtTarget(s)
      BY <2>3 DEF AwaitsFrame, Walking, TypeOK, LocalType, AtTarget
    <3>2. Displaces(Target(s))
      BY <2>3 DEF AwaitsFrame, HolderInv
    <3> QED BY <3>1, <3>2, TargetReads
  <2> QED BY <2>1, <2>2, <2>3 DEF WaitsExplained
<1> QED BY <1>1, <1>2, <1>3, PTL DEF Spec
=============================================================================
