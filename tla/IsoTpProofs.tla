----------------------------- MODULE IsoTpProofs -----------------------------
(***************************************************************************)
(* Theorems about ISO-TP between two ends, for any payloads, block sizes,   *)
(* channel capacities and numbers of sequence numbers.                      *)
(***************************************************************************)
EXTENDS IsoTp, SequenceTheorems, TLAPS

USE DEF world, sendVars, recvVars, Receivers, Foreign, Conns

-----------------------------------------------------------------------------
(* The inductive invariant.  Its parts are about one direction, from the    *)
(* Send of e to the Recv of its peer p: data frames travel in rx[p], the     *)
(* flow controls that answer them in rx[e].                                 *)

Data(f) == f.type # "FC"
Before(s, u) == s.n < u.n \/ (s.n = u.n /\ s.i < u.i)
LastOf(b) == b[Len(b)]
Failed(e) == \E i \in DOMAIN result[e] : result[e][i] = "failed"
Answered(e) == \E i \in DOMAIN rx[e] : rx[e][i].type = "FC"
\* The place of the consecutive frame Send comes to next.
Due(e) == IF AllSent(e) THEN CFCount(tx[e].length) + 1 ELSE (tx[e].sent + 1) \div 7

\* f is a frame of one of the payloads whose lengths are pl.
IsPart(f, pl) ==
    /\ f.seg.n \in DOMAIN pl
    /\ LET length == pl[f.seg.n] IN
       \/ f.type = "SF" /\ length <= 7 /\ f.seg = Segment(f.seg.n, 0, length)
       \/ f.type = "FF" /\ length > 7 /\ f.length = length /\ f.seg = Segment(f.seg.n, 0, 6)
       \/ /\ f.type = "CF" /\ length > 7 /\ f.seg.i \in 1 .. CFCount(length)
          /\ f.seg.size = Least(7, length + 1 - 7 * f.seg.i)

\* Send is as far as it says; a Send that has failed was the last.
SendInv(e) ==
    /\ Failed(e) => tx[e].pc = "idle"
    /\ tx[e].pc # "idle" =>
          /\ e \notin Foreign /\ Number(e) > 0
          /\ tx[e].length = payloads[e][Number(e)] /\ tx[e].length > 7
          /\ IF AllSent(e) THEN tx[e].pc = "block"
             ELSE tx[e].sent = 7 * Due(e) - 1 /\ Due(e) >= 1
    /\ tx[e].pc = "first" => tx[e].sent = 6 /\ tx[e].block = 0

\* The data frames on their way are parts of payloads, in the order of these, and later
\* than what has been received.
QueueInv(e, p) ==
    \A i \in DOMAIN rx[p] : Data(rx[p][i]) =>
        LET s == rx[p][i].seg IN
        /\ IsPart(rx[p][i], payloads[e])
        /\ (s.n = Number(e) /\ tx[e].pc # "idle") => s.i < Due(e)
        /\ \A j \in 1 .. i - 1 : Data(rx[p][j]) => Before(rx[p][j].seg, s)
        /\ rv[p].pc = "cf" => Before(LastOf(rv[p].buf), s)
        /\ \A j \in DOMAIN delivered[p] : delivered[p][j][1].n < s.n

\* Recv has the message so far, or has missed a frame and will not complete it.
Exact(p) ==
    /\ LastOf(rv[p].buf).i = Len(rv[p].buf) - 1
    /\ rv[p].have = 7 * Len(rv[p].buf) - 1
    /\ \A j \in 1 .. Len(rv[p].buf) : rv[p].buf[j] = Whole(rv[p].buf[1].n, rv[p].length)[j]
Behind(p) == rv[p].have <= 7 * LastOf(rv[p].buf).i - 1

\* All that is gathered, and all consecutive frames on their way, belong to the message of
\* the first frame; and while Recv is at an old message no new one gets past its first.
RecvInv(e, p) ==
    LET n == rv[p].buf[1].n IN
    /\ p \notin Receivers => rv[p].pc = "first" /\ delivered[p] = <<>>
    /\ rv[p].pc = "cf" =>
        /\ Len(rv[p].buf) >= 1
        /\ n \in DOMAIN payloads[e] /\ rv[p].length > 7 /\ rv[p].length = payloads[e][n]
        /\ LastOf(rv[p].buf).n = n /\ LastOf(rv[p].buf).i \in 0 .. CFCount(rv[p].length)
        /\ Exact(p) \/ Behind(p)
        /\ \A j \in DOMAIN delivered[p] : delivered[p][j][1].n < n
        /\ \A i \in DOMAIN rx[p] : rx[p][i].type = "CF" => rx[p][i].seg.n = n
        /\ n < Number(e) => tx[e].pc \in {"idle", "first"} /\ ~Answered(e)
        /\ (n = Number(e) /\ tx[e].pc # "idle") => LastOf(rv[p].buf).i < Due(e)

\* Between two go-CAN ends there is at most one flow control on its way, and Send waits
\* for it: Recv counts no more frames of a block than Send does.
FlowInv(e, p) ==
    p \notin Foreign =>
        LET bs == setting.block[p]
            n == rv[p].buf[1].n
            li == LastOf(rv[p].buf).i
        IN
        /\ \A i \in DOMAIN rx[e] : rx[e][i].type = "FC" => rx[e][i] = FC("CTS", bs)
        /\ tx[e].fc.status = "CTS" /\ tx[e].pc # "resume"
        /\ tx[e].pc \in {"loop", "block"} => tx[e].fc.bs = bs
        /\ tx[e].pc = "loop" => bs = 0 \/ tx[e].block < bs
        /\ tx[e].pc = "block" => bs > 0 /\ tx[e].block = bs
        /\ \A i \in DOMAIN rx[p] : rx[p][i].type = "FF" =>
              /\ rx[p][i].seg.n = Number(e) /\ tx[e].pc \in {"idle", "first"}
              /\ (tx[e].pc = "idle" => Failed(e)) /\ ~Answered(e)
        /\ (~Failed(e) /\ Answered(e)) => tx[e].pc \in {"first", "block"}
        /\ ~Failed(e) => \A i, j \in DOMAIN rx[e] :
              rx[e][i].type = "FC" /\ rx[e][j].type = "FC" => i = j
        /\ rv[p].pc = "cf" =>
            /\ (n = Number(e) /\ tx[e].pc # "idle") =>
                  /\ rv[p].block + Due(e) - 1 - li <= tx[e].block
                  /\ Answered(e) => rv[p].block = 0 /\ li = Due(e) - 1
            /\ (n < Number(e) \/ (tx[e].pc = "idle" /\ ~Failed(e))) =>
                  bs = 0 \/ rv[p].block + CFCount(rv[p].length) - li < bs

\* What Recv has returned: whole payloads, in order.
DeliveredInv(e, p) ==
    \A j \in DOMAIN delivered[p] :
        LET b == delivered[p][j]
            n == b[1].n
        IN
        /\ n \in DOMAIN payloads[e] /\ b = Whole(n, payloads[e][n])
        /\ (tx[e].pc # "idle" /\ ~AllSent(e)) => n < Number(e)
        /\ \A i \in 1 .. j - 1 : delivered[p][i][1].n < n

DirInv(e, p) ==
    SendInv(e) /\ QueueInv(e, p) /\ RecvInv(e, p) /\ FlowInv(e, p) /\ DeliveredInv(e, p)

\* No frame is without a byte, so no count exceeds the length of a payload.
CountInv ==
    /\ \A e \in Ends : tx[e].block <= tx[e].sent
    /\ \A e \in Ends : rv[e].pc = "cf" => rv[e].block <= rv[e].have
    /\ \A e \in Ends : \A i \in DOMAIN rx[e] : Data(rx[e][i]) => rx[e][i].seg.size >= 1

TypeInv == TypeOK /\ CountInv
IInv == TypeInv /\ (~setting.retries => \A e \in Ends : DirInv(e, Peer(e)))

-----------------------------------------------------------------------------
(* Sequences, and the two ends. *)

\* The length field of a first frame has twelve bits.
LEMMA PayloadsAre == MaxPayload \in Nat /\ MaxPayload > 255
BY DEF MaxPayload

\* A sequence with an element more.
LEMMA Appended ==
    ASSUME NEW S, NEW s \in Seq(S), NEW e \in S
    PROVE  /\ Append(s, e) \in Seq(S) /\ Len(Append(s, e)) = Len(s) + 1 /\ Len(s) \in Nat
           /\ DOMAIN s = 1 .. Len(s) /\ DOMAIN Append(s, e) = 1 .. Len(s) + 1
           /\ Append(s, e)[Len(s) + 1] = e
           /\ \A i \in 1 .. Len(s) : Append(s, e)[i] = s[i]
BY AppendProperties, LenProperties

\* A sequence without its first element.
LEMMA Shortened ==
    ASSUME NEW S, NEW s \in Seq(S), s # <<>>
    PROVE  /\ Tail(s) \in Seq(S) /\ Len(Tail(s)) = Len(s) - 1 /\ Len(s) \in Nat /\ Len(s) > 0
           /\ DOMAIN s = 1 .. Len(s) /\ DOMAIN Tail(s) = 1 .. Len(s) - 1
           /\ Head(s) = s[1] /\ Head(s) \in S
           /\ \A i \in 1 .. Len(s) - 1 : Tail(s)[i] = s[i + 1]
BY HeadTailProperties, LenProperties, EmptySeq

\* The peer of an end is the other one.
LEMMA PeerIs ==
    ASSUME NEW e \in Ends
    PROVE  /\ Peer(e) \in Ends /\ Peer(e) # e /\ Ends = {e, Peer(e)} /\ Peer(Peer(e)) = e
<1>1. PICK a \in Ends : \E b \in Ends \ {a} : Ends = {a, b}
  BY EndsAssumption
<1>2. PICK b \in Ends \ {a} : Ends = {a, b}
  BY <1>1
<1>3. Peer(a) = b
  <2>1. \E p \in Ends : p # a
    BY <1>2
  <2>2. Peer(a) \in Ends /\ Peer(a) # a
    BY <2>1 DEF Peer
  <2> QED BY <2>2, <1>2
<1>4. Peer(b) = a
  <2>1. \E p \in Ends : p # b
    BY <1>2
  <2>2. Peer(b) \in Ends /\ Peer(b) # b
    BY <2>1 DEF Peer
  <2> QED BY <2>2, <1>2
<1> QED BY <1>2, <1>3, <1>4

\* A function of the ends with another value at one of them.
LEMMA Updated ==
    ASSUME NEW S, NEW f \in [Ends -> S], NEW e \in Ends, NEW v \in S
    PROVE  /\ [f EXCEPT ![e] = v] \in [Ends -> S] /\ [f EXCEPT ![e] = v][e] = v
           /\ \A c \in Ends \ {e} : [f EXCEPT ![e] = v][c] = f[c]
OBVIOUS

-----------------------------------------------------------------------------
(* Types. *)

TxSet ==
    {t \in SendStates :
        /\ t.sent <= t.length /\ t.block <= t.sent
        /\ t.pc \in {"first", "loop", "resume"} => ~(t.sent >= t.length)}
RvSet == {r \in RecvStates : r.pc = "cf" => r.have < r.length /\ r.block <= r.have}
RxSet ==
    {q \in Seq(Frames) :
        /\ Len(q) <= setting.depth
        /\ \A i \in DOMAIN q : Data(q[i]) => q[i].seg.size >= 1}

\* The type invariant, variable by variable.
Typed ==
    /\ setting \in Settings /\ up \in BOOLEAN /\ lost \in BOOLEAN
    /\ rx \in [Ends -> RxSet] /\ tx \in [Ends -> TxSet] /\ rv \in [Ends -> RvSet]
    /\ payloads \in [Ends -> Seq(1 .. MaxPayload)]
    /\ result \in [Ends -> Seq({"ok", "failed"})]
    /\ delivered \in [Ends -> Seq(Seq(Segments))]

\* The same invariant, with the conditions on a variable in the set it ranges over.
LEMMA TypedIs == TypeInv <=> Typed
<1>1. rx \in [Ends -> RxSet] <=>
        /\ rx \in [Ends -> Seq(Frames)] /\ \A e \in Ends : Len(rx[e]) <= setting.depth
        /\ \A e \in Ends : \A i \in DOMAIN rx[e] : Data(rx[e][i]) => rx[e][i].seg.size >= 1
  BY DEF RxSet
<1>2. tx \in [Ends -> TxSet] <=>
        /\ tx \in [Ends -> SendStates]
        /\ \A e \in Ends : tx[e].sent <= tx[e].length
        /\ \A e \in Ends : tx[e].pc \in {"first", "loop", "resume"} => ~AllSent(e)
        /\ \A e \in Ends : tx[e].block <= tx[e].sent
  BY DEF TxSet, AllSent
<1>3. rv \in [Ends -> RvSet] <=>
        /\ rv \in [Ends -> RecvStates]
        /\ \A e \in Ends : rv[e].pc = "cf" => rv[e].have < rv[e].length
        /\ \A e \in Ends : rv[e].pc = "cf" => rv[e].block <= rv[e].have
  BY DEF RvSet
<1> QED BY <1>1, <1>2, <1>3, SMT DEF TypeInv, TypeOK, CountInv, Typed

\* What the settings are.
LEMMA SettingIs ==
    ASSUME setting \in Settings
    PROVE  /\ setting.depth \in Nat \ {0} /\ setting.sns \in Nat \ {0, 1}
           /\ setting.block \in [Ends -> 0 .. 255] /\ setting.lengths \in [Ends -> SUBSET (1 .. MaxPayload)]
           /\ setting.foreign \subseteq Ends /\ setting.receivers \subseteq Ends \ setting.foreign
           /\ setting.sends \in Nat
BY SettingsAssumption

\* The payload lengths of an end.
LEMMA LengthsAre ==
    ASSUME setting \in Settings, NEW e \in Ends
    PROVE  setting.lengths[e] \subseteq 1 .. MaxPayload
<1>1. setting.lengths \in [Ends -> SUBSET (1 .. MaxPayload)]
  BY SettingIs
<1> QED BY <1>1

\* The first frame in a channel, and the channel without it.
LEMMA RestIs ==
    ASSUME Typed, NEW e \in Ends, rx[e] # <<>>
    PROVE  /\ Rest(e) \in [Ends -> RxSet] /\ Head(rx[e]) \in Frames /\ Head(rx[e]) = rx[e][1]
           /\ Rest(e)[e] = Tail(rx[e]) /\ \A c \in Ends \ {e} : Rest(e)[c] = rx[c]
           /\ Data(Head(rx[e])) => Head(rx[e]).seg.size >= 1
<1>1. rx[e] \in RxSet /\ rx \in [Ends -> RxSet]
  BY DEF Typed
<1>2. /\ rx[e] \in Seq(Frames) /\ Len(rx[e]) <= setting.depth /\ setting.depth \in Nat
      /\ \A i \in DOMAIN rx[e] : Data(rx[e][i]) => rx[e][i].seg.size >= 1
  BY <1>1, SettingIs DEF RxSet, Typed
<1>3. /\ Tail(rx[e]) \in Seq(Frames) /\ Len(Tail(rx[e])) = Len(rx[e]) - 1 /\ Len(rx[e]) \in Nat
      /\ Len(rx[e]) > 0 /\ DOMAIN rx[e] = 1 .. Len(rx[e])
      /\ DOMAIN Tail(rx[e]) = 1 .. Len(rx[e]) - 1 /\ Head(rx[e]) = rx[e][1] /\ Head(rx[e]) \in Frames
      /\ \A i \in 1 .. Len(rx[e]) - 1 : Tail(rx[e])[i] = rx[e][i + 1]
  <2> HIDE DEF Frames
  <2> QED BY <1>2, Shortened
<1>4. Tail(rx[e]) \in RxSet
  <2>1. \A i \in DOMAIN Tail(rx[e]) : i + 1 \in DOMAIN rx[e] /\ Tail(rx[e])[i] = rx[e][i + 1]
    BY <1>3
  <2>2. Len(Tail(rx[e])) <= setting.depth
    BY <1>2, <1>3
  <2> QED BY <1>2, <1>3, <2>1, <2>2 DEF RxSet
<1>5. Data(Head(rx[e])) => Head(rx[e]).seg.size >= 1
  BY <1>2, <1>3
<1> HIDE DEF RxSet
<1> QED BY <1>1, <1>3, <1>4, <1>5 DEF Rest

\* What bus.Send of a well-typed frame does.
LEMMA PutIs ==
    ASSUME Typed, NEW e \in Ends, NEW q \in [Ends -> RxSet], NEW f \in Frames,
           Data(f) => f.seg.size >= 1, Put(e, q, f)
    PROVE  /\ rx' \in [Ends -> RxSet] /\ up /\ lost' \in BOOLEAN /\ rx'[e] = q[e]
           /\ \/ rx'[Peer(e)] = q[Peer(e)]
              \/ rx'[Peer(e)] = Append(q[Peer(e)], f) /\ Len(q[Peer(e)]) < setting.depth
<1>0. Peer(e) \in Ends /\ Peer(e) # e /\ up
  BY PeerIs DEF Put
<1>l. lost' \in BOOLEAN
  <2>1. lost' = lost \/ lost' = TRUE
    BY DEF Put
  <2>2. lost \in BOOLEAN
    BY DEF Typed
  <2> QED BY <2>1, <2>2
<1>1. CASE rx' = q
  BY <1>0, <1>l, <1>1
<1>2. CASE rx' = [q EXCEPT ![Peer(e)] = Append(@, f)] /\ Len(q[Peer(e)]) < setting.depth
  <2>1. Peer(e) \in Ends /\ Peer(e) # e
    BY PeerIs
  <2>2. q[Peer(e)] \in RxSet
    BY <2>1
  <2>3. /\ q[Peer(e)] \in Seq(Frames) /\ setting.depth \in Nat
        /\ \A i \in DOMAIN q[Peer(e)] : Data(q[Peer(e)][i]) => q[Peer(e)][i].seg.size >= 1
    BY <2>2, SettingIs DEF RxSet, Typed
  <2> DEFINE s == q[Peer(e)]
             t == Append(s, f)
  <2>4. /\ t \in Seq(Frames) /\ Len(t) = Len(s) + 1 /\ Len(s) \in Nat
        /\ DOMAIN s = 1 .. Len(s) /\ DOMAIN t = 1 .. Len(s) + 1 /\ t[Len(s) + 1] = f
        /\ \A i \in 1 .. Len(s) : t[i] = s[i]
    <3> HIDE DEF Frames
    <3> QED BY <2>3, Appended
  <2>5. t \in RxSet
    <3>1. \A i \in DOMAIN t : Data(t[i]) => t[i].seg.size >= 1
      BY <2>3, <2>4
    <3>2. Len(t) <= setting.depth
      BY <2>3, <2>4, <1>2
    <3> QED BY <2>4, <3>1, <3>2 DEF RxSet
  <2> HIDE DEF RxSet
  <2> QED BY <1>2, <1>l, <1>0, <2>5
<1> QED BY <1>1, <1>2 DEF Put

\* The sets of states depend on the situation only, which stays.
LEMMA SetsStay ==
    ASSUME setting' = setting
    PROVE  RxSet' = RxSet /\ TxSet' = TxSet /\ RvSet' = RvSet
BY DEF RxSet, TxSet, RvSet, Frames, SendStates, RecvStates, FlowControls, Data

\* Typed holds after a step that keeps each variable in its set.
LEMMA TypedStays ==
    ASSUME setting' = setting, setting \in Settings, up' \in BOOLEAN, lost' \in BOOLEAN,
           rx' \in [Ends -> RxSet], tx' \in [Ends -> TxSet], rv' \in [Ends -> RvSet],
           payloads' \in [Ends -> Seq(1 .. MaxPayload)],
           result' \in [Ends -> Seq({"ok", "failed"})],
           delivered' \in [Ends -> Seq(Seq(Segments))]
    PROVE  Typed'
BY SetsStay DEF Typed

\* Who acts, and what he leaves alone.
SenderStep(e) ==
    /\ UNCHANGED <<setting, rv, delivered>>
    /\ \A c \in Ends \ {e} :
          tx'[c] = tx[c] /\ payloads'[c] = payloads[c] /\ result'[c] = result[c]
ReceiverStep(e) ==
    /\ UNCHANGED <<setting, tx, payloads, result>>
    /\ \A c \in Ends \ {e} : rv'[c] = rv[c] /\ delivered'[c] = delivered[c]

\* Send before a transfer, and Recv.
LEMMA FreshAtFirst == ASSUME setting \in Settings PROVE NoSend \in TxSet /\ NoRecv \in RvSet
<1>1. 1 \in 0 .. setting.sns - 1
  <2>1. setting.sns \in Nat \ {0, 1}
    BY SettingIs
  <2> QED BY <2>1
<1>2. <<>> \in Seq(Segments)
  BY EmptySeq
<1> QED BY <1>1, <1>2, PayloadsAre DEF NoSend, NoRecv, TxSet, RvSet, SendStates, RecvStates, FC,
                             FlowControls

\* The same from Typed.
LEMMA Fresh == ASSUME Typed PROVE NoSend \in TxSet /\ NoRecv \in RvSet
<1>1. setting \in Settings
  BY DEF Typed
<1> QED BY <1>1, FreshAtFirst

\* A state of Send with other values in some places.
LEMMA Moved ==
    ASSUME NEW t \in SendStates
    PROVE  /\ \A f \in FlowControls : [t EXCEPT !.pc = "loop", !.fc = f] \in SendStates
           /\ \A f \in FlowControls : [t EXCEPT !.pc = "loop", !.fc = f, !.block = 0] \in SendStates
           /\ \A f \in FlowControls : [t EXCEPT !.pc = "resume", !.fc = f, !.block = 0] \in SendStates
           /\ \A length, sent \in 0 .. MaxPayload :
                 [t EXCEPT !.pc = "first", !.length = length, !.sent = sent] \in SendStates
           /\ \A sent, block \in 0 .. MaxPayload : \A sn \in 0 .. setting.sns - 1 :
              \A pc \in {"loop", "block"} :
                 [t EXCEPT !.pc = pc, !.sent = sent, !.sn = sn, !.block = block] \in SendStates
<1> DEFINE P == {"idle", "first", "loop", "resume", "block"}
           L == 0 .. MaxPayload
           N == 0 .. setting.sns - 1
           S == [pc : P, length : L, sent : L, sn : N, fc : FlowControls, block : L]
<1>1. t \in S /\ SendStates = S /\ "loop" \in P /\ "block" \in P /\ "first" \in P
      /\ "resume" \in P /\ 0 \in L
  BY PayloadsAre DEF SendStates
<1> HIDE DEF P, L, N
<1>2. /\ \A f \in FlowControls : [t EXCEPT !.pc = "loop", !.fc = f] \in S
      /\ \A f \in FlowControls : [t EXCEPT !.pc = "loop", !.fc = f, !.block = 0] \in S
      /\ \A f \in FlowControls : [t EXCEPT !.pc = "resume", !.fc = f, !.block = 0] \in S
      /\ \A length, sent \in L :
            [t EXCEPT !.pc = "first", !.length = length, !.sent = sent] \in S
      /\ \A sent, block \in L : \A sn \in N : \A pc \in {"loop", "block"} :
            [t EXCEPT !.pc = pc, !.sent = sent, !.sn = sn, !.block = block] \in S
  BY <1>1
<1> HIDE DEF S
<1> QED BY <1>1, <1>2 DEF L, N

\* Send goes on, or returns.
LEMMA ContinuesIs ==
    ASSUME Typed, NEW e \in Ends, NEW t \in TxSet, Continues(e, t)
    PROVE  /\ tx' \in [Ends -> TxSet] /\ tx'[e] = t /\ result' = result
           /\ \A c \in Ends \ {e} : tx'[c] = tx[c]
<1>1. tx \in [Ends -> TxSet]
  BY DEF Typed
<1> HIDE DEF TxSet
<1> QED BY <1>1 DEF Continues

\* Send returns: it is idle again, and its outcome is recorded.
LEMMA ReturnsIs ==
    ASSUME Typed, NEW e \in Ends, NEW how \in {"ok", "failed"}, Returns(e, how)
    PROVE  /\ tx' \in [Ends -> TxSet] /\ tx'[e] = NoSend
           /\ result' \in [Ends -> Seq({"ok", "failed"})] /\ result'[e] = Append(result[e], how)
           /\ \A c \in Ends \ {e} : tx'[c] = tx[c] /\ result'[c] = result[c]
<1>1. tx \in [Ends -> TxSet] /\ NoSend \in TxSet
  BY Fresh DEF Typed
<1>2. result \in [Ends -> Seq({"ok", "failed"})] /\ result[e] \in Seq({"ok", "failed"})
  BY DEF Typed
<1>3. Append(result[e], how) \in Seq({"ok", "failed"})
  BY <1>2, Appended
<1> HIDE DEF TxSet, NoSend
<1> QED BY <1>1, <1>2, <1>3 DEF Returns, Outcome

\* A payload more.
LEMMA SubmitIs ==
    ASSUME Typed, NEW e \in Ends, NEW length, length \in 1 .. MaxPayload,
           Submit(e, length)
    PROVE  /\ payloads' \in [Ends -> Seq(1 .. MaxPayload)]
           /\ payloads'[e] = Append(payloads[e], length)
           /\ Number(e) \in Nat /\ Number(e)' = Number(e) + 1
           /\ DOMAIN payloads[e] = 1 .. Number(e) /\ DOMAIN payloads'[e] = 1 .. Number(e) + 1
           /\ payloads'[e][Number(e) + 1] = length
           /\ \A n \in 1 .. Number(e) : payloads'[e][n] = payloads[e][n]
           /\ \A c \in Ends \ {e} : payloads'[c] = payloads[c]
<1>2. payloads \in [Ends -> Seq(1 .. MaxPayload)] /\ payloads[e] \in Seq(1 .. MaxPayload)
  BY DEF Typed
<1>3. payloads'[e] = Append(payloads[e], length) /\ \A c \in Ends \ {e} : payloads'[c] = payloads[c]
  BY <1>2 DEF Submit
<1>4. /\ Append(payloads[e], length) \in Seq(1 .. MaxPayload)
      /\ Len(Append(payloads[e], length)) = Len(payloads[e]) + 1 /\ Len(payloads[e]) \in Nat
      /\ DOMAIN payloads[e] = 1 .. Len(payloads[e])
      /\ DOMAIN Append(payloads[e], length) = 1 .. Len(payloads[e]) + 1
      /\ Append(payloads[e], length)[Len(payloads[e]) + 1] = length
      /\ \A i \in 1 .. Len(payloads[e]) : Append(payloads[e], length)[i] = payloads[e][i]
  BY <1>2, Appended
<1>5. payloads' \in [Ends -> Seq(1 .. MaxPayload)]
  <2> DEFINE S == Seq(1 .. MaxPayload)
  <2>1. payloads \in [Ends -> S] /\ Append(payloads[e], length) \in S
    BY <1>2, <1>4
  <2> HIDE DEF S
  <2>2. [payloads EXCEPT ![e] = Append(payloads[e], length)] \in [Ends -> S]
    BY <2>1, Updated
  <2> QED BY <2>2 DEF S, Submit
<1> QED BY <1>3, <1>4, <1>5 DEF Number

\* Frames, and the data that send and receive read from them.
LEMMA FramesAre ==
    ASSUME Typed, NEW n \in Nat, NEW i \in Nat, NEW size, size \in 1 .. 7
    PROVE  /\ SF(Segment(n, i, size)) \in Frames /\ SF(Segment(n, i, size)).seg.size >= 1
           /\ \A length \in 8 .. MaxPayload :
                 FF(Segment(n, i, size), length) \in Frames
                 /\ FF(Segment(n, i, size), length).seg.size >= 1
           /\ \A sn \in 0 .. setting.sns - 1 :
                 CF(Segment(n, i, size), sn) \in Frames
                 /\ CF(Segment(n, i, size), sn).seg.size >= 1
<1> DEFINE seg == Segment(n, i, size)
<1>1. seg \in Segments /\ seg.size >= 1
  BY DEF Segment, Segments
<1> HIDE DEF seg
<1>2. SF(seg) \in Frames /\ SF(seg).seg = seg
  BY <1>1 DEF SF, Frames
<1>3. ASSUME NEW length, length \in 8 .. MaxPayload
      PROVE  FF(seg, length) \in Frames /\ FF(seg, length).seg = seg
  BY <1>1, <1>3 DEF FF, Frames
<1>4. ASSUME NEW sn, sn \in 0 .. setting.sns - 1
      PROVE  CF(seg, sn) \in Frames /\ CF(seg, sn).seg = seg
  BY <1>1, <1>4 DEF CF, Frames
<1> QED BY <1>1, <1>2, <1>3, <1>4 DEF seg

\* Flow controls are frames, and no data.
LEMMA AnswersAre ==
    ASSUME NEW bs, bs \in 0 .. 255
    PROVE  \A status \in {"CTS", "Wait", "Overflow"} :
               FC(status, bs) \in Frames /\ ~Data(FC(status, bs))
BY DEF FC, Frames, FlowControls, Data

\* What is in a frame of each type.
LEMMA FrameIs ==
    ASSUME NEW f \in Frames
    PROVE  /\ f.type \in {"SF", "FF", "CF", "FC"}
           /\ f.type # "FC" => f.seg \in Segments
           /\ f.type = "FF" => f.length \in 8 .. MaxPayload
           /\ f.type = "CF" => f.sn \in 0 .. setting.sns - 1
           /\ f.type = "FC" => f \in FlowControls
BY DEF Frames, FlowControls

\* The parts of Typed that depend on nothing else.
LEMMA TypedHas ==
    ASSUME Typed, NEW e \in Ends
    PROVE  /\ setting \in Settings /\ up \in BOOLEAN /\ lost \in BOOLEAN
           /\ rx \in [Ends -> RxSet] /\ tx \in [Ends -> TxSet] /\ rv \in [Ends -> RvSet]
           /\ payloads \in [Ends -> Seq(1 .. MaxPayload)]
           /\ result \in [Ends -> Seq({"ok", "failed"})]
           /\ delivered \in [Ends -> Seq(Seq(Segments))]
           /\ rx[e] \in RxSet /\ tx[e] \in TxSet /\ rv[e] \in RvSet
           /\ payloads[e] \in Seq(1 .. MaxPayload) /\ result[e] \in Seq({"ok", "failed"})
           /\ delivered[e] \in Seq(Seq(Segments))
<1> HIDE DEF RxSet, TxSet, RvSet
<1> QED BY DEF Typed

\* The situation, for an end.
LEMMA TypedSetting ==
    ASSUME Typed, NEW e \in Ends
    PROVE  /\ setting.depth \in Nat \ {0} /\ setting.sns \in Nat \ {0, 1}
           /\ setting.block[e] \in 0 .. 255 /\ setting.lengths[e] \subseteq 1 .. MaxPayload
           /\ 1 \in 0 .. setting.sns - 1
<1>1. setting \in Settings
  BY TypedHas
<1>2. /\ setting.depth \in Nat \ {0} /\ setting.sns \in Nat \ {0, 1}
      /\ setting.block \in [Ends -> 0 .. 255]
  BY <1>1, SettingIs
<1>3. setting.lengths[e] \subseteq 1 .. MaxPayload
  BY <1>1, LengthsAre
<1> QED BY <1>2, <1>3

\* A block size is a number.
LEMMA BlockIs ==
    ASSUME Typed, NEW e \in Ends
    PROVE  setting.block[e] \in Nat
<1>1. setting.block[e] \in 0 .. 255
  BY TypedSetting
<1> QED BY <1>1

\* The payloads of an end, by number.
LEMMA NumberIs ==
    ASSUME Typed, NEW e \in Ends
    PROVE  Number(e) \in Nat /\ DOMAIN payloads[e] = 1 .. Number(e)
           /\ \A n \in 1 .. Number(e) : payloads[e][n] \in 1 .. MaxPayload
<1>1. payloads[e] \in Seq(1 .. MaxPayload)
  BY TypedHas
<1> DEFINE S == 1 .. MaxPayload
<1>2. payloads[e] \in Seq(S)
  BY <1>1
<1> HIDE DEF S
<1>3. \A n \in 1 .. Len(payloads[e]) : payloads[e][n] \in S
  BY <1>2, ElementOfSeq
<1>4. Len(payloads[e]) \in Nat /\ DOMAIN payloads[e] = 1 .. Len(payloads[e])
  BY <1>2, LenProperties
<1> QED BY <1>3, <1>4 DEF Number, S

-----------------------------------------------------------------------------
(* Send keeps the types. *)

\* A Send on a closed bus fails at once.
LEMMA TypedSendOnClosed ==
    ASSUME Typed, NEW e \in Ends, NEW length, length \in 1 .. MaxPayload, SendOnClosed(e, length)
    PROVE  Typed' /\ SenderStep(e)
<1>1. /\ UNCHANGED <<setting, up, rx, lost, rv, delivered>> /\ Returns(e, "failed")
      /\ Submit(e, length)
  BY DEF SendOnClosed
<1>2. /\ payloads' \in [Ends -> Seq(1 .. MaxPayload)]
      /\ \A c \in Ends \ {e} : payloads'[c] = payloads[c]
  BY <1>1, SubmitIs
<1>3. /\ tx' \in [Ends -> TxSet] /\ result' \in [Ends -> Seq({"ok", "failed"})]
      /\ \A c \in Ends \ {e} : tx'[c] = tx[c] /\ result'[c] = result[c]
  BY <1>1, ReturnsIs
<1>4. Typed'
  <2> HIDE DEF RxSet, TxSet, RvSet
  <2> QED BY <1>1, <1>2, <1>3, TypedHas, TypedStays
<1> QED BY <1>1, <1>2, <1>3, <1>4 DEF SenderStep

\* A payload of up to seven bytes goes out in one frame.
LEMMA TypedSendSingleFrame ==
    ASSUME Typed, NEW e \in Ends, NEW length, length \in 1 .. MaxPayload, SendSingleFrame(e, length)
    PROVE  Typed' /\ SenderStep(e)
<1>1. /\ UNCHANGED <<setting, up, rv, delivered>> /\ Returns(e, "ok") /\ length <= 7
      /\ Submit(e, length)
      /\ Put(e, rx, SF(Segment(Number(e) + 1, 0, length)))
  BY DEF SendSingleFrame
<1>2. /\ payloads' \in [Ends -> Seq(1 .. MaxPayload)] /\ Number(e) \in Nat
      /\ \A c \in Ends \ {e} : payloads'[c] = payloads[c]
  BY <1>1, SubmitIs
<1>3. /\ tx' \in [Ends -> TxSet] /\ result' \in [Ends -> Seq({"ok", "failed"})]
      /\ \A c \in Ends \ {e} : tx'[c] = tx[c] /\ result'[c] = result[c]
  BY <1>1, ReturnsIs
<1>4. rx' \in [Ends -> RxSet] /\ lost' \in BOOLEAN
  <2> DEFINE f == SF(Segment(Number(e) + 1, 0, length))
  <2>1. Number(e) + 1 \in Nat /\ 0 \in Nat /\ length \in 1 .. 7
    BY <1>1, <1>2, PayloadsAre
  <2>3. f \in Frames /\ f.seg.size >= 1
    BY <2>1, FramesAre
  <2>4. rx \in [Ends -> RxSet]
    BY TypedHas
  <2> HIDE DEF f, RxSet
  <2> QED BY <1>1, <2>3, <2>4, PutIs DEF f
<1>5. Typed'
  <2> HIDE DEF RxSet, TxSet, RvSet
  <2> QED BY <1>1, <1>2, <1>3, <1>4, TypedHas, TypedStays
<1> QED BY <1>1, <1>2, <1>3, <1>5 DEF SenderStep

\* A longer one starts with a first frame of six bytes.
LEMMA TypedSendFirstFrame ==
    ASSUME Typed, NEW e \in Ends, NEW length, length \in 1 .. MaxPayload, SendFirstFrame(e, length)
    PROVE  Typed' /\ SenderStep(e)
<1> DEFINE t == [NoSend EXCEPT !.pc = "first", !.length = length, !.sent = 6]
<1>1. /\ UNCHANGED <<setting, up, rv, delivered>> /\ Continues(e, t) /\ length > 7
      /\ Submit(e, length)
      /\ Put(e, rx, FF(Segment(Number(e) + 1, 0, 6), length))
  BY DEF SendFirstFrame
<1>2. /\ payloads' \in [Ends -> Seq(1 .. MaxPayload)] /\ Number(e) \in Nat
      /\ \A c \in Ends \ {e} : payloads'[c] = payloads[c]
  BY <1>1, SubmitIs
<1>t. t \in TxSet
  <2>1. NoSend \in SendStates /\ NoSend.block = 0
    BY Fresh DEF TxSet, NoSend
  <2>2. t \in SendStates
    <3>1. length \in 0 .. MaxPayload /\ 6 \in 0 .. MaxPayload
      BY PayloadsAre
    <3> QED BY <2>1, <3>1, Moved
  <2>3. t.sent = 6 /\ t.length = length /\ t.block = 0
    BY DEF NoSend
  <2> HIDE DEF t
  <2> QED BY <1>1, <2>2, <2>3, PayloadsAre DEF TxSet
<1>3. /\ tx' \in [Ends -> TxSet] /\ result' = result /\ \A c \in Ends \ {e} : tx'[c] = tx[c]
  <2> HIDE DEF t, TxSet
  <2> QED BY <1>1, <1>t, ContinuesIs
<1>4. rx' \in [Ends -> RxSet] /\ lost' \in BOOLEAN
  <2> DEFINE f == FF(Segment(Number(e) + 1, 0, 6), length)
  <2>1. Number(e) + 1 \in Nat /\ 0 \in Nat /\ 6 \in 1 .. 7 /\ length \in 8 .. MaxPayload
    BY <1>1, <1>2, PayloadsAre
  <2>3. f \in Frames /\ f.seg.size >= 1
    BY <2>1, FramesAre
  <2>4. rx \in [Ends -> RxSet]
    BY TypedHas
  <2> HIDE DEF f, RxSet
  <2> QED BY <1>1, <2>3, <2>4, PutIs DEF f
<1>5. Typed'
  <2> HIDE DEF RxSet, TxSet, RvSet, t
  <2> QED BY <1>1, <1>2, <1>3, <1>4, TypedHas, TypedStays
<1> QED BY <1>1, <1>2, <1>3, <1>5 DEF SenderStep

\* An end takes a frame from its channel, whoever of the two goroutines it is.
LEMMA TypedSkip ==
    ASSUME Typed, NEW e \in Ends, rx[e] # <<>>, rx' = Rest(e),
           UNCHANGED <<setting, up, lost, tx, rv, payloads, result, delivered>>
    PROVE  Typed' /\ SenderStep(e) /\ ReceiverStep(e)
<1>1. Rest(e) \in [Ends -> RxSet]
  BY RestIs
<1>2. Typed'
  <2> HIDE DEF RxSet, TxSet, RvSet
  <2> QED BY <1>1, TypedHas, TypedStays
<1> QED BY <1>2 DEF SenderStep, ReceiverStep

\* A flow control takes Send further.
LEMMA TypedFC ==
    ASSUME Typed, NEW e \in Ends,
           FirstFC(e) \/ FCAfterWait(e) \/ FCAfterBlock(e)
    PROVE  Typed' /\ SenderStep(e)
<1> DEFINE f == Head(rx[e])
           t1 == [tx[e] EXCEPT !.pc = "loop", !.fc = f]
           t2 == [tx[e] EXCEPT !.pc = "resume", !.fc = f, !.block = 0]
           t3 == [tx[e] EXCEPT !.pc = "loop", !.fc = f, !.block = 0]
<1>1. /\ UNCHANGED <<setting, up, lost, payloads, rv, delivered>> /\ rx' = Rest(e)
      /\ rx[e] # <<>> /\ f.type = "FC"
  BY DEF FirstFC, FCAfterWait, FCAfterBlock, Arrived
<1>2. /\ Rest(e) \in [Ends -> RxSet] /\ f \in Frames
  BY <1>1, RestIs
<1>3. f \in FlowControls
  BY <1>1, <1>2, FrameIs
<1>4. tx[e] \in TxSet
  BY TypedHas
<1>5. /\ ~AllSent(e) => t1 \in TxSet /\ t2 \in TxSet /\ t3 \in TxSet
      /\ tx[e].pc \in {"first", "loop"} => ~AllSent(e)
  <2>1. tx[e] \in SendStates /\ tx[e].block <= tx[e].sent /\ tx[e].sent <= tx[e].length
    BY <1>4 DEF TxSet
  <2>2. t1 \in SendStates /\ t2 \in SendStates /\ t3 \in SendStates
    BY <1>3, <2>1, Moved, PayloadsAre
  <2>3. /\ tx[e].sent \in Nat /\ tx[e].length \in Nat
        /\ t1.block = tx[e].block /\ t2.block = 0 /\ t3.block = 0
        /\ t1.sent = tx[e].sent /\ t2.sent = tx[e].sent /\ t3.sent = tx[e].sent
        /\ t1.length = tx[e].length /\ t2.length = tx[e].length /\ t3.length = tx[e].length
    BY <2>1, PayloadsAre DEF SendStates
  <2> HIDE DEF t1, t2, t3
  <2> QED BY <1>4, <2>1, <2>2, <2>3 DEF TxSet, AllSent
<1>e. \/ Returns(e, "failed") \/ Returns(e, "ok")
      \/ t1 \in TxSet /\ Continues(e, t1)
      \/ t2 \in TxSet /\ Continues(e, t2)
      \/ t3 \in TxSet /\ Continues(e, t3)
  BY <1>5 DEF FirstFC, FCAfterWait, FCAfterBlock
<1>6. /\ tx' \in [Ends -> TxSet] /\ result' \in [Ends -> Seq({"ok", "failed"})]
      /\ \A c \in Ends \ {e} : tx'[c] = tx[c] /\ result'[c] = result[c]
  <2> HIDE DEF TxSet, t1, t2, t3
  <2>1. result \in [Ends -> Seq({"ok", "failed"})]
    BY TypedHas
  <2> QED BY <1>e, <2>1, ReturnsIs, ContinuesIs
<1>7. Typed'
  <2> HIDE DEF RxSet, TxSet, RvSet, f
  <2> QED BY <1>1, <1>2, <1>6, TypedHas, TypedStays
<1> QED BY <1>1, <1>6, <1>7 DEF SenderStep

\* A consecutive frame takes Send to the next one, to the end of a block or of its payload.
LEMMA TypedSendConsecutiveFrame ==
    ASSUME Typed, NEW e \in Ends, SendConsecutiveFrame(e)
    PROVE  Typed' /\ SenderStep(e)
<1> DEFINE size == Least(7, tx[e].length - tx[e].sent)
           pc == IF BlockFull(e) THEN "block" ELSE "loop"
           t == [tx[e] EXCEPT !.pc = pc, !.sent = @ + size, !.sn = NextSN(e), !.block = @ + 1]
           f == CF(Segment(Number(e), (tx[e].sent + 1) \div 7, size), tx[e].sn)
           last == tx[e].sent + size >= tx[e].length
<1>1. /\ UNCHANGED <<setting, up, payloads, rv, delivered>> /\ CanSendCF(e) /\ Put(e, rx, f)
      /\ IF last /\ ~BlockFull(e) THEN Returns(e, "ok") ELSE Continues(e, t)
  BY DEF SendConsecutiveFrame
<1>2. tx[e] \in SendStates /\ tx[e].sent < tx[e].length /\ tx[e].block <= tx[e].sent
      /\ tx[e].sent \in Nat /\ tx[e].length \in 0 .. MaxPayload /\ tx[e].block \in Nat
      /\ tx[e].sn \in 0 .. setting.sns - 1
  <2>1. tx[e] \in TxSet
    BY TypedHas
  <2>2. tx[e] \in SendStates /\ tx[e].block <= tx[e].sent
        /\ (tx[e].pc \in {"loop", "resume"} => ~(tx[e].sent >= tx[e].length))
    BY <2>1 DEF TxSet
  <2>3. tx[e].sent \in Nat /\ tx[e].length \in 0 .. MaxPayload /\ tx[e].block \in Nat
        /\ tx[e].sn \in 0 .. setting.sns - 1
    BY <2>2, PayloadsAre DEF SendStates
  <2> QED BY <1>1, <2>2, <2>3, PayloadsAre DEF CanSendCF
<1>3. size \in 1 .. 7 /\ tx[e].sent + size <= tx[e].length
  BY <1>2, PayloadsAre DEF Least
<1>4. rx' \in [Ends -> RxSet] /\ lost' \in BOOLEAN
  <2>1. (tx[e].sent + 1) \div 7 \in Nat /\ Number(e) \in Nat
    BY <1>2, NumberIs
  <2>2. f \in Frames /\ f.seg.size >= 1
    <3> HIDE DEF size
    <3> QED BY <1>2, <1>3, <2>1, FramesAre
  <2>3. rx \in [Ends -> RxSet]
    BY TypedHas
  <2> HIDE DEF f
  <2> QED BY <1>1, <2>2, <2>3, PutIs
<1>5. NextSN(e) \in 0 .. setting.sns - 1
  <2>1. setting.sns \in Nat \ {0, 1} /\ tx[e].sn \in Nat
    BY <1>2, TypedSetting
  <2> QED BY <2>1 DEF NextSN
<1>6. ~(last /\ ~BlockFull(e)) => t \in TxSet
  <2>1. tx[e].sent + size \in 0 .. MaxPayload /\ tx[e].block + 1 \in 0 .. MaxPayload
    BY <1>2, <1>3, PayloadsAre
  <2>2. pc \in {"loop", "block"}
    OBVIOUS
  <2>3. t \in SendStates
    <3> HIDE DEF size, pc
    <3> QED BY <1>2, <1>5, <2>1, <2>2, Moved
  <2>4. t.sent = tx[e].sent + size /\ t.block = tx[e].block + 1 /\ t.pc = pc
        /\ t.length = tx[e].length
    <3> HIDE DEF size, pc
    <3> QED BY <1>2 DEF SendStates
  <2> HIDE DEF t, size
  <2> QED BY <1>2, <1>3, <2>3, <2>4, PayloadsAre DEF TxSet
<1>7. /\ tx' \in [Ends -> TxSet] /\ result' \in [Ends -> Seq({"ok", "failed"})]
      /\ \A c \in Ends \ {e} : tx'[c] = tx[c] /\ result'[c] = result[c]
  <2>1. result \in [Ends -> Seq({"ok", "failed"})]
    BY TypedHas
  <2> HIDE DEF t, last
  <2> QED BY <1>1, <1>6, <2>1, ReturnsIs, ContinuesIs
<1>8. Typed'
  BY <1>1, <1>4, <1>7, TypedHas, TypedStays
<1> HIDE DEF f, t
<1> QED BY <1>1, <1>7, <1>8 DEF SenderStep

\* A Send that fails returns.
LEMMA TypedSendFails ==
    ASSUME Typed, NEW e \in Ends, SendFails(e)
    PROVE  Typed' /\ SenderStep(e)
<1>1. UNCHANGED <<setting, up, rx, lost, payloads, rv, delivered>> /\ Returns(e, "failed")
  BY DEF SendFails
<1>2. /\ tx' \in [Ends -> TxSet] /\ result' \in [Ends -> Seq({"ok", "failed"})]
      /\ \A c \in Ends \ {e} : tx'[c] = tx[c] /\ result'[c] = result[c]
  BY <1>1, ReturnsIs
<1>3. Typed'
  BY <1>1, <1>2, TypedHas, TypedStays
<1> QED BY <1>1, <1>2, <1>3 DEF SenderStep

-----------------------------------------------------------------------------
(* Recv keeps the types. *)

\* A message more.
LEMMA DeliverIs ==
    ASSUME Typed, NEW e \in Ends, NEW b \in Seq(Segments), Deliver(e, b)
    PROVE  /\ delivered' \in [Ends -> Seq(Seq(Segments))]
           /\ delivered'[e] = Append(delivered[e], b)
           /\ \A c \in Ends \ {e} : delivered'[c] = delivered[c]
<1> DEFINE S == Seq(Segments)
           D == Seq(S)
<1>1. delivered \in [Ends -> D] /\ delivered[e] \in Seq(S) /\ b \in S
  BY TypedHas
<1>2. Append(delivered[e], b) \in D
  <2> HIDE DEF S
  <2> QED BY <1>1, Appended DEF D
<1> HIDE DEF D
<1> QED BY <1>1, <1>2 DEF Deliver, D, S

\* Recv starts again.
LEMMA RestartIs ==
    ASSUME Typed, NEW e \in Ends, Restart(e)
    PROVE  rv' \in [Ends -> RvSet] /\ rv'[e] = NoRecv /\ \A c \in Ends \ {e} : rv'[c] = rv[c]
<1>1. rv \in [Ends -> RvSet] /\ NoRecv \in RvSet
  BY TypedHas, Fresh
<1> QED BY <1>1 DEF Restart

\* Recv returns a single frame.
LEMMA TypedRecvSingleFrame ==
    ASSUME Typed, NEW e \in Ends, RecvSingleFrame(e)
    PROVE  Typed' /\ ReceiverStep(e)
<1> DEFINE f == Head(rx[e])
<1>1. /\ UNCHANGED <<setting, up, lost, rv, tx, payloads, result>> /\ rx' = Rest(e)
      /\ Deliver(e, <<f.seg>>) /\ rx[e] # <<>> /\ f.type = "SF"
  BY DEF RecvSingleFrame, Arrived
<1>2. Rest(e) \in [Ends -> RxSet] /\ f \in Frames
  BY <1>1, RestIs
<1>3. f.seg \in Segments
  BY <1>1, <1>2, FrameIs
<1>4. <<f.seg>> \in Seq(Segments)
  BY <1>3
<1>5. /\ delivered' \in [Ends -> Seq(Seq(Segments))]
      /\ \A c \in Ends \ {e} : delivered'[c] = delivered[c]
  BY <1>1, <1>4, DeliverIs
<1>6. Typed'
  BY <1>1, <1>2, <1>5, TypedHas, TypedStays
<1> QED BY <1>1, <1>5, <1>6 DEF ReceiverStep

\* A first frame starts a message, and is answered.
LEMMA TypedRecvFirstFrame ==
    ASSUME Typed, NEW e \in Ends, RecvFirstFrame(e)
    PROVE  Typed' /\ ReceiverStep(e)
<1> DEFINE f == Head(rx[e])
           r == [pc |-> "cf", length |-> f.length, buf |-> <<f.seg>>,
                 have |-> f.seg.size, sn |-> 1, block |-> 0]
<1>1. /\ UNCHANGED <<setting, up, tx, payloads, result, delivered>>
      /\ Put(e, Rest(e), FC("CTS", setting.block[e]))
      /\ rv' = [rv EXCEPT ![e] = r] /\ rx[e] # <<>> /\ f.type = "FF"
  BY DEF RecvFirstFrame, Arrived
<1>2. Rest(e) \in [Ends -> RxSet] /\ f \in Frames
  BY <1>1, RestIs
<1>3. f.seg \in Segments /\ f.length \in 8 .. MaxPayload
  BY <1>1, <1>2, FrameIs
<1>4. rx' \in [Ends -> RxSet] /\ lost' \in BOOLEAN
  <2>1. setting.block[e] \in 0 .. 255
    BY TypedSetting
  <2>2. /\ FC("CTS", setting.block[e]) \in Frames
        /\ ~Data(FC("CTS", setting.block[e]))
    BY <2>1, AnswersAre
  <2> QED BY <1>1, <1>2, <2>2, PutIs
<1>5. r \in RvSet
  <2>1. f.seg.size \in 0 .. 7
    BY <1>3 DEF Segments
  <2>2. 1 \in 0 .. setting.sns - 1
    BY TypedSetting
  <2>3. /\ f.length \in 0 .. MaxPayload /\ f.seg.size \in 0 .. MaxPayload /\ 0 \in 0 .. MaxPayload
        /\ f.seg.size < f.length /\ 0 <= f.seg.size /\ <<f.seg>> \in Seq(Segments)
    BY <1>3, <2>1, PayloadsAre
  <2> HIDE DEF f
  <2>4. r \in RecvStates /\ r.have < r.length /\ r.block <= r.have
    BY <2>2, <2>3 DEF RecvStates
  <2> QED BY <2>4 DEF RvSet
<1>6. rv' \in [Ends -> RvSet] /\ \A c \in Ends \ {e} : rv'[c] = rv[c]
  <2>1. rv \in [Ends -> RvSet]
    BY TypedHas
  <2> HIDE DEF r
  <2> QED BY <1>1, <1>5, <2>1
<1>7. Typed'
  BY <1>1, <1>4, <1>6, TypedHas, TypedStays
<1> HIDE DEF r
<1> QED BY <1>1, <1>6, <1>7 DEF ReceiverStep

\* Recv gives the message up, with or without a frame taken from its channel.
LEMMA TypedRestart ==
    ASSUME Typed, NEW e \in Ends, Restart(e), rx' = rx \/ (rx[e] # <<>> /\ rx' = Rest(e)),
           UNCHANGED <<setting, up, lost, tx, payloads, result, delivered>>
    PROVE  Typed' /\ ReceiverStep(e)
<1>1. rx' \in [Ends -> RxSet]
  BY RestIs, TypedHas
<1>2. rv' \in [Ends -> RvSet] /\ \A c \in Ends \ {e} : rv'[c] = rv[c]
  BY RestartIs
<1>3. Typed'
  BY <1>1, <1>2, TypedHas, TypedStays
<1> QED BY <1>2, <1>3 DEF ReceiverStep

\* The consecutive frame that is due, and what Recv makes of it.
LEMMA ChunkIs ==
    ASSUME Typed, NEW e \in Ends, rv[e].pc = "cf", Arrived(e, "CF")
    PROVE  /\ Rest(e) \in [Ends -> RxSet] /\ Head(rx[e]) \in Frames /\ rx[e] # <<>>
           /\ Head(rx[e]).type = "CF" /\ Head(rx[e]).seg \in Segments
           /\ rv[e] \in RecvStates /\ rv[e].buf \in Seq(Segments)
           /\ rv[e].have \in Nat /\ rv[e].length \in 0 .. MaxPayload /\ rv[e].have < rv[e].length
           /\ rv[e].block \in Nat /\ rv[e].block <= rv[e].have /\ rv[e].sn \in Nat
           /\ Chunk(e) \in Segments /\ Chunk(e).n = Head(rx[e]).seg.n
           /\ Chunk(e).i = Head(rx[e]).seg.i /\ Chunk(e).size \in 1 .. 7
           /\ Chunk(e).size = Least(Head(rx[e]).seg.size, rv[e].length - rv[e].have)
           /\ rv[e].have + Chunk(e).size <= rv[e].length
           /\ Grown(e) \in Seq(Segments)
<1> DEFINE seg == Head(rx[e]).seg
           room == rv[e].length - rv[e].have
<1>1. /\ rx[e] # <<>> /\ Head(rx[e]).type = "CF" /\ Head(rx[e]) \in Frames
      /\ Rest(e) \in [Ends -> RxSet] /\ seg.size >= 1
  BY RestIs DEF Arrived, Data
<1>2. seg \in Segments
  BY <1>1, FrameIs
<1>3. /\ rv[e] \in RecvStates /\ rv[e].have < rv[e].length /\ rv[e].block <= rv[e].have
  <2>1. rv[e] \in RvSet
    BY TypedHas
  <2> QED BY <2>1 DEF RvSet
<1>4. /\ rv[e].have \in Nat /\ rv[e].length \in 0 .. MaxPayload /\ rv[e].block \in Nat
      /\ rv[e].buf \in Seq(Segments) /\ rv[e].sn \in Nat
  <2>1. setting.sns \in Nat \ {0, 1}
    BY TypedSetting
  <2> QED BY <1>3, <2>1, PayloadsAre DEF RecvStates
<1>5. Least(seg.size, room) \in 1 .. 7 /\ Least(seg.size, room) <= room
  <2>1. seg.size \in 1 .. 7
    BY <1>1, <1>2 DEF Segments
  <2>2. room \in Nat /\ room >= 1
    BY <1>3, <1>4, PayloadsAre
  <2> HIDE DEF seg, room
  <2> QED BY <2>1, <2>2 DEF Least
<1>6. /\ Chunk(e) = [seg EXCEPT !.size = Least(seg.size, room)]
  BY DEF Chunk
<1>7. /\ Chunk(e) \in Segments /\ Chunk(e).n = seg.n /\ Chunk(e).i = seg.i
      /\ Chunk(e).size = Least(seg.size, room)
  <2> DEFINE w == Least(seg.size, room)
  <2>1. w \in 0 .. 7 /\ Chunk(e) = [seg EXCEPT !.size = w]
    BY <1>5, <1>6
  <2> HIDE DEF seg, w
  <2>2. Chunk(e) \in Segments /\ Chunk(e).n = seg.n /\ Chunk(e).i = seg.i /\ Chunk(e).size = w
    BY <1>2, <2>1 DEF Segments
  <2> QED BY <2>2 DEF w
<1>8. Grown(e) \in Seq(Segments)
  BY <1>4, <1>7, Appended DEF Grown
<1>9. Chunk(e).size \in 1 .. 7 /\ rv[e].have + Chunk(e).size <= rv[e].length
  <2> HIDE DEF seg
  <2> QED BY <1>4, <1>5, <1>7, PayloadsAre
<1> QED BY <1>1, <1>2, <1>3, <1>4, <1>7, <1>8, <1>9

\* Recv returns the message the last consecutive frame completes.
LEMMA TypedRecvLast ==
    ASSUME Typed, NEW e \in Ends, RecvLast(e)
    PROVE  Typed' /\ ReceiverStep(e)
<1>1. /\ UNCHANGED <<setting, up, lost, tx, payloads, result>> /\ rx' = Rest(e)
      /\ Deliver(e, Grown(e)) /\ Restart(e) /\ rv[e].pc = "cf" /\ Arrived(e, "CF")
  BY DEF RecvLast
<1>2. Rest(e) \in [Ends -> RxSet] /\ Grown(e) \in Seq(Segments)
  BY <1>1, ChunkIs
<1>3. /\ delivered' \in [Ends -> Seq(Seq(Segments))]
      /\ \A c \in Ends \ {e} : delivered'[c] = delivered[c]
  BY <1>1, <1>2, DeliverIs
<1>4. rv' \in [Ends -> RvSet] /\ \A c \in Ends \ {e} : rv'[c] = rv[c]
  BY <1>1, RestartIs
<1>5. Typed'
  BY <1>1, <1>2, <1>3, <1>4, TypedHas, TypedStays
<1> QED BY <1>1, <1>3, <1>4, <1>5 DEF ReceiverStep

\* Recv gathers another consecutive frame and stays short of the length.
LEMMA TypedRecvConsecutiveFrame ==
    ASSUME Typed, NEW e \in Ends, RecvConsecutiveFrame(e)
    PROVE  Typed' /\ ReceiverStep(e)
<1> DEFINE b == IF BlockReceived(e) THEN 0 ELSE rv[e].block + 1
           h == rv[e].have + Chunk(e).size
           w == (rv[e].sn + 1) % setting.sns
           r == [rv[e] EXCEPT !.buf = Grown(e), !.have = h, !.sn = w, !.block = b]
<1>1. /\ UNCHANGED <<setting, up, tx, payloads, result, delivered>>
      /\ rv[e].pc = "cf" /\ Arrived(e, "CF") /\ ~Completes(e)
      /\ IF BlockReceived(e) THEN Put(e, Rest(e), FC("CTS", setting.block[e]))
         ELSE rx' = Rest(e) /\ UNCHANGED lost
  BY DEF RecvConsecutiveFrame
<1>r. rv' = [rv EXCEPT ![e] = r]
  BY DEF RecvConsecutiveFrame
<1>2. /\ Rest(e) \in [Ends -> RxSet] /\ Grown(e) \in Seq(Segments)
      /\ rv[e] \in RecvStates /\ rv[e].have \in Nat /\ rv[e].length \in 0 .. MaxPayload
      /\ rv[e].block \in Nat /\ rv[e].block <= rv[e].have /\ rv[e].sn \in Nat
      /\ Chunk(e).size \in 1 .. 7 /\ h <= rv[e].length
  BY <1>1, ChunkIs
<1>3. rx' \in [Ends -> RxSet] /\ lost' \in BOOLEAN
  <2>1. setting.block[e] \in 0 .. 255 /\ lost \in BOOLEAN
    BY TypedSetting, TypedHas
  <2>2. /\ FC("CTS", setting.block[e]) \in Frames
        /\ ~Data(FC("CTS", setting.block[e]))
    BY <2>1, AnswersAre
  <2>3. CASE BlockReceived(e)
    BY <1>1, <1>2, <2>2, <2>3, PutIs
  <2>4. CASE ~BlockReceived(e)
    <3>1. rx' = Rest(e) /\ lost' = lost
      BY <1>1, <2>4
    <3> QED BY <1>2, <2>1, <3>1
  <2> QED BY <2>3, <2>4
<1>4. r \in RvSet
  <2>1. w \in 0 .. setting.sns - 1
    <3>1. PICK sns \in Nat \ {0} : sns = setting.sns
      BY TypedSetting
    <3>2. PICK sn \in Nat : sn = rv[e].sn + 1
      BY <1>2
    <3>3. sn % sns \in 0 .. sns - 1
      OBVIOUS
    <3> QED BY <3>1, <3>2, <3>3
  <2>2. b \in Nat /\ b <= h /\ h \in Nat /\ h < rv[e].length
    <3>0. rv[e].length \in Nat
      BY <1>2, PayloadsAre
    <3>1. h <= rv[e].length
      BY <1>2
    <3>2. ~(h >= rv[e].length)
      BY <1>1 DEF Completes
    <3>3. h \in Nat /\ rv[e].block + 1 <= h
      <4> DEFINE size == Chunk(e).size
      <4>1. size \in Nat /\ size >= 1
        BY <1>2
      <4> HIDE DEF size
      <4>2. rv[e].have + size \in Nat /\ rv[e].block + 1 <= rv[e].have + size
        BY <4>1, <1>2
      <4> QED BY <4>2 DEF size
    <3>4. h < rv[e].length
      <4> HIDE DEF h
      <4> QED BY <3>0, <3>1, <3>2, <3>3
    <3>5. b \in Nat /\ b <= h
      <4> HIDE DEF h
      <4>1. b = 0 \/ b = rv[e].block + 1
        OBVIOUS
      <4> QED BY <1>2, <3>3, <4>1
    <3> QED BY <3>3, <3>4, <3>5
  <2>3. b \in 0 .. MaxPayload /\ h \in 0 .. MaxPayload
    <3> HIDE DEF b, h
    <3> QED BY <1>2, <2>2, PayloadsAre
  <2> HIDE DEF b, h, w
  <2>4. r \in RecvStates
    <3> DEFINE L == 0 .. MaxPayload
               N == 0 .. setting.sns - 1
               B == Seq(Segments)
               S == [pc : {"first", "cf"}, length : L, buf : B, have : L, sn : N, block : L]
    <3>1. rv[e] \in S /\ RecvStates = S
      BY <1>2 DEF RecvStates
    <3>2. Grown(e) \in B /\ h \in L /\ w \in N /\ b \in L
      BY <1>2, <2>1, <2>3
    <3> HIDE DEF L, N, B
    <3> QED BY <3>1, <3>2
  <2>5. r.have = h /\ r.block = b /\ r.length = rv[e].length
    BY <1>2 DEF RecvStates
  <2> HIDE DEF r
  <2> QED BY <2>2, <2>4, <2>5 DEF RvSet
<1>5. rv' \in [Ends -> RvSet] /\ \A c \in Ends \ {e} : rv'[c] = rv[c]
  <2>1. rv \in [Ends -> RvSet]
    BY TypedHas
  <2> HIDE DEF r
  <2> QED BY <1>r, <1>4, <2>1
<1>6. Typed'
  BY <1>1, <1>3, <1>5, TypedHas, TypedStays
<1> HIDE DEF r
<1> QED BY <1>1, <1>5, <1>6 DEF ReceiverStep

-----------------------------------------------------------------------------
(* Every step keeps the types. *)

\* A frame goes out and nothing else happens.
LEMMA TypedForeignFC ==
    ASSUME Typed, NEW e \in Ends, ForeignFC(e)
    PROVE  Typed' /\ SenderStep(e) /\ ReceiverStep(e)
<1>1. PICK status \in {"CTS", "Wait", "Overflow"} : Put(e, rx, FC(status, setting.block[e]))
  BY DEF ForeignFC
<1>2. UNCHANGED <<setting, up, tx, payloads, result, rv, delivered>>
  BY DEF ForeignFC
<1>3. rx' \in [Ends -> RxSet] /\ lost' \in BOOLEAN
  <2>1. setting.block[e] \in 0 .. 255 /\ rx \in [Ends -> RxSet]
    BY TypedSetting, TypedHas
  <2>2. /\ FC(status, setting.block[e]) \in Frames
        /\ ~Data(FC(status, setting.block[e]))
    BY <2>1, AnswersAre
  <2> QED BY <1>1, <2>1, <2>2, PutIs
<1>4. Typed'
  BY <1>2, <1>3, TypedHas, TypedStays
<1> QED BY <1>2, <1>4 DEF SenderStep, ReceiverStep

\* Every step of Send keeps the types, and leaves the other end and Recv alone.
LEMMA TypedSend ==
    ASSUME Typed, NEW e \in Ends, SendCall(e) \/ SendStep(e)
    PROVE  Typed' /\ SenderStep(e)
<1>1. CASE SendCall(e)
  <2>1. PICK length \in setting.lengths[e] :
            SendOnClosed(e, length) \/ SendSingleFrame(e, length) \/ SendFirstFrame(e, length)
    BY <1>1 DEF SendCall
  <2>2. length \in 1 .. MaxPayload
    BY TypedSetting
  <2> QED BY <2>1, <2>2, TypedSendOnClosed, TypedSendSingleFrame, TypedSendFirstFrame
<1>2. CASE SkipToFC(e)
  BY <1>2, TypedSkip DEF SkipToFC
<1>3. CASE FirstFC(e) \/ FCAfterWait(e) \/ FCAfterBlock(e)
  BY <1>3, TypedFC
<1>4. CASE SendConsecutiveFrame(e)
  BY <1>4, TypedSendConsecutiveFrame
<1>5. CASE SendFails(e)
  BY <1>5, TypedSendFails
<1> QED BY <1>1, <1>2, <1>3, <1>4, <1>5 DEF SendStep

\* Every step of Recv keeps the types, and leaves the other end and Send alone.
LEMMA TypedRecv ==
    ASSUME Typed, NEW e \in Ends, RecvStep(e)
    PROVE  Typed' /\ ReceiverStep(e)
<1>1. CASE RecvStray(e) \/ RecvFirstFrameOnClosed(e) \/ SkipToCF(e)
  <2>1. /\ rx[e] # <<>> /\ rx' = Rest(e)
        /\ UNCHANGED <<setting, up, lost, tx, rv, payloads, result, delivered>>
    BY <1>1 DEF RecvStray, RecvFirstFrameOnClosed, SkipToCF, Arrived
  <2> QED BY <2>1, TypedSkip
<1>2. CASE RecvWrongSN(e) \/ RecvBlockOnClosed(e) \/ RecvFails(e)
  <2>1. /\ Restart(e) /\ (rx' = rx \/ (rx[e] # <<>> /\ rx' = Rest(e)))
        /\ UNCHANGED <<setting, up, lost, tx, payloads, result, delivered>>
    BY <1>2 DEF RecvWrongSN, RecvBlockOnClosed, RecvFails, Arrived
  <2> QED BY <2>1, TypedRestart
<1> QED BY <1>1, <1>2, TypedRecvSingleFrame, TypedRecvFirstFrame, TypedRecvLast,
           TypedRecvConsecutiveFrame DEF RecvStep

\* The type invariant is inductive.
LEMMA TypeStep == TypeInv /\ [Next]_vars => TypeInv'
<1> SUFFICES ASSUME Typed, [Next]_vars PROVE Typed'
  <2>1. TypeInv' <=> Typed'
    BY TypedIs, PTL
  <2> QED BY <2>1, TypedIs
<1>1. ASSUME NEW e \in Ends, SendCall(e) \/ SendStep(e) PROVE Typed'
  BY <1>1, TypedSend
<1>2. ASSUME NEW e \in Ends, RecvStep(e) PROVE Typed'
  BY <1>2, TypedRecv
<1>3. ASSUME NEW e \in Ends, ForeignRead(e) PROVE Typed'
  BY <1>3, TypedSkip DEF ForeignRead
<1>4. ASSUME NEW e \in Ends, ForeignFC(e) PROVE Typed'
  BY <1>4, TypedForeignFC
<1>5. CASE Close
  <2>1. UNCHANGED <<setting, rx, lost, tx, payloads, result, rv, delivered>> /\ up' = FALSE
    BY <1>5 DEF Close
  <2> QED BY <2>1, TypedStays DEF Typed
<1>6. CASE UNCHANGED vars
  <2>1. UNCHANGED <<setting, up, rx, lost, tx, payloads, result, rv, delivered>>
    BY <1>6 DEF vars
  <2> QED BY <2>1, TypedStays DEF Typed
<1> QED BY <1>1, <1>2, <1>3, <1>4, <1>5, <1>6 DEF Next, AllDone

\* It holds at the start.
LEMMA TypeInit == Init => TypeInv
<1> SUFFICES ASSUME Init PROVE Typed
  BY TypedIs
<1>1. setting \in Settings /\ up = TRUE /\ lost = FALSE
  BY DEF Init
<1>2. \A S : <<>> \in Seq(S) /\ Len(<<>>) = 0 /\ DOMAIN <<>> = {}
  OBVIOUS
<1>3. <<>> \in RxSet
  <2>1. setting.depth \in Nat
    BY <1>1, SettingIs
  <2> QED BY <1>2, <2>1 DEF RxSet
<1> QED BY <1>1, <1>2, <1>3, FreshAtFirst DEF Typed, Init

\* TypeOK (IsoTp): every variable keeps its type, Send never overshoots its payload and
\* what Recv has gathered is always short of the length the first frame declared.
THEOREM TypeCorrect == Spec => []TypeOK
<1>1. Spec => []TypeInv
  BY TypeInit, TypeStep, PTL DEF Spec
<1>2. TypeInv => TypeOK
  BY DEF TypeInv
<1> QED BY <1>1, <1>2, PTL

-----------------------------------------------------------------------------
(* One direction: what is known of its variables. *)

\* What is in a channel.
LEMMA ChannelHas ==
    ASSUME Typed, NEW p \in Ends
    PROVE  /\ rx[p] \in Seq(Frames) /\ Len(rx[p]) \in Nat /\ DOMAIN rx[p] = 1 .. Len(rx[p])
           /\ \A i \in DOMAIN rx[p] :
                 /\ rx[p][i] \in Frames /\ rx[p][i].type \in {"SF", "FF", "CF", "FC"}
                 /\ Data(rx[p][i]) => rx[p][i].seg.n \in Nat /\ rx[p][i].seg.i \in Nat
<1>1. rx[p] \in Seq(Frames)
  <2>1. rx[p] \in RxSet
    BY TypedHas
  <2> QED BY <2>1 DEF RxSet
<1>2. \A i \in 1 .. Len(rx[p]) : rx[p][i] \in Frames
  BY <1>1, ElementOfSeq
<1>3. Len(rx[p]) \in Nat /\ DOMAIN rx[p] = 1 .. Len(rx[p])
  BY <1>1, LenProperties
<1>4. ASSUME NEW i \in DOMAIN rx[p]
      PROVE  /\ rx[p][i] \in Frames /\ rx[p][i].type \in {"SF", "FF", "CF", "FC"}
             /\ Data(rx[p][i]) => rx[p][i].seg.n \in Nat /\ rx[p][i].seg.i \in Nat
  <2> DEFINE f == rx[p][i]
  <2>1. f \in Frames
    BY <1>2, <1>3
  <2> HIDE DEF f
  <2>2. f.type \in {"SF", "FF", "CF", "FC"} /\ (f.type # "FC" => f.seg \in Segments)
    BY <2>1, FrameIs
  <2>3. f.type # "FC" => f.seg.n \in Nat /\ f.seg.i \in Nat
    BY <2>2 DEF Segments
  <2> QED BY <2>1, <2>2, <2>3 DEF f, Data
<1> QED BY <1>1, <1>3, <1>4

\* The domain of a channel after a step.
LEMMA ChannelHasNext ==
    ASSUME Typed', NEW p \in Ends
    PROVE  Len(rx'[p]) \in Nat /\ DOMAIN rx'[p] = 1 .. Len(rx'[p])
<1>1. rx' \in [Ends -> RxSet']
  BY DEF Typed
<1>2. rx'[p] \in RxSet'
  BY <1>1
<1>3. rx'[p] \in Seq(Frames')
  BY <1>2 DEF RxSet
<1> QED BY <1>3, LenProperties

\* How far Send is.
LEMMA SendHas ==
    ASSUME Typed, NEW e \in Ends
    PROVE  /\ tx[e].pc \in {"idle", "first", "loop", "resume", "block"}
           /\ tx[e].sent \in Nat /\ tx[e].length \in Nat /\ tx[e].block \in Nat
           /\ tx[e].fc \in FlowControls /\ tx[e].fc.bs \in 0 .. 255
           /\ tx[e].pc \in {"first", "loop", "resume"} => ~AllSent(e)
<1>1. tx[e] \in TxSet
  BY TypedHas
<1>2. tx[e] \in SendStates /\ (tx[e].pc \in {"first", "loop", "resume"} => ~AllSent(e))
  BY <1>1 DEF TxSet, AllSent
<1>3. /\ tx[e].pc \in {"idle", "first", "loop", "resume", "block"}
      /\ tx[e].sent \in Nat /\ tx[e].length \in Nat /\ tx[e].block \in Nat
      /\ tx[e].fc \in FlowControls
  BY <1>2, PayloadsAre DEF SendStates
<1>4. tx[e].fc.bs \in 0 .. 255
  BY <1>3 DEF FlowControls
<1> QED BY <1>2, <1>3, <1>4

\* What Recv has.
LEMMA RecvHas ==
    ASSUME Typed, NEW p \in Ends
    PROVE  /\ rv[p].pc \in {"first", "cf"} /\ rv[p].have \in Nat /\ rv[p].length \in Nat
           /\ rv[p].block \in Nat /\ rv[p].buf \in Seq(Segments)
           /\ Len(rv[p].buf) \in Nat /\ DOMAIN rv[p].buf = 1 .. Len(rv[p].buf)
           /\ \A j \in 1 .. Len(rv[p].buf) :
                 /\ rv[p].buf[j] \in Segments
                 /\ rv[p].buf[j].n \in Nat /\ rv[p].buf[j].i \in Nat
<1>1. rv[p] \in RvSet
  BY TypedHas
<1>2. rv[p] \in RecvStates
  BY <1>1 DEF RvSet
<1>3. /\ rv[p].pc \in {"first", "cf"} /\ rv[p].have \in Nat /\ rv[p].length \in Nat
      /\ rv[p].block \in Nat /\ rv[p].buf \in Seq(Segments)
  BY <1>2, PayloadsAre DEF RecvStates
<1>4. /\ Len(rv[p].buf) \in Nat /\ DOMAIN rv[p].buf = 1 .. Len(rv[p].buf)
      /\ \A j \in 1 .. Len(rv[p].buf) : rv[p].buf[j] \in Segments
  BY <1>3, LenProperties, ElementOfSeq
<1>5. \A j \in 1 .. Len(rv[p].buf) : rv[p].buf[j].n \in Nat /\ rv[p].buf[j].i \in Nat
  BY <1>4 DEF Segments
<1> QED BY <1>3, <1>4, <1>5

\* What Recv has returned.
LEMMA DeliveredHas ==
    ASSUME Typed, NEW p \in Ends
    PROVE  /\ delivered[p] \in Seq(Seq(Segments)) /\ Len(delivered[p]) \in Nat
           /\ DOMAIN delivered[p] = 1 .. Len(delivered[p])
<1> DEFINE S == Seq(Segments)
<1>1. delivered[p] \in Seq(S)
  BY TypedHas
<1> HIDE DEF S
<1>2. Len(delivered[p]) \in Nat /\ DOMAIN delivered[p] = 1 .. Len(delivered[p])
  BY <1>1, LenProperties
<1> QED BY <1>1, <1>2 DEF S

-----------------------------------------------------------------------------
(* Steps that only take from a direction: frames of its channels are read or *)
(* lost to the other direction, and Recv may give up.                        *)

KeptData(q, r) ==
    \E k \in {0, 1} : \A i \in DOMAIN r : Data(r[i]) => i + k \in DOMAIN q /\ r[i] = q[i + k]
KeptFCs(q, r) ==
    \E k \in {0, 1} : \A i \in DOMAIN r :
        r[i].type = "FC" => i + k \in DOMAIN q /\ r[i] = q[i + k]

Thinned(e, p) ==
    /\ UNCHANGED <<setting, tx[e], payloads[e], result[e], delivered[p]>>
    /\ rv'[p] = rv[p] \/ rv'[p].pc = "first"
    /\ KeptData(rx[p], rx'[p])
    /\ p \notin Foreign => KeptFCs(rx[e], rx'[e])

\* A step that only takes from a direction keeps its invariant.
LEMMA ThinnedKeeps ==
    ASSUME Typed, Typed', NEW e \in Ends, NEW p \in Ends, DirInv(e, p), Thinned(e, p)
    PROVE  DirInv(e, p)'
<1>1. /\ setting' = setting /\ tx'[e] = tx[e] /\ payloads'[e] = payloads[e]
      /\ result'[e] = result[e] /\ delivered'[p] = delivered[p]
      /\ rv'[p] = rv[p] \/ rv'[p].pc = "first"
  BY DEF Thinned
<1>2. PICK k \in {0, 1} : \A i \in DOMAIN rx'[p] :
          Data(rx'[p][i]) => i + k \in DOMAIN rx[p] /\ rx'[p][i] = rx[p][i + k]
  BY DEF Thinned, KeptData
<1>3. /\ DOMAIN rx[p] = 1 .. Len(rx[p]) /\ Len(rx[p]) \in Nat
      /\ DOMAIN rx'[p] = 1 .. Len(rx'[p]) /\ Len(rx'[p]) \in Nat
  <2>1. DOMAIN rx'[p] = 1 .. Len(rx'[p]) /\ Len(rx'[p]) \in Nat
    BY ChannelHasNext
  <2> QED BY <2>1, ChannelHas
<1>d. SendInv(e) /\ QueueInv(e, p) /\ RecvInv(e, p) /\ FlowInv(e, p) /\ DeliveredInv(e, p)
  BY DEF DirInv
<1>a. p \notin Foreign => (Answered(e)' => Answered(e))
  BY DEF Thinned, KeptFCs, Answered
<1>b. (Failed(e)' <=> Failed(e)) /\ Number(e)' = Number(e) /\ Due(e)' = Due(e)
      /\ (AllSent(e)' <=> AllSent(e))
  BY <1>1 DEF Failed, Number, Due, AllSent
<1>4. SendInv(e)'
  BY <1>1, <1>b, <1>d DEF SendInv
<1>5. QueueInv(e, p)'
  <2> SUFFICES ASSUME NEW i \in DOMAIN rx'[p], Data(rx'[p][i])
               PROVE  LET s == rx'[p][i].seg IN
                      /\ IsPart(rx'[p][i], payloads'[e])
                      /\ (s.n = Number(e)' /\ tx'[e].pc # "idle") => s.i < Due(e)'
                      /\ \A j \in 1 .. i - 1 : Data(rx'[p][j]) => Before(rx'[p][j].seg, s)
                      /\ rv'[p].pc = "cf" => Before(LastOf(rv'[p].buf), s)
                      /\ \A j \in DOMAIN delivered'[p] : delivered'[p][j][1].n < s.n
    BY DEF QueueInv, Data
  <2>1. i + k \in DOMAIN rx[p] /\ rx'[p][i] = rx[p][i + k] /\ Data(rx[p][i + k])
    BY <1>2
  <2> DEFINE s == rx[p][i + k].seg
  <2>2. /\ IsPart(rx[p][i + k], payloads[e])
        /\ (s.n = Number(e) /\ tx[e].pc # "idle") => s.i < Due(e)
        /\ \A j \in 1 .. (i + k) - 1 : Data(rx[p][j]) => Before(rx[p][j].seg, s)
        /\ rv[p].pc = "cf" => Before(LastOf(rv[p].buf), s)
        /\ \A j \in DOMAIN delivered[p] : delivered[p][j][1].n < s.n
    BY <1>d, <2>1 DEF QueueInv
  <2>3. ASSUME NEW j \in 1 .. i - 1, Data(rx'[p][j]) PROVE Before(rx'[p][j].seg, s)
    <3>1. j \in DOMAIN rx'[p] /\ j + k \in 1 .. (i + k) - 1
      BY <1>3
    <3>2. rx'[p][j] = rx[p][j + k]
      BY <1>2, <2>3, <3>1
    <3> QED BY <2>2, <2>3, <3>1, <3>2
  <2> HIDE DEF s
  <2> QED BY <1>1, <1>b, <2>1, <2>2, <2>3 DEF s
<1>6. RecvInv(e, p)'
  <2>1. CASE rv'[p].pc = "first"
    BY <1>1, <1>d, <2>1 DEF RecvInv
  <2>2. CASE rv'[p] = rv[p] /\ rv[p].pc = "cf"
    <3>1. p \in Receivers /\ p \notin Foreign
      <4>1. p \in Receivers
        BY <1>d, <2>2 DEF RecvInv
      <4> QED BY <4>1, TypedHas, SettingIs
    <3>2. \A i \in DOMAIN rx'[p] : rx'[p][i].type = "CF" => rx'[p][i].seg.n = rv[p].buf[1].n
      BY <1>2, <1>d, <2>2 DEF RecvInv, Data
    <3> QED BY <1>1, <1>a, <1>b, <1>d, <2>2, <3>1, <3>2 DEF RecvInv, Exact, Behind
  <2> QED BY <1>1, <2>1, <2>2, RecvHas
<1>7. FlowInv(e, p)'
  <2> SUFFICES ASSUME p \notin Foreign PROVE FlowInv(e, p)'
    BY <1>1 DEF FlowInv
  <2>1. PICK m \in {0, 1} : \A i \in DOMAIN rx'[e] :
            rx'[e][i].type = "FC" => i + m \in DOMAIN rx[e] /\ rx'[e][i] = rx[e][i + m]
    BY DEF Thinned, KeptFCs
  <2>2. \A i \in DOMAIN rx'[e] : rx'[e][i].type = "FC" => rx'[e][i] = FC("CTS", setting.block[p])
    BY <1>d, <2>1 DEF FlowInv
  <2>3. \A i \in DOMAIN rx'[p] : rx'[p][i].type = "FF" =>
              /\ rx'[p][i].seg.n = Number(e) /\ tx[e].pc \in {"idle", "first"}
              /\ (tx[e].pc = "idle" => Failed(e)) /\ ~Answered(e)
    BY <1>d, <1>2 DEF FlowInv, Data
  <2>4. ~Failed(e) => \A i, j \in DOMAIN rx'[e] :
              rx'[e][i].type = "FC" /\ rx'[e][j].type = "FC" => i = j
    <3> SUFFICES ASSUME ~Failed(e), NEW i \in DOMAIN rx'[e], NEW j \in DOMAIN rx'[e],
                        rx'[e][i].type = "FC", rx'[e][j].type = "FC"
                 PROVE  i = j
      OBVIOUS
    <3>1. i + m = j + m
      BY <1>d, <2>1 DEF FlowInv
    <3>2. i \in Nat /\ j \in Nat
      BY ChannelHasNext
    <3> QED BY <3>1, <3>2
  <2>5. CASE rv'[p].pc = "first"
    BY <1>1, <1>a, <1>b, <1>d, <2>2, <2>3, <2>4, <2>5 DEF FlowInv
  <2>6. CASE rv'[p] = rv[p]
    BY <1>1, <1>a, <1>b, <1>d, <2>2, <2>3, <2>4, <2>6 DEF FlowInv
  <2> QED BY <1>1, <2>5, <2>6
<1>8. DeliveredInv(e, p)'
  BY <1>1, <1>b, <1>d DEF DeliveredInv
<1> QED BY <1>4, <1>5, <1>6, <1>7, <1>8 DEF DirInv

-----------------------------------------------------------------------------
(* Send gets a payload. *)

\* A part of a payload is a part of it when there are more.
LEMMA PartStays ==
    ASSUME NEW f, NEW pl, NEW more, DOMAIN pl \subseteq DOMAIN more,
           \A n \in DOMAIN pl : more[n] = pl[n], IsPart(f, pl)
    PROVE  IsPart(f, more)
BY DEF IsPart

\* The channel with a frame more.
LEMMA ChannelGrows ==
    ASSUME Typed, NEW p \in Ends, NEW f \in Frames, rx'[p] = Append(rx[p], f)
    PROVE  /\ DOMAIN rx'[p] = 1 .. Len(rx[p]) + 1 /\ Len(rx[p]) \in Nat
           /\ DOMAIN rx[p] = 1 .. Len(rx[p])
           /\ rx'[p][Len(rx[p]) + 1] = f /\ \A i \in 1 .. Len(rx[p]) : rx'[p][i] = rx[p][i]
BY ChannelHas, Appended

\* What the call puts into the channel.
Opens(f, n, pl, pc) ==
    /\ f \in Frames /\ f.type \in {"SF", "FF"} /\ f.seg.n = n /\ f.seg.i = 0
    /\ IsPart(f, pl) /\ (f.type = "FF" => pc = "first")

\* A new payload keeps the invariant, whatever has become of the frame that opens it.
LEMMA SubmitKeeps ==
    ASSUME Typed, Typed', NEW e \in Ends, NEW p \in Ends, DirInv(e, p),
           ~Failed(e), tx[e].pc = "idle",
           NEW length, length \in 1 .. MaxPayload, Submit(e, length),
           setting' = setting, rv' = rv, delivered' = delivered, rx'[e] = rx[e],
           NEW f, \/ rx'[p] = rx[p]
                  \/ rx'[p] = Append(rx[p], f) /\ Opens(f, Number(e) + 1, payloads'[e], tx'[e].pc),
           tx'[e].pc \in {"idle", "first"}, tx'[e].fc.status = "CTS", SendInv(e)'
    PROVE  DirInv(e, p)'
<1>d. SendInv(e) /\ QueueInv(e, p) /\ RecvInv(e, p) /\ FlowInv(e, p) /\ DeliveredInv(e, p)
  BY DEF DirInv
<1> DEFINE N == Number(e)
           L == Len(rx[p])
<1>1. /\ N \in Nat /\ Number(e)' = N + 1 /\ DOMAIN payloads[e] = 1 .. N
      /\ DOMAIN payloads'[e] = 1 .. N + 1
      /\ \A n \in 1 .. N : payloads'[e][n] = payloads[e][n]
  BY SubmitIs
<1>2. /\ DOMAIN rx[p] = 1 .. L /\ L \in Nat /\ 1 .. L \subseteq DOMAIN rx'[p]
      /\ \A i \in 1 .. L : rx'[p][i] = rx[p][i]
      /\ \A i \in DOMAIN rx'[p] :
            \/ i \in 1 .. L
            \/ i = L + 1 /\ rx'[p][i] = f /\ Opens(f, N + 1, payloads'[e], tx'[e].pc)
  <2>1. DOMAIN rx[p] = 1 .. L /\ L \in Nat
    BY ChannelHas
  <2>2. CASE rx'[p] = rx[p]
    <3>1. DOMAIN rx'[p] = 1 .. L /\ \A i \in 1 .. L : rx'[p][i] = rx[p][i]
      BY <2>1, <2>2
    <3> HIDE DEF L
    <3> QED BY <2>1, <3>1
  <2>3. CASE rx'[p] = Append(rx[p], f) /\ Opens(f, N + 1, payloads'[e], tx'[e].pc)
    <3>1. f \in Frames
      BY <2>3 DEF Opens
    <3>2. /\ DOMAIN rx'[p] = 1 .. L + 1 /\ rx'[p][L + 1] = f
          /\ \A i \in 1 .. L : rx'[p][i] = rx[p][i]
      BY <2>3, <3>1, ChannelGrows
    <3> HIDE DEF L
    <3>3. \A i \in 1 .. L + 1 : i \in 1 .. L \/ i = L + 1
      BY <2>1
    <3>4. 1 .. L \subseteq 1 .. L + 1
      BY <2>1
    <3> QED BY <2>1, <2>3, <3>2, <3>3, <3>4
  <2> QED BY <2>2, <2>3
<1>3. \A i \in 1 .. L : Data(rx[p][i]) => rx[p][i].seg.n \in 1 .. N
  BY <1>d, <1>1, <1>2 DEF QueueInv, IsPart
<1>4. Answered(e)' <=> Answered(e)
  BY DEF Answered
<1>5. rv[p].pc = "cf" => LastOf(rv[p].buf).n \in 1 .. N /\ rv[p].buf[1].n \in 1 .. N
  BY <1>d, <1>1 DEF RecvInv
<1>6. p \notin Foreign => ~Answered(e)
  BY <1>d DEF FlowInv
<1>7. p \in Receivers => p \notin Foreign
  BY TypedHas, SettingIs
<1>8. \A i \in DOMAIN rx'[p] : rx'[p][i].type = "CF" => i \in 1 .. L
  BY <1>2 DEF Opens
<1>9. QueueInv(e, p)'
  <2> SUFFICES ASSUME NEW i \in DOMAIN rx'[p], Data(rx'[p][i])
               PROVE  LET s == rx'[p][i].seg IN
                      /\ IsPart(rx'[p][i], payloads'[e])
                      /\ (s.n = Number(e)' /\ tx'[e].pc # "idle") => s.i < Due(e)'
                      /\ \A j \in 1 .. i - 1 : Data(rx'[p][j]) => Before(rx'[p][j].seg, s)
                      /\ rv'[p].pc = "cf" => Before(LastOf(rv'[p].buf), s)
                      /\ \A j \in DOMAIN delivered'[p] : delivered'[p][j][1].n < s.n
    BY DEF QueueInv, Data
  <2> DEFINE s == rx'[p][i].seg
  <2>1. CASE i \in 1 .. L
    <3>1. rx'[p][i] = rx[p][i] /\ Data(rx[p][i])
      BY <1>2, <2>1
    <3>2. /\ IsPart(rx[p][i], payloads[e])
          /\ \A j \in 1 .. i - 1 : Data(rx[p][j]) => Before(rx[p][j].seg, s)
          /\ rv[p].pc = "cf" => Before(LastOf(rv[p].buf), s)
          /\ \A j \in DOMAIN delivered[p] : delivered[p][j][1].n < s.n
      BY <1>d, <1>2, <2>1, <3>1 DEF QueueInv
    <3>3. IsPart(rx'[p][i], payloads'[e])
      <4> DEFINE g == rx[p][i]
                 pl == payloads[e]
                 more == payloads'[e]
      <4>1. DOMAIN pl \subseteq DOMAIN more /\ \A n \in DOMAIN pl : more[n] = pl[n]
        BY <1>1
      <4>2. IsPart(g, pl)
        BY <3>2
      <4> HIDE DEF g, pl, more
      <4>3. IsPart(g, more)
        BY <4>1, <4>2, PartStays
      <4> QED BY <3>1, <4>3 DEF g, more
    <3>4. s.n # Number(e)'
      BY <1>1, <1>3, <2>1, <3>1
    <3>5. \A j \in 1 .. i - 1 : rx'[p][j] = rx[p][j]
      BY <1>2, <2>1
    <3> QED BY <3>2, <3>3, <3>4, <3>5
  <2>2. CASE i = L + 1 /\ rx'[p][i] = f /\ Opens(f, N + 1, payloads'[e], tx'[e].pc)
    <3>1. IsPart(rx'[p][i], payloads'[e]) /\ s.n = N + 1 /\ s.i = 0
      BY <2>2 DEF Opens
    <3>2. tx'[e].pc # "idle" => s.i < Due(e)'
      <4>1. tx'[e].pc = "first" => ~AllSent(e)' /\ tx'[e].sent = 6
        BY DEF SendInv
      <4>2. tx'[e].pc = "first" => Due(e)' = (6 + 1) \div 7
        BY <4>1 DEF Due
      <4>3. (6 + 1) \div 7 = 1
        OBVIOUS
      <4> QED BY <3>1, <4>2, <4>3
    <3>3. ASSUME NEW j \in 1 .. i - 1, Data(rx'[p][j]) PROVE Before(rx'[p][j].seg, s)
      <4>1. j \in 1 .. L /\ rx'[p][j] = rx[p][j]
        BY <1>2, <2>2
      <4> QED BY <1>1, <1>3, <3>1, <3>3, <4>1 DEF Before
    <3>4. rv'[p].pc = "cf" => Before(LastOf(rv'[p].buf), s)
      BY <1>1, <1>5, <3>1 DEF Before
    <3>5. \A j \in DOMAIN delivered'[p] : delivered'[p][j][1].n < s.n
      BY <1>1, <1>d, <3>1 DEF DeliveredInv
    <3> QED BY <3>1, <3>2, <3>3, <3>4, <3>5
  <2> QED BY <1>2, <2>1, <2>2
<1>10. RecvInv(e, p)'
  <2>1. CASE rv[p].pc = "first"
    BY <1>d, <2>1 DEF RecvInv
  <2>2. CASE rv[p].pc = "cf"
    <3>1. p \in Receivers
      BY <1>d, <2>2 DEF RecvInv
    <3>2. ~Answered(e)'
      BY <1>4, <1>6, <1>7, <3>1
    <3>3. \A i \in DOMAIN rx'[p] : rx'[p][i].type = "CF" => rx'[p][i].seg.n = rv[p].buf[1].n
      BY <1>2, <1>8, <1>d, <2>2 DEF RecvInv
    <3>4. rv[p].buf[1].n # N + 1 /\ payloads'[e][rv[p].buf[1].n] = payloads[e][rv[p].buf[1].n]
          /\ rv[p].buf[1].n \in DOMAIN payloads'[e]
      BY <1>1, <1>5, <2>2
    <3> QED BY <1>1, <1>d, <2>2, <3>1, <3>2, <3>3, <3>4 DEF RecvInv, Exact, Behind
  <2> QED BY <2>1, <2>2, RecvHas
<1>11. FlowInv(e, p)'
  <2> SUFFICES ASSUME p \notin Foreign PROVE FlowInv(e, p)'
    BY DEF FlowInv
  <2>1. ~Answered(e)'
    BY <1>4, <1>6
  <2>2. \A i \in DOMAIN rx'[p] : rx'[p][i].type = "FF" =>
              /\ rx'[p][i].seg.n = N + 1 /\ tx'[e].pc = "first"
    BY <1>d, <1>2 DEF FlowInv, Opens
  <2>3. \A i \in DOMAIN rx'[e] : rx'[e][i].type # "FC"
    BY <2>1 DEF Answered
  <2>4. rv[p].pc = "cf" =>
            /\ rv[p].buf[1].n # N + 1
            /\ \/ setting.block[p] = 0
               \/ rv[p].block + CFCount(rv[p].length) - LastOf(rv[p].buf).i < setting.block[p]
    <3>1. rv[p].pc = "cf" => rv[p].buf[1].n < N \/ rv[p].buf[1].n = N
      BY <1>1, <1>5
    <3> QED BY <1>1, <1>5, <1>d, <3>1 DEF FlowInv
  <2> QED BY <1>1, <2>1, <2>2, <2>3, <2>4 DEF FlowInv
<1>12. DeliveredInv(e, p)'
  BY <1>1, <1>d DEF DeliveredInv
<1> QED BY <1>9, <1>10, <1>11, <1>12 DEF DirInv

\* A caller that may send has not failed, and Send is idle.
LEMMA MayIs ==
    ASSUME ~setting.retries, NEW e \in Ends, MaySend(e)
    PROVE  ~Failed(e) /\ tx[e].pc = "idle" /\ e \notin Foreign
BY DEF MaySend, Failed

\* The frames that start a payload are its parts.
LEMMA OpenersAre ==
    ASSUME NEW n \in Nat, NEW pl, n \in DOMAIN pl, pl[n] \in 1 .. MaxPayload
    PROVE  /\ pl[n] <= 7 => IsPart(SF(Segment(n, 0, pl[n])), pl)
           /\ pl[n] > 7 => IsPart(FF(Segment(n, 0, 6), pl[n]), pl)
<1> DEFINE s == Segment(n, 0, pl[n])
           u == Segment(n, 0, 6)
<1>1. s.n = n /\ u.n = n
  BY DEF Segment
<1> HIDE DEF s, u
<1>2. SF(s).seg = s /\ SF(s).type = "SF"
  BY DEF SF
<1>3. FF(u, pl[n]).seg = u /\ FF(u, pl[n]).type = "FF" /\ FF(u, pl[n]).length = pl[n]
  BY DEF FF
<1>4. pl[n] <= 7 => IsPart(SF(s), pl)
  <2>1. s = Segment(s.n, 0, pl[n])
    BY <1>1 DEF s
  <2> QED BY <1>1, <1>2, <2>1 DEF IsPart
<1>5. pl[n] > 7 => IsPart(FF(u, pl[n]), pl)
  <2>1. u = Segment(u.n, 0, 6)
    BY <1>1 DEF u
  <2> QED BY <1>1, <1>3, <2>1 DEF IsPart
<1> QED BY <1>4, <1>5 DEF s, u

\* A call of Send keeps it.
LEMMA CallKeeps ==
    ASSUME Typed, ~setting.retries, NEW e \in Ends, SendCall(e), DirInv(e, Peer(e))
    PROVE  DirInv(e, Peer(e))'
<1> DEFINE p == Peer(e)
           n == Number(e) + 1
<1>1. p \in Ends /\ p # e /\ Peer(p) = e
  BY PeerIs
<1>2. Typed' /\ SenderStep(e)
  BY TypedSend
<1>3. PICK length \in setting.lengths[e] :
          SendOnClosed(e, length) \/ SendSingleFrame(e, length) \/ SendFirstFrame(e, length)
  BY DEF SendCall
<1>4. length \in 1 .. MaxPayload
  BY TypedSetting
<1>5. Submit(e, length) /\ MaySend(e)
  BY <1>3 DEF SendOnClosed, SendSingleFrame, SendFirstFrame
<1>6. ~Failed(e) /\ tx[e].pc = "idle" /\ e \notin Foreign
  BY <1>5, MayIs
<1>7. setting' = setting /\ rv' = rv /\ delivered' = delivered
  BY <1>2 DEF SenderStep
<1>8. /\ Number(e) \in Nat /\ Number(e)' = n /\ DOMAIN payloads'[e] = 1 .. n
      /\ payloads'[e][n] = length /\ n \in DOMAIN payloads'[e]
  BY <1>4, <1>5, SubmitIs
<1>9. NoSend.pc = "idle" /\ NoSend.fc.status = "CTS"
  BY DEF NoSend, FC
<1>10. CASE SendOnClosed(e, length)
  <2>1. rx' = rx /\ Returns(e, "failed")
    BY <1>10 DEF SendOnClosed
  <2>2. tx'[e] = NoSend
    BY <2>1, ReturnsIs
  <2>3. SendInv(e)'
    BY <1>9, <2>2 DEF SendInv
  <2> HIDE DEF p
  <2> QED BY <1>1, <1>2, <1>4, <1>5, <1>6, <1>7, <1>9, <2>1, <2>2, <2>3, SubmitKeeps DEF p
<1>11. CASE SendSingleFrame(e, length)
  <2> DEFINE f == SF(Segment(n, 0, length))
  <2>1. Put(e, rx, f) /\ Returns(e, "ok") /\ length <= 7
    BY <1>11 DEF SendSingleFrame
  <2>2. tx'[e] = NoSend
    BY <2>1, ReturnsIs
  <2>3. SendInv(e)'
    <3>1. ~Failed(e)' \/ tx'[e].pc = "idle"
      BY <1>9, <2>2
    <3> QED BY <1>9, <2>2, <3>1 DEF SendInv
  <2>4. n \in Nat /\ 0 \in Nat /\ length \in 1 .. 7
    BY <1>4, <1>8, <2>1, PayloadsAre
  <2>5. f \in Frames /\ f.seg.size >= 1
    BY <2>4, FramesAre
  <2>6. f.type = "SF" /\ f.seg.n = n /\ f.seg.i = 0
    BY DEF SF, Segment
  <2>7. IsPart(f, payloads'[e])
    BY <1>4, <1>8, <2>1, <2>4, OpenersAre
  <2>8. Opens(f, n, payloads'[e], tx'[e].pc)
    <3> HIDE DEF f
    <3> QED BY <2>5, <2>6, <2>7 DEF Opens
  <2>9. rx \in [Ends -> RxSet]
    BY TypedHas
  <2>10. rx'[e] = rx[e] /\ (rx'[p] = rx[p] \/ rx'[p] = Append(rx[p], f))
    <3> HIDE DEF f
    <3> QED BY <2>1, <2>5, <2>9, PutIs
  <2> HIDE DEF p, f
  <2> QED BY <1>1, <1>2, <1>4, <1>5, <1>6, <1>7, <1>9, <2>2, <2>3, <2>8, <2>10, SubmitKeeps DEF p
<1>12. CASE SendFirstFrame(e, length)
  <2> DEFINE f == FF(Segment(n, 0, 6), length)
             t == [NoSend EXCEPT !.pc = "first", !.length = length, !.sent = 6]
  <2>1. Put(e, rx, f) /\ Continues(e, t) /\ length > 7
    BY <1>12 DEF SendFirstFrame
  <2>2. tx'[e] = t /\ result' = result
    <3>1. tx \in [Ends -> TxSet]
      BY TypedHas
    <3> HIDE DEF t
    <3> QED BY <2>1, <3>1 DEF Continues
  <2>3. /\ t.pc = "first" /\ t.length = length /\ t.sent = 6 /\ t.block = 0
        /\ t.fc.status = "CTS"
    BY DEF NoSend, FC
  <2>4. SendInv(e)'
    <3>1. ~Failed(e)' /\ e \notin Foreign' /\ Number(e)' > 0
      BY <1>6, <1>7, <1>8, <2>2 DEF Failed
    <3>2. ~AllSent(e)' /\ Due(e)' = (6 + 1) \div 7
      BY <1>4, <2>1, <2>2, <2>3, PayloadsAre DEF AllSent, Due
    <3>3. (6 + 1) \div 7 = 1
      OBVIOUS
    <3> HIDE DEF t
    <3> QED BY <1>8, <2>1, <2>2, <2>3, <3>1, <3>2, <3>3 DEF SendInv
  <2>5. n \in Nat /\ 0 \in Nat /\ 6 \in 1 .. 7 /\ length \in 8 .. MaxPayload
    BY <1>4, <1>8, <2>1, PayloadsAre
  <2>6. f \in Frames /\ f.seg.size >= 1
    BY <2>5, FramesAre
  <2>7. f.type = "FF" /\ f.seg.n = n /\ f.seg.i = 0
    BY DEF FF, Segment
  <2>8. IsPart(f, payloads'[e])
    BY <1>4, <1>8, <2>1, <2>5, OpenersAre
  <2>9. Opens(f, n, payloads'[e], tx'[e].pc)
    <3> HIDE DEF f, t
    <3> QED BY <2>2, <2>3, <2>6, <2>7, <2>8 DEF Opens
  <2>10. rx \in [Ends -> RxSet]
    BY TypedHas
  <2>11. rx'[e] = rx[e] /\ (rx'[p] = rx[p] \/ rx'[p] = Append(rx[p], f))
    <3> HIDE DEF f
    <3> QED BY <2>1, <2>6, <2>10, PutIs
  <2> HIDE DEF p, f, t
  <2> QED BY <1>1, <1>2, <1>4, <1>5, <1>6, <1>7, <2>2, <2>3, <2>4, <2>9, <2>11, SubmitKeeps DEF p
<1> QED BY <1>3, <1>10, <1>11, <1>12

-----------------------------------------------------------------------------
(* Send reads a flow control. *)

\* A flow control is read: no frame of data is.
LEMMA FCRead ==
    ASSUME Typed, Typed', NEW e \in Ends, rx[e] # <<>>, rx' = Rest(e), Head(rx[e]).type = "FC"
    PROVE  /\ \A c \in Ends \ {e} : rx'[c] = rx[c]
           /\ DOMAIN rx[e] = 1 .. Len(rx[e]) /\ Len(rx[e]) \in Nat /\ 1 \in DOMAIN rx[e]
           /\ DOMAIN rx'[e] = 1 .. Len(rx[e]) - 1
           /\ \A i \in DOMAIN rx'[e] : rx'[e][i] = rx[e][i + 1] /\ i + 1 \in DOMAIN rx[e]
           /\ rx[e][1] = Head(rx[e]) /\ Answered(e)
<1>1. rx[e] \in Seq(Frames)
  BY ChannelHas
<1>2. rx'[e] = Tail(rx[e]) /\ \A c \in Ends \ {e} : rx'[c] = rx[c]
  BY RestIs
<1>3. /\ DOMAIN rx[e] = 1 .. Len(rx[e]) /\ Len(rx[e]) \in Nat /\ Len(rx[e]) > 0
      /\ DOMAIN rx'[e] = 1 .. Len(rx[e]) - 1 /\ Head(rx[e]) = rx[e][1]
      /\ \A i \in 1 .. Len(rx[e]) - 1 : rx'[e][i] = rx[e][i + 1]
  BY <1>1, <1>2, Shortened
<1> QED BY <1>2, <1>3 DEF Answered

\* While a flow control is on its way Recv is where Send is.
LEMMA AnswerMeans ==
    ASSUME Typed, NEW e \in Ends, NEW p \in Ends, DirInv(e, p),
           Answered(e), tx[e].pc # "idle", p \notin Foreign
    PROVE  /\ tx[e].pc \in {"first", "block"} /\ tx[e].fc.status = "CTS"
           /\ \A i \in DOMAIN rx[e] : rx[e][i].type = "FC" => rx[e][i] = FC("CTS", setting.block[p])
           /\ \A i, j \in DOMAIN rx[e] : rx[e][i].type = "FC" /\ rx[e][j].type = "FC" => i = j
           /\ \A i \in DOMAIN rx[p] : rx[p][i].type # "FF"
           /\ rv[p].pc = "cf" =>
                 /\ rv[p].buf[1].n = Number(e) /\ rv[p].block = 0
                 /\ LastOf(rv[p].buf).i = Due(e) - 1
<1>1. SendInv(e) /\ RecvInv(e, p) /\ FlowInv(e, p)
  BY DEF DirInv
<1>2. ~Failed(e)
  BY <1>1 DEF SendInv
<1>3. rv[p].pc = "cf" => rv[p].buf[1].n = Number(e)
  <2>1. rv[p].pc = "cf" => rv[p].buf[1].n \in DOMAIN payloads[e] /\ ~(rv[p].buf[1].n < Number(e))
    BY <1>1 DEF RecvInv
  <2> QED BY <2>1, NumberIs
<1> QED BY <1>1, <1>2, <1>3 DEF FlowInv

\* What the flow control that is read leaves behind.
LEMMA AnsweredOnce ==
    ASSUME Typed, Typed', NEW e \in Ends, NEW p \in Ends, DirInv(e, p),
           rx[e] # <<>>, rx' = Rest(e), Head(rx[e]).type = "FC", tx[e].pc # "idle", p \notin Foreign
    PROVE  ~Answered(e)' /\ Head(rx[e]) = FC("CTS", setting.block[p])
<1>1. /\ DOMAIN rx[e] = 1 .. Len(rx[e]) /\ Len(rx[e]) \in Nat /\ 1 \in DOMAIN rx[e]
      /\ \A i \in DOMAIN rx'[e] : rx'[e][i] = rx[e][i + 1] /\ i + 1 \in DOMAIN rx[e]
      /\ rx[e][1] = Head(rx[e]) /\ Answered(e) /\ DOMAIN rx'[e] = 1 .. Len(rx[e]) - 1
  BY FCRead
<1>2. /\ \A i \in DOMAIN rx[e] : rx[e][i].type = "FC" => rx[e][i] = FC("CTS", setting.block[p])
      /\ \A i, j \in DOMAIN rx[e] : rx[e][i].type = "FC" /\ rx[e][j].type = "FC" => i = j
  BY <1>1, AnswerMeans
<1>3. ASSUME NEW i \in DOMAIN rx'[e], rx'[e][i].type = "FC" PROVE FALSE
  <2>1. i + 1 = 1 /\ i \in 1 .. Len(rx[e]) - 1
    BY <1>1, <1>2, <1>3
  <2> QED BY <1>1, <2>1
<1> QED BY <1>1, <1>2, <1>3 DEF Answered

\* Send goes on, or returns, after a flow control: Recv is where Send is, so both count
\* the frames of the next block from the same place.
LEMMA AnswerKeeps ==
    ASSUME Typed, Typed', NEW e \in Ends, NEW p \in Ends, p # e, DirInv(e, p), SenderStep(e),
           payloads' = payloads, rx[e] # <<>>, rx' = Rest(e), Head(rx[e]).type = "FC",
           tx[e].pc # "idle", SendInv(e)',
           tx'[e].pc # "idle" =>
               /\ tx'[e].pc \in {"loop", "resume"} /\ ~AllSent(e)
               /\ tx'[e].sent = tx[e].sent /\ tx'[e].length = tx[e].length,
           p \notin Foreign =>
               /\ tx'[e].pc \in {"loop", "idle"} /\ tx'[e].fc.status = "CTS"
               /\ tx'[e].pc = "loop" => tx'[e].fc.bs = setting.block[p] /\ tx'[e].block = 0
               /\ tx'[e].pc = "idle" => AllSent(e)
    PROVE  DirInv(e, p)'
<1>d. SendInv(e) /\ QueueInv(e, p) /\ RecvInv(e, p) /\ FlowInv(e, p) /\ DeliveredInv(e, p)
  BY DEF DirInv
<1>1. /\ setting' = setting /\ rv' = rv /\ delivered' = delivered
      /\ rx'[p] = rx[p] /\ Number(e)' = Number(e)
  BY FCRead DEF SenderStep, Number
<1>2. tx'[e].pc # "idle" => Due(e)' = Due(e) /\ ~AllSent(e)'
  BY DEF Due, AllSent
<1>3. p \notin Foreign => ~Answered(e)'
  BY AnsweredOnce
<1>4. QueueInv(e, p)'
  BY <1>1, <1>2, <1>d DEF QueueInv
<1>5. RecvInv(e, p)'
  <2>1. CASE rv[p].pc = "first"
    BY <1>1, <1>d, <2>1 DEF RecvInv
  <2>2. CASE rv[p].pc = "cf"
    <3>1. p \notin Foreign
      <4>1. p \in Receivers
        BY <1>d, <2>2 DEF RecvInv
      <4> QED BY <4>1, TypedHas, SettingIs
    <3>2. rv[p].buf[1].n = Number(e) /\ Answered(e)
      BY <2>2, <3>1, FCRead, AnswerMeans
    <3>3. Number(e) \in Nat
      BY NumberIs
    <3> QED BY <1>1, <1>2, <1>d, <2>2, <3>2, <3>3 DEF RecvInv, Exact, Behind
  <2> QED BY <2>1, <2>2, RecvHas
<1>6. FlowInv(e, p)'
  <2> SUFFICES ASSUME p \notin Foreign PROVE FlowInv(e, p)'
    BY <1>1 DEF FlowInv
  <2>1. /\ \A i \in DOMAIN rx[p] : rx[p][i].type # "FF" /\ tx[e].pc \in {"first", "block"}
        /\ rv[p].pc = "cf" =>
              /\ rv[p].buf[1].n = Number(e) /\ rv[p].block = 0
              /\ LastOf(rv[p].buf).i = Due(e) - 1
    BY FCRead, AnswerMeans
  <2>2. \A i \in DOMAIN rx'[e] : rx'[e][i].type # "FC"
    BY <1>3 DEF Answered
  <2>3. setting.block[p] \in Nat /\ Number(e) \in Nat
    BY BlockIs, NumberIs
  <2>4. (rv[p].pc = "cf" /\ tx'[e].pc # "idle") =>
            rv[p].block + Due(e)' - 1 - LastOf(rv[p].buf).i <= tx'[e].block
    <3> SUFFICES ASSUME rv[p].pc = "cf", tx'[e].pc # "idle"
                 PROVE  rv[p].block + Due(e)' - 1 - LastOf(rv[p].buf).i <= tx'[e].block
      OBVIOUS
    <3>1. tx'[e].block = 0 /\ Due(e)' = Due(e) /\ Due(e) \in Int
      BY <1>2, <1>d, SendHas DEF Due
    <3> QED BY <2>1, <3>1
  <2>5. (rv[p].pc = "cf" /\ tx'[e].pc = "idle") =>
            rv[p].block + CFCount(rv[p].length) - LastOf(rv[p].buf).i < setting.block[p]
    <3> SUFFICES ASSUME rv[p].pc = "cf", tx'[e].pc = "idle"
                 PROVE  rv[p].block + CFCount(rv[p].length) - LastOf(rv[p].buf).i < setting.block[p]
      OBVIOUS
    <3>1. AllSent(e) /\ tx[e].pc = "block"
      BY <1>d DEF SendInv
    <3>2. rv[p].length = tx[e].length /\ setting.block[p] > 0
      BY <1>d, <2>1, <3>1 DEF RecvInv, SendInv, FlowInv
    <3>3. Due(e) = CFCount(rv[p].length) + 1 /\ CFCount(rv[p].length) \in Int
      BY <3>1, <3>2, RecvHas DEF Due, CFCount
    <3> QED BY <2>1, <2>3, <3>2, <3>3
  <2> QED BY <1>1, <1>3, <2>1, <2>2, <2>3, <2>4, <2>5 DEF FlowInv
<1>7. DeliveredInv(e, p)'
  BY <1>1, <1>2, <1>d DEF DeliveredInv
<1> QED BY <1>4, <1>5, <1>6, <1>7 DEF DirInv

\* The three places where Send reads a flow control.
LEMMA FCKeeps ==
    ASSUME Typed, NEW e \in Ends, FirstFC(e) \/ FCAfterWait(e) \/ FCAfterBlock(e),
           DirInv(e, Peer(e))
    PROVE  DirInv(e, Peer(e))'
<1> DEFINE p == Peer(e)
           f == Head(rx[e])
<1>1. p \in Ends /\ p # e
  BY PeerIs
<1>2. Typed' /\ SenderStep(e)
  BY TypedFC
<1>3. /\ payloads' = payloads /\ rx' = Rest(e) /\ rx[e] # <<>> /\ f.type = "FC"
      /\ tx[e].pc # "idle"
  BY DEF FirstFC, FCAfterWait, FCAfterBlock, Arrived
<1>4. SendInv(e) /\ FlowInv(e, p)
  BY DEF DirInv
<1>5. p \notin Foreign =>
          /\ f.status = "CTS" /\ f.bs = setting.block[p] /\ tx[e].pc \in {"first", "block"}
          /\ tx[e].fc.status = "CTS"
  <2>1. p \notin Foreign => f = FC("CTS", setting.block[p])
    BY <1>1, <1>2, <1>3, AnsweredOnce
  <2>2. p \notin Foreign => tx[e].pc \in {"first", "block"} /\ tx[e].fc.status = "CTS"
    BY <1>1, <1>2, <1>3, FCRead, AnswerMeans
  <2> QED BY <2>1, <2>2 DEF FC
<1>6. tx[e] \in SendStates /\ tx \in [Ends -> TxSet]
  <2>1. tx[e] \in TxSet /\ tx \in [Ends -> TxSet]
    BY TypedHas
  <2> QED BY <2>1 DEF TxSet
<1>n. NoSend.pc = "idle" /\ NoSend.fc.status = "CTS"
  BY DEF NoSend, FC
<1>7. /\ tx'[e].pc # "idle" =>
            /\ tx'[e].pc \in {"loop", "resume"} /\ ~AllSent(e) /\ result' = result
            /\ tx'[e].sent = tx[e].sent /\ tx'[e].length = tx[e].length
      /\ p \notin Foreign =>
            /\ tx'[e].pc \in {"loop", "idle"} /\ tx'[e].fc.status = "CTS"
            /\ tx'[e].pc = "loop" => tx'[e].fc.bs = setting.block[p] /\ tx'[e].block = 0
            /\ tx'[e].pc = "idle" => AllSent(e)
  <2>1. CASE FirstFC(e)
    <3> DEFINE t == [tx[e] EXCEPT !.pc = "loop", !.fc = f]
    <3>1. /\ IF f.status = "Overflow" THEN Returns(e, "failed") ELSE Continues(e, t)
          /\ tx[e].pc = "first"
      BY <2>1 DEF FirstFC
    <3>2. /\ t.pc = "loop" /\ t.fc = f /\ t.sent = tx[e].sent /\ t.length = tx[e].length
          /\ t.block = tx[e].block
      BY <1>6 DEF SendStates
    <3>3. ~AllSent(e) /\ tx[e].block = 0
      BY <1>4, <3>1 DEF SendInv
    <3>4. CASE f.status = "Overflow"
      <4>1. tx'[e] = NoSend
        BY <3>1, <3>4, ReturnsIs
      <4> QED BY <1>5, <1>n, <3>4, <4>1
    <3>5. CASE f.status # "Overflow"
      <4>1. tx'[e] = t /\ result' = result
        <5> HIDE DEF t
        <5> QED BY <1>6, <3>1, <3>5 DEF Continues
      <4> HIDE DEF t
      <4> QED BY <1>5, <3>2, <3>3, <4>1
    <3> QED BY <3>4, <3>5
  <2>2. CASE FCAfterWait(e)
    <3> DEFINE t == [tx[e] EXCEPT !.pc = "resume", !.fc = f, !.block = 0]
    <3>1. Continues(e, t) /\ tx[e].pc = "loop" /\ tx[e].fc.status = "Wait"
      BY <2>2 DEF FCAfterWait
    <3>2. t.pc = "resume" /\ t.sent = tx[e].sent /\ t.length = tx[e].length
      BY <1>6 DEF SendStates
    <3>3. ~AllSent(e)
      BY <1>4, <3>1 DEF SendInv
    <3>4. tx'[e] = t /\ result' = result
      <4> HIDE DEF t
      <4> QED BY <1>6, <3>1 DEF Continues
    <3> HIDE DEF t
    <3> QED BY <1>5, <3>1, <3>2, <3>3, <3>4
  <2>3. CASE FCAfterBlock(e)
    <3> DEFINE t == [tx[e] EXCEPT !.pc = "loop", !.fc = f, !.block = 0]
    <3>1. IF AllSent(e) THEN Returns(e, "ok") ELSE Continues(e, t)
      BY <2>3 DEF FCAfterBlock
    <3>2. /\ t.pc = "loop" /\ t.fc = f /\ t.sent = tx[e].sent /\ t.length = tx[e].length
          /\ t.block = 0
      BY <1>6 DEF SendStates
    <3>3. CASE AllSent(e)
      <4>1. tx'[e] = NoSend
        BY <3>1, <3>3, ReturnsIs
      <4> QED BY <1>5, <1>n, <3>3, <4>1
    <3>4. CASE ~AllSent(e)
      <4>1. tx'[e] = t /\ result' = result
        <5> HIDE DEF t
        <5> QED BY <1>6, <3>1, <3>4 DEF Continues
      <4> HIDE DEF t
      <4> QED BY <1>5, <3>2, <3>4, <4>1
    <3> QED BY <3>3, <3>4
  <2> QED BY <2>1, <2>2, <2>3
<1>8. SendInv(e)'
  <2>1. CASE tx'[e].pc = "idle"
    BY <2>1 DEF SendInv
  <2>2. CASE tx'[e].pc # "idle"
    <3>1. /\ ~Failed(e)' /\ Number(e)' = Number(e) /\ Due(e)' = Due(e) /\ ~AllSent(e)'
          /\ ~AllSent(e) /\ Foreign' = Foreign
      BY <1>2, <1>3, <1>4, <1>7, <2>2 DEF SendInv, Failed, Number, Due, AllSent, SenderStep
    <3> QED BY <1>3, <1>4, <1>7, <2>2, <3>1 DEF SendInv
  <2> QED BY <2>1, <2>2
<1> HIDE DEF p
<1>9. DirInv(e, p)'
  BY <1>1, <1>2, <1>3, <1>7, <1>8, AnswerKeeps DEF p
<1> QED BY <1>9 DEF p

-----------------------------------------------------------------------------
(* Send fails, or sends a consecutive frame. *)

\* A Send that fails is the last: what Recv has of its payload stays incomplete.
LEMMA FailKeeps ==
    ASSUME Typed, NEW e \in Ends, SendFails(e), DirInv(e, Peer(e))
    PROVE  DirInv(e, Peer(e))'
<1> DEFINE p == Peer(e)
<1>1. p \in Ends /\ p # e
  BY PeerIs
<1>2. /\ UNCHANGED <<setting, up, rx, lost, payloads, rv, delivered>> /\ Returns(e, "failed")
  BY DEF SendFails
<1>3. tx'[e] = NoSend /\ result'[e] = Append(result[e], "failed")
  BY <1>2, ReturnsIs
<1>4. NoSend.pc = "idle" /\ NoSend.fc.status = "CTS"
  BY DEF NoSend, FC
<1>5. Failed(e)'
  <2>1. result[e] \in Seq({"ok", "failed"})
    BY TypedHas
  <2>2. /\ Len(result[e]) \in Nat /\ DOMAIN result'[e] = 1 .. Len(result[e]) + 1
        /\ result'[e][Len(result[e]) + 1] = "failed"
    BY <1>3, <2>1, Appended
  <2> QED BY <2>2 DEF Failed
<1>d. SendInv(e) /\ QueueInv(e, p) /\ RecvInv(e, p) /\ FlowInv(e, p) /\ DeliveredInv(e, p)
  BY DEF DirInv
<1>6. tx'[e].pc = "idle" /\ tx'[e].fc.status = "CTS" /\ Number(e)' = Number(e)
      /\ (Answered(e)' <=> Answered(e))
  BY <1>2, <1>3, <1>4 DEF Number, Answered
<1> HIDE DEF p
<1>7. SendInv(e)'
  BY <1>6 DEF SendInv
<1>8. QueueInv(e, p)'
  BY <1>2, <1>6, <1>d DEF QueueInv
<1>9. RecvInv(e, p)'
  BY <1>2, <1>6, <1>d DEF RecvInv, Exact, Behind
<1>10. FlowInv(e, p)'
  BY <1>2, <1>5, <1>6, <1>d DEF FlowInv
<1>11. DeliveredInv(e, p)'
  BY <1>2, <1>6, <1>d DEF DeliveredInv
<1> QED BY <1>7, <1>8, <1>9, <1>10, <1>11 DEF DirInv, p

\* The places of a payload's consecutive frames, counted from the bytes sent.
LEMMA Places ==
    ASSUME NEW sent \in Nat, NEW length \in Nat, NEW d \in Nat,
           d >= 1, sent = 7 * d - 1, sent < length
    PROVE  /\ CFCount(length) \in Nat /\ d \in 1 .. CFCount(length)
           /\ (sent + 1) \div 7 = d
           /\ Least(7, length - sent) = Least(7, length + 1 - 7 * d)
           /\ sent + Least(7, length - sent) >= length => CFCount(length) = d
           /\ sent + Least(7, length - sent) < length =>
                 /\ sent + Least(7, length - sent) = 7 * (d + 1) - 1
                 /\ (sent + Least(7, length - sent) + 1) \div 7 = d + 1
<1> DEFINE q == length \div 7
<1>1. q \in Nat /\ 7 * q <= length /\ length < 7 * q + 7
  OBVIOUS
<1>2. (sent + 1) \div 7 = d
  OBVIOUS
<1>3. d <= q /\ length - sent = length + 1 - 7 * d
  <2> HIDE DEF q
  <2> QED BY <1>1
<1>4. Least(7, length - sent) \in Nat
  BY DEF Least
<1>5. sent + Least(7, length - sent) >= length => q = d
  <2> HIDE DEF q
  <2> QED BY <1>1, <1>3 DEF Least
<1>6. sent + Least(7, length - sent) < length => sent + Least(7, length - sent) = 7 * (d + 1) - 1
  BY DEF Least
<1>7. (7 * (d + 1) - 1 + 1) \div 7 = d + 1
  OBVIOUS
<1> QED BY <1>1, <1>2, <1>3, <1>5, <1>6, <1>7 DEF CFCount

\* A consecutive frame goes out: it is the part of the payload that is due.
LEMMA ConsecutiveKeeps ==
    ASSUME Typed, NEW e \in Ends, SendConsecutiveFrame(e), DirInv(e, Peer(e))
    PROVE  DirInv(e, Peer(e))'
<1> DEFINE p == Peer(e)
           L == Len(rx[p])
           N == Number(e)
           d == Due(e)
           length == tx[e].length
           size == Least(7, length - tx[e].sent)
           pc == IF BlockFull(e) THEN "block" ELSE "loop"
           t == [tx[e] EXCEPT !.pc = pc, !.sent = @ + size, !.sn = NextSN(e), !.block = @ + 1]
           f == CF(Segment(N, (tx[e].sent + 1) \div 7, size), tx[e].sn)
           last == tx[e].sent + size >= length
           ends == last /\ ~BlockFull(e)
<1>d. SendInv(e) /\ QueueInv(e, p) /\ RecvInv(e, p) /\ FlowInv(e, p) /\ DeliveredInv(e, p)
  BY DEF DirInv
<1>1. p \in Ends /\ p # e
  BY PeerIs
<1>2. Typed' /\ SenderStep(e)
  BY TypedSendConsecutiveFrame
<1>3. /\ payloads' = payloads /\ CanSendCF(e) /\ Put(e, rx, f)
      /\ IF ends THEN Returns(e, "ok") ELSE Continues(e, t)
  BY DEF SendConsecutiveFrame
<1>4. setting' = setting /\ rv' = rv /\ delivered' = delivered
  BY <1>2 DEF SenderStep
<1>5. tx[e].pc \in {"loop", "resume"} /\ (tx[e].pc = "loop" => tx[e].fc.status # "Wait")
  BY <1>3 DEF CanSendCF
<1>6. /\ tx[e].sent \in Nat /\ length \in Nat /\ tx[e].block \in Nat /\ tx[e].sent < length
      /\ tx[e].fc.bs \in 0 .. 255 /\ tx[e] \in SendStates /\ tx \in [Ends -> TxSet]
  <2>1. tx[e] \in TxSet /\ tx \in [Ends -> TxSet]
    BY TypedHas
  <2>2. tx[e] \in SendStates
    BY <2>1 DEF TxSet
  <2> QED BY <1>5, <2>1, <2>2, SendHas DEF AllSent
<1>7. /\ ~AllSent(e) /\ tx[e].sent = 7 * d - 1 /\ d >= 1 /\ d \in Nat
      /\ N > 0 /\ N \in Nat /\ DOMAIN payloads[e] = 1 .. N
      /\ length = payloads[e][N] /\ length > 7 /\ e \notin Foreign /\ ~Failed(e)
  <2>1. ~AllSent(e)
    BY <1>6 DEF AllSent
  <2>2. d \in Int /\ 0 <= d
    <3>1. d = (tx[e].sent + 1) \div 7
      BY <2>1 DEF Due
    <3> QED BY <1>6, <3>1
  <2> QED BY <1>d, <1>5, <2>1, <2>2, NumberIs DEF SendInv
<1>8. /\ CFCount(length) \in Nat /\ d \in 1 .. CFCount(length) /\ (tx[e].sent + 1) \div 7 = d
      /\ size = Least(7, length + 1 - 7 * d)
      /\ last => CFCount(length) = d
      /\ ~last => tx[e].sent + size = 7 * (d + 1) - 1 /\ (tx[e].sent + size + 1) \div 7 = d + 1
  <2> DEFINE sent == tx[e].sent
  <2>1. sent \in Nat /\ length \in Nat /\ d \in Nat /\ d >= 1 /\ sent = 7 * d - 1 /\ sent < length
    BY <1>6, <1>7
  <2> HIDE DEF sent, length, d
  <2>2. /\ CFCount(length) \in Nat /\ d \in 1 .. CFCount(length)
        /\ (sent + 1) \div 7 = d
        /\ Least(7, length - sent) = Least(7, length + 1 - 7 * d)
        /\ sent + Least(7, length - sent) >= length => CFCount(length) = d
        /\ sent + Least(7, length - sent) < length =>
              /\ sent + Least(7, length - sent) = 7 * (d + 1) - 1
              /\ (sent + Least(7, length - sent) + 1) \div 7 = d + 1
    BY <2>1, Places
  <2>3. Least(7, length - sent) \in Int
    BY <2>1 DEF Least
  <2> QED BY <2>1, <2>2, <2>3 DEF sent
<1>9. f.type = "CF" /\ f.seg = Segment(N, d, size) /\ f.seg.n = N /\ f.seg.i = d /\ f.seg.size = size
  BY <1>8 DEF CF, Segment
<1>10. f \in Frames /\ f.seg.size >= 1
  <2>1. size \in 1 .. 7
    BY <1>6, PayloadsAre DEF Least
  <2>2. tx[e].sn \in 0 .. setting.sns - 1
    BY <1>6 DEF SendStates
  <2> HIDE DEF size, d
  <2> QED BY <1>7, <1>8, <2>1, <2>2, FramesAre
<1>11. IsPart(f, payloads[e])
  <2> HIDE DEF f, d, size
  <2> QED BY <1>7, <1>8, <1>9 DEF IsPart
<1>12. rx'[e] = rx[e] /\ (rx'[p] = rx[p] \/ rx'[p] = Append(rx[p], f))
  <2>1. rx \in [Ends -> RxSet]
    BY TypedHas
  <2> HIDE DEF f
  <2> QED BY <1>3, <1>10, <2>1, PutIs
<1>13. /\ DOMAIN rx[p] = 1 .. L /\ L \in Nat /\ 1 .. L \subseteq DOMAIN rx'[p]
       /\ \A i \in 1 .. L : rx'[p][i] = rx[p][i]
       /\ \A i \in DOMAIN rx'[p] : i \in 1 .. L \/ (i = L + 1 /\ rx'[p][i] = f)
  <2>1. DOMAIN rx[p] = 1 .. L /\ L \in Nat
    BY <1>1, ChannelHas
  <2>2. CASE rx'[p] = rx[p]
    <3>1. DOMAIN rx'[p] = 1 .. L /\ \A i \in 1 .. L : rx'[p][i] = rx[p][i]
      BY <2>1, <2>2
    <3> HIDE DEF L, f
    <3> QED BY <2>1, <3>1
  <2>3. CASE rx'[p] = Append(rx[p], f)
    <3> HIDE DEF f, p
    <3>2. /\ DOMAIN rx'[p] = 1 .. L + 1 /\ rx'[p][L + 1] = f
          /\ \A i \in 1 .. L : rx'[p][i] = rx[p][i]
      BY <1>1, <1>10, <2>3, ChannelGrows
    <3> HIDE DEF L
    <3>3. \A i \in 1 .. L + 1 : i \in 1 .. L \/ i = L + 1
      BY <2>1
    <3>4. 1 .. L \subseteq 1 .. L + 1
      BY <2>1
    <3> QED BY <2>1, <3>2, <3>3, <3>4
  <2> QED BY <1>12, <2>2, <2>3
<1>14. /\ tx'[e].pc \in {"idle", "loop", "block"} /\ (tx'[e].pc = "idle" <=> ends)
       /\ ~Failed(e)' /\ Number(e)' = N
       /\ tx'[e].pc # "idle" =>
             /\ tx'[e].length = length /\ tx'[e].sent = tx[e].sent + size
             /\ tx'[e].block = tx[e].block + 1 /\ tx'[e].fc = tx[e].fc
             /\ tx'[e].pc = pc
  <2>1. Number(e)' = N
    BY <1>3 DEF Number
  <2>2. CASE ends
    <3>1. tx'[e] = NoSend /\ result'[e] = Append(result[e], "ok")
      <4> HIDE DEF t, ends
      <4> QED BY <1>3, <2>2, ReturnsIs
    <3>2. ~Failed(e)'
      <4>1. result[e] \in Seq({"ok", "failed"})
        BY TypedHas
      <4>2. /\ Len(result[e]) \in Nat /\ DOMAIN result'[e] = 1 .. Len(result[e]) + 1
            /\ DOMAIN result[e] = 1 .. Len(result[e])
            /\ result'[e][Len(result[e]) + 1] = "ok"
            /\ \A i \in 1 .. Len(result[e]) : result'[e][i] = result[e][i]
        BY <3>1, <4>1, Appended
      <4>3. \A i \in 1 .. Len(result[e]) + 1 : i \in 1 .. Len(result[e]) \/ i = Len(result[e]) + 1
        BY <4>2
      <4> QED BY <1>7, <4>2, <4>3 DEF Failed
    <3> HIDE DEF ends
    <3> QED BY <2>1, <2>2, <3>1, <3>2 DEF NoSend
  <2>3. CASE ~ends
    <3>1. tx'[e] = t /\ result' = result
      <4> HIDE DEF t, ends
      <4> QED BY <1>3, <1>6, <2>3 DEF Continues
    <3>2. /\ t.pc = pc /\ t.length = length /\ t.sent = tx[e].sent + size
          /\ t.block = tx[e].block + 1 /\ t.fc = tx[e].fc
      <4> HIDE DEF pc, size
      <4> QED BY <1>6 DEF SendStates
    <3>3. pc \in {"loop", "block"}
      OBVIOUS
    <3>4. ~Failed(e)'
      BY <1>7, <3>1 DEF Failed
    <3> HIDE DEF t, ends, pc, size
    <3> QED BY <2>1, <2>3, <3>1, <3>2, <3>3, <3>4
  <2> QED BY <2>2, <2>3
<1>15. /\ tx'[e].pc # "idle" => Due(e)' = d + 1
       /\ tx'[e].pc # "idle" /\ ~AllSent(e)' => tx'[e].sent = 7 * (d + 1) - 1
       /\ AllSent(e)' /\ tx'[e].pc # "idle" => tx'[e].pc = "block"
       /\ tx'[e].pc = "idle" => CFCount(length) = d /\ ~BlockFull(e)
  <2>1. tx'[e].pc # "idle" => (AllSent(e)' <=> last)
    BY <1>14 DEF AllSent
  <2>2. tx'[e].pc # "idle" /\ last => Due(e)' = CFCount(length) + 1
    BY <1>14, <2>1 DEF Due
  <2>3. tx'[e].pc # "idle" /\ ~last => Due(e)' = (tx[e].sent + size + 1) \div 7
    BY <1>14, <2>1 DEF Due
  <2> HIDE DEF size, d, length
  <2> QED BY <1>8, <1>14, <2>1, <2>2, <2>3
<1> HIDE DEF p, L, N, d, length, size, f, last, t
<1>16. SendInv(e)'
  <2>1. CASE tx'[e].pc = "idle"
    BY <2>1 DEF SendInv
  <2>2. CASE tx'[e].pc # "idle"
    BY <1>3, <1>4, <1>7, <1>14, <1>15, <2>2 DEF SendInv
  <2> QED BY <2>1, <2>2
<1>17. \A i \in 1 .. L : Data(rx[p][i]) => Before(rx[p][i].seg, f.seg)
  <2> SUFFICES ASSUME NEW i \in 1 .. L, Data(rx[p][i]) PROVE Before(rx[p][i].seg, f.seg)
    OBVIOUS
  <2>1. rx[p][i].seg.n \in 1 .. N /\ (rx[p][i].seg.n = N => rx[p][i].seg.i < d)
    BY <1>5, <1>7, <1>13, <1>d DEF QueueInv, IsPart, N, d
  <2> QED BY <1>7, <1>9, <2>1 DEF Before
<1>18. rv[p].pc = "cf" => rv[p].buf[1].n = N /\ LastOf(rv[p].buf).n = N /\ LastOf(rv[p].buf).i < d
                         /\ LastOf(rv[p].buf).i \in Nat
  <2> SUFFICES ASSUME rv[p].pc = "cf"
               PROVE  rv[p].buf[1].n = N /\ LastOf(rv[p].buf).n = N /\ LastOf(rv[p].buf).i < d
                      /\ LastOf(rv[p].buf).i \in Nat
    OBVIOUS
  <2>1. /\ rv[p].buf[1].n \in 1 .. N /\ LastOf(rv[p].buf).n = rv[p].buf[1].n
        /\ ~(rv[p].buf[1].n < N) /\ LastOf(rv[p].buf).i \in 0 .. CFCount(rv[p].length)
        /\ (rv[p].buf[1].n = N => LastOf(rv[p].buf).i < d)
    BY <1>5, <1>7, <1>d DEF RecvInv, N, d
  <2>2. rv[p].buf[1].n = N
    BY <1>7, <2>1
  <2> QED BY <2>1, <2>2
<1>19. QueueInv(e, p)'
  <2> SUFFICES ASSUME NEW i \in DOMAIN rx'[p], Data(rx'[p][i])
               PROVE  LET s == rx'[p][i].seg IN
                      /\ IsPart(rx'[p][i], payloads'[e])
                      /\ (s.n = Number(e)' /\ tx'[e].pc # "idle") => s.i < Due(e)'
                      /\ \A j \in 1 .. i - 1 : Data(rx'[p][j]) => Before(rx'[p][j].seg, s)
                      /\ rv'[p].pc = "cf" => Before(LastOf(rv'[p].buf), s)
                      /\ \A j \in DOMAIN delivered'[p] : delivered'[p][j][1].n < s.n
    BY DEF QueueInv, Data
  <2> DEFINE s == rx'[p][i].seg
  <2>1. CASE i \in 1 .. L
    <3>1. rx'[p][i] = rx[p][i] /\ Data(rx[p][i]) /\ i \in DOMAIN rx[p]
      BY <1>13, <2>1
    <3>2. /\ IsPart(rx[p][i], payloads[e])
          /\ \A j \in 1 .. i - 1 : Data(rx[p][j]) => Before(rx[p][j].seg, s)
          /\ rv[p].pc = "cf" => Before(LastOf(rv[p].buf), s)
          /\ \A j \in DOMAIN delivered[p] : delivered[p][j][1].n < s.n
      BY <1>d, <3>1 DEF QueueInv
    <3>3. (s.n = N /\ tx'[e].pc # "idle") => s.i < Due(e)'
      <4>1. s.i \in Nat
        BY <1>1, <3>1, ChannelHas
      <4>2. s.n = N => s.i < d
        BY <1>5, <1>d, <3>1 DEF QueueInv, N, d
      <4> HIDE DEF s
      <4> QED BY <1>7, <1>15, <4>1, <4>2
    <3>4. \A j \in 1 .. i - 1 : rx'[p][j] = rx[p][j]
      BY <1>13, <2>1
    <3> QED BY <1>3, <1>4, <1>14, <3>1, <3>2, <3>3, <3>4
  <2>2. CASE i = L + 1 /\ rx'[p][i] = f
    <3>1. IsPart(rx'[p][i], payloads'[e]) /\ s.n = N /\ s.i = d
      BY <1>3, <1>9, <1>11, <2>2
    <3>2. tx'[e].pc # "idle" => s.i < Due(e)'
      BY <1>7, <1>15, <3>1
    <3>3. ASSUME NEW j \in 1 .. i - 1, Data(rx'[p][j]) PROVE Before(rx'[p][j].seg, s)
      <4>1. j \in 1 .. L /\ rx'[p][j] = rx[p][j]
        BY <1>13, <2>2
      <4> QED BY <1>17, <2>2, <3>3, <4>1
    <3>4. rv'[p].pc = "cf" => Before(LastOf(rv'[p].buf), s)
      BY <1>4, <1>18, <3>1 DEF Before
    <3>5. \A j \in DOMAIN delivered'[p] : delivered'[p][j][1].n < s.n
      BY <1>4, <1>5, <1>7, <1>d, <3>1 DEF DeliveredInv, N
    <3> QED BY <3>1, <3>2, <3>3, <3>4, <3>5
  <2> QED BY <1>13, <2>1, <2>2
<1>20. RecvInv(e, p)'
  <2>1. CASE rv[p].pc = "first"
    BY <1>4, <1>d, <2>1 DEF RecvInv
  <2>2. CASE rv[p].pc = "cf"
    <3>1. \A i \in DOMAIN rx'[p] : rx'[p][i].type = "CF" => rx'[p][i].seg.n = rv[p].buf[1].n
      BY <1>9, <1>13, <1>18, <1>d, <2>2 DEF RecvInv
    <3>2. tx'[e].pc # "idle" => LastOf(rv[p].buf).i < Due(e)'
      BY <1>7, <1>15, <1>18, <2>2
    <3>3. ~(rv[p].buf[1].n < N)
      BY <1>7, <1>18, <2>2
    <3> QED BY <1>3, <1>4, <1>14, <1>d, <2>2, <3>1, <3>2, <3>3 DEF RecvInv, Exact, Behind
  <2> QED BY <1>1, <2>1, <2>2, RecvHas
<1>21. FlowInv(e, p)'
  <2> SUFFICES ASSUME p \notin Foreign PROVE FlowInv(e, p)'
    BY <1>4 DEF FlowInv
  <2> DEFINE bs == setting.block[p]
  <2>1. /\ tx[e].pc = "loop" /\ ~Answered(e) /\ tx[e].fc.bs = bs /\ tx[e].fc.status = "CTS"
        /\ bs = 0 \/ tx[e].block < bs
        /\ \A i \in DOMAIN rx[p] : rx[p][i].type # "FF"
    BY <1>5, <1>7, <1>d DEF FlowInv
  <2>2. bs \in Nat
    BY <1>1, BlockIs
  <2>3. ~Answered(e)'
    BY <1>12, <2>1 DEF Answered
  <2>4. \A i \in DOMAIN rx'[p] : rx'[p][i].type # "FF"
    BY <1>9, <1>13, <2>1
  <2>5. \A i \in DOMAIN rx'[e] : rx'[e][i].type # "FC"
    BY <2>3 DEF Answered
  <2>6. tx'[e].fc.status = "CTS"
    <3>1. tx'[e].pc = "idle" => tx'[e] = NoSend
      <4>1. tx'[e].pc = "idle" => Returns(e, "ok")
        BY <1>3, <1>14
      <4> QED BY <4>1, ReturnsIs
    <3>2. NoSend.fc.status = "CTS"
      BY DEF NoSend, FC
    <3> QED BY <1>14, <2>1, <3>1, <3>2
  <2>7. /\ tx'[e].pc \in {"loop", "block"} => tx'[e].fc.bs = bs
        /\ tx'[e].pc = "loop" => bs = 0 \/ tx'[e].block < bs
        /\ tx'[e].pc = "block" => bs > 0 /\ tx'[e].block = bs
    <3> HIDE DEF bs
    <3> QED BY <1>6, <1>14, <2>1, <2>2 DEF BlockFull
  <2>8. rv[p].pc = "cf" =>
            /\ rv[p].block + d - 1 - LastOf(rv[p].buf).i <= tx[e].block
            /\ rv[p].block \in Nat
    BY <1>1, <1>5, <1>18, <1>d, RecvHas DEF FlowInv, N, d
  <2>9. (rv[p].pc = "cf" /\ tx'[e].pc # "idle") =>
            rv[p].block + Due(e)' - 1 - LastOf(rv[p].buf).i <= tx'[e].block
    <3> SUFFICES ASSUME rv[p].pc = "cf", tx'[e].pc # "idle"
                 PROVE  rv[p].block + Due(e)' - 1 - LastOf(rv[p].buf).i <= tx'[e].block
      OBVIOUS
    <3> DEFINE li == LastOf(rv[p].buf).i
    <3>1. li \in Nat /\ d \in Nat /\ Due(e)' = d + 1 /\ tx'[e].block = tx[e].block + 1
          /\ rv[p].block + d - 1 - li <= tx[e].block
          /\ rv[p].block \in Nat /\ tx[e].block \in Nat
      BY <1>6, <1>7, <1>14, <1>15, <1>18, <2>8
    <3> HIDE DEF li
    <3>2. rv[p].block + (d + 1) - 1 - li <= tx[e].block + 1
      BY <3>1
    <3> QED BY <3>1, <3>2 DEF li
  <2>10. (rv[p].pc = "cf" /\ tx'[e].pc = "idle") =>
            bs = 0 \/ rv[p].block + CFCount(rv[p].length) - LastOf(rv[p].buf).i < bs
    <3>1. rv[p].pc = "cf" => rv[p].length = length
      BY <1>7, <1>18, <1>d DEF RecvInv
    <3>2. tx'[e].pc = "idle" => bs = 0 \/ tx[e].block + 1 < bs
      BY <1>6, <1>15, <2>1, <2>2 DEF BlockFull
    <3> SUFFICES ASSUME rv[p].pc = "cf", tx'[e].pc = "idle"
                 PROVE  bs = 0 \/ rv[p].block + CFCount(rv[p].length) - LastOf(rv[p].buf).i < bs
      OBVIOUS
    <3> DEFINE li == LastOf(rv[p].buf).i
    <3>3. /\ li \in Nat /\ d \in Nat /\ CFCount(rv[p].length) = d
          /\ rv[p].block + d - 1 - li <= tx[e].block
          /\ rv[p].block \in Nat /\ tx[e].block \in Nat
      BY <1>6, <1>7, <1>15, <1>18, <2>8, <3>1
    <3> HIDE DEF li, bs
    <3>4. bs = 0 \/ rv[p].block + d - li < bs
      BY <2>2, <3>2, <3>3
    <3> QED BY <3>3, <3>4 DEF li
  <2> QED BY <1>4, <1>7, <1>14, <1>18, <2>3, <2>4, <2>5, <2>6, <2>7, <2>9, <2>10 DEF FlowInv
<1>22. DeliveredInv(e, p)'
  BY <1>3, <1>4, <1>5, <1>7, <1>14, <1>d DEF DeliveredInv, N
<1> QED BY <1>16, <1>19, <1>20, <1>21, <1>22 DEF DirInv, p

-----------------------------------------------------------------------------
(* Recv. *)

\* A frame of data is read from the channel.
LEMMA DataRead ==
    ASSUME Typed, NEW p \in Ends, rx[p] # <<>>, rx'[p] = Tail(rx[p])
    PROVE  /\ DOMAIN rx[p] = 1 .. Len(rx[p]) /\ Len(rx[p]) \in Nat /\ 1 \in DOMAIN rx[p]
           /\ DOMAIN rx'[p] = 1 .. Len(rx[p]) - 1
           /\ \A i \in DOMAIN rx'[p] :
                 rx'[p][i] = rx[p][i + 1] /\ i + 1 \in DOMAIN rx[p] /\ 1 \in 1 .. (i + 1) - 1
           /\ rx[p][1] = Head(rx[p])
<1>1. rx[p] \in Seq(Frames)
  BY ChannelHas
<1>2. /\ DOMAIN rx[p] = 1 .. Len(rx[p]) /\ Len(rx[p]) \in Nat /\ Len(rx[p]) > 0
      /\ DOMAIN rx'[p] = 1 .. Len(rx[p]) - 1 /\ Head(rx[p]) = rx[p][1]
      /\ \A i \in 1 .. Len(rx[p]) - 1 : rx'[p][i] = rx[p][i + 1]
  BY <1>1, Shortened
<1> QED BY <1>2

\* The frames after the first, when Recv takes the first of them.
LEMMA QueueAfter ==
    ASSUME Typed, Typed', NEW e \in Ends, NEW p \in Ends, QueueInv(e, p), rx[p] # <<>>, rx'[p] = Tail(rx[p]),
           Data(Head(rx[p]))
    PROVE  \A i \in DOMAIN rx'[p] : Data(rx'[p][i]) =>
              /\ rx'[p][i] \in Frames /\ rx'[p][i].seg.n \in Nat /\ rx'[p][i].seg.i \in Nat
              /\ IsPart(rx'[p][i], payloads[e])
              /\ (rx'[p][i].seg.n = Number(e) /\ tx[e].pc # "idle") => rx'[p][i].seg.i < Due(e)
              /\ \A j \in 1 .. i - 1 : Data(rx'[p][j]) => Before(rx'[p][j].seg, rx'[p][i].seg)
              /\ Before(Head(rx[p]).seg, rx'[p][i].seg)
              /\ \A j \in DOMAIN delivered[p] : delivered[p][j][1].n < rx'[p][i].seg.n
<1>1. /\ DOMAIN rx[p] = 1 .. Len(rx[p]) /\ Len(rx[p]) \in Nat /\ 1 \in DOMAIN rx[p]
      /\ DOMAIN rx'[p] = 1 .. Len(rx[p]) - 1
      /\ \A i \in DOMAIN rx'[p] :
            rx'[p][i] = rx[p][i + 1] /\ i + 1 \in DOMAIN rx[p] /\ 1 \in 1 .. (i + 1) - 1
      /\ rx[p][1] = Head(rx[p])
  BY DataRead
<1> SUFFICES ASSUME NEW i \in DOMAIN rx'[p], Data(rx'[p][i])
             PROVE  /\ rx'[p][i] \in Frames /\ rx'[p][i].seg.n \in Nat /\ rx'[p][i].seg.i \in Nat
                    /\ IsPart(rx'[p][i], payloads[e])
                    /\ (rx'[p][i].seg.n = Number(e) /\ tx[e].pc # "idle") => rx'[p][i].seg.i < Due(e)
                    /\ \A j \in 1 .. i - 1 : Data(rx'[p][j]) => Before(rx'[p][j].seg, rx'[p][i].seg)
                    /\ Before(Head(rx[p]).seg, rx'[p][i].seg)
                    /\ \A j \in DOMAIN delivered[p] : delivered[p][j][1].n < rx'[p][i].seg.n
  BY DEF Data
<1>2. i + 1 \in DOMAIN rx[p] /\ rx'[p][i] = rx[p][i + 1] /\ 1 \in 1 .. (i + 1) - 1 /\ i \in Nat
  BY <1>1
<1> DEFINE s == rx[p][i + 1].seg
<1>3. /\ IsPart(rx[p][i + 1], payloads[e])
      /\ (s.n = Number(e) /\ tx[e].pc # "idle") => s.i < Due(e)
      /\ \A j \in 1 .. (i + 1) - 1 : Data(rx[p][j]) => Before(rx[p][j].seg, s)
      /\ \A j \in DOMAIN delivered[p] : delivered[p][j][1].n < s.n
  BY <1>2 DEF QueueInv
<1>4. rx[p][i + 1] \in Frames /\ s.n \in Nat /\ s.i \in Nat
  BY <1>2, ChannelHas
<1>5. ASSUME NEW j \in 1 .. i - 1, Data(rx'[p][j]) PROVE Before(rx'[p][j].seg, s)
  <2>1. j \in DOMAIN rx'[p] /\ j + 1 \in 1 .. (i + 1) - 1
    BY <1>1, <1>2
  <2>2. rx'[p][j] = rx[p][j + 1]
    BY <1>1, <2>1
  <2> QED BY <1>3, <1>5, <2>1, <2>2
<1>6. Before(Head(rx[p]).seg, s)
  BY <1>1, <1>2, <1>3
<1> HIDE DEF s
<1> QED BY <1>2, <1>3, <1>4, <1>5, <1>6 DEF s

\* Of a payload that fits in one frame there is only that frame.
LEMMA SingleIs ==
    ASSUME NEW f, NEW g, NEW pl, IsPart(f, pl), IsPart(g, pl), f.type = "SF", g.seg.n = f.seg.n,
           pl[f.seg.n] \in Nat
    PROVE  f.seg.i = 0 /\ g.seg.i = 0 /\ f.seg = Segment(f.seg.n, 0, pl[f.seg.n]) /\ pl[f.seg.n] <= 7
<1>1. pl[f.seg.n] <= 7 /\ f.seg = Segment(f.seg.n, 0, pl[f.seg.n])
  BY DEF IsPart
<1>2. g.seg = Segment(g.seg.n, 0, pl[f.seg.n])
  BY <1>1 DEF IsPart
<1> QED BY <1>1, <1>2 DEF Segment

\* Recv returns one more message, b, whose payload comes after those returned before.
LEMMA ReturnedIs ==
    ASSUME Typed, NEW p \in Ends, NEW b \in Seq(Segments), delivered'[p] = Append(delivered[p], b)
    PROVE  /\ Len(delivered[p]) \in Nat /\ DOMAIN delivered[p] = 1 .. Len(delivered[p])
           /\ DOMAIN delivered'[p] = 1 .. Len(delivered[p]) + 1
           /\ delivered'[p][Len(delivered[p]) + 1] = b
           /\ \A j \in 1 .. Len(delivered[p]) : delivered'[p][j] = delivered[p][j]
           /\ \A j \in DOMAIN delivered'[p] :
                 j \in 1 .. Len(delivered[p]) \/ j = Len(delivered[p]) + 1
<1> DEFINE S == Seq(Segments)
           L == Len(delivered[p])
<1>1. delivered[p] \in Seq(S) /\ b \in S
  BY TypedHas
<1> HIDE DEF S
<1>2. /\ L \in Nat /\ DOMAIN delivered[p] = 1 .. L
      /\ DOMAIN delivered'[p] = 1 .. L + 1
      /\ delivered'[p][L + 1] = b
      /\ \A j \in 1 .. L : delivered'[p][j] = delivered[p][j]
  BY <1>1, Appended
<1> HIDE DEF L
<1>3. \A j \in 1 .. L + 1 : j \in 1 .. L \/ j = L + 1
  BY <1>2
<1> QED BY <1>2, <1>3 DEF L

\* It keeps what is returned whole and in order.
LEMMA DeliveredKeeps ==
    ASSUME Typed, NEW e \in Ends, NEW p \in Ends, DeliveredInv(e, p),
           NEW b \in Seq(Segments), delivered'[p] = Append(delivered[p], b),
           UNCHANGED <<tx, payloads>>,
           b[1].n \in DOMAIN payloads[e], b = Whole(b[1].n, payloads[e][b[1].n]),
           (tx[e].pc # "idle" /\ ~AllSent(e)) => b[1].n < Number(e),
           \A j \in DOMAIN delivered[p] : delivered[p][j][1].n < b[1].n
    PROVE  DeliveredInv(e, p)'
<1> DEFINE L == Len(delivered[p])
<1>1. /\ L \in Nat /\ DOMAIN delivered[p] = 1 .. L /\ DOMAIN delivered'[p] = 1 .. L + 1
      /\ delivered'[p][L + 1] = b
      /\ \A j \in 1 .. L : delivered'[p][j] = delivered[p][j]
      /\ \A j \in DOMAIN delivered'[p] : j \in 1 .. L \/ j = L + 1
  BY ReturnedIs
<1>2. Number(e)' = Number(e) /\ (AllSent(e)' <=> AllSent(e))
  BY DEF Number, AllSent
<1> SUFFICES ASSUME NEW j \in DOMAIN delivered'[p]
             PROVE  LET c == delivered'[p][j]
                        n == c[1].n
                    IN  /\ n \in DOMAIN payloads[e] /\ c = Whole(n, payloads[e][n])
                        /\ (tx[e].pc # "idle" /\ ~AllSent(e)) => n < Number(e)
                        /\ \A i \in 1 .. j - 1 : delivered'[p][i][1].n < n
  BY <1>2 DEF DeliveredInv
<1> HIDE DEF L
<1>3. CASE j \in 1 .. L
  <2>1. delivered'[p][j] = delivered[p][j] /\ \A i \in 1 .. j - 1 : delivered'[p][i] = delivered[p][i]
    BY <1>1, <1>3
  <2>2. j \in DOMAIN delivered[p]
    BY <1>1, <1>3
  <2> QED BY <2>1, <2>2 DEF DeliveredInv
<1>4. CASE j = L + 1
  <2>1. \A i \in 1 .. j - 1 : i \in 1 .. L
    BY <1>1, <1>4
  <2>2. \A i \in 1 .. j - 1 : delivered'[p][i][1].n < b[1].n
    BY <1>1, <2>1
  <2> QED BY <1>1, <1>4, <2>2
<1> QED BY <1>1, <1>3, <1>4

\* The frames that are left when Recv has taken one.
LEMMA QueueRest ==
    ASSUME Typed, Typed', NEW e \in Ends, NEW p \in Ends, QueueInv(e, p), rx[p] # <<>>,
           rx'[p] = Tail(rx[p]), Data(Head(rx[p])), UNCHANGED <<tx, payloads>>,
           \A i \in DOMAIN rx'[p] : Data(rx'[p][i]) =>
              /\ rv'[p].pc = "cf" => Before(LastOf(rv'[p].buf), rx'[p][i].seg)
              /\ \A j \in DOMAIN delivered'[p] : delivered'[p][j][1].n < rx'[p][i].seg.n
    PROVE  QueueInv(e, p)'
<1>1. \A i \in DOMAIN rx'[p] : Data(rx'[p][i]) =>
              /\ IsPart(rx'[p][i], payloads[e])
              /\ (rx'[p][i].seg.n = Number(e) /\ tx[e].pc # "idle") => rx'[p][i].seg.i < Due(e)
              /\ \A j \in 1 .. i - 1 : Data(rx'[p][j]) => Before(rx'[p][j].seg, rx'[p][i].seg)
  BY QueueAfter
<1>2. Number(e)' = Number(e) /\ Due(e)' = Due(e)
  BY DEF Number, Due, AllSent
<1> QED BY <1>1, <1>2 DEF QueueInv, Data

\* A single frame is a whole payload.
LEMMA SingleKeeps ==
    ASSUME Typed, NEW e \in Ends, NEW p \in Ends, p # e, RecvSingleFrame(p), DirInv(e, p)
    PROVE  DirInv(e, p)'
<1> DEFINE f == Head(rx[p])
           n == f.seg.n
           length == payloads[e][n]
<1>d. SendInv(e) /\ QueueInv(e, p) /\ RecvInv(e, p) /\ FlowInv(e, p) /\ DeliveredInv(e, p)
  BY DEF DirInv
<1>1. Typed' /\ ReceiverStep(p)
  BY TypedRecv DEF RecvStep
<1>2. /\ UNCHANGED <<setting, rv, tx, payloads, result>> /\ rx' = Rest(p) /\ rx[p] # <<>>
      /\ f.type = "SF" /\ Deliver(p, <<f.seg>>) /\ rv[p].pc = "first" /\ p \in Receivers
  BY DEF RecvSingleFrame, Arrived
<1>3. f \in Frames /\ rx'[p] = Tail(rx[p]) /\ rx'[e] = rx[e] /\ f = rx[p][1] /\ Data(f)
  BY <1>2, RestIs DEF Data
<1>4. f.seg \in Segments /\ n \in Nat
  BY <1>2, <1>3, FrameIs DEF Segments
<1>5. 1 \in DOMAIN rx[p]
  BY <1>2, <1>3, DataRead
<1>6. /\ IsPart(f, payloads[e]) /\ \A j \in DOMAIN delivered[p] : delivered[p][j][1].n < n
  BY <1>3, <1>5, <1>d DEF QueueInv
<1>7. n \in DOMAIN payloads[e] /\ length \in Nat
  <2>1. n \in DOMAIN payloads[e]
    BY <1>6 DEF IsPart
  <2>2. length \in 1 .. MaxPayload
    BY <2>1, NumberIs
  <2> QED BY <2>1, <2>2, PayloadsAre
<1>8. f.seg.i = 0 /\ f.seg = Segment(n, 0, length) /\ length <= 7
  <2> HIDE DEF f
  <2> QED BY <1>2, <1>6, <1>7, SingleIs
<1>9. delivered'[p] = Append(delivered[p], <<f.seg>>) /\ <<f.seg>> \in Seq(Segments)
  <2>1. <<f.seg>> \in Seq(Segments)
    BY <1>4
  <2> HIDE DEF f
  <2> QED BY <1>2, <2>1, DeliverIs
<1>10. <<f.seg>>[1] = f.seg
  OBVIOUS
<1> HIDE DEF f, n
<1>11. <<f.seg>> = Whole(n, length)
  BY <1>8 DEF Whole
<1>12. (tx[e].pc # "idle" /\ ~AllSent(e)) => n < Number(e)
  <2>1. n \in 1 .. Number(e) /\ Number(e) \in Nat
    BY <1>7, NumberIs
  <2>2. tx[e].pc # "idle" => n # Number(e)
    BY <1>7, <1>8, <1>d DEF SendInv
  <2> QED BY <2>1, <2>2
<1>13. DeliveredInv(e, p)'
  <2> DEFINE b == <<f.seg>>
  <2>1. /\ b \in Seq(Segments) /\ delivered'[p] = Append(delivered[p], b) /\ b[1].n = n
        /\ b = Whole(n, payloads[e][n])
    BY <1>9, <1>10, <1>11 DEF n
  <2> HIDE DEF b
  <2> QED BY <1>2, <1>6, <1>7, <1>12, <1>d, <2>1, DeliveredKeeps
<1>14. SendInv(e)'
  BY <1>2, <1>d DEF SendInv, Failed, Number, Due, AllSent
<1>15. \A i \in DOMAIN rx'[p] : Data(rx'[p][i]) =>
          \A j \in DOMAIN delivered'[p] : delivered'[p][j][1].n < rx'[p][i].seg.n
  <2> SUFFICES ASSUME NEW i \in DOMAIN rx'[p], Data(rx'[p][i]), NEW j \in DOMAIN delivered'[p]
               PROVE  delivered'[p][j][1].n < rx'[p][i].seg.n
    BY DEF Data
  <2> DEFINE g == rx'[p][i]
  <2>1. /\ g.seg.n \in Nat /\ IsPart(g, payloads[e]) /\ Before(f.seg, g.seg)
        /\ \A m \in DOMAIN delivered[p] : delivered[p][m][1].n < g.seg.n
    BY <1>1, <1>2, <1>3, <1>d, QueueAfter DEF f
  <2> HIDE DEF g
  <2>2. n < g.seg.n
    <3>1. g.seg.n = f.seg.n => f.seg.i = 0 /\ g.seg.i = 0
      BY <1>2, <1>6, <1>7, <2>1, SingleIs DEF n
    <3> QED BY <1>4, <2>1, <3>1 DEF Before, n
  <2>3. CASE j \in 1 .. Len(delivered[p])
    <3>1. delivered'[p][j] = delivered[p][j] /\ j \in DOMAIN delivered[p]
      BY <1>9, <2>3, ReturnedIs
    <3> QED BY <2>1, <3>1 DEF g
  <2>4. CASE j = Len(delivered[p]) + 1
    <3>1. delivered'[p][j] = <<f.seg>>
      BY <1>9, <2>4, ReturnedIs
    <3> QED BY <1>10, <2>2, <3>1 DEF g, n
  <2>5. j \in 1 .. Len(delivered[p]) \/ j = Len(delivered[p]) + 1
    BY <1>9, ReturnedIs
  <2> QED BY <2>3, <2>4, <2>5
<1>16. QueueInv(e, p)'
  <2>1. rv'[p].pc # "cf"
    BY <1>2
  <2>2. Data(Head(rx[p]))
    BY <1>3 DEF f
  <2> QED BY <1>1, <1>2, <1>3, <1>15, <1>d, <2>1, <2>2, QueueRest
<1>17. RecvInv(e, p)'
  BY <1>2 DEF RecvInv
<1>18. FlowInv(e, p)'
  <2>1. \A i \in DOMAIN rx'[p] : \E k \in DOMAIN rx[p] : rx'[p][i] = rx[p][k]
    BY <1>2, <1>3, DataRead
  <2>2. /\ (Failed(e)' <=> Failed(e)) /\ Number(e)' = Number(e)
        /\ (Answered(e)' <=> Answered(e))
    BY <1>2, <1>3 DEF Failed, Number, Answered
  <2> QED BY <1>2, <1>3, <1>d, <2>1, <2>2 DEF FlowInv
<1> QED BY <1>13, <1>14, <1>16, <1>17, <1>18 DEF DirInv

\* The flow controls after one more of Recv's.
LEMMA AnswerGrows ==
    ASSUME Typed, NEW e \in Ends, NEW bs, bs \in 0 .. 255,
           \A i \in DOMAIN rx[e] : rx[e][i].type = "FC" => rx[e][i] = FC("CTS", bs),
           rx'[e] = rx[e] \/ rx'[e] = Append(rx[e], FC("CTS", bs))
    PROVE  /\ \A i \in DOMAIN rx'[e] : rx'[e][i].type = "FC" => rx'[e][i] = FC("CTS", bs)
           /\ ~Answered(e) => \A i, j \in DOMAIN rx'[e] :
                 rx'[e][i].type = "FC" /\ rx'[e][j].type = "FC" => i = j
<1> DEFINE f == FC("CTS", bs)
           L == Len(rx[e])
<1>1. CASE rx'[e] = rx[e]
  BY <1>1 DEF Answered
<1>2. CASE rx'[e] = Append(rx[e], f)
  <2>1. f \in Frames
    BY AnswersAre
  <2> HIDE DEF f
  <2>2. /\ DOMAIN rx'[e] = 1 .. L + 1 /\ rx'[e][L + 1] = f /\ DOMAIN rx[e] = 1 .. L /\ L \in Nat
        /\ \A i \in 1 .. L : rx'[e][i] = rx[e][i]
    BY <1>2, <2>1, ChannelGrows
  <2> HIDE DEF L
  <2>3. \A i \in 1 .. L + 1 : i \in 1 .. L \/ i = L + 1
    BY <2>2
  <2>4. \A i \in DOMAIN rx'[e] : rx'[e][i].type = "FC" => rx'[e][i] = f
    BY <2>2, <2>3 DEF f
  <2>5. ~Answered(e) => \A i \in 1 .. L : rx'[e][i].type # "FC"
    BY <2>2 DEF Answered
  <2>6. ~Answered(e) => \A i, j \in DOMAIN rx'[e] :
                 rx'[e][i].type = "FC" /\ rx'[e][j].type = "FC" => i = j
    BY <2>2, <2>3, <2>5
  <2> QED BY <2>4, <2>6 DEF f
<1> QED BY <1>1, <1>2

\* A first frame starts a message, and is answered.
LEMMA FirstFrameKeeps ==
    ASSUME Typed, NEW e \in Ends, NEW p \in Ends, p = Peer(e), RecvFirstFrame(p), DirInv(e, p)
    PROVE  DirInv(e, p)'
<1> DEFINE f == Head(rx[p])
           n == f.seg.n
           length == payloads[e][n]
           bs == setting.block[p]
<1>d. SendInv(e) /\ QueueInv(e, p) /\ RecvInv(e, p) /\ FlowInv(e, p) /\ DeliveredInv(e, p)
  BY DEF DirInv
<1>1. Typed' /\ ReceiverStep(p) /\ p # e /\ Peer(p) = e
  BY TypedRecv, PeerIs DEF RecvStep
<1>2. /\ UNCHANGED <<setting, tx, payloads, result, delivered>> /\ rx[p] # <<>>
      /\ f.type = "FF" /\ p \in Receivers /\ p \notin Foreign /\ Put(p, Rest(p), FC("CTS", bs))
      /\ rv' = [rv EXCEPT ![p] = [pc |-> "cf", length |-> f.length, buf |-> <<f.seg>>,
                                  have |-> f.seg.size, sn |-> 1, block |-> 0]]
  <2>1. /\ UNCHANGED <<setting, tx, payloads, result, delivered>> /\ rx[p] # <<>>
        /\ f.type = "FF" /\ p \in Receivers /\ Put(p, Rest(p), FC("CTS", bs))
        /\ rv' = [rv EXCEPT ![p] = [pc |-> "cf", length |-> f.length, buf |-> <<f.seg>>,
                                    have |-> f.seg.size, sn |-> 1, block |-> 0]]
    BY DEF RecvFirstFrame, Arrived
  <2>2. p \notin Foreign
    BY <2>1, TypedHas, SettingIs
  <2> QED BY <2>1, <2>2
<1>3. /\ f \in Frames /\ f = rx[p][1] /\ Data(f) /\ bs \in 0 .. 255 /\ bs \in Nat
      /\ Rest(p)[p] = Tail(rx[p]) /\ Rest(p)[e] = rx[e] /\ Rest(p) \in [Ends -> RxSet]
  <2>1. /\ f \in Frames /\ f = rx[p][1] /\ Rest(p)[p] = Tail(rx[p]) /\ Rest(p) \in [Ends -> RxSet]
        /\ \A c \in Ends \ {p} : Rest(p)[c] = rx[c]
    BY <1>2, RestIs
  <2>2. bs \in 0 .. 255 /\ bs \in Nat
    <3>1. bs \in 0 .. 255
      BY TypedSetting
    <3> QED BY <3>1
  <2>3. Data(f)
    BY <1>2 DEF Data
  <2> HIDE DEF f, bs
  <2> QED BY <1>1, <2>1, <2>2, <2>3
<1>4. rx'[p] = Tail(rx[p]) /\ (rx'[e] = rx[e] \/ rx'[e] = Append(rx[e], FC("CTS", bs)))
  <2> DEFINE g == FC("CTS", bs)
             q == Rest(p)
  <2>1. g \in Frames /\ ~Data(g)
    BY <1>3, AnswersAre
  <2>2. Put(p, q, g) /\ q \in [Ends -> RxSet] /\ q[p] = Tail(rx[p]) /\ q[e] = rx[e]
    BY <1>2, <1>3
  <2> HIDE DEF g, q, f
  <2>3. rx'[p] = q[p] /\ (rx'[Peer(p)] = q[Peer(p)] \/ rx'[Peer(p)] = Append(q[Peer(p)], g))
    BY <2>1, <2>2, PutIs
  <2>4. rx'[p] = Tail(rx[p]) /\ (rx'[e] = rx[e] \/ rx'[e] = Append(rx[e], g))
    BY <1>1, <2>2, <2>3
  <2> QED BY <2>4 DEF g
<1>5. f.seg \in Segments /\ n \in Nat
  BY <1>2, <1>3, FrameIs DEF Segments
<1>6. 1 \in DOMAIN rx[p]
  BY <1>2, <1>4, DataRead
<1>7. /\ IsPart(f, payloads[e]) /\ \A j \in DOMAIN delivered[p] : delivered[p][j][1].n < n
  BY <1>3, <1>6, <1>d DEF QueueInv
<1>8. /\ n \in DOMAIN payloads[e] /\ length > 7 /\ f.length = length /\ f.seg = Segment(n, 0, 6)
      /\ length \in Nat
  <2>1. n \in DOMAIN payloads[e] /\ length > 7 /\ f.length = length /\ f.seg = Segment(n, 0, 6)
    BY <1>2, <1>7 DEF IsPart
  <2>2. length \in 1 .. MaxPayload
    BY <2>1, NumberIs
  <2>3. length \in Nat
    <3> HIDE DEF length
    <3> QED BY <2>2
  <2> QED BY <2>1, <2>3
<1>9. /\ n = Number(e) /\ tx[e].pc \in {"idle", "first"} /\ (tx[e].pc = "idle" => Failed(e))
      /\ ~Answered(e) /\ n \in Nat /\ DOMAIN payloads[e] = 1 .. n
  <2>1. rx[p][1].type = "FF" /\ rx[p][1].seg.n = n
    BY <1>2, <1>3
  <2>2. /\ rx[p][1].seg.n = Number(e) /\ tx[e].pc \in {"idle", "first"}
        /\ (tx[e].pc = "idle" => Failed(e)) /\ ~Answered(e)
    BY <2>1, <1>2, <1>6, <1>d DEF FlowInv
  <2>3. Number(e) \in Nat /\ DOMAIN payloads[e] = 1 .. Number(e)
    BY NumberIs
  <2>4. n = Number(e)
    BY <2>1, <2>2
  <2> HIDE DEF n
  <2> QED BY <2>2, <2>3, <2>4
<1>10. tx[e].pc # "idle" => Due(e) = 1 /\ tx[e].block = 0
  <2> SUFFICES ASSUME tx[e].pc = "first" PROVE Due(e) = 1 /\ tx[e].block = 0
    BY <1>9
  <2>1. tx[e].sent = 6 /\ tx[e].block = 0 /\ ~AllSent(e)
    BY <1>d, SendHas DEF SendInv
  <2>2. Due(e) = (6 + 1) \div 7
    BY <2>1 DEF Due
  <2> QED BY <2>1, <2>2
<1>11. rv'[p] = [pc |-> "cf", length |-> f.length, buf |-> <<f.seg>>,
                 have |-> f.seg.size, sn |-> 1, block |-> 0]
  <2>1. rv \in [Ends -> RvSet]
    BY TypedHas
  <2> HIDE DEF f
  <2> QED BY <1>2, <2>1
<1> HIDE DEF f, n, bs, length
<1>12. /\ rv'[p].pc = "cf" /\ rv'[p].length = length /\ rv'[p].buf = <<f.seg>>
       /\ rv'[p].have = 6 /\ rv'[p].block = 0 /\ f.seg.n = n /\ f.seg.i = 0 /\ f.seg.size = 6
  BY <1>8, <1>11 DEF Segment
<1>13. /\ Len(rv'[p].buf) = 1 /\ rv'[p].buf[1] = f.seg /\ LastOf(rv'[p].buf) = f.seg
  BY <1>12 DEF LastOf
<1>14. /\ (Failed(e)' <=> Failed(e)) /\ Number(e)' = n /\ Due(e)' = Due(e)
       /\ (AllSent(e)' <=> AllSent(e))
  BY <1>2, <1>9 DEF Failed, Number, Due, AllSent
<1>15. \A i \in DOMAIN rx'[p] : Data(rx'[p][i]) =>
          rx'[p][i].seg.n = n /\ rx'[p][i].type # "FF" /\ Before(f.seg, rx'[p][i].seg)
          /\ \A j \in DOMAIN delivered[p] : delivered[p][j][1].n < rx'[p][i].seg.n
  <2> SUFFICES ASSUME NEW i \in DOMAIN rx'[p], Data(rx'[p][i])
               PROVE  rx'[p][i].seg.n = n /\ rx'[p][i].type # "FF" /\ Before(f.seg, rx'[p][i].seg)
                      /\ \A j \in DOMAIN delivered[p] : delivered[p][j][1].n < rx'[p][i].seg.n
    BY DEF Data
  <2> DEFINE g == rx'[p][i]
  <2>1. /\ g.seg.n \in Nat /\ g.seg.i \in Nat /\ IsPart(g, payloads[e]) /\ Before(f.seg, g.seg)
        /\ \A j \in DOMAIN delivered[p] : delivered[p][j][1].n < g.seg.n
    BY <1>1, <1>2, <1>3, <1>4, <1>d, QueueAfter DEF f
  <2> HIDE DEF g
  <2>2. g.seg.n = n
    BY <1>9, <1>12, <2>1 DEF IsPart, Before
  <2>3. g.seg.i > 0
    BY <1>12, <2>1, <2>2 DEF Before
  <2>4. g.type = "FF" => g.seg.i = 0
    <3>1. g.type = "FF" => g.seg = Segment(g.seg.n, 0, 6)
      BY <2>1 DEF IsPart
    <3> QED BY <3>1 DEF Segment
  <2> QED BY <2>1, <2>2, <2>3, <2>4 DEF g
<1>16. SendInv(e)'
  BY <1>2, <1>d DEF SendInv, Failed, Number, Due, AllSent
<1>17. QueueInv(e, p)'
  <2>1. Data(Head(rx[p]))
    BY <1>3 DEF f
  <2> QED BY <1>1, <1>2, <1>4, <1>13, <1>15, <1>d, <2>1, QueueRest
<1>18. RecvInv(e, p)'
  <2>1. Exact(p)'
    <3>1. Whole(n, length)[1] = Segment(n, 0, 6)
      <4>1. 1 \in 1 .. 1 + CFCount(length)
        BY <1>8 DEF CFCount
      <4> QED BY <1>8, <4>1 DEF Whole
    <3>2. \A j \in 1 .. 1 : j = 1
      OBVIOUS
    <3> QED BY <1>8, <1>12, <1>13, <3>1, <3>2 DEF Exact
  <2>2. CFCount(length) \in Nat
    BY <1>8 DEF CFCount
  <2>3. \A i \in DOMAIN rx'[p] : rx'[p][i].type = "CF" => rx'[p][i].seg.n = n
    BY <1>15 DEF Data
  <2>4. ~(n < n)
    BY <1>9
  <2>5. tx[e].pc # "idle" => 0 < Due(e)
    BY <1>10
  <2>6. 0 \in 0 .. CFCount(length)
    BY <2>2
  <2>7. LastOf(rv'[p].buf).n = n /\ LastOf(rv'[p].buf).i = 0 /\ rv'[p].buf[1].n = n
    BY <1>12, <1>13
  <2>8. \A j \in DOMAIN delivered'[p] : delivered'[p][j][1].n < n
    BY <1>2, <1>7 DEF n
  <2>9. /\ Len(rv'[p].buf) >= 1 /\ n \in DOMAIN payloads'[e] /\ rv'[p].length > 7
        /\ rv'[p].length = payloads'[e][n] /\ CFCount(rv'[p].length) = CFCount(length)
    BY <1>2, <1>8, <1>12, <1>13 DEF length
  <2>10. p \in Receivers' /\ tx'[e] = tx[e]
    BY <1>2
  <2> HIDE DEF Exact
  <2> QED BY <1>14, <2>1, <2>3, <2>4, <2>5, <2>6, <2>7, <2>8, <2>9, <2>10 DEF RecvInv, length
<1>19. FlowInv(e, p)'
  <2>1. /\ \A i \in DOMAIN rx'[e] : rx'[e][i].type = "FC" => rx'[e][i] = FC("CTS", bs)
        /\ \A i, j \in DOMAIN rx'[e] :
                 rx'[e][i].type = "FC" /\ rx'[e][j].type = "FC" => i = j
    <3>1. \A i \in DOMAIN rx[e] : rx[e][i].type = "FC" => rx[e][i] = FC("CTS", bs)
      BY <1>2, <1>d DEF FlowInv, bs
    <3> QED BY <1>3, <1>4, <1>9, <3>1, AnswerGrows
  <2>2. \A i \in DOMAIN rx'[p] : rx'[p][i].type # "FF"
    BY <1>15 DEF Data
  <2>3. tx[e].pc # "idle" => 0 + Due(e) - 1 - 0 <= tx[e].block /\ 0 = Due(e) - 1
    BY <1>10
  <2>4. ~Failed(e) => tx[e].pc = "first"
    BY <1>9
  <2>5. ~(n < n)
    BY <1>9
  <2>6. /\ tx[e].fc.status = "CTS" /\ tx[e].pc # "resume"
        /\ tx[e].pc \in {"loop", "block"} => tx[e].fc.bs = bs
        /\ tx[e].pc = "loop" => bs = 0 \/ tx[e].block < bs
        /\ tx[e].pc = "block" => bs > 0 /\ tx[e].block = bs
    BY <1>2, <1>d DEF FlowInv, bs
  <2> QED BY <1>2, <1>9, <1>12, <1>13, <1>14, <2>1, <2>2, <2>3, <2>4, <2>5, <2>6 DEF FlowInv, bs
<1>20. DeliveredInv(e, p)'
  BY <1>2, <1>14, <1>d DEF DeliveredInv, Number
<1> QED BY <1>16, <1>17, <1>18, <1>19, <1>20 DEF DirInv

\* The frame of place k is the next one, or one has been missed: then the message stays short
\* of what it takes to be complete.
Takes(have, length, k, li, len, size) ==
    /\ have \in Nat /\ length \in Nat /\ k \in Nat /\ li \in Nat /\ len \in Nat
    /\ size = Least(Least(7, length + 1 - 7 * k), length - have)
    /\ k \in 1 .. CFCount(length) /\ li < k /\ have < length
    /\ (li = len - 1 /\ have = 7 * len - 1) \/ have <= 7 * li - 1

\* Either the message so far is exact and stays so, or a byte is missing for good.
LEMMA Gathers ==
    ASSUME NEW have, NEW length, NEW k, NEW li, NEW len, NEW size,
           Takes(have, length, k, li, len, size)
    PROVE  \/ /\ li = len - 1 /\ have = 7 * len - 1 /\ k = len
              /\ size = Least(7, length + 1 - 7 * k)
              /\ have + size >= length => k = CFCount(length)
              /\ have + size < length => have + size = 7 * (len + 1) - 1
           \/ have + size < length /\ have + size <= 7 * k - 1
<1> USE DEF Takes
<1> DEFINE q == length \div 7
<1>1. q \in Nat /\ 7 * q <= length /\ length < 7 * q + 7
  OBVIOUS
<1>2. k \in 1 .. q
  BY DEF CFCount
<1> HIDE DEF q
<1>3. CASE li = len - 1 /\ have = 7 * len - 1 /\ k = len
  <2>1. length - have = length + 1 - 7 * k
    BY <1>3
  <2>2. Least(7, length + 1 - 7 * k) \in Int
    BY DEF Least
  <2>3. size = Least(7, length + 1 - 7 * k)
    BY <2>1, <2>2 DEF Least
  <2>4. have + size >= length => k = q
    BY <1>1, <1>2, <1>3, <2>3 DEF Least
  <2>5. have + size < length => have + size = 7 * (len + 1) - 1
    BY <1>3, <2>3 DEF Least
  <2> QED BY <1>3, <2>3, <2>4, <2>5 DEF q, CFCount
<1>4. CASE have <= 7 * (k - 1) - 1
  <2>1. size \in Int /\ size <= 7
    BY DEF Least
  <2> QED BY <1>1, <1>2, <1>4, <2>1
<1>5. have <= 7 * (k - 1) - 1 \/ (li = len - 1 /\ have = 7 * len - 1 /\ k = len)
  OBVIOUS
<1> QED BY <1>3, <1>4, <1>5

\* Recv has read part seg of message n, li the last part it has of it.
IsRead(e, p, seg, n, length, li) ==
    /\ p \in Receivers /\ p \notin Foreign /\ 1 \in DOMAIN rx[p] /\ rx[p] # <<>>
    /\ n \in DOMAIN payloads[e] /\ length = payloads[e][n] /\ length > 7 /\ length \in Nat
    /\ n \in 1 .. Number(e) /\ Number(e) \in Nat
    /\ seg.n = n /\ seg.i \in 1 .. CFCount(length) /\ CFCount(length) \in Nat
    /\ seg.size = Least(7, length + 1 - 7 * seg.i)
    /\ li \in Nat /\ li < seg.i
    /\ Chunk(p).n = n /\ Chunk(p).i = seg.i
    /\ \A j \in DOMAIN delivered[p] : delivered[p][j][1].n < n
    /\ (n = Number(e) /\ tx[e].pc # "idle") => seg.i < Due(e)

\* The consecutive frame that Recv reads is a later part of its message.
LEMMA CFRead ==
    ASSUME Typed, NEW e \in Ends, NEW p \in Ends, DirInv(e, p), rv[p].pc = "cf", Arrived(p, "CF")
    PROVE  IsRead(e, p, Head(rx[p]).seg, rv[p].buf[1].n, rv[p].length, LastOf(rv[p].buf).i)
<1> SUFFICES ASSUME NEW seg, seg = Head(rx[p]).seg, NEW n, n = rv[p].buf[1].n,
                    NEW length, length = rv[p].length, NEW li, li = LastOf(rv[p].buf).i
             PROVE  IsRead(e, p, seg, n, length, li)
  OBVIOUS
<1>1. RecvInv(e, p) /\ QueueInv(e, p)
  BY DEF DirInv
<1>2. /\ rx[p] # <<>> /\ Head(rx[p]).type = "CF" /\ Chunk(p).n = seg.n /\ Chunk(p).i = seg.i
  BY ChunkIs
<1>3. 1 \in DOMAIN rx[p] /\ Head(rx[p]) = rx[p][1] /\ Data(rx[p][1])
  <2>1. /\ DOMAIN rx[p] = 1 .. Len(rx[p]) /\ Len(rx[p]) > 0 /\ Len(rx[p]) \in Nat
        /\ Head(rx[p]) = rx[p][1]
    <3>1. rx[p] \in Seq(Frames)
      BY ChannelHas
    <3> QED BY <1>2, <3>1, Shortened
  <2> QED BY <1>2, <2>1 DEF Data
<1>4. p \in Receivers /\ p \notin Foreign
  <2>1. p \in Receivers
    BY <1>1 DEF RecvInv
  <2> QED BY <2>1, TypedHas, SettingIs
<1>5. /\ n \in DOMAIN payloads[e] /\ length = payloads[e][n] /\ length > 7
      /\ LastOf(rv[p].buf).n = n /\ li \in 0 .. CFCount(length) /\ seg.n = n
      /\ \A j \in DOMAIN delivered[p] : delivered[p][j][1].n < n
  BY <1>1, <1>2, <1>3 DEF RecvInv
<1>6. /\ IsPart(rx[p][1], payloads[e]) /\ Before(LastOf(rv[p].buf), seg)
      /\ (seg.n = Number(e) /\ tx[e].pc # "idle") => seg.i < Due(e)
  BY <1>1, <1>3 DEF QueueInv
<1>7. seg.i \in 1 .. CFCount(length) /\ seg.size = Least(7, length + 1 - 7 * seg.i)
  BY <1>2, <1>3, <1>5, <1>6 DEF IsPart
<1>8. length \in Nat /\ CFCount(length) \in Nat
  <2>1. length \in Nat
    BY RecvHas
  <2> QED BY <2>1 DEF CFCount
<1>9. n \in 1 .. Number(e) /\ Number(e) \in Nat /\ n \in Nat
  BY <1>5, NumberIs
<1>10. li < seg.i /\ li \in Nat
  <2>1. li \in Nat
    BY <1>5, <1>8
  <2> QED BY <1>5, <1>6, <1>9, <2>1 DEF Before
<1> QED BY <1>2, <1>3, <1>4, <1>5, <1>6, <1>7, <1>8, <1>9, <1>10 DEF IsRead

\* What Recv has gathered with it.
Gathered(p, k, n, length, b, have) ==
    /\ Len(b) \in Nat /\ Len(b) >= 2 /\ b[1].n = n /\ LastOf(b).n = n /\ LastOf(b).i = k
    /\ \/ /\ k = Len(b) - 1
          /\ Completes(p) => k = CFCount(length)
          /\ \A j \in 1 .. Len(b) : b[j] = Whole(n, length)[j]
          /\ ~Completes(p) => have = 7 * Len(b) - 1
       \/ ~Completes(p) /\ have <= 7 * k - 1

\* With the frame Recv reads, the message is exact, or will never be complete.
LEMMA GrownIs ==
    ASSUME Typed, NEW e \in Ends, NEW p \in Ends, DirInv(e, p), rv[p].pc = "cf", Arrived(p, "CF")
    PROVE  Gathered(p, Head(rx[p]).seg.i, rv[p].buf[1].n, rv[p].length, Grown(p),
                    rv[p].have + Chunk(p).size)
<1> SUFFICES ASSUME NEW k, k = Head(rx[p]).seg.i, NEW n, n = rv[p].buf[1].n,
                    NEW length, length = rv[p].length, NEW b, b = Grown(p),
                    NEW have, have = rv[p].have + Chunk(p).size
             PROVE  Gathered(p, k, n, length, b, have)
  OBVIOUS
<1> DEFINE seg == Head(rx[p]).seg
           li == LastOf(rv[p].buf).i
           len == Len(rv[p].buf)
           size == Chunk(p).size
<1>1. /\ length > 7 /\ length \in Nat /\ k \in 1 .. CFCount(length) /\ CFCount(length) \in Nat
      /\ seg.size = Least(7, length + 1 - 7 * k) /\ li \in Nat /\ li < k
      /\ Chunk(p).n = n /\ Chunk(p).i = k
  BY CFRead DEF IsRead
<1>2. /\ rv[p].have \in Nat /\ rv[p].have < length /\ size \in 1 .. 7
      /\ size = Least(seg.size, length - rv[p].have) /\ Chunk(p) \in Segments
      /\ rv[p].buf \in Seq(Segments)
  BY ChunkIs
<1>3. len \in Nat /\ len >= 1 /\ (Exact(p) \/ Behind(p))
  BY RecvHas DEF DirInv, RecvInv
<1>4. /\ Len(b) = len + 1 /\ b[len + 1] = Chunk(p) /\ \A j \in 1 .. len : b[j] = rv[p].buf[j]
  BY <1>2, Appended DEF Grown
<1>5. /\ Len(b) \in Nat /\ Len(b) >= 2 /\ b[1].n = n /\ LastOf(b) = Chunk(p)
      /\ 1 \in 1 .. len
  BY <1>3, <1>4 DEF LastOf
<1>6. k \in Nat /\ (Exact(p) => li = len - 1 /\ rv[p].have = 7 * len - 1)
      /\ (Behind(p) => rv[p].have <= 7 * li - 1)
  BY <1>1 DEF Exact, Behind
<1>7. Completes(p) <=> have >= length
  BY DEF Completes
<1>8. \/ /\ li = len - 1 /\ rv[p].have = 7 * len - 1 /\ k = len
         /\ size = Least(7, length + 1 - 7 * k)
         /\ rv[p].have + size >= length => k = CFCount(length)
         /\ rv[p].have + size < length => rv[p].have + size = 7 * (len + 1) - 1
      \/ rv[p].have + size < length /\ rv[p].have + size <= 7 * k - 1
  <2> DEFINE h == rv[p].have
  <2>1. Takes(h, length, k, li, len, size)
    BY <1>1, <1>2, <1>3, <1>6 DEF Takes
  <2> HIDE DEF h, li, len, size
  <2>2. \/ /\ li = len - 1 /\ h = 7 * len - 1 /\ k = len
           /\ size = Least(7, length + 1 - 7 * k)
           /\ h + size >= length => k = CFCount(length)
           /\ h + size < length => h + size = 7 * (len + 1) - 1
        \/ h + size < length /\ h + size <= 7 * k - 1
    BY ONLY <2>1, Gathers
  <2> QED BY <2>2 DEF h
<1>9. have \in Nat /\ length \in Nat
  <2>1. size \in Nat /\ rv[p].have \in Nat /\ have = rv[p].have + size
    BY <1>2
  <2> HIDE DEF size
  <2> QED BY <1>1, <2>1
<1> HIDE DEF size, li
<1>10. CASE rv[p].have + size < length /\ rv[p].have + size <= 7 * k - 1
  <2>1. have < length /\ have <= 7 * k - 1
    BY <1>10 DEF size
  <2>2. ~Completes(p)
    BY <1>7, <1>9, <2>1
  <2> QED BY <1>1, <1>5, <2>1, <2>2 DEF Gathered
<1>11. CASE /\ li = len - 1 /\ rv[p].have = 7 * len - 1 /\ k = len
            /\ size = Least(7, length + 1 - 7 * k)
            /\ rv[p].have + size >= length => k = CFCount(length)
            /\ rv[p].have + size < length => rv[p].have + size = 7 * (len + 1) - 1
  <2>1. CASE Exact(p)
    <3>1. Chunk(p) = Whole(n, length)[len + 1]
      <4>1. len + 1 \in 1 .. 1 + CFCount(length) /\ len + 1 # 1 /\ (len + 1) - 1 = k
            /\ length - 6 - 7 * ((len + 1) - 2) = length + 1 - 7 * k
        <5>1. len \in Nat /\ len >= 1 /\ k = len /\ k \in 1 .. CFCount(length)
              /\ CFCount(length) \in Nat /\ length \in Nat
          BY <1>1, <1>3, <1>11
        <5> DEFINE q == CFCount(length)
        <5>2. len \in Nat /\ len >= 1 /\ k = len /\ k \in 1 .. q /\ q \in Nat /\ length \in Nat
          BY <5>1
        <5> HIDE DEF q, len
        <5>3. /\ len + 1 \in 1 .. 1 + q /\ len + 1 # 1 /\ (len + 1) - 1 = k
              /\ length - 6 - 7 * ((len + 1) - 2) = length + 1 - 7 * k
          BY ONLY <5>2
        <5> QED BY <5>3 DEF q
      <4>2. Whole(n, length)[len + 1] = Segment(n, k, Least(7, length + 1 - 7 * k))
        <5> HIDE DEF len
        <5> QED BY <1>1, <4>1 DEF Whole
      <4>3. Chunk(p) = Segment(n, k, size)
        BY <1>1, <1>2 DEF Segments, Segment, size
      <4> QED BY <1>11, <4>2, <4>3
    <3>2. \A j \in 1 .. len : rv[p].buf[j] = Whole(n, length)[j]
      BY <2>1 DEF Exact
    <3>3. \A j \in 1 .. len + 1 : j \in 1 .. len \/ j = len + 1
      BY <1>3
    <3>4. \A j \in 1 .. Len(b) : b[j] = Whole(n, length)[j]
      <4> HIDE DEF len
      <4> QED BY <1>4, <3>1, <3>2, <3>3
    <3>5. k = Len(b) - 1
      BY <1>3, <1>4, <1>11
    <3>6. ~Completes(p) => have = 7 * Len(b) - 1
      BY <1>4, <1>7, <1>9, <1>11 DEF size
    <3> QED BY <1>1, <1>5, <1>7, <1>11, <3>4, <3>5, <3>6 DEF size, Gathered
  <2>2. CASE Behind(p)
    \* A Recv that has missed a frame has gathered less.
    <3>1. rv[p].have <= 7 * li - 1
      BY <1>6, <2>2
    <3>2. FALSE
      BY <1>1, <1>3, <1>11, <3>1 DEF li
    <3> QED BY <3>2
  <2> QED BY <1>3, <2>1, <2>2
<1> QED BY <1>8, <1>10, <1>11

\* What a consecutive frame that is not the last changes.
LEMMA GatherIs ==
    ASSUME Typed, NEW p \in Ends, RecvConsecutiveFrame(p)
    PROVE  /\ rv[p].pc = "cf" /\ Arrived(p, "CF") /\ ~Completes(p)
           /\ UNCHANGED <<setting, tx, payloads, result, delivered>>
           /\ rv'[p].pc = "cf" /\ rv'[p].length = rv[p].length /\ rv'[p].buf = Grown(p)
           /\ rv'[p].have = rv[p].have + Chunk(p).size
           /\ rv'[p].block = IF BlockReceived(p) THEN 0 ELSE rv[p].block + 1
           /\ rx'[p] = Tail(rx[p])
           /\ ~BlockReceived(p) => rx'[Peer(p)] = rx[Peer(p)]
           /\ \/ rx'[Peer(p)] = rx[Peer(p)]
              \/ rx'[Peer(p)] = Append(rx[Peer(p)], FC("CTS", setting.block[p]))
<1> DEFINE b == IF BlockReceived(p) THEN 0 ELSE rv[p].block + 1
           h == rv[p].have + Chunk(p).size
           w == (rv[p].sn + 1) % setting.sns
           r == [rv[p] EXCEPT !.buf = Grown(p), !.have = h, !.sn = w, !.block = b]
           g == FC("CTS", setting.block[p])
           q == Rest(p)
<1>1. /\ rv[p].pc = "cf" /\ Arrived(p, "CF") /\ ~Completes(p)
      /\ UNCHANGED <<setting, tx, payloads, result, delivered>>
      /\ IF BlockReceived(p) THEN Put(p, q, g) ELSE rx' = q
  BY DEF RecvConsecutiveFrame
<1>2. rv' = [rv EXCEPT ![p] = r]
  BY DEF RecvConsecutiveFrame
<1>3. rv \in [Ends -> RvSet] /\ rv[p] \in RecvStates
  BY <1>1, ChunkIs, TypedHas
<1>4. rv'[p] = r
  <2> HIDE DEF r
  <2> QED BY <1>2, <1>3
<1>5. /\ r.pc = rv[p].pc /\ r.length = rv[p].length /\ r.buf = Grown(p) /\ r.have = h
      /\ r.block = b
  <2> HIDE DEF b, h, w
  <2> QED BY <1>3 DEF RecvStates
<1>6. q \in [Ends -> RxSet] /\ q[p] = Tail(rx[p]) /\ q[Peer(p)] = rx[Peer(p)]
  <2>1. rx[p] # <<>> /\ Peer(p) \in Ends \ {p}
    BY <1>1, ChunkIs, PeerIs
  <2> QED BY <2>1, RestIs
<1>7. g \in Frames /\ ~Data(g)
  <2>1. setting.block[p] \in 0 .. 255
    BY TypedSetting
  <2> QED BY <2>1, AnswersAre
<1> HIDE DEF g, q, r
<1>8. CASE BlockReceived(p)
  <2>1. rx'[p] = q[p] /\ (rx'[Peer(p)] = q[Peer(p)] \/ rx'[Peer(p)] = Append(q[Peer(p)], g))
    BY <1>1, <1>6, <1>7, <1>8, PutIs
  <2> QED BY <1>1, <1>4, <1>5, <1>6, <1>8, <2>1 DEF g
<1>9. CASE ~BlockReceived(p)
  BY <1>1, <1>4, <1>5, <1>6, <1>9
<1> QED BY <1>8, <1>9

\* Recv gathers one more consecutive frame, and asks for more at the end of a block: then
\* Send is at the end of the same block.
LEMMA GatherKeeps ==
    ASSUME Typed, NEW e \in Ends, NEW p \in Ends, p = Peer(e), RecvConsecutiveFrame(p), DirInv(e, p)
    PROVE  DirInv(e, p)'
<1> DEFINE seg == Head(rx[p]).seg
           k == seg.i
           n == rv[p].buf[1].n
           length == rv[p].length
           li == LastOf(rv[p].buf).i
           q == CFCount(length)
           bs == setting.block[p]
           B == rv[p].block
           T == tx[e].block
           D == Due(e)
           N == Number(e)
           full == BlockReceived(p)
<1>d. SendInv(e) /\ QueueInv(e, p) /\ RecvInv(e, p) /\ FlowInv(e, p) /\ DeliveredInv(e, p)
  BY DEF DirInv
<1>1. Typed' /\ ReceiverStep(p) /\ p # e /\ Peer(p) = e
  BY TypedRecv, PeerIs DEF RecvStep
<1>2. /\ rv[p].pc = "cf" /\ Arrived(p, "CF") /\ ~Completes(p)
      /\ UNCHANGED <<setting, tx, payloads, result, delivered>>
      /\ rv'[p].pc = "cf" /\ rv'[p].length = length /\ rv'[p].buf = Grown(p)
      /\ rv'[p].have = rv[p].have + Chunk(p).size
      /\ rv'[p].block = IF full THEN 0 ELSE B + 1
      /\ rx'[p] = Tail(rx[p])
      /\ ~full => rx'[e] = rx[e]
      /\ rx'[e] = rx[e] \/ rx'[e] = Append(rx[e], FC("CTS", bs))
  BY <1>1, GatherIs
<1>3. /\ p \in Receivers /\ p \notin Foreign /\ rx[p] # <<>> /\ 1 \in DOMAIN rx[p]
      /\ n \in DOMAIN payloads[e] /\ length = payloads[e][n] /\ length > 7 /\ n \in 1 .. N
      /\ seg.n = n /\ k \in 1 .. q /\ li < k
      /\ \A j \in DOMAIN delivered[p] : delivered[p][j][1].n < n
      /\ (n = N /\ tx[e].pc # "idle") => k < D
      /\ li \in Nat /\ q \in Nat /\ N \in Nat
  BY <1>2, CFRead DEF IsRead
<1>4. bs \in 0 .. 255 /\ B \in Nat /\ T \in Nat
  BY TypedSetting, RecvHas, SendHas
<1>5. (n = N /\ tx[e].pc # "idle") => D \in Nat
  <2>1. (n = N /\ tx[e].pc # "idle") => D \in Int
    BY SendHas DEF Due, CFCount
  <2> HIDE DEF D, N, n, k
  <2> QED BY <1>3, <2>1
<1>6. full <=> bs # 0 /\ B + 1 = bs
  BY DEF BlockReceived
<1>7. /\ tx[e].fc.status = "CTS" /\ tx[e].pc # "resume"
      /\ tx[e].pc \in {"loop", "block"} => tx[e].fc.bs = bs
      /\ tx[e].pc = "loop" => bs = 0 \/ T < bs
      /\ tx[e].pc = "block" => bs > 0 /\ T = bs
      /\ tx[e].pc = "first" => T = 0
      /\ (~Failed(e) /\ Answered(e)) => tx[e].pc \in {"first", "block"}
      /\ (n = N /\ tx[e].pc # "idle") =>
            /\ B + D - 1 - li <= T
            /\ Answered(e) => B = 0 /\ li = D - 1
      /\ (n < N \/ (tx[e].pc = "idle" /\ ~Failed(e))) => bs = 0 \/ B + q - li < bs
      /\ n < N => tx[e].pc \in {"idle", "first"} /\ ~Answered(e)
      /\ Failed(e) => tx[e].pc = "idle"
      /\ tx[e].pc \in {"idle", "first", "loop", "resume", "block"}
  BY <1>2, <1>3, <1>d, SendHas DEF FlowInv, RecvInv, SendInv
<1>8. /\ Len(Grown(p)) \in Nat /\ Len(Grown(p)) >= 2 /\ Grown(p)[1].n = n
      /\ LastOf(Grown(p)).n = n /\ LastOf(Grown(p)).i = k
      /\ \/ /\ k = Len(Grown(p)) - 1
            /\ \A j \in 1 .. Len(Grown(p)) : Grown(p)[j] = Whole(n, length)[j]
            /\ rv'[p].have = 7 * Len(Grown(p)) - 1
         \/ rv'[p].have <= 7 * k - 1
  <2>1. Gathered(p, k, n, length, Grown(p), rv[p].have + Chunk(p).size)
    BY <1>2, GrownIs
  <2> DEFINE have == rv[p].have + Chunk(p).size
             b == Grown(p)
  <2>2. Gathered(p, k, n, length, b, have) /\ ~Completes(p) /\ rv'[p].have = have
    BY <1>2, <2>1
  <2> HIDE DEF have, b, k, n, length
  <2>3. /\ Len(b) \in Nat /\ Len(b) >= 2 /\ b[1].n = n /\ LastOf(b).n = n /\ LastOf(b).i = k
        /\ \/ k = Len(b) - 1 /\ (\A j \in 1 .. Len(b) : b[j] = Whole(n, length)[j])
              /\ have = 7 * Len(b) - 1
           \/ have <= 7 * k - 1
    BY <2>2 DEF Gathered
  <2> QED BY <2>2, <2>3 DEF b
<1>9. /\ (Failed(e)' <=> Failed(e)) /\ Number(e)' = N /\ Due(e)' = D
      /\ (AllSent(e)' <=> AllSent(e))
  BY <1>2 DEF Failed, Number, Due, AllSent
<1>10. \A i \in DOMAIN rx'[p] : \E m \in DOMAIN rx[p] : rx'[p][i] = rx[p][m]
  BY <1>2, <1>3, DataRead
<1>11. \A i \in DOMAIN rx'[p] : Data(rx'[p][i]) =>
          /\ Before(seg, rx'[p][i].seg) /\ IsPart(rx'[p][i], payloads[e])
          /\ \A j \in DOMAIN delivered[p] : delivered[p][j][1].n < rx'[p][i].seg.n
  <2>1. Data(Head(rx[p]))
    BY <1>2 DEF Arrived, Data
  <2> HIDE DEF seg
  <2> QED BY <1>1, <1>2, <1>3, <1>d, <2>1, QueueAfter DEF seg
<1> HIDE DEF seg, k, n, length, li, q, bs, B, T, D, N, full
<1>12. full => /\ n = N /\ (tx[e].pc = "idle" => Failed(e))
               /\ tx[e].pc # "idle" => tx[e].pc = "block" /\ ~Answered(e) /\ k = D - 1 /\ T = bs
  <2>1. full => ~(n < N \/ (tx[e].pc = "idle" /\ ~Failed(e)))
    BY <1>3, <1>4, <1>6, <1>7
  <2>2. full /\ tx[e].pc # "idle" => B + 1 <= T /\ ~Answered(e) /\ (T = B + 1 => k = D - 1)
    BY <1>3, <1>4, <1>5, <1>7, <2>1
  <2> QED BY <1>3, <1>4, <1>6, <1>7, <2>1, <2>2
<1>13. SendInv(e)'
  BY <1>2, <1>d DEF SendInv, Failed, Number, Due, AllSent
<1>14. QueueInv(e, p)'
  <2>1. \A i \in DOMAIN rx'[p] : Data(rx'[p][i]) => Before(LastOf(rv'[p].buf), rx'[p][i].seg)
    <3>1. LastOf(rv'[p].buf).n = seg.n /\ LastOf(rv'[p].buf).i = seg.i
      BY <1>2, <1>3, <1>8 DEF k
    <3>2. \A u : Before(seg, u) => Before(LastOf(rv'[p].buf), u)
      BY <3>1 DEF Before
    <3> QED BY <1>11, <3>2
  <2>2. Data(Head(rx[p]))
    BY <1>2 DEF Arrived, Data
  <2> QED BY <1>1, <1>2, <1>3, <1>11, <1>d, <2>1, <2>2, QueueRest
<1>15. RecvInv(e, p)'
  <2>1. Exact(p)' \/ Behind(p)'
    <3> DEFINE b == Grown(p)
    <3>1. /\ rv'[p].buf = b /\ rv'[p].length = length /\ b[1].n = n /\ LastOf(b).i = k
          /\ \/ /\ k = Len(b) - 1 /\ \A j \in 1 .. Len(b) : b[j] = Whole(n, length)[j]
                /\ rv'[p].have = 7 * Len(b) - 1
             \/ rv'[p].have <= 7 * k - 1
      BY <1>2, <1>8
    <3> HIDE DEF b
    <3> QED BY <3>1 DEF Exact, Behind
  <2>2. \A i \in DOMAIN rx'[p] : rx'[p][i].type = "CF" => rx'[p][i].seg.n = n
    BY <1>2, <1>10, <1>d DEF RecvInv, n
  <2>3. n < N => tx[e].pc \in {"idle", "first"} /\ ~Answered(e)'
    <3>1. n < N => ~full
      BY <1>3, <1>12
    <3> QED BY <1>2, <1>7, <3>1 DEF Answered
  <2>4. k \in 0 .. q
    BY <1>3
  <2> HIDE DEF Exact, Behind
  <2> QED BY <1>2, <1>3, <1>8, <1>9, <2>1, <2>2, <2>3, <2>4 DEF RecvInv, q
<1>16. FlowInv(e, p)'
  <2>1. \A i \in DOMAIN rx[e] : rx[e][i].type = "FC" => rx[e][i] = FC("CTS", bs)
    BY <1>3, <1>d DEF FlowInv, bs
  <2>2. \A i \in DOMAIN rx'[e] : rx'[e][i].type = "FC" => rx'[e][i] = FC("CTS", bs)
    BY <1>2, <1>4, <2>1, AnswerGrows
  <2>3. ~Failed(e) => \A i, j \in DOMAIN rx'[e] :
              rx'[e][i].type = "FC" /\ rx'[e][j].type = "FC" => i = j
    <3>1. CASE ~full
      BY <1>2, <1>3, <1>d, <3>1 DEF FlowInv
    <3>2. CASE full
      <4>1. ~Failed(e) => ~Answered(e)
        BY <1>12, <3>2
      <4> QED BY <1>2, <1>4, <2>1, <4>1, AnswerGrows
    <3> QED BY <3>1, <3>2
  <2>4. ~full => (Answered(e)' <=> Answered(e))
    BY <1>2 DEF Answered
  <2>5. \A i \in DOMAIN rx'[p] : rx'[p][i].type = "FF" =>
              /\ rx'[p][i].seg.n = N /\ tx[e].pc \in {"idle", "first"}
              /\ (tx[e].pc = "idle" => Failed(e)) /\ ~Answered(e) /\ ~full
    <3> SUFFICES ASSUME NEW i \in DOMAIN rx'[p], rx'[p][i].type = "FF"
                 PROVE  /\ rx'[p][i].seg.n = N /\ tx[e].pc \in {"idle", "first"}
                        /\ (tx[e].pc = "idle" => Failed(e)) /\ ~Answered(e) /\ ~full
      OBVIOUS
    <3>1. /\ rx'[p][i].seg.n = N /\ tx[e].pc \in {"idle", "first"}
          /\ (tx[e].pc = "idle" => Failed(e)) /\ ~Answered(e)
      BY <1>3, <1>10, <1>d DEF FlowInv, N
    <3>2. IsPart(rx'[p][i], payloads[e]) /\ Before(seg, rx'[p][i].seg)
      BY <1>11 DEF Data
    <3>3. rx'[p][i].seg = Segment(rx'[p][i].seg.n, 0, 6)
      BY <3>2 DEF IsPart
    <3>4. rx'[p][i].seg.i = 0
      BY <3>3 DEF Segment
    <3>5. n < N
      BY <1>3, <3>1, <3>2, <3>4 DEF Before, k
    <3> QED BY <1>3, <1>12, <3>1, <3>5
  <2>6. (~Failed(e) /\ Answered(e)') => tx[e].pc \in {"first", "block"}
    BY <1>7, <1>12, <2>4
  <2>7. (n = N /\ tx[e].pc # "idle") =>
            /\ rv'[p].block + D - 1 - k <= T
            /\ Answered(e)' => rv'[p].block = 0 /\ k = D - 1
    <3> SUFFICES ASSUME n = N, tx[e].pc # "idle"
                 PROVE  /\ rv'[p].block + D - 1 - k <= T
                        /\ Answered(e)' => rv'[p].block = 0 /\ k = D - 1
      OBVIOUS
    <3>1. CASE full
      BY <1>2, <1>3, <1>4, <1>5, <1>12, <3>1
    <3>2. CASE ~full
      BY <1>2, <1>3, <1>4, <1>5, <1>7, <2>4, <3>2
    <3> QED BY <3>1, <3>2
  <2>8. (n < N \/ (tx[e].pc = "idle" /\ ~Failed(e))) => bs = 0 \/ rv'[p].block + q - k < bs
    <3> SUFFICES ASSUME n < N \/ (tx[e].pc = "idle" /\ ~Failed(e))
                 PROVE  bs = 0 \/ rv'[p].block + q - k < bs
      OBVIOUS
    <3>1. ~full
      BY <1>3, <1>12
    <3>2. rv'[p].block = B + 1 /\ (bs = 0 \/ B + q - li < bs)
      BY <1>2, <1>7, <3>1
    <3>3. bs \in Nat /\ B \in Nat /\ li \in Nat /\ q \in Nat /\ k \in Nat /\ li < k
      BY <1>3, <1>4
    <3>4. bs = 0 \/ (B + 1) + q - k < bs
      BY ONLY <3>2, <3>3
    <3> QED BY <3>2, <3>4
  <2>9. Answered(e)' => Answered(e) \/ full
    BY <2>4
  <2> QED BY <1>2, <1>3, <1>7, <1>8, <1>9, <2>2, <2>3, <2>5, <2>6, <2>7, <2>8, <2>9
          DEF FlowInv, bs, q, T
<1>17. DeliveredInv(e, p)'
  BY <1>2, <1>9, <1>d DEF DeliveredInv, N
<1> QED BY <1>13, <1>14, <1>15, <1>16, <1>17 DEF DirInv

\* A message that is complete is a whole payload.
LEMMA CompleteIs ==
    ASSUME Typed, NEW e \in Ends, NEW p \in Ends, DirInv(e, p), rv[p].pc = "cf", Arrived(p, "CF"),
           Completes(p)
    PROVE  /\ Head(rx[p]).seg.i = CFCount(rv[p].length)
           /\ Grown(p) = Whole(rv[p].buf[1].n, rv[p].length)
           /\ Grown(p) \in Seq(Segments) /\ Grown(p)[1].n = rv[p].buf[1].n
<1> DEFINE k == Head(rx[p]).seg.i
           n == rv[p].buf[1].n
           length == rv[p].length
           b == Grown(p)
           W == Whole(n, length)
           have == rv[p].have + Chunk(p).size
<1>1. b \in Seq(Segments)
  BY ChunkIs
<1>2. length > 7 /\ length \in Nat /\ CFCount(length) \in Nat
  BY CFRead DEF IsRead
<1>3. Gathered(p, k, n, length, b, have)
  BY GrownIs
<1> HIDE DEF k, n, length, b, have
<1>4. /\ k = Len(b) - 1 /\ k = CFCount(length) /\ b[1].n = n
      /\ \A j \in 1 .. Len(b) : b[j] = W[j]
      /\ Len(b) \in Nat
  BY <1>3 DEF Gathered
<1>5. W = [j \in 1 .. 1 + CFCount(length) |->
              Segment(n, j - 1, IF j = 1 THEN 6 ELSE Least(7, length - 6 - 7 * (j - 2)))]
  BY <1>2 DEF Whole
<1> HIDE DEF W
<1>6. Len(b) = 1 + CFCount(length)
  BY <1>2, <1>4
<1>7. b = [j \in 1 .. Len(b) |-> b[j]]
  BY <1>1
<1>8. W = [j \in 1 .. Len(b) |-> W[j]]
  BY <1>5, <1>6
<1>9. b = W
  BY <1>4, <1>7, <1>8
<1> QED BY <1>1, <1>4, <1>9 DEF k, n, length, b, W

\* The last consecutive frame completes a message, and Recv returns it.
LEMMA LastKeeps ==
    ASSUME Typed, NEW e \in Ends, NEW p \in Ends, p # e, RecvLast(p), DirInv(e, p)
    PROVE  DirInv(e, p)'
<1> DEFINE seg == Head(rx[p]).seg
           k == seg.i
           n == rv[p].buf[1].n
           length == rv[p].length
           b == Grown(p)
<1>d. SendInv(e) /\ QueueInv(e, p) /\ RecvInv(e, p) /\ FlowInv(e, p) /\ DeliveredInv(e, p)
  BY DEF DirInv
<1>1. Typed' /\ ReceiverStep(p)
  BY TypedRecv DEF RecvStep
<1>2. /\ UNCHANGED <<setting, tx, payloads, result>> /\ rx' = Rest(p) /\ rv[p].pc = "cf"
      /\ Arrived(p, "CF") /\ Completes(p) /\ Deliver(p, b) /\ Restart(p)
  BY DEF RecvLast
<1>3. /\ p \in Receivers /\ p \notin Foreign /\ rx[p] # <<>>
      /\ n \in DOMAIN payloads[e] /\ length = payloads[e][n] /\ length > 7 /\ length \in Nat
      /\ n \in 1 .. Number(e) /\ Number(e) \in Nat
      /\ seg.n = n /\ k \in 1 .. CFCount(length) /\ CFCount(length) \in Nat
      /\ \A j \in DOMAIN delivered[p] : delivered[p][j][1].n < n
      /\ (n = Number(e) /\ tx[e].pc # "idle") => k < Due(e)
  BY <1>2, CFRead DEF IsRead
<1>4. k = CFCount(length) /\ b = Whole(n, length) /\ b \in Seq(Segments) /\ b[1].n = n
  BY <1>2, CompleteIs
<1>5. rx'[p] = Tail(rx[p]) /\ rx'[e] = rx[e]
  BY <1>2, <1>3, RestIs
<1>6. rv'[p].pc = "first"
  <2>1. rv \in [Ends -> RvSet]
    BY TypedHas
  <2>2. rv'[p] = NoRecv
    BY <1>2, <2>1 DEF Restart
  <2> QED BY <2>2 DEF NoRecv
<1>7. Data(Head(rx[p]))
  BY <1>2 DEF Arrived, Data
<1> HIDE DEF seg, k, n, length, b
<1>8. delivered'[p] = Append(delivered[p], b)
  BY <1>2, <1>4, DeliverIs
<1>9. (tx[e].pc # "idle" /\ ~AllSent(e)) => n < Number(e)
  <2> SUFFICES ASSUME tx[e].pc # "idle", ~AllSent(e), n = Number(e) PROVE FALSE
    BY <1>3
  <2> DEFINE sent == tx[e].sent
             D == Due(e)
  <2>1. tx[e].length = length /\ sent = 7 * D - 1 /\ D >= 1 /\ sent \in Nat
    BY <1>3, <1>d, SendHas DEF SendInv
  <2>2. D \in Nat /\ sent < length
    <3>1. D = (sent + 1) \div 7
      BY DEF Due
    <3>2. D \in Int
      BY <2>1, <3>1
    <3> HIDE DEF D
    <3>3. D \in Nat
      BY <2>1, <3>2
    <3> QED BY <1>3, <2>1, <3>3 DEF AllSent
  <2>3. k < D
    BY <1>3
  <2> HIDE DEF D, sent
  <2>4. D \in 1 .. CFCount(length)
    BY <1>3, <2>1, <2>2, Places
  <2> QED BY <1>3, <1>4, <2>2, <2>3, <2>4
<1>10. DeliveredInv(e, p)'
  <2>1. /\ b \in Seq(Segments) /\ delivered'[p] = Append(delivered[p], b) /\ b[1].n = n
        /\ b = Whole(n, payloads[e][n])
    BY <1>3, <1>4, <1>8
  <2> QED BY <1>2, <1>3, <1>9, <1>d, <2>1, DeliveredKeeps
<1>11. \A i \in DOMAIN rx'[p] : Data(rx'[p][i]) =>
          \A j \in DOMAIN delivered'[p] : delivered'[p][j][1].n < rx'[p][i].seg.n
  <2> SUFFICES ASSUME NEW i \in DOMAIN rx'[p], Data(rx'[p][i]), NEW j \in DOMAIN delivered'[p]
               PROVE  delivered'[p][j][1].n < rx'[p][i].seg.n
    BY DEF Data
  <2> DEFINE g == rx'[p][i]
  <2>1. /\ g.seg.n \in Nat /\ IsPart(g, payloads[e]) /\ Before(seg, g.seg)
        /\ \A m \in DOMAIN delivered[p] : delivered[p][m][1].n < g.seg.n
        /\ g.seg.i \in Nat
    BY <1>1, <1>2, <1>3, <1>5, <1>7, <1>d, QueueAfter DEF seg
  <2> HIDE DEF g
  <2>2. n < g.seg.n
    <3>1. g.seg.n = n => g.seg.i = 0 \/ g.seg.i \in 1 .. CFCount(length)
      <4>1. g.seg.n = n => g.seg = Segment(g.seg.n, 0, 6) \/ g.seg.i \in 1 .. CFCount(length)
        BY <1>3, <2>1 DEF IsPart
      <4> QED BY <4>1 DEF Segment
    <3>2. g.seg.n = n => ~(k < g.seg.i)
      BY <1>3, <1>4, <2>1, <3>1
    <3> QED BY <1>3, <2>1, <3>2 DEF Before, k
  <2>3. CASE j \in 1 .. Len(delivered[p])
    <3>1. delivered'[p][j] = delivered[p][j] /\ j \in DOMAIN delivered[p]
      BY <1>4, <1>8, <2>3, ReturnedIs
    <3> QED BY <2>1, <3>1 DEF g
  <2>4. CASE j = Len(delivered[p]) + 1
    <3>1. delivered'[p][j] = b
      BY <1>4, <1>8, <2>4, ReturnedIs
    <3> QED BY <1>4, <2>2, <3>1 DEF g
  <2>5. j \in 1 .. Len(delivered[p]) \/ j = Len(delivered[p]) + 1
    BY <1>4, <1>8, ReturnedIs
  <2> QED BY <2>3, <2>4, <2>5
<1>12. SendInv(e)'
  BY <1>2, <1>d DEF SendInv, Failed, Number, Due, AllSent
<1>13. QueueInv(e, p)'
  BY <1>1, <1>2, <1>3, <1>5, <1>6, <1>7, <1>11, <1>d, QueueRest
<1>14. RecvInv(e, p)'
  BY <1>2, <1>3, <1>6 DEF RecvInv
<1>15. FlowInv(e, p)'
  <2>1. \A i \in DOMAIN rx'[p] : \E m \in DOMAIN rx[p] : rx'[p][i] = rx[p][m]
    BY <1>3, <1>5, DataRead
  <2>2. /\ (Failed(e)' <=> Failed(e)) /\ Number(e)' = Number(e)
        /\ (Answered(e)' <=> Answered(e))
    BY <1>2, <1>5 DEF Failed, Number, Answered
  <2> QED BY <1>2, <1>3, <1>5, <1>6, <1>d, <2>1, <2>2 DEF FlowInv
<1> QED BY <1>10, <1>12, <1>13, <1>14, <1>15 DEF DirInv

-----------------------------------------------------------------------------
(* All the other steps only take from a direction. *)

\* A channel that loses its first frame, or gets one of the other kind.
LEMMA KeptSame ==
    ASSUME Typed, NEW c \in Ends, rx'[c] = rx[c]
    PROVE  KeptData(rx[c], rx'[c]) /\ KeptFCs(rx[c], rx'[c])
<1>1. \A i \in DOMAIN rx[c] : i \in Nat
  BY ChannelHas
<1>2. \A i \in DOMAIN rx'[c] : i + 0 \in DOMAIN rx[c] /\ rx'[c][i] = rx[c][i + 0]
  BY <1>1
<1> QED BY <1>2 DEF KeptData, KeptFCs

\* The channel its end has read a frame from.
LEMMA KeptByTail ==
    ASSUME Typed, NEW c \in Ends, rx[c] # <<>>, rx'[c] = Tail(rx[c])
    PROVE  KeptData(rx[c], rx'[c]) /\ KeptFCs(rx[c], rx'[c])
<1>1. \A i \in DOMAIN rx'[c] : i + 1 \in DOMAIN rx[c] /\ rx'[c][i] = rx[c][i + 1]
  BY DataRead
<1> QED BY <1>1 DEF KeptData, KeptFCs

\* The channel that got a frame: it keeps the frames of the other kind.
LEMMA KeptByAppend ==
    ASSUME Typed, NEW c \in Ends, NEW f, rx'[c] = Append(rx[c], f)
    PROVE  /\ Data(f) => KeptFCs(rx[c], rx'[c])
           /\ ~Data(f) => KeptData(rx[c], rx'[c])
<1> DEFINE S == Frames \cup {f}
           L == Len(rx[c])
<1>1. rx[c] \in Seq(S)
  <2>1. rx[c] \in Seq(Frames)
    BY ChannelHas
  <2> HIDE DEF Frames
  <2> QED BY <2>1
<1>2. /\ DOMAIN rx'[c] = 1 .. L + 1 /\ rx'[c][L + 1] = f /\ DOMAIN rx[c] = 1 .. L /\ L \in Nat
      /\ \A i \in 1 .. L : rx'[c][i] = rx[c][i]
  <2>1. f \in S
    OBVIOUS
  <2> HIDE DEF S
  <2> QED BY <1>1, <2>1, Appended
<1> HIDE DEF L, S
<1>3. \A i \in DOMAIN rx'[c] : i = L + 1 \/ (i + 0 \in DOMAIN rx[c] /\ rx'[c][i] = rx[c][i + 0])
  BY <1>2
<1>4. ASSUME ~Data(f)
      PROVE  \A i \in DOMAIN rx'[c] :
                Data(rx'[c][i]) => i + 0 \in DOMAIN rx[c] /\ rx'[c][i] = rx[c][i + 0]
  BY <1>2, <1>3, <1>4
<1>5. ASSUME Data(f)
      PROVE  \A i \in DOMAIN rx'[c] :
                rx'[c][i].type = "FC" => i + 0 \in DOMAIN rx[c] /\ rx'[c][i] = rx[c][i + 0]
  BY <1>2, <1>3, <1>5 DEF Data
<1> QED BY <1>4, <1>5 DEF KeptData, KeptFCs

\* What bus.Send does to both channels.
LEMMA PutKeeps ==
    ASSUME Typed, NEW c \in Ends, NEW q \in [Ends -> RxSet], NEW f, Put(c, q, f),
           q[Peer(c)] = rx[Peer(c)]
    PROVE  /\ rx'[c] = q[c]
           /\ Data(f) => KeptFCs(rx[Peer(c)], rx'[Peer(c)])
           /\ ~Data(f) => KeptData(rx[Peer(c)], rx'[Peer(c)])
<1>1. Peer(c) \in Ends /\ Peer(c) # c
  BY PeerIs
<1> HIDE DEF RxSet
<1>2. \/ rx' = q
      \/ rx' = [q EXCEPT ![Peer(c)] = Append(q[Peer(c)], f)]
  BY DEF Put
<1>3. rx'[c] = q[c] /\ (rx'[Peer(c)] = rx[Peer(c)] \/ rx'[Peer(c)] = Append(rx[Peer(c)], f))
  BY <1>1, <1>2
<1>4. CASE rx'[Peer(c)] = rx[Peer(c)]
  BY <1>1, <1>3, <1>4, KeptSame
<1>5. CASE rx'[Peer(c)] = Append(rx[Peer(c)], f)
  BY <1>1, <1>3, <1>5, KeptByAppend
<1> QED BY <1>3, <1>4, <1>5

\* What a step of one end does to the channels.
LEMMA SendTraffic ==
    ASSUME Typed, NEW c \in Ends, SendCall(c) \/ SendStep(c)
    PROVE  /\ KeptData(rx[c], rx'[c]) /\ KeptFCs(rx[c], rx'[c])
           /\ KeptFCs(rx[Peer(c)], rx'[Peer(c)])
<1>0. Peer(c) \in Ends \ {c}
  BY PeerIs
<1>1. CASE \E f : Data(f) /\ Put(c, rx, f)
  <2>1. PICK f : Data(f) /\ Put(c, rx, f)
    BY <1>1
  <2>2. rx \in [Ends -> RxSet]
    BY TypedHas
  <2>3. rx'[c] = rx[c] /\ KeptFCs(rx[Peer(c)], rx'[Peer(c)])
    BY <2>1, <2>2, PutKeeps
  <2> QED BY <2>3, KeptSame
<1>2. CASE rx' = rx
  BY <1>0, <1>2, KeptSame
<1>3. CASE rx[c] # <<>> /\ rx' = Rest(c)
  <2>1. rx'[c] = Tail(rx[c]) /\ rx'[Peer(c)] = rx[Peer(c)]
    BY <1>0, <1>3, RestIs
  <2> QED BY <1>0, <1>3, <2>1, KeptByTail, KeptSame
<1>4. CASE SendCall(c)
  <2>1. PICK length \in setting.lengths[c] :
          SendOnClosed(c, length) \/ SendSingleFrame(c, length) \/ SendFirstFrame(c, length)
    BY <1>4 DEF SendCall
  <2>2. CASE SendOnClosed(c, length)
    BY <1>2, <2>2 DEF SendOnClosed
  <2>3. CASE SendSingleFrame(c, length)
    <3> DEFINE f == SF(Segment(Number(c) + 1, 0, length))
    <3>1. Put(c, rx, f) /\ Data(f)
      BY <2>3 DEF SendSingleFrame, SF, Data
    <3> HIDE DEF f
    <3> QED BY <1>1, <3>1
  <2>4. CASE SendFirstFrame(c, length)
    <3> DEFINE f == FF(Segment(Number(c) + 1, 0, 6), length)
    <3>1. Put(c, rx, f) /\ Data(f)
      BY <2>4 DEF SendFirstFrame, FF, Data
    <3> HIDE DEF f
    <3> QED BY <1>1, <3>1
  <2> QED BY <2>1, <2>2, <2>3, <2>4
<1>5. CASE SkipToFC(c) \/ FirstFC(c) \/ FCAfterWait(c) \/ FCAfterBlock(c)
  BY <1>3, <1>5 DEF SkipToFC, FirstFC, FCAfterWait, FCAfterBlock, Arrived
<1>6. CASE SendConsecutiveFrame(c)
  <2> DEFINE f == CF(Segment(Number(c), (tx[c].sent + 1) \div 7, Least(7, tx[c].length - tx[c].sent)),
                     tx[c].sn)
  <2>1. Put(c, rx, f) /\ Data(f)
    BY <1>6 DEF SendConsecutiveFrame, CF, Data
  <2> HIDE DEF f
  <2> QED BY <1>1, <2>1
<1>7. CASE SendFails(c)
  BY <1>2, <1>7 DEF SendFails
<1> QED BY <1>4, <1>5, <1>6, <1>7 DEF SendStep

\* Recv takes from its channel and puts flow controls only into its peer's.
LEMMA RecvTraffic ==
    ASSUME Typed, NEW c \in Ends, RecvStep(c)
    PROVE  /\ KeptData(rx[c], rx'[c]) /\ KeptFCs(rx[c], rx'[c])
           /\ KeptData(rx[Peer(c)], rx'[Peer(c)])
<1>0. Peer(c) \in Ends \ {c}
  BY PeerIs
<1>1. CASE rx[c] # <<>> /\ \E f : ~Data(f) /\ Put(c, Rest(c), f)
  <2>1. PICK f : ~Data(f) /\ Put(c, Rest(c), f)
    BY <1>1
  <2>2. Rest(c) \in [Ends -> RxSet] /\ Rest(c)[c] = Tail(rx[c]) /\ Rest(c)[Peer(c)] = rx[Peer(c)]
    BY <1>0, <1>1, RestIs
  <2> DEFINE q == Rest(c)
  <2> HIDE DEF q
  <2>3. rx'[c] = Tail(rx[c]) /\ KeptData(rx[Peer(c)], rx'[Peer(c)])
    BY <2>1, <2>2, PutKeeps DEF q
  <2> QED BY <1>1, <2>3, KeptByTail
<1>2. CASE rx' = rx
  BY <1>0, <1>2, KeptSame
<1>3. CASE rx[c] # <<>> /\ rx' = Rest(c)
  <2>1. rx'[c] = Tail(rx[c]) /\ rx'[Peer(c)] = rx[Peer(c)]
    BY <1>0, <1>3, RestIs
  <2> QED BY <1>0, <1>3, <2>1, KeptByTail, KeptSame
<1>f. ~Data(FC("CTS", setting.block[c]))
  BY DEF FC, Data
<1>4. CASE RecvFirstFrame(c)
  BY <1>1, <1>f, <1>4 DEF RecvFirstFrame, Arrived
<1>5. CASE RecvConsecutiveFrame(c)
  <2>1. rx[c] # <<>> /\ (Put(c, Rest(c), FC("CTS", setting.block[c])) \/ rx' = Rest(c))
    BY <1>5 DEF RecvConsecutiveFrame, Arrived
  <2> QED BY <1>1, <1>3, <1>f, <2>1
<1>6. CASE \/ RecvSingleFrame(c) \/ RecvStray(c) \/ RecvFirstFrameOnClosed(c) \/ SkipToCF(c)
           \/ RecvWrongSN(c) \/ RecvLast(c) \/ RecvBlockOnClosed(c)
  BY <1>3, <1>6 DEF RecvSingleFrame, RecvStray, RecvFirstFrameOnClosed, SkipToCF, RecvWrongSN,
                    RecvLast, RecvBlockOnClosed, Arrived
<1>7. CASE RecvFails(c)
  BY <1>2, <1>7 DEF RecvFails
<1> QED BY <1>4, <1>5, <1>6, <1>7 DEF RecvStep

\* A step of an end keeps both directions.
LEMMA SendKeeps ==
    ASSUME Typed, ~setting.retries, NEW e \in Ends, NEW c \in Ends, SendCall(c) \/ SendStep(c),
           DirInv(e, Peer(e))
    PROVE  DirInv(e, Peer(e))'
<1> DEFINE p == Peer(e)
<1>1. p \in Ends /\ p # e /\ Peer(p) = e /\ Ends = {e, p}
  BY PeerIs
<1>2. Typed' /\ SenderStep(c)
  BY TypedSend
<1>3. CASE c = p
  <2>1. /\ UNCHANGED <<setting, rv, delivered>>
        /\ tx'[e] = tx[e] /\ payloads'[e] = payloads[e] /\ result'[e] = result[e]
    BY <1>1, <1>2, <1>3 DEF SenderStep
  <2>2. KeptData(rx[p], rx'[p]) /\ KeptFCs(rx[e], rx'[e])
    BY <1>1, <1>3, SendTraffic
  <2>3. Thinned(e, p)
    BY <2>1, <2>2 DEF Thinned
  <2> QED BY <1>1, <1>2, <2>3, ThinnedKeeps
<1>4. CASE c = e
  <2>1. CASE SendCall(e)
    BY <2>1, CallKeeps
  <2>2. CASE SkipToFC(e)
    <3>1. UNCHANGED <<setting, tx, payloads, result, rv, delivered>> /\ rx[e] # <<>> /\ rx' = Rest(e)
      BY <2>2 DEF SkipToFC
    <3>2. rx'[e] = Tail(rx[e]) /\ rx'[p] = rx[p]
      BY <1>1, <3>1, RestIs
    <3>3. KeptData(rx[p], rx'[p]) /\ KeptFCs(rx[e], rx'[e])
      BY <1>1, <3>1, <3>2, KeptSame, KeptByTail
    <3>4. Thinned(e, p)
      BY <3>1, <3>3 DEF Thinned
    <3> QED BY <1>1, <1>2, <3>4, ThinnedKeeps
  <2>3. CASE FirstFC(e) \/ FCAfterWait(e) \/ FCAfterBlock(e)
    BY <2>3, FCKeeps
  <2>4. CASE SendConsecutiveFrame(e)
    BY <2>4, ConsecutiveKeeps
  <2>5. CASE SendFails(e)
    BY <2>5, FailKeeps
  <2> QED BY <1>4, <2>1, <2>2, <2>3, <2>4, <2>5 DEF SendStep
<1> QED BY <1>1, <1>3, <1>4

\* A step of Recv keeps both directions.
LEMMA RecvKeeps ==
    ASSUME Typed, NEW e \in Ends, NEW c \in Ends, RecvStep(c), DirInv(e, Peer(e))
    PROVE  DirInv(e, Peer(e))'
<1> DEFINE p == Peer(e)
<1>1. p \in Ends /\ p # e /\ Peer(p) = e /\ Ends = {e, p}
  BY PeerIs
<1>2. Typed' /\ ReceiverStep(c)
  BY TypedRecv
<1>3. CASE c = e
  <2>1. /\ UNCHANGED <<setting, tx, payloads, result>>
        /\ rv'[p] = rv[p] /\ delivered'[p] = delivered[p]
    BY <1>1, <1>2, <1>3 DEF ReceiverStep
  <2>2. KeptData(rx[p], rx'[p]) /\ KeptFCs(rx[e], rx'[e])
    BY <1>1, <1>3, RecvTraffic
  <2>3. Thinned(e, p)
    BY <2>1, <2>2 DEF Thinned
  <2> QED BY <1>1, <1>2, <2>3, ThinnedKeeps
<1>4. CASE c = p
  <2>1. CASE RecvSingleFrame(p)
    BY <1>1, <2>1, SingleKeeps
  <2>2. CASE RecvFirstFrame(p)
    BY <1>1, <2>2, FirstFrameKeeps
  <2>3. CASE RecvLast(p)
    BY <1>1, <2>3, LastKeeps
  <2>4. CASE RecvConsecutiveFrame(p)
    BY <1>1, <2>4, GatherKeeps
  <2>5. CASE \/ RecvStray(p) \/ RecvFirstFrameOnClosed(p) \/ SkipToCF(p)
             \/ RecvWrongSN(p) \/ RecvBlockOnClosed(p) \/ RecvFails(p)
    <3>1. /\ UNCHANGED <<setting, tx, payloads, result, delivered>>
          /\ rv' = rv \/ Restart(p)
          /\ rx' = rx \/ (rx[p] # <<>> /\ rx' = Rest(p))
      BY <2>5 DEF RecvStray, RecvFirstFrameOnClosed, SkipToCF, RecvWrongSN, RecvBlockOnClosed,
                  RecvFails, Arrived
    <3>2. rv'[p] = rv[p] \/ rv'[p].pc = "first"
      <4>1. rv \in [Ends -> RvSet]
        BY TypedHas
      <4>2. Restart(p) => rv'[p] = NoRecv
        BY <1>1, <4>1 DEF Restart
      <4> QED BY <3>1, <4>2 DEF NoRecv
    <3>3. KeptData(rx[p], rx'[p]) /\ KeptFCs(rx[e], rx'[e])
      <4>1. rx'[e] = rx[e]
        BY <1>1, <3>1, RestIs
      <4>2. rx'[p] = rx[p] \/ (rx[p] # <<>> /\ rx'[p] = Tail(rx[p]))
        BY <1>1, <3>1, RestIs
      <4> QED BY <1>1, <4>1, <4>2, KeptSame, KeptByTail
    <3>4. Thinned(e, p)
      BY <3>1, <3>2, <3>3 DEF Thinned
    <3> QED BY <1>1, <1>2, <3>4, ThinnedKeeps
  <2> QED BY <1>4, <2>1, <2>2, <2>3, <2>4, <2>5 DEF RecvStep
<1> QED BY <1>1, <1>3, <1>4

\* So does a step of a foreign end, and closing the bus.
LEMMA OtherKeeps ==
    ASSUME Typed, NEW e \in Ends, DirInv(e, Peer(e)), NEW c \in Ends,
           ForeignRead(c) \/ ForeignFC(c) \/ Close \/ UNCHANGED vars
    PROVE  DirInv(e, Peer(e))'
<1> DEFINE p == Peer(e)
<1>1. p \in Ends /\ p # e /\ Peer(p) = e /\ Ends = {e, p}
  BY PeerIs
<1>2. ASSUME UNCHANGED <<setting, tx, payloads, result, rv, delivered>>, Typed',
             KeptData(rx[p], rx'[p]), p \notin Foreign => KeptFCs(rx[e], rx'[e])
      PROVE  DirInv(e, p)'
  <2>1. Thinned(e, p)
    BY <1>2 DEF Thinned
  <2> QED BY <1>1, <1>2, <2>1, ThinnedKeeps
<1>3. CASE ForeignRead(c)
  <2>1. UNCHANGED <<setting, tx, payloads, result, rv, delivered>> /\ rx[c] # <<>> /\ rx' = Rest(c)
    BY <1>3 DEF ForeignRead
  <2>2. Typed'
    BY <1>3, TypedSkip DEF ForeignRead
  <2>3. rx'[c] = Tail(rx[c]) /\ \A d \in Ends \ {c} : rx'[d] = rx[d]
    BY <2>1, RestIs
  <2>4. KeptData(rx[p], rx'[p]) /\ KeptFCs(rx[e], rx'[e])
    BY <1>1, <2>1, <2>3, KeptSame, KeptByTail
  <2> QED BY <1>2, <2>1, <2>2, <2>4
<1>4. CASE ForeignFC(c)
  <2>1. UNCHANGED <<setting, tx, payloads, result, rv, delivered>> /\ c \in Foreign
    BY <1>4 DEF ForeignFC
  <2>2. Typed'
    BY <1>4, TypedForeignFC
  <2>3. PICK status \in {"CTS", "Wait", "Overflow"} : Put(c, rx, FC(status, setting.block[c]))
    BY <1>4 DEF ForeignFC
  <2>4. ~Data(FC(status, setting.block[c])) /\ rx \in [Ends -> RxSet]
    BY TypedHas DEF FC, Data
  <2>5. rx'[c] = rx[c] /\ KeptData(rx[Peer(c)], rx'[Peer(c)])
    BY <2>3, <2>4, PutKeeps
  <2>6. KeptData(rx[c], rx'[c]) /\ KeptFCs(rx[c], rx'[c])
    BY <2>5, KeptSame
  <2> QED BY <1>1, <1>2, <2>1, <2>2, <2>5, <2>6
<1>5. CASE Close \/ UNCHANGED vars
  <2>1. UNCHANGED <<setting, rx, tx, payloads, result, rv, delivered>> /\ up' \in BOOLEAN
        /\ lost' = lost
    <3>1. CASE Close
      BY <3>1 DEF Close
    <3>2. CASE UNCHANGED vars
      BY <3>2, TypedHas DEF vars
    <3> QED BY <1>5, <3>1, <3>2
  <2>2. Typed'
    BY <2>1, TypedStays DEF Typed
  <2>3. KeptData(rx[p], rx'[p]) /\ KeptFCs(rx[e], rx'[e])
    BY <1>1, <2>1, KeptSame
  <2> QED BY <1>2, <2>1, <2>2, <2>3
<1> QED BY <1>3, <1>4, <1>5

\* At the start nothing has been sent.
LEMMA DirInit ==
    ASSUME Init, NEW e \in Ends
    PROVE  DirInv(e, Peer(e))
<1> DEFINE p == Peer(e)
<1>1. p \in Ends
  BY PeerIs
<1>2. /\ rx[e] = <<>> /\ rx[p] = <<>> /\ tx[e] = NoSend /\ rv[p] = NoRecv
      /\ result[e] = <<>> /\ delivered[p] = <<>>
  BY <1>1 DEF Init
<1>3. DOMAIN <<>> = {}
  OBVIOUS
<1>4. /\ NoSend.pc = "idle" /\ NoSend.fc.status = "CTS" /\ NoRecv.pc = "first"
  BY DEF NoSend, NoRecv, FC
<1>5. ~Failed(e) /\ ~Answered(e)
  BY <1>2, <1>3 DEF Failed, Answered
<1>6. SendInv(e)
  BY <1>2, <1>4, <1>5 DEF SendInv
<1>7. QueueInv(e, p)
  BY <1>2, <1>3 DEF QueueInv
<1>8. RecvInv(e, p)
  BY <1>2, <1>4 DEF RecvInv
<1>9. FlowInv(e, p)
  BY <1>2, <1>3, <1>4, <1>5 DEF FlowInv
<1>10. DeliveredInv(e, p)
  BY <1>2, <1>3 DEF DeliveredInv
<1> QED BY <1>6, <1>7, <1>8, <1>9, <1>10 DEF DirInv

\* The inductive invariant holds at the start, and every step keeps it.
LEMMA InvInit == Init => IInv
BY TypeInit, DirInit DEF IInv

\* Every step keeps the inductive invariant.
LEMMA InvStep == IInv /\ [Next]_vars => IInv'
<1> SUFFICES ASSUME IInv, [Next]_vars PROVE IInv'
  OBVIOUS
<1>1. Typed /\ TypeInv'
  BY TypeStep, TypedIs DEF IInv
<1>2. setting' = setting
  <2>1. ASSUME NEW c \in Ends, SendCall(c) \/ SendStep(c) PROVE setting' = setting
    BY <1>1, <2>1, TypedSend DEF SenderStep
  <2>2. ASSUME NEW c \in Ends, RecvStep(c) PROVE setting' = setting
    BY <1>1, <2>2, TypedRecv DEF ReceiverStep
  <2> QED BY <2>1, <2>2 DEF Next, ForeignRead, ForeignFC, Close, AllDone, vars
<1>3. ASSUME ~setting.retries, NEW e \in Ends PROVE DirInv(e, Peer(e))'
  <2>1. DirInv(e, Peer(e))
    BY <1>3 DEF IInv
  <2>2. ASSUME NEW c \in Ends, SendCall(c) \/ SendStep(c) PROVE DirInv(e, Peer(e))'
    BY <1>1, <1>3, <2>1, <2>2, SendKeeps
  <2>3. ASSUME NEW c \in Ends, RecvStep(c) PROVE DirInv(e, Peer(e))'
    BY <1>1, <2>1, <2>3, RecvKeeps
  <2>4. ASSUME NEW c \in Ends, ForeignRead(c) \/ ForeignFC(c) \/ Close \/ UNCHANGED vars
        PROVE  DirInv(e, Peer(e))'
    BY <1>1, <2>1, <2>4, OtherKeeps
  <2> QED BY <2>2, <2>3, <2>4 DEF Next, AllDone
<1> QED BY <1>1, <1>2, <1>3 DEF IInv

\* What a Conn relies on in both directions: what is on its way is in order and later than
\* what has arrived, Recv has the start of one message or has missed a frame of it, at most one
\* flow control is on its way, and what Recv has returned are whole payloads in order - for
\* callers that stop sending when Send has failed.
THEOREM ExchangeInOrder == Spec => []IInv
BY InvInit, InvStep, PTL DEF Spec

-----------------------------------------------------------------------------
(* A Conn is a message channel. *)

AbsSent == [e \in Ends |-> Claimed(Len(payloads[e]), 0)]
AbsReceived ==
    [e \in Ends |-> Claimed(
        [j \in DOMAIN delivered[Peer(e)] |-> Identity(e, delivered[Peer(e)][j])], <<>>)]
\* The numbers of the payloads that the Recv of p has returned.
Numbers(p) == [j \in DOMAIN delivered[p] |-> delivered[p][j][1].n]

\* The first segment of a payload tells its number.
LEMMA WholeTells ==
    ASSUME NEW n, NEW length \in Nat
    PROVE  Whole(n, length)[1].n = n
<1>1. CASE length <= 7
  BY <1>1 DEF Whole, Segment
<1>2. CASE ~(length <= 7)
  <2>1. 1 \in 1 .. 1 + CFCount(length)
    BY <1>2 DEF CFCount
  <2> DEFINE S(j) == Segment(n, j - 1, IF j = 1 THEN 6 ELSE Least(7, length - 6 - 7 * (j - 2)))
  <2>2. Whole(n, length) = [j \in 1 .. 1 + CFCount(length) |-> S(j)]
    BY <1>2 DEF Whole
  <2>3. S(1).n = n
    BY DEF Segment
  <2> HIDE DEF S
  <2> QED BY <2>1, <2>2, <2>3
<1> QED BY <1>1, <1>2

\* So what has been returned is known by its first segment.
LEMMA IdentityIs ==
    ASSUME Typed, NEW e \in Ends, NEW p \in Ends, DeliveredInv(e, p), NEW j \in DOMAIN delivered[p]
    PROVE  Identity(e, delivered[p][j]) = delivered[p][j][1].n
<1> DEFINE b == delivered[p][j]
           n == b[1].n
           pl == payloads[e]
<1>1. n \in DOMAIN pl /\ b = Whole(n, pl[n])
  BY DEF DeliveredInv
<1>2. ASSUME NEW m \in DOMAIN pl, b = Whole(m, pl[m]) PROVE m = n
  <2>1. pl[m] \in 1 .. MaxPayload
    BY NumberIs
  <2>2. pl[m] \in Nat
    BY <2>1, PayloadsAre
  <2> HIDE DEF b, pl
  <2>3. Whole(m, pl[m])[1].n = m
    BY <2>2, WholeTells
  <2> QED BY <1>2, <2>3
<1> HIDE DEF b, n
<1>3. Identity(e, b) = n
  BY <1>1, <1>2 DEF Identity
<1> QED BY <1>3 DEF b, n

\* What is received, in the invariant's terms.
LEMMA ReceivedIs ==
    ASSUME IInv
    PROVE  AbsReceived = [e \in Ends |-> Claimed(Numbers(Peer(e)), <<>>)]
<1>1. Typed
  BY TypedIs DEF IInv
<1>2. ASSUME NEW e \in Ends, ~setting.retries
      PROVE  [j \in DOMAIN delivered[Peer(e)] |-> Identity(e, delivered[Peer(e)][j])]
                = Numbers(Peer(e))
  <2>1. DeliveredInv(e, Peer(e)) /\ Peer(e) \in Ends
    BY <1>2, PeerIs DEF IInv, DirInv
  <2>2. \A j \in DOMAIN delivered[Peer(e)] :
            Identity(e, delivered[Peer(e)][j]) = delivered[Peer(e)][j][1].n
    BY <1>1, <2>1, IdentityIs
  <2> QED BY <2>2 DEF Numbers
<1> QED BY <1>2 DEF AbsReceived, Claimed

\* The same after a step.
LEMMA ReceivedNext ==
    ASSUME IInv'
    PROVE  AbsReceived' = [e \in Ends |-> Claimed(Numbers(Peer(e)), <<>>)]'
<1>1. IInv => AbsReceived = [e \in Ends |-> Claimed(Numbers(Peer(e)), <<>>)]
  BY ReceivedIs
<1>2. (IInv => AbsReceived = [e \in Ends |-> Claimed(Numbers(Peer(e)), <<>>)])'
  BY ReceivedIs, PTL
<1> QED BY <1>2

\* What a step does to what is sent and received: nothing, one payload more, or one message more.
LEMMA StepTells ==
    ASSUME Typed, [Next]_vars
    PROVE  /\ setting' = setting
           /\ \/ UNCHANGED <<payloads, delivered>>
              \/ /\ delivered' = delivered
                 /\ \E e \in Ends : \E length \in 1 .. MaxPayload : Submit(e, length)
              \/ /\ payloads' = payloads
                 /\ \E e \in Ends : \E b \in Seq(Segments) :
                       delivered' = [delivered EXCEPT ![Peer(e)] = Append(delivered[Peer(e)], b)]
<1>1. ASSUME NEW c \in Ends, SendCall(c)
      PROVE  /\ setting' = setting /\ delivered' = delivered
             /\ \E e \in Ends : \E length \in 1 .. MaxPayload : Submit(e, length)
  <2>1. PICK length \in setting.lengths[c] :
          SendOnClosed(c, length) \/ SendSingleFrame(c, length) \/ SendFirstFrame(c, length)
    BY <1>1 DEF SendCall
  <2>2. length \in 1 .. MaxPayload
    BY TypedSetting
  <2>3. Submit(c, length)
    BY <2>1 DEF SendOnClosed, SendSingleFrame, SendFirstFrame
  <2>4. SenderStep(c)
    BY <1>1, TypedSend
  <2> QED BY <2>2, <2>3, <2>4 DEF SenderStep
<1>2. ASSUME NEW c \in Ends, SendStep(c)
      PROVE  setting' = setting /\ UNCHANGED <<payloads, delivered>>
  BY <1>2 DEF SendStep, SkipToFC, FirstFC, FCAfterWait, FCAfterBlock, SendConsecutiveFrame,
              SendFails
<1>3. ASSUME NEW c \in Ends, RecvSingleFrame(c) \/ RecvLast(c)
      PROVE  /\ setting' = setting /\ payloads' = payloads
             /\ \E e \in Ends : \E b \in Seq(Segments) :
                   delivered' = [delivered EXCEPT ![Peer(e)] = Append(delivered[Peer(e)], b)]
  <2>1. Peer(c) \in Ends /\ Peer(Peer(c)) = c
    BY PeerIs
  <2>2. setting' = setting /\ payloads' = payloads
    BY <1>3 DEF RecvSingleFrame, RecvLast
  <2>3. PICK b \in Seq(Segments) : Deliver(c, b)
    <3>1. CASE RecvSingleFrame(c)
      <4>1. /\ Deliver(c, <<Head(rx[c]).seg>>) /\ rx[c] # <<>> /\ Head(rx[c]).type = "SF"
        BY <3>1 DEF RecvSingleFrame, Arrived
      <4>2. Head(rx[c]).seg \in Segments
        BY <4>1, RestIs, FrameIs
      <4>3. <<Head(rx[c]).seg>> \in Seq(Segments)
        BY <4>2
      <4> QED BY <4>1, <4>3
    <3>2. CASE RecvLast(c)
      <4>1. Deliver(c, Grown(c)) /\ rv[c].pc = "cf" /\ Arrived(c, "CF")
        BY <3>2 DEF RecvLast
      <4>2. Grown(c) \in Seq(Segments)
        BY <4>1, ChunkIs
      <4> QED BY <4>1, <4>2
    <3> QED BY <1>3, <3>1, <3>2
  <2>4. delivered' = [delivered EXCEPT ![c] = Append(delivered[c], b)]
    BY <2>3 DEF Deliver
  <2> HIDE DEF Segments
  <2> QED BY <2>1, <2>2, <2>4
<1>4. ASSUME NEW c \in Ends, RecvStep(c), ~(RecvSingleFrame(c) \/ RecvLast(c))
      PROVE  setting' = setting /\ UNCHANGED <<payloads, delivered>>
  BY <1>4 DEF RecvStep, RecvStray, RecvFirstFrame, RecvFirstFrameOnClosed, SkipToCF, RecvWrongSN,
              RecvConsecutiveFrame, RecvBlockOnClosed, RecvFails
<1>5. ASSUME NEW c \in Ends, ForeignRead(c) \/ ForeignFC(c)
      PROVE  setting' = setting /\ UNCHANGED <<payloads, delivered>>
  BY <1>5 DEF ForeignRead, ForeignFC
<1>6. CASE Close \/ AllDone \/ UNCHANGED vars
  BY <1>6 DEF Close, AllDone, vars
<1> HIDE DEF Segments
<1>7. ASSUME NEW c \in Ends,
             SendCall(c) \/ SendStep(c) \/ RecvStep(c) \/ ForeignRead(c) \/ ForeignFC(c)
      PROVE  /\ setting' = setting
             /\ \/ UNCHANGED <<payloads, delivered>>
                \/ /\ delivered' = delivered
                   /\ \E e \in Ends : \E length \in 1 .. MaxPayload : Submit(e, length)
                \/ /\ payloads' = payloads
                   /\ \E e \in Ends : \E b \in Seq(Segments) :
                         delivered' = [delivered EXCEPT ![Peer(e)] = Append(delivered[Peer(e)], b)]
  BY <1>1, <1>2, <1>3, <1>4, <1>5, <1>7
<1> QED BY <1>6, <1>7 DEF Next

\* One message more is one number more.
LEMMA NumbersGrow ==
    ASSUME Typed, NEW e \in Ends, NEW p \in Ends, NEW b \in Seq(Segments),
           delivered' = [delivered EXCEPT ![p] = Append(delivered[p], b)]
    PROVE  /\ Numbers(p)' = Append(Numbers(p), b[1].n)
           /\ \A c \in Ends \ {p} : Numbers(c)' = Numbers(c)
           /\ Len(delivered[p]) + 1 \in DOMAIN delivered'[p]
           /\ delivered'[p][Len(delivered[p]) + 1] = b
           /\ DOMAIN Numbers(p) = 1 .. Len(delivered[p]) /\ Len(delivered[p]) \in Nat
           /\ \A j \in DOMAIN Numbers(p) : Numbers(p)[j] = delivered'[p][j][1].n
<1> DEFINE L == Len(delivered[p])
           T == {x[1].n : x \in Seq(Segments)}
<1>1. delivered \in [Ends -> Seq(Seq(Segments))]
  BY TypedHas
<1>2. delivered'[p] = Append(delivered[p], b) /\ \A c \in Ends \ {p} : delivered'[c] = delivered[c]
  <2> DEFINE S == Seq(Seq(Segments))
  <2>1. delivered \in [Ends -> S]
    BY <1>1
  <2> HIDE DEF S
  <2> QED BY <2>1
<1>3. /\ L \in Nat /\ DOMAIN delivered[p] = 1 .. L /\ DOMAIN delivered'[p] = 1 .. L + 1
      /\ delivered'[p][L + 1] = b
      /\ \A j \in 1 .. L : delivered'[p][j] = delivered[p][j]
  BY <1>2, ReturnedIs
<1>4. Numbers(p) \in Seq(T)
  <2>1. delivered[p] \in Seq(Seq(Segments))
    BY TypedHas
  <2> DEFINE S == Seq(Segments)
  <2>2. \A j \in 1 .. L : delivered[p][j] \in S
    BY <2>1, ElementOfSeq
  <2>3. \A j \in 1 .. L : delivered[p][j][1].n \in T
    BY <2>2
  <2> HIDE DEF T, L
  <2>4. Numbers(p) = [j \in 1 .. L |-> delivered[p][j][1].n]
    BY <1>3 DEF Numbers
  <2> QED BY <1>3, <2>3, <2>4
<1>5. b[1].n \in T
  OBVIOUS
<1>6. Len(Numbers(p)) = L /\ DOMAIN Numbers(p) = 1 .. L
  BY <1>3, <1>4 DEF Numbers
<1> DEFINE A == Append(Numbers(p), b[1].n)
<1>7. /\ A \in Seq(T) /\ Len(A) = L + 1 /\ A[L + 1] = b[1].n
      /\ \A j \in 1 .. L : A[j] = Numbers(p)[j]
  <2> HIDE DEF T, L
  <2> QED BY <1>4, <1>5, <1>6, Appended
<1>8. A = [j \in 1 .. L + 1 |-> A[j]]
  <2> HIDE DEF T, L, A
  <2> QED BY <1>7
<1>9. Numbers(p)' = [j \in 1 .. L + 1 |-> delivered'[p][j][1].n]
  BY <1>3 DEF Numbers
<1> HIDE DEF L, A
<1>10. \A j \in 1 .. L : Numbers(p)[j] = delivered[p][j][1].n
  BY <1>3 DEF Numbers
<1>11. \A j \in 1 .. L + 1 : A[j] = delivered'[p][j][1].n
  <2>1. \A j \in 1 .. L + 1 : j \in 1 .. L \/ j = L + 1
    BY <1>3
  <2> QED BY <1>3, <1>7, <1>10, <2>1
<1>12. Numbers(p)' = A
  BY <1>8, <1>9, <1>11
<1>13. \A c \in Ends \ {p} : Numbers(c)' = Numbers(c)
  BY <1>2 DEF Numbers
<1>14. L + 1 \in 1 .. L + 1
  BY <1>3
<1> QED BY <1>3, <1>6, <1>10, <1>12, <1>13, <1>14 DEF L, A

\* A step is a Submit, an Arrive or a stutter of the channel.
LEMMA ChannelStep ==
    ASSUME IInv, IInv', [Next]_vars
    PROVE  Channel!ChNext \/ UNCHANGED <<AbsSent, AbsReceived>>
<1>1. Typed
  BY TypedIs DEF IInv
<1>2. setting' = setting
  BY <1>1, StepTells
<1>3. /\ AbsReceived = [e \in Ends |-> Claimed(Numbers(Peer(e)), <<>>)]
      /\ AbsReceived' = [e \in Ends |-> Claimed(Numbers(Peer(e)), <<>>)]'
  BY ReceivedIs, ReceivedNext
<1>4. CASE setting.retries
  <2>1. AbsSent' = AbsSent /\ AbsReceived' = AbsReceived
    BY <1>2, <1>3, <1>4 DEF AbsSent, Claimed
  <2> QED BY <2>1
<1>5. CASE ~setting.retries
  <2>1. /\ AbsSent = [e \in Ends |-> Len(payloads[e])]
        /\ AbsSent' = [e \in Ends |-> Len(payloads'[e])]
        /\ AbsReceived = [e \in Ends |-> Numbers(Peer(e))]
        /\ AbsReceived' = [e \in Ends |-> Numbers(Peer(e))']
    BY <1>2, <1>3, <1>5 DEF AbsSent, Claimed
  <2>2. CASE UNCHANGED <<payloads, delivered>>
    BY <2>1, <2>2 DEF Numbers
  <2>3. CASE /\ delivered' = delivered
             /\ \E e \in Ends : \E length \in 1 .. MaxPayload : Submit(e, length)
    <3>1. PICK e \in Ends : \E length \in 1 .. MaxPayload : Submit(e, length)
      BY <2>3
    <3>2. PICK length \in 1 .. MaxPayload : Submit(e, length)
      BY <3>1
    <3>3. Len(payloads'[e]) = Len(payloads[e]) + 1 /\ \A c \in Ends \ {e} : payloads'[c] = payloads[c]
      BY <1>1, <3>2, SubmitIs DEF Number
    <3>4. AbsReceived' = AbsReceived
      BY <2>1, <2>3 DEF Numbers
    <3>5. AbsSent' = [AbsSent EXCEPT ![e] = @ + 1]
      BY <2>1, <3>3
    <3>6. Channel!Submit(e)
      BY <3>4, <3>5 DEF Channel!Submit, AbsSent, AbsReceived
    <3> QED BY <3>6 DEF Channel!ChNext
  <2>4. CASE /\ payloads' = payloads
             /\ \E e \in Ends : \E b \in Seq(Segments) :
                   delivered' = [delivered EXCEPT ![Peer(e)] = Append(delivered[Peer(e)], b)]
    <3>1. PICK e \in Ends : \E b \in Seq(Segments) :
                   delivered' = [delivered EXCEPT ![Peer(e)] = Append(delivered[Peer(e)], b)]
      BY <2>4
    <3> DEFINE p == Peer(e)
               L == Len(delivered[p])
    <3>2. PICK b \in Seq(Segments) : delivered' = [delivered EXCEPT ![p] = Append(delivered[p], b)]
      BY <3>1
    <3>3. p \in Ends /\ \A c \in Ends \ {e} : Peer(c) \in Ends \ {p}
      BY PeerIs
    <3> HIDE DEF p
    <3>4. /\ Numbers(p)' = Append(Numbers(p), b[1].n)
          /\ \A c \in Ends \ {p} : Numbers(c)' = Numbers(c)
          /\ L + 1 \in DOMAIN delivered'[p] /\ delivered'[p][L + 1] = b
          /\ DOMAIN Numbers(p) = 1 .. L /\ L \in Nat
          /\ \A j \in DOMAIN Numbers(p) : Numbers(p)[j] = delivered'[p][j][1].n
      BY <1>1, <3>2, <3>3, NumbersGrow
    <3>5. DeliveredInv(e, p)'
      <4>1. ~setting'.retries
        BY <1>2, <1>5
      <4>2. DirInv(e, p)'
        BY <4>1 DEF IInv, p
      <4> QED BY <4>2 DEF DirInv
    <3>6. /\ b[1].n \in DOMAIN payloads[e]
          /\ \A j \in 1 .. (L + 1) - 1 : delivered'[p][j][1].n < b[1].n
      BY <2>4, <3>4, <3>5 DEF DeliveredInv
    <3>7. b[1].n \in 1 .. AbsSent[e]
      BY <1>1, <2>1, <3>6, NumberIs DEF Number
    <3>8. \A i \in DOMAIN AbsReceived[e] : AbsReceived[e][i] < b[1].n
      <4>1. AbsReceived[e] = Numbers(p)
        BY <2>1 DEF p
      <4>2. \A i \in 1 .. L : i \in 1 .. (L + 1) - 1
        BY <3>4
      <4> HIDE DEF L
      <4> QED BY <3>4, <3>6, <4>1, <4>2
    <3>9. AbsReceived' = [AbsReceived EXCEPT ![e] = Append(@, b[1].n)]
      <4>1. \A c \in Ends \ {e} : Numbers(Peer(c))' = Numbers(Peer(c))
        BY <3>3, <3>4
      <4>2. Numbers(Peer(e))' = Append(Numbers(Peer(e)), b[1].n)
        BY <3>4 DEF p
      <4> QED BY <2>1, <4>1, <4>2
    <3>10. AbsSent' = AbsSent
      BY <2>1, <2>4
    <3>11. Channel!InSequence(e, b[1].n)
      BY <3>7, <3>8 DEF Channel!InSequence, AbsSent, AbsReceived
    <3>12. Channel!Arrive(e)
      BY <3>7, <3>9, <3>10, <3>11 DEF Channel!Arrive, AbsSent, AbsReceived
    <3> QED BY <3>12 DEF Channel!ChNext
  <2> QED BY <1>1, <2>2, <2>3, <2>4, StepTells
<1> QED BY <1>4, <1>5

\* ImplementsChannel (IsoTp): seen from its callers a Conn is a channel that may lose a message
\* but delivers no part of one, no mixture of two, none twice and none out of order, whatever
\* is lost, late or read by the wrong goroutine - as long as callers stop sending when Send has
\* failed.
THEOREM ConnImplementsChannel == Spec => ImplementsChannel
<1>1. Init => Channel!ChInit
  <2> SUFFICES ASSUME Init PROVE Channel!ChInit
    OBVIOUS
  <2>1. payloads = [e \in Ends |-> <<>>] /\ delivered = [e \in Ends |-> <<>>]
    BY DEF Init
  <2>2. \A e \in Ends : Len(payloads[e]) = 0 /\ delivered[Peer(e)] = <<>>
    BY <2>1, PeerIs
  <2>3. AbsSent = [e \in Ends |-> 0]
    BY <2>2 DEF AbsSent, Claimed
  <2>4. \A e \in Ends : [j \in DOMAIN delivered[Peer(e)] |->
                            Identity(e, delivered[Peer(e)][j])] = <<>>
    <3> SUFFICES ASSUME NEW e \in Ends
                 PROVE  [j \in DOMAIN delivered[Peer(e)] |->
                            Identity(e, delivered[Peer(e)][j])] = <<>>
      OBVIOUS
    <3> DEFINE G(j) == Identity(e, delivered[Peer(e)][j])
               s == [j \in DOMAIN delivered[Peer(e)] |-> G(j)]
    <3> HIDE DEF G
    <3>1. s = [j \in 1 .. 0 |-> G(j)]
      BY <2>2
    <3>2. s \in [1 .. 0 -> {0}]
      BY <3>1
    <3> HIDE DEF s
    <3>3. s \in Seq({0}) /\ Len(s) = 0
      BY <3>2, SeqDef
    <3>4. s = <<>>
      BY <3>3, EmptySeq
    <3> QED BY <3>4 DEF s, G
  <2>5. AbsReceived = [e \in Ends |-> <<>>]
    BY <2>4 DEF AbsReceived, Claimed
  <2> QED BY <2>3, <2>5 DEF Channel!ChInit, AbsSent, AbsReceived
<1>2. IInv /\ IInv' /\ [Next]_vars => [Channel!ChNext]_(Channel!chVars)
  BY ChannelStep DEF Channel!chVars, AbsSent, AbsReceived
<1> QED BY <1>1, <1>2, ExchangeInOrder, PTL DEF Spec, ImplementsChannel, Channel!ChSpec

-----------------------------------------------------------------------------
(* Block-size flow control keeps a transfer inside the subscription channel. *)

\* The conditions of NoOverrun; no payload fits in a single frame, which nothing holds back; and
\* the receiver asks for blocks that its channel has room for.
Paced ==
    /\ Undisturbed /\ ~setting.retries
    /\ \A e \in Ends : setting.lengths[e] # {} =>
          setting.lengths[e] \subseteq 8 .. MaxPayload /\ setting.block[Peer(e)] \in 1 .. setting.depth

\* A flow control is on its way only when no data is; and Send has counted the frames of the
\* block that Recv has not read yet.
Fits(e, p) ==
    /\ \A i \in DOMAIN rx[p] : Data(rx[p][i])
    /\ rx[e] # <<>> => Len(rx[e]) = 1 /\ ~Data(rx[e][1]) /\ rx[p] = <<>>
    /\ Failed(e) => rx[e] = <<>> /\ rx[p] = <<>>
    /\ tx[e].pc = "idle" => Len(rx[p]) < setting.block[p]
    /\ tx[e].pc = "loop" => Len(rx[p]) <= tx[e].block

PacedInv ==
    Paced =>
        /\ up /\ ~lost
        /\ \A e \in Ends : setting.lengths[e] # {} => Fits(e, Peer(e))
        /\ \A e \in Ends : setting.lengths[e] = {} => tx[e].pc = "idle"
        /\ (\A e \in Ends : setting.lengths[e] = {}) => \A e \in Ends : rx[e] = <<>>

\* The direction e sends in, of a paced exchange.
Pacing(e, p) ==
    /\ p = Peer(e) /\ Paced /\ setting.lengths[e] # {}
    /\ DirInv(e, p) /\ Fits(e, p) /\ up /\ ~lost

\* What its ends are, and what block p asks for.
LEMMA PacingHas ==
    ASSUME Typed, NEW e \in Ends, NEW p, Pacing(e, p)
    PROVE  /\ p \in Ends /\ p # e /\ Peer(e) = p /\ Peer(p) = e /\ Ends = {e, p}
           /\ e \notin Receivers /\ p \in Receivers /\ setting.lengths[p] = {}
           /\ e \notin Foreign /\ p \notin Foreign
           /\ setting.lengths[e] \subseteq 8 .. MaxPayload
           /\ setting.block[p] \in Nat /\ setting.block[p] >= 1
           /\ setting.block[p] <= setting.depth /\ setting.depth \in Nat
           /\ ~setting.lossy /\ ~setting.hasty /\ ~setting.closes /\ ~setting.retries
<1>1. p \in Ends /\ p # e /\ Peer(e) = p /\ Peer(p) = e /\ Ends = {e, p}
  BY PeerIs DEF Pacing
<1>2. /\ ~setting.lossy /\ ~setting.hasty /\ ~setting.closes /\ ~setting.retries
      /\ Foreign = {}
      /\ \A c \in Ends : setting.lengths[c] # {} => c \notin Receivers /\ Peer(c) \in Receivers
      /\ setting.lengths[e] \subseteq 8 .. MaxPayload /\ setting.block[p] \in 1 .. setting.depth
  BY <1>1 DEF Pacing, Paced, Undisturbed
<1>3. setting.depth \in Nat
  BY TypedSetting
<1> QED BY <1>1, <1>2, <1>3 DEF Pacing

\* A frame for which there is room arrives.
LEMMA PutFits ==
    ASSUME Typed, NEW c \in Ends, NEW q \in [Ends -> RxSet], NEW f, Put(c, q, f),
           ~setting.lossy, Len(q[Peer(c)]) < setting.depth
    PROVE  /\ rx'[Peer(c)] = Append(q[Peer(c)], f) /\ lost' = lost /\ rx'[c] = q[c]
<1>1. q[Peer(c)] \in Seq(Frames) /\ Peer(c) \in Ends /\ Peer(c) # c
  BY PeerIs DEF RxSet
<1>2. Len(q[Peer(c)]) \in Nat /\ setting.depth \in Nat
  BY <1>1, LenProperties, TypedSetting
<1>3. rx' = [q EXCEPT ![Peer(c)] = Append(@, f)] /\ lost' = lost
  BY <1>2 DEF Put
<1> QED BY <1>1, <1>3

\* Send hears nothing when it is not waiting for an answer.
LEMMA NothingHeard ==
    ASSUME Typed, NEW e \in Ends, NEW p, Pacing(e, p), tx[e].pc \notin {"first", "block"}
    PROVE  rx[e] = <<>>
<1>1. CASE Failed(e)
  BY <1>1 DEF Pacing, Fits
<1>2. CASE ~Failed(e)
  <2>1. ~Answered(e)
    BY <1>2, PacingHas DEF Pacing, DirInv, FlowInv
  <2>2. rx[e] # <<>> => 1 \in DOMAIN rx[e] /\ ~Data(rx[e][1])
    BY ChannelHas DEF Pacing, Fits
  <2> QED BY <2>1, <2>2 DEF Answered, Data
<1> QED BY <1>1, <1>2

\* Send puts a frame into the channel: there is room, and when Send then waits in the loop it
\* has counted it.
LEMMA FitsMore ==
    ASSUME Typed, Typed', NEW e \in Ends, NEW p, Pacing(e, p), setting' = setting,
           tx[e].pc \notin {"first", "block"}, ~Failed(e), ~Failed(e)',
           Len(rx[p]) < setting.block[p], NEW f \in Frames, Data(f), Put(e, rx, f),
           tx'[e].pc = "idle" => Len(rx[p]) + 1 < setting.block[p],
           tx'[e].pc = "loop" => Len(rx[p]) + 1 <= tx'[e].block
    PROVE  Fits(e, p)' /\ lost' = lost
<1>1. Len(rx[p]) \in Nat /\ p \in Ends /\ p # e /\ rx[p] \in Seq(Frames)
  BY PacingHas, ChannelHas
<1>2. Len(rx[p]) < setting.depth /\ ~setting.lossy
  BY <1>1, PacingHas
<1>3. rx \in [Ends -> RxSet]
  BY DEF Typed
<1>4. rx'[p] = Append(rx[p], f) /\ lost' = lost /\ rx'[e] = rx[e]
  BY <1>2, <1>3, PutFits, PacingHas
<1>5. rx'[e] = <<>>
  BY <1>4, NothingHeard
<1>6. /\ Len(rx'[p]) = Len(rx[p]) + 1
      /\ \A i \in DOMAIN rx'[p] : Data(rx'[p][i])
  BY <1>1, <1>4, Appended DEF Pacing, Fits
<1> QED BY <1>4, <1>5, <1>6 DEF Fits

\* Send is called.
LEMMA CallFits ==
    ASSUME Typed, Typed', NEW e \in Ends, NEW p, Pacing(e, p), SendCall(e)
    PROVE  Fits(e, p)' /\ lost' = lost
<1>1. PICK length \in setting.lengths[e] :
         SendOnClosed(e, length) \/ SendSingleFrame(e, length) \/ SendFirstFrame(e, length)
  BY DEF SendCall
<1>2. length \in 8 .. MaxPayload /\ length > 7
  BY <1>1, PacingHas, PayloadsAre
<1>3. SendFirstFrame(e, length)
  <2>1. ~(length <= 7)
    BY <1>2, PayloadsAre
  <2>2. ~SendSingleFrame(e, length)
    BY <2>1 DEF SendSingleFrame
  <2>3. ~SendOnClosed(e, length)
    BY DEF SendOnClosed, Pacing
  <2> QED BY <1>1, <2>2, <2>3
<1>4. ~Failed(e) /\ tx[e].pc = "idle"
  BY <1>3, MayIs, PacingHas DEF SendFirstFrame
<1> DEFINE f == FF(Segment(Number(e) + 1, 0, 6), length)
<1>5. f \in Frames /\ Data(f)
  <2>1. Number(e) + 1 \in Nat
    BY NumberIs
  <2>2. f \in Frames
    BY <1>2, <2>1, FramesAre
  <2> QED BY <2>2 DEF Data, FF
<1>6. Put(e, rx, f) /\ setting' = setting /\ result' = result
      /\ tx' = [tx EXCEPT ![e] = [NoSend EXCEPT !.pc = "first", !.length = length, !.sent = 6]]
  BY <1>3 DEF SendFirstFrame, Continues
<1>7. tx'[e].pc = "first"
  BY <1>6 DEF Typed, NoSend
<1>8. ~Failed(e)'
  BY <1>4, <1>6 DEF Failed
<1>9. Len(rx[p]) < setting.block[p]
  BY <1>4 DEF Pacing, Fits
<1> HIDE DEF f
<1> QED BY <1>4, <1>5, <1>6, <1>7, <1>8, <1>9, FitsMore

\* Send reads a flow control: then no frame is on its way.
LEMMA AnswerFits ==
    ASSUME Typed, Typed', NEW e \in Ends, NEW p, Pacing(e, p),
           FirstFC(e) \/ FCAfterWait(e) \/ FCAfterBlock(e)
    PROVE  Fits(e, p)' /\ lost' = lost
<1>1. /\ rx[e] # <<>> /\ rx' = Rest(e) /\ lost' = lost /\ setting' = setting
      /\ p \in Ends /\ p # e
  BY PacingHas DEF FirstFC, FCAfterWait, FCAfterBlock, Arrived
<1>2. Len(rx[e]) = 1 /\ rx[p] = <<>>
  BY <1>1 DEF Pacing, Fits
<1>3. rx'[e] = Tail(rx[e]) /\ rx'[p] = rx[p]
  BY <1>1, RestIs
<1>4. rx'[e] = <<>>
  <2>1. rx[e] \in Seq(Frames)
    BY ChannelHas
  <2>2. Tail(rx[e]) \in Seq(Frames) /\ Len(Tail(rx[e])) = 0
    BY <1>1, <1>2, <2>1, Shortened
  <2> QED BY <1>3, <2>2, EmptySeq
<1>5. rx'[p] = <<>> /\ Len(rx'[p]) = 0 /\ DOMAIN rx'[p] = {}
  BY <1>2, <1>3
<1>6. setting'.block[p] >= 1 /\ setting'.block[p] \in Nat
  BY <1>1, PacingHas
<1>7. tx'[e].block \in Nat
  <2>1. tx'[e] \in SendStates'
    BY DEF Typed, TxSet
  <2>2. tx'[e].block \in 0 .. MaxPayload
    BY <2>1 DEF SendStates
  <2> QED BY <2>2, PayloadsAre
<1>8. Len(rx'[p]) < setting'.block[p] /\ Len(rx'[p]) <= tx'[e].block
  BY <1>5, <1>6, <1>7
<1> QED BY <1>1, <1>4, <1>5, <1>8 DEF Fits

\* Send sends a consecutive frame.
LEMMA ConsecutiveFits ==
    ASSUME Typed, Typed', NEW e \in Ends, NEW p, Pacing(e, p), SendConsecutiveFrame(e)
    PROVE  Fits(e, p)' /\ lost' = lost
<1> DEFINE size == Least(7, tx[e].length - tx[e].sent)
           f == CF(Segment(Number(e), (tx[e].sent + 1) \div 7, size), tx[e].sn)
<1>1. /\ tx[e].pc = "loop" /\ tx[e].fc.bs = setting.block[p] /\ tx[e].block < setting.block[p]
      /\ ~Failed(e)
  <2>1. tx[e].pc # "resume" /\ (tx[e].pc = "loop" => tx[e].fc.bs = setting.block[p])
        /\ (tx[e].pc = "loop" => setting.block[p] = 0 \/ tx[e].block < setting.block[p])
    BY PacingHas DEF Pacing, DirInv, FlowInv
  <2>2. tx[e].pc = "loop"
    BY <2>1 DEF SendConsecutiveFrame, CanSendCF
  <2>3. ~Failed(e)
    BY <2>2 DEF Pacing, DirInv, SendInv
  <2>4. setting.block[p] # 0
    BY PacingHas
  <2> QED BY <2>1, <2>2, <2>3, <2>4
<1>2. /\ Put(e, rx, f) /\ setting' = setting
      /\ IF tx[e].sent + size >= tx[e].length /\ ~BlockFull(e) THEN Returns(e, "ok")
         ELSE Continues(e, [tx[e] EXCEPT !.pc = IF BlockFull(e) THEN "block" ELSE "loop",
                                         !.sent = @ + size, !.sn = NextSN(e), !.block = @ + 1])
  BY DEF SendConsecutiveFrame
<1>3. f \in Frames /\ Data(f)
  <2>1. Number(e) \in Nat /\ tx[e].sent \in Nat /\ tx[e].length \in Nat /\ ~AllSent(e)
    BY <1>1, NumberIs, SendHas
  <2>2. size \in 1 .. 7 /\ (tx[e].sent + 1) \div 7 \in Nat
    BY <2>1 DEF AllSent, Least
  <2>3. tx[e].sn \in 0 .. setting.sns - 1
    BY TypedHas DEF TxSet, SendStates
  <2> HIDE DEF size
  <2>4. f \in Frames
    BY <2>1, <2>2, <2>3, FramesAre
  <2> QED BY <2>4 DEF Data, CF
<1>4. tx[e].block \in Nat /\ Len(rx[p]) \in Nat /\ Len(rx[p]) <= tx[e].block
      /\ setting.block[p] \in Nat
  BY <1>1, SendHas, ChannelHas, PacingHas DEF Pacing, Fits
<1>5. BlockFull(e) <=> tx[e].block + 1 >= setting.block[p]
  BY <1>1, <1>4, PacingHas DEF BlockFull
<1>6. CASE Returns(e, "ok")
  <2>1. tx'[e].pc = "idle" /\ ~Failed(e)'
    <3>1. tx'[e] = NoSend /\ result'[e] = Append(result[e], "ok")
      BY <1>6, ReturnsIs
    <3>2. result[e] \in Seq({"ok", "failed"})
      BY TypedHas
    <3>3. \A i \in DOMAIN result'[e] : result'[e][i] # "failed"
      BY <1>1, <3>1, <3>2, Appended DEF Failed
    <3> QED BY <3>1, <3>3 DEF NoSend, Failed
  <2>2. ~BlockFull(e)
    <3>1. SUFFICES ASSUME BlockFull(e) PROVE FALSE
      OBVIOUS
    <3> DEFINE t == [tx[e] EXCEPT !.pc = IF BlockFull(e) THEN "block" ELSE "loop",
                                  !.sent = @ + size, !.sn = NextSN(e), !.block = @ + 1]
    <3>2. Continues(e, t)
      BY <1>2, <3>1
    <3>3. t.pc = "block"
      BY <3>1, TypedHas DEF TxSet, SendStates
    <3> HIDE DEF t
    <3>4. tx'[e] = t
      BY <3>2, TypedHas DEF Continues
    <3> QED BY <2>1, <3>3, <3>4
  <2>3. Len(rx[p]) + 1 < setting.block[p]
    BY <1>4, <1>5, <2>2
  <2>4. Len(rx[p]) < setting.block[p]
    BY <1>4, <2>3
  <2> HIDE DEF f
  <2> QED BY <1>1, <1>2, <1>3, <2>1, <2>3, <2>4, FitsMore
<1>7. CASE ~Returns(e, "ok")
  <2> DEFINE t == [tx[e] EXCEPT !.pc = IF BlockFull(e) THEN "block" ELSE "loop",
                                !.sent = @ + size, !.sn = NextSN(e), !.block = @ + 1]
  <2>1. Continues(e, t)
    BY <1>2, <1>7
  <2>2. tx'[e] = t /\ result' = result
    BY <2>1, TypedHas DEF Continues
  <2>3. t.pc # "idle" /\ t.block = tx[e].block + 1
    BY TypedHas DEF TxSet, SendStates
  <2> HIDE DEF t, size
  <2>4. ~Failed(e)'
    BY <1>1, <2>2 DEF Failed
  <2>5. Len(rx[p]) < setting.block[p] /\ Len(rx[p]) + 1 <= tx'[e].block
    BY <1>1, <1>4, <2>2, <2>3
  <2> HIDE DEF f
  <2> QED BY <1>1, <1>2, <1>3, <2>2, <2>3, <2>4, <2>5, FitsMore
<1> QED BY <1>6, <1>7

\* Every step of Send.
LEMMA SendFits ==
    ASSUME Typed, NEW e \in Ends, NEW p, Pacing(e, p), SendCall(e) \/ SendStep(e)
    PROVE  Fits(e, p)' /\ lost' = lost
<1>1. Typed'
  BY TypedSend
<1>2. CASE SkipToFC(e)
  <2>1. rx[e] # <<>> /\ Head(rx[e]).type # "FC"
    BY <1>2 DEF SkipToFC, Arrived
  <2>2. ~Data(rx[e][1])
    BY <2>1 DEF Pacing, Fits
  <2> QED BY <2>1, <2>2 DEF Data
<1>3. CASE SendFails(e)
  <2>1. WaitsForFC(e) \/ CanSendCF(e)
    BY <1>3 DEF SendFails
  <2>2. rx' = rx /\ lost' = lost /\ setting' = setting /\ Returns(e, "failed") /\ Late
    BY <1>3 DEF SendFails, GivesUp, AtEOF, Pacing
  <2>3. rx[e] = <<>> /\ rx[p] = <<>>
    BY <2>2, PacingHas DEF Late
  <2>4. tx'[e].pc = "idle"
    BY <2>2, ReturnsIs DEF NoSend
  <2>5. 0 < setting.block[p]
    BY PacingHas
  <2> QED BY <2>2, <2>3, <2>4, <2>5 DEF Fits
<1> QED BY <1>1, <1>2, <1>3, CallFits, AnswerFits, ConsecutiveFits DEF SendStep

\* Recv takes a frame from its channel.
LEMMA FewerFits ==
    ASSUME Typed, NEW e \in Ends, NEW p, Pacing(e, p), UNCHANGED <<setting, lost, tx, result>>,
           rx[p] # <<>>, rx'[p] = Tail(rx[p]), rx'[e] = rx[e]
    PROVE  Fits(e, p)' /\ lost' = lost
<1>1. rx[e] = <<>> /\ ~Failed(e)
  BY DEF Pacing, Fits
<1>2. /\ Len(rx[p]) \in Nat /\ Len(rx'[p]) = Len(rx[p]) - 1 /\ p \in Ends
      /\ \A i \in DOMAIN rx'[p] : Data(rx'[p][i])
  <2>1. p \in Ends /\ rx[p] \in Seq(Frames) /\ \A i \in DOMAIN rx[p] : Data(rx[p][i])
    BY PacingHas, ChannelHas DEF Pacing, Fits
  <2>2. \A i \in DOMAIN rx'[p] : i + 1 \in DOMAIN rx[p] /\ rx'[p][i] = rx[p][i + 1]
    BY <2>1, Shortened
  <2> QED BY <2>1, <2>2, Shortened
<1>3. setting.block[p] \in Nat /\ tx[e].block \in Nat
  BY PacingHas, SendHas
<1>4. /\ tx[e].pc = "idle" => Len(rx'[p]) < setting.block[p]
      /\ tx[e].pc = "loop" => Len(rx'[p]) <= tx[e].block
  BY <1>2, <1>3 DEF Pacing, Fits
<1>5. ~Failed(e)'
  BY <1>1 DEF Failed
<1> QED BY <1>1, <1>2, <1>4, <1>5 DEF Fits

\* Recv answers the only frame there is.
LEMMA AnsweredFits ==
    ASSUME Typed, NEW e \in Ends, NEW p, Pacing(e, p), UNCHANGED <<setting, tx, result>>,
           rx[p] # <<>>, Len(rx[p]) = 1, NEW f \in Frames, ~Data(f), Put(p, Rest(p), f)
    PROVE  Fits(e, p)' /\ lost' = lost
<1>1. /\ p \in Ends /\ p # e /\ Peer(p) = e /\ ~setting.lossy
      /\ setting.depth \in Nat /\ setting.depth > 0
      /\ setting.block[p] >= 1 /\ setting.block[p] \in Nat
  BY PacingHas, TypedSetting
<1>2. rx[e] = <<>> /\ ~Failed(e)
  BY DEF Pacing, Fits
<1>3. Rest(p) \in [Ends -> RxSet] /\ Rest(p)[e] = rx[e] /\ Rest(p)[p] = Tail(rx[p])
  BY <1>1, RestIs
<1>4. rx'[e] = Append(<<>>, f) /\ lost' = lost /\ rx'[p] = Tail(rx[p])
  <2>1. Rest(p)[Peer(p)] = <<>>
    BY <1>1, <1>2, <1>3
  <2>2. Len(Rest(p)[Peer(p)]) < setting.depth
    BY <1>1, <2>1
  <2>3. rx'[Peer(p)] = Append(Rest(p)[Peer(p)], f) /\ lost' = lost /\ rx'[p] = Rest(p)[p]
    BY <1>1, <1>3, <2>2, PutFits
  <2> QED BY <1>1, <1>3, <2>1, <2>3
<1>5. rx'[p] = <<>>
  <2>1. rx[p] \in Seq(Frames)
    BY <1>1, ChannelHas
  <2>2. Tail(rx[p]) \in Seq(Frames) /\ Len(Tail(rx[p])) = 0
    BY <2>1, Shortened
  <2> QED BY <1>4, <2>2, EmptySeq
<1>6. Len(rx'[e]) = 1 /\ ~Data(rx'[e][1])
  BY <1>4
<1>7. tx[e].block \in Nat /\ ~Failed(e)'
  BY <1>2, SendHas DEF Failed
<1>8. Len(rx'[p]) < setting.block[p] /\ Len(rx'[p]) <= tx[e].block /\ DOMAIN rx'[p] = {}
  BY <1>1, <1>5, <1>7
<1> QED BY <1>4, <1>5, <1>6, <1>7, <1>8 DEF Fits

\* A frame that Send has come past by none is the last on its way.
LEMMA OnlyOne ==
    ASSUME Typed, NEW e \in Ends, NEW p, Pacing(e, p), rx[p] # <<>>, tx[e].pc # "idle",
           Head(rx[p]).seg.n = Number(e), Due(e) <= Head(rx[p]).seg.i + 1, Due(e) \in Int
    PROVE  Len(rx[p]) = 1
<1>1. /\ p \in Ends /\ Len(rx[p]) \in Nat /\ DOMAIN rx[p] = 1 .. Len(rx[p])
      /\ rx[p] \in Seq(Frames) /\ Head(rx[p]) = rx[p][1] /\ Len(rx[p]) > 0
  BY PacingHas, ChannelHas, Shortened
<1>2. SUFFICES ASSUME Len(rx[p]) # 1 PROVE FALSE
  OBVIOUS
<1>3. 2 \in DOMAIN rx[p] /\ 1 \in DOMAIN rx[p] /\ 1 \in 1 .. 2 - 1
  <2> DEFINE l == Len(rx[p])
  <2>1. l \in Nat /\ l > 0 /\ l # 1 /\ DOMAIN rx[p] = 1 .. l
    BY <1>1, <1>2
  <2> HIDE DEF l
  <2>2. 2 \in 1 .. l /\ 1 \in 1 .. l
    BY <2>1
  <2>3. 1 \in 1 .. 2 - 1
    OBVIOUS
  <2> QED BY <2>1, <2>2, <2>3
<1>4. Data(rx[p][1]) /\ Data(rx[p][2])
  BY <1>3 DEF Pacing, Fits
<1> DEFINE s == Head(rx[p]).seg
           u == rx[p][2].seg
<1>5. /\ u.n \in DOMAIN payloads[e] /\ Before(s, u)
      /\ (u.n = Number(e) /\ tx[e].pc # "idle") => u.i < Due(e)
  BY <1>1, <1>3, <1>4 DEF Pacing, DirInv, QueueInv, IsPart
<1>6. s.n \in Nat /\ s.i \in Nat /\ u.n \in Nat /\ u.i \in Nat
  BY <1>1, <1>3, <1>4, ChannelHas
<1>7. u.n <= Number(e) /\ Number(e) \in Nat
  BY <1>5, NumberIs
<1>8. s.n = Number(e) /\ Due(e) <= s.i + 1
  OBVIOUS
<1> HIDE DEF s, u
<1> QED BY <1>5, <1>6, <1>7, <1>8 DEF Before

\* Recv takes a first frame: Send waits for the answer, and has sent nothing else.
LEMMA FirstFrameFits ==
    ASSUME Typed, NEW e \in Ends, NEW p, Pacing(e, p), RecvFirstFrame(p)
    PROVE  Fits(e, p)' /\ lost' = lost
<1>1. p \in Ends /\ p \notin Foreign
  BY PacingHas
<1>2. /\ rx[p] # <<>> /\ Head(rx[p]).type = "FF" /\ Put(p, Rest(p), FC("CTS", setting.block[p]))
      /\ UNCHANGED <<setting, tx, result>>
  BY DEF RecvFirstFrame, Arrived
<1>3. 1 \in DOMAIN rx[p] /\ rx[p][1] = Head(rx[p])
  BY <1>1, <1>2, ChannelHas, Shortened
<1>4. Data(Head(rx[p])) /\ ~Failed(e)
  BY <1>2, <1>3 DEF Data, Pacing, Fits
<1>5. Head(rx[p]).seg.n = Number(e) /\ tx[e].pc = "first"
  BY <1>1, <1>2, <1>3, <1>4 DEF Pacing, DirInv, FlowInv
<1>6. Due(e) = 1
  <2>1. tx[e].sent = 6 /\ ~AllSent(e)
    BY <1>5, SendHas DEF Pacing, DirInv, SendInv
  <2> QED BY <2>1 DEF Due
<1>7. Len(rx[p]) = 1
  <2>1. Head(rx[p]).seg.i \in Nat
    BY <1>1, <1>3, <1>4, ChannelHas
  <2>2. Due(e) <= Head(rx[p]).seg.i + 1 /\ Due(e) \in Int
    BY <1>6, <2>1
  <2> QED BY <1>2, <1>5, <2>2, OnlyOne
<1>8. FC("CTS", setting.block[p]) \in Frames /\ ~Data(FC("CTS", setting.block[p]))
  BY <1>1, AnswersAre, TypedSetting
<1> QED BY <1>2, <1>7, <1>8, AnsweredFits

\* Recv takes the last frame of a block: Send is at its end.
LEMMA BlockFits ==
    ASSUME Typed, NEW e \in Ends, NEW p, Pacing(e, p), RecvConsecutiveFrame(p), BlockReceived(p)
    PROVE  Fits(e, p)' /\ lost' = lost
<1> DEFINE n == rv[p].buf[1].n
           li == LastOf(rv[p].buf).i
           seg == Head(rx[p]).seg
           B == setting.block[p]
           last == CFCount(rv[p].length)
<1>1. p \in Ends /\ p \notin Foreign /\ B \in Nat /\ B >= 1 /\ p # e
  BY PacingHas
<1>2. /\ rv[p].pc = "cf" /\ Arrived(p, "CF") /\ rx[p] # <<>>
      /\ Put(p, Rest(p), FC("CTS", B)) /\ UNCHANGED <<setting, tx, result>>
  BY DEF RecvConsecutiveFrame, Arrived
<1>3. /\ n \in 1 .. Number(e) /\ Number(e) \in Nat /\ seg.n = n /\ seg.i \in 1 .. last
      /\ last \in Nat /\ li \in Nat /\ li < seg.i
      /\ (n = Number(e) /\ tx[e].pc # "idle") => seg.i < Due(e)
  <2>1. DirInv(e, p)
    BY DEF Pacing
  <2> QED BY <1>1, <1>2, <2>1, CFRead DEF IsRead
<1>4. ~Failed(e)
  BY <1>2 DEF Pacing, Fits
<1>5. /\ rv[p].block + 1 = B /\ rv[p].block \in Nat /\ tx[e].block \in Nat
  BY <1>1, RecvHas, SendHas DEF BlockReceived
<1>6. /\ (n = Number(e) /\ tx[e].pc # "idle") => rv[p].block + Due(e) - 1 - li <= tx[e].block
      /\ (n < Number(e) \/ tx[e].pc = "idle") => B = 0 \/ rv[p].block + last - li < B
  BY <1>1, <1>2, <1>4 DEF Pacing, DirInv, FlowInv
<1>7. tx[e].pc # "idle" => Due(e) \in Nat
  <2>1. tx[e].sent \in Nat /\ tx[e].length \in Nat
    BY SendHas
  <2> QED BY <2>1 DEF Due, CFCount
<1> HIDE DEF n, li, seg, B, last
<1>8. n = Number(e) /\ tx[e].pc # "idle"
  BY <1>1, <1>3, <1>5, <1>6
<1>9. /\ tx[e].pc = "first" => tx[e].block = 0
      /\ tx[e].pc # "resume"
      /\ tx[e].pc = "loop" => B = 0 \/ tx[e].block < B
      /\ tx[e].pc = "block" => tx[e].block = B
      /\ tx[e].pc \in {"idle", "first", "loop", "resume", "block"}
  BY <1>1, SendHas DEF Pacing, DirInv, SendInv, FlowInv, B
<1>10. tx[e].block <= B
  BY <1>1, <1>5, <1>8, <1>9
<1>11. Due(e) <= seg.i + 1 /\ Due(e) \in Int
  BY <1>1, <1>3, <1>5, <1>6, <1>7, <1>8, <1>10
<1>12. Len(rx[p]) = 1
  BY <1>2, <1>3, <1>8, <1>11, OnlyOne DEF seg
<1>13. FC("CTS", B) \in Frames /\ ~Data(FC("CTS", B))
  BY <1>1, AnswersAre, TypedSetting DEF B
<1> QED BY <1>2, <1>12, <1>13, AnsweredFits

\* Every step of Recv.
LEMMA RecvFits ==
    ASSUME Typed, NEW e \in Ends, NEW p, Pacing(e, p), RecvStep(p)
    PROVE  Fits(e, p)' /\ lost' = lost
<1>1. p \in Ends /\ p # e /\ up
  BY PacingHas DEF Pacing
<1>2. CASE rx[p] # <<>> /\ rx' = Rest(p) /\ UNCHANGED <<setting, lost, tx, result>>
  <2>1. rx'[p] = Tail(rx[p]) /\ rx'[e] = rx[e]
    BY <1>1, <1>2, RestIs
  <2> QED BY <1>2, <2>1, FewerFits
<1>3. CASE RecvFails(p)
  <2>1. UNCHANGED <<setting, rx, lost, tx, result>>
    BY <1>3 DEF RecvFails
  <2> QED BY <2>1 DEF Pacing, Fits, Failed
<1>4. CASE RecvFirstFrame(p)
  BY <1>4, FirstFrameFits
<1>5. CASE RecvConsecutiveFrame(p)
  <2>1. CASE BlockReceived(p)
    BY <1>5, <2>1, BlockFits
  <2>2. CASE ~BlockReceived(p)
    BY <1>2, <1>5, <2>2 DEF RecvConsecutiveFrame, Arrived
  <2> QED BY <2>1, <2>2
<1> QED BY <1>2, <1>3, <1>4, <1>5
      DEF RecvStep, RecvSingleFrame, RecvStray, RecvFirstFrameOnClosed, SkipToCF, RecvWrongSN,
          RecvLast, RecvBlockOnClosed, Arrived

-----------------------------------------------------------------------------
(* So no frame finds a channel full. *)

\* The ends that do not send do not move.
LEMMA QuietIs ==
    ASSUME Typed, NEW c \in Ends, setting.lengths[c] = {}, tx[c].pc = "idle"
    PROVE  ~SendCall(c) /\ ~SendStep(c)
<1>1. ~SendCall(c)
  BY DEF SendCall
<1>2. ~SendStep(c)
  BY DEF SendStep, SkipToFC, FirstFC, FCAfterWait, FCAfterBlock, SendConsecutiveFrame, SendFails,
         WaitsForFC, CanSendCF
<1> QED BY <1>1, <1>2

\* When no one sends nothing is on its way, and nothing happens.
LEMMA SilenceStays ==
    ASSUME Typed, NEW c \in Ends, rx[c] = <<>>, RecvStep(c)
    PROVE  UNCHANGED <<setting, up, rx, lost, tx>>
BY DEF RecvStep, RecvSingleFrame, RecvStray, RecvFirstFrame, RecvFirstFrameOnClosed, SkipToCF,
       RecvWrongSN, RecvLast, RecvConsecutiveFrame, RecvBlockOnClosed, RecvFails, Arrived

\* Every step keeps PacedInv, given the invariant of both directions.
LEMMA PacedStep ==
    ASSUME IInv, PacedInv, [Next]_vars
    PROVE  PacedInv'
<1>1. Typed
  BY TypedIs DEF IInv
<1>2. setting' = setting
  BY <1>1, StepTells
<1>3. SUFFICES ASSUME Paced PROVE PacedInv'
  BY <1>2 DEF PacedInv, Paced, Undisturbed
<1>4. /\ up /\ ~lost /\ Foreign = {} /\ ~setting.closes
      /\ \A e \in Ends : setting.lengths[e] # {} => Fits(e, Peer(e))
      /\ \A e \in Ends : setting.lengths[e] = {} => tx[e].pc = "idle"
      /\ (\A e \in Ends : setting.lengths[e] = {}) => \A e \in Ends : rx[e] = <<>>
  BY <1>3 DEF PacedInv, Paced, Undisturbed
<1>5. \A e \in Ends : setting.lengths[e] # {} => Pacing(e, Peer(e))
  BY <1>3, <1>4, PeerIs DEF Pacing, Paced, IInv
<1>6. CASE UNCHANGED vars
  BY <1>2, <1>3, <1>4, <1>6 DEF PacedInv, vars, Fits, Failed
<1>7. CASE \E c \in Ends : SendCall(c) \/ SendStep(c)
  <2>1. PICK c \in Ends : SendCall(c) \/ SendStep(c)
    BY <1>7
  <2>2. setting.lengths[c] # {}
    BY <1>1, <1>4, <2>1, QuietIs
  <2>3. Pacing(c, Peer(c))
    BY <1>5, <2>2
  <2>4. Fits(c, Peer(c))' /\ lost' = lost
    BY <1>1, <2>1, <2>3, SendFits
  <2>5. /\ Ends = {c, Peer(c)} /\ setting.lengths[Peer(c)] = {} /\ Peer(c) # c /\ Peer(c) \in Ends
        /\ Peer(c)' = Peer(c)
    BY <1>1, <2>3, PacingHas
  <2>6. tx'[Peer(c)] = tx[Peer(c)]
    BY <1>1, <2>1, <2>5, TypedSend DEF SenderStep
  <2>7. up' = up
    BY <2>1, <2>2 DEF SendCall, SendStep, SendOnClosed, SendSingleFrame, SendFirstFrame, SkipToFC,
           FirstFC, FCAfterWait, FCAfterBlock, SendConsecutiveFrame, SendFails
  <2>8. \A e \in Ends : setting.lengths[e] # {} => e = c
    BY <2>5
  <2>9. tx'[Peer(c)].pc = "idle"
    BY <1>4, <2>5, <2>6
  <2> QED BY <1>2, <1>4, <2>2, <2>4, <2>5, <2>7, <2>8, <2>9 DEF PacedInv
<1>8. CASE \E c \in Ends : RecvStep(c)
  <2>1. PICK c \in Ends : RecvStep(c)
    BY <1>8
  <2>2. CASE \A e \in Ends : setting.lengths[e] = {}
    <3>1. UNCHANGED <<setting, up, rx, lost, tx>>
      BY <1>1, <1>4, <2>1, <2>2, SilenceStays
    <3> QED BY <1>4, <2>2, <3>1 DEF PacedInv
  <2>3. CASE \E e \in Ends : setting.lengths[e] # {}
    <3>1. PICK e \in Ends : setting.lengths[e] # {}
      BY <2>3
    <3>2. Pacing(e, Peer(e))
      BY <1>5, <3>1
    <3>3. /\ Ends = {e, Peer(e)} /\ setting.lengths[Peer(e)] = {} /\ e \notin Receivers
      BY <1>1, <3>2, PacingHas
    <3>4. c = Peer(e)
      <4>1. c \in Receivers
        BY <2>1 DEF RecvStep, RecvSingleFrame, RecvStray, RecvFirstFrame, RecvFirstFrameOnClosed,
               SkipToCF, RecvWrongSN, RecvLast, RecvConsecutiveFrame, RecvBlockOnClosed, RecvFails
      <4> QED BY <3>3, <4>1
    <3>5. Fits(e, Peer(e))' /\ lost' = lost
      BY <1>1, <2>1, <3>2, <3>4, RecvFits
    <3>6. tx' = tx
      BY <1>1, <2>1, TypedRecv DEF ReceiverStep
    <3>7. up' = up
      BY <2>1 DEF RecvStep, RecvSingleFrame, RecvStray, RecvFirstFrame, RecvFirstFrameOnClosed,
               SkipToCF, RecvWrongSN, RecvLast, RecvConsecutiveFrame, RecvBlockOnClosed, RecvFails
    <3>8. \A a \in Ends : setting.lengths[a] # {} => a = e
      BY <3>3
    <3> QED BY <1>2, <1>4, <3>1, <3>5, <3>6, <3>7, <3>8 DEF PacedInv
  <2> QED BY <2>2, <2>3
<1>9. \A c \in Ends : ~ForeignRead(c) /\ ~ForeignFC(c)
  BY <1>4 DEF ForeignRead, ForeignFC
<1>10. ~Close
  BY <1>4 DEF Close
<1> QED BY <1>6, <1>7, <1>8, <1>9, <1>10 DEF Next, AllDone

\* It holds at the start, when the channels are empty.
LEMMA PacedInit == Init => PacedInv
<1> SUFFICES ASSUME Init, Paced PROVE PacedInv
  BY DEF PacedInv
<1>1. /\ up /\ ~lost /\ \A e \in Ends : rx[e] = <<>> /\ tx[e].pc = "idle" /\ result[e] = <<>>
  BY DEF Init, NoSend
<1>2. ASSUME NEW e \in Ends, setting.lengths[e] # {}
      PROVE  Fits(e, Peer(e))
  <2>1. Peer(e) \in Ends /\ setting.block[Peer(e)] \in 1 .. setting.depth
    BY <1>2, PeerIs DEF Paced
  <2>2. setting.depth \in Nat
    BY SettingIs DEF Init
  <2>3. Len(<<>>) < setting.block[Peer(e)]
    BY <2>1, <2>2
  <2> QED BY <1>1, <2>1, <2>3 DEF Fits, Failed
<1> QED BY <1>1, <1>2 DEF PacedInv

\* NoOverrun (IsoTp): on a bus that loses nothing no frame finds rxCh full, however long the
\* payloads are - as long as each needs consecutive frames (nothing holds back single frames) and
\* the receiver's BlockSize is neither 0 nor above the capacity of its channel.
THEOREM PacedNeverOverruns == Spec => [](Paced => NoOverrun)
<1>1. IInv /\ PacedInv /\ [Next]_vars => PacedInv'
  BY PacedStep
<1>2. PacedInv => (Paced => NoOverrun)
  BY DEF PacedInv, NoOverrun
<1> QED BY <1>1, <1>2, PacedInit, ExchangeInOrder, PTL DEF Spec

=============================================================================
