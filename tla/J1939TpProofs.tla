---------------------------- MODULE J1939TpProofs ----------------------------
(***************************************************************************)
(* Theorems about the J1939 transport protocol, for any senders, addresses, *)
(* messages, groups and capacities.                                         *)
(***************************************************************************)
EXTENDS J1939Tp, SequenceTheorems, FiniteSetTheorems, TLAPS

USE DEF sendVars, historyVars, loopVars

-----------------------------------------------------------------------------
(* The inductive invariant: whatever is on the raw subscription, in a       *)
(* session or on its way to the consumer was put there by a sender.         *)

Pieces == {Blank} \cup Senders \X Nat \X Nat
Buffers == UNION {[1 .. n -> Pieces] : n \in 2 .. 255}
Labels == Senders \X Nat
Announcements ==
    [type : {"BAM"}, src : Addresses, packets : 2 .. 255, pgn : PGNs, msg : Labels]
Packets == [type : {"DT"}, src : Addresses, seq : 1 .. 255, piece : Pieces]
Records ==
    [packets : 2 .. 255, pgn : PGNs, msg : Labels, buf : Buffers, seen : SUBSET (1 .. 255)]
Delivered == [src : Addresses, pgn : PGNs, buf : Buffers]

SendType ==
    /\ DOMAIN addr = Senders /\ up \in BOOLEAN /\ cancelled \in BOOLEAN
    /\ messages \in [Senders -> Seq([packets : 2 .. 255, pgn : PGNs])]
    /\ \A g \in Senders, n \in Nat : <<g, n>> \in unannounced => n <= Number(g)
    /\ at \in [Senders -> 0 .. 255]
    /\ \A g \in Senders : at[g] > 0 => Number(g) > 0 /\ at[g] <= Current(g).packets
    /\ raw \in Seq(Announcements \cup Packets) /\ Len(raw) <= RawDepth
LoopType ==
    /\ sessions \in [Addresses -> {<<>>} \cup {<<s>> : s \in Records}]
    /\ loop \in {"new", "select", "emit", "exited"}
    /\ assembled \in Seq(Delivered) /\ emitted \in Seq(Delivered)
    /\ Len(assembled) <= 1 /\ (loop = "emit" => Len(assembled) = 1)
    /\ out \in Seq(Delivered) /\ Len(out) <= OutDepth

\* A message that was announced, and a piece that was sent for place j, from address a.
Known(a, packets, pgn, ad, ms, un) ==
    \E g \in Senders : ad[g] = a /\ \E n \in DOMAIN ms[g] :
        <<g, n>> \notin un /\ ms[g][n] = [packets |-> packets, pgn |-> pgn]
Placed(a, j, piece, ad, ms) ==
    \E g \in Senders : ad[g] = a /\ \E n \in DOMAIN ms[g] : piece = Piece(g, n, j)

Honest(m, ad, ms, un) ==
    /\ m.type = "BAM" => Known(m.src, m.packets, m.pgn, ad, ms, un)
    /\ m.type = "DT" => Placed(m.src, m.seq, m.piece, ad, ms)
\* A session is short of a packet, and knows what it has seen.
Backed(a, s, ad, ms, un) ==
    /\ Known(a, s.packets, s.pgn, ad, ms, un)
    /\ s.buf \in [1 .. s.packets -> Pieces]
    /\ s.seen \subseteq 1 .. s.packets /\ Cardinality(s.seen) < s.packets
    /\ \A j \in s.seen : Placed(a, j, s.buf[j], ad, ms)
Genuine(f, ad, ms, un) ==
    /\ f.pgn \in Wanted /\ Known(f.src, Len(f.buf), f.pgn, ad, ms, un)
    /\ \A j \in DOMAIN f.buf : Placed(f.src, j, f.buf[j], ad, ms)

RawInv == \A i \in DOMAIN raw : Honest(raw[i], addr, messages, unannounced)
SessionInv ==
    \A a \in Addresses : sessions[a] # <<>> => Backed(a, sessions[a][1], addr, messages, unannounced)
FrameInv ==
    /\ \A i \in DOMAIN assembled : Genuine(assembled[i], addr, messages, unannounced)
    /\ \A i \in DOMAIN emitted : Genuine(emitted[i], addr, messages, unannounced)

IInv == SendType /\ LoopType /\ RawInv /\ SessionInv /\ FrameInv

-----------------------------------------------------------------------------
(* Sequences. *)

\* A sequence with an element more.
LEMMA Appended ==
    ASSUME NEW S, NEW s \in Seq(S), NEW e \in S
    PROVE  /\ Append(s, e) \in Seq(S) /\ Len(Append(s, e)) = Len(s) + 1 /\ Len(s) \in Nat
           /\ DOMAIN s = 1 .. Len(s) /\ DOMAIN Append(s, e) = 1 .. Len(s) + 1
           /\ Append(s, e)[Len(s) + 1] = e
           /\ \A i \in 1 .. Len(s) : Append(s, e)[i] = s[i]
BY AppendProperties, LenProperties

\* A sequence without its first element.
LEMMA Shortened ==
    ASSUME NEW S, NEW s \in Seq(S), s # <<>>
    PROVE  /\ Tail(s) \in Seq(S) /\ Len(Tail(s)) = Len(s) - 1 /\ Len(s) \in Nat /\ Len(s) > 0
           /\ DOMAIN s = 1 .. Len(s) /\ DOMAIN Tail(s) = 1 .. Len(s) - 1
           /\ Head(s) = s[1] /\ Head(s) \in S
           /\ \A i \in 1 .. Len(s) - 1 : Tail(s)[i] = s[i + 1]
BY HeadTailProperties, LenProperties, EmptySeq

\* What has been seen of n packets; if as many as there are, all of them.
LEMMA SeenOf ==
    ASSUME NEW n \in 2 .. 255, NEW T, T \subseteq 1 .. n
    PROVE  /\ Cardinality(T) \in Nat /\ Cardinality(T) <= n
           /\ Cardinality(T) = n => T = 1 .. n
<1>1. IsFiniteSet(1 .. n) /\ Cardinality(1 .. n) = n
  <2>1. 1 \in Int /\ n \in Int /\ ~(1 > n) /\ n - 1 + 1 = n
    OBVIOUS
  <2> QED BY <2>1, FS_Interval
<1>2. IsFiniteSet(T) /\ Cardinality(T) <= Cardinality(1 .. n)
      /\ (Cardinality(1 .. n) = Cardinality(T) => 1 .. n = T)
  <2>1. T \in SUBSET (1 .. n)
    OBVIOUS
  <2> QED BY <1>1, <2>1, FS_Subset
<1>3. Cardinality(T) \in Nat
  BY <1>2, FS_CardinalityType
<1> QED BY <1>1, <1>2, <1>3

\* A function of 1 .. n is a sequence of that length.
LEMMA BufferLength ==
    ASSUME NEW S, NEW n \in 2 .. 255, NEW b \in [1 .. n -> S]
    PROVE  Len(b) = n
<1>1. b \in Seq(S)
  BY SeqDef
<1>2. Len(b) \in Nat /\ 1 .. Len(b) = 1 .. n
  BY <1>1, LenProperties
<1> QED BY <1>2

-----------------------------------------------------------------------------
(* What was sent stays sent. *)

\* Messages are added, and only new ones go unannounced.
Extends ==
    /\ addr' = addr
    /\ \A g \in Senders : \A n \in DOMAIN messages[g] :
          /\ n \in DOMAIN messages'[g] /\ messages'[g][n] = messages[g][n]
          /\ <<g, n>> \in unannounced' => <<g, n>> \in unannounced

\* A message known and a piece placed stay so.
LEMMA KnownStays ==
    ASSUME Extends
    PROVE  /\ \A a, packets, pgn : Known(a, packets, pgn, addr, messages, unannounced)
                                   => Known(a, packets, pgn, addr', messages', unannounced')
           /\ \A a, j, piece : Placed(a, j, piece, addr, messages)
                               => Placed(a, j, piece, addr', messages')
<1>1. ASSUME NEW a, NEW packets, NEW pgn, Known(a, packets, pgn, addr, messages, unannounced)
      PROVE  Known(a, packets, pgn, addr', messages', unannounced')
  <2>1. PICK g \in Senders : addr[g] = a /\ \E n \in DOMAIN messages[g] :
            <<g, n>> \notin unannounced /\ messages[g][n] = [packets |-> packets, pgn |-> pgn]
    BY <1>1 DEF Known
  <2>2. PICK n \in DOMAIN messages[g] :
            <<g, n>> \notin unannounced /\ messages[g][n] = [packets |-> packets, pgn |-> pgn]
    BY <2>1
  <2>3. n \in DOMAIN messages'[g] /\ messages'[g][n] = messages[g][n] /\ <<g, n>> \notin unannounced'
    BY <2>2 DEF Extends
  <2> QED BY <2>1, <2>2, <2>3 DEF Extends, Known
<1>2. ASSUME NEW a, NEW j, NEW piece, Placed(a, j, piece, addr, messages)
      PROVE  Placed(a, j, piece, addr', messages')
  <2>1. PICK g \in Senders : addr[g] = a /\ \E n \in DOMAIN messages[g] : piece = Piece(g, n, j)
    BY <1>2 DEF Placed
  <2>2. PICK n \in DOMAIN messages[g] : piece = Piece(g, n, j)
    BY <2>1
  <2>3. n \in DOMAIN messages'[g]
    BY <2>2 DEF Extends
  <2> QED BY <2>1, <2>2, <2>3 DEF Extends, Placed
<1> QED BY <1>1, <1>2

\* So does what rests on them: frames on the wire, sessions, delivered frames.
LEMMA BackingStays ==
    ASSUME Extends
    PROVE  /\ \A m : Honest(m, addr, messages, unannounced)
                     => Honest(m, addr', messages', unannounced')
           /\ \A a, s : Backed(a, s, addr, messages, unannounced)
                        => Backed(a, s, addr', messages', unannounced')
           /\ \A f : Genuine(f, addr, messages, unannounced)
                     => Genuine(f, addr', messages', unannounced')
<1>1. \A m : Honest(m, addr, messages, unannounced) => Honest(m, addr', messages', unannounced')
  BY KnownStays DEF Honest
<1>2. \A a, s : Backed(a, s, addr, messages, unannounced)
               => Backed(a, s, addr', messages', unannounced')
  BY KnownStays DEF Backed
<1>3. \A f : Genuine(f, addr, messages, unannounced) => Genuine(f, addr', messages', unannounced')
  BY KnownStays DEF Genuine
<1> QED BY <1>1, <1>2, <1>3

\* The goroutine of SubscribeTP leaves alone what senders did.
LEMMA SameExtends ==
    ASSUME UNCHANGED <<addr, messages, unannounced>>
    PROVE  Extends /\ Addresses' = Addresses
BY DEF Extends, Addresses

-----------------------------------------------------------------------------
(* The senders. *)

\* Nothing has been sent at the start.
LEMMA InitInv == Init => IInv
<1> SUFFICES ASSUME Init PROVE IInv
  OBVIOUS
<1>1. \A S : <<>> \in Seq(S) /\ Len(<<>>) = 0
  BY EmptySeq
<1>2. DOMAIN addr = Senders
  BY ConfigAssumption DEF Init
<1>3. SendType
  <2>1. messages \in [Senders -> Seq([packets : 2 .. 255, pgn : PGNs])]
    BY <1>1 DEF Init
  <2>2. at \in [Senders -> 0 .. 255] /\ \A g \in Senders : at[g] = 0
    BY DEF Init
  <2>3. raw \in Seq(Announcements \cup Packets) /\ Len(raw) <= RawDepth
    BY <1>1, ConfigAssumption DEF Init
  <2>4. \A g \in Senders : at[g] > 0 => Number(g) > 0 /\ at[g] <= Current(g).packets
    BY <2>2
  <2>5. up \in BOOLEAN /\ cancelled \in BOOLEAN /\ unannounced = {}
    BY DEF Init
  <2> QED BY <1>2, <2>1, <2>2, <2>3, <2>4, <2>5 DEF SendType
<1>4. LoopType
  BY <1>1, ConfigAssumption DEF Init, LoopType
<1>5. RawInv /\ SessionInv /\ FrameInv
  BY DEF Init, RawInv, SessionInv, FrameInv
<1> QED BY <1>3, <1>4, <1>5 DEF IInv

\* What can.Send may do to the raw subscription.
LEMMA RawGrows ==
    ASSUME IInv, NEW m \in Announcements \cup Packets, Extends,
           Lost \/ (Reaches(m) /\ Honest(m, addr', messages', unannounced'))
    PROVE  /\ raw' \in Seq(Announcements \cup Packets) /\ Len(raw') <= RawDepth
           /\ RawInv'
<1>1. raw \in Seq(Announcements \cup Packets) /\ Len(raw) <= RawDepth /\ RawInv
  BY DEF IInv, SendType
<1>2. \A i \in DOMAIN raw : Honest(raw[i], addr', messages', unannounced')
  BY <1>1, BackingStays DEF RawInv
<1>3. CASE raw' = raw
  BY <1>1, <1>2, <1>3 DEF RawInv
<1>4. CASE Reaches(m) /\ Honest(m, addr', messages', unannounced')
  <2>1. raw' = Append(raw, m) /\ Len(raw) < RawDepth /\ RawDepth \in Nat
    BY <1>4, ConfigAssumption DEF Reaches
  <2>2. /\ raw' \in Seq(Announcements \cup Packets) /\ Len(raw') = Len(raw) + 1
        /\ Len(raw) \in Nat /\ DOMAIN raw = 1 .. Len(raw) /\ DOMAIN raw' = 1 .. Len(raw) + 1
        /\ raw'[Len(raw) + 1] = m /\ \A i \in 1 .. Len(raw) : raw'[i] = raw[i]
    BY <1>1, <2>1, Appended
  <2>3. \A i \in DOMAIN raw' : Honest(raw'[i], addr', messages', unannounced')
    <3> SUFFICES ASSUME NEW i \in DOMAIN raw'
                 PROVE  Honest(raw'[i], addr', messages', unannounced')
      OBVIOUS
    <3>1. i \in DOMAIN raw \/ i = Len(raw) + 1
      BY <2>2
    <3> QED BY <3>1, <2>2, <1>2, <1>4
  <2> QED BY <2>1, <2>2, <2>3 DEF RawInv
<1> QED BY <1>3, <1>4 DEF Lost

\* A step of a sender keeps what the goroutine of SubscribeTP has.
LEMMA SenderKeepsLoop ==
    ASSUME IInv, Extends, UNCHANGED loopVars
    PROVE  LoopType' /\ SessionInv' /\ FrameInv'
<1>1. Addresses' = Addresses
  BY DEF Extends, Addresses
<1>2. UNCHANGED <<sessions, loop, assembled, out, historyVars>>
  OBVIOUS
<1>3. LoopType'
  BY <1>1, <1>2 DEF IInv, LoopType, Delivered
<1>4. SessionInv'
  BY <1>1, <1>2, BackingStays DEF IInv, SessionInv
<1>5. FrameInv'
  BY <1>2, BackingStays DEF IInv, FrameInv
<1> QED BY <1>3, <1>4, <1>5

\* An announcement.
LEMMA AnnounceKeeps ==
    ASSUME IInv, NEW g \in Senders, NEW m \in Messages[g], SendAnnounce(g, m)
    PROVE  IInv'
<1>t. SendType
  BY DEF IInv
<1>m. m.packets \in 2 .. 255 /\ m.pgn \in PGNs
  BY ConfigAssumption
<1> DEFINE f == BAM(addr[g], m, <<g, Number(g) + 1>>)
<1>0. /\ UNCHANGED <<addr, up, cancelled>> /\ UNCHANGED loopVars /\ at[g] = 0
      /\ messages' = [messages EXCEPT ![g] = Append(@, m)] /\ at' = [at EXCEPT ![g] = 1]
      /\ \/ Reaches(f) /\ unannounced' = unannounced
         \/ Lost /\ unannounced' = unannounced \cup {<<g, Number(g) + 1>>}
  BY DEF SendAnnounce
<1>2. /\ Number(g) \in Nat /\ messages[g] \in Seq([packets : 2 .. 255, pgn : PGNs])
      /\ DOMAIN messages[g] = 1 .. Number(g) /\ g \in DOMAIN messages
  <2>1. messages[g] \in Seq([packets : 2 .. 255, pgn : PGNs]) /\ g \in DOMAIN messages
    BY <1>t DEF SendType
  <2>2. Len(messages[g]) \in Nat /\ DOMAIN messages[g] = 1 .. Len(messages[g])
    BY <2>1, LenProperties
  <2> QED BY <2>1, <2>2 DEF Number
<1>1. f \in Announcements /\ f.type = "BAM"
  <2>1. <<g, Number(g) + 1>> \in Labels /\ addr[g] \in Addresses
    BY <1>2 DEF Labels, Addresses
  <2> QED BY <1>m, <2>1 DEF BAM, Announcements
<1>3. /\ messages'[g] \in Seq([packets : 2 .. 255, pgn : PGNs]) /\ Len(messages'[g]) = Number(g) + 1
      /\ DOMAIN messages'[g] = 1 .. Number(g) + 1 /\ messages'[g][Number(g) + 1] = m
      /\ \A n \in DOMAIN messages[g] : messages'[g][n] = messages[g][n]
      /\ \A h \in Senders \ {g} : messages'[h] = messages[h]
  <2>1. m \in [packets : 2 .. 255, pgn : PGNs] /\ messages'[g] = Append(messages[g], m)
    BY <1>0, <1>2, ConfigAssumption
  <2>2. \A h \in Senders \ {g} : messages'[h] = messages[h]
    BY <1>0, <1>t DEF SendType
  <2> QED BY <2>1, <2>2, <1>2, Appended DEF Number
<1>4. messages' \in [Senders -> Seq([packets : 2 .. 255, pgn : PGNs])]
  BY <1>0, <1>3, <1>t DEF SendType
<1>5. Extends
  <2> SUFFICES ASSUME NEW h \in Senders, NEW n \in DOMAIN messages[h]
               PROVE  /\ n \in DOMAIN messages'[h] /\ messages'[h][n] = messages[h][n]
                      /\ <<h, n>> \in unannounced' => <<h, n>> \in unannounced
    BY <1>0 DEF Extends
  <2>1. n \in DOMAIN messages'[h] /\ messages'[h][n] = messages[h][n]
    <3>1. CASE h = g
      <4>1. n \in 1 .. Number(g) /\ n \in 1 .. Number(g) + 1
        BY <3>1, <1>2
      <4> QED BY <4>1, <3>1, <1>2, <1>3
    <3>2. CASE h # g
      BY <3>2, <1>3
    <3> QED BY <3>1, <3>2
  <2>2. <<h, n>> # <<g, Number(g) + 1>>
    BY <1>2
  <2> QED BY <2>1, <2>2, <1>0
<1>6. Lost \/ (Reaches(f) /\ Honest(f, addr', messages', unannounced'))
  <2> SUFFICES ASSUME Reaches(f), unannounced' = unannounced
               PROVE  Honest(f, addr', messages', unannounced')
    BY <1>0
  <2>1. <<g, Number(g) + 1>> \notin unannounced'
    <3>1. \A n \in Nat : <<g, n>> \in unannounced => n <= Number(g)
      BY <1>t DEF SendType
    <3>2. Number(g) + 1 \in Nat /\ ~(Number(g) + 1 <= Number(g))
      BY <1>2
    <3> QED BY <3>1, <3>2
  <2>2. /\ Number(g) + 1 \in DOMAIN messages'[g]
        /\ messages'[g][Number(g) + 1] = [packets |-> f.packets, pgn |-> f.pgn]
    BY <1>2, <1>3, ConfigAssumption DEF BAM
  <2>3. addr'[g] = f.src
    BY <1>0 DEF BAM
  <2>4. Known(f.src, f.packets, f.pgn, addr', messages', unannounced')
    BY <2>1, <2>2, <2>3 DEF Known
  <2> QED BY <2>4, <1>1 DEF Honest
<1>7. raw' \in Seq(Announcements \cup Packets) /\ Len(raw') <= RawDepth /\ RawInv'
  <2> HIDE DEF f
  <2> QED BY <1>1, <1>5, <1>6, RawGrows
<1>8. LoopType' /\ SessionInv' /\ FrameInv'
  BY <1>0, <1>5, SenderKeepsLoop
<1>9. SendType'
  <2>1. \A h \in Senders, n \in Nat : <<h, n>> \in unannounced' => n <= Number(h)'
    <3> SUFFICES ASSUME NEW h \in Senders, NEW n \in Nat, <<h, n>> \in unannounced'
                 PROVE  n <= Len(messages'[h])
      BY DEF Number
    <3>1. CASE h = g
      <4>1. <<h, n>> \in unannounced \/ n = Number(g) + 1
        BY <1>0
      <4> QED BY <4>1, <3>1, <1>2, <1>3, <1>t DEF SendType
    <3>2. CASE h # g
      <4>1. <<h, n>> \in unannounced
        BY <1>0, <3>2
      <4> QED BY <4>1, <3>2, <1>3, <1>t DEF SendType, Number
    <3> QED BY <3>1, <3>2
  <2>2. at' \in [Senders -> 0 .. 255] /\ at'[g] = 1 /\ \A h \in Senders \ {g} : at'[h] = at[h]
    BY <1>0, <1>t DEF SendType
  <2>3. ASSUME NEW h \in Senders, at'[h] > 0
        PROVE  Len(messages'[h]) > 0 /\ at'[h] <= messages'[h][Len(messages'[h])].packets
    <3>1. CASE h = g
      <4>1. /\ Len(messages'[g]) > 0 /\ messages'[g][Len(messages'[g])] = m
            /\ at'[g] = 1 /\ 1 <= m.packets
        <5>1. Len(messages'[g]) > 0
          BY <1>2, <1>3
        <5>2. messages'[g][Len(messages'[g])] = m
          BY <1>3
        <5>3. 1 <= m.packets
          BY <1>m
        <5> QED BY <5>1, <5>2, <5>3, <2>2
      <4> QED BY <4>1, <3>1
    <3>2. CASE h # g
      BY <3>2, <2>2, <2>3, <1>3, <1>t DEF SendType, Number, Current
    <3> QED BY <3>1, <3>2
  <2>4. Announcements' = Announcements /\ Packets' = Packets
    BY <1>0 DEF Announcements, Packets, Addresses
  <2> QED BY <1>0, <1>4, <1>7, <1>t, <2>1, <2>2, <2>3, <2>4 DEF SendType, Number, Current
<1> QED BY <1>7, <1>8, <1>9 DEF IInv

\* A packet.
LEMMA PacketKeeps ==
    ASSUME IInv, NEW g \in Senders, SendPacket(g)
    PROVE  IInv'
<1>t. SendType
  BY DEF IInv
<1> DEFINE f == DT(addr[g], Seq1(g), Piece(g, Number(g), at[g]))
<1>0. /\ UNCHANGED <<addr, up, messages, unannounced, cancelled>> /\ UNCHANGED loopVars /\ at[g] > 0
      /\ Reaches(f) \/ Lost
      /\ at' = [at EXCEPT ![g] = IF @ = Current(g).packets THEN 0 ELSE @ + 1]
  BY DEF SendPacket
<1>1. Extends
  BY <1>0, SameExtends
<1>2. /\ at[g] \in 1 .. 255 /\ Number(g) > 0 /\ Number(g) \in Nat
      /\ DOMAIN messages[g] = 1 .. Number(g) /\ at[g] <= Current(g).packets
      /\ Current(g).packets \in 2 .. 255
  <2>1. messages[g] \in Seq([packets : 2 .. 255, pgn : PGNs])
    BY <1>t DEF SendType
  <2>2. at[g] \in 0 .. 255 /\ Number(g) > 0 /\ at[g] <= Current(g).packets
    BY <1>0, <1>t DEF SendType
  <2>3. Number(g) \in Nat /\ DOMAIN messages[g] = 1 .. Number(g)
    BY <2>1, LenProperties DEF Number
  <2>4. Current(g) \in [packets : 2 .. 255, pgn : PGNs]
    <3>1. Number(g) \in 1 .. Len(messages[g])
      BY <2>2, <2>3 DEF Number
    <3>2. messages[g][Number(g)] \in [packets : 2 .. 255, pgn : PGNs]
      BY <2>1, <3>1, ElementOfSeq
    <3> QED BY <3>2 DEF Current
  <2>5. Current(g).packets \in 2 .. 255
    BY <2>4
  <2>6. at[g] \in 1 .. 255
    BY <1>0, <2>2
  <2> QED BY <2>2, <2>3, <2>5, <2>6
<1>3. f \in Packets /\ f.type = "DT"
  <2>1. Piece(g, Number(g), at[g]) \in Pieces
    <3>1. PICK k \in 1 .. 255 : k = at[g]
      BY <1>2
    <3>2. Number(g) \in Nat
      BY <1>2
    <3>3. \A i, j \in Nat : Piece(g, i, j) \in Pieces
      BY DEF Piece, Pieces
    <3>4. k \in Nat
      OBVIOUS
    <3> HIDE DEF Piece
    <3> QED BY <3>1, <3>2, <3>3, <3>4
  <2>2. addr[g] \in Addresses
    BY DEF Addresses
  <2>3. Seq1(g) \in 1 .. 255
    BY <1>2 DEF Seq1
  <2> HIDE DEF Piece
  <2> QED BY <2>1, <2>2, <2>3 DEF DT, Packets
<1>4. Honest(f, addr', messages', unannounced')
  <2>1. Number(g) \in DOMAIN messages[g]
    BY <1>2
  <2>2. Placed(f.src, f.seq, f.piece, addr', messages')
    BY <2>1, <1>0 DEF Placed, DT, Seq1
  <2> QED BY <2>2, <1>3 DEF Honest
<1>5. raw' \in Seq(Announcements \cup Packets) /\ Len(raw') <= RawDepth /\ RawInv'
  <2>1. Lost \/ Reaches(f)
    BY <1>0
  <2> HIDE DEF f
  <2> QED BY <1>1, <1>3, <1>4, <2>1, RawGrows
<1>6. LoopType' /\ SessionInv' /\ FrameInv'
  BY <1>0, <1>1, SenderKeepsLoop
<1>7. SendType'
  <2>1. /\ at' \in [Senders -> 0 .. 255]
        /\ \A h \in Senders : at'[h] > 0 => Number(h) > 0 /\ at'[h] <= Current(h).packets
    <3>p. PICK p \in 2 .. 255 : p = Current(g).packets
      BY <1>2
    <3>n. PICK n \in 1 .. 255 : n = at[g] /\ n <= p
      BY <1>2, <3>p
    <3>1. at' \in [Senders -> 0 .. 255] /\ \A h \in Senders \ {g} : at'[h] = at[h]
      <4>1. at \in [Senders -> 0 .. 255]
        BY <1>t DEF SendType
      <4>2. (IF at[g] = Current(g).packets THEN 0 ELSE at[g] + 1) \in 0 .. 255
        BY <3>n, <3>p
      <4> QED BY <4>1, <4>2, <1>0
    <3>2. at'[g] > 0 => at'[g] <= Current(g).packets
      <4>1. at'[g] = IF at[g] = Current(g).packets THEN 0 ELSE at[g] + 1
        BY <1>0, <1>t DEF SendType
      <4> QED BY <4>1, <3>n, <3>p
    <3> QED BY <3>1, <3>2, <1>2, <1>t DEF SendType
  <2>2. Announcements' = Announcements /\ Packets' = Packets
    BY <1>0 DEF Announcements, Packets, Addresses
  <2> QED BY <1>0, <1>5, <1>t, <2>1, <2>2 DEF SendType, Number, Current
<1> QED BY <1>5, <1>6, <1>7 DEF IInv

\* A sender that stops, Close, and what else moves neither frames nor sessions.
LEMMA StopKeeps ==
    ASSUME IInv, UNCHANGED <<addr, raw, messages, unannounced>>, UNCHANGED loopVars,
           up' \in BOOLEAN, cancelled' \in BOOLEAN,
           at' = at \/ \E g \in Senders : at' = [at EXCEPT ![g] = 0]
    PROVE  IInv'
<1>1. Extends
  BY SameExtends
<1>2. LoopType' /\ SessionInv' /\ FrameInv'
  BY <1>1, SenderKeepsLoop
<1>3. RawInv'
  BY DEF IInv, RawInv
<1>4. /\ at' \in [Senders -> 0 .. 255]
      /\ \A h \in Senders : at'[h] > 0 => Number(h) > 0 /\ at'[h] <= Current(h).packets
  <2>1. CASE at' = at
    BY <2>1 DEF IInv, SendType
  <2>2. ASSUME NEW g \in Senders, at' = [at EXCEPT ![g] = 0]
        PROVE  /\ at' \in [Senders -> 0 .. 255]
               /\ \A h \in Senders : at'[h] > 0 => Number(h) > 0 /\ at'[h] <= Current(h).packets
    <3>1. at \in [Senders -> 0 .. 255]
      BY DEF IInv, SendType
    <3>2. at' \in [Senders -> 0 .. 255] /\ at'[g] = 0 /\ \A h \in Senders \ {g} : at'[h] = at[h]
      BY <3>1, <2>2
    <3> QED BY <3>2 DEF IInv, SendType
  <2> QED BY <2>1, <2>2
<1>5. Announcements' = Announcements /\ Packets' = Packets
  BY DEF Announcements, Packets, Addresses
<1>6. SendType'
  BY <1>4, <1>5 DEF IInv, SendType, Number, Current
<1> QED BY <1>2, <1>3, <1>6 DEF IInv

-----------------------------------------------------------------------------
(* The goroutine of SubscribeTP. *)

\* It reads a frame.
LEMMA TakeKeeps ==
    ASSUME IInv, raw # <<>>, raw' = Tail(raw), UNCHANGED <<addr, up, cancelled>>, UNCHANGED sendVars
    PROVE  /\ Extends /\ SendType' /\ RawInv'
           /\ Head(raw) \in Announcements \cup Packets
           /\ Honest(Head(raw), addr, messages, unannounced)
<1>1. Extends /\ Addresses' = Addresses
  BY SameExtends
<1>2. raw \in Seq(Announcements \cup Packets) /\ Len(raw) <= RawDepth /\ RawInv
  BY DEF IInv, SendType
<1>3. /\ raw' \in Seq(Announcements \cup Packets) /\ Len(raw') = Len(raw) - 1
      /\ Len(raw) \in Nat /\ Len(raw) > 0
      /\ DOMAIN raw = 1 .. Len(raw) /\ DOMAIN raw' = 1 .. Len(raw) - 1
      /\ Head(raw) = raw[1] /\ Head(raw) \in Announcements \cup Packets
      /\ \A i \in 1 .. Len(raw) - 1 : raw'[i] = raw[i + 1]
  BY <1>2, Shortened
<1>4. Honest(Head(raw), addr, messages, unannounced)
  <2>1. 1 \in DOMAIN raw
    BY <1>3
  <2> QED BY <2>1, <1>2, <1>3 DEF RawInv
<1>5. RawInv'
  <2> SUFFICES ASSUME NEW i \in DOMAIN raw'
               PROVE  Honest(raw'[i], addr', messages', unannounced')
    BY DEF RawInv
  <2>1. i + 1 \in DOMAIN raw /\ raw'[i] = raw[i + 1]
    BY <1>3
  <2>2. Honest(raw[i + 1], addr, messages, unannounced)
    BY <2>1, <1>2 DEF RawInv
  <2> QED BY <2>1, <2>2, <1>1, BackingStays
<1>6. Len(raw') <= RawDepth
  BY <1>2, <1>3, ConfigAssumption
<1>7. Announcements' = Announcements /\ Packets' = Packets
  BY <1>1 DEF Announcements, Packets
<1>8. SendType'
  BY <1>3, <1>6, <1>7 DEF IInv, SendType, Number, Current
<1> QED BY <1>1, <1>3, <1>4, <1>5, <1>8

\* It changes one session.
LEMMA SessionSet ==
    ASSUME IInv, Extends, NEW a \in Addresses, NEW v, sessions' = [sessions EXCEPT ![a] = v],
           v = <<>> \/ \E s \in Records : v = <<s>> /\ Backed(a, s, addr, messages, unannounced)
    PROVE  /\ sessions' \in [Addresses -> {<<>>} \cup {<<s>> : s \in Records}]
           /\ SessionInv'
<1>1. sessions \in [Addresses -> {<<>>} \cup {<<s>> : s \in Records}] /\ SessionInv
  BY DEF IInv, LoopType
<1>2. v \in {<<>>} \cup {<<s>> : s \in Records}
  OBVIOUS
<1>3. sessions' \in [Addresses -> {<<>>} \cup {<<s>> : s \in Records}]
  BY <1>1, <1>2
<1>4. ASSUME NEW b \in Addresses, sessions'[b] # <<>>
      PROVE  Backed(b, sessions'[b][1], addr', messages', unannounced')
  <2>1. CASE b = a
    <3>1. sessions'[b] = v
      BY <2>1, <1>1
    <3>2. PICK s \in Records : v = <<s>> /\ Backed(a, s, addr, messages, unannounced)
      BY <3>1, <1>4
    <3>3. sessions'[b][1] = s
      BY <3>1, <3>2
    <3> QED BY <2>1, <3>2, <3>3, BackingStays
  <2>2. CASE b # a
    <3>1. sessions'[b] = sessions[b]
      BY <2>2, <1>1
    <3>2. Backed(b, sessions[b][1], addr, messages, unannounced)
      BY <3>1, <1>1, <1>4 DEF SessionInv
    <3> QED BY <3>1, <3>2, BackingStays
  <2> QED BY <2>1, <2>2
<1>5. Addresses' = Addresses
  BY DEF Extends, Addresses
<1> QED BY <1>3, <1>4, <1>5 DEF SessionInv

\* The rest of what it has stays as it is.
LEMMA RestKeeps ==
    ASSUME IInv, Extends, UNCHANGED <<loop, assembled, out, historyVars>>,
           sessions' \in [Addresses -> {<<>>} \cup {<<s>> : s \in Records}]
    PROVE  LoopType' /\ FrameInv'
<1>1. Addresses' = Addresses
  BY DEF Extends, Addresses
<1>2. LoopType'
  BY <1>1 DEF IInv, LoopType, Delivered
<1>3. FrameInv'
  BY BackingStays DEF IInv, FrameInv
<1> QED BY <1>2, <1>3

\* A session that is announced.
LEMMA RecvAnnounceKeeps == IInv /\ RecvAnnounce => IInv'
<1> SUFFICES ASSUME IInv, RecvAnnounce PROVE IInv'
  OBVIOUS
<1> DEFINE f == Head(raw)
           s == [packets |-> f.packets, pgn |-> f.pgn, msg |-> f.msg,
                 buf |-> [i \in 1 .. f.packets |-> Blank], seen |-> {}]
<1>0. /\ raw # <<>> /\ f.type = "BAM" /\ raw' = Tail(raw)
      /\ sessions' = [sessions EXCEPT ![f.src] = <<s>>]
      /\ UNCHANGED <<addr, up, cancelled>> /\ UNCHANGED sendVars
      /\ UNCHANGED <<loop, assembled, out, historyVars>>
  BY DEF RecvAnnounce, Arrived, Ignored
<1>1. Extends /\ SendType' /\ RawInv' /\ f \in Announcements \cup Packets
      /\ Honest(f, addr, messages, unannounced)
  BY <1>0, TakeKeeps
<1>2. f \in Announcements
  BY <1>0, <1>1 DEF Packets
<1>3. f.src \in Addresses /\ f.packets \in 2 .. 255 /\ f.pgn \in PGNs /\ f.msg \in Labels
  BY <1>2 DEF Announcements
<1>4. [i \in 1 .. f.packets |-> Blank] \in [1 .. f.packets -> Pieces]
  BY DEF Pieces
<1>5. s \in Records
  <2>1. [i \in 1 .. f.packets |-> Blank] \in Buffers
    BY <1>3, <1>4 DEF Buffers
  <2> QED BY <2>1, <1>3 DEF Records
<1>6. Backed(f.src, s, addr, messages, unannounced)
  <2>1. Known(f.src, f.packets, f.pgn, addr, messages, unannounced)
    BY <1>0, <1>1 DEF Honest
  <2>2. Cardinality({}) = 0
    BY FS_EmptySet
  <2>3. 0 < f.packets
    BY <1>3
  <2> HIDE DEF f
  <2> QED BY <2>1, <2>2, <2>3, <1>4 DEF Backed
<1>7. sessions' \in [Addresses -> {<<>>} \cup {<<r>> : r \in Records}] /\ SessionInv'
  <2> HIDE DEF s, f
  <2>1. \E r \in Records : <<s>> = <<r>> /\ Backed(f.src, r, addr, messages, unannounced)
    BY <1>5, <1>6
  <2> QED BY <2>1, <1>0, <1>1, <1>3, SessionSet
<1>8. LoopType' /\ FrameInv'
  BY <1>0, <1>1, <1>7, RestKeeps
<1> QED BY <1>1, <1>7, <1>8 DEF IInv

\* A packet nobody waits for.
LEMMA RecvSkipKeeps == IInv /\ RecvSkip => IInv'
<1> SUFFICES ASSUME IInv, RecvSkip PROVE IInv'
  OBVIOUS
<1>0. /\ raw # <<>> /\ raw' = Tail(raw)
      /\ UNCHANGED <<addr, up, cancelled>> /\ UNCHANGED sendVars /\ UNCHANGED loopVars
  BY DEF RecvSkip, Arrived
<1>1. Extends /\ SendType' /\ RawInv'
  BY <1>0, TakeKeeps
<1>2. LoopType' /\ SessionInv' /\ FrameInv'
  BY <1>0, <1>1, SenderKeepsLoop
<1> QED BY <1>1, <1>2 DEF IInv

\* What a session is with the packet that has come.
LEMMA FilledIsBacked ==
    ASSUME IInv, Arrived("DT"), Fits
    PROVE  /\ Head(raw).src \in Addresses /\ Filled \in Records
           /\ Known(Head(raw).src, Filled.packets, Filled.pgn, addr, messages, unannounced)
           /\ Filled.buf \in [1 .. Filled.packets -> Pieces]
           /\ Filled.seen \subseteq 1 .. Filled.packets
           /\ \A j \in Filled.seen : Placed(Head(raw).src, j, Filled.buf[j], addr, messages)
<1> DEFINE f == Head(raw)
<1>1. /\ f \in Packets /\ Placed(f.src, f.seq, f.piece, addr, messages)
  <2>1. raw \in Seq(Announcements \cup Packets) /\ raw # <<>> /\ f.type = "DT"
    BY DEF IInv, SendType, Arrived
  <2>2. /\ f \in Announcements \cup Packets /\ f = raw[1] /\ 1 \in DOMAIN raw
    BY <2>1, Shortened
  <2>3. Honest(f, addr, messages, unannounced)
    BY <2>2 DEF IInv, RawInv
  <2>4. f \in Packets
    BY <2>1, <2>2 DEF Announcements
  <2> QED BY <2>1, <2>3, <2>4 DEF Honest
<1>2. f.src \in Addresses /\ f.piece \in Pieces /\ f.seq \in 1 .. 255
  BY <1>1 DEF Packets
<1>3. PICK s \in Records : sessions[f.src] = <<s>>
  BY <1>2 DEF Fits, Session, IInv, LoopType
<1>4. Session[1] = s /\ Session # <<>>
  BY <1>3 DEF Session
<1>5. Backed(f.src, s, addr, messages, unannounced)
  BY <1>2, <1>3, <1>4 DEF IInv, SessionInv, Session
<1>6. f.seq \in 1 .. s.packets /\ f.seq \notin s.seen
  BY <1>4 DEF Fits
<1>7. s.packets \in 2 .. 255 /\ s.pgn \in PGNs /\ s.msg \in Labels
  BY DEF Records
<1>8. s.buf \in [1 .. s.packets -> Pieces] /\ s.seen \subseteq 1 .. s.packets
  BY <1>5 DEF Backed
<1> DEFINE b == [s.buf EXCEPT ![f.seq] = f.piece]
           n == s.seen \cup {f.seq}
<1>9. Filled = [packets |-> s.packets, pgn |-> s.pgn, msg |-> s.msg, buf |-> b, seen |-> n]
  <2>1. s = [packets |-> s.packets, pgn |-> s.pgn, msg |-> s.msg,
             buf |-> s.buf, seen |-> s.seen]
    BY DEF Records
  <2>2. Filled = [s EXCEPT !.buf[f.seq] = f.piece, !.seen = @ \cup {f.seq}]
    BY <1>4 DEF Filled
  <2> QED BY <2>1, <2>2
<1>10. b \in [1 .. s.packets -> Pieces] /\ b[f.seq] = f.piece
       /\ \A j \in 1 .. s.packets : j # f.seq => b[j] = s.buf[j]
  BY <1>2, <1>6, <1>8
<1>11. n \subseteq 1 .. s.packets /\ n \subseteq 1 .. 255
  <2>1. n \subseteq 1 .. s.packets
    BY <1>6, <1>8
  <2>2. 1 .. s.packets \subseteq 1 .. 255
    <3>1. PICK p \in 2 .. 255 : p = s.packets
      BY <1>7
    <3> QED BY <3>1
  <2> QED BY <2>1, <2>2
<1>12. \A j \in n : Placed(f.src, j, b[j], addr, messages)
  <2> SUFFICES ASSUME NEW j \in n PROVE Placed(f.src, j, b[j], addr, messages)
    OBVIOUS
  <2>1. CASE j = f.seq
    BY <2>1, <1>1, <1>10
  <2>2. CASE j # f.seq
    <3>1. j \in s.seen /\ j \in 1 .. s.packets
      BY <2>2, <1>8
    <3>2. b[j] = s.buf[j]
      BY <2>2, <3>1, <1>10
    <3> HIDE DEF b
    <3> QED BY <3>1, <3>2, <1>5 DEF Backed
  <2> QED BY <2>1, <2>2
<1>13. Known(f.src, s.packets, s.pgn, addr, messages, unannounced)
  BY <1>5 DEF Backed
<1> HIDE DEF b, n
<1>14. b \in Buffers
  <2>1. PICK p \in 2 .. 255 : p = s.packets
    BY <1>7
  <2>2. b \in [1 .. p -> Pieces]
    BY <1>10, <2>1
  <2> QED BY <2>2 DEF Buffers
<1>15. Filled \in Records
  BY <1>7, <1>9, <1>11, <1>14 DEF Records
<1> QED BY <1>2, <1>9, <1>10, <1>11, <1>12, <1>13, <1>15

\* A packet that completes nothing.
LEMMA RecvPacketKeeps == IInv /\ RecvPacket => IInv'
<1> SUFFICES ASSUME IInv, RecvPacket PROVE IInv'
  OBVIOUS
<1>0. /\ raw # <<>> /\ raw' = Tail(raw) /\ Arrived("DT") /\ Fits /\ ~Complete(Filled)
      /\ sessions' = [sessions EXCEPT ![Head(raw).src] = <<Filled>>]
      /\ UNCHANGED <<addr, up, cancelled>> /\ UNCHANGED sendVars
      /\ UNCHANGED <<loop, assembled, out, historyVars>>
  BY DEF RecvPacket, Arrived
<1>1. Extends /\ SendType' /\ RawInv'
  BY <1>0, TakeKeeps
<1>2. Backed(Head(raw).src, Filled, addr, messages, unannounced) /\ Filled \in Records
      /\ Head(raw).src \in Addresses
  <2>1. /\ Head(raw).src \in Addresses /\ Filled \in Records
        /\ Known(Head(raw).src, Filled.packets, Filled.pgn, addr, messages, unannounced)
        /\ Filled.buf \in [1 .. Filled.packets -> Pieces]
        /\ Filled.seen \subseteq 1 .. Filled.packets
        /\ \A j \in Filled.seen : Placed(Head(raw).src, j, Filled.buf[j], addr, messages)
    BY <1>0, FilledIsBacked
  <2>2. Filled.packets \in 2 .. 255
    BY <2>1 DEF Records
  <2>3. /\ Cardinality(Filled.seen) \in Nat /\ Cardinality(Filled.seen) <= Filled.packets
        /\ Cardinality(Filled.seen) # Filled.packets
    BY <2>1, <2>2, <1>0, SeenOf DEF Complete
  <2>4. Cardinality(Filled.seen) < Filled.packets
    <3>1. PICK p \in 2 .. 255 : p = Filled.packets
      BY <2>2
    <3>2. PICK c \in Nat : c = Cardinality(Filled.seen)
      BY <2>3
    <3> QED BY <3>1, <3>2, <2>3
  <2> QED BY <2>1, <2>4 DEF Backed
<1>3. sessions' \in [Addresses -> {<<>>} \cup {<<r>> : r \in Records}] /\ SessionInv'
  <2>1. \E r \in Records : <<Filled>> = <<r>> /\ Backed(Head(raw).src, r, addr, messages, unannounced)
    BY <1>2
  <2> QED BY <2>1, <1>0, <1>1, <1>2, SessionSet
<1>4. LoopType' /\ FrameInv'
  BY <1>0, <1>1, <1>3, RestKeeps
<1> QED BY <1>1, <1>3, <1>4 DEF IInv

\* The packet that completes a session: the frame it makes has every part.
LEMMA RecvLastPacketKeeps == IInv /\ RecvLastPacket => IInv'
<1> SUFFICES ASSUME IInv, RecvLastPacket PROVE IInv'
  OBVIOUS
<1> DEFINE f == [src |-> Head(raw).src, pgn |-> Filled.pgn, buf |-> Filled.buf]
<1>0. /\ raw # <<>> /\ raw' = Tail(raw) /\ Arrived("DT") /\ Fits /\ Complete(Filled)
      /\ sessions' = [sessions EXCEPT ![Head(raw).src] = <<>>]
      /\ UNCHANGED <<addr, up, cancelled>> /\ UNCHANGED sendVars /\ UNCHANGED <<out, historyVars>>
      /\ loop = "select"
      /\ \/ Filled.pgn \in Wanted /\ loop' = "emit" /\ assembled' = <<f>>
         \/ UNCHANGED <<loop, assembled>>
  BY DEF RecvLastPacket, Arrived, Matches
<1>1. Extends /\ SendType' /\ RawInv' /\ Addresses' = Addresses
  BY <1>0, TakeKeeps, SameExtends
<1>2. /\ Head(raw).src \in Addresses /\ Filled \in Records
      /\ Known(Head(raw).src, Filled.packets, Filled.pgn, addr, messages, unannounced)
      /\ Filled.buf \in [1 .. Filled.packets -> Pieces]
      /\ Filled.seen \subseteq 1 .. Filled.packets
      /\ \A j \in Filled.seen : Placed(Head(raw).src, j, Filled.buf[j], addr, messages)
  BY <1>0, FilledIsBacked
<1>3. Filled.packets \in 2 .. 255 /\ Filled.pgn \in PGNs /\ Filled.buf \in Buffers
  BY <1>2 DEF Records
<1>4. Filled.seen = 1 .. Filled.packets
  BY <1>0, <1>2, <1>3, SeenOf DEF Complete
<1>5. sessions' \in [Addresses -> {<<>>} \cup {<<r>> : r \in Records}] /\ SessionInv'
  BY <1>0, <1>1, <1>2, SessionSet
<1>6. f \in Delivered
  BY <1>2, <1>3 DEF Delivered
<1>7. Filled.pgn \in Wanted => Genuine(f, addr, messages, unannounced)
  <2>1. DOMAIN f.buf = 1 .. Filled.packets
    BY <1>2
  <2>2. Len(f.buf) = Filled.packets
    BY <1>2, <1>3, BufferLength
  <2> QED BY <2>1, <2>2, <1>2, <1>4 DEF Genuine
<1>8. /\ assembled' \in Seq(Delivered) /\ Len(assembled') <= 1
      /\ loop' \in {"new", "select", "emit", "exited"} /\ (loop' = "emit" => Len(assembled') = 1)
      /\ \A i \in DOMAIN assembled' : Genuine(assembled'[i], addr, messages, unannounced)
  <2> HIDE DEF f
  <2>1. CASE Filled.pgn \in Wanted /\ loop' = "emit" /\ assembled' = <<f>>
    <3>1. assembled' \in Seq(Delivered) /\ Len(assembled') = 1 /\ DOMAIN assembled' = {1}
          /\ assembled'[1] = f
      BY <2>1, <1>6
    <3> QED BY <3>1, <2>1, <1>7
  <2>2. CASE UNCHANGED <<loop, assembled>>
    BY <2>2 DEF IInv, LoopType, FrameInv
  <2> QED BY <2>1, <2>2, <1>0
<1>9. LoopType'
  <2>1. Delivered' = Delivered
    BY <1>1 DEF Delivered
  <2> QED BY <1>0, <1>1, <1>5, <1>8, <2>1 DEF IInv, LoopType
<1>10. FrameInv'
  <2>1. \A i \in DOMAIN emitted' : Genuine(emitted'[i], addr', messages', unannounced')
    BY <1>0, <1>1, BackingStays DEF IInv, FrameInv
  <2>2. \A i \in DOMAIN assembled' : Genuine(assembled'[i], addr', messages', unannounced')
    BY <1>8, <1>1, BackingStays
  <2> QED BY <2>1, <2>2 DEF FrameInv
<1> QED BY <1>1, <1>5, <1>9, <1>10 DEF IInv

\* A step of the goroutine or the consumer that leaves frames on the wire and sessions alone.
LEMMA OwnKeeps ==
    ASSUME IInv, UNCHANGED <<addr, up, raw, sessions, cancelled>>, UNCHANGED sendVars
    PROVE  Extends /\ SendType' /\ RawInv' /\ SessionInv' /\ Delivered' = Delivered
           /\ Addresses' = Addresses
<1>1. Extends /\ Addresses' = Addresses
  BY SameExtends
<1>2. Announcements' = Announcements /\ Packets' = Packets /\ Delivered' = Delivered
  BY <1>1 DEF Announcements, Packets, Delivered
<1>3. SendType'
  BY <1>2 DEF IInv, SendType, Number, Current
<1>4. RawInv'
  BY DEF IInv, RawInv
<1>5. SessionInv'
  BY <1>1 DEF IInv, SessionInv
<1> QED BY <1>1, <1>2, <1>3, <1>4, <1>5

\* The frame is put on the channel.
LEMMA EmitKeeps == IInv /\ Emit => IInv'
<1> SUFFICES ASSUME IInv, Emit PROVE IInv'
  OBVIOUS
<1>0. /\ loop = "emit" /\ Len(out) < OutDepth
      /\ out' = Append(out, assembled[1]) /\ emitted' = Append(emitted, assembled[1])
      /\ assembled' = <<>> /\ loop' = "select"
      /\ UNCHANGED <<addr, up, raw, sessions, cancelled>> /\ UNCHANGED sendVars
  BY DEF Emit, Deliver
<1>1. Extends /\ SendType' /\ RawInv' /\ SessionInv' /\ Delivered' = Delivered /\ Addresses' = Addresses
  BY <1>0, OwnKeeps
<1>2. /\ out \in Seq(Delivered) /\ emitted \in Seq(Delivered)
      /\ assembled[1] \in Delivered /\ 1 \in DOMAIN assembled /\ FrameInv
  <2>1. assembled \in Seq(Delivered) /\ Len(assembled) = 1
    BY <1>0 DEF IInv, LoopType
  <2>2. assembled[1] \in Delivered /\ 1 \in DOMAIN assembled
    BY <2>1, LenProperties, ElementOfSeq
  <2> QED BY <2>2 DEF IInv, LoopType
<1>3. /\ out' \in Seq(Delivered) /\ Len(out') = Len(out) + 1
      /\ emitted' \in Seq(Delivered) /\ DOMAIN emitted' = 1 .. Len(emitted) + 1
      /\ DOMAIN emitted = 1 .. Len(emitted) /\ emitted'[Len(emitted) + 1] = assembled[1]
      /\ \A i \in 1 .. Len(emitted) : emitted'[i] = emitted[i]
      /\ Len(emitted) \in Nat
  BY <1>0, <1>2, Appended
<1>4. Len(out') <= OutDepth
  <2>1. Len(out) \in Nat
    BY <1>2, LenProperties
  <2> QED BY <2>1, <1>0, <1>3, ConfigAssumption
<1>5. \A S : <<>> \in Seq(S) /\ Len(<<>>) = 0
  BY EmptySeq
<1>6. LoopType'
  BY <1>0, <1>1, <1>3, <1>4, <1>5 DEF IInv, LoopType
<1>7. \A i \in DOMAIN emitted' : Genuine(emitted'[i], addr', messages', unannounced')
  <2> SUFFICES ASSUME NEW i \in DOMAIN emitted'
               PROVE  Genuine(emitted'[i], addr', messages', unannounced')
    OBVIOUS
  <2>1. CASE i \in 1 .. Len(emitted)
    <3>1. Genuine(emitted[i], addr, messages, unannounced)
      BY <1>2, <1>3, <2>1 DEF FrameInv
    <3> QED BY <3>1, <1>3, <2>1, <1>1, BackingStays
  <2>2. CASE i = Len(emitted) + 1
    <3>1. Genuine(assembled[1], addr, messages, unannounced)
      BY <1>2 DEF FrameInv
    <3> QED BY <3>1, <1>3, <2>2, <1>1, BackingStays
  <2> QED BY <2>1, <2>2, <1>3
<1>8. FrameInv'
  BY <1>0, <1>7 DEF FrameInv
<1> QED BY <1>1, <1>6, <1>8 DEF IInv

\* The goroutine is started or ends.
LEMMA LoopMoves ==
    ASSUME IInv, UNCHANGED <<addr, up, raw, sessions, assembled, out, emitted, cancelled>>,
           UNCHANGED sendVars, loop' \in {"select", "exited"}
    PROVE  IInv'
<1>1. Extends /\ SendType' /\ RawInv' /\ SessionInv' /\ Delivered' = Delivered /\ Addresses' = Addresses
  BY OwnKeeps
<1>2. LoopType'
  BY <1>1 DEF IInv, LoopType
<1>3. FrameInv'
  BY <1>1 DEF IInv, FrameInv
<1> QED BY <1>1, <1>2, <1>3 DEF IInv

\* The consumer reads.
LEMMA ConsumeKeeps == IInv /\ Consume => IInv'
<1> SUFFICES ASSUME IInv, Consume PROVE IInv'
  OBVIOUS
<1>0. /\ out # <<>> /\ out' = Tail(out)
      /\ UNCHANGED <<addr, up, raw, sessions, loop, assembled, emitted, cancelled>> /\ UNCHANGED sendVars
  BY DEF Consume
<1>1. Extends /\ SendType' /\ RawInv' /\ SessionInv' /\ Delivered' = Delivered /\ Addresses' = Addresses
  BY <1>0, OwnKeeps
<1>2. out \in Seq(Delivered) /\ Len(out) <= OutDepth
  BY DEF IInv, LoopType
<1>3. out' \in Seq(Delivered) /\ Len(out') = Len(out) - 1 /\ Len(out) \in Nat
  BY <1>0, <1>2, Shortened
<1>4. Len(out') <= OutDepth
  BY <1>2, <1>3, ConfigAssumption
<1>5. LoopType'
  BY <1>0, <1>1, <1>3, <1>4 DEF IInv, LoopType
<1>6. FrameInv'
  BY <1>0, <1>1 DEF IInv, FrameInv
<1> QED BY <1>1, <1>5, <1>6 DEF IInv

-----------------------------------------------------------------------------
(* The theorems. *)

\* Every step keeps the invariant.
LEMMA NextInv == IInv /\ [Next]_vars => IInv'
<1> SUFFICES ASSUME IInv, [Next]_vars PROVE IInv'
  OBVIOUS
<1>1. ASSUME NEW g \in Senders, NEW m \in Messages[g], SendAnnounce(g, m) PROVE IInv'
  BY <1>1, AnnounceKeeps
<1>2. ASSUME NEW g \in Senders, SendPacket(g) PROVE IInv'
  BY <1>2, PacketKeeps
<1>3. ASSUME NEW g \in Senders, SendStops(g) PROVE IInv'
  <2>1. up' \in BOOLEAN /\ cancelled' \in BOOLEAN
    BY <1>3 DEF IInv, SendType, SendStops
  <2> QED BY <2>1, <1>3, StopKeeps DEF SendStops
<1>4. CASE Close \/ CtxCancel
  <2>1. up' \in BOOLEAN /\ cancelled' \in BOOLEAN
    BY <1>4 DEF IInv, SendType, Close, CtxCancel
  <2> QED BY <2>1, <1>4, StopKeeps DEF Close, CtxCancel
<1>5. CASE SubscribeTP \/ RxCancelled \/ RxClosed
  BY <1>5, LoopMoves DEF SubscribeTP, RxCancelled, RxClosed
<1>6. CASE RecvAnnounce \/ RecvSkip \/ RecvPacket \/ RecvLastPacket
  BY <1>6, RecvAnnounceKeeps, RecvSkipKeeps, RecvPacketKeeps, RecvLastPacketKeeps
<1>7. CASE Emit \/ Consume
  BY <1>7, EmitKeeps, ConsumeKeeps
<1>8. CASE UNCHANGED vars
  <2>1. up' \in BOOLEAN /\ cancelled' \in BOOLEAN
    BY <1>8 DEF IInv, SendType, vars
  <2> QED BY <2>1, <1>8, StopKeeps DEF vars
<1> QED BY <1>1, <1>2, <1>3, <1>4, <1>5, <1>6, <1>7, <1>8 DEF Next

\* What is on the wire, in a session or delivered came from a sender (the inductive
\* invariant of SendTP and SubscribeTP).
THEOREM TransferInvariant == Spec => []IInv
<1> QED BY InitInv, NextInv, PTL DEF Spec

\* Every delivered frame is of a wanted, announced group and has each part from a
\* sender that put it at that place (tp.go:230-259).
THEOREM PiecesStayInPlace == Spec => []PiecesInPlace
<1>1. IInv => PiecesInPlace
  <2> SUFFICES ASSUME IInv, NEW i \in DOMAIN emitted
               PROVE  /\ emitted[i].pgn \in Wanted /\ Announced(emitted[i])
                      /\ \A j \in DOMAIN emitted[i].buf : \E g \in Senders :
                            /\ addr[g] = emitted[i].src
                            /\ \E n \in DOMAIN messages[g] : emitted[i].buf[j] = Piece(g, n, j)
    BY DEF PiecesInPlace
  <2>1. Genuine(emitted[i], addr, messages, unannounced)
    BY DEF IInv, FrameInv
  <2> QED BY <2>1 DEF Genuine, Known, Placed, Announced
<1> QED BY <1>1, TransferInvariant, PTL

\* The types, and that a session is short of a packet as long as it lasts.
THEOREM TransfersTypeCorrect == Spec => []TypeOK
<1>1. IInv => TypeOK
  <2> SUFFICES ASSUME IInv PROVE TypeOK
    OBVIOUS
  <2>1. \A k \in DOMAIN raw : raw[k].src \in Addresses /\ raw[k].type \in {"BAM", "DT"}
    <3> SUFFICES ASSUME NEW k \in DOMAIN raw
                 PROVE  raw[k].src \in Addresses /\ raw[k].type \in {"BAM", "DT"}
      OBVIOUS
    <3>1. raw[k] \in Announcements \cup Packets
      <4>1. raw \in Seq(Announcements \cup Packets)
        BY DEF IInv, SendType
      <4> QED BY <4>1, ElementOfSeq, LenProperties
    <3> QED BY <3>1 DEF Announcements, Packets
  <2>2. \A a \in Addresses : sessions[a] # <<>> =>
           /\ sessions[a][1].seen \subseteq 1 .. sessions[a][1].packets
           /\ Cardinality(sessions[a][1].seen) < sessions[a][1].packets
    BY DEF IInv, SessionInv, Backed
  <2> QED BY <2>1, <2>2 DEF IInv, SendType, LoopType, TypeOK
<1> QED BY <1>1, TransferInvariant, PTL
-----------------------------------------------------------------------------
(* Whole, once and in order: the invariant of a sender whose address nobody *)
(* else uses.  The frames on the raw subscription go by message number, so   *)
(* that a packet of another message than the session's has lost its          *)
(* announcement.                                                             *)

\* Only g sends from its address.
Sole(g) == \A h \in Senders : addr[h] = addr[g] => h = g
Own(g, f) == f.src = addr[g]
\* The number of the message that f, a frame of g, belongs to.
MessageOf(f) == IF f.type = "BAM" THEN f.msg[2] ELSE f.piece[2]
Loud(g, n) == <<g, n>> \notin unannounced

\* What a frame of g says is so.
Says(g, f) ==
    /\ MessageOf(f) \in DOMAIN messages[g]
    /\ f.type = "BAM" =>
          /\ f.msg = <<g, MessageOf(f)>> /\ Loud(g, MessageOf(f))
          /\ messages[g][MessageOf(f)] = [packets |-> f.packets, pgn |-> f.pgn]
    /\ f.type = "DT" => f.piece = Piece(g, MessageOf(f), f.seq)

\* Relative to message n of g: its announcement has been read, nothing of an earlier one is
\* still to come, and ...
Ahead(g, n) ==
    \A i \in DOMAIN raw : Own(g, raw[i]) =>
        /\ n <= MessageOf(raw[i])
        /\ raw[i].type = "BAM" => n < MessageOf(raw[i])
\* ... every later one that is announced is still to come;
Covered(g, n) ==
    \A k \in DOMAIN messages[g] : n < k /\ Loud(g, k) =>
        \E i \in DOMAIN raw : Own(g, raw[i]) /\ raw[i].type = "BAM" /\ MessageOf(raw[i]) = k
\* and neither n nor a later one has been delivered.
Past(g, n) == \A i \in DOMAIN received[g] : received[g][i] < n

\* In a message n of g that is (re)assembled, part j is its own or of a message whose
\* announcement was lost.
Part(g, n, j, piece) ==
    \E k \in DOMAIN messages[g] : piece = Piece(g, k, j) /\ (k = n \/ ~Loud(g, k))

WireInv(g) ==
    \A i \in DOMAIN raw : Own(g, raw[i]) =>
        /\ Says(g, raw[i])
        /\ raw[i].type = "BAM" => Covered(g, MessageOf(raw[i])) /\ Past(g, MessageOf(raw[i]))
OrderInv(g) ==
    \A i, j \in DOMAIN raw : i < j /\ Own(g, raw[i]) /\ Own(g, raw[j]) =>
        /\ MessageOf(raw[i]) <= MessageOf(raw[j])
        /\ raw[j].type = "BAM" => MessageOf(raw[i]) < MessageOf(raw[j])
Opened(g, s) ==
    /\ s.msg[2] \in DOMAIN messages[g]
    /\ messages[g][s.msg[2]] = [packets |-> s.packets, pgn |-> s.pgn]
    /\ \A j \in s.seen : Part(g, s.msg[2], j, s.buf[j])
    /\ Ahead(g, s.msg[2]) /\ Covered(g, s.msg[2]) /\ Past(g, s.msg[2])
OpenInv(g) == \A s : sessions[addr[g]] = <<s>> => Opened(g, s)
Made(g, f) ==
    /\ sessions[addr[g]] = <<>>
    /\ \E n \in DOMAIN messages[g] :
          /\ messages[g][n] = [packets |-> Len(f.buf), pgn |-> f.pgn]
          /\ \A j \in DOMAIN f.buf : Part(g, n, j, f.buf[j])
          /\ Ahead(g, n) /\ Past(g, n)
MadeInv(g) == \A f : loop = "emit" /\ assembled[1] = f /\ Own(g, f) => Made(g, f)
DoneInv(g) ==
    received[g] \in Seq(Nat) /\ \A i \in DOMAIN received[g] : received[g][i] \in DOMAIN messages[g]

SourceInv(g) == WireInv(g) /\ OrderInv(g) /\ OpenInv(g) /\ MadeInv(g)
ChannelInv ==
    /\ received \in [Senders -> Seq(Nat)]
    /\ \A g \in Senders : Sole(g) => SourceInv(g) /\ DoneInv(g)

-----------------------------------------------------------------------------
(* The frames on the raw subscription. *)

\* The numbers of the messages sent, the frames on the wire and their types.
LEMMA Facts ==
    ASSUME IInv, NEW g \in Senders
    PROVE  /\ Number(g) \in Nat /\ DOMAIN messages[g] = 1 .. Number(g)
           /\ raw \in Seq(Announcements \cup Packets)
           /\ Len(raw) \in Nat /\ DOMAIN raw = 1 .. Len(raw)
           /\ \A i \in DOMAIN raw : raw[i].type \in {"BAM", "DT"}
<1>1. messages[g] \in Seq([packets : 2 .. 255, pgn : PGNs]) /\ raw \in Seq(Announcements \cup Packets)
  BY DEF IInv, SendType
<1>2. Number(g) \in Nat /\ DOMAIN messages[g] = 1 .. Number(g)
  BY <1>1, LenProperties DEF Number
<1>3. Len(raw) \in Nat /\ DOMAIN raw = 1 .. Len(raw)
  BY <1>1, LenProperties
<1>4. \A i \in DOMAIN raw : raw[i].type \in {"BAM", "DT"}
  <2> SUFFICES ASSUME NEW i \in DOMAIN raw PROVE raw[i].type \in {"BAM", "DT"}
    OBVIOUS
  <2>1. raw[i] \in Announcements \cup Packets
    BY <1>1, <1>3, ElementOfSeq
  <2> QED BY <2>1 DEF Announcements, Packets
<1> QED BY <1>1, <1>2, <1>3, <1>4

\* What a step leaves true of every message of g.
Keeping(g) ==
    /\ addr' = addr
    /\ \A n \in DOMAIN messages[g] :
          /\ n \in DOMAIN messages'[g] /\ messages'[g][n] = messages[g][n]
          /\ Ahead(g, n) => Ahead(g, n)'
          /\ Past(g, n) => Past(g, n)'
          /\ \A j, piece : Part(g, n, j, piece) => Part(g, n, j, piece)'

\* A session keeps what the step keeps.
LEMMA OpenedStays ==
    ASSUME NEW g \in Senders, Keeping(g), NEW s, Opened(g, s), Covered(g, s.msg[2])'
    PROVE  Opened(g, s)'
BY DEF Keeping, Opened
\* So does a frame on its way to the consumer.
LEMMA MadeStays ==
    ASSUME NEW g \in Senders, Keeping(g), NEW f, Made(g, f), sessions'[addr[g]] = <<>>
    PROVE  Made(g, f)'
BY DEF Keeping, Made

\* What a sender does, for g: nothing; a message more, announced by m or not; a packet m
\* of its current message.
Puts(m) == m \in Announcements \cup Packets /\ raw' = Append(raw, m)
Sends(g, m) ==
    /\ addr' = addr /\ received' = received
    /\ \A n \in DOMAIN messages[g] :
          /\ n \in DOMAIN messages'[g] /\ messages'[g][n] = messages[g][n]
          /\ Loud(g, n)' <=> Loud(g, n)
    /\ \/ raw' = raw
       \/ /\ Puts(m)
          /\ Own(g, m) => /\ Says(g, m)' /\ Number(g) <= MessageOf(m)
                          /\ m.type = "BAM" => Number(g) < MessageOf(m)
    /\ \A k \in DOMAIN messages'[g] : k \notin DOMAIN messages[g] =>
          /\ k = Number(g) + 1
          /\ Loud(g, k)' => Puts(m) /\ Own(g, m) /\ m.type = "BAM" /\ MessageOf(m) = k

\* Where the frames of the raw subscription are afterwards.
LEMMA Grown ==
    ASSUME IInv, NEW g \in Senders, NEW m, Sends(g, m)
    PROVE  /\ \A i \in DOMAIN raw : i \in DOMAIN raw' /\ raw'[i] = raw[i]
           /\ \A i \in DOMAIN raw' : i \in DOMAIN raw \/
                 (Puts(m) /\ i = Len(raw) + 1 /\ raw'[i] = m)
           /\ Puts(m) => raw' # raw /\ Len(raw) + 1 \in DOMAIN raw' /\ raw'[Len(raw) + 1] = m
<1>1. raw \in Seq(Announcements \cup Packets) /\ Len(raw) \in Nat /\ DOMAIN raw = 1 .. Len(raw)
  BY Facts
<1>2. ASSUME Puts(m)
      PROVE  /\ DOMAIN raw' = 1 .. Len(raw) + 1 /\ raw'[Len(raw) + 1] = m
             /\ \A i \in 1 .. Len(raw) : raw'[i] = raw[i]
             /\ raw' # raw
  <2>1. /\ DOMAIN raw' = 1 .. Len(raw) + 1 /\ raw'[Len(raw) + 1] = m
        /\ \A i \in 1 .. Len(raw) : raw'[i] = raw[i]
        /\ Len(raw') = Len(raw) + 1
    BY <1>1, <1>2, Appended DEF Puts
  <2> QED BY <1>1, <2>1
<1>3. CASE raw' = raw
  BY <1>2, <1>3
<1>4. CASE Puts(m)
  BY <1>1, <1>2, <1>4
<1> QED BY <1>3, <1>4 DEF Sends

\* Such a step keeps what is true of every message of g ...
LEMMA SendsKeeping ==
    ASSUME IInv, NEW g \in Senders, NEW m, Sends(g, m)
    PROVE  /\ Keeping(g)
           /\ \A n \in DOMAIN messages[g] : Covered(g, n) => Covered(g, n)'
<1> USE DEF Own
<1>0. addr' = addr /\ received' = received
  BY DEF Sends
<1>1. Number(g) \in Nat /\ DOMAIN messages[g] = 1 .. Number(g)
  BY Facts
<1>2. ASSUME NEW n \in DOMAIN messages[g]
      PROVE  n \in DOMAIN messages'[g] /\ messages'[g][n] = messages[g][n] /\ (Loud(g, n)' <=> Loud(g, n))
  BY <1>2 DEF Sends
<1>3. ASSUME NEW n \in DOMAIN messages[g], Ahead(g, n) PROVE Ahead(g, n)'
  <2> SUFFICES ASSUME NEW i \in DOMAIN raw', Own(g, raw'[i])
               PROVE  n <= MessageOf(raw'[i]) /\ (raw'[i].type = "BAM" => n < MessageOf(raw'[i]))
    BY <1>0 DEF Ahead, MessageOf
  <2>1. CASE i \in DOMAIN raw
    BY <2>1, <1>0, <1>3, Grown DEF Ahead
  <2>2. CASE Puts(m) /\ raw'[i] = m
    <3>2. Number(g) <= MessageOf(m) /\ (m.type = "BAM" => Number(g) < MessageOf(m)) /\ Says(g, m)'
      BY <2>2, Grown DEF Sends
    <3>3. MessageOf(m) \in DOMAIN messages'[g]
      BY <3>2 DEF Says, MessageOf
    <3>4. MessageOf(m) \in Nat
      BY <3>3, <1>1 DEF Sends
    <3> QED BY <3>2, <3>4, <2>2, <1>1
  <2> QED BY <2>1, <2>2, Grown
<1>4. \A n : Past(g, n) => Past(g, n)'
  BY <1>0 DEF Past
<1>5. ASSUME NEW n, NEW j, NEW piece, Part(g, n, j, piece) PROVE Part(g, n, j, piece)'
  BY <1>2, <1>5 DEF Part
<1>6. ASSUME NEW n \in DOMAIN messages[g], Covered(g, n) PROVE Covered(g, n)'
  <2> SUFFICES ASSUME NEW k \in DOMAIN messages'[g], n < k, Loud(g, k)'
               PROVE  \E i \in DOMAIN raw' : /\ Own(g, raw'[i]) /\ raw'[i].type = "BAM"
                                             /\ MessageOf(raw'[i]) = k
    BY <1>0 DEF Covered, MessageOf
  <2>1. CASE k \in DOMAIN messages[g]
    <3>1. PICK i \in DOMAIN raw : Own(g, raw[i]) /\ raw[i].type = "BAM" /\ MessageOf(raw[i]) = k
      BY <2>1, <1>2, <1>6 DEF Covered
    <3> QED BY <3>1, <1>0, Grown
  <2>2. CASE k \notin DOMAIN messages[g]
    <3>1. Puts(m) /\ Own(g, m) /\ m.type = "BAM" /\ MessageOf(m) = k
      BY <2>2 DEF Sends
    <3> QED BY <3>1, <1>0, Grown
  <2> QED BY <2>1, <2>2
<1> HIDE DEF Own
<1> QED BY <1>0, <1>2, <1>3, <1>4, <1>5, <1>6 DEF Keeping

\* ... and the order of its frames.
LEMMA SendsKeepsWire ==
    ASSUME IInv, NEW g \in Senders, NEW m, Sends(g, m), WireInv(g), OrderInv(g), DoneInv(g)
    PROVE  WireInv(g)' /\ OrderInv(g)' /\ DoneInv(g)'
<1>0. addr' = addr /\ received' = received
  BY DEF Sends
<1>1. /\ Number(g) \in Nat /\ DOMAIN messages[g] = 1 .. Number(g)
      /\ Len(raw) \in Nat /\ DOMAIN raw = 1 .. Len(raw)
  BY Facts
<1>2. ASSUME NEW n \in DOMAIN messages[g]
      PROVE  n \in DOMAIN messages'[g] /\ messages'[g][n] = messages[g][n] /\ (Loud(g, n)' <=> Loud(g, n))
  BY <1>2 DEF Sends
<1>3. ASSUME Puts(m), Own(g, m)
      PROVE  /\ Says(g, m)' /\ Number(g) <= MessageOf(m) /\ MessageOf(m) \in Nat
             /\ m.type = "BAM" => Number(g) < MessageOf(m)
  <2>2. Says(g, m)' /\ Number(g) <= MessageOf(m) /\ (m.type = "BAM" => Number(g) < MessageOf(m))
    BY <1>3, Grown DEF Sends
  <2>3. MessageOf(m) \in DOMAIN messages'[g]
    BY <2>2 DEF Says, MessageOf
  <2>4. MessageOf(m) \in Nat
    BY <2>3, <1>1 DEF Sends
  <2> QED BY <2>2, <2>4
<1>4. \A f : Own(g, f)' <=> Own(g, f)
  BY <1>0 DEF Own
<1>5. DoneInv(g)'
  BY <1>0, <1>2 DEF DoneInv
<1>6. WireInv(g)'
  <2> SUFFICES ASSUME NEW i \in DOMAIN raw', NEW f, f = raw'[i], Own(g, f)
               PROVE  /\ Says(g, f)'
                      /\ f.type = "BAM" => Covered(g, MessageOf(f))' /\ Past(g, MessageOf(f))'
    BY <1>4 DEF WireInv, Says, Covered, Past, MessageOf, Own, Loud
  <2>1. CASE i \in DOMAIN raw
    <3>1. /\ Says(g, f)
          /\ f.type = "BAM" => Covered(g, MessageOf(f)) /\ Past(g, MessageOf(f))
      BY <2>1, Grown DEF WireInv
    <3>2. MessageOf(f) \in DOMAIN messages[g]
      BY <3>1 DEF Says
    <3>3. Says(g, f)'
      BY <3>1, <3>2, <1>2 DEF Says, MessageOf
    <3>4. Past(g, MessageOf(f)) => Past(g, MessageOf(f))'
      BY <1>0 DEF Past, MessageOf
    <3>5. \A n \in DOMAIN messages[g] : Covered(g, n) => Covered(g, n)'
      BY SendsKeeping
    <3>6. Covered(g, MessageOf(f)) => Covered(g, MessageOf(f))'
      BY <3>2, <3>5 DEF MessageOf
    <3> QED BY <3>1, <3>3, <3>4, <3>6
  <2>2. CASE Puts(m) /\ f = m
    <3>1. Says(g, m)' /\ MessageOf(m) \in Nat /\ (m.type = "BAM" => Number(g) < MessageOf(m))
      BY <2>2, <1>3
    <3>2. ASSUME m.type = "BAM" PROVE Past(g, MessageOf(m))'
      <4> SUFFICES ASSUME NEW k \in DOMAIN received[g] PROVE received[g][k] < MessageOf(m)
        BY <1>0 DEF Past, MessageOf
      <4>1. received[g][k] \in 1 .. Number(g)
        BY <1>1 DEF DoneInv
      <4> QED BY <4>1, <3>1, <3>2, <1>1
    <3>3. ASSUME m.type = "BAM" PROVE Covered(g, MessageOf(m))'
      <4>1. \A k \in DOMAIN messages'[g] : ~(MessageOf(m) < k)
        <5> SUFFICES ASSUME NEW k \in DOMAIN messages'[g], MessageOf(m) < k PROVE FALSE
          OBVIOUS
        <5>1. k \in 1 .. Number(g) \/ k = Number(g) + 1
          BY <1>1 DEF Sends
        <5> QED BY <5>1, <3>1, <3>3, <1>1
      <4> QED BY <4>1 DEF Covered, MessageOf
    <3> QED BY <2>2, <3>1, <3>2, <3>3
  <2> QED BY <2>1, <2>2, Grown
<1>7. OrderInv(g)'
  <2> SUFFICES ASSUME NEW i \in DOMAIN raw', NEW j \in DOMAIN raw', i < j,
                      Own(g, raw'[i]), Own(g, raw'[j])
               PROVE  /\ MessageOf(raw'[i]) <= MessageOf(raw'[j])
                      /\ raw'[j].type = "BAM" => MessageOf(raw'[i]) < MessageOf(raw'[j])
    BY <1>4 DEF OrderInv, MessageOf, Own
  <2>1. CASE i \in DOMAIN raw /\ j \in DOMAIN raw
    BY <2>1, Grown DEF OrderInv
  <2>2. CASE i \in DOMAIN raw /\ Puts(m) /\ raw'[j] = m
    <3>1. Says(g, raw[i]) /\ raw'[i] = raw[i]
      BY <2>2, Grown DEF WireInv
    <3>2. MessageOf(raw'[i]) \in 1 .. Number(g)
      BY <3>1, <1>1 DEF Says
    <3> QED BY <3>2, <2>2, <1>1, <1>3
  <2>3. CASE i \notin DOMAIN raw
    <3>1. i = Len(raw) + 1 /\ (j \in 1 .. Len(raw) \/ j = Len(raw) + 1)
      BY <2>3, <1>1, Grown
    <3> QED BY <3>1, <1>1
  <2> QED BY <2>1, <2>2, <2>3, Grown
<1> QED BY <1>5, <1>6, <1>7

\* So all of g's invariant survives what senders do.
LEMMA SendsKeep ==
    ASSUME IInv, NEW g \in Senders, NEW m, Sends(g, m), SourceInv(g), DoneInv(g),
           UNCHANGED sessions, loop' = "emit" => loop = "emit", UNCHANGED assembled
    PROVE  SourceInv(g)' /\ DoneInv(g)'
<1>1. WireInv(g)' /\ OrderInv(g)' /\ DoneInv(g)'
  BY SendsKeepsWire DEF SourceInv
<1>2. Keeping(g) /\ \A n \in DOMAIN messages[g] : Covered(g, n) => Covered(g, n)'
  BY SendsKeeping
<1>3. OpenInv(g)'
  <2> SUFFICES ASSUME NEW s, sessions[addr[g]] = <<s>> PROVE Opened(g, s)'
    BY <1>2 DEF OpenInv, Keeping
  <2>1. Opened(g, s)
    BY DEF SourceInv, OpenInv
  <2>2. Covered(g, s.msg[2])'
    <3>1. s.msg[2] \in DOMAIN messages[g] /\ Covered(g, s.msg[2])
      BY <2>1 DEF Opened
    <3> QED BY <3>1, <1>2
  <2> QED BY <2>1, <2>2, <1>2, OpenedStays
<1>4. MadeInv(g)'
  <2> SUFFICES ASSUME NEW f, assembled[1] = f, loop = "emit", Own(g, f) PROVE Made(g, f)'
    BY <1>2 DEF MadeInv, Keeping, Own
  <2>1. Made(g, f)
    BY DEF SourceInv, MadeInv
  <2>2. sessions'[addr[g]] = <<>>
    BY <2>1 DEF Made
  <2> QED BY <2>1, <2>2, <1>2, MadeStays
<1> QED BY <1>1, <1>3, <1>4 DEF SourceInv

\* An announcement, by g itself or by another.
LEMMA AnnounceSends ==
    ASSUME IInv, NEW h \in Senders, NEW m \in Messages[h], SendAnnounce(h, m),
           NEW g \in Senders, Sole(g)
    PROVE  \E f : Sends(g, f)
<1>n. PICK n \in Nat : n = Number(h)
  BY Facts
<1>f. PICK f : f = BAM(addr[h], m, <<h, n + 1>>)
  OBVIOUS
<1>t. messages \in [Senders -> Seq([packets : 2 .. 255, pgn : PGNs])]
  BY DEF IInv, SendType
<1>0. /\ UNCHANGED <<addr, received>>
      /\ messages' = [messages EXCEPT ![h] = Append(@, m)]
      /\ \/ raw' = Append(raw, f) /\ unannounced' = unannounced
         \/ raw' = raw /\ unannounced' = unannounced \cup {<<h, n + 1>>}
  BY <1>n, <1>f DEF SendAnnounce, Reaches, Lost
<1>1. m \in [packets : 2 .. 255, pgn : PGNs]
  BY ConfigAssumption
<1>2. DOMAIN messages[h] = 1 .. n /\ Number(g) \in Nat /\ DOMAIN messages[g] = 1 .. Number(g)
  BY <1>n, Facts
<1>3. /\ messages[h] \in Seq([packets : 2 .. 255, pgn : PGNs]) /\ messages'[h] = Append(messages[h], m)
      /\ \A k \in Senders : k # h => messages'[k] = messages[k]
  BY <1>0, <1>t
<1>4. /\ DOMAIN messages'[h] = 1 .. n + 1 /\ messages'[h][n + 1] = m
      /\ \A k \in 1 .. n : messages'[h][k] = messages[h][k]
  BY <1>1, <1>3, <1>n, Appended DEF Number
<1>5. /\ f \in Announcements /\ f.type = "BAM" /\ f.msg = <<h, n + 1>> /\ f.src = addr[h]
      /\ [packets |-> f.packets, pgn |-> f.pgn] = m /\ MessageOf(f) = n + 1
  <2>1. <<h, n + 1>> \in Labels /\ addr[h] \in Addresses
    BY <1>2 DEF Labels, Addresses
  <2> QED BY <1>1, <1>f, <2>1 DEF BAM, Announcements, MessageOf
<1>6. ASSUME NEW k \in DOMAIN messages[g]
      PROVE  k \in DOMAIN messages'[g] /\ messages'[g][k] = messages[g][k] /\ (Loud(g, k)' <=> Loud(g, k))
  <2>1. k \in DOMAIN messages'[g] /\ messages'[g][k] = messages[g][k]
    <3>1. CASE g = h
      <4>1. k \in 1 .. n /\ k \in 1 .. n + 1
        BY <3>1, <1>2
      <4> QED BY <4>1, <3>1, <1>4
    <3> QED BY <3>1, <1>3
  <2>2. <<g, k>> # <<h, n + 1>>
    BY <1>2, <1>n
  <2> QED BY <2>1, <2>2, <1>0 DEF Loud
<1>7. CASE g = h
  <2>1. \A k \in DOMAIN messages'[g] : k \notin DOMAIN messages[g] => k = n + 1
    BY <1>2, <1>4, <1>7
  <2>2. CASE raw' = Append(raw, f) /\ unannounced' = unannounced
    <3>1. Puts(f) /\ Own(g, f)
      BY <2>2, <1>5, <1>7 DEF Puts, Own
    <3>2. <<g, n + 1>> \notin unannounced
      <4>1. \A k \in Nat : <<g, k>> \in unannounced => k <= n
        BY <1>7, <1>n DEF IInv, SendType
      <4> QED BY <4>1
    <3>3. n + 1 \in DOMAIN messages'[g]
      BY <1>2, <1>4, <1>7
    <3>4. Says(g, f)'
      <4>1. f.msg = <<g, n + 1>> /\ messages'[g][n + 1] = [packets |-> f.packets, pgn |-> f.pgn]
        BY <1>4, <1>5, <1>7
      <4>2. f.type # "DT"
        BY <1>5
      <4>3. MessageOf(f)' = n + 1
        BY <1>5 DEF MessageOf
      <4>4. <<g, n + 1>> \notin unannounced'
        BY <2>2, <3>2
      <4> QED BY <3>3, <4>1, <4>2, <4>3, <4>4 DEF Says, Loud
    <3>5. Number(g) < MessageOf(f) /\ Number(g) <= MessageOf(f)
      BY <1>5, <1>7, <1>n
    <3>6. n + 1 = Number(g) + 1
      BY <1>7, <1>n
    <3> QED BY <3>1, <3>4, <3>5, <3>6, <2>1, <1>0, <1>5, <1>6 DEF Sends
  <2>3. CASE raw' = raw /\ unannounced' = unannounced \cup {<<h, n + 1>>}
    <3>1. \A k \in DOMAIN messages'[g] : k \notin DOMAIN messages[g] => k = Number(g) + 1 /\ ~Loud(g, k)'
      BY <2>1, <2>3, <1>7, <1>n DEF Loud
    <3> QED BY <3>1, <2>3, <1>0, <1>6 DEF Sends
  <2> QED BY <2>2, <2>3, <1>0
<1>8. CASE g # h
  <2>1. ~Own(g, f)
    BY <1>5, <1>8 DEF Sole, Own
  <2>2. raw' = raw \/ Puts(f)
    BY <1>0, <1>5 DEF Puts
  <2>3. \A k \in DOMAIN messages'[g] : k \in DOMAIN messages[g]
    BY <1>3, <1>8
  <2>4. UNCHANGED <<addr, received>>
    BY <1>0
  <2> QED BY <2>1, <2>2, <2>3, <2>4, <1>6 DEF Sends
<1> QED BY <1>7, <1>8

\* A packet.
LEMMA PacketSends ==
    ASSUME IInv, NEW h \in Senders, SendPacket(h), NEW g \in Senders, Sole(g)
    PROVE  \E f : Sends(g, f)
<1>1. /\ Number(h) \in Nat /\ Number(h) > 0 /\ at[h] \in 1 .. 255
      /\ DOMAIN messages[h] = 1 .. Number(h) /\ at[h] > 0
  <2>1. at[h] \in 0 .. 255 /\ at[h] > 0 /\ Number(h) > 0
    BY DEF IInv, SendType, SendPacket
  <2> QED BY <2>1, Facts
<1>n. PICK n \in Nat : n = Number(h)
  BY <1>1
<1>i. PICK i \in 1 .. 255 : i = at[h]
  BY <1>1
<1>f. PICK f : f = DT(addr[h], i, Piece(h, n, i))
  OBVIOUS
<1>0. /\ UNCHANGED <<addr, received, messages, unannounced>>
      /\ raw' = raw \/ raw' = Append(raw, f)
  BY <1>n, <1>i, <1>f DEF SendPacket, Reaches, Lost, Seq1
<1>2. f \in Packets
  <2>1. addr[h] \in Addresses
    BY DEF Addresses
  <2>2. Piece(h, n, i) \in Pieces
    <3>1. \A j, k \in Nat : Piece(h, j, k) \in Pieces
      BY DEF Piece, Pieces
    <3>2. i \in Nat
      OBVIOUS
    <3> HIDE DEF Piece
    <3> QED BY <3>1, <3>2
  <2> HIDE DEF Piece
  <2> QED BY <2>1, <2>2, <1>f DEF DT, Packets
<1>3. f.type = "DT" /\ f.src = addr[h] /\ f.piece = Piece(h, n, f.seq) /\ MessageOf(f) = n
  BY <1>f DEF DT, MessageOf, Piece
<1>4. raw' = raw \/ Puts(f)
  BY <1>0, <1>2 DEF Puts
<1>5. n \in DOMAIN messages[h]
  BY <1>1, <1>n
<1>6. Own(g, f) => Says(g, f)' /\ Number(g) <= MessageOf(f) /\ f.type # "BAM"
  <2> SUFFICES ASSUME Own(g, f)
               PROVE  Says(g, f)' /\ Number(g) <= MessageOf(f) /\ f.type # "BAM"
    OBVIOUS
  <2>1. g = h
    BY <1>3 DEF Own, Sole
  <2>2. Number(g) <= MessageOf(f)
    BY <2>1, <1>3, <1>n
  <2>3. MessageOf(f)' = n
    BY <1>3 DEF MessageOf
  <2>4. n \in DOMAIN messages'[g] /\ f.type # "BAM" /\ f.piece = Piece(g, n, f.seq)
    BY <2>1, <1>0, <1>3, <1>5
  <2> QED BY <2>2, <2>3, <2>4 DEF Says
<1>7. \A k : Loud(g, k)' <=> Loud(g, k)
  BY <1>0 DEF Loud
<1> QED BY <1>0, <1>4, <1>6, <1>7 DEF Sends

\* Steps that send nothing.
LEMMA NothingSends ==
    ASSUME NEW g \in Senders, UNCHANGED <<addr, raw, messages, unannounced, received>>
    PROVE  \E f : Sends(g, f)
BY DEF Sends, Loud

-----------------------------------------------------------------------------
(* The goroutine takes a frame. *)

\* What is left on the raw subscription.
LEMMA Cut ==
    ASSUME IInv, raw # <<>>, raw' = Tail(raw)
    PROVE  /\ 1 \in DOMAIN raw /\ Head(raw) = raw[1]
           /\ \A i \in DOMAIN raw' : i + 1 \in DOMAIN raw /\ raw'[i] = raw[i + 1] /\ i \in Nat /\ 1 < i + 1
           /\ \A i \in DOMAIN raw : i # 1 => i - 1 \in DOMAIN raw' /\ raw'[i - 1] = raw[i] /\ 1 < i
<1>1. raw \in Seq(Announcements \cup Packets)
  BY DEF IInv, SendType
<1>2. /\ Len(raw) \in Nat /\ Len(raw) > 0
      /\ DOMAIN raw = 1 .. Len(raw) /\ DOMAIN raw' = 1 .. Len(raw) - 1
      /\ Head(raw) = raw[1]
      /\ \A i \in 1 .. Len(raw) - 1 : raw'[i] = raw[i + 1]
  BY <1>1, Shortened
<1>3. ASSUME NEW i \in DOMAIN raw'
      PROVE  i + 1 \in DOMAIN raw /\ raw'[i] = raw[i + 1] /\ i \in Nat /\ 1 < i + 1
  BY <1>2
<1>4. ASSUME NEW i \in DOMAIN raw, i # 1
      PROVE  i - 1 \in DOMAIN raw' /\ raw'[i - 1] = raw[i] /\ 1 < i
  <2>1. i - 1 \in 1 .. Len(raw) - 1 /\ i - 1 + 1 = i /\ 1 < i
    BY <1>2, <1>4
  <2> QED BY <2>1, <1>2
<1> QED BY <1>2, <1>3, <1>4

\* The goroutine leaves alone what has been sent and delivered.
Takes == raw # <<>> /\ raw' = Tail(raw) /\ UNCHANGED <<addr, messages, unannounced, received>>

\* It keeps what is true of every message of g; an announcement it takes is the only one
\* that is no longer to come.
LEMMA TakesKeeping ==
    ASSUME IInv, NEW g \in Senders, Takes
    PROVE  /\ Keeping(g)
           /\ \A n : /\ Covered(g, n)
                     /\ Own(g, Head(raw)) /\ Head(raw).type = "BAM" => ~(n < MessageOf(Head(raw)))
                     => Covered(g, n)'
<1>0. UNCHANGED <<addr, messages, unannounced, received>> /\ raw # <<>> /\ raw' = Tail(raw)
  BY DEF Takes
<1>1. ASSUME NEW n, Ahead(g, n) PROVE Ahead(g, n)'
  <2> SUFFICES ASSUME NEW i \in DOMAIN raw', Own(g, raw'[i])
               PROVE  n <= MessageOf(raw'[i]) /\ (raw'[i].type = "BAM" => n < MessageOf(raw'[i]))
    BY <1>0 DEF Ahead, MessageOf, Own
  <2>1. i + 1 \in DOMAIN raw /\ raw'[i] = raw[i + 1]
    BY <1>0, Cut
  <2> QED BY <2>1, <1>1 DEF Ahead
<1>2. ASSUME NEW n, Past(g, n) PROVE Past(g, n)'
  BY <1>0, <1>2 DEF Past
<1>3. ASSUME NEW n, NEW j, NEW piece, Part(g, n, j, piece) PROVE Part(g, n, j, piece)'
  BY <1>0, <1>3 DEF Part, Loud
<1>4. ASSUME NEW n, Covered(g, n),
             Own(g, Head(raw)) /\ Head(raw).type = "BAM" => ~(n < MessageOf(Head(raw)))
      PROVE  Covered(g, n)'
  <2> SUFFICES ASSUME NEW k \in DOMAIN messages[g], n < k, Loud(g, k)
               PROVE  \E i \in DOMAIN raw' : /\ Own(g, raw'[i]) /\ raw'[i].type = "BAM"
                                             /\ MessageOf(raw'[i]) = k
    BY <1>0 DEF Covered, MessageOf, Own, Loud
  <2>1. PICK i \in DOMAIN raw : Own(g, raw[i]) /\ raw[i].type = "BAM" /\ MessageOf(raw[i]) = k
    BY <1>4 DEF Covered
  <2>2. i # 1
    BY <2>1, <1>0, <1>4, Cut
  <2> QED BY <2>1, <2>2, <1>0, Cut
<1>5. addr' = addr /\ messages' = messages
  BY <1>0
<1>6. Keeping(g)
  BY <1>1, <1>2, <1>3, <1>5 DEF Keeping
<1> QED BY <1>4, <1>6

\* It keeps the order of the frames.
LEMMA TakesKeepsWire ==
    ASSUME IInv, NEW g \in Senders, Takes, WireInv(g), OrderInv(g), DoneInv(g)
    PROVE  WireInv(g)' /\ OrderInv(g)' /\ DoneInv(g)'
<1>0. UNCHANGED <<addr, messages, unannounced, received>> /\ raw # <<>> /\ raw' = Tail(raw)
  BY DEF Takes
<1>n. ASSUME NEW i \in DOMAIN raw, Own(g, raw[i]) PROVE MessageOf(raw[i]) \in Nat
  <2>1. MessageOf(raw[i]) \in DOMAIN messages[g]
    BY <1>n DEF WireInv, Says
  <2>2. DOMAIN messages[g] = 1 .. Number(g) /\ Number(g) \in Nat
    BY Facts
  <2> QED BY <2>1, <2>2
<1>o. \A f : Own(g, f)' <=> Own(g, f)
  BY <1>0 DEF Own
<1>1. WireInv(g)'
  <2> SUFFICES ASSUME NEW i \in DOMAIN raw', NEW f, f = raw'[i], Own(g, f)
               PROVE  /\ Says(g, f)'
                      /\ f.type = "BAM" => Covered(g, MessageOf(f))' /\ Past(g, MessageOf(f))'
    BY <1>o DEF WireInv, Says, Covered, Past, MessageOf, Own, Loud
  <2>1. i + 1 \in DOMAIN raw /\ f = raw[i + 1] /\ 1 \in DOMAIN raw /\ Head(raw) = raw[1] /\ 1 < i + 1
    BY <1>0, Cut
  <2>2. Says(g, f) /\ (f.type = "BAM" => Covered(g, MessageOf(f)) /\ Past(g, MessageOf(f)))
    BY <2>1 DEF WireInv
  <2>3. Says(g, f)'
    BY <2>2, <1>0 DEF Says, MessageOf, Loud
  <2>4. Past(g, MessageOf(f)) => Past(g, MessageOf(f))'
    BY <1>0 DEF Past, MessageOf
  <2>5. ASSUME f.type = "BAM" PROVE Covered(g, MessageOf(f))'
    <3>1. Own(g, Head(raw)) => ~(MessageOf(f) < MessageOf(Head(raw)))
      <4>1. Own(g, Head(raw)) => MessageOf(Head(raw)) < MessageOf(f)
        BY <2>1, <2>5 DEF OrderInv
      <4>2. MessageOf(f) \in Nat /\ (Own(g, Head(raw)) => MessageOf(Head(raw)) \in Nat)
        BY <2>1, <1>n
      <4> QED BY <4>1, <4>2
    <3>2. PICK n : n = MessageOf(f)
      OBVIOUS
    <3>3. Covered(g, n)'
      BY <3>1, <3>2, <2>2, <2>5, TakesKeeping
    <3>4. MessageOf(f)' = n
      BY <3>2 DEF MessageOf
    <3> QED BY <3>3, <3>4
  <2> QED BY <2>2, <2>3, <2>4, <2>5
<1>2. OrderInv(g)'
  <2> SUFFICES ASSUME NEW i \in DOMAIN raw', NEW j \in DOMAIN raw', i < j,
                      Own(g, raw'[i]), Own(g, raw'[j])
               PROVE  /\ MessageOf(raw'[i]) <= MessageOf(raw'[j])
                      /\ raw'[j].type = "BAM" => MessageOf(raw'[i]) < MessageOf(raw'[j])
    BY <1>0 DEF OrderInv, MessageOf, Own
  <2>1. /\ i + 1 \in DOMAIN raw /\ raw'[i] = raw[i + 1] /\ j + 1 \in DOMAIN raw /\ raw'[j] = raw[j + 1]
        /\ i + 1 < j + 1
    BY <1>0, Cut
  <2> QED BY <2>1 DEF OrderInv
<1>3. DoneInv(g)'
  BY <1>0 DEF DoneInv
<1> QED BY <1>1, <1>2, <1>3

\* A frame of another source.
LEMMA ForeignTaken ==
    ASSUME IInv, NEW g \in Senders, Takes, ~Own(g, Head(raw)), SourceInv(g), DoneInv(g),
           sessions'[addr[g]] = sessions[addr[g]], ~(loop' = "emit" /\ Own(g, assembled'[1]))
    PROVE  SourceInv(g)' /\ DoneInv(g)'
<1>1. WireInv(g)' /\ OrderInv(g)' /\ DoneInv(g)'
  BY TakesKeepsWire DEF SourceInv
<1>2. Keeping(g) /\ \A n : Covered(g, n) => Covered(g, n)'
  BY TakesKeeping
<1>3. OpenInv(g)'
  <2> SUFFICES ASSUME NEW s, sessions[addr[g]] = <<s>> PROVE Opened(g, s)'
    BY <1>2 DEF OpenInv, Keeping
  <2>1. Opened(g, s)
    BY DEF SourceInv, OpenInv
  <2> QED BY <2>1, <1>2, OpenedStays DEF Opened
<1>4. MadeInv(g)'
  BY <1>2 DEF MadeInv, Own, Keeping
<1> QED BY <1>1, <1>3, <1>4 DEF SourceInv

\* An announcement of g opens a session.
LEMMA AnnounceTaken ==
    ASSUME IInv, NEW g \in Senders, Own(g, Head(raw)), RecvAnnounce, SourceInv(g), DoneInv(g)
    PROVE  SourceInv(g)' /\ DoneInv(g)'
<1>h. PICK h : h = Head(raw)
  OBVIOUS
<1> DEFINE n == h.msg[2]
<1>s. PICK s : s = [packets |-> h.packets, pgn |-> h.pgn, msg |-> h.msg,
                    buf |-> [i \in 1 .. h.packets |-> Blank], seen |-> {}]
  OBVIOUS
<1>0. /\ Takes /\ addr' = addr /\ loop = "select" /\ loop' = loop /\ h.type = "BAM"
      /\ sessions' = [sessions EXCEPT ![h.src] = <<s>>]
  BY <1>h, <1>s DEF RecvAnnounce, Arrived, Ignored, Takes
<1>1. WireInv(g)' /\ OrderInv(g)' /\ DoneInv(g)'
  BY <1>0, TakesKeepsWire DEF SourceInv
<1>2. 1 \in DOMAIN raw /\ h = raw[1] /\ Own(g, h)
  BY <1>0, <1>h, Cut DEF Takes
<1>3. sessions'[addr[g]] = <<s>>
  <2>1. sessions \in [Addresses -> {<<>>} \cup {<<r>> : r \in Records}] /\ addr[g] \in Addresses
    BY DEF IInv, LoopType, Addresses
  <2> QED BY <2>1, <1>0, <1>2 DEF Own
<1>4. n = MessageOf(h) /\ s.msg[2] = n /\ s.seen = {} /\ s.packets = h.packets /\ s.pgn = h.pgn
  BY <1>0, <1>s DEF MessageOf
<1>5. Says(g, h) /\ Covered(g, n) /\ Past(g, n)
  BY <1>0, <1>2, <1>4 DEF SourceInv, WireInv
<1>6. n \in DOMAIN messages[g] /\ messages[g][n] = [packets |-> h.packets, pgn |-> h.pgn]
  BY <1>0, <1>4, <1>5 DEF Says
<1>7. /\ n \in DOMAIN messages'[g] /\ messages'[g][n] = [packets |-> h.packets, pgn |-> h.pgn]
      /\ n \in Nat
  <2>1. n \in Nat
    BY <1>6, Facts
  <2> QED BY <2>1, <1>0, <1>6 DEF Takes
<1>8. Covered(g, n)' /\ Past(g, n)'
  <2>1. ~(n < MessageOf(Head(raw)))
    BY <1>h, <1>4, <1>7
  <2>2. PICK k : k = n
    OBVIOUS
  <2>3. Covered(g, k)' /\ Past(g, k)'
    BY <2>1, <2>2, <1>0, <1>5, <1>6, TakesKeeping DEF Keeping
  <2> QED BY <2>2, <2>3
<1>9. Ahead(g, n)'
  <2> SUFFICES ASSUME NEW i \in DOMAIN raw', Own(g, raw'[i])
               PROVE  n <= MessageOf(raw'[i]) /\ (raw'[i].type = "BAM" => n < MessageOf(raw'[i]))
    BY <1>0 DEF Ahead, MessageOf, Own
  <2>1. i + 1 \in DOMAIN raw /\ raw'[i] = raw[i + 1] /\ 1 < i + 1
    BY <1>0, Cut DEF Takes
  <2> QED BY <2>1, <1>2, <1>4 DEF SourceInv, OrderInv
<1>10. Opened(g, s)'
  <2>1. s.msg[2] = n /\ s.seen = {} /\ messages'[g][n] = [packets |-> s.packets, pgn |-> s.pgn]
    BY <1>4, <1>7
  <2>2. PICK k : k = n
    OBVIOUS
  <2> HIDE DEF n
  <2> QED BY <2>1, <1>7, <1>8, <1>9 DEF Opened
<1>11. OpenInv(g)'
  <2> SUFFICES ASSUME NEW r, sessions'[addr[g]] = <<r>> PROVE Opened(g, r)'
    BY <1>0 DEF OpenInv
  <2>1. r = s
    BY <1>3
  <2> QED BY <2>1, <1>10
<1>12. MadeInv(g)'
  BY <1>0 DEF MadeInv
<1> QED BY <1>1, <1>11, <1>12 DEF SourceInv

\* What a packet that fits makes of the session.
LEMMA FilledFields ==
    ASSUME IInv, NEW g \in Senders, Own(g, Head(raw)), Arrived("DT"), Fits,
           NEW h, h = Head(raw), NEW s, sessions[addr[g]] = <<s>>, NEW F, F = Filled
    PROVE  /\ F.packets = s.packets /\ F.pgn = s.pgn /\ F.msg = s.msg
           /\ F.seen = s.seen \cup {h.seq} /\ F.buf[h.seq] = h.piece
           /\ \A j \in s.seen : F.buf[j] = s.buf[j]
<1>1. Session = <<s>> /\ Session[1] = s
  BY DEF Session, Own
<1>2. s \in Records
  <2>1. sessions[addr[g]] \in {<<>>} \cup {<<r>> : r \in Records}
    BY DEF IInv, LoopType, Addresses
  <2> QED BY <2>1
<1>3. s = [packets |-> s.packets, pgn |-> s.pgn, msg |-> s.msg, buf |-> s.buf, seen |-> s.seen]
  BY <1>2 DEF Records
<1>4. F = [s EXCEPT !.buf[h.seq] = h.piece, !.seen = @ \cup {h.seq}]
  BY <1>1 DEF Filled
<1>5. F = [packets |-> s.packets, pgn |-> s.pgn, msg |-> s.msg,
           buf |-> [s.buf EXCEPT ![h.seq] = h.piece], seen |-> s.seen \cup {h.seq}]
  BY <1>3, <1>4
<1>6. h.seq \in 1 .. s.packets /\ h.seq \notin s.seen
  BY <1>1 DEF Fits
<1>7. s.buf \in [1 .. s.packets -> Pieces] /\ s.seen \subseteq 1 .. s.packets
  BY DEF IInv, SessionInv, Backed, Addresses
<1>8. /\ F.packets = s.packets /\ F.pgn = s.pgn /\ F.msg = s.msg
      /\ F.seen = s.seen \cup {h.seq} /\ F.buf = [s.buf EXCEPT ![h.seq] = h.piece]
  BY <1>5
<1>9. /\ F.buf[h.seq] = h.piece
      /\ \A j \in 1 .. s.packets : j # h.seq => F.buf[j] = s.buf[j]
  BY <1>6, <1>7, <1>8
<1>10. \A j \in s.seen : F.buf[j] = s.buf[j]
  BY <1>6, <1>7, <1>9
<1> QED BY <1>8, <1>9, <1>10

\* The packet is the session's own, or its announcement was lost: had it been announced, the
\* announcement would be ahead of it.
LEMMA FilledOpened ==
    ASSUME IInv, NEW g \in Senders, Own(g, Head(raw)), Arrived("DT"), Fits, SourceInv(g),
           NEW F, F = Filled
    PROVE  Opened(g, F) /\ F.packets \in 2 .. 255
<1>h. PICK h : h = Head(raw)
  OBVIOUS
<1>0. raw # <<>> /\ h.type = "DT" /\ Own(g, h)
  BY <1>h DEF Arrived
<1>1. 1 \in DOMAIN raw /\ h = raw[1] /\ \A i \in DOMAIN raw : i # 1 => 1 < i
  <2>1. raw \in Seq(Announcements \cup Packets)
    BY DEF IInv, SendType
  <2>2. /\ DOMAIN raw = 1 .. Len(raw) /\ Len(raw) \in Nat /\ Len(raw) > 0 /\ Head(raw) = raw[1]
    BY <2>1, <1>0, Shortened
  <2> QED BY <2>2, <1>h
<1>2. PICK s \in Records : sessions[addr[g]] = <<s>>
  <2>1. sessions[addr[g]] \in {<<>>} \cup {<<r>> : r \in Records}
    BY DEF IInv, LoopType, Addresses
  <2>2. sessions[addr[g]] # <<>>
    BY DEF Fits, Session, Own
  <2> QED BY <2>1, <2>2
<1>3. /\ F.packets = s.packets /\ F.pgn = s.pgn /\ F.msg = s.msg
      /\ F.seen = s.seen \cup {h.seq} /\ F.buf[h.seq] = h.piece
      /\ \A j \in s.seen : F.buf[j] = s.buf[j]
  BY <1>h, <1>2, FilledFields
<1>4. Opened(g, s)
  BY <1>2 DEF SourceInv, OpenInv
<1>n. PICK n : n = s.msg[2]
  OBVIOUS
<1>k. PICK k : k = MessageOf(h)
  OBVIOUS
<1>5. k \in DOMAIN messages[g] /\ h.piece = Piece(g, k, h.seq)
  BY <1>0, <1>1, <1>k DEF SourceInv, WireInv, Says
<1>6. n <= k /\ n \in Nat /\ k \in Nat
  BY <1>0, <1>1, <1>4, <1>5, <1>n, <1>k, Facts DEF Opened, Ahead
<1>7. k = n \/ ~Loud(g, k)
  <2> SUFFICES ASSUME k # n, Loud(g, k) PROVE FALSE
    OBVIOUS
  <2>1. n < k
    BY <1>6
  <2>2. PICK i \in DOMAIN raw : Own(g, raw[i]) /\ raw[i].type = "BAM" /\ MessageOf(raw[i]) = k
    BY <2>1, <1>4, <1>5, <1>n DEF Opened, Covered
  <2>3. i # 1
    BY <2>2, <1>0, <1>1
  <2>4. MessageOf(raw[1]) < MessageOf(raw[i])
    BY <2>2, <2>3, <1>0, <1>1 DEF SourceInv, OrderInv
  <2> QED BY <2>2, <2>4, <1>1, <1>6, <1>k
<1>8. \A j \in F.seen : Part(g, n, j, F.buf[j])
  <2> SUFFICES ASSUME NEW j \in F.seen PROVE Part(g, n, j, F.buf[j])
    OBVIOUS
  <2>1. CASE j = h.seq
    BY <2>1, <1>3, <1>5, <1>7 DEF Part
  <2>2. CASE j \in s.seen
    BY <2>2, <1>3, <1>4, <1>n DEF Opened
  <2> QED BY <2>1, <2>2, <1>3
<1>9. Opened(g, F)
  BY <1>3, <1>4, <1>8, <1>n DEF Opened
<1>10. F.packets \in 2 .. 255
  BY <1>3 DEF Records
<1> QED BY <1>9, <1>10

\* A packet of g that does not complete its session, or that is skipped.
LEMMA PacketTaken ==
    ASSUME IInv, NEW g \in Senders, Own(g, Head(raw)), RecvPacket \/ RecvSkip,
           SourceInv(g), DoneInv(g)
    PROVE  SourceInv(g)' /\ DoneInv(g)'
<1>0. Takes /\ addr' = addr /\ loop' = "select" /\ Head(raw).type = "DT" /\ Arrived("DT")
  BY DEF RecvPacket, RecvSkip, Arrived, Takes
<1>1. WireInv(g)' /\ OrderInv(g)' /\ DoneInv(g)'
  BY <1>0, TakesKeepsWire DEF SourceInv
<1>2. Keeping(g) /\ \A n : Covered(g, n) => Covered(g, n)'
  BY <1>0, TakesKeeping
<1>3. ASSUME NEW s, Opened(g, s) PROVE Opened(g, s)'
  BY <1>2, <1>3, OpenedStays DEF Opened
<1>4. OpenInv(g)'
  <2> SUFFICES ASSUME NEW r, sessions'[addr[g]] = <<r>> PROVE Opened(g, r)'
    BY <1>0 DEF OpenInv
  <2>1. CASE RecvSkip
    BY <2>1, <1>3 DEF RecvSkip, SourceInv, OpenInv
  <2>2. CASE RecvPacket
    <3>1. PICK F : F = Filled
      OBVIOUS
    <3>2. sessions' = [sessions EXCEPT ![Head(raw).src] = <<F>>] /\ Fits
      BY <2>2, <3>1 DEF RecvPacket
    <3>3. sessions'[addr[g]] = <<F>>
      <4>1. sessions \in [Addresses -> {<<>>} \cup {<<q>> : q \in Records}] /\ addr[g] \in Addresses
        BY DEF IInv, LoopType, Addresses
      <4> QED BY <4>1, <3>2 DEF Own
    <3>4. r = F
      BY <3>3
    <3>5. Opened(g, F)
      BY <3>1, <3>2, <1>0, FilledOpened
    <3> QED BY <3>4, <3>5, <1>3
  <2> QED BY <2>1, <2>2
<1>5. MadeInv(g)'
  BY <1>0 DEF MadeInv
<1> QED BY <1>1, <1>4, <1>5 DEF SourceInv

\* The packet of g that completes its session makes a frame of it.
LEMMA LastPacketTaken ==
    ASSUME IInv, NEW g \in Senders, Own(g, Head(raw)), RecvLastPacket, SourceInv(g), DoneInv(g)
    PROVE  SourceInv(g)' /\ DoneInv(g)'
<1>F. PICK F : F = Filled
  OBVIOUS
<1>0. /\ Takes /\ addr' = addr /\ loop = "select" /\ Head(raw).type = "DT" /\ Arrived("DT") /\ Fits
      /\ Complete(F) /\ sessions' = [sessions EXCEPT ![Head(raw).src] = <<>>]
      /\ loop' = "emit" => assembled' = <<[src |-> Head(raw).src, pgn |-> F.pgn, buf |-> F.buf]>>
  BY <1>F DEF RecvLastPacket, Arrived, Takes
<1>1. WireInv(g)' /\ OrderInv(g)' /\ DoneInv(g)'
  BY <1>0, TakesKeepsWire DEF SourceInv
<1>2. Keeping(g)
  BY <1>0, TakesKeeping
<1>3. sessions'[addr[g]] = <<>>
  <2>1. sessions \in [Addresses -> {<<>>} \cup {<<q>> : q \in Records}] /\ addr[g] \in Addresses
    BY DEF IInv, LoopType, Addresses
  <2> QED BY <2>1, <1>0 DEF Own
<1>4. OpenInv(g)'
  BY <1>0, <1>3 DEF OpenInv
<1>5. MadeInv(g)'
  <2> SUFFICES ASSUME NEW f, loop' = "emit", assembled'[1] = f PROVE Made(g, f)'
    BY <1>0 DEF MadeInv
  <2>1. f.pgn = F.pgn /\ f.buf = F.buf
    BY <1>0
  <2>2. Opened(g, F) /\ F.packets \in 2 .. 255
    BY <1>F, <1>0, FilledOpened
  <2>3. F.buf \in [1 .. F.packets -> Pieces] /\ F.seen \subseteq 1 .. F.packets
    BY <1>F, <1>0, FilledIsBacked
  <2>4. F.seen = 1 .. F.packets
    BY <1>0, <2>2, <2>3, SeenOf DEF Complete
  <2>5. Len(f.buf) = F.packets /\ DOMAIN f.buf = F.seen
    <3>1. Len(F.buf) = F.packets
      BY <2>2, <2>3, BufferLength
    <3> QED BY <3>1, <2>1, <2>3, <2>4
  <2>n. PICK n : n = F.msg[2]
    OBVIOUS
  <2>6. /\ n \in DOMAIN messages[g] /\ messages[g][n] = [packets |-> Len(f.buf), pgn |-> f.pgn]
        /\ \A j \in DOMAIN f.buf : Part(g, n, j, f.buf[j])
        /\ Ahead(g, n) /\ Past(g, n)
    BY <2>1, <2>2, <2>5, <2>n DEF Opened
  <2> QED BY <2>6, <1>2, <1>3 DEF Keeping, Made
<1> QED BY <1>1, <1>4, <1>5 DEF SourceInv

-----------------------------------------------------------------------------
(* The goroutine delivers. *)

\* A frame nothing can have confused is the message it was made of.
LEMMA MadeIdentity ==
    ASSUME IInv, NEW g \in Senders, NEW f \in Delivered, Sure(g, f), Made(g, f)
    PROVE  /\ Identity(g, f) \in DOMAIN messages[g]
           /\ Ahead(g, Identity(g, f)) /\ Past(g, Identity(g, f))
<1> DEFINE Is(k) == /\ f.pgn = messages[g][k].pgn
                    /\ f.buf = [i \in 1 .. messages[g][k].packets |-> Piece(g, k, i)]
<1>1. PICK n \in DOMAIN messages[g] :
         /\ messages[g][n] = [packets |-> Len(f.buf), pgn |-> f.pgn]
         /\ \A j \in DOMAIN f.buf : Part(g, n, j, f.buf[j])
         /\ Ahead(g, n) /\ Past(g, n)
  BY DEF Made
<1>2. PICK p \in 2 .. 255 : f.buf \in [1 .. p -> Pieces]
  BY DEF Delivered, Buffers
<1>3. Len(f.buf) = p
  BY <1>2, BufferLength
<1>4. ASSUME NEW j \in 1 .. p PROVE f.buf[j] = Piece(g, n, j)
  <2>1. PICK k \in DOMAIN messages[g] : f.buf[j] = Piece(g, k, j) /\ (k = n \/ ~Loud(g, k))
    BY <1>1, <1>2 DEF Part
  <2>2. f.buf[j] # Blank /\ f.buf[j][1] = g /\ f.buf[j][2] = k
    BY <2>1 DEF Piece, Blank
  <2>3. <<g, k>> \notin unannounced
    BY <2>2, <1>2 DEF Sure
  <2> QED BY <2>1, <2>3 DEF Loud
<1>5. messages[g][n].packets = p /\ messages[g][n].pgn = f.pgn
  BY <1>1, <1>3
<1>6. f.buf = [i \in 1 .. p |-> Piece(g, n, i)]
  BY <1>2, <1>4
<1>7. Is(n)
  BY <1>5, <1>6
<1>8. ASSUME NEW k \in DOMAIN messages[g], Is(k) PROVE k = n
  <2>1. 1 \in 1 .. p
    BY <1>2
  <2>2. 1 .. messages[g][k].packets = 1 .. p
    BY <1>2, <1>8
  <2>3. f.buf[1] = Piece(g, k, 1)
    BY <1>8, <2>1, <2>2
  <2>4. f.buf[1] = Piece(g, n, 1)
    BY <1>4, <2>1
  <2> QED BY <2>3, <2>4 DEF Piece
<1>9. Identity(g, f) = CHOOSE k \in DOMAIN messages[g] : Is(k)
  BY <1>1, <1>7 DEF Identity
<1> HIDE DEF Is
<1>10. Identity(g, f) = n
  BY <1>1, <1>7, <1>8, <1>9
<1> QED BY <1>1, <1>10

\* What a delivery adds to what g's consumer has.
LEMMA Delivery ==
    ASSUME IInv, NEW f, f = assembled[1], Deliver(f), UNCHANGED <<messages, addr, unannounced>>,
           loop = "emit", NEW g \in Senders, received[g] \in Seq(Nat), SourceInv(g)
    PROVE  /\ f \in Delivered
           /\ ~Sure(g, f) => received'[g] = received[g]
           /\ Sure(g, f) =>
                 /\ received'[g] = Append(received[g], Identity(g, f))
                 /\ Identity(g, f) \in DOMAIN messages[g] /\ Identity(g, f) \in Nat
                 /\ Ahead(g, Identity(g, f)) /\ Past(g, Identity(g, f))
                 /\ sessions[addr[g]] = <<>>
<1>1. f \in Delivered
  <2>1. assembled \in Seq(Delivered) /\ Len(assembled) = 1
    BY DEF IInv, LoopType
  <2>2. 1 \in 1 .. Len(assembled)
    BY <2>1
  <2>3. assembled[1] \in Delivered
    BY <2>1, <2>2, ElementOfSeq
  <2> QED BY <2>3
<1>2. received'[g] = IF Sure(g, f) THEN Append(received[g], Identity(g, f)) ELSE received[g]
  BY DEF Deliver
<1>3. ASSUME Sure(g, f)
      PROVE  /\ Identity(g, f) \in DOMAIN messages[g] /\ Identity(g, f) \in Nat
             /\ Ahead(g, Identity(g, f)) /\ Past(g, Identity(g, f))
             /\ sessions[addr[g]] = <<>>
  <2>1. Made(g, f)
    BY <1>3 DEF SourceInv, MadeInv, Sure, Own
  <2>2. /\ Identity(g, f) \in DOMAIN messages[g]
        /\ Ahead(g, Identity(g, f)) /\ Past(g, Identity(g, f))
    BY <2>1, <1>1, <1>3, MadeIdentity
  <2>3. DOMAIN messages[g] = 1 .. Number(g) /\ Number(g) \in Nat
    BY Facts
  <2>4. Identity(g, f) \in Nat
    BY <2>2, <2>3
  <2> QED BY <2>1, <2>2, <2>4 DEF Made
<1> QED BY <1>1, <1>2, <1>3

\* The delivery of a frame keeps g's invariant.
LEMMA EmitTaken ==
    ASSUME IInv, NEW g \in Senders, Emit, SourceInv(g), DoneInv(g)
    PROVE  SourceInv(g)' /\ DoneInv(g)'
<1>f. PICK f : f = assembled[1]
  OBVIOUS
<1>0. /\ UNCHANGED <<addr, raw, messages, unannounced, sessions>> /\ loop = "emit" /\ loop' = "select"
      /\ Deliver(f)
  BY <1>f DEF Emit
<1>1. received[g] \in Seq(Nat) /\ \A i \in DOMAIN received[g] : received[g][i] \in DOMAIN messages[g]
  BY DEF DoneInv
<1>n. PICK n : n = Identity(g, f)
  OBVIOUS
<1>2. \/ received'[g] = received[g]
      \/ /\ received'[g] = Append(received[g], n)
         /\ n \in DOMAIN messages[g] /\ n \in Nat
         /\ Ahead(g, n) /\ Past(g, n) /\ sessions[addr[g]] = <<>>
  BY <1>f, <1>n, <1>0, <1>1, Delivery
<1>3. ASSUME NEW k, Past(g, k), received'[g] = received[g] \/ n < k PROVE Past(g, k)'
  <2>1. CASE received'[g] = received[g]
    BY <2>1, <1>3 DEF Past
  <2>2. CASE received'[g] = Append(received[g], n) /\ n \in Nat /\ n < k
    <3>1. /\ DOMAIN received'[g] = 1 .. Len(received[g]) + 1
          /\ received'[g][Len(received[g]) + 1] = n
          /\ \A i \in 1 .. Len(received[g]) : received'[g][i] = received[g][i]
          /\ DOMAIN received[g] = 1 .. Len(received[g]) /\ Len(received[g]) \in Nat
      BY <1>1, <2>2, Appended
    <3> SUFFICES ASSUME NEW i \in DOMAIN received'[g] PROVE received'[g][i] < k
      BY DEF Past
    <3>2. CASE i \in 1 .. Len(received[g])
      BY <3>1, <3>2, <1>3 DEF Past
    <3>3. CASE i = Len(received[g]) + 1
      BY <3>1, <3>3, <2>2
    <3> QED BY <3>1, <3>2, <3>3
  <2> QED BY <2>1, <2>2, <1>2, <1>3
<1>4. /\ \A h : Own(g, h)' <=> Own(g, h)
      /\ \A h : Says(g, h)' <=> Says(g, h)
      /\ \A k : Ahead(g, k)' <=> Ahead(g, k)
      /\ \A k : Covered(g, k)' <=> Covered(g, k)
      /\ \A k, j, p : Part(g, k, j, p)' <=> Part(g, k, j, p)
  BY <1>0 DEF Own, Says, Ahead, Covered, Part, Loud, MessageOf
<1>5. DoneInv(g)'
  <2>1. CASE received'[g] = received[g]
    BY <2>1, <1>0, <1>1 DEF DoneInv
  <2>2. CASE received'[g] = Append(received[g], n) /\ n \in Nat /\ n \in DOMAIN messages[g]
    <3>1. /\ received'[g] \in Seq(Nat) /\ DOMAIN received'[g] = 1 .. Len(received[g]) + 1
          /\ received'[g][Len(received[g]) + 1] = n
          /\ \A i \in 1 .. Len(received[g]) : received'[g][i] = received[g][i]
          /\ DOMAIN received[g] = 1 .. Len(received[g]) /\ Len(received[g]) \in Nat
      BY <1>1, <2>2, Appended
    <3>2. \A i \in DOMAIN received'[g] : received'[g][i] \in DOMAIN messages[g]
      <4> SUFFICES ASSUME NEW i \in DOMAIN received'[g] PROVE received'[g][i] \in DOMAIN messages[g]
        OBVIOUS
      <4>1. i \in 1 .. Len(received[g]) \/ i = Len(received[g]) + 1
        BY <3>1
      <4> QED BY <4>1, <3>1, <2>2, <1>1
    <3> QED BY <3>1, <3>2, <1>0 DEF DoneInv
  <2> QED BY <2>1, <2>2, <1>2
<1>6. WireInv(g)'
  <2> SUFFICES ASSUME NEW i \in DOMAIN raw, NEW h, h = raw[i], Own(g, h)
               PROVE  /\ Says(g, h)'
                      /\ h.type = "BAM" => Covered(g, MessageOf(h))' /\ Past(g, MessageOf(h))'
    BY <1>0, <1>4 DEF WireInv, Says, Covered, Past, MessageOf, Own, Loud
  <2>1. Says(g, h) /\ (h.type = "BAM" => Covered(g, MessageOf(h)) /\ Past(g, MessageOf(h)))
    BY DEF SourceInv, WireInv
  <2>2. PICK k : k = MessageOf(h)
    OBVIOUS
  <2>3. h.type = "BAM" => Covered(g, k)' /\ Past(g, k)'
    <3> SUFFICES ASSUME h.type = "BAM" PROVE Covered(g, k)' /\ Past(g, k)'
      OBVIOUS
    <3>1. received'[g] = received[g] \/ n < k
      BY <2>2, <1>2 DEF Ahead
    <3> QED BY <3>1, <2>1, <2>2, <1>3, <1>4
  <2>4. MessageOf(h)' = k
    BY <2>2 DEF MessageOf
  <2> QED BY <2>1, <2>3, <2>4, <1>4
<1>7. OrderInv(g)'
  BY <1>0 DEF SourceInv, OrderInv, Own, MessageOf
<1>8. OpenInv(g)'
  <2> SUFFICES ASSUME NEW s, sessions[addr[g]] = <<s>> PROVE Opened(g, s)'
    BY <1>0 DEF OpenInv
  <2>1. Opened(g, s) /\ received'[g] = received[g]
    BY <1>2 DEF SourceInv, OpenInv
  <2>2. Past(g, s.msg[2])'
    BY <2>1, <1>3 DEF Opened
  <2> QED BY <2>1, <2>2, <1>0, <1>4 DEF Opened
<1>9. MadeInv(g)'
  BY <1>0 DEF MadeInv
<1> QED BY <1>5, <1>6, <1>7, <1>8, <1>9 DEF SourceInv

-----------------------------------------------------------------------------
(* The abstract channel. *)

\* At the start nothing has been sent.
LEMMA InitChannel == Init => ChannelInv
<1> SUFFICES ASSUME Init PROVE ChannelInv
  OBVIOUS
<1>1. /\ received = [g \in Senders |-> <<>>] /\ raw = <<>> /\ loop = "new"
      /\ sessions = [a \in Addresses |-> <<>>]
  BY DEF Init
<1>2. ASSUME NEW g \in Senders
      PROVE  received[g] = <<>> /\ received[g] \in Seq(Nat) /\ SourceInv(g) /\ DoneInv(g)
  <2>1. received[g] = <<>> /\ sessions[addr[g]] = <<>>
    BY <1>1 DEF Addresses
  <2>2. WireInv(g) /\ OrderInv(g)
    BY <1>1 DEF WireInv, OrderInv
  <2>3. OpenInv(g) /\ MadeInv(g)
    BY <1>1, <2>1 DEF OpenInv, MadeInv
  <2>4. received[g] \in Seq(Nat) /\ DOMAIN received[g] = {}
    BY <2>1
  <2> QED BY <2>1, <2>2, <2>3, <2>4 DEF SourceInv, DoneInv
<1>3. received \in [Senders -> Seq(Nat)]
  BY <1>1, <1>2
<1> QED BY <1>2, <1>3 DEF ChannelInv

\* Every step keeps the invariant of a sender whose address nobody else uses.
LEMMA SourceKept ==
    ASSUME IInv, [Next]_vars, NEW g \in Senders, Sole(g), SourceInv(g), DoneInv(g)
    PROVE  SourceInv(g)' /\ DoneInv(g)'
<1>1. ASSUME NEW h \in Senders, NEW m \in Messages[h], SendAnnounce(h, m)
      PROVE  SourceInv(g)' /\ DoneInv(g)'
  <2>1. \E f : Sends(g, f)
    BY <1>1, AnnounceSends
  <2> QED BY <1>1, <2>1, SendsKeep DEF SendAnnounce
<1>2. ASSUME NEW h \in Senders, SendPacket(h) PROVE SourceInv(g)' /\ DoneInv(g)'
  <2>1. \E f : Sends(g, f)
    BY <1>2, PacketSends
  <2> QED BY <1>2, <2>1, SendsKeep DEF SendPacket
<1>3. ASSUME NEW h \in Senders, SendStops(h) PROVE SourceInv(g)' /\ DoneInv(g)'
  <2>1. \E f : Sends(g, f)
    BY <1>3, NothingSends DEF SendStops
  <2> QED BY <1>3, <2>1, SendsKeep DEF SendStops
<1>4. CASE Close \/ CtxCancel \/ Consume \/ SubscribeTP \/ RxCancelled \/ RxClosed \/ UNCHANGED vars
  <2>1. /\ UNCHANGED <<addr, raw, messages, unannounced, received>>
        /\ UNCHANGED sessions /\ UNCHANGED assembled /\ (loop' = "emit" => loop = "emit")
    BY <1>4 DEF Close, CtxCancel, Consume, SubscribeTP, RxCancelled, RxClosed, vars
  <2>2. \E f : Sends(g, f)
    BY <2>1, NothingSends
  <2> QED BY <2>1, <2>2, SendsKeep
<1>5. CASE RecvAnnounce \/ RecvSkip \/ RecvPacket \/ RecvLastPacket
  <2>1. CASE Own(g, Head(raw))
    BY <2>1, <1>5, AnnounceTaken, PacketTaken, LastPacketTaken
  <2>2. CASE ~Own(g, Head(raw))
    <3>1. Takes
      BY <1>5 DEF Takes, RecvAnnounce, RecvSkip, RecvPacket, RecvLastPacket, Arrived
    <3>2. sessions'[addr[g]] = sessions[addr[g]]
      <4>1. sessions \in [Addresses -> {<<>>} \cup {<<r>> : r \in Records}] /\ addr[g] \in Addresses
        BY DEF IInv, LoopType, Addresses
      <4>2. sessions' = sessions \/ \E v : sessions' = [sessions EXCEPT ![Head(raw).src] = v]
        BY <1>5 DEF RecvAnnounce, RecvSkip, RecvPacket, RecvLastPacket, Ignored
      <4> QED BY <4>1, <4>2, <2>2 DEF Own
    <3>3. ~(loop' = "emit" /\ Own(g, assembled'[1]))
      <4>1. CASE RecvAnnounce \/ RecvSkip \/ RecvPacket
        BY <4>1 DEF RecvAnnounce, RecvSkip, RecvPacket, Arrived
      <4>2. CASE RecvLastPacket
        BY <4>2, <2>2 DEF RecvLastPacket, Arrived, Own
      <4> QED BY <4>1, <4>2, <1>5
    <3> QED BY <2>2, <3>1, <3>2, <3>3, ForeignTaken
  <2> QED BY <2>1, <2>2
<1>6. CASE Emit
  BY <1>6, EmitTaken
<1> QED BY <1>1, <1>2, <1>3, <1>4, <1>5, <1>6 DEF Next

\* What a step delivers: nothing, or one message of one source.
LEMMA Arrives ==
    ASSUME IInv, ChannelInv, Emit
    PROVE  \/ received' = received
           \/ \E g \in Senders : \E n \in DOMAIN messages[g] :
                 /\ Sole(g) /\ Past(g, n)
                 /\ received' = [received EXCEPT ![g] = Append(@, n)]
<1>f. PICK f : f = assembled[1]
  OBVIOUS
<1>0. /\ Deliver(f) /\ UNCHANGED <<messages, addr, unannounced>> /\ loop = "emit"
      /\ received' = [g \in Senders |->
            IF Sure(g, f) THEN Append(received[g], Identity(g, f)) ELSE received[g]]
  BY <1>f DEF Emit, Deliver
<1>1. received \in [Senders -> Seq(Nat)]
  BY DEF ChannelInv
<1>2. CASE \A g \in Senders : ~Sure(g, f)
  BY <1>0, <1>1, <1>2
<1>3. ASSUME NEW g \in Senders, Sure(g, f)
      PROVE  \E n \in DOMAIN messages[g] :
                 /\ Sole(g) /\ Past(g, n)
                 /\ received' = [received EXCEPT ![g] = Append(@, n)]
  <2>1. Sole(g) /\ f.src = addr[g]
    BY <1>3 DEF Sure, Sole
  <2>2. SourceInv(g) /\ received[g] \in Seq(Nat)
    BY <2>1, <1>1 DEF ChannelInv
  <2>3. Identity(g, f) \in DOMAIN messages[g] /\ Past(g, Identity(g, f))
    BY <2>2, <1>f, <1>0, <1>3, Delivery
  <2>4. \A h \in Senders : h # g => ~Sure(h, f)
    BY <2>1 DEF Sure, Sole
  <2>5. received' = [received EXCEPT ![g] = Append(@, Identity(g, f))]
    BY <1>0, <1>1, <1>3, <2>4
  <2> QED BY <2>1, <2>3, <2>5
<1> QED BY <1>2, <1>3

\* Every step keeps the invariant of all senders.
LEMMA NextChannel == IInv /\ ChannelInv /\ [Next]_vars => ChannelInv'
<1> SUFFICES ASSUME IInv, ChannelInv, [Next]_vars PROVE ChannelInv'
  OBVIOUS
<1>0. addr' = addr /\ received \in [Senders -> Seq(Nat)]
  <2>1. addr' = addr
    BY DEF Next, SendAnnounce, SendPacket, SendStops, SubscribeTP, Close, CtxCancel, Consume,
           RecvAnnounce, RecvSkip, RecvPacket, RecvLastPacket, Emit, RxCancelled, RxClosed, vars
  <2> QED BY <2>1 DEF ChannelInv
<1>1. ASSUME NEW g \in Senders, Sole(g)' PROVE SourceInv(g)' /\ DoneInv(g)'
  <2>1. Sole(g)
    BY <1>0, <1>1 DEF Sole
  <2> QED BY <2>1, SourceKept DEF ChannelInv
<1>2. received' \in [Senders -> Seq(Nat)]
  <2>1. CASE Emit
    <3>1. ASSUME NEW g \in Senders, NEW n \in DOMAIN messages[g],
                 received' = [received EXCEPT ![g] = Append(@, n)]
          PROVE  received' \in [Senders -> Seq(Nat)]
      <4>1. n \in Nat
        BY Facts
      <4>2. Append(received[g], n) \in Seq(Nat)
        BY <4>1, <1>0, AppendProperties
      <4> QED BY <4>2, <1>0, <3>1
    <3> QED BY <2>1, <3>1, <1>0, Arrives
  <2>2. CASE received' = received
    BY <2>2, <1>0
  <2>3. Emit \/ received' = received
    BY DEF Next, SendAnnounce, SendPacket, SendStops, SubscribeTP, Close, CtxCancel, Consume,
           RecvAnnounce, RecvSkip, RecvPacket, RecvLastPacket, RxCancelled, RxClosed, vars
  <2> QED BY <2>1, <2>2, <2>3
<1> QED BY <1>1, <1>2 DEF ChannelInv

\* A step that neither announces nor delivers is none of the channel's.
LEMMA QuietStep ==
    ASSUME UNCHANGED <<messages, received>>
    PROVE  UNCHANGED Channel!chVars
BY DEF Channel!chVars, Number

\* Every step is one of the channel's, or none.
LEMMA ChannelStep == IInv /\ ChannelInv /\ [Next]_vars => [Channel!ChNext]_Channel!chVars
<1> SUFFICES ASSUME IInv, ChannelInv, [Next]_vars PROVE [Channel!ChNext]_Channel!chVars
  OBVIOUS
<1>1. ASSUME NEW g \in Senders, NEW m \in Messages[g], SendAnnounce(g, m)
      PROVE  Channel!Submit(g)
  <2>1. messages' = [messages EXCEPT ![g] = Append(@, m)] /\ received' = received
    BY <1>1 DEF SendAnnounce
  <2>2. messages \in [Senders -> Seq([packets : 2 .. 255, pgn : PGNs])]
        /\ m \in [packets : 2 .. 255, pgn : PGNs]
    BY ConfigAssumption DEF IInv, SendType
  <2>3. Len(messages'[g]) = Len(messages[g]) + 1 /\ \A h \in Senders : h # g => messages'[h] = messages[h]
    BY <2>1, <2>2, Appended
  <2>4. [h \in Senders |-> Number(h)]' = [[h \in Senders |-> Number(h)] EXCEPT ![g] = @ + 1]
    BY <2>3 DEF Number
  <2> QED BY <2>1, <2>4 DEF Channel!Submit
<1>2. CASE Emit
  <2>0. messages' = messages
    BY <1>2 DEF Emit
  <2>1. CASE received' = received
    BY <2>0, <2>1, QuietStep
  <2>2. ASSUME NEW g \in Senders, NEW n \in DOMAIN messages[g], Past(g, n),
               received' = [received EXCEPT ![g] = Append(@, n)]
        PROVE  Channel!Arrive(g)
    <3>1. n \in 1 .. Number(g)
      BY Facts
    <3>2. \A i \in DOMAIN received[g] : received[g][i] < n
      BY <2>2 DEF Past
    <3>3. [h \in Senders |-> Number(h)]' = [h \in Senders |-> Number(h)]
      BY <2>0 DEF Number
    <3> QED BY <3>1, <3>2, <3>3, <2>2 DEF Channel!Arrive, Channel!InSequence
  <2> QED BY <1>2, <2>1, <2>2, Arrives DEF Channel!ChNext
<1>3. ASSUME UNCHANGED <<messages, received>> PROVE UNCHANGED Channel!chVars
  BY <1>3, QuietStep
<1>4. \/ UNCHANGED <<messages, received>> \/ Emit
      \/ \E g \in Senders : \E m \in Messages[g] : SendAnnounce(g, m)
  BY DEF Next, SendPacket, SendStops, SubscribeTP, Close, CtxCancel, Consume,
         RecvAnnounce, RecvSkip, RecvPacket, RecvLastPacket, RxCancelled, RxClosed, vars
<1> QED BY <1>1, <1>2, <1>3, <1>4 DEF Channel!ChNext

\* The transport protocol implements the message channel: of each source whose address
\* nobody else uses, the frames that hold nothing of an unannounced message are its
\* messages, whole, once and in order, whatever is lost or given up (tp.go:163-259).
THEOREM TransfersImplement == Spec => ImplementsChannel
<1>1. Init => Channel!ChInit
  <2> SUFFICES ASSUME Init PROVE Channel!ChInit
    OBVIOUS
  <2>1. received = [g \in Senders |-> <<>>] /\ messages = [g \in Senders |-> <<>>]
    BY DEF Init
  <2>2. [g \in Senders |-> Number(g)] = [g \in Senders |-> 0]
    BY <2>1, EmptySeq DEF Number
  <2> QED BY <2>1, <2>2 DEF Channel!ChInit
<1>2. Spec => []ChannelInv
  BY InitInv, NextInv, InitChannel, NextChannel, PTL DEF Spec
<1>3. ChannelInv /\ IInv /\ [Next]_vars => [Channel!ChNext]_Channel!chVars
  BY ChannelStep
<1> QED BY <1>1, <1>2, <1>3, TransferInvariant, PTL DEF Spec, ImplementsChannel, Channel!ChSpec
=============================================================================
