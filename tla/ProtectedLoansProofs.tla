------------------------ MODULE ProtectedLoansProofs ------------------------
(***************************************************************************)
(* Theorems about loaned frames and end-to-end protection together, for any *)
(* set of borrowers, objects and checkers, any counter width and any number *)
(* of loans, payloads and faults on the wire.                               *)
(***************************************************************************)
EXTENDS ProtectedLoans, SequenceTheorems, TLAPS

USE DEF loanVars, e2eVars

-----------------------------------------------------------------------------
(* The inductive invariant. *)

Labels == {"idle", "loaned", "held", "filled", "sent", "clear"}

\* The header of a message carries its number; a payload without one is Unprotected.
Numbered == {m \in Messages : m.seq = m.n % Modulus}
Carried == Numbered \cup {Unprotected}

LoanType ==
    /\ closed \in BOOLEAN /\ pool \in [Objects -> Nat] /\ release \in [Objects -> BOOLEAN]
    /\ loans \in 0 .. MaxLoans /\ lf \in [Borrowers -> Objects \cup {NoObject}]
    /\ at \in [Borrowers -> Labels] /\ spoiled \subseteq Objects
FrameType == frame \in [Objects -> Carried]
E2EType ==
    /\ count \in 0 .. MaxProtect /\ wire \in Seq(Carried) /\ faults \in 0 .. MaxFaults
    /\ first \in BOOLEAN /\ lastSeq \in 0 .. Modulus - 1
    /\ checking \in [Checkers -> Numbered \cup {NoMessage}]
    /\ latest \in [kind : {"none", "ok", "gap"}, n : Nat, before : Nat \cup {NoMessage}]
HistoryType ==
    owner \in [Numbers -> Seq(Borrowers)] /\ senders \in [Numbers -> Seq(Borrowers)]

\* Whoever uses a loan has one; release is set only while some borrower is between
\* Loan and the end of Return, so that a second Return finds nothing to do unless the
\* object is somebody else's by then: the case that spoils it.
InUse(o) == \E b \in Borrowers : lf[b] = o /\ at[b] \in {"held", "filled", "sent", "clear"}
PoolInv ==
    /\ \A b \in Borrowers : Active(b) => lf[b] \in Objects
    /\ \A o \in Objects \ spoiled : release[o] => InUse(o)
    /\ NoTwoBorrowers

\* Numbers are given out in order, each once.
OwnerInv == \A n \in Numbers : Len(owner[n]) <= 1 /\ (n >= count => owner[n] = <<>>)

\* What a loaned frame holds while no object is spoiled: nothing, then the number its
\* borrower was given, which nobody has put on the bus yet.
Own(b, k) == frame[lf[b]] = Header(k) /\ owner[k] = <<b>> /\ senders[k] = <<>>
FrameInv ==
    /\ \A b \in Borrowers : at[b] = "held" => frame[lf[b]] = Unprotected
    /\ \A b \in Borrowers : at[b] = "filled" => \E k \in Numbers : k < count /\ Own(b, k)
    /\ \A n \in Numbers : senders[n] \in {<<>>, owner[n]} /\ (n >= count => senders[n] = <<>>)

\* The Receiver's lastSeq is the number of the last message it heard.
SeqInv ==
    /\ first <=> latest.kind = "none"
    /\ ~first => lastSeq = latest.n % Modulus
    /\ GapsExact

IInv ==
    /\ LoanType /\ FrameType /\ E2EType /\ HistoryType
    /\ PoolInv /\ OwnerInv /\ (spoiled = {} => FrameInv) /\ SeqInv
-----------------------------------------------------------------------------
(* Remainders. *)

\* A number is a multiple of the modulus and its remainder.
LEMMA ModIs ==
    ASSUME NEW M \in Nat \ {0}, NEW a \in Int
    PROVE  a % M \in 0 .. M - 1 /\ \E q \in Int : a = (M * q) + (a % M)
<1>1. a = (M * (a \div M)) + (a % M)
  OBVIOUS
<1>2. a % M \in 0 .. M - 1 /\ a \div M \in Int
  OBVIOUS
<1> QED BY <1>1, <1>2

\* There is only one remainder.
LEMMA ModUnique ==
    ASSUME NEW M \in Nat \ {0}, NEW q \in Int, NEW p \in Int,
           NEW r \in 0 .. M - 1, NEW s \in 0 .. M - 1, (M * q) + r = (M * p) + s
    PROVE  r = s
<1>1. M * (q - p) = s - r
  OBVIOUS
<1>2. CASE q - p >= 1
  <2>1. M * (q - p) >= M
    BY <1>2
  <2> QED BY <2>1, <1>1
<1>3. CASE q - p <= -1
  <2>1. M * (p - q) >= M
    BY <1>3
  <2>2. M * (p - q) = r - s
    BY <1>1
  <2> QED BY <2>1, <2>2
<1>4. CASE q = p
  BY <1>4, <1>1
<1> QED BY <1>2, <1>3, <1>4

\* Two remainders are equal exactly if their difference has the remainder 0.
LEMMA ModDifference ==
    ASSUME NEW M \in Nat \ {0}, NEW q \in Int, NEW p \in Int, NEW r \in 0 .. M - 1,
           NEW s \in 0 .. M - 1, NEW t \in 0 .. M - 1, (M * q) + t = (M * p) + (r - s)
    PROVE  r = s <=> t = 0
<1>1. ASSUME r = s PROVE t = 0
  <2>1. (M * q) + t = (M * p) + 0
    BY <1>1
  <2>2. 0 \in 0 .. M - 1
    OBVIOUS
  <2> QED BY <2>1, <2>2, ModUnique
<1>2. ASSUME t = 0 PROVE r = s
  <2>1. (M * q) + s = (M * p) + r
    BY <1>2
  <2> QED BY <2>1, ModUnique
<1> QED BY <1>1, <1>2

\* The counter of a follows that of b exactly if a whole number of cycles lies
\* between the number after b and a.
LEMMA ModNext ==
    ASSUME NEW M \in Nat \ {0}, NEW a \in Nat, NEW b \in Nat
    PROVE  a % M = ((b % M) + 1) % M <=> (a - b - 1) % M = 0
<1>0. a \in Int /\ b \in Int /\ a - b - 1 \in Int
  OBVIOUS
<1>1. PICK qa \in Int : a = (M * qa) + (a % M)
  BY <1>0, ModIs
<1>2. PICK qb \in Int : b = (M * qb) + (b % M)
  BY <1>0, ModIs
<1>3. /\ a % M \in 0 .. M - 1 /\ b % M \in 0 .. M - 1 /\ (a - b - 1) % M \in 0 .. M - 1
      /\ (b % M) + 1 \in Int
  BY <1>0, ModIs
<1>4. PICK qn \in Int : (b % M) + 1 = (M * qn) + (((b % M) + 1) % M)
  BY <1>3, ModIs
<1>5. PICK qd \in Int : a - b - 1 = (M * qd) + ((a - b - 1) % M)
  BY <1>0, ModIs
<1>6. ((b % M) + 1) % M \in 0 .. M - 1
  BY <1>3, ModIs
<1>7. /\ qa - qb - qn \in Int
      /\ (M * qd) + ((a - b - 1) % M)
         = (M * (qa - qb - qn)) + ((a % M) - (((b % M) + 1) % M))
  <2> DEFINE ra == a % M
             rb == b % M
             rn == (rb + 1) % M
             rd == (a - b - 1) % M
  <2>1. /\ a = (M * qa) + ra /\ b = (M * qb) + rb /\ rb + 1 = (M * qn) + rn
        /\ a - b - 1 = (M * qd) + rd
        /\ ra \in Int /\ rb \in Int /\ rn \in Int /\ rd \in Int
    BY <1>1, <1>2, <1>3, <1>4, <1>5, <1>6
  <2> HIDE DEF ra, rb, rn, rd
  <2>2. (M * qd) + rd = (M * (qa - qb - qn)) + (ra - rn)
    <3>1. (M * (qa - qb - qn)) = (M * qa) - (M * qb) - (M * qn)
      OBVIOUS
    <3> QED BY <2>1, <3>1
  <2> QED
    BY <2>2 DEF ra, rb, rn, rd
<1> DEFINE k == qa - qb - qn
           r == a % M
           n == ((b % M) + 1) % M
           d == (a - b - 1) % M
<1>8. /\ r \in 0 .. M - 1 /\ n \in 0 .. M - 1 /\ d \in 0 .. M - 1
      /\ k \in Int /\ (M * qd) + d = (M * k) + (r - n)
  BY <1>3, <1>6, <1>7
<1> HIDE DEF k, r, n, d
<1>9. r = n <=> d = 0
  BY <1>8, ModDifference
<1> QED
  BY <1>9 DEF r, n, d

-----------------------------------------------------------------------------
(* The initial states, and what the invariant implies. *)

\* The four parts are the type invariant.
LEMMA TypeParts == IInv => TypeOK
<1>1. Carried \subseteq Contents
  BY DEF Carried, Numbered, Contents
<1>2. \A s \in Seq(Carried) : s \in Seq(Contents)
  BY <1>1
<1>3. Numbered \subseteq Messages
  BY DEF Numbered
<1>4. IInv => LoanType /\ FrameType /\ E2EType /\ HistoryType
  BY DEF IInv
<1> QED
  BY <1>1, <1>2, <1>3, <1>4 DEF TypeOK, LoanType, FrameType, E2EType, HistoryType, Labels

\* Nothing is borrowed, sent or heard yet.
LEMMA InitInv == Init => IInv
<1> SUFFICES ASSUME Init PROVE IInv
  OBVIOUS
<1>1. LoanType /\ FrameType /\ HistoryType
  <2>1. <<>> \in Seq(Borrowers)
    BY EmptySeq
  <2>2. \A e \in Seq(Borrowers) : [n \in Numbers |-> e] \in [Numbers -> Seq(Borrowers)]
    OBVIOUS
  <2>3. HistoryType
    BY <2>1, <2>2, Zenon DEF Init, HistoryType
  <2>4. FrameType
    BY DEF Init, LoanInit, FrameType, Carried, Unprotected
  <2>5. LoanType
    <3>1. closed \in BOOLEAN /\ release \in [Objects -> BOOLEAN]
      BY Zenon DEF Init, LoanInit
    <3>2. /\ pool \in [Objects -> Nat] /\ lf \in [Borrowers -> Objects \cup {NoObject}]
          /\ spoiled \subseteq Objects
      BY DEF Init, LoanInit
    <3>3. loans \in 0 .. MaxLoans /\ at \in [Borrowers -> Labels]
      BY LoanAssumption DEF Init, LoanInit, Labels
    <3> QED BY <3>1, <3>2, <3>3 DEF LoanType
  <2> QED
    BY <2>3, <2>4, <2>5
<1>2. E2EType
  BY E2EAssumption DEF Init, E2EInit, E2EType
<1>3. PoolInv
  BY DEF Init, LoanInit, PoolInv, Active, NoTwoBorrowers, Holds
<1>4. OwnerInv /\ FrameInv
  <2>1. \A n \in Numbers : Len(owner[n]) <= 1 /\ senders[n] = <<>> /\ owner[n] = <<>>
    BY DEF Init
  <2> QED
    BY <2>1 DEF Init, LoanInit, FrameInv, OwnerInv
<1>5. SeqInv
  BY DEF Init, LoanInit, E2EInit, SeqInv, GapsExact
<1> QED
  BY <1>1, <1>2, <1>3, <1>4, <1>5 DEF IInv

-----------------------------------------------------------------------------
(* The loans. *)

\* A step that writes no frame, touches neither the wire nor the numbering, and makes
\* no loan ready to be filled or sent keeps everything that is said of frames.
LEMMA KeepsFrames ==
    ASSUME IInv, UNCHANGED <<frame, e2eVars, owner, senders>>, spoiled \subseteq spoiled',
           \A b \in Borrowers : at'[b] \in {"held", "filled"} => at'[b] = at[b] /\ lf'[b] = lf[b]
    PROVE  FrameType' /\ E2EType' /\ HistoryType' /\ OwnerInv' /\ (spoiled' = {} => FrameInv') /\ SeqInv'
<1>1. FrameType' /\ E2EType' /\ HistoryType' /\ OwnerInv'
  BY DEF IInv, FrameType, E2EType, HistoryType, OwnerInv
<1>2. ASSUME spoiled' = {} PROVE FrameInv'
  <2>0. FrameInv
    BY <1>2 DEF IInv
  <2>1. \A n \in Numbers : senders'[n] \in {<<>>, owner'[n]} /\ (n >= count' => senders'[n] = <<>>)
    BY <2>0 DEF FrameInv
  <2>2. \A b \in Borrowers : at'[b] = "held" => frame'[lf'[b]] = Unprotected
    BY <2>0 DEF FrameInv
  <2>3. \A b \in Borrowers : at'[b] = "filled" =>
           \E k \in Numbers : k < count' /\ frame'[lf'[b]] = Header(k) /\ owner'[k] = <<b>> /\ senders'[k] = <<>>
    BY <2>0 DEF FrameInv, Own
  <2> QED
    BY <2>1, <2>2, <2>3 DEF FrameInv, Own
<1>3. SeqInv'
  BY DEF IInv, SeqInv, GapsExact
<1> QED BY <1>1, <1>2, <1>3

\* The steps of one borrower that leave its frame alone.
LEMMA LoanKeeps ==
    ASSUME IInv, NEW b \in Borrowers, Loan(b), UNCHANGED <<e2eVars, owner, senders>>
    PROVE  IInv'
<1>t. LoanType
  BY DEF IInv
<1>1. PICK o \in Objects :
        /\ pool[o] > 0 \/ Free(o)
        /\ pool' = [pool EXCEPT ![o] = IF @ > 0 THEN @ - 1 ELSE 0]
        /\ lf' = [lf EXCEPT ![b] = o]
  BY DEF Loan
<1>2. at[b] = "idle" /\ at' = [at EXCEPT ![b] = "loaned"] /\ UNCHANGED <<closed, release, frame, spoiled>>
  BY DEF Loan, Goto
<1>3. /\ pool[o] \in Nat /\ pool'[o] = (IF pool[o] > 0 THEN pool[o] - 1 ELSE 0)
      /\ \A p \in Objects \ {o} : pool'[p] = pool[p]
  BY <1>1, <1>t DEF LoanType
<1>4. LoanType'
  <2>1. loans' \in 0 .. MaxLoans
    BY <1>t, LoanAssumption DEF Loan, LoanType
  <2>2. pool' \in [Objects -> Nat]
    BY <1>1, <1>3, <1>t DEF LoanType
  <2> QED BY <2>1, <2>2, <1>1, <1>2, <1>t DEF LoanType, Labels
<1>5. o \notin spoiled => pool'[o] = 0 /\ \A c \in Borrowers : Holds(c) => lf[c] # o
  BY <1>1, <1>3, <1>t DEF IInv, PoolInv, NoTwoBorrowers, Free, LoanType
<1>6. PoolInv'
  <2>1. /\ lf'[b] = o /\ at'[b] = "loaned"
        /\ \A c \in Borrowers \ {b} : lf'[c] = lf[c] /\ at'[c] = at[c]
    BY <1>1, <1>2, <1>t DEF LoanType
  <2>2. \A c \in Borrowers : at'[c] # "idle" => lf'[c] \in Objects
    BY <2>1 DEF IInv, PoolInv, Active
  <2>3. \A p \in Objects \ spoiled' : release'[p] =>
            \E c \in Borrowers : lf'[c] = p /\ at'[c] \in {"held", "filled", "sent", "clear"}
    BY <2>1, <1>2 DEF IInv, PoolInv, InUse
  <2>4. \A p \in Objects \ spoiled' : pool'[p] <= 1
    BY <1>2, <1>3, <1>5 DEF IInv, PoolInv, NoTwoBorrowers, InUse
  <2>5. \A c \in Borrowers : Holds(c)' =>
          (c = b /\ lf'[c] = o) \/ (c # b /\ Holds(c) /\ lf'[c] = lf[c] /\ lf[c] \in Objects)
    BY <2>1 DEF IInv, PoolInv, Holds, Active
  <2>6. \A c \in Borrowers : Holds(c)' /\ lf'[c] \notin spoiled' =>
          /\ pool'[lf'[c]] = 0
          /\ \A d \in Borrowers \ {c} : Holds(d)' => lf'[d] # lf'[c]
    BY <2>1, <2>5, <1>2, <1>3, <1>5 DEF IInv, PoolInv, NoTwoBorrowers, InUse
  <2>7. NoTwoBorrowers'
    BY <2>4, <2>6 DEF NoTwoBorrowers
  <2> QED BY <2>2, <2>3, <2>7 DEF PoolInv, Active, InUse
<1>7. \A c \in Borrowers : at'[c] \in {"held", "filled"} => at'[c] = at[c] /\ lf'[c] = lf[c]
  BY <1>1, <1>2, <1>t DEF LoanType
<1> QED
  BY <1>2, <1>4, <1>6, <1>7, KeepsFrames DEF IInv

\* SendLoaned that a closed bus refuses, and a Return that finds no release.
LEMMA RefusedKeeps ==
    ASSUME IInv, NEW b \in Borrowers, SendLoanedRefused(b) \/ ReturnNothing(b),
           UNCHANGED <<e2eVars, owner, senders>>
    PROVE  IInv'
<1>t. LoanType
  BY DEF IInv
<1>1. /\ UNCHANGED <<closed, pool, release, frame, loans, lf, spoiled>>
      /\ Holds(b) /\ at[b] # "loaned"
      /\ \/ at' = [at EXCEPT ![b] = "sent"]
         \/ at' = [at EXCEPT ![b] = "idle"] /\ ~release[lf[b]]
  BY DEF SendLoanedRefused, ReturnNothing, Sends, Holds, Goto
<1>2. LoanType'
  BY <1>1, <1>t DEF LoanType, Labels
<1>3. PoolInv'
  <2>1. /\ at'[b] \in {"sent", "idle"} /\ (at'[b] = "idle" => ~release[lf[b]])
        /\ \A c \in Borrowers \ {b} : at'[c] = at[c]
    BY <1>1, <1>t DEF LoanType
  <2>2. \A c \in Borrowers : (Holds(c)' => Holds(c)) /\ (Active(c)' => Active(c))
    BY <1>1, <2>1 DEF Holds, Active
  <2>3. \A p \in Objects \ spoiled' : release'[p] =>
            \E c \in Borrowers : lf'[c] = p /\ at'[c] \in {"held", "filled", "sent", "clear"}
    BY <2>1, <1>1 DEF IInv, PoolInv, InUse
  <2> QED BY <2>2, <2>3, <1>1 DEF IInv, PoolInv, NoTwoBorrowers, InUse
<1>4. \A c \in Borrowers : at'[c] \in {"held", "filled"} => at'[c] = at[c] /\ lf'[c] = lf[c]
  BY <1>1, <1>t DEF LoanType
<1> QED
  BY <1>1, <1>2, <1>3, <1>4, KeepsFrames DEF IInv

\* Return puts the object back: its only holder lets go of it in the same step.
LEMMA ReturnPutKeeps ==
    ASSUME IInv, NEW b \in Borrowers, ReturnPut(b), UNCHANGED <<e2eVars, owner, senders>>
    PROVE  IInv'
<1>t. LoanType
  BY DEF IInv
<1>1. /\ UNCHANGED <<closed, release, frame, loans, lf, spoiled>>
      /\ Holds(b) /\ pool' = [pool EXCEPT ![lf[b]] = @ + 1]
      /\ at' = [at EXCEPT ![b] = "clear"]
  BY DEF ReturnPut, Goto
<1>2. /\ lf[b] \in Objects /\ pool[lf[b]] \in Nat
      /\ lf[b] \notin spoiled =>
           pool[lf[b]] = 0 /\ \A c \in Borrowers \ {b} : Holds(c) => lf[c] # lf[b]
  BY <1>1, <1>t DEF IInv, PoolInv, NoTwoBorrowers, Holds, Active, LoanType
<1>3. LoanType'
  <2>1. pool' \in [Objects -> Nat]
    BY <1>1, <1>2, <1>t DEF LoanType
  <2> QED BY <2>1, <1>1, <1>t DEF LoanType, Labels
<1>4. PoolInv'
  <2>1. at'[b] = "clear" /\ \A c \in Borrowers \ {b} : at'[c] = at[c]
    BY <1>1, <1>t DEF LoanType
  <2>2. pool'[lf[b]] = pool[lf[b]] + 1 /\ \A p \in Objects \ {lf[b]} : pool'[p] = pool[p]
    BY <1>1, <1>2, <1>t DEF LoanType
  <2>3. \A c \in Borrowers : Holds(c)' => Holds(c) /\ c # b /\ lf[c] \in Objects
    BY <1>1, <2>1 DEF IInv, PoolInv, Holds, Active
  <2>4. \A p \in Objects \ spoiled' : release'[p] =>
            \E c \in Borrowers : lf'[c] = p /\ at'[c] \in {"held", "filled", "sent", "clear"}
    BY <2>1, <1>1 DEF IInv, PoolInv, InUse
  <2>5. \A c \in Borrowers : Active(c)' => lf'[c] \in Objects
    BY <1>1, <1>2, <2>1 DEF IInv, PoolInv, Active
  <2>6. \A p \in Objects \ spoiled' : pool'[p] <= 1
    BY <2>2, <1>1, <1>2 DEF IInv, PoolInv, NoTwoBorrowers
  <2>7. \A c \in Borrowers : Holds(c)' /\ lf'[c] \notin spoiled' =>
          pool'[lf'[c]] = 0 /\ \A d \in Borrowers \ {c} : Holds(d)' => lf'[d] # lf'[c]
    BY <2>2, <2>3, <1>1, <1>2 DEF IInv, PoolInv, NoTwoBorrowers
  <2>8. NoTwoBorrowers'
    BY <2>6, <2>7 DEF NoTwoBorrowers
  <2> QED BY <2>4, <2>5, <2>8, <1>1 DEF PoolInv, InUse
<1>5. \A c \in Borrowers : at'[c] \in {"held", "filled"} => at'[c] = at[c] /\ lf'[c] = lf[c]
  BY <1>1, <1>t DEF LoanType
<1> QED
  BY <1>1, <1>3, <1>4, <1>5, KeepsFrames DEF IInv

\* Return clears release, possibly that of somebody else's loan by now.
LEMMA ReturnClearKeeps ==
    ASSUME IInv, NEW b \in Borrowers, ReturnClear(b), UNCHANGED <<e2eVars, owner, senders>>
    PROVE  IInv'
<1>t. LoanType
  BY DEF IInv
<1>1. /\ UNCHANGED <<closed, pool, frame, loans, lf, spoiled>>
      /\ at[b] = "clear" /\ release' = [release EXCEPT ![lf[b]] = FALSE]
      /\ at' = [at EXCEPT ![b] = "idle"]
  BY DEF ReturnClear, Goto, Cleared
<1>2. LoanType'
  BY <1>1, <1>t DEF LoanType, Labels
<1>3. PoolInv'
  <2>1. at'[b] = "idle" /\ \A c \in Borrowers \ {b} : at'[c] = at[c]
    BY <1>1, <1>t DEF LoanType
  <2>2. \A c \in Borrowers : (Holds(c)' => Holds(c)) /\ (Active(c)' => Active(c))
    BY <2>1 DEF Holds, Active
  <2>3. \A p \in Objects : release'[p] => release[p] /\ p # lf[b]
    BY <1>1, <1>t DEF LoanType
  <2>4. \A p \in Objects \ spoiled' : release'[p] =>
            \E c \in Borrowers : lf'[c] = p /\ at'[c] \in {"held", "filled", "sent", "clear"}
    BY <2>1, <2>3, <1>1 DEF IInv, PoolInv, InUse
  <2> QED BY <2>2, <2>4, <1>1 DEF IInv, PoolInv, NoTwoBorrowers, InUse
<1>4. \A c \in Borrowers : at'[c] \in {"held", "filled"} => at'[c] = at[c] /\ lf'[c] = lf[c]
  BY <1>1, <1>t DEF LoanType
<1> QED
  BY <1>1, <1>2, <1>3, <1>4, KeepsFrames DEF IInv

\* A second Return that finds release set has met the object on loan to somebody else,
\* and spoils it; what is said of the others stays true.
LEMMA ReturnAgainKeeps ==
    ASSUME IInv, NEW b \in Borrowers, ReturnAgain(b), UNCHANGED <<e2eVars, owner, senders>>
    PROVE  IInv'
<1>t. LoanType
  BY DEF IInv
<1>1. /\ at[b] = "idle" /\ lf[b] \in Objects /\ release[lf[b]]
      /\ pool' = [pool EXCEPT ![lf[b]] = @ + 1]
      /\ at' = [at EXCEPT ![b] = "clear"]
      /\ UNCHANGED <<closed, release, frame, loans, lf>>
  BY <1>t DEF ReturnAgain, LoanType, Goto
<1>2. /\ spoiled \subseteq spoiled' /\ spoiled' \subseteq Objects
      /\ lf[b] \notin spoiled => OnLoanToOther(b)
  BY <1>1, <1>t DEF ReturnAgain, LoanType, IInv, PoolInv, InUse, OnLoanToOther, Active
<1>3. lf[b] \in spoiled'
  BY <1>2 DEF ReturnAgain
<1>4. LoanType'
  <2>1. pool' \in [Objects -> Nat]
    BY <1>1, <1>t DEF LoanType
  <2> QED BY <2>1, <1>1, <1>2, <1>t DEF LoanType, Labels
<1>5. PoolInv'
  <2>1. at'[b] = "clear" /\ \A c \in Borrowers \ {b} : at'[c] = at[c]
    BY <1>1, <1>t DEF LoanType
  <2>2. \A p \in Objects \ spoiled' : p \notin spoiled /\ pool'[p] = pool[p]
    BY <1>1, <1>2, <1>3, <1>t DEF LoanType
  <2>3. \A c \in Borrowers : Holds(c)' => Holds(c) /\ lf[c] \in Objects
    BY <2>1 DEF IInv, PoolInv, Holds, Active
  <2>4. \A c \in Borrowers : Active(c)' => lf'[c] \in Objects
    BY <2>1, <1>1 DEF IInv, PoolInv, Active
  <2>5. \A p \in Objects \ spoiled' : release'[p] =>
            \E c \in Borrowers : lf'[c] = p /\ at'[c] \in {"held", "filled", "sent", "clear"}
    BY <2>1, <2>2, <1>1 DEF IInv, PoolInv, InUse
  <2>6. NoTwoBorrowers'
    BY <2>2, <2>3, <1>1 DEF IInv, PoolInv, NoTwoBorrowers
  <2> QED BY <2>4, <2>5, <2>6 DEF PoolInv, InUse
<1>6. \A c \in Borrowers : at'[c] \in {"held", "filled"} => at'[c] = at[c] /\ lf'[c] = lf[c]
  BY <1>1, <1>t DEF LoanType
<1> QED
  BY <1>1, <1>2, <1>4, <1>5, <1>6, KeepsFrames DEF IInv

\* A borrower without a loan gives up its pointer.
LEMMA ForgetKeeps ==
    ASSUME IInv, NEW b \in Borrowers, Forget(b), UNCHANGED <<e2eVars, owner, senders>>
    PROVE  IInv'
<1>t. LoanType
  BY DEF IInv
<1>1. /\ at[b] = "idle" /\ lf' = [lf EXCEPT ![b] = NoObject]
      /\ UNCHANGED <<closed, pool, release, frame, loans, at, spoiled>>
  BY DEF Forget
<1>2. LoanType'
  BY <1>1, <1>t DEF LoanType
<1>3. PoolInv'
  <2>1. \A c \in Borrowers \ {b} : lf'[c] = lf[c]
    BY <1>1, <1>t DEF LoanType
  <2>2. \A c \in Borrowers : Active(c) => c # b
    BY <1>1 DEF Active
  <2>3. \A p \in Objects \ spoiled' : release'[p] =>
            \E c \in Borrowers : lf'[c] = p /\ at'[c] \in {"held", "filled", "sent", "clear"}
    BY <2>1, <1>1 DEF IInv, PoolInv, InUse
  <2>4. \A c \in Borrowers : Holds(c)' => Holds(c) /\ c # b
    BY <1>1 DEF Holds
  <2> QED BY <2>1, <2>2, <2>3, <2>4, <1>1 DEF IInv, PoolInv, NoTwoBorrowers, Active, InUse
<1>4. \A c \in Borrowers : at'[c] \in {"held", "filled"} => at'[c] = at[c] /\ lf'[c] = lf[c]
  BY <1>1, <1>t DEF LoanType
<1> QED
  BY <1>1, <1>2, <1>3, <1>4, KeepsFrames DEF IInv

\* A garbage collection, and Close.
LEMMA CollectKeeps ==
    ASSUME IInv, Close \/ \E o \in Objects : Collect(o), UNCHANGED <<e2eVars, owner, senders>>
    PROVE  IInv'
<1>t. LoanType
  BY DEF IInv
<1>1. /\ UNCHANGED <<release, frame, loans, lf, at, spoiled>> /\ closed' \in BOOLEAN
      /\ pool' \in [Objects -> Nat]
      /\ \A o \in Objects : pool'[o] \in {0, pool[o]}
  <2>1. CASE Close
    BY <2>1, <1>t DEF Close, LoanType
  <2>2. CASE \E o \in Objects : Collect(o)
    BY <2>2, <1>t DEF Collect, LoanType
  <2> QED BY <2>1, <2>2
<1>2. LoanType'
  BY <1>1, <1>t DEF LoanType
<1>3. PoolInv'
  <2>1. \A o \in Objects \ spoiled' : pool'[o] <= 1
    BY <1>1 DEF IInv, PoolInv, NoTwoBorrowers
  <2>2. \A c \in Borrowers : Holds(c) => lf[c] \in Objects
    BY DEF IInv, PoolInv, Holds, Active
  <2>3. NoTwoBorrowers'
    BY <2>1, <2>2, <1>1 DEF IInv, PoolInv, NoTwoBorrowers, Holds
  <2> QED BY <2>3, <1>1 DEF IInv, PoolInv, Active, InUse
<1> QED
  BY <1>1, <1>2, <1>3, KeepsFrames DEF IInv

\* Loan finishes: the loan is a zero frame with a release function.
LEMMA PrepareKeeps ==
    ASSUME IInv, NEW b \in Borrowers, Prepare(b), UNCHANGED <<e2eVars, owner, senders>>
    PROVE  IInv'
<1>t. LoanType /\ FrameType /\ E2EType /\ HistoryType
  BY DEF IInv
<1>1. /\ at[b] = "loaned" /\ at' = [at EXCEPT ![b] = "held"]
      /\ release' = [release EXCEPT ![lf[b]] = TRUE]
      /\ frame' = [frame EXCEPT ![lf[b]] = Unprotected]
      /\ UNCHANGED <<closed, pool, loans, lf, spoiled>>
  BY DEF Prepare, Goto, Unprotected
<1>2. /\ lf[b] \in Objects
      /\ spoiled = {} => \A c \in Borrowers \ {b} : Holds(c) => lf[c] # lf[b]
  BY <1>1 DEF IInv, PoolInv, NoTwoBorrowers, Holds, Active
<1>3. /\ at'[b] = "held" /\ \A c \in Borrowers \ {b} : at'[c] = at[c]
      /\ frame'[lf[b]] = Unprotected /\ \A p \in Objects \ {lf[b]} : frame'[p] = frame[p]
      /\ \A p \in Objects \ {lf[b]} : release'[p] = release[p]
  BY <1>1, <1>2, <1>t DEF LoanType, FrameType
<1>4. LoanType' /\ FrameType' /\ E2EType' /\ HistoryType'
  BY <1>1, <1>2, <1>t DEF LoanType, Labels, FrameType, E2EType, HistoryType, Carried
<1>5. PoolInv'
  <2>1. \A c \in Borrowers : (Holds(c)' => Holds(c)) /\ (Active(c)' => Active(c))
    BY <1>1, <1>3 DEF Holds, Active
  <2>2. \A p \in Objects \ spoiled' : release'[p] =>
            \E c \in Borrowers : lf'[c] = p /\ at'[c] \in {"held", "filled", "sent", "clear"}
    BY <1>1, <1>3 DEF IInv, PoolInv, InUse
  <2> QED BY <2>1, <2>2, <1>1 DEF IInv, PoolInv, NoTwoBorrowers, InUse
<1>6. ASSUME spoiled' = {} PROVE FrameInv'
  <2>0. spoiled = {} /\ FrameInv
    BY <1>1, <1>6 DEF IInv
  <2>1. \A c \in Borrowers : at'[c] = "held" => frame'[lf'[c]] = Unprotected
    BY <2>0, <1>1, <1>2, <1>3 DEF FrameInv, Holds
  <2>2. \A c \in Borrowers : at'[c] = "filled" => c # b /\ at[c] = "filled" /\ frame'[lf'[c]] = frame[lf[c]]
    BY <2>0, <1>1, <1>2, <1>3 DEF Holds
  <2>3. \A c \in Borrowers : at'[c] = "filled" =>
           \E k \in Numbers : k < count' /\ frame'[lf'[c]] = Header(k) /\ owner'[k] = <<c>> /\ senders'[k] = <<>>
    <3> SUFFICES ASSUME NEW c \in Borrowers, at'[c] = "filled"
                 PROVE  \E k \in Numbers : k < count' /\ frame'[lf'[c]] = Header(k)
                                            /\ owner'[k] = <<c>> /\ senders'[k] = <<>>
      OBVIOUS
    <3>1. PICK k \in Numbers : k < count /\ Own(c, k)
      BY <2>0, <2>2 DEF FrameInv
    <3>2. count' = count /\ owner' = owner /\ senders' = senders
      OBVIOUS
    <3> QED BY <3>1, <3>2, <2>2 DEF Own
  <2>4. \A n \in Numbers : senders'[n] \in {<<>>, owner'[n]} /\ (n >= count' => senders'[n] = <<>>)
    BY <2>0 DEF FrameInv
  <2> QED BY <2>1, <2>3, <2>4 DEF FrameInv, Own
<1>7. SeqInv' /\ OwnerInv'
  BY <1>1, <1>3 DEF IInv, SeqInv, GapsExact, OwnerInv
<1> QED
  BY <1>4, <1>5, <1>6, <1>7 DEF IInv

-----------------------------------------------------------------------------
(* Numbering and sending. *)

\* What a Protector writes is a numbered message.
LEMMA HeaderNumbered ==
    ASSUME NEW n \in Numbers
    PROVE  Header(n) \in Numbered
<1>1. n \in Int /\ n % Modulus \in 0 .. Modulus - 1
  BY E2EAssumption, ModIs DEF Numbers
<1> QED
  BY <1>1 DEF Header, Numbered, Messages

\* A borrower writes its payload: nobody else has its number, or its object.
LEMMA FillKeeps ==
    ASSUME IInv, NEW b \in Borrowers, FillProtected(b)
    PROVE  IInv'
<1>t. LoanType /\ FrameType /\ E2EType /\ HistoryType
  BY DEF IInv
<1>1. /\ at[b] = "held" /\ at' = [at EXCEPT ![b] = "filled"]
      /\ frame' = [frame EXCEPT ![lf[b]] = Header(count)]
      /\ UNCHANGED <<closed, pool, release, loans, lf, spoiled>>
      /\ count < MaxProtect /\ count' = count + 1
      /\ UNCHANGED <<wire, faults, first, lastSeq, checking, latest>>
      /\ owner' = [owner EXCEPT ![count] = Append(@, b)] /\ UNCHANGED senders
  BY DEF FillProtected, Fill, Protect, Goto
<1>2. /\ lf[b] \in Objects
      /\ spoiled = {} => \A c \in Borrowers \ {b} : Holds(c) => lf[c] # lf[b]
  BY <1>1 DEF IInv, PoolInv, NoTwoBorrowers, Holds, Active
<1>3. count \in Numbers /\ count' \in 0 .. MaxProtect
  BY <1>1, <1>t, E2EAssumption DEF E2EType, Numbers
<1>4. owner[count] = <<>> /\ (spoiled = {} => senders[count] = <<>>)
  BY <1>3, <1>t, E2EAssumption DEF IInv, OwnerInv, FrameInv, E2EType
<1>5. /\ at'[b] = "filled" /\ \A c \in Borrowers \ {b} : at'[c] = at[c]
      /\ frame'[lf[b]] = Header(count) /\ \A p \in Objects \ {lf[b]} : frame'[p] = frame[p]
      /\ owner'[count] = <<b>> /\ \A n \in Numbers \ {count} : owner'[n] = owner[n]
  BY <1>1, <1>2, <1>3, <1>4, <1>t DEF LoanType, FrameType, HistoryType
<1>6. LoanType' /\ FrameType'
  BY <1>1, <1>2, <1>3, <1>t, HeaderNumbered DEF LoanType, Labels, FrameType, Carried
<1>7. E2EType' /\ HistoryType'
  <2>1. E2EType'
    BY <1>1, <1>3, <1>t DEF E2EType
  <2>2. Append(owner[count], b) \in Seq(Borrowers)
    BY <1>3, <1>t, AppendProperties DEF HistoryType
  <2>3. HistoryType'
    BY <2>2, <1>1, <1>t DEF HistoryType
  <2> QED BY <2>1, <2>3
<1>8. PoolInv'
  <2>1. \A c \in Borrowers : (Holds(c)' => Holds(c)) /\ (Active(c)' => Active(c))
    BY <1>1, <1>5 DEF Holds, Active
  <2>2. \A p \in Objects \ spoiled' : release'[p] =>
            \E c \in Borrowers : lf'[c] = p /\ at'[c] \in {"held", "filled", "sent", "clear"}
    BY <1>1, <1>5 DEF IInv, PoolInv, InUse
  <2> QED BY <2>1, <2>2, <1>1 DEF IInv, PoolInv, NoTwoBorrowers, InUse
<1>9. OwnerInv'
  <2>1. \A n \in Numbers : n >= count' => owner'[n] = <<>>
    BY <1>1, <1>3, <1>5 DEF IInv, OwnerInv, Numbers
  <2>2. ASSUME NEW n \in Numbers PROVE Len(owner'[n]) <= 1
    <3>1. CASE n = count
      BY <3>1, <1>5
    <3>2. CASE n # count
      BY <3>2, <1>5 DEF IInv, OwnerInv
    <3> QED BY <3>1, <3>2
  <2> QED BY <2>1, <2>2 DEF OwnerInv
<1>10. ASSUME spoiled' = {} PROVE FrameInv'
  <2>0. spoiled = {} /\ FrameInv
    BY <1>1, <1>10 DEF IInv
  <2>1. \A c \in Borrowers : at'[c] = "held" => frame'[lf'[c]] = Unprotected
    BY <2>0, <1>1, <1>2, <1>5 DEF FrameInv, Holds
  <2>2. \A c \in Borrowers \ {b} : at'[c] = "filled" => at[c] = "filled" /\ frame'[lf'[c]] = frame[lf[c]]
    BY <2>0, <1>1, <1>2, <1>5 DEF Holds
  <2>3. \A c \in Borrowers : at'[c] = "filled" =>
           \E k \in Numbers : k < count' /\ frame'[lf'[c]] = Header(k) /\ owner'[k] = <<c>> /\ senders'[k] = <<>>
    <3>1. \E k \in Numbers : k < count' /\ frame'[lf'[b]] = Header(k) /\ owner'[k] = <<b>> /\ senders'[k] = <<>>
      BY <2>0, <1>1, <1>3, <1>4, <1>5 DEF Numbers
    <3>2. ASSUME NEW c \in Borrowers \ {b}, at'[c] = "filled"
          PROVE  \E k \in Numbers : k < count' /\ frame'[lf'[c]] = Header(k)
                                     /\ owner'[k] = <<c>> /\ senders'[k] = <<>>
      <4>1. PICK k \in Numbers : k < count /\ Own(c, k)
        BY <2>0, <3>2, <2>2 DEF FrameInv
      <4>2. k < count' /\ owner'[k] = owner[k] /\ senders'[k] = senders[k]
        BY <4>1, <1>1, <1>3, <1>5 DEF Numbers
      <4> QED BY <4>1, <4>2, <3>2, <2>2 DEF Own
    <3> QED BY <3>1, <3>2
  <2>4. \A n \in Numbers : n >= count' => senders'[n] = <<>>
    BY <2>0, <1>1, <1>3 DEF FrameInv, Numbers
  <2>5. ASSUME NEW n \in Numbers
        PROVE  senders'[n] \in {<<>>, owner'[n]}
    <3>1. CASE n = count
      BY <3>1, <2>0, <1>1, <1>4
    <3>2. CASE n # count
      BY <3>2, <2>0, <1>1, <1>5 DEF FrameInv
    <3> QED BY <3>1, <3>2
  <2> QED BY <2>1, <2>3, <2>4, <2>5 DEF FrameInv, Own
<1>11. SeqInv'
  BY <1>1 DEF IInv, SeqInv, GapsExact
<1> QED
  BY <1>6, <1>7, <1>8, <1>9, <1>10, <1>11 DEF IInv

\* Whatever the wire does with a message, it carries numbered messages.
LEMMA TransmitType ==
    ASSUME E2EType, NEW m \in Carried, Transmit(m)
    PROVE  E2EType' /\ UNCHANGED <<count, first, lastSeq, checking, latest>>
<1>1. Append(wire, m) \in Seq(Carried)
  BY AppendProperties DEF E2EType
<1>2. CASE Deliver(m)
  BY <1>1, <1>2 DEF Deliver, Transmit, E2EType
<1>3. CASE Disturb(m)
  <2>1. faults' \in 0 .. MaxFaults
    BY <1>3, E2EAssumption DEF Disturb, E2EType
  <2>2. wire' \in Seq(Carried)
    <3>1. CASE wire' = wire
      BY <3>1 DEF E2EType
    <3>2. CASE m # Unprotected /\ wire' = Append(wire, [m EXCEPT !.sound = FALSE])
      <4>1. [m EXCEPT !.sound = FALSE] \in Carried
        BY <3>2 DEF Carried, Numbered, Messages
      <4> QED BY <3>2, <4>1, AppendProperties DEF E2EType
    <3>3. CASE \E again \in ToSet(Append(wire, m)) : wire' = wire \o <<m, again>>
      <4>1. PICK again \in ToSet(Append(wire, m)) : wire' = wire \o <<m, again>>
        BY <3>3
      <4>2. again \in Carried
        BY <1>1, ElementOfSeq DEF ToSet
      <4>3. <<m, again>> \in Seq(Carried)
        BY <4>2
      <4> QED BY <4>1, <4>3, ConcatProperties DEF E2EType
    <3> QED BY <3>1, <3>2, <3>3, <1>3 DEF Disturb
  <2> QED BY <2>1, <2>2 DEF Transmit, E2EType
<1> QED BY <1>2, <1>3 DEF Transmit

\* SendLoaned puts the borrower's own message on the wire, once.
LEMMA SendKeeps ==
    ASSUME IInv, NEW b \in Borrowers, SendProtected(b)
    PROVE  IInv'
<1>t. LoanType /\ FrameType /\ E2EType /\ HistoryType
  BY DEF IInv
<1>1. /\ at[b] \in {"held", "filled"} /\ at' = [at EXCEPT ![b] = "sent"]
      /\ UNCHANGED <<closed, pool, release, frame, loans, lf, owner, spoiled>>
      /\ Transmit(frame[lf[b]])
      /\ senders' = IF frame[lf[b]] = Unprotected THEN senders
                    ELSE [senders EXCEPT ![frame[lf[b]].n] = Append(@, b)]
  BY DEF SendProtected, SendLoaned, Sends, Goto
<1>2. lf[b] \in Objects /\ frame[lf[b]] \in Carried
  BY <1>1, <1>t DEF IInv, PoolInv, Active, FrameType
<1>3. E2EType' /\ UNCHANGED <<count, first, lastSeq, checking, latest>>
  BY <1>1, <1>2, <1>t, TransmitType
<1>4. at'[b] = "sent" /\ \A c \in Borrowers \ {b} : at'[c] = at[c]
  BY <1>1, <1>t DEF LoanType
<1>5. LoanType' /\ FrameType'
  BY <1>1, <1>t DEF LoanType, Labels, FrameType
<1>6. PoolInv'
  <2>1. \A c \in Borrowers : (Holds(c)' => Holds(c)) /\ (Active(c)' => Active(c))
    BY <1>1, <1>4 DEF Holds, Active
  <2>2. \A p \in Objects \ spoiled' : release'[p] =>
            \E c \in Borrowers : lf'[c] = p /\ at'[c] \in {"held", "filled", "sent", "clear"}
    BY <1>1, <1>4 DEF IInv, PoolInv, InUse
  <2> QED BY <2>1, <2>2, <1>1 DEF IInv, PoolInv, NoTwoBorrowers, InUse
<1>7. HistoryType' /\ OwnerInv'
  <2>1. OwnerInv'
    BY <1>1, <1>3 DEF IInv, OwnerInv
  <2>2. CASE senders' = senders
    BY <2>1, <2>2, <1>1, <1>t DEF HistoryType
  <2>3. CASE frame[lf[b]] # Unprotected
    <3>1. PICK k \in Numbers : k = frame[lf[b]].n
      BY <2>3, <1>2 DEF Carried, Numbered, Messages
    <3>2. Append(senders[k], b) \in Seq(Borrowers)
      BY <1>t, AppendProperties DEF HistoryType
    <3>3. senders' = [senders EXCEPT ![k] = Append(@, b)]
      BY <3>1, <2>3, <1>1
    <3> QED BY <2>1, <3>2, <3>3, <1>1, <1>t DEF HistoryType
  <2> QED BY <2>2, <2>3, <1>1
<1>8. ASSUME spoiled' = {} PROVE FrameInv'
  <2>0. FrameInv
    BY <1>1, <1>8 DEF IInv
  <2>1. CASE senders' = senders
    <3>2. \A c \in Borrowers : at'[c] \in {"held", "filled"} => at[c] = at'[c]
      BY <1>4
    <3>3. \A c \in Borrowers : at'[c] = "filled" =>
             \E k \in Numbers : k < count' /\ frame'[lf'[c]] = Header(k) /\ owner'[k] = <<c>> /\ senders'[k] = <<>>
      <4> SUFFICES ASSUME NEW c \in Borrowers, at'[c] = "filled"
                   PROVE  \E k \in Numbers : k < count' /\ frame'[lf'[c]] = Header(k)
                             /\ owner'[k] = <<c>> /\ senders'[k] = <<>>
        OBVIOUS
      <4>1. PICK k \in Numbers : k < count /\ Own(c, k)
        BY <2>0, <3>2 DEF FrameInv
      <4> QED BY <4>1, <2>1, <1>1, <1>3 DEF Own
    <3>4. \A c \in Borrowers : at'[c] = "held" => frame'[lf'[c]] = Unprotected
      BY <2>0, <3>2, <1>1 DEF FrameInv
    <3>5. \A n \in Numbers : senders'[n] \in {<<>>, owner'[n]} /\ (n >= count' => senders'[n] = <<>>)
      BY <2>0, <2>1, <1>1, <1>3 DEF FrameInv
    <3> QED BY <3>3, <3>4, <3>5 DEF FrameInv, Own
  <2>2. CASE frame[lf[b]] # Unprotected
    <3>1. at[b] = "filled"
      BY <2>0, <2>2, <1>1 DEF FrameInv
    <3>2. PICK k \in Numbers : k < count /\ Own(b, k)
      BY <2>0, <3>1 DEF FrameInv
    <3>3. senders' = [senders EXCEPT ![k] = Append(@, b)]
      <4>1. Header(k).n = k
        BY DEF Header
      <4> QED BY <4>1, <3>2, <2>2, <1>1 DEF Own
    <3>4. senders'[k] = <<b>> /\ \A n \in Numbers \ {k} : senders'[n] = senders[n]
      BY <3>2, <3>3, <1>t DEF HistoryType, Own
    <3>6. \A c \in Borrowers : at'[c] = "held" => frame'[lf'[c]] = Unprotected
      BY <2>0, <1>1, <1>4 DEF FrameInv
    <3>7. ASSUME NEW c \in Borrowers, at'[c] = "filled"
          PROVE  \E j \in Numbers : j < count' /\ frame'[lf'[c]] = Header(j)
                                     /\ owner'[j] = <<c>> /\ senders'[j] = <<>>
      <4>1. c # b /\ at[c] = "filled"
        BY <3>7, <1>4
      <4>2. PICK j \in Numbers : j < count /\ Own(c, j)
        BY <2>0, <4>1 DEF FrameInv
      <4>3. j # k
        BY <4>1, <4>2, <3>2 DEF Own
      <4>4. frame'[lf'[c]] = Header(j) /\ owner'[j] = <<c>> /\ senders'[j] = <<>>
        <5>1. frame' = frame /\ lf' = lf /\ owner' = owner /\ senders'[j] = senders[j]
          BY <4>2, <4>3, <3>4, <1>1
        <5> QED BY <5>1, <4>2 DEF Own
      <4>5. j < count'
        BY <4>2, <1>3
      <4> QED BY <4>2, <4>4, <4>5
    <3>8. \A n \in Numbers : n >= count' => senders'[n] = <<>>
      <4>1. k \in Int /\ count \in Int /\ k < count /\ count' = count
        BY <3>2, <1>3, <1>t, E2EAssumption DEF E2EType, Numbers
      <4>2. \A n \in Numbers : n >= count => n # k /\ senders[n] = <<>>
        <5>1. \A n \in Numbers : n >= count => senders[n] = <<>>
          BY <2>0 DEF FrameInv
        <5>2. ~(k >= count)
          BY <4>1
        <5> QED BY <5>1, <5>2
      <4> QED BY <4>1, <4>2, <3>4
    <3>9. ASSUME NEW n \in Numbers
          PROVE  senders'[n] \in {<<>>, owner'[n]}
      <4>1. CASE n = k
        BY <4>1, <3>2, <3>4, <1>1 DEF Own
      <4>2. CASE n # k
        BY <2>0, <4>2, <3>4, <1>1 DEF FrameInv
      <4> QED BY <4>1, <4>2
    <3> QED BY <3>6, <3>7, <3>8, <3>9 DEF FrameInv, Own
  <2> QED BY <2>1, <2>2, <1>1
<1>9. SeqInv'
  BY <1>3 DEF IInv, SeqInv, GapsExact
<1> QED
  BY <1>3, <1>5, <1>6, <1>7, <1>8, <1>9 DEF IInv

-----------------------------------------------------------------------------
(* The Receiver. *)

\* What Unwrap leaves alone, and that its steps change no loan.
LEMMA UnwrapKeepsLoans ==
    ASSUME IInv, UNCHANGED <<loanVars, owner, senders>>, count' = count
    PROVE  /\ LoanType' /\ FrameType' /\ HistoryType' /\ PoolInv' /\ OwnerInv'
           /\ spoiled' = {} => FrameInv'
<1>1. LoanType' /\ FrameType' /\ HistoryType' /\ OwnerInv'
  BY DEF IInv, LoanType, FrameType, HistoryType, OwnerInv
<1>2. PoolInv'
  BY DEF IInv, PoolInv, NoTwoBorrowers, Holds, Active, InUse
<1>3. ASSUME spoiled' = {} PROVE FrameInv'
  <2>0. FrameInv
    BY <1>3 DEF IInv
  <2>1. \A c \in Borrowers : at'[c] = "filled" =>
           \E k \in Numbers : k < count' /\ frame'[lf'[c]] = Header(k) /\ owner'[k] = <<c>> /\ senders'[k] = <<>>
    BY <2>0 DEF FrameInv, Own
  <2> QED BY <2>0, <2>1 DEF FrameInv, Own
<1> QED BY <1>1, <1>2, <1>3

\* The CRC part of Unwrap: a message leaves the wire.
LEMMA CheckKeeps ==
    ASSUME IInv, NEW c \in Checkers, UnwrapShort(c) \/ UnwrapCRCMismatch(c) \/ UnwrapCRCMatch(c)
    PROVE  E2EType' /\ SeqInv' /\ count' = count
<1>1. /\ wire # <<>> /\ wire' = Tail(wire)
      /\ checking' \in {checking, [checking EXCEPT ![c] = Head(wire)]}
      /\ checking' # checking => Head(wire) # Unprotected
      /\ UNCHANGED <<count, faults, first, lastSeq, latest>>
  BY DEF UnwrapShort, UnwrapCRCMismatch, UnwrapCRCMatch
<1>2. E2EType
  BY DEF IInv
<1>3. Tail(wire) \in Seq(Carried) /\ Head(wire) \in Carried
  BY <1>1, <1>2, HeadTailProperties DEF E2EType
<1>4. checking' \in [Checkers -> Numbered \cup {NoMessage}]
  BY <1>1, <1>2, <1>3 DEF E2EType, Carried
<1>5. E2EType'
  BY <1>1, <1>2, <1>3, <1>4 DEF E2EType
<1> QED
  BY <1>1, <1>5 DEF IInv, SeqInv, GapsExact

\* The sequence part of Unwrap, under the lock: what it reports is right, because
\* lastSeq is the number of the last message heard, gap or not.
LEMMA SequenceKeeps ==
    ASSUME IInv, NEW c \in Checkers, UnwrapGap(c) \/ UnwrapOk(c)
    PROVE  E2EType' /\ SeqInv' /\ count' = count
<1> DEFINE m == checking[c]
<1>1. E2EType /\ SeqInv
  BY DEF IInv
<1>2. /\ m \in Numbered /\ m.n \in Nat /\ m.seq = m.n % Modulus /\ m.seq \in 0 .. Modulus - 1
  BY <1>1, E2EAssumption DEF UnwrapGap, UnwrapOk, E2EType, Numbered, Messages, Numbers
<1>3. LastHeard \in Nat \cup {NoMessage} /\ (first => LastHeard = NoMessage)
      /\ (~first => LastHeard = latest.n /\ latest.n \in Nat /\ LastHeard # NoMessage)
  BY <1>1, E2EAssumption DEF LastHeard, SeqInv, E2EType
<1>4. ~first => (m.seq = (lastSeq + 1) % Modulus <=> (m.n - latest.n - 1) % Modulus = 0)
  <2>1. ASSUME NEW a \in Nat, NEW b \in Nat
        PROVE  a % Modulus = ((b % Modulus) + 1) % Modulus <=> (a - b - 1) % Modulus = 0
    BY <2>1, ModNext, E2EAssumption
  <2>2. ~first => lastSeq = latest.n % Modulus /\ latest.n \in Nat
    BY <1>1, <1>3 DEF SeqInv
  <2> HIDE DEF m
  <2> QED BY <2>1, <2>2, <1>2
<1>5. /\ checking' = [checking EXCEPT ![c] = NoMessage] /\ lastSeq' = m.seq
      /\ UNCHANGED <<count, wire, faults>>
  BY DEF UnwrapGap, UnwrapOk, LastOnGap
<1>6. CASE UnwrapGap(c)
  <2>1. /\ ~first /\ first' = first /\ m.seq # (lastSeq + 1) % Modulus
        /\ latest' = [kind |-> "gap", n |-> m.n, before |-> latest.n]
    BY <1>6, <1>3 DEF UnwrapGap, InSequence, Conclude
  <2>2. E2EType'
    BY <2>1, <1>1, <1>2, <1>3, <1>5 DEF E2EType
  <2>3. GapsExact'
    BY <2>1, <1>3, <1>4 DEF GapsExact
  <2> QED BY <2>1, <2>2, <2>3, <1>2, <1>5 DEF SeqInv
<1>7. CASE UnwrapOk(c)
  <2>1. /\ first' = FALSE /\ (first \/ m.seq = (lastSeq + 1) % Modulus)
        /\ latest' = [kind |-> "ok", n |-> m.n, before |-> LastHeard]
    BY <1>7 DEF UnwrapOk, InSequence, Conclude
  <2>2. E2EType'
    BY <2>1, <1>1, <1>2, <1>3, <1>5 DEF E2EType
  <2>3. GapsExact'
    BY <2>1, <1>3, <1>4 DEF GapsExact
  <2> QED BY <2>1, <2>2, <2>3, <1>2, <1>5 DEF SeqInv
<1> QED BY <1>5, <1>6, <1>7

-----------------------------------------------------------------------------
(* The theorems. *)

\* Every step keeps the invariant.
LEMMA StepKeeps == IInv /\ [Next]_vars => IInv'
<1> SUFFICES ASSUME IInv, [Next]_vars PROVE IInv'
  OBVIOUS
<1>1. ASSUME NEW b \in Borrowers, FillProtected(b) \/ SendProtected(b) PROVE IInv'
  BY <1>1, FillKeeps, SendKeeps
<1>2. CASE Handling /\ UNCHANGED <<e2eVars, owner, senders>>
  BY <1>2, LoanKeeps, PrepareKeeps, RefusedKeeps, ReturnPutKeeps, ReturnClearKeeps,
     ReturnAgainKeeps, ForgetKeeps, CollectKeeps DEF Handling
<1>3. CASE Unwrap /\ UNCHANGED <<loanVars, owner, senders>>
  BY <1>3, CheckKeeps, SequenceKeeps, UnwrapKeepsLoans DEF Unwrap, IInv
<1>4. CASE UNCHANGED vars
  <2>1. UNCHANGED <<loanVars, e2eVars, owner, senders>>
    BY <1>4 DEF vars
  <2>2. E2EType' /\ SeqInv'
    BY <2>1 DEF IInv, E2EType, SeqInv, GapsExact
  <2> QED BY <2>1, <2>2, UnwrapKeepsLoans DEF IInv
<1> QED
  BY <1>1, <1>2, <1>3, <1>4 DEF Next, Quiet

\* The invariant holds throughout.
THEOREM LoansInvariant == Spec => []IInv
BY InitInv, StepKeeps, PTL DEF Spec

\* Every variable keeps its type, whoever borrows, sends and returns what how often
\* (optional.go:29-34, virtual/bus.go:164-185, safety/e2e.go:108-168).
THEOREM LoansTypeCorrect == Spec => []TypeOK
BY LoansInvariant, TypeParts, PTL

\* However many goroutines borrow and return late, an object on loan has one borrower
\* and is not in the pool, and none is in the pool twice, unless a former borrower has
\* returned that very object again while it was on loan to another
\* (optional.go:29-34, virtual/bus.go:171-187).
THEOREM OneBorrower == Spec => []NoTwoBorrowers
<1>1. IInv => NoTwoBorrowers
  BY DEF IInv, PoolInv
<1> QED
  BY <1>1, LoansInvariant, PTL

\* No number is given to two payloads; and what SendLoaned sends is what its borrower
\* wrote, each number once, as long as no former borrower has returned again what was
\* on loan to another.
THEOREM SentIsFilled == Spec => []SentAsFilled
<1>1. IInv => SentAsFilled
  BY DEF IInv, OwnerInv, FrameInv, SentAsFilled
<1> QED
  BY <1>1, LoansInvariant, PTL

\* For every width of the counter and any faults on the wire, Unwrap reports a
\* sequence error exactly where the numbering of what it heard has a hole
\* (safety/e2e.go: Unwrap).
THEOREM GapsAreExact == Spec => []GapsExact
<1>1. IInv => GapsExact
  BY DEF IInv, SeqInv
<1> QED
  BY <1>1, LoansInvariant, PTL
=============================================================================
