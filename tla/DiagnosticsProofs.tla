-------------------------- MODULE DiagnosticsProofs --------------------------
(***************************************************************************)
(* Theorems about the diagnostic clients, for any services, items and      *)
(* number of calls, and any patience asked for.                             *)
(***************************************************************************)
EXTENDS Diagnostics, SequenceTheorems, TLAPS

USE DEF clientVars

-----------------------------------------------------------------------------
(* The inductive invariant. *)

Answers ==
    [type : {"positive", "negative", "pending"}, call : 1 .. MaxCalls,
     service : Services, item : Items]

Shape ==
    /\ kind \in Kinds /\ reliable \in BOOLEAN
    /\ calls \in Seq(Requests) /\ Len(calls) <= MaxCalls
    /\ results \in Seq({"open", "done", "refused", "failed"}) /\ Len(results) = Len(calls)
    /\ fates \in Seq({"open", "done", "refused"}) /\ Len(fates) = Len(calls)
    /\ answers \in Seq(Seq(Answers)) /\ Len(answers) = Len(calls)
    /\ toEcu \in Seq(Requests) /\ toClient \in Seq(Answers)
    /\ pendings \in 0 .. Pendings[kind] /\ (pendings > 0 => toEcu # <<>>)

\* A request under way is that of a call the ECU has not decided; the calls come in order.
Asks(r, cs, fs) == r.call \in DOMAIN cs /\ r = cs[r.call] /\ fs[r.call] = "open"
Asked ==
    /\ \A k \in Calls : calls[k].call = k
    /\ \A i \in DOMAIN toEcu : Asks(toEcu[i], calls, fates)
    /\ \A i, j \in DOMAIN toEcu : i < j => toEcu[i].call < toEcu[j].call

\* An answer says what the ECU did with the call it belongs to.
Honest(m, cs, fs) ==
    /\ m.call \in DOMAIN cs /\ m.service = cs[m.call].service /\ m.item = cs[m.call].item
    /\ m.type = "positive" => fs[m.call] = "done"
    /\ m.type = "negative" => fs[m.call] = "refused"

\* What a call that is over has taken for its answer.
Took(k) ==
    /\ k < Current => results[k] # "open"
    /\ answers[k] # <<>> <=> results[k] \in {"done", "refused"}
    /\ answers[k] # <<>> => Honest(answers[k][1], calls, fates)
    /\ results[k] = "done" =>
        /\ answers[k][1].type = "positive" /\ answers[k][1].service = calls[k].service
        /\ kind = "obd" => answers[k][1].item = calls[k].item
Heard ==
    /\ \A i \in DOMAIN toClient : Honest(toClient[i], calls, fates)
    /\ \A k \in Calls : Took(k)

\* As long as no call has failed or been misled, all that is under way belongs to the
\* call that is open, and an answer that ends it comes last.
Undisturbed == \A k \in Calls : results[k] # "failed" /\ ~Misled(k)
Last(i) == i = Len(toClient) /\ toEcu = <<>>
Settled ==
    Undisturbed =>
        /\ Waiting =>
            /\ \A i \in DOMAIN toEcu : toEcu[i].call = Current
            /\ \A i \in DOMAIN toClient :
                /\ toClient[i].call = Current
                /\ toClient[i].type = "pending" \/ Last(i)
        /\ ~Waiting => toEcu = <<>> /\ toClient = <<>>

IInv == Shape /\ Asked /\ Heard /\ Settled

-----------------------------------------------------------------------------
(* Sequences. *)

\* A sequence with an element more.
LEMMA Appended ==
    ASSUME NEW S, NEW s \in Seq(S), NEW e \in S
    PROVE  /\ Append(s, e) \in Seq(S) /\ Len(Append(s, e)) = Len(s) + 1 /\ Len(s) \in Nat
           /\ DOMAIN s = 1 .. Len(s) /\ DOMAIN Append(s, e) = 1 .. Len(s) + 1
           /\ Append(s, e)[Len(s) + 1] = e /\ Append(s, e) # <<>>
           /\ \A i \in 1 .. Len(s) : Append(s, e)[i] = s[i]
BY AppendProperties, LenProperties, EmptySeq

\* A sequence without its first element.
LEMMA Shortened ==
    ASSUME NEW S, NEW s \in Seq(S), s # <<>>
    PROVE  /\ Tail(s) \in Seq(S) /\ Len(Tail(s)) = Len(s) - 1 /\ Len(s) \in Nat /\ Len(s) > 0
           /\ DOMAIN s = 1 .. Len(s) /\ DOMAIN Tail(s) = 1 .. Len(s) - 1
           /\ Head(s) = s[1] /\ Head(s) \in S
           /\ \A i \in 1 .. Len(s) - 1 : Tail(s)[i] = s[i + 1]
BY HeadTailProperties, LenProperties, EmptySeq

\* The indices of everything kept of calls and messages.
LEMMA Indices ==
    ASSUME Shape
    PROVE  /\ Current \in 0 .. MaxCalls /\ Calls = 1 .. Current
           /\ DOMAIN results = Calls /\ DOMAIN fates = Calls /\ DOMAIN answers = Calls
           /\ Len(toEcu) \in Nat /\ DOMAIN toEcu = 1 .. Len(toEcu)
           /\ Len(toClient) \in Nat /\ DOMAIN toClient = 1 .. Len(toClient)
           /\ \A i \in DOMAIN toEcu : toEcu[i] \in Requests
           /\ \A i \in DOMAIN toClient : toClient[i] \in Answers
           /\ \A k \in Calls : /\ calls[k] \in Requests /\ answers[k] \in Seq(Answers)
                               /\ results[k] \in {"open", "done", "refused", "failed"}
                               /\ fates[k] \in {"open", "done", "refused"}
<1>1. Len(calls) \in Nat /\ Len(toEcu) \in Nat /\ Len(toClient) \in Nat
  BY LenProperties DEF Shape
<1>2. /\ DOMAIN calls = 1 .. Len(calls) /\ DOMAIN results = 1 .. Len(calls)
      /\ DOMAIN fates = 1 .. Len(calls) /\ DOMAIN answers = 1 .. Len(calls)
      /\ DOMAIN toEcu = 1 .. Len(toEcu) /\ DOMAIN toClient = 1 .. Len(toClient)
  BY LenProperties DEF Shape
<1>3. \A i \in DOMAIN toEcu : toEcu[i] \in Requests
  BY <1>2, ElementOfSeq DEF Shape
<1>4. \A i \in DOMAIN toClient : toClient[i] \in Answers
  BY <1>2, ElementOfSeq DEF Shape
<1>5. \A k \in Calls : calls[k] \in Requests /\ answers[k] \in Seq(Answers)
  BY <1>2, ElementOfSeq DEF Shape, Calls
<1>6. \A k \in Calls : /\ results[k] \in {"open", "done", "refused", "failed"}
                       /\ fates[k] \in {"open", "done", "refused"}
  BY <1>2, ElementOfSeq DEF Shape, Calls
<1> QED
  BY <1>1, <1>2, <1>3, <1>4, <1>5, <1>6, ConfigAssumption DEF Shape, Calls, Current

\* Waiting is for the last call.
LEMMA WaitingFacts ==
    ASSUME Shape, Waiting
    PROVE  Current \in Calls /\ results[Current] = "open"
BY Indices DEF Waiting

-----------------------------------------------------------------------------
(* What is said of calls and messages survives new calls and decisions. *)

\* More calls, and fates of open calls decided.
Grows == /\ \A k \in Calls : k \in DOMAIN calls' /\ calls'[k] = calls[k]
         /\ \A k \in Calls : fates[k] # "open" => fates'[k] = fates[k]

\* What was true of an answer stays true of it.
LEMMA HonestStays ==
    ASSUME Grows, NEW m, Honest(m, calls, fates)
    PROVE  Honest(m, calls', fates')
BY DEF Grows, Honest, Calls

\* What the ECU took, it took.
LEMMA TookStays ==
    ASSUME Grows, NEW k \in Calls, Took(k), k < Current' => results[k] # "open",
           results'[k] = results[k], answers'[k] = answers[k], kind' = kind
    PROVE  Took(k)'
<1>1. answers[k] # <<>> => Honest(answers[k][1], calls', fates')
  BY HonestStays DEF Took
<1>2. calls'[k] = calls[k]
  BY DEF Grows
<1> QED BY <1>1, <1>2 DEF Took

-----------------------------------------------------------------------------
(* The steps. *)

\* Nothing is under way at the start.
LEMMA InitInv == Init => IInv
<1> SUFFICES ASSUME Init PROVE IInv
  OBVIOUS
<1>1. \A S : <<>> \in Seq(S) /\ Len(<<>>) = 0
  BY EmptySeq
<1>2. DOMAIN calls = {} /\ DOMAIN toEcu = {} /\ DOMAIN toClient = {}
  BY DEF Init
<1>3. Shape
  BY <1>1, ConfigAssumption DEF Init, Shape
<1>4. Asked /\ Heard
  BY <1>2 DEF Asked, Heard, Calls
<1>5. Settled
  BY DEF Init, Settled
<1> QED BY <1>3, <1>4, <1>5 DEF IInv

\* A call: its request is the last under way.
LEMMA CallKeeps ==
    ASSUME IInv, NEW svc \in Services, NEW item \in Items, Call(svc, item)
    PROVE  IInv'
<1> DEFINE req == Request(Current + 1, svc, item)
<1>i. Shape /\ Asked /\ Heard /\ Settled
  BY DEF IInv
<1>f. /\ Current \in 0 .. MaxCalls /\ Calls = 1 .. Current
      /\ DOMAIN results = Calls /\ DOMAIN fates = Calls /\ DOMAIN answers = Calls
      /\ \A k \in Calls : results[k] # "open"
  <2>1. ~Waiting
    BY DEF Call, MayCall
  <2> QED BY <1>i, <2>1, Indices DEF Waiting, Heard, Took
<1>r. req \in Requests /\ req.call = Current + 1
  BY <1>f, ConfigAssumption DEF Call, Request, Requests
<1>p. PICK result \in {"open", "failed"} : results' = Append(results, result)
  BY DEF Call
<1>1. /\ calls' = Append(calls, req) /\ toEcu' = Append(toEcu, req)
      /\ answers' = Append(answers, <<>>) /\ fates' = Append(fates, "open")
      /\ UNCHANGED <<kind, reliable, toClient, pendings>>
  BY DEF Call
<1>2. Current + 1 <= MaxCalls
  BY <1>f, ConfigAssumption DEF Call
<1> HIDE DEF req
<1>3. /\ calls' \in Seq(Requests) /\ Current' = Current + 1 /\ Calls' = 1 .. Current + 1
      /\ calls'[Current + 1] = req /\ \A k \in Calls : calls'[k] = calls[k]
  BY <1>i, <1>f, <1>r, <1>1, Appended DEF Shape, Current, Calls
<1>4. /\ results' \in Seq({"open", "done", "refused", "failed"}) /\ Len(results') = Current + 1
      /\ results'[Current + 1] = result /\ \A k \in Calls : results'[k] = results[k]
  BY <1>i, <1>f, <1>p, Appended DEF Shape, Current
<1>5. /\ fates' \in Seq({"open", "done", "refused"}) /\ Len(fates') = Current + 1
      /\ fates'[Current + 1] = "open" /\ \A k \in Calls : fates'[k] = fates[k]
  BY <1>i, <1>f, <1>1, Appended DEF Shape, Current
<1>6. /\ answers' \in Seq(Seq(Answers)) /\ Len(answers') = Current + 1
      /\ answers'[Current + 1] = <<>> /\ \A k \in Calls : answers'[k] = answers[k]
  <2>1. <<>> \in Seq(Answers)
    BY EmptySeq
  <2> QED BY <1>i, <1>f, <1>1, <2>1, Appended DEF Shape, Current
<1>7. /\ toEcu' \in Seq(Requests) /\ toEcu' # <<>> /\ Len(toEcu) \in Nat
      /\ DOMAIN toEcu = 1 .. Len(toEcu) /\ DOMAIN toEcu' = 1 .. Len(toEcu) + 1
      /\ toEcu'[Len(toEcu) + 1] = req /\ \A i \in DOMAIN toEcu : toEcu'[i] = toEcu[i]
  <2>1. toEcu \in Seq(Requests) /\ toEcu' = Append(toEcu, req)
    BY <1>i, <1>1 DEF Shape
  <2> QED BY <2>1, <1>r, Appended
<1>8. Shape'
  BY <1>i, <1>1, <1>2, <1>3, <1>4, <1>5, <1>6, <1>7 DEF Shape, Current
<1>9. Grows
  BY <1>3, <1>5, <1>f DEF Grows, Calls
<1>10. Asked'
  <2>1. \A k \in Calls' : calls'[k].call = k
    BY <1>i, <1>f, <1>3, <1>r DEF Asked
  <2>2. ASSUME NEW i \in DOMAIN toEcu' PROVE Asks(toEcu'[i], calls', fates')
    <3>1. CASE i = Len(toEcu) + 1
      BY <3>1, <1>3, <1>5, <1>7, <1>f, <1>r DEF Asks, Calls
    <3>2. CASE i \in DOMAIN toEcu
      BY <3>2, <1>i, <1>3, <1>5, <1>7, <1>f DEF Asked, Asks, Calls
    <3> QED BY <3>1, <3>2, <1>7
  <2>3. \A i \in DOMAIN toEcu : toEcu[i].call \in 1 .. Current
    BY <1>i, <1>f DEF Asked, Asks, Calls
  <2>4. \A i, j \in DOMAIN toEcu' : i < j => toEcu'[i].call < toEcu'[j].call
    BY <2>3, <1>7, <1>i, <1>f, <1>r DEF Asked
  <2> QED BY <2>1, <2>2, <2>4 DEF Asked
<1>11. Heard'
  <2>1. \A i \in DOMAIN toClient' : Honest(toClient'[i], calls', fates')
    BY <1>1, <1>i, <1>9, HonestStays DEF Heard
  <2>2. ASSUME NEW k \in Calls' PROVE Took(k)'
    <3>1. CASE k = Current + 1
      BY <3>1, <1>p, <1>3, <1>4, <1>6, <1>f DEF Took
    <3>2. CASE k \in Calls
      BY <3>2, <1>f, <1>i, <1>9, <1>1, <1>4, <1>6, TookStays DEF Heard
    <3> QED BY <3>1, <3>2, <1>3, <1>f
  <2> QED BY <2>1, <2>2 DEF Heard
<1>12. Settled'
  <2> SUFFICES ASSUME Undisturbed'
               PROVE  /\ Waiting' /\ toClient' = <<>>
                      /\ \A i \in DOMAIN toEcu' : toEcu'[i].call = Current'
    BY DEF Settled
  <2>1. Undisturbed
    BY <1>1, <1>3, <1>4, <1>6, <1>f DEF Undisturbed, Misled
  <2>2. toEcu = <<>> /\ toClient = <<>>
    BY <2>1, <1>i DEF Settled, Call, MayCall
  <2>3. result = "open"
    BY <1>3, <1>4, <1>p, <1>f DEF Undisturbed
  <2>4. DOMAIN toEcu = {}
    BY <2>2
  <2> QED BY <2>2, <2>3, <2>4, <1>1, <1>3, <1>4, <1>7, <1>r, <1>f DEF Waiting
<1> QED BY <1>8, <1>10, <1>11, <1>12 DEF IInv

\* A call that ends: what it took is honest, and if nothing has gone wrong so far
\* nothing is left under way.
LEMMA ReturnKeeps ==
    ASSUME IInv, Waiting, NEW result \in {"done", "refused", "failed"},
           NEW answer \in Seq(Answers), Return(result, answer),
           toClient' \in Seq(Answers),
           \A i \in DOMAIN toClient' : Honest(toClient'[i], calls, fates),
           answer # <<>> <=> result \in {"done", "refused"},
           answer # <<>> => Honest(answer[1], calls, fates),
           result = "done" => /\ answer[1].type = "positive" /\ answer[1].service = Req.service
                              /\ kind = "obd" => answer[1].item = Req.item,
           Undisturbed' => toEcu = <<>> /\ toClient' = <<>>
    PROVE  IInv'
<1>i. Shape /\ Asked /\ Heard
  BY DEF IInv
<1>f. /\ Current \in Calls /\ Calls = 1 .. Current /\ Current \in Nat
      /\ Len(results) = Current /\ Len(answers) = Current
      /\ results \in Seq({"open", "done", "refused", "failed"}) /\ answers \in Seq(Seq(Answers))
  BY <1>i, WaitingFacts, Indices DEF Shape, Current
<1>1. /\ results' = [results EXCEPT ![Current] = result]
      /\ answers' = [answers EXCEPT ![Current] = answer]
      /\ UNCHANGED <<kind, reliable, calls, toEcu, pendings, fates>>
      /\ Calls' = Calls /\ Current' = Current
  BY DEF Return, Calls, Current
<1>2. /\ results' \in Seq({"open", "done", "refused", "failed"}) /\ Len(results') = Len(results)
      /\ results'[Current] = result /\ \A k \in Calls \ {Current} : results'[k] = results[k]
  BY <1>f, <1>1, ExceptSeq
<1>3. /\ answers' \in Seq(Seq(Answers)) /\ Len(answers') = Len(answers)
      /\ answers'[Current] = answer /\ \A k \in Calls \ {Current} : answers'[k] = answers[k]
  BY <1>f, <1>1, ExceptSeq
<1>4. Shape'
  BY <1>i, <1>1, <1>2, <1>3 DEF Shape
<1>5. Asked'
  BY <1>i, <1>1 DEF Asked
<1>6. Heard'
  <2>1. ASSUME NEW k \in Calls PROVE Took(k)'
    <3>1. CASE k = Current
      BY <3>1, <1>1, <1>2, <1>3, <1>f DEF Took, Req
    <3>2. CASE k # Current
      BY <3>2, <1>i, <1>1, <1>2, <1>3, <1>f DEF Took, Heard
    <3> QED BY <3>1, <3>2
  <2> QED BY <2>1, <1>1 DEF Heard
<1>7. ~Waiting'
  BY <1>1, <1>2, <1>f DEF Waiting
<1>8. Settled'
  BY <1>1, <1>7 DEF Settled
<1> QED BY <1>4, <1>5, <1>6, <1>8 DEF IInv

\* Nothing had gone wrong before a call that ends well.
LEMMA UndisturbedBefore ==
    ASSUME IInv, Waiting, NEW result, NEW answer, Return(result, answer), Undisturbed'
    PROVE  Undisturbed
<1>i. Shape /\ Heard
  BY DEF IInv
<1>f. /\ Current \in Calls /\ Calls = 1 .. Current /\ Current \in Nat /\ results[Current] = "open"
      /\ DOMAIN results = Calls /\ DOMAIN answers = Calls
  BY <1>i, WaitingFacts, Indices
<1>1. /\ \A k \in Calls \ {Current} : results'[k] = results[k] /\ answers'[k] = answers[k]
      /\ Calls' = Calls /\ kind' = kind
  BY <1>f DEF Return, Calls
<1>2. answers[Current] = <<>>
  BY <1>i, <1>f DEF Heard, Took
<1> QED BY <1>1, <1>2, <1>f DEF Undisturbed, Misled

\* The client takes the answer at the head of what has arrived.
LEMMA TakeFacts ==
    ASSUME IInv, CanRecv, Take
    PROVE  /\ toClient' \in Seq(Answers)
           /\ \A i \in DOMAIN toClient' : Honest(toClient'[i], calls, fates)
           /\ Head(toClient) \in Answers /\ Honest(Head(toClient), calls, fates)
           /\ <<Head(toClient)>> \in Seq(Answers)
           /\ <<Head(toClient)>> # <<>> /\ <<Head(toClient)>>[1] = Head(toClient)
           /\ Undisturbed /\ Head(toClient).type # "pending" => toEcu = <<>> /\ toClient' = <<>>
<1>i. Shape /\ Heard /\ Settled
  BY DEF IInv
<1>0. Waiting /\ toClient # <<>> /\ toClient' = Tail(toClient) /\ toClient \in Seq(Answers)
  BY <1>i DEF CanRecv, Take, Shape
<1>1. /\ toClient' \in Seq(Answers) /\ Len(toClient') = Len(toClient) - 1
      /\ Len(toClient) \in Nat /\ Len(toClient) > 0
      /\ DOMAIN toClient = 1 .. Len(toClient) /\ DOMAIN toClient' = 1 .. Len(toClient) - 1
      /\ Head(toClient) = toClient[1] /\ Head(toClient) \in Answers
      /\ \A i \in 1 .. Len(toClient) - 1 : toClient'[i] = toClient[i + 1]
  BY <1>0, Shortened
<1>2. \A i \in DOMAIN toClient' : Honest(toClient'[i], calls, fates)
  BY <1>1, <1>i DEF Heard
<1>3. Honest(Head(toClient), calls, fates)
  BY <1>1, <1>i DEF Heard
<1>4. ASSUME Undisturbed, Head(toClient).type # "pending"
      PROVE  toEcu = <<>> /\ toClient' = <<>>
  <2>1. Last(1)
    BY <1>0, <1>1, <1>4, <1>i DEF Settled
  <2>2. Len(toClient') = 0
    BY <2>1, <1>1 DEF Last
  <2> QED BY <2>1, <2>2, <1>1, EmptySeq DEF Last
<1>5. <<Head(toClient)>> \in Seq(Answers) /\ <<Head(toClient)>> # <<>>
      /\ <<Head(toClient)>>[1] = Head(toClient)
  BY <1>1
<1> QED BY <1>1, <1>2, <1>3, <1>4, <1>5

\* The client's receive ends the call.
LEMMA RecvKeeps ==
    ASSUME IInv, RecvNegative \/ RecvPositive \/ RecvUnexpected \/ RecvFails
    PROVE  IInv'
<1>i. Shape /\ Heard
  BY DEF IInv
<1>k. kind \in {"uds", "obd"}
  BY <1>i, ConfigAssumption DEF Shape
<1>e. <<>> \in Seq(Answers)
  BY EmptySeq
<1>1. CASE RecvNegative
  <2>0. CanRecv /\ Waiting /\ Take /\ IsRefusal(Head(toClient)) /\ Return("refused", <<Head(toClient)>>)
    BY <1>1 DEF RecvNegative, CanRecv
  <2>1. Undisturbed' => Head(toClient).type # "pending"
    <3> SUFFICES ASSUME Undisturbed', Head(toClient).type = "pending" PROVE FALSE
      OBVIOUS
    <3>1. kind = "obd" /\ kind' = kind
      BY <2>0, <1>k DEF IsRefusal, IsPending, Return
    <3>2. Current \in Calls /\ Current \in DOMAIN answers /\ Calls' = Calls
      BY <1>i, <2>0, WaitingFacts, Indices DEF Return, Calls
    <3>3. answers'[Current] = <<Head(toClient)>>
      BY <2>0, <3>2 DEF Return
    <3> QED BY <3>1, <3>2, <3>3, <2>0, TakeFacts DEF Undisturbed, Misled
  <2>2. Undisturbed' => toEcu = <<>> /\ toClient' = <<>>
    BY <2>0, <2>1, TakeFacts, UndisturbedBefore
  <2> QED BY <2>0, <2>2, TakeFacts, ReturnKeeps
<1>2. CASE RecvPositive
  <2>0. CanRecv /\ Waiting /\ Take /\ Expected(Head(toClient)) /\ Return("done", <<Head(toClient)>>)
        /\ Head(toClient).type = "positive"
    BY <1>2 DEF RecvPositive, CanRecv
  <2>1. Undisturbed' => toEcu = <<>> /\ toClient' = <<>>
    BY <2>0, TakeFacts, UndisturbedBefore
  <2>2. /\ Head(toClient).service = Req.service
        /\ kind = "obd" => Head(toClient).item = Req.item
    BY <2>0 DEF Expected, UdsExpects, ObdExpects
  <2> QED BY <2>0, <2>1, <2>2, TakeFacts, ReturnKeeps
<1>3. CASE RecvUnexpected
  <2>0. CanRecv /\ Waiting /\ Take /\ Return("failed", <<>>) /\ Head(toClient).type = "positive"
    BY <1>3 DEF RecvUnexpected, CanRecv, NoData
  <2>1. Undisturbed' => toEcu = <<>> /\ toClient' = <<>>
    BY <2>0, TakeFacts, UndisturbedBefore
  <2> QED BY <2>0, <2>1, <1>e, TakeFacts, ReturnKeeps
<1>4. CASE RecvFails
  <2>0. Waiting /\ Return("failed", <<>>) /\ toClient' = toClient
    BY <1>4 DEF RecvFails
  <2>1. ~Undisturbed'
    <3>1. Current \in Calls /\ Current \in DOMAIN results /\ Calls' = Calls
      BY <1>i, <2>0, WaitingFacts, Indices DEF Return, Calls
    <3>2. results'[Current] = "failed"
      BY <2>0, <3>1 DEF Return
    <3> QED BY <3>1, <3>2 DEF Undisturbed
  <2>2. toClient' \in Seq(Answers) /\ \A i \in DOMAIN toClient' : Honest(toClient'[i], calls, fates)
    BY <1>i, <2>0 DEF Shape, Heard
  <2> QED BY <2>0, <2>1, <2>2, <1>e, ReturnKeeps
<1> QED BY <1>1, <1>2, <1>3, <1>4

\* Messages that are lost, or an answer that asks for patience and is taken.
LEMMA FewerKeeps ==
    ASSUME IInv, RecvPending \/ Lose
    PROVE  IInv'
<1>i. Shape /\ Asked /\ Heard /\ Settled
  BY DEF IInv
<1>0. UNCHANGED <<kind, reliable, calls, results, answers, pendings, fates>>
  BY DEF RecvPending, Lose
<1>1. /\ \/ toEcu' = toEcu
         \/ toEcu # <<>> /\ pendings = 0 /\ toEcu' = Tail(toEcu)
      /\ \/ toClient' = toClient
         \/ toClient # <<>> /\ toClient' = Tail(toClient)
  BY DEF RecvPending, Lose, CanRecv, Take
<1>2. PICK d \in {0, 1} :
        /\ toEcu' \in Seq(Requests) /\ Len(toEcu') = Len(toEcu) - d /\ Len(toEcu) \in Nat
        /\ DOMAIN toEcu = 1 .. Len(toEcu) /\ DOMAIN toEcu' = 1 .. Len(toEcu) - d
        /\ \A i \in DOMAIN toEcu' : toEcu'[i] = toEcu[i + d]
        /\ d = 1 => pendings = 0 /\ toEcu # <<>>
        /\ d = 0 => toEcu' = toEcu
  <2>0. toEcu \in Seq(Requests)
    BY <1>i DEF Shape
  <2>1. CASE toEcu' = toEcu
    <3> WITNESS 0 \in {0, 1}
    <3> QED BY <2>0, <2>1, LenProperties
  <2>2. CASE toEcu # <<>> /\ pendings = 0 /\ toEcu' = Tail(toEcu)
    <3> WITNESS 1 \in {0, 1}
    <3> QED BY <2>0, <2>2, Shortened
  <2> QED BY <1>1, <2>1, <2>2
<1>3. PICK e \in {0, 1} :
        /\ toClient' \in Seq(Answers) /\ Len(toClient') = Len(toClient) - e /\ Len(toClient) \in Nat
        /\ DOMAIN toClient = 1 .. Len(toClient) /\ DOMAIN toClient' = 1 .. Len(toClient) - e
        /\ \A i \in DOMAIN toClient' : toClient'[i] = toClient[i + e]
        /\ e = 1 => toClient # <<>>
        /\ e = 0 => toClient' = toClient
  <2>0. toClient \in Seq(Answers)
    BY <1>i DEF Shape
  <2>1. CASE toClient' = toClient
    <3> WITNESS 0 \in {0, 1}
    <3> QED BY <2>0, <2>1, LenProperties
  <2>2. CASE toClient # <<>> /\ toClient' = Tail(toClient)
    <3> WITNESS 1 \in {0, 1}
    <3> QED BY <2>0, <2>2, Shortened
  <2> QED BY <1>1, <2>1, <2>2
<1>4. Shape'
  <2>1. pendings > 0 => toEcu' # <<>>
    BY <1>2, <1>i DEF Shape
  <2> QED BY <1>i, <1>0, <1>2, <1>3, <2>1 DEF Shape
<1>5. Asked'
  <2>1. \A i \in DOMAIN toEcu' : i + d \in DOMAIN toEcu
    BY <1>2
  <2>2. \A i \in DOMAIN toEcu' : Asks(toEcu'[i], calls', fates')
    BY <1>0, <1>2, <1>i, <2>1 DEF Asked
  <2>3. \A i, j \in DOMAIN toEcu' : i < j => toEcu'[i].call < toEcu'[j].call
    <3> SUFFICES ASSUME NEW i \in DOMAIN toEcu', NEW j \in DOMAIN toEcu', i < j
                 PROVE  toEcu'[i].call < toEcu'[j].call
      OBVIOUS
    <3>1. i + d < j + d /\ toEcu'[i] = toEcu[i + d] /\ toEcu'[j] = toEcu[j + d]
      BY <1>2
    <3> QED BY <3>1, <2>1, <1>i DEF Asked
  <2> QED BY <2>2, <2>3, <1>0, <1>i DEF Asked, Calls
<1>6. Heard'
  <2>1. \A k \in Calls : Took(k)'
    BY <1>0, <1>i DEF Took, Heard, Current
  <2>2. \A i \in DOMAIN toClient' : Honest(toClient'[i], calls', fates')
    BY <1>0, <1>3, <1>i DEF Heard
  <2> QED BY <1>0, <2>1, <2>2 DEF Heard, Calls
<1>7. Settled'
  <2> SUFFICES ASSUME Undisturbed'
               PROVE  /\ Waiting' =>
                          /\ \A i \in DOMAIN toEcu' : toEcu'[i].call = Current'
                          /\ \A i \in DOMAIN toClient' :
                              /\ toClient'[i].call = Current'
                              /\ toClient'[i].type = "pending" \/ Last(i)'
                      /\ ~Waiting' => toEcu' = <<>> /\ toClient' = <<>>
    BY DEF Settled
  <2>1. Undisturbed /\ (Waiting' <=> Waiting) /\ Current' = Current
    BY <1>0 DEF Undisturbed, Misled, Waiting, Calls, Current
  <2>2. CASE ~Waiting
    <3>1. toEcu = <<>> /\ toClient = <<>>
      BY <2>1, <2>2, <1>i DEF Settled
    <3> QED BY <3>1, <2>1, <2>2, <1>2, <1>3
  <2>3. CASE Waiting
    <3>1. \A i \in DOMAIN toEcu' : toEcu'[i].call = Current
      BY <2>1, <2>3, <1>2, <1>i DEF Settled
    <3>2. toEcu = <<>> => toEcu' = <<>>
      BY <1>2
    <3>3. ASSUME NEW i \in DOMAIN toClient'
          PROVE  toClient'[i].call = Current /\ (toClient'[i].type = "pending" \/ Last(i)')
      <4>1. PICK j \in DOMAIN toClient : toClient'[i] = toClient[j] /\ (j = Len(toClient) => i = Len(toClient'))
        BY <1>3
      <4>2. toClient[j].call = Current /\ (toClient[j].type = "pending" \/ Last(j))
        BY <2>1, <2>3, <1>i DEF Settled
      <4> QED BY <4>1, <4>2, <3>2 DEF Last
    <3> QED BY <3>1, <3>3, <2>1, <2>3
  <2> QED BY <2>2, <2>3
<1> QED BY <1>4, <1>5, <1>6, <1>7 DEF IInv

\* The ECU adds an answer to its current request: what is known of that request.
LEMMA EcuFacts ==
    ASSUME IInv, toEcu # <<>>, NEW type \in {"positive", "negative", "pending"},
           toClient' = Append(toClient, Answer(Head(toEcu), type))
    PROVE  /\ toClient' \in Seq(Answers) /\ Len(toClient) \in Nat
           /\ Len(toClient') = Len(toClient) + 1
           /\ DOMAIN toClient = 1 .. Len(toClient) /\ DOMAIN toClient' = 1 .. Len(toClient) + 1
           /\ toClient'[Len(toClient) + 1] = Answer(Head(toEcu), type)
           /\ \A i \in DOMAIN toClient : toClient'[i] = toClient[i]
           /\ Asks(Head(toEcu), calls, fates) /\ Head(toEcu) = toEcu[1] /\ 1 \in DOMAIN toEcu
           /\ Undisturbed => Waiting /\ Head(toEcu).call = Current
           /\ Undisturbed => \A i \in DOMAIN toClient : toClient[i].call = Current /\ toClient[i].type = "pending"
<1>i. Shape /\ Asked /\ Settled
  BY DEF IInv
<1>1. toEcu \in Seq(Requests) /\ toClient \in Seq(Answers)
  BY <1>i DEF Shape
<1>2. Head(toEcu) \in Requests /\ Head(toEcu) = toEcu[1] /\ 1 \in DOMAIN toEcu
  BY <1>1, Shortened
<1>3. Answer(Head(toEcu), type) \in Answers
  BY <1>2 DEF Answer, Answers, Requests
<1>4. Asks(Head(toEcu), calls, fates)
  BY <1>2, <1>i DEF Asked
<1>5. Undisturbed => Waiting /\ Head(toEcu).call = Current
  BY <1>2, <1>i DEF Settled
<1>6. Undisturbed => \A i \in DOMAIN toClient : toClient[i].call = Current /\ toClient[i].type = "pending"
  BY <1>5, <1>i DEF Settled, Last
<1> HIDE DEF Answer
<1> QED BY <1>1, <1>2, <1>3, <1>4, <1>5, <1>6, Appended

\* The ECU asks for patience.
LEMMA EcuPendingKeeps ==
    ASSUME IInv, EcuPending
    PROVE  IInv'
<1>i. Shape /\ Asked /\ Heard /\ Settled
  BY DEF IInv
<1>0. /\ toEcu # <<>> /\ pendings < Pendings[kind] /\ pendings' = pendings + 1
      /\ UNCHANGED <<kind, reliable, calls, results, answers, toEcu, fates>>
      /\ toClient' = Append(toClient, Answer(Head(toEcu), "pending"))
  BY DEF EcuPending
<1>1. /\ toClient' \in Seq(Answers) /\ Len(toClient) \in Nat
      /\ Len(toClient') = Len(toClient) + 1
      /\ DOMAIN toClient = 1 .. Len(toClient) /\ DOMAIN toClient' = 1 .. Len(toClient) + 1
      /\ toClient'[Len(toClient) + 1] = Answer(Head(toEcu), "pending")
      /\ \A i \in DOMAIN toClient : toClient'[i] = toClient[i]
      /\ Asks(Head(toEcu), calls, fates)
      /\ Undisturbed => Waiting /\ Head(toEcu).call = Current
      /\ Undisturbed => \A i \in DOMAIN toClient : toClient[i].call = Current /\ toClient[i].type = "pending"
  BY <1>0, EcuFacts
<1>2. Shape'
  <2>1. Pendings[kind] \in Nat
    BY <1>i, ConfigAssumption DEF Shape
  <2> QED BY <1>0, <1>1, <1>i, <2>1 DEF Shape
<1>3. Asked'
  BY <1>0, <1>i DEF Asked, Calls
<1>4. Heard'
  <2>1. \A k \in Calls : Took(k)'
    BY <1>0, <1>i DEF Took, Heard, Current
  <2>2. Honest(Answer(Head(toEcu), "pending"), calls, fates)
    BY <1>1 DEF Asks, Honest, Answer
  <2>3. \A i \in DOMAIN toClient' : Honest(toClient'[i], calls', fates')
    BY <1>0, <1>1, <1>i, <2>2 DEF Heard
  <2> QED BY <1>0, <2>1, <2>3 DEF Heard, Calls
<1>5. Settled'
  <2>1. (Undisturbed' <=> Undisturbed) /\ (Waiting' <=> Waiting) /\ Current' = Current
    BY <1>0 DEF Undisturbed, Misled, Waiting, Calls, Current
  <2>2. Answer(Head(toEcu), "pending").type = "pending" /\ Answer(Head(toEcu), "pending").call = Head(toEcu).call
    BY DEF Answer
  <2>3. Undisturbed => \A i \in DOMAIN toClient' : toClient'[i].call = Current /\ toClient'[i].type = "pending"
    BY <1>1, <2>2
  <2>4. Undisturbed => Waiting /\ \A i \in DOMAIN toEcu : toEcu[i].call = Current
    BY <1>1, <1>i DEF Settled
  <2> QED BY <1>0, <2>1, <2>3, <2>4 DEF Settled
<1> QED BY <1>2, <1>3, <1>4, <1>5 DEF IInv

\* The ECU decides: its answer is the last.
LEMMA EcuAnswersKeeps ==
    ASSUME IInv, EcuDecides
    PROVE  IInv' /\ Grows
<1>i. Shape /\ Asked /\ Heard /\ Settled
  BY DEF IInv
<1>p. PICK type \in {"positive", "negative"} : \E fate \in {"done", "refused"} :
        /\ EcuAnswers(type, fate)
        /\ (type = "positive" /\ fate = "done") \/ (type = "negative" /\ fate = "refused")
  BY DEF EcuDecides
<1>q. PICK fate \in {"done", "refused"} :
        /\ EcuAnswers(type, fate)
        /\ (type = "positive" /\ fate = "done") \/ (type = "negative" /\ fate = "refused")
  BY <1>p
<1> DEFINE ans == Answer(Head(toEcu), type)
           now == Head(toEcu).call
<1>0. /\ toEcu # <<>> /\ toEcu' = Tail(toEcu) /\ pendings' = 0
      /\ UNCHANGED <<kind, reliable, calls, results, answers>>
      /\ toClient' = Append(toClient, ans)
      /\ fates' = [fates EXCEPT ![now] = fate]
  BY <1>q DEF EcuAnswers
<1>1. /\ toClient' \in Seq(Answers) /\ Len(toClient) \in Nat
      /\ Len(toClient') = Len(toClient) + 1
      /\ DOMAIN toClient = 1 .. Len(toClient) /\ DOMAIN toClient' = 1 .. Len(toClient) + 1
      /\ toClient'[Len(toClient) + 1] = ans
      /\ \A i \in DOMAIN toClient : toClient'[i] = toClient[i]
      /\ Asks(Head(toEcu), calls, fates) /\ Head(toEcu) = toEcu[1]
      /\ Undisturbed => Waiting /\ now = Current
      /\ Undisturbed => \A i \in DOMAIN toClient : toClient[i].call = Current /\ toClient[i].type = "pending"
  BY <1>0, EcuFacts
<1>a. ans.type = type /\ ans.call = now /\ ans.service = Head(toEcu).service /\ ans.item = Head(toEcu).item
  BY DEF Answer
<1> HIDE DEF ans
<1>2. /\ toEcu' \in Seq(Requests) /\ Len(toEcu') = Len(toEcu) - 1 /\ Len(toEcu) \in Nat
      /\ DOMAIN toEcu = 1 .. Len(toEcu) /\ DOMAIN toEcu' = 1 .. Len(toEcu) - 1 /\ Len(toEcu) > 0
      /\ \A i \in DOMAIN toEcu' : toEcu'[i] = toEcu[i + 1]
  <2>1. toEcu \in Seq(Requests)
    BY <1>i DEF Shape
  <2> QED BY <2>1, <1>0, Shortened
<1>3. /\ now \in Calls /\ fates[now] = "open" /\ Head(toEcu) = calls[now]
      /\ fates' \in Seq({"open", "done", "refused"}) /\ Len(fates') = Len(fates)
      /\ fates'[now] = fate /\ \A k \in Calls \ {now} : fates'[k] = fates[k]
  <2>1. now \in Calls /\ fates[now] = "open" /\ Head(toEcu) = calls[now]
    BY <1>1 DEF Asks, Calls
  <2>2. Calls = 1 .. Len(fates) /\ fates \in Seq({"open", "done", "refused"})
    BY <1>i, Indices DEF Shape, Current
  <2> HIDE DEF now
  <2> QED BY <2>1, <2>2, <1>0, ExceptSeq
<1>4. Shape'
  <2>1. Pendings[kind] \in Nat
    BY <1>i, ConfigAssumption DEF Shape
  <2> QED BY <1>0, <1>1, <1>2, <1>3, <1>i, <2>1 DEF Shape
<1>5. Grows
  BY <1>0, <1>3 DEF Grows, Calls
<1>6. Asked'
  <2>1. ASSUME NEW i \in DOMAIN toEcu' PROVE Asks(toEcu'[i], calls', fates')
    <3>1. i + 1 \in DOMAIN toEcu /\ 1 \in DOMAIN toEcu /\ 1 < i + 1 /\ toEcu'[i] = toEcu[i + 1]
      BY <1>2
    <3>2. Asks(toEcu[i + 1], calls, fates) /\ toEcu[1].call < toEcu[i + 1].call
      BY <3>1, <1>i DEF Asked
    <3>3. now \in 1 .. Current /\ toEcu[i + 1].call \in Calls /\ Calls = 1 .. Current /\ Current \in Nat
      BY <3>2, <1>3, <1>i, Indices DEF Asks, Calls
    <3>4. toEcu[i + 1].call # now
      BY <3>2, <3>3, <1>1
    <3> QED BY <3>1, <3>2, <3>3, <3>4, <1>0, <1>3 DEF Asks
  <2>2. \A i, j \in DOMAIN toEcu' : i < j => toEcu'[i].call < toEcu'[j].call
    BY <1>2, <1>i DEF Asked
  <2> QED BY <2>1, <2>2, <1>0, <1>i DEF Asked, Calls
<1>7. Heard'
  <2>1. \A k \in Calls : Took(k)'
    BY <1>0, <1>5, <1>i, TookStays DEF Took, Heard, Current
  <2>2. Honest(ans, calls', fates')
    BY <1>0, <1>3, <1>a, <1>q DEF Honest, Calls
  <2>3. \A i \in DOMAIN toClient : Honest(toClient[i], calls', fates')
    BY <1>5, <1>i, HonestStays DEF Heard
  <2>4. \A i \in DOMAIN toClient' : Honest(toClient'[i], calls', fates')
    BY <1>1, <2>2, <2>3
  <2> QED BY <1>0, <2>1, <2>4 DEF Heard, Calls
<1>8. Settled'
  <2>1. (Undisturbed' <=> Undisturbed) /\ (Waiting' <=> Waiting) /\ Current' = Current
    BY <1>0 DEF Undisturbed, Misled, Waiting, Calls, Current
  <2>2. ASSUME Undisturbed
        PROVE  /\ Waiting /\ toEcu' = <<>>
               /\ \A i \in DOMAIN toClient' : toClient'[i].call = Current
                                              /\ (toClient'[i].type = "pending" \/ i = Len(toClient'))
    <3>1. Waiting /\ now = Current /\ \A i \in DOMAIN toEcu : toEcu[i].call = Current
      BY <2>2, <1>1, <1>i DEF Settled
    <3>2. Len(toEcu) = 1
      <4> SUFFICES ASSUME Len(toEcu) > 1 PROVE FALSE
        BY <1>2
      <4>1. 1 \in DOMAIN toEcu /\ 2 \in DOMAIN toEcu
        BY <1>2
      <4>2. toEcu[1].call < toEcu[2].call /\ Current \in Nat
        BY <4>1, <1>i, Indices DEF Asked
      <4> QED BY <4>1, <4>2, <3>1
    <3>3. toEcu' = <<>>
      BY <3>2, <1>2, EmptySeq
    <3> QED BY <3>1, <3>3, <2>2, <1>1, <1>a
  <2>3. toEcu' = <<>> => DOMAIN toEcu' = {}
    OBVIOUS
  <2> QED BY <2>1, <2>2, <2>3 DEF Settled, Last
<1> QED BY <1>4, <1>5, <1>6, <1>7, <1>8 DEF IInv

-----------------------------------------------------------------------------
(* The invariant and what follows from it. *)

\* Every step of Next keeps the invariant.
LEMMA NextInv == IInv /\ [Next]_vars => IInv'
<1> SUFFICES ASSUME IInv, [Next]_vars PROVE IInv'
  OBVIOUS
<1>1. ASSUME NEW svc \in Services, NEW item \in Items, Call(svc, item) PROVE IInv'
  BY <1>1, CallKeeps
<1>2. CASE RecvPending \/ Lose
  BY <1>2, FewerKeeps
<1>3. CASE RecvNegative \/ RecvPositive \/ RecvUnexpected \/ RecvFails
  BY <1>3, RecvKeeps
<1>4. CASE EcuPending
  BY <1>4, EcuPendingKeeps
<1>5. CASE EcuDecides
  BY <1>5, EcuAnswersKeeps
<1>6. CASE UNCHANGED vars
  <2>1. UNCHANGED <<kind, reliable, calls, results, answers, toEcu, toClient, pendings, fates>>
    BY <1>6 DEF vars
  <2>2. Shape'
    BY <2>1 DEF IInv, Shape
  <2>3. Asked'
    BY <2>1 DEF IInv, Asked, Calls
  <2>4. Heard'
    BY <2>1 DEF IInv, Heard, Took, Calls, Current
  <2>5. Settled'
    BY <2>1 DEF IInv, Settled, Undisturbed, Misled, Waiting, Calls, Current, Last
  <2> QED BY <2>2, <2>3, <2>4, <2>5 DEF IInv
<1> QED
  BY <1>1, <1>2, <1>3, <1>4, <1>5, <1>6 DEF Next, ClientStep

\* Requests belong to undecided calls, answers and results say what the ECU did, and
\* nothing is left over as long as nothing has gone wrong.
THEOREM DiagnosticsInvariant == Spec => []IInv
BY InitInv, NextInv, PTL DEF Spec

\* Every variable of the clients has its type, and a call has taken an answer for its own
\* exactly when it returns a success or a refusal (uds/client.go:212-237, 165-169), of users
\* who make one call at a time.
THEOREM ClientsTypeCorrect == Spec => []TypeOK
<1>1. IInv => TypeOK
  <2> SUFFICES ASSUME Shape, Heard PROVE TypeOK
    BY DEF IInv
  <2>1. /\ results \in [Calls -> {"open", "done", "refused", "failed"}]
        /\ fates \in [Calls -> {"open", "done", "refused"}]
    <3>1. Calls = 1 .. Len(results) /\ Calls = 1 .. Len(fates)
      BY Indices DEF Shape, Current
    <3> QED BY <3>1, LenProperties DEF Shape
  <2>2. DOMAIN answers = Calls
    BY Indices
  <2>3. \A k \in Calls : /\ k < Current => results[k] # "open"
                         /\ answers[k] # <<>> <=> results[k] \in {"done", "refused"}
    BY DEF Heard, Took
  <2> QED BY <2>1, <2>2, <2>3 DEF TypeOK, Shape, Current
<1> QED BY <1>1, DiagnosticsInvariant, PTL

\* What a call takes for its success is the success of a call of the same service, and
\* of the same PID for obdii, whatever was lost or late (uds/client.go:217-240,
\* obdii/client.go:155-166).
THEOREM SuccessIsOfService == Spec => []SuccessOfService
<1>1. IInv => SuccessOfService
  <2> SUFFICES ASSUME IInv, NEW k \in Calls, results[k] = "done"
               PROVE  LET j == answers[k][1].call
                      IN  /\ fates[j] = "done" /\ calls[j].service = calls[k].service
                          /\ kind = "obd" => calls[j].item = calls[k].item
    BY DEF SuccessOfService
  <2>1. Took(k) /\ answers[k] # <<>>
    BY DEF IInv, Heard, Took
  <2> QED BY <2>1 DEF Took, Honest
<1> QED BY <1>1, DiagnosticsInvariant, PTL

-----------------------------------------------------------------------------
(* The clients implement RequestReply. *)

Outcomes == {"open", "done", "refused", "failed"}
\* What the contract sees of the results.
Seen == [k \in Calls |-> Told(k)]

\* An open call is told nothing; another its result, or that it failed.
LEMMA SeenFacts ==
    ASSUME Shape
    PROVE  /\ Seen \in Seq(Outcomes) /\ Len(Seen) = Current /\ DOMAIN Seen = Calls
           /\ \A k \in Calls : /\ Seen[k] = Told(k)
                               /\ results[k] = "open" => Seen[k] = "open"
                               /\ results[k] # "open" => Seen[k] \in {results[k], "failed"}
<1>1. /\ Calls = 1 .. Current /\ Current \in Nat
      /\ \A k \in Calls : results[k] \in Outcomes
  BY Indices DEF Outcomes
<1>2. \A k \in Calls : /\ results[k] = "open" => Told(k) = "open"
                       /\ results[k] # "open" => Told(k) \in {results[k], "failed"}
  BY DEF Told
<1>3. Seen \in [1 .. Current -> Outcomes]
  BY <1>1, <1>2 DEF Seen, Outcomes
<1>4. Seen \in Seq(Outcomes)
  BY <1>1, <1>3, SeqDef
<1>5. DOMAIN Seen = 1 .. Len(Seen) /\ Len(Seen) \in Nat
  BY <1>4, LenProperties
<1>6. Len(Seen) = Current
  BY <1>1, <1>3, <1>5
<1> QED BY <1>1, <1>2, <1>4, <1>6 DEF Seen

\* Steps that leave the results alone.
LEMMA SeenStays ==
    ASSUME UNCHANGED <<kind, calls, results, answers>>
    PROVE  Seen' = Seen
BY DEF Seen, Told, Misled, Calls

\* A call asks.
LEMMA CallRefines ==
    ASSUME IInv, IInv', NEW svc \in Services, NEW item \in Items, Call(svc, item)
    PROVE  Contract!RRNext
<1>i. Shape /\ Shape' /\ Heard
  BY DEF IInv
<1>f. /\ Current \in Nat /\ Calls = 1 .. Current /\ DOMAIN results = Calls /\ DOMAIN answers = Calls
      /\ \A k \in Calls : results[k] # "open"
  <2>1. ~Waiting
    BY DEF Call, MayCall
  <2> QED BY <1>i, <2>1, Indices DEF Waiting, Heard, Took
<1>p. PICK result \in {"open", "failed"} : results' = Append(results, result)
  BY DEF Call
<1>1. /\ kind' = kind /\ answers' = Append(answers, <<>>) /\ fates' = Append(fates, "open")
      /\ Len(results) = Current /\ Len(answers) = Current
  BY <1>i DEF Call, Shape, Current
<1>2. Current' = Current + 1 /\ Calls' = 1 .. Current + 1
  <2>1. Len(results') = Current + 1
    BY <1>i, <1>p, <1>1, Appended DEF Shape
  <2>2. Current' = Current + 1
    BY <1>i, <2>1 DEF Shape, Current
  <2>3. Calls' = 1 .. Current'
    BY <1>i, LenProperties DEF Shape, Calls, Current
  <2> QED BY <2>2, <2>3
<1>3. results'[Current + 1] = result /\ \A k \in 1 .. Current : results'[k] = results[k]
  BY <1>i, <1>p, <1>1, Appended DEF Shape
<1>4. \A k \in 1 .. Current : answers'[k] = answers[k]
  <2>1. answers \in Seq(Seq(Answers)) /\ <<>> \in Seq(Answers)
    BY <1>i, EmptySeq DEF Shape
  <2> QED BY <2>1, <1>1, Appended
<1>5. \A k \in 1 .. Current : Told(k)' = Told(k)
  <2> SUFFICES ASSUME NEW k \in 1 .. Current PROVE Told(k)' = Told(k)
    OBVIOUS
  <2>1. \A j \in 1 .. k : results'[j] = results[j] /\ answers'[j] = answers[j]
    BY <1>3, <1>4, <1>f
  <2>2. k \in 1 .. k
    BY <1>f
  <2>3. \A j \in 1 .. k : Misled(j)' <=> Misled(j)
    BY <2>1, <1>1 DEF Misled
  <2>4. (\E j \in 1 .. k : results[j] = "failed" \/ Misled(j))'
            <=> \E j \in 1 .. k : results[j] = "failed" \/ Misled(j)
    BY <2>1, <2>3
  <2> QED BY <2>1, <2>2, <2>4 DEF Told
<1>6. \A k \in 1 .. Current + 1 : k = Current + 1 => Told(k)' = result
  <2> SUFFICES ASSUME NEW k \in 1 .. Current + 1, k = Current + 1 PROVE Told(k)' = result
    OBVIOUS
  <2>1. results'[k] = result /\ k \in 1 .. k
    BY <1>3, <1>f
  <2> QED BY <2>1, <1>p DEF Told
<1>7. Seen' = Append(Seen, result)
  <2>1. /\ Append(Seen, result) \in Seq(Outcomes) /\ Len(Append(Seen, result)) = Current + 1
        /\ Append(Seen, result)[Current + 1] = result
        /\ \A k \in 1 .. Current : Append(Seen, result)[k] = Told(k)
    <3>1. Seen \in Seq(Outcomes) /\ Len(Seen) = Current /\ \A k \in Calls : Seen[k] = Told(k)
      BY <1>i, SeenFacts
    <3>2. result \in Outcomes
      BY DEF Outcomes
    <3> QED BY <3>1, <3>2, <1>f, Appended
  <2>2. /\ Seen' \in Seq(Outcomes) /\ Len(Seen') = Current + 1
        /\ \A k \in 1 .. Current + 1 : Seen'[k] = Told(k)'
    <3>1. Seen' = [k \in 1 .. Current + 1 |-> Told(k)']
      BY <1>2 DEF Seen
    <3>2. \A k \in Calls : Told(k) \in Outcomes
      BY <1>i, <1>f, SeenFacts, Indices DEF Outcomes
    <3>3. \A k \in 1 .. Current + 1 : Told(k)' \in Outcomes
      <4> SUFFICES ASSUME NEW k \in 1 .. Current + 1 PROVE Told(k)' \in Outcomes
        OBVIOUS
      <4>1. k \in 1 .. Current \/ k = Current + 1
        BY <1>f
      <4> QED BY <4>1, <3>2, <1>5, <1>6, <1>f DEF Outcomes
    <3>4. Seen' \in [1 .. Current + 1 -> Outcomes] /\ Current + 1 \in Nat
      BY <3>1, <3>3, <1>f
    <3>5. Seen' \in Seq(Outcomes)
      BY <3>4, SeqDef
    <3>6. DOMAIN Seen' = 1 .. Len(Seen') /\ Len(Seen') \in Nat /\ DOMAIN Seen' = 1 .. Current + 1
      BY <3>4, <3>5, LenProperties
    <3>7. Len(Seen') = Current + 1
      BY <3>4, <3>6
    <3> QED BY <3>1, <3>5, <3>7
  <2>3. \A k \in 1 .. Current + 1 : Seen'[k] = Append(Seen, result)[k]
    <3> SUFFICES ASSUME NEW k \in 1 .. Current + 1 PROVE Seen'[k] = Append(Seen, result)[k]
      OBVIOUS
    <3>1. k \in 1 .. Current \/ k = Current + 1
      BY <1>f
    <3> QED BY <3>1, <2>1, <2>2, <1>5, <1>6
  <2> QED BY <2>1, <2>2, <2>3, <1>2, SeqEqual DEF Outcomes
<1>8. \A k \in DOMAIN Seen : Seen[k] # "open"
  BY <1>i, <1>f, SeenFacts
<1>9. Contract!Ask(result)
  BY <1>1, <1>7, <1>8 DEF Contract!Ask, Seen
<1> QED BY <1>9 DEF Contract!RRNext

\* A call that ends is told its result, if nothing has gone wrong so far, or that it failed.
LEMMA ReturnSeen ==
    ASSUME IInv, Waiting, NEW result \in {"done", "refused", "failed"}, NEW answer,
           Return(result, answer)
    PROVE  /\ Current \in Calls /\ Current \in DOMAIN Seen /\ Seen[Current] = "open"
           /\ \/ Seen' = [Seen EXCEPT ![Current] = "failed"]
              \/ result # "failed" /\ Undisturbed' /\ Seen' = [Seen EXCEPT ![Current] = result]
<1>i. Shape /\ Heard
  BY DEF IInv
<1>f. /\ Current \in Calls /\ Calls = 1 .. Current /\ Current \in Nat /\ results[Current] = "open"
      /\ DOMAIN results = Calls /\ DOMAIN answers = Calls
  BY <1>i, WaitingFacts, Indices
<1>s. DOMAIN Seen = Calls /\ Seen[Current] = "open" /\ \A k \in Calls : Seen[k] = Told(k)
  BY <1>i, <1>f, SeenFacts
<1>1. /\ results'[Current] = result /\ Calls' = Calls /\ kind' = kind
      /\ \A k \in Calls \ {Current} : results'[k] = results[k] /\ answers'[k] = answers[k]
  BY <1>f DEF Return, Calls
<1>2. \A k \in 1 .. Current - 1 : Told(k)' = Told(k)
  <2> SUFFICES ASSUME NEW k \in 1 .. Current - 1 PROVE Told(k)' = Told(k)
    OBVIOUS
  <2>1. \A j \in 1 .. k : results'[j] = results[j] /\ answers'[j] = answers[j]
    BY <1>1, <1>f
  <2>2. k \in 1 .. k
    BY <1>f
  <2>3. \A j \in 1 .. k : Misled(j)' <=> Misled(j)
    BY <2>1, <1>1 DEF Misled
  <2>4. (\E j \in 1 .. k : results[j] = "failed" \/ Misled(j))'
            <=> \E j \in 1 .. k : results[j] = "failed" \/ Misled(j)
    BY <2>1, <2>3
  <2> QED BY <2>1, <2>2, <2>4 DEF Told
<1>3. PICK v \in {result, "failed"} :
        \A k \in Calls : k = Current => Told(k)' = v /\ (v # "failed" => v = result /\ Undisturbed')
  <2>1. CASE Undisturbed'
    <3>1. \A k \in Calls : k = Current => Told(k)' = result
      BY <2>1, <1>1, <1>f DEF Told, Undisturbed
    <3> QED BY <3>1, <2>1
  <2>2. CASE ~Undisturbed'
    <3>1. \A k \in Calls : k = Current => Told(k)' = "failed"
      BY <2>2, <1>1, <1>f DEF Told, Undisturbed
    <3> QED BY <3>1
  <2> QED BY <2>1, <2>2
<1>4. Seen' = [Seen EXCEPT ![Current] = v]
  <2>1. Seen' = [k \in Calls |-> Told(k)']
    BY <1>1 DEF Seen
  <2>2. Seen = [k \in Calls |-> Told(k)]
    BY DEF Seen
  <2>3. \A k \in Calls : Told(k)' = IF k = Current THEN v ELSE Told(k)
    BY <1>2, <1>3, <1>f
  <2> QED BY <2>1, <2>2, <2>3, <1>f
<1> QED BY <1>f, <1>s, <1>3, <1>4

\* What a call takes while nothing has gone wrong is the ECU's answer to it.
LEMMA TakesItsOwn ==
    ASSUME IInv, Undisturbed, Waiting, toClient # <<>>
    PROVE  Head(toClient).call = Current /\ Honest(Head(toClient), calls, fates)
<1>1. toClient \in Seq(Answers)
  BY DEF IInv, Shape
<1>2. Head(toClient) = toClient[1] /\ 1 \in DOMAIN toClient
  BY <1>1, Shortened
<1> QED BY <1>2 DEF IInv, Settled, Heard

\* A call that ends is told what the ECU did, or fails.
LEMMA RecvRefines ==
    ASSUME IInv, RecvNegative \/ RecvPositive \/ RecvUnexpected \/ RecvFails
    PROVE  Contract!RRNext
<1>k. kind \in {"uds", "obd"}
  BY ConfigAssumption DEF IInv, Shape
<1>1. ASSUME NEW result \in {"done", "refused"}, CanRecv, Return(result, <<Head(toClient)>>),
             Head(toClient).type = "positive" => result = "done",
             Head(toClient).type # "positive" => result = "refused",
             Head(toClient).type = "pending" => kind = "obd",
             Head(toClient).type \in {"positive", "negative", "pending"}
      PROVE  Contract!RRNext
  <2>1. Waiting /\ toClient # <<>> /\ fates' = fates
    BY <1>1 DEF CanRecv, Return
  <2>2. /\ Current \in DOMAIN Seen /\ Seen[Current] = "open" /\ Current \in Calls
        /\ \/ Seen' = [Seen EXCEPT ![Current] = "failed"]
           \/ Undisturbed' /\ Seen' = [Seen EXCEPT ![Current] = result]
    BY <1>1, <2>1, ReturnSeen
  <2>3. CASE Seen' = [Seen EXCEPT ![Current] = "failed"]
    <3>1. Contract!Fail(Current)
      BY <2>1, <2>2, <2>3 DEF Contract!Fail, Seen
    <3> QED BY <3>1, <2>2 DEF Contract!RRNext, Seen
  <2>4. CASE Undisturbed' /\ Seen' = [Seen EXCEPT ![Current] = result]
    <3>1. Undisturbed
      BY <1>1, <2>1, <2>4, UndisturbedBefore
    <3>2. Head(toClient).call = Current /\ Honest(Head(toClient), calls, fates)
      BY <2>1, <3>1, TakesItsOwn
    <3>3. Head(toClient).type # "pending"
      <4> SUFFICES ASSUME Head(toClient).type = "pending" PROVE FALSE
        OBVIOUS
      <4>1. kind = "obd" /\ kind' = kind /\ Calls' = Calls /\ Current \in DOMAIN answers
        BY <1>1, <2>2, Indices DEF IInv, Return, Calls
      <4>2. answers'[Current] = <<Head(toClient)>>
        BY <1>1, <4>1 DEF Return
      <4>3. answers'[Current] # <<>> /\ answers'[Current][1] = Head(toClient)
        BY <4>2
      <4> QED BY <4>1, <4>3, <2>2, <2>4 DEF Undisturbed, Misled
    <3>4. fates[Current] = result
      BY <1>1, <3>2, <3>3 DEF Honest
    <3>5. Contract!Tell(Current)
      BY <2>1, <2>2, <2>4, <3>4 DEF Contract!Tell, Seen
    <3> QED BY <3>5, <2>2 DEF Contract!RRNext, Seen
  <2> QED BY <2>2, <2>3, <2>4
<1>2. ASSUME Waiting, Return("failed", <<>>)
      PROVE  Contract!RRNext
  <2>1. /\ Current \in DOMAIN Seen /\ Seen[Current] = "open"
        /\ Seen' = [Seen EXCEPT ![Current] = "failed"] /\ fates' = fates
    BY <1>2, ReturnSeen DEF Return
  <2>2. Contract!Fail(Current)
    BY <2>1 DEF Contract!Fail, Seen
  <2> QED BY <2>1, <2>2 DEF Contract!RRNext, Seen
<1>3. CASE RecvNegative
  <2>1. /\ CanRecv /\ Return("refused", <<Head(toClient)>>)
        /\ Head(toClient).type \in {"negative", "pending"}
        /\ Head(toClient).type = "pending" => kind = "obd"
    BY <1>3, <1>k DEF RecvNegative, IsRefusal, IsPending
  <2> QED BY <2>1, <1>1
<1>4. CASE RecvPositive
  <2>1. CanRecv /\ Return("done", <<Head(toClient)>>) /\ Head(toClient).type = "positive"
    BY <1>4 DEF RecvPositive
  <2> QED BY <2>1, <1>1
<1>5. CASE RecvUnexpected \/ RecvFails
  BY <1>5, <1>2 DEF RecvUnexpected, RecvFails, CanRecv, NoData
<1> QED BY <1>3, <1>4, <1>5

\* The ECU decides.
LEMMA EcuRefines ==
    ASSUME IInv, EcuDecides
    PROVE  Contract!RRNext
<1>p. PICK type \in {"positive", "negative"}, fate \in {"done", "refused"} : EcuAnswers(type, fate)
  BY DEF EcuDecides
<1>1. /\ toEcu # <<>> /\ UNCHANGED <<kind, calls, results, answers>>
      /\ toClient' = Append(toClient, Answer(Head(toEcu), type))
      /\ fates' = [fates EXCEPT ![Head(toEcu).call] = fate]
  BY <1>p DEF EcuAnswers
<1>2. Asks(Head(toEcu), calls, fates)
  BY <1>1, EcuFacts
<1>3. Head(toEcu).call \in DOMAIN Seen /\ fates[Head(toEcu).call] = "open"
  BY <1>2, SeenFacts DEF IInv, Asks, Calls
<1>4. Seen' = Seen
  BY <1>1, SeenStays
<1>5. Contract!Decide(Head(toEcu).call)
  BY <1>1, <1>3, <1>4 DEF Contract!Decide, Contract!Fates, Seen
<1> QED BY <1>3, <1>5 DEF Contract!RRNext, Seen

\* Up to the first call that fails or is misled, every call is told what the ECU did
\* with it (REQ-UDS-009; uds/client.go:206, obdii/client.go:143).
THEOREM ClientsImplement == Spec => ImplementsRequestReply
<1>1. Init => Contract!RRInit
  <2> SUFFICES ASSUME Init PROVE Contract!RRInit
    OBVIOUS
  <2>1. Shape
    BY InitInv DEF IInv
  <2>2. Len(Seen) = 0 /\ Seen \in Seq(Outcomes)
    BY <2>1, SeenFacts, EmptySeq DEF Init, Current
  <2>3. Seen = <<>>
    BY <2>2, EmptySeq
  <2> QED BY <2>3 DEF Init, Contract!RRInit, Seen
<1>2. IInv /\ IInv' /\ [Next]_vars => [Contract!RRNext]_(Contract!rrVars)
  <2> SUFFICES ASSUME IInv, IInv', [Next]_vars
               PROVE  Contract!RRNext \/ UNCHANGED Contract!rrVars
    OBVIOUS
  <2>1. ASSUME NEW svc \in Services, NEW item \in Items, Call(svc, item)
        PROVE  Contract!RRNext
    BY <2>1, CallRefines
  <2>2. CASE RecvNegative \/ RecvPositive \/ RecvUnexpected \/ RecvFails
    BY <2>2, RecvRefines
  <2>3. CASE EcuDecides
    BY <2>3, EcuRefines
  <2>4. CASE RecvPending \/ Lose \/ EcuPending \/ UNCHANGED vars
    <3>1. UNCHANGED <<kind, calls, results, answers, fates>>
      BY <2>4 DEF RecvPending, Lose, EcuPending, vars
    <3> QED BY <3>1, SeenStays DEF Contract!rrVars, Seen
  <2> QED BY <2>1, <2>2, <2>3, <2>4 DEF Next, ClientStep
<1>3. Spec => []IInv
  BY DiagnosticsInvariant
<1> QED
  BY <1>1, <1>2, <1>3, PTL DEF Spec, ImplementsRequestReply, Contract!RRSpec

=============================================================================
