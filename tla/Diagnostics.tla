----------------------------- MODULE Diagnostics -----------------------------
(***************************************************************************)
(* uds/client.go and obdii/client.go: a client that sends one request over  *)
(* an isotp.Conn and waits for the answer.  Connection and ECU are external *)
(* here: whole messages in order, some of them lost (MessageChannel, which  *)
(* IsoTp implements), and an ECU that answers one request after the other.  *)
(***************************************************************************)
EXTENDS Naturals, Sequences

CONSTANTS
    Kinds,      \* the clients: "uds", "obd"
    Services,   \* service identifiers (UDS) or modes (OBD-II)
    Items,      \* data identifiers or PIDs
    Pendings,   \* Pendings[kind]: how often the ECU may ask for patience
    MaxCalls    \* bound: calls of the client

ASSUME ConfigAssumption ==
    /\ Kinds \subseteq {"uds", "obd"}
    /\ Pendings \in [Kinds -> Nat] /\ MaxCalls \in Nat

VARIABLES
    kind,       \* which client this is
    reliable,   \* nothing is lost and no deadline passes
    calls,      \* history: the request of each call
    results,    \* history: what each call returned, "open" while it runs
    answers,    \* history: the answer each call took as its own, <<>> if none
    toEcu,      \* requests under way
    toClient,   \* answers under way or waiting in the connection
    pendings,   \* how often the ECU has asked for patience with its current request
    fates       \* history: what the ECU did with each call

clientVars == <<calls, results, answers>>
vars == <<kind, reliable, clientVars, toEcu, toClient, pendings, fates>>

Calls == DOMAIN calls
Current == Len(calls)
Waiting == Calls # {} /\ results[Current] = "open"

Req == calls[Current]

\* Messages carry the number of their call, which only the histories look at.
Request(k, svc, item) == [call |-> k, service |-> svc, item |-> item]
Answer(req, type) == [type |-> type, call |-> req.call, service |-> req.service, item |-> req.item]

Init ==
    /\ kind \in Kinds /\ reliable \in BOOLEAN
    /\ calls = <<>> /\ results = <<>> /\ answers = <<>> /\ fates = <<>>
    /\ toEcu = <<>> /\ toClient = <<>> /\ pendings = 0

-----------------------------------------------------------------------------
(* The client.  Definitions named Fault... are seeded bugs. *)

\* Assumed of the client's users: one call at a time.  Nothing in the clients sees to it.
MayCall == ~Waiting

\* A call of a service method: conn.Send of its request, which may fail although
\* the request is delivered (see IsoTp).
Call(svc, item) ==
    /\ MayCall /\ Current < MaxCalls
    /\ LET req == Request(Current + 1, svc, item)
       IN  /\ calls' = Append(calls, req)
           /\ \E result \in IF reliable THEN {"open"} ELSE {"open", "failed"} :
                 results' = Append(results, result)
           /\ toEcu' = Append(toEcu, req)
    /\ answers' = Append(answers, <<>>) /\ fates' = Append(fates, "open")
    /\ UNCHANGED <<kind, reliable, toClient, pendings>>

\* The call ends with result, having taken answer for its own.
Return(result, answer) ==
    /\ results' = [results EXCEPT ![Current] = result]
    /\ answers' = [answers EXCEPT ![Current] = answer]
    /\ UNCHANGED <<kind, reliable, calls, toEcu, pendings, fates>>

CanRecv == Waiting /\ toClient # <<>>
Take == toClient' = Tail(toClient)

\* NRC 0x78: uds waits on, without sending again; obdii takes it for a refusal.
FaultPendingIsFinal(ans) == FALSE
FaultNegativeIsPending(ans) == ans.type \in {"pending", "negative"}
IsPending(ans) == ans.type = "pending" /\ kind = "uds"
IsRefusal(ans) == ~IsPending(ans) /\ ans.type \in {"negative", "pending"}

RecvPending ==
    /\ CanRecv /\ IsPending(Head(toClient))
    /\ Take
    /\ UNCHANGED <<kind, reliable, clientVars, toEcu, pendings, fates>>

RecvNegative ==
    /\ CanRecv /\ IsRefusal(Head(toClient))
    /\ Take
    /\ Return("refused", <<Head(toClient)>>)

\* Both clients look for the service, obdii for the PID as well.
UdsExpects(ans) == ans.service = Req.service
ObdExpects(ans) == ans.service = Req.service /\ ans.item = Req.item
FaultServiceUnchecked(ans) == TRUE
Expected(ans) == IF kind = "uds" THEN UdsExpects(ans) ELSE ObdExpects(ans)

RecvPositive ==
    /\ CanRecv /\ Head(toClient).type = "positive" /\ Expected(Head(toClient))
    /\ Take
    /\ Return("done", <<Head(toClient)>>)

\* An unexpected answer comes to nothing: the error is returned without its data.
FaultDataWithError == <<Head(toClient)>>
NoData == <<>>
RecvUnexpected ==
    /\ CanRecv /\ Head(toClient).type = "positive" /\ ~Expected(Head(toClient))
    /\ Take
    /\ Return("failed", NoData)

\* conn.Recv fails: ctx is done.
RecvFails ==
    /\ Waiting /\ ~reliable
    /\ Return("failed", <<>>) /\ UNCHANGED toClient

-----------------------------------------------------------------------------
(* The connection and the ECU *)

Lose ==
    /\ ~reliable
    /\ \/ toEcu # <<>> /\ pendings = 0 /\ toEcu' = Tail(toEcu) /\ UNCHANGED toClient
       \/ toClient # <<>> /\ toClient' = Tail(toClient) /\ UNCHANGED toEcu
    /\ UNCHANGED <<kind, reliable, clientVars, pendings, fates>>

EcuPending ==
    /\ toEcu # <<>> /\ pendings < Pendings[kind]
    /\ toClient' = Append(toClient, Answer(Head(toEcu), "pending"))
    /\ pendings' = pendings + 1
    /\ UNCHANGED <<kind, reliable, clientVars, toEcu, fates>>

EcuAnswers(type, fate) ==
    /\ toEcu # <<>>
    /\ toClient' = Append(toClient, Answer(Head(toEcu), type))
    /\ fates' = [fates EXCEPT ![Head(toEcu).call] = fate]
    /\ toEcu' = Tail(toEcu) /\ pendings' = 0
    /\ UNCHANGED <<kind, reliable, clientVars>>

ClientStep == RecvPending \/ RecvNegative \/ RecvPositive \/ RecvUnexpected
EcuDecides == EcuAnswers("positive", "done") \/ EcuAnswers("negative", "refused")

Next ==
    \/ \E svc \in Services, item \in Items : Call(svc, item)
    \/ ClientStep \/ RecvFails
    \/ Lose \/ EcuPending \/ EcuDecides

Spec == Init /\ [][Next]_vars

\* conn.Recv takes what has arrived; the ECU does not ask for patience for ever.
FairSpec == Spec /\ WF_vars(ClientStep) /\ WF_vars(EcuDecides)

-----------------------------------------------------------------------------
(* Properties *)

Requests == [call : 1 .. MaxCalls, service : Services, item : Items]

\* Every variable has its type, and a call has an answer exactly when it returns one; only
\* the last call can be open, since users make one at a time.
TypeOK ==
    /\ kind \in Kinds /\ reliable \in BOOLEAN
    /\ calls \in Seq(Requests) /\ Current <= MaxCalls
    /\ results \in [Calls -> {"open", "done", "refused", "failed"}]
    /\ \A k \in Calls : k < Current => results[k] # "open"
    /\ fates \in [Calls -> {"open", "done", "refused"}]
    /\ DOMAIN answers = Calls
    /\ \A k \in Calls : answers[k] # <<>> <=> results[k] \in {"done", "refused"}
    /\ toEcu \in Seq(Requests)
    /\ pendings \in 0 .. Pendings[kind] /\ (pendings > 0 => toEcu # <<>>)

\* A success was carried out by the ECU and a refusal was refused, up to the first
\* call that fails or that takes a plea for patience for a refusal, as obdii does.  The
\* answer to such a call may still come, and be taken for the answer to the next one;
\* so nothing is claimed of it and of those that follow.
Misled(k) == kind = "obd" /\ answers[k] # <<>> /\ answers[k][1].type = "pending"
Told(k) ==
    IF results[k] # "open" /\ \E j \in 1 .. k : results[j] = "failed" \/ Misled(j)
    THEN "failed" ELSE results[k]
Contract == INSTANCE RequestReply WITH results <- [k \in Calls |-> Told(k)]
ImplementsRequestReply == Contract!RRSpec

\* Even after failures, what a call takes for its success is the success of a call
\* of the same service, and of the same PID for obdii (REQ-UDS-002 .. 007,
\* REQ-OBD-002).
SuccessOfService ==
    \A k \in Calls : results[k] = "done" =>
        LET j == answers[k][1].call
        IN  /\ fates[j] = "done" /\ calls[j].service = calls[k].service
            /\ kind = "obd" => calls[j].item = calls[k].item

\* Where nothing is lost and nobody hurries, every call is answered, however often the
\* ECU asks for patience first (REQ-UDS-009); for obdii, as long as it never does.
ReliableAnswers ==
    \A k \in 1 .. MaxCalls :
        [](reliable /\ k \in Calls => <>(k \in Calls /\ (results[k] \in {"done", "refused"} \/ \E j \in 1 .. k : Misled(j))))
=============================================================================
