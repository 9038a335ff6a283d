---------------------------- MODULE RequestReply ----------------------------
(***************************************************************************)
(* What the user of a diagnostic client (uds.Client, obdii.Client) relies   *)
(* on: a call that reports success was carried out by the ECU, a call that  *)
(* reports a refusal was refused; a call that fails tells nothing.          *)
(***************************************************************************)
EXTENDS Naturals, Sequences

VARIABLES
    fates,      \* fates[k]: what the ECU did with call k
    results     \* results[k]: what the caller was told of call k

rrVars == <<fates, results>>

Fates == {"open", "done", "refused"}

RRInit == fates = <<>> /\ results = <<>>

\* One call at a time; it may fail at once.
Ask(result) ==
    /\ \A k \in DOMAIN results : results[k] # "open"
    /\ fates' = Append(fates, "open") /\ results' = Append(results, result)

Decide(k) ==
    /\ fates[k] = "open"
    /\ \E fate \in Fates \ {"open"} : fates' = [fates EXCEPT ![k] = fate]
    /\ UNCHANGED results

Tell(k) ==
    /\ results[k] = "open" /\ fates[k] # "open"
    /\ results' = [results EXCEPT ![k] = fates[k]]
    /\ UNCHANGED fates

Fail(k) ==
    /\ results[k] = "open"
    /\ results' = [results EXCEPT ![k] = "failed"]
    /\ UNCHANGED fates

RRNext ==
    \/ \E result \in {"open", "failed"} : Ask(result)
    \/ \E k \in DOMAIN results : Decide(k) \/ Tell(k) \/ Fail(k)

RRSpec == RRInit /\ [][RRNext]_rrVars
=============================================================================
