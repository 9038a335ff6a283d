--------------------------- MODULE MessageChannel ---------------------------
(***************************************************************************)
(* What a user of a transport protocol over CAN (isotp.Conn) relies on:     *)
(* whole messages, each delivered at most once and in the order they were  *)
(* sent.  Messages may be lost; nothing else may be received.              *)
(***************************************************************************)
EXTENDS Naturals, Sequences

CONSTANTS Ends      \* the senders, each with a channel of its own

VARIABLES
    sent,       \* sent[e]: how many messages e has handed to its transport
    received    \* received[e]: the numbers of e's messages that have arrived

chVars == <<sent, received>>

ChInit == sent = [e \in Ends |-> 0] /\ received = [e \in Ends |-> <<>>]

Submit(e) == sent' = [sent EXCEPT ![e] = @ + 1] /\ UNCHANGED received

\* n has not arrived, and nothing sent after it has.
InSequence(e, n) ==
    n \in 1 .. sent[e] /\ \A i \in DOMAIN received[e] : received[e][i] < n

Arrive(e) ==
    \E n \in 1 .. sent[e] :
        /\ InSequence(e, n)
        /\ received' = [received EXCEPT ![e] = Append(@, n)]
        /\ UNCHANGED sent

ChNext == \E e \in Ends : Submit(e) \/ Arrive(e)

ChSpec == ChInit /\ [][ChNext]_chVars
=============================================================================
