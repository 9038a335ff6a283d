--------------------------- MODULE ProtectedLoans ---------------------------
(***************************************************************************)
(* LoanPool and E2E together: borrowers protect a payload with one shared   *)
(* Protector, write it into a loaned FD frame and send that; a Receiver     *)
(* unwraps what arrives.  Fill takes its content from Protect, and what     *)
(* SendLoaned puts on the bus is what Transmit takes.                       *)
(***************************************************************************)
EXTENDS LoanPool, E2E

VARIABLES           \* histories
    owner,      \* owner[n]: whose payloads were given the number n
    senders     \* senders[n]: for whom SendLoaned has put message n on the bus
vars == <<loanVars, e2eVars, owner, senders>>

Numbers == 0 .. MaxProtect - 1

Init ==
    /\ LoanInit /\ E2EInit 
    /\ owner = [n \in Numbers |-> <<>>] /\ senders = [n \in Numbers |-> <<>>]

FillProtected(b) ==
    /\ Fill(b, Header(count))
    /\ Protect(count)
    /\ owner' = [owner EXCEPT ![count] = Append(@, b)]
    /\ UNCHANGED senders
SendProtected(b) ==
    /\ SendLoaned(b)
    /\ Transmit(frame[lf[b]])
    /\ senders' = IF frame[lf[b]] = Unprotected THEN senders
                  ELSE [senders EXCEPT ![frame[lf[b]].n] = Append(@, b)]
    /\ UNCHANGED owner

\* The bus is used up: every number is given out and every frame is back.
Quiet ==
    /\ closed /\ wire = <<>>
    /\ \A b \in Borrowers : at[b] = "idle" /\ lf[b] = NoObject
    /\ UNCHANGED vars

Next ==
    \/ \E b \in Borrowers : FillProtected(b) \/ SendProtected(b)
    \/ Handling /\ UNCHANGED <<e2eVars, owner, senders>>
    \/ Unwrap /\ UNCHANGED <<loanVars, owner, senders>>
    \/ Quiet

Spec == Init /\ [][Next]_vars

Messages == [n : Numbers, seq : 0 .. Modulus - 1, sound : BOOLEAN]
Contents == Messages \cup {Unprotected}

\* Every variable has its type.
TypeOK ==
    /\ closed \in BOOLEAN /\ pool \in [Objects -> Nat] /\ release \in [Objects -> BOOLEAN]
    /\ frame \in [Objects -> Contents]
    /\ loans \in 0 .. MaxLoans /\ lf \in [Borrowers -> Objects \cup {NoObject}]
    /\ at \in [Borrowers -> {"idle", "loaned", "held", "filled", "sent", "clear"}]
    /\ spoiled \subseteq Objects
    /\ count \in 0 .. MaxProtect /\ wire \in Seq(Contents) /\ faults \in 0 .. MaxFaults
    /\ first \in BOOLEAN /\ lastSeq \in 0 .. Modulus - 1
    /\ checking \in [Checkers -> Messages \cup {NoMessage}]
    /\ latest \in [kind : {"none", "ok", "gap"}, n : Nat, before : Nat \cup {NoMessage}]
    /\ owner \in [Numbers -> Seq(Borrowers)] /\ senders \in [Numbers -> Seq(Borrowers)]

\* What goes out for a borrower is what that borrower wrote, each number at most
\* once, although the objects are used again (virtual/bus.go:181-185), as long as nobody
\* returns for a second time what is on loan to somebody else; and no number is given to
\* two payloads, whatever becomes of the loans.
SentAsFilled ==
    \A n \in Numbers :
        /\ Len(owner[n]) <= 1
        /\ spoiled = {} => senders[n] \in {<<>>, owner[n]}
=============================================================================
