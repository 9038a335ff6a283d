------------------------------ MODULE LoanPool ------------------------------
(***************************************************************************)
(* optional.go and virtual/bus.go: loaned frames.  Loan takes a LoanedFrame *)
(* from a sync.Pool and gives it a release function, the borrower fills it, *)
(* and Return puts it back; SendLoaned sends a copy of the frame first.     *)
(* Return calls release and clears it afterwards, and by the time it clears *)
(* it the object may be on loan again.                                      *)
(***************************************************************************)
EXTENDS Naturals, Sequences

CONSTANTS
    Borrowers,  \* goroutines that borrow frames, one at a time each
    Objects,    \* the LoanedFrames in memory
    NoObject,
    MaxLoans    \* bound: calls of Loan

ASSUME LoanAssumption == NoObject \notin Objects /\ MaxLoans \in Nat

VARIABLES
    closed,     \* b.closed
    pool,       \* pool[o]: how many times o sits in b.pool
    release,    \* release[o]: o.release is not nil
    frame,      \* frame[o]: o.Frame; <<>> is the zero Frame
    loans,      \* how often Loan has been called
    lf,         \* lf[b]: the loan b holds or held last
    at,         \* at[b]: how far b is with it
    spoiled     \* history: objects a former borrower returned again while they were on
                \* loan to somebody else

loanVars == <<closed, pool, release, frame, loans, lf, at, spoiled>>

LoanInit ==
    /\ closed = FALSE
    /\ pool = [o \in Objects |-> 0]
    /\ release = [o \in Objects |-> FALSE]
    /\ frame = [o \in Objects |-> <<>>]
    /\ loans = 0 /\ lf = [b \in Borrowers |-> NoObject]
    /\ at = [b \in Borrowers |-> "idle"] /\ spoiled = {}

Goto(b, l) == at' = [at EXCEPT ![b] = l]

\* b is between Loan and the end of Return.
Active(b) == at[b] # "idle"

\* b may still use its loan: Return has not put it back.
Holds(b) == at[b] \in {"loaned", "held", "filled", "sent"}

\* Nobody refers to o and it is not in the pool: what New allocates, or what the
\* garbage collector takes.
Free(o) == pool[o] = 0 /\ \A b \in Borrowers : lf[b] # o

\* pool.Get: an object of the pool, or a new one.  The check of b.closed and Get
\* are apart, but nothing depends on what Close does in between.
Loan(b) ==
    /\ at[b] = "idle" /\ ~closed /\ loans < MaxLoans
    /\ loans' = loans + 1
    /\ \E o \in Objects :
        /\ pool[o] > 0 \/ Free(o)
        /\ pool' = [pool EXCEPT ![o] = IF @ > 0 THEN @ - 1 ELSE 0]
        /\ lf' = [lf EXCEPT ![b] = o]
    /\ Goto(b, "loaned")
    /\ UNCHANGED <<closed, release, frame, spoiled>>

\* *lf = *NewLoanedFrame(Frame{}, release)
Prepare(b) ==
    /\ at[b] = "loaned"
    /\ release' = [release EXCEPT ![lf[b]] = TRUE]
    /\ frame' = [frame EXCEPT ![lf[b]] = <<>>]
    /\ Goto(b, "held")
    /\ UNCHANGED <<closed, pool, loans, lf, spoiled>>

\* The borrower writes its frame.
Fill(b, content) ==
    /\ at[b] = "held"
    /\ frame' = [frame EXCEPT ![lf[b]] = content]
    /\ Goto(b, "filled")
    /\ UNCHANGED <<closed, pool, release, loans, lf, spoiled>>

\* SendLoaned: b.Send of a copy of frame[lf[b]], which an open bus takes and a
\* closed one refuses.
FaultReturnsFirst(b) == at[b] = "clear"
Sends(b) == at[b] \in {"held", "filled"}

SendLoaned(b) ==
    /\ Sends(b) /\ ~closed
    /\ Goto(b, "sent")
    /\ UNCHANGED <<closed, pool, release, frame, loans, lf, spoiled>>
SendLoanedRefused(b) ==
    /\ Sends(b) /\ closed
    /\ Goto(b, "sent")
    /\ UNCHANGED <<closed, pool, release, frame, loans, lf, spoiled>>

\* Return, by SendLoaned or by a borrower that does not send: release is nil when
\* a late clear of the previous borrower has wiped it, and then the object is lost
\* to the pool; otherwise it goes back before release is cleared.
ReturnNothing(b) ==
    /\ Holds(b) /\ at[b] # "loaned" /\ ~release[lf[b]]
    /\ Goto(b, "idle")
    /\ UNCHANGED <<closed, pool, release, frame, loans, lf, spoiled>>
ReturnPut(b) ==
    /\ Holds(b) /\ at[b] # "loaned" /\ release[lf[b]]
    /\ pool' = [pool EXCEPT ![lf[b]] = @ + 1]
    /\ Goto(b, "clear")
    /\ UNCHANGED <<closed, release, frame, loans, lf, spoiled>>

FaultReleaseKept(o) == release
Cleared(o) == [release EXCEPT ![o] = FALSE]
ReturnClear(b) ==
    /\ at[b] = "clear"
    /\ release' = Cleared(lf[b])
    /\ Goto(b, "idle")
    /\ UNCHANGED <<closed, pool, frame, loans, lf, spoiled>>

\* A borrower that is done with its loan still has the pointer and may call Return
\* again, as a deferred one does after SendLoaned.  It is the same code: it changes
\* nothing while release is nil, but Return cannot tell whose loan it is, and puts the
\* object back if somebody else has borrowed it since.
OnLoanToOther(b) == \E c \in Borrowers \ {b} : Active(c) /\ lf[c] = lf[b]
ReturnAgain(b) ==
    /\ at[b] = "idle" /\ lf[b] # NoObject /\ release[lf[b]]
    /\ pool' = [pool EXCEPT ![lf[b]] = @ + 1]
    /\ spoiled' = IF OnLoanToOther(b) THEN spoiled \cup {lf[b]} ELSE spoiled
    /\ Goto(b, "clear")
    /\ UNCHANGED <<closed, release, frame, loans, lf>>

\* The borrower gives up the pointer.
Forget(b) ==
    /\ at[b] = "idle" /\ lf[b] # NoObject
    /\ lf' = [lf EXCEPT ![b] = NoObject]
    /\ UNCHANGED <<closed, pool, release, frame, loans, at, spoiled>>

\* sync.Pool forgets what it holds at a garbage collection.
Collect(o) ==
    /\ pool[o] > 0
    /\ pool' = [pool EXCEPT ![o] = 0]
    /\ UNCHANGED <<closed, release, frame, loans, lf, at, spoiled>>

Close == ~closed /\ closed' = TRUE /\ UNCHANGED <<pool, release, frame, loans, lf, at, spoiled>>

\* What needs no content: everything but Fill and the two sends.
Handling ==
    \/ \E b \in Borrowers :
        \/ Loan(b) \/ Prepare(b) \/ ReturnNothing(b) \/ ReturnPut(b)
        \/ ReturnClear(b) \/ ReturnAgain(b) \/ Forget(b) \/ SendLoanedRefused(b)
    \/ \E o \in Objects : Collect(o)
    \/ Close

\* The pool on its own: a borrower fills its frame with anything.
LoanNext ==
    \/ Handling
    \/ \E b \in Borrowers : SendLoaned(b) \/ \E content : Fill(b, content)
LoanSpec == LoanInit /\ [][LoanNext]_loanVars

\* An object on loan belongs to one borrower, and Get cannot hand it to another, nor
\* twice, although Return clears release after it has let the object go
\* (optional.go:29-34): all this unless a former borrower has returned the object a
\* second time while it was on loan, which optional.go:26 calls safe and which is not.
NoTwoBorrowers ==
    /\ \A o \in Objects \ spoiled : pool[o] <= 1
    /\ \A b \in Borrowers : Holds(b) /\ lf[b] \notin spoiled =>
        /\ pool[lf[b]] = 0
        /\ \A c \in Borrowers \ {b} : Holds(c) => lf[c] # lf[b]
=============================================================================
