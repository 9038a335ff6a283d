\* Two borrowers, three loans of two objects, a counter that wraps at three, one fault on
\* the wire.
SPECIFICATION Spec
CONSTANTS
    Borrowers = {b1, b2}
    Objects = {o1, o2}
    NoObject = NoObject
    MaxLoans = 3
    Modulus = 3
    Checkers = {c1, c2}
    NoMessage = NoMessage
    Start = 2
    MaxProtect = 5
    MaxFaults = 1
SYMMETRY Symmetry
INVARIANTS
    TypeOK
    NoTwoBorrowers
    SentAsFilled
    GapsExact
