\* A caller sends again after a time-out; nothing is lost.
SPECIFICATION Spec
CONSTANTS
    a = a
    b = b
    Ends = {a, b}
    Settings <- RetryingOnly
INVARIANTS
    DeliversWhole
