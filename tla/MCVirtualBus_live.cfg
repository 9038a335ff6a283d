\* A DropNewest subscriber that may stall for ever and a Block subscriber that keeps
\* reading: neither can hold the bus up.
SPECIFICATION ReadingSpec
CONSTANTS
    s1 = s1
    s2 = s2
    c1 = c1
    c2 = c2
    ka = ka
    kb = kb
    k1 = k1
    k2 = k2
    Senders = {s1}
    Subs = {c1, c2}
    Closers = {k1, k2}
    Drainers = {k2}
    Keen = {c2}
    Impatient = {k2}
    Kinds = {ka}
    Wants <- MCWants
    Policy <- NewestAndBlock
    Depth = 1
    MaxSends = 2
PROPERTIES SendReturns ShutdownCompletes
