\* One sender and one DropOldest subscriber that keeps reading.
SPECIFICATION ReadingSpec
CONSTANTS
    s1 = s1
    s2 = s2
    c1 = c1
    c2 = c2
    ka = ka
    kb = kb
    k1 = k1
    k2 = k2
    Senders = {s1}
    Subs = {c1}
    Closers = {k1}
    Drainers = {}
    Keen = {c1}
    Impatient = {}
    Kinds = {ka, kb}
    Wants <- MCWants
    Policy <- AllDropOldest
    Depth = 1
    MaxSends = 2
CHECK_DEADLOCK FALSE
PROPERTIES SendReturns
