\* Two senders, an unfiltered DropOldest and a filtered Block subscription, one
\* Close: a stalled consumer really stops the bus, so no deadlock check.
SPECIFICATION Spec
CONSTANTS
    s1 = s1
    s2 = s2
    c1 = c1
    c2 = c2
    ka = ka
    kb = kb
    k1 = k1
    k2 = k2
    Senders = {s1, s2}
    Subs = {c1, c2}
    Closers = {k1}
    Drainers = {}
    Keen = {}
    Impatient = {}
    Kinds = {ka, kb}
    Wants <- MCWants
    Policy <- OldestAndBlock
    Depth = 1
    MaxSends = 2
SYMMETRY SenderSymmetry
CHECK_DEADLOCK FALSE
INVARIANTS TypeOK NoSendOnClosed WalkDelivers DeliveriesAccounted
PROPERTIES ImplementsBus
