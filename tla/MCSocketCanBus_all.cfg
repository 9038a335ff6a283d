\* A peer, two subscriptions, two callers of Close, a sender.  Nothing happens any more
\* once everybody is done, so no deadlock check.
SPECIFICATION FairSpec
CONSTANTS
    p1 = p1
    p2 = p2
    c1 = c1
    c2 = c2
    k1 = k1
    k2 = k2
    s1 = s1
    ka = ka
    kb = kb
    Peers = {p1}
    Subs = {c1, c2}
    Closers = {k1, k2}
    Senders = {s1}
    Kinds = {ka, kb}
    Wants <- MCWants
    Depth = 1
    SockDepth = 1
    MaxFrames = 2
    MaxSends = 1
CHECK_DEADLOCK FALSE
INVARIANTS TypeOK NoSendOnClosed
PROPERTIES  ImplementsBus ShutdownCompletes
