SPECIFICATION FairSpec
CONSTANTS
    e1 = e1
    e2 = e2
    t = t
    s1 = s1
    s2 = s2
    p1 = p1
    p2 = p2
    w1 = w1
    w2 = w2
    c1 = c1
    NoEvent = NoEvent
    Event = {e1, e2}
    EventType = {t}
    TypeOf <- MCTypeOf
    Subscriber = {s1, s2}
    Publisher = {p1, p2}
    Worker = {w1, w2}
    Closer = {c1}
    AsyncBufferSize = 1
    MaxSubscriptions = 2
INVARIANTS
    HandledRightly
    ClosesCleanly
PROPERTY AcceptedIsDelivered
