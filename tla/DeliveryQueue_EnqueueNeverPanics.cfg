SPECIFICATION Spec
CONSTANTS
    i1 = i1
    i2 = i2
    i3 = i3
    p1 = p1
    p2 = p2
    w1 = w1
    w2 = w2
    s1 = s1
    s2 = s2
    NoItem = NoItem
    Item = {i1, i2, i3}
    Producer = {p1, p2}
    Worker = {w1, w2}
    Stopper = {s1}
    QueueSize = 1
    MaxConcurrent = 1
    MaxAttempts = 3
INVARIANT EnqueueNeverPanics
