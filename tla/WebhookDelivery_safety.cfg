SPECIFICATION Spec
CONSTANTS
    d1 = d1
    d2 = d2
    loop = loop
    t1 = t1
    NoDelivery = NoDelivery
    Delivery = {d1, d2}
    Loop = loop
    Trigger = {t1}
    MaxAttempts = 2
    MaxRetries = 2
    BatchSize = 1
    MaxFailureCount = 2
    MaxRounds = 1
SYMMETRY MCSymmetry
INVARIANT LimitDisables
INVARIANT GiveUpJustified
INVARIANT SuccessIsFinal
