SPECIFICATION ProgressSpec
CONSTANTS
    drainer = drainer
    database = database
    c1 = c1
    c2 = c2
    o1 = o1
    d1 = d1
    t1 = t1
    NoDelivery = NoDelivery
    k1 = k1
    k2 = k2
    r1 = r1
    loop = loop
    NoKid = NoKid
    Hook = {drainer, database}
    DrainHook = drainer
    PriorityOf <- MCPriorityOf
    Caller = {c1, c2}
    Op = {o1}
    Kid = {k1, k2}
    Request = {r1}
    Loop = loop
    Secret = TRUE
    Static = TRUE
    Tokens <- MCTokens
    MaxRotations = 1
INVARIANTS
    NewKeyAccepted
PROPERTIES
    ShutdownCompletes
    Quiesces
    RetrySettles
    KeysConverge
CHECK_DEADLOCK FALSE
