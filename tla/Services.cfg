SPECIFICATION ServicesSpec
CONSTANTS
    Absent = Absent
    Hook = {"http", "drainer", "database"}
    DrainHook = "drainer"
    PriorityOf <- MCPriorityOf
    Caller = {main, signal}
    Op = {"request"}
    ItemKey = {"k1", "k2", "k3"}
    ItemSize = {0, 1, 2, 4}
    NumberSize = {1, 2}
    MaxMemory = 3
    MaxItems = 2
    CacheReader = {"r1", "r2"}
    CacheWriter = {"w1"}
    CacheKey = {"k1", "k2"}
    MaxVersion = 2
    Role = {"viewer", "editor", "admin"}
    Permission = {"read", "write"}
    DefaultRoles <- MCDefaultRoles
    RoleDef <- MCRoleDef
    UserRoles <- MCUserRoles
    ParentLists <- MCParentLists
    Checker = {c1, c2}
    MaxWrites = 1
    HealthChecker <- MCHealthChecker
    NameOf <- MCNameOf
    SeverityOf <- MCSeverityOf
    KindOf <- MCKindOf
    Probe = {"p1"}
    MaxProbes = 1
    ApiCaller = {"c1"}
    MaxCallAttempts = 3
    MailSender = {"s1", "s2"}
    MailEvents <- MCMailEvents
    MailRequests <- MCMailRequests
    MailFilters <- MCMailFilters
    MaxMails = 3
    EndpointRequest = {"r1", "r2"}
    Programs <- MCPrograms
    BreakerThreshold = 1
    MaxConcurrent = 1
INVARIANTS
    DependenciesOutliveRequests
    ReturnMeansComplete
    Accounted
    InvalidationHolds
    GrantJustified
    AnswerIsOrderFree
    RepeatsFollowAnswers
    LogTellsMail
    EndpointsKeepFaith
PROPERTY SetEvictsExactly
SYMMETRY ServicesSymmetry
CHECK_DEADLOCK FALSE
