SPECIFICATION WorkSpec
SYMMETRY WorkSymmetry
CONSTANTS
    WorkflowID = {w1}
    Handler = {s1, s2}
    MaxStarts = 2
    MaxEngines = 2
    Flow = {f1}
    User = {u1, u2}
    MaxSeconds = 1
    MaxRecords = 2
    MaxIncrements = 1
    MaxRollbackAttempts = 3
    MaxUnits = 3
    UnitName = {"a", "b", "c"}
    Workflows <- MCWorkflows
    MaxActivityAttempts = 2
    Migrator <- MCMigrator
    Embedded <- MCEmbedded
    NoDownSQL = {3}
    MaxCommands = 4
    ApiHandler = {"h1", "h2"}
    Name = {"n1", "n2"}
    DeploymentStatus = {"running"}
    MaxRequests = 4
    PageID = {1, 2, 3, 4}
    FirstRows = {1, 2, 4}
    KeyOf <- MCKeyOf
    Limits = {0, 1, 9}
    DefaultLimit = 2
    MaxLimit = 3
    MaxPages = 3
    MaxTableWrites = 2
INVARIANTS
    PipelinesAccounted
    RowsTruthful
    UndoingIsSafe
    ReportMatchesSteps
    SchemaConsistent
    StoresAgree
    PagesComplete
    QueryMeansText
    ErrorsMatchProgram
CHECK_DEADLOCK FALSE
