SPECIFICATION FairSpec
CONSTANTS
    j1 = j1
    c1 = c1
    c2 = c2
    Job = {j1}
    Canceller = {c1, c2}
    MaxRetry = 2
    MaxFires = 1
    MaxRestarts = 2
INVARIANTS
    EntriesUnderControl
    RecordTellsTruth
PROPERTY AcceptedRuns
