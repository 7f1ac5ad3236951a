SPECIFICATION FairSpec
CONSTANTS
    u1 = u1
    u2 = u2
    w1 = w1
    w2 = w2
    Users = {u1, u2}
    Workers = {w1, w2}
    None = None
    Unguarded = {}
    MaxRuns = 2
    Sizes <- MCSizes
INVARIANTS
    TypeOK
    OneRun
    ClosesOwnChannel
    AutoLockWaits
    WholeEnrichment
    CancelledWroteNothing
PROPERTIES
    JobsKeepUploads
    RescoreKeepsImpact
    RunsEnd
