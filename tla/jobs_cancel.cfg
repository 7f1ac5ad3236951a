SPECIFICATION FairSpec
CONSTANTS
    u1 = u1
    u2 = u2
    w1 = w1
    w2 = w2
    Users = {u1, u2}
    Workers = {w1, w2}
    None = None
    Unguarded = {}
    MaxRuns = 1
    Sizes <- OneWorker
PROPERTY CancelStops
