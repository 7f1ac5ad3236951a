SPECIFICATION FairSpec
CONSTANTS
    Ids = {a1, a2}
    Passes = {p1, p2}
    NoId = NoId
    NoPass = NoPass
    Unguarded = {}
    MaxKeys = 3
    MaxFaults = 2
INVARIANTS TypeOK Recoverable RunningReads OldPassphraseRetired
PROPERTIES KeepsAudits RekeyConverges
