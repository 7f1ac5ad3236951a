SPECIFICATION Spec
CONSTANTS
    Ids = {a1, a2}
    Passes = {p1, p2}
    NoId = NoId
    NoPass = NoPass
    Unguarded = {"repass_in_rekey"}
    MaxKeys = 3
    MaxFaults = 2
SYMMETRY Symmetry
INVARIANT Recoverable
