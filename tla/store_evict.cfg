SPECIFICATION Spec
CONSTANTS
    Ids = {a1, a2}
    Clients = {c1, c2}
    None = None
    Cap = 1
    Ops = {"create", "mutate", "delete", "read"}
    Unguarded = {}
    MaxUpdates = 2
    MaxFaults = 1
SYMMETRY Symmetry
INVARIANT NoLostUpdate
