SPECIFICATION FairSpec
CONSTANTS
    Ids = {a1}
    Clients = {c1, c2}
    None = None
    Cap = 1
    Ops = {"create", "mutate", "delete"}
    Unguarded = {"lock_in_flight", "lock_in_call"}
    MaxUpdates = 2
    MaxFaults = 1
PROPERTY RequestsReturn
