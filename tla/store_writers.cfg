SPECIFICATION Spec
CONSTANTS
    Ids = {a1, a2}
    Clients = {c1, c2}
    None = None
    Cap = 1
    Ops = {"create", "mutate", "delete"}
    Unguarded = {"lock_in_flight", "lock_in_call"}
    MaxUpdates = 1
    MaxFaults = 1
SYMMETRY Symmetry
INVARIANTS TypeOK DeletedGone CacheNotStale LruMirrorsCache
