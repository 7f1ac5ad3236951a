CONSTANTS
    Budgets <- RoleBudgets
    Names = {"ana", "bob"}
    Founders = {"ana", "bob"}
    Passwords = {"right", "wrong"}
    Secret = "right"
    Sources = {"home"}
    s1 = s1
    s2 = s2
    l1 = l1
    l2 = l2
    q1 = q1
    q2 = q2
    v1 = v1
    v2 = v2
    SessionIds = {s1, s2}
    Logins = {l1, l2}
    Threshold = 2
    LockWindow = 1
    LockFor = 1
    MaxTracked = 1
    MaxFailures = 3
    LimitWindow = 1
    IdleTTL = 2
    AbsoluteTTL = 3
    Unguarded = {}
    TokenIds = {1, 2}
    Calls = {1}
    Expiries = {0, 1000}
    Audits = {1}
    Requests = {q1, q2}
    NoAudit = NoAudit
    Editors = {1}
    Values = {v1, v2}
    Blank = Blank
    Accounts <- MCAccounts
    Hashes <- MCHashes
    EmptyHash = "empty"
    Secrets <- MCSecrets
    Alike <- MCAlike
    Seen <- MCSeen
    RiskOf <- MCRiskOf
    Dumps <- MCDumps
    CrackFiles <- MCCrackFiles
    Graphs <- MCGraphs
    UserExports <- MCUserExports
    People <- MCPeople
    Forest <- MCForest
    Pool = {1, 2}
    Directories <- MCDirectories
    SweepMin = 2
    MassHighN = 4
    MassMediumN = 3
    MassHighPct = 75
    MassMediumPct = 50
    MassMinCluster = 2
INIT Init
NEXT Next
INVARIANT CapabilityFollowsRole
CHECK_DEADLOCK FALSE
