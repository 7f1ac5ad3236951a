SPECIFICATION ScoringSpec
CONSTANTS
    Budgets <- DataOnly
    Accounts <- MCAccounts
    Hashes <- MCHashes
    EmptyHash = "empty"
    Secrets <- MCSecrets
    Alike <- MCAlike
    Seen <- MCSeen
    RiskOf <- MCRiskOf
    Dumps <- MCDumps
    CrackFiles <- MCCrackFiles
    Graphs <- MCGraphs
    UserExports <- MCUserExports
    MassHighN = 4
    MassMediumN = 3
    MassHighPct = 75
    MassMediumPct = 50
    MassMinCluster = 2
INVARIANT RoastableNotCritical
CHECK_DEADLOCK FALSE
