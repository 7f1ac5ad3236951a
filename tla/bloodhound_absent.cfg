SPECIFICATION BloodHoundSpec
CONSTANTS
    Budgets <- Enriching
    People <- MCPeople
    Forest <- MCForest
    Pool = {1, 2}
    Directories <- MCDirectories
    SweepMin = 2
INVARIANT AbsentNotDisabled
CHECK_DEADLOCK FALSE
