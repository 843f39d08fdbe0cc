SPECIFICATION FairSpec
CONSTANTS
    Configs <- EveryConfig
    MaxGen = 1
    RestartCap = 3
    NoCmd = NoCmd
    c1 = c1
    c2 = c2
    Callers <- Solo
    Ops <- CallOps
    Free = Free
INVARIANTS RestartBudget
PROPERTIES StopLeadsToDone RebuildIsServed
