SPECIFICATION CallerSpec
CONSTANTS
    Configs <- JustBase
    MaxGen = 2
    RestartCap = 1
    NoCmd = NoCmd
    c1 = c1
    c2 = c2
    Callers <- Pair
    Ops <- CallOps
    Free = Free
PROPERTIES CallersReturn
