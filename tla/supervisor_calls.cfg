SPECIFICATION Spec
CONSTANTS
    Configs <- BothWatched
    MaxGen = 2
    RestartCap = 1
    NoCmd = NoCmd
    c1 = c1
    c2 = c2
    Callers <- Pair
    Ops <- AllOps
    Free = Free
INVARIANTS OneSupervisor OneChild StatusTellsChild OkMeansReaped IInv DeleteAloneLeavesNothing
PROPERTIES NoStraySignal ImplementsSlot
SYMMETRY PairSymmetry
