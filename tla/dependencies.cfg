SPECIFICATION Spec
CONSTANTS
    db = db
    api = api
    ghost = ghost
    Apps <- TwoApps
    Names <- WithGhost
    Graphs <- ThreeGraphs
    Probed <- JustDb
    MaxChildren <- DbTwice
    Checkers <- DbCheckers
    Retries = 2
    Slots = 1
INVARIANTS StatusFollowsChecker
PROPERTIES FirstStartsFollowDeps WaitsEnd
