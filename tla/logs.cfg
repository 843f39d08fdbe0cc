SPECIFICATION LogSpec
CONSTANTS
    out = out
    reporter = reporter
    one = one
    all = all
    Scanners <- OneScanner
    Reporters <- OneReporter
    AppFollowers <- OneFollower
    AllFollowers <- OneOfAll
    ChanSize = 1
    MaxLines <- TwoAndOne
    MaxLogs = 2
    NoLog = NoLog
    Capacity = 2
    Lines <- EveryLine
    Recent <- ScannedLines
    NoLine = NoLine
    MaxAdded = 3
INVARIANTS TailIsLastLines FilteredIsLastPassing StreamKeepsOrder GapsOnlyWhenFull
PROPERTIES AppendNeverBlocks
CHECK_DEADLOCK FALSE
