SPECIFICATION Spec
CONSTANTS
    root = root
    pkg = pkg
    sub = sub
    vendor = vendor
    locked = locked
    Dirs <- FiveDirs
    Root = root
    Parent <- Tree
    Ignored <- JustVendor
    Unwatchable <- JustLocked
    NoDir = NoDir
    MaxQueue = 3
INVARIANTS WatcherTypeOK NoDirForgotten NoChangeForgotten
PROPERTIES QuietAfterClose
CHECK_DEADLOCK FALSE
