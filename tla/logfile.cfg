SPECIFICATION Spec
CONSTANTS
    stdout = stdout
    stderr = stderr
    h1 = h1
    Nobody = Nobody
    Writers <- BothWriters
    Handlers <- OneHandler
    MaxBytes = 2
    MaxBackup = 3
    MaxLines = 9
    MaxLogs = 3
    MaxFiles = 5
    MaxCrashes = 2
    OpenErrors = TRUE
INVARIANTS LogFileTypeOK KeptIsLastLines EnoughIsKept RunningAppHasItsFile
CHECK_DEADLOCK FALSE
