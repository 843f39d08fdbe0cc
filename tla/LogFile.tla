-------------------------------- MODULE LogFile --------------------------------
(***************************************************************************)
(* The log file of one app name (internal/logger): the registry entry that *)
(* StartApp configures and Delete detaches, the scan goroutines that       *)
(* append, and the rotation, rename by rename, with the daemon dying at    *)
(* any moment.  A line is its number, and a file's size is how many it     *)
(* holds.  A file is told from its name: a rename leaves open handles be.  *)
(* Every StartApp of the name gives the same log_max_backups: SetLogFile   *)
(* takes it anew, and one that is raised again would count files that were *)
(* left behind when it was lower.                                          *)
(***************************************************************************)
EXTENDS Integers, Sequences, SequencesExt

CONSTANTS
    Writers,    \* scan goroutines: stdout and stderr
    Handlers,   \* handler goroutines that delete or start the app
    MaxBytes,   \* log_max_size_mb: a file of this size is rotated
    MaxBackup,  \* bound: log_max_backups
    MaxLines,   \* bound: lines written to the file
    MaxLogs,    \* bound: procLogs made
    MaxFiles,   \* bound: files that exist at one time
    MaxCrashes, \* bound: daemons that die
    OpenErrors, \* whether a file may fail to open
    Nobody      \* who holds a free fileMu

ASSUME LogFileAssumption ==
    /\ MaxBytes \in Nat \ {0} /\ MaxBackup \in Nat
    /\ MaxLines \in Nat /\ MaxLogs \in Nat /\ MaxFiles \in Nat
    /\ MaxCrashes \in Nat /\ OpenErrors \in BOOLEAN
    /\ Nobody \notin Writers /\ Writers \cap Handlers = {}
    /\ MaxBackup < MaxFiles

Logs == 1..MaxLogs
Files == 1..MaxFiles
Backups == 0..MaxBackup
None == 0

VARIABLES
    registered, \* whether s.procs holds the app
    running,    \* whether it was given its supervise goroutine
    backups,    \* its log_max_backups, up to MaxBackup
    entry,      \* l.procs[name]: the current procLog
    made,       \* how many procLogs there have been
    handle,     \* pl.file of each procLog
    logSize,    \* pl.logSize
    limit,      \* pl.logMaxBytes
    fileMu,     \* who holds pl.fileMu across a rotation
    names,      \* the file called .log (0), .log.1, ..., or None
    content,    \* the lines of each file
    written,    \* history: how many lines were written, in this order
    pc,         \* where each goroutine stands
    pl,         \* the procLog it works on
    shift,      \* rotate's loop counter
    crashes     \* how often the daemon died

appVars == <<registered, running, backups>>
logVars == <<entry, made, handle, logSize, limit, fileMu>>
diskVars == <<names, content, written>>
threads == <<pc, pl, shift>>
vars == <<appVars, logVars, diskVars, threads, crashes>>

LogFileTypeOK ==
    /\ registered \in BOOLEAN /\ running \in BOOLEAN
    /\ backups \in Backups
    /\ entry \in 0..made /\ made \in 0..MaxLogs
    /\ handle \in [Logs -> 0..MaxFiles]
    /\ logSize \in [Logs -> 0..MaxLines]
    /\ limit \in [Logs -> {0, MaxBytes}]
    /\ fileMu \in [Logs -> Writers \cup {Nobody}]
    /\ \A l \in Logs : fileMu[l] # Nobody =>
           pl[fileMu[l]] = l /\ pc[fileMu[l]] \in {"shift", "open"}
    /\ names \in [Backups -> 0..MaxFiles]
    /\ content \in [Files -> Seq(1..written)]
    /\ written \in 0..MaxLines
    /\ pc \in [Writers \cup Handlers ->
                  {"idle", "configure", "detach", "close", "shift", "open"}]
    /\ pl \in [Writers \cup Handlers -> 0..made]
    /\ shift \in [Writers -> 0..MaxBackup]
    /\ crashes \in 0..MaxCrashes

Init ==
    /\ registered = FALSE
    /\ running = FALSE
    /\ backups \in Backups
    /\ entry = None
    /\ made = 0
    /\ handle = [l \in Logs |-> None]
    /\ logSize = [l \in Logs |-> 0]
    /\ limit = [l \in Logs |-> 0]
    /\ fileMu = [l \in Logs |-> Nobody]
    /\ names = [s \in Backups |-> None]
    /\ content = [f \in Files |-> <<>>]
    /\ written = 0
    /\ pc = [t \in Writers \cup Handlers |-> "idle"]
    /\ pl = [t \in Writers \cup Handlers |-> None]
    /\ shift = [w \in Writers |-> 0]
    /\ crashes = 0

Goes(t, from, to) == pc[t] = from /\ pc' = [pc EXCEPT ![t] = to]

(* A file that has neither a name nor a handle is gone. *)
Free(f) == /\ \A s \in Backups : names[s] # f
           /\ \A l \in Logs : handle[l] # f

(* ensure: the entry, made when there is none; l is what it returns. *)
Ensure(l) ==
    \/ entry # None /\ l = entry /\ UNCHANGED <<entry, made>>
    \/ entry = None /\ made < MaxLogs /\ l = made + 1 /\ entry' = l /\ made' = l

(* The file called .log, made when there is none. *)
LogFileIs(f) ==
    f = IF names[0] # None THEN names[0] ELSE CHOOSE g \in Files : Free(g)

-----------------------------------------------------------------------------
(* The supervisor's side. *)

(* StartApp's section under s.mu. *)
Register(t) ==
    /\ ~registered
    /\ Goes(t, "idle", "configure")
    /\ registered' = TRUE
    /\ UNCHANGED <<running, backups, logVars, diskVars, pl, shift, crashes>>

(* Mutant: the file is opened with O_TRUNC. *)
SetLogFileTruncates(t) ==
    \E l \in Logs, f \in Files :
        /\ Goes(t, "configure", "idle")
        /\ Ensure(l)
        /\ fileMu[l] = Nobody
        /\ LogFileIs(f)
        /\ names' = [names EXCEPT ![0] = f]
        /\ content' = [content EXCEPT ![f] = <<>>]
        /\ handle' = [handle EXCEPT ![l] = f]
        /\ logSize' = [logSize EXCEPT ![l] = 0]
        /\ limit' = [limit EXCEPT ![l] = MaxBytes]
        /\ running' = TRUE
        /\ UNCHANGED <<registered, backups, fileMu, written, pl, shift,
                       crashes>>

(* SetLogFile opens it for append and takes its size; the goroutine is     *)
(* spawned after.                                                          *)
SetLogFile(t) ==
    \E l \in Logs, f \in Files :
        /\ Goes(t, "configure", "idle")
        /\ Ensure(l)
        /\ fileMu[l] = Nobody
        /\ LogFileIs(f)
        /\ names' = [names EXCEPT ![0] = f]
        /\ content' = [content EXCEPT ![f] = IF names[0] = f THEN @ ELSE <<>>]
        /\ handle' = [handle EXCEPT ![l] = f]
        /\ logSize' = [logSize EXCEPT
               ![l] = IF names[0] = f THEN Len(content[f]) ELSE 0]
        /\ limit' = [limit EXCEPT ![l] = MaxBytes]
        /\ running' = TRUE
        /\ UNCHANGED <<registered, backups, fileMu, written, pl, shift,
                       crashes>>

(* It fails to make the directory or to open the file: the old file is     *)
(* closed, nothing else is set, and StartApp only logs the error: the      *)
(* goroutine is spawned all the same.                                      *)
SetLogFileFails(t) ==
    \E l \in Logs :
        /\ OpenErrors
        /\ Goes(t, "configure", "idle")
        /\ Ensure(l)
        /\ fileMu[l] = Nobody
        /\ handle' = [handle EXCEPT ![l] = None]
        /\ running' = TRUE
        /\ UNCHANGED <<registered, backups, logSize, limit, fileMu, diskVars,
                       pl, shift, crashes>>

(* Delete, once the app has stopped: the removal from s.procs, ... *)
DeleteRemoves(t) ==
    /\ registered /\ running
    /\ Goes(t, "idle", "detach")
    /\ registered' = FALSE
    /\ running' = FALSE
    /\ UNCHANGED <<backups, logVars, diskVars, pl, shift, crashes>>

(* ... Detach's section under l.mu, ... *)
DetachDrops(t) ==
    /\ IF entry = None THEN Goes(t, "detach", "idle")
                       ELSE Goes(t, "detach", "close")
    /\ pl' = [pl EXCEPT ![t] = entry]
    /\ entry' = None
    /\ UNCHANGED <<appVars, made, handle, logSize, limit, fileMu, diskVars,
                   shift, crashes>>

(* ... and its section under fileMu. *)
DetachCloses(t) ==
    /\ Goes(t, "close", "idle")
    /\ fileMu[pl[t]] = Nobody
    /\ handle' = [handle EXCEPT ![pl[t]] = None]
    /\ pl' = [pl EXCEPT ![t] = None]
    /\ UNCHANGED <<appVars, entry, made, logSize, limit, fileMu, diskVars,
                   shift, crashes>>

-----------------------------------------------------------------------------
(* The scan goroutines: append, as far as the file goes. *)

(* A child is started: its pipe is scanned into the entry of the name.     *)
Attach(w) ==
    \E l \in Logs :
        /\ running
        /\ pc[w] = "idle"
        /\ pl[w] # l
        /\ Ensure(l)
        /\ pl' = [pl EXCEPT ![w] = l]
        /\ UNCHANGED <<appVars, handle, logSize, limit, fileMu, diskVars, pc,
                       shift, crashes>>

Wrote(l) == /\ content' = [content EXCEPT ![handle[l]] = Append(@, written + 1)]
            /\ written' = written + 1
            /\ logSize' = [logSize EXCEPT ![l] = @ + 1]

CanWrite(w) == /\ pc[w] = "idle" /\ pl[w] # None
               /\ fileMu[pl[w]] = Nobody
               /\ handle[pl[w]] # None
               /\ written < MaxLines

Full(l) == limit[l] > 0 /\ logSize[l] + 1 >= limit[l]

Write(w) ==
    /\ CanWrite(w) /\ ~Full(pl[w])
    /\ Wrote(pl[w])
    /\ UNCHANGED <<appVars, entry, made, handle, limit, fileMu, names,
                   threads, crashes>>

(* The line that fills the file starts its rotation, under fileMu. *)
WriteFills(w) ==
    /\ CanWrite(w) /\ Full(pl[w])
    /\ Wrote(pl[w])
    /\ handle' = [handle EXCEPT ![pl[w]] = None]
    /\ fileMu' = [fileMu EXCEPT ![pl[w]] = w]
    /\ Goes(w, "idle", "shift")
    /\ shift' = [shift EXCEPT ![w] = IF backups > 0 THEN backups - 1 ELSE 0]
    /\ UNCHANGED <<appVars, entry, made, limit, names, pl, crashes>>

(* os.Rename, whose error (no such file) is ignored. *)
Rename(from, to) ==
    names' = IF names[from] = None THEN names
             ELSE [names EXCEPT ![to] = names[from], ![from] = None]

(* Mutant: the backups are shifted from the newest to the oldest. *)
ShiftUpwards(w) ==
    /\ pc[w] = "shift" /\ shift[w] > 0
    /\ Rename(backups - shift[w], backups - shift[w] + 1)
    /\ shift' = [shift EXCEPT ![w] = @ - 1]
    /\ UNCHANGED <<appVars, logVars, content, written, pc, pl, crashes>>

ShiftBackup(w) ==
    /\ pc[w] = "shift" /\ shift[w] > 0
    /\ Rename(shift[w], shift[w] + 1)
    /\ shift' = [shift EXCEPT ![w] = @ - 1]
    /\ UNCHANGED <<appVars, logVars, content, written, pc, pl, crashes>>

(* The log becomes .1, or is removed when there are no backups. *)
ShiftLog(w) ==
    /\ shift[w] = 0
    /\ Goes(w, "shift", "open")
    /\ IF backups > 0 THEN Rename(0, 1)
                        ELSE names' = [names EXCEPT ![0] = None]
    /\ UNCHANGED <<appVars, logVars, content, written, pl, shift, crashes>>

(* Mutant: the new file is not kept. *)
OpenUnassigned(w) ==
    \E f \in Files :
        /\ LogFileIs(f)
        /\ Goes(w, "open", "idle")
        /\ names' = [names EXCEPT ![0] = f]
        /\ content' = [content EXCEPT ![f] = <<>>]
        /\ logSize' = [logSize EXCEPT ![pl[w]] = 0]
        /\ fileMu' = [fileMu EXCEPT ![pl[w]] = Nobody]
        /\ UNCHANGED <<appVars, entry, made, handle, limit, written, pl, shift,
                       crashes>>

(* The log stays without a file until the next SetLogFile. *)
OpenFails(w) ==
    /\ OpenErrors
    /\ Goes(w, "open", "idle")
    /\ fileMu' = [fileMu EXCEPT ![pl[w]] = Nobody]
    /\ UNCHANGED <<appVars, entry, made, handle, logSize, limit, diskVars, pl,
                   shift, crashes>>

(* Mutant: fileMu is not unlocked. *)
OpenKeepsLock(w) ==
    \E f \in Files :
        /\ LogFileIs(f)
        /\ Goes(w, "open", "idle")
        /\ names' = [names EXCEPT ![0] = f]
        /\ content' = [content EXCEPT ![f] = <<>>]
        /\ handle' = [handle EXCEPT ![pl[w]] = f]
        /\ logSize' = [logSize EXCEPT ![pl[w]] = 0]
        /\ UNCHANGED <<appVars, entry, made, limit, fileMu, written, pl, shift,
                       crashes>>

(* O_CREATE and O_TRUNC; the unlock. *)
OpenFresh(w) ==
    \E f \in Files :
        /\ LogFileIs(f)
        /\ Goes(w, "open", "idle")
        /\ names' = [names EXCEPT ![0] = f]
        /\ content' = [content EXCEPT ![f] = <<>>]
        /\ handle' = [handle EXCEPT ![pl[w]] = f]
        /\ logSize' = [logSize EXCEPT ![pl[w]] = 0]
        /\ fileMu' = [fileMu EXCEPT ![pl[w]] = Nobody]
        /\ UNCHANGED <<appVars, entry, made, limit, written, pl, shift,
                       crashes>>

-----------------------------------------------------------------------------

(* The daemon dies, between any two renames too; the names stay. *)
Crash ==
    /\ crashes < MaxCrashes
    /\ crashes' = crashes + 1
    /\ registered' = FALSE
    /\ running' = FALSE
    /\ entry' = None
    /\ handle' = [l \in Logs |-> None]
    /\ fileMu' = [l \in Logs |-> Nobody]
    /\ pc' = [t \in Writers \cup Handlers |-> "idle"]
    /\ pl' = [t \in Writers \cup Handlers |-> None]
    /\ shift' = [w \in Writers |-> 0]
    /\ UNCHANGED <<backups, made, logSize, limit, diskVars>>

Request(t) ==
    \/ Register(t) \/ SetLogFile(t) \/ SetLogFileFails(t)
    \/ DeleteRemoves(t) \/ DetachDrops(t) \/ DetachCloses(t)

Scan(w) ==
    \/ Attach(w) \/ Write(w) \/ WriteFills(w)
    \/ ShiftBackup(w) \/ ShiftLog(w) \/ OpenFresh(w) \/ OpenFails(w)

Next ==
    \/ \E t \in Handlers : Request(t)
    \/ \E w \in Writers : Scan(w)
    \/ Crash

Spec == Init /\ [][Next]_vars

-----------------------------------------------------------------------------
(* Properties. *)

(* What the named files hold, from the oldest backup to the log.           *)
Holds(s) == IF names[s] = None THEN <<>> ELSE content[names[s]]
Kept == FlattenSeq([i \in 1..backups + 1 |-> Holds(backups + 1 - i)])

(* The files together hold the last lines written, none missing, doubled   *)
(* or out of order, whatever rotation was cut short.                       *)
KeptIsLastLines == Kept = [i \in 1..Len(Kept) |-> written - Len(Kept) + i]

(* No line is given up that log_max_backups full files have room for; a    *)
(* rotation cut short leaves a gap in the names, which costs one of them.  *)
EnoughIsKept ==
    Len(Kept) = written \/ Len(Kept) >= (backups - crashes) * MaxBytes

(* A registered app with a log_file that was started has its file open:    *)
(* its lines reach the file.  There are three exceptions: the file is just *)
(* being rotated; rotate could not open a new one in place of a full one;  *)
(* or SetLogFile could not open it (so that no limit was ever set), which  *)
(* StartApp logs and forgets, and the app runs without its file until it   *)
(* is deleted and started again.                                           *)
RunningAppHasItsFile ==
    registered /\ running =>
        /\ entry # None
        /\ \/ handle[entry] # None \/ fileMu[entry] # Nobody
           \/ OpenErrors /\ (limit[entry] = 0 \/ logSize[entry] >= limit[entry])
=============================================================================
