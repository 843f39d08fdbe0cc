-------------------------------- MODULE Watcher --------------------------------
(***************************************************************************)
(* The file watcher of one app (internal/watcher): the walk that           *)
(* subscribes a tree of directories, the loop that filters and debounces   *)
(* events and subscribes new directories, Close, and the supervise loop    *)
(* that takes the rebuild signal.  The files change all the time.  Paths   *)
(* are abstract: what the extension and ignore filters say of an event is  *)
(* part of the event.                                                      *)
(***************************************************************************)
EXTENDS Naturals, Sequences

CONSTANTS
    Dirs,         \* the paths a directory can have
    Root,         \* watch.dirs
    Parent,       \* the parent of each directory
    Ignored,      \* watch.ignore
    Unwatchable,  \* directories that fsnotify refuses
    NoDir,        \* no directory
    MaxQueue      \* bound: events the kernel holds

ASSUME WatcherAssumption ==
    /\ Root \in Dirs
    /\ NoDir \notin Dirs
    /\ Parent \in [Dirs -> Dirs \cup {NoDir}]
    /\ Parent[Root] = NoDir
    /\ Ignored \subseteq Dirs /\ Unwatchable \subseteq Dirs
    /\ MaxQueue \in Nat

(* An event: the directory it says was created, and whether it passes.     *)
Event == [new : Dirs \cup {NoDir}, fires : BOOLEAN]

VARIABLES
    exists,     \* the directories there are
    watched,    \* those subscribed to
    queue,      \* fsw.Events
    place,      \* where Start stands: it walks, selects, or has returned
    toAdd,      \* what the walk has still to visit
    reading,    \* the directory it subscribed and has not read yet
    fires,      \* whether the event it walks for passes the filters
    timer,      \* the debounce timer
    rebuildCh,  \* whether the one slot is full
    closer,     \* where Close stands
    dirty       \* history: a source changed since a rebuild began

fs == <<exists, watched, queue>>
walk == <<toAdd, reading, fires>>
vars == <<fs, place, walk, timer, rebuildCh, closer, dirty>>

WatcherTypeOK ==
    /\ exists \subseteq Dirs /\ watched \subseteq Dirs
    /\ queue \in Seq(Event) /\ Len(queue) <= MaxQueue
    /\ place \in {"walk", "select", "returned"}
    /\ toAdd \subseteq Dirs /\ reading \in Dirs \cup {NoDir}
    /\ place # "walk" => toAdd = {} /\ reading = NoDir
    /\ fires \in BOOLEAN
    /\ timer \in {"off", "armed", "fired"}
    /\ rebuildCh \in BOOLEAN
    /\ closer \in {"none", "stopping", "waiting", "closed"}
    /\ dirty \in BOOLEAN

(* Start begins with the walk of the configured directory, in any tree.    *)
Init ==
    /\ exists \in {S \in SUBSET Dirs : \A d \in S : d = Root \/ Parent[d] \in S}
    /\ watched = {}
    /\ queue = <<>>
    /\ place = "walk"
    /\ toAdd = {Root}
    /\ reading = NoDir
    /\ fires = FALSE
    /\ timer = "off"
    /\ rebuildCh = FALSE
    /\ closer = "none"
    /\ dirty = FALSE

-----------------------------------------------------------------------------
(* The file system, as fsnotify reports it: what happens right inside a    *)
(* subscribed directory.                                                   *)

Happens(d, new, passes) ==
    IF d \in watched
    THEN /\ Len(queue) < MaxQueue
         /\ queue' = Append(queue, [new |-> new, fires |-> passes])
         /\ dirty' = (dirty \/ passes)
    ELSE UNCHANGED <<queue, dirty>>

ChangeFile(d, passes) ==
    /\ d \in exists
    /\ Happens(d, NoDir, passes)
    /\ UNCHANGED <<exists, watched, place, walk, timer, rebuildCh, closer>>

MakeDir(d, passes) ==
    /\ d \notin exists /\ Parent[d] \in exists
    /\ exists' = exists \cup {d}
    /\ Happens(Parent[d], d, passes)
    /\ UNCHANGED <<watched, place, walk, timer, rebuildCh, closer>>

RemoveDir(d, passes) ==
    /\ d \in exists \ {Root}
    /\ \A c \in exists : Parent[c] # d
    /\ exists' = exists \ {d}
    /\ watched' = watched \ {d}
    /\ Happens(Parent[d], NoDir, passes)
    /\ UNCHANGED <<place, walk, timer, rebuildCh, closer>>

-----------------------------------------------------------------------------
(* addRecursive: each directory is subscribed first and read then. *)

WalkAdds(d) ==
    /\ place = "walk"
    /\ reading = NoDir
    /\ d \in toAdd
    /\ toAdd' = toAdd \ {d}
    /\ IF d \in exists \ Ignored
       THEN /\ reading' = d
            /\ watched' = IF closer = "waiting" \/ d \in Unwatchable
                          THEN watched ELSE watched \cup {d}
       ELSE UNCHANGED <<reading, watched>>
    /\ UNCHANGED <<exists, queue, place, fires>>
    /\ UNCHANGED <<timer, rebuildCh, closer, dirty>>

WalkReads ==
    /\ reading # NoDir
    /\ toAdd' = toAdd \cup {d \in exists : Parent[d] = reading}
    /\ reading' = NoDir
    /\ UNCHANGED <<fs, place, fires, timer, rebuildCh, closer, dirty>>

(* Mutant: the rest of the tree is left out. *)
WalkEndsEarly ==
    /\ place = "walk"
    /\ reading = NoDir
    /\ place' = "select"
    /\ timer' = IF fires THEN "armed" ELSE timer
    /\ fires' = FALSE
    /\ UNCHANGED <<fs, toAdd, reading, rebuildCh, closer, dirty>>

(* The event that was walked for goes on to the filters. *)
WalkEnds ==
    /\ place = "walk"
    /\ toAdd = {} /\ reading = NoDir
    /\ place' = "select"
    /\ timer' = IF fires THEN "armed" ELSE timer
    /\ fires' = FALSE
    /\ UNCHANGED <<fs, toAdd, reading, rebuildCh, closer, dirty>>

-----------------------------------------------------------------------------
(* The select of Start. *)

IsNewDir(e) == e.new \in exists \ Ignored

(* Mutant: a new directory is subscribed, but not walked. *)
NewDirAddedOnly ==
    /\ place = "select"
    /\ queue # <<>> /\ IsNewDir(Head(queue))
    /\ queue' = Tail(queue)
    /\ watched' = watched \cup {Head(queue).new}
    /\ timer' = IF Head(queue).fires THEN "armed" ELSE timer
    /\ UNCHANGED <<exists, place, walk, rebuildCh, closer, dirty>>

TakeNewDir ==
    /\ place = "select"
    /\ queue # <<>> /\ IsNewDir(Head(queue))
    /\ queue' = Tail(queue)
    /\ place' = "walk"
    /\ toAdd' = {Head(queue).new}
    /\ fires' = Head(queue).fires
    /\ UNCHANGED <<exists, watched, reading, timer, rebuildCh, closer, dirty>>

(* Mutant: a timer that has fired is drained, and not set again. *)
ResetDrainsOnly ==
    /\ place = "select"
    /\ queue # <<>> /\ ~IsNewDir(Head(queue))
    /\ queue' = Tail(queue)
    /\ timer' = IF ~Head(queue).fires THEN timer
                ELSE IF timer = "fired" THEN "off" ELSE "armed"
    /\ UNCHANGED <<exists, watched, place, walk, rebuildCh, closer, dirty>>

(* resetTimer stops the timer, or drains it, and makes a new one. *)
TakeChange ==
    /\ place = "select"
    /\ queue # <<>> /\ ~IsNewDir(Head(queue))
    /\ queue' = Tail(queue)
    /\ timer' = IF Head(queue).fires THEN "armed" ELSE timer
    /\ UNCHANGED <<exists, watched, place, walk, rebuildCh, closer, dirty>>

TimerFires ==
    /\ timer = "armed"
    /\ timer' = "fired"
    /\ UNCHANGED <<fs, place, walk, rebuildCh, closer, dirty>>

(* A signal that finds the slot full is dropped: one rebuild is pending.   *)
Notify ==
    /\ place = "select"
    /\ timer = "fired"
    /\ timer' = "off"
    /\ rebuildCh' = TRUE
    /\ UNCHANGED <<fs, place, walk, closer, dirty>>

(* stopCh is closed; so is fsw.Events, a moment later. *)
Quit ==
    /\ place = "select"
    /\ closer # "none"
    /\ place' = "returned"
    /\ UNCHANGED <<fs, walk, timer, rebuildCh, closer, dirty>>

-----------------------------------------------------------------------------
(* The supervise loop. *)

(* It takes the signal; the rebuild compiles what the files are by then.   *)
(* The slot is the process's and no Restart empties it: once Close has     *)
(* returned the next loop takes the signal that is left.                   *)
Rebuild ==
    /\ rebuildCh
    /\ closer \in {"none", "closed"}
    /\ rebuildCh' = FALSE
    /\ dirty' = FALSE
    /\ UNCHANGED <<fs, place, walk, timer, closer>>

(* Close, when supervise returns: stopCh, ... *)
CloseStops ==
    /\ closer = "none"
    /\ closer' = "stopping"
    /\ UNCHANGED <<fs, place, walk, timer, rebuildCh, dirty>>

(* ... fsnotify, ... *)
CloseFsw ==
    /\ closer = "stopping"
    /\ closer' = "waiting"
    /\ watched' = {}
    /\ queue' = <<>>
    /\ UNCHANGED <<exists, place, walk, timer, rebuildCh, dirty>>

(* Mutant: doneCh is not waited for. *)
CloseReturnsAtOnce ==
    /\ closer = "waiting"
    /\ closer' = "closed"
    /\ UNCHANGED <<fs, place, walk, timer, rebuildCh, dirty>>

(* ... and the wait for doneCh. *)
CloseReturns ==
    /\ closer = "waiting"
    /\ place = "returned"
    /\ closer' = "closed"
    /\ UNCHANGED <<fs, place, walk, timer, rebuildCh, dirty>>

-----------------------------------------------------------------------------

Files ==
    \E d \in Dirs, passes \in BOOLEAN :
        ChangeFile(d, passes) \/ MakeDir(d, passes) \/ RemoveDir(d, passes)

Start ==
    \/ (\E d \in Dirs : WalkAdds(d)) \/ WalkReads \/ WalkEnds
    \/ TakeNewDir \/ TakeChange \/ Notify \/ Quit

Loop == Rebuild \/ CloseStops \/ CloseFsw \/ CloseReturns

Next == Files \/ Start \/ TimerFires \/ Loop

Spec == Init /\ [][Next]_vars

-----------------------------------------------------------------------------
(* Properties. *)

(* A directory whose parent is watched is watched too, or will be: it is   *)
(* on the walk's way, or its creation is among the events.  Directories    *)
(* come and go while the walk runs; it misses none because each one is     *)
(* subscribed before it is read.                                           *)
NoDirForgotten ==
    closer = "none" =>
        \A d \in exists \ (Ignored \cup Unwatchable) :
            d = Root \/ Parent[d] \in watched =>
                \/ d \in watched \cup toAdd
                \/ reading # NoDir /\ reading = Parent[d]
                \/ \E i \in 1..Len(queue) : queue[i].new = d

(* A source that changed in a watched directory since the last rebuild     *)
(* began is on its way to the next one: in an event, in the timer or in    *)
(* the slot, however events, timer and rebuilds fall together.             *)
NoChangeForgotten ==
    closer = "none" /\ dirty =>
        \/ rebuildCh \/ fires \/ timer # "off"
        \/ \E i \in 1..Len(queue) : queue[i].fires

(* Once Close has returned the watcher signals nothing any more.  The loop *)
(* that a Restart spawns next rebuilds once at most on its account: for    *)
(* the signal that was in the slot by then.                                *)
QuietAfterClose ==
    [][closer = "closed" => (rebuildCh' => rebuildCh)]_vars
=============================================================================
