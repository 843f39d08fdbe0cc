----------------------------- MODULE WatcherProofs -----------------------------
(***************************************************************************)
(* The watcher forgets no directory and no change: proved for every tree,  *)
(* every set of ignored and refused directories, and every order of file   *)
(* changes, walks, timers, rebuilds and the Close.                         *)
(***************************************************************************)
EXTENDS Watcher, TLAPS

(* An event that is walked for is pending only during the walk, and a      *)
(* Close that has returned saw Start return.                               *)
PlaceInv ==
    /\ place # "walk" => ~fires
    /\ closer = "closed" => place = "returned"

WInv == WatcherTypeOK /\ PlaceInv /\ NoDirForgotten /\ NoChangeForgotten

-----------------------------------------------------------------------------
(* Events in the queue. *)

(* What the kernel appends does not disturb what is there. *)
LEMMA Appended ==
    ASSUME NEW q \in Seq(Event), NEW e \in Event
    PROVE  /\ Append(q, e) \in Seq(Event)
           /\ Len(Append(q, e)) = Len(q) + 1 /\ Len(q) \in Nat
           /\ \A i \in 1..Len(q) : /\ i \in 1..Len(Append(q, e))
                                   /\ Append(q, e)[i] = q[i]
           /\ Len(q) + 1 \in 1..Len(Append(q, e))
           /\ Append(q, e)[Len(q) + 1] = e
OBVIOUS

(* An event that is not taken is in the rest of the queue. *)
LEMMA Taken ==
    ASSUME NEW q \in Seq(Event), q # <<>>
    PROVE  /\ Tail(q) \in Seq(Event) /\ Head(q) \in Event
           /\ Len(q) \in Nat /\ Len(Tail(q)) = Len(q) - 1
           /\ \A i \in 1..Len(q) :
                  \/ q[i] = Head(q)
                  \/ \E j \in 1..Len(Tail(q)) : Tail(q)[j] = q[i]
<1>1. /\ Tail(q) \in Seq(Event) /\ Head(q) = q[1] /\ q[1] \in Event
      /\ Len(q) \in Nat /\ Len(Tail(q)) = Len(q) - 1
      /\ \A j \in 1..Len(q) - 1 : Tail(q)[j] = q[j + 1]
  OBVIOUS
<1>2. ASSUME NEW i \in 1..Len(q), i # 1
      PROVE  i - 1 \in 1..Len(Tail(q)) /\ Tail(q)[i - 1] = q[i]
  BY <1>1, <1>2
<1> QED
  BY <1>1, <1>2

(* What happens in a subscribed directory is queued, and nothing else is.  *)
LEMMA HappensStep ==
    ASSUME WatcherTypeOK, NEW d \in Dirs \cup {NoDir},
           NEW new \in Dirs \cup {NoDir}, NEW passes \in BOOLEAN,
           Happens(d, new, passes)
    PROVE  /\ queue' \in Seq(Event) /\ Len(queue') <= MaxQueue
           /\ dirty' \in BOOLEAN
           /\ \A i \in 1..Len(queue) : /\ i \in 1..Len(queue')
                                       /\ queue'[i] = queue[i]
           /\ d \in watched =>
                  \E i \in 1..Len(queue') : queue'[i].new = new
           /\ dirty' => dirty \/ \E i \in 1..Len(queue') : queue'[i].fires
<1>1. CASE d \notin watched
  BY <1>1 DEF Happens, WatcherTypeOK
<1>2. CASE d \in watched
  <2> DEFINE e == [new |-> new, fires |-> passes]
  <2>1. e \in Event /\ queue \in Seq(Event)
    BY DEF Event, WatcherTypeOK
  <2>2. /\ queue' = Append(queue, e) /\ Len(queue) < MaxQueue
        /\ dirty' = (dirty \/ passes) /\ dirty \in BOOLEAN
    BY <1>2 DEF Happens, WatcherTypeOK
  <2>3. e.new = new /\ e.fires = passes
    OBVIOUS
  <2> HIDE DEF e
  <2>4. Len(queue') <= MaxQueue
    BY <2>1, <2>2, Appended, WatcherAssumption
  <2>5. LET n == Len(queue) + 1
        IN  n \in 1..Len(queue') /\ queue'[n] = e
    BY <2>1, <2>2, Appended
  <2>6. dirty' \in BOOLEAN /\ (dirty' => dirty \/ e.fires)
    BY <2>2, <2>3
  <2> QED
    BY <2>1, <2>2, <2>3, <2>4, <2>5, <2>6, Appended
<1> QED
  BY <1>1, <1>2

-----------------------------------------------------------------------------
(* One lemma per actor. *)

(* The file system: a directory that appears in a subscribed one is in the *)
(* events, and one that goes takes its subscription along.                 *)
LEMMA FilesStep ==
    ASSUME WInv, Files
    PROVE  WInv'
<1> USE WatcherAssumption
<1>0. WatcherTypeOK /\ PlaceInv /\ NoDirForgotten /\ NoChangeForgotten
  BY DEF WInv
<1>1. ASSUME NEW d \in Dirs \cup {NoDir}, NEW new \in Dirs \cup {NoDir},
             NEW passes \in BOOLEAN, Happens(d, new, passes),
             UNCHANGED <<place, walk, timer, rebuildCh, closer>>,
             exists' \subseteq Dirs, watched' \subseteq Dirs
      PROVE  WatcherTypeOK' /\ PlaceInv' /\ NoChangeForgotten'
  <2>1. /\ queue' \in Seq(Event) /\ Len(queue') <= MaxQueue
        /\ dirty' \in BOOLEAN
        /\ \A i \in 1..Len(queue) : /\ i \in 1..Len(queue')
                                    /\ queue'[i] = queue[i]
        /\ dirty' => dirty \/ \E i \in 1..Len(queue') : queue'[i].fires
    BY <1>0, <1>1, HappensStep
  <2>2. WatcherTypeOK' /\ PlaceInv'
    BY <1>0, <1>1, <2>1 DEF WatcherTypeOK, PlaceInv, walk
  <2>3. NoChangeForgotten'
    BY <1>0, <1>1, <2>1 DEF NoChangeForgotten, walk
  <2> QED
    BY <2>2, <2>3
<1>2. ASSUME NEW d \in Dirs, NEW passes \in BOOLEAN, ChangeFile(d, passes)
      PROVE  WInv'
  <2>0. d \in Dirs \cup {NoDir} /\ Parent[d] \in Dirs \cup {NoDir}
    OBVIOUS
  <2>1. /\ Happens(d, NoDir, passes)
        /\ UNCHANGED <<exists, watched, place, walk, timer, rebuildCh, closer>>
    BY <1>2 DEF ChangeFile
  <2>2. \A i \in 1..Len(queue) : i \in 1..Len(queue') /\ queue'[i] = queue[i]
    BY <1>0, <2>0, <2>1, HappensStep
  <2>3. NoDirForgotten'
    BY <1>0, <2>1, <2>2 DEF NoDirForgotten, walk
  <2>4. exists' \subseteq Dirs /\ watched' \subseteq Dirs
    BY <1>0, <2>1 DEF WatcherTypeOK
  <2>5. WatcherTypeOK' /\ PlaceInv' /\ NoChangeForgotten'
    BY <1>1, <2>0, <2>1, <2>4
  <2> QED
    BY <2>3, <2>5 DEF WInv
<1>3. ASSUME NEW d \in Dirs, NEW passes \in BOOLEAN, MakeDir(d, passes)
      PROVE  WInv'
  <2>0. d \in Dirs \cup {NoDir} /\ Parent[d] \in Dirs \cup {NoDir}
    OBVIOUS
  <2>1. /\ d \notin exists /\ Parent[d] \in exists
        /\ exists' = exists \cup {d}
        /\ Happens(Parent[d], d, passes)
        /\ UNCHANGED <<watched, place, walk, timer, rebuildCh, closer>>
    BY <1>3 DEF MakeDir
  <2>2. /\ \A i \in 1..Len(queue) : /\ i \in 1..Len(queue')
                                    /\ queue'[i] = queue[i]
        /\ Parent[d] \in watched =>
               \E i \in 1..Len(queue') : queue'[i].new = d
    BY <1>0, <2>0, <2>1, HappensStep
  <2>3. d # Root
    BY <1>0, <2>1 DEF WatcherTypeOK
  <2>4. NoDirForgotten'
    BY <1>0, <2>1, <2>2, <2>3 DEF NoDirForgotten, walk
  <2>5. exists' \subseteq Dirs /\ watched' \subseteq Dirs
    BY <1>0, <2>1 DEF WatcherTypeOK
  <2>6. WatcherTypeOK' /\ PlaceInv' /\ NoChangeForgotten'
    BY <1>1, <2>0, <2>1, <2>5
  <2> QED
    BY <2>4, <2>6 DEF WInv
<1>4. ASSUME NEW d \in Dirs, NEW passes \in BOOLEAN, RemoveDir(d, passes)
      PROVE  WInv'
  <2>0. d \in Dirs \cup {NoDir} /\ Parent[d] \in Dirs \cup {NoDir}
    OBVIOUS
  <2>1. /\ \A c \in exists : Parent[c] # d
        /\ exists' = exists \ {d} /\ watched' = watched \ {d}
        /\ Happens(Parent[d], NoDir, passes)
        /\ UNCHANGED <<place, walk, timer, rebuildCh, closer>>
    BY <1>4 DEF RemoveDir
  <2>2. \A i \in 1..Len(queue) : i \in 1..Len(queue') /\ queue'[i] = queue[i]
    BY <1>0, <2>0, <2>1, HappensStep
  <2>3. NoDirForgotten'
    BY <1>0, <2>1, <2>2 DEF NoDirForgotten, walk
  <2>4. exists' \subseteq Dirs /\ watched' \subseteq Dirs
    BY <1>0, <2>1 DEF WatcherTypeOK
  <2>5. WatcherTypeOK' /\ PlaceInv' /\ NoChangeForgotten'
    BY <1>1, <2>0, <2>1, <2>4
  <2> QED
    BY <2>3, <2>5 DEF WInv
<1> QED
  BY <1>2, <1>3, <1>4 DEF Files

(* The walk: a directory is subscribed before it is read, so that what     *)
(* appears in it meanwhile is seen by the one or the other.                *)
LEMMA WalkStep ==
    ASSUME WInv, (\E d \in Dirs : WalkAdds(d)) \/ WalkReads \/ WalkEnds
    PROVE  WInv'
<1> USE WatcherAssumption
    DEF WInv, WatcherTypeOK, PlaceInv, NoDirForgotten, NoChangeForgotten, fs
<1>1. ASSUME NEW d \in Dirs, WalkAdds(d) PROVE WInv'
  BY <1>1 DEF WalkAdds
<1>2. CASE WalkReads
  BY <1>2 DEF WalkReads
<1>3. CASE WalkEnds
  BY <1>3 DEF WalkEnds
<1> QED
  BY <1>1, <1>2, <1>3

(* The select: the event it takes is walked for, arms the timer, or was    *)
(* filtered out.                                                           *)
LEMMA SelectStep ==
    ASSUME WInv, TakeNewDir \/ TakeChange \/ Notify \/ Quit
    PROVE  WInv'
<1> USE DEF WInv, WatcherTypeOK, PlaceInv, NoDirForgotten, NoChangeForgotten,
        fs, walk
<1>1. CASE TakeNewDir \/ TakeChange
  <2>0. queue \in Seq(Event) /\ queue # <<>> /\ queue' = Tail(queue)
        /\ Len(queue) <= MaxQueue /\ Len(queue) \in Nat
    BY <1>1 DEF TakeNewDir, TakeChange
  <2>1. /\ queue' \in Seq(Event) /\ Head(queue) \in Event
        /\ Len(queue') <= MaxQueue
        /\ \A i \in 1..Len(queue) :
               \/ queue[i] = Head(queue)
               \/ \E j \in 1..Len(queue') : queue'[j] = queue[i]
    BY <2>0, Taken, WatcherAssumption
  <2>2. CASE TakeNewDir
    <3>1. Head(queue).new \in Dirs /\ Head(queue).fires \in BOOLEAN
      BY <2>1, <2>2, WatcherAssumption DEF TakeNewDir, IsNewDir, Event
    <3>2. WatcherTypeOK' /\ PlaceInv'
      BY <2>1, <2>2, <3>1 DEF TakeNewDir
    <3>3. NoDirForgotten'
      BY <2>1, <2>2 DEF TakeNewDir
    <3>4. NoChangeForgotten'
      BY <2>1, <2>2 DEF TakeNewDir
    <3> QED
      BY <3>2, <3>3, <3>4
  <2>3. CASE TakeChange
    <3>1. WatcherTypeOK' /\ PlaceInv'
      BY <2>1, <2>3 DEF TakeChange
    <3>2. NoDirForgotten'
      BY <2>1, <2>3 DEF TakeChange, IsNewDir
    <3>3. NoChangeForgotten'
      BY <2>1, <2>3 DEF TakeChange
    <3> QED
      BY <3>1, <3>2, <3>3
  <2> QED
    BY <1>1, <2>2, <2>3
<1>2. CASE Notify
  BY <1>2 DEF Notify
<1>3. CASE Quit
  BY <1>3 DEF Quit
<1> QED
  BY <1>1, <1>2, <1>3

(* The timer and the supervise loop. *)
LEMMA LoopStep ==
    ASSUME WInv, TimerFires \/ Loop
    PROVE  WInv'
<1> USE WatcherAssumption
    DEF WInv, WatcherTypeOK, PlaceInv, NoDirForgotten, NoChangeForgotten,
        fs, walk
<1>1. CASE TimerFires
  BY <1>1 DEF TimerFires
<1>2. CASE Rebuild
  BY <1>2 DEF Rebuild
<1>3. CASE CloseStops
  BY <1>3 DEF CloseStops
<1>4. CASE CloseFsw
  <2>1. <<>> \in Seq(Event) /\ Len(<<>>) = 0
    OBVIOUS
  <2> QED
    BY <1>4, <2>1 DEF CloseFsw
<1>5. CASE CloseReturns
  BY <1>5 DEF CloseReturns
<1> QED
  BY <1>1, <1>2, <1>3, <1>4, <1>5 DEF Loop

-----------------------------------------------------------------------------

(* The invariant is inductive. *)
LEMMA StepInv == WInv /\ [Next]_vars => WInv'
<1> SUFFICES ASSUME WInv, [Next]_vars PROVE WInv'
  OBVIOUS
<1>1. CASE UNCHANGED vars
  BY <1>1 DEF vars, fs, walk, WInv, WatcherTypeOK, PlaceInv, NoDirForgotten,
     NoChangeForgotten
<1> QED
  BY <1>1, FilesStep, WalkStep, SelectStep, LoopStep DEF Next, Start

(* It holds before the first walk. *)
LEMMA InitInv == Init => WInv
<1> SUFFICES ASSUME Init PROVE WInv
  OBVIOUS
<1>1. <<>> \in Seq(Event) /\ Len(<<>>) = 0
  OBVIOUS
<1>2. exists \subseteq Dirs
  BY DEF Init
<1>3. queue \in Seq(Event) /\ Len(queue) <= MaxQueue
  BY <1>1, WatcherAssumption DEF Init
<1>4. WatcherTypeOK /\ PlaceInv
  BY <1>2, <1>3, WatcherAssumption DEF Init, WatcherTypeOK, PlaceInv
<1>5. NoDirForgotten /\ NoChangeForgotten
  BY WatcherAssumption DEF Init, NoDirForgotten, NoChangeForgotten
<1> QED
  BY <1>4, <1>5 DEF WInv

(* The inductive invariant holds in every reachable state. *)
THEOREM WatcherInductive == Spec => []WInv
BY InitInv, StepInv, PTL DEF Spec

(* Type correctness. *)
THEOREM WatcherTypeCorrect == Spec => []WatcherTypeOK
<1>1. WInv => WatcherTypeOK
  BY DEF WInv
<1> QED
  BY <1>1, WatcherInductive, PTL

(* A directory below a watched one is watched, or on its way to be:        *)
(* addRecursive and the creation events miss none, whenever it appears.    *)
THEOREM NoDirForgottenHolds == Spec => []NoDirForgotten
<1>1. WInv => NoDirForgotten
  BY DEF WInv
<1> QED
  BY <1>1, WatcherInductive, PTL

(* A change since the last rebuild began is on its way to the next one:    *)
(* resetTimer and the one-slot channel lose none.                          *)
THEOREM NoChangeForgottenHolds == Spec => []NoChangeForgotten
<1>1. WInv => NoChangeForgotten
  BY DEF WInv
<1> QED
  BY <1>1, WatcherInductive, PTL

(* After Close nothing is signalled: it waited for the loop that does.     *)
THEOREM QuietAfterCloseHolds == Spec => QuietAfterClose
<1>1. WInv /\ [Next]_vars =>
          [closer = "closed" => (rebuildCh' => rebuildCh)]_vars
  BY DEF WInv, PlaceInv, vars, Next, Files, ChangeFile, MakeDir, RemoveDir,
     Start, WalkAdds, WalkReads, WalkEnds, TakeNewDir, TakeChange, Notify,
     Quit, TimerFires, Loop, Rebuild, CloseStops, CloseFsw, CloseReturns
<1> QED
  BY <1>1, WatcherInductive, PTL DEF Spec, QuietAfterClose
=============================================================================
