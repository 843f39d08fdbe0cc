-------------------------- MODULE DependenciesProofs --------------------------
(***************************************************************************)
(* The inductive invariant of module Dependencies and what follows from it *)
(* for every set of apps, every dependency graph and every number of       *)
(* children, retries and channel slots.                                    *)
(***************************************************************************)
EXTENDS Dependencies, SequenceTheorems, TLAPS

(* A loop that has passed waitForDeps: its app may start a child. *)
Freed(a) == loop[a] \in {"top", "start", "announce", "wait", "backoff"}

Ran(d) == d \in Apps /\ born[d] > 0

(* A status that releases others was set behind a child, and what has been *)
(* polled, in this pass or in the pass that freed the app, has run.        *)
ReleaseInv ==
    \A a \in Apps :
        /\ loop[a] \in {"announce", "wait"} => born[a] > 0
        /\ Up(status[a]) => born[a] > 0
        /\ next[a] > 0
        /\ \A i \in DOMAIN dependsOn[a] : i < next[a] => Ran(dependsOn[a][i])
        /\ Freed(a) => \A d \in Deps(a) : Ran(d)

(* The checker of a child that is not announced yet has done nothing. *)
Untouched(k) ==
    /\ checker[k] = "off"
    /\ k \notin stopping \cup lost
    /\ current[k] = "unknown"
    /\ statusCh[k] = <<>>

CheckerInv ==
    \A a \in Probed : \A n \in 1..MaxChildren[a] :
        /\ n > born[a] \/ (n = born[a] /\ loop[a] = "announce")
           => Untouched(<<a, n>>)
        /\ n = born[a] /\ loop[a] = "wait" => <<a, n>> \notin stopping

DInv == TypeOK /\ ReleaseInv /\ CheckerInv /\ StatusFollowsChecker

-----------------------------------------------------------------------------
(* Types. *)

(* A checker's name is its app and the number of its child. *)
LEMMA CheckerNames ==
    /\ \A k \in Checkers : \E a \in Probed : \E n \in 1..MaxChildren[a] :
           k = <<a, n>>
    /\ \A a \in Probed : \A n \in 1..MaxChildren[a] : <<a, n>> \in Checkers
<1>1. Checkers = UNION {{a} \X (1..MaxChildren[a]) : a \in Probed}
  BY DependenciesAssumption
<1> QED
  BY <1>1

(* A probed app with a child has a checker for it. *)
LEMMA OwnChecker ==
    ASSUME TypeOK, NEW a \in Probed, born[a] > 0
    PROVE  Own(a) \in Checkers
<1>1. a \in Apps /\ born[a] \in Nat /\ born[a] <= MaxChildren[a]
  BY DependenciesAssumption DEF TypeOK
<1>2. MaxChildren[a] \in Nat
  BY <1>1, DependenciesAssumption
<1>3. born[a] \in 1..MaxChildren[a]
  BY <1>1, <1>2
<1> QED
  BY <1>3, CheckerNames DEF Own

(* What a checker does on its own keeps its types. *)
LEMMA CheckingType ==
    ASSUME HealthTypeOK, NEW k \in Checkers, Checking(k)
    PROVE  HealthTypeOK'
<1> USE HealthAssumption DEF HealthTypeOK, CheckerStep
<1>1. CASE Tick(k)
  BY <1>1 DEF Tick
<1>2. CASE Closes(k)
  BY <1>2 DEF Closes, Verdicts
<1>3. ASSUME NEW ok \in BOOLEAN, Checked(k, ok) PROVE HealthTypeOK'
  <2> DEFINE next_ == Verdict(k, ok)
  <2>1. next_ \in Verdicts /\ (next_ # current[k] => next_ \in Changes)
    BY DEF Verdict, Verdicts, Changes
  <2>2. failures' \in [Checkers -> 0..Retries]
    BY <1>3 DEF Checked
  <2>3. checker' \in [Checkers -> {"off", "select", "check", "closed"}]
        /\ current' \in [Checkers -> Verdicts] /\ stopping' \subseteq Checkers
    BY <1>3, <2>1 DEF Checked
  <2>4. CASE next_ # current[k] /\ Len(statusCh[k]) < Slots
    <3> DEFINE longer == Append(statusCh[k], next_)
    <3>1. longer \in Seq(Changes) /\ Len(longer) = Len(statusCh[k]) + 1
      BY <2>1, <2>4
    <3>2. Len(longer) <= Slots
      BY <2>4, <3>1
    <3>3. statusCh' = [statusCh EXCEPT ![k] = longer] /\ lost' = lost
      BY <1>3, <2>4 DEF Checked
    <3> HIDE DEF longer
    <3> QED
      BY <2>2, <2>3, <3>1, <3>2, <3>3
  <2>5. CASE ~(next_ # current[k] /\ Len(statusCh[k]) < Slots)
    BY <1>3, <2>2, <2>3, <2>5 DEF Checked
  <2> QED
    BY <2>4, <2>5
<1> QED
  BY <1>1, <1>2, <1>3 DEF Checking

(* What the loops do with a checker keeps its types. *)
LEMMA LoopHealthType ==
    ASSUME HealthTypeOK, NEW k \in Checkers, Start(k) \/ Stop(k) \/ Receive(k)
    PROVE  HealthTypeOK'
<1> USE HealthAssumption DEF HealthTypeOK, CheckerStep
<1>1. CASE Start(k)
  BY <1>1 DEF Start
<1>2. CASE Stop(k)
  BY <1>2 DEF Stop, Verdicts
<1>3. CASE Receive(k)
  <2> DEFINE shorter == Tail(statusCh[k])
  <2>1. shorter \in Seq(Changes) /\ Len(shorter) <= Slots
    BY <1>3 DEF Receive
  <2>2. statusCh' = [statusCh EXCEPT ![k] = shorter]
    BY <1>3 DEF Receive
  <2> HIDE DEF shorter
  <2> QED
    BY <1>3, <2>1, <2>2 DEF Receive
<1> QED
  BY <1>1, <1>2, <1>3

(* The list of an app is a sequence of names. *)
LEMMA ListType ==
    ASSUME TypeOK, NEW a \in Apps
    PROVE  dependsOn[a] \in Seq(Names) /\ Len(dependsOn[a]) \in Nat
<1>1. dependsOn[a] \in Seq(Names)
  BY DependenciesAssumption DEF TypeOK
<1> QED
  BY <1>1

(* Every step of an app keeps the types. *)
LEMMA AppType ==
    ASSUME TypeOK, ReleaseInv, NEW a \in Apps,
           Waiting(a) \/ Running(a) \/ Calls(a)
    PROVE  TypeOK'
<1> USE DependenciesAssumption DEF ReleaseInv, TypeOK, Status, Places,
       LoopStep, SetStatus
<1>h. ASSUME UNCHANGED healthVars PROVE HealthTypeOK'
  BY <1>h DEF HealthTypeOK, healthVars
<1>1. CASE Waiting(a)
  <2>1. next' \in [Apps -> Nat]
    BY <1>1 DEF Waiting, Poll, Released, PollAgain, WaitStopped
  <2> QED
    BY <1>1, <1>h, <2>1 DEF Waiting, Poll, Released, PollAgain, WaitStopped
<1>2. CASE \/ Top(a) \/ StartFails(a) \/ StoppedEarly(a)
           \/ Backoff(a) \/ ChildDies(a)
  BY <1>2, <1>h DEF Top, StartFails, StoppedEarly, Backoff, ChildDies
<1>3. CASE StartChild(a)
  <2>1. born' \in [Apps -> Nat] /\ \A b \in Apps : born'[b] <= MaxChildren[b]
    BY <1>3 DEF StartChild
  <2> QED
    BY <1>3, <1>h, <2>1 DEF StartChild
<1>4. CASE Announce(a)
  <2>1. HealthTypeOK'
    BY <1>4, <1>h, OwnChecker, LoopHealthType DEF Announce
  <2> QED
    BY <1>4, <2>1 DEF Announce
<1>5. CASE HealthEvent(a)
  <2>1. Own(a) \in Checkers
    BY <1>5, OwnChecker DEF HealthEvent
  <2>2. HealthTypeOK'
    BY <1>5, <2>1, LoopHealthType DEF HealthEvent
  <2>3. Head(statusCh[Own(a)]) \in Status
    BY <1>5, <2>1 DEF HealthEvent, Receive, HealthTypeOK, Changes
  <2> QED
    BY <1>5, <2>2, <2>3 DEF HealthEvent
<1>6. CASE EventStop(a) \/ ExitRetried(a) \/ ExitFinal(a)
  <2>1. HealthTypeOK'
    BY <1>6, <1>h, OwnChecker, LoopHealthType
       DEF EventStop, ExitRetried, ExitFinal, LeaveWait
  <2> QED
    BY <1>6, <2>1 DEF EventStop, ExitRetried, ExitFinal, LeaveWait
<1>7. CASE StartApp(a) \/ Restart(a)
  BY <1>7, <1>h DEF StartApp, Restart
<1>8. CASE CloseStop(a)
  BY <1>8, <1>h DEF CloseStop
<1>9. CASE Delete(a)
  BY <1>9, <1>h DEF Delete
<1> QED
  BY <1>1, <1>2, <1>3, <1>4, <1>5, <1>6, <1>7, <1>8, <1>9 DEF Running, Calls

-----------------------------------------------------------------------------
(* Releases. *)

(* Polling moves past a dependency only behind its first child, and the    *)
(* end of a pass has moved past all of them.                               *)
LEMMA WaitingRelease ==
    ASSUME TypeOK, ReleaseInv, NEW a \in Apps, Waiting(a)
    PROVE  ReleaseInv'
<1> USE DEF TypeOK, ReleaseInv, LoopStep, SetStatus, Freed, Ran, Up, Deps
<1>0. Len(dependsOn[a]) \in Nat /\ dependsOn[a] \in Seq(Names)
  BY ListType
<1>1. CASE Poll(a)
  <2>1. next[a] \in DOMAIN dependsOn[a]
    BY <1>0, <1>1 DEF Poll
  <2>2. CASE next' = next
    BY <1>1, <2>2 DEF Poll
  <2>3. CASE next' # next
    <3>1. Ran(dependsOn[a][next[a]]) /\ next' = [next EXCEPT ![a] = @ + 1]
      BY <1>1, <2>1, <2>3 DEF Poll
    <3>2. \A i \in DOMAIN dependsOn[a] :
              i < next'[a] => i < next[a] \/ i = next[a]
      BY <1>0, <3>1
    <3> QED
      BY <1>1, <2>3, <3>1, <3>2 DEF Poll
  <2> QED
    BY <2>2, <2>3
<1>2. CASE Released(a)
  <2>1. \A d \in Deps(a) : Ran(d)
    BY <1>0, <1>2 DEF Released
  <2> QED
    BY <1>0, <1>2, <2>1 DEF Released
<1>3. CASE PollAgain(a)
  BY <1>0, <1>3 DEF PollAgain
<1>4. CASE WaitStopped(a)
  BY <1>0, <1>4 DEF WaitStopped
<1> QED
  BY <1>1, <1>2, <1>3, <1>4 DEF Waiting

(* The loop and the calls keep it: a child is started only by a freed app, *)
(* and online or ready is set only behind a child.                         *)
LEMMA AppRelease ==
    ASSUME TypeOK, ReleaseInv, NEW a \in Apps, Running(a) \/ Calls(a)
    PROVE  ReleaseInv'
<1> USE DEF TypeOK, ReleaseInv, LoopStep, SetStatus, Freed, Ran, Up, Deps
<1>1. CASE StartChild(a)
  <2>1. \A b \in Apps : born'[b] \in Nat /\ (born[b] > 0 => born'[b] > 0)
    BY <1>1 DEF StartChild
  <2>2. born'[a] > 0
    BY <1>1 DEF StartChild
  <2> QED
    BY <1>1, <2>1, <2>2 DEF StartChild
<1>2. CASE \/ Top(a) \/ StartFails(a) \/ StoppedEarly(a) \/ Announce(a)
           \/ HealthEvent(a) \/ EventStop(a) \/ ExitRetried(a)
           \/ ExitFinal(a) \/ Backoff(a) \/ ChildDies(a)
  BY <1>2 DEF Top, StartFails, StoppedEarly, Announce, HealthEvent, EventStop,
     ExitRetried, ExitFinal, LeaveWait, Backoff, ChildDies
<1>3. CASE Calls(a)
  BY <1>3 DEF Calls, StartApp, CloseStop, Restart, Delete
<1> QED
  BY <1>1, <1>2, <1>3 DEF Running

-----------------------------------------------------------------------------
(* Verdicts. *)

(* The last of a queue that grows, and of one that is read.                *)
LEMMA AppendLast ==
    \A s \in Seq(Changes) : \A e \in Changes :
        /\ Append(s, e) # <<>>
        /\ Len(Append(s, e)) = Len(s) + 1
        /\ Append(s, e)[Len(s) + 1] = e
BY AppendProperties

LEMMA TailLast ==
    ASSUME NEW s \in Seq(Changes), s # <<>>
    PROVE  s[Len(s)] = IF Tail(s) # <<>> THEN Tail(s)[Len(Tail(s))] ELSE Head(s)
<1>1. /\ Tail(s) \in Seq(Changes) /\ Len(Tail(s)) = Len(s) - 1
      /\ \A i \in 1..Len(Tail(s)) : Tail(s)[i] = s[i + 1]
  BY HeadTailProperties
<1>2. Len(s) \in Nat \ {0}
  BY EmptySeq
<1>3. CASE Tail(s) = <<>>
  <2>1. Len(Tail(s)) = 0
    BY <1>3, EmptySeq
  <2>2. Len(s) = 1
    <3>1. \A n \in Nat : n - 1 = 0 => n = 1
      OBVIOUS
    <3>2. Len(s) - 1 = 0
      BY <1>1, <2>1
    <3> QED
      BY <1>2, <3>1, <3>2
  <2> QED
    BY <1>3, <2>2
<1>4. CASE Tail(s) # <<>>
  <2>1. Len(Tail(s)) \in Nat \ {0}
    BY <1>1, <1>4, EmptySeq
  <2> QED
    BY <1>1, <1>2, <1>4, <2>1
<1> QED
  BY <1>3, <1>4

(* A checker that goes on touches nothing of an untouched one, and what it *)
(* finds out is the last that is sent.                                     *)
LEMMA CheckingVerdict ==
    ASSUME TypeOK, ReleaseInv, CheckerInv, StatusFollowsChecker,
           NEW k \in Checkers, Checking(k), UNCHANGED appVars
    PROVE  CheckerInv' /\ StatusFollowsChecker'
<1> USE DEF TypeOK, HealthTypeOK, CheckerStep, appVars
<1>0. /\ Probed \subseteq Apps
      /\ \A a \in Apps : born[a] \in Nat /\ born[a] <= MaxChildren[a]
  BY DependenciesAssumption
<1>1. checker[k] # "off"
  BY DEF Checking, Tick, Closes, Checked
<1>2. UNCHANGED stopping
  BY DEF Checking, Tick, Closes, Checked
<1>3. \A j \in Checkers \ {k} :
         /\ checker'[j] = checker[j]
         /\ current'[j] = current[j]
         /\ statusCh'[j] = statusCh[j]
         /\ j \in lost' <=> j \in lost
  BY DEF Checking, Tick, Closes, Checked
<1>4. CheckerInv'
  BY <1>1, <1>2, <1>3, CheckerNames, ZenonT(60) DEF CheckerInv, Untouched
<1>5. ASSUME NEW a \in Probed, loop[a] = "wait", Own(a) \notin lost',
             Own(a) = k
      PROVE  current'[k] =
                 IF statusCh'[k] # <<>> THEN statusCh'[k][Len(statusCh'[k])]
                 ELSE IF status[a] = "online" THEN "unknown" ELSE status[a]
  <2>1. k \notin stopping
    <3>1. born[a] \in 1..MaxChildren[a]
      BY <1>0, <1>5, DependenciesAssumption DEF ReleaseInv
    <3> QED
      BY <1>5, <3>1 DEF CheckerInv, Own
  <2>2. k \notin lost
    BY <1>5, <2>1 DEF Checking, Tick, Closes, Checked
  <2>3. current[k] =
            IF statusCh[k] # <<>> THEN statusCh[k][Len(statusCh[k])]
            ELSE IF status[a] = "online" THEN "unknown" ELSE status[a]
    BY <1>5, <2>2 DEF StatusFollowsChecker
  <2>4. CASE Tick(k)
    BY <2>3, <2>4 DEF Tick
  <2>5. CASE Closes(k)
    BY <2>1, <2>5 DEF Closes
  <2>6. ASSUME NEW ok \in BOOLEAN, Checked(k, ok)
        PROVE  UNCHANGED <<current[k], statusCh[k]>>
               \/ /\ statusCh'[k] = Append(statusCh[k], current'[k])
                  /\ current'[k] \in Changes
    <3>1. Verdict(k, ok) \in Changes \cup {current[k]}
      BY DEF Verdict, Changes
    <3> QED
      BY <1>5, <2>6, <3>1 DEF Checked
  <2>7. CASE /\ statusCh'[k] = Append(statusCh[k], current'[k])
             /\ current'[k] \in Changes
    <3>1. statusCh[k] \in Seq(Changes)
      OBVIOUS
    <3>2. Len(statusCh'[k]) = Len(statusCh[k]) + 1
          /\ statusCh'[k][Len(statusCh[k]) + 1] = current'[k]
          /\ statusCh'[k] # <<>>
      BY <2>7, <3>1, AppendLast
    <3> QED
      BY <3>2
  <2>8. CASE UNCHANGED <<current[k], statusCh[k]>>
    BY <2>3, <2>8
  <2> QED
    BY <2>4, <2>5, <2>6, <2>7, <2>8 DEF Checking
<1>6. StatusFollowsChecker'
  <2> SUFFICES ASSUME NEW a \in Probed, loop[a] = "wait", Own(a) \notin lost'
               PROVE  current'[Own(a)] =
                          IF statusCh'[Own(a)] # <<>>
                          THEN statusCh'[Own(a)][Len(statusCh'[Own(a)])]
                          ELSE IF status[a] = "online" THEN "unknown"
                          ELSE status[a]
    BY DEF StatusFollowsChecker, Own
  <2>1. CASE Own(a) = k
    BY <1>5, <2>1
  <2>2. CASE Own(a) # k
    <3>1. Own(a) \in Checkers
      BY OwnChecker, <1>0 DEF ReleaseInv
    <3> QED
      BY <1>3, <2>2, <3>1 DEF StatusFollowsChecker
  <2> QED
    BY <2>1, <2>2
<1> QED
  BY <1>4, <1>6

(* Waiting, calling, and the steps of a loop that leave its checker alone. *)
LEMMA AppKeepsVerdict ==
    ASSUME TypeOK, CheckerInv, StatusFollowsChecker, NEW a \in Apps,
           UNCHANGED <<born, healthVars>>,
           \A b \in Apps \ {a} : loop'[b] = loop[b] /\ status'[b] = status[b],
           loop'[a] = "announce" => loop[a] = "announce",
           loop'[a] = "wait" => loop[a] = "wait" /\ status'[a] = status[a]
    PROVE  CheckerInv' /\ StatusFollowsChecker'
<1>0. Probed \subseteq Apps
  BY DependenciesAssumption
<1>1. CheckerInv'
  BY <1>0, ZenonT(60) DEF CheckerInv, Untouched, healthVars
<1>2. StatusFollowsChecker'
  BY <1>0 DEF StatusFollowsChecker, Own, healthVars
<1> QED
  BY <1>1, <1>2

(* The steps of a loop that start, read or stop the checker of its child.  *)
LEMMA LoopVerdict ==
    ASSUME DInv, NEW a \in Apps,
           \/ StartChild(a) \/ Announce(a) \/ HealthEvent(a)
           \/ EventStop(a) \/ ExitRetried(a) \/ ExitFinal(a)
    PROVE  CheckerInv' /\ StatusFollowsChecker'
<1> USE DEF DInv, TypeOK, HealthTypeOK, LoopStep, SetStatus
<1>0. /\ Probed \subseteq Apps
      /\ \A b \in Apps : born[b] \in Nat /\ born[b] <= MaxChildren[b]
      /\ \A b \in Apps : MaxChildren[b] \in Nat
  BY DependenciesAssumption
<1>1. CASE StartChild(a)
  <2>1. CheckerInv'
    <3>1. /\ loop' = [loop EXCEPT ![a] = "announce"]
          /\ born' = [born EXCEPT ![a] = @ + 1]
          /\ UNCHANGED healthVars
      BY <1>1 DEF StartChild
    <3> SUFFICES ASSUME NEW b \in Probed, NEW n \in 1..MaxChildren[b]
                 PROVE  /\ \/ n > born'[b]
                           \/ n = born'[b] /\ loop'[b] = "announce"
                           => Untouched(<<b, n>>)'
                        /\ n = born'[b] /\ loop'[b] = "wait"
                           => <<b, n>> \notin stopping'
      BY DEF CheckerInv
    <3>2. Untouched(<<b, n>>)' <=> Untouched(<<b, n>>)
      BY <3>1 DEF Untouched, healthVars
    <3>3. b = a => born'[b] = born[b] + 1 /\ loop'[b] = "announce"
      BY <1>0, <3>1
    <3>4. b # a => born'[b] = born[b] /\ loop'[b] = loop[b]
      BY <1>0, <3>1
    <3>5. b \in Apps /\ n \in Nat /\ born[b] \in Nat
      BY <1>0
    <3>6. CASE b = a
      <4>1. n >= born[b] + 1 => Untouched(<<b, n>>)
        BY <3>5 DEF CheckerInv
      <4> QED
        BY <3>2, <3>3, <3>5, <3>6, <4>1
    <3>7. CASE b # a
      BY <3>1, <3>2, <3>4, <3>7 DEF CheckerInv, healthVars
    <3> QED
      BY <3>6, <3>7
  <2>2. StatusFollowsChecker'
    BY <1>0, <1>1 DEF StartChild, StatusFollowsChecker, Own, healthVars
  <2> QED
    BY <2>1, <2>2
<1>2. CASE Announce(a)
  <2>0. born[a] > 0 /\ loop[a] = "announce"
    BY <1>2 DEF Announce, ReleaseInv
  <2>2. a \in Probed => Own(a) \in Checkers /\ Untouched(Own(a))
    <3>1. a \in Probed => born[a] \in 1..MaxChildren[a]
      BY <1>0, <2>0
    <3> QED
      BY <2>0, <3>1, CheckerNames DEF CheckerInv, Own
  <2>1. CheckerInv'
    <3>1. /\ loop' = [loop EXCEPT ![a] = "wait"]
          /\ UNCHANGED <<born, stopping, current, statusCh, lost>>
      BY <1>2 DEF Announce, Start, healthVars
    <3>2. \A j \in Checkers : j # Own(a) => checker'[j] = checker[j]
      BY <1>2 DEF Announce, Start, CheckerStep, healthVars
    <3> SUFFICES ASSUME NEW b \in Probed, NEW n \in 1..MaxChildren[b]
                 PROVE  /\ n > born[b] \/ (n = born[b] /\ loop'[b] = "announce")
                           => Untouched(<<b, n>>)'
                        /\ n = born[b] /\ loop'[b] = "wait"
                           => <<b, n>> \notin stopping
      BY <3>1 DEF CheckerInv
    <3>3. b \in Apps /\ n \in Nat /\ born[b] \in Nat /\ <<b, n>> \in Checkers
      BY <1>0, CheckerNames
    <3>4. <<b, n>> # Own(a) => (Untouched(<<b, n>>)' <=> Untouched(<<b, n>>))
      BY <3>1, <3>2, <3>3 DEF Untouched
    <3>5. CASE b = a
      <4>1. n # born[b] => <<b, n>> # Own(a)
        BY <3>5 DEF Own
      <4>2. loop'[b] = "wait"
        BY <1>0, <3>1, <3>3, <3>5
      <4>3. n = born[b] => <<b, n>> \notin stopping
        BY <2>2, <3>5 DEF Untouched, Own
      <4> QED
        BY <3>3, <3>4, <4>1, <4>2, <4>3 DEF CheckerInv
    <3>6. CASE b # a
      <4>1. <<b, n>> # Own(a)
        BY <3>6 DEF Own
      <4>2. loop'[b] = loop[b]
        BY <1>0, <3>1, <3>3, <3>6
      <4> QED
        BY <3>4, <4>1, <4>2 DEF CheckerInv
    <3> QED
      BY <3>5, <3>6
  <2>3. StatusFollowsChecker'
    BY <1>0, <1>2, <2>2
       DEF Announce, Start, Untouched, StatusFollowsChecker, Own, healthVars
  <2> QED
    BY <2>1, <2>3
<1>3. CASE HealthEvent(a)
  <2> DEFINE k == Own(a)
  <2>0. k \in Checkers /\ a \in Probed /\ statusCh[k] # <<>>
    BY <1>3, OwnChecker DEF HealthEvent, Receive, ReleaseInv
  <2>1. statusCh[k] \in Seq(Changes)
    BY <2>0
  <2>2. CheckerInv'
    <3>1. /\ loop[a] = "wait" /\ loop' = loop
          /\ UNCHANGED <<born, checker, stopping, current, lost>>
      BY <1>3 DEF HealthEvent, Receive
    <3>2. \A j \in Checkers : j # k => statusCh'[j] = statusCh[j]
      BY <1>3 DEF HealthEvent, Receive
    <3> SUFFICES ASSUME NEW b \in Probed, NEW n \in 1..MaxChildren[b]
                 PROVE  /\ n > born[b] \/ (n = born[b] /\ loop[b] = "announce")
                           => Untouched(<<b, n>>)'
                        /\ n = born[b] /\ loop[b] = "wait"
                           => <<b, n>> \notin stopping
      BY <3>1 DEF CheckerInv
    <3>3. <<b, n>> \in Checkers /\ n \in Nat /\ born[b] \in Nat
      BY <1>0, CheckerNames
    <3>4. n > born[b] \/ (n = born[b] /\ loop[b] = "announce") => <<b, n>> # k
      BY <3>1, <3>3 DEF Own
    <3>5. <<b, n>> # k => (Untouched(<<b, n>>)' <=> Untouched(<<b, n>>))
      BY <3>1, <3>2, <3>3 DEF Untouched
    <3> HIDE DEF k
    <3> QED
      BY <3>4, <3>5 DEF CheckerInv
  <2>3. ASSUME k \notin lost
        PROVE  current[k] = IF Tail(statusCh[k]) # <<>>
                            THEN Tail(statusCh[k])[Len(Tail(statusCh[k]))]
                            ELSE Head(statusCh[k])
    <3>1. current[k] = statusCh[k][Len(statusCh[k])]
      BY <1>3, <2>0, <2>3 DEF HealthEvent, StatusFollowsChecker
    <3> QED
      BY <2>0, <2>1, <3>1, TailLast
  <2>4. Head(statusCh[k]) \in Changes
    BY <2>0, <2>1
  <2>5. Head(statusCh[k]) # "online"
    BY <2>4 DEF Changes
  <2>6. statusCh'[k] = Tail(statusCh[k]) /\ status'[a] = Head(statusCh[k])
        /\ UNCHANGED <<current, lost, born, loop>>
    BY <1>3, <2>0 DEF HealthEvent, Receive
  <2>7. \A b \in Apps \ {a} : status'[b] = status[b]
        /\ statusCh'[Own(b)] = statusCh[Own(b)]
    BY <1>3, <2>0 DEF HealthEvent, Receive, Own
  <2>8. StatusFollowsChecker'
    <3> SUFFICES ASSUME NEW b \in Probed, loop[b] = "wait", Own(b) \notin lost
                 PROVE  current[Own(b)] =
                            IF statusCh'[Own(b)] # <<>>
                            THEN statusCh'[Own(b)][Len(statusCh'[Own(b)])]
                            ELSE IF status'[b] = "online" THEN "unknown"
                            ELSE status'[b]
      BY <2>6 DEF StatusFollowsChecker, Own
    <3>1. CASE b = a
      BY <2>3, <2>5, <2>6, <3>1
    <3>2. CASE b # a
      BY <1>0, <2>7, <3>2 DEF StatusFollowsChecker
    <3> QED
      BY <3>1, <3>2
  <2> QED
    BY <2>2, <2>8
<1>4. CASE EventStop(a) \/ ExitRetried(a) \/ ExitFinal(a)
  <2>1. /\ loop[a] = "wait" /\ loop'[a] \notin {"wait", "announce"}
        /\ \A b \in Apps \ {a} : loop'[b] = loop[b] /\ status'[b] = status[b]
        /\ UNCHANGED born
    BY <1>4 DEF EventStop, ExitRetried, ExitFinal, LeaveWait
  <2>2. \A j \in Checkers : j # Own(a) =>
            /\ checker'[j] = checker[j] /\ current'[j] = current[j]
            /\ statusCh'[j] = statusCh[j] /\ (j \in lost' <=> j \in lost)
            /\ j \in stopping' <=> j \in stopping
    BY <1>4 DEF EventStop, ExitRetried, ExitFinal, LeaveWait, Stop, healthVars
  <2>3. \A b \in Probed : loop'[b] \in {"announce", "wait"} =>
            b # a /\ loop'[b] = loop[b] /\ status'[b] = status[b]
    BY <1>0, <2>1
  <2>4. CheckerInv'
    <3> SUFFICES ASSUME NEW b \in Probed, NEW n \in 1..MaxChildren[b]
                 PROVE  /\ \/ n > born'[b]
                           \/ n = born'[b] /\ loop'[b] = "announce"
                           => Untouched(<<b, n>>)'
                        /\ n = born'[b] /\ loop'[b] = "wait"
                           => <<b, n>> \notin stopping'
      BY DEF CheckerInv
    <3>1. <<b, n>> \in Checkers /\ n \in Nat /\ born[b] \in Nat
      BY <1>0, CheckerNames
    <3>2. <<b, n>> # Own(a) =>
              /\ Untouched(<<b, n>>)' <=> Untouched(<<b, n>>)
              /\ <<b, n>> \in stopping' <=> <<b, n>> \in stopping
      BY <2>2, <3>1 DEF Untouched
    <3>3. n > born[b] \/ b # a => <<b, n>> # Own(a)
      BY <3>1 DEF Own
    <3>4. CASE b = a
      BY <2>1, <2>3, <3>1, <3>2, <3>3, <3>4 DEF CheckerInv
    <3>5. CASE b # a
      <4>1. born'[b] = born[b] /\ (Untouched(<<b, n>>)' <=> Untouched(<<b, n>>))
        BY <2>1, <3>2, <3>3, <3>5
      <4>2. <<b, n>> \in stopping' <=> <<b, n>> \in stopping
        BY <3>2, <3>3, <3>5
      <4>3. loop'[b] = loop[b]
        BY <1>0, <2>1, <3>5
      <4> QED
        BY <4>1, <4>2, <4>3 DEF CheckerInv
    <3> QED
      BY <3>4, <3>5
  <2>5. StatusFollowsChecker'
    <3> SUFFICES ASSUME NEW b \in Probed, loop'[b] = "wait",
                        Own(b)' \notin lost'
                 PROVE  current'[Own(b)'] =
                            IF statusCh'[Own(b)'] # <<>>
                            THEN statusCh'[Own(b)'][Len(statusCh'[Own(b)'])]
                            ELSE IF status'[b] = "online" THEN "unknown"
                            ELSE status'[b]
      BY DEF StatusFollowsChecker
    <3>1. b # a /\ loop[b] = "wait" /\ status'[b] = status[b]
      BY <2>3
    <3>2. Own(b)' = Own(b) /\ Own(b) # Own(a)
      BY <2>1, <3>1 DEF Own
    <3>3. Own(b) \in Checkers
      BY <1>0, <3>1, OwnChecker DEF ReleaseInv
    <3> QED
      BY <2>2, <3>1, <3>2, <3>3 DEF StatusFollowsChecker
  <2> QED
    BY <2>4, <2>5
<1> QED
  BY <1>1, <1>2, <1>3, <1>4

-----------------------------------------------------------------------------

(* The newborn daemon satisfies the invariant. *)
LEMMA InitInv == Init => DInv
<1> SUFFICES ASSUME Init PROVE DInv
  OBVIOUS
<1> USE DependenciesAssumption, HealthAssumption DEF Init, HealthInit
<1>1. HealthTypeOK
  BY DEF HealthTypeOK, Verdicts
<1>2. TypeOK
  BY <1>1 DEF TypeOK, Status, Places
<1>3. ReleaseInv
  <2>1. \A a \in Apps : \A i \in DOMAIN dependsOn[a] : ~(i < 1)
    BY <1>2, ListType
  <2> QED
    BY <2>1 DEF ReleaseInv, Up, Freed
<1>4. CheckerInv /\ StatusFollowsChecker
  BY CheckerNames DEF CheckerInv, Untouched, StatusFollowsChecker
<1> QED
  BY <1>2, <1>3, <1>4 DEF DInv

(* Every step of an app keeps the invariant. *)
LEMMA AppInv ==
    ASSUME DInv, NEW a \in Apps, Waiting(a) \/ Running(a) \/ Calls(a)
    PROVE  DInv'
<1>1. TypeOK' /\ ReleaseInv'
  BY AppType, WaitingRelease, AppRelease DEF DInv
<1>2. CASE \/ StartChild(a) \/ Announce(a) \/ HealthEvent(a)
           \/ EventStop(a) \/ ExitRetried(a) \/ ExitFinal(a)
  BY <1>1, <1>2, LoopVerdict DEF DInv
<1>3. CASE \/ Waiting(a) \/ Calls(a) \/ Top(a) \/ StartFails(a)
           \/ StoppedEarly(a) \/ Backoff(a) \/ ChildDies(a)
  <2>1. /\ UNCHANGED <<born, healthVars>>
        /\ \A b \in Apps \ {a} : loop'[b] = loop[b] /\ status'[b] = status[b]
        /\ loop'[a] = "announce" => loop[a] = "announce"
        /\ loop'[a] = "wait" => loop[a] = "wait" /\ status'[a] = status[a]
    BY <1>3 DEF Waiting, Calls, Poll, Released, PollAgain, WaitStopped, Top,
       StartFails, StoppedEarly, Backoff, ChildDies, StartApp, CloseStop,
       Restart, Delete, LoopStep, SetStatus, DInv, TypeOK
  <2> QED
    BY <1>1, <2>1, AppKeepsVerdict DEF DInv
<1> QED
  BY <1>2, <1>3 DEF Running

(* The invariant is inductive. *)
LEMMA StepInv == DInv /\ [Next]_vars => DInv'
<1> SUFFICES ASSUME DInv, [Next]_vars PROVE DInv'
  OBVIOUS
<1>1. CASE \E a \in Apps : Waiting(a) \/ Running(a) \/ Calls(a)
  BY <1>1, AppInv
<1>2. ASSUME NEW k \in Checkers, Checking(k), UNCHANGED appVars PROVE DInv'
  <2>1. TypeOK'
    BY <1>2, CheckingType DEF DInv, TypeOK, appVars
  <2>2. ReleaseInv'
    BY <1>2 DEF DInv, ReleaseInv, Ran, Freed, Deps, appVars
  <2> QED
    BY <1>2, <2>1, <2>2, CheckingVerdict DEF DInv
<1>3. CASE UNCHANGED vars
  BY <1>3 DEF vars, appVars, healthVars, DInv, TypeOK, HealthTypeOK,
     ReleaseInv, Ran, Freed, Deps, CheckerInv, Untouched,
     StatusFollowsChecker, Own
<1> QED
  BY <1>1, <1>2, <1>3 DEF Next

(* The inductive invariant, and with it the types, hold in every reachable *)
(* state.                                                                  *)
THEOREM DependenciesInductive == Spec => []DInv
BY InitInv, StepInv, PTL DEF Spec

(* Type correctness of apps, loops and checkers. *)
THEOREM DependenciesTypeCorrect == Spec => []TypeOK
<1>1. DInv => TypeOK
  BY DEF DInv
<1> QED
  BY <1>1, DependenciesInductive, PTL

(* The status of a running app ends in the verdict of its own checker,     *)
(* unless a change was dropped.                                            *)
THEOREM StatusFollowsCheckerHolds == Spec => []StatusFollowsChecker
<1>1. DInv => StatusFollowsChecker
  BY DEF DInv
<1> QED
  BY <1>1, DependenciesInductive, PTL

(* First starts follow the graph, for every graph: an app on a cycle never *)
(* starts.                                                                 *)
THEOREM FirstStartsHolds == Spec => FirstStartsFollowDeps
<1> DEFINE Follows ==
        \A a \in Apps : born[a] = 0 /\ born'[a] > 0 =>
            \A d \in Deps(a) : d \in Apps /\ born[d] > 0
<1>1. DInv /\ [Next]_vars => [Follows]_vars
  <2> SUFFICES ASSUME DInv, Next, NEW a \in Apps, born[a] = 0, born'[a] > 0
               PROVE  \A d \in Deps(a) : d \in Apps /\ born[d] > 0
    OBVIOUS
  <2>1. StartChild(a)
    BY DEF Next, Waiting, Running, Calls, Poll, Released, PollAgain,
       WaitStopped, Top, StartChild, StartFails, StoppedEarly, Announce,
       HealthEvent, EventStop, ExitRetried, ExitFinal, LeaveWait, Backoff,
       ChildDies, StartApp, CloseStop, Restart, Delete, appVars, DInv, TypeOK
  <2> QED
    BY <2>1 DEF StartChild, LoopStep, DInv, ReleaseInv, Freed, Ran
<1> QED
  BY <1>1, DependenciesInductive, PTL DEF Spec, FirstStartsFollowDeps

=============================================================================
