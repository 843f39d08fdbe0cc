----------------------------- MODULE Dependencies -----------------------------
(***************************************************************************)
(* Several apps that depend on each other, and their health checks: what   *)
(* waitForDeps of internal/supervisor/supervisor.go waits for, and the     *)
(* status it reads there.  A supervise goroutine is cut down to what       *)
(* changes its app's status (module Supervise has all of it), a stop to    *)
(* its closed stopCh and its end.  Every dependency is polled in a step of *)
(* its own: nothing holds the others still meanwhile.                      *)
(***************************************************************************)
EXTENDS HealthCheck, FiniteSets

CONSTANTS
    Apps,        \* the apps that may be started
    Names,       \* the names a depends_on list may hold
    Graphs,      \* the depends_on lists of all apps, one choice per behaviour
    Probed,      \* the apps with a health check
    MaxChildren  \* bound: children of each app

ASSUME DependenciesAssumption ==
    /\ Apps \subseteq Names
    /\ Graphs \subseteq [Apps -> Seq(Names)]
    /\ Probed \subseteq Apps
    /\ MaxChildren \in [Apps -> Nat \ {0}]
    /\ Checkers = UNION {{a} \X (1..MaxChildren[a]) : a \in Probed}

VARIABLES
    dependsOn,   \* mp.Config.DependsOn
    registered,  \* the names in s.procs
    status,      \* mp.status
    loop,        \* where the supervise goroutine stands
    next,        \* the dependency it looks at next
    stopCh,      \* the apps whose stopCh is closed
    born,        \* children started
    alive        \* the apps with a child running

appVars == <<dependsOn, registered, status, loop, next, stopCh, born, alive>>
vars == <<appVars, healthVars>>

Status == {"starting", "online", "ready", "unhealthy", "stopped", "errored"}
Places == {"off", "poll", "sleep", "top", "start", "announce", "wait",
           "backoff", "ended"}

TypeOK ==
    /\ HealthTypeOK
    /\ dependsOn \in Graphs
    /\ registered \subseteq Apps
    /\ status \in [Apps -> Status]
    /\ loop \in [Apps -> Places]
    /\ next \in [Apps -> Nat]
    /\ stopCh \subseteq Apps
    /\ born \in [Apps -> Nat]
    /\ \A a \in Apps : born[a] <= MaxChildren[a]
    /\ alive \subseteq Apps

Init ==
    /\ HealthInit
    /\ dependsOn \in Graphs
    /\ registered = {}
    /\ status = [a \in Apps |-> "stopped"]
    /\ loop = [a \in Apps |-> "off"]
    /\ next = [a \in Apps |-> 1]
    /\ stopCh = {}
    /\ born = [a \in Apps |-> 0]
    /\ alive = {}

LoopStep(a, from, to) == loop[a] = from /\ loop' = [loop EXCEPT ![a] = to]
SetStatus(a, s) == status' = [status EXCEPT ![a] = s]
Own(a) == <<a, born[a]>>

-----------------------------------------------------------------------------
(* waitForDeps. *)

(* Mutant: an app that has passed a health check is not counted. *)
OnlyOnline(s) == s = "online"

Up(s) == s \in {"online", "ready"}

(* Mutant: a name that is not registered is skipped. *)
PollSkips(a) ==
    /\ next[a] <= Len(dependsOn[a])
    /\ LET dep == dependsOn[a][next[a]]
       IN  IF dep \notin registered \/ Up(status[dep])
           THEN /\ LoopStep(a, "poll", "poll")
                /\ next' = [next EXCEPT ![a] = @ + 1]
           ELSE /\ LoopStep(a, "poll", "sleep")
                /\ UNCHANGED next
    /\ UNCHANGED <<dependsOn, registered, status, stopCh, born, alive,
                   healthVars>>

Poll(a) ==
    /\ next[a] <= Len(dependsOn[a])
    /\ LET dep == dependsOn[a][next[a]]
       IN  IF dep \in registered /\ Up(status[dep])
           THEN /\ LoopStep(a, "poll", "poll")
                /\ next' = [next EXCEPT ![a] = @ + 1]
           ELSE /\ LoopStep(a, "poll", "sleep")
                /\ UNCHANGED next
    /\ UNCHANGED <<dependsOn, registered, status, stopCh, born, alive,
                   healthVars>>

Released(a) ==
    /\ next[a] > Len(dependsOn[a])
    /\ LoopStep(a, "poll", "top")
    /\ next' = [next EXCEPT ![a] = 1]
    /\ UNCHANGED <<dependsOn, registered, status, stopCh, born, alive,
                   healthVars>>

(* Half a second later the list is polled from its beginning. *)
PollAgain(a) ==
    /\ LoopStep(a, "sleep", "poll")
    /\ next' = [next EXCEPT ![a] = 1]
    /\ UNCHANGED <<dependsOn, registered, status, stopCh, born, alive,
                   healthVars>>

WaitStopped(a) ==
    /\ a \in stopCh
    /\ LoopStep(a, "sleep", "ended")
    /\ SetStatus(a, "stopped")
    /\ next' = [next EXCEPT ![a] = 1]
    /\ UNCHANGED <<dependsOn, registered, stopCh, born, alive, healthVars>>

-----------------------------------------------------------------------------
(* The loop of supervise, as far as it shows. *)

Top(a) ==
    /\ IF a \in stopCh
       THEN LoopStep(a, "top", "ended") /\ SetStatus(a, "stopped")
       ELSE LoopStep(a, "top", "start") /\ SetStatus(a, "starting")
    /\ UNCHANGED <<dependsOn, registered, next, stopCh, born, alive,
                   healthVars>>

StartChild(a) ==
    /\ born[a] < MaxChildren[a]
    /\ LoopStep(a, "start", "announce")
    /\ born' = [born EXCEPT ![a] = @ + 1]
    /\ alive' = alive \cup {a}
    /\ UNCHANGED <<dependsOn, registered, status, next, stopCh, healthVars>>

StartFails(a) ==
    /\ LoopStep(a, "start", "backoff") \/ LoopStep(a, "start", "ended")
    /\ SetStatus(a, "errored")
    /\ UNCHANGED <<dependsOn, registered, next, stopCh, born, alive,
                   healthVars>>

(* A stop that came while the child was starting kills it at once.         *)
StoppedEarly(a) ==
    /\ a \in stopCh
    /\ LoopStep(a, "announce", "ended")
    /\ SetStatus(a, "stopped")
    /\ alive' = alive \ {a}
    /\ UNCHANGED <<dependsOn, registered, next, stopCh, born, healthVars>>

Announce(a) ==
    /\ LoopStep(a, "announce", "wait")
    /\ SetStatus(a, "online")
    /\ IF a \in Probed THEN Start(Own(a)) ELSE UNCHANGED healthVars
    /\ UNCHANGED <<dependsOn, registered, next, stopCh, born, alive>>

(* Mutant: the switch has no case for an app that recovers. *)
HealthEventBad(a) ==
    /\ a \in Probed
    /\ LoopStep(a, "wait", "wait")
    /\ Receive(Own(a))
    /\ IF Head(statusCh[Own(a)]) = "unhealthy"
       THEN SetStatus(a, "unhealthy") ELSE UNCHANGED status
    /\ UNCHANGED <<dependsOn, registered, next, stopCh, born, alive>>

HealthEvent(a) ==
    /\ a \in Probed
    /\ LoopStep(a, "wait", "wait")
    /\ Receive(Own(a))
    /\ SetStatus(a, Head(statusCh[Own(a)]))
    /\ UNCHANGED <<dependsOn, registered, next, stopCh, born, alive>>

(* waitEvent returns, and the checker of this child is asked to stop.      *)
LeaveWait(a, to) ==
    /\ LoopStep(a, "wait", to)
    /\ IF a \in Probed THEN Stop(Own(a)) ELSE UNCHANGED healthVars
    /\ UNCHANGED <<dependsOn, registered, next, stopCh, born>>

EventStop(a) ==
    /\ a \in stopCh
    /\ LeaveWait(a, "ended")
    /\ SetStatus(a, "stopped")
    /\ alive' = alive \ {a}

(* The app goes on being shown as it was until its next start.             *)
ExitRetried(a) ==
    /\ a \notin alive
    /\ LeaveWait(a, "backoff")
    /\ UNCHANGED <<status, alive>>

ExitFinal(a) ==
    /\ a \notin alive
    /\ LeaveWait(a, "ended")
    /\ SetStatus(a, "stopped") \/ SetStatus(a, "errored")
    /\ UNCHANGED alive

(* The backoff elapses, or a stop ends it and the loop without a status.   *)
Backoff(a) ==
    /\ \/ LoopStep(a, "backoff", "top")
       \/ a \in stopCh /\ LoopStep(a, "backoff", "ended")
    /\ UNCHANGED <<dependsOn, registered, status, next, stopCh, born, alive,
                   healthVars>>

ChildDies(a) ==
    /\ a \in alive
    /\ alive' = alive \ {a}
    /\ UNCHANGED <<dependsOn, registered, status, loop, next, stopCh, born,
                   healthVars>>

-----------------------------------------------------------------------------
(* The calls, each at the point where it takes effect.  Delete leaves what *)
(* a StartApp of the name finds: a fresh record.                           *)

StartApp(a) ==
    /\ a \notin registered
    /\ registered' = registered \cup {a}
    /\ LoopStep(a, "off", "poll")
    /\ UNCHANGED <<dependsOn, status, next, stopCh, born, alive, healthVars>>

CloseStop(a) ==
    /\ a \in registered \ stopCh
    /\ stopCh' = stopCh \cup {a}
    /\ UNCHANGED <<dependsOn, registered, status, loop, next, born, alive,
                   healthVars>>

(* Restart, once done is closed: it waits for the dependencies again.      *)
Restart(a) ==
    /\ a \in registered
    /\ LoopStep(a, "ended", "poll")
    /\ stopCh' = stopCh \ {a}
    /\ UNCHANGED <<dependsOn, registered, status, next, born, alive,
                   healthVars>>

Delete(a) ==
    /\ a \in registered
    /\ LoopStep(a, "ended", "off")
    /\ registered' = registered \ {a}
    /\ SetStatus(a, "stopped")
    /\ stopCh' = stopCh \ {a}
    /\ UNCHANGED <<dependsOn, next, born, alive, healthVars>>

-----------------------------------------------------------------------------

Waiting(a) == Poll(a) \/ Released(a) \/ PollAgain(a) \/ WaitStopped(a)

Running(a) ==
    \/ Top(a) \/ StartChild(a) \/ StartFails(a) \/ StoppedEarly(a)
    \/ Announce(a) \/ HealthEvent(a) \/ EventStop(a) \/ ExitRetried(a)
    \/ ExitFinal(a) \/ Backoff(a) \/ ChildDies(a)

Calls(a) == StartApp(a) \/ CloseStop(a) \/ Restart(a) \/ Delete(a)

Next ==
    \/ \E a \in Apps : Waiting(a) \/ Running(a) \/ Calls(a)
    \/ \E k \in Checkers : Checking(k) /\ UNCHANGED appVars

(* A goroutine that waits for dependencies runs, and its half second ends; *)
(* once stopCh is closed the select of its sleep prefers that, the timer   *)
(* not being due.  Nothing is assumed of the apps.                         *)
Spec ==
    /\ Init
    /\ [][Next]_vars
    /\ \A a \in Apps : /\ WF_vars(Poll(a) \/ Released(a) \/ PollAgain(a))
                       /\ SF_vars(WaitStopped(a))

-----------------------------------------------------------------------------
(* Properties. *)

Deps(a) == {dependsOn[a][i] : i \in DOMAIN dependsOn[a]}

(* No app runs for the first time before every app it depends on has run:  *)
(* first starts follow the graph, so that apps on a cycle, and apps that   *)
(* depend on a name nobody started, never start at all.  The status that   *)
(* waitForDeps reads is that of another goroutine, and one dependency may  *)
(* have gone down again while the next one is polled.                      *)
FirstStartsFollowDeps ==
    [][\A a \in Apps : born[a] = 0 /\ born'[a] > 0 =>
           \A d \in Deps(a) : d \in Apps /\ born[d] > 0]_vars

(* While the loop waits on a child, what the app is shown as and the       *)
(* verdicts not yet received end in the verdict of the checker of this     *)
(* child, never of an earlier child's, unless a change found the channel   *)
(* full.                                                                   *)
StatusFollowsChecker ==
    \A a \in Probed : loop[a] = "wait" /\ Own(a) \notin lost =>
        LET sent == statusCh[Own(a)]
        IN  current[Own(a)] =
                IF sent # <<>> THEN sent[Len(sent)]
                ELSE IF status[a] = "online" THEN "unknown" ELSE status[a]

Awaits(a) == loop[a] \in {"poll", "sleep"}

DepsUp(a) ==
    \A d \in Deps(a) : d \in registered /\ status[d] \in {"online", "ready"}

(* A wait does not outlast its reason: it ends when the dependencies come  *)
(* up and stay so (online, or ready where there is a health check), and    *)
(* when the app is stopped, even on a cycle that would never come up.      *)
WaitsEnd ==
    \A a \in Apps :
        LET mayGo == a \in stopCh \/ DepsUp(a)
        IN  (Awaits(a) /\ mayGo) ~> ~(Awaits(a) /\ mayGo)
=============================================================================
