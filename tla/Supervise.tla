------------------------------ MODULE Supervise ------------------------------
(***************************************************************************)
(* One ManagedProcess of gopm: its record (internal/supervisor/process.go) *)
(* and the supervise goroutine that owns its child                         *)
(* (internal/supervisor/supervisor.go).  Restart replaces the record's     *)
(* stopCh and done channels and spawns a new supervise goroutine: the      *)
(* goroutines are numbered by generation, and generation g closes the g-th *)
(* done channel when it returns.  Several live generations can be written  *)
(* down; that there is never more than one is a property, not a shape.     *)
(***************************************************************************)
EXTENDS Integers

CONSTANTS
    Configs,     \* the AppConfigs that callers hand to StartApp
    MaxGen,      \* bound: how many times Restart may swap the channels
    RestartCap,  \* bound: where the restart counter saturates
    NoCmd        \* mp.cmd == nil

(* What supervise reads of an AppConfig; maxRestarts = 0 is "no limit". *)
AppConfig ==
    [autoRestart : BOOLEAN, maxRestarts : Nat, watch : BOOLEAN, build : BOOLEAN,
     health : BOOLEAN, preStart : BOOLEAN, dependsOn : BOOLEAN]

ASSUME ConfigsAssumption == Configs # {} /\ Configs \subseteq AppConfig

(* The counter is only ever compared with maxRestarts, so a cap that no    *)
(* maxRestarts exceeds changes no decision of the code.                    *)
ASSUME BoundsAssumption ==
    /\ MaxGen \in Nat
    /\ RestartCap \in Nat
    /\ \A c \in Configs : c.maxRestarts <= RestartCap

Gens == 0..MaxGen

ASSUME NoCmdAssumption == NoCmd \notin Gens

Status == {"starting", "online", "stopped", "errored", "building",
           "build_failed", "ready", "unhealthy"}

(* Where a supervise goroutine stands.                                     *)
(*   unborn, ended       before its `go` statement, after its deferred     *)
(*                       close of done                                     *)
(*   deps                waitForDeps                                       *)
(*   prestart, hook      about to run, running pre_start                   *)
(*   watching            about to open the file watcher                    *)
(*   top, start, publish the loop's stop check, cmd.Start, the critical    *)
(*                       section that publishes the running cmd            *)
(*   announce, wait      about to set online, in waitEvent                 *)
(*   term, kill          after SIGTERM, after SIGKILL                      *)
(*   build, building     at the head of buildCycle, running build_cmd      *)
(*   parked              waitRebuildOrStop                                 *)
(*   backoff             sleep                                             *)
(*   exit                returning, deferred calls not run yet             *)
Places == {"unborn", "deps", "prestart", "hook", "watching", "top", "start",
           "publish", "announce", "wait", "term", "kill", "build", "building",
           "parked", "backoff", "exit", "ended"}

VARIABLES
    cfg,            \* mp.Config
    runCfg,         \* the Config the newest exec.Cmd was built from
    status,         \* mp.status
    restarts,       \* mp.restarts
    crashNotified,  \* mp.crashNotified
    cmd,            \* mp.cmd: the generation whose child it last published
    gen,            \* the generation of the current mp.stopCh and mp.done
    stopCh,         \* whether the current mp.stopCh is closed
    rebuildCh,      \* whether the one slot of mp.rebuildCh is full
    loop,           \* where the goroutine of each generation stands
    why,            \* what it terminates its child, or parks, for
    watcher,        \* the generations with an open file watcher
    probe,          \* the generations with a health checker
    child,          \* the newest child of each generation
    sig,            \* the strongest signal that child was sent
    ctxDone         \* whether the supervisor's ctx is cancelled

record == <<cfg, runCfg, status, restarts, crashNotified, cmd>>
chans == <<gen, stopCh, rebuildCh>>
locals == <<loop, why, watcher, probe>>
os == <<child, sig>>
superviseVars == <<record, chans, locals, os, ctxDone>>

SuperviseTypeOK ==
    /\ cfg \in AppConfig
    /\ runCfg \in AppConfig
    /\ status \in Status
    /\ restarts \in 0..RestartCap
    /\ crashNotified \in BOOLEAN
    /\ cmd \in Gens \cup {NoCmd}
    /\ gen \in Gens
    /\ stopCh \in BOOLEAN
    /\ rebuildCh \in BOOLEAN
    /\ loop \in [Gens -> Places]
    /\ why \in [Gens -> {"stop", "rebuild", "park"}]
    /\ watcher \subseteq Gens
    /\ probe \subseteq Gens
    /\ child \in [Gens -> {"none", "running", "exited", "reaped"}]
    /\ sig \in [Gens -> {"none", "term", "kill"}]
    /\ ctxDone \in BOOLEAN

(* newManagedProcess, and StartApp's `go s.supervise(mp)`. *)
SuperviseInit ==
    /\ cfg \in Configs
    /\ runCfg = cfg
    /\ status = "stopped"
    /\ restarts = 0
    /\ crashNotified = FALSE
    /\ cmd = NoCmd
    /\ gen = 0
    /\ stopCh = FALSE
    /\ rebuildCh = FALSE
    /\ loop = [g \in Gens |-> IF g = 0 THEN "deps" ELSE "unborn"]
    /\ why = [g \in Gens |-> "park"]
    /\ watcher = {}
    /\ probe = {}
    /\ child = [g \in Gens |-> "none"]
    /\ sig = [g \in Gens |-> "none"]
    /\ ctxDone = FALSE

-----------------------------------------------------------------------------
(* Helpers. *)

Goto(g, place) == loop' = [loop EXCEPT ![g] = place]

Done(g) == loop[g] = "ended"
Live(g) == loop[g] \notin {"unborn", "ended"}
Alive(g) == child[g] \in {"running", "exited"}

(* process.Kill: it reaches a child that has not exited; SIGKILL cannot be *)
(* taken back by a later SIGTERM.                                          *)
Signal(g, s) ==
    sig' = [sig EXCEPT ![g] = IF child[g] = "running" /\ @ # "kill"
                              THEN s ELSE @]

(* Mutant: one restart too many. *)
LateExhausted == cfg.maxRestarts > 0 /\ restarts > cfg.maxRestarts

Exhausted == cfg.maxRestarts > 0 /\ restarts >= cfg.maxRestarts

Bump(n) == IF n < RestartCap THEN n + 1 ELSE n

(* After a failure that is not retried: wait for a file change, or return. *)
Rest(g) ==
    /\ Goto(g, IF cfg.watch THEN "parked" ELSE "exit")
    /\ why' = [why EXCEPT ![g] = "park"]

-----------------------------------------------------------------------------
(* Before the loop. *)

(* Dependencies are other apps: they may or may not come online. *)
DepsReady(g) ==
    /\ loop[g] = "deps"
    /\ Goto(g, "prestart")
    /\ UNCHANGED <<record, rebuildCh, why, watcher, probe, os>>

DepsStopped(g) ==
    /\ loop[g] = "deps"
    /\ cfg.dependsOn
    /\ stopCh
    /\ status' = "stopped"
    /\ Goto(g, "exit")
    /\ UNCHANGED <<cfg, runCfg, restarts, crashNotified, cmd, rebuildCh, why,
                   watcher, probe, os>>

PreStart(g) ==
    /\ loop[g] = "prestart"
    /\ Goto(g, IF cfg.preStart THEN "hook" ELSE "watching")
    /\ UNCHANGED <<record, rebuildCh, why, watcher, probe, os>>

(* runCommand returns; the result is ignored, and stopCh is not consulted. *)
HookEnds(g) ==
    /\ loop[g] = "hook"
    /\ Goto(g, "watching")
    /\ UNCHANGED <<record, rebuildCh, why, watcher, probe, os>>

(* watcher.New may fail: the app then runs without a watcher. *)
OpenWatcher(g) ==
    /\ loop[g] = "watching"
    /\ \/ cfg.watch /\ watcher' = watcher \cup {g}
       \/ UNCHANGED watcher
    /\ Goto(g, "top")
    /\ UNCHANGED <<record, rebuildCh, why, probe, os>>

-----------------------------------------------------------------------------
(* Starting a child. *)

TopStops(g) ==
    /\ loop[g] = "top"
    /\ stopCh
    /\ status' = "stopped"
    /\ Goto(g, "exit")
    /\ UNCHANGED <<cfg, runCfg, restarts, crashNotified, cmd, rebuildCh, why,
                   watcher, probe, os>>

TopBuildsCmd(g) ==
    /\ loop[g] = "top"
    /\ ~stopCh
    /\ runCfg' = cfg
    /\ status' = "starting"
    /\ Goto(g, "start")
    /\ UNCHANGED <<cfg, restarts, crashNotified, cmd, rebuildCh, why, watcher,
                   probe, os>>

(* cmd.Start refuses once the ctx of exec.CommandContext is done. *)
StartChild(g) ==
    /\ loop[g] = "start"
    /\ ~ctxDone
    /\ child' = [child EXCEPT ![g] = "running"]
    /\ sig' = [sig EXCEPT ![g] = "none"]
    /\ Goto(g, "publish")
    /\ UNCHANGED <<record, rebuildCh, why, watcher, probe>>

StartFails(g) ==
    /\ loop[g] = "start"
    /\ status' = "errored"
    /\ IF cfg.autoRestart /\ ~Exhausted
       THEN /\ restarts' = Bump(restarts)
            /\ Goto(g, "backoff")
            /\ UNCHANGED why
       ELSE /\ Rest(g)
            /\ UNCHANGED restarts
    /\ UNCHANGED <<cfg, runCfg, crashNotified, cmd, rebuildCh, watcher, probe,
                   os>>

(* One critical section of mp.mu: publish the cmd, look at stopCh.  A stop *)
(* that came while the child was starting terminates it at once.           *)
Publish(g) ==
    /\ loop[g] = "publish"
    /\ cmd' = g
    /\ IF stopCh
       THEN /\ Signal(g, "term")
            /\ why' = [why EXCEPT ![g] = "stop"]
            /\ Goto(g, "term")
       ELSE /\ Goto(g, "announce")
            /\ UNCHANGED <<sig, why>>
    /\ UNCHANGED <<cfg, runCfg, status, restarts, crashNotified, rebuildCh,
                   watcher, probe, child>>

Announce(g) ==
    /\ loop[g] = "announce"
    /\ status' = "online"
    /\ probe' = IF cfg.health THEN probe \cup {g} ELSE probe
    /\ Goto(g, "wait")
    /\ UNCHANGED <<cfg, runCfg, restarts, crashNotified, cmd, rebuildCh, why,
                   watcher, os>>

-----------------------------------------------------------------------------
(* waitEvent: one action per arm of the select.  Whatever ends the wait     *)
(* stops the health checker.                                               *)

StopProbe(g) == probe' = probe \ {g}

HealthEvent(g) ==
    /\ loop[g] = "wait"
    /\ g \in probe
    /\ status' \in {"ready", "unhealthy"}
    /\ UNCHANGED <<cfg, runCfg, restarts, crashNotified, cmd, rebuildCh,
                   locals, os>>

EventStop(g) ==
    /\ loop[g] = "wait"
    /\ stopCh
    /\ Signal(g, "term")
    /\ why' = [why EXCEPT ![g] = "stop"]
    /\ Goto(g, "term")
    /\ StopProbe(g)
    /\ UNCHANGED <<record, rebuildCh, watcher, child>>

EventRebuild(g) ==
    /\ loop[g] = "wait"
    /\ rebuildCh
    /\ rebuildCh' = FALSE
    /\ Signal(g, "term")
    /\ why' = [why EXCEPT ![g] = "rebuild"]
    /\ Goto(g, "term")
    /\ StopProbe(g)
    /\ UNCHANGED <<record, watcher, child>>

(* The "exit" arm and its three outcomes: not restarted, exhausted (the    *)
(* crash webhook fires unless it already has), retried after a backoff.    *)
ExitNotRestarted(g) ==
    /\ loop[g] = "wait"
    /\ child[g] = "reaped"
    /\ ~cfg.autoRestart
    /\ status' = "stopped"
    /\ Rest(g)
    /\ StopProbe(g)
    /\ UNCHANGED <<cfg, runCfg, restarts, crashNotified, cmd, rebuildCh,
                   watcher, os>>

ExitExhausted(g) ==
    /\ loop[g] = "wait"
    /\ child[g] = "reaped"
    /\ cfg.autoRestart
    /\ Exhausted
    /\ status' = "errored"
    /\ crashNotified' = TRUE
    /\ Rest(g)
    /\ StopProbe(g)
    /\ UNCHANGED <<cfg, runCfg, restarts, cmd, rebuildCh, watcher, os>>

ExitRetried(g) ==
    /\ loop[g] = "wait"
    /\ child[g] = "reaped"
    /\ cfg.autoRestart
    /\ ~Exhausted
    /\ restarts' = Bump(restarts)
    /\ crashNotified' = FALSE
    /\ Goto(g, "backoff")
    /\ StopProbe(g)
    /\ UNCHANGED <<cfg, runCfg, status, cmd, rebuildCh, why, watcher, os>>

-----------------------------------------------------------------------------
(* The two-stage kill. *)

GraceExpires(g) ==
    /\ loop[g] = "term"
    /\ Signal(g, "kill")
    /\ Goto(g, "kill")
    /\ UNCHANGED <<record, rebuildCh, why, watcher, probe, child>>

(* Mutant: no `<-waitDone` after the force kill of a stop. *)
StopDoneUnwaited(g) ==
    /\ loop[g] \in {"term", "kill"}
    /\ loop[g] = "kill" \/ child[g] = "reaped"
    /\ why[g] = "stop"
    /\ status' = "stopped"
    /\ Goto(g, "exit")
    /\ UNCHANGED <<cfg, runCfg, restarts, crashNotified, cmd, rebuildCh, why,
                   watcher, probe, os>>

StopDone(g) ==
    /\ loop[g] \in {"term", "kill"}
    /\ child[g] = "reaped"
    /\ why[g] = "stop"
    /\ status' = "stopped"
    /\ Goto(g, "exit")
    /\ UNCHANGED <<cfg, runCfg, restarts, crashNotified, cmd, rebuildCh, why,
                   watcher, probe, os>>

(* Mutant: no `<-waitDone` after the force kill of a rebuild. *)
RebuildReadyUnwaited(g) ==
    /\ loop[g] \in {"term", "kill"}
    /\ loop[g] = "kill" \/ child[g] = "reaped"
    /\ why[g] = "rebuild"
    /\ Goto(g, "build")
    /\ UNCHANGED <<record, rebuildCh, why, watcher, probe, os>>

RebuildReady(g) ==
    /\ loop[g] \in {"term", "kill"}
    /\ child[g] = "reaped"
    /\ why[g] = "rebuild"
    /\ Goto(g, "build")
    /\ UNCHANGED <<record, rebuildCh, why, watcher, probe, os>>

-----------------------------------------------------------------------------
(* buildCycle, waitRebuildOrStop and sleep. *)

(* buildCycle returned true: the counter is reset only when the cycle      *)
(* followed a rebuild of a running child.                                  *)
Built(g) ==
    /\ restarts' = IF why[g] = "rebuild" THEN 0 ELSE restarts
    /\ Goto(g, "top")

SkipBuild(g) ==
    /\ loop[g] = "build"
    /\ ~cfg.build
    /\ Built(g)
    /\ UNCHANGED <<cfg, runCfg, status, crashNotified, cmd, rebuildCh, why,
                   watcher, probe, os>>

BeginBuild(g) ==
    /\ loop[g] = "build"
    /\ cfg.build
    /\ status' = "building"
    /\ Goto(g, "building")
    /\ UNCHANGED <<cfg, runCfg, restarts, crashNotified, cmd, rebuildCh, why,
                   watcher, probe, os>>

BuildSucceeds(g) ==
    /\ loop[g] = "building"
    /\ Built(g)
    /\ UNCHANGED <<cfg, runCfg, status, crashNotified, cmd, rebuildCh, why,
                   watcher, probe, os>>

BuildFails(g) ==
    /\ loop[g] = "building"
    /\ status' = "build_failed"
    /\ Goto(g, "parked")
    /\ UNCHANGED <<cfg, runCfg, restarts, crashNotified, cmd, rebuildCh, why,
                   watcher, probe, os>>

(* Mutant: the park watches the daemon's ctx, not the app's stopCh. *)
ParkedStopsOnCtx(g) ==
    /\ loop[g] = "parked"
    /\ ctxDone
    /\ status' = "stopped"
    /\ Goto(g, "exit")
    /\ UNCHANGED <<cfg, runCfg, restarts, crashNotified, cmd, rebuildCh, why,
                   watcher, probe, os>>

ParkedStops(g) ==
    /\ loop[g] = "parked"
    /\ stopCh
    /\ status' = "stopped"
    /\ Goto(g, "exit")
    /\ UNCHANGED <<cfg, runCfg, restarts, crashNotified, cmd, rebuildCh, why,
                   watcher, probe, os>>

(* Mutant: a failed build is not retried on the next change. *)
ParkedRebuildsOnce(g) ==
    /\ loop[g] = "parked"
    /\ rebuildCh
    /\ why[g] = "park"
    /\ rebuildCh' = FALSE
    /\ Goto(g, "build")
    /\ UNCHANGED <<record, why, watcher, probe, os>>

ParkedRebuilds(g) ==
    /\ loop[g] = "parked"
    /\ rebuildCh
    /\ rebuildCh' = FALSE
    /\ Goto(g, "build")
    /\ UNCHANGED <<record, why, watcher, probe, os>>

BackoffElapses(g) ==
    /\ loop[g] = "backoff"
    /\ Goto(g, "top")
    /\ UNCHANGED <<record, rebuildCh, why, watcher, probe, os>>

(* The loop returns without a status of its own. *)
BackoffCancelled(g) ==
    /\ loop[g] = "backoff"
    /\ stopCh \/ ctxDone
    /\ Goto(g, "exit")
    /\ UNCHANGED <<record, rebuildCh, why, watcher, probe, os>>

(* The deferred w.Close and close(mp.done); why is dead from here on. *)
Return(g) ==
    /\ loop[g] = "exit"
    /\ watcher' = watcher \ {g}
    /\ why' = [why EXCEPT ![g] = "park"]
    /\ Goto(g, "ended")
    /\ UNCHANGED <<record, rebuildCh, probe, os>>

-----------------------------------------------------------------------------
(* The child, the goroutines that wait for it or kill it with the ctx, and *)
(* the watched files.                                                      *)

ChildExits(g) ==
    /\ child[g] = "running"
    /\ child' = [child EXCEPT ![g] = "exited"]
    /\ UNCHANGED <<record, rebuildCh, locals, sig>>

(* cmd.Wait, called by the goroutine that closes waitDone. *)
Reap(g) ==
    /\ child[g] = "exited"
    /\ loop[g] \in {"wait", "term", "kill"}
    /\ child' = [child EXCEPT ![g] = "reaped"]
    /\ UNCHANGED <<record, rebuildCh, locals, sig>>

CtxKills(g) ==
    /\ ctxDone
    /\ child[g] = "running"
    /\ sig[g] # "kill"
    /\ Signal(g, "kill")
    /\ UNCHANGED <<record, rebuildCh, locals, child>>

(* A debounced burst of file changes: a non-blocking send. *)
FileChange(g) ==
    /\ g \in watcher
    /\ rebuildCh' = TRUE
    /\ UNCHANGED <<record, locals, os>>

-----------------------------------------------------------------------------

Starting(g) ==
    \/ DepsReady(g) \/ DepsStopped(g) \/ PreStart(g) \/ HookEnds(g)
    \/ OpenWatcher(g) \/ TopStops(g) \/ TopBuildsCmd(g) \/ StartChild(g)
    \/ StartFails(g) \/ Publish(g) \/ Announce(g)

Waiting(g) ==
    \/ HealthEvent(g) \/ EventStop(g) \/ EventRebuild(g)
    \/ ExitNotRestarted(g) \/ ExitExhausted(g) \/ ExitRetried(g)

Ending(g) ==
    \/ GraceExpires(g) \/ StopDone(g) \/ RebuildReady(g)
    \/ SkipBuild(g) \/ BeginBuild(g) \/ BuildSucceeds(g) \/ BuildFails(g)
    \/ ParkedStops(g) \/ ParkedRebuilds(g)
    \/ BackoffElapses(g) \/ BackoffCancelled(g) \/ Return(g)

Environment(g) == ChildExits(g) \/ Reap(g) \/ CtxKills(g) \/ FileChange(g)

(* No step of these changes what belongs to the callers. *)
Supervise(g) ==
    /\ Starting(g) \/ Waiting(g) \/ Ending(g) \/ Environment(g)
    /\ UNCHANGED <<gen, stopCh, ctxDone>>
=============================================================================
