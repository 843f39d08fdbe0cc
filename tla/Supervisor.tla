------------------------------ MODULE Supervisor ------------------------------
(***************************************************************************)
(* The calls that act on one ManagedProcess: StartApp on an existing name, *)
(* Stop, Restart, Delete and Shutdown of internal/supervisor/supervisor.go *)
(* running concurrently with each other and with the supervise goroutine   *)
(* of module Supervise.  Every caller is a goroutine (an IPC or HTTP       *)
(* handler, the goroutine StartApp spawns, or main) that makes one call;   *)
(* its steps are the critical sections and the blocking points of that     *)
(* call, so that any interleaving the Go scheduler allows can happen.      *)
(***************************************************************************)
EXTENDS Supervise

CONSTANTS
    Callers,  \* the goroutines that make calls
    Ops,      \* the calls they may make
    Free      \* nobody holds mp.restartMu

ASSUME OpsAssumption ==
    /\ Ops \subseteq {"start", "stop", "restart", "delete", "shutdown"}
    /\ Free \notin Callers

VARIABLES
    registered,  \* whether s.procs maps the app's name to this process
    stopped,     \* s.stopped
    restartMu,   \* mp.restartMu: its holder
    pc,          \* where each caller stands
    op,          \* the call it makes
    want,        \* the config it hands to StartApp
    tgt,         \* the child of the cmd it read under mp.mu, until it kills it
    waitGen,     \* the generation of the done channel it waits for
    result       \* what its call returned

registry == <<registered, stopped>>
calls == <<pc, op, want, tgt, waitGen, result>>
vars == <<superviseVars, registry, restartMu, calls>>

(*   writing    StartApp, inside `existing.Config = cfg`                   *)
(*   relookup   the goroutine StartApp spawned, before its lookup          *)
(*   locking    Restart, before TryLock                                    *)
(*   closing, killing, awaiting, waiting                                   *)
(*              the four steps of stopProcess                              *)
(*   swapping, unlocking, removing, cancelling                             *)
(*              after stopProcess, in Restart, Delete and Shutdown         *)
CallerPlaces == {"idle", "writing", "relookup", "locking", "closing", "killing",
                 "awaiting", "waiting", "swapping", "unlocking", "removing",
                 "cancelling", "returned"}

Results == {"none", "ok", "unknown", "dropped", "timeout"}

TypeOK ==
    /\ SuperviseTypeOK
    /\ registered \in BOOLEAN
    /\ stopped \in BOOLEAN
    /\ restartMu \in Callers \cup {Free}
    /\ pc \in [Callers -> CallerPlaces]
    /\ op \in [Callers -> Ops \cup {"none"}]
    /\ want \in [Callers -> AppConfig]
    /\ tgt \in [Callers -> Gens \cup {NoCmd}]
    /\ waitGen \in [Callers -> Gens]
    /\ result \in [Callers -> Results]

Init ==
    /\ SuperviseInit
    /\ registered = TRUE
    /\ stopped = FALSE
    /\ restartMu = Free
    /\ pc = [c \in Callers |-> "idle"]
    /\ op = [c \in Callers |-> "none"]
    /\ want = [c \in Callers |-> cfg]
    /\ tgt = [c \in Callers |-> NoCmd]
    /\ waitGen = [c \in Callers |-> 0]
    /\ result = [c \in Callers |-> "none"]

Step(c, from, to) == pc[c] = from /\ pc' = [pc EXCEPT ![c] = to]

Return_(c, from, r) ==
    /\ Step(c, from, "returned")
    /\ result' = [result EXCEPT ![c] = r]

(* mp.Config is copied without a lock on the readers' side: while the copy *)
(* is in progress every field reads as its old or its new value.           *)
Torn(a, b) ==
    [autoRestart : {a.autoRestart, b.autoRestart},
     maxRestarts : {a.maxRestarts, b.maxRestarts},
     watch : {a.watch, b.watch},
     build : {a.build, b.build},
     health : {a.health, b.health},
     preStart : {a.preStart, b.preStart},
     dependsOn : {a.dependsOn, b.dependsOn}]

-----------------------------------------------------------------------------
(* The calls. *)

(* s.lookup, at the head of Stop, Restart and Delete. *)
Lookup(c, o) ==
    /\ o \in Ops \cap {"stop", "restart", "delete"}
    /\ op' = [op EXCEPT ![c] = o]
    /\ IF registered
       THEN /\ Step(c, "idle", IF o = "restart" THEN "locking" ELSE "closing")
            /\ UNCHANGED result
       ELSE Return_(c, "idle", "unknown")
    /\ UNCHANGED <<superviseVars, registry, restartMu, want, tgt, waitGen>>

(* StartApp on a name that exists: mp.mu admits one writer at a time. *)
WriteConfig(c, new) ==
    /\ "start" \in Ops
    /\ registered
    /\ \A d \in Callers : pc[d] # "writing"
    /\ Step(c, "idle", "writing")
    /\ op' = [op EXCEPT ![c] = "start"]
    /\ want' = [want EXCEPT ![c] = new]
    /\ cfg' \in Torn(cfg, new)
    /\ UNCHANGED <<runCfg, status, restarts, crashNotified, cmd, chans, locals,
                   os, ctxDone, registry, restartMu, tgt, waitGen, result>>

(* StartApp returns nil to its own caller here; what follows is the        *)
(* goroutine it spawned, which calls Restart by name.                      *)
ConfigWritten(c) ==
    /\ Step(c, "writing", "relookup")
    /\ cfg' = want[c]
    /\ UNCHANGED <<runCfg, status, restarts, crashNotified, cmd, chans, locals,
                   os, ctxDone, registry, restartMu, op, want, tgt, waitGen,
                   result>>

Relookup(c) ==
    /\ IF registered
       THEN Step(c, "relookup", "locking") /\ UNCHANGED result
       ELSE Return_(c, "relookup", "unknown")
    /\ UNCHANGED <<superviseVars, registry, restartMu, op, want, tgt, waitGen>>

BeginShutdown(c) ==
    /\ "shutdown" \in Ops
    /\ op' = [op EXCEPT ![c] = "shutdown"]
    /\ IF stopped
       THEN Return_(c, "idle", "ok")
       ELSE /\ Step(c, "idle", IF registered THEN "closing" ELSE "cancelling")
            /\ UNCHANGED result
    /\ stopped' = TRUE
    /\ UNCHANGED <<superviseVars, registered, restartMu, want, tgt, waitGen>>

(* Mutant: a Restart that finds the lock held goes on. *)
TryLockAnyway(c) ==
    /\ Step(c, "locking", "closing")
    /\ restartMu' = c
    /\ UNCHANGED <<superviseVars, registry, op, want, tgt, waitGen, result>>

(* mp.restartMu.TryLock: a Restart that finds it held returns nil. *)
TryLock(c) ==
    /\ IF restartMu = Free
       THEN /\ Step(c, "locking", "closing")
            /\ restartMu' = c
            /\ UNCHANGED result
       ELSE /\ Return_(c, "locking", "dropped")
            /\ UNCHANGED restartMu
    /\ UNCHANGED <<superviseVars, registry, op, want, tgt, waitGen>>

-----------------------------------------------------------------------------
(* stopProcess. *)

Forced(c) == op[c] \in {"delete", "shutdown"}
Restarting(c) == op[c] \in {"start", "restart"}

(* The child mp.cmd stands for.  mp.cmd is never cleared, so while the     *)
(* loop is starting its next child it still names the one it reaped.       *)
PublishedChild ==
    IF cmd # NoCmd /\ loop[cmd] \in {"start", "publish"} THEN NoCmd ELSE cmd

CloseStop(c) ==
    /\ Step(c, "closing", "killing")
    /\ stopCh' = TRUE
    /\ tgt' = [tgt EXCEPT ![c] = PublishedChild]
    /\ UNCHANGED <<record, gen, rebuildCh, locals, os, ctxDone, registry,
                   restartMu, op, want, waitGen, result>>

(* Mutant: mp.cmd is read again after the unlock. *)
KillCurrent(c) ==
    /\ Step(c, "killing", "awaiting")
    /\ IF cmd # NoCmd
       THEN Signal(cmd, IF Forced(c) THEN "kill" ELSE "term")
       ELSE UNCHANGED sig
    /\ tgt' = [tgt EXCEPT ![c] = NoCmd]
    /\ UNCHANGED <<record, chans, locals, child, ctxDone, registry, restartMu,
                   op, want, waitGen, result>>

Kill(c) ==
    /\ Step(c, "killing", "awaiting")
    /\ IF tgt[c] # NoCmd
       THEN Signal(tgt[c], IF Forced(c) THEN "kill" ELSE "term")
       ELSE UNCHANGED sig
    /\ tgt' = [tgt EXCEPT ![c] = NoCmd]
    /\ UNCHANGED <<record, chans, locals, child, ctxDone, registry, restartMu,
                   op, want, waitGen, result>>

(* mp.done is read here, after the unlock and the kill. *)
ReadDone(c) ==
    /\ Step(c, "awaiting", "waiting")
    /\ waitGen' = [waitGen EXCEPT ![c] = gen]
    /\ UNCHANGED <<superviseVars, registry, restartMu, op, want, tgt, result>>

AfterStop(o) ==
    CASE o \in {"start", "restart"} -> "swapping"
      [] o = "delete" -> "removing"
      [] o = "shutdown" -> "cancelling"
      [] OTHER -> "returned"

DoneSeen(c) ==
    /\ Done(waitGen[c])
    /\ Step(c, "waiting", AfterStop(op[c]))
    /\ result' = [result EXCEPT ![c] = "ok"]
    /\ UNCHANGED <<superviseVars, registry, restartMu, op, want, tgt, waitGen>>

(* Mutant: Delete ignores the error as well. *)
AfterTimeoutRemoves(o) ==
    IF o = "delete" THEN "removing" ELSE
    CASE o \in {"start", "restart"} -> "unlocking"
      [] o = "shutdown" -> "cancelling"
      [] OTHER -> "returned"

(* Thirty seconds passed.  Shutdown ignores the error. *)
AfterTimeout(o) ==
    CASE o \in {"start", "restart"} -> "unlocking"
      [] o = "shutdown" -> "cancelling"
      [] OTHER -> "returned"

(* Mutant: only Stop and Delete have the timeout. *)
StopTimesOut(c) ==
    /\ op[c] \in {"stop", "delete"}
    /\ Step(c, "waiting", AfterTimeout(op[c]))
    /\ result' = [result EXCEPT ![c] = "timeout"]
    /\ UNCHANGED <<superviseVars, registry, restartMu, op, want, tgt, waitGen>>

WaitTimesOut(c) ==
    /\ Step(c, "waiting", AfterTimeout(op[c]))
    /\ result' = [result EXCEPT ![c] = "timeout"]
    /\ UNCHANGED <<superviseVars, registry, restartMu, op, want, tgt, waitGen>>

-----------------------------------------------------------------------------
(* After stopProcess. *)

(* Restart replaces the channels and spawns the next supervise goroutine. *)
Swap(c) ==
    /\ Step(c, "swapping", "unlocking")
    /\ gen < MaxGen
    /\ gen' = gen + 1
    /\ stopCh' = FALSE
    /\ restarts' = 0
    /\ crashNotified' = FALSE
    /\ Goto(gen + 1, "deps")
    /\ UNCHANGED <<cfg, runCfg, status, cmd, rebuildCh, why, watcher, probe, os,
                   ctxDone, registry, restartMu, op, want, tgt, waitGen,
                   result>>

Unlock(c) ==
    /\ Step(c, "unlocking", "returned")
    /\ restartMu' = Free
    /\ UNCHANGED <<superviseVars, registry, op, want, tgt, waitGen, result>>

Remove(c) ==
    /\ Step(c, "removing", "returned")
    /\ registered' = FALSE
    /\ UNCHANGED <<superviseVars, stopped, restartMu, op, want, tgt, waitGen,
                   result>>

Cancel(c) ==
    /\ Step(c, "cancelling", "returned")
    /\ ctxDone' = TRUE
    /\ UNCHANGED <<record, chans, locals, os, registry, restartMu, op, want,
                   tgt, waitGen, result>>

-----------------------------------------------------------------------------

Call(c) ==
    \/ \E o \in Ops : Lookup(c, o)
    \/ \E new \in Configs : WriteConfig(c, new)
    \/ BeginShutdown(c)

Proceed(c) ==
    \/ ConfigWritten(c) \/ Relookup(c) \/ TryLock(c)
    \/ CloseStop(c) \/ Kill(c) \/ ReadDone(c) \/ DoneSeen(c) \/ WaitTimesOut(c)
    \/ Swap(c) \/ Unlock(c) \/ Remove(c) \/ Cancel(c)

SuperviseStep(g) == Supervise(g) /\ UNCHANGED <<registry, restartMu, calls>>

(* Every caller has returned and no supervise goroutine can move: the      *)
(* daemon goes on idle.  Stopping anywhere else is a deadlock.             *)
Idle ==
    /\ \A c \in Callers : pc[c] = "returned"
    /\ \A g \in Gens : loop[g] \in {"unborn", "ended", "parked"}
    /\ UNCHANGED vars

Next ==
    \/ \E g \in Gens : SuperviseStep(g)
    \/ \E c \in Callers : Call(c) \/ Proceed(c)
    \/ Idle

Spec == Init /\ [][Next]_vars

-----------------------------------------------------------------------------
(* Safety. *)

(* At most one supervise goroutine is live for a process, whatever calls   *)
(* overlap: what restartMu and the wait for done are for.                  *)
OneSupervisor == \A g, h \in Gens : Live(g) /\ Live(h) => g = h

(* No two children of an app are ever alive together, and none is alive    *)
(* when the loop is about to start one ("two processes race for the same   *)
(* port", says the comment in Restart).                                    *)
OneChild ==
    /\ \A g, h \in Gens : Alive(g) /\ Alive(h) => g = h
    /\ \A g, h \in Gens : loop[g] = "start" => ~Alive(h)

(* What `gopm list` shows: an app shown stopped, errored, building or      *)
(* build_failed has no child left, so setStatus never runs ahead of the    *)
(* child's end.                                                            *)
StatusTellsChild ==
    \A g \in Gens : Alive(g) =>
        status \in {"starting", "online", "ready", "unhealthy"}

(* While its config stays the same an app is started again at most         *)
(* max_restarts times in a row, and it is given up as errored only after   *)
(* all of them: on both failure paths, a start that fails and a child that *)
(* exits, the counter is compared before it is raised.  (A backoff that a  *)
(* stop or the end of the daemon cut short leaves errored behind as well.) *)
RestartBudget ==
    cfg.maxRestarts > 0 =>
        /\ restarts <= cfg.maxRestarts
        /\ \A g \in Gens :
               loop[g] \in {"exit", "parked"} /\ status = "errored"
                   /\ cfg.autoRestart /\ ~stopCh /\ ~ctxDone
               => restarts = cfg.maxRestarts

(* A Stop, Restart or Delete that answers without an error has seen the    *)
(* child of the goroutine it waited for reaped: the two-stage kill cannot  *)
(* leave it behind.  (A Restart that finds another under way answers nil   *)
(* as well, and has seen nothing: its result here is "dropped".)           *)
OkMeansReaped ==
    \A c \in Callers :
        result[c] = "ok" /\ op[c] # "shutdown" => ~Alive(waitGen[c])

(* A child is signalled only because a stop of its own generation, a       *)
(* rebuild or the end of the daemon was asked for: a caller delayed        *)
(* between reading mp.cmd and killing it never hits the child of a later   *)
(* Restart.                                                                *)
SignalsWereAskedFor ==
    \A g \in Gens : sig'[g] # sig[g] /\ sig'[g] # "none" =>
        \/ g = gen /\ stopCh
        \/ loop'[g] \in {"term", "kill"} /\ why'[g] = "rebuild"
        \/ ctxDone

NoStraySignal == [][SignalsWereAskedFor]_vars

(* Of an app that a Delete has removed there is nothing left, neither a    *)
(* goroutine nor a child, but of a generation that came after the one the  *)
(* Delete waited for.  Only a Restart that overlaps the Delete makes one:  *)
(* it spawned it after the Delete had read mp.done, and had looked the app *)
(* up before the Delete removed it.  A Restart that ended before is no     *)
(* excuse, nor is a wait that ran into the timeout.                        *)
DeleteAloneLeavesNothing ==
    ~registered =>
        \E d \in Callers :
            /\ op[d] = "delete" /\ result[d] = "ok"
            /\ \A g \in Gens : Live(g) \/ Alive(g) => g > waitGen[d]

(* Supervise goroutines and calls together implement the abstract slot of  *)
(* module AppSlot: its child is the child of any generation, its keeper    *)
(* the newest supervise goroutine.                                         *)
Occupied == \E g \in Gens : Alive(g)

ShownOn == status \in {"starting", "online", "ready", "unhealthy"}

Slot ==
    INSTANCE AppSlot WITH
        up <- Occupied,
        kept <- ~Done(gen),
        asked <- stopCh,
        shown <- ShownOn

ImplementsSlot == Slot!Spec

-----------------------------------------------------------------------------
(* Fairness. *)

OfLoop(A) == A /\ UNCHANGED <<gen, stopCh, ctxDone, registry, restartMu, calls>>

(* The steps at which a goroutine waits for nothing outside gopm, or for a *)
(* timer.  WF: the Go scheduler runs every runnable goroutine.             *)
Runnable(g) ==
    \/ ~cfg.dependsOn /\ DepsReady(g)
    \/ DepsStopped(g) \/ PreStart(g) \/ OpenWatcher(g)
    \/ TopStops(g) \/ TopBuildsCmd(g) \/ StartChild(g)
    \/ ctxDone /\ StartFails(g)
    \/ Publish(g) \/ Announce(g)
    \/ EventStop(g) \/ ExitNotRestarted(g) \/ ExitExhausted(g) \/ ExitRetried(g)
    \/ GraceExpires(g) \/ StopDone(g) \/ RebuildReady(g)
    \/ SkipBuild(g) \/ BeginBuild(g)
    \/ BackoffElapses(g) \/ BackoffCancelled(g) \/ Return(g)

(* A child that gets SIGKILL exits.  No fairness for CtxKills: main returns *)
(* right after the cancel and waits for no goroutine of exec's.            *)
KillsWork ==
    \A g \in Gens : WF_vars(OfLoop(sig[g] = "kill" /\ ChildExits(g)))

(* SF where a select chooses among ready channels: Go picks one uniformly  *)
(* at random, so an arm that is ready again and again is taken.            *)
LoopsRun ==
    \A g \in Gens :
        /\ WF_vars(OfLoop(Runnable(g)))
        /\ WF_vars(OfLoop(Reap(g)))
        /\ SF_vars(OfLoop(EventRebuild(g)))
        /\ SF_vars(OfLoop(ParkedRebuilds(g)))
        /\ SF_vars(OfLoop(ParkedStops(g)))

(* A caller's goroutine runs, and its thirty-second timer fires.           *)
CallersRun == \A c \in Callers : WF_vars(Proceed(c))

(* An assumption on the user's commands, not on gopm: pre_start and        *)
(* build_cmd come to an end.                                               *)
HooksTerminate ==
    \A g \in Gens :
        /\ WF_vars(OfLoop(HookEnds(g)))
        /\ WF_vars(OfLoop(BuildSucceeds(g) \/ BuildFails(g)))

CallerSpec == Spec /\ CallersRun
FairSpec == Spec /\ CallersRun /\ LoopsRun /\ KillsWork /\ HooksTerminate

-----------------------------------------------------------------------------
(* Liveness. *)

(* Once stopCh is closed the goroutine that selects on it returns: from a  *)
(* backoff, a dependency wait, a parked build or a child that ignores      *)
(* SIGTERM; unless the daemon is on its way out, for main waits for no     *)
(* goroutine but those that Shutdown saw end.                              *)
StopLeadsToDone ==
    \A g \in Gens : (gen = g /\ stopCh) ~> (Done(g) \/ ctxDone)

(* Every call returns even when a hook never ends or a supervise goroutine *)
(* is stuck (CallerSpec does not assume that it runs): stopProcess waits    *)
(* a timeout, and a Restart never waits for restartMu.                     *)
CallersReturn == \A c \in Callers : (pc[c] # "idle") ~> (pc[c] = "returned")

(* A file change is not forgotten: the signal in rebuildCh is consumed by  *)
(* a rebuild, however often the child crashes or the build fails, unless   *)
(* the app is stopped or gives up first, or cannot be started any more: an *)
(* app without max_restarts is then tried again for ever, and that loop    *)
(* does not look at rebuildCh, not even for the change that repairs it.    *)
RebuildIsServed ==
    \A g \in Gens :
        (rebuildCh /\ g \in watcher) ~>
            \/ ~rebuildCh \/ stopCh \/ Done(g)
            \/ [](loop[g] \in {"top", "start", "backoff"})
-----------------------------------------------------------------------------
(* What the documentation says of these calls, and the code does not do.   *)

(* docs/SOLUTION_ARCHITECTURE.md: stopCh "keeps manual stops from being    *)
(* treated as crashes".  When the child that stopProcess signalled has     *)
(* exited, waitEvent's select may take the exit arm though stopCh is       *)
(* closed: the stop is counted as a crash, or reported as one.             *)
ManualStopIsNotCrash ==
    [][\A g \in Gens :
           loop[g] = "wait" /\ stopCh /\ sig[g] # "none" =>
               restarts' <= restarts /\ (crashNotified' => crashNotified)]_vars
=============================================================================
