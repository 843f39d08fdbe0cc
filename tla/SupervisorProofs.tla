--------------------------- MODULE SupervisorProofs ---------------------------
(***************************************************************************)
(* The inductive invariant of module Supervisor, and the theorems that     *)
(* follow from it for every set of callers, every set of configs and every *)
(* bound.                                                                  *)
(***************************************************************************)
EXTENDS Supervisor, TLAPS

(* Generations come and go one at a time: earlier ones have closed their   *)
(* done channel, later ones are not spawned yet.                           *)
GenInv ==
    /\ \A g \in Gens : /\ g > gen => loop[g] = "unborn"
                       /\ g < gen => loop[g] = "ended"
    /\ loop[gen] # "unborn"

(* Where a child may be alive, and what its goroutine is there for.        *)
ChildInv ==
    \A g \in Gens :
        /\ Alive(g) =>
               loop[g] \in {"publish", "announce", "wait", "term", "kill"}
        /\ loop[g] \in {"term", "kill"} => why[g] \in {"stop", "rebuild"}

(* The status the current generation has set by then. *)
StatusInv ==
    /\ loop[gen] \in {"start", "publish", "announce"} => status = "starting"
    /\ loop[gen] \in {"wait", "term", "kill"} =>
           status \in {"starting", "online", "ready", "unhealthy"}

(* A caller is inside Restart, past TryLock. *)
Locked(c) ==
    \/ pc[c] \in {"closing", "killing", "awaiting", "waiting"} /\ Restarting(c)
    \/ pc[c] \in {"swapping", "unlocking"}

LockInv == \A c \in Callers : Locked(c) => restartMu = c

(* What a caller knows of the stopCh it closed and the done it waits for. *)
WaitInv ==
    \A c \in Callers :
        /\ pc[c] = "waiting" /\ Restarting(c) => waitGen[c] = gen
        /\ pc[c] \in {"killing", "awaiting", "waiting"} /\ Restarting(c)
               => stopCh
        /\ pc[c] = "swapping" => Done(gen) /\ stopCh
        /\ result[c] = "ok" /\ op[c] # "shutdown" => Done(waitGen[c])
        /\ pc[c] \in {"idle", "writing", "relookup", "locking", "closing",
                      "killing", "awaiting", "waiting"} => result[c] = "none"

(* Whom a signal can reach, and that a stop was asked for first. *)
KillInv ==
    /\ cmd # NoCmd => cmd <= gen
    /\ \A c \in Callers :
           tgt[c] # NoCmd => /\ tgt[c] <= gen
                             /\ tgt[c] = gen => stopCh
    /\ loop[gen] \in {"term", "kill"} /\ why[gen] = "stop" => stopCh

IInv ==
    TypeOK /\ GenInv /\ ChildInv /\ StatusInv /\ LockInv /\ WaitInv /\ KillInv

(* The counter stays within its bound. *)
LEMMA BumpType ==
    ASSUME NEW n \in 0..RestartCap
    PROVE  Bump(n) \in 0..RestartCap
BY BoundsAssumption DEF Bump

(* Every step of a supervise goroutine, its child and its watcher keeps the *)
(* types.                                                                  *)
LEMMA LoopType ==
    ASSUME TypeOK, NEW g \in Gens, SuperviseStep(g)
    PROVE  TypeOK'
<1> USE BoundsAssumption, NoCmdAssumption, BumpType
<1> USE DEF TypeOK, SuperviseTypeOK, record, chans, locals, os, registry,
       calls, Status, Places, Goto, Rest, Signal, StopProbe, Built
<1>0. UNCHANGED <<gen, stopCh, ctxDone, registry, restartMu, calls>>
  BY DEF SuperviseStep, Supervise
<1>1. CASE DepsReady(g)
  BY <1>0, <1>1 DEF DepsReady
<1>2. CASE DepsStopped(g)
  BY <1>0, <1>2 DEF DepsStopped
<1>3. CASE PreStart(g)
  BY <1>0, <1>3 DEF PreStart
<1>4. CASE HookEnds(g)
  BY <1>0, <1>4 DEF HookEnds
<1>5. CASE OpenWatcher(g)
  BY <1>0, <1>5 DEF OpenWatcher
<1>6. CASE TopStops(g)
  BY <1>0, <1>6 DEF TopStops
<1>7. CASE TopBuildsCmd(g)
  BY <1>0, <1>7 DEF TopBuildsCmd
<1>8. CASE StartChild(g)
  BY <1>0, <1>8 DEF StartChild
<1>9. CASE StartFails(g)
  BY <1>0, <1>9 DEF StartFails
<1>10. CASE Publish(g)
  BY <1>0, <1>10 DEF Publish
<1>11. CASE Announce(g)
  BY <1>0, <1>11 DEF Announce
<1>12. CASE HealthEvent(g)
  BY <1>0, <1>12 DEF HealthEvent
<1>13. CASE EventStop(g)
  BY <1>0, <1>13 DEF EventStop
<1>14. CASE EventRebuild(g)
  BY <1>0, <1>14, ZenonT(60) DEF EventRebuild
<1>15. CASE ExitNotRestarted(g)
  BY <1>0, <1>15 DEF ExitNotRestarted
<1>16. CASE ExitExhausted(g)
  BY <1>0, <1>16 DEF ExitExhausted
<1>17. CASE ExitRetried(g)
  BY <1>0, <1>17, ZenonT(60) DEF ExitRetried
<1>18. CASE GraceExpires(g)
  BY <1>0, <1>18 DEF GraceExpires
<1>19. CASE StopDone(g)
  BY <1>0, <1>19 DEF StopDone
<1>20. CASE RebuildReady(g)
  BY <1>0, <1>20 DEF RebuildReady
<1>21. CASE SkipBuild(g)
  BY <1>0, <1>21 DEF SkipBuild
<1>22. CASE BeginBuild(g)
  BY <1>0, <1>22 DEF BeginBuild
<1>23. CASE BuildSucceeds(g)
  BY <1>0, <1>23 DEF BuildSucceeds
<1>24. CASE BuildFails(g)
  BY <1>0, <1>24 DEF BuildFails
<1>25. CASE ParkedStops(g)
  BY <1>0, <1>25 DEF ParkedStops
<1>26. CASE ParkedRebuilds(g)
  BY <1>0, <1>26, ZenonT(60) DEF ParkedRebuilds
<1>27. CASE BackoffElapses(g)
  BY <1>0, <1>27 DEF BackoffElapses
<1>28. CASE BackoffCancelled(g)
  BY <1>0, <1>28 DEF BackoffCancelled
<1>29. CASE Return(g)
  BY <1>0, <1>29 DEF Return
<1>30. CASE ChildExits(g)
  BY <1>0, <1>30 DEF ChildExits
<1>31. CASE Reap(g)
  BY <1>0, <1>31 DEF Reap
<1>32. CASE CtxKills(g)
  BY <1>0, <1>32 DEF CtxKills
<1>33. CASE FileChange(g)
  BY <1>0, <1>33 DEF FileChange
<1> QED
  BY <1>1, <1>2, <1>3, <1>4, <1>5, <1>6, <1>7, <1>8, <1>9, <1>10, <1>11,
     <1>12, <1>13, <1>14, <1>15, <1>16, <1>17, <1>18, <1>19, <1>20, <1>21,
     <1>22, <1>23, <1>24, <1>25, <1>26, <1>27, <1>28, <1>29, <1>30, <1>31,
     <1>32, <1>33 DEF SuperviseStep, Supervise, Starting, Waiting, Ending,
     Environment

(* Only the current generation is live. *)
LEMMA LiveIsCurrent ==
    ASSUME TypeOK, GenInv, NEW g \in Gens, Live(g)
    PROVE  g = gen
BY BoundsAssumption DEF TypeOK, SuperviseTypeOK, GenInv, Live, Gens

(* Every such step keeps the inductive invariant. *)
LEMMA LoopInv ==
    ASSUME IInv, NEW g \in Gens, SuperviseStep(g)
    PROVE  IInv'
<1> USE NoCmdAssumption, BoundsAssumption
<1> USE DEF TypeOK, SuperviseTypeOK, GenInv, ChildInv, StatusInv, LockInv,
       WaitInv, KillInv, Locked, Restarting, Done, Alive, record, chans,
       locals, os, registry, calls, Goto, Rest, Signal, StopProbe, Built
<1>t. TypeOK' BY LoopType DEF IInv
<1>0. UNCHANGED <<gen, stopCh, ctxDone, registry, restartMu, calls>>
  BY DEF SuperviseStep, Supervise
<1>i. GenInv /\ ChildInv /\ StatusInv /\ LockInv /\ WaitInv /\ KillInv /\ TypeOK
  BY DEF IInv
<1>g. loop[g] \notin {"unborn", "ended"} => g = gen
  BY <1>i, LiveIsCurrent DEF Live
<1>1. CASE DepsReady(g)
  BY <1>0, <1>i, <1>t, <1>g, <1>1 DEF DepsReady, IInv
<1>2. CASE DepsStopped(g)
  BY <1>0, <1>i, <1>t, <1>g, <1>2 DEF DepsStopped, IInv
<1>3. CASE PreStart(g)
  BY <1>0, <1>i, <1>t, <1>g, <1>3 DEF PreStart, IInv
<1>4. CASE HookEnds(g)
  BY <1>0, <1>i, <1>t, <1>g, <1>4 DEF HookEnds, IInv
<1>5. CASE OpenWatcher(g)
  BY <1>0, <1>i, <1>t, <1>g, <1>5 DEF OpenWatcher, IInv
<1>6. CASE TopStops(g)
  BY <1>0, <1>i, <1>t, <1>g, <1>6 DEF TopStops, IInv
<1>7. CASE TopBuildsCmd(g)
  BY <1>0, <1>i, <1>t, <1>g, <1>7 DEF TopBuildsCmd, IInv
<1>8. CASE StartChild(g)
  BY <1>0, <1>i, <1>t, <1>g, <1>8 DEF StartChild, IInv
<1>9. CASE StartFails(g)
  BY <1>0, <1>i, <1>t, <1>g, <1>9 DEF StartFails, IInv
<1>10. CASE Publish(g)
  <2>1. loop[g] = "publish" /\ g = gen
    BY <1>10, <1>g DEF Publish
  <2>2. GenInv' /\ StatusInv' /\ LockInv' /\ WaitInv'
    BY <1>0, <1>i, <1>t, <1>10, <2>1 DEF Publish
  <2>3. ChildInv'
    BY <1>0, <1>i, <1>t, <1>10, <2>1 DEF Publish
  <2>4. cmd' # NoCmd => cmd' <= gen'
    BY <1>0, <1>i, <1>10, <2>1 DEF Publish, Gens
  <2>5. KillInv'
    BY <1>0, <1>i, <1>t, <1>10, <2>1, <2>4 DEF Publish
  <2> QED
    BY <1>t, <2>2, <2>3, <2>5 DEF IInv
<1>11. CASE Announce(g)
  BY <1>0, <1>i, <1>t, <1>g, <1>11 DEF Announce, IInv
<1>12. CASE HealthEvent(g)
  BY <1>0, <1>i, <1>t, <1>g, <1>12 DEF HealthEvent, IInv
<1>13. CASE EventStop(g)
  BY <1>0, <1>i, <1>t, <1>g, <1>13 DEF EventStop, IInv
<1>14. CASE EventRebuild(g)
  BY <1>0, <1>i, <1>t, <1>g, <1>14 DEF EventRebuild, IInv
<1>15. CASE ExitNotRestarted(g)
  BY <1>0, <1>i, <1>t, <1>g, <1>15 DEF ExitNotRestarted, IInv
<1>16. CASE ExitExhausted(g)
  BY <1>0, <1>i, <1>t, <1>g, <1>16 DEF ExitExhausted, IInv
<1>17. CASE ExitRetried(g)
  BY <1>0, <1>i, <1>t, <1>g, <1>17 DEF ExitRetried, IInv
<1>18. CASE GraceExpires(g)
  BY <1>0, <1>i, <1>t, <1>g, <1>18 DEF GraceExpires, IInv
<1>19. CASE StopDone(g)
  BY <1>0, <1>i, <1>t, <1>g, <1>19 DEF StopDone, IInv
<1>20. CASE RebuildReady(g)
  BY <1>0, <1>i, <1>t, <1>g, <1>20 DEF RebuildReady, IInv
<1>21. CASE SkipBuild(g)
  BY <1>0, <1>i, <1>t, <1>g, <1>21 DEF SkipBuild, IInv
<1>22. CASE BeginBuild(g)
  BY <1>0, <1>i, <1>t, <1>g, <1>22 DEF BeginBuild, IInv
<1>23. CASE BuildSucceeds(g)
  BY <1>0, <1>i, <1>t, <1>g, <1>23 DEF BuildSucceeds, IInv
<1>24. CASE BuildFails(g)
  BY <1>0, <1>i, <1>t, <1>g, <1>24 DEF BuildFails, IInv
<1>25. CASE ParkedStops(g)
  BY <1>0, <1>i, <1>t, <1>g, <1>25 DEF ParkedStops, IInv
<1>26. CASE ParkedRebuilds(g)
  BY <1>0, <1>i, <1>t, <1>g, <1>26 DEF ParkedRebuilds, IInv
<1>27. CASE BackoffElapses(g)
  BY <1>0, <1>i, <1>t, <1>g, <1>27 DEF BackoffElapses, IInv
<1>28. CASE BackoffCancelled(g)
  BY <1>0, <1>i, <1>t, <1>g, <1>28 DEF BackoffCancelled, IInv
<1>29. CASE Return(g)
  BY <1>0, <1>i, <1>t, <1>g, <1>29 DEF Return, IInv
<1>30. CASE ChildExits(g)
  BY <1>0, <1>i, <1>t, <1>g, <1>30 DEF ChildExits, IInv
<1>31. CASE Reap(g)
  BY <1>0, <1>i, <1>t, <1>g, <1>31 DEF Reap, IInv
<1>32. CASE CtxKills(g)
  BY <1>0, <1>i, <1>t, <1>g, <1>32 DEF CtxKills, IInv
<1>33. CASE FileChange(g)
  BY <1>0, <1>i, <1>t, <1>g, <1>33 DEF FileChange, IInv
<1> QED
  BY <1>1, <1>2, <1>3, <1>4, <1>5, <1>6, <1>7, <1>8, <1>9, <1>10, <1>11,
     <1>12, <1>13, <1>14, <1>15, <1>16, <1>17, <1>18, <1>19, <1>20, <1>21,
     <1>22, <1>23, <1>24, <1>25, <1>26, <1>27, <1>28, <1>29, <1>30, <1>31,
     <1>32, <1>33 DEF SuperviseStep, Supervise, Starting, Waiting, Ending,
     Environment

(* A config read in the middle of an assignment is still a config. *)
LEMMA TornType ==
    ASSUME NEW a \in AppConfig, NEW b \in AppConfig
    PROVE  Torn(a, b) \subseteq AppConfig
BY DEF Torn, AppConfig

(* The generation a Restart opens is the first of those not spawned yet. *)
LEMMA NextGen ==
    ASSUME NEW n \in Gens, n < MaxGen
    PROVE  /\ n + 1 \in Gens
           /\ n + 1 # n
           /\ \A g \in Gens : (g < n + 1 <=> g < n \/ g = n)
                             /\ (g > n + 1 => g > n)
                             /\ (g <= n => g <= n + 1 /\ g # n + 1)
BY BoundsAssumption DEF Gens

(* Every step of a caller keeps the types. *)
LEMMA CallerType ==
    ASSUME TypeOK, NEW c \in Callers, Call(c) \/ Proceed(c)
    PROVE  TypeOK'
<1> USE BoundsAssumption, NoCmdAssumption, ConfigsAssumption, OpsAssumption
<1> USE DEF TypeOK, SuperviseTypeOK, superviseVars, record, chans, locals,
       os, registry, calls, CallerPlaces, Results, Places, Goto, Signal,
       Step, Return_
<1>1. CASE \E o \in Ops : Lookup(c, o)
  BY <1>1 DEF Lookup
<1>2. CASE \E new \in Configs : WriteConfig(c, new)
  BY <1>2, TornType DEF WriteConfig
<1>3. CASE BeginShutdown(c)
  BY <1>3 DEF BeginShutdown
<1>4. CASE ConfigWritten(c)
  BY <1>4 DEF ConfigWritten
<1>5. CASE Relookup(c)
  BY <1>5 DEF Relookup
<1>6. CASE TryLock(c)
  BY <1>6 DEF TryLock
<1>7. CASE CloseStop(c)
  BY <1>7 DEF CloseStop, PublishedChild
<1>8. CASE Kill(c)
  BY <1>8 DEF Kill
<1>9. CASE ReadDone(c)
  BY <1>9 DEF ReadDone
<1>10. CASE DoneSeen(c)
  BY <1>10 DEF DoneSeen, AfterStop
<1>11. CASE WaitTimesOut(c)
  BY <1>11 DEF WaitTimesOut, AfterTimeout
<1>12. CASE Swap(c)
  <2>1. gen + 1 \in Gens
    BY <1>12, NextGen DEF Swap
  <2>2. 0 \in 0..RestartCap
    BY BoundsAssumption
  <2>3. pc' \in [Callers -> CallerPlaces]
    BY <1>12 DEF Swap
  <2>4. loop' \in [Gens -> Places]
    BY <1>12, <2>1 DEF Swap
  <2> QED
    BY <1>12, <2>1, <2>2, <2>3, <2>4 DEF Swap
<1>13. CASE Unlock(c)
  BY <1>13 DEF Unlock
<1>14. CASE Remove(c)
  BY <1>14 DEF Remove
<1>15. CASE Cancel(c)
  BY <1>15 DEF Cancel
<1> QED
  BY <1>1, <1>2, <1>3, <1>4, <1>5, <1>6, <1>7, <1>8, <1>9, <1>10, <1>11,
     <1>12, <1>13, <1>14, <1>15 DEF Call, Proceed

(* Every step of a caller keeps the inductive invariant: TryLock admits one *)
(* Restart at a time, and Swap finds the current done channel closed.      *)
LEMMA CallerInv ==
    ASSUME IInv, NEW c \in Callers, Call(c) \/ Proceed(c)
    PROVE  IInv'
<1> USE BoundsAssumption, NoCmdAssumption, OpsAssumption
<1> USE DEF TypeOK, SuperviseTypeOK, GenInv, ChildInv, StatusInv, LockInv,
       WaitInv, KillInv, Locked, Restarting, Done, Alive, superviseVars,
       record, chans, locals, os, registry, calls, Goto, Signal, Step,
       Return_
<1>t. TypeOK' BY CallerType DEF IInv
<1>i. GenInv /\ ChildInv /\ StatusInv /\ LockInv /\ WaitInv /\ KillInv /\ TypeOK
  BY DEF IInv
<1>1. CASE \E o \in Ops : Lookup(c, o)
  BY <1>i, <1>t, <1>1 DEF Lookup, IInv
<1>2. CASE \E new \in Configs : WriteConfig(c, new)
  BY <1>i, <1>t, <1>2 DEF WriteConfig, IInv
<1>3. CASE BeginShutdown(c)
  BY <1>i, <1>t, <1>3 DEF BeginShutdown, IInv
<1>4. CASE ConfigWritten(c)
  BY <1>i, <1>t, <1>4 DEF ConfigWritten, IInv
<1>5. CASE Relookup(c)
  BY <1>i, <1>t, <1>5 DEF Relookup, IInv
<1>6. CASE TryLock(c)
  BY <1>i, <1>t, <1>6 DEF TryLock, IInv
<1>7. CASE CloseStop(c)
  BY <1>i, <1>t, <1>7 DEF PublishedChild, CloseStop, IInv
<1>8. CASE Kill(c)
  BY <1>i, <1>t, <1>8 DEF Kill, IInv
<1>9. CASE ReadDone(c)
  BY <1>i, <1>t, <1>9 DEF ReadDone, IInv
<1>10. CASE DoneSeen(c)
  BY <1>i, <1>t, <1>10 DEF AfterStop, DoneSeen, IInv
<1>11. CASE WaitTimesOut(c)
  BY <1>i, <1>t, <1>11 DEF AfterTimeout, WaitTimesOut, IInv
<1>12. CASE Swap(c)
  BY <1>i, <1>t, <1>12, NextGen DEF Swap, IInv
<1>13. CASE Unlock(c)
  BY <1>i, <1>t, <1>13 DEF Unlock, IInv
<1>14. CASE Remove(c)
  BY <1>i, <1>t, <1>14 DEF Remove, IInv
<1>15. CASE Cancel(c)
  BY <1>i, <1>t, <1>15 DEF Cancel, IInv
<1> QED
  BY <1>1, <1>2, <1>3, <1>4, <1>5, <1>6, <1>7, <1>8, <1>9, <1>10, <1>11,
     <1>12, <1>13, <1>14, <1>15 DEF Call, Proceed

-----------------------------------------------------------------------------

(* A freshly registered process satisfies the invariant. *)
LEMMA InitInv == Init => IInv
<1> SUFFICES ASSUME Init PROVE IInv
  OBVIOUS
<1> USE BoundsAssumption, ConfigsAssumption, NoCmdAssumption
<1> USE DEF Init, SuperviseInit
<1>1. 0 \in Gens /\ \A g \in Gens : ~(g < 0)
  BY DEF Gens
<1>2. SuperviseTypeOK
  <2>1. loop \in [Gens -> Places]
    BY DEF Places
  <2>2. 0 \in 0..RestartCap
    OBVIOUS
  <2> QED
    BY <1>1, <2>1, <2>2 DEF SuperviseTypeOK, Status
<1>3. TypeOK
  BY <1>1, <1>2 DEF TypeOK, SuperviseTypeOK, CallerPlaces, Results
<1>4. GenInv /\ ChildInv /\ StatusInv
  BY <1>1 DEF GenInv, ChildInv, StatusInv, Alive
<1>5. LockInv /\ WaitInv /\ KillInv
  BY <1>1 DEF LockInv, WaitInv, KillInv, Locked
<1> QED
  BY <1>3, <1>4, <1>5 DEF IInv

(* The invariant is inductive. *)
LEMMA StepInv == IInv /\ [Next]_vars => IInv'
<1> SUFFICES ASSUME IInv, [Next]_vars PROVE IInv'
  OBVIOUS
<1>1. CASE \E g \in Gens : SuperviseStep(g)
  BY <1>1, LoopInv
<1>2. CASE \E c \in Callers : Call(c) \/ Proceed(c)
  BY <1>2, CallerInv
<1>3. CASE UNCHANGED vars
  BY <1>3 DEF vars, superviseVars, record, chans, locals, os, registry, calls,
     IInv, TypeOK, SuperviseTypeOK, GenInv, ChildInv, StatusInv, LockInv,
     WaitInv, KillInv, Locked, Restarting, Done, Alive
<1> QED
  BY <1>1, <1>2, <1>3 DEF Next, Idle

(* The inductive invariant holds in every reachable state. *)
THEOREM Inductive == Spec => []IInv
BY InitInv, StepInv, PTL DEF Spec

(* Type correctness of the whole supervisor model. *)
THEOREM TypeCorrect == Spec => []TypeOK
<1>1. IInv => TypeOK
  BY DEF IInv
<1> QED
  BY <1>1, Inductive, PTL

(* However Stop, Restart, Delete, StartApp and Shutdown overlap, an app has *)
(* at most one live supervise goroutine.                                   *)
THEOREM OneSupervisorHolds == Spec => []OneSupervisor
<1>1. IInv => OneSupervisor
  BY LiveIsCurrent DEF IInv, OneSupervisor
<1> QED
  BY <1>1, Inductive, PTL

(* Two children of one app are never alive together, and the old one is    *)
(* reaped before the next is started.                                      *)
THEOREM OneChildHolds == Spec => []OneChild
<1>1. IInv => OneChild
  <2> SUFFICES ASSUME IInv PROVE OneChild
    OBVIOUS
  <2>1. \A g \in Gens : Alive(g) => Live(g) /\ loop[g] # "start"
    BY DEF IInv, ChildInv, Live
  <2>2. \A g \in Gens : loop[g] = "start" => Live(g)
    BY DEF Live
  <2> QED
    BY <2>1, <2>2, LiveIsCurrent DEF IInv, OneChild
<1> QED
  BY <1>1, Inductive, PTL

(* An app shown stopped, errored, building or build_failed has no child.   *)
THEOREM StatusTellsChildHolds == Spec => []StatusTellsChild
<1>1. IInv => StatusTellsChild
  <2> SUFFICES ASSUME IInv, NEW g \in Gens, Alive(g)
               PROVE  status \in {"starting", "online", "ready", "unhealthy"}
    BY DEF StatusTellsChild
  <2>1. loop[g] \in {"publish", "announce", "wait", "term", "kill"}
    BY DEF IInv, ChildInv
  <2>2. g = gen
    BY <2>1, LiveIsCurrent DEF IInv, Live
  <2> QED
    BY <2>1, <2>2 DEF IInv, StatusInv
<1> QED
  BY <1>1, Inductive, PTL

(* A Stop, Restart or Delete that returns nil leaves no child behind of the *)
(* goroutine it waited for.                                                *)
THEOREM OkMeansReapedHolds == Spec => []OkMeansReaped
<1>1. IInv => OkMeansReaped
  BY DEF IInv, OkMeansReaped, WaitInv, ChildInv, Done, TypeOK
<1> QED
  BY <1>1, Inductive, PTL

(* The signals of the supervise goroutine and of the ctx were asked for.   *)
LEMMA LoopSignals ==
    ASSUME IInv, NEW g \in Gens, SuperviseStep(g)
    PROVE  SignalsWereAskedFor
<1> USE DEF SignalsWereAskedFor, Signal, Goto, os, locals
<1>0. TypeOK /\ KillInv /\ ChildInv /\ UNCHANGED <<gen, stopCh, ctxDone>>
  BY DEF IInv, SuperviseStep, Supervise
<1>1. Live(g) => g = gen
  BY LiveIsCurrent DEF IInv
<1>2. CASE StartChild(g)
  BY <1>0, <1>2 DEF StartChild, TypeOK, SuperviseTypeOK
<1>3. CASE Publish(g) \/ EventStop(g)
  BY <1>0, <1>1, <1>3 DEF Publish, EventStop, Live, TypeOK, SuperviseTypeOK
<1>4. CASE EventRebuild(g)
  BY <1>0, <1>4 DEF EventRebuild, TypeOK, SuperviseTypeOK
<1>5. CASE GraceExpires(g)
  BY <1>0, <1>1, <1>5 DEF GraceExpires, Live, KillInv, ChildInv, TypeOK,
     SuperviseTypeOK
<1>6. CASE CtxKills(g)
  BY <1>0, <1>6 DEF CtxKills, TypeOK, SuperviseTypeOK
<1>7. CASE UNCHANGED sig
  BY <1>7
<1> QED
  BY <1>2, <1>3, <1>4, <1>5, <1>6, <1>7 DEF SuperviseStep, Supervise, Starting,
     Waiting, Ending, Environment, DepsReady, DepsStopped, PreStart, HookEnds,
     OpenWatcher, TopStops, TopBuildsCmd, StartFails, Announce, HealthEvent,
     ExitNotRestarted, ExitExhausted, ExitRetried, StopDone, RebuildReady,
     SkipBuild, BeginBuild, BuildSucceeds, BuildFails, ParkedStops,
     ParkedRebuilds, BackoffElapses, BackoffCancelled, Return, ChildExits,
     Reap, FileChange

(* The signal of a caller reaches the current generation, if any, and that *)
(* caller has closed its stopCh.                                           *)
LEMMA CallerSignals ==
    ASSUME IInv, NEW c \in Callers, Call(c) \/ Proceed(c)
    PROVE  SignalsWereAskedFor
<1> USE DEF SignalsWereAskedFor, superviseVars, os
<1>1. CASE Kill(c)
  <2>1. CASE tgt[c] = NoCmd
    BY <1>1, <2>1 DEF Kill
  <2>2. CASE tgt[c] # NoCmd
    <3>1. tgt[c] \in Gens /\ tgt[c] <= gen /\ (tgt[c] = gen => stopCh)
      BY <2>2 DEF IInv, TypeOK, KillInv
    <3>2. child[tgt[c]] = "running" => tgt[c] = gen
      BY <3>1, LiveIsCurrent DEF IInv, ChildInv, Alive, Live
    <3> QED
      BY <1>1, <2>2, <3>1, <3>2 DEF Kill, Signal, IInv, TypeOK, SuperviseTypeOK
  <2> QED
    BY <2>1, <2>2
<1>2. CASE UNCHANGED sig
  BY <1>2
<1> QED
  BY <1>1, <1>2 DEF Call, Proceed, Lookup, WriteConfig, BeginShutdown,
     ConfigWritten, Relookup, TryLock, CloseStop, ReadDone, DoneSeen,
     WaitTimesOut, Swap, Unlock, Remove, Cancel

(* A delayed process.Kill of a caller never hits the child that a later    *)
(* Restart started.                                                        *)
THEOREM NoStraySignalHolds == Spec => NoStraySignal
<1>1. IInv /\ [Next]_vars => [SignalsWereAskedFor]_vars
  BY LoopSignals, CallerSignals DEF Next, Idle
<1> QED
  BY <1>1, Inductive, PTL DEF Spec, NoStraySignal

-----------------------------------------------------------------------------
(* The refinement of AppSlot. *)

(* The slot is filled exactly when the current generation has a child. *)
LEMMA UpIsCurrent == IInv => (Occupied <=> Alive(gen))
<1> SUFFICES ASSUME IInv PROVE Occupied <=> Alive(gen)
  OBVIOUS
<1>1. gen \in Gens
  BY DEF IInv, TypeOK, SuperviseTypeOK
<1>2. \A g \in Gens : Alive(g) => g = gen
  BY LiveIsCurrent DEF IInv, ChildInv, Live
<1> QED
  BY <1>1, <1>2 DEF Occupied

(* A slot that is filled is shown on: the invariant of the step's end. *)
LEMMA UpIsShown == IInv => (Alive(gen) => ShownOn)
BY DEF IInv, ChildInv, StatusInv, ShownOn, TypeOK, SuperviseTypeOK

(* The newborn process is an empty slot with a keeper. *)
LEMMA InitSlot == Init => Slot!Init
BY NoCmdAssumption, BoundsAssumption
   DEF Init, SuperviseInit, Slot!Init, Occupied, Alive, Done, ShownOn,
       Gens

(* A step inside the loop that leaves the child alone shows something. *)
LEMMA LoopShows ==
    ASSUME IInv, IInv', Live(gen), Live(gen)', UNCHANGED <<child, gen, stopCh>>
    PROVE  Slot!Show
<1>1. Occupied <=> Alive(gen)
  BY UpIsCurrent
<1>2. Alive(gen)' => ShownOn'
  BY UpIsShown, PTL
<1>3. UNCHANGED <<Occupied, Alive(gen)>>
  BY DEF Alive, Occupied
<1>4. ~Done(gen) /\ UNCHANGED (~Done(gen))
  BY DEF Live, Done
<1>5. ShownOn' \in BOOLEAN
  BY DEF ShownOn
<1>6. CASE Occupied
  <2>1. ShownOn' = TRUE
    BY <1>1, <1>2, <1>3, <1>5, <1>6
  <2> QED
    BY <1>3, <1>4, <1>6, <2>1 DEF Slot!Show
<1>7. CASE ~Occupied
  BY <1>3, <1>4, <1>5, <1>7 DEF Slot!Show
<1> QED
  BY <1>6, <1>7

(* Every step of a supervise goroutine and of its child is a step of the   *)
(* slot: the start of a child fills it, its reaping empties it, the close  *)
(* of done leaves it, and everything else shows something or nothing.      *)
LEMMA LoopImplements ==
    ASSUME IInv, IInv', NEW g \in Gens, SuperviseStep(g)
    PROVE  [Slot!Next]_(Slot!vars)
<1> USE DEF Slot!Next, Slot!vars, os, locals, Goto
<1>0. /\ TypeOK /\ GenInv /\ ChildInv
      /\ UNCHANGED <<gen, stopCh, ctxDone>>
      /\ gen \in Gens
  BY DEF IInv, SuperviseStep, Supervise, TypeOK, SuperviseTypeOK
<1>1. Live(g) => g = gen
  BY LiveIsCurrent DEF IInv
<1>u. Occupied <=> Alive(gen)
  BY UpIsCurrent
<1>v. Occupied' <=> Alive(gen)'
  BY UpIsCurrent, PTL
<1>2. CASE StartChild(g)
  <2>1. g = gen /\ ~Alive(gen) /\ Alive(gen)'
    BY <1>0, <1>1, <1>2 DEF StartChild, Live, Alive, ChildInv, TypeOK,
       SuperviseTypeOK
  <2>2. ~Done(gen) /\ ~Done(gen)' /\ UNCHANGED ShownOn
    BY <1>0, <1>2, <2>1 DEF StartChild, Done, ShownOn, record, TypeOK,
       SuperviseTypeOK
  <2>3. ~Done(gen) = TRUE /\ UNCHANGED (~Done(gen))
    BY <2>2 DEF Done
  <2>4. Occupied' = TRUE /\ (Occupied <=> ~TRUE)
    BY <1>u, <1>v, <2>1 DEF Occupied
  <2> QED
    BY <1>0, <2>2, <2>3, <2>4 DEF Slot!Fill
<1>3. CASE Reap(g)
  <2>1. g = gen /\ Alive(gen) /\ ~Alive(gen)'
    BY <1>0, <1>1, <1>3 DEF Reap, Live, Alive, TypeOK, SuperviseTypeOK
  <2>2. ~Done(gen) /\ ~Done(gen)' /\ UNCHANGED ShownOn
    BY <1>0, <1>3, <2>1 DEF Reap, Done, ShownOn, record
  <2>3. ~Done(gen) = TRUE /\ UNCHANGED (~Done(gen))
    BY <2>2 DEF Done
  <2>4. Occupied' = FALSE /\ (Occupied <=> ~FALSE)
    BY <1>u, <1>v, <2>1 DEF Occupied
  <2> QED
    BY <1>0, <2>2, <2>3, <2>4 DEF Slot!Empty
<1>4. CASE Return(g)
  <2>1. g = gen /\ ~Alive(gen) /\ ~Alive(gen)'
    BY <1>0, <1>1, <1>4 DEF Return, Live, Alive, ChildInv
  <2>2. ~Done(gen) /\ Done(gen)' /\ UNCHANGED ShownOn
    BY <1>0, <1>4, <2>1 DEF Return, Done, ShownOn, record, TypeOK,
       SuperviseTypeOK
  <2>3. ~Done(gen) /\ (~Done(gen))' = FALSE
    BY <2>2 DEF Done
  <2>4. ~Occupied /\ UNCHANGED Occupied
    BY <1>u, <1>v, <2>1 DEF Occupied
  <2> QED
    BY <1>0, <2>2, <2>3, <2>4 DEF Slot!Leave
<1>5. CASE ChildExits(g) \/ CtxKills(g) \/ FileChange(g)
  <2>1. Alive(gen)' <=> Alive(gen)
    BY <1>0, <1>5 DEF ChildExits, CtxKills, FileChange, Alive, TypeOK,
       SuperviseTypeOK
  <2>2. UNCHANGED <<loop, status>>
    BY <1>5 DEF ChildExits, CtxKills, FileChange, record
  <2>3. UNCHANGED Occupied
    BY <1>u, <1>v, <2>1 DEF Occupied
  <2> QED
    BY <1>0, <2>2, <2>3 DEF Done, ShownOn
<1>6. CASE Live(g) /\ Live(g)' /\ UNCHANGED child
  BY <1>0, <1>1, <1>6, LoopShows
<1>7. \/ StartChild(g) \/ Reap(g) \/ Return(g)
      \/ ChildExits(g) \/ CtxKills(g) \/ FileChange(g)
      \/ Live(g) /\ Live(g)' /\ UNCHANGED child
  BY <1>0 DEF SuperviseStep, Supervise, Starting, Waiting, Ending,
     Environment, DepsReady, DepsStopped, PreStart, HookEnds, OpenWatcher,
     TopStops, TopBuildsCmd, StartFails, Publish, Announce, HealthEvent,
     EventStop, EventRebuild, ExitNotRestarted, ExitExhausted, ExitRetried,
     GraceExpires, StopDone, RebuildReady, SkipBuild, BeginBuild,
     BuildSucceeds, BuildFails, ParkedStops, ParkedRebuilds, BackoffElapses,
     BackoffCancelled, Rest, Built, Live, TypeOK, SuperviseTypeOK
<1> QED
  BY <1>2, <1>3, <1>4, <1>5, <1>6, <1>7

(* A caller asks, and a Restart that saw done closed replaces the keeper.  *)
LEMMA CallerImplements ==
    ASSUME IInv, IInv', NEW c \in Callers, Call(c) \/ Proceed(c)
    PROVE  [Slot!Next]_(Slot!vars)
<1> USE DEF Slot!Next, Slot!vars
<1>1. CASE CloseStop(c)
  BY <1>1 DEF CloseStop, Slot!Ask, record, locals, os, Occupied, Alive, Done,
     ShownOn
<1>2. CASE Swap(c)
  <2>0. TypeOK /\ GenInv /\ ChildInv /\ WaitInv /\ gen \in Gens
    BY DEF IInv, TypeOK, SuperviseTypeOK
  <2>1. Done(gen) /\ stopCh /\ ~stopCh'
    BY <1>2, <2>0 DEF Swap, Step, WaitInv
  <2>2. gen + 1 \in Gens /\ gen' = gen + 1 /\ ~Done(gen)'
    BY <1>2, <2>0, NextGen DEF Swap, Goto, Done, TypeOK, SuperviseTypeOK
  <2>3. Occupied' <=> Occupied
    BY <1>2 DEF Swap, os, Alive, Occupied
  <2> QED
    BY <1>2, <2>1, <2>2, <2>3 DEF Swap, Slot!Replace, ShownOn
<1>3. CASE UNCHANGED <<loop, child, gen, stopCh, status>>
  BY <1>3 DEF Alive, Occupied, Done, ShownOn
<1> QED
  BY <1>1, <1>2, <1>3 DEF Call, Proceed, Lookup, WriteConfig, BeginShutdown,
     ConfigWritten, Relookup, TryLock, Kill, ReadDone, DoneSeen,
     WaitTimesOut, Unlock, Remove, Cancel, superviseVars, record, chans,
     locals, os

(* The supervisor implements the slot: whatever calls overlap, whatever    *)
(* becomes of the children and of the timers, what an observer of an app   *)
(* sees is a behaviour of AppSlot.                                         *)
THEOREM ImplementsSlotHolds == Spec => ImplementsSlot
<1>1. IInv /\ IInv' /\ [Next]_vars => [Slot!Next]_(Slot!vars)
  <2> SUFFICES ASSUME IInv, IInv', [Next]_vars PROVE [Slot!Next]_(Slot!vars)
    OBVIOUS
  <2>1. CASE \E g \in Gens : SuperviseStep(g)
    BY <2>1, LoopImplements
  <2>2. CASE \E c \in Callers : Call(c) \/ Proceed(c)
    BY <2>2, CallerImplements
  <2>3. CASE UNCHANGED vars
    BY <2>3 DEF vars, superviseVars, record, chans, locals, os, Slot!vars,
       Occupied, Alive, Done, ShownOn
  <2> QED
    BY <2>1, <2>2, <2>3 DEF Next, Idle
<1> QED
  BY <1>1, InitSlot, Inductive, PTL DEF Spec, ImplementsSlot, Slot!Spec

-----------------------------------------------------------------------------
(* What a Delete leaves behind. *)

(* An app is given up only by a Delete that saw the done it waited for     *)
(* closed.                                                                 *)
DeleteInv ==
    /\ \A c \in Callers :
           pc[c] = "removing" => op[c] = "delete" /\ result[c] = "ok"
    /\ ~registered => \E d \in Callers : op[d] = "delete" /\ result[d] = "ok"

(* Every step of a caller keeps DeleteInv. *)
LEMMA CallerDelete ==
    ASSUME IInv, DeleteInv, NEW c \in Callers, Call(c) \/ Proceed(c)
    PROVE  DeleteInv'
<1> USE DEF DeleteInv, Step, Return_
<1>1. TypeOK /\ WaitInv
  BY DEF IInv
<1> USE <1>1 DEF TypeOK, WaitInv, registry
<1>2. CASE \/ \E o \in Ops : Lookup(c, o)
           \/ \E new \in Configs : WriteConfig(c, new)
           \/ BeginShutdown(c)
  BY <1>2 DEF Lookup, WriteConfig, BeginShutdown
<1>3. CASE \/ ConfigWritten(c) \/ Relookup(c) \/ TryLock(c) \/ CloseStop(c)
           \/ Kill(c) \/ ReadDone(c) \/ Swap(c) \/ Unlock(c) \/ Cancel(c)
  BY <1>3 DEF ConfigWritten, Relookup, TryLock, CloseStop, Kill, ReadDone,
     Swap, Unlock, Cancel
<1>4. CASE DoneSeen(c)
  BY <1>4 DEF DoneSeen, AfterStop
<1>5. CASE WaitTimesOut(c)
  BY <1>5 DEF WaitTimesOut, AfterTimeout
<1>6. CASE Remove(c)
  BY <1>6 DEF Remove
<1> QED
  BY <1>2, <1>3, <1>4, <1>5, <1>6 DEF Call, Proceed

(* A call that answers without an error has seen everything end that was   *)
(* spawned up to the moment it read mp.done.                               *)
LEMMA EndedBefore ==
    ASSUME IInv, NEW d \in Callers, op[d] = "delete", result[d] = "ok",
           NEW g \in Gens, Live(g) \/ Alive(g)
    PROVE  g > waitGen[d]
<1>1. Live(g)
  BY DEF IInv, ChildInv, Live
<1>2. g = gen
  BY <1>1, LiveIsCurrent DEF IInv
<1>3. Done(waitGen[d]) /\ waitGen[d] \in Gens /\ waitGen[d] <= gen
  BY DEF IInv, WaitInv, TypeOK, SuperviseTypeOK, GenInv, Done, Gens
<1> QED
  BY <1>1, <1>2, <1>3 DEF Live, Done, Gens

(* Whatever overlaps a Delete and however its wait ends, what is left of   *)
(* the removed app, a goroutine or a child, was spawned after the Delete   *)
(* had read the done it waited for.                                        *)
THEOREM DeleteAloneHolds == Spec => []DeleteAloneLeavesNothing
<1>1. Init => DeleteInv
  BY DEF Init, DeleteInv
<1>2. IInv /\ DeleteInv /\ [Next]_vars => DeleteInv'
  <2> SUFFICES ASSUME IInv, DeleteInv, [Next]_vars PROVE DeleteInv'
    OBVIOUS
  <2>1. CASE UNCHANGED <<registry, calls>>
    BY <2>1 DEF DeleteInv, registry, calls
  <2>2. CASE \E c \in Callers : Call(c) \/ Proceed(c)
    BY <2>2, CallerDelete
  <2> QED
    BY <2>1, <2>2 DEF Next, Idle, SuperviseStep, vars
<1>3. IInv /\ DeleteInv => DeleteAloneLeavesNothing
  BY EndedBefore DEF DeleteInv, DeleteAloneLeavesNothing
<1> QED
  BY <1>1, <1>2, <1>3, Inductive, PTL DEF Spec

-----------------------------------------------------------------------------
(* The restart budget. *)

(* Every step of a supervise goroutine keeps within max_restarts: both      *)
(* failure paths compare the counter before they raise it, and no other    *)
(* step leaves a goroutine at rest with an app shown errored.              *)
LEMMA LoopBudget ==
    ASSUME IInv, RestartBudget, NEW g \in Gens, SuperviseStep(g)
    PROVE  RestartBudget'
<1>0. /\ TypeOK /\ UNCHANGED <<gen, stopCh, ctxDone>>
      /\ restarts \in Nat /\ RestartCap \in Nat /\ cfg.maxRestarts \in Nat
  BY BoundsAssumption
     DEF IInv, SuperviseStep, Supervise, TypeOK, SuperviseTypeOK, AppConfig
<1>1. \A h \in Gens : Live(h) => h = gen
  BY LiveIsCurrent DEF IInv
<1> USE <1>0 DEF RestartBudget, TypeOK, SuperviseTypeOK, Goto, Rest, Built,
       record, locals
<1>2. CASE UNCHANGED <<cfg, restarts, status, loop>>
  BY <1>2
<1>3. CASE /\ UNCHANGED cfg
           /\ restarts' \in {0, restarts}
           /\ Goto(g, loop'[g]) /\ Live(g)
           /\ loop'[g] \notin {"exit", "parked"} \/ status' # "errored"
                  \/ stopCh \/ ctxDone
  BY <1>1, <1>3 DEF Live
<1>4. CASE StartFails(g)
  <2>1. CASE cfg.autoRestart /\ ~Exhausted
    BY <1>1, <1>4, <2>1 DEF StartFails, Live, Exhausted, Bump
  <2>2. CASE ~(cfg.autoRestart /\ ~Exhausted)
    BY <1>1, <1>4, <2>2 DEF StartFails, Live, Exhausted
  <2> QED
    BY <2>1, <2>2
<1>5. CASE ExitNotRestarted(g)
  BY <1>5 DEF ExitNotRestarted
<1>6. CASE ExitExhausted(g)
  BY <1>1, <1>6 DEF ExitExhausted, Live, Exhausted
<1>7. CASE ExitRetried(g)
  BY <1>1, <1>7 DEF ExitRetried, Live, Exhausted, Bump
<1> HIDE DEF RestartBudget
<1>8. CASE Starting(g)
  BY <1>2, <1>3, <1>4, <1>8 DEF Starting, Live, DepsReady, DepsStopped,
     PreStart, HookEnds, OpenWatcher, TopStops, TopBuildsCmd, StartChild,
     Publish, Announce
<1>9. CASE Waiting(g)
  BY <1>2, <1>3, <1>5, <1>6, <1>7, <1>9 DEF Waiting, Live, HealthEvent,
     EventStop, EventRebuild
<1>10. CASE Ending(g)
  BY <1>2, <1>3, <1>10 DEF Ending, Live, GraceExpires, StopDone,
     RebuildReady, SkipBuild, BeginBuild, BuildSucceeds, BuildFails,
     ParkedStops, ParkedRebuilds, BackoffElapses, BackoffCancelled, Return
<1>11. CASE Environment(g)
  BY <1>2, <1>11 DEF Environment, ChildExits, Reap, CtxKills, FileChange
<1> QED
  BY <1>8, <1>9, <1>10, <1>11 DEF SuperviseStep, Supervise

(* A caller that does not replace the config keeps within it as well: only *)
(* a Restart touches the counter, once the goroutine has returned.         *)
LEMMA CallerBudget ==
    ASSUME IInv, RestartBudget, UNCHANGED cfg,
           NEW c \in Callers, Call(c) \/ Proceed(c)
    PROVE  RestartBudget'
<1>1. CASE Swap(c)
  <2>1. gen + 1 \in Gens /\ loop' = [loop EXCEPT ![gen + 1] = "deps"]
    BY <1>1, NextGen DEF Swap, Goto, IInv, TypeOK, SuperviseTypeOK
  <2>2. \A g \in Gens : loop[g] \notin {"exit", "parked"}
    BY <1>1, LiveIsCurrent DEF Swap, Step, IInv, WaitInv, Done, Live
  <2>3. restarts' = 0 /\ cfg.maxRestarts \in Nat
    BY <1>1 DEF Swap, IInv, TypeOK, SuperviseTypeOK, AppConfig
  <2> QED
    BY <2>1, <2>2, <2>3
    DEF RestartBudget, IInv, TypeOK, SuperviseTypeOK
<1>2. CASE /\ UNCHANGED <<restarts, status, loop>>
           /\ stopCh => stopCh'
           /\ ctxDone => ctxDone'
  BY <1>2 DEF RestartBudget
<1> QED
  BY <1>1, <1>2 DEF Call, Proceed, Lookup, WriteConfig, BeginShutdown,
     ConfigWritten, Relookup, TryLock, CloseStop, Kill, ReadDone, DoneSeen,
     WaitTimesOut, Unlock, Remove, Cancel, superviseVars, record, chans,
     locals

(* While its config stays the same an app is restarted max_restarts times  *)
(* in a row at most, and given up as errored only after all of them,       *)
(* whatever calls, builds and failing starts come in between.              *)
THEOREM RestartBudgetHolds ==
    Spec /\ [][UNCHANGED cfg]_vars => []RestartBudget
<1>1. Init => RestartBudget
  BY ConfigsAssumption DEF Init, SuperviseInit, RestartBudget, AppConfig
<1>2. IInv /\ RestartBudget /\ [Next]_vars /\ [UNCHANGED cfg]_vars
      => RestartBudget'
  <2> SUFFICES ASSUME IInv, RestartBudget, [Next]_vars, [UNCHANGED cfg]_vars
               PROVE  RestartBudget'
    OBVIOUS
  <2>1. CASE \E g \in Gens : SuperviseStep(g)
    BY <2>1, LoopBudget
  <2>2. CASE UNCHANGED vars
    BY <2>2
    DEF vars, superviseVars, record, chans, locals, RestartBudget
  <2>3. CASE \E c \in Callers : Call(c) \/ Proceed(c)
    BY <2>2, <2>3, CallerBudget
  <2> QED
    BY <2>1, <2>2, <2>3 DEF Next, Idle
<1> QED
  BY <1>1, <1>2, Inductive, PTL DEF Spec
=============================================================================
