# gopm in TLA+

`gopm` is a process manager. A CLI (`gopm`) talks over a local socket to a
daemon (`gopmd`), which keeps a registry of apps and, for each app, one
goroutine that starts, watches, rebuilds and restarts its child process. This
directory models the parts that run concurrently or must survive a failure,
checks them with TLC on small instances, and proves the most important
properties with TLAPS for all instances.

`PROJECT.json` is the machine-readable side: which lines each definition models,
which properties each run checks, a mutated definition for every property that
shows the property can fail, the hazards of the code, and the theorems. In file
references below, `supervisor.go` is `src/internal/supervisor/supervisor.go`,
and so on.

## 1. Inventory

| part | state | operations | what is hard | what makes it correct |
|---|---|---|---|---|
| supervise loop, `supervisor.go` 249-662 | where the goroutine stands; its child; `status`, `restarts`, `crashNotified`, `cmd` | dependency wait, `pre_start`, start, event wait, two-stage kill, build cycle, back-off | selects over several ready channels; a child that ignores SIGTERM, crashes, or cannot be started | one child at a time; a status that agrees with the child; the restart limit; a stop always ends it; a file change is always rebuilt |
| calls on a process, `supervisor.go` 84-245 | `stopCh`, `done`, `restartMu`, `Config` | Stop, Restart, StartApp on an existing name, Delete, Shutdown | they overlap, and read `cmd`, `done` and the registry before they use them; time-outs | no second goroutine or child; no signal to the wrong child; "ok" is the truth; every call returns |
| registry and persistence, `supervisor.go` 64-202, `state/store.go`, `cmd/gopmd/main.go` 70-80 | `procs`, `state.json` | StartApp, Delete, persist, Save, Load, restore loop | the configs are read one by one while StartApp writes them, and saved later; a Restart goes on after the answer; saves that fail; a crash anywhere | the file names the apps of one moment; these are the registered ones; an acknowledged start survives |
| daemon main and IPC server, `cmd/gopmd/main.go`, `ipc/server.go` | listener, WaitGroup, ctx, handlers | accept, handle, stream, Close, shutdown, signal | the shutdown request is answered by the daemon that it ends; streams hold the server | it exits unless a client stalls for good; the answer is sent; the ctx kills no child that Shutdown should have stopped |
| IPC client, `ipc/client.go`, `messages.go` | one connection | dial, send with a deadline, stream | hangs up at any time | only as the server's environment |
| RPC handlers, `supervisor/rpc.go` | none | dispatch, log stream, exec stream | a stream outlives its reader | streams end with the ctx |
| log files, `logger/logger.go` 38-145, 252-358 | `procs`, `file`, `logSize`, `names` on disk | ensure, SetLogFile, Attach, append, rotate, Detach | two scanners and a handler; a rotation of several renames cut short; a file that cannot be opened | no line lost, doubled or shuffled; a running app has its file unless it could not be opened |
| log ring, `logger/logger.go` 361-431 | `data`, `head`, `size` | add, tail, filtered tail | wrap-around, counts at and above the capacity | the last lines, in order |
| log subscriptions, `logger/logger.go` 137-145, 200-268, 308-328; `rpc.go` 138-168 | `procs`, `subs` of each log, `allSubs`, a channel per follower | Attach, append with two fan-outs, Subscribe, SubscribeAll, Unsubscribe, Detach, the handler | three locks for one line; a slow reader; a full channel; the log of a name replaced meanwhile | order per writer; a gap only when the own channel was full; no reader holds up a writer |
| file watcher, `watcher/watcher.go` | subscribed directories, timer, `stopCh`, `doneCh` | Start, addRecursive, debounce, Close | the tree changes while it is walked; the timer fires while it is reset; Close against Start; a signal outlives its watcher | no directory and no change forgotten; no new signal after Close |
| health checker, `healthcheck.go` | `current`, `failures`, a channel of four | poll, Stop | a check under way when it is stopped; a dropped change is never sent again | the status shown ends in the verdict on the present child |
| dependencies, `supervisor.go` 249-278 | the status of other apps | waitForDeps | it reads statuses that other goroutines change, one after the other; cycles | first starts follow the graph; a wait ends with its reason |
| CPU and memory stats, `stats/` | tracked pids, samples | Track, Untrack, sample | a pid untracked during a sample comes back | not modelled: displayed only |
| daemon launch, `gopm/main.go` 100-106, 170-183, 426-434, 851-873, `daemon/`, `ipc/server.go` 48-92 | the port, `state.json`, who runs which app | ping, spawn, Listen, restore, shutdown | several CLIs at once; a daemon that restores answers no ping yet; one that leaves has given its port away, still serves starts, and may leave an app running | daemons in service never run the same app; one of those spawned comes to serve |
| process signalling, `process/` | none | Kill, graceful or forced | - | in the model as the strongest signal a child got |
| web dashboard, config, the rest of the command line | none / a file / none | parse, render, forward | - | not modelled: no state of their own |

Interactions: the CLI and the dashboard send requests over the socket; a server
handler calls the supervisor; StartApp, Stop, Restart, Delete and Shutdown act
on a `ManagedProcess` under `mp.mu` and `restartMu` and talk to its supervise
goroutine only through `stopCh`, `done` and signals to the child. The file
watcher and the health checker talk to that goroutine through channels, the
scanners to the logger under `fileMu` and `l.mu`, and everything ends with two
contexts: the supervisor's (which kills the children) and the server's.

## 2. Modules

| module | models | extends |
|---|---|---|
| `Supervise` | one `ManagedProcess` and its supervise goroutine, child, watcher signal and probe | - |
| `Supervisor` | `Supervise` composed with concurrent callers of Stop, Restart, StartApp, Delete, Shutdown | `Supervise` |
| `AppSlot` | abstract: what the supervisor promises of one app, in four Booleans; `Supervisor` implements it (`ImplementsSlot`) | - |
| `SupervisorProofs` | the inductive invariant and the theorems about `Supervisor` | `Supervisor` |
| `Registry` | registry, `state.json`, crash and restore | - |
| `RegistryProofs` | theorems about `Registry` | `Registry` |
| `Daemon` | accept loop, handlers, clients, shutdown, the apps as far as shutdown reaches into them | - |
| `DaemonProofs` | theorems about `Daemon` | `Daemon` |
| `LogFile` | the log file of one name, with rotation and crashes | - |
| `LogFileProofs` | theorems about `LogFile` | `LogFile` |
| `Ring` | the ring buffer of the logger | - |
| `LogStream` | writers, logs, followers and their channels; the ring of the first log is that of `Ring`, which it implements | `Ring` |
| `LogStreamProofs` | theorems about `Ring` and `LogStream` | `LogStream` |
| `HealthCheck` | the checkers: one goroutine and channel for each child of a probed app | - |
| `Dependencies` | several apps that wait for each other, with their checkers and calls | `HealthCheck` |
| `DependenciesProofs` | theorems about `Dependencies` | `Dependencies` |
| `Launch` | CLIs, the daemons they spawn, the port and the state file | - |
| `LaunchProofs` | theorems about `Launch` | `Launch` |
| `Watcher` | the file watcher of one app | - |
| `WatcherProofs` | theorems about `Watcher` | `Watcher` |
| `MC...` | the constants of the runs | the module named |

### Supervise and Supervisor

Restart replaces `mp.stopCh` and `mp.done` and spawns a new goroutine. The
goroutines are therefore numbered by *generation*: `gen` is the generation of
the current channels, `loop[g]` the place of goroutine g (each value is a
stretch of `supervise` between two points where another goroutine can be seen),
`child[g]` and `sig[g]` the newest child of g and the strongest signal it got.
Nothing in the shape of the state forbids two live generations: that there is
one at most is the theorem `OneSupervisor`. `cmd` holds the generation whose
child `mp.cmd` last published, because a caller reads it under the lock
(`PublishedChild`) and signals it after the unlock (`Kill`). A caller passes
the places idle, (writing, relookup,) locking, closing, killing, awaiting,
waiting, swapping, unlocking, removing, cancelling, returned: one per point of
`Stop`, `Restart`, `StartApp`, `Delete` and `Shutdown` at which it holds no
lock. `ReadDone` is separate from `CloseStop` since `stopProcess` reads `mp.done`
after it let go of the lock. The write of `Config` in StartApp is a step of its
own with a torn value in between (`Torn`), because the loop reads it without a
lock: a data race, whose readings are a nondeterministic choice.

The select statements are disjunctions of actions with no priority, as in Go.
Outcomes outside gopm (a child exits, a build fails, a health check turns) may
come at any time.

*AppSlot.* The slot of an app is empty or holds a child, and has a keeper or
none. The mapping: `up` is "a child of any generation lives" (`Occupied`),
`kept` that the current generation is not done, `asked` is `stopCh`, `shown` is
`ShownOn`. Two hundred lines of goroutine and callers then show as six actions:
nobody but the keeper fills or empties the slot, it leaves only an empty one,
and it is replaced only after it left and a stop was asked for. That the
implementation has a *single* keeper is what a refinement adds to the
invariants: a second goroutine would fill a slot that is not its own.

### Registry

A process is a number; what happens inside is `Supervisor`'s matter, and so is a
Restart on request. `persist` holds `s.mu`, which keeps the names as they are, and
reads the configs one after the other (`Snapshot`, `ReadConfig`, `Collected`),
while a StartApp on a known name copies a new config over the old one under
`mp.mu`, which `persist` does not take (`ReplaceConfig`): what it reads is old, new
or `Mixed`. That StartApp then answers and leaves a `go s.Restart(name)` behind
(`ConfigReplaced`), which is an actor of its own (`RestartLookup`, `RestartEnds`). A
save is one step, because `Store.Save` writes a temporary file and renames it; it
may fail. `Crash` empties the memory, and the next daemon loads the file and
starts what it names, one app at a time, each with a `persist` of its own.

`orderly` is a history variable: so far calls came one at a time, all saves
succeeded and no crash cut a restore short. Several properties hold only then;
without it they fail: of two concurrent requests the one with the older snapshot
may save last (`AckedIsDurable` is not an invariant, `OrderlyAckedIsDurable` is).
`settled` is another: no Delete began while such a left-behind Restart of its app
was under way.

### Daemon

The main goroutine, the accept loop (`Accept` and `Track` are two steps: Close
may come between them), one handler per connection, clients that may hang up,
and each app as a supervise goroutine with its child. The server's ctx is
cancelled by the shutdown handler from a goroutine of its own, which races the
answer, or by a signal. Shutdown takes its list (`listed`) and goes through it app
by app (`StopApp`, `AppStopped`); it gives up on a goroutine that is `Late`, which is
one that waits for its dependencies, runs a hook or has not been spawned yet, and
nobody looks at that error. Restarts are served meanwhile and may start a listed
app anew. A stream writes to a client that may have stopped reading
(`StreamBlocks`), without a deadline.

### LogFile, Ring, Watcher

`LogFile` keeps names and files apart, as a rename does not touch an open
handle; every rename of `rotate` is a step, and the daemon may die before each.
Both ways to open a file may fail (`SetLogFileFails`, `OpenFails`).
`Ring` is `ringBuffer` with its modulo arithmetic. In `Watcher` the walk
subscribes a directory in one step and reads it in a later one, while
directories are made and removed; an event says which directory it created, if
any, and whether it passes the extension and ignore filters; the timer is off,
armed or has fired with its value unread in the channel. `rebuildCh` belongs to the
process: what is in it after Close is taken by the next loop (`Rebuild`). `dirty` is a history
variable: a source in a *watched* directory changed since the last rebuild
began.

### LogStream

`append` takes three locks one after the other, so a line is a step into the
ring (`AddLine`), one to the followers of the app (`FanApp`) and one to those of
all apps (`FanAll`); anything may happen between. A procLog is a number,
`mapped` the one under the name. A scanner keeps the procLog that Attach found,
`Logger.Write` looks it up for every line, a handler subscribes to the one it
finds, and its deferred Unsubscribe goes by name again: after Detach it may find
another. A line is its writer and a number, which is what order is about.
`dropped` and `joined` are history variables: who lost a line to a full channel,
and what had been written when a follower came.

### HealthCheck and Dependencies

A checker belongs to a child: `Own(a)` is the checker of the newest. Stop closes
`stopCh` only, and a check under way ends after it; its verdict goes to a
channel that nobody reads any more. The goroutine of an app is cut down in
`Dependencies` to the steps that change its status or read another's; where
`Supervise` says more about a step, the comment does. A rebuild is left out: it
changes no first start, and ends in an announcement like any other. `Poll` looks
at one dependency, as `waitForDeps` does, which takes `s.mu` and the other app's
lock for each.

### Launch

A daemon is spawned, bound, serving, leaving and gone, or a spare that found the
port taken, or killed. A daemon that restores its apps is bound and answers no
ping (`Serve` begins after the loop). A ping that is too slow is
one that fails. `CloseListener` is a step of its own, because `Serve` closes the
listener as soon as the ctx ends, while main may still be in `Shutdown`. Handlers
go on until main returns: a CLI dials (`Dial`) and is served later, by a daemon
that may be leaving by then (`SendStart`), or is cut off. `Exit` waits for no app:
Shutdown ignores that it gave up on one, and an app started meanwhile is not on
its list, so `runs` may be left behind as after a `Crash`. What the restore does one
app at a time is in `Registry`, what the shutdown waits for in `Daemon`.

## 3. Runs

| run | question | distinct states, time |
|---|---|---|
| `supervisor_calls` | two concurrent calls of any kind on a watched app: safety, the refinement of `AppSlot`, and the invariant of the proofs | 3.4 million, 2 min |
| `supervisor_lifecycle` | one call against an app of each kind: restart limit, stop ends the loop, rebuild is served | 75 000, 2 min |
| `live_calls` | two calls return, though no supervise goroutine need run | 123 000, 20 s |
| `registry` | two clients, two apps, two configs, Restarts left behind, failing saves, one crash anywhere | 1.7 million, 1 min |
| `daemon` | two connections of any kind, shutdown by request or by signal, apps it gives up on: who is answered, what the ctx kills, and that the daemon comes to its end | 150 000, 70 s |
| `logfile` | two scanners, a delete and start, files that do not open, 0 to 3 backups, two crashes | 350 000, 10 s |
| `logs` | a scanner and a reporter, a follower of the app and one of all, one slot each, a Detach, a ring that wraps | 300 000, 30 s |
| `dependencies` | two apps, three graphs (a chain, a cycle, a name nobody starts), a health check, two children | 920 000, 2.5 min |
| `launch` | three CLIs, three daemons, signals, a crash, apps left running | 1 million, 2 min |
| `watcher` | a changing tree of five directories | 1.2 million, 30 s |
| `doc_stop_crash`, `doc_one_daemon` | a sentence of the documentation that the code does not keep | seconds |

What they show:

* `OneSupervisor`, `OneChild`: no interleaving of two calls gives an app two
  goroutines or two children. `restartMu.TryLock` is what makes it so.
* `StatusTellsChild`: an app shown stopped, errored, building or build_failed
  has no child, also when the child ignored SIGTERM.
* `OkMeansReaped`: a nil error from Stop, Restart or Delete was preceded by the
  reaping of the child it stopped. A Restart that is dropped because another is in
  flight also answers nil, and is not spoken of.
* `NoStraySignal`: a signal only reaches a child whose generation was told to
  stop, that is being rebuilt, or after the ctx was cancelled: the stale
  `mp.cmd` of a slow caller never hits its successor.
* `RestartBudget`: `max_restarts` is kept on the crash path and on the
  cannot-start path, with their different orders of compare and count. A caller
  that puts another config in place meanwhile may lower the limit under a counter
  that has passed it, so the lifecycle run has every call but StartApp.
* `StopLeadsToDone`: a goroutine that is told to stop returns, unless the daemon
  is on its way out. `RebuildIsServed`: a pending rebuild is taken, or the app is
  stopped or gives up, or its child can never be started again: an app without
  `max_restarts` is then tried for ever without a look at `rebuildCh`
  (`supervisor.go:360-381`). `CallersReturn`: section 5.
* `DeleteAloneLeavesNothing`: once an app is removed, some Delete has answered nil,
  and a goroutine or a child that still lives is of a generation spawned after the
  one that this Delete saw end: only a Restart that overlapped it can have done
  that, as one from before would have been replaced or waited for.
* `ImplementsSlot`: the refinement of `AppSlot`.
* `DiskNamesOneMoment`: `state.json` always names the apps that were registered at
  some one moment, each with a config it had while these were the names. The
  configs may be of different moments, and one that was read while StartApp wrote
  it may be of none.
* `IdleDiskNamesApps`, `OrderlyAckedIsDurable`: in orderly use the names are those
  of the present moment, and a crash forgets and revives no app.
  `OnlyRegisteredAlive`: nor does a process run that is not registered, if every
  Delete found the Restart ended that an earlier StartApp of the app left behind.
* `ShutdownIsAnswered`: the client that asked for the end is answered before it.
  `StopBeforeCtx`: when the ctx is cancelled no app on Shutdown's list has a child
  or will have one, not even one that Shutdown gave up on, unless a Restart in
  flight started it anew. `DaemonExits`: a shutdown or a signal ends the daemon,
  although hooks may never end, unless a client stalls for good.
* `KeptIsLastLines`, `EnoughIsKept`: the files of a log hold its last lines, and
  enough of them. `RunningAppHasItsFile`: a running app without its file is one
  whose file could not be opened, by SetLogFile or by rotate.
* `TailIsLastLines`, `FilteredIsLastPassing`: the ring's tails, filter first and
  limit second, at every moment of concurrent appends.
* `StreamKeepsOrder`: a follower reads the lines of a writer in order and none
  twice. Across writers nothing is promised: the ring and two followers may show
  the lines of stdout and stderr in three different orders.
* `GapsOnlyWhenFull`: whoever missed a line had a full channel himself, whatever
  others did, and even when the app was detached meanwhile.
* `AppendNeverBlocks`: an append ends although no handler ever runs.
* `StatusFollowsChecker`: status and verdicts under way end in the verdict of
  the checker of the present child, never of an earlier one, unless a change was
  dropped at a full channel. `FirstStartsFollowDeps`: no app starts for the first
  time before each of its dependencies has run. `WaitsEnd`: a wait ends when the
  dependencies are up and stay up, or the app is stopped.
* `SparesStartNothing`: of two daemons that run the same app one is on its way out
  or gone. `SpawnedServes`: of daemons that were spawned one comes to serve, unless
  one more leaves or dies meanwhile, whatever earlier ones left behind. The
  exception is a daemon that is leaving and has not closed its listener yet: a
  new one gives way to it, and nobody serves.
* `NoDirForgotten`, `NoChangeForgotten`: the watcher forgets nothing.
  `QuietAfterClose`: after Close it signals nothing new; the signal that was in the
  slot by then costs the next loop one rebuild.

`TypeOK`, `RegistryTypeOK`, `LogTypeOK`, ... are the type invariants. All of them
are proved; those of `Daemon`, `LogFile` and `Watcher` also appear in a run,
because they say more than types (who holds `fileMu`, what Shutdown found
registered). `RegistryInv` and `IInv` are inductive invariants of the proofs,
checked so that TLC refutes a wrong one before anyone tries to prove it.

### Where the code and its documentation differ

| run | what is written | what happens |
|---|---|---|
| `doc_stop_crash` | `docs/SOLUTION_ARCHITECTURE.md:389-391`: stopCh keeps manual stops from being treated as crashes | when the child dies of Stop's signal, both arms of `waitEvent` are ready, and the exit arm counts or notifies a crash |
| `doc_one_daemon` | `docs/SOLUTION_ARCHITECTURE.md:77-79`: one daemon is the single writer of process lifecycle state | a daemon that shuts down closes its port first (`server.go:71-74`) and then waits for its apps; the next `gopm start` spawns another, which restores the same apps beside it |

Other departures seen while modelling; each is a behaviour of the models, and
none has a run of its own:

* a Restart that is dropped because another is in flight may leave the app with
  the old config, although the comment at `supervisor.go:166-167` expects the one
  in flight to use the new: that one holds `restartMu` until after its goroutine
  may have built the command (`:168`, `:183`);
* a Restart that looked the app up before a Delete starts it again after the
  removal, out of reach of every command (`:183`);
* of two concurrent persists the older snapshot may be saved last, and an app
  whose start was acknowledged is missing from `state.json` until the next (`:77`);
* a dead app is shown online during its back-off, and for good when a stop ends
  that, which returns without a `setStatus` (`:531`): dependents are let go
  meanwhile (`:262`);
* a follower of an app that is deleted and started again goes on listening to
  the old log and hears nothing of the new child (`logger.go:201`, `:223`);
* a handler in flight in a daemon that leaves may persist after the next daemon
  has begun to write `state.json` (`ipc/server.go:71`, `supervisor.go:144`);
* a Stop overtaken by a Restart reads the new `done` and waits for a goroutine
  nobody stopped (`:240`);
* an app whose start attempts are exhausted is errored without the webhook
  (`:363`);
* an app registered after Shutdown took its list is never told to stop, a
  Restart in flight starts a listed one anew, and Shutdown ignores that it gave
  up on one after thirty seconds (`:91`, `:98`, `:105`). Only the cancelled ctx can
  kill what is left, from a goroutine nobody waits for: a child may outlive the
  daemon;
* a start of an app that is registered answers before its `go s.Restart(name)`
  has begun; a Delete sent after the answer may overtake it, and the app runs
  without being registered (`:114`);
* Delete removes by name what it looked up up to thirty seconds before (`:197`),
  and `Detach` may close the log file of the app that took the name since
  (`logger.go:256`);
* `persist` may copy a config while StartApp writes it, which gives one that never
  was, and reads the configs one after the other, which gives two of different
  moments (`:70-75`, `:111-113`); a replaced config is not persisted (`:107`);
* a log file that cannot be opened is logged, and the app runs without it (`:139`,
  `logger.go:109-116`);
* where `log_max_backups` was lowered and is raised again, old backups beyond the
  lower limit come back as the tail of the log (`logger.go:129`);
* a change signalled just before a Restart costs the new child a rebuild at once,
  for `rebuildCh` outlives the loop (`:177-183`);
* an app without `max_restarts` that cannot be started is tried again for ever,
  and the change that would repair it is not rebuilt (`:360-381`);
* a client of `logs -f` or `exec` that stops reading and does not close holds the
  daemon, which cannot exit (`rpc.go:163`);
* a gopmd spawned between the cancelled ctx and the closed listener of the one
  before finds the port taken and gives up: nobody serves
  (`cmd/gopmd/main.go:64`);
* a crash in the restore loop forgets the apps not restored yet
  (`cmd/gopmd/main.go:76`);
* Close may return between Accept and `wg.Add` (`server.go:86`);
* a file written into a new directory before the watcher subscribed it raises
  no event (`watcher.go:135`).

## 4. Bounds, and why they are enough

* Two callers (`Pair`): the races are between a call and the goroutine, or
  between two calls; the state a third could meet (restartMu taken, done closed,
  removed from the registry) is one that two produce. The proofs are for any
  number. Where symmetry is used, for safety only, callers or apps are told
  apart by nothing but their names.
* `MaxGen` 2 allows two Restarts one after the other, so a caller can be late by
  two generations; 1 suffices where there is one caller.
* `RestartCap`: the counter saturates there. It is only compared with
  `max_restarts`, and an assumption (`BoundsAssumption`) makes the cap no less,
  so saturation changes no decision. The lifecycle run uses 3 with limits of 0,
  1 and 2.
* `EveryConfig` has each branch of the loop once: health, watch with build
  (`Hooked`, `Rebuilt`) and without (`Tireless`, which is restarted without end),
  hooks, a dependency, one-shot, limited and unlimited restarts.
* `registry`: two apps and two configs of each, so that a snapshot may hold an old
  one of the first and a new one of the second. `MaxProcs` 3: one for each name and
  one that a Restart left running; a slot is free again when no name, thread or
  Restart refers to its process. `MaxCalls` 4 is two starts, a replacing start and
  a Delete, in any overlap of two clients. `MaxCrashes` 1 with a restore after it,
  in which a crash is possible as well; two for the log file, whose damage adds up.
* `daemon`: a client may start an app named after it, and a restart is of any app
  there is. Two connections are a shutdown and a start, restart or stream beside
  it, or a start and a restart of the same app before a signal. No app is restored:
  one that a client started is told apart from a restored one by nothing once it
  runs. The proofs are for any set of restored apps.
* `MaxBytes` 2, up to 3 backups and nine lines: full rotations through all names
  and back; `MaxLogs` 3 and `MaxFiles` 5 allow two re-creations of the entry.
* `logs`: a ring of two and up to three lines in it, so that the head wraps;
  counts run from -1 to two above the capacity. A channel of one slot is full
  after one line; two lines of one writer and one of another are what order and
  a gap take. `MaxLogs` 2 is a log and the one after a Detach. The proofs are for
  any number of each.
* `dependencies`: the two apps are each other's dependency in one graph, and
  `ghost` is never started. Two failed checks make an app unhealthy; a channel
  with one slot is full at the second change. The second child of `db` is there
  to meet the checker of the first.
* `launch`: two CLIs may spawn a daemon each and a third one may shut down, start
  an app in one that leaves, or spawn a third; one daemon may be killed. So two
  may go before the last one is spawned.
* `MaxQueue` 3 events, five directories: nested new directories, one ignored,
  one that fsnotify refuses. With a full queue the files wait (the kernel's
  overflow is not modelled).

Deadlock is checked except in `logfile`, `logs`, `watcher`, `registry` and the
two runs of `Launch`, which run into their bounds (no more lines, watcher
closed, no more requests, every CLI has returned).

## 5. Fairness

* WF on every step of a goroutine that waits for nothing outside gopm, and on
  timers (`Runnable`, `CallersRun`, `Serve`, ...): the Go scheduler runs every
  runnable goroutine.
* SF on the select arms that may be ready time and again together with others
  (`EventRebuild`, `ParkedRebuilds`, `ParkedStops`): Go picks uniformly
  among ready arms. In `Daemon` SF is on a whole `Handler`, for the same reason: the
  select of a log stream, whose client may hold it up and let it go again and
  again. Its other steps wait for nothing, or for what stays once it is there.
* `KillsWork`: a child that gets SIGKILL exits. Nothing is assumed of the goroutine
  by which `exec.CommandContext` kills on a cancelled ctx (`CtxKills`): main returns
  right after the cancel and waits for none, so `StopLeadsToDone` promises nothing
  then.
* `HooksTerminate`: an assumption on the *user's* commands: `pre_start` and
  `build_cmd` end. The code sets them no time-out. `CallersReturn` is
  checked without it, under `CallerSpec`, which does not even assume that the
  supervise goroutines run.
* `LogStream`: WF on the two fan-outs of a writer, nothing on handlers and
  clients, which is the point of `AppendNeverBlocks`.
* `Dependencies`: WF on the polling of a goroutine that waits; SF on its arm for
  `stopCh`, which is ready together with nothing until the half second is over.
  Nothing on apps, checks and calls.
* `Launch`: WF on a daemon's way up, nothing on its way down.
* In `Daemon`: nothing on clients. A stream's reader may stop reading for ever, and
  `DaemonExits` excepts just that; every other answer fits the socket's buffer, so
  its handler does not wait for a reader. A goroutine that is not `Late` ends
  before Shutdown gives up on it: half a minute is longer than the five seconds
  of grace and the kill.
* Nothing makes an app's child die by itself or a file change happen.

## 6. Proofs

| theorem | statement |
|---|---|
| `Inductive`, `TypeCorrect` | `IInv` and `TypeOK` are invariants of `Supervisor` |
| `OneSupervisorHolds`, `OneChildHolds`, `StatusTellsChildHolds`, `OkMeansReapedHolds` | the four safety invariants |
| `NoStraySignalHolds` | the action property |
| `DeleteAloneHolds` | of a deleted app nothing is left, neither goroutine nor child, but what came after the generation its Delete saw end |
| `ImplementsSlotHolds` | `Supervisor` implements `AppSlot` |
| `RestartBudgetHolds` | the restart limit is kept while the config stays |
| `RegistryInductive`, `DiskNamesOneMomentHolds` | the file names the apps of one moment, each with a config it had then |
| `OrderInductive`, `IdleDiskNamesAppsHolds`, `OrderlyAckedHolds`, `OnlyRegisteredAliveHolds` | in orderly use the file names the registered apps, no acknowledged start is lost, and only what is registered runs |
| `DaemonInductive`, `DaemonTypeCorrect`, `ShutdownIsAnsweredHolds`, `StopBeforeCtxHolds` | who asked for the shutdown is answered; no listed app has a child when the ctx is cancelled, or gets one, unless a Restart in flight started it anew |
| `LogFileTypeCorrect` | types and the lock of a log, for any number of handlers |
| `RunningAppHasItsFileHolds`, `KeptIsLastLinesHolds`, `EnoughIsKeptHolds` | with one handler: a running app has its file unless it could not be opened; the files hold the last lines, and enough of them |
| `WatcherInductive`, `WatcherTypeCorrect`, `NoDirForgottenHolds`, `NoChangeForgottenHolds`, `QuietAfterCloseHolds` | the four invariants of the watcher |
| `RingInductive`, `TailIsLastLinesHolds`, `FilteredIsLastPassingHolds` | the ring's tails are right for every capacity |
| `LogInductive`, `LogTypeCorrect`, `StreamKeepsOrderHolds` | followers read the lines of a writer in order |
| `GapsInductive`, `GapsOnlyWhenFullHolds` | they miss one only when their own channel was full |
| `LogImplementsRing`, `LogTailHolds` | `LogStream` implements `Ring`, so its tails are right |
| `DependenciesInductive`, `DependenciesTypeCorrect`, `StatusFollowsCheckerHolds`, `FirstStartsHolds` | the status is the checker's; first starts follow every graph |
| `LaunchInductive`, `LaunchTypeCorrect`, `SparesStartNothingHolds` | no two daemons run the same app unless one of them is on its way out or gone |

They hold for every number of callers, generations, apps, configs, crashes,
connections, directories, backups and every capacity, from the assumptions named
in the modules: `ConfigsAssumption`, `BoundsAssumption`, `NoCmdAssumption`,
`OpsAssumption`, `RegistryAssumption`, `DaemonAssumption`, `LogFileAssumption`,
`RingAssumption`, `LogStreamAssumption`, `HealthAssumption`,
`DependenciesAssumption`, `LaunchAssumption`, `WatcherAssumption`. Two theorems say
what else they need, because the code does not give it:

* `RestartBudgetHolds` is about behaviours that leave `cfg` alone
  (`[][UNCHANGED cfg]_vars`). StartApp on an existing name may write a lower limit
  under a counter that has passed it;
* the three theorems about the files of a log assume `SingleHandler`. Two
  overlapping requests of one name break them: a Delete that has left `s.mu`
  detaches by name the log of a StartApp that came since (`logger.go:256`). With
  a second handler in `logfile.cfg` TLC refutes each of the three in seconds.
  Scanners and rotations run beside that handler in any number.

*Supervisor.* None of the invariants is inductive alone: that a Restart spawns
no second goroutine depends on `done` being closed at `swapping`, this on the
generation it waited for being the current one, and this on no other Restart
having swapped, hence on `restartMu`. `IInv` says all of it at once:

* `GenInv`: generations above `gen` are unborn, those below have ended;
* `ChildInv`: a child lives only while its goroutine is at a place that owns it;
* `StatusInv`: the status the current goroutine has set by then;
* `LockInv`: a caller inside Restart holds `restartMu`;
* `WaitInv`: a Restart waits for the current generation, and finds it done when
  it swaps; an "ok" has seen `done`;
* `KillInv`: a caller's target is the current generation only if `stopCh` is
  closed.

`LoopInv` takes one step per action of the goroutine and `CallerInv` one per
action of a caller, above `LoopType` and `CallerType` for the types.
`ImplementsSlot` maps the initial state, and each step under `IInv`, to a step
of `AppSlot` or to a stutter; `Occupied` changes only by a step of the current
goroutine or its child because older generations have no child (`GenInv`,
`ChildInv`). `NoStraySignal` then follows from `IInv` action by action (`LoopSignals`,
`CallerSignals`).

`RestartBudget` needs two things of `IInv`: there is one live goroutine, and a
Restart resets the counter when that one has returned. `LoopBudget` then goes
through the goroutine's steps, of which the two failure paths compare before they
count, and `CallerBudget` through those of the callers.

`DeleteInv` carries `DeleteAloneLeavesNothing`: whoever has removed the app holds
an "ok" for a generation that ended (`EndedBefore`), and what lives is younger.

*Registry.* `DiskNamesOneMoment` needs the same of what a thread is about to save
and, as far as it was read, of what it collects: while it holds `s.mu` the names do
not change, so each config it reads is of a moment with these names (`SnapInv`,
over `unread`). A thread acts on a real process (`ThreadInv`), and no two names
share one (`NameInv`): a config written under one name would otherwise show under
another. Lemmas say what registering, replacing and removing do to the registry
as a function; the steps cite them.

What holds in orderly use only is in `OrderInv`: one call is under way at most, it
acts on the process that its name still has (`CallInv`), what is alive is
registered while `settled` stands (`SettledInv`), the file names the
registered apps until the call changes the registry and its snapshot does from
then on (`FileInv`), and what was acknowledged is registered or waits in the
restore loop (`AckedInv`). The restore loop is the hard part: the file names apps
that the registry lacks, so `FileInv` has a second branch for the moment after
the load, and `AckedInv` counts what has still to be restored. `DaemonInv` (a
daemon that is down remembers nothing) and `DeletedInv` (a name being deleted is
not acknowledged) hold in any use. `StepKinds` sorts the steps by what they change,
so that each part of the invariant looks at the few that can disturb it.

*Daemon.* `AnswerInv` ties the cancelled ctx to its cause: unless a signal did it,
a handler has a shutdown request and its answer is written or still to be
written, and once Close is through it is written, since the WaitGroup counts
that handler. `StopInv` follows main through the list that Shutdown took: an app it has
gone past is gone, or is `Late` with a closed `stopCh` and will have no child, or was
started anew. The
first attempt was not inductive: nothing said that a connection in the hand of
the accept loop has no handler yet, so `Track` could have sent one back to its
first place after it had answered (`StartInv`).

*LogFile.* A procLog may believe one size while its file has another, a name may
have lost its file to a crash, and a rotation is a row of renames. `FileInv` says
which handle is whose (`LiveInv`, `HandleInv`, `EntryInv`) and that no file has two
names (`NamesInv`), whatever stage a rotation is at (`ShiftInv`). `LinesInv` then
gives every backup s a *mark* b[s], such that the file of s holds exactly the
lines after b[s+1] up to b[s]: a rename moves a mark, an append raises the
first, opening an empty file adds one that equals its neighbour. So the files in
order hold a stretch of the lines that ends with the last (`KeptIsLastLines`).
`FreshInv`: only
`SetLogFile` gives a log its limit, so one without a limit never had a file.
`HolesInv` counts the names without a file: each crash leaves one at most, the one
that the rotation under way is filling (`InFlight`) comes free, and every backup
there is is full (`EnoughIsKept`). The marks are put together and the full
backups added up by induction over the number of backups. The induction theorems of
the library cannot be instantiated, so these proofs take the least number for
which the statement fails, which `Least` gets from well-foundedness, and show
that there is a smaller one (`MarksRise`, `FlattenBlocks`, `FullBackups`).

*Watcher.* `WInv` is the type invariant, the two properties and `PlaceInv`: an
event that is walked for is pending during the walk only, and a Close that has
returned saw Start return. `NoDirForgotten` holds because a directory is
subscribed before it is read: whatever appears in it later is in the queue. A
lemma per actor (files, walk, event loop, timer, Close) rests on what appending
and taking an event do to the queue (`Appended`, `Taken`, `HappensStep`).
`QuietAfterClose` is about steps: in a state where Close has returned, no action
that signals is enabled.

*LogStream.* `ReachedInv` is the key: no follower has more of a writer than
`Reached`, the last line that the two loops may have sent it. It makes the next
line a line further in `StreamTakes`, whoever's fan-out it is. `GapInv` is its
converse, for those that dropped nothing: all up to `Reached` is in the stream;
it needs that a handler is on the list it subscribed to (`SubsInv`), on whatever
procLog that is. Each step of a handler moves a line along channel, hand and
connection and leaves their concatenation as it was (`TakeLineStream`,
`EncodedStream`). `LogImplementsRing` then carries the theorems of `Ring` over.

*Dependencies.* `DInv` says of a goroutine that polls that everything before
`next` has run (`born` never falls), hence of one past its wait that all has; and
of one that waits on a child what `StatusFollowsChecker` says. `CheckerInv` is what
that takes: the checker of a child that is not announced yet has done nothing,
and that of the child waited on has not been stopped.

*Launch.* `LInv`: a daemon that is bound or serves holds the port, there is one
port, a daemon with apps serves, leaves, or is gone, and a request that was sent
has a daemon at its other end.

*Ring.* `RingInv` says that the i-th newest line is in `Slot(i)`. The lemmas about
`%` give the slot after a wrap. No induction over data is needed here: the
history `added` grows by one line per step.

Model-checked only: liveness (`StopLeadsToDone`, `RebuildIsServed`,
`CallersReturn`, `DaemonExits`, `AppendNeverBlocks`, `WaitsEnd`,
`SpawnedServes`), since fairness and ENABLED are out of the proof system's reach,
and the two runs that show a violation. Every invariant and every action property
of a run is a theorem.

## 7. Not modelled, and why

* Argument parsing, rendering, the dashboard, config loading and the message
  types are conversions without state; a command that is not named in section 1
  sends one request and prints the answer.
* CPU and memory stats end in two displayed numbers. Nothing in the control
  depends on them; reading `/proc` is I/O. The window in which a sample puts an
  untracked pid back (`stats.go:84`) costs two map entries.
* Path strings, glob and prefix matching and the contents of log lines are
  abstracted to the outcomes the control flow tells apart.
* exec's child process, process groups, detaching a daemon, and which orphan
  survives its pipes belong to the operating system.
* In `Watcher`, renamed directories and the kernel's overflow; in `LogFile`,
  renames that fail, an app without a log file, and a `log_max_backups` that
  changes from one start of an app to the next (`logger.go:129`): it is a constant
  of each behaviour, and `KeptIsLastLines` is claimed for no other use; in
  `Dependencies`, rebuilds; in `Launch`, the port taken by another program, for
  which gopm has no answer but its error, a gopmd started by hand, which is one
  more spawned daemon, and what becomes of the apps that a daemon left running.

## 8. Plan

Done, in the order of importance: the supervise loop with its callers and the
abstract slot it implements, the registry with crash and restore, the ring and
the streams over it, the daemon's life, the log files, the watcher, health
checks and dependencies, the launch of daemons; and the proofs of all their
safety properties. What is left:

1. A registry of atomic operations, which `Registry` implements in orderly use:
   the file and the memory change together.
2. What remains true of the log file when handlers overlap.
3. An abstract log, a sequence that loses only a prefix, implemented by `LogFile`
   through its marks.
