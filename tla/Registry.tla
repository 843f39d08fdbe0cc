------------------------------- MODULE Registry -------------------------------
(***************************************************************************)
(* The supervisor's registry and its file: StartApp and Delete by name,    *)
(* the Restart that a StartApp on a known name leaves behind, persist and  *)
(* Store.Save, a crash of the daemon at any moment, and the restore loop   *)
(* of the next daemon (internal/supervisor, internal/state, cmd/gopmd).  A *)
(* process is a number here: what happens inside one is module             *)
(* Supervisor's, and so is what a Restart on request does.                 *)
(***************************************************************************)
EXTENDS Integers

CONSTANTS
    Apps,          \* app names
    Configs,       \* their configs
    Clients,       \* the handler goroutines of concurrent requests
    Main,          \* the daemon's main goroutine, which restores
    Absent,        \* no config: the app is not in the registry, or the file
    Mixed,         \* a config read while another is copied over it
    MaxProcs,      \* bound: ManagedProcesses that exist at one time
    MaxCrashes,    \* bound: crashes
    MaxCalls,      \* bound: requests
    RestoreCrash,  \* whether a crash may hit the restore loop
    DiskFails      \* whether a save may fail

ASSUME RegistryAssumption ==
    /\ Absent \notin Configs /\ Mixed \notin Configs /\ Mixed # Absent
    /\ Main \notin Clients
    /\ MaxProcs \in Nat /\ MaxCrashes \in Nat /\ MaxCalls \in Nat
    /\ RestoreCrash \in BOOLEAN /\ DiskFails \in BOOLEAN

Threads == Clients \cup {Main}
Procs == 1..MaxProcs
None == 0
Readings == Configs \cup {Mixed}
Registries == [Apps -> Readings \cup {Absent}]
Empty == [a \in Apps |-> Absent]

VARIABLES
    up,        \* whether a daemon runs
    crashes,   \* how many have crashed
    calls,     \* how many requests were made
    procs,     \* s.procs: the process of each name, or None
    conf,      \* mp.Config of each process, as a reader finds it
    alive,     \* the processes that have a supervise goroutine
    pending,   \* the names that a `go s.Restart(name)` has still to look up
    restarts,  \* the processes whose restartMu such a Restart holds
    unread,    \* the names that the persist that holds s.mu has not read yet
    disk,      \* state.json
    toRestore, \* what the restore loop still has to start
    pc,        \* where each thread stands
    app,       \* the name it acts on
    held,      \* the process it registered or looked up
    snap,      \* the configs it has read, and is about to save
    past,      \* history: what was in memory, moment by moment
    acked,     \* history: apps whose start was acknowledged and stands
    orderly,   \* history: one call at a time, every save done, every
               \* restore loop run to its end
    settled    \* history: no Delete began while a Restart of its app, left
               \* behind by a StartApp that had answered, was under way

mem == <<procs, conf, alive, pending, restarts>>
threads == <<pc, app, held, snap, unread>>
history == <<past, acked, orderly, settled>>
vars == <<up, crashes, calls, mem, disk, toRestore, threads, history>>

ThreadPlaces == {"idle", "spawn", "found", "replace", "stop", "remove",
                 "snapshot", "collect", "save"}

(* What s.procs holds at one moment. *)
InMemory == [a \in Apps |-> IF procs[a] = None THEN Absent ELSE conf[procs[a]]]

RegistryTypeOK ==
    /\ up \in BOOLEAN
    /\ crashes \in 0..MaxCrashes /\ calls \in 0..MaxCalls
    /\ procs \in [Apps -> 0..MaxProcs]
    /\ conf \in [Procs -> Readings \cup {Absent}]
    /\ alive \cup restarts \subseteq Procs
    /\ pending \cup unread \subseteq Apps
    /\ disk \in Registries
    /\ toRestore \in Registries
    /\ pc \in [Threads -> ThreadPlaces]
    /\ app \in [Threads -> Apps \cup {Absent}]
    /\ held \in [Threads -> 0..MaxProcs]
    /\ snap \in [Threads -> Registries]
    /\ past \subseteq Registries
    /\ acked \subseteq Apps
    /\ {orderly, settled} \subseteq BOOLEAN

Init ==
    /\ up = TRUE
    /\ crashes = 0 /\ calls = 0
    /\ procs = [a \in Apps |-> None]
    /\ conf = [p \in Procs |-> Absent]
    /\ alive = {} /\ pending = {} /\ restarts = {}
    /\ disk = Empty
    /\ toRestore = Empty
    /\ pc = [t \in Threads |-> "idle"]
    /\ app = [t \in Threads |-> Absent]
    /\ held = [t \in Threads |-> None]
    /\ snap = [t \in Threads |-> Empty]
    /\ unread = {}
    /\ past = {Empty}
    /\ acked = {}
    /\ orderly = TRUE /\ settled = TRUE

-----------------------------------------------------------------------------
(* Steps of a thread. *)

Step(t, from, to) ==
    /\ up
    /\ pc[t] = from
    /\ pc' = [pc EXCEPT ![t] = to]

(* The call returns; what the thread held is dead. *)
Return(t, from) ==
    /\ Step(t, from, "idle")
    /\ app' = [app EXCEPT ![t] = Absent]
    /\ held' = [held EXCEPT ![t] = None]
    /\ snap' = [snap EXCEPT ![t] = Empty]

(* A call that starts while another is under way is not orderly.          *)
Alone(t) ==
    orderly' = (orderly /\ \A u \in Threads \ {t} : pc[u] = "idle")

Remember(registry) == past' = past \cup {registry}

(* persist holds s.mu while it reads; every other section is one step. *)
Free == \A t \in Threads : pc[t] # "collect"

(* The file was loaded before the server accepts requests, and no request  *)
(* is served before the restore loop has ended.                            *)
Serving == toRestore = Empty /\ pc[Main] = "idle"

Request == calls < MaxCalls /\ calls' = calls + 1

(* A process nothing refers to is garbage, and its number is free again.   *)
Unused(p) ==
    /\ p \notin alive \cup restarts
    /\ \A a \in Apps : procs[a] # p
    /\ \A t \in Threads : held[t] # p

(* StartApp on a new name: one critical section of s.mu. *)
Register(t, a, k) ==
    /\ Step(t, "idle", "spawn")
    /\ Free
    /\ procs[a] = None
    /\ \E p \in Procs :
           /\ Unused(p)
           /\ procs' = [procs EXCEPT ![a] = p]
           /\ conf' = [conf EXCEPT ![p] = k]
           /\ held' = [held EXCEPT ![t] = p]
    /\ app' = [app EXCEPT ![t] = a]
    /\ Remember([InMemory EXCEPT ![a] = k])
    /\ Alone(t)
    /\ UNCHANGED <<up, crashes, alive, pending, restarts, disk, snap, unread,
                   acked, settled>>

StartNew(t, a, k) ==
    /\ t \in Clients
    /\ Serving
    /\ Request
    /\ Register(t, a, k)
    /\ UNCHANGED toRestore

(* A call that looks its app up under s.mu and goes on with the process. *)
Lookup(t, a, to) ==
    /\ t \in Clients
    /\ Request
    /\ Serving /\ Free
    /\ procs[a] # None
    /\ Step(t, "idle", to)
    /\ app' = [app EXCEPT ![t] = a]
    /\ held' = [held EXCEPT ![t] = procs[a]]
    /\ Alone(t)
    /\ UNCHANGED <<up, crashes, mem, disk, toRestore, snap, unread, past>>

(* The registry once process p has config k. *)
WithConfig(p, k) == [a \in Apps |-> IF procs[a] = p THEN k ELSE InMemory[a]]

(* StartApp on a known name: s.mu is let go; the config is copied over the *)
(* old one under mp.mu, which persist does not take; nothing is persisted. *)
StartExisting(t, a) == Lookup(t, a, "found") /\ UNCHANGED <<acked, settled>>

ReplaceConfig(t) ==
    /\ \A u \in Threads : ~(pc[u] = "replace" /\ held[u] = held[t])
    /\ Step(t, "found", "replace")
    /\ conf' = [conf EXCEPT ![held[t]] = Mixed]
    /\ Remember(WithConfig(held[t], Mixed))
    /\ UNCHANGED <<up, crashes, calls, procs, alive, pending, restarts, disk,
                   toRestore, app, held, snap, unread, acked, orderly, settled>>

(* `go s.Restart(name)`, and the answer. *)
ConfigReplaced(t, k) ==
    /\ Return(t, "replace")
    /\ conf' = [conf EXCEPT ![held[t]] = k]
    /\ Remember(WithConfig(held[t], k))
    /\ pending' = pending \cup {app[t]}
    /\ UNCHANGED <<up, crashes, calls, procs, alive, restarts, disk,
                   toRestore, unread, acked, orderly, settled>>

(* That Restart looks the name up, and is dropped when there is no such    *)
(* app any more, or another Restart of its process is under way.           *)
RestartLookup(a) ==
    /\ up /\ Free
    /\ a \in pending
    /\ pending' = pending \ {a}
    /\ restarts' = restarts \cup ({procs[a]} \ {None})
    /\ UNCHANGED <<up, crashes, calls, procs, conf, alive, disk, toRestore,
                   threads, history>>

(* It stopped the process that it found, and spawns its goroutine again,   *)
(* whatever the name stands for by then; or the stop timed out.            *)
RestartEnds(p) ==
    /\ up
    /\ p \in restarts
    /\ restarts' = restarts \ {p}
    /\ alive' \in {alive, alive \cup {p}}
    /\ UNCHANGED <<up, crashes, calls, procs, conf, pending, disk, toRestore,
                   threads, history>>

(* `go s.supervise(mp)`. *)
Spawn(t) ==
    /\ Step(t, "spawn", "snapshot")
    /\ alive' = alive \cup {held[t]}
    /\ UNCHANGED <<up, crashes, calls, procs, conf, pending, restarts, disk,
                   toRestore, app, held, snap, unread, history>>

(* Delete: its lookup, stopProcess on what it found, and the removal of    *)
(* whatever the name maps to by then.                                      *)
DeleteLookup(t, a) ==
    /\ Lookup(t, a, "stop")
    /\ acked' = acked \ {a}
    /\ settled' = (settled /\ a \notin pending /\ procs[a] \notin restarts)

(* Mutant: Delete removes what it could not stop. *)
DeleteIgnoresTimeout(t) ==
    /\ Step(t, "stop", "remove")
    /\ UNCHANGED <<up, crashes, calls, mem, disk, toRestore, app, held, snap,
                   unread, history>>

(* A process that is not spawned yet sees its closed stopCh later. *)
DeleteStops(t) ==
    /\ \A u \in Threads : ~(pc[u] = "spawn" /\ held[u] = held[t])
    /\ Step(t, "stop", "remove")
    /\ alive' = alive \ {held[t]}
    /\ UNCHANGED <<up, crashes, calls, procs, conf, pending, restarts, disk,
                   toRestore, app, held, snap, unread, history>>

DeleteTimesOut(t) ==
    /\ Return(t, "stop")
    /\ UNCHANGED <<up, crashes, calls, mem, disk, toRestore, unread, history>>

(* Mutant: Delete returns without a persist. *)
DeleteUnsaved(t) ==
    /\ Return(t, "remove")
    /\ Free
    /\ procs' = [procs EXCEPT ![app[t]] = None]
    /\ Remember([InMemory EXCEPT ![app[t]] = Absent])
    /\ UNCHANGED <<up, crashes, calls, conf, alive, pending, restarts, disk,
                   toRestore, unread, acked, orderly, settled>>

DeleteRemoves(t) ==
    /\ Step(t, "remove", "snapshot")
    /\ Free
    /\ procs' = [procs EXCEPT ![app[t]] = None]
    /\ Remember([InMemory EXCEPT ![app[t]] = Absent])
    /\ UNCHANGED <<up, crashes, calls, conf, alive, pending, restarts, disk,
                   toRestore, app, held, snap, unread, acked, orderly, settled>>

-----------------------------------------------------------------------------
(* persist: s.mu keeps the names as they are, and the configs are read one *)
(* after the other; then Save, under the store's own lock.                 *)

Snapshot(t) ==
    /\ Step(t, "snapshot", "collect")
    /\ Free
    /\ unread' = {a \in Apps : procs[a] # None}
    /\ snap' = [snap EXCEPT ![t] = Empty]
    /\ UNCHANGED <<up, crashes, calls, mem, disk, toRestore, app, held,
                   history>>

ReadConfig(t, a) ==
    /\ up
    /\ pc[t] = "collect"
    /\ a \in unread
    /\ unread' = unread \ {a}
    /\ snap' = [snap EXCEPT ![t][a] = conf[procs[a]]]
    /\ UNCHANGED <<up, crashes, calls, mem, disk, toRestore, pc, app, held,
                   history>>

(* Mutant: s.mu is let go before the configs are read. *)
CollectedEarly(t) ==
    /\ Step(t, "collect", "save")
    /\ UNCHANGED <<up, crashes, calls, mem, disk, toRestore, app, held, snap,
                   unread, history>>

Collected(t) ==
    /\ Step(t, "collect", "save")
    /\ unread = {}
    /\ UNCHANGED <<up, crashes, calls, mem, disk, toRestore, app, held, snap,
                   unread, history>>

(* A start that is acknowledged while its process stands registered and    *)
(* no Delete of the name is under way.                                     *)
Acknowledge(t) ==
    acked' = IF /\ procs[app[t]] = held[t]
                /\ \A u \in Threads :
                       pc[u] \in {"stop", "remove"} => app[u] # app[t]
             THEN acked \cup {app[t]}
             ELSE acked

(* The daemon dies: what is in memory is lost. *)
Die ==
    /\ up
    /\ crashes < MaxCrashes
    /\ RestoreCrash \/ Serving
    /\ up' = FALSE
    /\ crashes' = crashes + 1
    /\ procs' = [a \in Apps |-> None]
    /\ conf' = [p \in Procs |-> Absent]
    /\ alive' = {} /\ pending' = {} /\ restarts' = {}
    /\ toRestore' = Empty
    /\ pc' = [t \in Threads |-> "idle"]
    /\ app' = [t \in Threads |-> Absent]
    /\ held' = [t \in Threads |-> None]
    /\ snap' = [t \in Threads |-> Empty]
    /\ unread' = {}
    /\ orderly' = (orderly /\ Serving)
    /\ settled' = TRUE
    /\ UNCHANGED <<calls, past, acked>>

(* Mutant: the file is rewritten in place, and a crash cuts it short. *)
SaveInPlace(t) ==
    \/ /\ Return(t, "save")
       /\ disk' = snap[t]
       /\ Acknowledge(t)
       /\ UNCHANGED <<up, crashes, calls, mem, toRestore, unread, past,
                      orderly, settled>>
    \/ /\ pc[t] = "save"
       /\ Die
       /\ \E S \in SUBSET Apps :
              disk' = [a \in Apps |-> IF a \in S THEN snap[t][a] ELSE Absent]

(* The rename replaces the file at once; a crash before it leaves a        *)
(* temporary file that nobody reads.                                       *)
Save(t) ==
    /\ Return(t, "save")
    /\ disk' = snap[t]
    /\ Acknowledge(t)
    /\ UNCHANGED <<up, crashes, calls, mem, toRestore, unread, past, orderly,
                   settled>>

(* The error is logged, the command goes on. *)
SaveFails(t) ==
    /\ DiskFails
    /\ Return(t, "save")
    /\ Acknowledge(t)
    /\ orderly' = FALSE
    /\ UNCHANGED <<up, crashes, calls, mem, disk, toRestore, unread, past,
                   settled>>

-----------------------------------------------------------------------------
(* The daemon. *)

Crash == Die /\ UNCHANGED disk

(* The next daemon: the port is free again, the file is loaded. *)
Boot ==
    /\ ~up
    /\ up' = TRUE
    /\ toRestore' = disk
    /\ UNCHANGED <<crashes, calls, mem, disk, threads, history>>

(* One StartApp of the restore loop, with a persist of its own. *)
Restore(a) ==
    /\ toRestore[a] # Absent
    /\ Register(Main, a, toRestore[a])
    /\ UNCHANGED calls
    /\ toRestore' = [toRestore EXCEPT ![a] = Absent]

Thread(t) ==
    \/ \E a \in Apps, k \in Configs : StartNew(t, a, k)
    \/ \E a \in Apps :
           StartExisting(t, a) \/ DeleteLookup(t, a) \/ ReadConfig(t, a)
    \/ ReplaceConfig(t) \/ \E k \in Configs : ConfigReplaced(t, k)
    \/ Spawn(t) \/ DeleteStops(t) \/ DeleteTimesOut(t) \/ DeleteRemoves(t)
    \/ Snapshot(t) \/ Collected(t) \/ Save(t) \/ SaveFails(t)

Restart == (\E a \in Apps : RestartLookup(a)) \/ \E p \in Procs : RestartEnds(p)

Daemon == Crash \/ Boot \/ \E a \in Apps : Restore(a)

Next == (\E t \in Threads : Thread(t)) \/ Restart \/ Daemon

Spec == Init /\ [][Next]_vars

-----------------------------------------------------------------------------
(* Properties. *)

Named(r) == {a \in Apps : r[a] # Absent}

(* App a had the reading k while the apps of N were the registered ones. *)
Seen(N, a, k) == \E r \in past : Named(r) = N /\ r[a] = k

(* Whatever saves overlap, and whenever the daemon dies, the file names    *)
(* exactly the apps that were registered at some one moment, each with a   *)
(* config it had while these were the names.  That may be another moment   *)
(* for each: StartApp replaces configs while persist reads them.           *)
DiskNamesOneMoment == \A a \in Apps : Seen(Named(disk), a, disk[a])

(* Its inductive strengthening: so does what is about to be saved, and as  *)
(* far as it has been read, what is being collected; and no two names      *)
(* share a process, so a config under one name is no other's.              *)
Current == {a \in Apps : procs[a] # None}
SnapInv ==
    \A t \in Threads :
        /\ pc[t] = "save" =>
               \A a \in Apps : Seen(Named(snap[t]), a, snap[t][a])
        /\ pc[t] = "collect" =>
               /\ unread \subseteq Current
               /\ \A a \in Apps \ unread :
                      /\ snap[t][a] # Absent <=> a \in Current
                      /\ Seen(Current, a, snap[t][a])
NameInv ==
    /\ \A a, b \in Apps : procs[a] = procs[b] /\ procs[a] # None => a = b
    /\ \A a \in Current : conf[procs[a]] # Absent
ThreadInv ==
    /\ \A t \in Threads : pc[t] # "idle" => app[t] \in Apps /\ held[t] \in Procs
    /\ \A t, u \in Threads : pc[t] = "collect" /\ pc[u] = "collect" => t = u
RegistryInv ==
    /\ RegistryTypeOK
    /\ ThreadInv
    /\ NameInv
    /\ {Empty, InMemory} \subseteq past
    /\ SnapInv
    /\ DiskNamesOneMoment

(* While calls come one at a time and no save fails, the file names the    *)
(* registered apps whenever no call is under way: a crash then forgets no  *)
(* app and brings back no deleted one.                                     *)
IdleDiskNamesApps ==
    orderly /\ up /\ Serving /\ (\A t \in Threads : pc[t] = "idle") =>
        \A a \in Apps : (disk[a] = Absent) = (procs[a] = None)

(* A start that was acknowledged and not followed by a delete is on disk   *)
(* whenever requests are served or no daemon runs, across crashes and      *)
(* restores: what the README promises of state.json.  Two saves may end in *)
(* the order opposite to that of their snapshots.                          *)
AckedIsDurable == Serving => \A a \in acked : disk[a] # Absent

(* It does hold while calls come one at a time, no save fails and no crash *)
(* cuts a restore loop short.                                              *)
OrderlyAckedIsDurable == orderly => AckedIsDurable

(* "Delete stops and removes the named process": while calls come one at a *)
(* time, a process that is not registered has been stopped.  One at a time *)
(* is not enough: a StartApp on a known name answers before its Restart,   *)
(* which may spawn the process again that the next Delete removes.  A      *)
(* Delete that waits for that Restart is safe.                             *)
OnlyRegisteredAlive ==
    orderly /\ settled =>
        \A p \in alive : (\E a \in Apps : procs[a] = p)
                            \/ \E t \in Threads : pc[t] # "idle" /\ held[t] = p
=============================================================================
