-------------------------------- MODULE Launch --------------------------------
(***************************************************************************)
(* How daemons come and go: CLIs that ping, and spawn a gopmd when nobody  *)
(* answers (ensureDaemonRunning of cmd/gopm), daemons that bind the port,  *)
(* restore the apps of the state file and serve (cmd/gopmd, Server.Listen  *)
(* and Serve of internal/ipc), and shutdowns.  What a daemon does between  *)
(* is module Daemon's; here it is the port it may hold and the apps it     *)
(* runs.                                                                   *)
(***************************************************************************)
EXTENDS Integers, FiniteSets

CONSTANTS
    Clis,       \* invocations of gopm; each runs one command
    Commands,   \* what they run: "start", "daemon", "shutdown"
    Daemons,    \* the gopmd processes they may spawn
    Apps,       \* the apps of the user
    MaxCrashes, \* bound: daemons killed from outside
    NoDaemon    \* nobody listens on the port

ASSUME LaunchAssumption ==
    /\ Commands \subseteq {"start", "daemon", "shutdown"}
    /\ MaxCrashes \in Nat
    /\ NoDaemon \notin Daemons

VARIABLES
    cli,      \* where each invocation stands
    command,  \* what it runs
    daemon,   \* where each daemon stands
    peer,     \* the daemon at the other end of its connection
    port,     \* the daemon that listens on the port
    procs,    \* the apps each daemon has in s.procs
    runs,     \* the apps each daemon runs, or left running at its end
    saved,    \* the apps in the state file
    crashes   \* daemons killed so far

users == <<cli, command, peer>>
apps == <<procs, runs, saved>>
vars == <<users, daemon, port, apps, crashes>>

CliPlaces ==
    {"idle", "ping", "spawn", "wait", "send", "sent", "ended"}

(* From its cancelled ctx on a daemon is leaving; a spare one found the    *)
(* port taken.                                                             *)
DaemonPlaces == {"none", "spawned", "bound", "serving", "leaving", "exited",
                 "spare", "crashed"}

LaunchTypeOK ==
    /\ cli \in [Clis -> CliPlaces]
    /\ command \in [Clis -> Commands \cup {"none"}]
    /\ daemon \in [Daemons -> DaemonPlaces]
    /\ peer \in [Clis -> Daemons \cup {NoDaemon}]
    /\ port \in Daemons \cup {NoDaemon}
    /\ procs \in [Daemons -> SUBSET Apps]
    /\ runs \in [Daemons -> SUBSET Apps]
    /\ saved \subseteq Apps
    /\ crashes \in 0..MaxCrashes

Init ==
    /\ cli = [c \in Clis |-> "idle"]
    /\ command = [c \in Clis |-> "none"]
    /\ daemon = [d \in Daemons |-> "none"]
    /\ peer = [c \in Clis |-> NoDaemon]
    /\ port = NoDaemon
    /\ procs = [d \in Daemons |-> {}]
    /\ runs = [d \in Daemons |-> {}]
    /\ saved \in SUBSET Apps
    /\ crashes = 0

CliStep(c, from, to) == cli[c] = from /\ cli' = [cli EXCEPT ![c] = to]

DaemonStep(d, from, to) ==
    daemon[d] = from /\ daemon' = [daemon EXCEPT ![d] = to]

(* From the cancelled ctx on, or the kill, a daemon is on its way out.     *)
Past == {d \in Daemons : daemon[d] \in {"leaving", "exited", "crashed"}}

(* Handlers answer until main returns, after a cancelled ctx too.          *)
Handling == {d \in Daemons : daemon[d] \in {"serving", "leaving"}}

-----------------------------------------------------------------------------
(* The CLI. *)

Begin(c, what) ==
    /\ CliStep(c, "idle", "ping")
    /\ command' = [command EXCEPT ![c] = what]
    /\ UNCHANGED <<peer, daemon, port, apps, crashes>>

(* A ping is answered; `gopm daemon` asks for nothing else.                *)
Reached(c, from) ==
    /\ port \in Handling
    /\ CliStep(c, from, IF command[c] = "daemon" THEN "ended" ELSE "send")
    /\ UNCHANGED <<command, peer, daemon, port, apps, crashes>>

PingAnswered(c) == Reached(c, "ping")

(* No listener, or no answer within half a second: a daemon that restores  *)
(* its apps is bound but does not answer yet, and any may be slow.         *)
PingFails(c) ==
    /\ CliStep(c, "ping",
               IF command[c] = "shutdown" THEN "ended" ELSE "spawn")
    /\ UNCHANGED <<command, peer, daemon, port, apps, crashes>>

(* A process is as good as another. *)
Fresh == CHOOSE d \in Daemons : daemon[d] = "none"

Spawn(c) ==
    /\ CliStep(c, "spawn", "wait")
    /\ \E d \in Daemons : daemon[d] = "none"
    /\ DaemonStep(Fresh, "none", "spawned")
    /\ UNCHANGED <<command, peer, port, apps, crashes>>

(* The loop of pings after a spawn, until one is answered or three seconds *)
(* have passed.                                                            *)
WaitAnswered(c) == Reached(c, "wait")

WaitEnds(c) ==
    /\ CliStep(c, "wait", "ended")
    /\ UNCHANGED <<command, peer, daemon, port, apps, crashes>>

(* The request goes to whoever listens by now, whether it serves yet, and  *)
(* still, or not.                                                          *)
Dial(c) ==
    /\ port # NoDaemon
    /\ CliStep(c, "send", "sent")
    /\ peer' = [peer EXCEPT ![c] = port]
    /\ UNCHANGED <<command, daemon, port, apps, crashes>>

Served(c, what) ==
    /\ peer[c] \in Handling
    /\ command[c] = what
    /\ CliStep(c, "sent", "ended")
    /\ peer' = [peer EXCEPT ![c] = NoDaemon]
    /\ UNCHANGED <<command, port, crashes>>

(* StartApp: a new app is persisted with all of s.procs, another one is    *)
(* restarted.  Nothing refuses it in a daemon that is leaving.             *)
SendStart(c, a) ==
    LET d == peer[c]
    IN  /\ Served(c, "start")
        /\ procs' = [procs EXCEPT ![d] = @ \cup {a}]
        /\ runs' = [runs EXCEPT ![d] = @ \cup {a}]
        /\ saved' = IF a \in procs[d] THEN saved ELSE procs'[d]
        /\ UNCHANGED daemon

SendShutdown(c) ==
    /\ Served(c, "shutdown")
    /\ daemon' = [daemon EXCEPT ![peer[c]] = "leaving"]
    /\ UNCHANGED apps

(* Nobody listens any more; or the daemon that was dialled has gone, or    *)
(* closes its listener before it accepts.                                  *)
SendFails(c) ==
    /\ \/ port = NoDaemon /\ CliStep(c, "send", "ended")
       \/ peer[c] \in Past /\ CliStep(c, "sent", "ended")
    /\ peer' = [peer EXCEPT ![c] = NoDaemon]
    /\ UNCHANGED <<command, daemon, port, apps, crashes>>

-----------------------------------------------------------------------------
(* The daemon. *)

Listen(d) ==
    /\ port = NoDaemon
    /\ DaemonStep(d, "spawned", "bound")
    /\ port' = d
    /\ UNCHANGED <<users, apps, crashes>>

(* Mutant: a daemon gives way to the pid file of another, even a stale     *)
(* one.                                                                    *)
ListenFailsEarly(d) ==
    /\ \E e \in Daemons \ {d} : daemon[e] # "none"
    /\ DaemonStep(d, "spawned", "spare")
    /\ UNCHANGED <<users, port, apps, crashes>>

ListenFails(d) ==
    /\ port # NoDaemon
    /\ DaemonStep(d, "spawned", "spare")
    /\ UNCHANGED <<users, port, apps, crashes>>

(* Mutant: the apps are restored before the port is bound. *)
RestoreFirst(d) ==
    /\ DaemonStep(d, "bound", "serving") \/ DaemonStep(d, "spawned", "spawned")
    /\ procs' = [procs EXCEPT ![d] = saved]
    /\ runs' = [runs EXCEPT ![d] = saved]
    /\ UNCHANGED <<users, port, saved, crashes>>

(* Load and the loop of StartApp, one app at a time in module Registry;    *)
(* then `go srv.Serve`.                                                    *)
Restore(d) ==
    /\ DaemonStep(d, "bound", "serving")
    /\ procs' = [procs EXCEPT ![d] = saved]
    /\ runs' = [runs EXCEPT ![d] = saved]
    /\ UNCHANGED <<users, port, saved, crashes>>

(* SIGINT or SIGTERM. *)
Signalled(d) ==
    /\ DaemonStep(d, "serving", "leaving")
    /\ UNCHANGED <<users, port, apps, crashes>>

(* Serve closes the listener as soon as the ctx is cancelled, whatever     *)
(* Shutdown is still doing.                                                *)
CloseListener(d) ==
    /\ daemon[d] = "leaving"
    /\ port = d
    /\ port' = NoDaemon
    /\ UNCHANGED <<users, daemon, apps, crashes>>

(* Shutdown stops an app, or the ctx kills it.                             *)
StopApp(d, a) ==
    /\ daemon[d] = "leaving"
    /\ a \in runs[d]
    /\ runs' = [runs EXCEPT ![d] = @ \ {a}]
    /\ UNCHANGED <<users, daemon, port, procs, saved, crashes>>

Ends(d, how) ==
    /\ daemon' = [daemon EXCEPT ![d] = how]
    /\ procs' = [procs EXCEPT ![d] = {}]
    /\ port' = IF port = d THEN NoDaemon ELSE port
    /\ UNCHANGED <<users, runs, saved>>

(* The end of main.  Shutdown has waited for each app it listed, half a    *)
(* minute at most, and ignored that it gave up on one; nobody waits for an *)
(* app that was started meanwhile, or for the goroutines that kill on a    *)
(* cancelled ctx.  What is left keeps running without a daemon.            *)
Exit(d) ==
    /\ daemon[d] = "leaving"
    /\ Ends(d, "exited")
    /\ UNCHANGED crashes

(* A daemon is killed; the children are in groups of their own and stay.   *)
Crash(d) ==
    /\ crashes < MaxCrashes
    /\ crashes' = crashes + 1
    /\ daemon[d] \in {"spawned", "bound", "serving", "leaving"}
    /\ Ends(d, "crashed")

-----------------------------------------------------------------------------

Cli(c) ==
    \/ PingAnswered(c) \/ PingFails(c) \/ WaitAnswered(c) \/ WaitEnds(c)
    \/ Spawn(c) \/ Dial(c) \/ SendShutdown(c) \/ SendFails(c)
    \/ \E a \in Apps : SendStart(c, a)

Launching(d) == Listen(d) \/ ListenFails(d) \/ Restore(d)

Leaving(d) ==
    CloseListener(d) \/ Exit(d) \/ \E a \in Apps : StopApp(d, a)

Next ==
    \/ \E c \in Clis : Cli(c) \/ \E what \in Commands : Begin(c, what)
    \/ \E d \in Daemons : \/ Launching(d) \/ Signalled(d)
                          \/ Leaving(d) \/ Crash(d)

(* The operating system runs every daemon that was spawned. *)
Spec == Init /\ [][Next]_vars /\ \A d \in Daemons : WF_vars(Launching(d))

-----------------------------------------------------------------------------
(* Properties. *)

(* However many CLIs found nobody at home and spawned a daemon, an app is  *)
(* run by two of them only if one is on its way out, or left it running at *)
(* its end: a daemon that loses the port starts nothing, and two that have *)
(* the port one after the other are never in service together.             *)
SparesStartNothing ==
    \A d, e \in Daemons : runs[d] \cap runs[e] # {} =>
        d = e \/ {d, e} \cap Past # {}

(* Where daemons were spawned one comes to serve, unless one more goes     *)
(* meanwhile: they do not all give way, to each other or to what an        *)
(* earlier one left.  A daemon that is leaving but still has the port is   *)
(* the exception: the new one gives way to it, and nobody serves.          *)
SpawnedServes ==
    \A n \in 0..Cardinality(Daemons) - 1 :
        (/\ Cardinality(Past) = n /\ port \notin Past
         /\ \E d \in Daemons : daemon[d] = "spawned")
        ~> \/ Cardinality(Past) > n
           \/ \E d \in Daemons : daemon[d] = "serving"

(* docs/SOLUTION_ARCHITECTURE.md: the CLI "makes one daemon the single     *)
(* writer of process lifecycle state".  A daemon that is shutting down     *)
(* gives its port away before its apps have ended: the next daemon         *)
(* restores them beside it.                                                *)
OneDaemonPerApp ==
    \A d, e \in Handling : runs[d] \cap runs[e] # {} => d = e
=============================================================================
