-------------------------------- MODULE Daemon --------------------------------
(***************************************************************************)
(* A life of the daemon, from serving to exit: gopmd's main goroutine      *)
(* (cmd/gopmd), the IPC server's accept loop and connection handlers       *)
(* (internal/ipc), clients that hang up, and the apps under the supervisor *)
(* as far as Shutdown, StartApp and the ctx reach into them.  What an app  *)
(* goes through in detail is module Supervisor's.  A start of a name that   *)
(* exists does to the apps what a restart does.  Stop and Delete are left   *)
(* out: they stop an app sooner.                                           *)
(***************************************************************************)
CONSTANTS
    Clients,   \* connections; a "start" request is for a new app, which
               \* bears the name of its connection
    Restored,  \* the apps restored before the server accepts requests
    Requests   \* what a client may ask

ASSUME DaemonAssumption ==
    Requests \subseteq {"stream", "start", "restart", "shutdown"}

Apps == Clients \cup Restored

VARIABLES
    ctx,       \* whether the daemon's context is cancelled
    signalled, \* whether SIGINT or SIGTERM cancelled it
    cancels,   \* whether a `go cancel()` is under way
    main,      \* where main stands
    toStop,    \* the apps on Shutdown's list that it has not turned to yet
    stopping,  \* the app it has told to stop and waits for
    listed,    \* history: the apps of the list, less those that a Restart
               \* has started anew since
    listening, \* whether the listener is open
    acceptor,  \* what the accept loop does
    inHand,    \* the connections accepted and not yet counted in wg
    client,    \* each client's side of its connection
    request,   \* what it asked
    handler,   \* where its handler stands
    supCtx,    \* whether the supervisor's context is cancelled
    app,       \* each app: its registration, its goroutine, its child
    stopCh,    \* the apps whose stopCh is closed
    restarts   \* the pairs <<c, a>>: a Restart for c holds a's restartMu

server == <<listening, acceptor, inHand>>
conns == <<client, request, handler>>
apps == <<supCtx, app, stopCh, restarts>>
list == <<toStop, stopping, listed>>
vars == <<ctx, signalled, cancels, main, list, server, conns, apps>>

MainPlaces == {"serving", "stopping", "cancelling", "closing", "waiting",
               "closed", "exited"}
ClientPlaces == {"none", "dialed", "sent", "answered", "failed"}
HandlerPlaces == {"none", "read", "run", "spawn", "restart", "stream",
                  "blocked", "respond", "done"}
AppPlaces == {"none", "registered", "starting", "busy", "launching", "running",
              "gone"}

(* The registry. *)
Registered == {a \in Apps : app[a] # "none"}

DaemonTypeOK ==
    /\ {ctx, signalled, cancels, listening, supCtx} \subseteq BOOLEAN
    /\ main \in MainPlaces
    /\ toStop \cup stopping \cup listed \cup stopCh \subseteq Registered
    /\ acceptor \in {"accepting", "waiting", "done"}
    /\ inHand = {} \/ \E c \in Clients : inHand = {c}
    /\ client \in [Clients -> ClientPlaces]
    /\ request \in [Clients -> Requests \cup {"none"}]
    /\ handler \in [Clients -> HandlerPlaces]
    /\ app \in [Apps -> AppPlaces]
    /\ restarts \subseteq Clients \X Registered

Init ==
    /\ ctx = FALSE
    /\ signalled = FALSE
    /\ cancels = FALSE
    /\ main = "serving"
    /\ toStop = {} /\ stopping = {} /\ listed = {}
    /\ listening = TRUE
    /\ acceptor = "accepting"
    /\ inHand = {}
    /\ client = [c \in Clients |-> "none"]
    /\ request = [c \in Clients |-> "none"]
    /\ handler = [c \in Clients |-> "none"]
    /\ supCtx = FALSE
    /\ app = [a \in Apps |-> IF a \in Restored THEN "starting" ELSE "none"]
    /\ stopCh = {}
    /\ restarts = {}

(* wg counts the handlers that were started and have not returned. *)
InFlight == {c \in Clients : handler[c] \notin {"none", "done"}}

(* What the kernel completed the handshake for and nobody accepted. *)
Backlog == {c \in Clients : /\ client[c] # "none"
                            /\ handler[c] = "none" /\ c \notin inHand}

Alive == main # "exited"

-----------------------------------------------------------------------------
(* Clients: one connection each, one request, a deadline. *)

Dial(c) ==
    /\ listening /\ Alive
    /\ client[c] = "none"
    /\ client' = [client EXCEPT ![c] = "dialed"]
    /\ UNCHANGED <<ctx, signalled, cancels, main, list, server, request,
                   handler, apps>>

Send(c, r) ==
    /\ client[c] = "dialed"
    /\ r = "start" => c \notin Restored
    /\ client' = [client EXCEPT ![c] = "sent"]
    /\ request' = [request EXCEPT ![c] = r]
    /\ UNCHANGED <<ctx, signalled, cancels, main, list, server, handler,
                   apps>>

(* The deadline passes, the user interrupts a stream, or the connection is *)
(* reset: the listener or the whole daemon is gone.                        *)
HangUp(c) ==
    /\ client[c] \in {"dialed", "sent"}
    /\ client' = [client EXCEPT ![c] = "failed"]
    /\ UNCHANGED <<ctx, signalled, cancels, main, list, server, request,
                   handler, apps>>

-----------------------------------------------------------------------------
(* Serve. *)

Accept(c) ==
    /\ Alive /\ listening
    /\ acceptor = "accepting"
    /\ inHand = {}
    /\ c \in Backlog
    /\ inHand' = {c}
    /\ UNCHANGED <<ctx, signalled, cancels, main, list, listening, acceptor,
                   conns, apps>>

(* wg.Add(1) and `go s.handle`. *)
Track(c) ==
    /\ Alive
    /\ c \in inHand
    /\ inHand' = {}
    /\ handler' = [handler EXCEPT ![c] = "read"]
    /\ UNCHANGED <<ctx, signalled, cancels, main, list, listening, acceptor,
                   client, request, apps>>

AcceptFails ==
    /\ Alive /\ ~listening /\ ctx
    /\ acceptor = "accepting"
    /\ inHand = {}
    /\ acceptor' = "waiting"
    /\ UNCHANGED <<ctx, signalled, cancels, main, list, listening, inHand,
                   conns, apps>>

ServeReturns ==
    /\ Alive
    /\ acceptor = "waiting"
    /\ InFlight = {}
    /\ acceptor' = "done"
    /\ UNCHANGED <<ctx, signalled, cancels, main, list, listening, inHand,
                   conns, apps>>

(* The goroutine that waits for ctx to close the listener. *)
CtxClosesListener ==
    /\ Alive /\ ctx /\ listening
    /\ listening' = FALSE
    /\ UNCHANGED <<ctx, signalled, cancels, main, list, acceptor, inHand,
                   conns, apps>>

-----------------------------------------------------------------------------
(* handle. *)

Handle(c, from, to) ==
    /\ Alive
    /\ handler[c] = from
    /\ handler' = [handler EXCEPT ![c] = to]

(* A line that was sent is read even when its client is gone. *)
ReadRequest(c) ==
    /\ \/ request[c] # "none" /\ Handle(c, "read", "run")
       \/ /\ request[c] = "none" /\ client[c] = "failed"
          /\ Handle(c, "read", "done")
    /\ UNCHANGED <<ctx, signalled, cancels, main, list, server, client,
                   request, apps>>

(* `go cancel()`, and the answer. *)
RunShutdown(c) ==
    /\ request[c] = "shutdown"
    /\ Handle(c, "run", "respond")
    /\ cancels' = TRUE
    /\ UNCHANGED <<ctx, signalled, main, list, server, client, request,
                   apps>>

RunStream(c) ==
    /\ request[c] = "stream"
    /\ Handle(c, "run", "stream")
    /\ UNCHANGED <<ctx, signalled, cancels, main, list, server, client,
                   request, apps>>

(* StartApp: the registration, then the goroutine; s.stopped is not read. *)
RunStart(c) ==
    /\ request[c] = "start"
    /\ Handle(c, "run", "spawn")
    /\ app' = [app EXCEPT ![c] = "registered"]
    /\ UNCHANGED <<ctx, signalled, cancels, main, list, server, client,
                   request, supCtx, stopCh, restarts>>

SpawnApp(c) ==
    /\ Handle(c, "spawn", "respond")
    /\ app' = [app EXCEPT ![c] = "starting"]
    /\ UNCHANGED <<ctx, signalled, cancels, main, list, server, client,
                   request, supCtx, stopCh, restarts>>

(* Restart: TryLock, then the stop.  Of an unknown app it is an error; one  *)
(* that is under way drops this one.                                       *)
RunRestart(c, a) ==
    /\ request[c] = "restart"
    /\ IF a \in Registered /\ \A b \in Clients : <<b, a>> \notin restarts
       THEN /\ Handle(c, "run", "restart")
            /\ stopCh' = stopCh \cup {a}
            /\ restarts' = restarts \cup {<<c, a>>}
       ELSE /\ Handle(c, "run", "respond")
            /\ UNCHANGED <<stopCh, restarts>>
    /\ UNCHANGED <<ctx, signalled, cancels, main, list, server, client,
                   request, supCtx, app>>

(* Once the goroutine is done there is a new stopCh, a new done and a new  *)
(* goroutine; s.stopped is not read here either.  A Shutdown that waited   *)
(* for the old one goes on, by its done or after thirty seconds.           *)
RestartSpawns(c, a) ==
    /\ <<c, a>> \in restarts
    /\ app[a] = "gone"
    /\ Handle(c, "restart", "respond")
    /\ app' = [app EXCEPT ![a] = "starting"]
    /\ stopCh' = stopCh \ {a}
    /\ restarts' = restarts \ {<<c, a>>}
    /\ stopping' = stopping \ {a}
    /\ listed' = listed \ {a}
    /\ UNCHANGED <<ctx, signalled, cancels, main, toStop, server, client,
                   request, supCtx>>

(* Which waits of thirty seconds can run out.  Only a goroutine that has a *)
(* child, or is about to start one, is sure to end before, after a grace   *)
(* of five and a kill; a hook, or a Close of the watcher, takes its time.  *)
Late(a) == app[a] \in {"registered", "starting", "busy"}

RestartTimesOut(c, a) ==
    /\ <<c, a>> \in restarts
    /\ Late(a)
    /\ Handle(c, "restart", "respond")
    /\ restarts' = restarts \ {<<c, a>>}
    /\ UNCHANGED <<ctx, signalled, cancels, main, list, server, client,
                   request, supCtx, app, stopCh>>

(* An event is written; the socket may be full until the client reads on.  *)
StreamBlocks(c) ==
    /\ client[c] = "sent"
    /\ Handle(c, "stream", "blocked")
    /\ UNCHANGED <<ctx, signalled, cancels, main, list, server, client,
                   request, apps>>

StreamResumes(c) ==
    /\ client[c] = "sent"
    /\ Handle(c, "blocked", "stream")
    /\ UNCHANGED <<ctx, signalled, cancels, main, list, server, client,
                   request, apps>>

(* Mutant: a stream ends by a failed write only. *)
StreamEndsOnError(c) ==
    /\ client[c] = "failed"
    /\ Handle(c, "stream", "done") \/ Handle(c, "blocked", "done")
    /\ UNCHANGED <<ctx, signalled, cancels, main, list, server, client,
                   request, apps>>

(* ctx is done, or the write failed. *)
StreamEnds(c) ==
    /\ \/ ctx /\ Handle(c, "stream", "done")
       \/ client[c] = "failed" /\ Handle(c, "stream", "done")
       \/ client[c] = "failed" /\ Handle(c, "blocked", "done")
    /\ client' = [client EXCEPT ![c] = IF @ = "sent" THEN "answered" ELSE @]
    /\ UNCHANGED <<ctx, signalled, cancels, main, list, server, request,
                   apps>>

(* The answer is written, the connection closed, wg.Done called. *)
Respond(c) ==
    /\ Handle(c, "respond", "done")
    /\ client' = [client EXCEPT ![c] = IF @ = "sent" THEN "answered" ELSE @]
    /\ UNCHANGED <<ctx, signalled, cancels, main, list, server, request,
                   apps>>
-----------------------------------------------------------------------------
(* The apps, as far as a shutdown can tell. *)

(* The goroutine of a goes from a place of from to the place to. *)
Loop(a, from, to) ==
    /\ Alive
    /\ app[a] \in from
    /\ app' = [app EXCEPT ![a] = to]
    /\ UNCHANGED <<ctx, signalled, cancels, main, list, server, conns,
                   supCtx, stopCh, restarts>>

(* pre_start, or a build once the child is reaped: neither looks at stopCh. *)
HookBegins(a) == Loop(a, {"starting", "running"}, "busy")

HookEnds(a) == a \notin stopCh /\ Loop(a, {"busy"}, "starting")

(* Mutant: the check of stopCh at the top of the loop is gone. *)
TopUnchecked(a) == Loop(a, {"starting"}, "launching")

(* The check of stopCh at the top of the loop, and then the start, which   *)
(* fails at once when the supervisor's ctx is done.                        *)
TopPasses(a) == a \notin stopCh /\ Loop(a, {"starting"}, "launching")

ChildStarts(a) == ~supCtx /\ Loop(a, {"launching"}, "running")

StartFails(a) == Loop(a, {"launching"}, "starting")

ChildDies(a) == Loop(a, {"running"}, "starting")

(* The goroutine saw stopCh, reaped its child and closed done; or it keeps *)
(* failing to start a child under a cancelled ctx.                         *)
LoopEnds(a) ==
    \/ a \in stopCh /\ Loop(a, {"starting", "busy", "running"}, "gone")
    \/ supCtx /\ Loop(a, {"starting", "busy"}, "gone")

(* exec.CommandContext's own goroutine kills the child, some time after.   *)
CtxKillsChild(a) == supCtx /\ Loop(a, {"running"}, "gone")

-----------------------------------------------------------------------------
(* main. *)

Signal ==
    /\ Alive /\ ~ctx
    /\ ctx' = TRUE
    /\ signalled' = TRUE
    /\ UNCHANGED <<cancels, main, list, server, conns, apps>>

Cancel ==
    /\ Alive /\ cancels
    /\ cancels' = FALSE
    /\ ctx' = TRUE
    /\ UNCHANGED <<signalled, main, list, server, conns, apps>>

(* Mutant: names that are not registered are stopped too. *)
BeginShutdownOfAll ==
    /\ main = "serving" /\ ctx
    /\ main' = "stopping"
    /\ toStop' = Apps
    /\ listed' = Registered
    /\ UNCHANGED <<ctx, signalled, cancels, stopping, server, conns, apps>>

BeginShutdown ==
    /\ main = "serving" /\ ctx
    /\ main' = "stopping"
    /\ toStop' = Registered
    /\ listed' = Registered
    /\ UNCHANGED <<ctx, signalled, cancels, stopping, server, conns, apps>>

(* stopProcess, one app after the other. *)
StopApp(a) ==
    /\ main = "stopping"
    /\ stopping = {}
    /\ a \in toStop
    /\ toStop' = toStop \ {a}
    /\ stopping' = {a}
    /\ stopCh' = stopCh \cup {a}
    /\ UNCHANGED <<ctx, signalled, cancels, main, listed, server, conns,
                   supCtx, app, restarts>>

(* It is done, or the thirty seconds are over, which Shutdown ignores. *)
AppStopped(a) ==
    /\ a \in stopping
    /\ app[a] = "gone" \/ Late(a)
    /\ stopping' = {}
    /\ UNCHANGED <<ctx, signalled, cancels, main, toStop, listed, server,
                   conns, apps>>

CancelSupervisor ==
    /\ main = "stopping" /\ toStop \cup stopping = {}
    /\ main' = "closing"
    /\ supCtx' = TRUE
    /\ UNCHANGED <<ctx, signalled, cancels, list, server, conns, app,
                   stopCh, restarts>>

CloseListener ==
    /\ main = "closing"
    /\ main' = "waiting"
    /\ listening' = FALSE
    /\ UNCHANGED <<ctx, signalled, cancels, list, acceptor, inHand, conns,
                   apps>>

(* Mutant: Close only closes the listener. *)
CloseReturnsAtOnce ==
    /\ main = "waiting"
    /\ main' = "closed"
    /\ UNCHANGED <<ctx, signalled, cancels, list, server, conns, apps>>

CloseReturns ==
    /\ main = "waiting"
    /\ InFlight = {}
    /\ main' = "closed"
    /\ UNCHANGED <<ctx, signalled, cancels, list, server, conns, apps>>

Exit ==
    /\ main = "closed"
    /\ main' = "exited"
    /\ UNCHANGED <<ctx, signalled, cancels, list, server, conns, apps>>

-----------------------------------------------------------------------------

Client(c) == Dial(c) \/ (\E r \in Requests : Send(c, r)) \/ HangUp(c)

Handler(c) ==
    \/ ReadRequest(c)
    \/ RunShutdown(c) \/ RunStream(c) \/ RunStart(c)
    \/ SpawnApp(c) \/ StreamEnds(c) \/ Respond(c)
    \/ \E a \in Apps : \/ RunRestart(c, a)
                      \/ RestartSpawns(c, a) \/ RestartTimesOut(c, a)

Serve ==
    \/ \E c \in Clients : Accept(c) \/ Track(c)
    \/ AcceptFails \/ ServeReturns \/ CtxClosesListener

Supervise(a) ==
    \/ TopPasses(a) \/ ChildStarts(a) \/ StartFails(a)
    \/ LoopEnds(a) \/ CtxKillsChild(a)

(* What the user's commands, the files and the child may do at any time.   *)
Outside(a) == HookBegins(a) \/ HookEnds(a) \/ ChildDies(a)

Main ==
    \/ BeginShutdown \/ (\E a \in Apps : StopApp(a) \/ AppStopped(a))
    \/ CancelSupervisor \/ CloseListener \/ CloseReturns \/ Exit

Over == main = "exited" /\ UNCHANGED vars

Next ==
    \/ \E c \in Clients : \/ Client(c) \/ Handler(c)
                          \/ StreamBlocks(c) \/ StreamResumes(c)
    \/ \E a \in Apps : Supervise(a) \/ Outside(a)
    \/ Serve \/ Signal \/ Cancel \/ Main
    \/ Over

Spec == Init /\ [][Next]_vars

(* The scheduler runs every goroutine.  SF, since a select chooses among   *)
(* its ready arms at random: a stream that is held up and goes on again    *)
(* and again sees in the end that ctx is done.  No client must do          *)
(* anything.                                                               *)
Fairness ==
    /\ WF_vars(Serve) /\ WF_vars(Cancel) /\ WF_vars(Main)
    /\ \A a \in Apps : WF_vars(Supervise(a))
    /\ \A c \in Clients : SF_vars(Handler(c))

FairSpec == Spec /\ Fairness

-----------------------------------------------------------------------------
(* Properties. *)

(* The answer to `gopm shutdown` and the cancellation it starts race: some *)
(* client that asked for it is answered before the daemon exits.           *)
ShutdownIsAnswered ==
    main = "exited" /\ ~signalled =>
        \E c \in Clients : request[c] = "shutdown" /\ handler[c] = "done"

(* The ctx kills without grace.  When it is cancelled no app that Shutdown *)
(* found has a child, or will have one, although Shutdown gives up on a    *)
(* goroutine that is late: that one finds its stopCh closed.  Only an app  *)
(* that a Restart in flight has started anew may be killed.                *)
StopBeforeCtx ==
    supCtx => \A a \in listed : app[a] \notin {"launching", "running"}

(* A shutdown that was asked for ends the daemon, whatever clients and     *)
(* hooks do, unless a client stalls for good: it sent nothing and keeps    *)
(* the connection, or follows a stream and has stopped reading.            *)
DaemonExits ==
    ctx \/ cancels ~>
        \/ main = "exited"
        \/ \E c \in Clients : [](handler[c] \in {"read", "blocked"})
=============================================================================
