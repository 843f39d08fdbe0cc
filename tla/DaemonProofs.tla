----------------------------- MODULE DaemonProofs ----------------------------
(***************************************************************************)
(* The end of the daemon, for any number of connections and apps: who      *)
(* asked for the shutdown is answered before main returns, and no app that *)
(* Shutdown found has a child when the ctx kills without grace.  Apps are  *)
(* registered and restarted and connections accepted all the while.        *)
(***************************************************************************)
EXTENDS Daemon, TLAPS

(* What main has cancelled, and what it has still to stop, by its place.   *)
MainInv ==
    /\ supCtx <=> main \in {"closing", "waiting", "closed", "exited"}
    /\ main # "serving" => ctx
    /\ main # "stopping" => toStop \cup stopping = {}
    /\ main = "serving" => listed = {}

(* What Shutdown is through with was told to stop, and had no child when it *)
(* went on.  A goroutine with its stopCh closed starts none.               *)
StopInv ==
    /\ stopping \subseteq stopCh
    /\ \A a, b \in stopping : a = b
    /\ \A a \in listed \ (toStop \cup stopping) :
           a \in stopCh /\ app[a] \notin {"launching", "running"}

(* A connection has one handler, which registers at most one app and       *)
(* spawns it once.                                                         *)
StartInv ==
    \A c \in Clients :
        /\ client[c] \in {"none", "dialed"} => request[c] = "none"
        /\ c \in Restored => request[c] # "start"
        /\ c \notin Restored /\ handler[c] \in {"none", "read", "run"} =>
               app[c] = "none"
        /\ handler[c] = "spawn" => app[c] = "registered"
        /\ c \in inHand => handler[c] = "none"

(* The handler of a request for the shutdown has reached a place of P. *)
Asked(P) == \E c \in Clients : request[c] = "shutdown" /\ handler[c] \in P

(* What no signal cancelled, a handler did that has its answer to write    *)
(* yet; wg keeps Close until that is written.                              *)
AnswerInv ==
    ~signalled =>
        /\ ctx \/ cancels => Asked({"respond", "done"})
        /\ main \in {"closed", "exited"} => Asked({"done"})

DInv == DaemonTypeOK /\ MainInv /\ StopInv /\ StartInv /\ AnswerInv
-----------------------------------------------------------------------------
(* A client moves on its own side of the connection only. *)
LEMMA ClientStep ==
    ASSUME DInv, NEW c \in Clients, Client(c)
    PROVE  DInv'
<1> USE DaemonAssumption
    DEF DInv, DaemonTypeOK, MainInv, StopInv, StartInv, AnswerInv, Asked,
        Registered, Apps, ClientPlaces, server, conns, apps, list
<1>1. CASE Dial(c)
  BY <1>1 DEF Dial
<1>2. ASSUME NEW r \in Requests, Send(c, r)
      PROVE  DInv'
  BY <1>2 DEF Send
<1>3. CASE HangUp(c)
  BY <1>3 DEF HangUp
<1> QED
  BY <1>1, <1>2, <1>3 DEF Client

(* The accept loop starts a handler at its first place. *)
LEMMA ServeStep ==
    ASSUME DInv, Serve
    PROVE  DInv'
<1> USE DEF DInv, DaemonTypeOK, MainInv, StopInv, StartInv, AnswerInv, Asked,
        Registered, Apps, HandlerPlaces, Backlog, server, conns, apps, list
<1>1. ASSUME NEW c \in Clients, Accept(c)
      PROVE  DInv'
  <2>1. DaemonTypeOK'
    BY <1>1 DEF Accept
  <2>2. MainInv' /\ StopInv' /\ StartInv' /\ AnswerInv'
    BY <1>1 DEF Accept
  <2> QED
    BY <2>1, <2>2
<1>2. ASSUME NEW c \in Clients, Track(c)
      PROVE  DInv'
  <2>1. DaemonTypeOK'
    BY <1>2 DEF Track
  <2>2. MainInv' /\ StopInv' /\ StartInv' /\ AnswerInv'
    BY <1>2 DEF Track
  <2> QED
    BY <2>1, <2>2
<1>3. CASE AcceptFails
  BY <1>3 DEF AcceptFails
<1>4. CASE ServeReturns
  BY <1>4 DEF ServeReturns
<1>5. CASE CtxClosesListener
  BY <1>5, ZenonT(60) DEF CtxClosesListener
<1> QED
  BY <1>1, <1>2, <1>3, <1>4, <1>5 DEF Serve

(* A handler: what it does to the registry it does once, and the cancel    *)
(* that it starts has it as its witness.                                   *)
LEMMA HandlerStep ==
    ASSUME DInv, NEW c \in Clients,
           Handler(c) \/ StreamBlocks(c) \/ StreamResumes(c)
    PROVE  DInv'
<1> USE DEF DInv, DaemonTypeOK, MainInv, StopInv, StartInv, AnswerInv, Asked,
        Registered, Apps, HandlerPlaces, ClientPlaces, AppPlaces, Handle,
        server, conns, apps, list
<1>1. CASE ReadRequest(c)
  BY <1>1 DEF ReadRequest
<1>2. CASE RunShutdown(c)
  BY <1>2 DEF RunShutdown
<1>3. CASE RunStream(c)
  BY <1>3 DEF RunStream
<1>4. CASE RunStart(c)
  BY <1>4 DEF RunStart
<1>5. CASE SpawnApp(c)
  BY <1>5 DEF SpawnApp
<1>6. CASE StreamEnds(c)
  BY <1>6 DEF StreamEnds
<1>7. CASE Respond(c)
  BY <1>7 DEF Respond
<1>8. CASE StreamBlocks(c)
  BY <1>8 DEF StreamBlocks
<1>9. CASE StreamResumes(c)
  BY <1>9 DEF StreamResumes
<1>10. ASSUME NEW a \in Apps, RunRestart(c, a)
       PROVE  DInv'
  BY <1>10 DEF RunRestart
<1>11. ASSUME NEW a \in Apps, RestartSpawns(c, a)
       PROVE  DInv'
  <2>1. DaemonTypeOK'
    BY <1>11 DEF RestartSpawns
  <2>2. MainInv' /\ StopInv'
    BY <1>11 DEF RestartSpawns
  <2>3. StartInv'
    BY <1>11 DEF RestartSpawns
  <2>4. AnswerInv'
    BY <1>11 DEF RestartSpawns
  <2> QED
    BY <2>1, <2>2, <2>3, <2>4
<1>12. ASSUME NEW a \in Apps, RestartTimesOut(c, a)
       PROVE  DInv'
  BY <1>12 DEF RestartTimesOut
<1> QED
  BY <1>1, <1>2, <1>3, <1>4, <1>5, <1>6, <1>7, <1>8, <1>9, <1>10, <1>11,
     <1>12 DEF Handler

(* A goroutine with its stopCh closed does not pass the top of its loop. *)
LEMMA AppStep ==
    ASSUME DInv, NEW a \in Apps, Supervise(a) \/ Outside(a)
    PROVE  DInv'
<1> USE DEF DInv, DaemonTypeOK, MainInv, StopInv, StartInv, AnswerInv, Asked,
        Registered, Apps, AppPlaces, Loop, server, conns, list
<1>1. CASE TopPasses(a)
  BY <1>1 DEF TopPasses
<1>2. CASE ChildStarts(a)
  BY <1>2 DEF ChildStarts
<1>3. CASE StartFails(a)
  BY <1>3 DEF StartFails
<1>4. CASE LoopEnds(a)
  BY <1>4 DEF LoopEnds
<1>5. CASE CtxKillsChild(a)
  BY <1>5 DEF CtxKillsChild
<1>6. CASE HookBegins(a)
  BY <1>6 DEF HookBegins
<1>7. CASE HookEnds(a)
  BY <1>7 DEF HookEnds
<1>8. CASE ChildDies(a)
  BY <1>8 DEF ChildDies
<1> QED
  BY <1>1, <1>2, <1>3, <1>4, <1>5, <1>6, <1>7, <1>8 DEF Supervise, Outside

(* Shutdown takes every registered app; Close waits for the handlers.      *)
LEMMA MainStep ==
    ASSUME DInv, Main
    PROVE  DInv'
<1> USE DEF DInv, DaemonTypeOK, MainInv, StopInv, StartInv, AnswerInv, Asked,
        Registered, Apps, MainPlaces, server, conns, apps, list
<1>1. CASE BeginShutdown
  BY <1>1 DEF BeginShutdown
<1>2. ASSUME NEW a \in Apps, StopApp(a)
      PROVE  DInv'
  BY <1>2 DEF StopApp
<1>3. ASSUME NEW a \in Apps, AppStopped(a)
      PROVE  DInv'
  BY <1>3 DEF AppStopped, Late
<1>4. CASE CancelSupervisor
  BY <1>4 DEF CancelSupervisor
<1>5. CASE CloseListener
  BY <1>5 DEF CloseListener
<1>6. CASE CloseReturns
  BY <1>6 DEF CloseReturns, InFlight
<1>7. CASE Exit
  BY <1>7 DEF Exit
<1> QED
  BY <1>1, <1>2, <1>3, <1>4, <1>5, <1>6, <1>7 DEF Main

(* Only a handler of a shutdown request sets cancels. *)
LEMMA CancelStep ==
    ASSUME DInv, Signal \/ Cancel
    PROVE  DInv'
<1> USE DEF DInv, DaemonTypeOK, MainInv, StopInv, StartInv, AnswerInv, Asked,
        Registered, Apps, server, conns, apps, list
<1>1. CASE Signal
  BY <1>1 DEF Signal
<1>2. CASE Cancel
  BY <1>2 DEF Cancel
<1> QED
  BY <1>1, <1>2

-----------------------------------------------------------------------------

(* The invariant is inductive. *)
LEMMA StepInv == DInv /\ [Next]_vars => DInv'
<1> SUFFICES ASSUME DInv, [Next]_vars PROVE DInv'
  OBVIOUS
<1>1. CASE UNCHANGED vars
  BY <1>1 DEF vars, server, conns, apps, list, DInv, DaemonTypeOK, MainInv,
     StopInv, StartInv, AnswerInv, Asked, Registered
<1>2. CASE Over
  BY <1>1, <1>2 DEF Over
<1>3. CASE Next /\ ~Over
  BY <1>3, ClientStep, ServeStep, HandlerStep, AppStep, MainStep, CancelStep
     DEF Next
<1> QED
  BY <1>1, <1>2, <1>3

(* It holds when the server begins to accept. *)
LEMMA InitInv == Init => DInv
BY DaemonAssumption
   DEF Init, DInv, DaemonTypeOK, MainInv, StopInv, StartInv, AnswerInv,
       Asked, Registered, Apps, MainPlaces, ClientPlaces, HandlerPlaces,
       AppPlaces

(* The inductive invariant holds in every reachable state. *)
THEOREM DaemonInductive == Spec => []DInv
BY InitInv, StepInv, PTL DEF Spec

(* Type correctness; what Shutdown stops is registered. *)
THEOREM DaemonTypeCorrect == Spec => []DaemonTypeOK
<1>1. DInv => DaemonTypeOK
  BY DEF DInv
<1> QED
  BY <1>1, DaemonInductive, PTL

(* A daemon that no signal ended has answered a client that asked for the  *)
(* end: the answer that races `go cancel()` wins, because Close waits for  *)
(* the handler that has it to write.                                       *)
THEOREM ShutdownIsAnsweredHolds == Spec => []ShutdownIsAnswered
<1>1. DInv => ShutdownIsAnswered
  BY DEF DInv, AnswerInv, Asked, ShutdownIsAnswered
<1> QED
  BY <1>1, DaemonInductive, PTL

(* When the supervisor's ctx is cancelled no app that Shutdown stopped has *)
(* a child, or will have one, though Shutdown gives up on a late goroutine *)
(* and Restarts in flight go on.                                           *)
THEOREM StopBeforeCtxHolds == Spec => []StopBeforeCtx
<1>1. DInv => StopBeforeCtx
  BY DEF DInv, MainInv, StopInv, StopBeforeCtx
<1> QED
  BY <1>1, DaemonInductive, PTL
=============================================================================
