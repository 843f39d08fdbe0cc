----------------------------- MODULE LaunchProofs -----------------------------
(***************************************************************************)
(* The inductive invariant of module Launch and what follows from it for   *)
(* every number of CLIs, daemons, apps and crashes.                        *)
(***************************************************************************)
EXTENDS Launch, TLAPS

(* The port belongs to the daemon that bound it until that one leaves or   *)
(* dies, no daemon runs an app before it has the port, and a request was   *)
(* sent to some daemon.                                                    *)
PortInv ==
    /\ port # NoDaemon => daemon[port] \in {"bound", "serving", "leaving"}
    /\ \A d \in Daemons : daemon[d] \in {"bound", "serving"} => port = d
    /\ \A d \in Daemons : runs[d] # {} =>
           daemon[d] \in {"serving", "leaving", "exited", "crashed"}
    /\ \A c \in Clis : cli[c] = "sent" => peer[c] \in Daemons

LInv == LaunchTypeOK /\ PortInv

(* A CLI spawns a process nobody has spawned before. *)
LEMMA FreshDaemon ==
    ASSUME NEW c \in Clis, Spawn(c)
    PROVE  Fresh \in Daemons /\ daemon[Fresh] = "none"
BY DEF Spawn, Fresh

(* What a CLI does keeps the invariant. *)
LEMMA CliInv ==
    ASSUME LInv, NEW c \in Clis,
           Cli(c) \/ \E what \in Commands : Begin(c, what)
    PROVE  LInv'
<1> USE LaunchAssumption
       DEF LInv, LaunchTypeOK, PortInv, CliStep, DaemonStep, CliPlaces,
           DaemonPlaces, apps
<1>1. CASE \E what \in Commands : Begin(c, what)
  BY <1>1 DEF Begin
<1>2. CASE PingAnswered(c) \/ PingFails(c) \/ WaitAnswered(c) \/ WaitEnds(c)
  BY <1>2 DEF PingAnswered, PingFails, WaitAnswered, Reached, WaitEnds
<1>3. CASE Spawn(c)
  <2>1. Fresh \in Daemons /\ daemon[Fresh] = "none"
    BY <1>3, FreshDaemon
  <2>2. /\ daemon' = [daemon EXCEPT ![Fresh] = "spawned"]
        /\ cli' \in [Clis -> CliPlaces]
        /\ \A b \in Clis : cli'[b] = "sent" => cli[b] = "sent"
        /\ UNCHANGED <<command, peer, port, procs, runs, saved, crashes>>
    BY <1>3 DEF Spawn
  <2> HIDE DEF Fresh
  <2> QED
    BY <2>1, <2>2
<1>4. CASE Dial(c)
  BY <1>4 DEF Dial
<1>5. CASE SendFails(c)
  BY <1>5 DEF SendFails
<1>6. CASE SendShutdown(c)
  BY <1>6 DEF SendShutdown, Served, Handling
<1>7. ASSUME NEW a \in Apps, SendStart(c, a) PROVE LInv'
  <2>1. /\ peer[c] \in Daemons /\ daemon[peer[c]] \in {"serving", "leaving"}
        /\ cli' = [cli EXCEPT ![c] = "ended"]
        /\ peer' = [peer EXCEPT ![c] = NoDaemon]
        /\ UNCHANGED <<command, port, crashes, daemon>>
    BY <1>7 DEF SendStart, Served, Handling
  <2>2. /\ runs' \in [Daemons -> SUBSET Apps]
        /\ procs' \in [Daemons -> SUBSET Apps]
    BY <1>7, <2>1 DEF SendStart
  <2>3. saved' \subseteq Apps
    BY <1>7, <2>1, <2>2 DEF SendStart
  <2>4. \A d \in Daemons : runs'[d] # {} => runs[d] # {} \/ d = peer[c]
    BY <1>7, <2>1 DEF SendStart
  <2> QED
    BY <2>1, <2>2, <2>3, <2>4
<1> QED
  BY <1>1, <1>2, <1>3, <1>4, <1>5, <1>6, <1>7 DEF Cli

(* What a daemon does, or what is done to it, keeps the invariant. *)
LEMMA DaemonInv ==
    ASSUME LInv, NEW d \in Daemons,
           Launching(d) \/ Signalled(d) \/ Leaving(d) \/ Crash(d)
    PROVE  LInv'
<1> USE LaunchAssumption
       DEF LInv, LaunchTypeOK, PortInv, DaemonStep, DaemonPlaces, users, apps,
           Ends
<1>1. CASE Listen(d) \/ ListenFails(d)
  BY <1>1 DEF Listen, ListenFails
<1>2. CASE Restore(d)
  BY <1>2 DEF Restore
<1>3. CASE Signalled(d) \/ CloseListener(d)
  BY <1>3 DEF Signalled, CloseListener
<1>4. ASSUME NEW a \in Apps, StopApp(d, a) PROVE LInv'
  BY <1>4 DEF StopApp
<1>5. CASE Exit(d)
  BY <1>5 DEF Exit
<1>6. CASE Crash(d)
  BY <1>6 DEF Crash
<1> QED
  BY <1>1, <1>2, <1>3, <1>4, <1>5, <1>6 DEF Launching, Leaving

(* The invariant is inductive. *)
LEMMA StepInv == LInv /\ [Next]_vars => LInv'
<1> SUFFICES ASSUME LInv, [Next]_vars PROVE LInv'
  OBVIOUS
<1>1. CASE UNCHANGED vars
  BY <1>1 DEF vars, users, apps, LInv, LaunchTypeOK, PortInv
<1> QED
  BY <1>1, CliInv, DaemonInv DEF Next

(* Nobody listens and nothing runs before the first CLI. *)
LEMMA InitInv == Init => LInv
BY LaunchAssumption
   DEF Init, LInv, LaunchTypeOK, PortInv, CliPlaces, DaemonPlaces

(* The invariant holds in every reachable state. *)
THEOREM LaunchInductive == Spec => []LInv
BY InitInv, StepInv, PTL DEF Spec

(* Type correctness. *)
THEOREM LaunchTypeCorrect == Spec => []LaunchTypeOK
<1>1. LInv => LaunchTypeOK
  BY DEF LInv
<1> QED
  BY <1>1, LaunchInductive, PTL

(* Two daemons run one app only if one is on its way out or has left it    *)
(* behind, however many were spawned at once and whatever is started in a  *)
(* daemon that leaves.                                                     *)
THEOREM SparesStartNothingHolds == Spec => []SparesStartNothing
<1>1. LInv => SparesStartNothing
  <2> SUFFICES ASSUME LInv, NEW d \in Daemons, NEW e \in Daemons,
                      runs[d] \cap runs[e] # {}, d # e
               PROVE  {d, e} \cap Past # {}
    BY DEF SparesStartNothing
  <2>1. runs[d] # {} /\ runs[e] # {}
    OBVIOUS
  <2>2. ~(daemon[d] = "serving" /\ daemon[e] = "serving")
    BY DEF LInv, PortInv
  <2>3. d \in Past \/ e \in Past
    BY <2>1, <2>2 DEF LInv, PortInv, Past
  <2> QED
    BY <2>3
<1> QED
  BY <1>1, LaunchInductive, PTL
=============================================================================
