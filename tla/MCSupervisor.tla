----------------------------- MODULE MCSupervisor -----------------------------
(* Constants for the runs of module Supervisor. *)
EXTENDS SupervisorProofs, TLC

CONSTANTS c1, c2

Solo == {c1}
Pair == {c1, c2}
(* Callers are interchangeable: sound for the runs of safety properties. *)
PairSymmetry == Permutations(Pair)

Base == [autoRestart |-> TRUE, maxRestarts |-> 0, watch |-> FALSE,
         build |-> FALSE, health |-> FALSE, preStart |-> FALSE,
         dependsOn |-> FALSE]

(* A service with a health check that gives up after two restarts. *)
Service == [Base EXCEPT !.maxRestarts = 2, !.health = TRUE]
(* A watched app with every hook there is. *)
Hooked == [Base EXCEPT !.watch = TRUE, !.build = TRUE, !.preStart = TRUE,
                       !.dependsOn = TRUE, !.maxRestarts = 1]
(* A watched app that is rebuilt, but not restarted. *)
Rebuilt == [Base EXCEPT !.watch = TRUE, !.build = TRUE, !.autoRestart = FALSE]
(* A watched app that gives up after one restart. *)
Watched == [Base EXCEPT !.watch = TRUE, !.maxRestarts = 1]
(* A watched app that is restarted without end, and has nothing to build. *)
Tireless == [Base EXCEPT !.watch = TRUE]
OneShot == [Base EXCEPT !.autoRestart = FALSE]

JustBase == {Base}
JustService == {Service}
(* Two configs of one app, so that StartApp really replaces something. *)
BothWatched == {Watched, [Watched EXCEPT !.autoRestart = FALSE]}
EveryConfig == {Base, Service, Hooked, Rebuilt, Tireless, OneShot}

StopOnly == {"stop"}
CallOps == {"stop", "restart", "delete", "shutdown"}
AllOps == {"start", "stop", "restart", "delete", "shutdown"}
=============================================================================
