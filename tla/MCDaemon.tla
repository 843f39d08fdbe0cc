------------------------------- MODULE MCDaemon -------------------------------
(* Constants for the runs of module Daemon. *)
EXTENDS Daemon, TLC

CONSTANTS c1, c2

Pair == {c1, c2}
(* No app is restored: those that are stopped were started by the clients. *)
Nobody == {}
AllRequests == {"stream", "start", "restart", "shutdown"}
=============================================================================
