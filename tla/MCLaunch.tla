------------------------------- MODULE MCLaunch -------------------------------
(* Constants for the runs of module Launch. *)
EXTENDS Launch

CONSTANTS c1, c2, c3, d1, d2, d3, app

ThreeClis == {c1, c2, c3}
ThreeDaemons == {d1, d2, d3}
OneApp == {app}
EveryCommand == {"start", "daemon", "shutdown"}
=============================================================================
