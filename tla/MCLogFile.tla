------------------------------ MODULE MCLogFile -------------------------------
(* Constants for the runs of module LogFile. *)
EXTENDS LogFile, TLC

CONSTANTS stdout, stderr, h1

BothWriters == {stdout, stderr}
OneHandler == {h1}
=============================================================================
