---------------------------- MODULE MCDependencies ----------------------------
(* Constants for the run of module Dependencies. *)
EXTENDS Dependencies

CONSTANTS db, api, ghost

TwoApps == {db, api}
WithGhost == TwoApps \cup {ghost}
JustDb == {db}
DbTwice == [x \in TwoApps |-> IF x = db THEN 2 ELSE 1]
DbCheckers == JustDb \X (1..2)

Lists(ofDb, ofApi) == [x \in TwoApps |-> IF x = db THEN ofDb ELSE ofApi]

(* A chain, a cycle, and a name that nobody starts behind one that comes   *)
(* up.                                                                     *)
ThreeGraphs ==
    {Lists(<<>>, <<db>>), Lists(<<api>>, <<db>>), Lists(<<>>, <<db, ghost>>)}
=============================================================================
