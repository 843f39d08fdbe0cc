----------------------------- MODULE MCLogStream -----------------------------
(* Constants for the run of module LogStream. *)
EXTENDS LogStream

CONSTANTS out, reporter, one, all

OneScanner == {out}
OneReporter == {reporter}
OneFollower == {one}
OneOfAll == {all}
TwoAndOne == [w \in Writers |-> IF w \in Scanners THEN 2 ELSE 1]
EveryLine == UNION {{w} \X (1..TwoAndOne[w]) : w \in Writers}
ScannedLines == {l \in EveryLine : l[1] \in Scanners}
=============================================================================
