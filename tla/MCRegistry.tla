------------------------------ MODULE MCRegistry ------------------------------
(* Constants for the runs of module Registry. *)
EXTENDS Registry, TLC

CONSTANTS web, api, k1, k2, c1, c2

TwoApps == {web, api}
TwoConfigs == {k1, k2}
Pair == {c1, c2}

(* Apps, configs and clients are interchangeable. *)
Symmetry ==
    Permutations(TwoApps) \cup Permutations(TwoConfigs) \cup Permutations(Pair)
=============================================================================
