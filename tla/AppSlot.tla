-------------------------------- MODULE AppSlot --------------------------------
(***************************************************************************)
(* What the supervisor promises of one app, whoever calls it and whatever  *)
(* becomes of its children: a slot that holds at most one child, under one *)
(* keeper at a time.  The keeper alone fills and empties the slot, leaves  *)
(* only an empty one, and is replaced only when it has left and a stop had *)
(* been asked for; the app is shown as off only while the slot is empty.   *)
(* Module Supervisor implements it.                                        *)
(***************************************************************************)
VARIABLES
    up,     \* a child is in the slot
    kept,   \* the slot has a keeper
    asked,  \* a stop was asked of this keeper
    shown   \* the status tells that the app is on

vars == <<up, kept, asked, shown>>

Init == up = FALSE /\ kept = TRUE /\ asked = FALSE /\ shown = FALSE

Fill ==
    /\ kept /\ ~up
    /\ up' = TRUE
    /\ UNCHANGED <<kept, asked, shown>>

Empty ==
    /\ kept /\ up
    /\ up' = FALSE
    /\ UNCHANGED <<kept, asked, shown>>

Show ==
    /\ kept
    /\ shown' \in IF up THEN {TRUE} ELSE BOOLEAN
    /\ UNCHANGED <<up, kept, asked>>

Ask == asked' = TRUE /\ UNCHANGED <<up, kept, shown>>

Leave ==
    /\ kept /\ ~up
    /\ kept' = FALSE
    /\ UNCHANGED <<up, asked, shown>>

Replace ==
    /\ ~kept /\ asked
    /\ kept' = TRUE
    /\ asked' = FALSE
    /\ UNCHANGED <<up, shown>>

Next == Fill \/ Empty \/ Show \/ Ask \/ Leave \/ Replace

Spec == Init /\ [][Next]_vars
=============================================================================
