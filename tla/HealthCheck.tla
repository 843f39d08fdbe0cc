----------------------------- MODULE HealthCheck -----------------------------
(***************************************************************************)
(* The health checkers of internal/healthcheck: one goroutine per child    *)
(* that polls a URL and reports, on a channel of its own, each change of   *)
(* its verdict.  Stop only asks: a check under way runs to its end, and    *)
(* what it finds still goes to the channel.                                *)
(***************************************************************************)
EXTENDS Integers, Sequences

CONSTANTS
    Checkers,  \* every Checker that may be made
    Retries,   \* failed checks in a row that make an app unhealthy
    Slots      \* of a status channel

ASSUME HealthAssumption == Retries \in Nat \ {0} /\ Slots \in Nat \ {0}

Changes == {"ready", "unhealthy"}
Verdicts == Changes \cup {"unknown"}

VARIABLES
    checker,   \* where each goroutine stands
    stopping,  \* the checkers whose stopCh is closed
    failures,  \* failed checks in a row, as far as Retries
    current,   \* its verdict
    statusCh,  \* the changes of it sent and not received
    lost       \* history: checkers that found their channel full

healthVars == <<checker, stopping, failures, current, statusCh, lost>>

HealthTypeOK ==
    /\ checker \in [Checkers -> {"off", "select", "check", "closed"}]
    /\ stopping \subseteq Checkers
    /\ failures \in [Checkers -> 0..Retries]
    /\ current \in [Checkers -> Verdicts]
    /\ statusCh \in [Checkers -> Seq(Changes)]
    /\ \A k \in Checkers : Len(statusCh[k]) <= Slots
    /\ lost \subseteq Checkers

HealthInit ==
    /\ checker = [k \in Checkers |-> "off"]
    /\ stopping = {}
    /\ failures = [k \in Checkers |-> 0]
    /\ current = [k \in Checkers |-> "unknown"]
    /\ statusCh = [k \in Checkers |-> <<>>]
    /\ lost = {}

CheckerStep(k, from, to) ==
    checker[k] = from /\ checker' = [checker EXCEPT ![k] = to]

Start(k) ==
    /\ CheckerStep(k, "off", "select")
    /\ UNCHANGED <<stopping, failures, current, statusCh, lost>>

(* Nobody reads the channel from here on; what the goroutine counted so    *)
(* far is forgotten.                                                       *)
Stop(k) ==
    /\ stopping' = stopping \cup {k}
    /\ failures' = [failures EXCEPT ![k] = 0]
    /\ current' = [current EXCEPT ![k] = "unknown"]
    /\ lost' = lost \ {k}
    /\ UNCHANGED <<checker, statusCh>>

(* A tick that its select prefers to a closed stopCh finds out no more     *)
(* than the check a Stop meets under way, and is left out.                 *)
Tick(k) ==
    /\ k \notin stopping
    /\ CheckerStep(k, "select", "check")
    /\ UNCHANGED <<stopping, failures, current, statusCh, lost>>

(* The verdict after a check: failures count only in a row. *)
Verdict(k, ok) ==
    IF ok THEN "ready"
    ELSE IF failures[k] + 1 >= Retries THEN "unhealthy" ELSE current[k]

(* A change is sent unless the channel is full; it is not sent again.      *)
Checked(k, ok) ==
    LET next == Verdict(k, ok)
    IN  /\ CheckerStep(k, "check", "select")
        /\ failures' = [failures EXCEPT ![k] =
               IF ok THEN 0 ELSE IF @ < Retries THEN @ + 1 ELSE @]
        /\ current' = [current EXCEPT ![k] = next]
        /\ IF next = current[k]
           THEN UNCHANGED <<statusCh, lost>>
           ELSE IF Len(statusCh[k]) < Slots
           THEN statusCh' = [statusCh EXCEPT ![k] = Append(@, next)]
                /\ UNCHANGED lost
           ELSE lost' = lost \cup {k} /\ UNCHANGED statusCh
        /\ UNCHANGED stopping

(* stopCh is closed: the goroutine ends and nobody reads what it found.    *)
Closes(k) ==
    /\ k \in stopping
    /\ CheckerStep(k, "select", "closed")
    /\ failures' = [failures EXCEPT ![k] = 0]
    /\ current' = [current EXCEPT ![k] = "unknown"]
    /\ statusCh' = [statusCh EXCEPT ![k] = <<>>]
    /\ lost' = lost \ {k}
    /\ UNCHANGED stopping

Receive(k) ==
    /\ statusCh[k] # <<>>
    /\ statusCh' = [statusCh EXCEPT ![k] = Tail(@)]
    /\ UNCHANGED <<checker, stopping, failures, current, lost>>

Checking(k) == Tick(k) \/ Closes(k) \/ \E ok \in BOOLEAN : Checked(k, ok)
=============================================================================
