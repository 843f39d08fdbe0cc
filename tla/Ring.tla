--------------------------------- MODULE Ring ---------------------------------
(***************************************************************************)
(* The ring buffer of a log (internal/logger, ringBuffer): the last        *)
(* Capacity lines in a circular array, and what `gopm logs` reads from it. *)
(* procLog.bufMu makes each operation one step.                            *)
(***************************************************************************)
EXTENDS Integers, Sequences

CONSTANTS
    Capacity,  \* of the buffer
    Lines,     \* what a line may be
    Recent,    \* the lines a --since and --grep filter lets through
    NoLine,    \* what the array holds where nothing was written
    MaxAdded   \* bound: lines added

ASSUME RingAssumption ==
    /\ Capacity \in Nat \ {0}
    /\ MaxAdded \in Nat
    /\ NoLine \notin Lines
    /\ Recent \subseteq Lines

VARIABLES
    data,  \* the array, from 0
    head,  \* index of the next write
    size,  \* entries held
    added  \* history: every line added, in order

vars == <<data, head, size, added>>

RingTypeOK ==
    /\ data \in [0..Capacity - 1 -> Lines \cup {NoLine}]
    /\ head \in 0..Capacity - 1
    /\ size \in 0..Capacity
    /\ added \in Seq(Lines) /\ Len(added) <= MaxAdded

Init ==
    /\ data = [i \in 0..Capacity - 1 |-> NoLine]
    /\ head = 0
    /\ size = 0
    /\ added = <<>>

Add(e) ==
    /\ data' = [data EXCEPT ![head] = e]
    /\ head' = (head + 1) % Capacity
    /\ size' = IF size < Capacity THEN size + 1 ELSE size

Next ==
    /\ Len(added) < MaxAdded
    /\ \E e \in Lines : Add(e) /\ added' = Append(added, e)

Spec == Init /\ [][Next]_vars

-----------------------------------------------------------------------------
(* Queries. *)

(* How many entries tail(n) returns. *)
Wanted(n) == IF n <= 0 \/ n > size THEN size ELSE n

(* Mutant: the start is one too far. *)
TailOffByOne(n) ==
    [i \in 1..Wanted(n) |-> data[(head - Wanted(n) + Capacity + i) % Capacity]]

(* The start is head - n modulo the capacity, made positive. *)
Tail_(n) ==
    LET start == (head - Wanted(n) + Capacity) % Capacity
    IN  [i \in 1..Wanted(n) |-> data[(start + i - 1) % Capacity]]

LastOf(s, n) ==
    IF n > 0 /\ Len(s) > n THEN SubSeq(s, Len(s) - n + 1, Len(s)) ELSE s

Passes(e) == e \in Recent

(* Mutant: the limit is applied before the filter. *)
LimitThenFilter(n) == SelectSeq(Tail_(n), Passes)

(* The filter runs over all that is held, the limit after it. *)
TailFiltered(n) == LastOf(SelectSeq(Tail_(0), Passes), n)

-----------------------------------------------------------------------------
(* Properties. *)

(* What is still in the log: the last Capacity lines. *)
Kept == LastOf(added, Capacity)

Counts == -1..Capacity + 2

(* tail(n) is the last n of the lines that are kept, in order, for every n *)
(* and every position of the head; n <= 0 means all.                       *)
TailIsLastLines == \A n \in Counts : Tail_(n) = LastOf(Kept, n)

(* The slot of the i-th newest entry.                                      *)
Slot(i) == IF i <= head THEN head - i ELSE head - i + Capacity

(* The inductive invariant behind it: the i-th newest line is in its slot. *)
RingInv ==
    /\ RingTypeOK
    /\ size = IF Len(added) < Capacity THEN Len(added) ELSE Capacity
    /\ \A i \in 1..size : data[Slot(i)] = added[Len(added) + 1 - i]

(* A filtered tail is the last n of the kept lines that pass, not those    *)
(* of the last n that pass.                                                *)
FilteredIsLastPassing ==
    \A n \in Counts : TailFiltered(n) = LastOf(SelectSeq(Kept, Passes), n)
=============================================================================
