---------------------------- MODULE LogStreamProofs ----------------------------
(***************************************************************************)
(* Followers of a log, for every number of writers, followers, procLogs    *)
(* and channel slots: the ring buffer goes on being the ring buffer of     *)
(* module Ring, and every follower reads the lines of a writer in order.   *)
(***************************************************************************)
EXTENDS LogStream, SequenceTheorems, TLAPS

-----------------------------------------------------------------------------
(* The ring buffer answers every tail correctly, for every capacity and    *)
(* every sequence of lines.  The arithmetic modulo the capacity is reduced *)
(* to comparisons first.                                                   *)

LEMMA ModBelow ==
    ASSUME NEW x \in Nat, NEW c \in Nat, x < c
    PROVE  x % c = x
BY SMT

LEMMA ModAbove ==
    ASSUME NEW x \in Nat, NEW c \in Nat, c <= x, x < 2 * c
    PROVE  x % c = x - c
BY SMT

(* The index of the next write wraps around. *)
LEMMA NextHead ==
    ASSUME head \in 0..Capacity - 1
    PROVE  (head + 1) % Capacity = IF head + 1 < Capacity THEN head + 1 ELSE 0
<1>1. head + 1 \in Nat /\ Capacity \in Nat
  BY RingAssumption
<1>2. CASE head + 1 < Capacity
  BY <1>1, <1>2, ModBelow
<1>3. CASE head + 1 >= Capacity
  <2>1. head + 1 = Capacity
    BY <1>3, RingAssumption
  <2> QED
    BY <1>1, <2>1, RingAssumption, ModAbove
<1> QED
  BY <1>1, <1>2, <1>3

(* Where tail reads its i-th entry of w. *)
LEMMA ReadSlot ==
    ASSUME head \in 0..Capacity - 1, NEW w \in 1..Capacity, NEW i \in 1..w
    PROVE  LET start == (head - w + Capacity) % Capacity
           IN  (start + i - 1) % Capacity = Slot(w - i + 1)
<1> DEFINE start == (head - w + Capacity) % Capacity
<1>1. head - w + Capacity \in Nat /\ Capacity \in Nat
  BY RingAssumption
<1>2. start = IF w <= head THEN head - w ELSE head - w + Capacity
  <2>1. CASE w <= head
    BY <1>1, <2>1, ModAbove
  <2>2. CASE w > head
    BY <1>1, <2>2, ModBelow
  <2> QED
    BY <2>1, <2>2
<1>3. start \in Nat /\ start + i - 1 \in Nat
  BY <1>2, RingAssumption
<1>4. start + i - 1 < 2 * Capacity
  BY <1>2, RingAssumption
<1> HIDE DEF start
<1>5. CASE start + i - 1 < Capacity
  BY <1>1, <1>2, <1>3, <1>5, ModBelow DEF Slot
<1>6. CASE start + i - 1 >= Capacity
  <2>1. Capacity <= start + i - 1
    BY <1>1, <1>3, <1>6
  <2>2. (start + i - 1) % Capacity = start + i - 1 - Capacity
    <3> DEFINE x == start + i - 1
    <3>1. x \in Nat /\ Capacity <= x /\ x < 2 * Capacity
      BY <1>3, <1>4, <2>1
    <3> HIDE DEF x
    <3>2. x % Capacity = x - Capacity
      BY <1>1, <3>1, ModAbove
    <3> QED
      BY <1>1, <1>3, <3>2 DEF x
  <2> QED
    BY <1>1, <1>2, <1>6, <2>2 DEF Slot
<1> QED
  BY <1>1, <1>3, <1>5, <1>6 DEF start

-----------------------------------------------------------------------------

LEMMA AddStep ==
    ASSUME RingInv, NEW e \in Lines, Len(added) < MaxAdded, Add(e),
           added' = Append(added, e)
    PROVE  RingInv'
<1> USE RingAssumption
<1>1. head' = IF head + 1 < Capacity THEN head + 1 ELSE 0
  BY NextHead DEF RingInv, RingTypeOK, Add
<1>2. /\ Len(added') = Len(added) + 1 /\ Len(added) \in Nat
      /\ added' \in Seq(Lines)
  BY DEF RingInv, RingTypeOK
<1>3. RingTypeOK'
  BY <1>1, <1>2 DEF RingInv, RingTypeOK, Add
<1>4. size' = IF Len(added') < Capacity THEN Len(added') ELSE Capacity
  BY <1>2 DEF RingInv, RingTypeOK, Add
<1>5. ASSUME NEW i \in 1..size'
      PROVE  data'[Slot(i)'] = added'[Len(added') + 1 - i]
  <2>1. CASE i = 1
    <3>1. Slot(i)' = head
      BY <1>1, <2>1 DEF Slot, RingInv, RingTypeOK
    <3>2. data'[head] = e
      BY DEF RingInv, RingTypeOK, Add
    <3> QED
      BY <1>2, <2>1, <3>1, <3>2 DEF RingInv, RingTypeOK
  <2>2. CASE i # 1
    <3>1. i - 1 \in 1..size /\ i - 1 < Capacity
      BY <2>2 DEF RingInv, RingTypeOK, Add
    <3>2. Slot(i)' = Slot(i - 1)
      BY <1>1, <2>2, <3>1 DEF Slot, RingInv, RingTypeOK
    <3>3. Slot(i - 1) # head
      BY <3>1 DEF Slot, RingInv, RingTypeOK
    <3>4. data'[Slot(i - 1)] = data[Slot(i - 1)]
      BY <3>1, <3>3 DEF Slot, RingInv, RingTypeOK, Add
    <3>5. data[Slot(i - 1)] = added[Len(added) + 1 - (i - 1)]
      BY <3>1 DEF RingInv
    <3>6. /\ Len(added') + 1 - i = Len(added) + 1 - (i - 1)
          /\ Len(added) + 1 - (i - 1) \in 1..Len(added)
      BY <1>2, <3>1 DEF RingInv
    <3> QED
      BY <1>2, <3>2, <3>4, <3>5, <3>6 DEF RingInv, RingTypeOK
  <2> QED
    BY <2>1, <2>2
<1> QED
  BY <1>3, <1>4, <1>5 DEF RingInv

(* The i-th newest line is in the slot that head gives it. *)
THEOREM RingInductive == Spec => []RingInv
<1>1. Init => RingInv
  BY RingAssumption DEF Init, RingInv, RingTypeOK
<1>2. RingInv /\ [Next]_vars => RingInv'
  <2> SUFFICES ASSUME RingInv, [Next]_vars PROVE RingInv'
    OBVIOUS
  <2>1. CASE Next
    BY <2>1, AddStep DEF Next
  <2>2. CASE UNCHANGED vars
    BY <2>2 DEF vars, RingInv, RingTypeOK, Slot
  <2> QED
    BY <2>1, <2>2
<1> QED
  BY <1>1, <1>2, PTL DEF Spec

(* How many entries the last n of s are, and which. *)
LastLen(s, n) == IF n > 0 /\ Len(s) > n THEN n ELSE Len(s)

LEMMA LastOfSeq ==
    ASSUME NEW s \in Seq(Lines), NEW n \in Int
    PROVE  /\ LastOf(s, n) \in Seq(Lines)
           /\ Len(LastOf(s, n)) = LastLen(s, n)
           /\ \A i \in 1..LastLen(s, n) :
                  LastOf(s, n)[i] = s[Len(s) - LastLen(s, n) + i]
<1>1. CASE n > 0 /\ Len(s) > n
  <2>1. LastOf(s, n) = SubSeq(s, Len(s) - n + 1, Len(s)) /\ LastLen(s, n) = n
    BY <1>1 DEF LastOf, LastLen
  <2>2. Len(s) - n + 1 \in 1..Len(s) /\ Len(s) \in Nat
    BY <1>1
  <2> QED
    BY <1>1, <2>1, <2>2
<1>2. CASE ~(n > 0 /\ Len(s) > n)
  <2>1. LastOf(s, n) = s /\ LastLen(s, n) = Len(s)
    BY <1>2 DEF LastOf, LastLen
  <2> QED
    BY <2>1
<1> QED
  BY <1>1, <1>2

LEMMA WantedRange ==
    ASSUME RingInv, NEW n \in Int
    PROVE  Wanted(n) \in 0..size /\ Wanted(n) <= Len(added)
<1>1. size \in Nat /\ size <= Len(added) /\ Len(added) \in Nat
  BY RingAssumption DEF RingInv, RingTypeOK
<1> QED
  BY <1>1 DEF Wanted

(* The i-th of the w lines that tail reads. *)
LEMMA TailEntry ==
    ASSUME RingInv, NEW n \in Int, NEW i \in 1..Wanted(n)
    PROVE  Tail_(n)[i] = added[Len(added) - Wanted(n) + i]
<1> DEFINE w == Wanted(n)
<1>1. w \in 1..size /\ w \in 1..Capacity /\ i \in 1..w
  <2>1. w \in 0..size
    BY WantedRange
  <2>2. size \in Nat /\ size <= Capacity /\ Capacity \in Nat
    BY RingAssumption DEF RingInv, RingTypeOK
  <2> HIDE DEF w
  <2>3. i \in 1..w
    BY DEF w
  <2> QED
    BY <2>1, <2>2, <2>3
<1>2. Tail_(n)[i] = data[Slot(w - i + 1)]
  BY <1>1, ReadSlot DEF Tail_, RingInv, RingTypeOK
<1> HIDE DEF w
<1>3. w - i + 1 \in 1..size
  BY <1>1 DEF RingInv, RingTypeOK
<1>4. data[Slot(w - i + 1)] = added[Len(added) + 1 - (w - i + 1)]
  BY <1>3 DEF RingInv
<1>5. Len(added) + 1 - (w - i + 1) = Len(added) - w + i
  BY <1>1 DEF RingInv, RingTypeOK
<1> QED
  BY <1>2, <1>4, <1>5 DEF w

(* `gopm logs -n` shows the last n of the lines kept (ringBuffer.tail), at *)
(* every fill level and every position of the head.                        *)
THEOREM TailIsLastLinesHolds == Spec => []TailIsLastLines
<1>1. RingInv => TailIsLastLines
  <2> SUFFICES ASSUME RingInv, NEW n \in Counts
               PROVE  Tail_(n) = LastOf(Kept, n)
    BY DEF TailIsLastLines
  <2> DEFINE w == Wanted(n)
  <2>1. n \in Int /\ Capacity \in Nat \ {0} /\ added \in Seq(Lines)
    BY RingAssumption DEF Counts, RingInv, RingTypeOK
  <2>2. w \in 0..size /\ w <= Len(added)
    BY <2>1, WantedRange
  <2>3. LastLen(added, Capacity) = size
    BY <2>1 DEF LastLen, RingInv, RingTypeOK
  <2>4. /\ Kept \in Seq(Lines) /\ Len(Kept) = size
        /\ \A i \in 1..size : Kept[i] = added[Len(added) - size + i]
    <3>1. Capacity \in Int
      BY <2>1
    <3> QED
      BY <2>1, <2>3, <3>1, LastOfSeq DEF Kept
  <2>5. LastLen(Kept, n) = w
    BY <2>1, <2>4 DEF LastLen, Wanted, RingInv, RingTypeOK
  <2>6. /\ LastOf(Kept, n) \in Seq(Lines) /\ Len(LastOf(Kept, n)) = w
        /\ \A i \in 1..w : LastOf(Kept, n)[i] = Kept[size - w + i]
    <3>1. Kept \in Seq(Lines) /\ n \in Int
      BY <2>1, <2>4
    <3>2. /\ LastOf(Kept, n) \in Seq(Lines)
          /\ Len(LastOf(Kept, n)) = LastLen(Kept, n)
          /\ \A i \in 1..LastLen(Kept, n) :
                 LastOf(Kept, n)[i] = Kept[Len(Kept) - LastLen(Kept, n) + i]
      BY <3>1, LastOfSeq
    <3> HIDE DEF w
    <3> QED
      BY <2>4, <2>5, <3>2
  <2>7. \A i \in 1..w : Tail_(n)[i] = added[Len(added) - w + i]
    BY <2>1, TailEntry
  <2>8. Tail_(n) = [i \in 1..w |-> Tail_(n)[i]]
    BY DEF Tail_
  <2> HIDE DEF w
  <2>9. \A i \in 1..w : Tail_(n)[i] = LastOf(Kept, n)[i]
    <3> TAKE i \in 1..w
    <3>1. size - w + i \in 1..size /\ size \in Nat /\ Len(added) \in Nat
      BY <2>1, <2>2 DEF RingInv, RingTypeOK
    <3>2. Len(added) - size + (size - w + i) = Len(added) - w + i
      BY <3>1, <2>2
    <3> QED
      BY <2>4, <2>6, <2>7, <3>1, <3>2
  <2>10. LastOf(Kept, n) = [i \in 1..w |-> LastOf(Kept, n)[i]]
    BY <2>6
  <2> QED
    BY <2>8, <2>9, <2>10
<1> QED
  BY <1>1, RingInductive, PTL
(* `gopm logs --since --grep -n` shows the last n of the kept lines that   *)
(* pass (ringBuffer.tailFiltered).                                         *)
THEOREM FilteredIsLastPassingHolds == Spec => []FilteredIsLastPassing
<1>1. TailIsLastLines => FilteredIsLastPassing
  <2> SUFFICES ASSUME TailIsLastLines PROVE FilteredIsLastPassing
    OBVIOUS
  <2>1. 0 \in Counts
    BY RingAssumption DEF Counts
  <2>2. Tail_(0) = Kept
    BY <2>1 DEF TailIsLastLines, LastOf
  <2> QED
    BY <2>2 DEF FilteredIsLastPassing, TailFiltered
<1> QED
  BY <1>1, TailIsLastLinesHolds, PTL

-----------------------------------------------------------------------------
(* The followers. *)

(* A writer between a ring and the followers has a procLog and a line. *)
WriterInv ==
    \A w \in Writers :
        /\ append[w] \in {"added", "fanned"} => at[w] \in Logs /\ written[w] > 0
        /\ w \in Scanners /\ append[w] = "idle" => at[w] \in Logs

(* A handler has a line in hand while it writes it, and only then. *)
LineInv ==
    \A f \in Followers :
        IF handler[f] = "encode" THEN line[f] \in Lines ELSE line[f] = NoLine

(* The last line of a writer that may have reached a follower. *)
Reached(f, w) ==
    IF append[w] = "added" \/ (append[w] = "fanned" /\ f \in AllFollowers)
    THEN written[w] - 1 ELSE written[w]

(* Nothing in a stream is ahead of its writer. *)
ReachedInv ==
    \A f \in Followers : \A i \in DOMAIN Stream(f) :
        Stream(f)[i][2] <= Reached(f, Stream(f)[i][1])

LSInv ==
    /\ RingInv /\ LogTypeOK
    /\ WriterInv /\ LineInv
    /\ ReachedInv /\ StreamKeepsOrder

-----------------------------------------------------------------------------
(* Data. *)

(* A line is the name of its writer and a number. *)
LEMMA LineParts ==
    /\ \A l \in Lines : l[1] \in Writers /\ l[2] \in Nat /\ l = <<l[1], l[2]>>
    /\ \A w \in Writers : \A n \in Nat :
           n > 0 /\ n <= MaxLines[w] => <<w, n>> \in Lines
<1>1. Lines = UNION {{w} \X (1..MaxLines[w]) : w \in Writers}
  BY LogStreamAssumption
<1>2. \A w \in Writers : MaxLines[w] \in Nat
  BY LogStreamAssumption
<1> QED
  BY <1>1, <1>2

(* A line that is ahead of those before it may follow them. *)
LEMMA AppendKeepsOrder ==
    ASSUME NEW s \in Seq(Lines), NEW l \in Lines,
           \A i, j \in DOMAIN s :
               i < j /\ s[i][1] = s[j][1] => s[i][2] < s[j][2],
           \A i \in DOMAIN s : s[i][1] = l[1] => s[i][2] < l[2]
    PROVE  LET t == Append(s, l)
           IN  /\ \A i, j \in DOMAIN t :
                      i < j /\ t[i][1] = t[j][1] => t[i][2] < t[j][2]
               /\ \A i \in DOMAIN t :
                      t[i] = l \/ (i \in DOMAIN s /\ t[i] = s[i])
<1> DEFINE t == Append(s, l)
<1>1. /\ DOMAIN s = 1..Len(s) /\ Len(s) \in Nat
      /\ DOMAIN t = 1..Len(s) + 1
      /\ t[Len(s) + 1] = l
      /\ \A i \in 1..Len(s) : t[i] = s[i]
  BY AppendProperties, LenProperties
<1> HIDE DEF t
<1>2. \A i \in DOMAIN t : i \in DOMAIN s \/ i = Len(s) + 1
  BY <1>1
<1>3. \A i \in DOMAIN t : t[i] = l \/ (i \in DOMAIN s /\ t[i] = s[i])
  <2> TAKE i \in DOMAIN t
  <2>1. CASE i \in DOMAIN s
    BY <1>1, <2>1
  <2>2. CASE i = Len(s) + 1
    BY <1>1, <2>2
  <2> QED
    BY <1>2, <2>1, <2>2
<1>4. ASSUME NEW i \in DOMAIN t, NEW j \in DOMAIN t, i < j, t[i][1] = t[j][1]
      PROVE  t[i][2] < t[j][2]
  <2>1. i \in DOMAIN s
    BY <1>1, <1>4
  <2>2. CASE j \in DOMAIN s
    BY <1>1, <1>4, <2>1, <2>2
  <2>3. CASE j = Len(s) + 1
    BY <1>1, <1>4, <2>1, <2>3
  <2> QED
    BY <1>2, <2>2, <2>3
<1> QED
  BY <1>3, <1>4 DEF t

(* A stream is a sequence of lines, and what goes into its channel comes   *)
(* last in it.                                                             *)
Held(f) == IF line[f] = NoLine THEN <<>> ELSE <<line[f]>>

LEMMA StreamType ==
    ASSUME LogTypeOK, NEW f \in Followers
    PROVE  /\ sent[f] \in Seq(Lines) /\ Held(f) \in Seq(Lines)
           /\ chan[f] \in Seq(Lines)
           /\ Stream(f) = (sent[f] \o Held(f)) \o chan[f]
           /\ Stream(f) \in Seq(Lines)
<1>1. sent[f] \in Seq(Lines) /\ chan[f] \in Seq(Lines)
      /\ line[f] \in Lines \cup {NoLine}
  BY DEF LogTypeOK
<1>2. Held(f) \in Seq(Lines)
  BY <1>1 DEF Held
<1>3. Stream(f) = (sent[f] \o Held(f)) \o chan[f]
  BY <1>1, <1>2, ConcatAssociative DEF Stream, Held
<1> QED
  BY <1>1, <1>2, <1>3, ConcatProperties

LEMMA StreamGrows ==
    ASSUME NEW s \in Seq(Lines), NEW h \in Seq(Lines), NEW c \in Seq(Lines),
           NEW l \in Lines
    PROVE  /\ (s \o h) \o Append(c, l) = Append((s \o h) \o c, l)
           /\ Append(s, l) \o <<>> = s \o <<l>>
<1>1. s \o h \in Seq(Lines) /\ (s \o h) \o c \in Seq(Lines)
      /\ <<l>> \in Seq(Lines)
  BY ConcatProperties
<1>2. Append(c, l) = c \o <<l>>
      /\ Append((s \o h) \o c, l) = ((s \o h) \o c) \o <<l>>
      /\ Append(s, l) = s \o <<l>>
  BY <1>1, AppendIsConcat
<1>3. ((s \o h) \o c) \o <<l>> = (s \o h) \o (c \o <<l>>)
  BY <1>1, ConcatAssociative
<1>4. (s \o <<l>>) \o <<>> = s \o <<l>>
  BY <1>1, ConcatProperties, ConcatEmptySeq
<1> QED
  BY <1>2, <1>3, <1>4

LEMMA StreamMoves ==
    ASSUME NEW s \in Seq(Lines), NEW c \in Seq(Lines), c # <<>>
    PROVE  (s \o <<Head(c)>>) \o Tail(c) = (s \o <<>>) \o c
<1>1. Head(c) \in Lines /\ Tail(c) \in Seq(Lines) /\ <<Head(c)>> \in Seq(Lines)
  BY HeadTailProperties
<1>2. (s \o <<Head(c)>>) \o Tail(c) = s \o (<<Head(c)>> \o Tail(c))
  BY <1>1, ConcatAssociative
<1>3. <<Head(c)>> \o Tail(c) = c
  <2> DEFINE d == <<Head(c)>> \o Tail(c)
  <2>1. /\ Len(<<Head(c)>>) = 1 /\ <<Head(c)>>[1] = Head(c)
        /\ Len(c) \in Nat \ {0} /\ Len(Tail(c)) = Len(c) - 1
        /\ \A i \in 1..Len(Tail(c)) : Tail(c)[i] = c[i + 1]
    BY <1>1, HeadTailProperties, EmptySeq
  <2>2. /\ d \in Seq(Lines) /\ Len(d) = 1 + Len(Tail(c))
        /\ \A i \in 1..1 + Len(Tail(c)) :
               d[i] = IF i <= 1 THEN <<Head(c)>>[i] ELSE Tail(c)[i - 1]
    BY <1>1, <2>1, ConcatProperties
  <2>3. Head(c) = c[1]
    BY <2>1
  <2> HIDE DEF d
  <2>4. Len(d) = Len(c) /\ \A i \in 1..Len(d) : d[i] = c[i]
    BY <2>1, <2>2, <2>3
  <2> QED
    BY <2>2, <2>4, SeqEqual DEF d
<1>4. s \o <<>> = s
  BY ConcatEmptySeq
<1> QED
  BY <1>2, <1>3, <1>4

-----------------------------------------------------------------------------
(* Streams. *)

Ordered(f) ==
    \A i, j \in DOMAIN Stream(f) :
        i < j /\ Stream(f)[i][1] = Stream(f)[j][1]
        => Stream(f)[i][2] < Stream(f)[j][2]

Behind(f) ==
    \A i \in DOMAIN Stream(f) :
        Stream(f)[i][2] <= Reached(f, Stream(f)[i][1])

(* A follower whose stream stays as it is, or is forgotten, stays in order *)
(* when no writer falls back.                                              *)
LEMMA StreamStays ==
    ASSUME LogTypeOK, LogTypeOK', NEW f \in Followers, Ordered(f), Behind(f),
           \/ Stream(f)' = <<>>
           \/ /\ Stream(f)' = Stream(f)
              /\ \A w \in Writers : Reached(f, w) <= Reached(f, w)'
    PROVE  Ordered(f)' /\ Behind(f)'
<1>1. CASE Stream(f)' = <<>>
  <2>1. DOMAIN Stream(f)' = {}
    BY <1>1
  <2> QED
    BY <2>1 DEF Ordered, Behind
<1>2. CASE /\ Stream(f)' = Stream(f)
           /\ \A w \in Writers : Reached(f, w) <= Reached(f, w)'
  <2>1. Ordered(f)'
    BY <1>2 DEF Ordered
  <2>2. ASSUME NEW i \in DOMAIN Stream(f), NEW w, w = Stream(f)[i][1]
        PROVE  Stream(f)[i][2] <= Reached(f, w)'
    <3>1. Stream(f)[i] \in Lines
      <4>1. Stream(f) \in Seq(Lines)
        BY StreamType
      <4> QED
        BY <4>1
    <3>2. w \in Writers /\ Stream(f)[i][2] \in Nat
      BY <3>1, <2>2, LineParts
    <3>3. Reached(f, w) \in Int /\ Reached(f, w)' \in Int
      BY <3>2 DEF Reached, LogTypeOK
    <3>4. Stream(f)[i][2] <= Reached(f, w)
      BY <2>2 DEF Behind
    <3>5. Reached(f, w) <= Reached(f, w)'
      BY <1>2, <3>2
    <3> QED
      BY <3>2, <3>3, <3>4, <3>5
  <2>3. Behind(f)'
    BY <1>2, <2>2 DEF Behind
  <2> QED
    BY <2>1, <2>3
<1> QED
  BY <1>1, <1>2

(* A line that goes into the channel comes last in the stream.             *)
LEMMA StreamAppends ==
    ASSUME LogTypeOK, NEW f \in Followers, NEW l \in Lines,
           sent'[f] = sent[f], line'[f] = line[f],
           chan'[f] = Append(chan[f], l)
    PROVE  Stream(f)' = Append(Stream(f), l)
<1>1. Held(f)' = Held(f)
  BY DEF Held
<1>2. /\ sent[f] \in Seq(Lines) /\ Held(f) \in Seq(Lines)
      /\ chan[f] \in Seq(Lines)
      /\ Stream(f) = (sent[f] \o Held(f)) \o chan[f]
  BY StreamType
<1>3. Append(chan[f], l) \in Seq(Lines)
  BY <1>2, AppendProperties
<1>4. Stream(f)' = (sent[f] \o Held(f)) \o Append(chan[f], l)
  BY <1>1, <1>2, <1>3, ConcatAssociative DEF Stream, Held
<1>5. (sent[f] \o Held(f)) \o Append(chan[f], l)
      = Append((sent[f] \o Held(f)) \o chan[f], l)
  BY <1>2, StreamGrows
<1> QED
  BY <1>2, <1>4, <1>5

(* One that gets the line of the writer w stays in order when that is a    *)
(* line further than any of w it may have.                                 *)
LEMMA StreamTakes ==
    ASSUME LogTypeOK, LogTypeOK', NEW f \in Followers, Ordered(f), Behind(f),
           NEW w \in Writers, written[w] > 0,
           sent'[f] = sent[f], line'[f] = line[f],
           chan'[f] = Append(chan[f], <<w, written[w]>>),
           Reached(f, w) < written[w], Reached(f, w)' = written[w],
           \A v \in Writers : Reached(f, v) <= Reached(f, v)'
    PROVE  Ordered(f)' /\ Behind(f)'
<1> DEFINE l == <<w, written[w]>>
<1>1. l \in Lines /\ l[1] = w /\ l[2] = written[w] /\ written[w] \in Nat
  BY LineParts DEF LogTypeOK
<1> HIDE DEF l
<1>2. Stream(f) \in Seq(Lines)
  BY StreamType
<1>3. Stream(f)' = Append(Stream(f), l)
  BY <1>1, StreamAppends DEF l
<1>4. \A v \in Writers : Reached(f, v) \in Int /\ Reached(f, v)' \in Int
  BY DEF Reached, LogTypeOK
<1>5. ASSUME NEW i \in DOMAIN Stream(f)
      PROVE  /\ Stream(f)[i][1] \in Writers /\ Stream(f)[i][2] \in Nat
             /\ Stream(f)[i][2] <= Reached(f, Stream(f)[i][1])
  <2>1. Stream(f)[i] \in Lines
    BY <1>2
  <2> QED
    BY <2>1, LineParts DEF Behind
<1>6. \A i \in DOMAIN Stream(f) :
          Stream(f)[i][1] = l[1] => Stream(f)[i][2] < l[2]
  BY <1>1, <1>4, <1>5
<1> DEFINE s == Stream(f)
           t == Append(s, l)
<1>7. \A i, j \in DOMAIN s : i < j /\ s[i][1] = s[j][1] => s[i][2] < s[j][2]
  BY DEF Ordered
<1>8. /\ \A i, j \in DOMAIN t : i < j /\ t[i][1] = t[j][1] => t[i][2] < t[j][2]
      /\ \A i \in DOMAIN t : t[i] = l \/ (i \in DOMAIN s /\ t[i] = s[i])
  <2> HIDE DEF s
  <2> QED
    BY <1>1, <1>2, <1>6, <1>7, AppendKeepsOrder DEF s
<1>9. ASSUME NEW i \in DOMAIN t, NEW v, v = t[i][1]
      PROVE  t[i][2] <= Reached(f, v)'
  <2> HIDE DEF t, s
  <2>1. CASE t[i] = l
    <3>1. v = w
      BY <1>1, <1>9, <2>1
    <3> QED
      BY <1>1, <2>1, <3>1
  <2>2. CASE i \in DOMAIN s /\ t[i] = s[i]
    <3>1. v \in Writers /\ s[i][2] \in Nat /\ s[i][2] <= Reached(f, v)
      BY <1>5, <1>9, <2>2 DEF s
    <3>2. Reached(f, v) <= Reached(f, v)'
      BY <3>1
    <3>3. Reached(f, v) \in Int /\ Reached(f, v)' \in Int
      BY <1>4, <3>1
    <3> QED
      BY <2>2, <3>1, <3>2, <3>3
  <2> QED
    BY <1>8, <2>1, <2>2
<1> QED
  BY <1>3, <1>8, <1>9 DEF Ordered, Behind

(* A stream that nothing is done to. *)
LEMMA StreamUntouched ==
    ASSUME NEW f \in Followers,
           UNCHANGED <<sent[f], line[f], chan[f]>>
    PROVE  Stream(f)' = Stream(f)
BY DEF Stream

(* The streams of all followers. *)
LEMMA Streams ==
    /\ ReachedInv <=> \A f \in Followers : Behind(f)
    /\ StreamKeepsOrder <=> \A f \in Followers : Ordered(f)
BY DEF ReachedInv, StreamKeepsOrder, Behind, Ordered

LEMMA StreamsNext ==
    ASSUME \A f \in Followers : Ordered(f)' /\ Behind(f)'
    PROVE  ReachedInv' /\ StreamKeepsOrder'
BY DEF ReachedInv, StreamKeepsOrder, Behind, Ordered

LEMMA ReachedType ==
    ASSUME LogTypeOK, NEW f, NEW w \in Writers
    PROVE  Reached(f, w) \in Int
BY DEF LogTypeOK, Reached

LEMMA RingStays ==
    ASSUME RingInv, UNCHANGED vars
    PROVE  RingInv' /\ RingTypeOK'
BY DEF vars, RingInv, RingTypeOK, Slot

LEMMA EnsureType ==
    ASSUME LogTypeOK, Ensure
    PROVE  Ensured \in Logs /\ mapped' \in Logs /\ made' \in 0..MaxLogs
BY LogStreamAssumption DEF LogTypeOK, Ensure, Ensured, Logs

-----------------------------------------------------------------------------
(* Writers. *)

LEMMA AttachStep ==
    ASSUME LSInv, NEW w \in Writers, Attach(w)
    PROVE  LSInv'
<1> USE DEF LSInv
<1>1. RingInv' /\ RingTypeOK'
  BY RingStays DEF Attach
<1>2. LogTypeOK'
  BY <1>1, EnsureType
     DEF LogTypeOK, Attach, AppendPlaces, followers, handlers
<1>3. WriterInv'
  BY EnsureType DEF WriterInv, LogTypeOK, Attach
<1>4. LineInv'
  BY DEF LineInv, Attach, followers, handlers
<1>5. \A f \in Followers : Ordered(f)' /\ Behind(f)'
  <2> TAKE f \in Followers
  <2>1. Stream(f)' = Stream(f)
    BY StreamUntouched DEF Attach, followers, handlers
  <2>2. \A v \in Writers : Reached(f, v) = Reached(f, v)'
    BY DEF Reached, Attach, LogTypeOK
  <2>3. \A v \in Writers : Reached(f, v) <= Reached(f, v)'
    BY <2>2, ReachedType
  <2> QED
    BY <1>2, <2>1, <2>3, Streams, StreamStays
<1> QED
  BY <1>1, <1>2, <1>3, <1>4, <1>5, StreamsNext

LEMMA DetachStep ==
    ASSUME LSInv, Detach
    PROVE  LSInv'
<1> USE DEF LSInv
<1>1. RingInv' /\ RingTypeOK'
  BY RingStays DEF Detach
<1>2. LogTypeOK'
  BY <1>1 DEF LogTypeOK, Detach, writers, followers, handlers
<1>3. WriterInv' /\ LineInv'
  BY DEF WriterInv, LineInv, Detach, writers, followers, handlers
<1>4. \A f \in Followers : Ordered(f)' /\ Behind(f)'
  <2> TAKE f \in Followers
  <2>1. Stream(f)' = Stream(f)
    BY StreamUntouched DEF Detach, followers, handlers
  <2>2. \A v \in Writers : Reached(f, v) = Reached(f, v)'
    BY DEF Reached, Detach, writers
  <2>3. \A v \in Writers : Reached(f, v) <= Reached(f, v)'
    BY <2>2, ReachedType
  <2> QED
    BY <1>2, <2>1, <2>3, Streams, StreamStays
<1> QED
  BY <1>1, <1>2, <1>3, <1>4, StreamsNext

LEMMA AddLineStep ==
    ASSUME LSInv, NEW w \in Writers, AddLine(w)
    PROVE  LSInv'
<1> USE DEF LSInv
<1>1. /\ written[w] \in Nat /\ MaxLines[w] \in Nat
      /\ written'[w] = written[w] + 1 /\ written'[w] <= MaxLines[w]
      /\ <<w, written'[w]>> \in Lines
  <2>1. written[w] \in Nat /\ MaxLines[w] \in Nat
    BY LogStreamAssumption DEF LogTypeOK
  <2>2. written'[w] = written[w] + 1 /\ written'[w] <= MaxLines[w]
    BY <2>1 DEF AddLine, LogTypeOK
  <2> QED
    BY <2>1, <2>2, LineParts
<1>2. RingInv' /\ RingTypeOK'
  <2>1. CASE at'[w] = 0
    <3>1. RingInv'
      BY <1>1, <2>1, AddStep DEF AddLine
    <3> QED
      BY <3>1 DEF RingInv
  <2>2. CASE at'[w] # 0
    BY <2>2, RingStays DEF AddLine
  <2> QED
    BY <2>1, <2>2
<1>3. /\ mapped' \in Logs \cup {NoLog} /\ made' \in 0..MaxLogs
      /\ at' \in [Writers -> Logs \cup {NoLog}]
      /\ at'[w] \in Logs
  <2>1. CASE w \in Reporters
    BY <2>1, EnsureType DEF AddLine, LogTypeOK
  <2>2. CASE w \notin Reporters
    <3>1. w \in Scanners /\ append[w] = "idle"
      BY <2>2 DEF AddLine, Writers
    <3> QED
      BY <2>2, <3>1 DEF AddLine, LogTypeOK, WriterInv
  <2> QED
    BY <2>1, <2>2
<1>4. LogTypeOK'
  <2>1. UNCHANGED <<handler, log, line, sent, joined, subs, allSubs, chan,
                    dropped>>
    BY DEF AddLine, followers, handlers
  <2>2. /\ append' \in [Writers -> AppendPlaces]
        /\ written' \in [Writers -> Nat]
        /\ \A v \in Writers : written'[v] <= MaxLines[v]
    BY <1>1 DEF AddLine, LogTypeOK, AppendPlaces
  <2> QED
    BY <1>2, <1>3, <2>1, <2>2 DEF LogTypeOK
<1>5. WriterInv'
  <2> SUFFICES ASSUME NEW v \in Writers
               PROVE  /\ append'[v] \in {"added", "fanned"}
                         => at'[v] \in Logs /\ written'[v] > 0
                      /\ v \in Scanners /\ append'[v] = "idle"
                         => at'[v] \in Logs
    BY DEF WriterInv
  <2>1. CASE v = w
    BY <1>1, <1>3, <2>1
  <2>2. CASE v # w
    BY <2>2 DEF WriterInv, LogTypeOK, AddLine
  <2> QED
    BY <2>1, <2>2
<1>6. LineInv'
  BY DEF LineInv, AddLine, followers, handlers
<1>7. \A f \in Followers : Ordered(f)' /\ Behind(f)'
  <2> TAKE f \in Followers
  <2>1. Stream(f)' = Stream(f)
    BY StreamUntouched DEF AddLine, followers, handlers
  <2>2. ASSUME NEW v \in Writers
        PROVE  Reached(f, v) = Reached(f, v)'
    <3>1. CASE v = w
      BY <1>1, <3>1 DEF Reached, AddLine, LogTypeOK
    <3>2. CASE v # w
      BY <3>2 DEF Reached, AddLine, LogTypeOK
    <3> QED
      BY <3>1, <3>2
  <2>3. \A v \in Writers : Reached(f, v) <= Reached(f, v)'
    BY <2>2, ReachedType
  <2> QED
    BY <1>4, <2>1, <2>3, Streams, StreamStays
<1> QED
  BY <1>2, <1>4, <1>5, <1>6, <1>7, StreamsNext

(* One of the two loops over channels, which takes the writer from one     *)
(* place to the next: a channel may take its line if the line is the next  *)
(* that may reach it.                                                      *)
LEMMA FanOutStep ==
    ASSUME LSInv, NEW w \in Writers, NEW to \in SUBSET Followers,
           NEW from \in {"added", "fanned"}, NEW next \in {"fanned", "idle"},
           AppendStep(w, from, next), FanOut(w, to),
           \A f \in Followers : Reached(f, w) <= Reached(f, w)',
           \A f \in to : /\ Reached(f, w) < written[w]
                         /\ Reached(f, w)' = written[w]
    PROVE  LSInv'
<1> USE DEF LSInv
<1>1. RingInv' /\ RingTypeOK'
  BY RingStays DEF FanOut
<1>2. /\ written[w] \in Nat /\ written[w] > 0 /\ at[w] \in Logs
      /\ <<w, written[w]>> \in Lines
  <2>1. written[w] > 0 /\ at[w] \in Logs
    BY DEF WriterInv, AppendStep
  <2> QED
    BY <2>1, LineParts DEF LogTypeOK
<1>3. LogTypeOK'
  <2>1. /\ UNCHANGED <<mapped, made, at, written, handler, log, line, sent,
                       joined, subs, allSubs>>
        /\ append' \in [Writers -> AppendPlaces]
        /\ dropped' \in SUBSET Followers
    BY DEF FanOut, AppendStep, handlers, LogTypeOK, AppendPlaces
  <2>2. ASSUME NEW f \in Followers
        PROVE  chan'[f] \in Seq(Lines) /\ Len(chan'[f]) <= ChanSize
    <3>1. \/ chan'[f] = chan[f]
          \/ Fits(f) /\ chan'[f] = Append(chan[f], <<w, written[w]>>)
      BY DEF FanOut
    <3>2. chan[f] \in Seq(Lines) /\ Len(chan[f]) <= ChanSize /\ ChanSize \in Nat
      BY LogStreamAssumption DEF LogTypeOK
    <3>3. CASE chan'[f] = chan[f]
      BY <3>2, <3>3
    <3>4. CASE Fits(f) /\ chan'[f] = Append(chan[f], <<w, written[w]>>)
      BY <1>2, <3>2, <3>4, AppendProperties DEF Fits
    <3> QED
      BY <3>1, <3>3, <3>4
  <2>3. chan' \in [Followers -> Seq(Lines)]
    <3>1. chan' = [f \in Followers |-> chan'[f]]
      BY DEF FanOut
    <3> QED
      BY <2>2, <3>1
  <2> QED
    BY <1>1, <2>1, <2>2, <2>3 DEF LogTypeOK
<1>4. WriterInv'
  <2> SUFFICES ASSUME NEW v \in Writers
               PROVE  /\ append'[v] \in {"added", "fanned"}
                         => at'[v] \in Logs /\ written'[v] > 0
                      /\ v \in Scanners /\ append'[v] = "idle"
                         => at'[v] \in Logs
    BY DEF WriterInv
  <2>1. UNCHANGED <<at, written>>
    BY DEF FanOut
  <2>2. CASE v = w
    BY <1>2, <2>1, <2>2
  <2>3. CASE v # w
    BY <2>1, <2>3 DEF WriterInv, LogTypeOK, AppendStep
  <2> QED
    BY <2>2, <2>3
<1>5. LineInv'
  BY DEF LineInv, FanOut, handlers
<1>6. \A f \in Followers : Ordered(f)' /\ Behind(f)'
  <2> TAKE f \in Followers
  <2>1. /\ Ordered(f) /\ Behind(f)
        /\ UNCHANGED <<sent[f], line[f], written>>
    BY Streams DEF FanOut, handlers
  <2>2. ASSUME NEW v \in Writers
        PROVE  Reached(f, v) <= Reached(f, v)'
    <3>1. CASE v = w
      BY <3>1
    <3>2. CASE v # w
      <4>1. Reached(f, v) = Reached(f, v)'
        BY <2>1, <3>2 DEF Reached, AppendStep, LogTypeOK
      <4> QED
        BY <4>1, ReachedType
    <3> QED
      BY <3>1, <3>2
  <2>3. CASE f \in to /\ chan'[f] = Append(chan[f], <<w, written[w]>>)
    BY <1>2, <1>3, <2>1, <2>2, <2>3, StreamTakes
  <2>4. CASE chan'[f] = chan[f]
    <3>1. Stream(f)' = Stream(f)
      BY <2>1, <2>4, StreamUntouched
    <3> QED
      BY <1>3, <2>1, <2>2, <3>1, StreamStays
  <2> QED
    BY <2>3, <2>4 DEF FanOut
<1> QED
  BY <1>1, <1>3, <1>4, <1>5, <1>6, StreamsNext

LEMMA FanAppStep ==
    ASSUME LSInv, NEW w \in Writers, FanApp(w)
    PROVE  LSInv'
<1> USE DEF LSInv
<1>1. subs[at[w]] \subseteq AppFollowers /\ written[w] \in Nat
  BY DEF FanApp, AppendStep, WriterInv, LogTypeOK
<1>2. append[w] = "added" /\ append'[w] = "fanned" /\ written' = written
  BY DEF FanApp, AppendStep, FanOut, LogTypeOK
<1>3. \A f \in Followers : Reached(f, w) <= Reached(f, w)'
  BY <1>1, <1>2 DEF Reached
<1>4. \A f \in subs[at[w]] : /\ Reached(f, w) < written[w]
                             /\ Reached(f, w)' = written[w]
  BY <1>1, <1>2, LogStreamAssumption DEF Reached
<1> QED
  BY <1>1, <1>3, <1>4, FanOutStep DEF FanApp, Followers

LEMMA FanAllStep ==
    ASSUME LSInv, NEW w \in Writers, FanAll(w)
    PROVE  LSInv'
<1> USE DEF LSInv
<1>1. allSubs \subseteq AllFollowers /\ written[w] \in Nat
  BY DEF LogTypeOK
<1>2. append[w] = "fanned" /\ append'[w] = "idle" /\ written' = written
  BY DEF FanAll, AppendStep, FanOut, LogTypeOK
<1>3. \A f \in Followers : Reached(f, w) <= Reached(f, w)'
  BY <1>1, <1>2 DEF Reached
<1>4. \A f \in allSubs : /\ Reached(f, w) < written[w]
                         /\ Reached(f, w)' = written[w]
  BY <1>1, <1>2 DEF Reached
<1> QED
  BY <1>1, <1>3, <1>4, FanOutStep DEF FanAll, Followers

-----------------------------------------------------------------------------
(* Handlers. *)

(* What the steps of a handler have in common. *)
LEMMA HandlerFrame ==
    ASSUME LSInv, LogTypeOK', UNCHANGED <<vars, at, written, append>>,
           LineInv',
           \A f \in Followers : Stream(f)' = Stream(f) \/ Stream(f)' = <<>>
    PROVE  LSInv'
<1> USE DEF LSInv
<1>1. RingInv'
  BY RingStays
<1>2. WriterInv'
  BY DEF WriterInv
<1>3. \A f \in Followers : Ordered(f)' /\ Behind(f)'
  <2> TAKE f \in Followers
  <2>1. \A v \in Writers : Reached(f, v) = Reached(f, v)'
    BY DEF Reached
  <2>2. \A v \in Writers : Reached(f, v) <= Reached(f, v)'
    BY <2>1, ReachedType
  <2> QED
    BY <2>2, Streams, StreamStays
<1> QED
  BY <1>1, <1>2, <1>3, StreamsNext

LEMMA SubscribeStep ==
    ASSUME LSInv, NEW f \in Followers, Subscribe(f)
    PROVE  LSInv'
<1> USE DEF LSInv
<1>1. LogTypeOK'
  <2>1. RingTypeOK'
    BY RingStays DEF Subscribe
  <2>2. mapped' \in Logs /\ made' \in 0..MaxLogs /\ Ensured \in Logs
    BY EnsureType DEF Subscribe
  <2>3. /\ handler' \in [Followers -> HandlerPlaces]
        /\ log' \in [Followers -> Logs \cup {NoLog}]
        /\ subs' \in [Logs -> SUBSET AppFollowers]
        /\ joined' \in [Followers -> [Writers -> Nat]]
    BY <2>2 DEF Subscribe, HandlerStep, LogTypeOK, HandlerPlaces
  <2>4. UNCHANGED <<at, written, append, line, sent, allSubs, chan, dropped>>
    BY DEF Subscribe, writers
  <2> QED
    BY <2>1, <2>2, <2>3, <2>4 DEF LogTypeOK
<1>2. LineInv'
  BY DEF LineInv, Subscribe, HandlerStep, LogTypeOK
<1>3. \A g \in Followers : Stream(g)' = Stream(g)
  BY StreamUntouched DEF Subscribe
<1> QED
  BY <1>1, <1>2, <1>3, HandlerFrame DEF Subscribe, writers

LEMMA SubscribeAllStep ==
    ASSUME LSInv, NEW f \in Followers, SubscribeAll(f)
    PROVE  LSInv'
<1> USE DEF LSInv
<1>1. LogTypeOK'
  <2>1. RingTypeOK'
    BY RingStays DEF SubscribeAll
  <2>2. /\ handler' \in [Followers -> HandlerPlaces]
        /\ allSubs' \in SUBSET AllFollowers
        /\ joined' \in [Followers -> [Writers -> Nat]]
    BY DEF SubscribeAll, HandlerStep, LogTypeOK, HandlerPlaces
  <2>3. UNCHANGED <<mapped, made, at, written, append, log, line, sent, subs,
                    chan, dropped>>
    BY DEF SubscribeAll, writers
  <2> QED
    BY <2>1, <2>2, <2>3 DEF LogTypeOK
<1>2. LineInv'
  BY DEF LineInv, SubscribeAll, HandlerStep, LogTypeOK
<1>3. \A g \in Followers : Stream(g)' = Stream(g)
  BY StreamUntouched DEF SubscribeAll
<1> QED
  BY <1>1, <1>2, <1>3, HandlerFrame DEF SubscribeAll, writers

(* Between channel, hand and connection nothing is lost. *)
LEMMA TakeLineStream ==
    ASSUME LSInv, NEW f \in Followers, TakeLine(f)
    PROVE  \A g \in Followers : Stream(g)' = Stream(g)
<1> USE DEF LSInv
<1>1. /\ chan[f] \in Seq(Lines) /\ chan[f] # <<>> /\ Len(chan[f]) <= ChanSize
      /\ Head(chan[f]) \in Lines /\ Tail(chan[f]) \in Seq(Lines)
      /\ Len(Tail(chan[f])) <= ChanSize
  <2>1. chan[f] \in Seq(Lines) /\ chan[f] # <<>> /\ Len(chan[f]) <= ChanSize
    BY DEF LogTypeOK, TakeLine
  <2>2. /\ Head(chan[f]) \in Lines /\ Tail(chan[f]) \in Seq(Lines)
        /\ Len(Tail(chan[f])) = Len(chan[f]) - 1 /\ Len(chan[f]) \in Nat
    BY <2>1, HeadTailProperties
  <2> QED
    BY <2>1, <2>2, LogStreamAssumption
<1>2. /\ handler[f] = "select" /\ line[f] = NoLine
      /\ line'[f] = Head(chan[f]) /\ chan'[f] = Tail(chan[f])
      /\ sent' = sent
      /\ \A g \in Followers \ {f} : line'[g] = line[g] /\ chan'[g] = chan[g]
  BY DEF TakeLine, HandlerStep, LogTypeOK, LineInv
<1>3. ASSUME NEW g \in Followers
      PROVE  Stream(g)' = Stream(g)
  <2>1. CASE g = f
    <3>1. NoLine \notin Lines /\ sent[f] \in Seq(Lines)
      BY RingAssumption DEF LogTypeOK
    <3>2. /\ Stream(f)' = sent[f] \o <<Head(chan[f])>> \o Tail(chan[f])
          /\ Stream(f) = sent[f] \o <<>> \o chan[f]
      BY <1>1, <1>2, <3>1 DEF Stream
    <3> QED
      BY <1>1, <2>1, <3>1, <3>2, StreamMoves
  <2>2. CASE g # f
    BY <1>2, <2>2, StreamUntouched
  <2> QED
    BY <2>1, <2>2
<1> QED
  BY <1>3

LEMMA TakeLineStep ==
    ASSUME LSInv, NEW f \in Followers, TakeLine(f)
    PROVE  LSInv'
<1> USE DEF LSInv
<1>1. /\ chan[f] \in Seq(Lines) /\ chan[f] # <<>> /\ Len(chan[f]) <= ChanSize
      /\ Head(chan[f]) \in Lines /\ Tail(chan[f]) \in Seq(Lines)
      /\ Len(Tail(chan[f])) <= ChanSize
  <2>1. chan[f] \in Seq(Lines) /\ chan[f] # <<>> /\ Len(chan[f]) <= ChanSize
    BY DEF LogTypeOK, TakeLine
  <2>2. /\ Head(chan[f]) \in Lines /\ Tail(chan[f]) \in Seq(Lines)
        /\ Len(Tail(chan[f])) = Len(chan[f]) - 1 /\ Len(chan[f]) \in Nat
    BY <2>1, HeadTailProperties
  <2> QED
    BY <2>1, <2>2, LogStreamAssumption
<1>3. LogTypeOK'
  <2>1. RingTypeOK'
    BY RingStays DEF TakeLine
  <2>2. /\ handler' \in [Followers -> HandlerPlaces]
        /\ line' \in [Followers -> Lines \cup {NoLine}]
        /\ chan' \in [Followers -> Seq(Lines)]
        /\ \A g \in Followers : Len(chan'[g]) <= ChanSize
    BY <1>1 DEF TakeLine, HandlerStep, LogTypeOK, HandlerPlaces
  <2>3. UNCHANGED <<mapped, made, at, written, append, log, sent, subs,
                    allSubs, dropped, joined>>
    BY DEF TakeLine, writers
  <2> QED
    BY <2>1, <2>2, <2>3 DEF LogTypeOK
<1>4. LineInv'
  BY <1>1 DEF LineInv, TakeLine, HandlerStep, LogTypeOK
<1>5. \A g \in Followers : Stream(g)' = Stream(g)
  BY TakeLineStream
<1> QED
  BY <1>3, <1>4, <1>5, HandlerFrame DEF TakeLine, writers

LEMMA EncodedStream ==
    ASSUME LSInv, NEW f \in Followers, Encoded(f)
    PROVE  \A g \in Followers : Stream(g)' = Stream(g)
<1> USE DEF LSInv
<1>1. /\ handler[f] = "encode" /\ line[f] \in Lines /\ line[f] # NoLine
      /\ sent'[f] = Append(sent[f], line[f]) /\ line'[f] = NoLine
      /\ chan' = chan /\ sent[f] \in Seq(Lines) /\ chan[f] \in Seq(Lines)
      /\ \A g \in Followers \ {f} : line'[g] = line[g] /\ sent'[g] = sent[g]
  BY RingAssumption DEF Encoded, HandlerStep, LogTypeOK, LineInv
<1>2. ASSUME NEW g \in Followers
      PROVE  Stream(g)' = Stream(g)
  <2>1. CASE g = f
    <3>1. /\ Stream(f)' = Append(sent[f], line[f]) \o <<>> \o chan[f]
          /\ Stream(f) = sent[f] \o <<line[f]>> \o chan[f]
      BY <1>1 DEF Stream
    <3>2. Append(sent[f], line[f]) \o <<>> = sent[f] \o <<line[f]>>
      BY <1>1, StreamGrows
    <3>3. /\ Append(sent[f], line[f]) \in Seq(Lines)
          /\ <<line[f]>> \in Seq(Lines) /\ <<>> \in Seq(Lines)
      BY <1>1, AppendProperties
    <3> QED
      BY <1>1, <2>1, <3>1, <3>2, <3>3, ConcatAssociative
  <2>2. CASE g # f
    BY <1>1, <2>2, StreamUntouched
  <2> QED
    BY <2>1, <2>2
<1> QED
  BY <1>2

LEMMA EncodedStep ==
    ASSUME LSInv, NEW f \in Followers, Encoded(f)
    PROVE  LSInv'
<1> USE DEF LSInv
<1>1. /\ handler[f] = "encode" /\ line[f] \in Lines /\ line[f] # NoLine
      /\ sent'[f] = Append(sent[f], line[f]) /\ line'[f] = NoLine
      /\ chan' = chan /\ sent[f] \in Seq(Lines) /\ chan[f] \in Seq(Lines)
      /\ \A g \in Followers \ {f} : line'[g] = line[g] /\ sent'[g] = sent[g]
  BY RingAssumption DEF Encoded, HandlerStep, LogTypeOK, LineInv
<1>2. LogTypeOK'
  <2>1. RingTypeOK'
    BY RingStays DEF Encoded
  <2>2. Append(sent[f], line[f]) \in Seq(Lines)
    BY <1>1, AppendProperties
  <2>3. /\ handler' \in [Followers -> HandlerPlaces]
        /\ line' \in [Followers -> Lines \cup {NoLine}]
        /\ sent' \in [Followers -> Seq(Lines)]
    BY <2>2 DEF Encoded, HandlerStep, LogTypeOK, HandlerPlaces
  <2>4. UNCHANGED <<mapped, made, at, written, append, log, subs, allSubs,
                    chan, dropped, joined>>
    BY DEF Encoded, writers
  <2> QED
    BY <2>1, <2>3, <2>4 DEF LogTypeOK
<1>3. LineInv'
  BY DEF LineInv, Encoded, HandlerStep, LogTypeOK
<1>4. \A g \in Followers : Stream(g)' = Stream(g)
  BY EncodedStream
<1> QED
  BY <1>2, <1>3, <1>4, HandlerFrame DEF Encoded, writers

LEMMA UnsubscribeStep ==
    ASSUME LSInv, NEW f \in Followers, NEW from \in {"select", "encode"},
           Unsubscribe(f, from)
    PROVE  LSInv'
<1> USE DEF LSInv
<1>1. LogTypeOK'
  <2>1. RingTypeOK'
    BY RingStays DEF Unsubscribe
  <2>2. <<>> \in Seq(Lines) /\ Len(<<>>) <= ChanSize
    BY LogStreamAssumption
  <2>3. /\ handler' \in [Followers -> HandlerPlaces]
        /\ log' \in [Followers -> Logs \cup {NoLog}]
        /\ subs' \in [Logs -> SUBSET AppFollowers]
        /\ allSubs' \in SUBSET AllFollowers
        /\ dropped' \in SUBSET Followers
    BY DEF Unsubscribe, HandlerStep, LogTypeOK, HandlerPlaces
  <2>4. /\ chan' \in [Followers -> Seq(Lines)]
        /\ \A g \in Followers : Len(chan'[g]) <= ChanSize
        /\ line' \in [Followers -> Lines \cup {NoLine}]
        /\ sent' \in [Followers -> Seq(Lines)]
        /\ joined' \in [Followers -> [Writers -> Nat]]
    BY <2>2 DEF Unsubscribe, LogTypeOK
  <2>5. UNCHANGED <<mapped, made, at, written, append>>
    BY DEF Unsubscribe, writers
  <2> QED
    BY <2>1, <2>3, <2>4, <2>5 DEF LogTypeOK
<1>2. LineInv'
  BY DEF LineInv, Unsubscribe, HandlerStep, LogTypeOK
<1>3. ASSUME NEW g \in Followers
      PROVE  Stream(g)' = Stream(g) \/ Stream(g)' = <<>>
  <2>1. CASE g = f
    <3>1. sent'[f] = <<>> /\ line'[f] = NoLine /\ chan'[f] = <<>>
      BY DEF Unsubscribe, LogTypeOK
    <3>2. <<>> \o <<>> \o <<>> = <<>>
      BY ConcatEmptySeq
    <3> QED
      BY <2>1, <3>1, <3>2 DEF Stream
  <2>2. CASE g # f
    <3>1. UNCHANGED <<sent[g], line[g], chan[g]>>
      BY <2>2 DEF Unsubscribe, LogTypeOK
    <3> QED
      BY <3>1, StreamUntouched
  <2> QED
    BY <2>1, <2>2
<1> QED
  BY <1>1, <1>2, <1>3, HandlerFrame DEF Unsubscribe, writers

-----------------------------------------------------------------------------

LEMMA LogInitInv == LogInit => LSInv
<1> SUFFICES ASSUME LogInit PROVE LSInv
  OBVIOUS
<1>1. RingTypeOK /\ RingInv
  BY RingAssumption DEF LogInit, Init, RingInv, RingTypeOK
<1>2. LogTypeOK
  BY <1>1, LogStreamAssumption
     DEF LogInit, LogTypeOK, AppendPlaces, HandlerPlaces, Logs
<1>3. WriterInv
  BY LogStreamAssumption DEF LogInit, WriterInv, Writers
<1>4. LineInv
  BY DEF LogInit, LineInv
<1>5. \A f \in Followers : Ordered(f) /\ Behind(f)
  <2> TAKE f \in Followers
  <2>1. Stream(f) = <<>>
    <3>1. <<>> \o <<>> \o <<>> = <<>>
      BY ConcatEmptySeq
    <3> QED
      BY <3>1 DEF LogInit, Stream
  <2>2. DOMAIN Stream(f) = {}
    BY <2>1
  <2> QED
    BY <2>2 DEF Ordered, Behind
<1> QED
  BY <1>1, <1>2, <1>3, <1>4, <1>5, Streams DEF LSInv

LEMMA LogNextInv == LSInv /\ [LogNext]_logVars => LSInv'
<1> SUFFICES ASSUME LSInv, [LogNext]_logVars PROVE LSInv'
  OBVIOUS
<1>1. ASSUME NEW w \in Writers, Attach(w) \/ Appending(w)
      PROVE  LSInv'
  BY <1>1, AttachStep, AddLineStep, FanAppStep, FanAllStep DEF Appending
<1>2. ASSUME NEW f \in Followers, Following(f)
      PROVE  LSInv'
  BY <1>2, SubscribeStep, SubscribeAllStep, TakeLineStep, EncodedStep,
     UnsubscribeStep DEF Following, EncodeFails, CtxEnds
<1>3. CASE Detach
  BY <1>3, DetachStep
<1>4. CASE UNCHANGED logVars
  <2> USE <1>4 DEF logVars, writers, followers, handlers
  <2>1. LogTypeOK'
    <3>1. RingTypeOK'
      BY RingStays DEF LSInv
    <3> QED
      BY <3>1 DEF LSInv, LogTypeOK
  <2>2. LineInv'
    BY DEF LSInv, LineInv
  <2>3. \A f \in Followers : Stream(f)' = Stream(f)
    BY StreamUntouched
  <2> QED
    BY <2>1, <2>2, <2>3, HandlerFrame
<1> QED
  BY <1>1, <1>2, <1>3, <1>4 DEF LogNext

(* The invariant behind the theorems that follow. *)
THEOREM LogInductive == LogSpec => []LSInv
BY LogInitInv, LogNextInv, PTL DEF LogSpec

(* No channel holds more than its slots, every writer that is in append    *)
(* has a procLog, and a ring of any capacity is well formed.               *)
THEOREM LogTypeCorrect == LogSpec => []LogTypeOK
<1>1. LSInv => LogTypeOK
  BY DEF LSInv
<1> QED
  BY <1>1, LogInductive, PTL

(* Each follower reads the lines of a writer in order and none twice, for  *)
(* any number of writers, followers, procLogs and slots (append and        *)
(* handleLogStream).                                                       *)
THEOREM StreamKeepsOrderHolds == LogSpec => []StreamKeepsOrder
<1>1. LSInv => StreamKeepsOrder
  BY DEF LSInv
<1> QED
  BY <1>1, LogInductive, PTL

(* Whoever writes, follows, subscribes or detaches, what happens to the    *)
(* ring is an Add or nothing: the log implements module Ring.              *)
THEOREM LogImplementsRing == LogSpec => Spec
<1>1. LogInit => Init
  BY DEF LogInit
<1>2. LSInv /\ [LogNext]_logVars => [Next]_vars
  <2> SUFFICES ASSUME LSInv, [LogNext]_logVars PROVE [Next]_vars
    OBVIOUS
  <2>1. ASSUME NEW w \in Writers, AddLine(w)
        PROVE  [Next]_vars
    <3>1. CASE at'[w] = 0
      <4>1. <<w, written'[w]>> \in Lines
        <5>1. written[w] \in Nat /\ MaxLines[w] \in Nat
          BY LogStreamAssumption DEF LSInv, LogTypeOK
        <5>2. written'[w] = written[w] + 1 /\ written'[w] <= MaxLines[w]
          BY <2>1, <5>1 DEF AddLine, LSInv, LogTypeOK
        <5> QED
          BY <5>1, <5>2, LineParts
      <4> QED
        BY <2>1, <3>1, <4>1 DEF AddLine, Next
    <3>2. CASE at'[w] # 0
      BY <2>1, <3>2 DEF AddLine
    <3> QED
      BY <3>1, <3>2
  <2>2. ASSUME NEW w \in Writers, Attach(w) \/ FanApp(w) \/ FanAll(w)
        PROVE  UNCHANGED vars
    BY <2>2 DEF Attach, FanApp, FanAll, FanOut
  <2>3. ASSUME NEW f \in Followers, Following(f)
        PROVE  UNCHANGED vars
    BY <2>3 DEF Following, Subscribe, SubscribeAll, TakeLine, Encoded,
       EncodeFails, CtxEnds, Unsubscribe
  <2>4. Detach \/ UNCHANGED logVars => UNCHANGED vars
    BY DEF Detach, logVars
  <2> QED
    BY <2>1, <2>2, <2>3, <2>4 DEF LogNext, Appending
<1> QED
  BY <1>1, <1>2, LogInductive, PTL DEF LogSpec, Spec

(* `gopm logs -n` is right while writers append concurrently, followers    *)
(* come and go and the app is deleted and started again.                   *)
THEOREM LogTailHolds ==
    LogSpec => []TailIsLastLines /\ []FilteredIsLastPassing
BY LogImplementsRing, TailIsLastLinesHolds, FilteredIsLastPassingHolds, PTL

-----------------------------------------------------------------------------
(* Gaps. *)

(* A follower is on the list of what it follows while its handler runs:    *)
(* only its own Unsubscribe takes it off.                                  *)
SubsInv ==
    \A f \in Followers : handler[f] \in {"select", "encode"} =>
        \/ f \in AppFollowers /\ log[f] \in Logs /\ f \in subs[log[f]]
        \/ f \in AllFollowers /\ f \in allSubs

DetachedInv ==
    \A w \in Writers : append[w] = "detached" => written[w] = 0

Listens(f) == handler[f] \in {"select", "encode"} /\ f \notin dropped

Gotten(f, w, n) == \E i \in DOMAIN Stream(f) : Stream(f)[i] = <<w, n>>

(* All that may have reached a follower did. *)
GapInv ==
    \A f \in Followers : \A w \in Writers : Listens(f) /\ Hears(f, w) =>
        \A n \in joined[f][w] + 1..Reached(f, w) : Gotten(f, w, n)

GSInv == LSInv /\ SubsInv /\ DetachedInv /\ GapInv

(* The proof for one follower and one writer that it hears already. *)
LEMMA GapStays ==
    ASSUME GapInv, NEW f \in Followers, NEW w \in Writers,
           Listens(f), Hears(f, w), joined'[f] = joined[f],
           Reached(f, w)' = Reached(f, w), Stream(f)' = Stream(f)
    PROVE  \A n \in joined'[f][w] + 1..Reached(f, w)' : Gotten(f, w, n)'
<1>1. \A n \in joined[f][w] + 1..Reached(f, w) : Gotten(f, w, n)
  BY DEF GapInv
<1>2. \A n : Gotten(f, w, n) => Gotten(f, w, n)'
  BY DEF Gotten
<1> QED
  BY <1>1, <1>2

LEMMA AttachGap ==
    ASSUME GSInv, LSInv', NEW w \in Writers, Attach(w)
    PROVE  GSInv'
<1> USE DEF GSInv
<1>1. SubsInv' /\ DetachedInv'
  BY DEF SubsInv, DetachedInv, Attach, followers, handlers, LSInv, LogTypeOK
<1>2. ASSUME NEW f \in Followers, NEW v \in Writers,
             Listens(f)', Hears(f, v)'
      PROVE  \A n \in joined'[f][v] + 1..Reached(f, v)' : Gotten(f, v, n)'
  <2>1. /\ Listens(f) /\ joined' = joined /\ joined[f][v] \in Nat
        /\ Stream(f)' = Stream(f)
    BY <1>2, StreamUntouched
       DEF Listens, Attach, followers, handlers, LSInv, LogTypeOK
  <2>2. CASE v = w
    <3>1. Reached(f, v)' = 0
      BY <2>2 DEF Reached, Attach, DetachedInv, LSInv, LogTypeOK
    <3> QED
      BY <2>1, <3>1
  <2>3. CASE v # w
    <3>1. Hears(f, v) /\ Reached(f, v)' = Reached(f, v)
      BY <1>2, <2>3
         DEF Hears, Reached, Attach, followers, handlers, LSInv, LogTypeOK
    <3> QED
      BY <2>1, <3>1, GapStays
  <2> QED
    BY <2>2, <2>3
<1> QED
  BY <1>1, <1>2 DEF GapInv

LEMMA AddLineGap ==
    ASSUME GSInv, LSInv', NEW w \in Writers, AddLine(w)
    PROVE  GSInv'
<1> USE DEF GSInv
<1>1. SubsInv'
  BY DEF SubsInv, AddLine, followers, handlers
<1>2. DetachedInv'
  <2> SUFFICES ASSUME NEW v \in Writers, append'[v] = "detached"
               PROVE  written'[v] = 0
    BY DEF DetachedInv
  <2>1. v # w
    BY DEF AddLine, LSInv, LogTypeOK
  <2> QED
    BY <2>1 DEF AddLine, DetachedInv, LSInv, LogTypeOK
<1>3. ASSUME NEW f \in Followers, NEW v \in Writers,
             Listens(f)', Hears(f, v)'
      PROVE  \A n \in joined'[f][v] + 1..Reached(f, v)' : Gotten(f, v, n)'
  <2>1. /\ Listens(f) /\ joined' = joined /\ Stream(f)' = Stream(f)
    BY <1>3, StreamUntouched DEF Listens, AddLine, followers, handlers
  <2>2. v \in Scanners => at'[v] = at[v]
    BY LogStreamAssumption DEF AddLine, LSInv, LogTypeOK
  <2>3. Hears(f, v)
    BY <1>3, <2>2 DEF Hears, AddLine, followers, handlers
  <2>4. Reached(f, v)' = Reached(f, v)
    <3>1. CASE v = w
      <4>1. written[w] \in Nat
        BY DEF LSInv, LogTypeOK
      <4> QED
        BY <3>1, <4>1 DEF Reached, AddLine, LSInv, LogTypeOK
    <3>2. CASE v # w
      BY <3>2 DEF Reached, AddLine, LSInv, LogTypeOK
    <3> QED
      BY <3>1, <3>2
  <2> QED
    BY <2>1, <2>3, <2>4, GapStays
<1> QED
  BY <1>1, <1>2, <1>3 DEF GapInv

(* A loop that serves the list a follower is on. *)
LEMMA FanOutGap ==
    ASSUME GSInv, LSInv', NEW w \in Writers, NEW to \in SUBSET Followers,
           NEW from \in {"added", "fanned"}, NEW next \in {"fanned", "idle"},
           AppendStep(w, from, next), FanOut(w, to),
           \A f \in Followers : Listens(f) /\ Hears(f, w) =>
               \/ Reached(f, w)' = Reached(f, w)
               \/ f \in to /\ Reached(f, w) = written[w] - 1
                           /\ Reached(f, w)' = written[w]
    PROVE  GSInv'
<1> USE DEF GSInv
<1>1. SubsInv' /\ DetachedInv'
  <2>1. UNCHANGED <<handler, log, subs, allSubs, written>>
    BY DEF FanOut, handlers
  <2>2. \A v \in Writers : append'[v] = "detached" => append[v] = "detached"
    BY DEF AppendStep, LSInv, LogTypeOK
  <2> QED
    BY <2>1, <2>2 DEF SubsInv, DetachedInv
<1>2. ASSUME NEW f \in Followers, NEW v \in Writers,
             Listens(f)', Hears(f, v)'
      PROVE  \A n \in joined'[f][v] + 1..Reached(f, v)' : Gotten(f, v, n)'
  <2>1. /\ Listens(f) /\ Hears(f, v) /\ UNCHANGED <<joined, written>>
        /\ UNCHANGED <<sent[f], line[f]>>
    BY <1>2 DEF Listens, Hears, FanOut, handlers
  <2>2. /\ \A n \in joined[f][v] + 1..Reached(f, v) : Gotten(f, v, n)
        /\ joined[f][v] \in Nat /\ written[v] \in Nat
    BY <2>1 DEF GapInv, LSInv, LogTypeOK
  <2>3. /\ Stream(f) \in Seq(Lines)
        /\ \/ chan'[f] = chan[f] /\ Stream(f)' = Stream(f)
           \/ /\ chan'[f] = Append(chan[f], <<w, written[w]>>)
              /\ Stream(f)' = Append(Stream(f), <<w, written[w]>>)
    <3>1. <<w, written[w]>> \in Lines
      <4>1. written[w] > 0 /\ written[w] <= MaxLines[w] /\ written[w] \in Nat
        BY DEF LSInv, LogTypeOK, WriterInv, AppendStep
      <4> QED
        BY <4>1, LineParts
    <3>2. CASE chan'[f] = chan[f]
      BY <2>1, <3>2, StreamUntouched, StreamType DEF LSInv
    <3>3. CASE chan'[f] = Append(chan[f], <<w, written[w]>>)
      BY <2>1, <3>1, <3>3, StreamAppends, StreamType DEF LSInv
    <3> QED
      BY <3>2, <3>3 DEF FanOut
  <2>4. \A n : Gotten(f, v, n) => Gotten(f, v, n)'
    <3>1. CASE Stream(f)' = Stream(f)
      BY <3>1 DEF Gotten
    <3>2. CASE Stream(f)' = Append(Stream(f), <<w, written[w]>>)
      <4> DEFINE s == Stream(f)
                 t == Append(s, <<w, written[w]>>)
      <4>1. \A i \in DOMAIN s : i \in DOMAIN t /\ t[i] = s[i]
        BY <2>3
      <4> QED
        BY <3>2, <4>1 DEF Gotten
    <3> QED
      BY <2>3, <3>1, <3>2
  <2>5. CASE Reached(f, v)' = Reached(f, v)
    BY <2>1, <2>2, <2>4, <2>5
  <2>6. CASE Reached(f, v)' # Reached(f, v)
    <3>1. v = w
      BY <2>1, <2>6 DEF Reached, AppendStep, LSInv, LogTypeOK
    <3>2. f \in to /\ Reached(f, w) = written[w] - 1
                   /\ Reached(f, w)' = written[w]
      BY <2>1, <2>6, <3>1
    <3>3. Fits(f) /\ chan'[f] = Append(chan[f], <<w, written[w]>>)
      BY <1>2, <2>1, <3>2 DEF FanOut, Listens
    <3>4. Gotten(f, w, written[w])'
      <4>1. chan[f] \in Seq(Lines) /\ chan'[f] # chan[f]
        BY <3>3, AppendProperties DEF LSInv, LogTypeOK
      <4>2. Stream(f)' = Append(Stream(f), <<w, written[w]>>)
        BY <2>3, <4>1
      <4>3. /\ Len(Stream(f)) + 1 \in DOMAIN Stream(f)'
            /\ Stream(f)'[Len(Stream(f)) + 1] = <<w, written[w]>>
        BY <2>3, <4>2
      <4> QED
        BY <2>1, <4>3 DEF Gotten
    <3>5. \A n \in joined[f][v] + 1..written[w] :
              n \in joined[f][v] + 1..written[w] - 1 \/ n = written[w]
      BY <2>2, <3>1
    <3> QED
      BY <2>1, <2>2, <2>4, <3>1, <3>2, <3>4, <3>5
  <2> QED
    BY <2>5, <2>6
<1> QED
  BY <1>1, <1>2 DEF GapInv

LEMMA FanAppGap ==
    ASSUME GSInv, LSInv', NEW w \in Writers, FanApp(w)
    PROVE  GSInv'
<1> USE DEF GSInv
<1>1. /\ subs[at[w]] \subseteq AppFollowers /\ written[w] \in Nat
      /\ append[w] = "added" /\ append'[w] = "fanned" /\ written' = written
  BY DEF FanApp, FanOut, AppendStep, WriterInv, LogTypeOK, LSInv
<1>2. ASSUME NEW f \in Followers, Listens(f), Hears(f, w)
      PROVE  \/ Reached(f, w)' = Reached(f, w)
             \/ /\ f \in subs[at[w]] /\ Reached(f, w) = written[w] - 1
                /\ Reached(f, w)' = written[w]
  <2>1. CASE f \in AllFollowers
    BY <1>1, <2>1 DEF Reached
  <2>2. CASE f \notin AllFollowers
    <3>1. log[f] = at[w] /\ f \in subs[log[f]]
      BY <1>2, <2>2 DEF Hears, Listens, SubsInv
    <3> QED
      BY <1>1, <2>2, <3>1 DEF Reached
  <2> QED
    BY <2>1, <2>2
<1> QED
  BY <1>1, <1>2, FanOutGap DEF FanApp, Followers

LEMMA FanAllGap ==
    ASSUME GSInv, LSInv', NEW w \in Writers, FanAll(w)
    PROVE  GSInv'
<1> USE DEF GSInv
<1>1. /\ allSubs \subseteq AllFollowers /\ written[w] \in Nat
      /\ append[w] = "fanned" /\ append'[w] = "idle" /\ written' = written
  BY DEF FanAll, FanOut, AppendStep, LogTypeOK, LSInv
<1>2. ASSUME NEW f \in Followers, Listens(f), Hears(f, w)
      PROVE  \/ Reached(f, w)' = Reached(f, w)
             \/ /\ f \in allSubs /\ Reached(f, w) = written[w] - 1
                /\ Reached(f, w)' = written[w]
  <2>1. CASE f \notin AllFollowers
    BY <1>1, <2>1 DEF Reached
  <2>2. CASE f \in AllFollowers
    <3>1. f \in allSubs
      BY <1>2, <2>2, LogStreamAssumption DEF Listens, SubsInv
    <3> QED
      BY <1>1, <2>2, <3>1 DEF Reached
  <2> QED
    BY <2>1, <2>2
<1> QED
  BY <1>1, <1>2, FanOutGap DEF FanAll, Followers

(* What is common to the steps of the handler f, and to Detach: the others *)
(* are as they were, and f either goes on, begins, or ends.                *)
LEMMA HandlerGap ==
    ASSUME GSInv, LSInv', SubsInv', UNCHANGED <<at, written, append>>,
           \A f \in Followers : Listens(f)' =>
               \/ /\ Listens(f) /\ Stream(f)' = Stream(f)
                  /\ log'[f] = log[f] /\ joined'[f] = joined[f]
               \/ joined'[f] = written
    PROVE  GSInv'
<1> USE DEF GSInv
<1>1. DetachedInv'
  BY DEF DetachedInv
<1>2. ASSUME NEW f \in Followers, NEW v \in Writers,
             Listens(f)', Hears(f, v)'
      PROVE  \A n \in joined'[f][v] + 1..Reached(f, v)' : Gotten(f, v, n)'
  <2>1. Reached(f, v)' = Reached(f, v)
    BY DEF Reached
  <2>2. CASE /\ Listens(f) /\ Stream(f)' = Stream(f)
             /\ log'[f] = log[f] /\ joined'[f] = joined[f]
    <3>1. Hears(f, v)
      BY <1>2, <2>2 DEF Hears
    <3> QED
      BY <2>1, <2>2, <3>1, GapStays
  <2>3. CASE joined'[f] = written
    <3>1. written[v] \in Nat /\ Reached(f, v) <= written[v]
      BY DEF Reached, LSInv, LogTypeOK
    <3>2. Reached(f, v) \in Int
      BY ReachedType DEF LSInv
    <3> QED
      BY <2>1, <2>3, <3>1, <3>2
  <2> QED
    BY <1>2, <2>2, <2>3
<1> QED
  BY <1>1, <1>2 DEF GapInv

LEMMA FollowingGap ==
    ASSUME GSInv, LSInv', NEW f \in Followers, Following(f)
    PROVE  GSInv'
<1> USE DEF GSInv
<1>1. CASE Subscribe(f)
  <2>1. Ensured \in Logs
    BY <1>1, EnsureType DEF Subscribe, LSInv
  <2>2. SubsInv'
    BY <1>1, <2>1 DEF SubsInv, Subscribe, HandlerStep, LSInv, LogTypeOK
  <2>3. ASSUME NEW g \in Followers, Listens(g)'
        PROVE  \/ /\ Listens(g) /\ Stream(g)' = Stream(g)
                  /\ log'[g] = log[g] /\ joined'[g] = joined[g]
               \/ joined'[g] = written
    BY <1>1, <2>3, StreamUntouched
       DEF Subscribe, HandlerStep, Listens, LSInv, LogTypeOK
  <2> QED
    BY <1>1, <2>2, <2>3, HandlerGap DEF Subscribe, writers
<1>2. CASE SubscribeAll(f)
  <2>1. SubsInv'
    BY <1>2 DEF SubsInv, SubscribeAll, HandlerStep, LSInv, LogTypeOK
  <2>2. ASSUME NEW g \in Followers, Listens(g)'
        PROVE  \/ /\ Listens(g) /\ Stream(g)' = Stream(g)
                  /\ log'[g] = log[g] /\ joined'[g] = joined[g]
               \/ joined'[g] = written
    BY <1>2, <2>2, StreamUntouched
       DEF SubscribeAll, HandlerStep, Listens, LSInv, LogTypeOK
  <2> QED
    BY <1>2, <2>1, <2>2, HandlerGap DEF SubscribeAll, writers
<1>3. CASE TakeLine(f) \/ Encoded(f)
  <2>1. SubsInv'
    BY <1>3 DEF SubsInv, TakeLine, Encoded, HandlerStep, LSInv, LogTypeOK
  <2>2. ASSUME NEW g \in Followers, Listens(g)'
        PROVE  /\ Listens(g)
               /\ log'[g] = log[g] /\ joined'[g] = joined[g]
    BY <1>3, <2>2
       DEF TakeLine, Encoded, HandlerStep, Listens, LSInv, LogTypeOK
  <2>3. \A g \in Followers : Stream(g)' = Stream(g)
    BY <1>3, TakeLineStream, EncodedStream
  <2> QED
    BY <1>3, <2>1, <2>2, <2>3, HandlerGap DEF TakeLine, Encoded, writers
<1>4. CASE EncodeFails(f) \/ CtxEnds(f)
  <2>1. PICK from \in {"select", "encode"} : Unsubscribe(f, from)
    BY <1>4 DEF EncodeFails, CtxEnds
  <2>2. ASSUME NEW g \in Followers, handler'[g] \in {"select", "encode"}
        PROVE  /\ g # f /\ handler'[g] = handler[g]
               /\ (g \in dropped' <=> g \in dropped)
               /\ UNCHANGED <<log[g], joined[g], sent[g], line[g], chan[g]>>
               /\ \A e \in Logs : g \in subs[e] => g \in subs'[e]
               /\ g \in allSubs => g \in allSubs'
    BY <2>1, <2>2 DEF Unsubscribe, HandlerStep, LSInv, LogTypeOK
  <2>3. SubsInv'
    BY <2>2 DEF SubsInv
  <2>4. ASSUME NEW g \in Followers, Listens(g)'
        PROVE  /\ Listens(g) /\ Stream(g)' = Stream(g)
               /\ log'[g] = log[g] /\ joined'[g] = joined[g]
    BY <2>2, <2>4, StreamUntouched DEF Listens
  <2> QED
    BY <2>1, <2>3, <2>4, HandlerGap DEF Unsubscribe, writers
<1> QED
  BY <1>1, <1>2, <1>3, <1>4 DEF Following

(* The inductive invariant, with what a follower has been sent. *)
THEOREM GapsInductive == LogSpec => []GSInv
<1>1. LogInit => GSInv
  BY LogInitInv DEF LogInit, GSInv, SubsInv, DetachedInv, GapInv, Listens
<1>2. LSInv' /\ GSInv /\ [LogNext]_logVars => GSInv'
  <2> SUFFICES ASSUME GSInv, LSInv', [LogNext]_logVars PROVE GSInv'
    OBVIOUS
  <2>1. ASSUME NEW w \in Writers, Attach(w) \/ Appending(w)
        PROVE  GSInv'
    BY <2>1, AttachGap, AddLineGap, FanAppGap, FanAllGap DEF Appending
  <2>2. ASSUME NEW f \in Followers, Following(f)
        PROVE  GSInv'
    BY <2>2, FollowingGap
  <2>3. CASE Detach \/ UNCHANGED logVars
    <3>1. UNCHANGED <<at, written, append, handler, log, line, sent, joined,
                      subs, allSubs, chan, dropped>>
      BY <2>3 DEF Detach, logVars, writers, followers, handlers
    <3>2. SubsInv'
      BY <3>1 DEF SubsInv, GSInv
    <3>3. \A f \in Followers : Listens(f)' =>
              /\ Listens(f) /\ Stream(f)' = Stream(f)
              /\ log'[f] = log[f] /\ joined'[f] = joined[f]
      BY <3>1, StreamUntouched DEF Listens
    <3> QED
      BY <3>1, <3>2, <3>3, HandlerGap
  <2> QED
    BY <2>1, <2>2, <2>3 DEF LogNext
<1> QED
  BY <1>1, <1>2, LogInductive, PTL DEF LogSpec

(* A follower misses a line of what it follows only if its own channel was *)
(* full, for any number of writers, followers, procLogs and slots.         *)
THEOREM GapsOnlyWhenFullHolds == LogSpec => []GapsOnlyWhenFull
<1>1. GSInv => GapsOnlyWhenFull
  <2> SUFFICES ASSUME GSInv, NEW f \in Followers \ dropped, NEW w \in Writers,
                      handler[f] \in {"select", "encode"}, Hears(f, w),
                      NEW n \in joined[f][w] + 1..Finished(w)
               PROVE  Gotten(f, w, n)
    BY DEF GapsOnlyWhenFull, Gotten
  <2>1. written[w] \in Nat /\ joined[f][w] \in Nat
    BY DEF GSInv, LSInv, LogTypeOK
  <2>2. Finished(w) <= Reached(f, w)
    BY <2>1 DEF Finished, Reached
  <2>3. n \in joined[f][w] + 1..Reached(f, w)
    BY <2>1, <2>2 DEF Finished, Reached
  <2> QED
    BY <2>3 DEF GSInv, GapInv, Listens
<1> QED
  BY <1>1, GapsInductive, PTL

=============================================================================
