----------------------------- MODULE LogFileProofs -----------------------------
(***************************************************************************)
(* Rotation loses no line that it has room for: proved for every number of *)
(* backups, every size limit and every number of crashes, between any two  *)
(* renames.  Deleting and starting the app do not overlap: the theorems    *)
(* about its lines assume one handler.                                     *)
(***************************************************************************)
EXTENDS LogFile, FiniteSetTheorems, SequenceTheorems, WellFoundedInduction,
        TLAPS

SingleHandler == \A t, u \in Handlers : t = u

(* The types, part by part. *)
AppTypes ==
    registered \in BOOLEAN /\ running \in BOOLEAN /\ backups \in Backups

LogTypes ==
    /\ entry \in 0..made /\ made \in 0..MaxLogs
    /\ handle \in [Logs -> 0..MaxFiles]
    /\ logSize \in [Logs -> 0..MaxLines]
    /\ limit \in [Logs -> {0, MaxBytes}]
    /\ fileMu \in [Logs -> Writers \cup {Nobody}]

DiskTypes ==
    /\ names \in [Backups -> 0..MaxFiles]
    /\ content \in [Files -> Seq(1..written)]
    /\ written \in 0..MaxLines
    /\ crashes \in 0..MaxCrashes

ThreadTypes ==
    /\ pc \in [Writers \cup Handlers ->
                  {"idle", "configure", "detach", "close", "shift", "open"}]
    /\ pl \in [Writers \cup Handlers -> 0..made]
    /\ shift \in [Writers -> 0..MaxBackup]

LockInv ==
    \A l \in Logs : fileMu[l] # Nobody =>
        pl[fileMu[l]] = l /\ pc[fileMu[l]] \in {"shift", "open"}

(* What a procLog believes, for any number of handlers. *)
SizeInv ==
    /\ \A f \in Files : Len(content[f]) <= written
    /\ \A l \in Logs : logSize[l] <= written

(* A goroutine that rotates holds the lock of its procLog. *)
WorkInv ==
    /\ \A w \in Writers :
           /\ pc[w] \in {"idle", "shift", "open"}
           /\ pc[w] # "idle" => pl[w] # None /\ fileMu[pl[w]] = w
           /\ pc[w] = "shift" => shift[w] = 0 \/ shift[w] < backups
    /\ \A t \in Handlers :
           /\ pc[t] \in {"idle", "configure", "detach", "close"}
           /\ pc[t] = "close" <=> pl[t] # None

TypeInv ==
    /\ AppTypes /\ LogTypes /\ DiskTypes /\ ThreadTypes
    /\ LockInv /\ SizeInv /\ WorkInv

(* Where the handler stands tells how far the app has come. *)
AppInv ==
    /\ running => registered /\ entry # None
    /\ \A t \in Handlers :
           /\ pc[t] = "idle" =>
                  (registered <=> running) /\ (registered <=> entry # None)
           /\ pc[t] = "configure" => registered /\ ~running /\ entry = None
           /\ pc[t] = "detach" => ~registered /\ ~running /\ entry # None
           /\ pc[t] = "close" => ~registered /\ ~running /\ entry = None

(* The procLog of the name, or the one that is being detached. *)
Live == {l \in Logs : \/ l = entry
                      \/ \E t \in Handlers : pl[t] = l}

(* Only that one has a file, which is the one called .log. *)
LiveInv ==
    \A l \in Logs : handle[l] # None \/ fileMu[l] # Nobody => l \in Live

HandleInv ==
    \A l \in Logs : handle[l] # None =>
        /\ handle[l] = names[0]
        /\ logSize[l] = Len(content[handle[l]])
        /\ limit[l] = MaxBytes

(* And it has one, unless SetLogFile or rotate could not open it. *)
EntryInv ==
    entry # None =>
        \/ handle[entry] # None \/ fileMu[entry] # Nobody
        \/ OpenErrors /\ (limit[entry] = 0 \/ logSize[entry] >= limit[entry])

(* A procLog that is not made yet has no limit. *)
FreshInv == \A l \in Logs : l > made => limit[l] = 0

(* A rotation moves the files up one by one, from the oldest. *)
ShiftInv ==
    \A w \in Writers :
        /\ pc[w] # "idle" =>
               /\ handle[pl[w]] = None
               /\ limit[pl[w]] = MaxBytes /\ logSize[pl[w]] >= MaxBytes
        /\ pc[w] = "shift" =>
               /\ names[0] # None /\ Len(content[names[0]]) >= MaxBytes
               /\ shift[w] < backups - 1 => names[shift[w] + 1] = None
        /\ pc[w] = "open" => names[0] = None

(* No file has two names, and a backup is full. *)
NamesInv ==
    /\ \A s \in Backups : s > backups => names[s] = None
    /\ \A s, t \in Backups : names[s] = names[t] => s = t \/ names[s] = None
    /\ \A s \in 1..backups :
           names[s] # None => Len(content[names[s]]) >= MaxBytes

FileInv ==
    /\ TypeInv /\ FreshInv /\ AppInv
    /\ LiveInv /\ HandleInv /\ EntryInv
    /\ ShiftInv /\ NamesInv

(* The lines by their place: the file of number s holds those after b[s+1] *)
(* up to b[s], so that nothing is missing, doubled or out of order.  Lines *)
(* are only given up when there is an oldest backup.                       *)
Lines(b) ==
    /\ b[0] = written
    /\ \A s \in 0..backups :
           /\ b[s + 1] <= b[s]
           /\ names[s] = None => b[s + 1] = b[s]
           /\ names[s] # None =>
                  /\ Len(content[names[s]]) = b[s] - b[s + 1]
                  /\ \A i \in 1..b[s] - b[s + 1] :
                         content[names[s]][i] = b[s + 1] + i
    /\ b[backups + 1] > 0 /\ backups > 0 => names[backups] # None

LinesInv == \E b \in [0..backups + 1 -> Nat] : Lines(b)

(* A number below the oldest backup's that no file has, and the one that a *)
(* rotation under way is about to fill.                                    *)
Holes == {s \in 1..backups : /\ names[s] = None
                             /\ \E t \in s..backups : names[t] # None}
InFlight == {s \in 1..backups :
                \E w \in Writers : pc[w] = "shift" /\ s = shift[w] + 1}

(* Each crash left one hole at most. *)
HolesInv == Cardinality(Holes \ InFlight) <= crashes

KeptInv == FileInv /\ LinesInv /\ HolesInv
-----------------------------------------------------------------------------
(* Lines are numbered in the order of their writing. *)
LEMMA NextLine ==
    ASSUME NEW n \in Nat, NEW q \in Seq(1..n)
    PROVE  /\ q \in Seq(1..n + 1) /\ Append(q, n + 1) \in Seq(1..n + 1)
           /\ Len(q) \in Nat /\ Len(Append(q, n + 1)) = Len(q) + 1
           /\ \A i \in 1..Len(q) : Append(q, n + 1)[i] = q[i]
           /\ Append(q, n + 1)[Len(q) + 1] = n + 1
<1>1. q \in Seq(1..n + 1)
  BY SeqMonotonic
<1> QED
  BY <1>1

(* A file that holds the lines after a up to n holds one more. *)
LEMMA NextBlock ==
    ASSUME NEW n \in Nat, NEW a \in Nat, a <= n, NEW q \in Seq(1..n),
           Len(q) = n - a, \A i \in 1..n - a : q[i] = a + i
    PROVE  /\ Len(Append(q, n + 1)) = n + 1 - a
           /\ \A i \in 1..n + 1 - a : Append(q, n + 1)[i] = a + i
<1>1. /\ Len(Append(q, n + 1)) = n + 1 - a
      /\ \A i \in 1..n - a : Append(q, n + 1)[i] = q[i]
      /\ Append(q, n + 1)[n - a + 1] = n + 1
  BY NextLine
<1>2. ASSUME NEW i \in 1..n + 1 - a
      PROVE  Append(q, n + 1)[i] = a + i
  <2>1. CASE i = n - a + 1
    BY <1>1, <2>1
  <2>2. CASE i # n - a + 1
    <3>1. i \in 1..n - a
      BY <2>2
    <3> QED
      BY <1>1, <3>1
  <2> QED
    BY <2>1, <2>2
<1> QED
  BY <1>1, <1>2

(* A write adds its line to one file. *)
LEMMA WroteStep ==
    ASSUME TypeInv, NEW l \in Logs, handle[l] # None, written < MaxLines,
           Wrote(l)
    PROVE  /\ content' \in [Files -> Seq(1..written')]
           /\ written \in Nat /\ written' \in 0..MaxLines
           /\ written' = written + 1
           /\ \A f \in Files : content'[f] =
                  IF f = handle[l] THEN Append(content[f], written + 1)
                                   ELSE content[f]
           /\ Len(content'[handle[l]]) = Len(content[handle[l]]) + 1
           /\ \A f \in Files : Len(content[f]) \in Nat
           /\ \A f \in Files : Len(content'[f]) <= written'
           /\ \A m \in Logs : logSize'[m] =
                  IF m = l THEN logSize[m] + 1 ELSE logSize[m]
           /\ logSize' \in [Logs -> 0..MaxLines]
           /\ \A m \in Logs : logSize'[m] <= written'
<1> USE LogFileAssumption
    DEF TypeInv, LogTypes, DiskTypes, SizeInv, Wrote, None, Files, Logs
<1>1. written \in Nat /\ handle[l] \in Files /\ written' = written + 1
  OBVIOUS
<1>2. \A f \in Files :
         /\ content[f] \in Seq(1..written + 1)
         /\ Append(content[f], written + 1) \in Seq(1..written + 1)
         /\ Len(content[f]) \in Nat
         /\ Len(Append(content[f], written + 1)) = Len(content[f]) + 1
  BY <1>1, NextLine
<1>3. \A f \in Files : content'[f] =
         IF f = handle[l] THEN Append(content[f], written + 1) ELSE content[f]
  BY <1>1
<1>4. content' \in [Files -> Seq(1..written')]
  BY <1>1, <1>2, <1>3
<1>5. \A m \in Logs : logSize'[m] =
         IF m = l THEN logSize[m] + 1 ELSE logSize[m]
  OBVIOUS
<1>6. written' \in 0..MaxLines /\ MaxLines \in Nat
  BY <1>1
<1>7. /\ \A f \in Files : Len(content[f]) <= written
      /\ \A m \in Logs : logSize[m] <= written
  BY DEF SizeInv
<1>8. /\ logSize \in [Logs -> 0..MaxLines]
      /\ logSize' = [logSize EXCEPT ![l] = @ + 1]
  BY DEF LogTypes, Wrote
<1> HIDE DEF TypeInv, LogTypes, DiskTypes, SizeInv, Wrote, None, Files, Logs
<1>9. Len(content'[handle[l]]) = Len(content[handle[l]]) + 1
  BY <1>1, <1>2, <1>3
<1>10. ASSUME NEW f \in Files
       PROVE  Len(content'[f]) <= written'
  <2>1. Len(content[f]) \in Nat /\ Len(content[f]) <= written
    BY <1>2, <1>7
  <2>2. content'[f] \in {content[f], Append(content[f], written + 1)}
    BY <1>3
  <2>3. Len(content'[f]) \in {Len(content[f]), Len(content[f]) + 1}
    BY <1>2, <2>2
  <2> QED
    BY <1>1, <2>1, <2>3
<1>11. ASSUME NEW m \in Logs
       PROVE  logSize'[m] \in 0..MaxLines /\ logSize'[m] <= written'
  <2>1. logSize[m] \in 0..MaxLines /\ logSize[m] <= written
    BY <1>7, <1>8
  <2>2. logSize'[m] \in {logSize[m], logSize[m] + 1}
    BY <1>5
  <2> QED
    BY <1>1, <1>6, <2>1, <2>2
<1>12. logSize' \in [Logs -> 0..MaxLines]
  BY <1>8, <1>11
<1>13. \A f \in Files : Len(content[f]) \in Nat
  BY <1>2
<1> QED
  BY <1>1, <1>3, <1>4, <1>5, <1>6, <1>9, <1>10, <1>11, <1>12, <1>13

(* What a rename does to the names. *)
LEMMA RenameType ==
    ASSUME DiskTypes, NEW s \in Backups, NEW t \in Backups, Rename(s, t)
    PROVE  /\ names' \in [Backups -> 0..MaxFiles]
           /\ names[s] = None => names' = names
           /\ names[s] # None /\ s # t => \A u \in Backups : names'[u] =
                  IF u = s THEN None ELSE IF u = t THEN names[s] ELSE names[u]
<1>1. CASE names[s] = None
  BY <1>1 DEF Rename, DiskTypes
<1>2. CASE names[s] # None
  <2>1. names' = [names EXCEPT ![t] = names[s], ![s] = None]
    BY <1>2 DEF Rename
  <2>2. names \in [Backups -> 0..MaxFiles] /\ None \in 0..MaxFiles
    BY LogFileAssumption DEF DiskTypes, None
  <2> QED
    BY <1>2, <2>1, <2>2
<1> QED
  BY <1>1, <1>2

(* Types survive every step, with any number of handlers. *)
LEMMA TypeStep ==
    ASSUME TypeInv, Next
    PROVE  TypeInv'
<1> USE LogFileAssumption
    DEF TypeInv, None, Files, Logs, Backups, appVars, logVars, diskVars,
        threads, Goes
<1>1. ASSUME NEW t \in Handlers, Register(t)
      PROVE  TypeInv'
  <2>1. AppTypes'
    BY <1>1 DEF Register, AppTypes
  <2>2. DiskTypes'
    BY <1>1 DEF Register, DiskTypes, LogTypes
  <2>3. LogTypes'
    BY <1>1 DEF Register, LogTypes, DiskTypes
  <2>4. ThreadTypes'
    BY <1>1 DEF Register, ThreadTypes, LogTypes
  <2>5. LockInv'
    BY <1>1 DEF Register, LockInv, ThreadTypes, LogTypes
  <2>6. SizeInv'
    BY <1>1 DEF Register, SizeInv, DiskTypes, LogTypes
  <2>7. WorkInv'
    BY <1>1 DEF Register, WorkInv, LockInv, ThreadTypes, LogTypes,
       AppTypes
  <2> QED
    BY <2>1, <2>2, <2>3, <2>4, <2>5, <2>6, <2>7
<1>2. ASSUME NEW t \in Handlers, SetLogFile(t)
      PROVE  TypeInv'
  <2>0. PICK l \in Logs, f \in Files : SetLogFile(t)!(l, f)
    BY <1>2 DEF SetLogFile
  <2>1. AppTypes'
    BY <2>0 DEF SetLogFile, Ensure, AppTypes
  <2>2. DiskTypes'
    <3>1. <<>> \in Seq(1..written)
      BY EmptySeq
    <3>2. content' \in [Files -> Seq(1..written)]
      BY <2>0, <3>1 DEF DiskTypes
    <3>3. names' \in [Backups -> 0..MaxFiles]
      BY <2>0 DEF DiskTypes
    <3> QED
      BY <2>0, <3>2, <3>3 DEF DiskTypes
  <2>3. LogTypes'
    <3>1. Len(content[f]) \in 0..MaxLines
      BY LenProperties DEF DiskTypes, SizeInv
    <3>2. logSize' \in [Logs -> 0..MaxLines]
      BY <2>0, <3>1 DEF LogTypes
    <3>3. /\ handle' \in [Logs -> 0..MaxFiles]
          /\ limit' \in [Logs -> {0, MaxBytes}]
      BY <2>0 DEF LogTypes
    <3>4. entry' \in 0..made' /\ made' \in 0..MaxLogs
      BY <2>0 DEF Ensure, LogTypes
    <3> QED
      BY <2>0, <3>2, <3>3, <3>4 DEF LogTypes
  <2>4. ThreadTypes'
    BY <2>0 DEF SetLogFile, Ensure, ThreadTypes, LogTypes
  <2>5. LockInv'
    BY <2>0, SMTT(30) DEF SetLogFile, Ensure, LockInv, ThreadTypes, LogTypes
  <2>6. SizeInv'
    <3>1. /\ written' = written /\ written \in Nat
          /\ \A g \in Files : content'[g] \in {content[g], <<>>}
      BY <2>0 DEF DiskTypes
    <3>2. \A g \in Files : Len(content'[g]) <= written'
      BY <3>1, EmptySeq DEF SizeInv
    <3>3. \A m \in Logs : logSize'[m] \in {logSize[m], Len(content[f]), 0}
      BY <2>0 DEF LogTypes
    <3> QED
      BY <3>1, <3>2, <3>3, SMTT(30) DEF SizeInv
  <2>7. WorkInv'
    BY <2>0 DEF SetLogFile, Ensure, WorkInv, LockInv, ThreadTypes, LogTypes,
       AppTypes
  <2> QED
    BY <2>1, <2>2, <2>3, <2>4, <2>5, <2>6, <2>7
<1>14. ASSUME NEW t \in Handlers, SetLogFileFails(t)
       PROVE  TypeInv'
  <2>0. PICK l \in Logs : SetLogFileFails(t)!(l)
    BY <1>14 DEF SetLogFileFails
  <2>1. AppTypes'
    BY <2>0 DEF AppTypes
  <2>2. DiskTypes'
    BY <2>0 DEF DiskTypes
  <2>3. LogTypes'
    <3>1. /\ handle' \in [Logs -> 0..MaxFiles]
          /\ entry' \in 0..made' /\ made' \in 0..MaxLogs
      BY <2>0, SMTT(30) DEF Ensure, LogTypes
    <3> QED
      BY <2>0, <3>1 DEF LogTypes
  <2>4. ThreadTypes'
    BY <2>0, SMTT(30) DEF Ensure, ThreadTypes, LogTypes
  <2>5. LockInv'
    BY <2>0, SMTT(30) DEF Ensure, LockInv, ThreadTypes, LogTypes
  <2>6. SizeInv'
    BY <2>0 DEF SizeInv
  <2>7. WorkInv'
    BY <2>0 DEF Ensure, WorkInv, LockInv, ThreadTypes, LogTypes, AppTypes
  <2> QED
    BY <2>1, <2>2, <2>3, <2>4, <2>5, <2>6, <2>7
<1>3. ASSUME NEW t \in Handlers, DeleteRemoves(t)
      PROVE  TypeInv'
  <2>1. AppTypes'
    BY <1>3 DEF DeleteRemoves, AppTypes
  <2>2. DiskTypes'
    BY <1>3 DEF DeleteRemoves, DiskTypes, LogTypes
  <2>3. LogTypes'
    BY <1>3 DEF DeleteRemoves, LogTypes, DiskTypes
  <2>4. ThreadTypes'
    BY <1>3 DEF DeleteRemoves, ThreadTypes, LogTypes
  <2>5. LockInv'
    BY <1>3 DEF DeleteRemoves, LockInv, ThreadTypes, LogTypes
  <2>6. SizeInv'
    BY <1>3 DEF DeleteRemoves, SizeInv, DiskTypes, LogTypes
  <2>7. WorkInv'
    BY <1>3 DEF DeleteRemoves, WorkInv, LockInv, ThreadTypes, LogTypes,
       AppTypes
  <2> QED
    BY <2>1, <2>2, <2>3, <2>4, <2>5, <2>6, <2>7
<1>4. ASSUME NEW t \in Handlers, DetachDrops(t)
      PROVE  TypeInv'
  <2>1. AppTypes'
    BY <1>4 DEF DetachDrops, AppTypes
  <2>2. DiskTypes'
    BY <1>4 DEF DetachDrops, DiskTypes, LogTypes
  <2>3. LogTypes'
    BY <1>4 DEF DetachDrops, LogTypes, DiskTypes
  <2>4. ThreadTypes'
    BY <1>4 DEF DetachDrops, ThreadTypes, LogTypes
  <2>5. LockInv'
    BY <1>4, SMTT(30) DEF DetachDrops, LockInv, ThreadTypes, LogTypes
  <2>6. SizeInv'
    BY <1>4 DEF DetachDrops, SizeInv, DiskTypes, LogTypes
  <2>7. WorkInv'
    BY <1>4, SMTT(30) DEF DetachDrops, WorkInv, LockInv, ThreadTypes, LogTypes,
       AppTypes
  <2> QED
    BY <2>1, <2>2, <2>3, <2>4, <2>5, <2>6, <2>7
<1>5. ASSUME NEW t \in Handlers, DetachCloses(t)
      PROVE  TypeInv'
  <2>1. AppTypes'
    BY <1>5 DEF DetachCloses, AppTypes
  <2>2. DiskTypes'
    BY <1>5 DEF DetachCloses, DiskTypes, LogTypes
  <2>3. LogTypes'
    <3>1. pl[t] \in Logs
      BY <1>5 DEF DetachCloses, WorkInv, LogTypes, ThreadTypes
    <3>2. handle' \in [Logs -> 0..MaxFiles]
      BY <1>5, <3>1 DEF DetachCloses, LogTypes
    <3> QED
      BY <1>5, <3>2 DEF DetachCloses, LogTypes
  <2>4. ThreadTypes'
    BY <1>5 DEF DetachCloses, ThreadTypes, LogTypes
  <2>5. LockInv'
    BY <1>5 DEF DetachCloses, LockInv, ThreadTypes, LogTypes
  <2>6. SizeInv'
    BY <1>5 DEF DetachCloses, SizeInv, DiskTypes, LogTypes
  <2>7. WorkInv'
    BY <1>5 DEF DetachCloses, WorkInv, LockInv, ThreadTypes, LogTypes,
       AppTypes
  <2> QED
    BY <2>1, <2>2, <2>3, <2>4, <2>5, <2>6, <2>7
<1>6. ASSUME NEW w \in Writers, Attach(w)
      PROVE  TypeInv'
  <2>0. PICK l \in Logs : Attach(w)!(l)
    BY <1>6 DEF Attach
  <2>1. AppTypes'
    BY <2>0 DEF Attach, Ensure, AppTypes
  <2>2. DiskTypes'
    BY <2>0 DEF Attach, Ensure, DiskTypes, LogTypes
  <2>3. LogTypes'
    <3>1. entry' \in 0..made' /\ made' \in 0..MaxLogs
      BY <2>0, SMTT(30) DEF Ensure, LogTypes
    <3> QED
      BY <2>0, <3>1 DEF LogTypes
  <2>4. ThreadTypes'
    BY <2>0, SMTT(30) DEF Attach, Ensure, ThreadTypes, LogTypes
  <2>5. LockInv'
    BY <2>0 DEF Attach, Ensure, LockInv, ThreadTypes, LogTypes
  <2>6. SizeInv'
    BY <2>0 DEF Attach, Ensure, SizeInv, DiskTypes, LogTypes
  <2>7. WorkInv'
    BY <2>0, SMTT(30) DEF Attach, Ensure, WorkInv, LockInv, ThreadTypes,
       LogTypes, AppTypes
  <2> QED
    BY <2>1, <2>2, <2>3, <2>4, <2>5, <2>6, <2>7
<1>7. ASSUME NEW w \in Writers, Write(w)
      PROVE  TypeInv'
  <2>0. pl[w] \in Logs /\ handle[pl[w]] # None /\ written < MaxLines
        /\ Wrote(pl[w])
    BY <1>7 DEF Write, CanWrite, ThreadTypes, LogTypes
  <2>1. AppTypes'
    BY <1>7, <2>0, WroteStep DEF Write, CanWrite, AppTypes
  <2>2. DiskTypes'
    BY <1>7, <2>0, WroteStep DEF Write, CanWrite, DiskTypes, LogTypes
  <2>3. LogTypes'
    BY <1>7, <2>0, WroteStep DEF Write, CanWrite, LogTypes, DiskTypes
  <2>4. ThreadTypes'
    BY <1>7, <2>0, WroteStep DEF Write, CanWrite, ThreadTypes, LogTypes
  <2>5. LockInv'
    BY <1>7, <2>0, WroteStep DEF Write, CanWrite, LockInv, ThreadTypes, LogTypes
  <2>6. SizeInv'
    BY <1>7, <2>0, WroteStep DEF Write, CanWrite, SizeInv, DiskTypes, LogTypes
  <2>7. WorkInv'
    BY <1>7, <2>0, WroteStep DEF Write, CanWrite, WorkInv, LockInv,
       ThreadTypes, LogTypes, AppTypes
  <2> QED
    BY <2>1, <2>2, <2>3, <2>4, <2>5, <2>6, <2>7
<1>8. ASSUME NEW w \in Writers, WriteFills(w)
      PROVE  TypeInv'
  <2>0. pl[w] \in Logs /\ handle[pl[w]] # None /\ written < MaxLines
        /\ Wrote(pl[w])
    BY <1>8 DEF WriteFills, CanWrite, ThreadTypes, LogTypes
  <2>1. AppTypes'
    BY <1>8, <2>0, WroteStep DEF WriteFills, CanWrite, AppTypes
  <2>2. DiskTypes'
    BY <1>8, <2>0, WroteStep DEF WriteFills, CanWrite, DiskTypes, LogTypes
  <2>3. LogTypes'
    <3>1. logSize' \in [Logs -> 0..MaxLines]
      BY <2>0, WroteStep
    <3>2. handle' \in [Logs -> 0..MaxFiles]
      BY <1>8, <2>0 DEF WriteFills, LogTypes
    <3>3. fileMu' \in [Logs -> Writers \cup {Nobody}]
      BY <1>8, <2>0 DEF WriteFills, LogTypes
    <3> QED
      BY <1>8, <3>1, <3>2, <3>3 DEF WriteFills, LogTypes
  <2>4. ThreadTypes'
    BY <1>8 DEF WriteFills, ThreadTypes, AppTypes
  <2>5. LockInv'
    <3>1. /\ \A l \in Logs : fileMu'[l] = IF l = pl[w] THEN w ELSE fileMu[l]
          /\ \A t \in Writers \cup Handlers :
                 pl'[t] = pl[t] /\ pc'[t] = IF t = w THEN "shift" ELSE pc[t]
      BY <1>8 DEF WriteFills, ThreadTypes, LogTypes
    <3>2. ASSUME NEW l \in Logs, l # pl[w], fileMu[l] # Nobody
          PROVE  /\ fileMu[l] \in Writers /\ pl[fileMu[l]] = l
                 /\ pc[fileMu[l]] \in {"shift", "open"}
      BY <3>2 DEF LockInv, LogTypes
    <3> QED
      BY <3>1, <3>2 DEF LockInv
  <2>6. SizeInv'
    BY <1>8, <2>0, WroteStep DEF WriteFills, CanWrite, SizeInv, DiskTypes,
       LogTypes
  <2>7. WorkInv'
    BY <1>8, <2>0 DEF WriteFills, CanWrite, WorkInv, ThreadTypes, LogTypes,
       AppTypes
  <2> QED
    BY <2>1, <2>2, <2>3, <2>4, <2>5, <2>6, <2>7
<1>9. ASSUME NEW w \in Writers, ShiftBackup(w)
      PROVE  TypeInv'
  <2>1. AppTypes'
    BY <1>9 DEF ShiftBackup, Rename, AppTypes
  <2>2. DiskTypes'
    <3>1. shift[w] \in Backups /\ shift[w] + 1 \in Backups
      BY <1>9 DEF ShiftBackup, WorkInv, ThreadTypes, AppTypes
    <3>2. names' \in [Backups -> 0..MaxFiles]
      BY <1>9, <3>1, RenameType DEF ShiftBackup
    <3> QED
      BY <1>9, <3>2 DEF ShiftBackup, DiskTypes
  <2>3. LogTypes'
    BY <1>9 DEF ShiftBackup, Rename, LogTypes, DiskTypes
  <2>4. ThreadTypes'
    BY <1>9 DEF ShiftBackup, Rename, ThreadTypes, LogTypes
  <2>5. LockInv'
    BY <1>9 DEF ShiftBackup, Rename, LockInv, ThreadTypes, LogTypes
  <2>6. SizeInv'
    BY <1>9 DEF ShiftBackup, Rename, SizeInv, DiskTypes, LogTypes
  <2>7. WorkInv'
    BY <1>9 DEF ShiftBackup, Rename, WorkInv, LockInv, ThreadTypes, LogTypes,
       AppTypes
  <2> QED
    BY <2>1, <2>2, <2>3, <2>4, <2>5, <2>6, <2>7
<1>10. ASSUME NEW w \in Writers, ShiftLog(w)
       PROVE  TypeInv'
  <2>1. AppTypes'
    BY <1>10 DEF ShiftLog, Rename, AppTypes
  <2>2. DiskTypes'
    <3>1. CASE backups > 0
      BY <1>10, <3>1, RenameType DEF ShiftLog, AppTypes, DiskTypes
    <3>2. CASE ~(backups > 0)
      <4>1. names' = [names EXCEPT ![0] = None] /\ 0 \in Backups
        BY <1>10, <3>2 DEF ShiftLog
      <4>2. names' \in [Backups -> 0..MaxFiles]
        BY <4>1 DEF DiskTypes
      <4> QED
        BY <1>10, <4>2 DEF ShiftLog, DiskTypes
    <3> QED
      BY <1>10, <3>1, <3>2 DEF ShiftLog, DiskTypes
  <2>3. LogTypes'
    BY <1>10 DEF ShiftLog, Rename, LogTypes, DiskTypes
  <2>4. ThreadTypes'
    BY <1>10 DEF ShiftLog, Rename, ThreadTypes, LogTypes
  <2>5. LockInv'
    BY <1>10 DEF ShiftLog, Rename, LockInv, ThreadTypes, LogTypes
  <2>6. SizeInv'
    BY <1>10 DEF ShiftLog, Rename, SizeInv, DiskTypes, LogTypes
  <2>7. WorkInv'
    BY <1>10 DEF ShiftLog, Rename, WorkInv, LockInv, ThreadTypes, LogTypes,
       AppTypes
  <2> QED
    BY <2>1, <2>2, <2>3, <2>4, <2>5, <2>6, <2>7
<1>11. ASSUME NEW w \in Writers, OpenFresh(w)
       PROVE  TypeInv'
  <2>0. PICK f \in Files : OpenFresh(w)!(f)
    BY <1>11 DEF OpenFresh
  <2>1. AppTypes'
    BY <2>0 DEF OpenFresh, AppTypes
  <2>2. DiskTypes'
    BY <2>0 DEF OpenFresh, DiskTypes, LogTypes
  <2>3. LogTypes'
    <3>0. pl[w] \in Logs
      BY <2>0 DEF WorkInv, LogTypes, ThreadTypes
    <3>1. logSize' \in [Logs -> 0..MaxLines]
      BY <2>0, <3>0 DEF LogTypes, DiskTypes
    <3>2. handle' \in [Logs -> 0..MaxFiles]
      BY <2>0, <3>0 DEF LogTypes
    <3>3. fileMu' \in [Logs -> Writers \cup {Nobody}]
      BY <2>0 DEF LogTypes
    <3> QED
      BY <2>0, <3>1, <3>2, <3>3 DEF LogTypes
  <2>4. ThreadTypes'
    BY <2>0 DEF OpenFresh, ThreadTypes, LogTypes
  <2>5. LockInv'
    BY <2>0 DEF OpenFresh, LockInv, ThreadTypes, LogTypes
  <2>6. SizeInv'
    BY <2>0 DEF OpenFresh, SizeInv, DiskTypes, LogTypes
  <2>7. WorkInv'
    BY <2>0 DEF OpenFresh, WorkInv, LockInv, ThreadTypes, LogTypes,
       AppTypes
  <2> QED
    BY <2>1, <2>2, <2>3, <2>4, <2>5, <2>6, <2>7
<1>12. ASSUME NEW w \in Writers, OpenFails(w)
       PROVE  TypeInv'
  <2>1. AppTypes'
    BY <1>12 DEF OpenFails, AppTypes
  <2>2. DiskTypes'
    BY <1>12 DEF OpenFails, DiskTypes, LogTypes
  <2>3. LogTypes'
    BY <1>12 DEF OpenFails, LogTypes, DiskTypes
  <2>4. ThreadTypes'
    BY <1>12 DEF OpenFails, ThreadTypes, LogTypes
  <2>5. LockInv'
    BY <1>12 DEF OpenFails, LockInv, ThreadTypes, LogTypes
  <2>6. SizeInv'
    BY <1>12 DEF OpenFails, SizeInv, DiskTypes, LogTypes
  <2>7. WorkInv'
    BY <1>12, SMTT(30) DEF OpenFails, WorkInv, LockInv, ThreadTypes, LogTypes,
       AppTypes
  <2> QED
    BY <2>1, <2>2, <2>3, <2>4, <2>5, <2>6, <2>7
<1>13. CASE Crash
  <2>1. AppTypes'
    BY <1>13 DEF Crash, AppTypes
  <2>2. DiskTypes'
    BY <1>13 DEF Crash, DiskTypes, LogTypes
  <2>3. LogTypes'
    BY <1>13 DEF Crash, LogTypes, DiskTypes
  <2>4. ThreadTypes'
    BY <1>13 DEF Crash, ThreadTypes, LogTypes
  <2>5. LockInv'
    BY <1>13 DEF Crash, LockInv, ThreadTypes, LogTypes
  <2>6. SizeInv'
    BY <1>13 DEF Crash, SizeInv, DiskTypes, LogTypes
  <2>7. WorkInv'
    BY <1>13 DEF Crash, WorkInv, LockInv, ThreadTypes, LogTypes,
       AppTypes
  <2> QED
    BY <2>1, <2>2, <2>3, <2>4, <2>5, <2>6, <2>7
<1> QED
  BY <1>1, <1>2, <1>3, <1>4, <1>5, <1>6, <1>7, <1>8, <1>9, <1>10, <1>11,
     <1>12, <1>13, <1>14 DEF Next, Request, Scan

(* A limit is only set for a procLog that is made. *)
LEMMA FreshStep ==
    ASSUME TypeInv, FreshInv, Next
    PROVE  FreshInv'
<1>1. made \in Nat /\ \A l \in Logs : l \in Nat
  BY LogFileAssumption DEF TypeInv, LogTypes, Logs
<1>2. \A l \in Logs : Ensure(l) => made' \in {made, made + 1} /\ l <= made'
  BY <1>1 DEF Ensure, TypeInv, LogTypes
<1>3. CASE limit' = limit /\ made' \in {made, made + 1}
  BY <1>1, <1>3 DEF FreshInv
<1>4. ASSUME NEW t \in Handlers, SetLogFile(t)
      PROVE  FreshInv'
  <2>1. PICK l \in Logs : /\ Ensure(l)
                          /\ limit' = [limit EXCEPT ![l] = MaxBytes]
    BY <1>4 DEF SetLogFile
  <2>2. \A m \in Logs : m # l => limit'[m] = limit[m]
    BY <2>1 DEF TypeInv, LogTypes
  <2> QED
    BY <1>1, <1>2, <2>1, <2>2 DEF FreshInv
<1>5. ASSUME NEW t \in Handlers, Request(t)
      PROVE  FreshInv'
  <2>1. CASE SetLogFileFails(t)
    BY <1>2, <1>3, <2>1 DEF SetLogFileFails
  <2>2. CASE \/ Register(t) \/ DeleteRemoves(t)
             \/ DetachDrops(t) \/ DetachCloses(t)
    BY <1>3, <2>2
       DEF Register, DeleteRemoves, DetachDrops, DetachCloses, logVars
  <2> QED
    BY <1>4, <1>5, <2>1, <2>2 DEF Request
<1>6. ASSUME NEW w \in Writers, Scan(w)
      PROVE  FreshInv'
  <2>1. CASE Attach(w)
    BY <1>2, <1>3, <2>1 DEF Attach
  <2>2. CASE Write(w) \/ WriteFills(w) \/ OpenFresh(w) \/ OpenFails(w)
    BY <1>3, <2>2 DEF Write, WriteFills, OpenFresh, OpenFails
  <2>3. CASE ShiftBackup(w) \/ ShiftLog(w)
    BY <1>3, <2>3 DEF ShiftBackup, ShiftLog, logVars
  <2> QED
    BY <1>6, <2>1, <2>2, <2>3 DEF Scan
<1>7. CASE Crash
  BY <1>3, <1>7 DEF Crash
<1> QED
  BY <1>5, <1>6, <1>7 DEF Next

-----------------------------------------------------------------------------
(* Types hold at first. *)
LEMMA TypeInit == Init => TypeInv
<1> SUFFICES ASSUME Init PROVE TypeInv
  OBVIOUS
<1> USE LogFileAssumption DEF Init, None, Files, Logs, Backups
<1>1. <<>> \in Seq(1..0) /\ Len(<<>>) = 0
  BY EmptySeq
<1>2. AppTypes
  BY DEF AppTypes
<1>3. LogTypes
  BY DEF LogTypes
<1>4. ThreadTypes
  BY DEF ThreadTypes
<1>5. DiskTypes
  BY <1>1 DEF DiskTypes
<1>6. LockInv /\ SizeInv /\ WorkInv
  BY <1>1 DEF LockInv, SizeInv, WorkInv
<1> QED
  BY <1>2, <1>3, <1>4, <1>5, <1>6 DEF TypeInv

(* And always, for any number of handlers. *)
LEMMA TypeInductive == Spec => []TypeInv
<1>1. TypeInv /\ [Next]_vars => TypeInv'
  <2>1. TypeInv /\ UNCHANGED vars => TypeInv'
    BY DEF vars, appVars, logVars, diskVars, threads, TypeInv, AppTypes,
       LogTypes, DiskTypes, ThreadTypes, LockInv, SizeInv, WorkInv
  <2> QED
    BY <2>1, TypeStep
<1> QED
  BY <1>1, TypeInit, PTL DEF Spec

(* Type correctness; the lock of a procLog is held while it is rotated and *)
(* at no other time.                                                       *)
THEOREM LogFileTypeCorrect == Spec => []LogFileTypeOK
<1>1. TypeInv => LogFileTypeOK
  BY DEF TypeInv, AppTypes, LogTypes, DiskTypes, ThreadTypes, LockInv,
     LogFileTypeOK
<1> QED
  BY <1>1, TypeInductive, PTL

-----------------------------------------------------------------------------
(* One handler: one procLog at a time. *)

(* A goroutine that rotates has the lock. *)
LEMMA HoldsLock ==
    ASSUME TypeInv, NEW w \in Writers, pc[w] # "idle"
    PROVE  pl[w] \in Logs /\ fileMu[pl[w]] = w /\ w # Nobody
BY LogFileAssumption
   DEF TypeInv, WorkInv, ThreadTypes, LogTypes, Logs, None

LEMMA OneLive ==
    ASSUME SingleHandler, TypeInv, AppInv
    PROVE  \A l, m \in Live : l = m
BY LogFileAssumption
   DEF SingleHandler, TypeInv, WorkInv, AppInv, Live, Logs, None

LEMMA EntryLive ==
    ASSUME TypeInv, entry # None
    PROVE  entry \in Live
BY LogFileAssumption DEF TypeInv, LogTypes, Live, Logs, None

(* While it is rotated no log has a file, and one goroutine rotates. *)
LEMMA OneRotates ==
    ASSUME SingleHandler, FileInv, NEW w \in Writers, pc[w] # "idle"
    PROVE  /\ \A l \in Logs : handle[l] = None
           /\ \A v \in Writers : pc[v] # "idle" => v = w
           /\ pl[w] \in Live
<1>1. /\ pl[w] \in Logs /\ fileMu[pl[w]] = w /\ fileMu[pl[w]] # Nobody
      /\ handle[pl[w]] = None
  BY HoldsLock DEF FileInv, ShiftInv
<1>2. pl[w] \in Live
  BY <1>1 DEF FileInv, HandleInv, LiveInv
<1>3. \A l \in Logs : handle[l] # None => l = pl[w]
  BY <1>2, OneLive DEF FileInv, HandleInv, LiveInv
<1>4. \A l \in Logs : fileMu[l] # Nobody => l = pl[w]
  BY <1>2, OneLive DEF FileInv, HandleInv, LiveInv
<1>5. ASSUME NEW v \in Writers, pc[v] # "idle"
      PROVE  v = w
  <2>1. pl[v] \in Logs /\ fileMu[pl[v]] = v /\ v # Nobody
    BY <1>5, HoldsLock DEF FileInv
  <2> QED
    BY <1>1, <1>4, <2>1
<1> QED
  BY <1>1, <1>2, <1>3, <1>5

(* There is a file to open when no backup is called .log. *)
LEMMA FreeExists ==
    ASSUME SingleHandler, FileInv, names[0] = None
    PROVE  \E f \in Files : Free(f)
<1> USE LogFileAssumption DEF Files, Logs, Backups, None
<1>1. \A l \in Logs : handle[l] = None
  BY DEF FileInv, HandleInv, LiveInv
<1>2. SUFFICES ASSUME \A f \in Files : ~Free(f) PROVE FALSE
  OBVIOUS
<1>3. \A f \in Files : \E s \in 1..MaxBackup : names[s] = f
  BY <1>1, <1>2 DEF Free
<1> DEFINE of == [f \in Files |-> CHOOSE s \in 1..MaxBackup : names[s] = f]
<1>4. \A f \in Files : of[f] \in 1..MaxBackup /\ names[of[f]] = f
  BY <1>3
<1>5. of \in [Files -> 1..MaxBackup]
  BY <1>4
<1>6. /\ IsFiniteSet(Files) /\ IsFiniteSet(1..MaxBackup)
      /\ Cardinality(1..MaxBackup) < Cardinality(Files)
  <2>1. /\ IsFiniteSet(1..MaxFiles) /\ IsFiniteSet(1..MaxBackup)
        /\ Cardinality(1..MaxFiles) = IF 1 > MaxFiles THEN 0 ELSE MaxFiles
        /\ Cardinality(1..MaxBackup) = IF 1 > MaxBackup THEN 0 ELSE MaxBackup
    BY FS_Interval
  <2> QED
    BY <2>1
<1> HIDE DEF of
<1>7. \E f, g \in Files : f # g /\ of[f] = of[g]
  BY <1>5, <1>6, FS_PigeonHole
<1> QED
  BY <1>4, <1>7

(* What is opened: the file called .log, or one that is free.              *)
LEMMA Opened ==
    ASSUME SingleHandler, FileInv, NEW f \in Files, LogFileIs(f)
    PROVE  IF names[0] # None THEN f = names[0] ELSE Free(f)
BY FreeExists DEF LogFileIs

(* The handler: one step, and no other handler. *)
LEMMA HandlerStep ==
    ASSUME SingleHandler, FileInv, TypeInv', FreshInv', NEW t \in Handlers,
           Register(t) \/ DeleteRemoves(t) \/ DetachDrops(t) \/ DetachCloses(t)
    PROVE  FileInv'
<1> USE LogFileAssumption
    DEF FileInv, TypeInv, None, Files, Logs, Backups, appVars, logVars,
        diskVars, threads, Goes
<1>0. \A u \in Handlers : u = t
  BY DEF SingleHandler
<1>1. CASE Register(t)
  <2>1. AppInv'
    BY <1>0, <1>1 DEF Register, AppInv, WorkInv, ThreadTypes
  <2>2. LiveInv' /\ HandleInv' /\ EntryInv' /\ NamesInv'
    BY <1>1 DEF Register, LiveInv, Live, HandleInv, EntryInv, NamesInv
  <2>3. ShiftInv'
    BY <1>1 DEF Register, ShiftInv, ThreadTypes
  <2> QED
    BY <2>1, <2>2, <2>3
<1>2. CASE DeleteRemoves(t)
  <2>1. AppInv'
    BY <1>0, <1>2 DEF DeleteRemoves, AppInv, WorkInv, ThreadTypes
  <2>2. LiveInv' /\ HandleInv' /\ EntryInv' /\ NamesInv'
    BY <1>2 DEF DeleteRemoves, LiveInv, Live, HandleInv, EntryInv, NamesInv
  <2>3. ShiftInv'
    BY <1>2 DEF DeleteRemoves, ShiftInv, ThreadTypes
  <2> QED
    BY <2>1, <2>2, <2>3
<1>3. CASE DetachDrops(t)
  <2>0. /\ entry # None /\ entry' = None /\ entry \in Logs
        /\ pl' = [pl EXCEPT ![t] = entry]
        /\ pc' = [pc EXCEPT ![t] = "close"]
        /\ pc[t] = "detach"
    BY <1>3 DEF DetachDrops, AppInv, LogTypes
  <2>1. AppInv'
    BY <1>0, <1>3, <2>0 DEF DetachDrops, AppInv, WorkInv, ThreadTypes
  <2>2. LiveInv'
    BY <1>0, <1>3, <2>0
       DEF DetachDrops, LiveInv, Live, WorkInv, ThreadTypes
  <2>3. HandleInv' /\ EntryInv' /\ NamesInv'
    BY <1>3, <2>0 DEF DetachDrops, HandleInv, EntryInv, NamesInv
  <2>4. ShiftInv'
    BY <1>3, <2>0 DEF DetachDrops, ShiftInv, ThreadTypes
  <2> QED
    BY <2>1, <2>2, <2>3, <2>4
<1>4. CASE DetachCloses(t)
  <2>0. /\ pl[t] \in Logs /\ entry = None /\ fileMu[pl[t]] = Nobody
        /\ pl[t] \in Live
    BY <1>4 DEF DetachCloses, WorkInv, AppInv, LogTypes, ThreadTypes, Live
  <2>1. \A l \in Logs : handle'[l] = None /\ fileMu[l] = Nobody
    BY <1>4, <2>0, OneLive DEF DetachCloses, LiveInv, LogTypes
  <2>2. AppInv'
    BY <1>0, <1>4 DEF DetachCloses, AppInv, WorkInv, ThreadTypes
  <2>3. LiveInv' /\ HandleInv' /\ EntryInv' /\ NamesInv'
    BY <1>4, <2>0, <2>1
       DEF DetachCloses, LiveInv, HandleInv, EntryInv, NamesInv
  <2>4. \A w \in Writers : pc[w] = "idle"
    BY <2>1, HoldsLock
  <2>5. ShiftInv'
    BY <1>4, <2>4 DEF DetachCloses, ShiftInv, ThreadTypes
  <2> QED
    BY <2>2, <2>3, <2>5
<1> QED
  BY <1>1, <1>2, <1>3, <1>4

(* What SetLogFile meets: nothing is attached, nothing rotates. *)
LEMMA BeforeSet ==
    ASSUME SingleHandler, FileInv, NEW t \in Handlers, pc[t] = "configure"
    PROVE  /\ entry = None
           /\ \A l \in Logs : handle[l] = None /\ fileMu[l] = Nobody
           /\ \A w \in Writers : pc[w] = "idle"
<1> USE LogFileAssumption DEF FileInv, TypeInv, None, Logs
<1>1. entry = None /\ \A u \in Handlers : pl[u] = None
  BY DEF SingleHandler, AppInv, WorkInv
<1>2. \A l \in Logs : handle[l] = None /\ fileMu[l] = Nobody
  BY <1>1 DEF LiveInv, Live
<1>3. \A w \in Writers : pc[w] = "idle"
  BY <1>2, HoldsLock
<1> QED
  BY <1>1, <1>2, <1>3

(* The file that is opened was the log, or is a new one.                   *)
LEMMA OpenedNames ==
    ASSUME FileInv, NEW f \in Files,
           IF names[0] # None THEN f = names[0] ELSE Free(f),
           names' = [names EXCEPT ![0] = f]
    PROVE  /\ names'[0] = f /\ f # None
           /\ \A s \in Backups : s # 0 => names'[s] = names[s] /\ names[s] # f
<1> USE LogFileAssumption
    DEF FileInv, TypeInv, DiskTypes, None, Files, Logs, Backups
<1>1. names'[0] = f /\ f # None /\ 0 \in Backups
  OBVIOUS
<1>2. \A s \in Backups : s # 0 => names'[s] = names[s]
  OBVIOUS
<1>3. \A s \in Backups : s # 0 => names[s] # f
  BY DEF NamesInv, Free
<1> QED
  BY <1>1, <1>2, <1>3

LEMMA SetLogFileStep ==
    ASSUME SingleHandler, FileInv, TypeInv', FreshInv',
           NEW t \in Handlers, SetLogFile(t)
    PROVE  FileInv'
<1> USE LogFileAssumption
    DEF FileInv, TypeInv, None, Files, Logs, Backups, Goes
<1>0. \A u \in Handlers : u = t
  BY DEF SingleHandler
<1>1. PICK l \in Logs, f \in Files : SetLogFile(t)!(l, f)
  BY DEF SetLogFile
<1>2. /\ entry = None /\ entry' = l /\ pc[t] = "configure"
      /\ \A m \in Logs : handle[m] = None /\ fileMu[m] = Nobody
      /\ \A w \in Writers : pc[w] = "idle"
  BY <1>1, BeforeSet DEF Ensure
<1>3. /\ names'[0] = f /\ f # None
      /\ \A s \in Backups : s # 0 => names'[s] = names[s] /\ names[s] # f
  BY <1>1, Opened, OpenedNames
<1>4. /\ \A g \in Files : g # f => content'[g] = content[g]
      /\ logSize'[l] = Len(content'[f])
  <2>1. Len(<<>>) = 0
    OBVIOUS
  <2>2. content'[f] = IF names[0] = f THEN content[f] ELSE <<>>
    BY <1>1 DEF DiskTypes
  <2>3. logSize'[l] = IF names[0] = f THEN Len(content[f]) ELSE 0
    BY <1>1 DEF LogTypes
  <2>4. \A g \in Files : g # f => content'[g] = content[g]
    BY <1>1 DEF DiskTypes
  <2> QED
    BY <2>1, <2>2, <2>3, <2>4
<1>5. /\ handle'[l] = f /\ limit'[l] = MaxBytes
      /\ \A m \in Logs : m # l => handle'[m] = None
  BY <1>1, <1>2 DEF LogTypes
<1>6. AppInv'
  <2>1. registered /\ registered' /\ running' /\ entry' # None
    BY <1>1, <1>2 DEF AppInv
  <2>2. pc'[t] = "idle"
    BY <1>1 DEF ThreadTypes
  <2> QED
    BY <1>0, <2>1, <2>2 DEF AppInv
<1>7. LiveInv'
  BY <1>1, <1>2, <1>5 DEF LiveInv, Live
<1>8. HandleInv'
  BY <1>3, <1>4, <1>5 DEF HandleInv
<1>9. EntryInv'
  BY <1>2, <1>3, <1>5 DEF EntryInv
<1>10. ShiftInv'
  <2>1. \A w \in Writers : pc'[w] = "idle"
    BY <1>1, <1>2 DEF ThreadTypes
  <2> QED
    BY <2>1 DEF ShiftInv
<1>11. NamesInv'
  <2>1. backups' = backups /\ backups \in Nat
    BY <1>1 DEF AppTypes
  <2>2. \A s \in Backups : s > 0 => names'[s] = names[s]
    BY <1>3
  <2>3. \A s \in 1..backups : s \in Backups /\ s > 0
    BY DEF AppTypes
  <2>4. \A s \in Backups : s > 0 /\ names[s] # None =>
            content'[names[s]] = content[names[s]]
    <3>1. \A s \in Backups : names[s] # None => names[s] \in Files
      BY DEF DiskTypes
    <3> QED
      BY <1>3, <1>4, <3>1
  <2>5. \A s \in 1..backups' :
            names'[s] # None => Len(content'[names'[s]]) >= MaxBytes
    BY <2>1, <2>2, <2>3, <2>4 DEF NamesInv
  <2>6. \A s \in Backups : s > backups' => names'[s] = None
    BY <2>1, <2>2 DEF NamesInv
  <2>7. \A s, u \in Backups : names'[s] = names'[u] => s = u \/ names'[s] = None
    BY <1>3, <2>2 DEF NamesInv
  <2> QED
    BY <2>5, <2>6, <2>7 DEF NamesInv
<1> QED
  BY <1>6, <1>7, <1>8, <1>9, <1>10, <1>11

(* It could not open the file: a new entry, which has no limit.            *)
LEMMA SetLogFileFailsStep ==
    ASSUME SingleHandler, FileInv, TypeInv', FreshInv', NEW t \in Handlers,
           SetLogFileFails(t)
    PROVE  FileInv'
<1> USE LogFileAssumption
    DEF FileInv, TypeInv, None, Files, Logs, Backups, diskVars, Goes
<1>0. \A u \in Handlers : u = t
  BY DEF SingleHandler
<1>1. PICK l \in Logs : SetLogFileFails(t)!(l)
  BY DEF SetLogFileFails
<1>2. /\ entry = None /\ entry' = l /\ l = made + 1 /\ OpenErrors
      /\ \A m \in Logs : handle[m] = None /\ fileMu[m] = Nobody
      /\ \A w \in Writers : pc[w] = "idle"
  BY <1>1, BeforeSet DEF Ensure
<1>3. \A m \in Logs : handle'[m] = None
  BY <1>1, <1>2 DEF LogTypes
<1>4. AppInv'
  <2>1. registered /\ registered' /\ running' /\ entry' # None
    BY <1>1, <1>2 DEF AppInv
  <2>2. pc'[t] = "idle"
    BY <1>1 DEF ThreadTypes
  <2> QED
    BY <1>0, <2>1, <2>2 DEF AppInv
<1>5. LiveInv' /\ HandleInv'
  BY <1>1, <1>2, <1>3 DEF LiveInv, HandleInv
<1>6. EntryInv'
  <2>1. limit'[l] = 0
    BY <1>1, <1>2 DEF FreshInv, LogTypes
  <2> QED
    BY <1>1, <1>2, <2>1 DEF EntryInv
<1>7. ShiftInv'
  <2>1. \A w \in Writers : pc'[w] = "idle"
    BY <1>1, <1>2 DEF ThreadTypes
  <2> QED
    BY <2>1 DEF ShiftInv
<1>8. NamesInv'
  BY <1>1 DEF NamesInv
<1> QED
  BY <1>4, <1>5, <1>6, <1>7, <1>8

(* A child is started under the entry there is. *)
LEMMA AttachStep ==
    ASSUME SingleHandler, FileInv, TypeInv', FreshInv',
           NEW w \in Writers, Attach(w)
    PROVE  FileInv'
<1> USE LogFileAssumption
    DEF FileInv, TypeInv, None, Files, Logs, Backups, appVars, logVars,
        diskVars
<1>1. PICK l \in Logs : Attach(w)!(l)
  BY DEF Attach
<1>2. UNCHANGED <<entry, made>> /\ pl' = [pl EXCEPT ![w] = l]
  BY <1>1 DEF Ensure, AppInv
<1>3. \A t \in Handlers : pl'[t] = pl[t]
  BY <1>2 DEF ThreadTypes
<1>4. AppInv' /\ LiveInv'
  BY <1>1, <1>2, <1>3 DEF AppInv, LiveInv, Live
<1>5. HandleInv' /\ EntryInv' /\ NamesInv'
  BY <1>1, <1>2 DEF HandleInv, EntryInv, NamesInv
<1>6. ShiftInv'
  BY <1>1, <1>2 DEF ShiftInv, ThreadTypes
<1> QED
  BY <1>4, <1>5, <1>6

(* What a write meets, and what it does to the files. *)
LEMMA BeforeWrite ==
    ASSUME SingleHandler, FileInv, NEW w \in Writers, CanWrite(w),
           Wrote(pl[w])
    PROVE  /\ pl[w] \in Logs /\ pl[w] \in Live
           /\ handle[pl[w]] = names[0] /\ names[0] # None
           /\ names[0] \in Files
           /\ limit[pl[w]] = MaxBytes
           /\ logSize'[pl[w]] = Len(content'[names[0]])
           /\ logSize'[pl[w]] = logSize[pl[w]] + 1
           /\ logSize[pl[w]] \in Nat
           /\ \A m \in Logs : m # pl[w] => handle[m] = None
           /\ \A v \in Writers : pc[v] = "idle"
           /\ \A s \in Backups : s # 0 /\ names[s] # None =>
                  content'[names[s]] = content[names[s]]
<1>1. pl[w] \in Logs /\ handle[pl[w]] # None /\ written < MaxLines
  BY LogFileAssumption
     DEF FileInv, TypeInv, ThreadTypes, LogTypes, CanWrite, Logs, None
<1>2. /\ \A f \in Files : f # handle[pl[w]] => content'[f] = content[f]
      /\ Len(content'[handle[pl[w]]]) = Len(content[handle[pl[w]]]) + 1
      /\ logSize'[pl[w]] = logSize[pl[w]] + 1
  BY <1>1, WroteStep DEF FileInv
<1> USE LogFileAssumption
    DEF FileInv, TypeInv, None, Files, Logs, Backups, CanWrite
<1>3. /\ pl[w] \in Live /\ handle[pl[w]] = names[0] /\ names[0] # None
      /\ limit[pl[w]] = MaxBytes
      /\ logSize[pl[w]] = Len(content[names[0]])
  BY <1>1 DEF LiveInv, HandleInv
<1>4. names[0] \in Files
  BY <1>3 DEF DiskTypes
<1>5. \A m \in Logs : m # pl[w] => handle[m] = None
  BY <1>3, OneLive DEF LiveInv
<1>6. \A v \in Writers : pc[v] = "idle"
  BY <1>1, OneRotates
<1>7. \A s \in Backups : names[s] # None => names[s] \in Files
  BY DEF DiskTypes
<1>8. \A s \in Backups : s # 0 /\ names[s] # None => names[s] # names[0]
  BY DEF NamesInv
<1>9. \A s \in Backups : s # 0 /\ names[s] # None =>
          content'[names[s]] = content[names[s]]
  BY <1>2, <1>3, <1>7, <1>8
<1>10. /\ logSize'[pl[w]] = Len(content'[names[0]])
       /\ logSize'[pl[w]] = logSize[pl[w]] + 1
  BY <1>2, <1>3
<1>11. logSize[pl[w]] \in Nat
  BY <1>1 DEF LogTypes
<1> QED
  BY <1>1, <1>3, <1>4, <1>5, <1>6, <1>9, <1>10, <1>11

(* Backups stay full while the log is written. *)
LEMMA WriteNames ==
    ASSUME FileInv, UNCHANGED <<names, backups>>,
           \A s \in Backups : s # 0 /\ names[s] # None =>
               content'[names[s]] = content[names[s]]
    PROVE  NamesInv'
<1> USE DEF FileInv, TypeInv, NamesInv, AppTypes, Backups
<1>1. \A s \in 1..backups : s \in Backups /\ s # 0
  BY LogFileAssumption
<1> QED
  BY <1>1

LEMMA WriteStep ==
    ASSUME SingleHandler, FileInv, TypeInv', FreshInv', NEW w \in Writers,
           Write(w) \/ WriteFills(w)
    PROVE  FileInv'
<1> USE LogFileAssumption
    DEF FileInv, TypeInv, None, Files, Logs, Backups, appVars, logVars,
        diskVars, threads, Goes
<1>0. CanWrite(w) /\ Wrote(pl[w]) /\ UNCHANGED <<names, backups>>
  BY DEF Write, WriteFills
<1>1. NamesInv'
  BY <1>0, BeforeWrite, WriteNames
<1>2. CASE Write(w)
  <2>1. AppInv' /\ LiveInv'
    BY <1>2 DEF Write, AppInv, LiveInv, Live
  <2>2. HandleInv'
    BY <1>0, <1>2, BeforeWrite DEF Write, HandleInv
  <2>3. EntryInv'
    <3>1. entry # None => entry = pl[w]
      BY <1>0, BeforeWrite, EntryLive, OneLive
    <3> QED
      BY <1>0, <1>2, <3>1 DEF Write, EntryInv, CanWrite
  <2>4. ShiftInv'
    BY <1>0, <1>2, BeforeWrite DEF Write, ShiftInv
  <2> QED
    BY <1>1, <2>1, <2>2, <2>3, <2>4
<1>3. CASE WriteFills(w)
  <2>1. \A l \in Logs : handle'[l] = None
    <3>1. /\ \A l \in Logs : l # pl[w] => handle[l] = None
          /\ handle' = [handle EXCEPT ![pl[w]] = None]
          /\ handle \in [Logs -> 0..MaxFiles]
      BY <1>0, <1>3, BeforeWrite, Zenon DEF WriteFills, LogTypes
    <3> QED
      BY <3>1
  <2>2. \A t \in Handlers : pc'[t] = pc[t]
    BY <1>3 DEF WriteFills, ThreadTypes
  <2>3. AppInv'
    BY <1>3, <2>2 DEF WriteFills, AppInv
  <2>4. \A l \in Logs : fileMu'[l] # Nobody => l = pl[w] \/ fileMu[l] # Nobody
    BY <1>0, <1>3, BeforeWrite DEF WriteFills, LogTypes
  <2>5. Live' = Live
    BY <1>3 DEF WriteFills, Live
  <2>6. LiveInv'
    BY <1>0, <2>1, <2>4, <2>5, BeforeWrite DEF LiveInv
  <2>7. HandleInv'
    BY <2>1 DEF HandleInv
  <2>8. EntryInv'
    <3>1. entry # None => entry = pl[w]
      BY <1>0, BeforeWrite, EntryLive, OneLive
    <3>2. fileMu'[pl[w]] = w /\ w # Nobody
      BY <1>0, <1>3, BeforeWrite DEF WriteFills, LogTypes
    <3> QED
      BY <1>3, <3>1, <3>2 DEF WriteFills, EntryInv
  <2>9. ShiftInv'
    <3>1. /\ pc'[w] = "shift"
          /\ \A v \in Writers : v # w => pc'[v] = "idle"
      BY <1>0, <1>3, BeforeWrite DEF WriteFills, ThreadTypes
    <3>2. shift'[w] = IF backups > 0 THEN backups - 1 ELSE 0
      BY <1>3 DEF WriteFills, ThreadTypes
    <3>3. /\ pl' = pl /\ limit' = limit
          /\ limit[pl[w]] = MaxBytes /\ logSize'[pl[w]] >= MaxBytes
          /\ Len(content'[names[0]]) >= MaxBytes
      BY <1>0, <1>3, BeforeWrite DEF WriteFills, Full
    <3>4. names[0] # None /\ handle'[pl[w]] = None
      BY <1>0, <2>1, BeforeWrite
    <3>5. backups \in Nat
      BY DEF AppTypes
    <3> QED
      BY <1>0, <3>1, <3>2, <3>3, <3>4, <3>5 DEF ShiftInv
  <2> QED
    BY <1>1, <2>3, <2>6, <2>7, <2>8, <2>9
<1> QED
  BY <1>2, <1>3

(* A rename moves one file up, to a number that is free or the last.       *)
LEMMA ShiftBackupStep ==
    ASSUME SingleHandler, FileInv, TypeInv', FreshInv',
           NEW w \in Writers, ShiftBackup(w)
    PROVE  FileInv'
<1> USE LogFileAssumption
    DEF FileInv, TypeInv, None, Files, Logs, Backups, appVars, logVars
<1>1. /\ pc[w] = "shift" /\ shift[w] > 0 /\ shift[w] < backups
      /\ shift[w] \in Nat /\ backups \in Nat /\ backups <= MaxBackup
      /\ shift[w] \in Backups /\ shift[w] + 1 \in Backups
      /\ Rename(shift[w], shift[w] + 1)
  BY DEF ShiftBackup, WorkInv, ThreadTypes, AppTypes
<1>2. /\ names[shift[w]] = None => names' = names
      /\ names[shift[w]] # None => \A u \in Backups : names'[u] =
             IF u = shift[w] THEN None
             ELSE IF u = shift[w] + 1 THEN names[shift[w]] ELSE names[u]
  BY <1>1, RenameType, SMTT(30)
<1>3. names'[0] = names[0] /\ names'[shift[w]] = None
  BY <1>1, <1>2
<1>4. AppInv' /\ LiveInv'
  BY DEF ShiftBackup, AppInv, LiveInv, Live
<1>5. HandleInv' /\ EntryInv'
  BY <1>3 DEF ShiftBackup, HandleInv, EntryInv
<1>6. ShiftInv'
  <2>1. \A v \in Writers : v # w => pc[v] = "idle"
    BY <1>1, OneRotates
  <2>2. shift'[w] = shift[w] - 1
    BY DEF ShiftBackup, ThreadTypes
  <2> QED
    BY <1>1, <1>3, <2>1, <2>2 DEF ShiftBackup, ShiftInv
<1>7. NamesInv'
  <2>0. backups' = backups /\ content' = content
    BY DEF ShiftBackup
  <2>1. CASE names[shift[w]] = None
    BY <1>2, <2>0, <2>1 DEF NamesInv
  <2>2. CASE names[shift[w]] # None
    BY <1>1, <1>2, <2>0, <2>2, SMTT(30) DEF NamesInv
  <2> QED
    BY <2>1, <2>2
<1> QED
  BY <1>4, <1>5, <1>6, <1>7

LEMMA ShiftLogStep ==
    ASSUME SingleHandler, FileInv, TypeInv', FreshInv',
           NEW w \in Writers, ShiftLog(w)
    PROVE  FileInv'
<1> USE LogFileAssumption
    DEF FileInv, TypeInv, None, Files, Logs, Backups, appVars, logVars, Goes
<1>1. /\ pc[w] = "shift" /\ shift[w] = 0 /\ backups \in Nat
      /\ backups <= MaxBackup /\ backups' = backups /\ content' = content
      /\ names[0] # None /\ Len(content[names[0]]) >= MaxBytes
  BY DEF ShiftLog, AppTypes, ShiftInv
<1>2. \A u \in Backups : names'[u] =
          IF u = 0 THEN None
          ELSE IF u = 1 /\ backups > 0 THEN names[0] ELSE names[u]
  <2>1. CASE backups > 0
    BY <1>1, <2>1, RenameType DEF ShiftLog
  <2>2. CASE ~(backups > 0)
    BY <2>2 DEF ShiftLog, DiskTypes
  <2> QED
    BY <2>1, <2>2
<1>3. \A l \in Logs : handle[l] = None
  BY <1>1, OneRotates
<1>4. pc' = [pc EXCEPT ![w] = "open"]
  BY DEF ShiftLog
<1>5. AppInv' /\ LiveInv'
  BY <1>4 DEF ShiftLog, AppInv, LiveInv, Live, ThreadTypes
<1>6. HandleInv' /\ EntryInv'
  BY <1>3 DEF ShiftLog, HandleInv, EntryInv
<1>7. ShiftInv'
  <2>1. \A v \in Writers : v # w => pc[v] = "idle"
    BY <1>1, OneRotates
  <2> QED
    BY <1>1, <1>2, <1>4, <2>1 DEF ShiftLog, ShiftInv, ThreadTypes
<1>8. NamesInv'
  BY <1>1, <1>2 DEF NamesInv
<1> QED
  BY <1>5, <1>6, <1>7, <1>8

(* The new log is nobody else's file. *)
LEMMA OpenFreshStep ==
    ASSUME SingleHandler, FileInv, TypeInv', FreshInv',
           NEW w \in Writers, OpenFresh(w)
    PROVE  FileInv'
<1> USE LogFileAssumption
    DEF FileInv, TypeInv, None, Files, Logs, Backups, appVars, Goes
<1>1. PICK f \in Files : OpenFresh(w)!(f)
  BY DEF OpenFresh
<1>2. /\ pc[w] = "open" /\ names[0] = None /\ pl[w] \in Logs /\ pl[w] \in Live
      /\ \A l \in Logs : handle[l] = None
      /\ \A v \in Writers : v # w => pc[v] = "idle"
  BY <1>1, OneRotates, HoldsLock DEF ShiftInv
<1>3. /\ names'[0] = f /\ f # None
      /\ \A s \in Backups : s # 0 => names'[s] = names[s] /\ names[s] # f
  BY <1>1, Opened, OpenedNames
<1>4. /\ content'[f] = <<>> /\ Len(<<>>) = 0
      /\ \A g \in Files : g # f => content'[g] = content[g]
  BY <1>1 DEF DiskTypes
<1>5. /\ handle'[pl[w]] = f /\ \A l \in Logs : l # pl[w] => handle'[l] = None
      /\ logSize'[pl[w]] = 0
  BY <1>1, <1>2 DEF LogTypes
<1>6. limit[pl[w]] = MaxBytes
  BY <1>2 DEF ShiftInv
<1>7. AppInv' /\ LiveInv'
  <2>1. \A t \in Handlers : pc'[t] = pc[t]
    BY <1>1 DEF ThreadTypes
  <2>2. \A l \in Logs : fileMu'[l] # Nobody => fileMu[l] # Nobody
    BY <1>1 DEF LogTypes
  <2>3. Live' = Live
    BY <1>1 DEF Live
  <2>4. AppInv'
    BY <1>1, <2>1 DEF AppInv
  <2>5. LiveInv'
    BY <1>2, <1>5, <2>2, <2>3 DEF LiveInv
  <2> QED
    BY <2>4, <2>5
<1>8. HandleInv'
  BY <1>1, <1>3, <1>4, <1>5, <1>6 DEF HandleInv
<1>9. EntryInv'
  <2>1. entry # None => entry = pl[w]
    BY <1>2, EntryLive, OneLive
  <2> QED
    BY <1>1, <1>3, <1>5, <2>1 DEF EntryInv
<1>10. ShiftInv'
  <2>1. \A v \in Writers : pc'[v] = "idle"
    BY <1>1, <1>2 DEF ThreadTypes
  <2> QED
    BY <2>1 DEF ShiftInv
<1>11. NamesInv'
  <2>1. backups' = backups /\ \A s \in 1..backups : s \in Backups /\ s > 0
    BY <1>1 DEF AppTypes
  <2>2. \A s \in Backups : names[s] # None => names[s] \in Files
    BY DEF DiskTypes
  <2>3. \A s \in 1..backups :
            names'[s] # None => Len(content'[names'[s]]) >= MaxBytes
    BY <1>3, <1>4, <2>1, <2>2 DEF NamesInv
  <2>4. \A s \in Backups : s > backups => names'[s] = None
    BY <1>3, <2>1 DEF NamesInv, AppTypes
  <2>5. \A s, u \in Backups : names'[s] = names'[u] => s = u \/ names'[s] = None
    BY <1>3 DEF NamesInv
  <2> QED
    BY <2>1, <2>3, <2>4, <2>5 DEF NamesInv
<1> QED
  BY <1>7, <1>8, <1>9, <1>10, <1>11

LEMMA OpenFailsStep ==
    ASSUME SingleHandler, FileInv, TypeInv', FreshInv',
           NEW w \in Writers, OpenFails(w)
    PROVE  FileInv'
<1> USE DEF FileInv, TypeInv, appVars, diskVars, Goes
<1>1. /\ pc[w] = "open" /\ pl[w] \in Logs /\ pl[w] \in Live
      /\ \A v \in Writers : v # w => pc[v] = "idle"
      /\ OpenErrors /\ logSize[pl[w]] >= limit[pl[w]]
  BY OneRotates, HoldsLock DEF OpenFails, ShiftInv
<1>2. \A t \in Handlers : pc'[t] = pc[t]
  BY <1>1 DEF OpenFails, ThreadTypes, WorkInv
<1>3. \A l \in Logs : fileMu'[l] # Nobody => fileMu[l] # Nobody
  BY DEF OpenFails, LogTypes
<1>4. AppInv' /\ LiveInv'
  BY <1>2, <1>3 DEF OpenFails, AppInv, LiveInv, Live
<1>5. HandleInv' /\ NamesInv'
  BY DEF OpenFails, HandleInv, NamesInv
<1>6. EntryInv'
  <2>1. entry # None => entry = pl[w]
    BY <1>1, EntryLive, OneLive
  <2> QED
    BY <1>1, <2>1 DEF OpenFails, EntryInv
<1>7. ShiftInv'
  <2>1. \A v \in Writers : pc'[v] = "idle"
    BY <1>1 DEF OpenFails, ThreadTypes
  <2> QED
    BY <2>1 DEF ShiftInv
<1> QED
  BY <1>4, <1>5, <1>6, <1>7

LEMMA CrashStep ==
    ASSUME FileInv, TypeInv', FreshInv', Crash
    PROVE  FileInv'
<1> USE DEF FileInv, Crash, diskVars, None
<1>1. AppInv'
  BY DEF AppInv
<1>2. LiveInv' /\ HandleInv' /\ EntryInv' /\ NamesInv'
  BY DEF LiveInv, HandleInv, EntryInv, NamesInv
<1>3. ShiftInv'
  BY DEF ShiftInv
<1> QED
  BY <1>1, <1>2, <1>3

(* The invariant about the files survives every step. *)
LEMMA FileStep ==
    ASSUME SingleHandler, FileInv, [Next]_vars
    PROVE  FileInv'
<1>1. CASE UNCHANGED vars
  <2>1. TypeInv'
    BY <1>1 DEF vars, appVars, logVars, diskVars, threads, FileInv, TypeInv,
       AppTypes, LogTypes, DiskTypes, ThreadTypes, LockInv, SizeInv, WorkInv
  <2>2. FreshInv' /\ AppInv' /\ LiveInv' /\ HandleInv' /\ EntryInv'
    BY <1>1 DEF vars, appVars, logVars, diskVars, threads, FileInv, FreshInv,
       AppInv, LiveInv, Live, HandleInv, EntryInv
  <2>3. ShiftInv' /\ NamesInv'
    BY <1>1 DEF vars, appVars, logVars, diskVars, threads, FileInv, ShiftInv,
       NamesInv
  <2> QED
    BY <2>1, <2>2, <2>3 DEF FileInv
<1>2. CASE Next
  <2>1. TypeInv' /\ FreshInv'
    BY <1>2, TypeStep, FreshStep DEF FileInv
  <2>2. ASSUME NEW t \in Handlers, Request(t)
        PROVE  FileInv'
    BY <2>1, <2>2, HandlerStep, SetLogFileStep, SetLogFileFailsStep
       DEF Request
  <2>3. ASSUME NEW w \in Writers, Scan(w)
        PROVE  FileInv'
    BY <2>1, <2>3, AttachStep, WriteStep, ShiftBackupStep, ShiftLogStep,
       OpenFreshStep, OpenFailsStep DEF Scan
  <2> QED
    BY <1>2, <2>1, <2>2, <2>3, CrashStep DEF Next
<1> QED
  BY <1>1, <1>2

LEMMA FileInit == Init => FileInv
<1> SUFFICES ASSUME Init PROVE FileInv
  OBVIOUS
<1>1. TypeInv
  BY TypeInit
<1>2. FreshInv /\ AppInv /\ LiveInv /\ HandleInv /\ EntryInv
  BY DEF Init, FreshInv, AppInv, LiveInv, HandleInv, EntryInv
<1>3. ShiftInv
  BY DEF Init, ShiftInv
<1>4. NamesInv
  BY LogFileAssumption DEF Init, NamesInv, Backups
<1> QED
  BY <1>1, <1>2, <1>3, <1>4 DEF FileInv

(* One handler at a time: an app that was started has its log open, or     *)
(* under rotation, unless rotate or SetLogFile could not open it.  Delete  *)
(* and StartApp leave no running app with a detached log.                  *)
THEOREM RunningAppHasItsFileHolds ==
    ASSUME SingleHandler
    PROVE  Spec => []RunningAppHasItsFile
<1>1. Init => FileInv
  BY FileInit
<1>2. FileInv /\ [Next]_vars => FileInv'
  BY FileStep
<1>3. FileInv => RunningAppHasItsFile
  BY DEF FileInv, AppInv, EntryInv, RunningAppHasItsFile
<1> QED
  BY <1>1, <1>2, <1>3, PTL DEF Spec

-----------------------------------------------------------------------------
(* The lines by their place. *)

(* Nothing moves. *)
LEMMA LinesFrame ==
    ASSUME LinesInv, UNCHANGED <<backups, diskVars>>
    PROVE  LinesInv'
BY DEF LinesInv, Lines, diskVars

(* The line that is written is the last of the log. *)
LEMMA LinesWritten ==
    ASSUME SingleHandler, FileInv, NEW w \in Writers, CanWrite(w),
           Wrote(pl[w]), UNCHANGED <<names, backups>>, LinesInv
    PROVE  LinesInv'
<1> USE LogFileAssumption DEF FileInv, TypeInv, None, Files, Logs, Backups
<1>1. PICK b \in [0..backups + 1 -> Nat] : Lines(b)
  BY DEF LinesInv
<1>2. /\ backups \in Nat /\ backups' = backups /\ names' = names
      /\ \A s \in 0..backups : s \in Backups /\ s + 1 \in 0..backups + 1
  BY DEF AppTypes
<1>3. /\ pl[w] \in Logs /\ handle[pl[w]] = names[0] /\ names[0] # None
      /\ names[0] \in Files /\ written < MaxLines
      /\ \A s \in Backups : s # 0 /\ names[s] # None =>
             content'[names[s]] = content[names[s]]
  BY BeforeWrite DEF CanWrite
<1>4. /\ written \in Nat /\ written' = written + 1
      /\ content[names[0]] \in Seq(1..written)
      /\ content'[names[0]] = Append(content[names[0]], written + 1)
  BY <1>3, WroteStep, ZenonT(60) DEF DiskTypes
<1>6. PICK c \in [0..backups + 1 -> Nat] :
         c[0] = written + 1 /\ \A s \in 1..backups + 1 : c[s] = b[s]
  <2>1. /\ [b EXCEPT ![0] = written + 1] \in [0..backups + 1 -> Nat]
        /\ [b EXCEPT ![0] = written + 1][0] = written + 1
        /\ \A s \in 1..backups + 1 :
               [b EXCEPT ![0] = written + 1][s] = b[s]
    BY <1>1, <1>2, <1>4
  <2> QED
    BY <2>1
<1>7. /\ b[0] = written /\ b[1] \in Nat /\ b[1] <= written
      /\ Len(content[names[0]]) = written - b[1]
      /\ \A i \in 1..written - b[1] : content[names[0]][i] = b[1] + i
  BY <1>1, <1>2, <1>3, SMTT(30) DEF Lines
<1>8. /\ Len(content'[names[0]]) = c[0] - c[1] /\ c[1] <= c[0]
      /\ \A i \in 1..c[0] - c[1] : content'[names[0]][i] = c[1] + i
  <2>1. c[1] = b[1] /\ c[0] = written + 1
    BY <1>2, <1>6
  <2>2. /\ Len(content'[names[0]]) = written + 1 - b[1]
        /\ \A i \in 1..written + 1 - b[1] : content'[names[0]][i] = b[1] + i
    <3> DEFINE q == content[names[0]]
               a == b[1]
               n == written
    <3>1. /\ n \in Nat /\ a \in Nat /\ a <= n /\ q \in Seq(1..n)
          /\ Len(q) = n - a /\ \A i \in 1..n - a : q[i] = a + i
      BY <1>4, <1>7
    <3> HIDE DEF q, a, n
    <3>2. /\ Len(Append(q, n + 1)) = n + 1 - a
          /\ \A i \in 1..n + 1 - a : Append(q, n + 1)[i] = a + i
      BY <3>1, NextBlock, ZenonT(60)
    <3> QED
      BY <1>4, <3>2 DEF q, a, n
  <2>3. c[0] - c[1] = written + 1 - b[1] /\ c[1] <= c[0]
    BY <1>4, <1>7, <2>1
  <2> QED
    BY <2>1, <2>2, <2>3
<1>9. ASSUME NEW s \in 1..backups
      PROVE  /\ c[s + 1] <= c[s]
             /\ names[s] = None => c[s + 1] = c[s]
             /\ names[s] # None =>
                    /\ Len(content'[names[s]]) = c[s] - c[s + 1]
                    /\ \A i \in 1..c[s] - c[s + 1] :
                           content'[names[s]][i] = c[s + 1] + i
  <2>1. /\ s \in 0..backups /\ s \in Backups /\ s # 0
        /\ c[s] = b[s] /\ c[s + 1] = b[s + 1]
    BY <1>2, <1>6
  <2> QED
    BY <1>1, <1>3, <2>1 DEF Lines
<1>10. c[backups + 1] > 0 /\ backups > 0 => names[backups] # None
  BY <1>1, <1>2, <1>6 DEF Lines
<1>11. Lines(c)'
  <2>1. ASSUME NEW s \in 0..backups
        PROVE  /\ c[s + 1] <= c[s]
               /\ names[s] = None => c[s + 1] = c[s]
               /\ names[s] # None =>
                      /\ Len(content'[names[s]]) = c[s] - c[s + 1]
                      /\ \A i \in 1..c[s] - c[s + 1] :
                             content'[names[s]][i] = c[s + 1] + i
    <3>1. CASE s = 0
      BY <1>3, <1>8, <3>1
    <3>2. CASE s \in 1..backups
      BY <1>9, <3>2
    <3> QED
      BY <1>2, <3>1, <3>2
  <2> QED
    BY <1>2, <1>4, <1>6, <1>10, <2>1 DEF Lines
<1> QED
  BY <1>2, <1>6, <1>11 DEF LinesInv

(* A rename, to a number that is free or the last, moves a file's lines. *)
LEMMA LinesMoved ==
    ASSUME TypeInv, LinesInv, NEW k \in 0..backups, k < backups,
           names[k] # None, k + 1 < backups => names[k + 1] = None,
           UNCHANGED <<backups, content, written>>, Rename(k, k + 1)
    PROVE  LinesInv'
<1>0. \A u \in Backups : names'[u] =
         IF u = k THEN None ELSE IF u = k + 1 THEN names[k] ELSE names[u]
  <2>1. k \in Backups /\ k + 1 \in Backups /\ k # k + 1
    BY LogFileAssumption DEF TypeInv, AppTypes, Backups
  <2> QED
    BY <2>1, RenameType DEF TypeInv
<1> USE LogFileAssumption DEF TypeInv, None, Backups
<1>1. PICK b \in [0..backups + 1 -> Nat] : Lines(b)
  BY DEF LinesInv
<1>2. /\ backups \in Nat /\ backups <= MaxBackup
      /\ \A s \in 0..backups : s \in Backups /\ s + 1 \in 0..backups + 1
  BY DEF AppTypes
<1>3. /\ \A s \in 0..backups : b[s] \in Nat /\ b[s + 1] \in Nat
      /\ b[k + 1] \in Nat /\ b[k + 2] \in Nat
      /\ b[k + 1] <= b[k] /\ b[k + 2] <= b[k + 1]
      /\ k + 1 < backups => b[k + 2] = b[k + 1]
  <2>1. /\ k + 1 \in 0..backups /\ k + 1 + 1 = k + 2
        /\ \A s \in 0..backups : s + 1 \in 0..backups + 1
    BY <1>2
  <2>2. /\ \A s \in 0..backups : b[s] \in Nat /\ b[s + 1] \in Nat
        /\ b[k + 1] \in Nat /\ b[k + 1 + 1] \in Nat
    BY <1>1, <1>2, <2>1
  <2>3. b[k + 1] <= b[k] /\ b[k + 1 + 1] <= b[k + 1]
    BY <1>1, <2>1 DEF Lines
  <2>4. k + 1 < backups => b[k + 1 + 1] = b[k + 1]
    BY <1>1, <2>1 DEF Lines
  <2> QED
    BY <2>1, <2>2, <2>3, <2>4
<1>4. PICK c \in [0..backups + 1 -> Nat] : \A s \in 0..backups + 1 :
         c[s] = IF s = k + 1 THEN b[k] ELSE IF s = k + 2 THEN b[k + 1] ELSE b[s]
  <2>1. [s \in 0..backups + 1 |->
            IF s = k + 1 THEN b[k] ELSE IF s = k + 2 THEN b[k + 1] ELSE b[s]]
        \in [0..backups + 1 -> Nat]
    BY <1>1, <1>2, <1>3
  <2> QED
    BY <2>1
<1>5. \A s \in 0..backups : /\ s \in 0..backups + 1
                            /\ s + 1 \in 0..backups + 1
  BY <1>2
<1>6. c[0] = written
  BY <1>1, <1>2, <1>4, <1>5 DEF Lines
<1>7. ASSUME NEW s \in 0..backups
      PROVE  /\ c[s + 1] <= c[s]
             /\ names'[s] = None => c[s + 1] = c[s]
             /\ names'[s] # None =>
                    /\ Len(content[names'[s]]) = c[s] - c[s + 1]
                    /\ \A i \in 1..c[s] - c[s + 1] :
                           content[names'[s]][i] = c[s + 1] + i
  <2>1. CASE s = k
    BY <1>0, <1>2, <1>3, <1>4, <1>5, <2>1, SMTT(30)
  <2>2. CASE s = k + 1
    <3>1. names'[s] = names[k] /\ c[s] = b[k] /\ c[s + 1] = b[k + 1]
      BY <1>0, <1>2, <1>4, <1>5, <2>2
    <3> QED
      BY <1>1, <1>2, <3>1, ZenonT(60) DEF Lines
  <2>3. CASE s = k + 2
    <3>1. k + 1 < backups /\ b[s] = b[k + 1] /\ names'[s] = names[s]
      <4>1. s = k + 2 /\ k + 2 <= backups
        BY <1>2, <2>3
      <4>2. k + 1 < backups /\ s # k /\ s # k + 1 /\ s \in Backups
        BY <1>2, <4>1
      <4>3. b[s] = b[k + 1]
        BY <1>3, <4>1, <4>2
      <4>4. names'[s] = names[s]
        BY <1>0, <4>1, <4>2
      <4> QED
        BY <4>2, <4>3, <4>4
    <3>2. c[s] = b[s] /\ c[s + 1] = b[s + 1]
      BY <1>2, <1>4, <1>5, <2>3, <3>1
    <3> QED
      BY <1>1, <3>1, <3>2 DEF Lines
  <2>4. CASE s \notin {k, k + 1, k + 2}
    <3>1. names'[s] = names[s] /\ c[s] = b[s] /\ c[s + 1] = b[s + 1]
      <4>1. s \in Backups /\ s # k /\ s # k + 1 /\ s # k + 2
        BY <1>2, <2>4
      <4>2. names'[s] = names[s]
        BY <1>0, <4>1
      <4>3. s + 1 # k + 1 /\ s + 1 # k + 2
        BY <1>2, <4>1
      <4> QED
        BY <1>4, <1>5, <4>1, <4>2, <4>3
    <3> QED
      BY <1>1, <3>1 DEF Lines
  <2> QED
    BY <2>1, <2>2, <2>3, <2>4
<1>8. c[backups + 1] > 0 /\ backups > 0 => names'[backups] # None
  <2>1. CASE backups = k + 1
    <3>1. backups \in Backups /\ backups # k
      BY <1>2, <2>1
    <3>2. names'[backups] = names[k]
      BY <1>0, <2>1, <3>1
    <3> QED
      BY <3>2
  <2>2. CASE backups # k + 1
    <3>1. names'[backups] = names[backups] /\ c[backups + 1] = b[backups + 1]
      <4>1. /\ backups \in Backups /\ backups # k /\ backups # k + 1
            /\ backups + 1 # k + 1 /\ backups + 1 # k + 2
            /\ backups + 1 \in 0..backups + 1
        <5>1. backups \in Backups /\ backups + 1 \in 0..backups + 1
          BY <1>2
        <5>2. backups # k /\ backups # k + 1
          BY <2>2
        <5>3. backups + 1 # k + 1 /\ backups + 1 # k + 2
          BY <1>2, <5>2
        <5> QED
          BY <5>1, <5>2, <5>3
      <4>2. names'[backups] = names[backups]
        BY <1>0, <4>1
      <4> QED
        BY <1>4, <4>1, <4>2
    <3> QED
      BY <1>1, <3>1 DEF Lines
  <2> QED
    BY <2>1, <2>2
<1>9. Lines(c)'
  BY <1>6, <1>7, <1>8 DEF Lines
<1> QED
  BY <1>4, <1>9 DEF LinesInv

(* With no backups the lines of a full log are given up. *)
LEMMA LinesDropped ==
    ASSUME TypeInv, LinesInv, backups = 0, names'[0] = None,
           UNCHANGED <<backups, content, written>>
    PROVE  LinesInv'
<1>1. PICK b \in [0..1 -> Nat] : Lines(b)
  BY DEF LinesInv
<1> DEFINE c == [s \in 0..1 |-> b[0]]
<1>2. c \in [0..1 -> Nat] /\ c[0] = b[0] /\ c[1] = b[0] /\ b[0] \in Nat
  BY <1>1
<1> HIDE DEF c
<1>3. Lines(c)'
  BY <1>1, <1>2 DEF Lines
<1> QED
  BY <1>2, <1>3 DEF LinesInv

(* A new log has no lines. *)
LEMMA LinesOpened ==
    ASSUME FileInv, LinesInv, NEW f \in Files, names[0] = None, Free(f),
           names' = [names EXCEPT ![0] = f],
           content' = [content EXCEPT ![f] = <<>>],
           UNCHANGED <<backups, written>>
    PROVE  LinesInv'
<1> USE LogFileAssumption DEF FileInv, TypeInv, None, Backups
<1>1. PICK b \in [0..backups + 1 -> Nat] : Lines(b)
  BY DEF LinesInv
<1>2. /\ backups \in Nat
      /\ \A s \in 0..backups : s \in Backups /\ s + 1 \in 0..backups + 1
  BY DEF AppTypes
<1>3. /\ names'[0] = f /\ f # None
      /\ \A s \in Backups : s # 0 => names'[s] = names[s] /\ names[s] # f
  BY OpenedNames
<1>4. content'[f] = <<>> /\ Len(<<>>) = 0
  BY DEF DiskTypes
<1>5. \A s \in Backups : s # 0 /\ names[s] # None =>
         content'[names[s]] = content[names[s]]
  BY <1>3 DEF DiskTypes, Files
<1>6. b[1] = b[0] /\ b[0] \in Nat
  BY <1>1, <1>2 DEF Lines
<1>7. ASSUME NEW s \in 0..backups
      PROVE  /\ b[s + 1] <= b[s]
             /\ names'[s] = None => b[s + 1] = b[s]
             /\ names'[s] # None =>
                    /\ Len(content'[names'[s]]) = b[s] - b[s + 1]
                    /\ \A i \in 1..b[s] - b[s + 1] :
                           content'[names'[s]][i] = b[s + 1] + i
  <2>1. CASE s = 0
    BY <1>3, <1>4, <1>6, <2>1
  <2>2. CASE s # 0
    <3>1. s \in Backups /\ names'[s] = names[s]
      BY <1>2, <1>3, <2>2
    <3> QED
      BY <1>1, <1>5, <2>2, <3>1 DEF Lines
  <2> QED
    BY <2>1, <2>2
<1>8. backups > 0 => names'[backups] = names[backups]
  BY <1>2, <1>3
<1>9. Lines(b)'
  BY <1>1, <1>7, <1>8 DEF Lines
<1> QED
  BY <1>1, <1>9 DEF LinesInv

(* The lines keep their places in every step. *)
LEMMA LinesStep ==
    ASSUME SingleHandler, FileInv, LinesInv, [Next]_vars
    PROVE  LinesInv'
<1> USE LogFileAssumption
    DEF FileInv, TypeInv, None, Backups, appVars, diskVars
<1>1. ASSUME NEW t \in Handlers, SetLogFile(t)
      PROVE  LinesInv'
  <2>1. PICK l \in Logs, f \in Files : SetLogFile(t)!(l, f)
    BY <1>1 DEF SetLogFile
  <2>2. IF names[0] # None THEN f = names[0] ELSE Free(f)
    BY <2>1, Opened
  <2>3. CASE names[0] = None
    <3>1. names[0] # f
      BY <2>3 DEF Files
    <3>2. content' = [content EXCEPT ![f] = <<>>]
      BY <2>1, <3>1
    <3> QED
      BY <2>1, <2>2, <2>3, <3>2, LinesOpened
  <2>4. CASE names[0] # None
    <3>1. names' = names /\ content' = content
      BY <2>1, <2>2, <2>4 DEF DiskTypes
    <3> QED
      BY <2>1, <3>1, LinesFrame
  <2> QED
    BY <2>3, <2>4
<1>2. ASSUME NEW t \in Handlers, Request(t)
      PROVE  LinesInv'
  BY <1>1, <1>2, LinesFrame
     DEF Request, Register, SetLogFileFails, DeleteRemoves, DetachDrops,
         DetachCloses
<1>3. ASSUME NEW w \in Writers, Write(w) \/ WriteFills(w)
      PROVE  LinesInv'
  BY <1>3, LinesWritten DEF Write, WriteFills
<1>4. ASSUME NEW w \in Writers, ShiftBackup(w)
      PROVE  LinesInv'
  <2>1. /\ pc[w] = "shift" /\ shift[w] > 0 /\ shift[w] < backups
        /\ shift[w] \in 0..backups /\ backups \in Nat
        /\ shift[w] \in Backups /\ shift[w] + 1 \in Backups
        /\ Rename(shift[w], shift[w] + 1)
        /\ UNCHANGED <<backups, content, written>>
    BY <1>4 DEF ShiftBackup, WorkInv, ThreadTypes, AppTypes
  <2>2. shift[w] + 1 < backups => names[shift[w] + 1] = None
    BY <2>1 DEF ShiftInv
  <2>3. CASE names[shift[w]] = None
    BY <2>1, <2>3, RenameType, LinesFrame
  <2>4. CASE names[shift[w]] # None
    BY <2>1, <2>2, <2>4, RenameType, LinesMoved
  <2> QED
    BY <2>3, <2>4
<1>5. ASSUME NEW w \in Writers, ShiftLog(w)
      PROVE  LinesInv'
  <2>1. /\ pc[w] = "shift" /\ shift[w] = 0 /\ backups \in Nat
        /\ names[0] # None
        /\ 1 < backups => names[1] = None
        /\ UNCHANGED <<backups, content, written>>
    BY <1>5 DEF ShiftLog, Goes, AppTypes, ShiftInv
  <2>2. CASE backups > 0
    <3>1. 0 \in Backups /\ 1 \in Backups /\ 0 \in 0..backups /\ Rename(0, 1)
      BY <1>5, <2>1, <2>2 DEF ShiftLog, AppTypes
    <3> QED
      <4>1. 0 + 1 = 1
        OBVIOUS
      <4>2. Rename(0, 0 + 1)
        BY <3>1, <4>1
      <4>3. 0 + 1 < backups => names[0 + 1] = None
        BY <2>1, <4>1
      <4> QED
        BY <2>1, <2>2, <3>1, <4>2, <4>3, LinesMoved
  <2>3. CASE backups = 0
    <3>1. names'[0] = None
      BY <1>5, <2>3 DEF ShiftLog, DiskTypes
    <3> QED
      BY <2>1, <2>3, <3>1, LinesDropped
  <2> QED
    BY <2>1, <2>2, <2>3
<1>6. ASSUME NEW w \in Writers, OpenFresh(w)
      PROVE  LinesInv'
  <2>1. PICK f \in Files : OpenFresh(w)!(f)
    BY <1>6 DEF OpenFresh
  <2>2. names[0] = None
    BY <2>1 DEF Goes, ShiftInv
  <2> QED
    BY <2>1, <2>2, Opened, LinesOpened
<1>7. ASSUME NEW w \in Writers, Scan(w)
      PROVE  LinesInv'
  BY <1>3, <1>4, <1>5, <1>6, <1>7, LinesFrame DEF Scan, Attach, OpenFails
<1>8. CASE Crash
  BY <1>8, LinesFrame DEF Crash
<1>9. CASE UNCHANGED vars
  BY <1>9, LinesFrame DEF vars
<1> QED
  BY <1>2, <1>7, <1>8, <1>9 DEF Next

-----------------------------------------------------------------------------
(* A crash costs one hole. *)

LEMMA HolesFinite ==
    ASSUME AppTypes
    PROVE  /\ IsFiniteSet(1..backups) /\ Cardinality(1..backups) = backups
           /\ \A S \in SUBSET (1..backups) :
                  IsFiniteSet(S) /\ Cardinality(S) \in Nat
<1>1. backups \in Nat
  BY LogFileAssumption DEF AppTypes, Backups
<1>2. IsFiniteSet(1..backups) /\ Cardinality(1..backups) = backups
  BY <1>1, FS_Interval
<1>3. \A S \in SUBSET (1..backups) : IsFiniteSet(S) /\ Cardinality(S) \in Nat
  BY <1>2, FS_Subset, FS_CardinalityType
<1> QED
  BY <1>2, <1>3

(* No hole appears. *)
LEMMA FewerHoles ==
    ASSUME TypeInv, HolesInv, UNCHANGED <<backups, crashes>>,
           Holes' \ InFlight' \subseteq Holes \ InFlight
    PROVE  HolesInv'
<1>1. IsFiniteSet(Holes \ InFlight)
  BY HolesFinite DEF Holes, TypeInv
<1>2. /\ Cardinality(Holes' \ InFlight') \in Nat
      /\ Cardinality(Holes \ InFlight) \in Nat
      /\ Cardinality(Holes' \ InFlight') <= Cardinality(Holes \ InFlight)
  BY <1>1, FS_Subset, FS_CardinalityType
<1>3. crashes \in Nat
  BY LogFileAssumption DEF TypeInv, DiskTypes
<1> QED
  BY <1>2, <1>3 DEF HolesInv

(* The backups keep their numbers and no rotation moves. *)
LEMMA HolesFrame ==
    ASSUME TypeInv, HolesInv, UNCHANGED <<backups, crashes>>,
           \A s \in Backups : s # 0 => names'[s] = names[s],
           \A w \in Writers : pc[w] = "shift" =>
               pc'[w] = "shift" /\ shift'[w] = shift[w]
    PROVE  HolesInv'
<1>1. \A s \in 1..backups : s \in Backups /\ s # 0 /\ backups \in Nat
  BY LogFileAssumption DEF TypeInv, AppTypes, Backups
<1>2. Holes' \subseteq Holes
  BY <1>1 DEF Holes
<1>3. InFlight \subseteq InFlight'
  BY DEF InFlight
<1> QED
  BY <1>2, <1>3, FewerHoles

(* A hole that is not being filled is one more. *)
LEMMA RemoveHole ==
    ASSUME TypeInv, NEW s \in Holes
    PROVE  /\ IsFiniteSet(Holes) /\ Cardinality(Holes) \in Nat
           /\ Cardinality(Holes \ {s}) = Cardinality(Holes) - 1
<1>1. IsFiniteSet(Holes) /\ Cardinality(Holes) \in Nat
  BY HolesFinite DEF Holes, TypeInv
<1> QED
  BY <1>1, FS_RemoveElement

(* The rename of a backup: the hole moves down. *)
LEMMA HolesShift ==
    ASSUME SingleHandler, FileInv, HolesInv, NEW w \in Writers, ShiftBackup(w)
    PROVE  HolesInv'
<1> USE LogFileAssumption DEF FileInv, TypeInv, None, Backups
<1>1. /\ pc[w] = "shift" /\ shift[w] \in 1..backups /\ shift[w] < backups
      /\ shift[w] \in Nat /\ shift[w] # shift[w] + 1
      /\ backups \in Nat /\ backups <= MaxBackup
      /\ shift[w] \in Backups /\ shift[w] + 1 \in Backups
      /\ shift[w] + 1 \in 1..backups
      /\ Rename(shift[w], shift[w] + 1)
      /\ UNCHANGED <<backups, crashes, pc>>
      /\ shift' = [shift EXCEPT ![w] = shift[w] - 1]
  BY DEF ShiftBackup, WorkInv, ThreadTypes, AppTypes, appVars
<1>2. \A v \in Writers : pc[v] = "shift" => v = w
  BY <1>1, OneRotates
<1>3. InFlight = {shift[w] + 1}
  BY <1>1, <1>2 DEF InFlight
<1>4. shift'[w] = shift[w] - 1
  BY <1>1 DEF ThreadTypes
<1>5. InFlight' = {shift[w]}
  BY <1>1, <1>2, <1>4 DEF InFlight, ThreadTypes
<1>6. CASE names[shift[w]] # None
  <2>1. \A u \in Backups : names'[u] =
            IF u = shift[w] THEN None
            ELSE IF u = shift[w] + 1 THEN names[shift[w]] ELSE names[u]
    BY <1>1, <1>6, RenameType, ZenonT(60)
  <2>2. ASSUME NEW u \in Holes', u # shift[w]
        PROVE  u \in Holes /\ u # shift[w] + 1
    <3>1. u \in 1..backups /\ u \in Backups /\ names'[u] = None
      BY <1>1 DEF Holes
    <3>2. PICK t \in u..backups : names'[t] # None
      BY <1>1 DEF Holes
    <3>3. u # shift[w] + 1 /\ names[u] = None
      BY <1>6, <2>1, <2>2, <3>1
    <3>4. t \in Backups /\ t # shift[w]
      BY <1>1, <2>1, <3>1, <3>2
    <3>5. \E x \in u..backups : names[x] # None
      <4>1. CASE t = shift[w] + 1
        <5>1. shift[w] \in u..backups
          BY <1>1, <2>2, <3>1, <3>2, <3>3, <4>1
        <5> QED
          BY <1>6, <5>1
      <4>2. CASE t # shift[w] + 1
        BY <2>1, <3>2, <3>4, <4>2
      <4> QED
        BY <4>1, <4>2
    <3> QED
      BY <3>1, <3>3, <3>5 DEF Holes
  <2>3. Holes' \ InFlight' \subseteq Holes \ InFlight
    BY <1>3, <1>5, <2>2
  <2> QED
    BY <1>1, <2>3, FewerHoles
<1>7. CASE names[shift[w]] = None
  <2>0. names' = names
    BY <1>1, <1>7, RenameType
  <2>1. Holes' = Holes
    BY <1>1, <2>0 DEF Holes
  <2>2. CASE shift[w] + 1 \notin Holes
    <3>1. Holes' \ InFlight' \subseteq Holes \ InFlight
      BY <1>3, <2>1, <2>2
    <3> QED
      BY <1>1, <3>1, FewerHoles
  <2>3. CASE shift[w] + 1 \in Holes
    <3>1. \A t \in shift[w] + 1..backups : t \in shift[w]..backups
      BY <1>1
    <3>2. shift[w] \in Holes
      BY <1>1, <1>7, <2>3, <3>1 DEF Holes
    <3>3. Cardinality(Holes \ {shift[w]}) = Cardinality(Holes \ {shift[w] + 1})
      BY <2>3, <3>2, RemoveHole
    <3> QED
      BY <1>1, <1>3, <1>5, <2>1, <3>3 DEF HolesInv
  <2> QED
    BY <2>2, <2>3
<1> QED
  BY <1>6, <1>7

(* The rename of the log fills the last hole of a rotation. *)
LEMMA HolesFilled ==
    ASSUME SingleHandler, FileInv, HolesInv, NEW w \in Writers, ShiftLog(w)
    PROVE  HolesInv'
<1> USE LogFileAssumption DEF FileInv, TypeInv, None, Backups
<1>1. /\ pc[w] = "shift" /\ shift[w] = 0 /\ names[0] # None
      /\ backups \in Nat /\ backups <= MaxBackup
      /\ UNCHANGED <<backups, crashes>>
  BY DEF ShiftLog, Goes, AppTypes, ShiftInv, appVars
<1>2. \A v \in Writers : pc[v] = "shift" => v = w
  BY <1>1, OneRotates
<1>3. InFlight \subseteq {1}
  BY <1>1, <1>2 DEF InFlight
<1>4. ASSUME NEW u \in Holes'
      PROVE  u \in Holes /\ u # 1
  <2>1. backups > 0 /\ u \in 1..backups
    BY <1>1 DEF Holes
  <2>2. 0 \in Backups /\ 1 \in Backups
    BY <1>1, <2>1
  <2>3. \A s \in Backups : names'[s] =
            IF s = 0 THEN None ELSE IF s = 1 THEN names[0] ELSE names[s]
    BY <1>1, <2>1, <2>2, RenameType DEF ShiftLog
  <2>4. names'[u] = None /\ \E t \in u..backups : names'[t] # None
    BY <1>1 DEF Holes
  <2>5. u # 1
    BY <1>1, <2>2, <2>3, <2>4
  <2>6. \A s \in u..backups : s \in Backups /\ s # 0 /\ s # 1
    BY <1>1, <2>1, <2>5
  <2>7. u \in u..backups
    BY <2>1
  <2>8. names[u] = None /\ \E t \in u..backups : names[t] # None
    BY <2>3, <2>4, <2>6, <2>7
  <2> QED
    BY <2>1, <2>5, <2>8 DEF Holes
<1>5. Holes' \ InFlight' \subseteq Holes \ InFlight
  BY <1>3, <1>4
<1> QED
  BY <1>1, <1>5, FewerHoles

(* A crash leaves the hole of the rotation it cut short. *)
LEMMA HolesCrash ==
    ASSUME SingleHandler, FileInv, HolesInv, Crash
    PROVE  HolesInv'
<1>1. /\ crashes' = crashes + 1 /\ crashes \in Nat
      /\ UNCHANGED <<backups, names>> /\ \A w \in Writers : pc'[w] = "idle"
  BY LogFileAssumption DEF Crash, FileInv, TypeInv, DiskTypes, diskVars
<1>2. Holes' = Holes /\ InFlight' = {}
  BY <1>1 DEF Holes, InFlight
<1>3. /\ IsFiniteSet(Holes) /\ Cardinality(Holes) \in Nat
      /\ Cardinality(Holes \ InFlight) \in Nat
      /\ Cardinality(Holes \ InFlight) <= crashes
  <2>1. Holes \subseteq 1..backups /\ Holes \ InFlight \subseteq 1..backups
    BY DEF Holes
  <2> QED
    BY <2>1, HolesFinite DEF FileInv, TypeInv, HolesInv
<1>4. Cardinality(Holes) <= Cardinality(Holes \ InFlight) + 1
  <2>1. CASE Holes \cap InFlight = {}
    <3>1. Holes \ InFlight = Holes
      BY <2>1
    <3> QED
      BY <1>3, <3>1
  <2>2. CASE Holes \cap InFlight # {}
    <3>1. PICK s \in Holes : s \in InFlight
      BY <2>2
    <3>2. \A u \in InFlight : u = s
      BY <3>1, OneRotates DEF InFlight
    <3>3. Holes \ InFlight = Holes \ {s}
      BY <3>1, <3>2
    <3>4. Cardinality(Holes \ {s}) = Cardinality(Holes) - 1
      BY RemoveHole DEF FileInv
    <3> QED
      BY <1>3, <3>3, <3>4
  <2> QED
    BY <2>1, <2>2
<1>5. Holes' \ InFlight' = Holes
  BY <1>2
<1> QED
  BY <1>1, <1>3, <1>4, <1>5 DEF HolesInv

(* The holes are bounded in every step. *)
LEMMA HolesStep ==
    ASSUME SingleHandler, FileInv, HolesInv, [Next]_vars
    PROVE  HolesInv'
<1> USE LogFileAssumption DEF FileInv, TypeInv, appVars, diskVars, threads, Goes
<1>1. ASSUME NEW t \in Handlers, Request(t)
      PROVE  HolesInv'
  <2>1. ASSUME NEW w \in Writers, pc[w] = "shift"
        PROVE  pc'[w] = "shift" /\ shift'[w] = shift[w]
    <3>1. w # t
      BY <2>1
    <3> QED
      BY <1>1, <2>1, <3>1
         DEF Request, Register, SetLogFile, SetLogFileFails, DeleteRemoves,
             DetachDrops, DetachCloses, ThreadTypes
  <2>2. UNCHANGED <<backups, crashes>>
    BY <1>1 DEF Request, Register, SetLogFile, SetLogFileFails, DeleteRemoves,
       DetachDrops, DetachCloses
  <2>3. \A s \in Backups : s # 0 => names'[s] = names[s]
    BY <1>1 DEF Request, Register, SetLogFile, SetLogFileFails, DeleteRemoves,
       DetachDrops, DetachCloses, DiskTypes, Backups
  <2> QED
    BY <2>1, <2>2, <2>3, HolesFrame
<1>2. ASSUME NEW w \in Writers, Attach(w) \/ Write(w) \/ OpenFails(w)
      PROVE  HolesInv'
  <2>1. /\ UNCHANGED <<backups, crashes, names, shift>>
        /\ \/ pc' = pc
           \/ pc[w] = "open" /\ pc' = [pc EXCEPT ![w] = "idle"]
    <3>1. CASE Attach(w)
      BY <3>1 DEF Attach
    <3>2. CASE Write(w) \/ OpenFails(w)
      BY <3>2 DEF Write, OpenFails
    <3> QED
      BY <1>2, <3>1, <3>2
  <2>2. \A v \in Writers : pc[v] = "shift" => pc'[v] = "shift"
    BY <2>1 DEF ThreadTypes
  <2> QED
    BY <2>1, <2>2, HolesFrame
<1>3. ASSUME NEW w \in Writers, WriteFills(w)
      PROVE  HolesInv'
  <2>1. /\ UNCHANGED <<backups, crashes, names>>
        /\ CanWrite(w) /\ Wrote(pl[w])
    BY <1>3 DEF WriteFills
  <2>2. \A v \in Writers : pc[v] # "shift"
    BY <2>1, BeforeWrite
  <2> QED
    BY <2>1, <2>2, HolesFrame
<1>4. ASSUME NEW w \in Writers, OpenFresh(w)
      PROVE  HolesInv'
  <2>1. PICK f \in Files : OpenFresh(w)!(f)
    BY <1>4 DEF OpenFresh
  <2>2. \A s \in Backups : s # 0 => names'[s] = names[s]
    BY <2>1 DEF DiskTypes
  <2>3. \A v \in Writers : pc[v] = "shift" => pc'[v] = "shift"
    BY <2>1 DEF ThreadTypes
  <2> QED
    BY <2>1, <2>2, <2>3, HolesFrame
<1>5. ASSUME NEW w \in Writers, Scan(w)
      PROVE  HolesInv'
  BY <1>2, <1>3, <1>4, <1>5, HolesShift, HolesFilled DEF Scan
<1>6. CASE UNCHANGED vars
  BY <1>6, HolesFrame DEF vars
<1> QED
  BY <1>1, <1>5, <1>6, HolesCrash DEF Next

-----------------------------------------------------------------------------
(* What the files hold. *)

(* A set of numbers has a least one: how an induction is done here.        *)
LEMMA Least ==
    ASSUME NEW T \in SUBSET Nat, T # {}
    PROVE  \E m \in T : \A n \in T : m <= n
<1>1. \E x \in T : \A y \in T : ~(<<y, x>> \in OpToRel(<, Nat))
  BY WFMin, NatLessThanWellFounded
<1>2. PICK m \in T : \A y \in T : ~(<<y, m>> \in OpToRel(<, Nat))
  BY <1>1
<1>3. \A y \in T : ~(y < m)
  BY <1>2 DEF OpToRel
<1> QED
  BY <1>3

(* Marks that never fall from one to the next are above the first.         *)
LEMMA MarksRise ==
    ASSUME NEW n \in Nat, NEW d \in [0..n -> Nat],
           \A i \in 1..n : d[i - 1] <= d[i]
    PROVE  \A i \in 0..n : d[0] <= d[i]
<1> SUFFICES ASSUME NEW k \in 0..n, ~(d[0] <= d[k])
             PROVE  FALSE
  OBVIOUS
<1> DEFINE T == {i \in 0..n : ~(d[0] <= d[i])}
<1>1. T \in SUBSET Nat /\ k \in T
  OBVIOUS
<1>2. PICK m \in T : \A i \in T : m <= i
  BY <1>1, Least
<1>3. /\ m \in 1..n /\ m - 1 \in 0..n
      /\ d[0] \in Nat /\ d[m] \in Nat /\ d[m - 1] \in Nat
  <2>1. m # 0 /\ m \in 0..n /\ d[0] \in Nat /\ d[m] \in Nat
    OBVIOUS
  <2>2. m \in 1..n /\ m - 1 \in 0..n
    BY <2>1
  <2> QED
    BY <2>1, <2>2
<1>4. m - 1 \notin T
  BY <1>2, <1>3
<1> QED
  BY <1>3, <1>4

(* The numbers after a up to c. *)
Between(a, c) == [j \in 1..c - a |-> a + j]

LEMMA BetweenIsSeq ==
    ASSUME NEW a \in Nat, NEW c \in Nat, a <= c
    PROVE  /\ Between(a, c) \in Seq(Nat) /\ Len(Between(a, c)) = c - a
           /\ \A j \in 1..c - a : Between(a, c)[j] = a + j
<1>1. c - a \in Nat /\ \A j \in 1..c - a : a + j \in Nat
  OBVIOUS
<1>2. Between(a, c) \in [1..c - a -> Nat]
  BY <1>1 DEF Between
<1>3. Between(a, c) \in Seq(Nat)
  BY <1>1, <1>2, SeqDef
<1>4. Len(Between(a, c)) = c - a
  BY <1>1, <1>2, <1>3, LenProperties
<1> QED
  BY <1>3, <1>4 DEF Between

LEMMA BetweenConcat ==
    ASSUME NEW a \in Nat, NEW b \in Nat, NEW c \in Nat, a <= b, b <= c
    PROVE  Between(a, b) \o Between(b, c) = Between(a, c)
<1>1. a <= c
  OBVIOUS
<1>2. /\ Between(a, b) \in Seq(Nat) /\ Len(Between(a, b)) = b - a
      /\ \A j \in 1..b - a : Between(a, b)[j] = a + j
      /\ Between(b, c) \in Seq(Nat) /\ Len(Between(b, c)) = c - b
      /\ \A j \in 1..c - b : Between(b, c)[j] = b + j
      /\ Between(a, c) \in Seq(Nat) /\ Len(Between(a, c)) = c - a
      /\ \A j \in 1..c - a : Between(a, c)[j] = a + j
  BY <1>1, BetweenIsSeq
<1> DEFINE s == Between(a, b) \o Between(b, c)
<1>3. /\ s \in Seq(Nat) /\ Len(s) = c - a
      /\ \A j \in 1..c - a : s[j] =
             IF j <= b - a THEN Between(a, b)[j] ELSE Between(b, c)[j - (b - a)]
  <2>1. (b - a) + (c - b) = c - a
    OBVIOUS
  <2>2. /\ s \in Seq(Nat) /\ Len(s) = (b - a) + (c - b)
        /\ \A j \in 1..(b - a) + (c - b) : s[j] =
               IF j <= b - a THEN Between(a, b)[j]
                             ELSE Between(b, c)[j - (b - a)]
    <3> DEFINE x == Between(a, b)
               y == Between(b, c)
    <3>1. /\ x \in Seq(Nat) /\ Len(x) = b - a
          /\ y \in Seq(Nat) /\ Len(y) = c - b
      BY <1>2
    <3> HIDE DEF x, y
    <3>2. /\ x \o y \in Seq(Nat) /\ Len(x \o y) = Len(x) + Len(y)
          /\ \A j \in 1..Len(x) + Len(y) : (x \o y)[j] =
                 IF j <= Len(x) THEN x[j] ELSE y[j - Len(x)]
      BY <3>1, ConcatProperties
    <3> QED
      BY <3>1, <3>2 DEF x, y
  <2> HIDE DEF s
  <2> QED
    BY <2>1, <2>2
<1>4. ASSUME NEW j \in 1..c - a
      PROVE  s[j] = a + j
  <2>1. CASE j <= b - a
    BY <1>2, <1>3, <2>1
  <2>2. CASE ~(j <= b - a)
    <3>1. j - (b - a) \in 1..c - b /\ b + (j - (b - a)) = a + j
      BY <2>2
    <3> QED
      BY <1>2, <1>3, <2>2, <3>1
  <2> QED
    BY <2>1, <2>2
<1> HIDE DEF s
<1>5. s = Between(a, c)
  BY <1>2, <1>3, <1>4, SeqEqual
<1> QED
  BY <1>5 DEF s

(* Blocks of lines that meet, one after the other, are one block.          *)
LEMMA FlattenBlocks ==
    ASSUME NEW n \in Nat \ {0}, NEW d \in [0..n -> Nat],
           \A i \in 1..n : d[i - 1] <= d[i],
           NEW q \in Seq(Seq(Nat)), Len(q) = n,
           \A i \in 1..n : q[i] = Between(d[i - 1], d[i])
    PROVE  FlattenSeq(q) = Between(d[0], d[n])
<1>1. \A i \in 0..n : d[0] <= d[i]
  BY MarksRise
<1>2. \A i \in 1..n : /\ i - 1 \in 0..n /\ i \in 0..n
                     /\ d[0] \in Nat /\ d[i] \in Nat /\ d[i - 1] \in Nat
  <2>1. \A i \in 1..n : i - 1 \in 0..n /\ i \in 0..n /\ 0 \in 0..n
    OBVIOUS
  <2> QED
    BY <2>1
<1>3. ASSUME NEW i \in 1..n
      PROVE  Between(d[0], d[i]) =
                 IF i = 1 THEN q[i] ELSE Between(d[0], d[i - 1]) \o q[i]
  <2>1. CASE i = 1
    BY <2>1
  <2>2. CASE i # 1
    <3>1. d[0] <= d[i - 1] /\ d[i - 1] <= d[i]
      BY <1>1, <1>2
    <3>2. Between(d[0], d[i - 1]) \o Between(d[i - 1], d[i])
              = Between(d[0], d[i])
      BY <1>2, <3>1, BetweenConcat
    <3> QED
      BY <2>2, <3>2
  <2> QED
    BY <2>1, <2>2
<1> DEFINE Rec(g) == [i \in 1..n |-> IF i = 1 THEN q[i] ELSE g[i - 1] \o q[i]]
           F == CHOOSE g : g = Rec(g)
           G == [i \in 1..n |-> Between(d[0], d[i])]
<1>4. FlattenSeq(q) = F[n]
  BY DEF FlattenSeq
<1>5. G = Rec(G)
  <2>1. \A i \in 1..n : i # 1 => i - 1 \in 1..n
    OBVIOUS
  <2>2. \A i \in 1..n : G[i] = IF i = 1 THEN q[i] ELSE G[i - 1] \o q[i]
    BY <1>3, <2>1
  <2> QED
    BY <2>2
<1>6. F = Rec(F)
  BY <1>5, Zenon
<1> HIDE DEF F
<1>7. \A i \in 1..n : F[i] = IF i = 1 THEN q[i] ELSE F[i - 1] \o q[i]
  BY <1>6
<1>8. ASSUME NEW k \in 1..n, F[k] # Between(d[0], d[k])
      PROVE  FALSE
  <2> DEFINE T == {i \in 1..n : F[i] # Between(d[0], d[i])}
  <2>1. T \in SUBSET Nat /\ k \in T
    BY <1>8
  <2>2. PICK m \in T : \A i \in T : m <= i
    BY <2>1, Least
  <2>3. m \in 1..n /\ F[m] # Between(d[0], d[m])
    OBVIOUS
  <2>4. CASE m = 1
    BY <1>3, <1>7, <2>3, <2>4
  <2>5. CASE m # 1
    <3>1. m - 1 \in 1..n /\ ~(m <= m - 1)
      BY <2>3, <2>5
    <3>2. F[m - 1] = Between(d[0], d[m - 1])
      BY <2>2, <3>1
    <3> QED
      BY <1>3, <1>7, <2>3, <2>5, <3>2
  <2> QED
    BY <2>4, <2>5
<1>9. n \in 1..n
  OBVIOUS
<1> QED
  BY <1>4, <1>8, <1>9

-----------------------------------------------------------------------------
(* The two promises about the lines. *)

(* The files hold the lines after the last mark.                           *)
LEMMA KeptLines ==
    ASSUME FileInv, NEW b \in [0..backups + 1 -> Nat], Lines(b)
    PROVE  /\ Kept = Between(b[backups + 1], written)
           /\ b[backups + 1] \in Nat /\ written \in Nat
           /\ b[1] \in Nat /\ b[1] <= written
           /\ b[backups + 1] <= b[1]
<1> USE LogFileAssumption DEF FileInv, TypeInv, None, Backups
<1>1. /\ backups \in Nat /\ written \in Nat /\ backups + 1 \in Nat \ {0}
      /\ \A s \in 0..backups : /\ s \in Backups /\ s \in 0..backups + 1
                               /\ s + 1 \in 0..backups + 1
      /\ b[0] = written
  BY DEF AppTypes, DiskTypes, Lines
<1>2. \A s \in 0..backups : b[s] \in Nat /\ b[s + 1] \in Nat /\ b[s + 1] <= b[s]
  BY <1>1 DEF Lines
<1> DEFINE n == backups + 1
           d == [i \in 0..n |-> b[n - i]]
           q == [i \in 1..n |-> Holds(n - i)]
<1>3. ASSUME NEW s \in 0..backups
      PROVE  Holds(s) = Between(b[s + 1], b[s])
  <2>1. /\ Between(b[s + 1], b[s]) \in Seq(Nat)
        /\ Len(Between(b[s + 1], b[s])) = b[s] - b[s + 1]
        /\ \A j \in 1..b[s] - b[s + 1] :
               Between(b[s + 1], b[s])[j] = b[s + 1] + j
    BY <1>2, BetweenIsSeq
  <2>2. CASE names[s] = None
    <3>1. Len(Between(b[s + 1], b[s])) = 0
      BY <1>2, <2>1, <2>2 DEF Lines
    <3> QED
      BY <2>1, <2>2, <3>1, EmptySeq DEF Holds
  <2>3. CASE names[s] # None
    <3>1. names[s] \in Files
      <4>1. names[s] \in 0..MaxFiles
        BY <1>1 DEF DiskTypes
      <4> QED
        BY <2>3, <4>1 DEF Files
    <3>2. content[names[s]] \in Seq(Nat)
      <4>1. content[names[s]] \in Seq(1..written)
        BY <3>1 DEF DiskTypes
      <4> QED
        BY <1>1, <4>1, SeqMonotonic
    <3>3. /\ Len(content[names[s]]) = b[s] - b[s + 1]
          /\ \A j \in 1..b[s] - b[s + 1] : content[names[s]][j] = b[s + 1] + j
      BY <2>3 DEF Lines
    <3> DEFINE x == content[names[s]]
               y == Between(b[s + 1], b[s])
    <3>4. /\ x \in Seq(Nat) /\ y \in Seq(Nat) /\ Len(x) = Len(y)
          /\ \A j \in 1..Len(x) : x[j] = y[j]
      BY <2>1, <3>2, <3>3
    <3> HIDE DEF x, y
    <3>5. x = y
      BY <3>4, SeqEqual
    <3> QED
      BY <2>3, <3>5 DEF x, y, Holds
  <2> QED
    BY <2>2, <2>3
<1>4. d \in [0..n -> Nat] /\ d[0] = b[n] /\ d[n] = b[0]
  <2>1. \A i \in 0..n : n - i \in 0..n
    BY <1>1
  <2>2. 0 \in 0..n /\ n \in 0..n /\ n - 0 = n /\ n - n = 0
    BY <1>1
  <2> QED
    BY <2>1, <2>2
<1>5. ASSUME NEW i \in 1..n
      PROVE  /\ d[i - 1] = b[n - i + 1] /\ d[i] = b[n - i]
             /\ n - i \in 0..backups
  <2>1. /\ i - 1 \in 0..n /\ i \in 0..n /\ n - (i - 1) = n - i + 1
        /\ n - i \in 0..backups
    BY <1>1
  <2> QED
    BY <2>1
<1>6. \A i \in 1..n : d[i - 1] <= d[i]
  BY <1>2, <1>5
<1>7. \A i \in 1..n : q[i] = Between(d[i - 1], d[i])
  BY <1>3, <1>5
<1>8. q \in Seq(Seq(Nat)) /\ Len(q) = n
  <2>1. \A i \in 1..n : q[i] \in Seq(Nat)
    <3> TAKE i \in 1..n
    <3>1. /\ d[i - 1] \in Nat /\ d[i] \in Nat /\ d[i - 1] <= d[i]
      BY <1>2, <1>5
    <3>2. q[i] = Between(d[i - 1], d[i])
      BY <1>7
    <3>3. Between(d[i - 1], d[i]) \in Seq(Nat)
      <4> DEFINE x == d[i - 1]
                 y == d[i]
      <4>1. x \in Nat /\ y \in Nat /\ x <= y
        BY <3>1
      <4> HIDE DEF x, y
      <4>2. Between(x, y) \in Seq(Nat)
        BY <4>1, BetweenIsSeq
      <4> QED
        BY <4>2 DEF x, y
    <3> QED
      BY <3>2, <3>3
  <2>2. q \in [1..n -> Seq(Nat)]
    BY <2>1
  <2>3. q \in Seq(Seq(Nat))
    BY <1>1, <2>2, SeqDef
  <2> QED
    BY <1>1, <2>2, <2>3, LenProperties
<1>9. Kept = FlattenSeq(q)
  <2> DEFINE r == [i \in 1..backups + 1 |-> Holds(backups + 1 - i)]
  <2>1. Kept = FlattenSeq(r)
    BY DEF Kept
  <2>2. \A i \in 1..n : r[i] = q[i]
    <3>1. \A i \in 1..n : backups + (1 - i) = n - i
      BY <1>1
    <3> QED
      BY <3>1
  <2>3. r = [i \in 1..n |-> r[i]] /\ q = [i \in 1..n |-> q[i]]
    OBVIOUS
  <2> HIDE DEF r, q
  <2>4. r = q
    BY <2>2, <2>3
  <2> QED
    BY <2>1, <2>4
<1>10. d[n - 1] = b[1] /\ n - 1 \in 0..n /\ n \in Nat \ {0}
  BY <1>1
<1> HIDE DEF n, d, q
<1>11. FlattenSeq(q) = Between(d[0], d[n])
  BY <1>4, <1>6, <1>7, <1>8, <1>10, FlattenBlocks
<1>12. d[0] <= d[n - 1]
  BY <1>4, <1>6, <1>10, MarksRise
<1>13. b[n] = b[backups + 1]
  BY DEF n
<1> QED
  BY <1>1, <1>2, <1>4, <1>9, <1>10, <1>11, <1>12, <1>13

LEMMA KeptLength ==
    ASSUME NEW a \in Nat, NEW c \in Nat, a <= c, Kept = Between(a, c)
    PROVE  Len(Kept) = c - a
BY BetweenIsSeq

LEMMA LastLines == FileInv /\ LinesInv => KeptIsLastLines
<1> SUFFICES ASSUME FileInv, LinesInv PROVE KeptIsLastLines
  OBVIOUS
<1>1. PICK b \in [0..backups + 1 -> Nat] : Lines(b)
  BY DEF LinesInv
<1>2. /\ Kept = Between(b[backups + 1], written)
      /\ b[backups + 1] \in Nat /\ written \in Nat
      /\ b[backups + 1] <= written
  <2>1. /\ Kept = Between(b[backups + 1], written)
        /\ b[backups + 1] \in Nat /\ written \in Nat
        /\ b[1] \in Nat /\ b[1] <= written /\ b[backups + 1] <= b[1]
    BY <1>1, KeptLines
  <2> QED
    BY <2>1
<1>3. Len(Kept) = written - b[backups + 1]
  BY <1>2, KeptLength
<1>4. \A i \in 1..Len(Kept) : written - Len(Kept) + i = b[backups + 1] + i
  BY <1>2, <1>3
<1> QED
  BY <1>2, <1>3, <1>4 DEF KeptIsLastLines, Between

LEMMA OneMore ==
    ASSUME NEW x \in Int, NEW m \in Nat
    PROVE  x * m \in Int /\ (x + 1) * m = x * m + m
OBVIOUS

LEMMA NoLess ==
    ASSUME NEW x \in Int, NEW y \in Int, NEW m \in Nat, x <= y
    PROVE  x * m \in Int /\ y * m \in Int /\ x * m <= y * m
OBVIOUS

(* The numbers that no file has. *)
Unnamed(n) == {s \in 1..n : names[s] = None}

(* Every backup there is holds MaxBytes lines or more. *)
LEMMA FullBackups ==
    ASSUME FileInv, NEW b \in [0..backups + 1 -> Nat], Lines(b)
    PROVE  b[1] >= b[backups + 1]
                       + (backups - Cardinality(Unnamed(backups))) * MaxBytes
<1> USE LogFileAssumption DEF FileInv, TypeInv, None, Backups
<1> DEFINE named(n) == n - Cardinality(Unnamed(n))
           enough(n) == b[1] >= b[n + 1] + named(n) * MaxBytes
<1>1. /\ backups \in Nat /\ MaxBytes \in Nat
      /\ \A s \in 0..backups : s \in Backups /\ b[s + 1] \in Nat
  BY DEF AppTypes
<1>2. \A n \in 0..backups : /\ IsFiniteSet(Unnamed(n))
                           /\ Cardinality(Unnamed(n)) \in Nat
  <2>1. \A n \in 0..backups : Unnamed(n) \subseteq 1..backups
    BY <1>1 DEF Unnamed
  <2> QED
    BY <2>1, HolesFinite
<1>3. enough(0)
  <2>1. Unnamed(0) = {} /\ Cardinality({}) = 0 /\ 0 \in 0..backups
    BY <1>1, FS_EmptySet DEF Unnamed
  <2>2. b[1] >= b[0 + 1] + (0 - 0) * MaxBytes
    BY <1>1, <2>1
  <2> QED
    BY <2>1, <2>2
<1>4. ASSUME NEW n \in 0..backups, n # backups, enough(n)
      PROVE  enough(n + 1)
  <2>1. /\ n + 1 \in 1..backups /\ n + 1 \in 0..backups /\ n + 1 \in Backups
        /\ n + 1 + 1 = n + 2 /\ n \in Nat
        /\ b[1] \in Nat /\ b[n + 1] \in Nat /\ b[n + 2] \in Nat
    BY <1>1, <1>4
  <2>2. 1..n + 1 = (1..n) \cup {n + 1} /\ n + 1 \notin 1..n
    BY <2>1
  <2>3. CASE names[n + 1] = None
    <3>1. Unnamed(n + 1) = Unnamed(n) \cup {n + 1} /\ n + 1 \notin Unnamed(n)
      BY <2>2, <2>3 DEF Unnamed
    <3>2. Cardinality(Unnamed(n + 1)) = Cardinality(Unnamed(n)) + 1
      BY <1>2, <3>1, FS_AddElement
    <3>3. named(n + 1) = named(n)
      BY <1>2, <2>1, <3>2
    <3>4. b[n + 2] = b[n + 1]
      BY <2>1, <2>3 DEF Lines
    <3>5. b[1] >= b[n + 1] + named(n) * MaxBytes
      BY <1>4
    <3> HIDE DEF named
    <3>6. b[1] >= b[n + 1 + 1] + named(n + 1) * MaxBytes
      BY <2>1, <3>3, <3>4, <3>5, Zenon
    <3> QED
      BY <3>6
  <2>4. CASE names[n + 1] # None
    <3>1. Unnamed(n + 1) = Unnamed(n)
      BY <2>2, <2>4 DEF Unnamed
    <3>2. b[n + 1] >= b[n + 2] + MaxBytes
      <4>1. Len(content[names[n + 1]]) = b[n + 1] - b[n + 1 + 1]
        BY <2>1, <2>4 DEF Lines
      <4>2. Len(content[names[n + 1]]) >= MaxBytes
        BY <2>1, <2>4 DEF NamesInv
      <4> QED
        BY <1>1, <2>1, <4>1, <4>2
    <3>3. named(n) \in Int /\ named(n + 1) = named(n) + 1
      BY <1>2, <2>1, <3>1
    <3>4. b[1] >= b[n + 1] + named(n) * MaxBytes
      BY <1>4
    <3> HIDE DEF named
    <3>5. /\ named(n) * MaxBytes \in Int
          /\ (named(n) + 1) * MaxBytes = named(n) * MaxBytes + MaxBytes
      BY <1>1, <3>3, OneMore
    <3>6. b[1] >= b[n + 2] + (named(n) * MaxBytes + MaxBytes)
      BY <1>1, <2>1, <3>2, <3>4, <3>5
    <3>7. b[1] >= b[n + 1 + 1] + named(n + 1) * MaxBytes
      BY <2>1, <3>3, <3>5, <3>6, Zenon
    <3> QED
      BY <3>7
  <2> QED
    BY <2>3, <2>4
<1> HIDE DEF enough, named
<1>5. SUFFICES ASSUME ~enough(backups) PROVE FALSE
  BY DEF enough, named
<1> DEFINE T == {n \in 0..backups : ~enough(n)}
<1>6. T \in SUBSET Nat /\ backups \in T
  BY <1>1, <1>5
<1>7. PICK m \in T : \A n \in T : m <= n
  BY <1>6, Least
<1>8. m \in 0..backups /\ ~enough(m) /\ m # 0
  BY <1>3
<1>9. m - 1 \in 0..backups /\ m - 1 # backups /\ m - 1 + 1 = m
  BY <1>1, <1>8
<1>10. enough(m - 1)
  BY <1>7, <1>9
<1> QED
  BY <1>4, <1>8, <1>9, <1>10

(* What is given up goes beyond the full backups that the crashes left     *)
(* room for; the full log under rotation stands for the one it fills.      *)
LEMMA LinesSuffice ==
    ASSUME SingleHandler, KeptInv
    PROVE  EnoughIsKept
<1> USE LogFileAssumption DEF KeptInv, FileInv, TypeInv, None, Backups
<1>1. PICK b \in [0..backups + 1 -> Nat] : Lines(b)
  BY DEF LinesInv
<1> DEFINE a == b[backups + 1]
<1>2. /\ Kept = Between(a, written) /\ a \in Nat /\ written \in Nat
      /\ b[1] \in Nat /\ b[1] <= written /\ a <= b[1]
  BY <1>1, KeptLines
<1>3. Len(Kept) = written - a
  BY <1>2, KeptLength
<1>4. backups \in Nat /\ crashes \in Nat /\ MaxBytes \in Nat
  BY DEF AppTypes, DiskTypes
<1> HIDE DEF a
<1>5. CASE a = 0
  BY <1>2, <1>3, <1>5 DEF EnoughIsKept
<1>6. CASE backups = 0
  <2>1. backups - crashes \in Int /\ backups - crashes <= 0
    BY <1>4, <1>6
  <2>2. /\ (backups - crashes) * MaxBytes <= 0 * MaxBytes
        /\ (backups - crashes) * MaxBytes \in Int
    BY <1>4, <2>1, NoLess
  <2>3. 0 * MaxBytes = 0
    BY <1>4
  <2> QED
    BY <1>2, <1>3, <2>2, <2>3 DEF EnoughIsKept
<1>7. CASE a # 0 /\ backups # 0
  <2>1. names[backups] # None
    BY <1>1, <1>2, <1>4, <1>7 DEF Lines, a
  <2>2. Unnamed(backups) = Holes
    <3>1. \A s \in 1..backups : backups \in s..backups
      BY <1>4
    <3> QED
      BY <2>1, <3>1 DEF Unnamed, Holes
  <2> DEFINE h == Cardinality(Holes)
             k == Cardinality(Holes \ InFlight)
  <2>3. IsFiniteSet(Holes) /\ h \in Nat /\ k \in Nat /\ k <= crashes
    <3>1. Holes \subseteq 1..backups /\ Holes \ InFlight \subseteq 1..backups
      BY DEF Holes
    <3> QED
      BY <3>1, HolesFinite DEF HolesInv
  <2>4. b[1] >= a + (backups - h) * MaxBytes
    BY <1>1, <2>2, FullBackups DEF a
  <2>5. CASE Holes \cap InFlight = {}
    <3>1. h <= crashes
      <4>1. Holes \ InFlight = Holes
        BY <2>5
      <4> QED
        BY <2>3, <4>1
    <3> HIDE DEF h
    <3>2. /\ (backups - crashes) * MaxBytes <= (backups - h) * MaxBytes
          /\ (backups - crashes) * MaxBytes \in Int
          /\ (backups - h) * MaxBytes \in Int
      <4>1. /\ backups - crashes \in Int /\ backups - h \in Int
            /\ backups - crashes <= backups - h
        BY <1>4, <2>3, <3>1
      <4> QED
        BY <1>4, <4>1, NoLess
    <3> QED
      BY <1>2, <1>3, <2>4, <3>2 DEF EnoughIsKept
  <2>6. CASE Holes \cap InFlight # {}
    <3>1. PICK s \in Holes : s \in InFlight
      BY <2>6
    <3>2. PICK w \in Writers : pc[w] = "shift"
      BY <3>1 DEF InFlight
    <3>3. Holes \ InFlight = Holes \ {s}
      <4>1. \A u \in InFlight : u = s
        BY <3>1, OneRotates DEF InFlight
      <4> QED
        BY <3>1, <4>1
    <3>4. k = h - 1
      BY <3>3, RemoveHole
    <3>5. written >= b[1] + MaxBytes
      <4>1. names[0] # None /\ Len(content[names[0]]) >= MaxBytes
        BY <3>2 DEF ShiftInv
      <4>2. 0 \in 0..backups
        BY <1>4
      <4>3. b[0] = written /\ Len(content[names[0]]) = b[0] - b[0 + 1]
        BY <1>1, <4>1, <4>2 DEF Lines
      <4> QED
        BY <1>2, <1>4, <4>1, <4>3
    <3> HIDE DEF h, k
    <3> DEFINE x == backups - h
    <3>6. /\ x \in Int /\ backups - crashes \in Int
          /\ backups - crashes <= x + 1 /\ x + 1 \in Int
      BY <1>4, <2>3, <3>4
    <3>7. b[1] >= a + x * MaxBytes
      BY <2>4
    <3> HIDE DEF x
    <3>8. x * MaxBytes \in Int /\ (x + 1) * MaxBytes = x * MaxBytes + MaxBytes
      BY <1>4, <3>6, OneMore
    <3>9. /\ (backups - crashes) * MaxBytes <= (x + 1) * MaxBytes
          /\ (backups - crashes) * MaxBytes \in Int
      BY <1>4, <3>6, NoLess
    <3> QED
      BY <1>2, <1>3, <1>4, <3>5, <3>7, <3>8, <3>9 DEF EnoughIsKept
  <2> QED
    BY <2>5, <2>6
<1> QED
  BY <1>5, <1>6, <1>7

(* The invariant about the lines. *)
LEMMA KeptInit == Init => KeptInv
<1> SUFFICES ASSUME Init PROVE KeptInv
  OBVIOUS
<1>1. FileInv
  BY FileInit
<1>2. backups \in Nat /\ backups <= MaxBackup /\ MaxBackup \in Nat
  BY LogFileAssumption DEF Init, Backups
<1>3. LinesInv
  <2> DEFINE b == [s \in 0..backups + 1 |-> 0]
  <2>1. b \in [0..backups + 1 -> Nat]
    OBVIOUS
  <2>2. Lines(b)
    BY <1>2 DEF Lines, Init, Backups, None
  <2> QED
    BY <2>1, <2>2 DEF LinesInv
<1>4. HolesInv
  <2>1. Holes = {}
    BY <1>2 DEF Holes, Init, Backups, None
  <2>2. Cardinality(Holes \ InFlight) = 0 /\ crashes = 0
    BY <2>1, FS_EmptySet DEF Init
  <2> QED
    BY <2>2 DEF HolesInv
<1> QED
  BY <1>1, <1>3, <1>4 DEF KeptInv

LEMMA KeptInductive ==
    ASSUME SingleHandler
    PROVE  Spec => []KeptInv
<1>1. Init => KeptInv
  BY KeptInit
<1>2. KeptInv /\ [Next]_vars => KeptInv'
  BY FileStep, LinesStep, HolesStep DEF KeptInv
<1> QED
  BY <1>1, <1>2, PTL DEF Spec

(* The files of a log hold its last lines, in order and each once, after   *)
(* any number of rotations and crashes.                                    *)
THEOREM KeptIsLastLinesHolds ==
    ASSUME SingleHandler
    PROVE  Spec => []KeptIsLastLines
<1>1. KeptInv => KeptIsLastLines
  BY LastLines DEF KeptInv
<1> QED
  BY <1>1, KeptInductive, PTL

(* Rotation gives up no line that log_max_backups full files, less one for *)
(* each crash, have room for.                                              *)
THEOREM EnoughIsKeptHolds ==
    ASSUME SingleHandler
    PROVE  Spec => []EnoughIsKept
<1>1. KeptInv => EnoughIsKept
  BY LinesSuffice
<1> QED
  BY <1>1, KeptInductive, PTL

=============================================================================
