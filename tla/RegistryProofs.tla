---------------------------- MODULE RegistryProofs ----------------------------
(* The file always names the apps of one moment, each with a config it had *)
(* then or thereabouts, and in orderly use it names the registered ones:   *)
(* proved for every set of apps, configs and requests, and every number of *)
(* crashes.                                                                *)
EXTENDS Registry, TLAPS

USE DEF None

LEMMA MemoryIsRegistry ==
    ASSUME RegistryTypeOK
    PROVE  InMemory \in Registries
BY DEF RegistryTypeOK, InMemory, Registries, Procs

LEMMA MemoryUnchanged == (UNCHANGED <<procs, conf>>) => InMemory' = InMemory
BY DEF InMemory

(* Registering a free process changes the entry of its name and no other. *)
LEMMA RegisterMemory ==
    ASSUME RegistryTypeOK, NEW a \in Apps, NEW k \in Readings, NEW p \in Procs,
           Unused(p),
           procs' = [procs EXCEPT ![a] = p],
           conf' = [conf EXCEPT ![p] = k]
    PROVE  InMemory' = [InMemory EXCEPT ![a] = k]
<1> DEFINE N == [InMemory EXCEPT ![a] = k]
<1>1. p # None
  BY RegistryAssumption DEF Procs
<1>2. \A b \in Apps : b # a =>
         /\ procs'[b] = procs[b]
         /\ procs[b] = None \/ conf'[procs[b]] = conf[procs[b]]
  BY DEF RegistryTypeOK, Unused, Procs
<1>3. procs'[a] = p /\ conf'[p] = k
  BY DEF RegistryTypeOK
<1>4. \A b \in Apps : InMemory'[b] = N[b]
  BY <1>1, <1>2, <1>3 DEF InMemory
<1> QED
  BY <1>4 DEF InMemory

(* A new config shows under every name of its process.                     *)
LEMMA ReplaceMemory ==
    ASSUME RegistryTypeOK, NEW p \in Procs, NEW k \in Readings,
           UNCHANGED procs, conf' = [conf EXCEPT ![p] = k]
    PROVE  /\ InMemory' = WithConfig(p, k)
           /\ InMemory' \in Registries
           /\ conf' \in [Procs -> Readings \cup {Absent}]
<1>1. p # None
  BY RegistryAssumption DEF Procs
<1>2. InMemory \in Registries
  BY MemoryIsRegistry
<1>3. \A b \in Apps : InMemory'[b] = WithConfig(p, k)[b]
  BY <1>1 DEF RegistryTypeOK, InMemory, WithConfig, Procs
<1>4. InMemory' = WithConfig(p, k)
  BY <1>3 DEF InMemory, WithConfig
<1> QED
  BY <1>2, <1>4 DEF RegistryTypeOK, Registries, WithConfig

LEMMA RemoveMemory ==
    ASSUME RegistryTypeOK, NEW a \in Apps, UNCHANGED conf,
           procs' = [procs EXCEPT ![a] = None]
    PROVE  InMemory' = [InMemory EXCEPT ![a] = Absent]
BY DEF RegistryTypeOK, InMemory

-----------------------------------------------------------------------------

(* What was seen stays seen. *)
LEMMA SeenStays ==
    ASSUME past \subseteq past', NEW N, NEW a, NEW k, Seen(N, a, k)
    PROVE  \E r \in past' : Named(r) = N /\ r[a] = k
BY DEF Seen

(* What is in memory is seen. *)
LEMMA MemorySeen ==
    ASSUME RegistryInv, NEW a \in Apps
    PROVE  /\ Named(InMemory) = Current
           /\ Seen(Current, a, InMemory[a])
<1>1. Named(InMemory) = Current
  BY DEF RegistryInv, NameInv, Named, InMemory, Current
<1> QED
  BY <1>1 DEF RegistryInv, Seen

(* A step that saves nothing, collects nothing, and changes the registry   *)
(* only while nobody collects.                                             *)
LEMMA FilesStay ==
    ASSUME RegistryInv, past \subseteq past', UNCHANGED disk,
           \A t \in Threads :
               /\ pc'[t] = "save" => pc[t] = "save" /\ snap'[t] = snap[t]
               /\ pc'[t] = "collect" =>
                      /\ pc[t] = "collect" /\ snap'[t] = snap[t]
                      /\ UNCHANGED <<procs, unread>>
    PROVE  SnapInv' /\ DiskNamesOneMoment'
<1> USE DEF RegistryInv, SnapInv, DiskNamesOneMoment
<1>1. \A N, a, k : Seen(N, a, k) => \E r \in past' : Named(r) = N /\ r[a] = k
  BY SeenStays
<1>3. ASSUME NEW t \in Threads, pc'[t] = "save"
      PROVE  \A a \in Apps : Seen(Named(snap[t]), a, snap[t][a])'
  BY <1>1, <1>3 DEF Seen, Named
<1>4. ASSUME NEW t \in Threads, pc'[t] = "collect"
      PROVE  /\ (unread \subseteq Current)'
             /\ \A a \in Apps \ unread' :
                    /\ (snap[t][a] # Absent <=> a \in Current)'
                    /\ Seen(Current, a, snap[t][a])'
  <2>1. Current' = Current
    BY <1>4 DEF Current
  <2> QED
    BY <1>1, <1>4, <2>1 DEF Seen
<1>5. DiskNamesOneMoment'
  BY <1>1 DEF Seen, Named
<1> QED
  BY <1>3, <1>4, <1>5

-----------------------------------------------------------------------------

LEMMA RegisterStep ==
    ASSUME RegistryInv, NEW t \in Threads, NEW a \in Apps, NEW k \in Readings,
           Register(t, a, k), toRestore' \in Registries,
           calls' \in 0..MaxCalls
    PROVE  RegistryInv'
<1>1. PICK p \in Procs :
         /\ Unused(p)
         /\ procs' = [procs EXCEPT ![a] = p]
         /\ conf' = [conf EXCEPT ![p] = k]
         /\ held' = [held EXCEPT ![t] = p]
  BY DEF Register
<1>2. InMemory' = [InMemory EXCEPT ![a] = k]
  BY <1>1, RegisterMemory DEF RegistryInv
<1>3. InMemory' \in Registries
  BY <1>2, MemoryIsRegistry DEF RegistryInv, Registries
<1>4. past' = past \cup {InMemory'}
  BY <1>2 DEF Register, Remember
<1>5. RegistryTypeOK'
  BY <1>1, <1>3, <1>4
  DEF RegistryInv, RegistryTypeOK, Register, Alone, Step, ThreadPlaces, Procs
<1>6. NameInv'
  BY <1>1, RegistryAssumption
  DEF RegistryInv, RegistryTypeOK, NameInv, Current, Unused, Procs, Readings
<1>7. ThreadInv'
  BY <1>1 DEF RegistryInv, RegistryTypeOK, ThreadInv, Register, Step
<1>8. SnapInv' /\ DiskNamesOneMoment'
  BY <1>4, FilesStay DEF RegistryInv, RegistryTypeOK, Register, Step, Free
<1> QED
  BY <1>4, <1>5, <1>6, <1>7, <1>8 DEF RegistryInv, Register

(* A step of a thread that leaves the registry alone.                      *)
LEMMA QuietStep ==
    ASSUME RegistryInv, UNCHANGED <<procs, conf, past>>, RegistryTypeOK',
           ThreadInv', SnapInv', DiskNamesOneMoment'
    PROVE  RegistryInv'
<1>1. InMemory' = InMemory
  BY MemoryUnchanged
<1> QED
  BY <1>1 DEF RegistryInv, NameInv, Current

(* A step that only begins a call, or goes on with one. *)
LEMMA AlongStep ==
    ASSUME RegistryInv, UNCHANGED <<procs, conf, past, disk, snap, unread>>,
           RegistryTypeOK', ThreadInv',
           \A t \in Threads : pc'[t] \in {"save", "collect"} => pc'[t] = pc[t]
    PROVE  RegistryInv'
BY QuietStep, FilesStay DEF RegistryInv

LEMMA ReturnStep ==
    ASSUME RegistryInv, NEW t \in Threads, NEW from, Return(t, from)
    PROVE  /\ pc' \in [Threads -> ThreadPlaces]
           /\ app' \in [Threads -> Apps \cup {Absent}]
           /\ held' \in [Threads -> 0..MaxProcs]
           /\ snap' \in [Threads -> Registries]
           /\ ThreadInv'
           /\ \A u \in Threads :
                  pc'[u] \in {"save", "collect"} =>
                      pc'[u] = pc[u] /\ snap'[u] = snap[u]
<1>1. Empty \in Registries
  BY DEF Empty, Registries
<1>2. /\ pc' \in [Threads -> ThreadPlaces]
      /\ app' \in [Threads -> Apps \cup {Absent}]
      /\ held' \in [Threads -> 0..MaxProcs]
      /\ snap' \in [Threads -> Registries]
  BY <1>1, RegistryAssumption
  DEF RegistryInv, RegistryTypeOK, Return, Step, ThreadPlaces
<1>3. ThreadInv'
  BY DEF RegistryInv, RegistryTypeOK, ThreadInv, Return, Step
<1>4. \A u \in Threads :
         pc'[u] \in {"save", "collect"} => pc'[u] = pc[u] /\ snap'[u] = snap[u]
  BY DEF RegistryInv, RegistryTypeOK, Return, Step
<1> QED
  BY <1>2, <1>3, <1>4

(* A process in the hands of a thread gets another config. *)
LEMMA ConfigStep ==
    ASSUME RegistryInv, NEW p \in Procs, NEW k \in Readings,
           UNCHANGED <<procs, disk, unread>>, conf' = [conf EXCEPT ![p] = k],
           Remember(WithConfig(p, k)), RegistryTypeOK', ThreadInv',
           \A u \in Threads :
               pc'[u] \in {"save", "collect"} =>
                   pc'[u] = pc[u] /\ snap'[u] = snap[u]
    PROVE  RegistryInv'
<1>1. past' = past \cup {InMemory'}
  BY ReplaceMemory DEF Remember, RegistryInv
<1>2. NameInv'
  BY RegistryAssumption
  DEF RegistryInv, RegistryTypeOK, NameInv, Current, Readings, Procs
<1>3. SnapInv' /\ DiskNamesOneMoment'
  BY <1>1, FilesStay
<1> QED
  BY <1>1, <1>2, <1>3 DEF RegistryInv

LEMMA AcknowledgeStep ==
    ASSUME RegistryInv, NEW t \in Threads, pc[t] # "idle", Acknowledge(t)
    PROVE  acked' \subseteq Apps
<1>1. acked' \subseteq acked \cup {app[t]}
  BY DEF Acknowledge
<1> QED
  BY <1>1 DEF RegistryInv, RegistryTypeOK, ThreadInv

-----------------------------------------------------------------------------

(* persist holds s.mu: the names stay, and each config is seen when read.  *)
LEMMA PersistStep ==
    ASSUME RegistryInv, NEW t \in Threads,
           \/ Snapshot(t) \/ Collected(t)
           \/ \E a \in Apps : ReadConfig(t, a)
    PROVE  RegistryInv'
<1>1. CASE Snapshot(t)
  <2>1. RegistryTypeOK'
    <3>1. Empty \in Registries
      BY DEF Empty, Registries
    <3> QED
      BY <1>1, <3>1
      DEF RegistryInv, RegistryTypeOK, Snapshot, Step, mem, history,
          ThreadPlaces
  <2>2. ThreadInv'
    BY <1>1 DEF RegistryInv, RegistryTypeOK, ThreadInv, Snapshot, Step, Free
  <2>3. /\ UNCHANGED <<procs, conf, past, disk>>
        /\ Current' = Current /\ unread' = Current
    BY <1>1 DEF Snapshot, Current, mem, history
  <2>4. DiskNamesOneMoment'
    BY <2>3 DEF RegistryInv, DiskNamesOneMoment, Seen, Named
  <2>5. ASSUME NEW u \in Threads, pc'[u] = "save"
        PROVE  \A a \in Apps : Seen(Named(snap[u]), a, snap[u][a])'
    <3>1. pc[u] = "save" /\ snap'[u] = snap[u]
      BY <1>1, <2>5 DEF RegistryInv, RegistryTypeOK, Snapshot, Step
    <3> QED
      BY <2>3, <3>1 DEF RegistryInv, SnapInv, Seen, Named
  <2>6. ASSUME NEW u \in Threads, pc'[u] = "collect"
        PROVE  \A a \in Apps \ Current :
                   snap'[u][a] = Absent /\ Seen(Current, a, Absent)'
    <3>1. snap'[u] = Empty
      BY <1>1, <2>6 DEF RegistryInv, RegistryTypeOK, Snapshot, Step, Free
    <3>2. \A a \in Apps \ Current : Seen(Current, a, Absent)
      BY MemorySeen DEF InMemory, Current
    <3> QED
      BY <2>3, <3>1, <3>2 DEF Empty, Seen
  <2>7. SnapInv'
    BY <2>3, <2>5, <2>6 DEF SnapInv
  <2> QED
    BY <2>1, <2>2, <2>3, <2>4, <2>7, QuietStep
<1>2. ASSUME NEW b \in Apps, ReadConfig(t, b)
      PROVE  RegistryInv'
  <2>1. /\ UNCHANGED <<procs, conf, past, disk, pc>>
        /\ Current' = Current
        /\ pc[t] = "collect" /\ b \in unread /\ unread' = unread \ {b}
        /\ b \in Current /\ b \in Apps
    BY <1>2
    DEF ReadConfig, Current, mem, history, RegistryInv, SnapInv
  <2>2. /\ snap'[t] = [snap[t] EXCEPT ![b] = InMemory[b]]
        /\ \A u \in Threads : u # t => snap'[u] = snap[u]
    BY <1>2, <2>1 DEF ReadConfig, RegistryInv, RegistryTypeOK, InMemory, Current
  <2>3. /\ InMemory[b] # Absent
        /\ Seen(Current, b, InMemory[b])
        /\ snap[t] \in Registries /\ InMemory \in Registries
    BY <2>1, MemorySeen, MemoryIsRegistry
    DEF RegistryInv, RegistryTypeOK, NameInv, InMemory, Current
  <2>4. RegistryTypeOK'
    <3>1. snap' \in [Threads -> Registries]
      <4>1. snap'[t] \in Registries
        BY <2>2, <2>3 DEF Registries
      <4> QED
        BY <1>2, <4>1 DEF ReadConfig, RegistryInv, RegistryTypeOK
    <3> QED
      BY <1>2, <3>1
      DEF RegistryInv, RegistryTypeOK, ReadConfig, mem, history
  <2>5. ThreadInv'
    BY <1>2 DEF RegistryInv, ThreadInv, ReadConfig
  <2>6. DiskNamesOneMoment'
    BY <2>1 DEF RegistryInv, DiskNamesOneMoment, Seen, Named
  <2>7. ASSUME NEW u \in Threads, pc'[u] = "save"
        PROVE  \A a \in Apps : Seen(Named(snap[u]), a, snap[u][a])'
    <3>1. pc[u] = "save" /\ snap'[u] = snap[u]
      BY <2>1, <2>2, <2>7
    <3> QED
      BY <2>1, <3>1 DEF RegistryInv, SnapInv, Seen, Named
  <2>8. ASSUME NEW u \in Threads, pc'[u] = "collect"
        PROVE  /\ (unread \subseteq Current)'
               /\ \A a \in Apps \ unread' :
                      /\ (snap[u][a] # Absent <=> a \in Current)'
                      /\ Seen(Current, a, snap[u][a])'
    <3>1. u = t
      BY <2>1, <2>8 DEF RegistryInv, ThreadInv
    <3>2. /\ unread \subseteq Current
          /\ \A a \in Apps \ unread :
                 /\ snap[t][a] # Absent <=> a \in Current
                 /\ Seen(Current, a, snap[t][a])
      BY <2>1 DEF RegistryInv, SnapInv
    <3>3. ASSUME NEW a \in Apps \ unread'
          PROVE  /\ snap'[t][a] # Absent <=> a \in Current
                 /\ Seen(Current, a, snap'[t][a])
      <4>1. CASE a = b
        BY <2>1, <2>2, <2>3, <4>1 DEF Registries
      <4>2. CASE a # b
        BY <2>1, <2>2, <2>3, <3>2, <3>3, <4>2 DEF Registries
      <4> QED
        BY <4>1, <4>2
    <3> QED
      BY <2>1, <3>1, <3>2, <3>3 DEF Seen
  <2>9. SnapInv'
    BY <2>7, <2>8 DEF SnapInv
  <2> QED
    BY <2>1, <2>4, <2>5, <2>6, <2>9, QuietStep
<1>3. CASE Collected(t)
  <2>1. RegistryTypeOK' /\ ThreadInv'
    BY <1>3
    DEF RegistryInv, RegistryTypeOK, ThreadInv, Collected, Step, mem, history,
        ThreadPlaces
  <2>2. /\ UNCHANGED <<procs, conf, past, disk, snap, unread>>
        /\ Current' = Current
        /\ pc[t] = "collect" /\ unread = {}
    BY <1>3 DEF Collected, Step, Current, mem, history
  <2>3. DiskNamesOneMoment'
    BY <2>2 DEF RegistryInv, DiskNamesOneMoment, Seen, Named
  <2>4. ASSUME NEW u \in Threads, pc'[u] = "save"
        PROVE  \A a \in Apps : Seen(Named(snap[u]), a, snap[u][a])
    <3>1. CASE u = t
      <4>1. \A a \in Apps : /\ snap[t][a] # Absent <=> a \in Current
                            /\ Seen(Current, a, snap[t][a])
        BY <2>2 DEF RegistryInv, SnapInv
      <4>2. Named(snap[t]) = Current
        BY <4>1 DEF Named, Current
      <4> QED
        BY <3>1, <4>1, <4>2
    <3>2. CASE u # t
      BY <1>3, <2>4, <3>2
      DEF Collected, Step, RegistryInv, RegistryTypeOK, SnapInv
    <3> QED
      BY <3>1, <3>2
  <2>5. \A u \in Threads : pc'[u] # "collect"
    BY <1>3, <2>2
    DEF Collected, Step, RegistryInv, RegistryTypeOK, ThreadInv
  <2>6. SnapInv'
    BY <2>2, <2>4, <2>5 DEF SnapInv, Seen, Named
  <2> QED
    BY <2>1, <2>2, <2>3, <2>6, QuietStep
<1> QED
  BY <1>1, <1>2, <1>3

(* One case per action.  Only Register, ReplaceConfig, ConfigReplaced and  *)
(* DeleteRemoves change what is in memory; they record it.  Only the saves *)
(* change the file.                                                        *)
LEMMA NextStep ==
    ASSUME RegistryInv, [Next]_vars
    PROVE  RegistryInv'
<1> USE RegistryAssumption
<1>1. ASSUME NEW t \in Threads, NEW a \in Apps, NEW k \in Configs,
             StartNew(t, a, k)
      PROVE  RegistryInv'
  BY <1>1, RegisterStep
  DEF StartNew, Request, RegistryInv, RegistryTypeOK, Readings
<1>2. ASSUME NEW t \in Threads, NEW a \in Apps,
             StartExisting(t, a) \/ DeleteLookup(t, a)
      PROVE  RegistryInv'
  <2>1. PICK to \in {"found", "stop"} : Lookup(t, a, to)
    BY <1>2 DEF StartExisting, DeleteLookup
  <2>2. /\ acked' \subseteq Apps
        /\ settled' \in BOOLEAN
    BY <1>2 DEF StartExisting, DeleteLookup, RegistryInv, RegistryTypeOK
  <2>3. RegistryTypeOK'
    BY <2>1, <2>2
    DEF RegistryInv, RegistryTypeOK, Lookup, Request, Alone, Step, mem,
        ThreadPlaces
  <2>4. ThreadInv'
    BY <2>1 DEF RegistryInv, RegistryTypeOK, ThreadInv, Lookup, Step, Procs
  <2>5. \A u \in Threads : pc'[u] \in {"save", "collect"} => pc'[u] = pc[u]
    BY <2>1 DEF RegistryInv, RegistryTypeOK, Lookup, Step
  <2> QED
    BY <2>1, <2>3, <2>4, <2>5, AlongStep DEF Lookup, mem
<1>3. ASSUME NEW t \in Threads, ReplaceConfig(t)
      PROVE  RegistryInv'
  <2>1. held[t] \in Procs /\ Mixed \in Readings
    BY <1>3 DEF ReplaceConfig, Step, RegistryInv, ThreadInv, Readings
  <2>2. /\ past' = past \cup {InMemory'}
        /\ InMemory' \in Registries
        /\ conf' \in [Procs -> Readings \cup {Absent}]
    BY <1>3, <2>1, ReplaceMemory DEF ReplaceConfig, Remember, RegistryInv
  <2>3. RegistryTypeOK' /\ ThreadInv'
    BY <1>3, <2>2
    DEF RegistryInv, RegistryTypeOK, ThreadInv, ReplaceConfig, Step,
        ThreadPlaces
  <2>4. \A u \in Threads :
           pc'[u] \in {"save", "collect"} =>
               pc'[u] = pc[u] /\ snap'[u] = snap[u]
    BY <1>3 DEF RegistryInv, RegistryTypeOK, ReplaceConfig, Step
  <2> QED
    BY <1>3, <2>1, <2>3, <2>4, ConfigStep DEF ReplaceConfig
<1>4. ASSUME NEW t \in Threads, NEW k \in Configs, ConfigReplaced(t, k)
      PROVE  RegistryInv'
  <2>1. held[t] \in Procs /\ k \in Readings /\ app[t] \in Apps
    BY <1>4 DEF ConfigReplaced, Return, Step, RegistryInv, ThreadInv, Readings
  <2>2. /\ past' = past \cup {InMemory'}
        /\ InMemory' \in Registries
        /\ conf' \in [Procs -> Readings \cup {Absent}]
    BY <1>4, <2>1, ReplaceMemory DEF ConfigReplaced, Remember, RegistryInv
  <2>3. Return(t, "replace")
    BY <1>4 DEF ConfigReplaced
  <2>4. RegistryTypeOK' /\ ThreadInv'
    BY <1>4, <2>1, <2>2, <2>3, ReturnStep
    DEF RegistryInv, RegistryTypeOK, ConfigReplaced
  <2> QED
    BY <1>4, <2>1, <2>3, <2>4, ReturnStep, ConfigStep DEF ConfigReplaced
<1>5. ASSUME NEW t \in Threads, Spawn(t) \/ DeleteStops(t)
      PROVE  RegistryInv'
  <2>1. RegistryTypeOK'
    BY <1>5 DEF RegistryInv, RegistryTypeOK, ThreadInv, Spawn, DeleteStops,
                Step, ThreadPlaces, history
  <2>2. ThreadInv'
    BY <1>5 DEF RegistryInv, RegistryTypeOK, ThreadInv, Spawn, DeleteStops,
                Step
  <2>3. \A u \in Threads : pc'[u] \in {"save", "collect"} => pc'[u] = pc[u]
    BY <1>5 DEF RegistryInv, RegistryTypeOK, Spawn, DeleteStops, Step
  <2> QED
    BY <1>5, <2>1, <2>2, <2>3, AlongStep DEF Spawn, DeleteStops, history
<1>6. ASSUME NEW t \in Threads, DeleteRemoves(t)
      PROVE  RegistryInv'
  <2>1. app[t] \in Apps
    BY <1>6 DEF RegistryInv, ThreadInv, DeleteRemoves, Step
  <2>2. InMemory' = [InMemory EXCEPT ![app[t]] = Absent]
    BY <1>6, <2>1, RemoveMemory DEF RegistryInv, DeleteRemoves
  <2>3. InMemory' \in Registries
    BY <2>1, <2>2, MemoryIsRegistry DEF RegistryInv, Registries
  <2>4. past' = past \cup {InMemory'}
    BY <1>6, <2>2 DEF DeleteRemoves, Remember
  <2>5. RegistryTypeOK'
    <3>1. procs' \in [Apps -> 0..MaxProcs]
      <4>1. procs \in [Apps -> 0..MaxProcs] /\ None \in 0..MaxProcs
        BY DEF RegistryInv, RegistryTypeOK
      <4>2. procs' = [procs EXCEPT ![app[t]] = None]
        BY <1>6 DEF DeleteRemoves
      <4> HIDE DEF None
      <4> QED
        BY <4>1, <4>2
    <3>2. pc' \in [Threads -> ThreadPlaces]
      BY <1>6 DEF RegistryInv, RegistryTypeOK, DeleteRemoves, Step,
                  ThreadPlaces
    <3> QED
      BY <1>6, <2>3, <2>4, <3>1, <3>2
      DEF RegistryInv, RegistryTypeOK, DeleteRemoves
  <2>6. NameInv'
    BY <1>6, <2>1
    DEF RegistryInv, RegistryTypeOK, NameInv, Current, DeleteRemoves
  <2>7. ThreadInv'
    BY <1>6 DEF RegistryInv, RegistryTypeOK, ThreadInv, DeleteRemoves, Step
  <2>8. SnapInv' /\ DiskNamesOneMoment'
    BY <1>6, <2>4, FilesStay
    DEF RegistryInv, RegistryTypeOK, DeleteRemoves, Step, Free
  <2> QED
    BY <1>6, <2>4, <2>5, <2>6, <2>7, <2>8 DEF RegistryInv, DeleteRemoves
<1>7. ASSUME NEW t \in Threads, DeleteTimesOut(t)
      PROVE  RegistryInv'
  <2>1. Return(t, "stop")
    BY <1>7 DEF DeleteTimesOut
  <2>2. RegistryTypeOK' /\ ThreadInv'
    BY <1>7, <2>1, ReturnStep
    DEF RegistryInv, RegistryTypeOK, DeleteTimesOut, mem, history
  <2>3. SnapInv' /\ DiskNamesOneMoment'
    BY <1>7, <2>1, ReturnStep, FilesStay
    DEF DeleteTimesOut, mem, history
  <2> QED
    BY <1>7, <2>2, <2>3, QuietStep DEF DeleteTimesOut, mem, history
<1>8. ASSUME NEW t \in Threads, Save(t) \/ SaveFails(t)
      PROVE  RegistryInv'
  <2>1. pc[t] = "save" /\ Return(t, "save") /\ Acknowledge(t)
        /\ UNCHANGED <<procs, conf, past, unread>>
    BY <1>8 DEF Save, SaveFails, Return, Step, mem
  <2>2. acked' \subseteq Apps
    BY <2>1, AcknowledgeStep
  <2>3. disk' = snap[t] \/ disk' = disk
    BY <1>8 DEF Save, SaveFails
  <2>4. DiskNamesOneMoment'
    BY <2>1, <2>3
    DEF RegistryInv, SnapInv, DiskNamesOneMoment, Seen, Named
  <2>5. RegistryTypeOK' /\ ThreadInv'
    BY <1>8, <2>1, <2>2, <2>3, ReturnStep
    DEF RegistryInv, RegistryTypeOK, Save, SaveFails, mem
  <2>6. SnapInv'
    <3>1. \A u \in Threads :
             pc'[u] \in {"save", "collect"} =>
                 pc'[u] = pc[u] /\ snap'[u] = snap[u]
      BY <2>1, ReturnStep
    <3> QED
      BY <2>1, <3>1 DEF RegistryInv, SnapInv, Seen, Named, Current
  <2> QED
    BY <2>1, <2>4, <2>5, <2>6, QuietStep
<1>9. ASSUME Crash
      PROVE  RegistryInv'
  <2>1. Empty \in Registries
    BY DEF Empty, Registries
  <2>2. InMemory' = Empty
    BY <1>9 DEF Crash, Die, InMemory, Empty
  <2>3. RegistryTypeOK'
    <3>1. crashes' \in 0..MaxCrashes /\ None \in 0..MaxProcs
      BY <1>9 DEF RegistryInv, RegistryTypeOK, Crash, Die
    <3>2. /\ procs' \in [Apps -> 0..MaxProcs]
          /\ held' \in [Threads -> 0..MaxProcs]
      BY <1>9, <3>1 DEF Crash, Die
    <3>3. snap' \in [Threads -> Registries] /\ toRestore' \in Registries
      BY <1>9, <2>1 DEF Crash, Die
    <3>4. /\ conf' \in [Procs -> Readings \cup {Absent}]
          /\ pc' \in [Threads -> ThreadPlaces]
          /\ app' \in [Threads -> Apps \cup {Absent}]
      BY <1>9 DEF Crash, Die, ThreadPlaces
    <3> QED
      BY <1>9, <3>1, <3>2, <3>3, <3>4
      DEF RegistryInv, RegistryTypeOK, Crash, Die
  <2>4. NameInv' /\ ThreadInv'
    BY <1>9 DEF Crash, Die, NameInv, Current, ThreadInv
  <2>5. SnapInv' /\ DiskNamesOneMoment'
    BY <1>9, FilesStay DEF Crash, Die
  <2> QED
    BY <1>9, <2>2, <2>3, <2>4, <2>5 DEF RegistryInv, Crash, Die
<1>10. ASSUME Boot
       PROVE  RegistryInv'
  <2>1. RegistryTypeOK' /\ ThreadInv'
    BY <1>10 DEF RegistryInv, RegistryTypeOK, ThreadInv, Boot, mem, threads,
                 history
  <2> QED
    BY <1>10, <2>1, AlongStep DEF Boot, mem, threads, history
<1>11. ASSUME NEW a \in Apps, Restore(a)
       PROVE  RegistryInv'
  <2>1. Main \in Threads
    BY DEF Threads
  <2>2. /\ toRestore[a] \in Readings /\ toRestore' \in Registries
        /\ calls' \in 0..MaxCalls
    BY <1>11 DEF Restore, RegistryInv, RegistryTypeOK, Registries
  <2> QED
    BY <1>11, <2>1, <2>2, RegisterStep DEF Restore
<1>12. CASE Restart
  <2>1. RegistryTypeOK'
    <3>1. ASSUME NEW a \in Apps, RestartLookup(a) PROVE RegistryTypeOK'
      BY <3>1
      DEF RegistryInv, RegistryTypeOK, RestartLookup, Procs, threads, history
    <3>2. ASSUME NEW p \in Procs, RestartEnds(p) PROVE RegistryTypeOK'
      BY <3>2 DEF RegistryInv, RegistryTypeOK, RestartEnds, threads, history
    <3> QED
      BY <1>12, <3>1, <3>2 DEF Restart
  <2>2. UNCHANGED <<procs, conf, past, disk, threads>>
    BY <1>12 DEF Restart, RestartLookup, RestartEnds, history
  <2>3. ThreadInv'
    BY <2>2 DEF RegistryInv, ThreadInv, threads
  <2> QED
    BY <2>1, <2>2, <2>3, AlongStep DEF threads
<1>13. CASE UNCHANGED vars
  <2>1. RegistryTypeOK' /\ ThreadInv'
    BY <1>13 DEF RegistryInv, RegistryTypeOK, ThreadInv, vars, mem, threads,
                 history
  <2> QED
    BY <1>13, <2>1, AlongStep DEF vars, mem, threads, history
<1> QED
  BY <1>1, <1>2, <1>3, <1>4, <1>5, <1>6, <1>7, <1>8, <1>9, <1>10, <1>11,
     <1>12, <1>13, PersistStep DEF Next, Thread, Daemon

(* The daemon that starts with an empty file. *)
LEMMA InitInv == Init => RegistryInv
<1> SUFFICES ASSUME Init PROVE RegistryInv
  OBVIOUS
<1>1. Empty \in Registries
  BY DEF Empty, Registries
<1>2. InMemory = Empty
  BY DEF Init, InMemory, Empty
<1>3. RegistryTypeOK
  BY <1>1, RegistryAssumption
  DEF Init, RegistryTypeOK, ThreadPlaces, Procs
<1> QED
  BY <1>2, <1>3
  DEF Init, RegistryInv, NameInv, ThreadInv, SnapInv, Current, Seen,
      DiskNamesOneMoment

(* The inductive invariant of the registry and its file holds throughout. *)
THEOREM RegistryInductive == Spec => []RegistryInv
BY InitInv, NextStep, PTL DEF Spec

(* state.json names the apps of one moment, each with a config it had at   *)
(* one like it (persist, Store.Save): no crash and no overlap of saves     *)
(* brings together names that were not.                                    *)
THEOREM DiskNamesOneMomentHolds == Spec => []DiskNamesOneMoment
<1>1. RegistryInv => DiskNamesOneMoment
  BY DEF RegistryInv
<1> QED
  BY <1>1, RegistryInductive, PTL

-----------------------------------------------------------------------------
(* Orderly use: one call at a time, every save done, every restore loop    *)
(* run to its end.                                                         *)

Busy(t) == pc[t] # "idle"

(* A registry, a file or a snapshot that names the registered apps. *)
NamesApps(r) == \A a \in Apps : (r[a] = Absent) = (procs[a] = None)

(* Without a daemon nothing is in memory, and requests are not for main.   *)
DaemonInv ==
    /\ ~up => /\ \A a \in Apps : procs[a] = None
              /\ \A t \in Threads : ~Busy(t)
              /\ alive = {} /\ restarts = {} /\ pending = {}
              /\ toRestore = Empty
    /\ pc[Main] \in {"idle", "spawn", "snapshot", "collect", "save"}

(* A name that is being deleted is not acknowledged. *)
DeletedInv ==
    \A t \in Threads : pc[t] \in {"stop", "remove"} => app[t] \notin acked

(* The one call under way acts on the process of its name. *)
CallInv ==
    /\ \A t, u \in Threads : Busy(t) /\ Busy(u) => t = u
    /\ \A t \in Threads :
           pc[t] \in {"spawn", "found", "replace", "stop", "remove"} =>
               procs[app[t]] = held[t]

(* While no Delete meets a Restart that a StartApp left behind, none of    *)
(* these is about the app under deletion, and what runs or is restarted is *)
(* registered.                                                             *)
SettledInv ==
    /\ \A t \in Threads :
           /\ pc[t] \in {"stop", "remove"} =>
                  app[t] \notin pending /\ held[t] \notin restarts
           /\ pc[t] = "remove" => held[t] \notin alive
    /\ \A p \in alive \cup restarts : \E a \in Apps : procs[a] = p

(* The file names the registered apps, between calls, and during one until *)
(* that changes the registry; then the snapshot does.  The restore loop    *)
(* begins with nothing registered.                                         *)
FileInv ==
    up => /\ (\A t \in Threads : ~Busy(t)) =>
                 \/ NamesApps(disk)
                 \/ toRestore = disk /\ \A a \in Apps : procs[a] = None
          /\ \A t \in Threads :
                 /\ pc[t] \in {"found", "replace", "stop"} => NamesApps(disk)
                 /\ pc[t] = "save" => NamesApps(snap[t])

(* What was acknowledged is registered, or has still to be restored. *)
AckedInv ==
    /\ up => \A a \in acked : procs[a] # None \/ toRestore[a] # Absent
    /\ AckedIsDurable

OrderInv ==
    /\ RegistryInv /\ DaemonInv /\ DeletedInv
    /\ orderly => /\ CallInv /\ FileInv /\ AckedInv
                  /\ settled => SettledInv

(* A name is registered by a request or by the restore loop. *)
LEMMA Registrations ==
    ASSUME OrderInv
    PROVE  /\ \A t \in Threads, a \in Apps, k \in Configs : StartNew(t, a, k) =>
                  /\ k \in Readings /\ t \in Clients
                  /\ Register(t, a, k) /\ UNCHANGED toRestore
           /\ \A a \in Apps : Restore(a) =>
                  /\ toRestore[a] \in Readings /\ toRestore[a] # Absent
                  /\ Main \in Threads /\ Register(Main, a, toRestore[a])
                  /\ toRestore' = [toRestore EXCEPT ![a] = Absent]
BY RegistryAssumption
   DEF OrderInv, RegistryInv, RegistryTypeOK, StartNew, Restore, Readings,
       Registries, Threads

(* The kinds of step: what each does to the registry is all that orderly   *)
(* use depends on.                                                         *)
Registered ==
    \E t \in Threads, a \in Apps, k \in Readings :
        /\ Register(t, a, k)
        /\ \/ t \in Clients /\ UNCHANGED toRestore
           \/ t = Main /\ toRestore' = [toRestore EXCEPT ![a] = Absent]
Found ==
    \E t \in Threads, a \in Apps : StartExisting(t, a) \/ DeleteLookup(t, a)
Replaced ==
    \E t \in Threads :
        ReplaceConfig(t) \/ \E k \in Configs : ConfigReplaced(t, k)
Went ==
    \E t \in Threads : Spawn(t) \/ DeleteStops(t) \/ DeleteTimesOut(t)
Removed == \E t \in Threads : DeleteRemoves(t)
Persisted ==
    \E t \in Threads :
        Snapshot(t) \/ Collected(t) \/ \E a \in Apps : ReadConfig(t, a)
Saved == \E t \in Threads : Save(t) \/ SaveFails(t)

LEMMA StepKinds ==
    ASSUME OrderInv, [Next]_vars
    PROVE  \/ Registered \/ Found \/ Replaced \/ Went \/ Removed
           \/ Persisted \/ Saved \/ Restart \/ Crash \/ Boot
           \/ UNCHANGED vars
<1>1. ASSUME NEW t \in Threads, Thread(t)
      PROVE  \/ Registered \/ Found \/ Replaced \/ Went \/ Removed
             \/ Persisted \/ Saved
  BY <1>1, Registrations
  DEF Thread, Registered, Found, Replaced, Went, Removed, Persisted, Saved
<1>2. Daemon => Crash \/ Boot \/ Registered
  BY Registrations DEF Daemon, Registered
<1> QED
  BY <1>1, <1>2 DEF Next

(* Every step keeps what does not depend on the order of the calls. *)
LEMMA DaemonStep ==
    ASSUME OrderInv, [Next]_vars
    PROVE  DaemonInv' /\ DeletedInv'
<1>0. /\ RegistryTypeOK /\ ThreadInv /\ DaemonInv /\ DeletedInv
      /\ Main \in Threads /\ Main \notin Clients
  BY RegistryAssumption DEF OrderInv, RegistryInv, Threads
<1> USE <1>0 DEF RegistryTypeOK, DaemonInv, DeletedInv, Busy, Step, Return, mem
<1>1. Registered => DaemonInv' /\ DeletedInv'
  BY DEF Registered, Register
<1>2. Found => DaemonInv' /\ DeletedInv'
  BY DEF Found, StartExisting, DeleteLookup, Lookup
<1>3. Replaced => DaemonInv' /\ DeletedInv'
  BY DEF Replaced, ReplaceConfig, ConfigReplaced
<1>4. Went => DaemonInv' /\ DeletedInv'
  BY DEF Went, Spawn, DeleteStops, DeleteTimesOut, history
<1>5. Removed => DaemonInv' /\ DeletedInv'
  BY DEF Removed, DeleteRemoves
<1>6. Persisted => DaemonInv' /\ DeletedInv'
  BY DEF Persisted, Snapshot, Collected, ReadConfig, history
<1>7. Saved => DaemonInv' /\ DeletedInv'
  BY DEF Saved, Save, SaveFails, Acknowledge
<1>8. Restart => DaemonInv' /\ DeletedInv'
  BY DEF Restart, RestartLookup, RestartEnds, threads, history
<1>9. Crash => DaemonInv' /\ DeletedInv'
  BY DEF Crash, Die
<1>10. Boot => DaemonInv' /\ DeletedInv'
  BY DEF Boot, threads, history
<1>11. (UNCHANGED vars) => DaemonInv' /\ DeletedInv'
  BY DEF vars, threads, history
<1> HIDE <1>0 DEF RegistryTypeOK, DaemonInv, DeletedInv, Busy, Step, Return, mem
<1> QED
  BY <1>1, <1>2, <1>3, <1>4, <1>5, <1>6, <1>7, <1>8, <1>9, <1>10, <1>11,
     StepKinds

(* Use that is orderly after a step was so before; and a Restart that a    *)
(* Delete met is forgotten only with the daemon.                           *)
LEMMA OrderStays ==
    ASSUME OrderInv, [Next]_vars, orderly'
    PROVE  orderly /\ (settled' => settled \/ Crash)
<1>0. RegistryTypeOK
  BY DEF OrderInv, RegistryInv
<1>1. Registered => orderly /\ settled' = settled
  BY <1>0 DEF Registered, Register, Alone, RegistryTypeOK
<1>f. Found => orderly /\ (settled' => settled)
  <2> SUFFICES ASSUME NEW t \in Threads, NEW a \in Apps,
                      StartExisting(t, a) \/ DeleteLookup(t, a)
               PROVE  orderly /\ (settled' => settled)
    BY DEF Found
  <2>1. orderly
    BY <1>0 DEF StartExisting, DeleteLookup, Lookup, Alone, RegistryTypeOK
  <2>2. settled' => settled
    BY <1>0 DEF StartExisting, DeleteLookup, RegistryTypeOK
  <2> QED
    BY <2>1, <2>2
<1>2. Replaced \/ Removed \/ Saved => orderly /\ settled' = settled
  BY <1>0 DEF Replaced, ReplaceConfig, ConfigReplaced, Removed, DeleteRemoves,
              Saved, Save, SaveFails
<1>3. Went \/ Persisted => orderly /\ settled' = settled
  BY DEF Went, Spawn, DeleteStops, DeleteTimesOut, Persisted, Snapshot,
         Collected, ReadConfig, history
<1>4. Restart \/ Boot \/ UNCHANGED vars => orderly /\ settled' = settled
  BY DEF Restart, RestartLookup, RestartEnds, Boot, vars, history
<1>5. Crash => orderly
  BY <1>0 DEF Crash, Die, RegistryTypeOK
<1> QED
  BY <1>1, <1>f, <1>2, <1>3, <1>4, <1>5, StepKinds

(* The call under way keeps to the process of its name. *)
LEMMA CallStep ==
    ASSUME OrderInv, [Next]_vars, orderly'
    PROVE  CallInv'
<1>0. /\ RegistryTypeOK /\ ThreadInv /\ DaemonInv /\ CallInv
  BY OrderStays DEF OrderInv, RegistryInv
<1> USE <1>0 DEF RegistryTypeOK, CallInv, Busy, Step, Return, mem
<1>1. Registered => CallInv'
  <2> SUFFICES ASSUME NEW t \in Threads, NEW a \in Apps, NEW k \in Readings,
                      Register(t, a, k)
               PROVE  CallInv'
    BY DEF Registered
  <2>1. \A u \in Threads : Busy(u)' => u = t
    BY DEF Register, Alone
  <2>2. procs'[app'[t]] = held'[t]
    BY DEF Register
  <2> QED
    BY <2>1, <2>2
<1>2. Found => CallInv'
  <2> SUFFICES ASSUME NEW t \in Threads, NEW a \in Apps,
                      NEW to \in {"found", "stop"}, Lookup(t, a, to)
               PROVE  CallInv'
    BY DEF Found, StartExisting, DeleteLookup
  <2>1. \A u \in Threads : Busy(u)' => u = t
    BY DEF Lookup, Alone
  <2>2. procs'[app'[t]] = held'[t]
    BY DEF Lookup
  <2> QED
    BY <2>1, <2>2
<1>3. Replaced => CallInv'
  <2> SUFFICES ASSUME NEW t \in Threads,
                      \/ ReplaceConfig(t)
                      \/ \E k \in Configs : ConfigReplaced(t, k)
               PROVE  CallInv'
    BY DEF Replaced
  <2>1. UNCHANGED procs /\ Busy(t)
        /\ \A u \in Threads \ {t} :
               pc'[u] = pc[u] /\ app'[u] = app[u] /\ held'[u] = held[u]
    BY DEF ReplaceConfig, ConfigReplaced
  <2>2. pc'[t] # "idle" =>
           pc[t] = "found" /\ app'[t] = app[t] /\ held'[t] = held[t]
    BY DEF ReplaceConfig, ConfigReplaced
  <2> QED
    BY <2>1, <2>2
<1>4. Went => CallInv'
  BY DEF Went, Spawn, DeleteStops, DeleteTimesOut
<1>5. Removed => CallInv'
  BY DEF Removed, DeleteRemoves
<1>6. Persisted => CallInv'
  BY DEF Persisted, Snapshot, Collected, ReadConfig
<1>7. Saved => CallInv'
  BY DEF Saved, Save, SaveFails
<1>8. Restart => CallInv'
  BY DEF Restart, RestartLookup, RestartEnds, threads
<1>9. Crash => CallInv'
  BY DEF Crash, Die
<1>10. Boot => CallInv'
  BY DEF Boot, threads
<1>11. (UNCHANGED vars) => CallInv'
  BY DEF vars, threads
<1> HIDE <1>0 DEF RegistryTypeOK, CallInv, Busy, Step, Return, mem
<1> QED
  BY <1>1, <1>2, <1>3, <1>4, <1>5, <1>6, <1>7, <1>8, <1>9, <1>10, <1>11,
     StepKinds

(* What runs or is restarted stays registered: a process leaves the        *)
(* registry when it has been stopped, and no Restart of it is under way.   *)
LEMMA SettledStep ==
    ASSUME OrderInv, [Next]_vars, orderly', settled'
    PROVE  SettledInv'
<1>1. CASE Crash
  BY <1>1 DEF Crash, Die, SettledInv
<1>2. CASE ~Crash
  <2>0. /\ RegistryTypeOK /\ ThreadInv /\ NameInv /\ DaemonInv /\ CallInv
        /\ SettledInv /\ None \notin Procs
    BY <1>2, OrderStays, RegistryAssumption DEF OrderInv, RegistryInv, Procs
  <2> USE <2>0 DEF RegistryTypeOK, Busy, Step, Return, mem
  <2>1. Registered => SettledInv'
    <3> SUFFICES ASSUME NEW t \in Threads, NEW a \in Apps, NEW k \in Readings,
                        Register(t, a, k)
                 PROVE  SettledInv'
      BY DEF Registered
    <3>1. \A p \in alive \cup restarts : \E b \in Apps : procs'[b] = p
      BY DEF Register, SettledInv
    <3> QED
      BY <3>1 DEF Register, Alone, SettledInv
  <2>2. Found => SettledInv'
    <3> SUFFICES ASSUME NEW t \in Threads, NEW a \in Apps,
                        StartExisting(t, a) \/ DeleteLookup(t, a)
                 PROVE  SettledInv'
      BY DEF Found
    <3>1. PICK to \in {"found", "stop"} :
             Lookup(t, a, to) /\ (to = "stop" => DeleteLookup(t, a))
      BY DEF StartExisting, DeleteLookup
    <3>2. /\ UNCHANGED <<procs, alive, pending, restarts>>
          /\ \A u \in Threads : Busy(u)' => u = t
          /\ pc'[t] = to /\ app'[t] = a /\ held'[t] = procs[a]
      BY <3>1 DEF Lookup, Alone
    <3>3. to = "stop" => a \notin pending /\ procs[a] \notin restarts
      BY <3>1 DEF DeleteLookup
    <3> QED
      BY <3>2, <3>3 DEF SettledInv
  <2>3. Replaced => SettledInv'
    <3> SUFFICES ASSUME NEW t \in Threads,
                        ReplaceConfig(t)
                            \/ \E k \in Configs : ConfigReplaced(t, k)
                 PROVE  SettledInv'
      BY DEF Replaced
    <3>1. \A u \in Threads : pc'[u] \notin {"stop", "remove"}
      BY ZenonT(60) DEF ReplaceConfig, ConfigReplaced, CallInv
    <3> QED
      BY <3>1 DEF ReplaceConfig, ConfigReplaced, SettledInv
  <2>4. Went => SettledInv'
    <3> SUFFICES ASSUME NEW t \in Threads,
                        Spawn(t) \/ DeleteStops(t) \/ DeleteTimesOut(t)
                 PROVE  SettledInv'
      BY DEF Went
    <3>1. /\ Busy(t) /\ app[t] \in Apps /\ held[t] = procs[app[t]]
          /\ \A u \in Threads : Busy(u)' => u = t
          /\ UNCHANGED <<procs, pending, restarts>>
      BY DEF Spawn, DeleteStops, DeleteTimesOut, ThreadInv, CallInv
    <3>2. alive' \subseteq alive \cup {held[t]}
      BY DEF Spawn, DeleteStops, DeleteTimesOut
    <3>3. pc'[t] \in {"stop", "remove"} =>
             /\ pc[t] = "stop" /\ pc'[t] = "remove"
             /\ UNCHANGED <<app, held>> /\ alive' = alive \ {held[t]}
      BY DEF Spawn, DeleteStops, DeleteTimesOut
    <3> QED
      BY <3>1, <3>2, <3>3 DEF SettledInv
  <2>5. Removed => SettledInv'
    <3> SUFFICES ASSUME NEW t \in Threads, DeleteRemoves(t) PROVE SettledInv'
      BY DEF Removed
    <3>1. /\ procs[app[t]] = held[t] /\ app[t] \in Apps
          /\ held[t] \notin alive \cup restarts
      BY DEF DeleteRemoves, SettledInv, CallInv, ThreadInv
    <3>2. \A p \in alive \cup restarts : \E a \in Apps : procs'[a] = p
      BY <3>1 DEF DeleteRemoves, SettledInv
    <3>3. \A u \in Threads : pc'[u] \notin {"stop", "remove"}
      BY DEF DeleteRemoves, CallInv
    <3> QED
      BY <3>2, <3>3 DEF DeleteRemoves, SettledInv
  <2>6. Persisted => SettledInv'
    BY DEF Persisted, Snapshot, Collected, ReadConfig, SettledInv
  <2>7. Saved => SettledInv'
    BY DEF Saved, Save, SaveFails, SettledInv
  <2>8. Restart => SettledInv'
    <3>1. ASSUME NEW a \in Apps, RestartLookup(a) PROVE SettledInv'
      <4>1. /\ UNCHANGED <<procs, alive, pc, app, held>>
            /\ a \in pending /\ pending' \subseteq pending
            /\ restarts' \subseteq restarts \cup {procs[a]}
            /\ None \notin restarts'
        BY <3>1 DEF RestartLookup, threads
      <4>2. \A p \in restarts' : \E b \in Apps : procs[b] = p
        BY <4>1 DEF SettledInv
      <4>3. ASSUME NEW t \in Threads, pc[t] \in {"stop", "remove"}
            PROVE  app[t] \notin pending' /\ held[t] \notin restarts'
        <5>1. app[t] # a /\ app[t] \in Apps /\ held[t] = procs[app[t]]
              /\ held[t] \in Procs /\ held[t] \notin restarts
              /\ app[t] \notin pending
          BY <4>1, <4>3 DEF SettledInv, CallInv, ThreadInv
        <5>2. held[t] # procs[a]
          BY <5>1 DEF NameInv
        <5> QED
          BY <4>1, <5>1, <5>2
      <4> QED
        BY <4>1, <4>2, <4>3 DEF SettledInv
    <3>2. ASSUME NEW p \in Procs, RestartEnds(p) PROVE SettledInv'
      BY <3>2 DEF RestartEnds, threads, SettledInv
    <3> QED
      BY <3>1, <3>2 DEF Restart
  <2>9. Boot => SettledInv'
    BY DEF Boot, threads, SettledInv
  <2>10. (UNCHANGED vars) => SettledInv'
    BY DEF vars, threads, SettledInv
  <2> HIDE <2>0 DEF RegistryTypeOK, Busy, Step, Return, mem
  <2> QED
    BY <1>2, <2>1, <2>2, <2>3, <2>4, <2>5, <2>6, <2>7, <2>8, <2>9, <2>10,
       StepKinds
<1> QED
  BY <1>1, <1>2

(* What persist has collected names the registered apps. *)
LEMMA CollectedNamesApps ==
    ASSUME RegistryInv, NEW t \in Threads, Collected(t)
    PROVE  NamesApps(snap[t])
BY DEF RegistryInv, SnapInv, Collected, Step, NamesApps, Current

(* The file goes on naming the registered apps: a call that changes the    *)
(* registry takes its snapshot after the change, and saves it.             *)
LEMMA FileStep ==
    ASSUME OrderInv, [Next]_vars, orderly'
    PROVE  FileInv'
<1>0. /\ RegistryInv /\ RegistryTypeOK /\ ThreadInv /\ DaemonInv
      /\ CallInv /\ FileInv
  BY OrderStays DEF OrderInv, RegistryInv
<1> USE <1>0 DEF RegistryTypeOK, FileInv, Busy, Step, Return, mem
<1>n. UNCHANGED procs => \A r : NamesApps(r)' <=> NamesApps(r)
  BY DEF NamesApps
<1>1. Registered => FileInv'
  BY ZenonT(60) DEF Registered, Register, Alone
<1>2. Found => FileInv'
  <2> SUFFICES ASSUME NEW t \in Threads, NEW a \in Apps,
                      StartExisting(t, a) \/ DeleteLookup(t, a)
               PROVE  FileInv'
    BY DEF Found
  <2>1. PICK to \in {"found", "stop"} : Lookup(t, a, to)
    BY DEF StartExisting, DeleteLookup
  <2>2. /\ \A u \in Threads : ~Busy(u)
        /\ procs[a] # None /\ UNCHANGED <<procs, disk>>
        /\ pc' = [pc EXCEPT ![t] = to]
    BY <2>1 DEF Lookup, Alone
  <2>3. NamesApps(disk)'
    BY <2>1, <2>2 DEF NamesApps, Lookup
  <2> QED
    BY <2>2, <2>3
<1>3. Replaced => FileInv'
  <2> SUFFICES ASSUME NEW t \in Threads,
                      \/ ReplaceConfig(t)
                      \/ \E k \in Configs : ConfigReplaced(t, k)
               PROVE  FileInv'
    BY DEF Replaced
  <2>1. NamesApps(disk) /\ UNCHANGED <<procs, disk>> /\ Busy(t)
        /\ pc'[t] \in {"idle", "replace"}
    BY DEF ReplaceConfig, ConfigReplaced
  <2>2. NamesApps(disk)'
    BY <2>1 DEF NamesApps
  <2>3. \A u \in Threads : u # t => ~Busy(u)'
    BY <2>1 DEF ReplaceConfig, ConfigReplaced, CallInv
  <2> QED
    BY <2>1, <2>2, <2>3
<1>4. Went => FileInv'
  <2> SUFFICES ASSUME NEW t \in Threads,
                      Spawn(t) \/ DeleteStops(t) \/ DeleteTimesOut(t)
               PROVE  FileInv'
    BY DEF Went
  <2>1. /\ Busy(t) /\ UNCHANGED <<procs, disk>>
        /\ \A u \in Threads : u # t => ~Busy(u)'
    BY DEF Spawn, DeleteStops, DeleteTimesOut, CallInv
  <2>2. CASE DeleteTimesOut(t)
    <3>1. NamesApps(disk)'
      BY <2>1, <2>2 DEF DeleteTimesOut, NamesApps
    <3> QED
      BY <2>1, <2>2, <3>1 DEF DeleteTimesOut
  <2>3. CASE Spawn(t) \/ DeleteStops(t)
    <3>1. pc'[t] \in {"snapshot", "remove"}
      BY <2>3 DEF Spawn, DeleteStops
    <3> QED
      BY <2>1, <3>1
  <2> QED
    BY <2>2, <2>3
<1>5. Removed => FileInv'
  <2> SUFFICES ASSUME NEW t \in Threads, DeleteRemoves(t) PROVE FileInv'
    BY DEF Removed
  <2>1. /\ pc'[t] = "snapshot"
        /\ \A u \in Threads : u # t => ~Busy(u)'
    BY DEF DeleteRemoves, CallInv
  <2> QED
    BY <2>1
<1>6. Persisted => FileInv'
  <2> SUFFICES ASSUME NEW t \in Threads,
                      \/ Snapshot(t) \/ Collected(t)
                      \/ \E a \in Apps : ReadConfig(t, a)
               PROVE  FileInv'
    BY DEF Persisted
  <2>1. /\ UNCHANGED procs /\ Busy(t)'
        /\ \A u \in Threads : u # t => ~Busy(u)'
        /\ pc'[t] \in {"collect", "save"}
        /\ pc'[t] = "save" => Collected(t)
    BY DEF Snapshot, Collected, ReadConfig, CallInv
  <2>2. Collected(t) => NamesApps(snap[t])'
    <3> SUFFICES ASSUME Collected(t) PROVE NamesApps(snap[t])'
      OBVIOUS
    <3>1. NamesApps(snap[t]) /\ snap' = snap
      BY CollectedNamesApps DEF Collected
    <3> QED
      BY <2>1, <3>1 DEF NamesApps
  <2> QED
    BY <2>1, <2>2
<1>7. Saved => FileInv'
  <2> SUFFICES ASSUME NEW t \in Threads, Save(t) \/ SaveFails(t)
               PROVE  FileInv'
    BY DEF Saved
  <2>1. /\ Busy(t) /\ up /\ NamesApps(snap[t]) /\ disk' = snap[t]
        /\ UNCHANGED procs /\ pc'[t] = "idle"
    BY DEF Save, SaveFails
  <2>2. NamesApps(disk)'
    BY <2>1 DEF NamesApps
  <2>3. \A u \in Threads : ~Busy(u)'
    BY <2>1 DEF Save, SaveFails, CallInv
  <2> QED
    BY <2>2, <2>3
<1>8. Restart => FileInv'
  <2> SUFFICES ASSUME Restart PROVE FileInv'
    OBVIOUS
  <2>1. UNCHANGED <<up, procs, disk, toRestore, pc, snap>>
    BY DEF Restart, RestartLookup, RestartEnds, threads
  <2> QED
    BY <1>n, <2>1 DEF NamesApps
<1>9. Crash => FileInv'
  BY DEF Crash, Die
<1>10. Boot => FileInv'
  BY DEF Boot, threads, DaemonInv
<1>11. (UNCHANGED vars) => FileInv'
  BY <1>n DEF vars, threads, NamesApps
<1> HIDE <1>0 DEF RegistryTypeOK, FileInv, Busy, Step, Return, mem
<1> QED
  BY <1>1, <1>2, <1>3, <1>4, <1>5, <1>6, <1>7, <1>8, <1>9, <1>10, <1>11,
     StepKinds

(* What was acknowledged stays on disk while requests are served: nothing  *)
(* but a Delete, which takes it back first, unregisters an app, and a save *)
(* writes all that is registered.                                          *)
LEMMA AckedStep ==
    ASSUME OrderInv, [Next]_vars, orderly'
    PROVE  AckedInv'
<1>0. /\ RegistryTypeOK /\ ThreadInv /\ DaemonInv /\ DeletedInv
      /\ CallInv /\ FileInv /\ AckedInv
      /\ Main \in Threads /\ Main \notin Clients
  BY RegistryAssumption, OrderStays DEF OrderInv, RegistryInv, Threads
<1> USE <1>0 DEF RegistryTypeOK, AckedInv, AckedIsDurable, Serving, Step,
       Return, mem
<1>1. Registered => AckedInv'
  <2> SUFFICES ASSUME NEW t \in Threads, NEW a \in Apps, NEW k \in Readings,
                      Register(t, a, k),
                      \/ t \in Clients /\ UNCHANGED toRestore
                      \/ /\ t = Main
                         /\ toRestore' = [toRestore EXCEPT ![a] = Absent]
               PROVE  AckedInv'
    BY DEF Registered
  <2>1. \A b \in acked : procs'[b] # None \/ toRestore'[b] # Absent
    BY DEF Register, Registries, Procs
  <2>2. Serving' => Serving
    BY DEF Register
  <2> QED
    BY <2>1, <2>2 DEF Register
<1>2. Found => AckedInv'
  BY DEF Found, StartExisting, DeleteLookup, Lookup
<1>3. Replaced => AckedInv'
  <2> SUFFICES ASSUME NEW t \in Threads,
                      \/ ReplaceConfig(t)
                      \/ \E k \in Configs : ConfigReplaced(t, k)
               PROVE  AckedInv'
    BY DEF Replaced
  <2>1. UNCHANGED <<up, procs, disk, toRestore, acked>>
    BY DEF ReplaceConfig, ConfigReplaced
  <2>2. pc'[Main] = pc[Main]
    BY ZenonT(60) DEF ReplaceConfig, ConfigReplaced, DaemonInv
  <2> QED
    BY <2>1, <2>2
<1>4. Went => AckedInv'
  BY ZenonT(60) DEF Went, Spawn, DeleteStops, DeleteTimesOut, DaemonInv, history
<1>5. Removed => AckedInv'
  BY DEF Removed, DeleteRemoves, DeletedInv
<1>6. Persisted => AckedInv'
  BY ZenonT(60) DEF Persisted, Snapshot, Collected, ReadConfig, history
<1>7. Saved => AckedInv'
  <2> SUFFICES ASSUME NEW t \in Threads, Save(t) \/ SaveFails(t)
               PROVE  AckedInv'
    BY DEF Saved
  <2>1. up /\ NamesApps(snap[t]) /\ disk' = snap[t] /\ up' = up
        /\ UNCHANGED <<procs, toRestore>>
    BY DEF Save, SaveFails, FileInv
  <2>2. \A a \in acked' : procs[a] # None \/ toRestore[a] # Absent
    BY <2>1 DEF Save, SaveFails, Acknowledge, ThreadInv, Procs
  <2>3. ASSUME Serving', NEW a \in acked' PROVE disk'[a] # Absent
    <3>1. a \in Apps
      BY <2>3 DEF Save, SaveFails, Acknowledge, ThreadInv
    <3>2. toRestore[a] = Absent
      BY <2>1, <2>3, <3>1 DEF Empty
    <3> QED
      BY <2>1, <2>2, <2>3, <3>1, <3>2 DEF NamesApps
  <2> QED
    BY <2>1, <2>2, <2>3
<1>8. Restart => AckedInv'
  BY DEF Restart, RestartLookup, RestartEnds, threads, history
<1>9. Crash => AckedInv'
  BY DEF Crash, Die
<1>10. Boot => AckedInv'
  BY DEF Boot, threads, history, DaemonInv, Empty, Busy
<1>11. (UNCHANGED vars) => AckedInv'
  BY DEF vars, threads, history
<1> HIDE <1>0 DEF RegistryTypeOK, AckedInv, AckedIsDurable, Serving, Step,
       Return, mem
<1> QED
  BY <1>1, <1>2, <1>3, <1>4, <1>5, <1>6, <1>7, <1>8, <1>9, <1>10, <1>11,
     StepKinds

(* The invariant of orderly use is inductive. *)
THEOREM OrderInductive == Spec => []OrderInv
<1>1. Init => OrderInv
  <2> SUFFICES ASSUME Init PROVE OrderInv
    OBVIOUS
  <2>1. RegistryInv
    BY InitInv
  <2>2. DaemonInv /\ DeletedInv /\ CallInv /\ SettledInv
    BY RegistryAssumption
    DEF Init, DaemonInv, DeletedInv, CallInv, SettledInv, Busy, Threads
  <2>3. FileInv /\ AckedInv
    BY DEF Init, FileInv, AckedInv, AckedIsDurable, NamesApps, Busy, Empty
  <2> QED
    BY <2>1, <2>2, <2>3 DEF OrderInv
<1>2. OrderInv /\ [Next]_vars => OrderInv'
  <2> SUFFICES ASSUME OrderInv, [Next]_vars PROVE OrderInv'
    OBVIOUS
  <2>1. RegistryInv'
    BY NextStep DEF OrderInv
  <2> QED
    BY <2>1, DaemonStep, CallStep, SettledStep, FileStep, AckedStep
    DEF OrderInv
<1> QED
  BY <1>1, <1>2, PTL DEF Spec

(* While calls come one at a time and no save fails, the file names the    *)
(* registered apps whenever no call is under way, after any number of      *)
(* crashes and restarts.                                                   *)
THEOREM IdleDiskNamesAppsHolds == Spec => []IdleDiskNamesApps
<1>1. OrderInv => IdleDiskNamesApps
  <2> SUFFICES ASSUME OrderInv, orderly, up, Serving,
                      \A t \in Threads : ~Busy(t)
               PROVE  NamesApps(disk)
    BY DEF IdleDiskNamesApps, NamesApps, Busy
  <2>1. CASE toRestore = disk /\ \A a \in Apps : procs[a] = None
    BY <2>1 DEF Serving, NamesApps, Empty
  <2> QED
    BY <2>1 DEF OrderInv, FileInv
<1> QED
  BY <1>1, OrderInductive, PTL

(* In such use no acknowledged start is lost to a crash.                   *)
THEOREM OrderlyAckedHolds == Spec => []OrderlyAckedIsDurable
<1>1. OrderInv => OrderlyAckedIsDurable
  BY DEF OrderInv, AckedInv, OrderlyAckedIsDurable
<1> QED
  BY <1>1, OrderInductive, PTL

(* And no process runs on that is out of reach of the commands, unless a   *)
(* Delete met the Restart that a StartApp on a known name left behind.     *)
THEOREM OnlyRegisteredAliveHolds == Spec => []OnlyRegisteredAlive
<1>1. OrderInv => OnlyRegisteredAlive
  BY DEF OrderInv, SettledInv, OnlyRegisteredAlive
<1> QED
  BY <1>1, OrderInductive, PTL
=============================================================================
