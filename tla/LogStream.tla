------------------------------ MODULE LogStream ------------------------------
(***************************************************************************)
(* Followers of a log (`gopm logs -f`, internal/logger and handleLogStream *)
(* of internal/supervisor/rpc.go).  The scanners of a child's stdout and   *)
(* stderr, and Logger.Write, append lines to the procLog of an app: into   *)
(* its ring buffer (module Ring), then to the channels of its subscribers, *)
(* then to the channels of those who follow all apps, under a lock of its  *)
(* own each time.  A handler per follower takes lines off its channel and  *)
(* writes them to a connection that may be as slow as it likes.  Delete    *)
(* detaches the procLog by name; a later call makes a new one, while old   *)
(* scanners and followers keep the old.  The Ring kept here is that of the *)
(* first procLog; the files are in module LogFile.                         *)
(***************************************************************************)
EXTENDS Ring, FiniteSets

CONSTANTS
    Scanners,      \* the scan goroutines
    Reporters,     \* the goroutines that call Logger.Write
    AppFollowers,  \* the handlers that follow the app
    AllFollowers,  \* the handlers that follow every app
    ChanSize,      \* bound: slots of a subscriber's channel
    MaxLines,      \* bound: lines each writer appends
    MaxLogs,       \* bound: procLogs made for the app's name
    NoLog          \* no procLog

Writers == Scanners \cup Reporters
Followers == AppFollowers \cup AllFollowers
Logs == 0..MaxLogs - 1

ASSUME LogStreamAssumption ==
    /\ Scanners \cap Reporters = {}
    /\ AppFollowers \cap AllFollowers = {}
    /\ ChanSize \in Nat \ {0}
    /\ MaxLines \in [Writers -> Nat]
    /\ MaxLogs \in Nat \ {0}
    /\ NoLog \notin Logs
    /\ Lines = UNION {{w} \X (1..MaxLines[w]) : w \in Writers}

VARIABLES
    mapped,   \* l.procs[name]
    made,     \* procLogs made so far
    at,       \* the procLog a writer appends to
    written,  \* lines a writer has begun to append
    append,   \* where it stands in append
    handler,  \* where a handler stands
    log,      \* the procLog it subscribed to
    subs,     \* pl.subs of each procLog
    allSubs,  \* l.allSubs
    chan,     \* a subscriber's channel
    line,     \* the line its handler is writing, if any
    sent,     \* the lines its client was sent
    dropped,  \* history: the subscribers that lost a line to a full channel
    joined    \* history: what had been written when a follower subscribed

writers == <<at, written, append>>
handlers == <<handler, log, line, sent, joined>>
followers == <<handlers, subs, allSubs, chan>>
logVars == <<vars, mapped, made, writers, followers, dropped>>

(* A scanner has no child yet; a writer is between lines, or has a line in *)
(* the ring that the followers of the app, then those of all, wait for.    *)
AppendPlaces == {"detached", "idle", "added", "fanned"}
HandlerPlaces == {"off", "select", "encode", "gone"}

LogTypeOK ==
    /\ RingTypeOK
    /\ mapped \in Logs \cup {NoLog}
    /\ made \in 0..MaxLogs
    /\ at \in [Writers -> Logs \cup {NoLog}]
    /\ written \in [Writers -> Nat]
    /\ \A w \in Writers : written[w] <= MaxLines[w]
    /\ append \in [Writers -> AppendPlaces]
    /\ handler \in [Followers -> HandlerPlaces]
    /\ log \in [Followers -> Logs \cup {NoLog}]
    /\ subs \in [Logs -> SUBSET AppFollowers]
    /\ allSubs \in SUBSET AllFollowers
    /\ chan \in [Followers -> Seq(Lines)]
    /\ \A f \in Followers : Len(chan[f]) <= ChanSize
    /\ line \in [Followers -> Lines \cup {NoLine}]
    /\ sent \in [Followers -> Seq(Lines)]
    /\ dropped \in SUBSET Followers
    /\ joined \in [Followers -> [Writers -> Nat]]

LogInit ==
    /\ Init
    /\ mapped = NoLog
    /\ made = 0
    /\ at = [w \in Writers |-> NoLog]
    /\ written = [w \in Writers |-> 0]
    /\ append = [w \in Writers |->
                    IF w \in Scanners THEN "detached" ELSE "idle"]
    /\ handler = [f \in Followers |-> "off"]
    /\ log = [f \in Followers |-> NoLog]
    /\ subs = [e \in Logs |-> {}]
    /\ allSubs = {}
    /\ chan = [f \in Followers |-> <<>>]
    /\ line = [f \in Followers |-> NoLine]
    /\ sent = [f \in Followers |-> <<>>]
    /\ dropped = {}
    /\ joined = [f \in Followers |-> [w \in Writers |-> 0]]

-----------------------------------------------------------------------------
(* The registry of procLogs. *)

(* ensure: the procLog of the name, made when there is none.               *)
Ensured == IF mapped = NoLog THEN made ELSE mapped

Ensure ==
    /\ Ensured \in Logs
    /\ mapped' = Ensured
    /\ made' = IF mapped = NoLog THEN made + 1 ELSE made

Detach ==
    /\ mapped # NoLog
    /\ mapped' = NoLog
    /\ UNCHANGED <<vars, made, writers, followers, dropped>>

-----------------------------------------------------------------------------
(* Writers. *)

Attach(w) ==
    /\ w \in Scanners
    /\ append[w] = "detached"
    /\ Ensure
    /\ at' = [at EXCEPT ![w] = Ensured]
    /\ append' = [append EXCEPT ![w] = "idle"]
    /\ UNCHANGED <<vars, written, followers, dropped>>

(* append, as far as the ring.  A scanner keeps the procLog Attach found,  *)
(* Logger.Write looks it up for every line.                                *)
AddLine(w) ==
    /\ append[w] = "idle"
    /\ written[w] < MaxLines[w]
    /\ written' = [written EXCEPT ![w] = @ + 1]
    /\ append' = [append EXCEPT ![w] = "added"]
    /\ IF w \in Reporters
       THEN Ensure /\ at' = [at EXCEPT ![w] = Ensured]
       ELSE UNCHANGED <<mapped, made, at>>
    /\ IF at'[w] = 0
       THEN /\ Len(added) < MaxAdded
            /\ Add(<<w, written'[w]>>)
            /\ added' = Append(added, <<w, written'[w]>>)
       ELSE UNCHANGED vars
    /\ UNCHANGED <<followers, dropped>>

Fits(f) == Len(chan[f]) < ChanSize

(* One line to every channel that has a slot free, past those that have    *)
(* none; what a channel without a reader holds is not followed.            *)
FanOut(w, to) ==
    LET read == {f \in to : handler[f] # "gone"}
    IN  /\ chan' = [f \in Followers |->
                        IF f \in read /\ Fits(f)
                        THEN Append(chan[f], <<w, written[w]>>) ELSE chan[f]]
        /\ dropped' = dropped \cup {f \in read : ~Fits(f)}
        /\ UNCHANGED <<vars, mapped, made, at, written, handlers, subs,
                       allSubs>>

AppendStep(w, from, to) ==
    append[w] = from /\ append' = [append EXCEPT ![w] = to]

(* Mutant: the send blocks while a channel is full. *)
FanAppBlocking(w) ==
    /\ AppendStep(w, "added", "fanned")
    /\ \A f \in subs[at[w]] : Fits(f)
    /\ FanOut(w, subs[at[w]])

(* Mutant: append returns where it should go on past a full channel. *)
FanAppReturns(w) ==
    /\ AppendStep(w, "added", IF \A f \in subs[at[w]] : Fits(f)
                              THEN "fanned" ELSE "idle")
    /\ FanOut(w, subs[at[w]])

FanApp(w) ==
    /\ AppendStep(w, "added", "fanned")
    /\ FanOut(w, subs[at[w]])

(* Mutant: the last loop runs over the app's own list as well. *)
FanAllTwice(w) ==
    /\ AppendStep(w, "fanned", "idle")
    /\ FanOut(w, allSubs \cup subs[at[w]])

FanAll(w) ==
    /\ AppendStep(w, "fanned", "idle")
    /\ FanOut(w, allSubs)

-----------------------------------------------------------------------------
(* Handlers. *)

HandlerStep(f, from, to) ==
    handler[f] = from /\ handler' = [handler EXCEPT ![f] = to]

(* A name that nobody has started is accepted: Subscribe makes its log.    *)
Subscribe(f) ==
    /\ f \in AppFollowers
    /\ HandlerStep(f, "off", "select")
    /\ Ensure
    /\ log' = [log EXCEPT ![f] = Ensured]
    /\ subs' = [subs EXCEPT ![Ensured] = @ \cup {f}]
    /\ joined' = [joined EXCEPT ![f] = written]
    /\ UNCHANGED <<vars, writers, line, sent, allSubs, chan, dropped>>

SubscribeAll(f) ==
    /\ f \in AllFollowers
    /\ HandlerStep(f, "off", "select")
    /\ allSubs' = allSubs \cup {f}
    /\ joined' = [joined EXCEPT ![f] = written]
    /\ UNCHANGED <<vars, mapped, made, writers, log, line, sent, subs, chan,
                   dropped>>

TakeLine(f) ==
    /\ chan[f] # <<>>
    /\ HandlerStep(f, "select", "encode")
    /\ line' = [line EXCEPT ![f] = Head(chan[f])]
    /\ chan' = [chan EXCEPT ![f] = Tail(@)]
    /\ UNCHANGED <<vars, mapped, made, writers, log, sent, subs, allSubs,
                   dropped, joined>>

Encoded(f) ==
    /\ HandlerStep(f, "encode", "select")
    /\ sent' = [sent EXCEPT ![f] = Append(@, line[f])]
    /\ line' = [line EXCEPT ![f] = NoLine]
    /\ UNCHANGED <<vars, mapped, made, writers, log, subs, allSubs, chan,
                   dropped, joined>>

(* The deferred Unsubscribe looks the procLog up by name: it finds nothing *)
(* to do when that is no longer the one it subscribed to.  What the client *)
(* was sent is forgotten, and what is left in a channel nobody reads.      *)
Unsubscribe(f, from) ==
    /\ HandlerStep(f, from, "gone")
    /\ subs' = [e \in Logs |-> IF e = mapped THEN subs[e] \ {f} ELSE subs[e]]
    /\ allSubs' = allSubs \ {f}
    /\ log' = [log EXCEPT ![f] = NoLog]
    /\ chan' = [chan EXCEPT ![f] = <<>>]
    /\ line' = [line EXCEPT ![f] = NoLine]
    /\ sent' = [sent EXCEPT ![f] = <<>>]
    /\ joined' = [joined EXCEPT ![f] = [w \in Writers |-> 0]]
    /\ dropped' = dropped \ {f}
    /\ UNCHANGED <<vars, mapped, made, writers>>

(* Encode finds that the client has gone: Client.Stream in cmdLogs hangs   *)
(* up when the user interrupts it, and the handler sees that at a line.    *)
EncodeFails(f) == Unsubscribe(f, "encode")

(* The daemon's ctx may end at any moment: the handler leaves the first    *)
(* time its select prefers that to a line.                                 *)
CtxEnds(f) == Unsubscribe(f, "select")

-----------------------------------------------------------------------------

Appending(w) == AddLine(w) \/ FanApp(w) \/ FanAll(w)

Following(f) ==
    \/ Subscribe(f) \/ SubscribeAll(f) \/ TakeLine(f)
    \/ Encoded(f) \/ EncodeFails(f) \/ CtxEnds(f)

LogNext ==
    \/ \E w \in Writers : Attach(w) \/ Appending(w)
    \/ \E f \in Followers : Following(f)
    \/ Detach

(* A goroutine that appends is runnable until it is back; nothing is       *)
(* assumed of the handlers, their clients or the children.                 *)
LogSpec ==
    /\ LogInit
    /\ [][LogNext]_logVars
    /\ \A w \in Writers : WF_logVars(FanApp(w) \/ FanAll(w))

-----------------------------------------------------------------------------
(* Properties. *)

(* What a follower was, is being or will be sent.                          *)
Stream(f) ==
    sent[f] \o (IF line[f] = NoLine THEN <<>> ELSE <<line[f]>>) \o chan[f]

(* Each follower reads the lines of one writer in the order in which they  *)
(* were written and none twice, whatever was dropped for it, whoever else  *)
(* follows, and although ring, followers of the app and followers of all   *)
(* are served under three locks.                                           *)
StreamKeepsOrder ==
    \A f \in Followers : \A i, j \in DOMAIN Stream(f) :
        i < j /\ Stream(f)[i][1] = Stream(f)[j][1]
        => Stream(f)[i][2] < Stream(f)[j][2]

(* The lines a writer has finished to append.                              *)
Finished(w) ==
    IF append[w] \in {"added", "fanned"} THEN written[w] - 1 ELSE written[w]

Hears(f, w) == f \in AllFollowers \/ (w \in Scanners /\ log[f] = at[w])

(* A follower misses a line that was appended after it subscribed only if  *)
(* its own channel was full: not because another follower of the app came, *)
(* left or is slow, nor because the app was detached meanwhile.            *)
GapsOnlyWhenFull ==
    \A f \in Followers \ dropped : \A w \in Writers :
        handler[f] \in {"select", "encode"} /\ Hears(f, w) =>
            \A n \in joined[f][w] + 1..Finished(w) :
                \E i \in DOMAIN Stream(f) : Stream(f)[i] = <<w, n>>

(* No reader, however slow, holds up the app that writes: an append that   *)
(* has begun ends although no handler ever runs.                           *)
AppendNeverBlocks ==
    \A w \in Writers :
        (append[w] # "idle" /\ at[w] # NoLog) ~> (append[w] = "idle")
=============================================================================
