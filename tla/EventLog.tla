------------------------------- MODULE EventLog -------------------------------
(***************************************************************************)
(* The device-event log: event-log/writer.ts appends one line per Kafka    *)
(* event to the file of its charger and month, event-log/retention.ts      *)
(* deletes the files of old months.  Kafka's callback does not wait for an *)
(* append, so the appends overlap; each runs through the handle cache, the *)
(* opening of a file, the write and the mark that asks for an fsync.       *)
(***************************************************************************)
EXTENDS Naturals, Sequences, FiniteSets

CONSTANTS
    Event,      \* what Kafka delivers, each once
    File,       \* a charger and a month
    FileOf,     \* the file of each event, by its charger and its stamp
    Old,        \* files of months that retention no longer keeps
    Fd,         \* file descriptors, each used once
    NoFd

ASSUME EventLogAssumption ==
    /\ FileOf \in [Event -> File]
    /\ Old \subseteq File
    /\ NoFd \notin Fd

VARIABLES
    lines,      \* the lines of each file, in file order
    synced,     \* events whose line an fsync has made durable
    fds,        \* descriptors: unused, open, open on a deleted file, closed
    pointsTo,   \* the file that each descriptor was opened on
    handles,    \* the cache: the descriptor kept for each file
    dirty,      \* descriptors written since the last fsync
    syncing,    \* the fsyncs under way: descriptor, who asked, what they cover
    stage,      \* of the append of each event
    using,      \* the descriptor that it writes to
    phase,      \* of close()
    twice,      \* files that two appends opened (history)
    late        \* files opened after close() began (history)

cache == <<handles, dirty, syncing>>
disk  == <<lines, synced, fds, pointsTo>>
logVars  == <<disk, cache, stage, using, phase, twice, late>>

LogInit ==
    /\ lines = [f \in File |-> <<>>]
    /\ synced = {}
    /\ fds = [d \in Fd |-> "unused"]
    /\ pointsTo = [d \in Fd |-> NoFd]
    /\ handles = [f \in File |-> NoFd]
    /\ dirty = {} /\ syncing = {}
    /\ stage = [e \in Event |-> "new"]
    /\ using = [e \in Event |-> NoFd]
    /\ phase = "running"
    /\ twice = {} /\ late = {}

Cached == {handles[f] : f \in File} \ {NoFd}

InFile(e) == \E i \in DOMAIN lines[FileOf[e]] : lines[FileOf[e]][i] = e

-----------------------------------------------------------------------------
(* append.                                                                 *)

\* Kafka delivers the event; openFor looks at the cache.  After close() has
\* begun the event is ignored.
Receive(e) ==
    /\ stage[e] = "new"
    /\ IF phase # "running"
       THEN stage' = [stage EXCEPT ![e] = "ignored"] /\ UNCHANGED using
       ELSE IF handles[FileOf[e]] # NoFd
       THEN /\ stage' = [stage EXCEPT ![e] = "writing"]
            /\ using' = [using EXCEPT ![e] = handles[FileOf[e]]]
       ELSE stage' = [stage EXCEPT ![e] = "opening"] /\ UNCHANGED using
    /\ UNCHANGED <<disk, cache, phase, twice, late>>

\* Mutant: the opened handle is not put in the cache.
OpenedUncached(e) ==
    /\ stage[e] = "opening"
    /\ \E d \in Fd :
        /\ fds[d] = "unused"
        /\ fds' = [fds EXCEPT ![d] = "open"]
        /\ pointsTo' = [pointsTo EXCEPT ![d] = FileOf[e]]
        /\ using' = [using EXCEPT ![e] = d]
    /\ stage' = [stage EXCEPT ![e] = "writing"]
    /\ UNCHANGED <<lines, synced, cache, phase, twice, late>>

\* The file is open (created if missing) and the handle cached.
OpenDone(e) ==
    /\ stage[e] = "opening"
    /\ \E d \in Fd :
        /\ fds[d] = "unused"
        /\ fds' = [fds EXCEPT ![d] = "open"]
        /\ pointsTo' = [pointsTo EXCEPT ![d] = FileOf[e]]
        /\ using' = [using EXCEPT ![e] = d]
        /\ handles' = [handles EXCEPT ![FileOf[e]] = d]
    /\ stage' = [stage EXCEPT ![e] = "writing"]
    /\ twice' = IF handles[FileOf[e]] # NoFd THEN twice \cup {FileOf[e]} ELSE twice
    /\ late' = IF phase # "running" THEN late \cup {FileOf[e]} ELSE late
    /\ UNCHANGED <<lines, synced, dirty, syncing, phase>>

OpenFailed(e) ==
    /\ stage[e] = "opening"
    /\ stage' = [stage EXCEPT ![e] = "failed"]
    /\ UNCHANGED <<disk, cache, using, phase, twice, late>>

\* Mutant: a write whose callback is late is tried again.
WriteLineRetried(e) ==
    /\ stage[e] = "writing"
    /\ lines' = IF fds[using[e]] = "open"
                THEN [lines EXCEPT ![FileOf[e]] = Append(@, e)]
                ELSE lines
    /\ stage' \in {stage, [stage EXCEPT ![e] = "written"]}
    /\ Len(lines[FileOf[e]]) < 3
    /\ UNCHANGED <<synced, fds, pointsTo, cache, using, phase, twice, late>>

\* The line goes to the end of the file (O_APPEND), or to a file that has no
\* name any more.
WriteLine(e) ==
    /\ stage[e] = "writing" /\ fds[using[e]] # "closed"
    /\ lines' = IF fds[using[e]] = "open"
                THEN [lines EXCEPT ![FileOf[e]] = Append(@, e)]
                ELSE lines
    /\ stage' = [stage EXCEPT ![e] = "written"]
    /\ UNCHANGED <<synced, fds, pointsTo, cache, using, phase, twice, late>>

\* The disk refuses the write, or close() was faster: the event is logged as
\* lost.
WriteFailed(e) ==
    /\ stage[e] = "writing"
    /\ stage' = [stage EXCEPT ![e] = "failed"]
    /\ UNCHANGED <<disk, cache, using, phase, twice, late>>

\* The callback of the write.
MarkDirty(e) ==
    /\ stage[e] = "written"
    /\ dirty' = dirty \cup {using[e]}
    /\ stage' = [stage EXCEPT ![e] = "logged"]
    /\ UNCHANGED <<disk, handles, syncing, using, phase, twice, late>>

-----------------------------------------------------------------------------
(* flush, close, retention.                                                *)

\* flush: an fsync of every cached handle that is dirty.  What it makes durable
\* is what the file holds when it starts.
FlushesCached == dirty \cap Cached

Fsyncs(by) ==
    {[fd |-> d, by |-> by, covers |-> {e \in Event : FileOf[e] = pointsTo[d] /\ InFile(e)}] :
        d \in FlushesCached}

\* The timer.
Flush ==
    /\ phase = "running"
    /\ FlushesCached # {}
    /\ dirty' = dirty \ FlushesCached
    /\ syncing' = syncing \cup Fsyncs("timer")
    /\ UNCHANGED <<disk, handles, stage, using, phase, twice, late>>

\* Mutant: the mark is taken away when the fsync is done, not when it starts.
SyncedUnmarks(s) ==
    /\ s \in syncing
    /\ syncing' = syncing \ {s}
    /\ synced' = IF fds[s.fd] # "deleted" THEN synced \cup s.covers ELSE synced
    /\ dirty' = dirty \ {s.fd}
    /\ UNCHANGED <<lines, fds, pointsTo, handles, stage, using, phase, twice, late>>

\* A line that was unlinked with its file gains nothing.
Synced(s) ==
    /\ s \in syncing
    /\ syncing' = syncing \ {s}
    /\ synced' = IF fds[s.fd] # "deleted" THEN synced \cup s.covers ELSE synced
    /\ UNCHANGED <<lines, fds, pointsTo, handles, dirty, stage, using, phase, twice, late>>

\* Mutant: a failed fsync is logged and not tried again.
SyncFailedForgotten(s) ==
    /\ s \in syncing
    /\ syncing' = syncing \ {s}
    /\ UNCHANGED <<disk, handles, dirty, stage, using, phase, twice, late>>

\* The handle is marked again, for the next flush.
SyncFailed(s) ==
    /\ s \in syncing
    /\ syncing' = syncing \ {s}
    /\ dirty' = dirty \cup {s.fd}
    /\ UNCHANGED <<disk, handles, stage, using, phase, twice, late>>

\* close: no more timer, no more events, a last flush;
Close ==
    /\ phase = "running"
    /\ phase' = "flushing"
    /\ dirty' = dirty \ FlushesCached
    /\ syncing' = syncing \cup Fsyncs("close")
    /\ UNCHANGED <<disk, handles, stage, using, twice, late>>

\* it waits for the fsyncs it asked for itself,
LastFlushDone == \A s \in syncing : s.by # "close"

Visited(f) == \E d \in Fd : pointsTo[d] = f /\ fds[d] = "closed"

\* then closes the cached descriptors one by one, those cached meanwhile too,
CloseOne(f) ==
    /\ phase = "flushing" /\ LastFlushDone
    /\ handles[f] # NoFd /\ ~Visited(f)
    /\ fds' = [fds EXCEPT ![handles[f]] = "closed"]
    /\ UNCHANGED <<lines, synced, pointsTo, cache, stage, using, phase, twice, late>>

\* Mutant: the cache is emptied before the loop over it is done.
ClosedEarly ==
    /\ phase = "flushing" /\ LastFlushDone
    /\ phase' = "closed"
    /\ handles' = [f \in File |-> NoFd]
    /\ UNCHANGED <<disk, dirty, syncing, stage, using, twice, late>>

\* and empties the cache.
Closed ==
    /\ phase = "flushing" /\ LastFlushDone
    /\ \A f \in File : handles[f] # NoFd => Visited(f)
    /\ phase' = "closed"
    /\ handles' = [f \in File |-> NoFd]
    /\ UNCHANGED <<disk, dirty, syncing, stage, using, twice, late>>

\* pruneEventLog unlinks the files of old months, whoever has them open.
Prune(f) ==
    /\ f \in Old
    /\ phase = "running"
    /\ \E d \in Fd : fds[d] = "open" /\ pointsTo[d] = f
    /\ lines' = [lines EXCEPT ![f] = <<>>]
    /\ fds' = [d \in Fd |-> IF fds[d] = "open" /\ pointsTo[d] = f THEN "deleted" ELSE fds[d]]
    /\ UNCHANGED <<synced, pointsTo, cache, stage, using, phase, twice, late>>

LogNext ==
    \/ \E e \in Event :
        \/ Receive(e) \/ OpenDone(e) \/ OpenFailed(e)
        \/ WriteLine(e) \/ WriteFailed(e) \/ MarkDirty(e)
    \/ \E s \in syncing : Synced(s) \/ SyncFailed(s)
    \/ \E f \in File : CloseOne(f) \/ Prune(f)
    \/ Flush \/ Close \/ Closed

LogSpec == LogInit /\ [][LogNext]_logVars

\* The timer keeps firing, the callbacks of a write and of an fsync run, and the
\* fsync of a descriptor that is tried again and again succeeds some time.
Fairness ==
    /\ WF_logVars(Flush)
    /\ \A e \in Event : WF_logVars(MarkDirty(e))
    /\ \A d \in Fd :
        /\ WF_logVars(\E s \in syncing : s.fd = d /\ (Synced(s) \/ SyncFailed(s)))
        /\ SF_logVars(\E s \in syncing : s.fd = d /\ Synced(s))

FairLogSpec == LogSpec /\ Fairness

-----------------------------------------------------------------------------
(* Properties.                                                             *)

Fsync == [fd : Fd, by : {"timer", "close"}, covers : SUBSET Event]

\* The writer's variables keep their types; a file holds each of its events at
\* most once and no event of another file.
LogTypeOK ==
    /\ lines \in [File -> Seq(Event)]
    /\ \A f \in File :
        /\ \A i \in DOMAIN lines[f] : FileOf[lines[f][i]] = f
        /\ \A i, j \in DOMAIN lines[f] : lines[f][i] = lines[f][j] => i = j
    /\ synced \subseteq Event
    /\ fds \in [Fd -> {"unused", "open", "deleted", "closed"}]
    /\ pointsTo \in [Fd -> File \cup {NoFd}]
    /\ handles \in [File -> Fd \cup {NoFd}]
    /\ dirty \subseteq Fd
    /\ syncing \subseteq Fsync
    /\ stage \in [Event -> {"new", "opening", "writing", "written", "logged",
                            "ignored", "failed"}]
    /\ using \in [Event -> Fd \cup {NoFd}]
    /\ phase \in {"running", "flushing", "closed"}
    /\ twice \subseteq File /\ late \subseteq File

\* "Fsync on a coalesced timer" (writer.ts): a logged line that is still on disk
\* and not yet durable is one that the next flush covers, or an fsync under way:
\* no interleaving of the write's callback with a flush or with a failed fsync
\* loses the mark.  Of a file opened twice only one handle is ever flushed.
NoForgottenLine ==
    phase = "running" =>
        \A e \in Event :
            (/\ stage[e] = "logged" /\ InFile(e) /\ e \notin synced
             /\ FileOf[e] \notin twice)
            => \/ using[e] \in FlushesCached
               \/ \E s \in syncing : s.fd = using[e] /\ e \in s.covers

\* The descriptors in use never outnumber the files, but for files opened
\* twice: while the writer runs, each open descriptor is the cached one.
OpenIsCached ==
    phase = "running" =>
        \A d \in Fd :
            (fds[d] \in {"open", "deleted"} /\ pointsTo[d] \notin twice) => d \in Cached

\* "Flush + close everything": after close() no descriptor is open, but for
\* files whose opening was under way when it began or that were opened twice.
ClosedMeansClosed ==
    phase = "closed" =>
        \A d \in Fd :
            fds[d] \in {"open", "deleted"} => pointsTo[d] \in twice \cup late

\* The bound on the loss of a crash: while the writer runs, every line it wrote
\* becomes durable, however often an fsync fails first, unless retention
\* deletes the file or two appends opened it.
WrittenBecomesDurable ==
    \A e \in Event :
        stage[e] = "written" ~>
            (e \in synced \/ ~InFile(e) \/ phase # "running" \/ FileOf[e] \in twice)

\* What the comments of writer.ts say without exception: every logged line is
\* covered by a flush to come, or by one under way.
EveryLineFlushed ==
    phase = "running" =>
        \A e \in Event :
            (stage[e] = "logged" /\ InFile(e) /\ e \notin synced)
            => \/ using[e] \in FlushesCached
               \/ \E s \in syncing : e \in s.covers
=============================================================================
