------------------------- MODULE ServerFilesProofs --------------------------
(***************************************************************************)
(* The files that the server keeps itself.  For any number of events, files *)
(* and descriptors: no logged line is forgotten by the flushes, and no     *)
(* descriptor by the cache or by close(), unless two appends opened one    *)
(* file.  For any number of requests and restarts: as long as no two       *)
(* requests overlap, only rules that promtool accepted are in the rules    *)
(* file, the groups that the Console does not manage are never lost, and   *)
(* what was acknowledged is there.                                         *)
(***************************************************************************)
EXTENDS EventLog, ManagedRules, SharedProofs

-----------------------------------------------------------------------------
(* The event log.                                                          *)

\* A line is in its file only after its write.
InFileWritten == \A e \in Event : InFile(e) => stage[e] \in {"written", "logged"}

\* An append writes to a descriptor that was opened on the event's file.
UsingOpened ==
    \A e \in Event : stage[e] \in {"writing", "written", "logged"} =>
        using[e] \in Fd /\ fds[using[e]] # "unused" /\ pointsTo[using[e]] = FileOf[e]

\* The cache holds descriptors of the files that it holds them for.
CacheOpened ==
    \A f \in File : handles[f] # NoFd => fds[handles[f]] # "unused" /\ pointsTo[handles[f]] = f

\* A descriptor that was opened points to a file, which has no other descriptor
\* unless two appends opened it: it is the cached one until close() is done.
OneDescriptor ==
    /\ \A d \in Fd : fds[d] # "unused" => pointsTo[d] \in File
    /\ phase # "closed" =>
        \A d \in Fd :
            fds[d] # "unused" /\ pointsTo[d] \notin twice => handles[pointsTo[d]] = d

\* A file that was deleted under its only descriptor stays empty.
DeletedIsEmpty ==
    phase # "closed" =>
        \A d \in Fd :
            fds[d] = "deleted" /\ pointsTo[d] \notin twice => lines[pointsTo[d]] = <<>>

LogInv ==
    /\ LogTypeOK
    /\ InFileWritten /\ UsingOpened /\ CacheOpened /\ OneDescriptor /\ DeletedIsEmpty
    /\ NoForgottenLine /\ ClosedMeansClosed

-----------------------------------------------------------------------------
LEMMA AppendFacts ==
    ASSUME NEW S, NEW s \in Seq(S), NEW e \in S
    PROVE  /\ Append(s, e) \in Seq(S)
           /\ DOMAIN Append(s, e) = 1..(Len(s) + 1) /\ DOMAIN s = 1..Len(s)
           /\ Len(s) \in Nat
           /\ \A i \in 1..Len(s) : Append(s, e)[i] = s[i]
           /\ Append(s, e)[Len(s) + 1] = e
OBVIOUS

LEMMA LogInvHolds == LogInit => LogInv
<1> SUFFICES ASSUME LogInit PROVE LogInv OBVIOUS
<1> USE EventLogAssumption DEF LogInit
<1>1. LogTypeOK
  BY DEF LogTypeOK, Fsync
<1>2. InFileWritten /\ UsingOpened
  BY DEF InFileWritten, UsingOpened, InFile
<1>3. CacheOpened /\ OneDescriptor /\ DeletedIsEmpty
  BY DEF CacheOpened, OneDescriptor, DeletedIsEmpty
<1>4. NoForgottenLine /\ ClosedMeansClosed
  BY DEF NoForgottenLine, ClosedMeansClosed
<1> QED BY <1>1, <1>2, <1>3, <1>4 DEF LogInv

-----------------------------------------------------------------------------
\* What a write adds to its file: the line of its event, at the end.
LEMMA WritesLine ==
    ASSUME LogInv, NEW e \in Event, WriteLine(e)
    PROVE  /\ lines' \in [File -> Seq(Event)]
           /\ \A f \in File : \A i \in DOMAIN lines'[f] : FileOf[lines'[f][i]] = f
           /\ \A f \in File : \A i, j \in DOMAIN lines'[f] : lines'[f][i] = lines'[f][j] => i = j
           /\ \A c \in Event : c # e /\ InFile(c)' => InFile(c)
<1> DEFINE g == FileOf[e]
<1>1. g \in File BY EventLogAssumption
<1>2. CASE fds[using[e]] # "open"
  BY <1>2 DEF WriteLine, LogInv, LogTypeOK, InFile
<1>3. CASE fds[using[e]] = "open"
  <2> DEFINE s == lines[g]
             t == Append(s, e)
  <2>1. lines' = [lines EXCEPT ![g] = t]
    BY <1>3 DEF WriteLine
  <2>2. lines \in [File -> Seq(Event)] /\ s \in Seq(Event)
    BY <1>1 DEF LogInv, LogTypeOK
  <2>3. /\ t \in Seq(Event)
        /\ DOMAIN t = 1..(Len(s) + 1) /\ DOMAIN s = 1..Len(s) /\ Len(s) \in Nat
        /\ \A i \in 1..Len(s) : t[i] = s[i]
        /\ t[Len(s) + 1] = e
    BY <2>2, AppendFacts
  <2>4. lines' \in [File -> Seq(Event)] /\ lines'[g] = t
        /\ \A f \in File \ {g} : lines'[f] = lines[f]
    BY <1>1, <2>1, <2>2, <2>3
  <2>5. \A i \in DOMAIN s : s[i] # e
    BY DEF LogInv, InFileWritten, InFile, WriteLine
  <2>6. \A i \in DOMAIN t : FileOf[t[i]] = g
    BY <1>1, <2>3 DEF LogInv, LogTypeOK
  <2>7. \A i, j \in DOMAIN t : t[i] = t[j] => i = j
    <3> HIDE DEF t, s
    <3>1. \A i, j \in DOMAIN s : s[i] = s[j] => i = j
      BY <1>1 DEF LogInv, LogTypeOK, s
    <3> QED BY <2>3, <2>5, <3>1
  <2>8. ASSUME NEW c \in Event, c # e, InFile(c)' PROVE InFile(c)
    <3>1. FileOf[c] \in File BY EventLogAssumption
    <3>2. PICK i \in DOMAIN lines'[FileOf[c]] : lines'[FileOf[c]][i] = c
      BY <2>8, EventLogAssumption DEF InFile
    <3>3. CASE FileOf[c] = g
      <4>1. i \in 1..Len(s)
        BY <2>3, <2>4, <2>8, <3>2, <3>3
      <4>2. s[i] = c /\ i \in DOMAIN s
        BY <2>3, <2>4, <3>2, <3>3, <4>1
      <4> QED BY <3>3, <4>2 DEF InFile
    <3>4. CASE FileOf[c] # g
      BY <2>4, <3>1, <3>2, <3>4 DEF InFile
    <3> QED BY <3>3, <3>4
  <2> HIDE DEF t, s, g
  <2>9. ASSUME NEW f \in File
        PROVE  /\ \A i \in DOMAIN lines'[f] : FileOf[lines'[f][i]] = f
               /\ \A i, j \in DOMAIN lines'[f] : lines'[f][i] = lines'[f][j] => i = j
    <3>1. CASE f = g
      BY <2>4, <2>6, <2>7, <3>1
    <3>2. CASE f # g
      BY <2>4, <2>9, <3>2 DEF LogInv, LogTypeOK
    <3> QED BY <3>1, <3>2
  <2> QED BY <2>4, <2>8, <2>9
<1> QED BY <1>2, <1>3

LEMMA TypeStep == LogInv /\ [LogNext]_logVars => LogTypeOK'
<1> SUFFICES ASSUME LogInv, [LogNext]_logVars PROVE LogTypeOK' OBVIOUS
<1>0. LogTypeOK BY DEF LogInv
<1> USE EventLogAssumption DEF disk, cache
<1>1. ASSUME NEW e \in Event, Receive(e) PROVE LogTypeOK'
  BY <1>0, <1>1 DEF Receive, LogTypeOK
<1>2. ASSUME NEW e \in Event, OpenDone(e) PROVE LogTypeOK'
  BY <1>0, <1>2 DEF OpenDone, LogTypeOK
<1>3. ASSUME NEW e \in Event, OpenFailed(e) PROVE LogTypeOK'
  BY <1>0, <1>3 DEF OpenFailed, LogTypeOK
<1>4. ASSUME NEW e \in Event, WriteLine(e) PROVE LogTypeOK'
  <2>1. stage' \in [Event -> {"new", "opening", "writing", "written", "logged",
                              "ignored", "failed"}]
    BY <1>0, <1>4 DEF WriteLine, LogTypeOK
  <2> QED BY <1>0, <1>4, <2>1, WritesLine DEF WriteLine, LogTypeOK
<1>5. ASSUME NEW e \in Event, WriteFailed(e) PROVE LogTypeOK'
  BY <1>0, <1>5 DEF WriteFailed, LogTypeOK
<1>6. ASSUME NEW e \in Event, MarkDirty(e) PROVE LogTypeOK'
  <2>1. using[e] \in Fd
    BY <1>6 DEF MarkDirty, LogInv, UsingOpened
  <2> QED BY <1>0, <1>6, <2>1 DEF MarkDirty, LogTypeOK
<1>7. ASSUME NEW s \in syncing, Synced(s) PROVE LogTypeOK'
  BY <1>0, <1>7 DEF Synced, LogTypeOK, Fsync
<1>8. ASSUME NEW s \in syncing, SyncFailed(s) PROVE LogTypeOK'
  BY <1>0, <1>8 DEF SyncFailed, LogTypeOK, Fsync
<1>9. ASSUME NEW by \in {"timer", "close"} PROVE LogTypeOK => Fsyncs(by) \subseteq Fsync
  BY DEF Fsyncs, FlushesCached, Fsync, LogTypeOK
<1>10. CASE Flush
  BY <1>0, <1>9, <1>10 DEF Flush, FlushesCached, LogTypeOK
<1>11. CASE Close
  BY <1>0, <1>9, <1>11 DEF Close, FlushesCached, LogTypeOK
<1>12. CASE Closed
  BY <1>0, <1>12 DEF Closed, LogTypeOK
<1>13. ASSUME NEW f \in File, CloseOne(f) PROVE LogTypeOK'
  BY <1>0, <1>13 DEF CloseOne, LogTypeOK
<1>14. ASSUME NEW f \in File, Prune(f) PROVE LogTypeOK'
  <2>1. lines' \in [File -> Seq(Event)] /\ lines'[f] = <<>>
        /\ \A g \in File \ {f} : lines'[g] = lines[g]
    BY <1>0, <1>14 DEF Prune, LogTypeOK
  <2>2. \A g \in File :
            /\ \A i \in DOMAIN lines'[g] : FileOf[lines'[g][i]] = g
            /\ \A i, j \in DOMAIN lines'[g] : lines'[g][i] = lines'[g][j] => i = j
    <3>1. TAKE g \in File
    <3>2. CASE g = f
      BY <2>1, <3>2
    <3>3. CASE g # f
      BY <1>0, <2>1, <3>3 DEF LogTypeOK
    <3> QED BY <3>2, <3>3
  <2>3. fds' \in [Fd -> {"unused", "open", "deleted", "closed"}]
    BY <1>0, <1>14 DEF Prune, LogTypeOK
  <2> QED BY <1>0, <1>14, <2>1, <2>2, <2>3 DEF Prune, LogTypeOK
<1>15. CASE UNCHANGED logVars
  BY <1>0, <1>15 DEF logVars, LogTypeOK
<1> QED
  BY <1>1, <1>2, <1>3, <1>4, <1>5, <1>6, <1>7, <1>8, <1>10, <1>11, <1>12, <1>13, <1>14,
     <1>15 DEF LogNext

\* Which steps move an append, and which open or close a descriptor.
Moves(e)  == Receive(e) \/ OpenFailed(e) \/ WriteFailed(e) \/ MarkDirty(e)
Settle(s) == Synced(s) \/ SyncFailed(s)

LEMMA DescriptorStep ==
    LogInv /\ [LogNext]_logVars => (InFileWritten /\ UsingOpened /\ CacheOpened /\ OneDescriptor)'
<1> SUFFICES ASSUME LogInv, [LogNext]_logVars
             PROVE  (InFileWritten /\ UsingOpened /\ CacheOpened /\ OneDescriptor)'
  OBVIOUS
<1> USE EventLogAssumption DEF disk, cache
<1>0. LogTypeOK /\ InFileWritten /\ UsingOpened /\ CacheOpened /\ OneDescriptor
  BY DEF LogInv
<1>1. ASSUME NEW e \in Event, Moves(e)
      PROVE  (InFileWritten /\ UsingOpened /\ CacheOpened /\ OneDescriptor)'
  <2>1. InFileWritten'
    <3>1. \A c \in Event : InFile(c)' <=> InFile(c)
      BY <1>1 DEF Moves, Receive, OpenFailed, WriteFailed, MarkDirty, InFile
    <3>2. /\ stage[e] \in {"written", "logged"} => stage'[e] = "logged"
          /\ \A c \in Event \ {e} : stage'[c] = stage[c]
      BY <1>0, <1>1 DEF Moves, Receive, OpenFailed, WriteFailed, MarkDirty, LogTypeOK
    <3> QED BY <1>0, <3>1, <3>2 DEF InFileWritten
  <2>2. UsingOpened'
    BY <1>0, <1>1 DEF Moves, Receive, OpenFailed, WriteFailed, MarkDirty, LogTypeOK,
       UsingOpened, CacheOpened
  <2>3. CacheOpened' /\ OneDescriptor'
    BY <1>0, <1>1 DEF Moves, Receive, OpenFailed, WriteFailed, MarkDirty, CacheOpened,
       OneDescriptor
  <2> QED BY <2>1, <2>2, <2>3
<1>2. ASSUME NEW e \in Event, OpenDone(e)
      PROVE  (InFileWritten /\ UsingOpened /\ CacheOpened /\ OneDescriptor)'
  <2>1. PICK d \in Fd :
            /\ fds[d] = "unused"
            /\ fds' = [fds EXCEPT ![d] = "open"]
            /\ pointsTo' = [pointsTo EXCEPT ![d] = FileOf[e]]
            /\ using' = [using EXCEPT ![e] = d]
            /\ handles' = [handles EXCEPT ![FileOf[e]] = d]
    BY <1>2 DEF OpenDone
  <2>2. InFileWritten'
    <3>1. \A c \in Event : InFile(c)' <=> InFile(c)
      BY <1>2 DEF OpenDone, InFile
    <3>2. stage[e] = "opening" /\ \A c \in Event \ {e} : stage'[c] = stage[c]
      BY <1>0, <1>2 DEF OpenDone, LogTypeOK
    <3> QED BY <1>0, <3>1, <3>2 DEF InFileWritten
  <2>3. UsingOpened'
    BY <1>0, <1>2, <2>1 DEF OpenDone, LogTypeOK, UsingOpened
  <2>4. CacheOpened'
    BY <1>0, <2>1 DEF LogTypeOK, CacheOpened
  <2>5. \A c \in Fd : fds'[c] # "unused" => pointsTo'[c] \in File
    BY <1>0, <2>1 DEF LogTypeOK, OneDescriptor
  <2>6. ASSUME NEW c \in Fd, phase # "closed", fds'[c] # "unused", pointsTo'[c] \notin twice'
        PROVE  handles'[pointsTo'[c]] = c
    <3>1. CASE c = d
      BY <1>0, <2>1, <3>1 DEF LogTypeOK
    <3>2. CASE c # d
      <4>1. handles[pointsTo[c]] = c /\ pointsTo'[c] = pointsTo[c]
        BY <1>0, <1>2, <2>1, <2>6, <3>2 DEF OpenDone, LogTypeOK, OneDescriptor
      <4>2. pointsTo[c] # FileOf[e]
        BY <1>2, <2>6, <4>1 DEF OpenDone
      <4> QED BY <1>0, <2>1, <4>1, <4>2 DEF LogTypeOK
    <3> QED BY <3>1, <3>2
  <2>7. OneDescriptor'
    BY <1>2, <2>5, <2>6 DEF OpenDone, OneDescriptor
  <2> QED BY <2>2, <2>3, <2>4, <2>7
<1>3. ASSUME NEW e \in Event, WriteLine(e)
      PROVE  (InFileWritten /\ UsingOpened /\ CacheOpened /\ OneDescriptor)'
  <2>1. InFileWritten'
    BY <1>0, <1>3, WritesLine DEF WriteLine, LogTypeOK, InFileWritten
  <2>2. UsingOpened'
    BY <1>0, <1>3 DEF WriteLine, LogTypeOK, UsingOpened
  <2>3. CacheOpened' /\ OneDescriptor'
    BY <1>0, <1>3 DEF WriteLine, CacheOpened, OneDescriptor
  <2> QED BY <2>1, <2>2, <2>3
<1>4. ASSUME (\E s \in syncing : Settle(s)) \/ Flush \/ Close \/ UNCHANGED logVars
      PROVE  (InFileWritten /\ UsingOpened /\ CacheOpened /\ OneDescriptor)'
  BY <1>0, <1>4 DEF Settle, Synced, SyncFailed, Flush, Close, logVars, InFileWritten, InFile,
     UsingOpened, CacheOpened, OneDescriptor
<1>5. CASE Closed
  BY <1>0, <1>5 DEF Closed, InFileWritten, InFile, UsingOpened, CacheOpened, OneDescriptor
<1>6. ASSUME NEW f \in File, CloseOne(f)
      PROVE  (InFileWritten /\ UsingOpened /\ CacheOpened /\ OneDescriptor)'
  BY <1>0, <1>6 DEF CloseOne, LogTypeOK, InFileWritten, InFile, UsingOpened, CacheOpened,
     OneDescriptor
<1>7. ASSUME NEW f \in File, Prune(f)
      PROVE  (InFileWritten /\ UsingOpened /\ CacheOpened /\ OneDescriptor)'
  <2>1. \A d \in Fd : fds'[d] # "unused" <=> fds[d] # "unused"
    BY <1>0, <1>7 DEF Prune, LogTypeOK
  <2>2. \A e \in Event : InFile(e)' => InFile(e)
    BY <1>0, <1>7 DEF Prune, LogTypeOK, InFile
  <2> QED BY <1>0, <1>7, <2>1, <2>2 DEF Prune, LogTypeOK, InFileWritten, UsingOpened,
     CacheOpened, OneDescriptor
<1> QED
  BY <1>1, <1>2, <1>3, <1>4, <1>5, <1>6, <1>7 DEF LogNext, Moves, Settle

-----------------------------------------------------------------------------
LEMMA DeletedStep == LogInv /\ [LogNext]_logVars => DeletedIsEmpty'
<1> SUFFICES ASSUME LogInv, [LogNext]_logVars PROVE DeletedIsEmpty' OBVIOUS
<1> USE EventLogAssumption DEF disk, cache
<1>0. LogTypeOK /\ UsingOpened /\ OneDescriptor /\ DeletedIsEmpty
  BY DEF LogInv
<1>1. ASSUME \/ \E e \in Event : Moves(e)
             \/ \E s \in syncing : Settle(s)
             \/ Flush \/ Close \/ Closed \/ UNCHANGED logVars
      PROVE  DeletedIsEmpty'
  BY <1>0, <1>1 DEF Moves, Receive, OpenFailed, WriteFailed, MarkDirty, Settle, Synced,
     SyncFailed, Flush, Close, Closed, logVars, DeletedIsEmpty
<1>2. ASSUME NEW e \in Event, OpenDone(e) PROVE DeletedIsEmpty'
  BY <1>0, <1>2 DEF OpenDone, LogTypeOK, DeletedIsEmpty
<1>3. ASSUME NEW e \in Event, WriteLine(e) PROVE DeletedIsEmpty'
  <2> SUFFICES ASSUME phase # "closed", NEW d \in Fd, fds[d] = "deleted",
                      pointsTo[d] \notin twice
               PROVE  lines'[pointsTo[d]] = <<>>
    BY <1>3 DEF WriteLine, DeletedIsEmpty
  <2>1. lines[pointsTo[d]] = <<>>
    BY <1>0 DEF DeletedIsEmpty
  <2>2. CASE FileOf[e] = pointsTo[d]
    <3>1. using[e] = d
      BY <1>0, <1>3, <2>2 DEF WriteLine, UsingOpened, OneDescriptor
    <3> QED BY <1>3, <2>1, <3>1 DEF WriteLine
  <2>3. CASE FileOf[e] # pointsTo[d]
    BY <1>0, <1>3, <2>1, <2>3 DEF WriteLine, LogTypeOK
  <2> QED BY <2>2, <2>3
<1>4. ASSUME NEW f \in File, CloseOne(f) PROVE DeletedIsEmpty'
  BY <1>0, <1>4 DEF CloseOne, LogTypeOK, DeletedIsEmpty
<1>5. ASSUME NEW f \in File, Prune(f) PROVE DeletedIsEmpty'
  BY <1>0, <1>5 DEF Prune, LogTypeOK, DeletedIsEmpty
<1> QED
  BY <1>1, <1>2, <1>3, <1>4, <1>5 DEF LogNext, Moves, Settle

-----------------------------------------------------------------------------
\* A logged line whose file was opened once, on disk but not durable.
Owed(e) ==
    stage[e] = "logged" /\ InFile(e) /\ e \notin synced /\ FileOf[e] \notin twice

\* It is marked for the next flush, or an fsync that covers it is under way.
Kept(e) ==
    using[e] \in FlushesCached \/ \E s \in syncing : s.fd = using[e] /\ e \in s.covers

\* The append of such a line wrote to the one descriptor of its file, which is
\* cached and which nobody deleted.
LEMMA OwedFacts ==
    ASSUME LogInv, NEW e \in Event, Owed(e), phase # "closed"
    PROVE  /\ using[e] \in Fd /\ pointsTo[using[e]] = FileOf[e]
           /\ using[e] = handles[FileOf[e]] /\ using[e] \in Cached
           /\ fds[using[e]] # "deleted"
<1>1. FileOf[e] \in File
  BY EventLogAssumption
<1>2. using[e] \in Fd /\ pointsTo[using[e]] = FileOf[e] /\ fds[using[e]] # "unused"
  BY DEF LogInv, UsingOpened, Owed
<1>3. using[e] = handles[FileOf[e]]
  BY <1>2 DEF LogInv, OneDescriptor, Owed
<1>4. using[e] \in Cached
  BY <1>1, <1>2, <1>3, EventLogAssumption DEF Cached
<1>5. fds[using[e]] # "deleted"
  <2>1. DOMAIN lines[FileOf[e]] # {}
    BY DEF Owed, InFile
  <2> QED BY <1>2, <2>1 DEF LogInv, DeletedIsEmpty, Owed
<1> QED BY <1>2, <1>3, <1>4, <1>5

\* A flush begins an fsync for each mark that it takes.
LEMMA FlushCovers ==
    ASSUME LogInv, NEW e \in Event, Owed(e), phase # "closed", Kept(e),
           NEW by, dirty' = dirty \ FlushesCached, syncing' = syncing \cup Fsyncs(by)
    PROVE  \E s \in syncing' : s.fd = using[e] /\ e \in s.covers
<1>1. CASE using[e] \in FlushesCached
  <2> DEFINE s == [fd |-> using[e], by |-> by,
                   covers |-> {c \in Event : FileOf[c] = pointsTo[using[e]] /\ InFile(c)}]
  <2>1. s \in syncing'
    BY <1>1 DEF Fsyncs
  <2>2. e \in s.covers /\ s.fd = using[e]
    BY OwedFacts DEF Owed
  <2> QED BY <2>1, <2>2
<1>2. CASE \E s \in syncing : s.fd = using[e] /\ e \in s.covers
  BY <1>2
<1> QED BY <1>1, <1>2 DEF Kept

LEMMA ForgottenStep == LogInv /\ [LogNext]_logVars => NoForgottenLine'
<1> SUFFICES ASSUME LogInv, [LogNext]_logVars, phase' = "running",
                    NEW e \in Event, Owed(e)'
             PROVE  Kept(e)'
  BY DEF NoForgottenLine, Owed, Kept
<1> USE EventLogAssumption DEF disk, cache
<1>0. LogTypeOK /\ (phase = "running" /\ Owed(e) => Kept(e))
  BY DEF LogInv, NoForgottenLine, Owed, Kept
<1>1. ASSUME NEW c \in Event, Receive(c) \/ OpenFailed(c) \/ WriteFailed(c) PROVE Kept(e)'
  <2>1. Owed(e) /\ phase = "running"
    BY <1>0, <1>1 DEF Receive, OpenFailed, WriteFailed, LogTypeOK, Owed, InFile
  <2>2. using'[e] = using[e] /\ UNCHANGED <<dirty, handles, syncing>>
    BY <1>0, <1>1, <2>1 DEF Receive, OpenFailed, WriteFailed, LogTypeOK, Owed
  <2> QED BY <1>0, <2>1, <2>2 DEF Kept, FlushesCached, Cached
<1>2. ASSUME NEW c \in Event, MarkDirty(c) PROVE Kept(e)'
  <2>1. CASE c = e
    <3>1. using[e] \in dirty'
      BY <1>2, <2>1 DEF MarkDirty
    <3>2. using[e] = handles[FileOf[e]] /\ using[e] \in Fd
      BY <1>2, <2>1 DEF MarkDirty, LogInv, UsingOpened, OneDescriptor, Owed
    <3> QED BY <1>2, <3>1, <3>2 DEF MarkDirty, Kept, FlushesCached, Cached
  <2>2. CASE c # e
    <3>1. Owed(e) /\ phase = "running"
      BY <1>0, <1>2, <2>2 DEF MarkDirty, LogTypeOK, Owed, InFile
    <3> QED BY <1>0, <1>2, <3>1 DEF MarkDirty, Kept, FlushesCached, Cached
  <2> QED BY <2>1, <2>2
<1>3. ASSUME NEW c \in Event, OpenDone(c) PROVE Kept(e)'
  <2>1. Owed(e) /\ phase = "running"
    BY <1>0, <1>3 DEF OpenDone, LogTypeOK, Owed, InFile
  <2>2. e # c
    BY <1>3, <2>1 DEF OpenDone, Owed
  <2>3. handles[FileOf[e]] \in Fd /\ using[e] = handles[FileOf[e]] /\ FileOf[e] \in File
    BY <2>1, OwedFacts
  <2>4. FileOf[c] # FileOf[e]
    BY <1>3, <2>3 DEF OpenDone, Owed
  <2>5. handles'[FileOf[e]] = handles[FileOf[e]] /\ using'[e] = using[e]
    BY <1>0, <1>3, <2>2, <2>3, <2>4 DEF OpenDone, LogTypeOK
  <2>6. using[e] \in Cached'
    BY <2>3, <2>5 DEF Cached
  <2> QED BY <1>0, <1>3, <2>1, <2>5, <2>6 DEF OpenDone, Kept, FlushesCached
<1>4. ASSUME NEW c \in Event, WriteLine(c) PROVE Kept(e)'
  <2>1. c # e
    BY <1>0, <1>4 DEF WriteLine, LogTypeOK, Owed
  <2>2. Owed(e) /\ phase = "running"
    BY <1>0, <1>4, <2>1, WritesLine DEF WriteLine, LogTypeOK, Owed
  <2> QED BY <1>0, <1>4, <2>2 DEF WriteLine, Kept, FlushesCached, Cached
<1>5. ASSUME NEW s \in syncing, Synced(s) PROVE Kept(e)'
  <2>1. Owed(e) /\ phase = "running"
    BY <1>5 DEF Synced, Owed, InFile
  <2>2. using[e] = s.fd => e \notin s.covers
    BY <1>5, <2>1, OwedFacts DEF Synced, Owed
  <2> QED BY <1>0, <1>5, <2>1, <2>2 DEF Synced, Kept, FlushesCached, Cached
<1>6. ASSUME NEW s \in syncing, SyncFailed(s) PROVE Kept(e)'
  <2>1. Owed(e) /\ phase = "running"
    BY <1>6 DEF SyncFailed, Owed, InFile
  <2>2. using[e] \in Cached
    BY <2>1, OwedFacts
  <2> QED BY <1>0, <1>6, <2>1, <2>2 DEF SyncFailed, Kept, FlushesCached, Cached
<1>7. CASE Flush
  <2>1. Owed(e) /\ phase = "running"
    BY <1>7 DEF Flush, Owed, InFile
  <2>2. \E s \in syncing' : s.fd = using[e] /\ e \in s.covers
    BY <1>0, <1>7, <2>1, FlushCovers DEF Flush
  <2> QED BY <1>7, <2>2 DEF Flush, Kept
<1>8. ASSUME NEW f \in File, Prune(f) PROVE Kept(e)'
  <2>1. Owed(e) /\ phase = "running"
    BY <1>0, <1>8 DEF Prune, LogTypeOK, Owed, InFile
  <2> QED BY <1>0, <1>8, <2>1 DEF Prune, Kept, FlushesCached, Cached
<1>9. CASE UNCHANGED logVars
  BY <1>0, <1>9 DEF logVars, Owed, InFile, Kept, FlushesCached, Cached
<1>10. ~Close /\ ~Closed /\ \A f \in File : ~CloseOne(f)
  BY DEF Close, Closed, CloseOne
<1> QED
  BY <1>1, <1>2, <1>3, <1>4, <1>5, <1>6, <1>7, <1>8, <1>9, <1>10 DEF LogNext

-----------------------------------------------------------------------------
LEMMA ClosedStep == LogInv /\ [LogNext]_logVars => ClosedMeansClosed'
<1> SUFFICES ASSUME LogInv, [LogNext]_logVars, phase' = "closed",
                    NEW d \in Fd, fds'[d] \in {"open", "deleted"}
             PROVE  pointsTo'[d] \in twice' \cup late'
  BY DEF ClosedMeansClosed
<1> USE EventLogAssumption DEF disk, cache
<1>0. LogTypeOK /\ OneDescriptor /\ ClosedMeansClosed
  BY DEF LogInv
<1>1. CASE phase # "closed"
  <2>1. Closed
    BY <1>1 DEF LogNext, Receive, OpenDone, OpenFailed, WriteLine, WriteFailed, MarkDirty,
       Synced, SyncFailed, CloseOne, Prune, Flush, Close, logVars
  <2>2. SUFFICES ASSUME pointsTo[d] \notin twice PROVE FALSE
    BY <2>1 DEF Closed
  <2>3. handles[pointsTo[d]] = d /\ pointsTo[d] \in File
    BY <1>0, <1>1, <2>1, <2>2 DEF Closed, OneDescriptor
  <2>4. PICK c \in Fd : pointsTo[c] = pointsTo[d] /\ fds[c] = "closed"
    BY <2>1, <2>3 DEF Closed, Visited
  <2>5. handles[pointsTo[d]] = c
    BY <1>0, <1>1, <2>2, <2>4 DEF OneDescriptor
  <2> QED BY <2>1, <2>3, <2>4, <2>5 DEF Closed
<1>2. CASE phase = "closed"
  <2>1. ASSUME NEW e \in Event, OpenDone(e) PROVE pointsTo'[d] \in twice' \cup late'
    BY <1>0, <1>2, <2>1 DEF OpenDone, LogTypeOK, ClosedMeansClosed
  <2>2. CASE ~\E e \in Event : OpenDone(e)
    BY <1>0, <1>2, <2>2 DEF LogNext, Receive, OpenFailed, WriteLine, WriteFailed, MarkDirty,
       Synced, SyncFailed, CloseOne, Prune, Flush, Close, Closed, logVars, ClosedMeansClosed
  <2> QED BY <2>1, <2>2
<1> QED BY <1>1, <1>2

-----------------------------------------------------------------------------
THEOREM LogInvariance == LogSpec => []LogInv
<1>1. LogInv /\ [LogNext]_logVars => LogInv'
  BY TypeStep, DescriptorStep, DeletedStep, ForgottenStep, ClosedStep DEF LogInv
<1> QED BY <1>1, LogInvHolds, PTL DEF LogSpec

\* The variables of the writer keep their types, and a file never holds an event
\* twice or an event of another charger or month.
THEOREM LogTypeCorrect == LogSpec => []LogTypeOK
<1>1. LogInv => LogTypeOK
  BY DEF LogInv
<1> QED BY <1>1, LogInvariance, PTL

\* While the writer runs, a logged line that is not durable is always one that
\* the next flush or one under way covers, however the callbacks of writes, the
\* fsyncs, their failures, retention and the timer interleave.
THEOREM LinesNeverForgotten == LogSpec => []NoForgottenLine
<1>1. LogInv => NoForgottenLine
  BY DEF LogInv
<1> QED BY <1>1, LogInvariance, PTL

\* The handle cache accounts for every open descriptor of a file that was opened
\* once: while the writer runs none leaks,
THEOREM DescriptorsCached == LogSpec => []OpenIsCached
<1>1. LogInv => OpenIsCached
  <2> SUFFICES ASSUME LogInv, phase = "running", NEW d \in Fd,
                      fds[d] \in {"open", "deleted"}, pointsTo[d] \notin twice
               PROVE  d \in Cached
    BY DEF OpenIsCached
  <2>1. handles[pointsTo[d]] = d /\ pointsTo[d] \in File
    BY DEF LogInv, OneDescriptor
  <2> QED BY <2>1, EventLogAssumption DEF Cached
<1> QED BY <1>1, LogInvariance, PTL

\* and close() leaves none open that was opened before it began.
THEOREM CloseIsComplete == LogSpec => []ClosedMeansClosed
<1>1. LogInv => ClosedMeansClosed
  BY DEF LogInv
<1> QED BY <1>1, LogInvariance, PTL

-----------------------------------------------------------------------------
(* The alert rules.                                                        *)

\* The managed path and the temporary path never name the same inode.
PathsApart == fs.live # NoFile => fs.live # fs.tmp

\* The candidate is never renamed.
CandidateStays == check.live = NoFile

\* Nothing is under way while the Console is down.
DownIsQuiet == ~up => \A r \in Request : ~InFlight(r)

\* A writer holds a descriptor.
HoldsInode == \A r \in Request : pc[r] \in {"draft_write", "writing"} => fd[r] \in Inode

\* What holds whether requests race or not.
Always == TypeOK /\ PathsApart /\ CandidateStays /\ DownIsQuiet /\ HoldsInode

\* A request that is alone finds in the candidate, in the temporary file and in
\* its configuration what it put there, and the groups of the managed file.
Own(r) ==
    /\ pc[r] = "draft_write" => check.tmp = fd[r] /\ check.text[fd[r]] = EmptyText
    /\ pc[r] = "promtool" => /\ check.tmp \in Inode
                             /\ check.text[check.tmp] # EmptyText
                             /\ check.text[check.tmp].cfg = next[r]
    /\ promtool /\ pc[r] \in {"unlink", "again", "opening", "writing", "renaming"}
        => Valid(next[r])
    /\ pc[r] = "writing" => fs.tmp = fd[r] /\ fs.text[fd[r]] = EmptyText
    /\ pc[r] = "renaming" => fs.tmp \in Inode /\ fs.text[fs.tmp] = Whole(next[r])
    /\ pc[r] \in {"opening", "writing", "renaming"} /\ Complete
        => next[r].preserved = Stored.preserved

OneChanger == \A p, q \in Request : Changing(p) /\ Changing(q) => p = q

LiveWhole == fs.live # NoFile => fs.text[fs.live].state = "whole"

Alone == OneChanger /\ (\A r \in Request : Own(r)) /\ LiveWhole /\ OnlyCheckedRules

IInv == Always /\ (raced \/ Alone)

-----------------------------------------------------------------------------
(* Configurations.                                                         *)

LEMMA ConfigFacts ==
    ASSUME NEW c \in Config, NEW m \in SUBSET Rule
    PROVE  /\ [c EXCEPT !.managed = m] \in Config
           /\ [c EXCEPT !.managed = m].managed = m
           /\ [c EXCEPT !.managed = m].preserved = c.preserved
           /\ c.managed \in SUBSET Rule
BY DEF Config

LEMMA SeededFacts == Seeded \in Config /\ Valid(Seeded)
BY DEF Seeded, Config, Valid

LEMMA AppliedRules ==
    ASSUME NEW c \in Config, NEW o \in Op
    PROVE  Applied(o, c) \in SUBSET Rule
<1>1. Others(o, c) \in SUBSET Rule
  BY DEF Others, Config
<1>2. CASE o.kind = "delete"
  BY <1>1, <1>2 DEF Applied
<1>3. CASE o.kind # "delete"
  <2>1. o.rule \in Rule
    BY <1>3 DEF Op
  <2> QED BY <1>1, <1>3, <2>1 DEF Applied
<1> QED BY <1>2, <1>3

\* What rulesStore.read returns is a configuration; of a whole file, that one.
LEMMA Reads ==
    ASSUME Always, NEW c \in Parsed(fs, Seeded, NoConfig), c # NoConfig
    PROVE  /\ c \in Config
           /\ LiveWhole /\ fs.live # NoFile => c = Stored
<1>1. fs \in FileSystem(Config)
  BY DEF Always, TypeOK
<1>2. c \in Config
  BY <1>1, ParsedFacts, SeededFacts
<1>3. LiveWhole /\ fs.live # NoFile => c = Stored
  BY <1>1, ParsedWhole DEF LiveWhole, Stored
<1> QED BY <1>2, <1>3

LEMMA InitHolds == Init => IInv
<1> SUFFICES ASSUME Init PROVE IInv
  OBVIOUS
<1>1. NoFiles \in FileSystem(Config)
  BY DEF NoFiles, FileSystem, Text
<1>2. /\ fs \in FileSystem(Config) /\ fs.tmp = NoFile
      /\ LiveWhole /\ OnlyCheckedRules
  <2>1. CASE fs = NoFiles
    BY <1>1, <2>1 DEF NoFiles, LiveWhole, OnlyCheckedRules, Complete
  <2>2. CASE \E i \in Inode, c \in Deployed : fs = Holding(i, c)
    <3>1. PICK i \in Inode, c \in Deployed : fs = Holding(i, c)
      BY <2>2
    <3>2. c \in Config /\ Valid(c)
      BY RulesAssumption
    <3>3. Whole(c) \in Text(Config) /\ EmptyText \in Text(Config)
          /\ Whole(c).cfg = c /\ Whole(c).state = "whole"
      BY <3>2, MakeText
    <3>4. /\ fs \in FileSystem(Config)
          /\ fs.live = i /\ fs.tmp = NoFile /\ fs.text[i] = Whole(c)
      BY <3>1, <3>3 DEF Holding, FileSystem
    <3> QED BY <3>2, <3>3, <3>4 DEF LiveWhole, OnlyCheckedRules, Complete, Stored
  <2> QED BY <2>1, <2>2 DEF Init
<1>3. TypeOK
  <2>1. pc = [r \in Request |-> "idle"] /\ op = [r \in Request |-> NoOp]
    BY DEF Init
  <2>2. pc \in [Request -> Stage]
    BY <2>1 DEF Stage
  <2>3. op \in [Request -> Op \cup {NoOp}]
    BY <2>1, Zenon
  <2>4. fd \in [Request -> Inode \cup {NoFile}]
        /\ reply \in [Request -> {"none", "refused", "failed", "lost", "saved"}]
    BY DEF Init
  <2>5. next \in [Request -> Config] /\ running \in Config
    <3>1. next = [r \in Request |-> Seeded] /\ running = Seeded
      BY DEF Init
    <3>2. [r \in Request |-> Seeded] \in [Request -> Config]
      BY SeededFacts
    <3> QED BY <3>1, <3>2, SeededFacts
  <2>6. promtool \in BOOLEAN /\ up \in BOOLEAN /\ raced \in BOOLEAN
    BY Zenon DEF Init
  <2>7. crashes \in 0..MaxCrashes
    BY RulesAssumption DEF Init
  <2>8. check \in FileSystem(Config)
    BY <1>1 DEF Init
  <2> QED BY <1>2, <2>2, <2>3, <2>4, <2>5, <2>6, <2>7, <2>8 DEF TypeOK
<1>4. \A r \in Request : pc[r] = "idle"
  BY DEF Init
<1>5. PathsApart /\ CandidateStays /\ DownIsQuiet /\ HoldsInode
  BY <1>2, <1>4 DEF Init, PathsApart, CandidateStays, NoFiles, DownIsQuiet, InFlight, HoldsInode
<1>6. OneChanger /\ \A r \in Request : Own(r)
  BY <1>4 DEF OneChanger, Changing, InFlight, Own
<1> QED BY <1>2, <1>3, <1>5, <1>6 DEF IInv, Always, Alone

-----------------------------------------------------------------------------
(* What holds whether requests race or not.                                *)

LEMMA StartAlways == ASSUME Always, Start PROVE Always'
<1>1. fs' \in FileSystem(Config) /\ PathsApart'
  <2>1. CASE fs.live # NoFile
    BY <2>1 DEF Start, Always, TypeOK, PathsApart
  <2>2. CASE fs.live = NoFile
    <3>1. fs' \in Seedings(fs, Seeded)
      BY <2>2 DEF Start
    <3> QED BY <2>2, <3>1, Seeds, SeededFacts, RulesAssumption DEF Always, TypeOK, PathsApart
  <2> QED BY <2>1, <2>2
<1>2. UNCHANGED <<check, promtool, pc, op, next, fd, reply, running, crashes, raced>> /\ up' = TRUE
  BY DEF Start, request
<1>3. TypeOK'
  BY <1>1, <1>2 DEF Always, TypeOK
<1> QED BY <1>1, <1>2, <1>3 DEF Always, CandidateStays, DownIsQuiet, HoldsInode

LEMMA CrashAlways == ASSUME Always, Crash PROVE Always'
<1>1. PICK t \in {fs.tmp, NoFile}, u \in {check.tmp, NoFile} :
        fs' = [fs EXCEPT !.tmp = t] /\ check' = [check EXCEPT !.tmp = u]
  BY DEF Crash, Always, TypeOK, FileSystem
<1>2. /\ fs' \in FileSystem(Config) /\ check' \in FileSystem(Config)
      /\ fs'.live = fs.live /\ fs'.tmp = t /\ check'.live = check.live
  BY <1>1 DEF Always, TypeOK, FileSystem
<1>3. pc' \in [Request -> Stage] /\ \A r \in Request : ~InFlight(r)'
  BY DEF Crash, Always, TypeOK, Stage, InFlight
<1>4. reply' \in [Request -> {"none", "refused", "failed", "lost", "saved"}]
  BY DEF Crash, Always, TypeOK
<1>5. crashes' \in 0..MaxCrashes
  BY RulesAssumption DEF Crash, Always, TypeOK
<1>6. fd' \in [Request -> Inode \cup {NoFile}] /\ up' = FALSE
      /\ UNCHANGED <<op, next, promtool, running, raced>>
  BY DEF Crash
<1>7. TypeOK'
  BY <1>2, <1>3, <1>4, <1>5, <1>6 DEF Always, TypeOK
<1> QED BY <1>2, <1>3, <1>7 DEF Always, PathsApart, CandidateStays, DownIsQuiet, HoldsInode,
            InFlight

LEMMA ReadManagedAlways ==
    ASSUME Always, NEW r \in Request, NEW o \in Op, ReadManaged(r, o)
    PROVE  Always'
<1>1. /\ op' = [op EXCEPT ![r] = o]
      /\ UNCHANGED <<fs, check, promtool, fd, running, up, crashes>> /\ up
  BY DEF ReadManaged
<1>2. PICK c \in Parsed(fs, Seeded, NoConfig) :
        \/ /\ Done(r, "failed") \/ Done(r, "refused")
           /\ UNCHANGED <<next, raced>>
        \/ /\ c # NoConfig
           /\ next' = [next EXCEPT ![r] = [c EXCEPT !.managed = Applied(o, c)]]
           /\ pc' = [pc EXCEPT ![r] = "draft_open"]
           /\ raced' = (raced \/ \E q \in Request : Changing(q))
           /\ UNCHANGED reply
  BY DEF ReadManaged
<1>3. next' \in [Request -> Config]
  <2>1. CASE c = NoConfig
    BY <1>2, <2>1 DEF Always, TypeOK
  <2>2. CASE c # NoConfig
    <3>1. [c EXCEPT !.managed = Applied(o, c)] \in Config
      BY <2>2, Reads, AppliedRules, ConfigFacts
    <3> QED BY <1>2, <3>1 DEF Always, TypeOK
  <2> QED BY <2>1, <2>2
<1>4. pc' \in [Request -> Stage] /\ reply' \in [Request -> {"none", "refused", "failed", "lost", "saved"}]
  BY <1>2 DEF Always, TypeOK, Stage, Done
<1>5. raced' \in BOOLEAN
  BY <1>2, Zenon DEF Always, TypeOK
<1>6. op' \in [Request -> Op \cup {NoOp}]
  BY <1>1 DEF Always, TypeOK
<1>7. TypeOK'
  BY <1>1, <1>3, <1>4, <1>5, <1>6 DEF Always, TypeOK
<1>8. \A q \in Request : pc'[q] \in {"draft_write", "writing"} => pc'[q] = pc[q]
  BY <1>2 DEF Done, Always, TypeOK
<1> QED BY <1>1, <1>7, <1>8 DEF Always, PathsApart, CandidateStays, DownIsQuiet, HoldsInode

LEMMA CandidateAlways ==
    ASSUME Always, NEW r \in Request,
           \/ OpenCandidate(r) \/ WriteCandidate(r) \/ CandidateFailed(r)
           \/ Checked(r) \/ Unlink(r)
    PROVE  Always'
<1>1. check' \in FileSystem(Config) /\ CandidateStays'
  <2>1. CASE OpenCandidate(r)
    BY <2>1, OpeningTmp DEF OpenCandidate, Always, TypeOK, CandidateStays
  <2>2. CASE WriteCandidate(r)
    BY <2>2, Writes DEF WriteCandidate, Always, TypeOK, CandidateStays, HoldsInode
  <2>3. CASE CandidateFailed(r)
    <3>1. CASE pc[r] = "draft_write"
      BY <2>3, <3>1, WritesPartly DEF CandidateFailed, Always, TypeOK, CandidateStays, HoldsInode
    <3>2. CASE pc[r] # "draft_write"
      BY <2>3, <3>2 DEF CandidateFailed, Always, TypeOK, CandidateStays
    <3> QED BY <3>1, <3>2
  <2>4. CASE Checked(r)
    BY <2>4 DEF Checked, Always, TypeOK, CandidateStays
  <2>5. CASE Unlink(r)
    BY <2>5 DEF Unlink, Always, TypeOK, CandidateStays, FileSystem
  <2> QED BY <2>1, <2>2, <2>3, <2>4, <2>5
<1>2. UNCHANGED <<fs, promtool, op, next, running, up, crashes, raced>>
  BY DEF OpenCandidate, WriteCandidate, CandidateFailed, Checked, Unlink
<1>3. /\ pc' \in [Request -> Stage]
      /\ reply' \in [Request -> {"none", "refused", "failed", "lost", "saved"}]
      /\ \A q \in Request \ {r} : pc'[q] = pc[q] /\ fd'[q] = fd[q]
      /\ InFlight(r)
  BY DEF OpenCandidate, WriteCandidate, CandidateFailed, Checked, Unlink, Done, Always, TypeOK,
         Stage, InFlight
<1>4. /\ fd' \in [Request -> Inode \cup {NoFile}]
      /\ pc'[r] \in {"draft_write", "writing"} => fd'[r] \in Inode
  BY DEF OpenCandidate, WriteCandidate, CandidateFailed, Checked, Unlink, Done, Always, TypeOK
<1>5. TypeOK'
  BY <1>1, <1>2, <1>3, <1>4 DEF Always, TypeOK
<1>6. HoldsInode'
  BY <1>3, <1>4 DEF Always, HoldsInode
<1> QED BY <1>1, <1>2, <1>3, <1>5, <1>6 DEF Always, PathsApart, DownIsQuiet

LEMMA ReadPreservedAlways ==
    ASSUME Always, NEW r \in Request, ReadPreserved(r) \/ Reload(r)
    PROVE  Always'
<1>1. UNCHANGED <<fs, check, promtool, op, fd, up, crashes, raced>>
  BY DEF ReadPreserved, Reload
<1>2. /\ pc' \in [Request -> Stage]
      /\ reply' \in [Request -> {"none", "refused", "failed", "lost", "saved"}]
      /\ \A q \in Request \ {r} : pc'[q] = pc[q]
      /\ pc'[r] \in {"opening", "done"} /\ InFlight(r)
  BY DEF ReadPreserved, Reload, Done, Always, TypeOK, Stage, InFlight
<1>3. next' \in [Request -> Config]
  <2>1. CASE Reload(r)
    BY <2>1 DEF Reload, Always, TypeOK
  <2>2. CASE ReadPreserved(r)
    <3>1. PICK c \in Parsed(fs, Seeded, NoConfig) :
            IF c = NoConfig THEN next' = next
            ELSE next' = [next EXCEPT ![r] = [c EXCEPT !.managed = next[r].managed]]
      BY <2>2 DEF ReadPreserved
    <3>2. c # NoConfig => [c EXCEPT !.managed = next[r].managed] \in Config
      <4>1. next[r].managed \in SUBSET Rule
        BY ConfigFacts DEF Always, TypeOK, Config
      <4> QED BY <4>1, Reads, ConfigFacts
    <3> QED BY <3>1, <3>2 DEF Always, TypeOK
  <2> QED BY <2>1, <2>2
<1>4. running' \in Config
  <2>1. running' = running \/ (running' \in Parsed(fs, Seeded, NoConfig) /\ running' # NoConfig)
    BY DEF ReadPreserved, Reload
  <2> QED BY <2>1, Reads DEF Always, TypeOK
<1>5. TypeOK'
  BY <1>1, <1>2, <1>3, <1>4 DEF Always, TypeOK
<1> QED BY <1>1, <1>2, <1>5 DEF Always, PathsApart, CandidateStays, DownIsQuiet, HoldsInode

LEMMA WriterAlways ==
    ASSUME Always, NEW r \in Request,
           OpenTmp(r) \/ WriteTmp(r) \/ RenameTmp(r) \/ SaveFailed(r)
    PROVE  Always'
<1>1. fs' \in FileSystem(Config) /\ PathsApart'
  <2>1. CASE OpenTmp(r)
    <3>1. PICK i \in Inode :
            /\ OpensTmp(fs, {fd[q] : q \in {p \in Request : pc[p] = "writing"}}, i)
            /\ fs' = Opened(fs, i)
      BY <2>1 DEF OpenTmp
    <3>2. i # fs.live
      BY <3>1, OpensOther, RulesAssumption DEF Always, PathsApart
    <3> QED BY <3>1, <3>2, OpeningTmp DEF Always, TypeOK, PathsApart
  <2>2. CASE WriteTmp(r)
    BY <2>2, Writes DEF WriteTmp, Always, TypeOK, PathsApart, HoldsInode
  <2>3. CASE RenameTmp(r)
    BY <2>3, Renames DEF RenameTmp, Always, TypeOK, PathsApart
  <2>4. CASE SaveFailed(r)
    <3>1. CASE pc[r] = "writing"
      BY <2>4, <3>1, WritesPartly DEF SaveFailed, Always, TypeOK, PathsApart, HoldsInode
    <3>2. CASE pc[r] # "writing"
      BY <2>4, <3>2 DEF SaveFailed, Always, TypeOK, PathsApart
    <3> QED BY <3>1, <3>2
  <2> QED BY <2>1, <2>2, <2>3, <2>4
<1>2. UNCHANGED <<check, promtool, op, next, running, up, crashes, raced>>
  BY DEF OpenTmp, WriteTmp, RenameTmp, SaveFailed
<1>3. /\ pc' \in [Request -> Stage]
      /\ reply' \in [Request -> {"none", "refused", "failed", "lost", "saved"}]
      /\ \A q \in Request \ {r} : pc'[q] = pc[q] /\ fd'[q] = fd[q]
      /\ InFlight(r)
  BY DEF OpenTmp, WriteTmp, RenameTmp, SaveFailed, Done, Always, TypeOK, Stage, InFlight
<1>4. /\ fd' \in [Request -> Inode \cup {NoFile}]
      /\ pc'[r] \in {"draft_write", "writing"} => fd'[r] \in Inode
  BY DEF OpenTmp, WriteTmp, RenameTmp, SaveFailed, Done, Always, TypeOK
<1>5. TypeOK'
  BY <1>1, <1>2, <1>3, <1>4 DEF Always, TypeOK
<1>6. HoldsInode'
  BY <1>3, <1>4 DEF Always, HoldsInode
<1> QED BY <1>1, <1>2, <1>3, <1>5, <1>6 DEF Always, CandidateStays, DownIsQuiet

LEMMA AlwaysStep == Always /\ [Next]_vars => Always'
<1> SUFFICES ASSUME Always, [Next]_vars PROVE Always'
  OBVIOUS
<1>1. CASE UNCHANGED vars
  BY <1>1 DEF vars, request, Always, TypeOK, PathsApart, CandidateStays, DownIsQuiet, InFlight,
              HoldsInode
<1>2. ASSUME NEW r \in Request, NEW o \in Op, ReadManaged(r, o) PROVE Always'
  BY <1>2, ReadManagedAlways
<1>3. ASSUME NEW r \in Request,
             \/ OpenCandidate(r) \/ WriteCandidate(r) \/ CandidateFailed(r)
             \/ Checked(r) \/ Unlink(r) \/ ReadPreserved(r)
             \/ OpenTmp(r) \/ WriteTmp(r) \/ RenameTmp(r) \/ SaveFailed(r) \/ Reload(r)
      PROVE  Always'
  BY <1>3, CandidateAlways, ReadPreservedAlways, WriterAlways
<1> QED BY <1>1, <1>2, <1>3, StartAlways, CrashAlways DEF Next

-----------------------------------------------------------------------------
(* What holds as long as requests do not race.                             *)

\* A step of a request that is alone: it loses no group of the managed file.
Keeps == Complete => Complete' /\ Stored'.preserved = Stored.preserved

\* To show that a step of r keeps a request alone, look at r and at the file.
LEMMA AloneFrom ==
    ASSUME Alone, NEW r \in Request, Changing(r),
           \A q \in Request \ {r} : pc'[q] = pc[q],
           Own(r)', LiveWhole', OnlyCheckedRules'
    PROVE  Alone'
<1>1. \A q \in Request \ {r} : ~Changing(q)
  BY DEF Alone, OneChanger
<1>2. \A q \in Request \ {r} : ~Changing(q)'
  BY <1>1 DEF Changing, InFlight
<1>3. \A q \in Request \ {r} : Own(q)'
  BY <1>2 DEF Own, Changing, InFlight
<1>4. OneChanger'
  BY <1>2 DEF OneChanger
<1> QED BY <1>3, <1>4 DEF Alone

\* A step that leaves the managed file and its text alone.
LEMMA FileAlone ==
    ASSUME Alone, fs'.live = fs.live, fs.live # NoFile => fs'.text[fs.live] = fs.text[fs.live],
           promtool' = promtool
    PROVE  LiveWhole' /\ OnlyCheckedRules' /\ Keeps
           /\ (Complete' <=> Complete) /\ (Complete => Stored' = Stored)
<1>1. (Complete' <=> Complete) /\ (Complete => Stored' = Stored)
  BY DEF Complete, Stored
<1>2. LiveWhole'
  BY DEF Alone, LiveWhole
<1> QED BY <1>1, <1>2 DEF Alone, OnlyCheckedRules, Keeps

LEMMA ReadManagedAlone ==
    ASSUME Always, Alone, NEW r \in Request, NEW o \in Op, ReadManaged(r, o), ~raced'
    PROVE  Alone' /\ Keeps
<1>1. LiveWhole' /\ OnlyCheckedRules' /\ Keeps
  BY FileAlone DEF ReadManaged
<1>2. pc[r] = "idle" /\ \A q \in Request \ {r} : pc'[q] = pc[q] /\ next'[q] = next[q]
  BY DEF ReadManaged, Always, TypeOK, Done
<1>3. UNCHANGED <<fs, check, promtool, fd>>
  BY DEF ReadManaged
<1>4. \A q \in Request \ {r} : Own(q)'
  <2>1. Complete' = Complete /\ Stored' = Stored
    BY <1>3, Zenon DEF Complete, Stored
  <2> QED BY <1>2, <1>3, <2>1 DEF Alone, Own
<1>5. CASE pc'[r] = "done"
  BY <1>1, <1>2, <1>4, <1>5 DEF Alone, OneChanger, Own, Changing, InFlight
<1>6. CASE pc'[r] # "done"
  <2>1. pc'[r] = "draft_open" /\ \A q \in Request : ~Changing(q)
    BY <1>6 DEF ReadManaged, Always, TypeOK, Done
  <2> QED BY <1>1, <1>2, <1>4, <2>1 DEF Alone, OneChanger, Own, Changing, InFlight
<1> QED BY <1>1, <1>5, <1>6

LEMMA CandidateAlone ==
    ASSUME Always, Alone, NEW r \in Request,
           \/ OpenCandidate(r) \/ WriteCandidate(r) \/ CandidateFailed(r)
           \/ Checked(r) \/ Unlink(r)
    PROVE  Alone' /\ Keeps
<1>1. UNCHANGED <<fs, promtool, next>>
  BY DEF OpenCandidate, WriteCandidate, CandidateFailed, Checked, Unlink
<1>2. LiveWhole' /\ OnlyCheckedRules' /\ Keeps
  BY <1>1, FileAlone
<1>3. Changing(r) /\ \A q \in Request \ {r} : pc'[q] = pc[q]
  BY DEF OpenCandidate, WriteCandidate, CandidateFailed, Checked, Unlink, Done, Always, TypeOK,
         Changing, InFlight
<1>4. Own(r)
  BY DEF Alone
<1>5. Own(r)'
  <2>1. CASE OpenCandidate(r)
    <3>1. PICK i \in Inode : check' = Opened(check, i) /\ fd' = [fd EXCEPT ![r] = i]
      BY <2>1 DEF OpenCandidate
    <3>2. check'.tmp = i /\ check'.text[i] = EmptyText
      BY <3>1, OpeningTmp DEF Always, TypeOK
    <3>3. pc'[r] = "draft_write" /\ fd'[r] = i
      BY <2>1, <3>1 DEF OpenCandidate, Always, TypeOK
    <3> QED BY <3>2, <3>3 DEF Own
  <2>2. CASE WriteCandidate(r)
    <3>1. pc[r] = "draft_write" /\ check' \in Written(check, fd[r], next[r]) /\ fd[r] \in Inode
      BY <2>2 DEF WriteCandidate, Always, HoldsInode
    <3>2. check'.tmp = fd[r] /\ check'.text[fd[r]] # EmptyText /\ check'.text[fd[r]].cfg = next[r]
      BY <1>4, <3>1, Writes DEF Always, TypeOK, Own
    <3>3. pc'[r] = "promtool"
      BY <2>2 DEF WriteCandidate, Always, TypeOK
    <3> QED BY <1>1, <3>1, <3>2, <3>3 DEF Own
  <2>3. CASE CandidateFailed(r)
    <3>1. pc'[r] = "done"
      BY <2>3 DEF CandidateFailed, Done, Always, TypeOK
    <3> QED BY <3>1 DEF Own
  <2>4. CASE Checked(r)
    <3>1. pc[r] = "promtool"
      BY <2>4 DEF Checked
    <3>2. (pc'[r] = "unlink" /\ Passes) \/ pc'[r] = "reject"
      BY <2>4 DEF Checked, Always, TypeOK
    <3>3. Passes /\ promtool => Valid(next[r])
      BY <1>4, <3>1 DEF Passes, Own
    <3> QED BY <1>1, <3>2, <3>3 DEF Own
  <2>5. CASE Unlink(r)
    <3>1. pc'[r] = "done" \/ (pc[r] = "unlink" /\ pc'[r] = "again")
      BY <2>5 DEF Unlink, Done, Always, TypeOK
    <3> QED BY <1>1, <1>4, <3>1 DEF Own
  <2> QED BY <2>1, <2>2, <2>3, <2>4, <2>5
<1> QED BY <1>2, <1>3, <1>5, AloneFrom

LEMMA ReadPreservedAlone ==
    ASSUME Always, Alone, NEW r \in Request, ReadPreserved(r)
    PROVE  Alone' /\ Keeps
<1>1. UNCHANGED <<fs, promtool>> /\ pc[r] = "again"
  BY DEF ReadPreserved
<1>2. LiveWhole' /\ OnlyCheckedRules' /\ Keeps
  BY <1>1, FileAlone
<1>3. Changing(r) /\ \A q \in Request \ {r} : pc'[q] = pc[q]
  BY DEF ReadPreserved, Done, Always, TypeOK, Changing, InFlight
<1>4. PICK c \in Parsed(fs, Seeded, NoConfig) :
        IF c = NoConfig THEN pc' = [pc EXCEPT ![r] = "done"]
        ELSE /\ next' = [next EXCEPT ![r] = [c EXCEPT !.managed = next[r].managed]]
             /\ pc' = [pc EXCEPT ![r] = "opening"]
  BY DEF ReadPreserved, Done
<1>5. CASE c = NoConfig
  <2>1. pc'[r] = "done"
    BY <1>4, <1>5 DEF Always, TypeOK
  <2> QED BY <1>2, <1>3, <2>1, AloneFrom DEF Own
<1>6. CASE c # NoConfig
  <2>1. c \in Config /\ (fs.live # NoFile => c = Stored)
    BY <1>6, Reads DEF Alone
  <2>2. next[r].managed \in SUBSET Rule
    BY ConfigFacts DEF Always, TypeOK, Config
  <2> DEFINE n == [c EXCEPT !.managed = next[r].managed]
  <2>a. n \in Config /\ n.managed = next[r].managed /\ n.preserved = c.preserved
    BY <2>1, <2>2, ConfigFacts
  <2>b. next' = [next EXCEPT ![r] = n] /\ pc' = [pc EXCEPT ![r] = "opening"]
    BY <1>4, <1>6
  <2> HIDE DEF n
  <2>3. pc'[r] = "opening" /\ next'[r].managed = next[r].managed
        /\ next'[r].preserved = c.preserved
    BY <2>a, <2>b DEF Always, TypeOK
  <2>4. promtool => Valid(next'[r])
    BY <1>1, <2>3 DEF Alone, Own, Valid
  <2>5. Complete' => next'[r].preserved = Stored'.preserved
    BY <1>1, <2>1, <2>3 DEF Complete, Stored
  <2>6. Own(r)'
    BY <1>1, <2>3, <2>4, <2>5 DEF Own
  <2> QED BY <1>2, <1>3, <2>6, AloneFrom
<1> QED BY <1>5, <1>6

\* Nothing is under way when the Console starts, and seeding writes a file that
\* no rule is in only where there is none.
LEMMA StartAlone == ASSUME Always, Alone, Start PROVE Alone' /\ Keeps
<1>1. \A r \in Request : ~InFlight(r) /\ ~InFlight(r)'
  BY DEF Start, request, Always, DownIsQuiet, InFlight
<1>2. OneChanger' /\ \A r \in Request : Own(r)'
  BY <1>1 DEF OneChanger, Changing, Own, InFlight
<1>3. CASE fs.live # NoFile
  <2>1. UNCHANGED <<fs, promtool>>
    BY <1>3 DEF Start
  <2> QED BY <1>2, <2>1, FileAlone DEF Alone
<1>4. CASE fs.live = NoFile
  <2>1. fs' \in Seedings(fs, Seeded)
    BY <1>4 DEF Start
  <2>2. fs'.live # NoFile => fs'.text[fs'.live] = Whole(Seeded)
    BY <1>4, <2>1, Seeds, SeededFacts, RulesAssumption DEF Always, TypeOK
  <2>3. Whole(Seeded).state = "whole" /\ Whole(Seeded).cfg = Seeded
    BY MakeText, SeededFacts
  <2> QED BY <1>2, <1>4, <2>2, <2>3, SeededFacts
          DEF Alone, LiveWhole, OnlyCheckedRules, Complete, Stored, Keeps
<1> QED BY <1>3, <1>4

\* A crash takes no text away.
LEMMA CrashAlone == ASSUME Always, Alone, Crash PROVE Alone' /\ Keeps
<1>1. \A r \in Request : ~InFlight(r)'
  BY DEF Crash, Always, TypeOK, InFlight
<1>2. OneChanger' /\ \A r \in Request : Own(r)'
  BY <1>1 DEF OneChanger, Changing, Own, InFlight
<1>3. fs'.live = fs.live /\ fs'.text = fs.text /\ promtool' = promtool
  BY DEF Crash, Always, TypeOK, FileSystem
<1> QED BY <1>2, <1>3, FileAlone DEF Alone

LEMMA ReloadAlone ==
    ASSUME Always, Alone, NEW r \in Request, Reload(r)
    PROVE  Alone' /\ Keeps
<1>1. UNCHANGED <<fs, check, promtool, next, fd>> /\ pc' = [pc EXCEPT ![r] = "done"]
  BY DEF Reload, Done
<1>2. LiveWhole' /\ OnlyCheckedRules' /\ Keeps
  BY <1>1, FileAlone
<1>3. Complete' = Complete /\ Stored' = Stored
  BY <1>1, Zenon DEF Complete, Stored
<1>4. pc'[r] = "done" /\ \A q \in Request \ {r} : pc'[q] = pc[q]
  BY <1>1 DEF Always, TypeOK
<1>5. \A q \in Request \ {r} : Own(q)'
  BY <1>1, <1>3, <1>4 DEF Alone, Own
<1>6. Own(r)'
  BY <1>4 DEF Own
<1>7. OneChanger'
  BY <1>4 DEF Alone, OneChanger, Changing, InFlight
<1> QED BY <1>2, <1>5, <1>6, <1>7 DEF Alone

\* The managed file is not the one that a request alone is writing.
LEMMA LiveUntouched ==
    ASSUME Always, Alone, NEW r \in Request, OpenTmp(r) \/ WriteTmp(r) \/ SaveFailed(r)
    PROVE  fs'.live = fs.live /\ (fs.live # NoFile => fs'.text[fs.live] = fs.text[fs.live])
<1>1. CASE OpenTmp(r)
  <2>1. PICK i \in Inode :
          /\ OpensTmp(fs, {fd[q] : q \in {p \in Request : pc[p] = "writing"}}, i)
          /\ fs' = Opened(fs, i)
    BY <1>1 DEF OpenTmp
  <2>2. i # fs.live
    BY <2>1, OpensOther, RulesAssumption DEF Always, PathsApart
  <2>3. fs.live # NoFile => fs.live \in Inode \ {i}
    BY <2>2 DEF Always, TypeOK, FileSystem
  <2> QED BY <2>1, <2>3, OpeningTmp DEF Always, TypeOK
<1>2. CASE pc[r] = "writing" /\ fs' \in Written(fs, fd[r], next[r]) \cup PartlyWritten(fs, fd[r], next[r])
  <2>1. fs.tmp = fd[r] /\ fs.text[fd[r]] = EmptyText /\ fd[r] \in Inode
    BY <1>2 DEF Alone, Own, Always, HoldsInode
  <2>2. fs.live # NoFile => fs.live \in Inode \ {fd[r]}
    BY <2>1 DEF Always, TypeOK, FileSystem, PathsApart
  <2> QED BY <1>2, <2>1, <2>2, Writes, WritesPartly DEF Always, TypeOK
<1> QED BY <1>1, <1>2 DEF WriteTmp, SaveFailed

\* The temporary file is opened: it is not the managed one.
LEMMA OpenTmpAlone ==
    ASSUME Always, Alone, NEW r \in Request, OpenTmp(r)
    PROVE  Alone' /\ Keeps
<1>1. PICK i \in Inode :
        /\ OpensTmp(fs, {fd[q] : q \in {p \in Request : pc[p] = "writing"}}, i)
        /\ fs' = Opened(fs, i) /\ fd' = [fd EXCEPT ![r] = i]
  BY DEF OpenTmp
<1>2. i # fs.live
  BY <1>1, OpensOther, RulesAssumption DEF Always, PathsApart
<1>3. /\ fs'.live = fs.live /\ fs'.tmp = i /\ fs'.text[i] = EmptyText
      /\ fs.live # NoFile => fs'.text[fs.live] = fs.text[fs.live]
  <2>1. fs.live # NoFile => fs.live \in Inode \ {i}
    BY <1>2 DEF Always, TypeOK, FileSystem
  <2> QED BY <1>1, <2>1, OpeningTmp DEF Always, TypeOK
<1>4. /\ UNCHANGED <<promtool, next>> /\ pc[r] = "opening"
      /\ pc'[r] = "writing" /\ fd'[r] = i /\ \A q \in Request \ {r} : pc'[q] = pc[q]
  BY <1>1 DEF OpenTmp, Always, TypeOK
<1>5. /\ LiveWhole' /\ OnlyCheckedRules' /\ Keeps
      /\ (Complete' <=> Complete) /\ (Complete => Stored' = Stored)
  BY <1>3, <1>4, FileAlone
<1>6. Own(r)
  BY DEF Alone
<1>7. Own(r)'
  BY <1>3, <1>4, <1>5, <1>6 DEF Own
<1>8. Changing(r)
  BY <1>4 DEF Changing, InFlight
<1> QED BY <1>4, <1>5, <1>7, <1>8, AloneFrom

\* It is written: it was empty, and becomes the whole configuration.
LEMMA WriteTmpAlone ==
    ASSUME Always, Alone, NEW r \in Request, WriteTmp(r)
    PROVE  Alone' /\ Keeps
<1>1. /\ UNCHANGED <<promtool, next>> /\ pc[r] = "writing"
      /\ pc'[r] = "renaming" /\ \A q \in Request \ {r} : pc'[q] = pc[q]
  BY DEF WriteTmp, Always, TypeOK
<1>2. Own(r)
  BY DEF Alone
<1>3. fd[r] \in Inode /\ fs.tmp = fd[r] /\ fs.text[fd[r]] = EmptyText
  BY <1>1, <1>2 DEF Own, Always, HoldsInode
<1>4. /\ fs'.live = fs.live /\ fs'.tmp = fd[r] /\ fs'.text[fd[r]] = Whole(next[r])
      /\ \A j \in Inode \ {fd[r]} : fs'.text[j] = fs.text[j]
  <2>1. fs' \in Written(fs, fd[r], next[r])
    BY DEF WriteTmp
  <2> QED BY <1>3, <2>1, Writes DEF Always, TypeOK
<1>5. fs.live # NoFile => fs'.text[fs.live] = fs.text[fs.live]
  BY LiveUntouched
<1>6. /\ LiveWhole' /\ OnlyCheckedRules' /\ Keeps
      /\ (Complete' <=> Complete) /\ (Complete => Stored' = Stored)
  BY <1>1, <1>4, <1>5, FileAlone
<1>7. Own(r)'
  BY <1>1, <1>2, <1>3, <1>4, <1>6 DEF Own
<1>8. Changing(r)
  BY <1>1 DEF Changing, InFlight
<1> QED BY <1>1, <1>6, <1>7, <1>8, AloneFrom

\* It takes the managed file's place: its rules were checked, and its other
\* groups are those of the file it replaces.
LEMMA RenameTmpAlone ==
    ASSUME Always, Alone, NEW r \in Request, RenameTmp(r)
    PROVE  Alone' /\ Keeps
<1>1. /\ UNCHANGED <<promtool, next>> /\ pc[r] = "renaming"
      /\ pc'[r] \in {"done", "reloading"} /\ \A q \in Request \ {r} : pc'[q] = pc[q]
  BY DEF RenameTmp, Done, Always, TypeOK
<1>2. Own(r)
  BY DEF Alone
<1>3. fs.tmp \in Inode /\ fs.text[fs.tmp] = Whole(next[r]) /\ next[r] \in Config
  BY <1>1, <1>2 DEF Own, Always, TypeOK
<1>4. fs' = Renamed(fs)
  BY <1>3, RulesAssumption DEF RenameTmp
<1>5. fs'.live = fs.tmp /\ fs'.text[fs'.live] = Whole(next[r]) /\ fs'.live # NoFile
  BY <1>3, <1>4, Renames, RulesAssumption DEF Always, TypeOK
<1>6. LiveWhole' /\ Complete' /\ Stored' = next[r]
  <2>1. Whole(next[r]).state = "whole" /\ Whole(next[r]).cfg = next[r]
    BY <1>3, MakeText
  <2> QED BY <1>5, <2>1 DEF LiveWhole, Complete, Stored
<1>7. OnlyCheckedRules'
  BY <1>1, <1>2, <1>6 DEF OnlyCheckedRules, Own
<1>8. Keeps
  BY <1>1, <1>2, <1>6 DEF Keeps, Own
<1>9. Own(r)'
  BY <1>1 DEF Own
<1>10. Changing(r)
  BY <1>1 DEF Changing, InFlight
<1> QED BY <1>1, <1>6, <1>7, <1>8, <1>9, <1>10, AloneFrom

\* A refused write tears the temporary file at most.
LEMMA SaveFailedAlone ==
    ASSUME Always, Alone, NEW r \in Request, SaveFailed(r)
    PROVE  Alone' /\ Keeps
<1>1. /\ UNCHANGED <<promtool, next>> /\ pc[r] \in {"opening", "writing", "renaming"}
      /\ pc'[r] = "done" /\ \A q \in Request \ {r} : pc'[q] = pc[q]
  BY DEF SaveFailed, Done, Always, TypeOK
<1>2. fs'.live = fs.live /\ (fs.live # NoFile => fs'.text[fs.live] = fs.text[fs.live])
  BY LiveUntouched
<1>3. LiveWhole' /\ OnlyCheckedRules' /\ Keeps
  BY <1>1, <1>2, FileAlone
<1>4. Own(r)'
  BY <1>1 DEF Own
<1>5. Changing(r)
  BY <1>1 DEF Changing, InFlight
<1> QED BY <1>1, <1>3, <1>4, <1>5, AloneFrom

LEMMA AloneStep ==
    ASSUME Always, Alone, [Next]_vars, ~raced'
    PROVE  Alone' /\ Keeps
<1>1. CASE UNCHANGED vars
  <2>1. UNCHANGED <<fs, check, promtool, pc, next, fd>>
    BY <1>1 DEF vars, request
  <2>2. Complete' = Complete /\ Stored' = Stored
    BY <2>1, Zenon DEF Complete, Stored
  <2>3. \A r \in Request : Own(r)'
    BY <2>1, <2>2 DEF Alone, Own
  <2>4. OneChanger'
    BY <2>1 DEF Alone, OneChanger, Changing, InFlight
  <2> QED BY <2>1, <2>3, <2>4, FileAlone DEF Alone
<1>2. ASSUME NEW r \in Request, NEW o \in Op, ReadManaged(r, o) PROVE Alone' /\ Keeps
  BY <1>2, ReadManagedAlone
<1>3. ASSUME NEW r \in Request,
             \/ OpenCandidate(r) \/ WriteCandidate(r) \/ CandidateFailed(r)
             \/ Checked(r) \/ Unlink(r) \/ ReadPreserved(r)
      PROVE  Alone' /\ Keeps
  BY <1>3, CandidateAlone, ReadPreservedAlone
<1>4. ASSUME NEW r \in Request,
             OpenTmp(r) \/ WriteTmp(r) \/ RenameTmp(r) \/ SaveFailed(r) \/ Reload(r)
      PROVE  Alone' /\ Keeps
  BY <1>4, OpenTmpAlone, WriteTmpAlone, RenameTmpAlone, SaveFailedAlone, ReloadAlone
<1> QED BY <1>1, <1>2, <1>3, <1>4, StartAlone, CrashAlone DEF Next

\* Requests that have raced have raced.
LEMMA RacedStays == ASSUME [Next]_vars, raced PROVE raced'
BY Zenon DEF Next, vars, Start, Crash, ReadManaged, OpenCandidate, WriteCandidate,
   CandidateFailed, Checked, Unlink, ReadPreserved, OpenTmp, WriteTmp, RenameTmp, SaveFailed,
   Reload

LEMMA InvStep == IInv /\ [Next]_vars => IInv'
BY AlwaysStep, AloneStep, RacedStays DEF IInv

-----------------------------------------------------------------------------
(* Acknowledged changes.                                                   *)

\* The file has taken the change of r.
Reached(r) == pc[r] = "reloading" \/ reply[r] = "saved"

\* No other request names the same rule.
Unshared(r) == \A q \in Request \ {r} : op[q] = NoOp \/ op[q].name # op[r].name

\* The rules m are what o asked for.
Made(o, m) == IF o.kind = "delete" THEN \A x \in m : x.name # o.name ELSE o.rule \in m

\* A request is known from its arrival, and is answered at its end.
ServedRequest ==
    \A r \in Request :
        /\ pc[r] = "idle" => op[r] = NoOp /\ reply[r] = "none"
        /\ pc[r] # "idle" => op[r] \in Op
        /\ reply[r] = "saved" => pc[r] = "done"

OnDisk ==
    \A r \in Request : Reached(r) /\ Unshared(r) => Complete /\ Made(op[r], Stored.managed)

\* What the one changing request is about to write has its own change and those
\* that the file has.
Carried ==
    \A w \in Request : Changing(w) =>
        /\ Made(op[w], next[w].managed)
        /\ \A r \in Request \ {w} : Reached(r) /\ Unshared(r) => Made(op[r], next[w].managed)

AckInv == ServedRequest /\ (raced \/ (OnDisk /\ Carried))

\* What a route makes of the rules has its own change, and the changes of other
\* names that were there.
LEMMA AppliedMade ==
    ASSUME NEW c \in Config, NEW o \in Op
    PROVE  /\ Made(o, Applied(o, c))
           /\ \A p \in Op : p.name # o.name /\ Made(p, c.managed) => Made(p, Applied(o, c))
<1>1. \A p \in Op : p.kind # "delete" => p.rule.name = p.name
  BY DEF Op
<1>2. \A x \in Others(o, c) : x \in c.managed /\ x.name # o.name
  BY DEF Others
<1>3. \A x \in c.managed : x.name # o.name => x \in Others(o, c)
  BY DEF Others
<1>4. Made(o, Applied(o, c))
  BY <1>2 DEF Made, Applied
<1>5. ASSUME NEW p \in Op, p.name # o.name, Made(p, c.managed)
      PROVE  Made(p, Applied(o, c))
  <2>1. CASE p.kind = "delete"
    BY <1>1, <1>2, <1>5, <2>1 DEF Made, Applied
  <2>2. CASE p.kind # "delete"
    BY <1>1, <1>3, <1>5, <2>2 DEF Made, Applied
  <2> QED BY <2>1, <2>2
<1> QED BY <1>4, <1>5

\* A step that the file's rules, the changing requests and their rules survive.
LEMMA AckFrame ==
    ASSUME OnDisk, Carried, op' = op,
           \A q \in Request : Reached(q)' => Reached(q),
           \A q \in Request : Changing(q)' => Changing(q) /\ next'[q].managed = next[q].managed,
           Complete => Complete' /\ Stored'.managed = Stored.managed
    PROVE  OnDisk' /\ Carried'
<1>1. \A q \in Request : Unshared(q)' <=> Unshared(q)
  BY DEF Unshared
<1>2. OnDisk'
  BY <1>1 DEF OnDisk
<1>3. Carried'
  BY <1>1 DEF Carried
<1> QED BY <1>2, <1>3

\* The route reads the rules that the file has, and changes its own.
LEMMA ReadManagedAcks ==
    ASSUME Always, Alone, ServedRequest, OnDisk, Carried,
           NEW r \in Request, NEW o \in Op, ReadManaged(r, o), ~raced'
    PROVE  OnDisk' /\ Carried'
<1>1. /\ pc[r] = "idle" /\ op[r] = NoOp /\ reply[r] = "none"
      /\ op' = [op EXCEPT ![r] = o] /\ fs' = fs
  BY DEF ReadManaged, ServedRequest
<1>2. /\ op'[r] = o /\ \A q \in Request \ {r} : op'[q] = op[q]
  BY <1>1 DEF Always, TypeOK
<1>3. \A q \in Request \ {r} : Unshared(q)' => Unshared(q) /\ (op[q] # NoOp => o.name # op[q].name)
  BY <1>1, <1>2, RulesAssumption DEF Unshared
<1>4. Complete' = Complete /\ Stored' = Stored
  BY <1>1, Zenon DEF Complete, Stored
<1>5. PICK c \in Parsed(fs, Seeded, NoConfig) :
        \/ Done(r, "failed") /\ UNCHANGED next
        \/ Done(r, "refused") /\ UNCHANGED next
        \/ /\ c # NoConfig
           /\ next' = [next EXCEPT ![r] = [c EXCEPT !.managed = Applied(o, c)]]
           /\ pc' = [pc EXCEPT ![r] = "draft_open"]
           /\ raced' = (raced \/ \E q \in Request : Changing(q))
           /\ UNCHANGED reply
  BY DEF ReadManaged
<1>6. /\ \A q \in Request \ {r} : pc'[q] = pc[q] /\ reply'[q] = reply[q]
      /\ pc'[r] \in {"done", "draft_open"} /\ reply'[r] # "saved"
  BY <1>1, <1>5 DEF Done, Always, TypeOK
<1>7. ~Reached(r)' /\ \A q \in Request \ {r} : Reached(q)' <=> Reached(q)
  BY <1>6 DEF Reached
<1>8. OnDisk'
  BY <1>2, <1>3, <1>4, <1>7 DEF OnDisk
<1>9. CASE pc'[r] = "done"
  <2>1. next' = next
    BY <1>1, <1>5, <1>9 DEF Always, TypeOK
  <2>2. \A q \in Request : Changing(q)' => q # r /\ Changing(q)
    BY <1>6, <1>9 DEF Changing, InFlight
  <2> QED BY <1>2, <1>3, <1>7, <1>8, <2>1, <2>2 DEF Carried
<1>10. CASE pc'[r] = "draft_open"
  <2>1. /\ c # NoConfig
        /\ next' = [next EXCEPT ![r] = [c EXCEPT !.managed = Applied(o, c)]]
        /\ \A q \in Request : ~Changing(q)
    BY <1>1, <1>5, <1>10 DEF Done, Always, TypeOK
  <2>2. c \in Config /\ (fs.live # NoFile => c = Stored)
    BY <2>1, Reads DEF Alone
  <2> DEFINE n == [c EXCEPT !.managed = Applied(o, c)]
  <2>3. n.managed = Applied(o, c)
    BY <2>2, ConfigFacts, AppliedRules
  <2>4. next' = [next EXCEPT ![r] = n]
    BY <2>1
  <2> HIDE DEF n
  <2>5. next'[r].managed = Applied(o, c)
    BY <2>3, <2>4 DEF Always, TypeOK
  <2>6. \A q \in Request \ {r} : ~Changing(q)'
    BY <1>6, <2>1 DEF Changing, InFlight
  <2>7. ASSUME NEW q \in Request \ {r}, Reached(q)', Unshared(q)'
        PROVE  Made(op'[q], next'[r].managed)
    <3>1. Reached(q) /\ Unshared(q) /\ pc[q] # "idle"
      BY <1>3, <1>7, <2>7 DEF Reached, ServedRequest
    <3>2. op[q] \in Op /\ o.name # op[q].name
      BY <1>3, <2>7, <3>1, RulesAssumption DEF ServedRequest
    <3>3. Complete /\ Made(op[q], Stored.managed)
      BY <3>1 DEF OnDisk
    <3>4. Made(op[q], c.managed)
      BY <2>2, <3>3 DEF Complete
    <3> QED BY <1>2, <2>2, <2>5, <3>2, <3>4, AppliedMade
  <2>8. Made(op'[r], next'[r].managed)
    BY <1>2, <2>2, <2>5, AppliedMade
  <2> QED BY <1>8, <2>6, <2>7, <2>8 DEF Carried
<1> QED BY <1>6, <1>9, <1>10

\* The change of the writer takes effect, and those that it carries stay.
LEMMA RenameTmpAcks ==
    ASSUME Always, Alone, ServedRequest, OnDisk, Carried, NEW r \in Request, RenameTmp(r)
    PROVE  OnDisk' /\ Carried'
<1>1. /\ UNCHANGED <<promtool, op, next>> /\ pc[r] = "renaming" /\ Changing(r)
      /\ fs.tmp \in Inode /\ fs.text[fs.tmp] = Whole(next[r]) /\ next[r] \in Config
  BY DEF RenameTmp, Alone, Own, Always, TypeOK, Changing, InFlight
<1>2. /\ fs' = Renamed(fs) /\ pc' = [pc EXCEPT ![r] = "reloading"] /\ reply' = reply
  BY <1>1, RulesAssumption DEF RenameTmp
<1>3. fs'.live = fs.tmp /\ fs'.text[fs'.live] = Whole(next[r]) /\ fs'.live # NoFile
  BY <1>1, <1>2, Renames, RulesAssumption DEF Always, TypeOK
<1>4. Complete' /\ Stored' = next[r]
  <2>1. Whole(next[r]).state = "whole" /\ Whole(next[r]).cfg = next[r]
    BY <1>1, MakeText
  <2> QED BY <1>3, <2>1 DEF Complete, Stored
<1>5. pc'[r] = "reloading" /\ \A q \in Request \ {r} : pc'[q] = pc[q]
  BY <1>2 DEF Always, TypeOK
<1>6. \A q \in Request : Unshared(q)' <=> Unshared(q)
  BY <1>1 DEF Unshared
<1>7. \A q \in Request \ {r} : Reached(q)' <=> Reached(q)
  BY <1>2, <1>5 DEF Reached
<1>8. OnDisk'
  BY <1>1, <1>4, <1>6, <1>7 DEF OnDisk, Carried
<1>9. \A q \in Request : ~Changing(q)'
  <2>1. \A q \in Request \ {r} : ~Changing(q)
    BY <1>1 DEF Alone, OneChanger
  <2> QED BY <1>5, <2>1 DEF Changing, InFlight
<1> QED BY <1>8, <1>9 DEF Carried

\* The other steps change no rule that is stored or about to be.
LEMMA OtherAcks ==
    ASSUME Always, Alone, ServedRequest, OnDisk, Carried, NEW r \in Request,
           \/ OpenCandidate(r) \/ WriteCandidate(r) \/ CandidateFailed(r)
           \/ Checked(r) \/ Unlink(r) \/ ReadPreserved(r)
           \/ OpenTmp(r) \/ WriteTmp(r) \/ SaveFailed(r) \/ Reload(r)
    PROVE  OnDisk' /\ Carried'
<1>1. op' = op
  BY DEF OpenCandidate, WriteCandidate, CandidateFailed, Checked, Unlink, ReadPreserved, OpenTmp,
         WriteTmp, SaveFailed, Reload
<1>2. Complete => Complete' /\ Stored' = Stored
  <2>1. CASE OpenTmp(r) \/ WriteTmp(r) \/ SaveFailed(r)
    BY <2>1, LiveUntouched DEF Complete, Stored
  <2>2. CASE fs' = fs
    BY <2>2 DEF Complete, Stored
  <2> QED BY <2>1, <2>2 DEF OpenCandidate, WriteCandidate, CandidateFailed, Checked, Unlink,
                            ReadPreserved, Reload
<1>3. \A q \in Request \ {r} : pc'[q] = pc[q] /\ reply'[q] = reply[q] /\ next'[q] = next[q]
  BY DEF OpenCandidate, WriteCandidate, CandidateFailed, Checked, Unlink, ReadPreserved, OpenTmp,
         WriteTmp, SaveFailed, Reload, Done, Always, TypeOK
<1>4. /\ pc'[r] # "reloading" /\ (reply'[r] = "saved" => Reached(r))
      /\ Changing(r)' => Changing(r)
  BY DEF OpenCandidate, WriteCandidate, CandidateFailed, Checked, Unlink, ReadPreserved, OpenTmp,
         WriteTmp, SaveFailed, Reload, Done, Always, TypeOK, Reached, Changing, InFlight
<1>5. next'[r].managed = next[r].managed
  <2>1. CASE next' = next
    BY <2>1
  <2>2. CASE ReadPreserved(r)
    <3>1. PICK c \in Parsed(fs, Seeded, NoConfig) :
            \/ next' = next
            \/ c # NoConfig /\ next' = [next EXCEPT ![r] = [c EXCEPT !.managed = next[r].managed]]
      BY <2>2 DEF ReadPreserved
    <3>2. next[r].managed \in SUBSET Rule
      BY ConfigFacts DEF Always, TypeOK, Config
    <3> DEFINE n == [c EXCEPT !.managed = next[r].managed]
    <3>3. c # NoConfig => n.managed = next[r].managed
      BY <3>2, Reads, ConfigFacts
    <3>4. next' = next \/ (c # NoConfig /\ next' = [next EXCEPT ![r] = n])
      BY <3>1
    <3> HIDE DEF n
    <3> QED BY <3>3, <3>4 DEF Always, TypeOK
  <2> QED BY <2>1, <2>2 DEF OpenCandidate, WriteCandidate, CandidateFailed, Checked, Unlink,
                            OpenTmp, WriteTmp, SaveFailed, Reload
<1>6. \A q \in Request : Reached(q)' => Reached(q)
  BY <1>3, <1>4 DEF Reached
<1>7. \A q \in Request : Changing(q)' => Changing(q) /\ next'[q].managed = next[q].managed
  BY <1>3, <1>4, <1>5 DEF Changing, InFlight
<1> QED BY <1>1, <1>2, <1>6, <1>7, AckFrame

\* A step of requests that do not race keeps what was acknowledged.
LEMMA AckStep ==
    ASSUME Always, Alone, ServedRequest, OnDisk, Carried, [Next]_vars, ~raced'
    PROVE  OnDisk' /\ Carried'
<1>1. CASE UNCHANGED vars
  <2>1. UNCHANGED <<fs, pc, op, next, reply>>
    BY <1>1 DEF vars, request
  <2> QED BY <2>1, AckFrame DEF Complete, Stored, Reached, Changing, InFlight
<1>2. CASE Start
  <2>1. UNCHANGED <<pc, op, next, reply>> /\ (fs.live # NoFile => fs' = fs)
    BY <1>2 DEF Start, request
  <2>2. Complete => Complete' /\ Stored' = Stored
    BY <2>1 DEF Complete, Stored
  <2> QED BY <2>1, <2>2, AckFrame DEF Reached, Changing, InFlight
<1>3. CASE Crash
  <2>1. fs'.live = fs.live /\ fs'.text = fs.text /\ UNCHANGED <<op, next>>
    BY <1>3 DEF Crash, Always, TypeOK, FileSystem
  <2>2. Complete => Complete' /\ Stored' = Stored
    BY <2>1 DEF Complete, Stored
  <2>3. \A q \in Request : ~Changing(q)' /\ (Reached(q)' => Reached(q))
    BY <1>3 DEF Crash, Reached, Changing, InFlight, Always, TypeOK
  <2> QED BY <2>1, <2>2, <2>3, AckFrame
<1>4. ASSUME NEW r \in Request, NEW o \in Op, ReadManaged(r, o) PROVE OnDisk' /\ Carried'
  BY <1>4, ReadManagedAcks
<1>5. ASSUME NEW r \in Request,
             \/ OpenCandidate(r) \/ WriteCandidate(r) \/ CandidateFailed(r)
             \/ Checked(r) \/ Unlink(r) \/ ReadPreserved(r)
             \/ OpenTmp(r) \/ WriteTmp(r) \/ RenameTmp(r) \/ SaveFailed(r) \/ Reload(r)
      PROVE  OnDisk' /\ Carried'
  BY <1>5, RenameTmpAcks, OtherAcks
<1> QED BY <1>1, <1>2, <1>3, <1>4, <1>5 DEF Next

\* A request comes once, and is answered when it ends.
LEMMA ServedStep == ASSUME Always, ServedRequest, [Next]_vars PROVE ServedRequest'
<1>1. CASE UNCHANGED vars \/ Start
  BY <1>1 DEF vars, request, Start, ServedRequest
<1>2. CASE Crash
  BY <1>2 DEF Crash, ServedRequest, InFlight
<1>3. ASSUME NEW r \in Request, NEW o \in Op, ReadManaged(r, o) PROVE ServedRequest'
  <2>1. /\ op' = [op EXCEPT ![r] = o] /\ pc[r] = "idle"
        /\ \/ Done(r, "failed") \/ Done(r, "refused")
           \/ pc' = [pc EXCEPT ![r] = "draft_open"] /\ reply' = reply
    BY <1>3 DEF ReadManaged
  <2> QED BY <2>1 DEF Done, ServedRequest, Always, TypeOK
<1>4. ASSUME NEW r \in Request,
             \/ OpenCandidate(r) \/ WriteCandidate(r) \/ CandidateFailed(r)
             \/ Checked(r) \/ Unlink(r) \/ ReadPreserved(r)
             \/ OpenTmp(r) \/ WriteTmp(r) \/ RenameTmp(r) \/ SaveFailed(r) \/ Reload(r)
      PROVE  ServedRequest'
  <2>1. /\ op' = op /\ pc[r] \notin {"idle", "done"} /\ pc'[r] # "idle"
        /\ \A q \in Request \ {r} : pc'[q] = pc[q] /\ reply'[q] = reply[q]
        /\ reply'[r] = reply[r] \/ pc'[r] = "done"
    BY <1>4 DEF OpenCandidate, WriteCandidate, CandidateFailed, Checked, Unlink, ReadPreserved,
                OpenTmp, WriteTmp, RenameTmp, SaveFailed, Reload, Done, Always, TypeOK
  <2> QED BY <2>1 DEF ServedRequest
<1> QED BY <1>1, <1>2, <1>3, <1>4 DEF Next

-----------------------------------------------------------------------------
(* The theorems.                                                           *)

\* The inductive invariant holds in every state.
THEOREM Invariance == Spec => []IInv
BY InitHolds, InvStep, PTL DEF Spec

\* The rules component keeps its types through restarts and races.
THEOREM TypeCorrect == Spec => []TypeOK
<1>1. IInv => TypeOK
  BY DEF IInv, Always
<1> QED BY <1>1, Invariance, PTL

\* With promtool installed, no rule that it refuses is in the managed file
\* (sys-alerts.ts validates a candidate before it commits), for any number of
\* requests as long as they do not overlap.
THEOREM RulesChecked == Spec => []CheckedUnlessRaced
<1>1. IInv => CheckedUnlessRaced
  BY DEF IInv, Alone, CheckedUnlessRaced
<1> QED BY <1>1, Invariance, PTL

\* The groups that a deployment brought stay in the file through every write,
\* failed write and restart (rules-store.ts updateManaged), under the same proviso.
THEOREM GroupsAlwaysPreserved == Spec => GroupsPreserved
<1>1. IInv /\ [Next]_vars => [~raced' /\ Complete => Complete' /\ Stored'.preserved = Stored.preserved]_vars
  BY AloneStep, RacedStays DEF IInv, Keeps
<1> QED BY <1>1, Invariance, PTL DEF Spec, GroupsPreserved

LEMMA AckHolds == Spec => []AckInv
<1>1. Init => AckInv
  BY DEF Init, AckInv, ServedRequest, OnDisk, Carried, Reached, Changing, InFlight
<1>2. IInv /\ AckInv /\ [Next]_vars => AckInv'
  BY AckStep, ServedStep, RacedStays DEF IInv, AckInv
<1> QED BY <1>1, <1>2, Invariance, PTL DEF Spec

\* A change of a rule that was acknowledged is in the rules file for ever, unless
\* requests raced or another one named the same rule.
THEOREM AckedRulesStay == Spec => []AckedUnlessRaced
<1>1. AckInv => AckedUnlessRaced
  <2> SUFFICES ASSUME AckInv, ~raced, NEW r \in Request, reply[r] = "saved",
                      \A q \in Request \ {r} : op[q] = NoOp \/ op[q].name # op[r].name
               PROVE  /\ Complete
                      /\ IF op[r].kind = "delete" THEN op[r].name \notin NamesOf(Stored)
                                                  ELSE op[r].rule \in Stored.managed
    BY DEF AckedUnlessRaced, AckedOnDisk
  <2>1. Complete /\ Made(op[r], Stored.managed)
    BY DEF AckInv, OnDisk, Reached, Unshared
  <2> QED BY <2>1 DEF Made, NamesOf
<1> QED BY <1>1, AckHolds, PTL

-----------------------------------------------------------------------------
(* The store is atomic.                                                    *)

\* The stages after the second read.
Final == {"opening", "writing", "renaming"}

\* What the request w is about to write is what its route makes of what is stored
\* now, in its rules from the first read on and in its groups from the second.
Fresh(w) ==
    /\ op[w] \in Op /\ ~Refused(op[w], Value)
    /\ next[w].managed = Applied(op[w], Value)
    /\ pc[w] \in Final => next[w].preserved = Value.preserved

FreshOutcome == raced \/ \A w \in Request : Changing(w) => Fresh(w)

AtomicInv == IInv /\ AckInv /\ FreshOutcome

\* What a phase says of the stage and the answer.
PhaseSays(p, at, answer) ==
    /\ p = "new" <=> at = "idle"
    /\ p = "begun" <=> at \notin {"idle", "reloading", "done"}
    /\ p = "effective" <=> at = "reloading"
    /\ p = "acknowledged" <=> at = "done" /\ answer = "saved"
    /\ p = "over" <=> at = "done" /\ answer # "saved"

LEMMA PhaseOf ==
    ASSUME TypeOK, TypeOK', NEW r \in Request
    PROVE  /\ PhaseSays(Phases[r], pc[r], reply[r])
           /\ PhaseSays(Phases'[r], pc'[r], reply'[r])
           /\ {Phases[r], Phases'[r]} \subseteq {"new", "begun", "effective", "acknowledged", "over"}
<1>1. pc[r] \in Stage /\ pc'[r] \in Stage
  BY DEF TypeOK
<1>2. PhaseSays(Phases[r], pc[r], reply[r])
      /\ Phases[r] \in {"new", "begun", "effective", "acknowledged", "over"}
  BY <1>1 DEF Phases, Phase, Changing, InFlight, PhaseSays, Stage
<1>3. PhaseSays(Phases'[r], pc'[r], reply'[r])
      /\ Phases'[r] \in {"new", "begun", "effective", "acknowledged", "over"}
  BY <1>1 DEF Phases, Phase, Changing, InFlight, PhaseSays, Stage
<1> QED BY <1>2, <1>3

\* When the stages and answers of all requests but some are kept, so are the phases.
LEMMA PhaseMoves ==
    ASSUME NEW S \in SUBSET Request, NEW p,
           \A r \in Request \ S : pc'[r] = pc[r] /\ reply'[r] = reply[r],
           \A r \in S : Phases'[r] = p
    PROVE  Phases' = [r \in Request |-> IF r \in S THEN p ELSE Phases[r]]
<1>1. ASSUME NEW r \in Request \ S PROVE Phases'[r] = Phases[r]
  <2>1. pc'[r] = pc[r] /\ reply'[r] = reply[r]
    OBVIOUS
  <2>2. Phase(r)' = Phase(r)
    BY <2>1 DEF Phase, Changing, InFlight
  <2>3. Phases[r] = Phase(r) /\ Phases'[r] = Phase(r)'
    BY DEF Phases
  <2> QED BY <2>2, <2>3
<1>2. Phases' = [r \in Request |-> Phases'[r]]
  BY DEF Phases
<1> QED BY <1>1, <1>2

LEMMA PhaseMovesOn ==
    ASSUME NEW r \in Request, NEW p,
           \A q \in Request \ {r} : pc'[q] = pc[q] /\ reply'[q] = reply[q],
           Phases'[r] = p
    PROVE  Phases' = [Phases EXCEPT ![r] = p]
<1>1. Phases' = [q \in Request |-> IF q \in {r} THEN p ELSE Phases[q]]
  <2>1. {r} \in SUBSET Request /\ \A q \in {r} : Phases'[q] = p
    OBVIOUS
  <2> QED BY <2>1, PhaseMoves, Zenon
<1> QED BY <1>1 DEF Phases

\* What is stored when no requests overlapped.
LEMMA ValueRead ==
    ASSUME IInv, ~raced
    PROVE  /\ Value \in Config
           /\ \A c \in Parsed(fs, Seeded, NoConfig) : c = Value
<1>1. fs \in FileSystem(Config)
  BY DEF IInv, Always, TypeOK
<1>2. CASE fs.live = NoFile
  BY <1>1, <1>2, SeededFacts DEF Value, Parsed
<1>3. CASE fs.live # NoFile
  <2>1. fs.text[fs.live].state = "whole" /\ fs.text[fs.live] \in Text(Config)
    BY <1>1, <1>3 DEF IInv, Alone, LiveWhole, FileSystem
  <2>2. fs.text[fs.live] # EmptyText /\ fs.text[fs.live].cfg \in Config
    BY <2>1, TextFacts
  <2>3. Value = fs.text[fs.live].cfg
    BY <1>3, <2>1, <2>2 DEF Value, Complete, Stored
  <2>4. \A c \in Parsed(fs, Seeded, NoConfig) : c = fs.text[fs.live].cfg
    BY <1>1, <1>3, <2>1, ParsedWhole
  <2> QED BY <2>2, <2>3, <2>4
<1> QED BY <1>2, <1>3

\* It stays when the managed file does.
LEMMA ValueStays ==
    ASSUME fs'.live = fs.live, fs.live # NoFile => fs'.text[fs.live] = fs.text[fs.live]
    PROVE  Value' = Value
BY DEF Value, Complete, Stored

\* The initial file holds a configuration.
LEMMA StoreInit == Init => FreshOutcome /\ Store!Init
<1> SUFFICES ASSUME Init PROVE FreshOutcome /\ Store!Init
  OBVIOUS
<1>1. Value \in Config
  BY InitHolds, ValueRead DEF Init
<1>2. Phases = [r \in Request |-> "new"]
  <2>1. \A r \in Request : Phase(r) = "new"
    BY DEF Init, Phase, Changing, InFlight
  <2> QED BY <2>1 DEF Phases
<1>3. FreshOutcome
  BY DEF Init, FreshOutcome, Changing, InFlight
<1> QED BY <1>1, <1>2, <1>3 DEF Init, Store!Init

\* A step that is none for the store.
LEMMA StoreIdles ==
    ASSUME TypeOK, TypeOK', UNCHANGED <<op, raced>>, Value' = Value, FreshOutcome,
           \A r \in Request : reply'[r] = reply[r] /\ (pc'[r] = pc[r] \/ (Changing(r) /\ Changing(r)')),
           \A r \in Request : Changing(r)' =>
               /\ next'[r].managed = next[r].managed
               /\ pc'[r] \in Final => \/ pc[r] \in Final /\ next'[r] = next[r]
                                      \/ next'[r].preserved = Value.preserved
    PROVE  FreshOutcome' /\ UNCHANGED Store!storeVars
<1>1. \A r \in Request : Phases'[r] = Phases[r]
  BY PhaseOf DEF PhaseSays, Changing, InFlight
<1>2. Phases' = Phases
  BY <1>1 DEF Phases
<1>3. ASSUME ~raced, NEW r \in Request, Changing(r)' PROVE Fresh(r)'
  <2>1. Changing(r) /\ op'[r] = op[r] /\ Value' = Value
    BY <1>3 DEF Changing, InFlight
  <2>2. Fresh(r)
    BY <1>3, <2>1 DEF FreshOutcome
  <2> QED BY <1>3, <2>1, <2>2 DEF Fresh
<1>4. FreshOutcome'
  BY <1>3 DEF FreshOutcome
<1> QED BY <1>2, <1>4 DEF Store!storeVars

\* Two requests at work.
LEMMA StoreRaces ==
    ASSUME IInv, IInv', [Next]_vars, raced'
    PROVE  FreshOutcome' /\ Store!Next
<1>1. FreshOutcome'
  BY DEF FreshOutcome
<1>2. CASE raced
  <2>1. Store!Overlap
    BY <1>2, Zenon DEF Store!Overlap
  <2> QED BY <1>1, <2>1, Zenon DEF Store!Next
<1>3. CASE ~raced
  <2>1. PICK r \in Request, o \in Op : ReadManaged(r, o)
    BY <1>3, Zenon DEF Next, vars, Start, Crash, OpenCandidate, WriteCandidate,
       CandidateFailed, Checked, Unlink, ReadPreserved, OpenTmp, WriteTmp, RenameTmp, SaveFailed,
       Reload
  <2>2. /\ pc[r] = "idle" /\ pc' = [pc EXCEPT ![r] = "draft_open"]
        /\ \E q \in Request : Changing(q)
    BY <1>3, <2>1, Zenon DEF ReadManaged
  <2>3. PICK q \in Request : Changing(q)
    BY <2>2
  <2>4. q # r /\ pc'[q] = pc[q] /\ pc'[r] = "draft_open"
    BY <2>2, <2>3 DEF Changing, InFlight, IInv, Always, TypeOK
  <2>5. Phases'[q] = "begun" /\ Phases'[r] = "begun"
    BY <2>3, <2>4, PhaseOf DEF IInv, Always, PhaseSays, Changing, InFlight
  <2> QED BY <1>1, <2>4, <2>5 DEF Store!Next, Store!Overlap
<1> QED BY <1>2, <1>3

\* The steps of a process that starts or dies.
LEMMA StoreStarts ==
    ASSUME AtomicInv, IInv', ~raced, ~raced', Start
    PROVE  FreshOutcome' /\ UNCHANGED Store!storeVars
<1>1. UNCHANGED <<pc, op, next, reply, raced>>
  BY DEF Start, request
<1>2. Value' = Value
  <2>1. CASE fs.live # NoFile
    BY <2>1, ValueStays DEF Start
  <2>2. CASE fs.live = NoFile
    <3>1. fs' \in Seedings(fs, Seeded) /\ fs \in FileSystem(Config)
      BY <2>2 DEF Start, AtomicInv, IInv, Always, TypeOK
    <3>2. fs'.live # NoFile => fs'.text[fs'.live] = Whole(Seeded)
      BY <2>2, <3>1, Seeds, SeededFacts, RulesAssumption
    <3>3. Whole(Seeded).cfg = Seeded /\ Whole(Seeded).state = "whole" /\ Whole(Seeded) # EmptyText
      BY SeededFacts, MakeText
    <3> QED BY <2>2, <3>2, <3>3 DEF Value, Complete, Stored
  <2> QED BY <2>1, <2>2
<1>3. pc' = pc /\ reply' = reply /\ next' = next
  BY <1>1
<1>4. \A r \in Request : reply'[r] = reply[r] /\ (pc'[r] = pc[r] \/ (Changing(r) /\ Changing(r)'))
  BY <1>3, Zenon
<1>5. TypeOK /\ TypeOK' /\ FreshOutcome
  BY DEF AtomicInv, IInv, Always
<1> QED BY <1>1, <1>2, <1>3, <1>4, <1>5, StoreIdles

LEMMA StoreDies ==
    ASSUME AtomicInv, IInv', ~raced, ~raced', Crash
    PROVE  FreshOutcome' /\ Store!Next
<1> DEFINE S == {r \in Request : InFlight(r)}
<1>1. /\ fs'.live = fs.live /\ fs'.text = fs.text
      /\ UNCHANGED <<op, next, raced>>
      /\ \A r \in S : pc'[r] = "done" /\ reply'[r] = "lost"
      /\ \A r \in Request \ S : pc'[r] = pc[r] /\ reply'[r] = reply[r]
  BY DEF Crash, AtomicInv, IInv, Always, TypeOK, FileSystem
<1>2. Value' = Value
  BY <1>1, ValueStays
<1>3. \A r \in S : Phases'[r] = "over" /\ Phases[r] \in {"begun", "effective"}
  BY <1>1, PhaseOf DEF AtomicInv, IInv, Always, TypeOK, Stage, PhaseSays, InFlight
<1>4. FreshOutcome'
  BY <1>1 DEF FreshOutcome, Changing, InFlight
<1> HIDE DEF S
<1>5. S \in SUBSET Request
  BY DEF S
<1>6. Phases' = [r \in Request |-> IF r \in S THEN "over" ELSE Phases[r]]
  <2>1. \A r \in Request \ S : pc'[r] = pc[r] /\ reply'[r] = reply[r]
    BY <1>1
  <2>2. \A r \in S : Phases'[r] = "over"
    BY <1>3
  <2> QED BY <1>5, <2>1, <2>2, PhaseMoves, Zenon
<1>7. Store!GiveUp(S)
  BY <1>1, <1>2, <1>3, <1>6 DEF Store!GiveUp
<1> QED BY <1>4, <1>5, <1>7 DEF Store!Next

\* A request that comes: refused, or its work starts.
LEMMA StoreReads ==
    ASSUME AtomicInv, IInv', ~raced, ~raced', NEW r \in Request, NEW o \in Op, ReadManaged(r, o)
    PROVE  FreshOutcome' /\ Store!Next
<1>1. /\ pc[r] = "idle" /\ op' = [op EXCEPT ![r] = o] /\ fs' = fs
      /\ \/ /\ pc' = [pc EXCEPT ![r] = "done"] /\ next' = next
            /\ reply' \in {[reply EXCEPT ![r] = "failed"], [reply EXCEPT ![r] = "refused"]}
         \/ /\ pc' = [pc EXCEPT ![r] = "draft_open"] /\ reply' = reply
            /\ \A q \in Request : ~Changing(q)
            /\ \E c \in Parsed(fs, Seeded, NoConfig) :
                  ~Refused(o, c) /\ next' = [next EXCEPT ![r] = [c EXCEPT !.managed = Applied(o, c)]]
  BY DEF ReadManaged, Done
<1>2. /\ op'[r] = o /\ \A q \in Request \ {r} : op'[q] = op[q]
      /\ op' = [op EXCEPT ![r] = op'[r]]
  BY <1>1 DEF AtomicInv, IInv, Always, TypeOK
<1>3. \A q \in Request \ {r} : pc'[q] = pc[q] /\ reply'[q] = reply[q]
  BY <1>1 DEF AtomicInv, IInv, Always, TypeOK
<1>4. /\ Value' = Value /\ Value \in Config
      /\ \A c \in Parsed(fs, Seeded, NoConfig) : c = Value
  BY <1>1, ValueStays, ValueRead DEF AtomicInv
<1>5. Phases[r] = "new" /\ raced' = raced
  <2>1. Phases[r] = "new"
    BY <1>1, PhaseOf DEF AtomicInv, IInv, Always, PhaseSays
  <2>2. raced \in BOOLEAN /\ raced' \in BOOLEAN
    BY DEF AtomicInv, IInv, Always, TypeOK
  <2>3. raced' = raced
    BY <2>2, Zenon
  <2> QED BY <2>1, <2>3
<1>6. Store!Arrives(r)
  BY <1>2, <1>4, <1>5 DEF Store!Arrives
<1>7. CASE /\ pc' = [pc EXCEPT ![r] = "done"] /\ next' = next
           /\ reply' \in {[reply EXCEPT ![r] = "failed"], [reply EXCEPT ![r] = "refused"]}
  <2>1. pc'[r] = "done" /\ reply'[r] # "saved"
    BY <1>7 DEF AtomicInv, IInv, Always, TypeOK
  <2>2. Phases'[r] = "over"
    BY <2>1, PhaseOf DEF AtomicInv, IInv, Always, PhaseSays
  <2>3. Phases' = [Phases EXCEPT ![r] = "over"]
    BY <1>3, <2>2, PhaseMovesOn
  <2>4. Store!TurnAway(r)
    BY <1>6, <2>3 DEF Store!TurnAway
  <2>5. FreshOutcome'
    BY <1>2, <1>3, <1>4, <1>7, <2>1 DEF FreshOutcome, Fresh, Changing, InFlight, AtomicInv
  <2> QED BY <2>4, <2>5 DEF Store!Next
<1>8. CASE /\ pc' = [pc EXCEPT ![r] = "draft_open"] /\ reply' = reply
           /\ \A q \in Request : ~Changing(q)
           /\ \E c \in Parsed(fs, Seeded, NoConfig) :
                 ~Refused(o, c) /\ next' = [next EXCEPT ![r] = [c EXCEPT !.managed = Applied(o, c)]]
  <2> DEFINE n == [Value EXCEPT !.managed = Applied(o, Value)]
  <2>1. ~Refused(o, Value) /\ next' = [next EXCEPT ![r] = n]
    BY <1>4, <1>8
  <2>2. n.managed = Applied(o, Value)
    BY <1>4, ConfigFacts, AppliedRules
  <2> HIDE DEF n
  <2>3. next'[r].managed = Applied(o, Value) /\ pc'[r] = "draft_open"
    BY <1>8, <2>1, <2>2 DEF AtomicInv, IInv, Always, TypeOK
  <2>4. Phases'[r] = "begun"
    BY <2>3, PhaseOf DEF AtomicInv, IInv, Always, PhaseSays
  <2>5. Phases' = [Phases EXCEPT ![r] = "begun"]
    BY <1>3, <2>4, PhaseMovesOn
  <2>6. \A q \in Request : Phases[q] # "begun"
    BY <1>8, PhaseOf DEF AtomicInv, IInv, Always, PhaseSays, Changing, InFlight
  <2>7. Outcomes[o][Value] # {}
    BY <1>4, <2>1 DEF Outcomes
  <2>8. Store!Begin(r)
    BY <1>2, <1>6, <2>5, <2>6, <2>7 DEF Store!Begin
  <2>9. FreshOutcome'
    <3>1. \A q \in Request \ {r} : ~Changing(q)'
      BY <1>3, <1>8 DEF Changing, InFlight
    <3>2. Fresh(r)'
      BY <1>2, <1>4, <2>1, <2>3 DEF Fresh, Final
    <3> QED BY <3>1, <3>2 DEF FreshOutcome
  <2> QED BY <2>8, <2>9 DEF Store!Next
<1> QED BY <1>1, <1>7, <1>8

\* A request that ends before its rename.
LEMMA StoreGivesUp ==
    ASSUME AtomicInv, IInv', ~raced, ~raced', NEW r \in Request, Changing(r),
           Done(r, "failed") \/ Done(r, "refused"), UNCHANGED <<op, next, raced>>, Value' = Value
    PROVE  FreshOutcome' /\ Store!Next
<1>1. /\ pc'[r] = "done" /\ reply'[r] # "saved"
      /\ \A q \in Request \ {r} : pc'[q] = pc[q] /\ reply'[q] = reply[q]
  BY DEF Done, AtomicInv, IInv, Always, TypeOK
<1>2. Phases'[r] = "over" /\ Phases[r] = "begun"
  BY <1>1, PhaseOf DEF AtomicInv, IInv, Always, PhaseSays, Changing, InFlight
<1>3. Phases' = [q \in Request |-> IF q \in {r} THEN "over" ELSE Phases[q]]
  <2>1. Phases' = [Phases EXCEPT ![r] = "over"]
    BY <1>1, <1>2, PhaseMovesOn
  <2> QED BY <2>1 DEF Phases
<1>4. Store!GiveUp({r})
  BY <1>2, <1>3 DEF Store!GiveUp
<1>5. FreshOutcome'
  BY <1>1 DEF FreshOutcome, Fresh, Changing, InFlight, AtomicInv
<1> QED BY <1>4, <1>5 DEF Store!Next

\* The second read takes the groups that are stored.
LEMMA StoreReadsAgain ==
    ASSUME AtomicInv, IInv', ~raced, ~raced', NEW r \in Request, ReadPreserved(r)
    PROVE  FreshOutcome' /\ [Store!Next]_Store!storeVars
<1>1. UNCHANGED <<fs, op, raced>> /\ pc[r] = "again"
  BY DEF ReadPreserved
<1>2. /\ Value' = Value /\ Value \in Config /\ Value # NoConfig
      /\ \A c \in Parsed(fs, Seeded, NoConfig) : c = Value
  BY <1>1, ValueStays, ValueRead, RulesAssumption DEF AtomicInv
<1> DEFINE n == [Value EXCEPT !.managed = next[r].managed]
<1>3. next' = [next EXCEPT ![r] = n] /\ pc' = [pc EXCEPT ![r] = "opening"] /\ reply' = reply
  BY <1>2 DEF ReadPreserved
<1>4. n.managed = next[r].managed /\ n.preserved = Value.preserved
  <2>1. next[r].managed \in SUBSET Rule
    BY ConfigFacts DEF AtomicInv, IInv, Always, TypeOK, Config
  <2> QED BY <1>2, <2>1, ConfigFacts
<1> HIDE DEF n
<1>5. /\ next'[r].managed = next[r].managed /\ next'[r].preserved = Value.preserved
      /\ \A q \in Request \ {r} : next'[q] = next[q] /\ pc'[q] = pc[q]
      /\ pc'[r] = "opening" /\ \A q \in Request : reply'[q] = reply[q]
  BY <1>3, <1>4 DEF AtomicInv, IInv, Always, TypeOK
<1>6. \A q \in Request : reply'[q] = reply[q] /\ (pc'[q] = pc[q] \/ (Changing(q) /\ Changing(q)'))
  BY <1>1, <1>5 DEF Changing, InFlight
<1>7. \A q \in Request : Changing(q)' =>
          /\ next'[q].managed = next[q].managed
          /\ pc'[q] \in Final => \/ pc[q] \in Final /\ next'[q] = next[q]
                                 \/ next'[q].preserved = Value.preserved
  BY <1>5
<1>8. TypeOK /\ TypeOK' /\ FreshOutcome
  BY DEF AtomicInv, IInv, Always
<1> QED BY <1>1, <1>2, <1>6, <1>7, <1>8, StoreIdles

\* The candidate, its check and the write leave what is stored as it is.
LEMMA StoreWorks ==
    ASSUME AtomicInv, IInv', ~raced, ~raced', NEW r \in Request,
           \/ OpenCandidate(r) \/ WriteCandidate(r) \/ CandidateFailed(r)
           \/ Checked(r) \/ Unlink(r) \/ OpenTmp(r) \/ WriteTmp(r) \/ SaveFailed(r)
    PROVE  FreshOutcome' /\ [Store!Next]_Store!storeVars
<1>1. UNCHANGED <<op, next, raced>> /\ Changing(r)
  BY DEF OpenCandidate, WriteCandidate, CandidateFailed, Checked, Unlink, OpenTmp, WriteTmp,
         SaveFailed, Changing, InFlight
<1>2. Value' = Value
  <2>1. CASE OpenTmp(r) \/ WriteTmp(r) \/ SaveFailed(r)
    BY <2>1, LiveUntouched, ValueStays DEF AtomicInv, IInv
  <2>2. CASE fs' = fs
    BY <2>2, ValueStays
  <2> QED BY <2>1, <2>2 DEF OpenCandidate, WriteCandidate, CandidateFailed, Checked, Unlink
<1>3. CASE Done(r, "failed") \/ Done(r, "refused")
  BY <1>1, <1>2, <1>3, StoreGivesUp
<1>4. CASE ~(Done(r, "failed") \/ Done(r, "refused"))
  <2>1. /\ reply' = reply /\ \A q \in Request \ {r} : pc'[q] = pc[q]
        /\ Changing(r)' /\ (pc'[r] \in Final => pc[r] \in Final)
    BY <1>4 DEF OpenCandidate, WriteCandidate, CandidateFailed, Checked, Unlink, OpenTmp,
       WriteTmp, SaveFailed, Changing, InFlight, AtomicInv, IInv, Always, TypeOK, Final
  <2>2. \A q \in Request : reply'[q] = reply[q] /\ (pc'[q] = pc[q] \/ (Changing(q) /\ Changing(q)'))
    BY <1>1, <2>1
  <2>3. \A q \in Request : Changing(q)' =>
            /\ next'[q].managed = next[q].managed
            /\ pc'[q] \in Final => \/ pc[q] \in Final /\ next'[q] = next[q]
                                   \/ next'[q].preserved = Value.preserved
    BY <1>1, <2>1
  <2>4. TypeOK /\ TypeOK' /\ FreshOutcome
    BY DEF AtomicInv, IInv, Always
  <2> QED BY <1>1, <1>2, <2>2, <2>3, <2>4, StoreIdles
<1> QED BY <1>3, <1>4

\* The rename puts in place what is due.
LEMMA StoreRenames ==
    ASSUME AtomicInv, IInv', ~raced, ~raced', NEW r \in Request, RenameTmp(r)
    PROVE  FreshOutcome' /\ Store!Next
<1>1. /\ UNCHANGED <<op, next, raced>> /\ pc[r] = "renaming" /\ Changing(r)
      /\ fs.tmp \in Inode /\ fs.text[fs.tmp] = Whole(next[r]) /\ next[r] \in Config
  BY DEF RenameTmp, AtomicInv, IInv, Alone, Own, Always, TypeOK, Changing, InFlight
<1>2. /\ fs' = Renamed(fs) /\ pc' = [pc EXCEPT ![r] = "reloading"] /\ reply' = reply
  BY <1>1, RulesAssumption DEF RenameTmp
<1>3. fs'.live = fs.tmp /\ fs'.text[fs'.live] = Whole(next[r]) /\ fs'.live # NoFile
  BY <1>1, <1>2, Renames, RulesAssumption DEF AtomicInv, IInv, Always, TypeOK
<1>4. Value' = next[r]
  <2>1. /\ Whole(next[r]).state = "whole" /\ Whole(next[r]).cfg = next[r]
        /\ Whole(next[r]) # EmptyText
    BY <1>1, MakeText
  <2> QED BY <1>3, <2>1 DEF Value, Complete, Stored
<1>5. Fresh(r) /\ Value \in Config
  BY <1>1, ValueRead DEF AtomicInv, FreshOutcome
<1>6. next[r] = [Value EXCEPT !.managed = Applied(op[r], Value)]
  <2>1. next[r].managed = Applied(op[r], Value) /\ next[r].preserved = Value.preserved
    BY <1>1, <1>5 DEF Fresh, Final
  <2> QED BY <1>1, <1>5, <2>1 DEF Config
<1>7. Value' \in Outcomes[op[r]][Value]
  <2>1. op[r] \in Op /\ ~Refused(op[r], Value)
    BY <1>5 DEF Fresh
  <2> QED BY <1>4, <1>5, <1>6, <2>1 DEF Outcomes
<1>8. /\ pc'[r] = "reloading"
      /\ \A q \in Request \ {r} : pc'[q] = pc[q] /\ reply'[q] = reply[q]
  BY <1>2 DEF AtomicInv, IInv, Always, TypeOK
<1>9. Phases[r] = "begun" /\ Phases'[r] = "effective"
  BY <1>1, <1>8, PhaseOf DEF AtomicInv, IInv, Always, PhaseSays
<1>10. Phases' = [Phases EXCEPT ![r] = "effective"]
  BY <1>8, <1>9, PhaseMovesOn
<1>11. Store!TakeEffect(r)
  BY <1>1, <1>7, <1>9, <1>10 DEF Store!TakeEffect
<1>12. FreshOutcome'
  <2>1. \A q \in Request \ {r} : ~Changing(q)
    BY <1>1 DEF AtomicInv, IInv, Alone, OneChanger
  <2> QED BY <1>8, <2>1 DEF FreshOutcome, Changing, InFlight
<1> QED BY <1>11, <1>12 DEF Store!Next

\* An answer after the rename.
LEMMA StoreAnswers ==
    ASSUME AtomicInv, IInv', ~raced, ~raced', NEW r \in Request, Reload(r)
    PROVE  FreshOutcome' /\ Store!Next
<1>1. UNCHANGED <<fs, raced, op, next>> /\ pc[r] = "reloading"
  BY DEF Reload
<1>2. Value' = Value
  BY <1>1, ValueStays
<1>3. /\ pc'[r] = "done" /\ reply'[r] = "saved"
      /\ \A q \in Request \ {r} : pc'[q] = pc[q] /\ reply'[q] = reply[q]
  BY DEF Reload, Done, AtomicInv, IInv, Always, TypeOK
<1>4. Phases[r] = "effective" /\ Phases'[r] = "acknowledged"
  BY <1>1, <1>3, PhaseOf DEF AtomicInv, IInv, Always, PhaseSays
<1>5. Phases' = [Phases EXCEPT ![r] = "acknowledged"]
  BY <1>3, <1>4, PhaseMovesOn
<1>6. Store!Acknowledge(r)
  BY <1>1, <1>2, <1>4, <1>5 DEF Store!Acknowledge
<1>7. FreshOutcome'
  BY <1>1, <1>2, <1>3 DEF FreshOutcome, Fresh, Changing, InFlight, AtomicInv
<1> QED BY <1>6, <1>7 DEF Store!Next

\* Every step of the routes is one of the atomic store, or none.
LEMMA StoreStep ==
    AtomicInv /\ IInv' /\ [Next]_vars => FreshOutcome' /\ [Store!Next]_Store!storeVars
<1> SUFFICES ASSUME AtomicInv, IInv', [Next]_vars
             PROVE  FreshOutcome' /\ [Store!Next]_Store!storeVars
  OBVIOUS
<1>1. CASE raced'
  BY <1>1, StoreRaces DEF AtomicInv
<1>2. CASE ~raced'
  <2>0. ~raced
    BY <1>2, RacedStays
  <2>1. CASE UNCHANGED vars
    <3>1. UNCHANGED <<fs, pc, op, next, reply, raced>>
      BY <2>1 DEF vars, request
    <3>2. pc' = pc /\ reply' = reply /\ next' = next
      BY <3>1
    <3>3. \A r \in Request : reply'[r] = reply[r] /\ (pc'[r] = pc[r] \/ (Changing(r) /\ Changing(r)'))
      BY <3>2, Zenon
    <3>4. Value' = Value /\ TypeOK /\ TypeOK' /\ FreshOutcome
      BY <3>1, ValueStays DEF AtomicInv, IInv, Always
    <3> QED BY <3>1, <3>2, <3>3, <3>4, StoreIdles
  <2>2. CASE Start
    BY <1>2, <2>0, <2>2, StoreStarts
  <2>3. CASE Crash
    BY <1>2, <2>0, <2>3, StoreDies
  <2>4. ASSUME NEW r \in Request, NEW o \in Op, ReadManaged(r, o)
        PROVE  FreshOutcome' /\ Store!Next
    BY <1>2, <2>0, <2>4, StoreReads
  <2>5. ASSUME NEW r \in Request,
               \/ OpenCandidate(r) \/ WriteCandidate(r) \/ CandidateFailed(r)
               \/ Checked(r) \/ Unlink(r) \/ ReadPreserved(r)
               \/ OpenTmp(r) \/ WriteTmp(r) \/ RenameTmp(r) \/ SaveFailed(r) \/ Reload(r)
        PROVE  FreshOutcome' /\ [Store!Next]_Store!storeVars
    BY <1>2, <2>0, <2>5, StoreWorks, StoreReadsAgain, StoreRenames, StoreAnswers
  <2> QED BY <2>1, <2>2, <2>3, <2>4, <2>5 DEF Next
<1> QED BY <1>1, <1>2

\* "The store commits atomically" (rules-store.ts): until two requests overlap, a
\* change of the rules, with its two reads, the run of promtool, its awaits, crashes
\* and failed writes, is one atomic change of what is stored when it takes effect.
THEOREM RulesStoreIsAtomic == Spec => StoreIsAtomic
<1>1. Init => FreshOutcome /\ Store!Init
  BY StoreInit
<1>2. IInv /\ AckInv /\ FreshOutcome /\ IInv' /\ [Next]_vars
        => FreshOutcome' /\ [Store!Next]_Store!storeVars
  BY StoreStep DEF AtomicInv
<1> QED BY <1>1, <1>2, Invariance, AckHolds, PTL DEF Spec, StoreIsAtomic, Store!Spec
=============================================================================
