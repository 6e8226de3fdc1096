----------------------- MODULE ManagedChannelsProofs ------------------------
(***************************************************************************)
(* The alert channels and the session, for any receivers, names, secrets,  *)
(* requests, logins and restarts: what the store of the channels keeps and *)
(* acknowledges, what an operator typed reaches its file whole, and of the *)
(* clients of ended sessions none is left.                                 *)
(***************************************************************************)
EXTENDS MCManagedChannels, SharedProofs

-----------------------------------------------------------------------------
(* The store.                                                              *)

\* What a request is about to write is acceptable as well.
NextAccepted == \A r \in Request : Accepted(next[r])

\* The managed path and the temporary path never name the same inode.
PathsApart == fs.live # NoFile => fs.live # fs.tmp

\* Unless requests raced, one request at a time is between read and rename,
OneWriter == ~raced => \A p, q \in Request : Writing(p) /\ Writing(q) => p = q

\* and the temporary file is its own.
WriterOwnsTmp ==
    ~raced =>
        /\ \A r \in Request : pc[r] = "writing" =>
               /\ fs.tmp # NoFile /\ fd[r] = fs.tmp
               /\ fs.text[fs.tmp] = EmptyText
        /\ \A r \in Request : pc[r] = "renaming" =>
               /\ fs.tmp # NoFile
               /\ fs.text[fs.tmp].state = "whole"

\* A writer holds a descriptor.
WriterHoldsInode == \A r \in Request : pc[r] = "writing" => fd[r] \in Inode

\* The managed file is complete whenever it exists.
LiveComplete == ~raced /\ fs.live # NoFile => fs.text[fs.live].state = "whole"

\* Nothing is under way while the Console is down.
DownIsQuiet == ~up => Quiet

IInv ==
    /\ TypeOK
    /\ OnlyAccepted /\ NextAccepted
    /\ PathsApart /\ OneWriter /\ WriterOwnsTmp /\ WriterHoldsInode
    /\ LiveComplete /\ DownIsQuiet

-----------------------------------------------------------------------------
\* Seeding leaves acceptable texts acceptable.
LEMMA SeedsAccepted ==
    ASSUME NEW f \in FileSystem(Config), f.live = NoFile,
           NEW c \in Config, Accepted(c),
           \A i \in Inode : f.text[i] # EmptyText => Accepted(f.text[i].cfg),
           NEW g \in Seedings(f, c)
    PROVE  /\ g \in FileSystem(Config)
           /\ \A i \in Inode : g.text[i] # EmptyText => Accepted(g.text[i].cfg)
           /\ g.live # NoFile => g.live # g.tmp /\ g.text[g.live].state = "whole"
BY Seeds, ChannelsAssumption

\* What the Console and Alertmanager read is a configuration that was
\* written, or nothing.
LEMMA Reads ==
    ASSUME NEW f \in FileSystem(Config), NEW c \in Parsed(f, Seeded, NoConfig),
           c # NoConfig,
           \A i \in Inode : f.text[i] # EmptyText => Accepted(f.text[i].cfg)
    PROVE  c \in Config /\ Accepted(c)
<1>1. Seeded \in Config /\ Accepted(Seeded)
  BY DEF Seeded, Config, Accepted, NamesOf
<1> QED BY <1>1, ParsedFacts

-----------------------------------------------------------------------------
(* The routes keep a configuration acceptable.                             *)

LEMMA MergedChannel ==
    ASSUME NEW a \in Channel, NEW b \in Channel
    PROVE  MergeKeepSecrets(a, b) \in Channel /\ MergeKeepSecrets(a, b).name = b.name
BY DEF MergeKeepSecrets, Channel

LEMMA AppliedAccepted ==
    ASSUME NEW c \in Config, Accepted(c), NEW o \in Op, ~Refused(o, c),
           NEW n \in Applied(o, c)
    PROVE  n \in Config /\ Accepted(n)
<1>1. CASE o.kind = "add"
  <2>1. o.channel \in Channel /\ o.channel.name = o.name /\ o.name \in Name
    BY <1>1 DEF Op
  <2>2. n = Added(o, c) /\ o.name \notin NamesOf(c)
    BY <1>1 DEF Applied, Refused
  <2> QED BY <2>1, <2>2 DEF Added, Config, Accepted, NamesOf
<1>2. CASE o.kind = "put"
  <2>1. o.channel \in Channel /\ o.channel.name = o.name
    BY <1>2 DEF Op
  <2>2. PICK current \in {ch \in c.channels : ch.name = o.name} :
            n = [c EXCEPT !.channels = (@ \ {current}) \cup {MergeKeepSecrets(current, o.channel)}]
    BY <1>2 DEF Applied, Replaced
  <2>3. current \in Channel
    BY <2>2 DEF Config
  <2> DEFINE m == MergeKeepSecrets(current, o.channel)
  <2>4. m \in Channel /\ m.name = o.name
    BY <2>1, <2>3, MergedChannel
  <2>5. /\ n.channels = (c.channels \ {current}) \cup {m}
        /\ n.default = c.default
        /\ n \in Config
    BY <2>2, <2>4 DEF Config
  <2>6. NamesOf(n) = NamesOf(c)
    BY <2>2, <2>4, <2>5 DEF NamesOf
  <2>7. \A x, y \in n.channels : x.name = y.name => x = y
    BY <2>2, <2>4, <2>5 DEF Accepted
  <2> QED BY <2>5, <2>6, <2>7 DEF Accepted
<1>3. CASE o.kind = "delete"
  <2>1. n \in Deleted(o, c)
    BY <1>3 DEF Applied
  <2> DEFINE remaining == {ch \in c.channels : ch.name # o.name}
  <2>2. /\ n.channels = remaining
        /\ n = [channels |-> n.channels, default |-> n.default]
        /\ c.default # o.name => n.default = c.default
        /\ c.default = o.name => n.default \in {ch.name : ch \in remaining} \cup {NoName}
    BY <2>1 DEF Deleted
  <2>3. n.default \in NamesOf(n) \cup {NoName}
    BY <2>2 DEF Accepted, NamesOf
  <2>4. n \in Config
    BY <2>2, <2>3 DEF Config, NamesOf, Channel
  <2> QED BY <2>2, <2>3, <2>4 DEF Accepted
<1>4. CASE o.kind = "default"
  BY <1>4 DEF Applied, Refused, Config, Accepted, NamesOf, Op
<1> QED BY <1>1, <1>2, <1>3, <1>4 DEF Op

-----------------------------------------------------------------------------
(* The invariant.                                                          *)

LEMMA InitInv == Init => IInv
<1> SUFFICES ASSUME Init PROVE IInv
  OBVIOUS
<1>1. Seeded \in Config /\ Accepted(Seeded)
  BY DEF Seeded, Config, Accepted, NamesOf
<1>2. NoFiles \in FileSystem(Config)
  BY DEF NoFiles, FileSystem, Text
<1>3. /\ fs \in FileSystem(Config)
      /\ fs.tmp = NoFile
      /\ OnlyAccepted
      /\ fs.live # NoFile => fs.text[fs.live].state = "whole"
  <2>1. CASE fs = NoFiles
    BY <1>2, <2>1 DEF NoFiles, OnlyAccepted
  <2>2. CASE \E i \in Inode, c \in Deployed : fs = Holding(i, c)
    <3>1. PICK i \in Inode, c \in Deployed : fs = Holding(i, c)
      BY <2>2
    <3>2. c \in Config /\ Accepted(c)
      BY ChannelsAssumption
    <3>3. \A j \in Inode : fs.text[j] = IF j = i THEN Whole(c) ELSE EmptyText
      BY <3>1 DEF Holding
    <3>4. fs \in FileSystem(Config)
      BY <3>1, <3>2, MakeText DEF Holding, FileSystem
    <3> QED BY <3>1, <3>2, <3>3, <3>4, MakeText DEF Holding, OnlyAccepted
  <2> QED BY <2>1, <2>2 DEF Init
<1>4. TypeOK
  <2>0. /\ pc = [r \in Request |-> "idle"] /\ op = [r \in Request |-> NoOp]
        /\ next = [r \in Request |-> Seeded] /\ fd = [r \in Request |-> NoFile]
        /\ reply = [r \in Request |-> "none"] /\ loaded = Seeded
    BY DEF Init
  <2>1. pc \in [Request -> Stage]
    BY <2>0 DEF Stage
  <2>2. op \in [Request -> Op \cup {NoOp}]
    BY <2>0, Zenon
  <2>3. /\ fd \in [Request -> Inode \cup {NoFile}]
        /\ reply \in [Request -> {"none", "refused", "failed", "lost", "saved", "active"}]
    BY <2>0
  <2>4. next \in [Request -> Config] /\ loaded \in Config
    <3>1. next = [r \in Request |-> Seeded] /\ loaded = Seeded
      BY <2>0
    <3>2. Seeded \in Config
      BY <1>1
    <3>3. [r \in Request |-> Seeded] \in [Request -> Config]
      BY <3>2
    <3> QED BY <3>1, <3>2, <3>3
  <2>5. up \in BOOLEAN /\ raced \in BOOLEAN
    BY Zenon DEF Init
  <2>6. crashes \in 0..MaxCrashes /\ lastReload = "none"
    <3>1. crashes = 0 /\ lastReload = "none"
      BY DEF Init
    <3> QED BY <3>1, ChannelsAssumption
  <2> QED BY <1>3, <2>1, <2>2, <2>3, <2>4, <2>5, <2>6 DEF TypeOK
<1>5. NextAccepted /\ PathsApart /\ OneWriter /\ WriterOwnsTmp /\ WriterHoldsInode /\ DownIsQuiet
  BY <1>1, <1>3 DEF Init, NextAccepted, PathsApart, OneWriter, WriterOwnsTmp, WriterHoldsInode,
                    DownIsQuiet, Writing, Quiet
<1> QED BY <1>3, <1>4, <1>5 DEF IInv, LiveComplete

\* Each action keeps the invariant.
LEMMA StartInv == ASSUME IInv, Start PROVE IInv'
<1> USE DEF IInv
<1>1. /\ Quiet
      /\ UNCHANGED <<pc, op, next, fd, reply, loaded, lastReload, crashes, raced>>
      /\ up' = TRUE
  BY DEF Start, DownIsQuiet, request
<1>2. /\ fs' \in FileSystem(Config) /\ OnlyAccepted'
      /\ PathsApart' /\ LiveComplete'
  <2>1. CASE fs.live # NoFile
    <3>1. fs' = fs
      BY <2>1 DEF Start
    <3> QED BY <1>1, <3>1 DEF TypeOK, OnlyAccepted, PathsApart, LiveComplete
  <2>2. CASE fs.live = NoFile
    <3>1. fs' \in Seedings(fs, Seeded)
      BY <2>2 DEF Start
    <3>2. Seeded \in Config /\ Accepted(Seeded)
      BY DEF Seeded, Config, Accepted, NamesOf
    <3> QED BY <1>1, <2>2, <3>1, <3>2, SeedsAccepted
            DEF TypeOK, OnlyAccepted, PathsApart, LiveComplete
  <2> QED BY <2>1, <2>2
<1>3. TypeOK'
  BY <1>1, <1>2 DEF TypeOK
<1>4. NextAccepted' /\ OneWriter' /\ WriterOwnsTmp' /\ WriterHoldsInode' /\ DownIsQuiet'
  BY <1>1 DEF NextAccepted, OneWriter, WriterOwnsTmp, WriterHoldsInode, DownIsQuiet, Quiet,
              Writing
<1> QED BY <1>2, <1>3, <1>4

LEMMA CrashInv == ASSUME IInv, Crash PROVE IInv'
<1> USE DEF IInv
<1>1. PICK t \in {fs.tmp, NoFile} : fs' = [fs EXCEPT !.tmp = t]
  BY DEF Crash
<1>2. /\ fs' \in FileSystem(Config)
      /\ fs'.live = fs.live /\ fs'.tmp = t /\ fs'.text = fs.text
  BY <1>1 DEF TypeOK, FileSystem
<1>3. TypeOK'
  <2> DEFINE lost == {r \in Request : pc[r] \notin {"idle", "done"}}
  <2>1. /\ pc' = [r \in Request |-> IF r \in lost THEN "done" ELSE pc[r]]
        /\ reply' = [r \in Request |-> IF r \in lost THEN "lost" ELSE reply[r]]
        /\ fd' = [r \in Request |-> NoFile]
        /\ UNCHANGED <<op, next, loaded, lastReload, raced>>
        /\ up' = FALSE /\ crashes < MaxCrashes /\ crashes' = crashes + 1
    BY DEF Crash
  <2>2. pc' \in [Request -> Stage]
    BY <2>1 DEF TypeOK, Stage
  <2>3. reply' \in [Request -> {"none", "refused", "failed", "lost", "saved", "active"}]
    BY <2>1 DEF TypeOK
  <2>4. crashes' \in 0..MaxCrashes
    BY <2>1, ChannelsAssumption DEF TypeOK
  <2>5. fd' \in [Request -> Inode \cup {NoFile}]
    BY <2>1
  <2> HIDE DEF lost
  <2> QED BY <1>2, <2>1, <2>2, <2>3, <2>4, <2>5 DEF TypeOK
<1>4. Quiet' /\ up' = FALSE
  BY DEF Crash, Quiet, TypeOK
<1>5. OneWriter' /\ WriterOwnsTmp' /\ WriterHoldsInode' /\ DownIsQuiet'
  BY <1>4 DEF OneWriter, WriterOwnsTmp, WriterHoldsInode, DownIsQuiet, Quiet, Writing
<1>6. OnlyAccepted' /\ NextAccepted' /\ PathsApart' /\ LiveComplete'
  BY <1>2 DEF Crash, OnlyAccepted, NextAccepted, PathsApart, LiveComplete
<1> QED BY <1>3, <1>5, <1>6

LEMMA RejectInv ==
    ASSUME IInv, NEW r \in Request, NEW o \in Op, Reject(r, o)
    PROVE  IInv'
<1>1. TypeOK'
  <2>1. op' \in [Request -> Op \cup {NoOp}]
    BY DEF IInv, TypeOK, Reject
  <2>2. /\ pc' \in [Request -> Stage]
        /\ reply' \in [Request -> {"none", "refused", "failed", "lost", "saved", "active"}]
    BY DEF IInv, TypeOK, Reject, Stage
  <2>3. UNCHANGED <<fs, raced, next, fd, loaded, lastReload, up, crashes>>
    BY DEF Reject, file
  <2> QED BY <2>1, <2>2, <2>3 DEF IInv, TypeOK
<1>2. \A q \in Request : pc'[q] = pc[q] \/ pc'[q] = "done"
  BY DEF IInv, TypeOK, Reject
<1> QED BY <1>1, <1>2 DEF IInv, Reject, file, OnlyAccepted, NextAccepted, PathsApart, OneWriter,
         WriterOwnsTmp, WriterHoldsInode, LiveComplete, DownIsQuiet, Quiet, Writing

LEMMA ReadLiveInv ==
    ASSUME IInv, NEW r \in Request, NEW o \in Op, ReadLive(r, o)
    PROVE  IInv'
<1>1. PICK c \in Parsed(fs, Seeded, NoConfig) :
        \/ /\ pc' = [pc EXCEPT ![r] = "done"]
           /\ reply' \in {[reply EXCEPT ![r] = "failed"], [reply EXCEPT ![r] = "refused"]}
           /\ UNCHANGED <<next, raced>>
        \/ /\ c # NoConfig /\ ~Refused(o, c)
           /\ \E n \in Applied(o, c) : next' = [next EXCEPT ![r] = n]
           /\ pc' = [pc EXCEPT ![r] = "opening"]
           /\ raced' = (raced \/ \E q \in Request : Writing(q))
           /\ UNCHANGED reply
  BY DEF ReadLive
<1>2. /\ op' = [op EXCEPT ![r] = o]
      /\ UNCHANGED <<fs, fd, loaded, lastReload, up, crashes>>
      /\ up
  BY DEF ReadLive
<1>3. OnlyAccepted' /\ PathsApart' /\ DownIsQuiet'
  BY <1>2 DEF IInv, OnlyAccepted, PathsApart, DownIsQuiet
<1>4. op' \in [Request -> Op \cup {NoOp}]
  BY <1>2 DEF IInv, TypeOK
<1>5. CASE pc' = [pc EXCEPT ![r] = "done"] /\ UNCHANGED <<next, raced>>
           /\ reply' \in {[reply EXCEPT ![r] = "failed"], [reply EXCEPT ![r] = "refused"]}
  <2>1. TypeOK'
    BY <1>2, <1>4, <1>5 DEF IInv, TypeOK, Stage
  <2>2. \A q \in Request : pc'[q] = pc[q] \/ pc'[q] = "done"
    BY <1>5 DEF IInv, TypeOK
  <2> QED BY <1>2, <1>3, <1>5, <2>1, <2>2
          DEF IInv, NextAccepted, OneWriter, WriterOwnsTmp, WriterHoldsInode, LiveComplete, Writing
<1>6. CASE /\ c # NoConfig /\ ~Refused(o, c)
           /\ \E n \in Applied(o, c) : next' = [next EXCEPT ![r] = n]
           /\ pc' = [pc EXCEPT ![r] = "opening"]
           /\ raced' = (raced \/ \E q \in Request : Writing(q))
           /\ UNCHANGED reply
  <2>1. c \in Config /\ Accepted(c)
    BY <1>6, Reads DEF IInv, TypeOK, OnlyAccepted
  <2>2. PICK n \in Applied(o, c) : next' = [next EXCEPT ![r] = n]
    BY <1>6
  <2>3. n \in Config /\ Accepted(n)
    BY <1>6, <2>1, <2>2, AppliedAccepted
  <2>4. TypeOK'
    BY <1>2, <1>4, <1>6, <2>2, <2>3 DEF IInv, TypeOK, Stage
  <2>5. NextAccepted'
    BY <2>2, <2>3 DEF IInv, TypeOK, NextAccepted
  <2>6. \A q \in Request \ {r} : pc'[q] = pc[q]
    BY <1>6 DEF IInv, TypeOK
  <2>7. pc'[r] = "opening"
    BY <1>6 DEF IInv, TypeOK
  <2>8. ~raced' => ~raced /\ \A q \in Request : ~Writing(q)
    BY <1>6
  <2>9. OneWriter'
    BY <2>6, <2>8 DEF OneWriter, Writing
  <2>10. WriterOwnsTmp' /\ LiveComplete' /\ WriterHoldsInode'
    BY <1>2, <2>6, <2>7, <2>8
       DEF IInv, WriterOwnsTmp, LiveComplete, Writing, WriterHoldsInode
  <2> QED BY <1>3, <2>4, <2>5, <2>9, <2>10 DEF IInv
<1> QED BY <1>1, <1>5, <1>6

LEMMA OpenTmpInv ==
    ASSUME IInv, NEW r \in Request, OpenTmp(r)
    PROVE  IInv'
<1>1. PICK i \in Inode :
        /\ OpensTmp(fs, {fd[q] : q \in Request}, i)
        /\ fs' = Opened(fs, i)
        /\ fd' = [fd EXCEPT ![r] = i]
  BY DEF OpenTmp
<1>2. /\ pc[r] = "opening"
      /\ pc' = [pc EXCEPT ![r] = "writing"]
      /\ UNCHANGED <<op, next, reply, loaded, lastReload, up, crashes, raced>>
  BY DEF OpenTmp
<1>3. /\ fs' \in FileSystem(Config)
      /\ fs'.live = fs.live /\ fs'.tmp = i /\ i # fs.live
      /\ fs'.text[i] = EmptyText
      /\ \A j \in Inode \ {i} : fs'.text[j] = fs.text[j]
  BY <1>1, OpeningTmp, OpensOther, ChannelsAssumption DEF IInv, TypeOK, PathsApart
<1>4. fs.text \in [Inode -> Text(Config)] /\ fs.live \in Inode \cup {NoFile}
  BY DEF IInv, TypeOK, FileSystem
<1>5. TypeOK'
  BY <1>1, <1>2, <1>3 DEF IInv, TypeOK, Stage
<1>6. OnlyAccepted' /\ NextAccepted'
  BY <1>2, <1>3, <1>4 DEF IInv, OnlyAccepted, NextAccepted
<1>7. PathsApart' /\ LiveComplete'
  BY <1>2, <1>3, <1>4 DEF IInv, PathsApart, LiveComplete
<1>8. \A q \in Request \ {r} : pc'[q] = pc[q]
  BY <1>2 DEF IInv, TypeOK
<1>9. pc'[r] = "writing" /\ fd'[r] = i
  BY <1>1, <1>2 DEF IInv, TypeOK
<1>10. OneWriter'
  BY <1>2, <1>8 DEF IInv, OneWriter, Writing
<1>11. WriterOwnsTmp'
  <2> SUFFICES ASSUME ~raced PROVE WriterOwnsTmp'
    BY <1>2 DEF WriterOwnsTmp
  <2>1. \A q \in Request \ {r} : pc'[q] \notin {"writing", "renaming"}
    BY <1>2, <1>8 DEF IInv, OneWriter, Writing
  <2> QED BY <1>3, <1>4, <1>9, <2>1, ChannelsAssumption DEF WriterOwnsTmp
<1>12. DownIsQuiet' /\ WriterHoldsInode'
  BY <1>1, <1>2 DEF IInv, TypeOK, DownIsQuiet, Quiet, WriterHoldsInode
<1> QED BY <1>5, <1>6, <1>7, <1>10, <1>11, <1>12 DEF IInv

LEMMA WriteTmpInv ==
    ASSUME IInv, NEW r \in Request, WriteTmp(r)
    PROVE  IInv'
<1> DEFINE i == fd[r]
<1>1. /\ pc[r] = "writing"
      /\ fs' \in Written(fs, i, next[r])
      /\ fd' = [fd EXCEPT ![r] = NoFile]
      /\ pc' = [pc EXCEPT ![r] = "renaming"]
      /\ UNCHANGED <<op, next, reply, loaded, lastReload, up, crashes, raced>>
  BY DEF WriteTmp
<1>2. i \in Inode /\ next[r] \in Config /\ Accepted(next[r])
  BY <1>1 DEF IInv, TypeOK, NextAccepted, WriterHoldsInode
<1>3. /\ fs' \in FileSystem(Config)
      /\ fs'.live = fs.live /\ fs'.tmp = fs.tmp
      /\ \A j \in Inode \ {i} : fs'.text[j] = fs.text[j]
      /\ fs'.text[i] # EmptyText /\ fs'.text[i].cfg = next[r]
      /\ fs.text[i] = EmptyText => fs'.text[i].state = "whole"
  BY <1>1, <1>2, Writes DEF IInv, TypeOK
<1>4. fs.live \in Inode \cup {NoFile}
  BY DEF IInv, TypeOK, FileSystem
<1>5. TypeOK'
  BY <1>1, <1>3 DEF IInv, TypeOK, Stage
<1>6. OnlyAccepted' /\ NextAccepted'
  BY <1>1, <1>2, <1>3 DEF IInv, OnlyAccepted, NextAccepted
<1>7. \A q \in Request \ {r} : pc'[q] = pc[q] /\ fd'[q] = fd[q]
  BY <1>1 DEF IInv, TypeOK
<1>8. pc'[r] = "renaming"
  BY <1>1 DEF IInv, TypeOK
<1>9. PathsApart' /\ DownIsQuiet' /\ OneWriter' /\ WriterHoldsInode'
  BY <1>1, <1>3, <1>7, <1>8
     DEF IInv, PathsApart, DownIsQuiet, Quiet, OneWriter, Writing, WriterHoldsInode
<1>10. ASSUME ~raced
       PROVE  i = fs.tmp /\ fs.tmp # NoFile /\ fs.text[i] = EmptyText
  BY <1>1, <1>10 DEF IInv, WriterOwnsTmp
<1>11. ~raced => \A q \in Request \ {r} : ~Writing(q)
  BY <1>1 DEF IInv, OneWriter, Writing
<1>12. WriterOwnsTmp'
  BY <1>1, <1>3, <1>7, <1>8, <1>10, <1>11 DEF WriterOwnsTmp, Writing
<1>13. LiveComplete'
  BY <1>1, <1>3, <1>4, <1>10 DEF IInv, LiveComplete, PathsApart
<1> QED BY <1>5, <1>6, <1>9, <1>12, <1>13 DEF IInv

LEMMA RenameTmpInv ==
    ASSUME IInv, NEW r \in Request, RenameTmp(r)
    PROVE  IInv'
<1>1. /\ pc[r] = "renaming"
      /\ UNCHANGED <<op, next, fd, loaded, lastReload, up, crashes, raced>>
  BY DEF RenameTmp
<1>2. \A q \in Request \ {r} : pc'[q] = pc[q]
  BY DEF IInv, TypeOK, RenameTmp
<1>3. pc'[r] \in {"done", "reloading"} /\ pc' \in [Request -> Stage]
  BY DEF IInv, TypeOK, RenameTmp, Stage
<1>4. reply' \in [Request -> {"none", "refused", "failed", "lost", "saved", "active"}]
  BY DEF IInv, TypeOK, RenameTmp
<1>5. ~raced => \A q \in Request : ~Writing(q)'
  BY <1>1, <1>2, <1>3 DEF IInv, OneWriter, Writing
<1>6. OneWriter' /\ WriterOwnsTmp' /\ DownIsQuiet' /\ NextAccepted' /\ WriterHoldsInode'
  BY <1>1, <1>2, <1>3, <1>5
     DEF IInv, OneWriter, WriterOwnsTmp, DownIsQuiet, Quiet, NextAccepted, Writing, WriterHoldsInode
<1>7. CASE fs.tmp = NoFile
  <2>1. fs' = fs
    BY <1>7 DEF RenameTmp
  <2> QED BY <1>1, <1>3, <1>4, <1>6, <2>1
          DEF IInv, TypeOK, OnlyAccepted, PathsApart, LiveComplete
<1>8. CASE fs.tmp # NoFile
  <2>1. fs' = Renamed(fs)
    BY <1>8 DEF RenameTmp
  <2>2. /\ fs' \in FileSystem(Config)
        /\ fs'.live = fs.tmp /\ fs'.tmp = NoFile /\ fs'.text = fs.text
    BY <1>8, <2>1, Renames DEF IInv, TypeOK
  <2>3. TypeOK'
    BY <1>1, <1>3, <1>4, <2>2 DEF IInv, TypeOK
  <2>4. ~raced => fs.text[fs.tmp].state = "whole"
    BY <1>1 DEF IInv, WriterOwnsTmp
  <2>5. OnlyAccepted' /\ PathsApart' /\ LiveComplete'
    BY <1>1, <1>8, <2>2, <2>4 DEF IInv, OnlyAccepted, PathsApart, LiveComplete
  <2> QED BY <1>6, <2>3, <2>5 DEF IInv
<1> QED BY <1>7, <1>8

LEMMA SaveFailedInv ==
    ASSUME IInv, NEW r \in Request, SaveFailed(r)
    PROVE  IInv'
<1>1. /\ Writing(r)
      /\ fd' = [fd EXCEPT ![r] = NoFile]
      /\ pc' = [pc EXCEPT ![r] = "done"]
      /\ reply' = [reply EXCEPT ![r] = "failed"]
      /\ UNCHANGED <<op, next, loaded, lastReload, up, crashes, raced>>
  BY DEF SaveFailed
<1>2. /\ fs' \in FileSystem(Config)
      /\ fs'.live = fs.live /\ fs'.tmp = fs.tmp
      /\ OnlyAccepted'
      /\ ~raced /\ fs.live # NoFile => fs'.text[fs.live] = fs.text[fs.live]
  <2>1. CASE pc[r] = "writing"
    <3> DEFINE i == fd[r]
    <3>1. i \in Inode /\ next[r] \in Config /\ Accepted(next[r])
      BY <2>1 DEF IInv, TypeOK, NextAccepted, WriterHoldsInode
    <3>2. fs' \in PartlyWritten(fs, i, next[r])
      BY <2>1 DEF SaveFailed
    <3>3. /\ fs' \in FileSystem(Config)
          /\ fs'.live = fs.live /\ fs'.tmp = fs.tmp
          /\ \A j \in Inode \ {i} : fs'.text[j] = fs.text[j]
          /\ fs'.text[i] = fs.text[i] \/ (fs'.text[i] # EmptyText /\ fs'.text[i].cfg = next[r])
      BY <3>1, <3>2, WritesPartly DEF IInv, TypeOK
    <3>4. OnlyAccepted'
      BY <3>1, <3>3 DEF IInv, OnlyAccepted
    <3>5. ~raced /\ fs.live # NoFile => fs.live \in Inode \ {i}
      BY <2>1 DEF IInv, TypeOK, FileSystem, WriterOwnsTmp, PathsApart
    <3> HIDE DEF i
    <3> QED BY <3>3, <3>4, <3>5
  <2>2. CASE pc[r] # "writing"
    <3>1. fs' = fs
      BY <2>2 DEF SaveFailed
    <3> QED BY <3>1 DEF IInv, TypeOK, OnlyAccepted
  <2> QED BY <2>1, <2>2
<1>3. TypeOK'
  BY <1>1, <1>2 DEF IInv, TypeOK, Stage
<1>4. \A q \in Request : q # r => pc'[q] = pc[q] /\ fd'[q] = fd[q]
  BY <1>1 DEF IInv, TypeOK
<1>5. pc'[r] = "done"
  BY <1>1 DEF IInv, TypeOK
<1>6. ~raced => \A q \in Request : ~Writing(q)'
  BY <1>1, <1>4, <1>5 DEF IInv, OneWriter, Writing
<1>7. OneWriter' /\ WriterOwnsTmp' /\ WriterHoldsInode' /\ DownIsQuiet' /\ NextAccepted'
  BY <1>1, <1>4, <1>5, <1>6
     DEF IInv, OneWriter, WriterOwnsTmp, WriterHoldsInode, DownIsQuiet, Quiet, NextAccepted,
         Writing
<1>8. PathsApart' /\ LiveComplete'
  BY <1>1, <1>2 DEF IInv, PathsApart, LiveComplete
<1> QED BY <1>2, <1>3, <1>7, <1>8 DEF IInv

LEMMA ReloadInv ==
    ASSUME IInv, NEW r \in Request, Reload(r) \/ ReloadFailed(r)
    PROVE  IInv'
<1>1. PICK outcome \in {"saved", "active"} :
        /\ pc' = [pc EXCEPT ![r] = "done"]
        /\ reply' = [reply EXCEPT ![r] = outcome]
        /\ lastReload' = outcome
  BY DEF Reload, ReloadFailed, Answered
<1>2. UNCHANGED <<fs, raced, op, next, fd, up, crashes>>
  BY DEF Reload, ReloadFailed, file
<1>3. loaded' = loaded \/ (loaded' \in Parsed(fs, Seeded, NoConfig) /\ loaded' # NoConfig)
  BY DEF Reload, ReloadFailed, Loads
<1>4. loaded' \in Config
  BY <1>3, Reads DEF IInv, TypeOK, OnlyAccepted
<1>5. TypeOK'
  BY <1>1, <1>2, <1>4 DEF IInv, TypeOK, Stage
<1>6. \A q \in Request : pc'[q] = pc[q] \/ pc'[q] = "done"
  BY <1>1 DEF IInv, TypeOK
<1> QED BY <1>2, <1>5, <1>6
     DEF IInv, OnlyAccepted, NextAccepted, PathsApart, OneWriter, WriterOwnsTmp, WriterHoldsInode,
         LiveComplete, DownIsQuiet, Quiet, Writing

LEMMA StepInv == IInv /\ [Next]_vars => IInv'
<1> SUFFICES ASSUME IInv, [Next]_vars PROVE IInv'
  OBVIOUS
<1>1. CASE UNCHANGED vars
  BY <1>1 DEF vars, file, request, IInv, TypeOK, OnlyAccepted, NextAccepted, PathsApart,
              OneWriter, WriterOwnsTmp, WriterHoldsInode, LiveComplete, DownIsQuiet,
              Quiet, Writing
<1>2. CASE Start
  BY <1>2, StartInv
<1>3. CASE Crash
  BY <1>3, CrashInv
<1>4. ASSUME NEW r \in Request, NEW o \in Op, Reject(r, o) \/ ReadLive(r, o)
      PROVE  IInv'
  BY <1>4, RejectInv, ReadLiveInv
<1>5. ASSUME NEW r \in Request,
             \/ OpenTmp(r) \/ WriteTmp(r) \/ RenameTmp(r) \/ SaveFailed(r)
             \/ Reload(r) \/ ReloadFailed(r)
      PROVE  IInv'
  BY <1>5, OpenTmpInv, WriteTmpInv, RenameTmpInv, SaveFailedInv, ReloadInv
<1> QED BY <1>1, <1>2, <1>3, <1>4, <1>5 DEF Next

THEOREM Invariant == Spec => []IInv
BY InitInv, StepInv, PTL DEF Spec

-----------------------------------------------------------------------------
(* What follows from it.                                                   *)

\* Every variable keeps its type.
THEOREM TypeCorrect == Spec => []TypeOK
<1>1. IInv => TypeOK
  BY DEF IInv
<1> QED BY <1>1, Invariant, PTL

\* Every configuration that the Console writes is one that Alertmanager
\* loads, however many requests of sys-alerts.ts interleave and wherever the
\* process dies.
THEOREM AlwaysAccepted == Spec => []OnlyAccepted
<1>1. IInv => OnlyAccepted
  BY DEF IInv
<1> QED BY <1>1, Invariant, PTL

\* The write of channels-store.ts keeps the managed file complete through
\* crashes and failed writes, as long as no two requests of the process are writing.
THEOREM FileStaysComplete == Spec => []FileComplete
<1>1. IInv => FileComplete
  BY DEF IInv, FileComplete, Complete, LiveComplete
<1> QED BY <1>1, Invariant, PTL

-----------------------------------------------------------------------------
(* Acknowledged changes.                                                   *)

\* The file has taken the change of r.
Reached(r) == pc[r] = "reloading" \/ reply[r] \in {"saved", "active"}

\* No other request names the same channel.
Unshared(r) == \A q \in Request \ {r} : op[q] = NoOp \/ op[q].name # op[r].name

Live == fs.text[fs.live].cfg

\* A request is known from its arrival, and is answered at its end.
ServedRequest ==
    \A r \in Request :
        /\ pc[r] = "idle" => op[r] = NoOp
        /\ pc[r] # "idle" => op[r] \in Op
        /\ reply[r] # "none" => pc[r] = "done"

\* What is about to replace the managed file is what its writer wrote.
OwnText == \A r \in Request : pc[r] = "renaming" => fs.text[fs.tmp].cfg = next[r]

OnDisk ==
    \A r \in Request : Reached(r) /\ Unshared(r) => Complete /\ InForce(op[r], Live)

\* What the one writer is about to write has its own change and those that the
\* file has.
Carried ==
    \A w \in Request : Writing(w) =>
        /\ InForce(op[w], next[w])
        /\ \A r \in Request \ {w} : Reached(r) /\ Unshared(r) => InForce(op[r], next[w])

AckInv == ServedRequest /\ (raced \/ (OwnText /\ OnDisk /\ Carried))

\* What a route makes of the configuration has its own change,
LEMMA AppliedInForce ==
    ASSUME NEW c \in Config, NEW o \in Op, NEW n \in Applied(o, c)
    PROVE  InForce(o, n)
<1>1. CASE o.kind = "add"
  <2>1. n = Added(o, c) /\ o.channel.name = o.name
    BY <1>1 DEF Applied, Op
  <2>2. o.channel \in n.channels
    BY <2>1 DEF Added
  <2> QED BY <1>1, <2>1, <2>2 DEF InForce
<1>2. CASE o.kind = "put"
  <2>1. PICK current \in {ch \in c.channels : ch.name = o.name} :
            n = [c EXCEPT !.channels = (@ \ {current}) \cup {MergeKeepSecrets(current, o.channel)}]
    BY <1>2 DEF Applied, Replaced
  <2>2. o.channel \in Channel /\ o.channel.name = o.name /\ current \in Channel
    BY <1>2, <2>1 DEF Op, Config
  <2> DEFINE m == MergeKeepSecrets(current, o.channel)
  <2>3. /\ m.name = o.name /\ m.type = o.channel.type
        /\ m.secret # o.channel.secret => o.channel.secret \in {Blank, Mask}
    BY <2>2 DEF MergeKeepSecrets, Channel
  <2>4. m \in n.channels
    BY <2>1 DEF Config
  <2> HIDE DEF m
  <2> QED BY <1>2, <2>3, <2>4 DEF InForce
<1>3. CASE o.kind = "delete"
  <2>1. n.channels = {ch \in c.channels : ch.name # o.name}
    BY <1>3 DEF Applied, Deleted
  <2> QED BY <1>3, <2>1 DEF InForce, NamesOf
<1>4. CASE o.kind = "default"
  BY <1>4 DEF InForce
<1> QED BY <1>1, <1>2, <1>3, <1>4 DEF Op

\* and leaves the channels of other names as they are.
LEMMA AppliedOthers ==
    ASSUME NEW c \in Config, NEW o \in Op, NEW n \in Applied(o, c)
    PROVE  {ch \in n.channels : ch.name # o.name} = {ch \in c.channels : ch.name # o.name}
<1>1. CASE o.kind = "add"
  <2>1. n = Added(o, c) /\ o.channel.name = o.name
    BY <1>1 DEF Applied, Op
  <2> QED BY <2>1 DEF Added
<1>2. CASE o.kind = "put"
  <2>1. PICK current \in {ch \in c.channels : ch.name = o.name} :
            n = [c EXCEPT !.channels = (@ \ {current}) \cup {MergeKeepSecrets(current, o.channel)}]
    BY <1>2 DEF Applied, Replaced
  <2>2. o.channel \in Channel /\ o.channel.name = o.name /\ current \in Channel
    BY <1>2, <2>1 DEF Op, Config
  <2> DEFINE m == MergeKeepSecrets(current, o.channel)
  <2>3. m.name = o.name
    BY <2>2, MergedChannel
  <2>4. n.channels = (c.channels \ {current}) \cup {m}
    BY <2>1 DEF Config
  <2> HIDE DEF m
  <2> QED BY <2>1, <2>3, <2>4
<1>3. CASE o.kind = "delete"
  <2>1. n.channels = {ch \in c.channels : ch.name # o.name}
    BY <1>3 DEF Applied, Deleted
  <2> QED BY <2>1
<1>4. CASE o.kind = "default"
  <2>1. n.channels = c.channels
    BY <1>4 DEF Applied, Config
  <2> QED BY <2>1
<1> QED BY <1>1, <1>2, <1>3, <1>4 DEF Op

\* So a change of another name stays in force.
LEMMA OthersInForce ==
    ASSUME NEW c \in Config, NEW o \in Op, NEW n \in Applied(o, c),
           NEW p \in Op, p.name # o.name, InForce(p, c)
    PROVE  InForce(p, n)
<1>1. \A ch : ch.name # o.name => (ch \in n.channels <=> ch \in c.channels)
  BY AppliedOthers
<1>2. CASE p.kind \in {"add", "put"}
  <2>1. PICK ch \in c.channels :
                /\ ch.name = p.name /\ ch.type = p.channel.type
                /\ ch.secret # p.channel.secret => p.channel.secret \in {Blank, Mask}
    BY <1>2 DEF InForce
  <2>2. ch \in n.channels
    BY <1>1, <2>1
  <2> QED BY <1>2, <2>1, <2>2 DEF InForce
<1>3. CASE p.kind = "delete"
  BY <1>1, <1>3 DEF InForce, NamesOf
<1>4. CASE p.kind = "default"
  BY <1>4 DEF InForce
<1> QED BY <1>2, <1>3, <1>4 DEF Op

\* A step that the file, the writers and what they write survive.
LEMMA AckFrame ==
    ASSUME OnDisk, Carried, op' = op,
           \A q \in Request : Reached(q)' => Reached(q),
           \A q \in Request : Writing(q)' => Writing(q) /\ next'[q] = next[q],
           Complete => Complete' /\ Live' = Live
    PROVE  OnDisk' /\ Carried'
<1>1. \A q \in Request : Unshared(q)' <=> Unshared(q)
  BY DEF Unshared
<1>2. OnDisk'
  BY <1>1 DEF OnDisk
<1>3. Carried'
  BY <1>1 DEF Carried
<1> QED BY <1>2, <1>3

\* The managed file is not the one that a request alone is writing.
LEMMA LiveUntouched ==
    ASSUME IInv, ~raced, NEW r \in Request, OpenTmp(r) \/ WriteTmp(r) \/ SaveFailed(r)
    PROVE  /\ fs'.live = fs.live /\ (fs.live # NoFile => fs'.text[fs.live] = fs.text[fs.live])
           /\ WriteTmp(r) => fs'.tmp = fs.tmp /\ fs'.text[fs.tmp].cfg = next[r]
<1>1. CASE OpenTmp(r)
  <2>1. PICK i \in Inode : OpensTmp(fs, {fd[q] : q \in Request}, i) /\ fs' = Opened(fs, i)
    BY <1>1 DEF OpenTmp
  <2>2. i # fs.live
    BY <2>1, OpensOther, ChannelsAssumption DEF IInv, PathsApart
  <2>3. fs.live # NoFile => fs.live \in Inode \ {i}
    BY <2>2 DEF IInv, TypeOK, FileSystem
  <2>4. ~WriteTmp(r)
    BY <1>1 DEF OpenTmp, WriteTmp
  <2> QED BY <2>1, <2>3, <2>4, OpeningTmp DEF IInv, TypeOK
<1>2. CASE pc[r] = "writing" /\ fs' \in Written(fs, fd[r], next[r]) \cup PartlyWritten(fs, fd[r], next[r])
  <2>1. fs.tmp = fd[r] /\ fs.text[fd[r]] = EmptyText /\ fd[r] \in Inode
    BY <1>2 DEF IInv, WriterOwnsTmp, WriterHoldsInode
  <2>2. fs.live # NoFile => fs.live \in Inode \ {fd[r]}
    BY <2>1 DEF IInv, TypeOK, FileSystem, PathsApart
  <2>3. WriteTmp(r) => fs' \in Written(fs, fd[r], next[r])
    BY DEF WriteTmp
  <2>4. next[r] \in Config /\ fs \in FileSystem(Config)
    BY DEF IInv, TypeOK
  <2>5. WriteTmp(r) => fs'.tmp = fs.tmp /\ fs'.text[fs.tmp].cfg = next[r]
    BY <2>1, <2>3, <2>4, Writes
  <2> QED BY <1>2, <2>1, <2>2, <2>4, <2>5, Writes, WritesPartly
<1>3. CASE SaveFailed(r) /\ pc[r] # "writing"
  BY <1>3 DEF SaveFailed, WriteTmp
<1> QED BY <1>1, <1>2, <1>3 DEF WriteTmp, SaveFailed

\* A route reads the channels that the file has, and changes its own.
LEMMA ReadLiveAcks ==
    ASSUME IInv, ServedRequest, OnDisk, Carried, ~raced,
           NEW r \in Request, NEW o \in Op, Reject(r, o) \/ ReadLive(r, o), ~raced'
    PROVE  OnDisk' /\ Carried'
<1>1. /\ pc[r] = "idle" /\ op[r] = NoOp /\ reply[r] = "none"
      /\ op' = [op EXCEPT ![r] = o] /\ fs' = fs
  BY DEF Reject, ReadLive, ServedRequest, file
<1>2. /\ op'[r] = o /\ \A q \in Request \ {r} : op'[q] = op[q]
  BY <1>1 DEF IInv, TypeOK
<1>3. \A q \in Request \ {r} : Unshared(q)' => Unshared(q) /\ (op[q] # NoOp => o.name # op[q].name)
  BY <1>1, <1>2, ChannelsAssumption DEF Unshared
<1>4. Complete' = Complete /\ Live' = Live
  BY <1>1, Zenon DEF Complete, Live
<1>5. PICK c \in Parsed(fs, Seeded, NoConfig) :
        \/ /\ pc' = [pc EXCEPT ![r] = "done"]
           /\ reply' \in {[reply EXCEPT ![r] = "failed"], [reply EXCEPT ![r] = "refused"]}
           /\ next' = next
        \/ /\ c # NoConfig
           /\ \E n \in Applied(o, c) : next' = [next EXCEPT ![r] = n]
           /\ pc' = [pc EXCEPT ![r] = "opening"]
           /\ raced' = (raced \/ \E q \in Request : Writing(q))
           /\ UNCHANGED reply
  <2>1. CASE Reject(r, o)
    <3>1. Parsed(fs, Seeded, NoConfig) # {}
      BY DEF Parsed
    <3> QED BY <2>1, <3>1 DEF Reject
  <2>2. CASE ReadLive(r, o)
    BY <2>2 DEF ReadLive
  <2> QED BY <2>1, <2>2
<1>6. /\ \A q \in Request \ {r} : pc'[q] = pc[q] /\ reply'[q] = reply[q]
      /\ pc'[r] \in {"done", "opening"} /\ reply'[r] \notin {"saved", "active"}
  BY <1>1, <1>5 DEF IInv, TypeOK
<1>7. ~Reached(r)' /\ \A q \in Request \ {r} : Reached(q)' <=> Reached(q)
  BY <1>6 DEF Reached
<1>8. OnDisk'
  BY <1>2, <1>3, <1>4, <1>7 DEF OnDisk
<1>9. CASE pc'[r] = "done"
  <2>1. next' = next
    BY <1>1, <1>5, <1>9 DEF IInv, TypeOK
  <2>2. \A q \in Request : Writing(q)' => q # r /\ Writing(q)
    BY <1>6, <1>9 DEF Writing
  <2> QED BY <1>2, <1>3, <1>7, <1>8, <2>1, <2>2 DEF Carried
<1>10. CASE pc'[r] = "opening"
  <2>1. /\ c # NoConfig
        /\ \E n \in Applied(o, c) : next' = [next EXCEPT ![r] = n]
        /\ \A q \in Request : ~Writing(q)
    BY <1>1, <1>5, <1>10 DEF IInv, TypeOK
  <2>2. PICK n \in Applied(o, c) : next' = [next EXCEPT ![r] = n]
    BY <2>1
  <2>3. c \in Config
    BY <2>1, Reads DEF IInv, TypeOK, OnlyAccepted
  <2>4. Complete => c = Live
    BY ParsedWhole DEF IInv, TypeOK, Complete, Live
  <2>5. next'[r] = n
    BY <2>2 DEF IInv, TypeOK
  <2>6. \A q \in Request \ {r} : ~Writing(q)'
    BY <1>6, <2>1 DEF Writing
  <2>7. ASSUME NEW q \in Request \ {r}, Reached(q)', Unshared(q)'
        PROVE  InForce(op'[q], next'[r])
    <3>1. Reached(q) /\ Unshared(q) /\ pc[q] # "idle"
      BY <1>3, <1>7, <2>7 DEF Reached, ServedRequest
    <3>2. op[q] \in Op /\ o.name # op[q].name
      BY <1>3, <2>7, <3>1, ChannelsAssumption DEF ServedRequest
    <3>3. Complete /\ InForce(op[q], Live)
      BY <3>1 DEF OnDisk
    <3>4. InForce(op[q], c)
      BY <2>4, <3>3
    <3> QED BY <1>2, <2>3, <2>5, <3>2, <3>4, OthersInForce
  <2>8. InForce(op'[r], next'[r])
    BY <1>2, <2>3, <2>5, AppliedInForce
  <2> QED BY <1>8, <2>6, <2>7, <2>8 DEF Carried
<1> QED BY <1>6, <1>9, <1>10

\* The change of the writer takes effect, and those that it carries stay.
LEMMA RenameTmpAcks ==
    ASSUME IInv, OwnText, OnDisk, Carried, ~raced, NEW r \in Request, RenameTmp(r)
    PROVE  OnDisk' /\ Carried'
<1>1. /\ UNCHANGED <<op, next>> /\ pc[r] = "renaming" /\ Writing(r)
      /\ fs.tmp # NoFile /\ fs.text[fs.tmp].cfg = next[r] /\ fs.text[fs.tmp].state = "whole"
  BY DEF RenameTmp, IInv, WriterOwnsTmp, OwnText, Writing
<1>2. /\ fs' = Renamed(fs) /\ pc' = [pc EXCEPT ![r] = "reloading"] /\ reply' = reply
  BY <1>1 DEF RenameTmp
<1>3. fs'.live = fs.tmp /\ fs'.text = fs.text
  BY <1>1, <1>2, Renames DEF IInv, TypeOK
<1>4. Complete' /\ Live' = next[r]
  BY <1>1, <1>3 DEF Complete, Live
<1>5. pc'[r] = "reloading" /\ \A q \in Request \ {r} : pc'[q] = pc[q]
  BY <1>2 DEF IInv, TypeOK
<1>6. \A q \in Request : Unshared(q)' <=> Unshared(q)
  BY <1>1 DEF Unshared
<1>7. \A q \in Request \ {r} : Reached(q)' <=> Reached(q)
  BY <1>2, <1>5 DEF Reached
<1>8. OnDisk'
  BY <1>1, <1>4, <1>6, <1>7 DEF OnDisk, Carried
<1>9. \A q \in Request : ~Writing(q)'
  <2>1. \A q \in Request \ {r} : ~Writing(q)
    BY <1>1 DEF IInv, OneWriter
  <2> QED BY <1>5, <2>1 DEF Writing
<1> QED BY <1>8, <1>9 DEF Carried

\* The other steps change no channel that is stored or about to be.
LEMMA OtherAcks ==
    ASSUME IInv, OnDisk, Carried, ~raced, NEW r \in Request,
           OpenTmp(r) \/ WriteTmp(r) \/ SaveFailed(r) \/ Reload(r) \/ ReloadFailed(r)
    PROVE  OnDisk' /\ Carried'
<1>1. op' = op /\ next' = next
  BY DEF OpenTmp, WriteTmp, SaveFailed, Reload, ReloadFailed
<1>2. Complete => Complete' /\ Live' = Live
  <2>1. CASE OpenTmp(r) \/ WriteTmp(r) \/ SaveFailed(r)
    BY <2>1, LiveUntouched DEF Complete, Live
  <2>2. CASE fs' = fs
    BY <2>2 DEF Complete, Live
  <2> QED BY <2>1, <2>2 DEF Reload, ReloadFailed, file
<1>3. \A q \in Request \ {r} : pc'[q] = pc[q] /\ reply'[q] = reply[q]
  BY DEF OpenTmp, WriteTmp, SaveFailed, Reload, ReloadFailed, Answered, IInv, TypeOK
<1>4. /\ Reached(r)' => Reached(r)
      /\ Writing(r)' => Writing(r)
  BY DEF OpenTmp, WriteTmp, SaveFailed, Reload, ReloadFailed, Answered, IInv, TypeOK, Reached,
         Writing
<1>5. \A q \in Request : Reached(q)' => Reached(q)
  BY <1>3, <1>4 DEF Reached
<1>6. \A q \in Request : Writing(q)' => Writing(q) /\ next'[q] = next[q]
  BY <1>1, <1>3, <1>4 DEF Writing
<1> QED BY <1>1, <1>2, <1>5, <1>6, AckFrame

\* A step of requests that do not race keeps what was acknowledged.
LEMMA AckStep ==
    ASSUME IInv, ServedRequest, OwnText, OnDisk, Carried, ~raced, [Next]_vars, ~raced'
    PROVE  OnDisk' /\ Carried'
<1>1. CASE UNCHANGED vars
  <2>1. UNCHANGED <<fs, pc, op, next, reply>>
    BY <1>1 DEF vars, request, file
  <2> QED BY <2>1, AckFrame DEF Complete, Live, Reached, Writing
<1>2. CASE Start
  <2>1. UNCHANGED <<pc, op, next, reply>> /\ (fs.live # NoFile => fs' = fs)
    BY <1>2 DEF Start, request
  <2>2. Complete => Complete' /\ Live' = Live
    BY <2>1 DEF Complete, Live
  <2> QED BY <2>1, <2>2, AckFrame DEF Reached, Writing
<1>3. CASE Crash
  <2>1. fs'.live = fs.live /\ fs'.text = fs.text /\ UNCHANGED <<op, next>>
    BY <1>3 DEF Crash, IInv, TypeOK, FileSystem
  <2>2. Complete => Complete' /\ Live' = Live
    BY <2>1 DEF Complete, Live
  <2>3. \A q \in Request : ~Writing(q)' /\ (Reached(q)' => Reached(q))
    BY <1>3 DEF Crash, Reached, Writing, IInv, TypeOK
  <2> QED BY <2>1, <2>2, <2>3, AckFrame
<1>4. ASSUME NEW r \in Request, NEW o \in Op, Reject(r, o) \/ ReadLive(r, o)
      PROVE  OnDisk' /\ Carried'
  BY <1>4, ReadLiveAcks
<1>5. ASSUME NEW r \in Request,
             \/ OpenTmp(r) \/ WriteTmp(r) \/ RenameTmp(r) \/ SaveFailed(r)
             \/ Reload(r) \/ ReloadFailed(r)
      PROVE  OnDisk' /\ Carried'
  BY <1>5, RenameTmpAcks, OtherAcks
<1> QED BY <1>1, <1>2, <1>3, <1>4, <1>5 DEF Next

\* A request writes the configuration that it made, into a file that is its own.
LEMMA OwnTextStep ==
    ASSUME IInv, OwnText, ~raced, [Next]_vars, ~raced'
    PROVE  OwnText'
<1>1. CASE UNCHANGED vars \/ Start
  <2>1. UNCHANGED <<pc, next>>
    BY <1>1 DEF vars, request, Start
  <2>2. fs' = fs \/ Quiet
    BY <1>1 DEF vars, file, Start, IInv, DownIsQuiet
  <2> QED BY <2>1, <2>2 DEF OwnText, Quiet
<1>2. CASE Crash
  <2>1. \A q \in Request : pc'[q] # "renaming"
    BY <1>2 DEF Crash, IInv, TypeOK
  <2> QED BY <2>1 DEF OwnText
<1>3. ASSUME NEW r \in Request, NEW o \in Op, Reject(r, o) \/ ReadLive(r, o)
      PROVE  OwnText'
  <2>1. /\ fs' = fs /\ \A q \in Request \ {r} : pc'[q] = pc[q] /\ next'[q] = next[q]
        /\ pc'[r] # "renaming"
    BY <1>3 DEF Reject, ReadLive, file, IInv, TypeOK
  <2> QED BY <2>1 DEF OwnText
<1>4. ASSUME NEW r \in Request,
             OpenTmp(r) \/ WriteTmp(r) \/ RenameTmp(r) \/ SaveFailed(r)
      PROVE  OwnText'
  <2>1. \A q \in Request \ {r} : ~Writing(q) /\ pc'[q] = pc[q]
    BY <1>4 DEF IInv, TypeOK, OneWriter, OpenTmp, WriteTmp, RenameTmp, SaveFailed, Writing
  <2>2. pc'[r] = "renaming" => WriteTmp(r)
    BY <1>4 DEF IInv, TypeOK, OpenTmp, RenameTmp, SaveFailed
  <2>3. next' = next
    BY <1>4 DEF OpenTmp, WriteTmp, RenameTmp, SaveFailed
  <2> QED BY <2>1, <2>2, <2>3, LiveUntouched DEF OwnText, Writing
<1>5. ASSUME NEW r \in Request, Reload(r) \/ ReloadFailed(r)
      PROVE  OwnText'
  BY <1>5 DEF Reload, ReloadFailed, Answered, file, OwnText, IInv, TypeOK
<1> QED BY <1>1, <1>2, <1>3, <1>4, <1>5 DEF Next

\* Requests that have raced have raced.
LEMMA RacedStays == ASSUME [Next]_vars, raced PROVE raced'
<1>1. CASE Start \/ Crash \/ UNCHANGED vars
  BY <1>1, Zenon DEF Start, Crash, vars, file
<1>2. ASSUME NEW r \in Request, NEW o \in Op, Reject(r, o) \/ ReadLive(r, o) PROVE raced'
  BY <1>2, Zenon DEF Reject, ReadLive, file
<1>3. ASSUME NEW r \in Request, OpenTmp(r) \/ WriteTmp(r) \/ RenameTmp(r) \/ SaveFailed(r)
      PROVE  raced'
  BY <1>3, Zenon DEF OpenTmp, WriteTmp, RenameTmp, SaveFailed
<1>4. ASSUME NEW r \in Request, Reload(r) \/ ReloadFailed(r) PROVE raced'
  BY <1>4, Zenon DEF Reload, ReloadFailed, file
<1> QED BY <1>1, <1>2, <1>3, <1>4, Zenon DEF Next

\* A request comes once, and is answered when it ends.
LEMMA ServedStep == ASSUME IInv, ServedRequest, [Next]_vars PROVE ServedRequest'
<1>1. CASE UNCHANGED vars \/ Start
  BY <1>1 DEF vars, request, Start, ServedRequest
<1>2. CASE Crash
  BY <1>2 DEF Crash, ServedRequest
<1>3. ASSUME NEW r \in Request, NEW o \in Op, Reject(r, o) \/ ReadLive(r, o) PROVE ServedRequest'
  <2>1. /\ op' = [op EXCEPT ![r] = o] /\ pc[r] = "idle"
        /\ \/ /\ pc' = [pc EXCEPT ![r] = "done"]
              /\ reply' \in {[reply EXCEPT ![r] = "failed"], [reply EXCEPT ![r] = "refused"]}
           \/ pc' = [pc EXCEPT ![r] = "opening"] /\ reply' = reply
    BY <1>3 DEF Reject, ReadLive
  <2> QED BY <2>1 DEF ServedRequest, IInv, TypeOK
<1>4. ASSUME NEW r \in Request,
             \/ OpenTmp(r) \/ WriteTmp(r) \/ RenameTmp(r) \/ SaveFailed(r)
             \/ Reload(r) \/ ReloadFailed(r)
      PROVE  ServedRequest'
  <2>1. /\ op' = op /\ pc[r] \notin {"idle", "done"} /\ pc'[r] # "idle"
        /\ \A q \in Request \ {r} : pc'[q] = pc[q] /\ reply'[q] = reply[q]
        /\ reply'[r] = reply[r] \/ pc'[r] = "done"
    BY <1>4 DEF OpenTmp, WriteTmp, RenameTmp, SaveFailed, Reload, ReloadFailed, Answered, Writing,
                IInv, TypeOK
  <2> QED BY <2>1 DEF ServedRequest
<1> QED BY <1>1, <1>2, <1>3, <1>4 DEF Next

LEMMA AckHolds == Spec => []AckInv
<1>1. Init => AckInv
  BY DEF Init, AckInv, ServedRequest, OwnText, OnDisk, Carried, Reached, Writing
<1>2. IInv /\ AckInv /\ [Next]_vars => AckInv'
  BY AckStep, OwnTextStep, ServedStep, RacedStays DEF AckInv
<1> QED BY <1>1, <1>2, Invariant, PTL DEF Spec

\* A change of a channel that was acknowledged is in the managed file for ever,
\* unless requests raced or another one named the same channel.
THEOREM AckedChannelsStay == Spec => []AckedUnlessRaced
<1>1. AckInv => AckedUnlessRaced
  BY DEF AckInv, OnDisk, Reached, Unshared, Live, AckedUnlessRaced, AckedOnDisk
<1> QED BY <1>1, AckHolds, PTL

-----------------------------------------------------------------------------
(* The store is atomic.                                                    *)

\* Until requests overlap, what the one writer is about to put in place is what its
\* route makes of the configuration that is stored now, not only of the one it read.
FreshOutcome ==
    raced \/ \A w \in Request : Writing(w) =>
                 op[w] \in Op /\ ~Refused(op[w], Value) /\ next[w] \in Applied(op[w], Value)

AtomicInv == IInv /\ AckInv /\ FreshOutcome

\* What a phase says of the stage and the answer.
PhaseSays(p, stage, answer) ==
    /\ p = "new" <=> stage = "idle"
    /\ p = "begun" <=> stage \in {"opening", "writing", "renaming"}
    /\ p = "effective" <=> stage = "reloading"
    /\ p = "acknowledged" <=> stage = "done" /\ answer \in {"saved", "active"}
    /\ p = "over" <=> stage = "done" /\ answer \notin {"saved", "active"}

LEMMA PhaseOf ==
    ASSUME TypeOK, TypeOK', NEW r \in Request
    PROVE  /\ PhaseSays(Phases[r], pc[r], reply[r])
           /\ PhaseSays(Phases'[r], pc'[r], reply'[r])
           /\ {Phases[r], Phases'[r]} \subseteq {"new", "begun", "effective", "acknowledged", "over"}
<1>1. pc[r] \in Stage /\ pc'[r] \in Stage
  BY DEF TypeOK
<1>2. PhaseSays(Phases[r], pc[r], reply[r])
      /\ Phases[r] \in {"new", "begun", "effective", "acknowledged", "over"}
  BY <1>1 DEF Phases, Phase, Writing, PhaseSays, Stage
<1>3. PhaseSays(Phases'[r], pc'[r], reply'[r])
      /\ Phases'[r] \in {"new", "begun", "effective", "acknowledged", "over"}
  BY <1>1 DEF Phases, Phase, Writing, PhaseSays, Stage
<1> QED BY <1>2, <1>3

\* When the stages and answers of all requests but some are kept, so are the phases.
LEMMA PhaseMoves ==
    ASSUME NEW S \in SUBSET Request, NEW p,
           \A r \in Request \ S : pc'[r] = pc[r] /\ reply'[r] = reply[r],
           \A r \in S : Phases'[r] = p
    PROVE  Phases' = [r \in Request |-> IF r \in S THEN p ELSE Phases[r]]
<1>1. ASSUME NEW r \in Request \ S PROVE Phases'[r] = Phases[r]
  <2>1. pc'[r] = pc[r] /\ reply'[r] = reply[r]
    OBVIOUS
  <2>2. Phase(r)' = Phase(r)
    BY <2>1 DEF Phase, Writing
  <2>3. Phases[r] = Phase(r) /\ Phases'[r] = Phase(r)'
    BY DEF Phases
  <2> QED BY <2>2, <2>3
<1>2. Phases' = [r \in Request |-> Phases'[r]]
  BY DEF Phases
<1> QED BY <1>1, <1>2

LEMMA PhaseMovesOn ==
    ASSUME NEW r \in Request, NEW p,
           \A q \in Request \ {r} : pc'[q] = pc[q] /\ reply'[q] = reply[q],
           Phases'[r] = p
    PROVE  Phases' = [Phases EXCEPT ![r] = p]
<1>1. Phases' = [q \in Request |-> IF q \in {r} THEN p ELSE Phases[q]]
  <2>1. {r} \in SUBSET Request /\ \A q \in {r} : Phases'[q] = p
    OBVIOUS
  <2> QED BY <2>1, PhaseMoves, Zenon
<1> QED BY <1>1 DEF Phases

LEMMA OutcomesAre ==
    ASSUME NEW o \in Op, NEW c \in Config, ~Refused(o, c)
    PROVE  Outcomes[o][c] = Applied(o, c)
<1>1. c # NoConfig
  BY ChannelsAssumption
<1> QED BY <1>1 DEF Outcomes

\* What is stored when no requests overlapped.
LEMMA ValueRead ==
    ASSUME IInv, ~raced
    PROVE  /\ Value \in Config
           /\ \A c \in Parsed(fs, Seeded, NoConfig) : c = Value
<1>1. fs \in FileSystem(Config) /\ Seeded \in Config
  BY DEF IInv, TypeOK, Seeded, Config
<1>2. CASE fs.live = NoFile
  BY <1>1, <1>2 DEF Value, Parsed
<1>3. CASE fs.live # NoFile
  <2>1. fs.text[fs.live].state = "whole" /\ fs.text[fs.live] \in Text(Config)
    BY <1>1, <1>3 DEF IInv, LiveComplete, FileSystem
  <2>2. fs.text[fs.live] # EmptyText /\ fs.text[fs.live].cfg \in Config
    BY <2>1, TextFacts
  <2>3. Value = fs.text[fs.live].cfg
    BY <1>3, <2>1, <2>2 DEF Value
  <2>4. \A c \in Parsed(fs, Seeded, NoConfig) : c = fs.text[fs.live].cfg
    BY <1>1, <1>3, <2>1, ParsedWhole
  <2> QED BY <2>2, <2>3, <2>4
<1> QED BY <1>2, <1>3

\* It stays when the managed file does.
LEMMA ValueStays ==
    ASSUME fs'.live = fs.live, fs.live # NoFile => fs'.text[fs.live] = fs.text[fs.live]
    PROVE  Value' = Value
BY DEF Value

\* The initial file holds a configuration.
LEMMA StoreInit == Init => FreshOutcome /\ Store!Init
<1> SUFFICES ASSUME Init PROVE FreshOutcome /\ Store!Init
  OBVIOUS
<1>1. Value \in Config
  BY InitInv, ValueRead DEF Init
<1>2. Phases = [r \in Request |-> "new"]
  <2>1. \A r \in Request : Phase(r) = "new"
    BY DEF Init, Phase, Writing
  <2> QED BY <2>1 DEF Phases
<1>3. FreshOutcome
  BY DEF Init, FreshOutcome, Writing
<1> QED BY <1>1, <1>2, <1>3 DEF Init, Store!Init

\* A step that is none for the store.
LEMMA StoreIdles ==
    ASSUME TypeOK, TypeOK', UNCHANGED <<op, raced, next>>, Value' = Value,
           \A r \in Request : reply'[r] = reply[r] /\ (pc'[r] = pc[r] \/ (Writing(r) /\ Writing(r)')),
           FreshOutcome
    PROVE  FreshOutcome' /\ UNCHANGED Store!storeVars
<1>1. \A r \in Request : Phases'[r] = Phases[r]
  BY PhaseOf DEF PhaseSays, Writing
<1>2. Phases' = Phases
  BY <1>1 DEF Phases
<1>3. FreshOutcome'
  BY DEF FreshOutcome, Writing
<1> QED BY <1>2, <1>3 DEF Store!storeVars

\* Two requests at work.
LEMMA StoreRaces ==
    ASSUME IInv, IInv', [Next]_vars, raced'
    PROVE  FreshOutcome' /\ Store!Next
<1>1. FreshOutcome'
  BY DEF FreshOutcome
<1>2. CASE raced
  <2>1. Store!Overlap
    BY <1>2, Zenon DEF Store!Overlap
  <2> QED BY <1>1, <2>1, Zenon DEF Store!Next
<1>3. CASE ~raced
  <2>1. PICK r \in Request, o \in Op : ReadLive(r, o)
    <3>1. CASE UNCHANGED vars \/ Start \/ Crash
      BY <1>3, <3>1, Zenon DEF vars, file, Start, Crash
    <3>2. ASSUME NEW r \in Request, NEW o \in Op, Reject(r, o) PROVE FALSE
      BY <1>3, <3>2, Zenon DEF Reject, file
    <3>3. ASSUME NEW r \in Request,
                 \/ OpenTmp(r) \/ WriteTmp(r) \/ RenameTmp(r) \/ SaveFailed(r)
                 \/ Reload(r) \/ ReloadFailed(r)
          PROVE  FALSE
      BY <1>3, <3>3, Zenon DEF OpenTmp, WriteTmp, RenameTmp, SaveFailed, Reload, ReloadFailed, file
    <3> QED BY <3>1, <3>2, <3>3 DEF Next
  <2>2. /\ pc[r] = "idle" /\ pc' = [pc EXCEPT ![r] = "opening"]
        /\ \E q \in Request : Writing(q)
    BY <1>3, <2>1, Zenon DEF ReadLive
  <2>3. PICK q \in Request : Writing(q)
    BY <2>2
  <2>4. q # r /\ pc'[q] = pc[q] /\ pc'[r] = "opening"
    BY <2>2, <2>3 DEF Writing, IInv, TypeOK
  <2>5. Phases'[q] = "begun" /\ Phases'[r] = "begun"
    BY <2>3, <2>4, PhaseOf DEF IInv, PhaseSays, Writing
  <2> QED BY <1>1, <2>4, <2>5 DEF Store!Next, Store!Overlap
<1> QED BY <1>2, <1>3

\* The steps of a process that starts or dies.
LEMMA StoreStarts ==
    ASSUME AtomicInv, IInv', ~raced, ~raced', Start
    PROVE  FreshOutcome' /\ UNCHANGED Store!storeVars
<1>1. UNCHANGED <<pc, op, next, reply, raced>>
  BY DEF Start, request
<1>2. Value' = Value
  <2>1. CASE fs.live # NoFile
    BY <2>1, ValueStays DEF Start
  <2>2. CASE fs.live = NoFile
    <3>1. fs' \in Seedings(fs, Seeded) /\ fs \in FileSystem(Config) /\ Seeded \in Config
      BY <2>2 DEF Start, AtomicInv, IInv, TypeOK, Seeded, Config
    <3>2. fs'.live # NoFile => fs'.text[fs'.live] = Whole(Seeded)
      BY <2>2, <3>1, Seeds, ChannelsAssumption
    <3>3. Whole(Seeded).cfg = Seeded /\ Whole(Seeded).state = "whole" /\ Whole(Seeded) # EmptyText
      BY <3>1, MakeText
    <3> QED BY <2>2, <3>2, <3>3 DEF Value
  <2> QED BY <2>1, <2>2
<1>3. \A r \in Request : reply'[r] = reply[r] /\ (pc'[r] = pc[r] \/ (Writing(r) /\ Writing(r)'))
  <2>1. pc' = pc /\ reply' = reply
    BY <1>1
  <2> QED BY <2>1, Zenon
<1>4. TypeOK /\ TypeOK' /\ FreshOutcome
  BY DEF AtomicInv, IInv
<1> QED BY <1>1, <1>2, <1>3, <1>4, StoreIdles

LEMMA StoreDies ==
    ASSUME AtomicInv, IInv', ~raced, ~raced', Crash
    PROVE  FreshOutcome' /\ Store!Next
<1> DEFINE S == {r \in Request : pc[r] \notin {"idle", "done"}}
<1>1. /\ fs'.live = fs.live /\ fs'.text = fs.text
      /\ UNCHANGED <<op, next, raced>>
      /\ \A r \in S : pc'[r] = "done" /\ reply'[r] = "lost"
      /\ \A r \in Request \ S : pc'[r] = pc[r] /\ reply'[r] = reply[r]
  BY DEF Crash, AtomicInv, IInv, TypeOK, FileSystem
<1>2. Value' = Value
  BY <1>1, ValueStays
<1>3. \A r \in S : Phases'[r] = "over" /\ Phases[r] \in {"begun", "effective"}
  BY <1>1, PhaseOf DEF AtomicInv, IInv, TypeOK, Stage, PhaseSays
<1>4. FreshOutcome'
  BY <1>1 DEF FreshOutcome, Writing
<1> HIDE DEF S
<1>5. S \in SUBSET Request
  BY DEF S
<1>6. Phases' = [r \in Request |-> IF r \in S THEN "over" ELSE Phases[r]]
  <2>1. \A r \in Request \ S : pc'[r] = pc[r] /\ reply'[r] = reply[r]
    BY <1>1
  <2>2. \A r \in S : Phases'[r] = "over"
    BY <1>3
  <2> QED BY <1>5, <2>1, <2>2, PhaseMoves, Zenon
<1>7. Store!GiveUp(S)
  BY <1>1, <1>2, <1>3, <1>6 DEF Store!GiveUp
<1> QED BY <1>4, <1>5, <1>7 DEF Store!Next

\* A request that comes: refused, or its work starts.
LEMMA StoreReads ==
    ASSUME AtomicInv, IInv', ~raced, ~raced',
           NEW r \in Request, NEW o \in Op, Reject(r, o) \/ ReadLive(r, o)
    PROVE  FreshOutcome' /\ Store!Next
<1>1. /\ pc[r] = "idle" /\ op' = [op EXCEPT ![r] = o] /\ fs' = fs
      /\ \/ /\ pc' = [pc EXCEPT ![r] = "done"] /\ next' = next
            /\ reply' \in {[reply EXCEPT ![r] = "failed"], [reply EXCEPT ![r] = "refused"]}
         \/ /\ pc' = [pc EXCEPT ![r] = "opening"] /\ reply' = reply
            /\ \A q \in Request : ~Writing(q)
            /\ \E c \in Parsed(fs, Seeded, NoConfig) :
                  ~Refused(o, c) /\ \E n \in Applied(o, c) : next' = [next EXCEPT ![r] = n]
  <2>1. CASE Reject(r, o)
    BY <2>1 DEF Reject, file
  <2>2. CASE ReadLive(r, o)
    BY <2>2 DEF ReadLive
  <2> QED BY <2>1, <2>2
<1>2. /\ op'[r] = o /\ \A q \in Request \ {r} : op'[q] = op[q]
      /\ op' = [op EXCEPT ![r] = op'[r]]
  BY <1>1 DEF AtomicInv, IInv, TypeOK
<1>3. \A q \in Request \ {r} : pc'[q] = pc[q] /\ reply'[q] = reply[q]
  BY <1>1 DEF AtomicInv, IInv, TypeOK
<1>4. /\ Value' = Value /\ Value \in Config
      /\ \A c \in Parsed(fs, Seeded, NoConfig) : c = Value
  BY <1>1, ValueStays, ValueRead DEF AtomicInv
<1>5. Phases[r] = "new" /\ raced' = raced
  <2>1. Phases[r] = "new"
    BY <1>1, PhaseOf DEF AtomicInv, IInv, PhaseSays
  <2>2. raced \in BOOLEAN /\ raced' \in BOOLEAN
    BY DEF AtomicInv, IInv, TypeOK
  <2>3. raced' = raced
    BY <2>2, Zenon
  <2> QED BY <2>1, <2>3
<1>6. Store!Arrives(r)
  BY <1>2, <1>4, <1>5 DEF Store!Arrives
<1>7. CASE /\ pc' = [pc EXCEPT ![r] = "done"] /\ next' = next
           /\ reply' \in {[reply EXCEPT ![r] = "failed"], [reply EXCEPT ![r] = "refused"]}
  <2>1. pc'[r] = "done" /\ reply'[r] \notin {"saved", "active"}
    BY <1>7 DEF AtomicInv, IInv, TypeOK
  <2>2. Phases'[r] = "over"
    BY <2>1, PhaseOf DEF AtomicInv, IInv, PhaseSays
  <2>3. Phases' = [Phases EXCEPT ![r] = "over"]
    BY <1>3, <2>2, PhaseMovesOn
  <2>4. Store!TurnAway(r)
    BY <1>6, <2>3 DEF Store!TurnAway
  <2>5. FreshOutcome'
    BY <1>2, <1>3, <1>4, <1>7, <2>1 DEF FreshOutcome, Writing, AtomicInv
  <2> QED BY <2>4, <2>5 DEF Store!Next
<1>8. CASE /\ pc' = [pc EXCEPT ![r] = "opening"] /\ reply' = reply
           /\ \A q \in Request : ~Writing(q)
           /\ \E c \in Parsed(fs, Seeded, NoConfig) :
                 ~Refused(o, c) /\ \E n \in Applied(o, c) : next' = [next EXCEPT ![r] = n]
  <2>1. ~Refused(o, Value) /\ \E n \in Applied(o, Value) : next' = [next EXCEPT ![r] = n]
    BY <1>4, <1>8
  <2>2. next'[r] \in Applied(o, Value) /\ pc'[r] = "opening"
    BY <1>8, <2>1 DEF AtomicInv, IInv, TypeOK
  <2>3. Phases'[r] = "begun"
    BY <2>2, PhaseOf DEF AtomicInv, IInv, PhaseSays
  <2>4. Phases' = [Phases EXCEPT ![r] = "begun"]
    BY <1>3, <2>3, PhaseMovesOn
  <2>5. \A q \in Request : Phases[q] # "begun"
    BY <1>8, PhaseOf DEF AtomicInv, IInv, PhaseSays, Writing
  <2>6. Outcomes[o][Value] # {}
    <3>1. Outcomes[o][Value] = Applied(o, Value)
      BY <1>4, <2>1, OutcomesAre
    <3> QED BY <2>2, <3>1
  <2>7. Store!Begin(r)
    BY <1>2, <1>6, <2>4, <2>5, <2>6 DEF Store!Begin
  <2>8. FreshOutcome'
    <3>1. \A q \in Request \ {r} : ~Writing(q)'
      BY <1>3, <1>8 DEF Writing
    <3> QED BY <1>2, <1>4, <2>1, <2>2, <3>1 DEF FreshOutcome
  <2> QED BY <2>7, <2>8 DEF Store!Next
<1> QED BY <1>1, <1>7, <1>8

\* The steps of a write leave what is stored as it is,
LEMMA StoreWrites ==
    ASSUME AtomicInv, IInv', ~raced, ~raced', NEW r \in Request,
           OpenTmp(r) \/ WriteTmp(r)
    PROVE  FreshOutcome' /\ UNCHANGED Store!storeVars
<1>1. UNCHANGED <<op, next, reply, raced>>
  BY DEF OpenTmp, WriteTmp
<1>2. Value' = Value
  BY LiveUntouched, ValueStays DEF AtomicInv
<1>3. \A q \in Request : pc'[q] = pc[q] \/ (Writing(q) /\ Writing(q)')
  BY DEF OpenTmp, WriteTmp, Writing, AtomicInv, IInv, TypeOK
<1>4. \A q \in Request : reply'[q] = reply[q]
  BY <1>1, Zenon
<1>5. TypeOK /\ TypeOK' /\ FreshOutcome
  BY DEF AtomicInv, IInv
<1> QED BY <1>1, <1>2, <1>3, <1>4, <1>5, StoreIdles

\* a failed one too,
LEMMA StoreGivesUp ==
    ASSUME AtomicInv, IInv', ~raced, ~raced', NEW r \in Request, SaveFailed(r)
    PROVE  FreshOutcome' /\ Store!Next
<1>1. /\ UNCHANGED <<op, next, raced>> /\ Writing(r)
      /\ pc' = [pc EXCEPT ![r] = "done"] /\ reply' = [reply EXCEPT ![r] = "failed"]
  BY DEF SaveFailed
<1>2. Value' = Value
  BY LiveUntouched, ValueStays DEF AtomicInv
<1>3. /\ pc'[r] = "done" /\ reply'[r] = "failed"
      /\ \A q \in Request \ {r} : pc'[q] = pc[q] /\ reply'[q] = reply[q]
  BY <1>1 DEF AtomicInv, IInv, TypeOK
<1>4. Phases'[r] = "over" /\ Phases[r] = "begun"
  BY <1>1, <1>3, PhaseOf DEF AtomicInv, IInv, PhaseSays, Writing
<1>5. Phases' = [q \in Request |-> IF q \in {r} THEN "over" ELSE Phases[q]]
  <2>1. Phases' = [Phases EXCEPT ![r] = "over"]
    BY <1>3, <1>4, PhaseMovesOn
  <2> QED BY <2>1 DEF Phases
<1>6. Store!GiveUp({r})
  BY <1>1, <1>2, <1>4, <1>5 DEF Store!GiveUp
<1>7. FreshOutcome'
  BY <1>1, <1>2, <1>3 DEF FreshOutcome, Writing, AtomicInv
<1> QED BY <1>6, <1>7 DEF Store!Next

\* and the rename puts in place what is due.
LEMMA StoreRenames ==
    ASSUME AtomicInv, IInv', ~raced, ~raced', NEW r \in Request, RenameTmp(r)
    PROVE  FreshOutcome' /\ Store!Next
<1>1. /\ UNCHANGED <<op, next, raced>> /\ pc[r] = "renaming" /\ Writing(r)
      /\ fs.tmp # NoFile /\ fs.text[fs.tmp].cfg = next[r] /\ fs.text[fs.tmp].state = "whole"
  BY DEF RenameTmp, AtomicInv, IInv, WriterOwnsTmp, AckInv, OwnText, Writing
<1>2. /\ fs' = Renamed(fs) /\ pc' = [pc EXCEPT ![r] = "reloading"] /\ reply' = reply
  BY <1>1 DEF RenameTmp
<1>3. fs'.live = fs.tmp /\ fs'.text = fs.text /\ fs.text[fs.tmp] \in Text(Config)
  BY <1>1, <1>2, Renames DEF AtomicInv, IInv, TypeOK, FileSystem
<1>4. Value' = next[r]
  <2>1. fs.text[fs.tmp] # EmptyText
    BY <1>1, <1>3, TextFacts
  <2> QED BY <1>1, <1>3, <2>1 DEF Value
<1>5. op[r] \in Op /\ Value' \in Applied(op[r], Value) /\ ~Refused(op[r], Value)
  BY <1>1, <1>4 DEF AtomicInv, FreshOutcome
<1>6. Value' \in Outcomes[op[r]][Value]
  BY <1>5, ValueRead, OutcomesAre DEF AtomicInv
<1>7. /\ pc'[r] = "reloading"
      /\ \A q \in Request \ {r} : pc'[q] = pc[q] /\ reply'[q] = reply[q]
  BY <1>2 DEF AtomicInv, IInv, TypeOK
<1>8. Phases[r] = "begun" /\ Phases'[r] = "effective"
  BY <1>1, <1>7, PhaseOf DEF AtomicInv, IInv, PhaseSays
<1>9. Phases' = [Phases EXCEPT ![r] = "effective"]
  BY <1>7, <1>8, PhaseMovesOn
<1>10. Store!TakeEffect(r)
  BY <1>1, <1>6, <1>8, <1>9 DEF Store!TakeEffect
<1>11. FreshOutcome'
  <2>1. \A q \in Request \ {r} : ~Writing(q)
    BY <1>1 DEF AtomicInv, IInv, OneWriter
  <2> QED BY <1>7, <2>1 DEF FreshOutcome, Writing
<1> QED BY <1>10, <1>11 DEF Store!Next

\* An answer after the rename.
LEMMA StoreAnswers ==
    ASSUME AtomicInv, IInv', ~raced, ~raced', NEW r \in Request, Reload(r) \/ ReloadFailed(r)
    PROVE  FreshOutcome' /\ Store!Next
<1>1. PICK outcome \in {"saved", "active"} :
        pc' = [pc EXCEPT ![r] = "done"] /\ reply' = [reply EXCEPT ![r] = outcome]
  BY DEF Reload, ReloadFailed, Answered
<1>2. UNCHANGED <<fs, raced, op, next>> /\ pc[r] = "reloading"
  BY DEF Reload, ReloadFailed, file
<1>3. Value' = Value
  BY <1>2, ValueStays
<1>4. /\ pc'[r] = "done" /\ reply'[r] = outcome
      /\ \A q \in Request \ {r} : pc'[q] = pc[q] /\ reply'[q] = reply[q]
  BY <1>1 DEF AtomicInv, IInv, TypeOK
<1>5. Phases[r] = "effective" /\ Phases'[r] = "acknowledged"
  BY <1>2, <1>4, PhaseOf DEF AtomicInv, IInv, PhaseSays
<1>6. Phases' = [Phases EXCEPT ![r] = "acknowledged"]
  BY <1>4, <1>5, PhaseMovesOn
<1>7. Store!Acknowledge(r)
  BY <1>2, <1>3, <1>5, <1>6 DEF Store!Acknowledge
<1>8. FreshOutcome'
  BY <1>2, <1>3, <1>4 DEF FreshOutcome, Writing, AtomicInv
<1> QED BY <1>7, <1>8 DEF Store!Next

\* Every step of the routes is one of the atomic store, or none.
LEMMA StoreStep ==
    AtomicInv /\ IInv' /\ [Next]_vars => FreshOutcome' /\ [Store!Next]_Store!storeVars
<1> SUFFICES ASSUME AtomicInv, IInv', [Next]_vars
             PROVE  FreshOutcome' /\ [Store!Next]_Store!storeVars
  OBVIOUS
<1>1. CASE raced'
  BY <1>1, StoreRaces DEF AtomicInv
<1>2. CASE ~raced'
  <2>0. ~raced
    BY <1>2, RacedStays
  <2>1. CASE UNCHANGED vars
    <3>1. UNCHANGED <<fs, pc, op, next, reply, raced>>
      BY <2>1 DEF vars, request, file
    <3>2. \A r \in Request : reply'[r] = reply[r] /\ (pc'[r] = pc[r] \/ (Writing(r) /\ Writing(r)'))
      BY <3>1, Zenon
    <3>3. Value' = Value /\ TypeOK /\ TypeOK' /\ FreshOutcome
      BY <3>1, ValueStays DEF AtomicInv, IInv
    <3> QED BY <3>1, <3>2, <3>3, StoreIdles
  <2>2. CASE Start
    BY <1>2, <2>0, <2>2, StoreStarts
  <2>3. CASE Crash
    BY <1>2, <2>0, <2>3, StoreDies
  <2>4. ASSUME NEW r \in Request, NEW o \in Op, Reject(r, o) \/ ReadLive(r, o)
        PROVE  FreshOutcome' /\ Store!Next
    BY <1>2, <2>0, <2>4, StoreReads
  <2>5. ASSUME NEW r \in Request,
               \/ OpenTmp(r) \/ WriteTmp(r) \/ RenameTmp(r) \/ SaveFailed(r)
               \/ Reload(r) \/ ReloadFailed(r)
        PROVE  FreshOutcome' /\ [Store!Next]_Store!storeVars
    BY <1>2, <2>0, <2>5, StoreWrites, StoreRenames, StoreGivesUp, StoreAnswers
  <2> QED BY <2>1, <2>2, <2>3, <2>4, <2>5 DEF Next
<1> QED BY <1>1, <1>2

\* "Write the file atomically" (channels-store.ts): until two requests overlap,
\* a read-modify-write of the routes, with its awaits, crashes, failed writes and
\* restarts, is one atomic change of what is stored when it takes effect.
THEOREM ChannelsStoreIsAtomic == Spec => StoreIsAtomic
<1>1. Init => FreshOutcome /\ Store!Init
  BY StoreInit
<1>2. IInv /\ AckInv /\ FreshOutcome /\ IInv' /\ [Next]_vars
        => FreshOutcome' /\ [Store!Next]_Store!storeVars
  BY StoreStep DEF AtomicInv
<1> QED BY <1>1, <1>2, Invariant, AckHolds, PTL DEF Spec, StoreIsAtomic, Store!Spec

-----------------------------------------------------------------------------
(* What Alertmanager runs.                                                 *)

\* Between the open of the temporary file and its rename.
InTmp(r) == pc[r] \in {"writing", "renaming"}

\* Two requests share the temporary file, or one has had its taken away, so that
\* one of them will fail; or one has failed.
Doomed ==
    \/ \E r \in Request : reply[r] \in {"failed", "lost"}
    \/ \E p, q \in Request : p # q /\ InTmp(p) /\ InTmp(q)
    \/ fs.tmp = NoFile /\ \E r \in Request : InTmp(r)

\* Otherwise whoever has opened the temporary file owns it and the managed file
\* is complete, raced or not; once the latest reload has succeeded Alertmanager
\* runs what it holds, until the next rename.
Sound ==
    /\ \A r \in Request : pc[r] = "writing" => fd[r] = fs.tmp /\ fs.text[fs.tmp] = EmptyText
    /\ \A r \in Request : pc[r] = "renaming" => fs.text[fs.tmp].state = "whole"
    /\ fs.live # NoFile => fs.text[fs.live].state = "whole"
    /\ lastReload = "active" /\ (\A r \in Request : pc[r] # "reloading") => loaded = Live

\* There is a file to reload.
ReloadsFile ==
    /\ \A r \in Request : pc[r] = "reloading" => fs.live # NoFile
    /\ lastReload # "none" => fs.live # NoFile

ActiveInv == ServedRequest /\ ReloadsFile /\ (Doomed \/ Sound)

\* A request that is bound to fail fails.
LEMMA DoomedStays == ASSUME IInv, ServedRequest, Doomed, [Next]_vars PROVE Doomed'
<1>1. CASE UNCHANGED vars
  <2>1. UNCHANGED <<fs, pc, reply>>
    BY <1>1 DEF vars, request, file
  <2> QED BY <2>1 DEF Doomed, InTmp
<1>2. CASE Start
  <2>1. Quiet /\ reply' = reply
    BY <1>2 DEF Start, request, IInv, DownIsQuiet
  <2> QED BY <2>1 DEF Doomed, InTmp, Quiet
<1>3. CASE Crash
  <2>1. \A r \in Request : reply'[r] = IF pc[r] \in {"idle", "done"} THEN reply[r] ELSE "lost"
    BY <1>3 DEF Crash, IInv, TypeOK
  <2>2. \A r \in Request : InTmp(r) => reply'[r] = "lost"
    BY <2>1 DEF InTmp
  <2>3. \A r \in Request : reply[r] \in {"failed", "lost"} => reply'[r] = reply[r]
    BY <2>1 DEF ServedRequest
  <2> QED BY <2>2, <2>3 DEF Doomed
<1>4. ASSUME NEW r \in Request, NEW o \in Op, Reject(r, o) \/ ReadLive(r, o) PROVE Doomed'
  <2>1. /\ fs' = fs /\ pc[r] = "idle"
        /\ \A q \in Request \ {r} : pc'[q] = pc[q] /\ reply'[q] = reply[q]
    BY <1>4 DEF Reject, ReadLive, file, IInv, TypeOK
  <2> QED BY <2>1 DEF Doomed, InTmp, ServedRequest
<1>5. ASSUME NEW r \in Request, OpenTmp(r) PROVE Doomed'
  <2>1. /\ pc[r] = "opening" /\ pc'[r] = "writing" /\ reply' = reply
        /\ \A q \in Request \ {r} : pc'[q] = pc[q]
    BY <1>5 DEF OpenTmp, IInv, TypeOK
  <2>2. InTmp(r)' /\ ~InTmp(r) /\ \A q \in Request \ {r} : InTmp(q)' = InTmp(q)
    BY <2>1 DEF InTmp
  <2> QED BY <2>1, <2>2 DEF Doomed
<1>6. ASSUME NEW r \in Request, WriteTmp(r) PROVE Doomed'
  <2>1. /\ pc[r] = "writing" /\ pc'[r] = "renaming" /\ reply' = reply
        /\ \A q \in Request \ {r} : pc'[q] = pc[q]
    BY <1>6 DEF WriteTmp, IInv, TypeOK
  <2>2. fs'.tmp = fs.tmp
    BY <1>6, <2>1, Writes DEF WriteTmp, IInv, TypeOK, WriterHoldsInode
  <2> QED BY <2>1, <2>2 DEF Doomed, InTmp
<1>7. ASSUME NEW r \in Request, RenameTmp(r) PROVE Doomed'
  <2>1. pc[r] = "renaming" /\ \A q \in Request \ {r} : pc'[q] = pc[q]
    BY <1>7 DEF RenameTmp, IInv, TypeOK
  <2>2. CASE fs.tmp = NoFile
    BY <1>7, <2>2 DEF RenameTmp, IInv, TypeOK, Doomed
  <2>3. CASE fs.tmp # NoFile
    <3>1. fs'.tmp = NoFile /\ reply' = reply
      BY <1>7, <2>3, Renames DEF RenameTmp, IInv, TypeOK
    <3> QED BY <2>1, <2>3, <3>1 DEF Doomed, InTmp
  <2> QED BY <2>2, <2>3
<1>8. ASSUME NEW r \in Request, SaveFailed(r) PROVE Doomed'
  BY <1>8 DEF SaveFailed, IInv, TypeOK, Doomed
<1>9. ASSUME NEW r \in Request, Reload(r) \/ ReloadFailed(r) PROVE Doomed'
  <2>1. /\ fs' = fs /\ pc[r] = "reloading"
        /\ \A q \in Request \ {r} : pc'[q] = pc[q] /\ reply'[q] = reply[q]
    BY <1>9 DEF Reload, ReloadFailed, Answered, file, IInv, TypeOK
  <2> QED BY <2>1 DEF Doomed, InTmp, ServedRequest
<1> QED BY <1>1, <1>2, <1>3, <1>4, <1>5, <1>6, <1>7, <1>8, <1>9 DEF Next

\* Only the rename of a file is followed by a reload.
LEMMA ReloadsFileStep == ASSUME IInv, ReloadsFile, [Next]_vars PROVE ReloadsFile'
<1>1. CASE UNCHANGED vars
  BY <1>1 DEF vars, request, file, ReloadsFile
<1>2. CASE Start
  BY <1>2 DEF Start, request, ReloadsFile
<1>3. CASE Crash
  <2>1. fs'.live = fs.live
    BY <1>3 DEF Crash, IInv, TypeOK, FileSystem
  <2> QED BY <1>3, <2>1 DEF Crash, ReloadsFile, IInv, TypeOK
<1>4. ASSUME NEW r \in Request, NEW o \in Op, Reject(r, o) \/ ReadLive(r, o) PROVE ReloadsFile'
  <2>1. /\ fs' = fs /\ lastReload' = lastReload /\ pc'[r] # "reloading"
        /\ \A q \in Request \ {r} : pc'[q] = pc[q]
    BY <1>4 DEF Reject, ReadLive, file, IInv, TypeOK
  <2> QED BY <2>1 DEF ReloadsFile
<1>5. ASSUME NEW r \in Request, OpenTmp(r) \/ WriteTmp(r) \/ SaveFailed(r) PROVE ReloadsFile'
  <2>1. /\ lastReload' = lastReload /\ pc'[r] # "reloading"
        /\ \A q \in Request \ {r} : pc'[q] = pc[q]
    BY <1>5 DEF OpenTmp, WriteTmp, SaveFailed, IInv, TypeOK
  <2>2. fs'.live = fs.live
    <3>1. next[r] \in Config /\ fs \in FileSystem(Config) /\ (pc[r] = "writing" => fd[r] \in Inode)
      BY DEF IInv, TypeOK, WriterHoldsInode
    <3>2. CASE OpenTmp(r)
      BY <3>1, <3>2, OpeningTmp DEF OpenTmp
    <3>3. CASE WriteTmp(r)
      BY <3>1, <3>3, Writes DEF WriteTmp
    <3>4. CASE SaveFailed(r)
      BY <3>1, <3>4, WritesPartly DEF SaveFailed
    <3> QED BY <1>5, <3>2, <3>3, <3>4
  <2> QED BY <2>1, <2>2 DEF ReloadsFile
<1>6. ASSUME NEW r \in Request, RenameTmp(r) PROVE ReloadsFile'
  <2>1. /\ lastReload' = lastReload /\ \A q \in Request \ {r} : pc'[q] = pc[q]
        /\ fs.tmp = NoFile => pc'[r] = "done" /\ fs' = fs
        /\ fs.tmp # NoFile => fs'.live # NoFile
    BY <1>6, Renames DEF RenameTmp, IInv, TypeOK
  <2> QED BY <2>1 DEF ReloadsFile
<1>7. ASSUME NEW r \in Request, Reload(r) \/ ReloadFailed(r) PROVE ReloadsFile'
  <2>1. /\ fs' = fs /\ pc[r] = "reloading" /\ pc'[r] = "done"
        /\ \A q \in Request \ {r} : pc'[q] = pc[q]
    BY <1>7 DEF Reload, ReloadFailed, Answered, file, IInv, TypeOK
  <2> QED BY <2>1 DEF ReloadsFile
<1> QED BY <1>1, <1>2, <1>3, <1>4, <1>5, <1>6, <1>7 DEF Next

\* What no failure is due to spoil stays sound.
LEMMA SoundStep ==
    ASSUME IInv, ServedRequest, ReloadsFile, Sound, ~Doomed, [Next]_vars, ~Doomed'
    PROVE  Sound'
<1>1. CASE UNCHANGED vars
  <2>1. UNCHANGED <<fs, pc, fd, loaded, lastReload>>
    BY <1>1 DEF vars, request, file
  <2> QED BY <2>1 DEF Sound, Live
<1>2. CASE Start
  <2>1. Quiet /\ UNCHANGED <<pc, fd, loaded, lastReload>>
    BY <1>2 DEF Start, request, IInv, DownIsQuiet
  <2>2. CASE fs.live # NoFile
    <3>1. fs' = fs
      BY <1>2, <2>2 DEF Start
    <3> QED BY <2>1, <3>1 DEF Sound, Live
  <2>3. CASE fs.live = NoFile
    <3>1. fs' \in Seedings(fs, Seeded) /\ lastReload = "none"
      BY <1>2, <2>3 DEF Start, ReloadsFile
    <3>2. fs'.live # NoFile => fs'.text[fs'.live].state = "whole"
      <4>1. Seeded \in Config
        BY DEF Seeded, Config
      <4>2. fs \in FileSystem(Config)
        BY DEF IInv, TypeOK
      <4> QED BY <2>3, <3>1, <4>1, <4>2, Seeds, ChannelsAssumption
    <3> QED BY <2>1, <3>1, <3>2 DEF Sound, Quiet
  <2> QED BY <2>2, <2>3
<1>3. CASE Crash
  <2>1. /\ fs'.live = fs.live /\ fs'.text = fs.text /\ UNCHANGED <<loaded, lastReload>>
        /\ \A r \in Request : pc'[r] \in {"idle", "done"}
    BY <1>3 DEF Crash, IInv, TypeOK, FileSystem
  <2>2. \A r \in Request : pc[r] # "reloading"
    <3> SUFFICES ASSUME NEW r \in Request, pc[r] = "reloading" PROVE reply'[r] = "lost"
      BY DEF Doomed
    <3> QED BY <1>3 DEF Crash
  <2> QED BY <2>1, <2>2 DEF Sound, Live
<1>4. ASSUME NEW r \in Request, NEW o \in Op, Reject(r, o) \/ ReadLive(r, o) PROVE Sound'
  <2>1. /\ fs' = fs /\ UNCHANGED <<fd, loaded, lastReload>>
        /\ \A q \in Request \ {r} : pc'[q] = pc[q]
        /\ pc[r] = "idle" /\ pc'[r] \in {"done", "opening"}
    BY <1>4 DEF Reject, ReadLive, file, IInv, TypeOK
  <2> QED BY <2>1 DEF Sound, Live
<1>5. ASSUME NEW r \in Request, OpenTmp(r) PROVE Sound'
  <2>1. PICK i \in Inode :
          OpensTmp(fs, {fd[q] : q \in Request}, i) /\ fs' = Opened(fs, i) /\ fd' = [fd EXCEPT ![r] = i]
    BY <1>5 DEF OpenTmp
  <2>2. i # fs.live
    BY <2>1, OpensOther, ChannelsAssumption DEF IInv, PathsApart
  <2>3. fs.live # NoFile => fs.live \in Inode \ {i}
    BY <2>2 DEF IInv, TypeOK, FileSystem
  <2>4. /\ fs'.live = fs.live /\ fs'.tmp = i /\ fs'.text[i] = EmptyText
        /\ fs.live # NoFile => fs'.text[fs.live] = fs.text[fs.live]
    BY <2>1, <2>3, OpeningTmp DEF IInv, TypeOK
  <2>5. /\ pc[r] = "opening" /\ pc'[r] = "writing" /\ fd'[r] = i
        /\ UNCHANGED <<loaded, lastReload>> /\ \A q \in Request \ {r} : pc'[q] = pc[q]
    BY <1>5, <2>1 DEF OpenTmp, IInv, TypeOK
  <2>6. \A q \in Request \ {r} : pc'[q] \notin {"writing", "renaming"}
    BY <2>5 DEF Doomed, InTmp
  <2>7. lastReload = "active" => fs.live # NoFile
    BY DEF ReloadsFile
  <2> QED BY <2>4, <2>5, <2>6, <2>7 DEF Sound, Live
<1>6. ASSUME NEW r \in Request, WriteTmp(r) PROVE Sound'
  <2>1. /\ pc[r] = "writing" /\ pc'[r] = "renaming"
        /\ fs' \in Written(fs, fd[r], next[r])
        /\ UNCHANGED <<loaded, lastReload>> /\ \A q \in Request \ {r} : pc'[q] = pc[q]
    BY <1>6 DEF WriteTmp, IInv, TypeOK
  <2>2. fd[r] = fs.tmp /\ fd[r] \in Inode /\ fs.text[fd[r]] = EmptyText
    BY <2>1 DEF Sound, IInv, WriterHoldsInode
  <2>3. /\ fs'.live = fs.live /\ fs'.tmp = fs.tmp /\ fs'.text[fs.tmp].state = "whole"
        /\ \A j \in Inode \ {fs.tmp} : fs'.text[j] = fs.text[j]
    BY <2>1, <2>2, Writes DEF IInv, TypeOK
  <2>4. fs.live # NoFile => fs.live \in Inode \ {fs.tmp}
    BY DEF IInv, TypeOK, FileSystem, PathsApart
  <2>5. \A q \in Request \ {r} : pc'[q] \notin {"writing", "renaming"}
    BY <2>1 DEF Doomed, InTmp
  <2>6. lastReload = "active" => fs.live # NoFile
    BY DEF ReloadsFile
  <2> QED BY <2>1, <2>3, <2>4, <2>5, <2>6 DEF Sound, Live
<1>7. ASSUME NEW r \in Request, RenameTmp(r) PROVE Sound'
  <2>1. fs.tmp # NoFile /\ pc[r] = "renaming"
    BY <1>7 DEF RenameTmp, Doomed, InTmp
  <2>2. /\ fs' = Renamed(fs) /\ pc'[r] = "reloading" /\ \A q \in Request \ {r} : pc'[q] = pc[q]
    BY <1>7, <2>1 DEF RenameTmp, IInv, TypeOK
  <2>3. fs'.live = fs.tmp /\ fs'.text = fs.text
    BY <2>1, <2>2, Renames DEF IInv, TypeOK
  <2>4. \A q \in Request \ {r} : pc'[q] \notin {"writing", "renaming"}
    BY <2>1, <2>2 DEF Doomed, InTmp
  <2> QED BY <2>1, <2>2, <2>3, <2>4 DEF Sound
<1>8. ASSUME NEW r \in Request, SaveFailed(r) PROVE Sound'
  BY <1>8 DEF SaveFailed, IInv, TypeOK, Doomed
<1>9. ASSUME NEW r \in Request, Reload(r) \/ ReloadFailed(r) PROVE Sound'
  <2>1. /\ fs' = fs /\ fd' = fd /\ pc[r] = "reloading" /\ pc'[r] = "done"
        /\ \A q \in Request \ {r} : pc'[q] = pc[q]
    BY <1>9 DEF Reload, ReloadFailed, Answered, file, IInv, TypeOK
  <2>2. lastReload' = "active" => loaded' = Live
    <3>1. fs.live # NoFile /\ fs.text[fs.live].state = "whole"
      BY <2>1 DEF ReloadsFile, Sound
    <3>2. ASSUME Reload(r) PROVE loaded' = Live
      <4>1. PICK c \in Parsed(fs, Seeded, NoConfig) : loaded' = c
        BY <3>2 DEF Reload
      <4> QED BY <3>1, <4>1, ParsedWhole DEF IInv, TypeOK, Live
    <3>3. ReloadFailed(r) => lastReload' = "saved"
      BY DEF ReloadFailed, Answered
    <3> QED BY <1>9, <3>2, <3>3
  <2> QED BY <2>1, <2>2 DEF Sound, Live
<1> QED BY <1>1, <1>2, <1>3, <1>4, <1>5, <1>6, <1>7, <1>8, <1>9 DEF Next

\* When every request is answered, none by an error, and the latest reload was not
\* reported as failed, Alertmanager runs the file that is on disk, however the
\* requests interleaved.
THEOREM SavedIsActive == Spec => []SavedMeansActive
<1>1. Init => ActiveInv
  <2> SUFFICES ASSUME Init PROVE ActiveInv
    OBVIOUS
  <2>1. IInv
    BY InitInv
  <2>2. raced = FALSE
    BY DEF Init
  <2> QED BY <2>1, <2>2 DEF Init, ActiveInv, ServedRequest, ReloadsFile, Sound, IInv, LiveComplete
<1>2. IInv /\ ActiveInv /\ [Next]_vars => ActiveInv'
  BY DoomedStays, SoundStep, ServedStep, ReloadsFileStep DEF ActiveInv
<1>3. ActiveInv => SavedMeansActive
  <2> SUFFICES ASSUME ActiveInv, Quiet, lastReload = "active",
                      \A r \in Request : reply[r] \notin {"failed", "lost"}
               PROVE  Complete /\ loaded = Live
    BY DEF SavedMeansActive, Live
  <2>1. ~Doomed
    BY DEF Doomed, InTmp, Quiet
  <2> QED BY <2>1 DEF ActiveInv, ReloadsFile, Sound, Quiet, Complete
<1> QED BY <1>1, <1>2, <1>3, Invariant, PTL DEF Spec

-----------------------------------------------------------------------------
(* The forms.                                                              *)

\* A channel whose override was typed for n,
TextKnown(c, n) == c.text \in typedFor[n].texts \cup {""}

\* one whose secrets were,
SecretsKnown(c, n) == \A x \in SecretFields : c[x] \in typedFor[n].secrets \cup {NoSecret}

\* and one that shows no secret.
AllMasked(c) == \A x \in SecretFields : c[x].masked \/ c[x] = NoSecret

Auth == {"none", "basic", "bearer"}

Write ==
    [id : Nat, op : {"add", "put", "delete", "default", "test"}, name : Receiver,
     body : ChannelValue \cup {NoData}, auth : Auth,
     from : {"dialog", "confirm", "row", "gone"}, state : {"sent", "ok", "failed"}]

FormTypes ==
    /\ formKit \in FormKits
    /\ receivers \in [Receiver -> ChannelValue \cup {NoData}]
    /\ defaultName \in Receiver \cup {NoData}
    /\ templating \in BOOLEAN
    /\ listed \in [channels : [Receiver -> ChannelValue \cup {NoData}],
                   default : Receiver \cup {NoData}]
    /\ confirm \in Receiver \cup {NoData}
    /\ writes \in SUBSET Write
    /\ writeCount \in Nat
    /\ typedFor \in [Receiver -> [secrets : SUBSET SecretValue, texts : SUBSET (Override \cup {"", Invocation})]]

\* The file: a receiver that changed its type may hold a mask.
FileKnown ==
    \A n \in Present : /\ TextKnown(Stored(n), n)
                       /\ n \notin retyped => SecretsKnown(Stored(n), n)

\* What the page shows.
ListKnown ==
    \A n \in Receiver : listed.channels[n] # NoData =>
        AllMasked(listed.channels[n]) /\ TextKnown(listed.channels[n], n)

\* What a form was filled with.
DialogKnown ==
    \/ dialog = Closed
    \/ \E m \in Medium : dialog = [kind |-> "add", form |-> EmptyForm(m)]
    \/ \E n \in Receiver, c \in ChannelValue :
          /\ dialog = [kind |-> "edit", form |-> c, name |-> n]
          /\ AllMasked(c) /\ TextKnown(c, n)

\* What is on its way to the server: only an update may hold a mask.
WriteKnown(w) ==
    w.op \in {"add", "put"} =>
        /\ w.body \in ChannelValue
        /\ TextKnown(w.body, w.name)
        /\ \A x \in SecretFields :
              \/ w.body[x] \in typedFor[w.name].secrets \cup {NoSecret}
              \/ w.op = "put" /\ w.body[x].masked

WritesKnown == \A w \in writes : WriteKnown(w)

FormsInv == FormTypes /\ FileKnown /\ ListKnown /\ DialogKnown /\ WritesKnown

-----------------------------------------------------------------------------
(* The operators on channels.                                              *)

\* A channel by its fields, whether a name of a field is written out or not.
LEMMA Fields ==
    ASSUME NEW b \in ChannelValue
    PROVE  /\ DOMAIN b = {"medium", "url", "user", "pass", "token", "text"}
           /\ \A x \in SecretFields : b[x] \in SecretValue
           /\ b.text = b["text"] /\ b.medium = b["medium"] /\ b.user = b["user"]
           /\ b.url = b["url"] /\ b.pass = b["pass"] /\ b.token = b["token"]
BY DEF ChannelValue, SecretFields

\* A blank or masked secret keeps the one that is stored; the rest is the body's.
LEMMA KeepSecretsFacts ==
    ASSUME NEW c \in ChannelValue, NEW b \in ChannelValue, c.medium = b.medium
    PROVE  /\ KeepSecrets(c, b) \in ChannelValue
           /\ KeepSecrets(c, b).text = b.text
           /\ \A x \in SecretFields :
                 KeepSecrets(c, b)[x] = IF b[x] = NoSecret \/ b[x].masked THEN c[x] ELSE b[x]
<1> DEFINE k == [x \in DOMAIN b |->
            IF x \in SecretFields /\ (b[x] = NoSecret \/ b[x].masked) THEN c[x] ELSE b[x]]
<1>1. KeepSecrets(c, b) = k
  BY DEF KeepSecrets
<1>2. \A x \in SecretFields : k[x] = IF b[x] = NoSecret \/ b[x].masked THEN c[x] ELSE b[x]
  BY Fields DEF SecretFields
<1>3. k["text"] = b.text /\ k["medium"] = b.medium /\ k["user"] = b.user
  BY Fields DEF SecretFields
<1>4. k["url"] \in SecretValue /\ k["pass"] \in SecretValue /\ k["token"] \in SecretValue
  BY <1>2, Fields DEF SecretFields
<1>5. DOMAIN k = {"medium", "url", "user", "pass", "token", "text"}
  BY Fields
<1>6. k = [medium |-> k["medium"], url |-> k["url"], user |-> k["user"], pass |-> k["pass"],
           token |-> k["token"], text |-> k["text"]]
  BY <1>5
<1>7. k \in ChannelValue
  BY <1>3, <1>4, <1>6 DEF ChannelValue
<1> QED BY <1>1, <1>2, <1>3, <1>7, Fields

\* Masking changes the secrets only.
LEMMA MaskFacts ==
    ASSUME NEW c \in ChannelValue
    PROVE  /\ MaskSecrets(c) \in ChannelValue
           /\ MaskSecrets(c).text = c.text
           /\ \A x \in SecretFields : MaskSecrets(c)[x] = MaskOf(c[x])
<1> DEFINE k == MaskSecrets(c)
<1>1. /\ \A x \in SecretFields : k[x] = MaskOf(c[x])
      /\ k["text"] = c.text /\ k["medium"] = c.medium /\ k["user"] = c.user
  BY Fields DEF MaskSecrets, SecretFields
<1>2. \A s \in SecretValue : MaskOf(s) \in SecretValue
  BY DEF MaskOf, SecretValue, NoSecret, LiveForm
<1>3. k["url"] \in SecretValue /\ k["pass"] \in SecretValue /\ k["token"] \in SecretValue
  BY <1>1, <1>2, Fields DEF SecretFields
<1>4. k = [medium |-> k["medium"], url |-> k["url"], user |-> k["user"], pass |-> k["pass"],
           token |-> k["token"], text |-> k["text"]]
  BY Fields DEF MaskSecrets
<1> HIDE DEF k
<1>5. k \in ChannelValue
  <2>1. c.medium = c["medium"] /\ c.user = c["user"] /\ c.text = c["text"] OBVIOUS
  <2> QED BY <1>1, <1>3, <1>4, <2>1 DEF ChannelValue
<1> QED BY <1>1, <1>4, <1>5 DEF k

\* Rendering drops secrets or keeps them, and keeps an override.
LEMMA RenderedFacts ==
    ASSUME NEW c \in ChannelValue, NEW t \in BOOLEAN
    PROVE  /\ ChannelToReceiver(c, t) \in ChannelValue
           /\ \A x \in SecretFields : ChannelToReceiver(c, t)[x] \in {c[x], NoSecret}
           /\ ChannelToReceiver(c, t).text \in {c.text, Invocation}
<1>1. NoSecret \in SecretValue
  BY DEF NoSecret, LiveForm, SecretValue
<1>2. CASE c.medium = "webhook"
  <2>1. AuthRendered(c) \in ChannelValue
    BY <1>1 DEF AuthRendered, ChannelValue
  <2>2. \A x \in SecretFields : AuthRendered(c)[x] \in {c[x], NoSecret}
    BY DEF AuthRendered, ChannelValue, SecretFields
  <2>3. AuthRendered(c).text = c.text
    BY DEF AuthRendered, ChannelValue
  <2> QED BY <1>2, <2>1, <2>2, <2>3 DEF ChannelToReceiver
<1>3. CASE c.medium # "webhook"
  BY <1>3 DEF ChannelToReceiver, ChannelValue, SecretFields
<1> QED BY <1>2, <1>3

\* Reading leaves the secrets alone and drops the invocation of a template.
LEMMA ReadFacts ==
    ASSUME NEW c \in ChannelValue
    PROVE  /\ ReceiverToChannel(c) \in ChannelValue
           /\ \A x \in SecretFields : ReceiverToChannel(c)[x] = c[x]
           /\ ReceiverToChannel(c).text = IF c.text = Invocation THEN "" ELSE c.text
BY DEF ReceiverToChannel, ChannelValue, SecretFields

\* A new form is a channel without secrets.
LEMMA BlankFacts ==
    ASSUME NEW m \in Medium
    PROVE  /\ EmptyForm(m) \in ChannelValue
           /\ \A x \in SecretFields : EmptyForm(m)[x] = NoSecret
           /\ EmptyForm(m).text = ""
BY DEF EmptyForm, ChannelValue, SecretFields, SecretValue, NoSecret, LiveForm

\* What is stored is a channel with the secrets of the receiver.
LEMMA StoredFacts ==
    ASSUME FormTypes, NEW n \in Present
    PROVE  n \in Receiver /\ Stored(n) \in ChannelValue
<1>1. receivers[n] \in ChannelValue /\ n \in Receiver
  BY DEF FormTypes, Present
<1> QED BY <1>1, ReadFacts DEF Stored

\* What the routes read from the file are channels, with their secrets.
LEMMA ParsedChannelsFacts ==
    ASSUME FormTypes
    PROVE  /\ ParsedChannels \in [Receiver -> ChannelValue \cup {NoData}]
           /\ \A n \in Present : ParsedChannels[n] = Stored(n)
           /\ \A n \in Receiver \ Present : ParsedChannels[n] = NoData
BY StoredFacts DEF ParsedChannels, Present

\* A write of channels that are known leaves a file that is known.
LEMMA WriteBack ==
    ASSUME FormTypes, NEW ch \in [Receiver -> ChannelValue \cup {NoData}],
           receivers' = Rendered(ch), typedFor' = typedFor,
           \A n \in Receiver : ch[n] # NoData =>
               TextKnown(ch[n], n) /\ (n \notin retyped' => SecretsKnown(ch[n], n))
    PROVE  receivers' \in [Receiver -> ChannelValue \cup {NoData}] /\ FileKnown'
<1>1. \A n \in Receiver :
        receivers'[n] = IF ch[n] = NoData THEN NoData ELSE ChannelToReceiver(ch[n], templating)
  BY DEF Rendered
<1>2. receivers' \in [Receiver -> ChannelValue \cup {NoData}]
  <2>1. \A n \in Receiver : ch[n] # NoData => ChannelToReceiver(ch[n], templating) \in ChannelValue
    BY RenderedFacts DEF FormTypes
  <2> QED BY <2>1 DEF Rendered
<1>3. ASSUME NEW n \in Present'
      PROVE  TextKnown(Stored(n), n)' /\ (n \notin retyped' => SecretsKnown(Stored(n), n)')
  <2>1. n \in Receiver /\ receivers'[n] # NoData
    BY <1>3 DEF Present
  <2> DEFINE r == ChannelToReceiver(ch[n], templating)
  <2>2. ch[n] \in ChannelValue /\ ch[n] # NoData /\ receivers'[n] = r
    BY <1>1, <2>1
  <2>3. /\ r \in ChannelValue /\ r.text \in {ch[n].text, Invocation}
        /\ \A x \in SecretFields : r[x] \in {ch[n][x], NoSecret}
    BY <2>2, RenderedFacts DEF FormTypes
  <2>4. Stored(n)' = ReceiverToChannel(r)
    BY <2>2 DEF Stored
  <2> HIDE DEF r
  <2> DEFINE c == ReceiverToChannel(r)
  <2>5. c.text \in {ch[n].text, ""} /\ \A x \in SecretFields : c[x] \in {ch[n][x], NoSecret}
    BY <2>3, ReadFacts
  <2>6. Stored(n)' = c
    BY <2>4
  <2> HIDE DEF c
  <2>7. TextKnown(Stored(n), n)'
    BY <2>1, <2>2, <2>5, <2>6 DEF TextKnown
  <2>8. n \notin retyped' => SecretsKnown(Stored(n), n)'
    BY <2>1, <2>2, <2>5, <2>6 DEF SecretsKnown
  <2> QED BY <2>7, <2>8
<1> QED BY <1>2, <1>3 DEF FileKnown

-----------------------------------------------------------------------------
(* The steps.                                                              *)

\* The file starts without channels, and nothing is typed.
LEMMA InitKnown == ChannelsInit => FormsInv
<1> SUFFICES ASSUME ChannelsInit PROVE FormsInv
  OBVIOUS
<1>1. FormTypes
  BY DEF ChannelsInit, FormTypes
<1>2. FileKnown /\ ListKnown /\ WritesKnown
  BY DEF ChannelsInit, FileKnown, ListKnown, WritesKnown, Present
<1>3. DialogKnown
  BY DEF ChannelsInit, DialogKnown
<1> QED BY <1>1, <1>2, <1>3 DEF FormsInv

\* The file is left alone, and what was typed is not forgotten.
LEMMA Unwritten ==
    ASSUME FormsInv, UNCHANGED <<receivers, retyped>>,
           \A n \in Receiver : /\ typedFor[n].secrets \subseteq typedFor'[n].secrets
                               /\ typedFor[n].texts \subseteq typedFor'[n].texts
    PROVE  /\ FileKnown'
           /\ listed' = listed => ListKnown'
           /\ dialog' = dialog => DialogKnown'
           /\ \A w \in Write : WriteKnown(w) => WriteKnown(w)'
<1>1. \A c \in ChannelValue, n \in Receiver :
        /\ TextKnown(c, n) => TextKnown(c, n)'
        /\ SecretsKnown(c, n) => SecretsKnown(c, n)'
  BY DEF TextKnown, SecretsKnown
<1>2. FileKnown'
  <2>1. Present' = Present /\ \A n \in Present : Stored(n)' = Stored(n)
    BY DEF Present, Stored
  <2>2. \A n \in Present : TextKnown(Stored(n), n)' /\ (n \notin retyped => SecretsKnown(Stored(n), n)')
    <3> TAKE n \in Present
    <3>1. n \in Receiver /\ Stored(n)' = Stored(n)
      BY <2>1 DEF Present
    <3>2. TextKnown(Stored(n), n)'
      BY <3>1 DEF FormsInv, FileKnown, TextKnown
    <3>3. n \notin retyped => SecretsKnown(Stored(n), n)'
      BY <3>1 DEF FormsInv, FileKnown, SecretsKnown
    <3> QED BY <3>2, <3>3
  <2> QED BY <2>1, <2>2 DEF FileKnown
<1>3. listed' = listed => ListKnown'
  BY DEF FormsInv, ListKnown, TextKnown, AllMasked
<1>4. dialog' = dialog => DialogKnown'
  BY <1>1 DEF FormsInv, DialogKnown
<1>5. \A w \in Write : WriteKnown(w) => WriteKnown(w)'
  BY DEF WriteKnown, TextKnown, Write
<1> QED BY <1>2, <1>3, <1>4, <1>5

\* A submission: what is new in the body counts as typed.
LEMMA SubmitKnown ==
    ASSUME FormsInv, NEW n \in Receiver, dialog # Closed,
           NEW b \in ChannelValue, NEW a \in Auth, SubmitForm(n, b, a)
    PROVE  FormsInv'
<1> DEFINE S == {b[x] : x \in SecretFields} \ {dialog.form[x] : x \in SecretFields}
           T == {b.text} \ {dialog.form.text}
           w == [id |-> writeCount, op |-> IF dialog.kind = "edit" THEN "put" ELSE "add",
                 name |-> n, body |-> b, auth |-> a, from |-> "dialog", state |-> "sent"]
<1>1. S \subseteq SecretValue /\ T \subseteq Override \cup {"", Invocation}
  BY Fields DEF ChannelValue
<1>2. /\ typedFor' = [typedFor EXCEPT ![n].secrets = @ \cup S, ![n].texts = @ \cup T]
      /\ writes' = writes \cup {w} /\ writeCount' = writeCount + 1
      /\ UNCHANGED <<formKit, receivers, defaultName, templating, listed, dialog, confirm, retyped>>
      /\ dialog.kind = "edit" => n = dialog.name
  BY DEF SubmitForm, CallBegun
<1>3. \A x \in SecretFields : b[x] \in S \/ \E y \in SecretFields : b[x] = dialog.form[y]
  OBVIOUS
<1>4. b.text \in T \/ b.text = dialog.form.text
  OBVIOUS
<1>5. w \in Write /\ w.op \in {"add", "put"} /\ w.name = n /\ w.body = b
      /\ (w.op = "put" <=> dialog.kind = "edit")
  BY DEF Write, FormsInv, FormTypes
<1> HIDE DEF S, T, w
<1>6. /\ typedFor' \in [Receiver -> [secrets : SUBSET SecretValue,
                                    texts : SUBSET (Override \cup {"", Invocation})]]
      /\ typedFor'[n].secrets = typedFor[n].secrets \cup S
      /\ typedFor'[n].texts = typedFor[n].texts \cup T
      /\ \A m \in Receiver \ {n} : typedFor'[m] = typedFor[m]
  BY <1>1, <1>2 DEF FormsInv, FormTypes
<1>7. \A m \in Receiver : /\ typedFor[m].secrets \subseteq typedFor'[m].secrets
                          /\ typedFor[m].texts \subseteq typedFor'[m].texts
  BY <1>6
<1>8. FormTypes'
  <2>0. writes \subseteq Write /\ writeCount \in Nat
    BY DEF FormsInv, FormTypes
  <2>1. writes' \subseteq Write /\ writeCount' \in Nat
    <3>1. writes' \subseteq Write
      BY <1>2, <1>5, <2>0
    <3>2. writeCount' \in Nat
      BY <1>2, <2>0
    <3> QED BY <3>1, <3>2
  <2>2. UNCHANGED <<formKit, receivers, defaultName, templating, listed, confirm>>
    BY <1>2
  <2> QED BY <1>6, <2>1, <2>2 DEF FormsInv, FormTypes
<1>9. FileKnown' /\ ListKnown' /\ DialogKnown' /\ \A v \in writes : WriteKnown(v)'
  BY <1>2, <1>7, Unwritten DEF FormsInv, FormTypes, WritesKnown
<1>p. PICK v \in Write : v = w
  BY <1>5
<1>q. v.op \in {"add", "put"} /\ v.name = n /\ v.body = b /\ (v.op = "put" <=> dialog.kind = "edit")
  BY <1>5, <1>p
<1>10. WriteKnown(v)'
  <2>1. CASE \E m \in Medium : dialog = [kind |-> "add", form |-> EmptyForm(m)]
    <3>1. PICK m \in Medium : dialog = [kind |-> "add", form |-> EmptyForm(m)]
      BY <2>1
    <3>2. /\ \A y \in SecretFields : dialog.form[y] = NoSecret
          /\ dialog.form.text = ""
      BY <3>1, BlankFacts
    <3>3. b.text \in typedFor'[n].texts \cup {""}
      BY <1>4, <1>6, <3>2
    <3>4. \A x \in SecretFields :
            \/ b[x] \in typedFor'[n].secrets \cup {NoSecret}
            \/ v.op = "put" /\ b[x].masked
      BY <1>3, <1>6, <3>2
    <3> QED BY <1>q, <3>3, <3>4 DEF WriteKnown, TextKnown
  <2>2. CASE \E m \in Receiver, c \in ChannelValue :
               /\ dialog = [kind |-> "edit", form |-> c, name |-> m]
               /\ AllMasked(c) /\ TextKnown(c, m)
    <3>1. PICK c \in ChannelValue :
            /\ dialog = [kind |-> "edit", form |-> c, name |-> n]
            /\ AllMasked(c) /\ TextKnown(c, n)
      BY <1>2, <2>2
    <3>2. /\ \A y \in SecretFields : dialog.form[y].masked \/ dialog.form[y] = NoSecret
          /\ dialog.form.text \in typedFor[n].texts \cup {""}
          /\ v.op = "put"
      BY <1>q, <3>1 DEF AllMasked, TextKnown
    <3>3. b.text \in typedFor'[n].texts \cup {""}
      BY <1>4, <1>6, <3>2
    <3>4. \A x \in SecretFields :
            \/ b[x] \in typedFor'[n].secrets \cup {NoSecret}
            \/ v.op = "put" /\ b[x].masked
      BY <1>3, <1>6, <3>2
    <3> QED BY <1>q, <3>3, <3>4 DEF WriteKnown, TextKnown
  <2> QED BY <2>1, <2>2 DEF FormsInv, DialogKnown
<1> QED BY <1>2, <1>8, <1>9, <1>p, <1>10 DEF FormsInv, WritesKnown

\* The form that is open is a channel.
LEMMA DialogFacts ==
    ASSUME FormsInv, dialog # Closed
    PROVE  dialog.form \in ChannelValue
<1>1. CASE \E m \in Medium : dialog = [kind |-> "add", form |-> EmptyForm(m)]
  <2>1. PICK m \in Medium : dialog = [kind |-> "add", form |-> EmptyForm(m)]
    BY <1>1
  <2>2. dialog.form = EmptyForm(m)
    BY <2>1
  <2> QED BY <2>2, BlankFacts
<1>2. CASE \E n \in Receiver, c \in ChannelValue :
             /\ dialog = [kind |-> "edit", form |-> c, name |-> n]
             /\ AllMasked(c) /\ TextKnown(c, n)
  <2>1. PICK n \in Receiver, c \in ChannelValue : dialog = [kind |-> "edit", form |-> c, name |-> n]
    BY <1>2
  <2>2. dialog.form = c
    BY <2>1
  <2> QED BY <2>1, <2>2
<1> QED BY <1>1, <1>2 DEF FormsInv, DialogKnown

\* Each of the four forms sends what it was filled with or what is typed now.
LEMMA SubmitChannelKnown ==
    ASSUME FormsInv, NEW n \in Receiver, SubmitChannel(n)
    PROVE  FormsInv'
<1> DEFINE f == dialog.form
<1>1. f \in ChannelValue /\ dialog # Closed
  BY DialogFacts DEF SubmitChannel
<1>2. /\ NoSecret \in SecretValue
      /\ Secrets(f.url, Url) \subseteq SecretValue
      /\ Secrets(f.pass, Code) \subseteq SecretValue
      /\ Secrets(f.token, Code) \subseteq SecretValue
  <2>1. \A u \in Url \cup Code \cup {NoData} : LiveForm(u) \in SecretValue
    BY DEF LiveForm, SecretValue
  <2>2. NoSecret \in SecretValue
    BY <2>1 DEF NoSecret
  <2>3. f.url \in SecretValue /\ f.pass \in SecretValue /\ f.token \in SecretValue
    BY <1>1 DEF ChannelValue
  <2> QED BY <2>1, <2>2, <2>3, Zenon DEF Secrets
<1>3. TextFields(f) \subseteq Override \cup {"", Invocation}
  <2>1. formKit.overrides \subseteq Override
    BY ChannelFormsAssumption DEF FormsInv, FormTypes
  <2> QED BY <1>1, <2>1 DEF TextFields, ChannelValue
<1> HIDE DEF f
<1>4. CASE SlackForm(n, f)
  <2>1. PICK u \in Secrets(f.url, Url), t \in TextFields(f) :
          SubmitForm(n, [f EXCEPT !.url = u, !.text = t], "none")
    BY <1>4, Zenon DEF SlackForm
  <2> DEFINE b == [f EXCEPT !.url = u, !.text = t]
  <2>2. b \in ChannelValue
    BY <1>1, <1>2, <1>3 DEF ChannelValue
  <2>3. SubmitForm(n, b, "none")
    BY <2>1
  <2> HIDE DEF b
  <2> QED BY <1>1, <2>2, <2>3, SubmitKnown DEF Auth
<1>5. CASE EmailForm(n, f)
  <2>1. PICK user \in {"", "user"}, p \in Secrets(f.pass, Code), t \in TextFields(f) :
          SubmitForm(n, [f EXCEPT !.user = user, !.pass = p, !.text = t], "none")
    BY <1>5, Zenon DEF EmailForm
  <2> DEFINE b == [f EXCEPT !.user = user, !.pass = p, !.text = t]
  <2>2. b \in ChannelValue
    BY <1>1, <1>2, <1>3 DEF ChannelValue
  <2>3. SubmitForm(n, b, "none")
    BY <2>1
  <2> HIDE DEF b
  <2> QED BY <1>1, <2>2, <2>3, SubmitKnown DEF Auth
<1>6. CASE WebhookForm(n, f)
  <2> DEFINE G(u) == [f EXCEPT !.url = u, !.user = "", !.pass = NoSecret, !.token = NoSecret]
  <2>1. PICK u \in Secrets(f.url, Url) :
          \/ SubmitForm(n, G(u), "none")
          \/ \E user \in {"", "user"}, p \in Secrets(f.pass, Code) :
                 SubmitForm(n, [G(u) EXCEPT !.user = user, !.pass = p], "basic")
          \/ \E t \in Secrets(f.token, Code) : SubmitForm(n, [G(u) EXCEPT !.token = t], "bearer")
    BY <1>6, Zenon DEF WebhookForm
  <2> DEFINE g == G(u)
  <2>2. g \in ChannelValue
    BY <1>1, <1>2 DEF ChannelValue
  <2>3. CASE SubmitForm(n, g, "none")
    <3> HIDE DEF g
    <3> QED BY <1>1, <2>2, <2>3, SubmitKnown DEF Auth
  <2>4. ASSUME NEW user \in {"", "user"}, NEW p \in Secrets(f.pass, Code),
               SubmitForm(n, [g EXCEPT !.user = user, !.pass = p], "basic")
        PROVE  FormsInv'
    <3> DEFINE b == [g EXCEPT !.user = user, !.pass = p]
    <3> HIDE DEF g
    <3>1. b \in ChannelValue
      BY <1>2, <2>2 DEF ChannelValue
    <3>2. SubmitForm(n, b, "basic")
      BY <2>4
    <3> HIDE DEF b
    <3> QED BY <1>1, <3>1, <3>2, SubmitKnown DEF Auth
  <2>5. ASSUME NEW t \in Secrets(f.token, Code), SubmitForm(n, [g EXCEPT !.token = t], "bearer")
        PROVE  FormsInv'
    <3> DEFINE b == [g EXCEPT !.token = t]
    <3> HIDE DEF g
    <3>1. b \in ChannelValue
      BY <1>2, <2>2 DEF ChannelValue
    <3>2. SubmitForm(n, b, "bearer")
      BY <2>5
    <3> HIDE DEF b
    <3> QED BY <1>1, <3>1, <3>2, SubmitKnown DEF Auth
  <2> QED BY <2>1, <2>3, <2>4, <2>5, Zenon
<1>7. CASE TelegramForm(n, f)
  <2>1. PICK p \in Secrets(f.token, Code), t \in TextFields(f) :
          SubmitForm(n, [f EXCEPT !.token = p, !.text = t], "none")
    BY <1>7, Zenon DEF TelegramForm
  <2> DEFINE b == [f EXCEPT !.token = p, !.text = t]
  <2>2. b \in ChannelValue
    BY <1>1, <1>2, <1>3 DEF ChannelValue
  <2>3. SubmitForm(n, b, "none")
    BY <2>1
  <2> HIDE DEF b
  <2> QED BY <1>1, <2>2, <2>3, SubmitKnown DEF Auth
<1> QED BY <1>4, <1>5, <1>6, <1>7 DEF SubmitChannel, f

\* A write that takes another label is as known as before.
LEMMA Relabelled ==
    ASSUME NEW w \in Write, WriteKnown(w),
           NEW v, \/ \E f \in {"dialog", "confirm", "row", "gone"} : v = [w EXCEPT !.from = f]
                  \/ \E t \in {"sent", "ok", "failed"} : v = [w EXCEPT !.state = t]
    PROVE  v \in Write /\ WriteKnown(v)
<1>1. v \in Write /\ v.op = w.op /\ v.body = w.body /\ v.name = w.name
  BY DEF Write
<1> QED BY <1>1 DEF WriteKnown

\* A request that brings no channel.
LEMMA BegunKnown ==
    ASSUME FormsInv, NEW n \in Receiver, NEW o \in {"delete", "default", "test"},
           NEW f \in {"confirm", "row"}, CallBegun(o, n, NoData, "none", f)
    PROVE  /\ writes' \subseteq Write /\ writeCount' \in Nat
           /\ \A w \in writes' : WriteKnown(w)
<1> DEFINE b == [id |-> writeCount, op |-> o, name |-> n, body |-> NoData,
                auth |-> "none", from |-> f, state |-> "sent"]
<1>1. writes' = writes \cup {b} /\ writeCount' = writeCount + 1
  BY DEF CallBegun
<1>2. writes \subseteq Write /\ writeCount \in Nat
  BY DEF FormsInv, FormTypes
<1>3. b \in Write /\ b.op \notin {"add", "put"}
  BY <1>2 DEF Write, Auth
<1> HIDE DEF b
<1>4. WriteKnown(b)
  BY <1>3 DEF WriteKnown
<1>5. \A w \in writes' : w \in Write /\ WriteKnown(w)
  BY <1>1, <1>2, <1>3, <1>4 DEF FormsInv, WritesKnown
<1>6. writeCount' \in Nat
  BY <1>1, <1>2
<1> QED BY <1>5, <1>6

\* The page: a form is filled with a masked channel, and nothing is written.
LEMMA PageKnown ==
    ASSUME FormsInv, NEW n, NEW m, NEW remove \in BOOLEAN,
           \/ OpenAddMenu \/ CloseDialog \/ AnswerConfirm(remove) \/ ListChannels
           \/ ChannelsRestart \/ \E w \in writes : WriteAnswered(w)
           \/ m \in Medium /\ PickMedium(m)
           \/ /\ n \in Receiver
              /\ OpenEdit(n) \/ AskDelete(n) \/ RowButton(n, "default") \/ RowButton(n, "test")
    PROVE  FormsInv'
<1>1. UNCHANGED <<formKit, receivers, defaultName, typedFor, retyped>>
  BY DEF OpenAddMenu, PickMedium, OpenEdit, CloseDialog, AskDelete, AnswerConfirm, RowButton,
         CallBegun, ListChannels, ChannelsRestart, WriteAnswered
<1>2. /\ FileKnown' /\ (listed' = listed => ListKnown') /\ (dialog' = dialog => DialogKnown')
      /\ \A w \in Write : WriteKnown(w) => WriteKnown(w)'
  BY <1>1, Unwritten
<1>3. writes \subseteq Write /\ writeCount \in Nat /\ confirm \in Receiver \cup {NoData}
      /\ \A w \in writes : WriteKnown(w)
  BY DEF FormsInv, FormTypes, WritesKnown
<1>4. writes' \subseteq Write /\ writeCount' \in Nat /\ \A w \in writes' : WriteKnown(w)
  <2>1. CASE writes' \subseteq writes /\ writeCount' = writeCount
    BY <1>3, <2>1
  <2>2. CASE \E p \in Receiver, o \in {"delete", "default", "test"}, f \in {"confirm", "row"} :
               CallBegun(o, p, NoData, "none", f)
    BY <2>2, BegunKnown
  <2>3. CASE CloseDialog
    <3>1. writeCount' = writeCount
          /\ \A v \in writes' : \E w \in writes : v = w \/ v = [w EXCEPT !.from = "gone"]
      BY <2>3 DEF CloseDialog
    <3> QED BY <1>3, <3>1, Relabelled
  <2>4. CASE ChannelsRestart
    <3>1. writeCount' = writeCount
          /\ \A v \in writes' : \E w \in writes : v = [w EXCEPT !.state = "failed"]
      BY <2>4 DEF ChannelsRestart
    <3> QED BY <1>3, <3>1, Relabelled
  <2>5. CASE AnswerConfirm(remove)
    BY <1>3, <2>1, <2>2, <2>5 DEF AnswerConfirm
  <2>6. CASE n \in Receiver /\ (RowButton(n, "default") \/ RowButton(n, "test"))
    BY <2>2, <2>6 DEF RowButton
  <2>7. CASE \/ OpenAddMenu \/ PickMedium(m) \/ OpenEdit(n) \/ AskDelete(n)
             \/ ListChannels \/ \E w \in writes : WriteAnswered(w)
    BY <2>1, <2>7 DEF OpenAddMenu, PickMedium, OpenEdit, AskDelete, ListChannels, WriteAnswered
  <2> QED BY <2>3, <2>4, <2>5, <2>6, <2>7
<1>5. WritesKnown'
  BY <1>2, <1>4 DEF WritesKnown
<1>6. ListKnown' /\ listed' \in [channels : [Receiver -> ChannelValue \cup {NoData}],
                                default : Receiver \cup {NoData}]
  <2>1. CASE listed' = listed
    BY <1>2, <2>1 DEF FormsInv, FormTypes
  <2>2. CASE ListChannels
    <3>1. listed' = MaskedList
      BY <2>2 DEF ListChannels
    <3>2. \A p \in Receiver : MaskedList.channels[p] =
            IF p \in Present THEN MaskSecrets(Stored(p)) ELSE NoData
      BY DEF MaskedList
    <3>3. \A p \in Present : /\ MaskSecrets(Stored(p)) \in ChannelValue
                             /\ AllMasked(MaskSecrets(Stored(p)))
                             /\ TextKnown(MaskSecrets(Stored(p)), p)
      <4> TAKE p \in Present
      <4> DEFINE c == Stored(p)
      <4>1. c \in ChannelValue /\ TextKnown(c, p)
        BY StoredFacts DEF FormsInv, FileKnown
      <4> HIDE DEF c
      <4>2. \A x \in SecretFields : c[x] \in SecretValue
        BY <4>1, Fields
      <4>3. AllMasked(MaskSecrets(c))
        BY <4>1, <4>2, MaskFacts DEF AllMasked, MaskOf, SecretValue
      <4>4. MaskSecrets(c) \in ChannelValue /\ TextKnown(MaskSecrets(c), p)
        BY <4>1, MaskFacts DEF TextKnown
      <4> QED BY <4>3, <4>4 DEF c
    <3>4. MaskedList \in [channels : [Receiver -> ChannelValue \cup {NoData}],
                         default : Receiver \cup {NoData}]
      BY <3>3 DEF MaskedList, FormsInv, FormTypes
    <3>5. \A p \in Receiver : listed'.channels[p] # NoData =>
            AllMasked(listed'.channels[p]) /\ TextKnown(listed'.channels[p], p)
      BY <3>1, <3>2, <3>3
    <3>6. ListKnown'
      BY <1>1, <3>5 DEF ListKnown, AllMasked, TextKnown
    <3> QED BY <3>1, <3>4, <3>6
  <2> QED BY <2>1, <2>2 DEF OpenAddMenu, PickMedium, OpenEdit, CloseDialog, AskDelete,
          AnswerConfirm, RowButton, ChannelsRestart, WriteAnswered
<1>7. DialogKnown'
  <2>1. CASE dialog' = dialog
    BY <1>2, <2>1
  <2>2. CASE dialog' = Closed
    BY <2>2 DEF DialogKnown
  <2>3. CASE m \in Medium /\ PickMedium(m)
    BY <2>3 DEF PickMedium, DialogKnown
  <2>4. CASE n \in Receiver /\ OpenEdit(n)
    <3> DEFINE c == listed.channels[n]
    <3>1. c \in ChannelValue /\ AllMasked(c) /\ TextKnown(c, n)
      BY <2>4 DEF OpenEdit, FormsInv, FormTypes, ListKnown
    <3>2. dialog' = [kind |-> "edit", form |-> c, name |-> n]
      BY <2>4 DEF OpenEdit
    <3> HIDE DEF c
    <3>3. PICK d \in ChannelValue : d = c
      BY <3>1
    <3>4. TextKnown(d, n)'
      BY <1>1, <3>1, <3>3 DEF TextKnown
    <3>5. AllMasked(d)
      BY <3>1, <3>3
    <3>6. n \in Receiver /\ d \in ChannelValue
      BY <2>4, <3>3
    <3>7. dialog' = [kind |-> "edit", form |-> d, name |-> n]
      BY <3>2, <3>3
    <3> QED BY <3>4, <3>5, <3>6, <3>7 DEF DialogKnown
  <2> QED BY <2>1, <2>2, <2>3, <2>4 DEF OpenAddMenu, CloseDialog, AskDelete, AnswerConfirm,
          RowButton, ListChannels, ChannelsRestart, WriteAnswered
<1>8. confirm' \in Receiver \cup {NoData} /\ templating' \in BOOLEAN
  <2>1. confirm' \in {confirm, NoData} \cup Receiver
    BY DEF OpenAddMenu, PickMedium, OpenEdit, CloseDialog, AskDelete, AnswerConfirm, RowButton,
           ListChannels, ChannelsRestart, WriteAnswered
  <2>2. templating' = templating \/ templating' \in BOOLEAN
    BY DEF OpenAddMenu, PickMedium, OpenEdit, CloseDialog, AskDelete, AnswerConfirm, RowButton,
           ListChannels, ChannelsRestart, WriteAnswered
  <2>3. templating \in BOOLEAN
    BY DEF FormsInv, FormTypes
  <2>4. templating' \in BOOLEAN
    BY <2>2, <2>3, Zenon
  <2> QED BY <1>3, <2>1, <2>4
<1>9. FormTypes'
  BY <1>1, <1>4, <1>6, <1>8 DEF FormsInv, FormTypes
<1> QED BY <1>2, <1>5, <1>6, <1>7, <1>9 DEF FormsInv

\* The server: a channel is merged with what is stored, and the file written.
LEMMA ServeKnown ==
    ASSUME FormsInv, NEW w \in writes, ServeWrite(w)
    PROVE  FormsInv'
<1>1. UNCHANGED <<formKit, templating, listed, dialog, confirm, writeCount, typedFor>>
  BY DEF ServeWrite
<1>2. w \in Write /\ WriteKnown(w) /\ FormTypes /\ w.name \in Receiver
  BY DEF FormsInv, FormTypes, WritesKnown, Write
<1>3. writes' \subseteq Write /\ WritesKnown'
  <2>1. PICK t \in {"ok", "failed"} : writes' = (writes \ {w}) \cup {[w EXCEPT !.state = t]}
    BY DEF ServeWrite, Answering
  <2>2. \A v \in writes' : v \in Write /\ WriteKnown(v)
    BY <1>2, <2>1, Relabelled DEF FormsInv, FormTypes, WritesKnown
  <2>3. \A v \in Write : WriteKnown(v) => WriteKnown(v)'
    BY <1>1 DEF WriteKnown, TextKnown
  <2> QED BY <2>2, <2>3 DEF WritesKnown
<1>4. ListKnown' /\ DialogKnown'
  <2>1. \A c \in ChannelValue, n \in Receiver : TextKnown(c, n)' <=> TextKnown(c, n)
    BY <1>1 DEF TextKnown
  <2>2. DialogKnown'
    BY <1>1, <2>1 DEF FormsInv, DialogKnown
  <2>3. ListKnown'
    BY <1>1 DEF FormsInv, ListKnown, TextKnown, AllMasked
  <2> QED BY <2>2, <2>3
<1> DEFINE Kept(n) == TextKnown(Stored(n), n) /\ (n \notin retyped => SecretsKnown(Stored(n), n))
<1>5. /\ ParsedChannels \in [Receiver -> ChannelValue \cup {NoData}]
      /\ \A n \in Present : ParsedChannels[n] = Stored(n) /\ Kept(n) /\ n \in Receiver
      /\ \A n \in Receiver \ Present : ParsedChannels[n] = NoData
  BY <1>2, ParsedChannelsFacts, StoredFacts DEF FormsInv, FileKnown
<1>6. receivers' \in [Receiver -> ChannelValue \cup {NoData}] /\ FileKnown'
      /\ defaultName' \in Receiver \cup {NoData}
  <2>1. CASE UNCHANGED <<receivers, defaultName, retyped>>
    BY <1>1, <2>1, Unwritten DEF FormsInv, FormTypes
  <2>2. CASE AddChannel(w) /\ ~WriteRefused(w)
    <3> DEFINE ch == [ParsedChannels EXCEPT ![w.name] = w.body]
    <3>1. w.body \in ChannelValue /\ TextKnown(w.body, w.name) /\ SecretsKnown(w.body, w.name)
      BY <1>2, <2>2 DEF AddChannel, WriteKnown, SecretsKnown
    <3>2. /\ ch \in [Receiver -> ChannelValue \cup {NoData}] /\ ch[w.name] = w.body
          /\ \A n \in Receiver \ {w.name} : ch[n] = ParsedChannels[n]
      BY <1>2, <1>5, <3>1
    <3>3. receivers' = Rendered(ch) /\ retyped' = retyped
          /\ defaultName' \in {defaultName, w.name}
      BY <2>2 DEF AddChannel
    <3> HIDE DEF ch
    <3>4. \A n \in Receiver : ch[n] # NoData =>
            TextKnown(ch[n], n) /\ (n \notin retyped' => SecretsKnown(ch[n], n))
      BY <1>5, <3>1, <3>2, <3>3
    <3>5. defaultName' \in Receiver \cup {NoData}
      BY <1>2, <3>3 DEF FormTypes
    <3> QED BY <1>1, <1>2, <3>2, <3>3, <3>4, <3>5, WriteBack
  <2>3. CASE PutChannel(w) /\ ~WriteRefused(w)
    <3> DEFINE n == w.name
               c == Stored(n)
               k == KeepSecrets(c, w.body)
               ch == [ParsedChannels EXCEPT ![n] = k]
    <3>1. n \in Present
      BY <2>3 DEF PutChannel, WriteRefused
    <3>2. c \in ChannelValue /\ ParsedChannels[n] = c /\ Kept(n)
      BY <1>2, <1>5, <3>1, StoredFacts
    <3>3. w.body \in ChannelValue /\ TextKnown(w.body, n)
          /\ \A x \in SecretFields : w.body[x] \in typedFor[n].secrets \cup {NoSecret} \/ w.body[x].masked
      BY <1>2, <2>3 DEF PutChannel, WriteKnown
    <3>4. receivers' = Rendered(ch) /\ defaultName' = defaultName
          /\ retyped' = IF c.medium # w.body.medium THEN retyped \cup {n} ELSE retyped
      BY <2>3, <3>2 DEF PutChannel
    <3>5. k \in ChannelValue /\ TextKnown(k, n) /\ (n \notin retyped' => SecretsKnown(k, n))
      <4>1. CASE c.medium # w.body.medium
        <5>1. k = w.body /\ n \in retyped'
          BY <3>4, <4>1 DEF KeepSecrets
        <5> QED BY <3>3, <5>1
      <4>2. CASE c.medium = w.body.medium
        <5> HIDE DEF c, k
        <5>1. /\ k \in ChannelValue /\ k.text = w.body.text
              /\ \A x \in SecretFields :
                   k[x] = IF w.body[x] = NoSecret \/ w.body[x].masked THEN c[x] ELSE w.body[x]
          BY <3>2, <3>3, <4>2, KeepSecretsFacts DEF k
        <5>2. TextKnown(k, n)
          BY <3>3, <5>1 DEF TextKnown
        <5>3. n \notin retyped => SecretsKnown(k, n)
          BY <3>2, <3>3, <5>1 DEF SecretsKnown, c
        <5> QED BY <3>4, <4>2, <5>1, <5>2, <5>3
      <4> QED BY <4>1, <4>2
    <3> HIDE DEF k, c
    <3>6. /\ ch \in [Receiver -> ChannelValue \cup {NoData}] /\ ch[n] = k
          /\ \A p \in Receiver \ {n} : ch[p] = ParsedChannels[p]
      BY <1>2, <1>5, <3>5
    <3> HIDE DEF ch, n
    <3>7. \A p \in Receiver : ch[p] # NoData =>
            TextKnown(ch[p], p) /\ (p \notin retyped' => SecretsKnown(ch[p], p))
      BY <1>5, <3>4, <3>5, <3>6
    <3> QED BY <1>1, <1>2, <3>4, <3>6, <3>7, WriteBack DEF FormTypes
  <2>4. CASE DeleteChannel(w) /\ ~WriteRefused(w)
    <3> DEFINE ch == [ParsedChannels EXCEPT ![w.name] = NoData]
    <3>1. /\ ch \in [Receiver -> ChannelValue \cup {NoData}] /\ ch[w.name] = NoData
          /\ \A n \in Receiver \ {w.name} : ch[n] = ParsedChannels[n]
      BY <1>2, <1>5
    <3>2. receivers' = Rendered(ch) /\ retyped' = retyped \ {w.name}
          /\ defaultName' \in {defaultName, NoData} \cup Present
      BY <2>4 DEF DeleteChannel
    <3> HIDE DEF ch
    <3>3. \A n \in Receiver : ch[n] # NoData =>
            TextKnown(ch[n], n) /\ (n \notin retyped' => SecretsKnown(ch[n], n))
      BY <1>5, <3>1, <3>2
    <3>4. defaultName' \in Receiver \cup {NoData}
      BY <1>2, <3>2 DEF FormTypes, Present
    <3> QED BY <1>1, <1>2, <3>1, <3>2, <3>3, <3>4, WriteBack
  <2>5. CASE SwitchDefault(w) /\ ~WriteRefused(w)
    <3>1. receivers' = Rendered(ParsedChannels) /\ retyped' = retyped /\ defaultName' = w.name
      BY <2>5 DEF SwitchDefault
    <3>2. \A n \in Receiver : ParsedChannels[n] # NoData =>
            /\ TextKnown(ParsedChannels[n], n)
            /\ n \notin retyped' => SecretsKnown(ParsedChannels[n], n)
      BY <1>5, <3>1
    <3> QED BY <1>1, <1>2, <1>5, <3>1, <3>2, WriteBack
  <2> QED BY <2>1, <2>2, <2>3, <2>4, <2>5 DEF ServeWrite, TestChannel
<1>7. FormTypes'
  BY <1>1, <1>2, <1>3, <1>6 DEF FormTypes
<1> QED BY <1>3, <1>4, <1>6, <1>7 DEF FormsInv

\* Every step keeps the invariant.
LEMMA StepKnown == FormsInv /\ [ChannelsNext]_channelVars => FormsInv'
<1> SUFFICES ASSUME FormsInv, [ChannelsNext]_channelVars PROVE FormsInv'
  OBVIOUS
<1>1. CASE UNCHANGED channelVars
  <2>1. UNCHANGED <<formKit, receivers, defaultName, templating, listed, dialog, confirm, writes,
                    writeCount, typedFor, retyped>>
    BY <1>1 DEF channelVars
  <2>2. FileKnown' /\ ListKnown' /\ DialogKnown' /\ \A w \in Write : WriteKnown(w) => WriteKnown(w)'
    BY <2>1, Unwritten
  <2>3. FormTypes'
    BY <2>1 DEF FormsInv, FormTypes
  <2> QED BY <2>1, <2>2, <2>3 DEF FormsInv, FormTypes, WritesKnown
<1>2. ASSUME NEW n \in Receiver, SubmitChannel(n) PROVE FormsInv'
  BY <1>2, SubmitChannelKnown
<1>3. ASSUME NEW w \in writes, ServeWrite(w) PROVE FormsInv'
  BY <1>3, ServeKnown
<1>4. formKit.media \subseteq Medium
  BY ChannelFormsAssumption DEF FormsInv, FormTypes
<1>5. ASSUME \/ OpenAddMenu \/ CloseDialog \/ ListChannels \/ ChannelsRestart
             \/ \E remove \in BOOLEAN : AnswerConfirm(remove)
             \/ \E w \in writes : WriteAnswered(w)
      PROVE  FormsInv'
  BY <1>5, PageKnown
<1>6. ASSUME NEW m \in formKit.media, PickMedium(m) PROVE FormsInv'
  BY <1>4, <1>6, PageKnown
<1>7. ASSUME NEW n \in Receiver,
             OpenEdit(n) \/ AskDelete(n) \/ RowButton(n, "default") \/ RowButton(n, "test")
      PROVE  FormsInv'
  BY <1>7, PageKnown
<1> QED BY <1>1, <1>2, <1>3, <1>5, <1>6, <1>7 DEF ChannelsNext

-----------------------------------------------------------------------------
\* However often a channel is listed masked, edited, stored under templates or
\* without, and read again: every secret in the file is one that was typed for
\* its receiver, whole, and every override too (mergeKeepSecrets and
\* receiverToChannel), unless a form of another type overwrote the receiver.
THEOREM TypedReachesFile == ChannelsSpec => []StoredIsTyped
<1>1. FormsInv => StoredIsTyped
  <2> SUFFICES ASSUME FormsInv, NEW n \in Present \ retyped
               PROVE  /\ {Stored(n)[x] : x \in SecretFields} \subseteq typedFor[n].secrets \cup {NoSecret}
                      /\ Stored(n).text \in typedFor[n].texts \cup {""}
    BY DEF StoredIsTyped
  <2>1. TextKnown(Stored(n), n) /\ SecretsKnown(Stored(n), n)
    BY DEF FormsInv, FileKnown
  <2> QED BY <2>1 DEF TextKnown, SecretsKnown
<1> QED BY <1>1, InitKnown, StepKnown, PTL DEF ChannelsSpec

-----------------------------------------------------------------------------
(* Session.                                                                *)

\* Only sign-out takes a token away from a page that shows one; a new one comes
\* to a page that shows none.
OneTokenAtOnce == token # NoData /\ askedSession # NoData => askedSession = token

\* A close is waiting only between sign-out and the next login.
CloseWaitsSignedOut == deferred # NoData => token = NoData /\ askedSession = NoData

\* A login is under way only on a page that shows no token and waits for no close.
LoginSignedOut ==
    pageStage \in {"challenge", "solving", "submitting", "granted"}
        => token = NoData /\ deferred = NoData

\* A client that has no socket, or one that is closing for good.
Retired(c) == Idle(c) \/ (socketOf[c].closing /\ ~socketOf[c].retry)

SessionInv ==
    /\ SessionTypeOK
    /\ OneTokenAtOnce /\ CloseWaitsSignedOut /\ LoginSignedOut
    /\ OldClientsRetire

-----------------------------------------------------------------------------
\* The tokens of the logins so far are among those that can be granted.
LEMMA GrantedFacts ==
    ASSUME SessionTypeOK
    PROVE  /\ NoData \notin Granted
           /\ logins \in Nat /\ logins' \in Nat => 1..logins \subseteq Granted
           /\ logins < MaxLogins => logins + 1 \in Granted
BY SessionAssumption DEF SessionTypeOK, Granted

\* What a client does to its socket.
LEMMA SocketFacts ==
    /\ {NoSocket, Connecting, Reconnecting} \subseteq Socket
    /\ \A s \in Socket : /\ ClosedByClient(s) \in Socket
                         /\ [s EXCEPT !.status = "open"] \in Socket
<1>1. {NoSocket, Connecting, Reconnecting} \subseteq Socket
  BY DEF Socket, NoSocket, Connecting, Reconnecting
<1>2. ASSUME NEW s \in Socket PROVE [s EXCEPT !.status = "open"] \in Socket
  BY DEF Socket
<1>3. ASSUME NEW s \in Socket PROVE ClosedByClient(s) \in Socket
  <2>1. ASSUME NEW b \in BOOLEAN PROVE [s EXCEPT !.retry = FALSE, !.closing = b] \in Socket
    BY DEF Socket
  <2>2. (s.status # "closed") \in BOOLEAN
    BY Zenon
  <2> QED BY <2>1, <2>2, Zenon DEF ClosedByClient
<1> QED BY <1>1, <1>2, <1>3

\* There is no session at first.
LEMMA SessionInvInit == SessionInit => SessionInv
<1> SUFFICES ASSUME SessionInit PROVE SessionInv OBVIOUS
<1>1. SessionTypeOK
  <2>1. socketOf \in [Granted -> Socket]
    BY SocketFacts DEF SessionInit
  <2>2. {token, askedSession, storage, deferred} \subseteq Granted \cup {NoData}
    BY SessionAssumption DEF SessionInit, Granted
  <2>3. logins \in 0..MaxLogins /\ valid \subseteq 1..logins
    <3>1. CASE storage = NoData
      BY <3>1, SessionAssumption DEF SessionInit
    <3>2. CASE storage # NoData
      BY <3>2, SessionAssumption DEF SessionInit
    <3> QED BY <3>1, <3>2
  <2>4. /\ pill \in {"closed", "connecting", "open"}
        /\ pageStage \in {"idle", "challenge", "solving", "submitting", "granted", "error"}
        /\ challenge \in [signedWith : Nat, fresh : BOOLEAN] \cup {NoData}
    BY Zenon DEF SessionInit
  <2>5. signOutOpen \in BOOLEAN
    BY Zenon DEF SessionInit
  <2>6. {secretNow, faults, reloads} \subseteq Nat
    BY DEF SessionInit
  <2> QED BY <2>1, <2>2, <2>3, <2>4, <2>5, <2>6 DEF SessionTypeOK
<1>2. OneTokenAtOnce /\ CloseWaitsSignedOut /\ LoginSignedOut
  BY DEF SessionInit, OneTokenAtOnce, CloseWaitsSignedOut, LoginSignedOut
<1>3. OldClientsRetire
  BY DEF SessionInit, OldClientsRetire, Idle, NoSocket
<1> QED BY <1>1, <1>2, <1>3 DEF SessionInv

-----------------------------------------------------------------------------
\* Every step keeps the types,
LEMMA SessionTypeStep == SessionTypeOK /\ [SessionNext]_sessionVars => SessionTypeOK'
<1> SUFFICES ASSUME SessionTypeOK, [SessionNext]_sessionVars PROVE SessionTypeOK' OBVIOUS
<1> USE SessionAssumption DEF SessionTypeOK
<1>1. CASE CommitToken
  BY <1>1, SocketFacts DEF CommitToken, Connects, Deferral, authServer
<1>2. CASE DeferredClose
  BY <1>2, SocketFacts DEF DeferredClose, loginPage, authServer
<1>3. CASE SubmitLogin
  BY <1>3 DEF SubmitLogin, provider, authServer
<1>4. CASE ChallengeIssued
  BY <1>4 DEF ChallengeIssued, provider, authServer
<1>5. CASE ChallengeSolved
  BY <1>5 DEF ChallengeSolved, provider, authServer
<1>6. CASE LoginGranted
  BY <1>6 DEF LoginGranted, SetToken, Granted
<1>7. CASE LoginRefused
  BY <1>7 DEF LoginRefused, provider, authServer, Fault
<1>8. CASE ChallengeExpires
  <2>1. [challenge EXCEPT !.fresh = FALSE] \in [signedWith : Nat, fresh : BOOLEAN]
    BY <1>8 DEF ChallengeExpires
  <2> QED BY <1>8, <2>1 DEF ChallengeExpires, provider, authServer, Fault
<1>9. CASE SecretChanged
  BY <1>9 DEF SecretChanged, provider, loginPage, Fault
<1>10. CASE ReloadPage
  <2>1. socketOf' \in [Granted -> Socket]
    BY <1>10, SocketFacts DEF ReloadPage
  <2>2. {token', askedSession', storage', deferred'} \subseteq Granted \cup {NoData}
    BY <1>10 DEF ReloadPage
  <2>3. /\ pill' \in {"closed", "connecting", "open"}
        /\ pageStage' \in {"idle", "challenge", "solving", "submitting", "granted", "error"}
        /\ challenge' \in [signedWith : Nat, fresh : BOOLEAN] \cup {NoData}
        /\ signOutOpen' \in BOOLEAN
    BY <1>10, Zenon DEF ReloadPage
  <2>4. {secretNow', faults', reloads'} \subseteq Nat
    BY <1>10 DEF ReloadPage, authServer
  <2> QED BY <1>10, <2>1, <2>2, <2>3, <2>4 DEF ReloadPage, authServer
<1>11. CASE OtherTabSignsOut
  BY <1>11 DEF OtherTabSignsOut, loginPage, authServer
<1>12. ASSUME NEW confirmed \in BOOLEAN, SignOut(confirmed) PROVE SessionTypeOK'
  BY <1>12 DEF SignOut, SetToken, loginPage, authServer
<1>13. ASSUME NEW c \in Granted, SocketOpens(c) PROVE SessionTypeOK'
  BY <1>13, SocketFacts DEF SocketOpens, provider, loginPage, authServer
<1>14. ASSUME NEW c \in Granted, SocketLost(c) PROVE SessionTypeOK'
  BY <1>14, SocketFacts DEF SocketLost, provider, loginPage, authServer, Fault
<1>15. ASSUME NEW c \in Granted, SocketRefused(c) PROVE SessionTypeOK'
  BY <1>15, SocketFacts DEF SocketRefused, SetToken, loginPage, authServer
<1>16. ASSUME NEW c \in Granted, SocketRetries(c) PROVE SessionTypeOK'
  BY <1>16, SocketFacts DEF SocketRetries, provider, loginPage, authServer
<1>17. ASSUME NEW c \in Granted, TokenExpires(c) PROVE SessionTypeOK'
  BY <1>17 DEF TokenExpires, provider, loginPage, Fault
<1>18. CASE UNCHANGED sessionVars
  BY <1>18 DEF sessionVars, provider, loginPage, authServer
<1> QED
  BY <1>1, <1>2, <1>3, <1>4, <1>5, <1>6, <1>7, <1>8, <1>9, <1>10, <1>11, <1>12, <1>13,
     <1>14, <1>15, <1>16, <1>17, <1>18 DEF SessionNext

\* what is known of a page that is signed out,
LEMMA SignedOutStep ==
    SessionInv /\ [SessionNext]_sessionVars => (OneTokenAtOnce /\ CloseWaitsSignedOut /\ LoginSignedOut)'
<1> SUFFICES ASSUME SessionInv, [SessionNext]_sessionVars
             PROVE  (OneTokenAtOnce /\ CloseWaitsSignedOut /\ LoginSignedOut)'
  OBVIOUS
<1> USE DEF SessionInv, OneTokenAtOnce, CloseWaitsSignedOut, LoginSignedOut
<1>1. CASE CommitToken
  <2>1. token' = askedSession /\ askedSession' = askedSession /\ pageStage' = "idle"
    BY <1>1 DEF CommitToken
  <2>2. askedSession # NoData => deferred' = NoData
    BY <1>1 DEF CommitToken, Deferral
  <2> QED BY <2>1, <2>2
<1>2. CASE DeferredClose
  BY <1>2 DEF DeferredClose, loginPage
<1>3. CASE SubmitLogin
  BY <1>3 DEF SubmitLogin, provider
<1>4. CASE ChallengeIssued
  BY <1>4 DEF ChallengeIssued, provider
<1>5. CASE ChallengeSolved
  BY <1>5 DEF ChallengeSolved, provider
<1>6. CASE LoginGranted
  BY <1>6 DEF LoginGranted, SetToken
<1>7. CASE LoginRefused
  BY <1>7 DEF LoginRefused, provider
<1>8. CASE ChallengeExpires
  BY <1>8 DEF ChallengeExpires, provider
<1>9. CASE SecretChanged
  BY <1>9 DEF SecretChanged, provider, loginPage
<1>10. CASE ReloadPage
  BY <1>10 DEF ReloadPage
<1>11. CASE OtherTabSignsOut
  BY <1>11 DEF OtherTabSignsOut, loginPage
<1>12. ASSUME NEW confirmed \in BOOLEAN, SignOut(confirmed)
       PROVE  (OneTokenAtOnce /\ CloseWaitsSignedOut /\ LoginSignedOut)'
  BY <1>12 DEF SignOut, SetToken, loginPage
<1>13. ASSUME NEW c \in Granted, SocketRefused(c)
       PROVE  (OneTokenAtOnce /\ CloseWaitsSignedOut /\ LoginSignedOut)'
  BY <1>13 DEF SocketRefused, SetToken, loginPage
<1>14. ASSUME NEW c \in Granted,
              SocketOpens(c) \/ SocketLost(c) \/ SocketRetries(c) \/ TokenExpires(c)
       PROVE  (OneTokenAtOnce /\ CloseWaitsSignedOut /\ LoginSignedOut)'
  BY <1>14 DEF SocketOpens, SocketLost, SocketRetries, TokenExpires, provider, loginPage
<1>15. CASE UNCHANGED sessionVars
  BY <1>15 DEF sessionVars, provider, loginPage
<1> QED
  BY <1>1, <1>2, <1>3, <1>4, <1>5, <1>6, <1>7, <1>8, <1>9, <1>10, <1>11, <1>12, <1>13,
     <1>14, <1>15 DEF SessionNext

\* A client that closed its socket itself is retired, and so is one without a
\* socket that does not reconnect.
LEMMA RetiredFacts ==
    ASSUME SessionTypeOK, NEW c \in Granted
    PROVE  /\ Idle(c) <=> socketOf[c].status = "closed" /\ ~socketOf[c].retry
           /\ NoSocket.status = "closed" /\ ~NoSocket.retry
           /\ ~ClosedByClient(socketOf[c]).retry
           /\ \/ ClosedByClient(socketOf[c]).closing
              \/ ClosedByClient(socketOf[c]).status = "closed"
BY DEF SessionTypeOK, Socket, Idle, NoSocket, ClosedByClient

\* and that earlier clients retire.
LEMMA RetireStep == SessionInv /\ [SessionNext]_sessionVars => OldClientsRetire'
<1> SUFFICES ASSUME SessionInv, [SessionNext]_sessionVars,
                    NEW c \in Granted, c \notin {token', deferred'}
             PROVE  Retired(c)'
  BY DEF OldClientsRetire, Retired, Granted
<1>0. NoData \notin Granted /\ (c \notin {token, deferred} => Retired(c))
  BY GrantedFacts DEF SessionInv, OldClientsRetire, Retired
<1> USE DEF Retired, Idle
<1>1. CASE CommitToken
  <2>1. socketOf'[c] = socketOf[c]
    BY <1>0, <1>1 DEF CommitToken, Connects, SessionInv, SessionTypeOK
  <2>2. c \notin {token, deferred}
    BY <1>0, <1>1 DEF CommitToken, Deferral, SessionInv, OneTokenAtOnce, CloseWaitsSignedOut
  <2> QED BY <1>0, <2>1, <2>2
<1>2. CASE DeferredClose
  <2>1. CASE c = deferred
    BY <1>2, <2>1, RetiredFacts DEF DeferredClose, SessionInv, SessionTypeOK
  <2>2. CASE c # deferred
    BY <1>0, <1>2, <2>2 DEF DeferredClose, SessionInv, SessionTypeOK
  <2> QED BY <2>1, <2>2
<1>3. CASE \/ SubmitLogin \/ ChallengeIssued \/ ChallengeSolved \/ LoginGranted
           \/ LoginRefused \/ ChallengeExpires \/ SecretChanged \/ OtherTabSignsOut
  BY <1>0, <1>3 DEF SubmitLogin, ChallengeIssued, ChallengeSolved, LoginGranted,
     LoginRefused, ChallengeExpires, SecretChanged, OtherTabSignsOut, provider
<1>4. CASE ReloadPage
  BY <1>4 DEF ReloadPage, NoSocket
<1>5. ASSUME NEW confirmed \in BOOLEAN, SignOut(confirmed) PROVE Retired(c)'
  BY <1>0, <1>5 DEF SignOut
<1>6. ASSUME NEW d \in Granted, SocketOpens(d) PROVE Retired(c)'
  <2>1. c # d
    BY <1>0, <1>6 DEF SocketOpens, provider
  <2> QED BY <1>0, <1>6, <2>1 DEF SocketOpens, provider, SessionInv, SessionTypeOK
<1>7. ASSUME NEW d \in Granted, SocketLost(d) PROVE Retired(c)'
  <2>1. CASE c = d
    BY <1>0, <1>7, <2>1 DEF SocketLost, provider, SessionInv, SessionTypeOK, NoSocket
  <2>2. CASE c # d
    BY <1>0, <1>7, <2>2 DEF SocketLost, provider, SessionInv, SessionTypeOK
  <2> QED BY <2>1, <2>2
<1>8. ASSUME NEW d \in Granted, SocketRefused(d) PROVE Retired(c)'
  <2>1. CASE c = d
    BY <1>8, <2>1 DEF SocketRefused, SessionInv, SessionTypeOK, NoSocket
  <2>2. CASE c # d
    BY <1>0, <1>8, <2>2 DEF SocketRefused, SessionInv, SessionTypeOK
  <2> QED BY <2>1, <2>2
<1>9. ASSUME NEW d \in Granted, SocketRetries(d) PROVE Retired(c)'
  <2>1. c # d
    BY <1>0, <1>9 DEF SocketRetries, provider
  <2> QED BY <1>0, <1>9, <2>1 DEF SocketRetries, provider, SessionInv, SessionTypeOK
<1>10. ASSUME NEW t \in Granted, TokenExpires(t) PROVE Retired(c)'
  BY <1>0, <1>10 DEF TokenExpires, provider
<1>11. CASE UNCHANGED sessionVars
  BY <1>0, <1>11 DEF sessionVars, provider
<1> QED
  BY <1>1, <1>2, <1>3, <1>4, <1>5, <1>6, <1>7, <1>8, <1>9, <1>10, <1>11 DEF SessionNext

-----------------------------------------------------------------------------
\* The variables keep their types, and of the clients of ended sessions none
\* holds or opens a socket: the deferred close of ws-context.tsx reaches every
\* client that its effect gave up, however sign-out, refused tokens, lost
\* sockets, reloads and logins follow each other.
THEOREM OldClientsAlwaysRetire == SessionSpec => [](SessionTypeOK /\ OldClientsRetire)
<1>1. SessionInit => SessionInv
  BY SessionInvInit
<1>2. SessionInv /\ [SessionNext]_sessionVars => SessionInv'
  BY SessionTypeStep, SignedOutStep, RetireStep DEF SessionInv
<1>3. SessionInv => SessionTypeOK /\ OldClientsRetire
  BY DEF SessionInv
<1> QED BY <1>1, <1>2, <1>3, PTL DEF SessionSpec
-----------------------------------------------------------------------------
(* The default of the forms, and the types of the page.                    *)

\* The menu of receiver types is open or not, and the default channel is a channel
\* of the file.
MenuAndDefault == addMenu \in BOOLEAN /\ defaultName \in Present \cup {NoData}

\* What a write does to the set of receivers: every channel is rendered as a
\* receiver, and nothing else is.
LEMMA PresentAfterWrite ==
    ASSUME FormTypes, NEW ch \in [Receiver -> ChannelValue \cup {NoData}],
           receivers' = Rendered(ch)
    PROVE  Present' = {n \in Receiver : ch[n] # NoData}
<1>1. \A n \in Receiver :
        receivers'[n] = IF ch[n] = NoData THEN NoData ELSE ChannelToReceiver(ch[n], templating)
  BY DEF Rendered
<1>2. templating \in BOOLEAN
  BY Zenon DEF FormTypes
<1>3. \A n \in Receiver : ch[n] # NoData => ChannelToReceiver(ch[n], templating) \in ChannelValue
  BY <1>2, RenderedFacts
<1> QED BY <1>1, <1>3, ChannelPartsAssumption DEF Present

\* A write leaves a default that is in the file: the first channel becomes it, a
\* deleted one hands it over, and only a channel of the file can be chosen.
LEMMA ServedDefault ==
    ASSUME FormsInv, MenuAndDefault, NEW w \in writes, ServeWrite(w)
    PROVE  MenuAndDefault'
<1>1. w.name \in Receiver /\ WriteKnown(w) /\ FormTypes /\ addMenu' = addMenu
  <2>1. WriteKnown(w) /\ FormTypes /\ addMenu' = addMenu
    BY DEF FormsInv, WritesKnown, ServeWrite
  <2>2. w \in Write
    BY <2>1, Zenon DEF FormTypes
  <2> QED BY <2>1, <2>2 DEF Write
<1>2. /\ ParsedChannels \in [Receiver -> ChannelValue \cup {NoData}]
      /\ \A n \in Receiver : ParsedChannels[n] # NoData <=> n \in Present
  <2>1. \A n \in Present : Stored(n) \in ChannelValue /\ n \in Receiver
    BY <1>1, StoredFacts DEF Present
  <2> QED BY <1>1, <2>1, ParsedChannelsFacts, ChannelPartsAssumption
<1>3. CASE UNCHANGED <<receivers, defaultName, retyped>>
  BY <1>1, <1>3 DEF MenuAndDefault, Present
<1>4. CASE AddChannel(w) /\ ~WriteRefused(w)
  <2> DEFINE ch == [ParsedChannels EXCEPT ![w.name] = w.body]
  <2>1. w.body \in ChannelValue
    BY <1>1, <1>4 DEF AddChannel, WriteKnown
  <2>2. /\ ch \in [Receiver -> ChannelValue \cup {NoData}] /\ ch[w.name] = w.body
        /\ \A n \in Receiver \ {w.name} : ch[n] = ParsedChannels[n]
    BY <1>1, <1>2, <2>1
  <2>3. receivers' = Rendered(ch) /\ defaultName' = IF defaultName = NoData THEN w.name ELSE defaultName
    BY <1>4 DEF AddChannel
  <2> HIDE DEF ch
  <2>4. Present' = {n \in Receiver : ch[n] # NoData}
    BY <1>1, <2>2, <2>3, PresentAfterWrite
  <2>5. w.name \in Present' /\ Present \subseteq Present'
    BY <1>1, <1>2, <2>1, <2>2, <2>4, ChannelPartsAssumption DEF Present
  <2> QED BY <1>1, <2>3, <2>5 DEF MenuAndDefault
<1>5. CASE PutChannel(w) /\ ~WriteRefused(w)
  <2> DEFINE k  == KeepSecrets(ParsedChannels[w.name], w.body)
             ch == [ParsedChannels EXCEPT ![w.name] = k]
  <2>1. w.name \in Present /\ w.body \in ChannelValue
    BY <1>1, <1>5 DEF PutChannel, WriteRefused, WriteKnown
  <2>2. k \in ChannelValue
    <3>1. ParsedChannels[w.name] \in ChannelValue
      BY <1>1, <1>2, <2>1
    <3>2. CASE ParsedChannels[w.name].medium # w.body.medium
      BY <2>1, <3>2 DEF KeepSecrets
    <3>3. CASE ParsedChannels[w.name].medium = w.body.medium
      BY <2>1, <3>1, <3>3, KeepSecretsFacts
    <3> QED BY <3>2, <3>3
  <2>3. receivers' = Rendered(ch) /\ defaultName' = defaultName
    BY <1>5 DEF PutChannel
  <2> HIDE DEF k
  <2>4. /\ ch \in [Receiver -> ChannelValue \cup {NoData}] /\ ch[w.name] = k
        /\ \A n \in Receiver \ {w.name} : ch[n] = ParsedChannels[n]
    BY <1>1, <1>2, <2>2
  <2> HIDE DEF ch
  <2>5. Present' = {n \in Receiver : ch[n] # NoData}
    BY <1>1, <2>3, <2>4, PresentAfterWrite
  <2>6. Present \subseteq Present'
    BY <1>1, <1>2, <2>2, <2>4, <2>5, ChannelPartsAssumption DEF Present
  <2> QED BY <1>1, <2>3, <2>6 DEF MenuAndDefault
<1>6. CASE DeleteChannel(w) /\ ~WriteRefused(w)
  <2> DEFINE ch == [ParsedChannels EXCEPT ![w.name] = NoData]
  <2>1. /\ ch \in [Receiver -> ChannelValue \cup {NoData}]
        /\ \A n \in Receiver \ {w.name} : ch[n] = ParsedChannels[n]
    BY <1>1, <1>2
  <2>2. /\ receivers' = Rendered(ch)
        /\ defaultName' \in IF defaultName # w.name THEN {defaultName}
                            ELSE IF Present = {w.name} THEN {NoData} ELSE Present \ {w.name}
    BY <1>6 DEF DeleteChannel
  <2> HIDE DEF ch
  <2>3. Present' = {n \in Receiver : ch[n] # NoData}
    BY <1>1, <2>1, <2>2, PresentAfterWrite
  <2>4. Present \ {w.name} \subseteq Present'
    BY <1>2, <2>1, <2>3 DEF Present
  <2> QED BY <1>1, <2>2, <2>4 DEF MenuAndDefault
<1>7. CASE SwitchDefault(w) /\ ~WriteRefused(w)
  <2>1. receivers' = Rendered(ParsedChannels) /\ defaultName' = w.name /\ w.name \in Present
    BY <1>7 DEF SwitchDefault, WriteRefused
  <2>2. Present' = {n \in Receiver : ParsedChannels[n] # NoData}
    BY <1>1, <1>2, <2>1, PresentAfterWrite
  <2>3. w.name \in Present'
    BY <1>1, <1>2, <2>1, <2>2
  <2> QED BY <1>1, <2>1, <2>3 DEF MenuAndDefault
<1> QED BY <1>3, <1>4, <1>5, <1>6, <1>7 DEF ServeWrite, TestChannel

\* Nothing else changes the receivers.
LEMMA DefaultStep ==
    ASSUME FormsInv, MenuAndDefault, [ChannelsNext]_channelVars
    PROVE  MenuAndDefault'
<1>1. ASSUME NEW w \in writes, ServeWrite(w) PROVE MenuAndDefault'
  BY <1>1, ServedDefault
<1>2. ASSUME UNCHANGED <<receivers, defaultName>>, addMenu' \in BOOLEAN PROVE MenuAndDefault'
  BY <1>2 DEF MenuAndDefault, Present
<1>3. CASE UNCHANGED channelVars
  BY <1>2, <1>3 DEF channelVars, MenuAndDefault
<1>4. CASE OpenAddMenu
  BY <1>2, <1>4 DEF OpenAddMenu
<1>5. CASE CloseDialog \/ ListChannels \/ ChannelsRestart \/ \E w \in writes : WriteAnswered(w)
  BY <1>2, <1>5 DEF CloseDialog, ListChannels, ChannelsRestart, WriteAnswered, MenuAndDefault
<1>6. CASE \E m \in formKit.media : PickMedium(m)
  <2>1. UNCHANGED <<receivers, defaultName>> /\ addMenu' = FALSE
    BY <1>6, Zenon DEF PickMedium
  <2> QED BY <1>2, <2>1
<1>7. CASE \E n \in Receiver : SubmitChannel(n)
  <2>1. ASSUME NEW n, NEW b, NEW a, SubmitForm(n, b, a)
        PROVE  UNCHANGED <<receivers, defaultName, addMenu>>
    BY <2>1, Zenon DEF SubmitForm
  <2>2. UNCHANGED <<receivers, defaultName, addMenu>>
    BY <1>7, <2>1, Zenon DEF SubmitChannel, SlackForm, EmailForm, WebhookForm, TelegramForm
  <2> QED BY <1>2, <2>2 DEF MenuAndDefault
<1>8. CASE \E n \in Receiver : OpenEdit(n) \/ AskDelete(n)
  BY <1>2, <1>8 DEF OpenEdit, AskDelete, MenuAndDefault
<1>9. CASE \E n \in Receiver : \E o \in {"default", "test"} : RowButton(n, o)
  BY <1>2, <1>9 DEF RowButton, MenuAndDefault
<1>10. CASE \E remove \in BOOLEAN : AnswerConfirm(remove)
  BY <1>2, <1>10 DEF AnswerConfirm, MenuAndDefault
<1> QED BY <1>1, <1>3, <1>4, <1>5, <1>6, <1>7, <1>8, <1>9, <1>10 DEF ChannelsNext

\* The invariant of the forms says what the types of the page are.
LEMMA FormsTypes ==
    ASSUME FormsInv, MenuAndDefault
    PROVE  ChannelFormsTypeOK
<1>1. /\ receivers \in [Receiver -> ChannelValue \cup {NoData}]
      /\ listed.channels \in [Receiver -> ChannelValue \cup {NoData}]
      /\ confirm \in Receiver \cup {NoData}
      /\ templating \in BOOLEAN /\ writes \subseteq Write
  <2>1. FormTypes
    BY DEF FormsInv
  <2>2. /\ receivers \in [Receiver -> ChannelValue \cup {NoData}]
        /\ listed \in [channels : [Receiver -> ChannelValue \cup {NoData}],
                       default : Receiver \cup {NoData}]
        /\ confirm \in Receiver \cup {NoData}
        /\ templating \in BOOLEAN /\ writes \in SUBSET Write
    BY <2>1, Zenon DEF FormTypes
  <2> QED BY <2>2
<1>2. dialog # Closed => dialog.form \in ChannelValue
  <2>1. ASSUME NEW m \in Medium, dialog = [kind |-> "add", form |-> EmptyForm(m)]
        PROVE  dialog.form \in ChannelValue
    <3>1. EmptyForm(m) \in ChannelValue
      BY BlankFacts
    <3> QED BY <2>1, <3>1
  <2>2. ASSUME NEW n \in Receiver, NEW c \in ChannelValue,
               dialog = [kind |-> "edit", form |-> c, name |-> n]
        PROVE  dialog.form \in ChannelValue
    BY <2>2
  <2> QED BY <2>1, <2>2, Zenon DEF FormsInv, DialogKnown
<1>3. \A w \in writes : w.name \in Receiver /\ w.body \in ChannelValue \cup {NoData}
  BY <1>1 DEF Write
<1> QED BY <1>1, <1>2, <1>3 DEF ChannelFormsTypeOK, MenuAndDefault

\* However the page, the routes and restarts interleave, what the page, the wire and
\* the file hold stays a channel, and the default is a channel of the file.
THEOREM FormsTypeCorrect == ChannelsSpec => []ChannelFormsTypeOK
<1>1. ChannelsInit => FormsInv /\ MenuAndDefault
  <2>1. ChannelsInit => MenuAndDefault
    BY DEF ChannelsInit, MenuAndDefault
  <2> QED BY <2>1, InitKnown
<1>2. FormsInv /\ MenuAndDefault /\ [ChannelsNext]_channelVars => (FormsInv /\ MenuAndDefault)'
  BY StepKnown, DefaultStep
<1>3. FormsInv /\ MenuAndDefault => ChannelFormsTypeOK
  BY FormsTypes
<1> QED BY <1>1, <1>2, <1>3, PTL DEF ChannelsSpec

-----------------------------------------------------------------------------
(* The three parts as MCManagedChannels composes them.                     *)

\* A behaviour of the composition is one of the store, of the forms and of the
\* session: the parts that keep still stutter.
THEOREM ChannelPartsImplemented ==
    ChannelPartsSpec => Spec /\ ChannelsSpec /\ SessionSpec
<1>1. ChannelPartsInit => Init /\ ChannelsInit /\ SessionInit
  BY DEF ChannelPartsInit
<1>2. [ChannelPartsNext]_<<part, vars, channelVars, sessionVars>>
        => [Next]_vars /\ [ChannelsNext]_channelVars /\ [SessionNext]_sessionVars
  BY DEF ChannelPartsNext
<1> QED BY <1>1, <1>2, PTL DEF ChannelPartsSpec, Spec, ChannelsSpec, SessionSpec

\* Whichever part moves, the routes keep the types of what they hold and write, the
\* page and the file those of every channel, and the tab those of its sockets and
\* tokens.
THEOREM ChannelPartsKeepTypes == ChannelPartsSpec => []ChannelPartsTypeOK
<1>1. ChannelPartsInit => part \in Parts
  BY DEF ChannelPartsInit
<1>2. part \in Parts /\ [ChannelPartsNext]_<<part, vars, channelVars, sessionVars>>
        => (part \in Parts)'
  BY DEF ChannelPartsNext
<1>3. part \in Parts /\ TypeOK /\ ChannelFormsTypeOK /\ SessionTypeOK => ChannelPartsTypeOK
  BY ChannelPartsAssumption DEF ChannelPartsTypeOK
<1>4. ChannelPartsSpec => [](TypeOK /\ ChannelFormsTypeOK /\ SessionTypeOK)
  BY ChannelPartsImplemented, TypeCorrect, FormsTypeCorrect, OldClientsAlwaysRetire, PTL
<1> QED BY <1>1, <1>2, <1>3, <1>4, PTL DEF ChannelPartsSpec
=============================================================================
