--------------------------- MODULE ManagedChannels ---------------------------
(***************************************************************************)
(* The Channels tab: the routes of routes/sys-alerts.ts that read the      *)
(* Alertmanager configuration the Console manages (store/channels-         *)
(* store.ts), change it, write it back and ask Alertmanager to reload.     *)
(* Each handler is a read-modify-write with an await between any two       *)
(* steps, and nothing keeps two of them apart.                             *)
(***************************************************************************)
EXTENDS ManagedFile, Naturals, FiniteSets

CONSTANTS
    Request,     \* each is served at most once
    Name,        \* receiver names
    Type,        \* receiver types
    Secret,      \* live secrets (webhook URLs, tokens, passwords)
    Mask,        \* a masked secret, as the browser receives it
    Blank,       \* an empty or absent secret
    NoName,      \* no default channel: the synthetic receiver
    NoOp,        \* the request has not come yet
    NoConfig,    \* the text could not be parsed
    Deployed,    \* configurations that a deployment may come with
    MaxCrashes   \* bound on restarts of the Console

Channel == [name : Name, type : Type, secret : Secret \cup {Mask, Blank}]
Config  == [channels : SUBSET Channel, default : Name \cup {NoName}]

Op == {o \in [kind : {"add", "put"}, name : Name, channel : Channel] : o.channel.name = o.name}
      \cup [kind : {"delete"}, name : Name]
      \cup [kind : {"default"}, name : Name \cup {NoName}]

NamesOf(c) == {ch.name : ch \in c.channels}

\* What Alertmanager accepts: no receiver twice, and the default one defined.
Accepted(c) ==
    /\ \A a, b \in c.channels : a.name = b.name => a = b
    /\ c.default \in NamesOf(c) \cup {NoName}

ASSUME ChannelsAssumption ==
    /\ Type \subseteq {"slack", "webhook", "email", "telegram"}
    /\ Deployed \subseteq Config
    /\ \A c \in Deployed : Accepted(c)
    /\ NoName \notin Name
    /\ NoFile \notin Inode
    /\ NoConfig \notin Config
    /\ NoOp \notin Op
    /\ MaxCrashes \in Nat

VARIABLES
    fs,          \* the managed file and its temporary file
    loaded,      \* the configuration Alertmanager runs
    pc,          \* the stage of each request
    op,          \* what it asks for
    next,        \* the configuration it writes
    fd,          \* the inode that its writeFile opened
    reply,       \* how it was answered
    up,          \* the Console is running
    crashes,
    raced,       \* two requests were between read and rename at once (history)
    lastReload   \* the outcome of the latest reload (history)

file    == <<fs, raced>>
request == <<pc, op, next, fd, reply>>
vars    == <<file, request, loaded, lastReload, up, crashes>>

Seeded == [channels |-> {}, default |-> NoName]

NoFiles == [live |-> NoFile, tmp |-> NoFile, text |-> [i \in Inode |-> EmptyText]]

Holding(i, c) ==
    [live |-> i, tmp |-> NoFile,
     text |-> [j \in Inode |-> IF j = i THEN Whole(c) ELSE EmptyText]]

Init ==
    /\ fs = NoFiles \/ \E i \in Inode, c \in Deployed : fs = Holding(i, c)
    /\ loaded = Seeded
    /\ pc = [r \in Request |-> "idle"]
    /\ op = [r \in Request |-> NoOp]
    /\ next = [r \in Request |-> Seeded]
    /\ fd = [r \in Request |-> NoFile]
    /\ reply = [r \in Request |-> "none"]
    /\ up = FALSE /\ crashes = 0
    /\ raced = FALSE /\ lastReload = "none"

-----------------------------------------------------------------------------
(* Start and death of the process.                                         *)

\* main: seedIfMissing runs to its end before the server listens; when it fails
\* the server listens without the file.
Start ==
    /\ ~up
    /\ up' = TRUE
    /\ fs' \in IF fs.live = NoFile THEN Seedings(fs, Seeded) ELSE {fs}
    /\ UNCHANGED <<request, loaded, lastReload, crashes, raced>>

\* The requests under way get no answer; the next process may have the same
\* id (a container) and so the same temporary path, or another.
Crash ==
    /\ up /\ crashes < MaxCrashes
    /\ up' = FALSE /\ crashes' = crashes + 1
    /\ \E t \in {fs.tmp, NoFile} : fs' = [fs EXCEPT !.tmp = t]
    /\ LET lost == {r \in Request : pc[r] \notin {"idle", "done"}}
       IN  /\ pc' = [r \in Request |-> IF r \in lost THEN "done" ELSE pc[r]]
           /\ reply' = [r \in Request |-> IF r \in lost THEN "lost" ELSE reply[r]]
    /\ fd' = [r \in Request |-> NoFile]
    /\ UNCHANGED <<op, next, loaded, lastReload, raced>>

-----------------------------------------------------------------------------
(* What each route makes of the configuration that it read.                *)

\* channelBody: what the schema of each channel type says of the secret.
ValidBody(ch) ==
    CASE ch.type \in {"slack", "webhook"} -> ch.secret # Blank
      [] ch.type = "telegram"             -> ch.secret \notin {Blank, Mask}
      [] ch.type = "email"                -> TRUE

MergeKeepSecrets(current, ch) ==
    IF current.type # ch.type \/ ch.secret \notin {Blank, Mask}
    THEN ch
    ELSE [ch EXCEPT !.secret = current.secret]

\* 404 and 409: the request ends after its read.
Refused(o, c) ==
    CASE o.kind = "add"     -> o.name \in NamesOf(c)
      [] o.kind = "put"     -> o.name \notin NamesOf(c)
      [] o.kind = "delete"  -> o.name \notin NamesOf(c)
      [] o.kind = "default" -> o.name \notin NamesOf(c) \cup {NoName}

\* Mutant: the default is the channel, not its name.
AddedAsObject(o, c) ==
    [channels |-> c.channels \cup {o.channel},
     default  |-> IF c.default = NoName THEN o.channel ELSE c.default]

\* The first channel becomes the default if none is set.
Added(o, c) ==
    [channels |-> c.channels \cup {o.channel},
     default  |-> IF c.default = NoName THEN o.name ELSE c.default]

Replaced(o, c) ==
    {[c EXCEPT !.channels = (@ \ {current}) \cup {MergeKeepSecrets(current, o.channel)}] :
        current \in {ch \in c.channels : ch.name = o.name}}

\* Mutant: a deleted channel stays the default.
DeletedOnly(o, c) ==
    {[c EXCEPT !.channels = {ch \in @ : ch.name # o.name}]}

\* The default falls back to the first channel that remains (any of them:
\* their order is left out).
Deleted(o, c) ==
    LET remaining == {ch \in c.channels : ch.name # o.name}
        fallback  == IF remaining = {} THEN {NoName} ELSE {ch.name : ch \in remaining}
    IN  {[channels |-> remaining, default |-> d] :
            d \in IF c.default = o.name THEN fallback ELSE {c.default}}

Applied(o, c) ==
    CASE o.kind = "add"     -> {Added(o, c)}
      [] o.kind = "put"     -> Replaced(o, c)
      [] o.kind = "delete"  -> Deleted(o, c)
      [] o.kind = "default" -> {[c EXCEPT !.default = o.name]}

-----------------------------------------------------------------------------
(* The steps of a request.                                                 *)

Writing(r) == pc[r] \in {"opening", "writing", "renaming"}

\* A body that the schema refuses is answered at once.
Reject(r, o) ==
    /\ up /\ pc[r] = "idle"
    /\ o.kind \in {"add", "put"} /\ ~ValidBody(o.channel)
    /\ op' = [op EXCEPT ![r] = o]
    /\ pc' = [pc EXCEPT ![r] = "done"]
    /\ reply' = [reply EXCEPT ![r] = "refused"]
    /\ UNCHANGED <<file, next, fd, loaded, lastReload, up, crashes>>

\* channelsStore.read, and what the route decides on what it returns.
ReadLive(r, o) ==
    /\ up /\ pc[r] = "idle"
    /\ o.kind \in {"add", "put"} => ValidBody(o.channel)
    /\ op' = [op EXCEPT ![r] = o]
    /\ \E c \in Parsed(fs, Seeded, NoConfig) :
        \/ /\ c = NoConfig
           /\ pc' = [pc EXCEPT ![r] = "done"]
           /\ reply' = [reply EXCEPT ![r] = "failed"]
           /\ UNCHANGED <<next, raced>>
        \/ /\ c # NoConfig /\ Refused(o, c)
           /\ pc' = [pc EXCEPT ![r] = "done"]
           /\ reply' = [reply EXCEPT ![r] = "refused"]
           /\ UNCHANGED <<next, raced>>
        \/ /\ c # NoConfig /\ ~Refused(o, c)
           /\ \E n \in Applied(o, c) : next' = [next EXCEPT ![r] = n]
           /\ pc' = [pc EXCEPT ![r] = "opening"]
           /\ raced' = (raced \/ \E q \in Request : Writing(q))
           /\ UNCHANGED reply
    /\ UNCHANGED <<fs, fd, loaded, lastReload, up, crashes>>

\* Mutant: the file is written in place.
OpenLive(r) ==
    /\ pc[r] = "opening"
    /\ fs' = [fs EXCEPT !.tmp = fs.live, !.text[fs.live] = EmptyText]
    /\ fd' = [fd EXCEPT ![r] = fs.live]
    /\ pc' = [pc EXCEPT ![r] = "writing"]
    /\ UNCHANGED <<op, next, reply, loaded, lastReload, up, crashes, raced>>

OpenTmp(r) ==
    /\ pc[r] = "opening"
    /\ \E i \in Inode :
        /\ OpensTmp(fs, {fd[q] : q \in Request}, i)
        /\ fs' = Opened(fs, i)
        /\ fd' = [fd EXCEPT ![r] = i]
    /\ pc' = [pc EXCEPT ![r] = "writing"]
    /\ UNCHANGED <<op, next, reply, loaded, lastReload, up, crashes, raced>>

WriteTmp(r) ==
    /\ pc[r] = "writing"
    /\ fs' \in Written(fs, fd[r], next[r])
    /\ fd' = [fd EXCEPT ![r] = NoFile]
    /\ pc' = [pc EXCEPT ![r] = "renaming"]
    /\ UNCHANGED <<op, next, reply, loaded, lastReload, up, crashes, raced>>

\* ENOENT when another request has renamed the temporary file away.
RenameTmp(r) ==
    /\ pc[r] = "renaming"
    /\ IF fs.tmp = NoFile
       THEN /\ pc' = [pc EXCEPT ![r] = "done"]
            /\ reply' = [reply EXCEPT ![r] = "failed"]
            /\ UNCHANGED fs
       ELSE /\ fs' = Renamed(fs)
            /\ pc' = [pc EXCEPT ![r] = "reloading"]
            /\ UNCHANGED reply
    /\ UNCHANGED <<op, next, fd, loaded, lastReload, up, crashes, raced>>

\* Mutant: the write fails and the rename goes on.
SaveFailedRenamed(r) ==
    /\ Writing(r)
    /\ \E f \in IF pc[r] = "writing" THEN PartlyWritten(fs, fd[r], next[r]) ELSE {fs} :
          fs' = IF f.tmp = NoFile THEN f ELSE Renamed(f)
    /\ fd' = [fd EXCEPT ![r] = NoFile]
    /\ pc' = [pc EXCEPT ![r] = "done"]
    /\ reply' = [reply EXCEPT ![r] = "failed"]
    /\ UNCHANGED <<op, next, loaded, lastReload, up, crashes, raced>>

\* The disk refuses the open, the write or the rename: 500, and the temporary
\* file stays.
SaveFailed(r) ==
    /\ Writing(r)
    /\ fs' \in IF pc[r] = "writing" THEN PartlyWritten(fs, fd[r], next[r]) ELSE {fs}
    /\ fd' = [fd EXCEPT ![r] = NoFile]
    /\ pc' = [pc EXCEPT ![r] = "done"]
    /\ reply' = [reply EXCEPT ![r] = "failed"]
    /\ UNCHANGED <<op, next, loaded, lastReload, up, crashes, raced>>

\* What a reload makes of the file: Alertmanager keeps what it runs when the
\* text is empty or does not parse or it does not accept it.
Loads(c) == c # NoConfig /\ Accepted(c) /\ fs.text[fs.live] # EmptyText

Answered(r, outcome) ==
    /\ pc' = [pc EXCEPT ![r] = "done"]
    /\ reply' = [reply EXCEPT ![r] = outcome]
    /\ lastReload' = outcome

\* reloadAlertmanager; the write is answered 2xx either way, "saved" with
\* the reload field that says it is not active.
Reload(r) ==
    /\ pc[r] = "reloading"
    /\ \E c \in Parsed(fs, Seeded, NoConfig) :
        /\ Loads(c)
        /\ loaded' = c
        /\ Answered(r, "active")
    /\ UNCHANGED <<file, op, next, fd, up, crashes>>

\* Mutant: a reload that was refused passes for one that succeeded.
ReloadIgnored(r) ==
    /\ pc[r] = "reloading"
    /\ loaded' \in {loaded} \cup {c \in Parsed(fs, Seeded, NoConfig) : Loads(c)}
    /\ Answered(r, "active")
    /\ UNCHANGED <<file, op, next, fd, up, crashes>>

\* Alertmanager is unreachable or refuses the text, or answers after the one
\* second that the Console waits.
ReloadFailed(r) ==
    /\ pc[r] = "reloading"
    /\ loaded' \in {loaded} \cup {c \in Parsed(fs, Seeded, NoConfig) : Loads(c)}
    /\ Answered(r, "saved")
    /\ UNCHANGED <<file, op, next, fd, up, crashes>>

Next ==
    \/ Start \/ Crash
    \/ \E r \in Request :
        \/ \E o \in Op : Reject(r, o) \/ ReadLive(r, o)
        \/ OpenTmp(r) \/ WriteTmp(r) \/ RenameTmp(r) \/ SaveFailed(r)
        \/ Reload(r) \/ ReloadFailed(r)

Spec == Init /\ [][Next]_vars

-----------------------------------------------------------------------------
Stage == {"idle", "opening", "writing", "renaming", "reloading", "done"}

\* The variables keep their types through restarts and races.
TypeOK ==
    /\ fs \in FileSystem(Config)
    /\ loaded \in Config
    /\ pc \in [Request -> Stage]
    /\ op \in [Request -> Op \cup {NoOp}]
    /\ next \in [Request -> Config]
    /\ fd \in [Request -> Inode \cup {NoFile}]
    /\ reply \in [Request -> {"none", "refused", "failed", "lost", "saved", "active"}]
    /\ up \in BOOLEAN /\ crashes \in 0..MaxCrashes
    /\ raced \in BOOLEAN /\ lastReload \in {"none", "saved", "active"}

Complete == fs.live # NoFile /\ fs.text[fs.live].state = "whole"

Quiet == \A r \in Request : pc[r] \in {"idle", "done"}

\* Every configuration that the Console writes is one that Alertmanager
\* loads: no receiver twice, and the default among the receivers, however
\* the requests interleave.
OnlyAccepted ==
    \A i \in Inode : fs.text[i] # EmptyText => Accepted(fs.text[i].cfg)

\* The managed file holds a complete text from its creation on, through crashes
\* and failed writes, unless two requests wrote at once.
FileComplete == ~raced /\ fs.live # NoFile => Complete

\* The change of r is in the configuration c.
InForce(o, c) ==
    CASE o.kind \in {"add", "put"} ->
            \E ch \in c.channels :
                /\ ch.name = o.name /\ ch.type = o.channel.type
                /\ ch.secret # o.channel.secret => o.channel.secret \in {Blank, Mask}
      [] o.kind = "delete"         -> o.name \notin NamesOf(c)
      [] o.kind = "default"        -> TRUE

\* An acknowledged change is on disk, as long as no other request named the
\* same channel.
AckedOnDisk ==
    \A r \in Request :
        /\ reply[r] \in {"saved", "active"}
        /\ \A q \in Request \ {r} : op[q] = NoOp \/ op[q].name # op[r].name
        => Complete /\ InForce(op[r], fs.text[fs.live].cfg)

\* The same for requests that did not overlap.
AckedUnlessRaced == raced \/ AckedOnDisk

\* When all requests are answered, none by an error, and the latest reload
\* was not reported as failed, Alertmanager runs the file that is on disk.
SavedMeansActive ==
    (/\ Quiet
     /\ lastReload = "active"
     /\ \A r \in Request : reply[r] \notin {"failed", "lost"})
    => Complete /\ loaded = fs.text[fs.live].cfg

-----------------------------------------------------------------------------
(* The store as its requests see it.                                       *)

\* The configuration that a reader takes from the file.
Value ==
    IF fs.live = NoFile \/ fs.text[fs.live] = EmptyText THEN Seeded
    ELSE IF fs.text[fs.live].state = "whole" THEN fs.text[fs.live].cfg ELSE NoConfig

Phase(r) ==
    CASE pc[r] = "idle"                                         -> "new"
      [] Writing(r)                                             -> "begun"
      [] pc[r] = "reloading"                                    -> "effective"
      [] pc[r] = "done" /\ reply[r] \in {"saved", "active"}     -> "acknowledged"
      [] pc[r] = "done" /\ reply[r] \notin {"saved", "active"}  -> "over"

Phases == [r \in Request |-> Phase(r)]

\* What o may make of c.
Outcomes ==
    [o \in Op |-> [c \in Config |-> IF Refused(o, c) THEN {} ELSE Applied(o, c)]]

Store == INSTANCE AtomicStore
         WITH Value <- Config, Outcome <- Outcomes, value <- Value,
              phase <- Phases, asked <- op, overlapped <- raced

\* "Write the file atomically" (channels-store.ts): until two requests overlap, each
\* change takes effect at its rename, on what is stored then, though it was computed
\* from a read several awaits before; and crashes, failed writes and restarts change
\* nothing.
StoreIsAtomic == Store!Spec

-----------------------------------------------------------------------------
(* What comments of the code say and the code does not do.                 *)

\* No masked secret reaches the file.
NoMaskStored ==
    \A i \in Inode : fs.text[i] # EmptyText =>
        \A ch \in fs.text[i].cfg.channels : ch.secret # Mask

\* Readers never see a half-written file.
NeverHalfWritten == fs.live # NoFile => Complete

\* An edit that leaves the secret of the form as it was is not refused as
\* malformed.
UntouchedSecretAccepted ==
    \A r \in Request :
        op[r] # NoOp /\ op[r].kind = "put" /\ op[r].channel.secret = Mask
        /\ reply[r] = "refused"
        => ValidBody(op[r].channel)
=============================================================================
