---------------------------- MODULE ManagedRules ----------------------------
(***************************************************************************)
(* The Rules tab: the routes of routes/sys-alerts.ts over the Prometheus   *)
(* rules file that the Console manages (store/rules-store.ts).  A write    *)
(* reads the file, has promtool check a candidate, reads the file again    *)
(* for the groups it does not manage, writes it and reloads Prometheus.    *)
(* The candidate has one path for the whole process, as the temporary file *)
(* has; it is removed after the check.                                     *)
(***************************************************************************)
EXTENDS ManagedFile, Naturals, FiniteSets

CONSTANTS
    Request,     \* each is served at most once
    Name,        \* alert names
    Group,       \* rule groups that the Console does not manage
    NoOp,        \* the request has not come yet
    NoConfig,    \* the text could not be parsed
    Deployed,    \* files that a deployment may come with
    MaxCrashes   \* bound on restarts of the Console

\* A rule, and whether promtool accepts its expression.
Rule == [name : Name, valid : BOOLEAN]

Config == [managed : SUBSET Rule, preserved : SUBSET Group]

Op == {o \in [kind : {"add", "put"}, name : Name, rule : Rule] : o.rule.name = o.name}
      \cup [kind : {"delete"}, name : Name]

NamesOf(c) == {x.name : x \in c.managed}

Valid(c) == \A x \in c.managed : x.valid

ASSUME RulesAssumption ==
    /\ Deployed \subseteq Config
    /\ \A c \in Deployed : Valid(c)
    /\ NoFile \notin Inode
    /\ NoConfig \notin Config
    /\ NoOp \notin Op
    /\ MaxCrashes \in Nat

VARIABLES
    fs,          \* the managed file and its temporary file
    check,       \* the candidate for promtool, behind its temporary path
    promtool,    \* the binary is there and runs
    pc,          \* the stage of each request
    op,          \* what it asks for
    next,        \* the configuration it is about to write
    fd,          \* the inode that its writeFile opened
    reply,       \* how it was answered
    running,     \* the rules that Prometheus evaluates
    up,          \* the Console is running
    crashes,
    raced        \* two requests were before their rename at once (history)

request == <<pc, op, next, fd, reply>>
vars    == <<fs, check, promtool, request, running, up, crashes, raced>>

Seeded  == [managed |-> {}, preserved |-> {}]

NoFiles == [live |-> NoFile, tmp |-> NoFile, text |-> [i \in Inode |-> EmptyText]]

Holding(i, c) ==
    [live |-> i, tmp |-> NoFile,
     text |-> [j \in Inode |-> IF j = i THEN Whole(c) ELSE EmptyText]]

Init ==
    /\ fs = NoFiles \/ \E i \in Inode, c \in Deployed : fs = Holding(i, c)
    /\ check = NoFiles
    /\ promtool \in BOOLEAN
    /\ pc = [r \in Request |-> "idle"]
    /\ op = [r \in Request |-> NoOp]
    /\ next = [r \in Request |-> Seeded]
    /\ fd = [r \in Request |-> NoFile]
    /\ reply = [r \in Request |-> "none"]
    /\ running = Seeded
    /\ up = FALSE /\ crashes = 0 /\ raced = FALSE

InFlight(r) == pc[r] \notin {"idle", "done"}

Changing(r) == InFlight(r) /\ pc[r] # "reloading"

Done(r, outcome) ==
    /\ pc' = [pc EXCEPT ![r] = "done"]
    /\ reply' = [reply EXCEPT ![r] = outcome]

-----------------------------------------------------------------------------
\* main: seedIfMissing runs to its end before the server listens; when it fails
\* the server listens without the file.
Start ==
    /\ ~up
    /\ up' = TRUE
    /\ fs' \in IF fs.live = NoFile THEN Seedings(fs, Seeded) ELSE {fs}
    /\ UNCHANGED <<check, promtool, request, running, crashes, raced>>

\* The next process may have the same id, and so find the files left behind.
Crash ==
    /\ up /\ crashes < MaxCrashes
    /\ up' = FALSE /\ crashes' = crashes + 1
    /\ \/ UNCHANGED <<fs, check>>
       \/ fs' = [fs EXCEPT !.tmp = NoFile] /\ check' = [check EXCEPT !.tmp = NoFile]
    /\ pc' = [r \in Request |-> IF InFlight(r) THEN "done" ELSE pc[r]]
    /\ reply' = [r \in Request |-> IF InFlight(r) THEN "lost" ELSE reply[r]]
    /\ fd' = [r \in Request |-> NoFile]
    /\ UNCHANGED <<op, next, promtool, running, raced>>

-----------------------------------------------------------------------------
\* 404 and 409.
Refused(o, c) == IF o.kind = "add" THEN o.name \in NamesOf(c) ELSE o.name \notin NamesOf(c)

Others(o, c) == {x \in c.managed : x.name # o.name}

\* Mutant: the list keeps what the form sent as the rule's name.
AppliedByName(o, c) ==
    IF o.kind = "delete" THEN Others(o, c) ELSE Others(o, c) \cup {o.name}

Applied(o, c) == IF o.kind = "delete" THEN Others(o, c) ELSE Others(o, c) \cup {o.rule}

\* rulesStore.read and the list of rules that the route makes of it.
ReadManaged(r, o) ==
    /\ up /\ pc[r] = "idle"
    /\ op' = [op EXCEPT ![r] = o]
    /\ \E c \in Parsed(fs, Seeded, NoConfig) :
        \/ c = NoConfig /\ Done(r, "failed") /\ UNCHANGED <<next, raced>>
        \/ c # NoConfig /\ Refused(o, c) /\ Done(r, "refused") /\ UNCHANGED <<next, raced>>
        \/ /\ c # NoConfig /\ ~Refused(o, c)
           /\ next' = [next EXCEPT ![r] = [c EXCEPT !.managed = Applied(o, c)]]
           /\ pc' = [pc EXCEPT ![r] = "draft_open"]
           /\ raced' = (raced \/ \E q \in Request : Changing(q))
           /\ UNCHANGED reply
    /\ UNCHANGED <<fs, check, promtool, fd, running, up, crashes>>

\* validate: writeFile opens the candidate path,
OpenCandidate(r) ==
    /\ pc[r] = "draft_open"
    /\ \E i \in Inode :
        /\ OpensTmp(check, {fd[q] : q \in {p \in Request : pc[p] = "draft_write"}}, i)
        /\ check' = Opened(check, i)
        /\ fd' = [fd EXCEPT ![r] = i]
    /\ pc' = [pc EXCEPT ![r] = "draft_write"]
    /\ UNCHANGED <<fs, promtool, op, next, reply, running, up, crashes, raced>>

\* and writes it.
WriteCandidate(r) ==
    /\ pc[r] = "draft_write"
    /\ check' \in Written(check, fd[r], next[r])
    /\ fd' = [fd EXCEPT ![r] = NoFile]
    /\ pc' = [pc EXCEPT ![r] = "promtool"]
    /\ UNCHANGED <<fs, promtool, op, next, reply, running, up, crashes, raced>>

\* The candidate cannot be written: 500, and it is not removed.
CandidateFailed(r) ==
    /\ pc[r] \in {"draft_open", "draft_write"}
    /\ check' \in IF pc[r] = "draft_write" THEN PartlyWritten(check, fd[r], next[r]) ELSE {check}
    /\ fd' = [fd EXCEPT ![r] = NoFile]
    /\ Done(r, "failed")
    /\ UNCHANGED <<fs, promtool, op, next, running, up, crashes, raced>>

\* runPromtool: the verdict on whatever is behind the path now.  ~promtool: the
\* binary is missing or cannot run, and the check is skipped.  A missing
\* file fails the check, and any other spawn error does; an
\* empty file may pass; the reading of a torn one is promtool's.
Passes ==
    \/ ~promtool
    \/ /\ check.tmp # NoFile
       /\ LET t == check.text[check.tmp] IN t # EmptyText => Valid(t.cfg)

\* Mutant: the verdict is logged and not looked at.
CheckedIgnored(r) ==
    /\ pc[r] = "promtool"
    /\ pc' = [pc EXCEPT ![r] = "unlink"]
    /\ UNCHANGED <<fs, check, promtool, op, next, fd, reply, running, up, crashes, raced>>

Checked(r) ==
    /\ pc[r] = "promtool"
    /\ \/ Passes /\ pc' = [pc EXCEPT ![r] = "unlink"] /\ UNCHANGED reply
       \/ promtool /\ pc' = [pc EXCEPT ![r] = "reject"] /\ UNCHANGED reply
    /\ UNCHANGED <<fs, check, promtool, op, next, fd, running, up, crashes, raced>>

\* The candidate is removed whatever the verdict; then the route answers 400
\* or goes on to updateManaged.
Unlink(r) ==
    /\ pc[r] \in {"unlink", "reject"}
    /\ check' = [check EXCEPT !.tmp = NoFile]
    /\ IF pc[r] = "reject"
       THEN Done(r, "refused")
       ELSE pc' = [pc EXCEPT ![r] = "again"] /\ UNCHANGED reply
    /\ UNCHANGED <<fs, promtool, op, next, fd, running, up, crashes, raced>>

\* Mutant: the file is not read again, and the groups that are not managed
\* are taken from the form.
ReadNothing(r) ==
    /\ pc[r] = "again"
    /\ next' = [next EXCEPT ![r].preserved = {}]
    /\ pc' = [pc EXCEPT ![r] = "opening"]
    /\ UNCHANGED <<fs, check, promtool, op, fd, reply, running, up, crashes, raced>>

\* Mutant: what the second read finds overrides the managed rules too.
ReadPreservedOverrides(r) ==
    /\ pc[r] = "again"
    /\ \E c \in Parsed(fs, Seeded, NoConfig) :
        IF c = NoConfig
        THEN Done(r, "failed") /\ UNCHANGED next
        ELSE /\ next' = [next EXCEPT ![r] = c]
             /\ pc' = [pc EXCEPT ![r] = "opening"]
             /\ UNCHANGED reply
    /\ UNCHANGED <<fs, check, promtool, op, fd, running, up, crashes, raced>>

\* updateManaged: the groups to preserve come from a second read, the rules
\* from the first.
ReadPreserved(r) ==
    /\ pc[r] = "again"
    /\ \E c \in Parsed(fs, Seeded, NoConfig) :
        IF c = NoConfig
        THEN Done(r, "failed") /\ UNCHANGED next
        ELSE /\ next' = [next EXCEPT ![r] = [c EXCEPT !.managed = next[r].managed]]
             /\ pc' = [pc EXCEPT ![r] = "opening"]
             /\ UNCHANGED reply
    /\ UNCHANGED <<fs, check, promtool, op, fd, running, up, crashes, raced>>

OpenTmp(r) ==
    /\ pc[r] = "opening"
    /\ \E i \in Inode :
        /\ OpensTmp(fs, {fd[q] : q \in {p \in Request : pc[p] = "writing"}}, i)
        /\ fs' = Opened(fs, i)
        /\ fd' = [fd EXCEPT ![r] = i]
    /\ pc' = [pc EXCEPT ![r] = "writing"]
    /\ UNCHANGED <<check, promtool, op, next, reply, running, up, crashes, raced>>

WriteTmp(r) ==
    /\ pc[r] = "writing"
    /\ fs' \in Written(fs, fd[r], next[r])
    /\ fd' = [fd EXCEPT ![r] = NoFile]
    /\ pc' = [pc EXCEPT ![r] = "renaming"]
    /\ UNCHANGED <<check, promtool, op, next, reply, running, up, crashes, raced>>

\* ENOENT when another request has renamed the temporary file away.
RenameTmp(r) ==
    /\ pc[r] = "renaming"
    /\ IF fs.tmp = NoFile
       THEN Done(r, "failed") /\ UNCHANGED fs
       ELSE fs' = Renamed(fs) /\ pc' = [pc EXCEPT ![r] = "reloading"] /\ UNCHANGED reply
    /\ UNCHANGED <<check, promtool, op, next, fd, running, up, crashes, raced>>

\* The disk refuses the open, the write or the rename.
SaveFailed(r) ==
    /\ pc[r] \in {"opening", "writing", "renaming"}
    /\ fs' \in IF pc[r] = "writing" THEN PartlyWritten(fs, fd[r], next[r]) ELSE {fs}
    /\ fd' = [fd EXCEPT ![r] = NoFile]
    /\ Done(r, "failed")
    /\ UNCHANGED <<check, promtool, op, next, running, up, crashes, raced>>

\* reloadPrometheus: Prometheus keeps what it runs when it is unreachable or
\* does not accept the file; the answer does not tell.
Reload(r) ==
    /\ pc[r] = "reloading"
    /\ running' \in {running} \cup {c \in Parsed(fs, Seeded, NoConfig) : c # NoConfig /\ Valid(c)}
    /\ Done(r, "saved")
    /\ UNCHANGED <<fs, check, promtool, op, next, fd, up, crashes, raced>>

Next ==
    \/ Start \/ Crash
    \/ \E r \in Request :
        \/ \E o \in Op : ReadManaged(r, o)
        \/ OpenCandidate(r) \/ WriteCandidate(r) \/ CandidateFailed(r)
        \/ Checked(r) \/ Unlink(r) \/ ReadPreserved(r)
        \/ OpenTmp(r) \/ WriteTmp(r) \/ RenameTmp(r) \/ SaveFailed(r) \/ Reload(r)

Spec == Init /\ [][Next]_vars

-----------------------------------------------------------------------------
Stage == {"idle", "draft_open", "draft_write", "promtool", "unlink", "reject", "again",
          "opening", "writing", "renaming", "reloading", "done"}

\* The variables keep their types through restarts and races.
TypeOK ==
    /\ fs \in FileSystem(Config)
    /\ check \in FileSystem(Config)
    /\ promtool \in BOOLEAN
    /\ pc \in [Request -> Stage]
    /\ op \in [Request -> Op \cup {NoOp}]
    /\ next \in [Request -> Config]
    /\ fd \in [Request -> Inode \cup {NoFile}]
    /\ reply \in [Request -> {"none", "refused", "failed", "lost", "saved"}]
    /\ running \in Config
    /\ up \in BOOLEAN /\ crashes \in 0..MaxCrashes /\ raced \in BOOLEAN

Complete == fs.live # NoFile /\ fs.text[fs.live].state = "whole"

Stored == fs.text[fs.live].cfg

\* "Every write goes through promtool check rules before commit so a bad
\* expression can't break Prometheus": with promtool installed no rule that
\* it refuses is in the file.
OnlyCheckedRules == promtool /\ Complete => Valid(Stored)

\* It holds for the writes of one request at a time, crashes included.
CheckedUnlessRaced == raced \/ OnlyCheckedRules

\* A request changes the managed group only: the groups that a deployment
\* brought are in the file for ever, unless requests raced.
GroupsPreserved ==
    [][~raced' /\ Complete => Complete' /\ Stored'.preserved = Stored.preserved]_vars

\* An acknowledged rule, or its removal, is on disk, as long as no other
\* request named the same rule.
AckedOnDisk ==
    \A r \in Request :
        /\ reply[r] = "saved"
        /\ \A q \in Request \ {r} : op[q] = NoOp \/ op[q].name # op[r].name
        => /\ Complete
           /\ IF op[r].kind = "delete" THEN op[r].name \notin NamesOf(Stored)
                                       ELSE op[r].rule \in Stored.managed

\* The same for requests that did not overlap.
AckedUnlessRaced == raced \/ AckedOnDisk

-----------------------------------------------------------------------------
(* The store as its requests see it.                                       *)

\* The rules and groups that a reader takes from the file.
Value ==
    IF fs.live = NoFile \/ fs.text[fs.live] = EmptyText THEN Seeded
    ELSE IF Complete THEN Stored ELSE NoConfig

Phase(r) ==
    CASE pc[r] = "idle"                           -> "new"
      [] Changing(r)                              -> "begun"
      [] pc[r] = "reloading"                      -> "effective"
      [] pc[r] = "done" /\ reply[r] = "saved"     -> "acknowledged"
      [] pc[r] = "done" /\ reply[r] # "saved"     -> "over"

Phases == [r \in Request |-> Phase(r)]

\* What o may make of c.
Outcomes ==
    [o \in Op |->
        [c \in Config |->
            IF Refused(o, c) THEN {} ELSE {[c EXCEPT !.managed = Applied(o, c)]}]]

Store == INSTANCE AtomicStore
         WITH Value <- Config, Outcome <- Outcomes, value <- Value,
              phase <- Phases, asked <- op, overlapped <- raced

\* "The store commits atomically" (rules-store.ts): until two requests overlap, each
\* change takes effect at its rename, on what is stored then, though its rules come
\* from a first read, its groups from a second one, and promtool ran in between.
StoreIsAtomic == Store!Spec
=============================================================================
