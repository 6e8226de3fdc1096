---------------------------- MODULE OverrideStore ----------------------------
(***************************************************************************)
(* The runtime overrides of the Console: the store of store/override-      *)
(* store.ts, the routes of routes/sys-console-admin-config.ts that change  *)
(* it, and the restart routes of routes/sys-restart.ts.                    *)
(*                                                                         *)
(* The store changes its memory first and then writes the whole of it to   *)
(* a file (ManagedFile), with an await before and inside the write: other  *)
(* requests run there.  The text is fixed when writeFile is called.        *)
(***************************************************************************)
EXTENDS ManagedFile, Naturals, FiniteSets

CONSTANTS
    Change,        \* requests, each served at most once
    Key,           \* overridable keys
    Value,         \* values an operator may type
    Unset,         \* the key has no override
    MaxRestarts    \* bound on restarts of the Console

Overrides == [Key -> Value \cup {Unset}]

ASSUME OverridesAssumption ==
    /\ Unset \notin Value
    /\ NoFile \notin Inode
    /\ MaxRestarts \in Nat

VARIABLES
    memory,      \* this.overrides
    inForce,     \* what the handlers read: the config object built at boot
    ofs,         \* console-overrides.json and its temporary file
    stage,       \* the stage of each request
    text,        \* what its writeFile was called with, until persist() ends
    ofd,         \* the inode that its writeFile opened
    exiting,     \* a restart was asked for: process.exit is scheduled
    restarts,
    overlapped,  \* requests that were in persist() with another one (history)
    clean        \* the last persist() to end succeeded and overlapped with none (history)

storeRequest == <<stage, text, ofd, overlapped>>
storeVars    == <<memory, inForce, ofs, storeRequest, exiting, restarts, clean>>

NoOverride == [k \in Key |-> Unset]

\* loadConfig: the schema applied to the environment, and to nothing else.
LoadConfig == NoOverride

Persisting == {r \in Change : stage[r] \in {"mkdir", "opening", "writing", "renaming"}}
HeldBy     == {ofd[r] : r \in {q \in Change : stage[q] \in {"writing", "renaming"}}}

StoreInit ==
    /\ memory = NoOverride
    /\ inForce = LoadConfig
    /\ ofs = [live |-> NoFile, tmp |-> NoFile, text |-> [i \in Inode |-> EmptyText]]
    /\ stage = [r \in Change |-> "idle"]
    /\ text = [r \in Change |-> NoOverride]
    /\ ofd = [r \in Change |-> NoFile]
    /\ exiting = FALSE /\ restarts = 0
    /\ overlapped = {} /\ clean = TRUE

-----------------------------------------------------------------------------
(* set() and clear(): memory first, then persist().                        *)

\* A request enters persist(): from now on it and the others there overlap.
EntersPersist(r) ==
    /\ stage' = [stage EXCEPT ![r] = "mkdir"]
    /\ overlapped' = IF Persisting = {} THEN overlapped ELSE overlapped \cup Persisting \cup {r}

\* POST /sys/admin/console-config, once the value passed the schema of its key.
Set(r, k, v) ==
    /\ stage[r] = "idle"
    /\ memory' = [memory EXCEPT ![k] = v]
    /\ EntersPersist(r)
    /\ UNCHANGED <<inForce, ofs, text, ofd, exiting, restarts, clean>>

\* A key that is not overridable, or a value the schema of its key refuses.
Refuse(r) ==
    /\ stage[r] = "idle"
    /\ stage' = [stage EXCEPT ![r] = "refused"]
    /\ UNCHANGED <<memory, inForce, ofs, text, ofd, overlapped, exiting, restarts, clean>>

\* DELETE .../overrides/:key.  Nothing is written for a key without override.
Clear(r, k) ==
    /\ stage[r] = "idle"
    /\ IF memory[k] = Unset
       THEN stage' = [stage EXCEPT ![r] = "ok"] /\ UNCHANGED <<memory, overlapped>>
       ELSE memory' = [memory EXCEPT ![k] = Unset] /\ EntersPersist(r)
    /\ UNCHANGED <<inForce, ofs, text, ofd, exiting, restarts, clean>>

\* Mutant: the text is what the request's own change made, not the memory now.
SerialiseNothing(r) ==
    /\ stage[r] = "mkdir"
    /\ stage' = [stage EXCEPT ![r] = "opening"]
    /\ text' = [text EXCEPT ![r] = NoOverride]
    /\ UNCHANGED <<memory, inForce, ofs, ofd, overlapped, exiting, restarts, clean>>

\* mkdir has returned: writeFile is called, with the memory of this moment.
Serialise(r) ==
    /\ stage[r] = "mkdir"
    /\ stage' = [stage EXCEPT ![r] = "opening"]
    /\ text' = [text EXCEPT ![r] = memory]
    /\ UNCHANGED <<memory, inForce, ofs, ofd, overlapped, exiting, restarts, clean>>

OpenTmp(r) ==
    /\ stage[r] = "opening"
    /\ \E i \in Inode :
        /\ OpensTmp(ofs, HeldBy, i)
        /\ ofs' = Opened(ofs, i)
        /\ ofd' = [ofd EXCEPT ![r] = i]
    /\ stage' = [stage EXCEPT ![r] = "writing"]
    /\ UNCHANGED <<memory, inForce, text, overlapped, exiting, restarts, clean>>

WriteTmp(r) ==
    /\ stage[r] = "writing"
    /\ ofs' \in Written(ofs, ofd[r], text[r])
    /\ stage' = [stage EXCEPT ![r] = "renaming"]
    /\ UNCHANGED <<memory, inForce, text, ofd, overlapped, exiting, restarts, clean>>

\* persist() ends with the answer s.
Ends(r, s) ==
    /\ stage' = [stage EXCEPT ![r] = s]
    /\ text' = [text EXCEPT ![r] = NoOverride]
    /\ ofd' = [ofd EXCEPT ![r] = NoFile]
    /\ clean' = (s = "ok" /\ r \notin overlapped)
    /\ overlapped' = overlapped \ {r}
    /\ UNCHANGED <<memory, inForce, exiting, restarts>>

RenameTmp(r) ==
    /\ stage[r] = "renaming" /\ ofs.tmp # NoFile
    /\ ofs' = Renamed(ofs)
    /\ Ends(r, "ok")

\* The disk refuses one of the calls, or another request has renamed the
\* temporary file away.  The memory keeps the change; the route answers 500.
PersistFails(r) ==
    /\ r \in Persisting
    /\ stage[r] = "renaming" => ofs.tmp = NoFile
    /\ ofs' \in IF stage[r] = "writing" THEN PartlyWritten(ofs, ofd[r], text[r]) ELSE {ofs}
    /\ Ends(r, "failed")

-----------------------------------------------------------------------------
(* Restart.                                                                *)

\* POST /sys/restart: the first call within the debounce time schedules an exit.
AskRestart ==
    /\ ~exiting /\ restarts < MaxRestarts
    /\ exiting' = TRUE
    /\ UNCHANGED <<memory, inForce, ofs, storeRequest, restarts, clean>>

\* Mutant: the temporary file is what the next process reads.
LoadedTmp(f) ==
    IF f.tmp = NoFile THEN {NoOverride} ELSE {f.text[f.tmp].cfg}

\* load(): a missing or corrupt file is an empty store.
Loaded(f) == Parsed(f, NoOverride, NoOverride)

\* process.exit, and the supervisor starts the next process: requests under
\* way get no answer; the temporary path may be the same (a container) or not.
Restart ==
    /\ exiting
    /\ exiting' = FALSE /\ restarts' = restarts + 1
    /\ \E t \in {ofs.tmp, NoFile} : ofs' = [ofs EXCEPT !.tmp = t]
    /\ memory' \in Loaded(ofs)
    /\ inForce' = LoadConfig
    /\ stage' = [r \in Change |-> IF r \in Persisting THEN "lost" ELSE stage[r]]
    /\ ofd' = [r \in Change |-> NoFile]
    /\ overlapped' = {}
    /\ text' = [r \in Change |-> NoOverride]
    /\ clean' = (clean /\ Persisting = {})

StoreStep(r) == Serialise(r) \/ OpenTmp(r) \/ WriteTmp(r) \/ RenameTmp(r) \/ PersistFails(r)

-----------------------------------------------------------------------------
StoreTypeOK ==
    /\ memory \in Overrides /\ inForce \in Overrides
    /\ ofs \in FileSystem(Overrides)
    /\ stage \in [Change -> {"idle", "mkdir", "opening", "writing", "renaming",
                             "ok", "refused", "failed", "lost"}]
    /\ text \in [Change -> Overrides]
    /\ ofd \in [Change -> Inode \cup {NoFile}]
    /\ exiting \in BOOLEAN /\ restarts \in 0..MaxRestarts
    /\ overlapped \subseteq Change /\ clean \in BOOLEAN

\* "mutations go to disk synchronously so an immediate process restart preserves
\* the override" (override-store.ts): when the last write succeeded and ran
\* alone, a restart at any later moment finds what the memory holds.  Failed
\* and overlapping writes are excused: they leave older or torn text.
AckedSurvives ==
    clean /\ Persisting = {} => Loaded(ofs) = {memory}

\* A change of a key whose restart column says "Console process must restart to
\* pick up" (config-meta.ts) is picked up by the restart.  It is not: nothing
\* applies the store to the config object.
RestartPicksUp == [][restarts' # restarts => inForce' = memory']_storeVars
=============================================================================
