----------------------------- MODULE Diagnostics -----------------------------
(***************************************************************************)
(* Upload URLs for charger diagnostics: the routes of                      *)
(* routes/diagnostics.ts over store/diagnostics-store.ts, which keeps one  *)
(* SQLite table (transactional, survives a crash) and one file per         *)
(* directory of a charger and request_id.                                  *)
(*                                                                         *)
(* Every handler is synchronous, so no request is served in the middle of  *)
(* another; but an upload writes its file, reads the clock again and only  *)
(* then updates the table, and the process can die in between.             *)
(***************************************************************************)
EXTENDS Naturals, FiniteSets

CONSTANTS
    Token,       \* upload tokens (32 random bytes: never minted twice)
    CP,          \* charge points
    Dir,         \* their upload directories (sanitiseSegment is not injective)
    Body,        \* what a charger may upload
    MaxRequest,  \* bound on request ids
    TTL,         \* DIAGNOSTICS_UPLOAD_TTL_SECONDS
    MaxNow,      \* bound on the clock, in seconds
    Absent,      \* there is no file
    TornFile,        \* a file whose write did not finish
    NoToken      \* no upload is under way

ASSUME DiagnosticsAssumption ==
    /\ MaxRequest \in Nat
    /\ TTL \in Nat
    /\ MaxNow \in Nat
    /\ NoToken \notin Token
    /\ Absent \notin Body /\ TornFile \notin Body /\ Absent # TornFile

RequestId == 0..MaxRequest
Path == [dir : {Dir[p] : p \in CP}, request_id : RequestId]

VARIABLES
    now,       \* the clock
    row,       \* the table by token ("none": not minted yet, "gone": deleted)
    file,      \* the uploads directory
    writing,   \* the token whose upload wrote its file but did not consume yet
    body,      \* what that upload wrote
    used,      \* paths that a row was issued for (history)
    shared     \* paths that two rows were issued for (history)

vars == <<now, row, file, writing, body, used, shared>>

Row == [status : {"none", "gone"}]
       \cup [status : {"pending", "expired", "uploaded"}, cp : CP, request_id : RequestId,
             expires_at : Nat, content : Body \cup {Absent}]

InTable(t) == row[t].status \in {"pending", "expired", "uploaded"}

PathOf(r) == [dir |-> Dir[r.cp], request_id |-> r.request_id]

Init ==
    /\ now = 0
    /\ row = [t \in Token |-> [status |-> "none"]]
    /\ file = [p \in Path |-> Absent]
    /\ writing = NoToken
    /\ body = Absent
    /\ used = {} /\ shared = {}

-----------------------------------------------------------------------------
(* The store.                                                              *)

\* Mutant: the sweep does not look at the status.
SweptAll ==
    [t \in Token |-> IF InTable(t) /\ row[t].expires_at < now
                     THEN [row[t] EXCEPT !.status = "expired"]
                     ELSE row[t]]

\* sweepExpired: every request that touches the table begins with it.
Swept ==
    [t \in Token |-> IF row[t].status = "pending" /\ row[t].expires_at < now
                     THEN [row[t] EXCEPT !.status = "expired"]
                     ELSE row[t]]

\* findPending, and again the transaction of consume, after the sweep.
Eligible(t) == row[t].status = "pending" /\ now <= row[t].expires_at

\* nextSyntheticRequestId: one more than the largest request_id of the charger.
Synthetic(p, n) ==
    LET taken == {row[t].request_id : t \in {u \in Token : InTable(u) /\ row[u].cp = p}}
    IN  /\ \A k \in taken : k < n
        /\ n = 1 \/ n - 1 \in taken

-----------------------------------------------------------------------------
Tick ==
    /\ now < MaxNow
    /\ now' = now + 1
    /\ UNCHANGED <<row, file, writing, body, used, shared>>

\* Mutant: the insert leaves expires_at out.
IssueIncomplete(t, p, n) ==
    /\ writing = NoToken
    /\ row[t].status = "none"
    /\ row' = [Swept EXCEPT ![t] = [status |-> "pending", cp |-> p, request_id |-> n,
                                    content |-> Absent]]
    /\ LET path == [dir |-> Dir[p], request_id |-> n]
       IN  /\ used' = used \cup {path}
           /\ shared' = IF path \in used THEN shared \cup {path} ELSE shared
    /\ UNCHANGED <<now, file, writing, body>>

\* POST /sys/diagnostics/issue, with the operator's request_id or none.
Issue(t, p, n) ==
    /\ writing = NoToken
    /\ row[t].status = "none"
    /\ row' = [Swept EXCEPT ![t] = [status |-> "pending", cp |-> p, request_id |-> n,
                                    expires_at |-> now + TTL, content |-> Absent]]
    /\ LET path == [dir |-> Dir[p], request_id |-> n]
       IN  /\ used' = used \cup {path}
           /\ shared' = IF path \in used THEN shared \cup {path} ELSE shared
    /\ UNCHANGED <<now, file, writing, body>>

IssueExplicit(t, p) == \E n \in RequestId : Issue(t, p, n)

IssueSynthetic(t, p) == \E n \in RequestId \ {0} : Synthetic(p, n) /\ Issue(t, p, n)

\* Mutant: the token is only checked when it is consumed.
UploadUnchecked(t, b) ==
    /\ writing = NoToken
    /\ InTable(t)
    /\ row' = Swept
    /\ file' = [file EXCEPT ![PathOf(row[t])] = b]
    /\ writing' = t
    /\ body' = b
    /\ UNCHANGED <<now, used, shared>>

\* PUT or POST /uploads/diag/:token, up to the end of writeFileSync.
Upload(t, b) ==
    /\ writing = NoToken
    /\ Eligible(t)
    /\ row' = Swept
    /\ file' = [file EXCEPT ![PathOf(row[t])] = b]
    /\ writing' = t
    /\ body' = b
    /\ UNCHANGED <<now, used, shared>>

\* The write fails (a full disk): the charger gets a 500 and may try again.
UploadWriteFailed(t) ==
    /\ writing = NoToken
    /\ Eligible(t)
    /\ row' = Swept
    /\ \E left \in {TornFile, file[PathOf(row[t])]} :
          file' = [file EXCEPT ![PathOf(row[t])] = left]
    /\ UNCHANGED <<now, writing, body, used, shared>>

\* GET /sys/diagnostics, or an upload that findPending refuses.
Sweep ==
    /\ writing = NoToken
    /\ row' = Swept
    /\ UNCHANGED <<now, file, writing, body, used, shared>>

\* The rest of the upload: consume, which reads the clock for itself.
Consume ==
    /\ writing # NoToken
    /\ Eligible(writing)
    /\ row' = [Swept EXCEPT ![writing] = [@ EXCEPT !.status = "uploaded",
                                                   !.content = body]]
    /\ writing' = NoToken
    /\ body' = Absent
    /\ UNCHANGED <<now, file, used, shared>>

\* The token expired since findPending: the file that was just written goes.
ConsumeRefused ==
    /\ writing # NoToken
    /\ ~Eligible(writing)
    /\ row' = Swept
    /\ file' = [file EXCEPT ![PathOf(row[writing])] = Absent]
    /\ writing' = NoToken
    /\ body' = Absent
    /\ UNCHANGED <<now, used, shared>>

\* The process dies during an upload, perhaps before the write is complete.
Crash ==
    /\ writing # NoToken
    /\ \E left \in {body, TornFile} :
          file' = [file EXCEPT ![PathOf(row[writing])] = left]
    /\ writing' = NoToken
    /\ body' = Absent
    /\ UNCHANGED <<now, row, used, shared>>

\* DELETE /sys/diagnostics/:id.  A row has a file_path once it is uploaded.
Delete(t) ==
    /\ writing = NoToken
    /\ InTable(t)
    /\ row' = [row EXCEPT ![t] = [status |-> "gone"]]
    /\ file' = IF row[t].status = "uploaded"
               THEN [file EXCEPT ![PathOf(row[t])] = Absent]
               ELSE file
    /\ UNCHANGED <<now, writing, body, used, shared>>

Next ==
    \/ Tick
    \/ \E t \in Token, p \in CP : IssueExplicit(t, p) \/ IssueSynthetic(t, p)
    \/ \E t \in Token : \/ \E b \in Body : Upload(t, b)
                        \/ UploadWriteFailed(t)
                        \/ Delete(t)
    \/ Sweep \/ Consume \/ ConsumeRefused \/ Crash

Spec == Init /\ [][Next]_vars

-----------------------------------------------------------------------------
(* Properties.                                                             *)

\* Every variable keeps the type of the column or file it models.
TypeOK ==
    /\ now \in Nat
    /\ row \in [Token -> Row]
    /\ file \in [Path -> Body \cup {Absent, TornFile}]
    /\ writing \in Token \cup {NoToken}
    /\ body \in Body \cup {Absent}
    /\ used \in SUBSET Path /\ shared \in SUBSET Path

\* As long as no two rows were issued for its path, the file of an uploaded row is
\* there and is what its SHA-256 was taken of, whatever repeated PUTs, expiries
\* between the two reads of the clock, failed writes and crashes do.
FilesIntact ==
    \A t \in Token : (row[t].status = "uploaded" /\ PathOf(row[t]) \notin shared)
        => file[PathOf(row[t])] = row[t].content

\* Tokens are one-shot: a record that was uploaded or that expired never changes
\* again, except that it can be deleted, and a deleted token never comes back.
OneShot ==
    [][\A t \in Token :
          /\ row[t].status \in {"uploaded", "expired"}
                => row'[t] = row[t] \/ row'[t].status = "gone"
          /\ row[t].status = "gone" => row'[t] = row[t]]_vars

-----------------------------------------------------------------------------
(* What the documentation says of the code and the code does not do.       *)

\* "the Console [...] records token, timestamps, byte count and SHA-256": the
\* record of an artefact is that of its file (between two requests).
RecordMatchesFile ==
    writing = NoToken => \A t \in Token : row[t].status = "uploaded"
        => file[PathOf(row[t])] = row[t].content

\* "delete drops the row and the file": no file is left at a path for which rows
\* were issued once all of them are deleted.
DeleteDropsFile ==
    \A path \in used :
        (\A t \in Token : InTable(t) => PathOf(row[t]) # path)
            => file[path] = Absent
=============================================================================
