------------------------------ MODULE WebProofs ------------------------------
(***************************************************************************)
(* Proofs about the parts that MCWeb checks together and that share no     *)
(* variable, for any constants that satisfy their assumptions: the         *)
(* diagnostics uploads (Diagnostics), the runtime overrides with the page  *)
(* that edits them (OverrideStore, ConfigPage), the panels that fetch in   *)
(* an effect (FetchedPanels), the list of transactions (Transactions),     *)
(* the pages of the fleet (FleetView), and the commands with their         *)
(* transcript (Commands).                                                  *)
(***************************************************************************)
EXTENDS Diagnostics, ConfigPage, FetchedPanels, Transactions, FleetView, Commands,
        SharedProofs

-----------------------------------------------------------------------------
(* Diagnostics uploads.                                                    *)

\* The history knows the path of every row, and every path that two rows share.
PathsKnown ==
    /\ \A t \in Token : InTable(t) => PathOf(row[t]) \in used
    /\ \A t, u \in Token :
          (t # u /\ InTable(t) /\ InTable(u) /\ PathOf(row[t]) = PathOf(row[u]))
             => PathOf(row[t]) \in shared

\* An upload that wrote its file still has a pending row and its file.
WritingOK ==
    writing # NoToken => /\ row[writing].status = "pending"
                         /\ body \in Body
                         /\ file[PathOf(row[writing])] = body

\* FilesIntact alone is not inductive: a step that writes at the path of a pending
\* row must be known not to touch the file of another row.
DiagnosticsInv == TypeOK /\ PathsKnown /\ WritingOK /\ FilesIntact

-----------------------------------------------------------------------------
\* The path of a row that is in the table.
LEMMA PathType ==
    ASSUME NEW r \in Row, r.status \in {"pending", "expired", "uploaded"}
    PROVE  PathOf(r) \in Path
  BY DEF Row, PathOf, Path

\* The sweep only turns pending rows into expired ones.
LEMMA SweptRow ==
    ASSUME TypeOK, NEW t \in Token
    PROVE  /\ Swept[t] \in Row
           /\ \/ Swept[t] = row[t]
              \/ /\ row[t].status = "pending"
                 /\ Swept[t].status = "expired"
                 /\ PathOf(Swept[t]) = PathOf(row[t])
  BY DEF TypeOK, Row, Swept, PathOf

\* So it keeps the part of the invariant that is about the table.
LEMMA SweptTable ==
    ASSUME TypeOK, PathsKnown, FilesIntact, row' = Swept, UNCHANGED <<used, shared>>
    PROVE  /\ row' \in [Token -> Row]
           /\ PathsKnown'
           /\ \A t \in Token : row'[t].status = "uploaded" => row'[t] = row[t]
           /\ \A t \in Token : InTable(t)' <=> InTable(t)
           /\ \A t \in Token : InTable(t) => PathOf(row'[t]) = PathOf(row[t])
  <1>1. row' \in [Token -> Row]
    BY SweptRow DEF Swept
  <1>2. \A t \in Token : row'[t].status = "uploaded" => row'[t] = row[t]
    BY SweptRow
  <1>3. \A t \in Token : InTable(t)' <=> InTable(t)
    BY SweptRow DEF InTable
  <1>4. \A t \in Token : InTable(t) => PathOf(row'[t]) = PathOf(row[t])
    BY SweptRow DEF InTable
  <1>5. PathsKnown'
    BY <1>3, <1>4 DEF PathsKnown
  <1> QED
    BY <1>1, <1>2, <1>3, <1>4, <1>5

\* A write at the path of a row t that is not uploaded leaves the files of the
\* uploaded rows alone, unless the path is shared.
LEMMA WriteElsewhere ==
    ASSUME TypeOK, PathsKnown, FilesIntact,
           NEW t \in Token, row[t].status = "pending",
           NEW left, file' = [file EXCEPT ![PathOf(row[t])] = left],
           NEW u \in Token, row[u].status = "uploaded", PathOf(row[u]) \notin shared
    PROVE  file'[PathOf(row[u])] = row[u].content
  <1>1. PathOf(row[u]) # PathOf(row[t])
    BY DEF PathsKnown, InTable
  <1>2. PathOf(row[u]) \in Path
    BY PathType DEF TypeOK
  <1> QED
    BY <1>1, <1>2 DEF TypeOK, FilesIntact

\* No token was issued at first.
LEMMA DiagnosticsInvInit == Init => DiagnosticsInv
  BY DiagnosticsAssumption
  DEF Init, DiagnosticsInv, TypeOK, PathsKnown, WritingOK, FilesIntact, Row, InTable

\* Every step of the store keeps the invariant.
LEMMA DiagnosticsInvStep == DiagnosticsInv /\ [Next]_vars => DiagnosticsInv'
  <1> SUFFICES ASSUME DiagnosticsInv, [Next]_vars PROVE DiagnosticsInv'
    OBVIOUS
  <1> USE DEF DiagnosticsInv
  <1>1. CASE Tick
    BY <1>1 DEF Tick, TypeOK, PathsKnown, WritingOK, FilesIntact, InTable
  <1>2. ASSUME NEW t \in Token, NEW p \in CP, NEW n \in RequestId, Issue(t, p, n)
        PROVE  DiagnosticsInv'
    <2> DEFINE path == [dir |-> Dir[p], request_id |-> n]
               new == [status |-> "pending", cp |-> p, request_id |-> n,
                       expires_at |-> now + TTL, content |-> Absent]
    <2>1. path \in Path
      BY DEF Path
    <2>2. new \in Row /\ PathOf(new) = path
      BY DiagnosticsAssumption DEF Row, PathOf, TypeOK
    <2>3. /\ row' \in [Token -> Row]
          /\ row'[t] = new
          /\ \A u \in Token \ {t} : row'[u] = Swept[u]
      <3>1. Swept \in [Token -> Row]
        BY SweptRow DEF Swept
      <3> QED
        BY <1>2, <2>2, <3>1 DEF Issue
    <2>4. used' = used \cup {path} /\ shared \subseteq shared'
          /\ (path \in used => path \in shared') /\ shared' \subseteq shared \cup {path}
      BY <1>2 DEF Issue
    <2>5. TypeOK'
      BY <1>2, <2>1, <2>3, <2>4 DEF Issue, TypeOK
    <2>6. \A u \in Token \ {t} :
             /\ InTable(u)' <=> InTable(u)
             /\ InTable(u) => PathOf(row'[u]) = PathOf(row[u])
             /\ row'[u].status = "uploaded" => row'[u] = row[u]
      BY <2>3, SweptRow DEF InTable
    <2>7. PathsKnown'
      BY <2>2, <2>3, <2>4, <2>6 DEF PathsKnown
    <2>8. WritingOK' /\ FilesIntact'
      BY <1>2, <2>2, <2>3, <2>4, <2>6 DEF Issue, WritingOK, FilesIntact
    <2> QED
      BY <2>5, <2>7, <2>8
  <1>3. ASSUME NEW t \in Token, NEW b \in Body, Upload(t, b)
        PROVE  DiagnosticsInv'
    <2>1. row[t].status = "pending" /\ row' = Swept /\ Swept[t] = row[t]
          /\ UNCHANGED <<now, used, shared>>
      BY <1>3 DEF Upload, Eligible, Swept, TypeOK, Row
    <2>2. PathOf(row[t]) \in Path
      BY <2>1, PathType DEF TypeOK
    <2>3. TypeOK'
      BY <1>3, <2>1, <2>2, SweptTable DEF Upload, TypeOK
    <2>4. PathsKnown'
      BY <2>1, SweptTable
    <2>5. WritingOK'
      BY <1>3, <2>1, <2>2 DEF Upload, WritingOK, TypeOK
    <2>6. FilesIntact'
      BY <1>3, <2>1, SweptTable, WriteElsewhere DEF Upload, FilesIntact
    <2> QED
      BY <2>3, <2>4, <2>5, <2>6
  <1>4. ASSUME NEW t \in Token, UploadWriteFailed(t)
        PROVE  DiagnosticsInv'
    <2>1. row[t].status = "pending" /\ row' = Swept
          /\ UNCHANGED <<now, writing, body, used, shared>> /\ writing = NoToken
      BY <1>4 DEF UploadWriteFailed, Eligible
    <2>2. PathOf(row[t]) \in Path
      BY <2>1, PathType DEF TypeOK
    <2>3. TypeOK'
      BY <1>4, <2>1, <2>2, SweptTable DEF UploadWriteFailed, TypeOK
    <2>4. PathsKnown' /\ WritingOK'
      BY <2>1, SweptTable DEF WritingOK
    <2>5. FilesIntact'
      BY <1>4, <2>1, SweptTable, WriteElsewhere DEF UploadWriteFailed, FilesIntact
    <2> QED
      BY <2>3, <2>4, <2>5
  <1>5. ASSUME NEW t \in Token, Delete(t)
        PROVE  DiagnosticsInv'
    <2>1. /\ row' = [row EXCEPT ![t] = [status |-> "gone"]]
          /\ InTable(t) /\ writing = NoToken
          /\ UNCHANGED <<now, writing, body, used, shared>>
      BY <1>5 DEF Delete
    <2>2. PathOf(row[t]) \in Path
      BY <2>1, PathType DEF TypeOK, InTable
    <2>3. row' \in [Token -> Row] /\ row'[t].status = "gone"
          /\ \A u \in Token \ {t} : row'[u] = row[u]
      BY <2>1 DEF TypeOK, Row
    <2>4. TypeOK'
      BY <1>5, <2>1, <2>2, <2>3 DEF Delete, TypeOK
    <2>5. PathsKnown' /\ WritingOK'
      BY <2>1, <2>3 DEF PathsKnown, WritingOK, InTable
    <2>6. FilesIntact'
      <3> SUFFICES ASSUME NEW u \in Token, row'[u].status = "uploaded",
                          PathOf(row'[u]) \notin shared'
                   PROVE  file'[PathOf(row'[u])] = row'[u].content
        BY DEF FilesIntact
      <3>1. u # t /\ row'[u] = row[u]
        BY <2>3
      <3>2. PathOf(row[u]) # PathOf(row[t]) /\ PathOf(row[u]) \in Path
        BY <2>1, <3>1, PathType DEF PathsKnown, InTable, TypeOK
      <3> QED
        BY <1>5, <2>1, <3>1, <3>2 DEF Delete, FilesIntact, TypeOK
    <2> QED
      BY <2>4, <2>5, <2>6
  <1>6. CASE Sweep
    <2>1. row' = Swept /\ UNCHANGED <<now, file, writing, body, used, shared>>
          /\ writing = NoToken
      BY <1>6 DEF Sweep
    <2> QED
      BY <2>1, SweptTable DEF TypeOK, WritingOK, FilesIntact
  <1>7. CASE Consume
    <2> DEFINE t == writing
               done == [row[t] EXCEPT !.status = "uploaded", !.content = body]
    <2>1. t \in Token /\ row[t].status = "pending" /\ body \in Body
          /\ file[PathOf(row[t])] = body /\ Swept[t] = row[t]
      BY <1>7 DEF Consume, TypeOK, WritingOK, Eligible, Swept, Row
    <2>2. done \in Row /\ PathOf(done) = PathOf(row[t]) /\ done.content = body
          /\ done.status = "uploaded"
      BY <2>1 DEF Row, PathOf, TypeOK
    <2>3. row' \in [Token -> Row] /\ row'[t] = done
          /\ \A u \in Token \ {t} : row'[u] = Swept[u]
      <3>1. Swept \in [Token -> Row]
        BY SweptRow DEF Swept
      <3> QED
        BY <1>7, <2>1, <2>2, <3>1 DEF Consume
    <2>4. \A u \in Token :
             /\ InTable(u)' <=> InTable(u)
             /\ InTable(u) => PathOf(row'[u]) = PathOf(row[u])
             /\ (u # t /\ row'[u].status = "uploaded") => row'[u] = row[u]
      <3>1. TAKE u \in Token
      <3>2. CASE u = t
        BY <2>1, <2>2, <2>3, <3>2 DEF InTable
      <3>3. CASE u # t
        BY <2>3, <3>3, SweptRow DEF InTable
      <3> QED BY <3>2, <3>3
    <2>5. UNCHANGED <<now, file, used, shared>> /\ writing' = NoToken /\ body' = Absent
      BY <1>7 DEF Consume
    <2>6. TypeOK'
      BY <2>3, <2>5 DEF TypeOK
    <2>7. PathsKnown' /\ WritingOK'
      BY <2>4, <2>5 DEF PathsKnown, WritingOK
    <2>8. FilesIntact'
      <3> SUFFICES ASSUME NEW u \in Token, row'[u].status = "uploaded",
                          PathOf(row'[u]) \notin shared'
                   PROVE  file'[PathOf(row'[u])] = row'[u].content
        BY DEF FilesIntact
      <3> HIDE DEF done
      <3>1. CASE u = t
        BY <2>1, <2>2, <2>3, <2>5, <3>1
      <3>2. CASE u # t
        BY <2>4, <2>5, <3>2 DEF FilesIntact
      <3> QED
        BY <3>1, <3>2
    <2> QED
      BY <2>6, <2>7, <2>8
  <1>8. CASE ConsumeRefused
    <2>1. /\ row' = Swept /\ writing \in Token /\ row[writing].status = "pending"
          /\ file' = [file EXCEPT ![PathOf(row[writing])] = Absent]
          /\ writing' = NoToken /\ body' = Absent /\ UNCHANGED <<now, used, shared>>
      BY <1>8 DEF ConsumeRefused, TypeOK, WritingOK
    <2>2. PathOf(row[writing]) \in Path
      BY <2>1, PathType DEF TypeOK
    <2>3. TypeOK'
      BY <2>1, <2>2, SweptTable DEF TypeOK
    <2>4. PathsKnown' /\ WritingOK'
      BY <2>1, SweptTable DEF WritingOK
    <2>5. FilesIntact'
      BY <2>1, SweptTable, WriteElsewhere DEF FilesIntact
    <2> QED
      BY <2>3, <2>4, <2>5
  <1>9. CASE Crash
    <2>1. /\ writing \in Token /\ row[writing].status = "pending" /\ body \in Body
          /\ writing' = NoToken /\ body' = Absent /\ UNCHANGED <<now, row, used, shared>>
      BY <1>9 DEF Crash, TypeOK, WritingOK
    <2>2. PICK left \in {body, TornFile} : file' = [file EXCEPT ![PathOf(row[writing])] = left]
      BY <1>9 DEF Crash
    <2>3. PathOf(row[writing]) \in Path
      BY <2>1, PathType DEF TypeOK
    <2>4. TypeOK'
      BY <2>1, <2>2, <2>3 DEF TypeOK
    <2>5. PathsKnown' /\ WritingOK'
      BY <2>1 DEF PathsKnown, WritingOK, InTable
    <2>6. FilesIntact'
      BY <2>1, <2>2, WriteElsewhere DEF FilesIntact
    <2> QED
      BY <2>4, <2>5, <2>6
  <1>10. CASE UNCHANGED vars
    BY <1>10 DEF vars, TypeOK, PathsKnown, WritingOK, FilesIntact, InTable
  <1> QED
    BY <1>1, <1>2, <1>3, <1>4, <1>5, <1>6, <1>7, <1>8, <1>9, <1>10
    DEF Next, IssueExplicit, IssueSynthetic, RequestId

\* The store's table, files and upload in progress keep their types, and the file
\* of an uploaded row stays what its digest says unless its path was issued twice.
THEOREM ArtefactsIntact == Spec => [](TypeOK /\ FilesIntact)
  <1>1. DiagnosticsInv => TypeOK /\ FilesIntact
    BY DEF DiagnosticsInv
  <1> QED
    BY DiagnosticsInvInit, DiagnosticsInvStep, <1>1, PTL DEF Spec

\* Upload tokens are one-shot: no step changes a record that was uploaded or that
\* expired, other than by deleting it, and none revives a deleted token.
THEOREM TokensOneShot == Spec => OneShot
  <1> DEFINE Lasting ==
        \A t \in Token :
          /\ row[t].status \in {"uploaded", "expired"}
                => row'[t] = row[t] \/ row'[t].status = "gone"
          /\ row[t].status = "gone" => row'[t] = row[t]
  <1>1. DiagnosticsInv /\ [Next]_vars => [Lasting]_vars
    <2> SUFFICES ASSUME DiagnosticsInv, Next, NEW t \in Token,
                        row[t].status \in {"uploaded", "expired", "gone"}
                 PROVE  \/ row'[t] = row[t]
                        \/ row[t].status # "gone" /\ row'[t].status = "gone"
      OBVIOUS
    <2>1. Swept[t] = row[t]
      BY SweptRow DEF DiagnosticsInv
    <2>2. row \in [Token -> Row] /\ Swept \in [Token -> Row]
      BY SweptRow DEF DiagnosticsInv, TypeOK, Swept
    <2>3. CASE row' = row \/ row' = Swept
      BY <2>1, <2>3
    <2>4. ASSUME NEW u \in Token, NEW p \in CP, NEW n \in RequestId, Issue(u, p, n)
          PROVE  row'[t] = row[t]
      BY <2>1, <2>2, <2>4 DEF Issue
    <2>5. CASE Consume
      BY <2>1, <2>2, <2>5 DEF Consume, Eligible
    <2>6. ASSUME NEW u \in Token, Delete(u)
          PROVE  \/ row'[t] = row[t]
                 \/ row[t].status # "gone" /\ row'[t].status = "gone"
      BY <2>2, <2>6 DEF Delete, InTable
    <2> QED
      BY <2>3, <2>4, <2>5, <2>6
      DEF Next, Tick, IssueExplicit, IssueSynthetic, RequestId, Upload,
          UploadWriteFailed, Sweep, ConsumeRefused, Crash
  <1>2. Spec => [][Lasting]_vars
    BY DiagnosticsInvInit, DiagnosticsInvStep, <1>1, PTL DEF Spec
  <1> QED
    BY <1>2 DEF OneShot

-----------------------------------------------------------------------------
(* Runtime overrides and the page that edits them.                         *)

-----------------------------------------------------------------------------
(* ConfigPage and OverrideStore: types.                                    *)

\* What the first query answers, and what a query of the page can hold.
Entries == [Key -> [value : Value \cup {EnvValue, Mask}, source : {"env", "override"}]]
Answers == Entries \cup (SUBSET Key) \cup {NoData}
QueryState ==
    [data : Answers, stale : BOOLEAN, fetch : {"idle", "asked", "answered"}, got : Answers]
QueryStates ==
    {c \in [{"entries", "overrides"} -> QueryState] :
        c["entries"].data \in Entries \cup {NoData} /\ c["entries"].got \in Entries \cup {NoData}}

SaveRequest == [op : {"set"}, key : Key, value : Value] \cup [op : {"clear"}, key : Key]

\* A form holds the value shown or one that was typed; a dialog holds one that it
\* was asked to confirm.
DraftOK ==
    \A e \in Editor :
        /\ Mounted(e) /\ ~IsToggle(e) => draft[e] = Shown(e) \/ draft[e] \in Value
        /\ IsToggle(e) => draft[e] \in Value \cup {NoDraft}

\* A request that writes has the file open, and a restart that was asked for is one
\* that may still happen.
StoreTyped ==
    /\ StoreTypeOK
    /\ \A r \in Change : stage[r] \in {"writing", "renaming"} => ofd[r] \in Inode
    /\ exiting => restarts < MaxRestarts

ConfigTyped ==
    /\ ConfigTypeOK /\ StoreTyped
    /\ effective \in QueryStates
    /\ saveAsked \in [Change -> SaveRequest \cup {NoChange}]
    /\ DraftOK

\* What the two queries answer.
LEMMA ResponseType ==
    ASSUME ConfigTypeOK
    PROVE  /\ Response("entries") \in Entries
           /\ \A q \in Queries : Response(q) \in Answers /\ q \in {"entries", "overrides"}
  <1>1. Held \in Overrides
    BY DEF ConfigTypeOK, StoreTypeOK, Held
  <1>2. \A over \in Overrides : Described(over) \in Entries /\ Overridden(over) \in SUBSET Key
    BY DEF Overrides, Described, Overridden, Entries
  <1> QED
    BY <1>1, <1>2 DEF Response, Answers, Queries

\* The store keeps its types.
LEMMA StoreTypeStep ==
    ASSUME StoreTyped,
           \/ \E r \in Change, k \in Key, v \in Value : Set(r, k, v)
           \/ \E r \in Change, k \in Key : Clear(r, k)
           \/ \E r \in Change : Refuse(r) \/ StoreStep(r)
           \/ AskRestart \/ Restart
    PROVE  StoreTyped'
  <1>0. /\ memory \in Overrides /\ inForce \in Overrides
        /\ ofs \in FileSystem(Overrides)
        /\ stage \in [Change -> {"idle", "mkdir", "opening", "writing", "renaming",
                                 "ok", "refused", "failed", "lost"}]
        /\ text \in [Change -> Overrides]
        /\ ofd \in [Change -> Inode \cup {NoFile}]
        /\ exiting \in BOOLEAN /\ restarts \in 0..MaxRestarts /\ MaxRestarts \in Nat
        /\ overlapped \subseteq Change /\ clean \in BOOLEAN
        /\ NoOverride \in Overrides /\ Persisting \subseteq Change
        /\ \A r \in Change : stage[r] \in {"writing", "renaming"} => ofd[r] \in Inode
        /\ exiting => restarts < MaxRestarts
    BY OverridesAssumption DEF StoreTyped, StoreTypeOK, NoOverride, Overrides, Persisting
  <1>1. ASSUME NEW r \in Change, EntersPersist(r), memory' \in Overrides,
               UNCHANGED <<inForce, ofs, text, ofd, exiting, restarts, clean>>
        PROVE  StoreTyped'
    <2>1. /\ stage' \in [Change -> {"idle", "mkdir", "opening", "writing", "renaming",
                                    "ok", "refused", "failed", "lost"}]
          /\ \A q \in Change : stage'[q] \in {"writing", "renaming"} => stage'[q] = stage[q]
      BY <1>0, <1>1 DEF EntersPersist
    <2>2. overlapped' \subseteq Change
      BY <1>0, <1>1 DEF EntersPersist
    <2> QED
      BY <1>0, <1>1, <2>1, <2>2 DEF StoreTyped, StoreTypeOK
  <1>2. ASSUME NEW r \in Change, NEW k \in Key, NEW v \in Value, Set(r, k, v)
        PROVE  StoreTyped'
    <2>1. memory' \in Overrides
      BY <1>0, <1>2 DEF Set, Overrides
    <2> QED
      BY <1>1, <1>2, <2>1 DEF Set
  <1>3. ASSUME NEW r \in Change, NEW k \in Key, Clear(r, k)
        PROVE  StoreTyped'
    <2>1. CASE memory[k] = Unset
      <3>1. /\ stage' \in [Change -> {"idle", "mkdir", "opening", "writing", "renaming",
                                      "ok", "refused", "failed", "lost"}]
            /\ \A q \in Change : stage'[q] \in {"writing", "renaming"} => stage'[q] = stage[q]
            /\ UNCHANGED <<memory, overlapped, inForce, ofs, text, ofd, exiting, restarts, clean>>
        BY <1>0, <1>3, <2>1 DEF Clear
      <3> QED
        BY <1>0, <3>1 DEF StoreTyped, StoreTypeOK
    <2>2. CASE memory[k] # Unset
      <3>1. memory' \in Overrides
        BY <1>0, <1>3, <2>2 DEF Clear, Overrides
      <3> QED
        BY <1>1, <1>3, <2>2, <3>1 DEF Clear
    <2> QED
      BY <2>1, <2>2
  <1>4. ASSUME NEW r \in Change, Refuse(r)
        PROVE  StoreTyped'
    BY <1>0, <1>4 DEF Refuse, StoreTyped, StoreTypeOK
  <1>5. ASSUME NEW r \in Change, Serialise(r)
        PROVE  StoreTyped'
    BY <1>0, <1>5 DEF Serialise, StoreTyped, StoreTypeOK
  <1>6. ASSUME NEW r \in Change, OpenTmp(r)
        PROVE  StoreTyped'
    <2>1. PICK i \in Inode : ofs' = Opened(ofs, i) /\ ofd' = [ofd EXCEPT ![r] = i]
      BY <1>6 DEF OpenTmp
    <2>2. ofs' \in FileSystem(Overrides)
      BY <1>0, <2>1, OpeningTmp
    <2> QED
      BY <1>0, <1>6, <2>1, <2>2 DEF OpenTmp, StoreTyped, StoreTypeOK
  <1>7. ASSUME NEW r \in Change, WriteTmp(r)
        PROVE  StoreTyped'
    <2>1. /\ ofs' \in Written(ofs, ofd[r], text[r]) /\ ofd[r] \in Inode /\ text[r] \in Overrides
      BY <1>0, <1>7 DEF WriteTmp
    <2>2. ofs' \in FileSystem(Overrides)
      BY <1>0, <2>1, Writes
    <2> QED
      BY <1>0, <1>7, <2>2 DEF WriteTmp, StoreTyped, StoreTypeOK
  <1>8. ASSUME NEW r \in Change, NEW s \in {"ok", "failed"}, Ends(r, s),
               ofs' \in FileSystem(Overrides)
        PROVE  StoreTyped'
    <2>1. clean' \in BOOLEAN
      BY <1>8, Zenon DEF Ends
    <2> QED
      BY <1>0, <1>8, <2>1 DEF Ends, StoreTyped, StoreTypeOK
  <1>9. ASSUME NEW r \in Change, RenameTmp(r)
        PROVE  StoreTyped'
    <2>1. ofs.tmp # NoFile /\ ofs' = Renamed(ofs) /\ Ends(r, "ok")
      BY <1>9 DEF RenameTmp
    <2>2. ofs' \in FileSystem(Overrides)
      BY <1>0, <2>1, Renames
    <2> QED
      BY <1>8, <2>1, <2>2
  <1>10. ASSUME NEW r \in Change, PersistFails(r)
         PROVE  StoreTyped'
    <2>1. ofs' \in FileSystem(Overrides)
      <3>1. CASE stage[r] = "writing"
        <4>1. ofs' \in PartlyWritten(ofs, ofd[r], text[r]) /\ ofd[r] \in Inode
              /\ text[r] \in Overrides
          BY <1>0, <1>10, <3>1 DEF PersistFails
        <4> QED
          BY <1>0, <4>1, WritesPartly
      <3>2. CASE stage[r] # "writing"
        BY <1>0, <1>10, <3>2 DEF PersistFails
      <3> QED
        BY <3>1, <3>2
    <2> QED
      BY <1>8, <1>10, <2>1 DEF PersistFails
  <1>11. CASE AskRestart
    BY <1>0, <1>11 DEF AskRestart, storeRequest, StoreTyped, StoreTypeOK
  <1>12. CASE Restart
    <2>1. PICK t \in {ofs.tmp, NoFile} : ofs' = [ofs EXCEPT !.tmp = t]
      BY <1>12 DEF Restart
    <2>2. ofs' \in FileSystem(Overrides)
      BY <1>0, <2>1 DEF FileSystem
    <2>3. memory' \in Overrides
      <3>1. memory' \in Parsed(ofs, NoOverride, NoOverride)
        BY <1>12 DEF Restart, Loaded
      <3>2. CASE memory' = NoOverride
        BY <1>0, <3>2
      <3>3. CASE memory' # NoOverride
        BY <1>0, <3>1, <3>3, ParsedFacts
      <3> QED
        BY <3>2, <3>3
    <2>4. clean' \in BOOLEAN
      BY <1>0, <1>12, Zenon DEF Restart
    <2>5. /\ stage' \in [Change -> {"idle", "mkdir", "opening", "writing", "renaming",
                                    "ok", "refused", "failed", "lost"}]
          /\ \A r \in Change : stage'[r] \notin {"writing", "renaming"}
      BY <1>0, <1>12 DEF Restart, Persisting
    <2>6. /\ inForce' = NoOverride /\ ofd' = [r \in Change |-> NoFile]
          /\ overlapped' = {} /\ text' = [r \in Change |-> NoOverride]
          /\ exiting' = FALSE /\ restarts' = restarts + 1 /\ exiting
      BY <1>12 DEF Restart, LoadConfig
    <2>7. restarts' \in 0..MaxRestarts /\ text' \in [Change -> Overrides]
          /\ ofd' \in [Change -> Inode \cup {NoFile}]
      BY <1>0, <2>6
    <2>8. StoreTypeOK'
      BY <1>0, <2>2, <2>3, <2>4, <2>5, <2>6, <2>7 DEF StoreTypeOK
    <2> QED
      BY <2>5, <2>6, <2>8 DEF StoreTyped
  <1> QED
    BY <1>2, <1>3, <1>4, <1>5, <1>6, <1>7, <1>9, <1>10, <1>11, <1>12 DEF StoreStep

Watches == [Editor -> [apply : Change \cup {NoChange}, reset : Change \cup {NoChange}]]

PageTyped ==
    /\ page \in [open : BOOLEAN, hidden : SUBSET Key]
    /\ effective \in QueryStates
    /\ draft \in [Editor -> Value \cup {EnvValue, Mask, NoDraft}]
    /\ watched \in Watches
    /\ DraftOK

\* An editor shows a value.
LEMMA ShownType ==
    ASSUME NEW p, NEW c \in QueryStates, NEW e \in Editor, MountedIn(p, c, e)
    PROVE  c["entries"].data[KeyOf[e]].value \in Value \cup {EnvValue, Mask}
  <1>1. c["entries"].data \in Entries
    BY DEF QueryStates, MountedIn, HasData
  <1>2. KeyOf[e] \in Key
    BY ConfigPageAssumption
  <1> QED
    BY <1>1, <1>2 DEF Entries

\* Rendering keeps the types, and no form loses what it stands for.
LEMMA RendersType ==
    ASSUME PageTyped, UNCHANGED pageKit,
           NEW p \in [open : BOOLEAN, hidden : SUBSET Key], NEW c \in QueryStates, Renders(p, c)
    PROVE  PageTyped'
  <1>1. /\ page' = p /\ effective' = c /\ draft' = Redrafted(p, c) /\ watched' = Rewatched(p, c)
    BY DEF Renders
  <1>2. watched' \in Watches
    BY <1>1 DEF Rewatched, PageTyped, Watches
  <1>3. ASSUME NEW e \in Editor
        PROVE  /\ draft'[e] \in Value \cup {EnvValue, Mask, NoDraft}
               /\ MountedIn(p, c, e) /\ ~IsToggle(e)
                     => \/ draft'[e] = c["entries"].data[KeyOf[e]].value
                        \/ draft'[e] \in Value
               /\ IsToggle(e) => draft'[e] \in Value \cup {NoDraft}
    <2> DEFINE value == c["entries"].data[KeyOf[e]].value
    <2>1. draft'[e] = IF ~MountedIn(p, c, e) THEN NoDraft
                      ELSE IF IsToggle(e) THEN draft[e]
                      ELSE IF Mounted(e) /\ Shown(e) = value THEN draft[e]
                      ELSE value
      BY <1>1 DEF Redrafted
    <2>2. MountedIn(p, c, e) => value \in Value \cup {EnvValue, Mask}
      BY ShownType
    <2>3. /\ draft[e] \in Value \cup {EnvValue, Mask, NoDraft}
          /\ Mounted(e) /\ ~IsToggle(e) => draft[e] = Shown(e) \/ draft[e] \in Value
          /\ IsToggle(e) => draft[e] \in Value \cup {NoDraft}
      BY DEF PageTyped, DraftOK
    <2> HIDE DEF value
    <2>4. /\ draft'[e] \in Value \cup {EnvValue, Mask, NoDraft}
          /\ MountedIn(p, c, e) /\ ~IsToggle(e) => draft'[e] = value \/ draft'[e] \in Value
          /\ IsToggle(e) => draft'[e] \in Value \cup {NoDraft}
      BY <2>1, <2>2, <2>3
    <2> QED
      BY <2>4 DEF value
  <1>4. draft' \in [Editor -> Value \cup {EnvValue, Mask, NoDraft}]
    <2>1. draft' = [e \in Editor |-> draft'[e]]
      BY <1>1 DEF Redrafted
    <2> QED
      BY <1>3, <2>1
  <1>5. ASSUME NEW e \in Editor
        PROVE  /\ Mounted(e)' <=> MountedIn(p, c, e)
               /\ IsToggle(e)' <=> IsToggle(e)
               /\ Shown(e)' = c["entries"].data[KeyOf[e]].value
    BY <1>1 DEF Mounted, MountedIn, HasData, Categorised, PinnedAbove, IsOverrideActive,
                IsAllowlisted, IsToggle, Shown, scope
  <1>6. DraftOK'
    BY <1>3, <1>5 DEF DraftOK
  <1> QED
    BY <1>1, <1>2, <1>4, <1>6 DEF PageTyped

\* What an editor holds stays right while nothing but the store moves, or when one
\* draft changes in a way that is right.
LEMMA DraftsKept ==
    ASSUME PageTyped, UNCHANGED <<pageKit, page, effective>>, watched' \in Watches,
           \/ draft' = draft
           \/ \E e \in Editor : \E v \in Value \cup {NoDraft} :
                 draft' = [draft EXCEPT ![e] = v] /\ (v = NoDraft => IsToggle(e))
    PROVE  PageTyped'
  <1>1. \A e \in Editor : /\ Mounted(e)' <=> Mounted(e)
                          /\ IsToggle(e)' <=> IsToggle(e)
                          /\ Shown(e)' = Shown(e)
    BY DEF Mounted, MountedIn, HasData, Categorised, PinnedAbove, IsOverrideActive,
           IsAllowlisted, IsToggle, Shown, scope
  <1>2. CASE draft' = draft
    BY <1>1, <1>2 DEF PageTyped, DraftOK
  <1>3. ASSUME NEW e \in Editor, NEW v \in Value \cup {NoDraft},
               draft' = [draft EXCEPT ![e] = v], v = NoDraft => IsToggle(e)
        PROVE  PageTyped'
    <2>1. draft' \in [Editor -> Value \cup {EnvValue, Mask, NoDraft}]
      BY <1>3 DEF PageTyped
    <2>2. DraftOK'
      BY <1>1, <1>3 DEF PageTyped, DraftOK
    <2> QED
      BY <2>1, <2>2 DEF PageTyped
  <1> QED
    BY <1>2, <1>3

\* What happens to a query of the page.
LEMMA QueryFacts ==
    ASSUME NEW c \in QueryState
    PROVE  /\ [c EXCEPT !.fetch = "asked"] \in QueryState
           /\ Invalidated(c) \in QueryState
           /\ Invalidated(c).data = c.data
           /\ Invalidated(c).got \in {c.got, NoData}
           /\ Invalidated(c).stale
           /\ Invalidated(c).fetch = IF page.open THEN "asked" ELSE c.fetch
           /\ ~page.open => Invalidated(c).got = c.got
           /\ [c EXCEPT !.fetch = "idle", !.got = NoData] \in QueryState
           /\ \A g \in Answers : [c EXCEPT !.fetch = "answered", !.got = g] \in QueryState
           /\ \A g \in Answers :
                [data |-> g, stale |-> FALSE, fetch |-> "idle", got |-> NoData] \in QueryState
  <1>1. NoData \in Answers
    BY DEF Answers
  <1>2. /\ c.data \in Answers /\ c.stale \in BOOLEAN /\ c.got \in Answers
        /\ c.fetch \in {"idle", "asked", "answered"}
    BY DEF QueryState
  <1>3. [c EXCEPT !.fetch = "asked"] \in QueryState
    BY DEF QueryState
  <1>4. [c EXCEPT !.fetch = "idle", !.got = NoData] \in QueryState
    BY <1>1 DEF QueryState
  <1>5. \A g \in Answers : [c EXCEPT !.fetch = "answered", !.got = g] \in QueryState
    BY DEF QueryState
  <1>6. \A g \in Answers :
          [data |-> g, stale |-> FALSE, fetch |-> "idle", got |-> NoData] \in QueryState
    BY <1>1 DEF QueryState
  <1>7. CASE page.open
    <2>1. Invalidated(c) = [c EXCEPT !.stale = TRUE, !.fetch = "asked", !.got = NoData]
      BY <1>7 DEF Invalidated
    <2>2. [c EXCEPT !.stale = TRUE, !.fetch = "asked", !.got = NoData] \in QueryState
      BY <1>1 DEF QueryState
    <2>3. /\ Invalidated(c).data = c.data /\ Invalidated(c).got = NoData
          /\ Invalidated(c).stale = TRUE /\ Invalidated(c).fetch = "asked"
      BY <2>1 DEF QueryState
    <2> QED
      BY <1>3, <1>4, <1>5, <1>6, <1>7, <2>1, <2>2, <2>3
  <1>8. CASE ~page.open
    <2>1. Invalidated(c) = [c EXCEPT !.stale = TRUE]
      BY <1>8 DEF Invalidated
    <2>2. [c EXCEPT !.stale = TRUE] \in QueryState
      BY DEF QueryState
    <2>3. /\ Invalidated(c).data = c.data /\ Invalidated(c).got = c.got
          /\ Invalidated(c).stale = TRUE /\ Invalidated(c).fetch = c.fetch
      BY <2>1 DEF QueryState
    <2> QED
      BY <1>3, <1>4, <1>5, <1>6, <1>8, <2>1, <2>2, <2>3
  <1> QED
    BY <1>7, <1>8

\* Changing one query.
LEMMA QueryChanged ==
    ASSUME effective \in QueryStates, NEW q \in Queries, NEW s \in QueryState,
           q = "entries" => /\ s.data \in Entries \cup {NoData}
                            /\ s.got \in Entries \cup {NoData}
    PROVE  /\ [effective EXCEPT ![q] = s] \in QueryStates
           /\ [effective EXCEPT ![q] = s][q] = s
           /\ \A p \in {"entries", "overrides"} \ {q} : [effective EXCEPT ![q] = s][p] = effective[p]
           /\ q \in {"entries", "overrides"} /\ effective[q] \in QueryState
  BY DEF QueryStates, Queries

\* The page keeps its types when its queries change in what they do not show.
LEMMA QueriesKept ==
    ASSUME PageTyped, UNCHANGED <<pageKit, page, draft, watched>>,
           effective' \in QueryStates,
           \A q \in {"entries", "overrides"} : effective'[q].data = effective[q].data
    PROVE  PageTyped'
  <1>1. \A e \in Editor : /\ Mounted(e)' <=> Mounted(e)
                          /\ IsToggle(e)' <=> IsToggle(e)
                          /\ Shown(e)' = Shown(e)
    BY DEF Mounted, MountedIn, HasData, Categorised, PinnedAbove, IsOverrideActive,
           IsAllowlisted, IsToggle, Shown, scope
  <1> QED
    BY <1>1 DEF PageTyped, DraftOK

\* What a mutation asks for.
LEMMA MutateType ==
    ASSUME ConfigTyped, NEW e \in Editor, NEW r \in Change, NEW kind \in {"apply", "reset"},
           NEW request \in SaveRequest, Mutate(e, r, kind, request)
    PROVE  /\ saveAsked' \in [Change -> SaveRequest \cup {NoChange}]
           /\ watched' \in Watches
           /\ UNCHANGED <<storeVars, pageKit, pod, page, effective, settled, excused>>
  <1>1. /\ saveAsked' = [saveAsked EXCEPT ![r] = request]
        /\ watched' = [watched EXCEPT ![e][kind] = r]
        /\ UNCHANGED <<storeVars, pageKit, pod, page, effective, settled, excused>>
    BY DEF Mutate
  <1>2. saveAsked' \in [Change -> SaveRequest \cup {NoChange}]
    BY <1>1 DEF ConfigTyped
  <1>3. watched' \in Watches
    <2>1. watched \in Watches
      BY DEF ConfigTyped, ConfigTypeOK, Watches
    <2> DEFINE w == [watched[e] EXCEPT ![kind] = r]
    <2>2. w \in [apply : Change \cup {NoChange}, reset : Change \cup {NoChange}]
      BY <2>1 DEF Watches
    <2>3. watched' = [watched EXCEPT ![e] = w]
      BY <1>1
    <2> HIDE DEF w
    <2> QED
      BY <2>1, <2>2, <2>3 DEF Watches
  <1> QED
    BY <1>1, <1>2, <1>3

\* Rendering the page, or a draft, leaves the store and the requests alone.
LEMMA PageStep ==
    ASSUME ConfigTyped, PageTyped', UNCHANGED <<storeVars, pageKit, pod, settled>>,
           saveAsked' \in [Change -> SaveRequest \cup {NoChange}], excused' \in BOOLEAN
    PROVE  ConfigTyped'
  <1>1. StoreTyped'
    BY DEF ConfigTyped, StoreTyped, StoreTypeOK, storeVars, storeRequest
  <1>2. pageKit' \in PageKits /\ pod' \in Overrides /\ settled' \subseteq Change
    BY DEF ConfigTyped, ConfigTypeOK
  <1> QED
    BY <1>1, <1>2 DEF ConfigTyped, ConfigTypeOK, StoreTyped, PageTyped, Watches

\* The store may move while the page keeps still.
LEMMA StoreStepTyped ==
    ASSUME ConfigTyped, StoreTyped',
           UNCHANGED <<pageKit, page, effective, draft, watched, saveAsked>>,
           pod' \in Overrides, settled' \subseteq Change, excused' \in BOOLEAN
    PROVE  ConfigTyped'
  <1>1. PageTyped
    BY DEF ConfigTyped, ConfigTypeOK, PageTyped, Watches
  <1>2. PageTyped'
    BY <1>1, DraftsKept DEF PageTyped
  <1> QED
    BY <1>2 DEF ConfigTyped, ConfigTypeOK, StoreTyped, PageTyped, Watches

\* Every step keeps the types.
LEMMA ConfigTypedStep == ConfigTyped /\ [ConfigNext]_configVars => ConfigTyped'
  <1> SUFFICES ASSUME ConfigTyped, [ConfigNext]_configVars
               PROVE  ConfigTyped'
    OBVIOUS
  <1>0. /\ PageTyped /\ StoreTyped /\ excused \in BOOLEAN /\ ConfigTypeOK
        /\ pod \in Overrides /\ settled \subseteq Change
        /\ saveAsked \in [Change -> SaveRequest \cup {NoChange}]
        /\ draft \in [Editor -> Value \cup {EnvValue, Mask, NoDraft}]
        /\ watched \in Watches
        /\ page \in [open : BOOLEAN, hidden : SUBSET Key]
        /\ effective \in QueryStates
        /\ pageKit \in PageKits /\ pageKit.values \subseteq Value
    BY ConfigPageAssumption DEF ConfigTyped, ConfigTypeOK, PageTyped, Watches
  <1>1. CASE OpenTab \/ CloseTab \/ (\E h \in SUBSET Key : FilterKeys(h))
             \/ (\E q \in Queries : ArriveFetch(q))
    <2>1. /\ UNCHANGED <<storeVars, pageKit, pod, saveAsked, settled, excused>>
          /\ \E p \in [open : BOOLEAN, hidden : SUBSET Key], c \in QueryStates : Renders(p, c)
      <3>1. CASE OpenTab
        <4>1. PICK old \in SUBSET Queries :
                 Renders([open |-> TRUE, hidden |-> {}],
                    [q \in DOMAIN effective |->
                        IF q \in Queries /\ ((q \in old \/ effective[q].stale) /\ Quiet(q))
                        THEN [effective[q] EXCEPT !.fetch = "asked"] ELSE effective[q]])
          BY <3>1 DEF OpenTab
        <4> DEFINE c == [q \in DOMAIN effective |->
                           IF q \in Queries /\ ((q \in old \/ effective[q].stale) /\ Quiet(q))
                           THEN [effective[q] EXCEPT !.fetch = "asked"] ELSE effective[q]]
        <4>2. c \in QueryStates
          <5>1. \A q \in {"entries", "overrides"} :
                   /\ effective[q] \in QueryState
                   /\ [effective[q] EXCEPT !.fetch = "asked"] \in QueryState
                   /\ [effective[q] EXCEPT !.fetch = "asked"].data = effective[q].data
                   /\ [effective[q] EXCEPT !.fetch = "asked"].got = effective[q].got
            BY <1>0 DEF QueryStates, QueryState
          <5>2. DOMAIN effective = {"entries", "overrides"}
            BY <1>0 DEF QueryStates
          <5>3. \A q \in {"entries", "overrides"} :
                   c[q] = [effective[q] EXCEPT !.fetch = "asked"] \/ c[q] = effective[q]
            BY <5>2
          <5>4. \A q \in {"entries", "overrides"} :
                   c[q] \in QueryState /\ c[q].data = effective[q].data /\ c[q].got = effective[q].got
            BY <5>1, <5>3
          <5>5. c = [q \in {"entries", "overrides"} |-> c[q]]
            BY <5>2
          <5> HIDE DEF c
          <5>6. c \in [{"entries", "overrides"} -> QueryState]
            BY <5>4, <5>5
          <5> QED
            BY <1>0, <5>4, <5>6 DEF QueryStates
        <4>3. [open |-> TRUE, hidden |-> {}] \in [open : BOOLEAN, hidden : SUBSET Key]
          OBVIOUS
        <4> HIDE DEF c
        <4> QED
          BY <3>1, <4>1, <4>2, <4>3 DEF OpenTab, c
      <3>2. CASE CloseTab
        <4>1. [open |-> FALSE, hidden |-> {}] \in [open : BOOLEAN, hidden : SUBSET Key]
          OBVIOUS
        <4> QED
          BY <1>0, <3>2, <4>1 DEF CloseTab
      <3>3. ASSUME NEW h \in SUBSET Key, FilterKeys(h)
            PROVE  /\ UNCHANGED <<storeVars, pageKit, pod, saveAsked, settled, excused>>
                   /\ \E p \in [open : BOOLEAN, hidden : SUBSET Key], c \in QueryStates : Renders(p, c)
        <4>1. [page EXCEPT !.hidden = h] \in [open : BOOLEAN, hidden : SUBSET Key]
          BY <1>0
        <4> QED
          BY <1>0, <3>3, <4>1 DEF FilterKeys
      <3>4. ASSUME NEW q \in Queries, ArriveFetch(q)
            PROVE  /\ UNCHANGED <<storeVars, pageKit, pod, saveAsked, settled, excused>>
                   /\ \E p \in [open : BOOLEAN, hidden : SUBSET Key], c \in QueryStates : Renders(p, c)
        <4> DEFINE s == [data |-> effective[q].got, stale |-> FALSE, fetch |-> "idle", got |-> NoData]
        <4>1. q \in {"entries", "overrides"} /\ effective[q] \in QueryState
          BY <1>0 DEF QueryStates, Queries
        <4>2. effective[q].got \in Answers
          BY <4>1 DEF QueryState
        <4>3. s \in QueryState
          BY <4>1, <4>2, QueryFacts
        <4>4. q = "entries" => s.data \in Entries \cup {NoData} /\ s.got \in Entries \cup {NoData}
          BY <1>0 DEF QueryStates
        <4> HIDE DEF s
        <4>5. [effective EXCEPT ![q] = s] \in QueryStates
          BY <1>0, <4>3, <4>4, QueryChanged
        <4> QED
          BY <1>0, <3>4, <4>5 DEF ArriveFetch, s
      <3> QED
        BY <1>1, <3>1, <3>2, <3>3, <3>4
    <2>2. PICK p \in [open : BOOLEAN, hidden : SUBSET Key], c \in QueryStates : Renders(p, c)
      BY <2>1
    <2>3. PageTyped'
      BY <1>0, <2>1, <2>2, RendersType
    <2> QED
      BY <1>0, <2>1, <2>3, PageStep
  <1>2. ASSUME NEW e \in Editor, NEW v \in pageKit.values, Type(e, v) \/ Ask(e, v)
        PROVE  ConfigTyped'
    <2>1. /\ draft' = [draft EXCEPT ![e] = v] /\ v \in Value
          /\ UNCHANGED <<storeVars, pageKit, pod, page, effective, watched, saveAsked, settled,
                         excused>>
      BY <1>0, <1>2 DEF Type, Ask
    <2>2. v # NoDraft
      BY <2>1, ConfigPageAssumption
    <2>3. PageTyped'
      BY <1>0, <2>1, <2>2, DraftsKept
    <2> QED
      BY <1>0, <2>1, <2>3, PageStep
  <1>3. ASSUME NEW e \in Editor, CancelDialog(e)
        PROVE  ConfigTyped'
    <2>1. PageTyped'
      BY <1>0, <1>3, DraftsKept DEF CancelDialog
    <2> QED
      BY <1>0, <1>3, <2>1, PageStep DEF CancelDialog
  <1>4. ASSUME NEW e \in Editor, NEW r \in Change, Save(e, r) \/ Confirm(e, r) \/ ResetKey(e, r)
        PROVE  ConfigTyped'
    <2>0. KeyOf[e] \in Key /\ NoDraft \notin Value
      BY ConfigPageAssumption
    <2>1. CASE Save(e, r)
      <3>1. draft[e] \in Value
        BY <1>0, <2>1 DEF Save, PageTyped, DraftOK
      <3>2. [op |-> "set", key |-> KeyOf[e], value |-> draft[e]] \in SaveRequest
        BY <2>0, <3>1 DEF SaveRequest
      <3>3. /\ saveAsked' \in [Change -> SaveRequest \cup {NoChange}] /\ watched' \in Watches
            /\ UNCHANGED <<storeVars, pageKit, pod, page, effective, settled, excused>>
        BY <2>1, <3>2, MutateType DEF Save
      <3>4. PageTyped'
        BY <1>0, <2>1, <3>3, DraftsKept DEF Save
      <3> QED
        BY <1>0, <3>3, <3>4, PageStep
    <2>2. CASE Confirm(e, r)
      <3>1. draft[e] \in Value
        BY <1>0, <2>2 DEF Confirm, PageTyped, DraftOK
      <3>2. [op |-> "set", key |-> KeyOf[e], value |-> draft[e]] \in SaveRequest
        BY <2>0, <3>1 DEF SaveRequest
      <3>3. /\ saveAsked' \in [Change -> SaveRequest \cup {NoChange}] /\ watched' \in Watches
            /\ UNCHANGED <<storeVars, pageKit, pod, page, effective, settled, excused>>
        BY <2>2, <3>2, MutateType DEF Confirm
      <3>4. PageTyped'
        BY <1>0, <2>2, <3>3, DraftsKept DEF Confirm
      <3> QED
        BY <1>0, <3>3, <3>4, PageStep
    <2>3. CASE ResetKey(e, r)
      <3>1. [op |-> "clear", key |-> KeyOf[e]] \in SaveRequest
        BY <2>0 DEF SaveRequest
      <3>2. /\ saveAsked' \in [Change -> SaveRequest \cup {NoChange}] /\ watched' \in Watches
            /\ UNCHANGED <<storeVars, pageKit, pod, page, effective, settled, excused>>
        BY <2>3, <3>1, MutateType DEF ResetKey
      <3>3. PageTyped'
        BY <1>0, <2>3, <3>2, DraftsKept DEF ResetKey
      <3> QED
        BY <1>0, <3>2, <3>3, PageStep
    <2> QED
      BY <1>4, <2>1, <2>2, <2>3
  <1>5. ASSUME NEW r \in Change, Receive(r)
        PROVE  ConfigTyped'
    <2>1. UNCHANGED pageVars /\ saveAsked[r] \in SaveRequest
      BY <1>0, <1>5 DEF Receive, SaveSent
    <2>2. StoreTyped'
      <3>1. CASE saveAsked[r].op = "clear"
        <4>1. saveAsked[r].key \in Key /\ Clear(r, saveAsked[r].key)
          BY <1>5, <2>1, <3>1 DEF Receive, SaveRequest
        <4> QED
          BY <1>0, <4>1, StoreTypeStep
      <3>2. CASE saveAsked[r].op # "clear" /\ Validates(saveAsked[r].value)
        <4>1. /\ saveAsked[r].key \in Key /\ saveAsked[r].value \in Value
              /\ Set(r, saveAsked[r].key, saveAsked[r].value)
          BY <1>5, <2>1, <3>2 DEF Receive, SaveRequest
        <4> QED
          BY <1>0, <4>1, StoreTypeStep
      <3>3. CASE saveAsked[r].op # "clear" /\ ~Validates(saveAsked[r].value)
        BY <1>0, <1>5, <3>3, StoreTypeStep DEF Receive
      <3> QED
        BY <3>1, <3>2, <3>3
    <2> QED
      BY <1>0, <2>1, <2>2, StoreStepTyped DEF pageVars
  <1>6. ASSUME NEW r \in Change, GatewayServes(r) \/ Lose(r)
        PROVE  ConfigTyped'
    <2>1. /\ UNCHANGED <<memory, inForce, ofs, text, ofd, overlapped, exiting, restarts, clean>>
          /\ UNCHANGED <<pageKit, page, effective, draft, watched, saveAsked, settled, excused>>
          /\ \E s \in {"ok", "refused", "lost"} : stage' = [stage EXCEPT ![r] = s]
      BY <1>6 DEF GatewayServes, Lose, pageVars
    <2>2. StoreTyped'
      BY <1>0, <2>1 DEF StoreTyped, StoreTypeOK
    <2>3. pod' \in Overrides
      <3>1. CASE Lose(r)
        BY <1>0, <3>1 DEF Lose, pageVars
      <3>2. CASE GatewayServes(r)
        <4> DEFINE o == saveAsked[r]
                   v == IF o.op = "set" THEN o.value ELSE Unset
        <4>1. o \in SaveRequest
          BY <1>0, <3>2 DEF GatewayServes, SaveSent
        <4>2. o.key \in Key /\ v \in Value \cup {Unset}
          BY <4>1 DEF SaveRequest
        <4>3. pod' = pod \/ pod' = [pod EXCEPT ![o.key] = v]
          BY <3>2 DEF GatewayServes
        <4> HIDE DEF o, v
        <4> QED
          BY <1>0, <4>2, <4>3 DEF Overrides
      <3> QED
        BY <1>6, <3>1, <3>2
    <2> QED
      BY <1>0, <2>1, <2>2, <2>3, StoreStepTyped
  <1>7. ASSUME NEW r \in Change, StoreStep(r) /\ UNCHANGED pageVars
        PROVE  ConfigTyped'
    BY <1>0, <1>7, StoreTypeStep, StoreStepTyped DEF pageVars
  <1>8. ASSUME NEW r \in Change, SaveAnswered(r)
        PROVE  ConfigTyped'
    <2>1. /\ UNCHANGED <<storeVars, pageKit, pod, page, draft, watched, saveAsked>>
          /\ settled' = settled \cup {r}
          /\ effective' = IF stage[r] # "ok" THEN effective
                          ELSE [q \in DOMAIN effective |-> IF q \in Queries THEN Invalidated(effective[q])
                                                           ELSE effective[q]]
      BY <1>8 DEF SaveAnswered
    <2>2. excused' \in BOOLEAN
      BY <1>8, Zenon DEF SaveAnswered
    <2>3. /\ effective' \in QueryStates
          /\ \A q \in {"entries", "overrides"} : effective'[q].data = effective[q].data
      <3>1. CASE stage[r] # "ok"
        BY <1>0, <2>1, <3>1
      <3>2. CASE stage[r] = "ok"
        <4>1. DOMAIN effective = {"entries", "overrides"}
              /\ \A q \in {"entries", "overrides"} : effective[q] \in QueryState
          BY <1>0 DEF QueryStates
        <4>2. \A q \in {"entries", "overrides"} :
                 /\ Invalidated(effective[q]) \in QueryState
                 /\ Invalidated(effective[q]).data = effective[q].data
                 /\ Invalidated(effective[q]).got \in {effective[q].got, NoData}
          BY <4>1, QueryFacts
        <4>3. \A q \in {"entries", "overrides"} :
                 effective'[q] = Invalidated(effective[q]) \/ effective'[q] = effective[q]
          BY <2>1, <3>2, <4>1
        <4>4. \A q \in {"entries", "overrides"} :
                 /\ effective'[q] \in QueryState /\ effective'[q].data = effective[q].data
                 /\ effective'[q].got \in {effective[q].got, NoData}
          BY <4>1, <4>2, <4>3
        <4>5. effective' = [q \in {"entries", "overrides"} |-> effective'[q]]
          BY <2>1, <3>2, <4>1
        <4>6. effective' \in [{"entries", "overrides"} -> QueryState]
          BY <4>4, <4>5
        <4> QED
          BY <1>0, <4>4, <4>6 DEF QueryStates
      <3> QED
        BY <3>1, <3>2
    <2>4. PageTyped'
      BY <1>0, <2>1, <2>3, QueriesKept
    <2>5. StoreTyped'
      BY <1>0, <2>1 DEF StoreTyped, StoreTypeOK, storeVars, storeRequest
    <2> QED
      BY <1>0, <2>1, <2>2, <2>4, <2>5 DEF ConfigTyped, ConfigTypeOK, StoreTyped, PageTyped, Watches
  <1>9. ASSUME NEW q \in Queries, ServeFetch(q) \/ FailFetch(q)
        PROVE  ConfigTyped'
    <2>1. /\ UNCHANGED <<storeVars, pageKit, pod, page, draft, watched, saveAsked, settled>>
          /\ excused' \in BOOLEAN
      BY <1>0, <1>9 DEF ServeFetch, FailFetch
    <2>2. q \in {"entries", "overrides"} /\ effective[q] \in QueryState
      BY <1>0 DEF QueryStates, Queries
    <2>3. \E s \in QueryState :
             /\ effective' = [effective EXCEPT ![q] = s] /\ s.data = effective[q].data
             /\ q = "entries" => s.got \in Entries \cup {NoData}
      <3>1. CASE ServeFetch(q)
        <4> DEFINE s == [effective[q] EXCEPT !.fetch = "answered", !.got = Response(q)]
        <4>1. Response(q) \in Answers /\ (q = "entries" => Response(q) \in Entries)
          BY <1>0, ResponseType
        <4>2. s \in QueryState
          BY <2>2, <4>1, QueryFacts
        <4>3. s.data = effective[q].data /\ s.got = Response(q)
          BY <2>2 DEF QueryState
        <4>4. effective' = [effective EXCEPT ![q] = s]
          BY <3>1 DEF ServeFetch
        <4> HIDE DEF s
        <4> QED
          BY <4>1, <4>2, <4>3, <4>4
      <3>2. CASE FailFetch(q)
        <4> DEFINE s == [effective[q] EXCEPT !.fetch = "idle", !.got = NoData]
        <4>1. s \in QueryState
          BY <2>2, QueryFacts
        <4>2. s.data = effective[q].data /\ s.got = NoData
          BY <2>2 DEF QueryState
        <4>3. effective' = [effective EXCEPT ![q] = s]
          BY <3>2 DEF FailFetch
        <4> HIDE DEF s
        <4> QED
          BY <4>1, <4>2, <4>3
      <3> QED
        BY <1>9, <3>1, <3>2
    <2>4. PICK s \in QueryState :
             /\ effective' = [effective EXCEPT ![q] = s] /\ s.data = effective[q].data
             /\ q = "entries" => s.got \in Entries \cup {NoData}
      BY <2>3
    <2>5. q = "entries" => s.data \in Entries \cup {NoData} /\ s.got \in Entries \cup {NoData}
      BY <1>0, <2>4 DEF QueryStates
    <2>6. /\ effective' \in QueryStates
          /\ \A p \in {"entries", "overrides"} : effective'[p].data = effective[p].data
      <3>0. /\ [effective EXCEPT ![q] = s] \in QueryStates
            /\ [effective EXCEPT ![q] = s][q] = s
            /\ \A p \in {"entries", "overrides"} \ {q} : [effective EXCEPT ![q] = s][p] = effective[p]
        BY <1>0, <2>5, QueryChanged
      <3>1. /\ effective' \in QueryStates /\ effective'[q] = s
            /\ \A p \in {"entries", "overrides"} \ {q} : effective'[p] = effective[p]
        BY <2>4, <3>0
      <3> QED
        BY <2>4, <3>1
    <2>7. PageTyped'
      BY <1>0, <2>1, <2>6, QueriesKept
    <2> QED
      BY <1>0, <2>1, <2>7, PageStep
  <1>10. CASE AskRestart /\ UNCHANGED pageVars
    BY <1>0, <1>10, StoreTypeStep, StoreStepTyped DEF pageVars
  <1>11. CASE ConsoleRestarts
    BY <1>0, <1>11, StoreTypeStep, StoreStepTyped DEF ConsoleRestarts
  <1>12. CASE GatewayRestarts
    <2>1. /\ UNCHANGED <<memory, inForce, ofs, storeRequest, exiting, clean>>
          /\ UNCHANGED <<pageKit, page, effective, draft, watched, saveAsked, settled>>
          /\ pod' = NoOverride /\ excused' = TRUE /\ restarts' = restarts + 1
          /\ ~exiting /\ restarts < pageKit.restarts
      BY <1>12 DEF GatewayRestarts
    <2>2. pageKit.restarts \in 0..MaxRestarts /\ MaxRestarts \in Nat /\ restarts \in 0..MaxRestarts
      BY <1>0, ConfigPageAssumption, OverridesAssumption DEF StoreTyped, StoreTypeOK
    <2>3. restarts' \in 0..MaxRestarts
      BY <2>1, <2>2
    <2>4. StoreTyped'
      BY <1>0, <2>1, <2>3 DEF StoreTyped, StoreTypeOK, storeRequest
    <2>5. pod' \in Overrides
      BY <2>1 DEF NoOverride, Overrides
    <2> QED
      BY <1>0, <2>1, <2>4, <2>5, StoreStepTyped
  <1>13. CASE UNCHANGED configVars
    <2>1. UNCHANGED <<storeVars, pageKit, pod, page, effective, draft, watched, saveAsked, settled,
                      excused>>
      BY <1>13 DEF configVars, pageVars
    <2>2. PageTyped'
      BY <1>0, <2>1, DraftsKept
    <2> QED
      BY <1>0, <2>1, <2>2, PageStep
  <1> QED
    BY <1>1, <1>2, <1>3, <1>4, <1>5, <1>6, <1>7, <1>8, <1>9, <1>10, <1>11, <1>12, <1>13
       DEF ConfigNext

-----------------------------------------------------------------------------
(* What a restart finds.                                                   *)

\* A request that persists alone writes what the memory holds into a temporary
\* file that is its own.
WritesMemory(r) ==
    /\ stage[r] \in {"opening", "writing", "renaming"} => text[r] = memory
    /\ stage[r] = "writing" => /\ ofd[r] = ofs.tmp /\ ofs.tmp \in Inode
                               /\ ofs.text[ofs.tmp] = EmptyText
    /\ stage[r] = "renaming" => ofs.tmp \in Inode /\ ofs.text[ofs.tmp] = Whole(memory)

\* Only requests in persist() overlap, and one that does not is alone there.
DurableInv ==
    /\ overlapped \subseteq Persisting
    /\ \A r \in Persisting \ overlapped : Persisting = {r} /\ WritesMemory(r)
    /\ AckedSurvives

\* A whole text is read as what was written.
LEMMA WholeLoads ==
    ASSUME NEW f, f.live # NoFile, NEW c, f.text[f.live] = Whole(c)
    PROVE  Loaded(f) = {c}
  BY DEF Loaded, Parsed, Whole, EmptyText

\* Reading looks at the managed path only.
LEMMA LoadedSame ==
    ASSUME NEW f, NEW g, g.live = f.live, g.text = f.text
    PROVE  Loaded(g) = Loaded(f)
  BY DEF Loaded, Parsed

\* A request that enters persist().
LEMMA EnterDurable ==
    ASSUME StoreTyped, DurableInv, NEW r \in Change, stage[r] = "idle", EntersPersist(r)
    PROVE  DurableInv'
  <1>0. stage \in [Change -> {"idle", "mkdir", "opening", "writing", "renaming",
                              "ok", "refused", "failed", "lost"}]
    BY DEF StoreTyped, StoreTypeOK
  <1>1. /\ stage' = [stage EXCEPT ![r] = "mkdir"]
        /\ overlapped' = IF Persisting = {} THEN overlapped ELSE overlapped \cup Persisting \cup {r}
    BY DEF EntersPersist
  <1>2. Persisting' = Persisting \cup {r} /\ r \in Persisting'
    BY <1>0, <1>1 DEF Persisting
  <1>3. overlapped' \subseteq Persisting'
    BY <1>1, <1>2 DEF DurableInv
  <1>4. ASSUME NEW q \in Persisting' \ overlapped'
        PROVE  Persisting' = {q} /\ WritesMemory(q)'
    <2>1. Persisting = {} /\ q = r
      BY <1>1, <1>2, <1>4
    <2>2. stage'[q] = "mkdir"
      BY <1>0, <1>1, <2>1
    <2> QED
      BY <1>2, <2>1, <2>2 DEF WritesMemory
  <1> QED
    BY <1>2, <1>3, <1>4 DEF DurableInv, AckedSurvives

\* A request that leaves persist(): a success of a writer that was alone has put the
\* memory into the file.
LEMMA EndDurable ==
    ASSUME StoreTyped, DurableInv, NEW r \in Persisting, NEW s \in {"ok", "failed"}, Ends(r, s),
           r \notin overlapped /\ s = "ok" => Loaded(ofs') = {memory}
    PROVE  DurableInv'
  <1>0. /\ stage \in [Change -> {"idle", "mkdir", "opening", "writing", "renaming",
                                 "ok", "refused", "failed", "lost"}]
        /\ r \in Change /\ overlapped \subseteq Persisting
    BY DEF StoreTyped, StoreTypeOK, DurableInv, Persisting
  <1>1. /\ stage' = [stage EXCEPT ![r] = s]
        /\ clean' = (s = "ok" /\ r \notin overlapped)
        /\ overlapped' = overlapped \ {r}
        /\ memory' = memory
    BY DEF Ends
  <1>2. Persisting' = Persisting \ {r}
    BY <1>0, <1>1 DEF Persisting
  <1>3. \A q \in Persisting \ overlapped : Persisting = {q}
    BY DEF DurableInv
  <1>4. Persisting' \ overlapped' = {}
    BY <1>0, <1>1, <1>2, <1>3
  <1>5. overlapped' \subseteq Persisting'
    BY <1>0, <1>1, <1>2
  <1>6. clean' /\ Persisting' = {} => Loaded(ofs') = {memory'}
    BY <1>1
  <1>7. AckedSurvives'
    BY <1>6 DEF AckedSurvives, Loaded
  <1> QED
    BY <1>4, <1>5, <1>7 DEF DurableInv

\* A step in persist() of a request that is still there afterwards.
LEMMA GoOnDurable ==
    ASSUME StoreTyped, DurableInv, NEW r \in Persisting,
           NEW s \in {"opening", "writing", "renaming"}, stage' = [stage EXCEPT ![r] = s],
           UNCHANGED <<memory, overlapped, clean>>,
           r \notin overlapped => WritesMemory(r)'
    PROVE  DurableInv'
  <1>0. /\ stage \in [Change -> {"idle", "mkdir", "opening", "writing", "renaming",
                                 "ok", "refused", "failed", "lost"}]
        /\ r \in Change
    BY DEF StoreTyped, StoreTypeOK, Persisting
  <1>1. Persisting' = Persisting
    BY <1>0 DEF Persisting
  <1>2. ASSUME NEW q \in Persisting' \ overlapped'
        PROVE  Persisting' = {q} /\ WritesMemory(q)'
    <2>1. Persisting = {q}
      BY <1>1, <1>2 DEF DurableInv
    <2>2. q = r
      BY <2>1
    <2> QED
      BY <1>1, <1>2, <2>1, <2>2
  <1>3. overlapped' \subseteq Persisting'
    BY <1>1 DEF DurableInv
  <1> QED
    BY <1>1, <1>2, <1>3 DEF DurableInv, AckedSurvives

\* What concerns no request in persist() leaves the invariant alone.
LEMMA IdleDurable ==
    ASSUME DurableInv, UNCHANGED <<memory, ofs, text, ofd, overlapped, clean>>,
           Persisting' = Persisting,
           \A q \in Persisting : stage'[q] = stage[q]
    PROVE  DurableInv'
  <1>1. \A q \in Persisting : WritesMemory(q) => WritesMemory(q)'
    BY DEF WritesMemory
  <1>2. AckedSurvives'
    BY DEF DurableInv, AckedSurvives
  <1> QED
    BY <1>1, <1>2 DEF DurableInv

\* No step of the store breaks it.
LEMMA DurableStoreStep ==
    ASSUME StoreTyped, DurableInv,
           \/ \E r \in Change, k \in Key, v \in Value : Set(r, k, v)
           \/ \E r \in Change, k \in Key : Clear(r, k)
           \/ \E r \in Change : Refuse(r) \/ StoreStep(r)
           \/ AskRestart \/ Restart
    PROVE  DurableInv'
  <1>0. /\ stage \in [Change -> {"idle", "mkdir", "opening", "writing", "renaming",
                                 "ok", "refused", "failed", "lost"}]
        /\ ofs \in FileSystem(Overrides) /\ NoFile \notin Inode
        /\ text \in [Change -> Overrides]
        /\ ofd \in [Change -> Inode \cup {NoFile}]
    BY OverridesAssumption DEF StoreTyped, StoreTypeOK
  <1>1. ASSUME NEW r \in Change, NEW k \in Key, NEW v \in Value, Set(r, k, v)
        PROVE  DurableInv'
    BY <1>1, EnterDurable DEF Set
  <1>2. ASSUME NEW r \in Change, NEW k \in Key, Clear(r, k)
        PROVE  DurableInv'
    <2>1. CASE memory[k] = Unset
      <3>1. /\ stage[r] = "idle" /\ stage' = [stage EXCEPT ![r] = "ok"]
            /\ UNCHANGED <<memory, ofs, text, ofd, overlapped, clean>>
        BY <1>2, <2>1 DEF Clear
      <3>2. Persisting' = Persisting /\ \A q \in Persisting : stage'[q] = stage[q]
        BY <1>0, <3>1 DEF Persisting
      <3> QED
        BY <3>1, <3>2, IdleDurable
    <2>2. CASE memory[k] # Unset
      BY <1>2, <2>2, EnterDurable DEF Clear
    <2> QED
      BY <2>1, <2>2
  <1>3. ASSUME NEW r \in Change, Refuse(r)
        PROVE  DurableInv'
    <2>1. /\ stage[r] = "idle" /\ stage' = [stage EXCEPT ![r] = "refused"]
          /\ UNCHANGED <<memory, ofs, text, ofd, overlapped, clean>>
      BY <1>3 DEF Refuse
    <2>2. Persisting' = Persisting /\ \A q \in Persisting : stage'[q] = stage[q]
      BY <1>0, <2>1 DEF Persisting
    <2> QED
      BY <2>1, <2>2, IdleDurable
  <1>4. ASSUME NEW r \in Change, Serialise(r)
        PROVE  DurableInv'
    <2>1. /\ stage[r] = "mkdir" /\ stage' = [stage EXCEPT ![r] = "opening"]
          /\ text' = [text EXCEPT ![r] = memory]
          /\ UNCHANGED <<memory, ofs, ofd, overlapped, clean>>
      BY <1>4 DEF Serialise
    <2>2. WritesMemory(r)'
      BY <1>0, <2>1 DEF WritesMemory
    <2> QED
      BY <2>1, <2>2, GoOnDurable DEF Persisting
  <1>5. ASSUME NEW r \in Change, OpenTmp(r)
        PROVE  DurableInv'
    <2>1. PICK i \in Inode : ofs' = Opened(ofs, i) /\ ofd' = [ofd EXCEPT ![r] = i]
      BY <1>5 DEF OpenTmp
    <2>2. /\ stage[r] = "opening" /\ stage' = [stage EXCEPT ![r] = "writing"] /\ r \in Persisting
          /\ UNCHANGED <<memory, text, overlapped, clean>>
      BY <1>5 DEF OpenTmp, Persisting
    <2>3. Opened(ofs, i).tmp = i /\ Opened(ofs, i).text[i] = EmptyText
      BY <1>0, OpeningTmp
    <2>4. r \notin overlapped => text[r] = memory
      BY <2>2 DEF DurableInv, WritesMemory
    <2>5. r \notin overlapped => WritesMemory(r)'
      BY <1>0, <2>1, <2>2, <2>3, <2>4 DEF WritesMemory
    <2> QED
      BY <2>2, <2>5, GoOnDurable
  <1>6. ASSUME NEW r \in Change, WriteTmp(r)
        PROVE  DurableInv'
    <2>1. /\ stage[r] = "writing" /\ stage' = [stage EXCEPT ![r] = "renaming"] /\ r \in Persisting
          /\ ofs' \in Written(ofs, ofd[r], text[r])
          /\ UNCHANGED <<memory, text, ofd, overlapped, clean>>
      BY <1>6 DEF WriteTmp, Persisting
    <2>2. r \notin overlapped => WritesMemory(r)'
      <3> SUFFICES ASSUME r \notin overlapped PROVE WritesMemory(r)'
        OBVIOUS
      <3>1. /\ text[r] = memory /\ ofd[r] = ofs.tmp /\ ofs.tmp \in Inode
            /\ ofs.text[ofd[r]] = EmptyText /\ ofd[r] \in Inode /\ text[r] \in Overrides
        BY <1>0, <2>1 DEF DurableInv, WritesMemory
      <3>2. ofs'.tmp = ofs.tmp /\ ofs'.text[ofd[r]] = Whole(text[r])
        BY <1>0, <2>1, <3>1, Writes
      <3> QED
        BY <1>0, <2>1, <3>1, <3>2 DEF WritesMemory
    <2> QED
      BY <2>1, <2>2, GoOnDurable
  <1>7. ASSUME NEW r \in Change, RenameTmp(r)
        PROVE  DurableInv'
    <2>1. /\ stage[r] = "renaming" /\ ofs.tmp # NoFile /\ r \in Persisting
          /\ ofs' = Renamed(ofs) /\ Ends(r, "ok")
      BY <1>7 DEF RenameTmp, Persisting
    <2>2. ofs'.live = ofs.tmp /\ ofs'.text = ofs.text
      BY <1>0, <2>1, Renames
    <2>3. r \notin overlapped => Loaded(ofs') = {memory}
      <3> SUFFICES ASSUME r \notin overlapped PROVE Loaded(ofs') = {memory}
        OBVIOUS
      <3>1. ofs.text[ofs.tmp] = Whole(memory)
        BY <2>1 DEF DurableInv, WritesMemory
      <3> QED
        BY <2>1, <2>2, <3>1, WholeLoads
    <2> QED
      BY <2>1, <2>3, EndDurable
  <1>8. ASSUME NEW r \in Change, PersistFails(r)
        PROVE  DurableInv'
    <2>1. r \in Persisting /\ Ends(r, "failed")
      BY <1>8 DEF PersistFails
    <2> QED
      BY <2>1, EndDurable
  <1>9. CASE AskRestart
    <2>1. UNCHANGED <<memory, ofs, stage, text, ofd, overlapped, clean>>
      BY <1>9 DEF AskRestart, storeRequest
    <2>2. Persisting' = Persisting
      BY <2>1 DEF Persisting
    <2> QED
      BY <2>1, <2>2, IdleDurable
  <1>10. CASE Restart
    <2>1. PICK t \in {ofs.tmp, NoFile} : ofs' = [ofs EXCEPT !.tmp = t]
      BY <1>10 DEF Restart
    <2>2. ofs'.live = ofs.live /\ ofs'.text = ofs.text
      BY <1>0, <2>1 DEF FileSystem
    <2>3. Loaded(ofs') = Loaded(ofs)
      BY <2>2, LoadedSame
    <2>4. /\ memory' \in Loaded(ofs) /\ overlapped' = {}
          /\ stage' = [r \in Change |-> IF r \in Persisting THEN "lost" ELSE stage[r]]
          /\ clean' = (clean /\ Persisting = {})
      BY <1>10 DEF Restart
    <2>5. Persisting' = {}
      BY <1>0, <2>4 DEF Persisting
    <2>6. clean' => Loaded(ofs') = {memory'}
      <3> SUFFICES ASSUME clean' PROVE Loaded(ofs') = {memory'}
        OBVIOUS
      <3>1. clean /\ Persisting = {}
        BY <2>4
      <3>2. Loaded(ofs) = {memory}
        BY <3>1 DEF DurableInv, AckedSurvives
      <3> QED
        BY <2>3, <2>4, <3>2
    <2>7. AckedSurvives'
      BY <2>6 DEF AckedSurvives, Loaded
    <2> QED
      BY <2>4, <2>5, <2>7 DEF DurableInv
  <1> QED
    BY <1>1, <1>2, <1>3, <1>4, <1>5, <1>6, <1>7, <1>8, <1>9, <1>10 DEF StoreStep

-----------------------------------------------------------------------------
(* What the page shows.                                                    *)

\* A change was served, as far as its answer can tell, and its mutation has not
\* ended: the page will be told.
Told == \E r \in Change : /\ saveAsked[r] # NoChange /\ r \notin settled
                          /\ stage[r] \notin {"idle", "refused"}

\* As long as the page is told of every change: what a query holds that is not stale,
\* and an answer on its way, is what the process holds, unless the page will be told;
\* an open tab fetches what is stale.
Fresh ==
    ~excused =>
        /\ \A q \in Queries :
              /\ effective[q].fetch = "idle" /\ ~effective[q].stale
                    => effective[q].data = Response(q) \/ Told
              /\ effective[q].fetch = "answered" => effective[q].got = Response(q) \/ Told
              /\ page.open /\ effective[q].fetch = "idle" => ~effective[q].stale

\* A mutation that ended was served, or lost.
SettledServed == \A r \in settled : stage[r] # "idle"

ConfigInv == ConfigTyped /\ DurableInv /\ SettledServed /\ Fresh

\* The answers stay right when what the process holds stays or the page will be told
\* of its change.
LEMMA FreshKept ==
    ASSUME Fresh, UNCHANGED <<pageKit, page, effective>>, excused => excused',
           ~excused' => \/ Told'
                        \/ UNCHANGED Held /\ (Told => Told')
    PROVE  Fresh'
  <1>1. UNCHANGED Queries
    BY DEF Queries, scope
  <1>2. CASE excused'
    BY <1>2 DEF Fresh
  <1>3. CASE ~excused' /\ Told'
    BY <1>1, <1>3 DEF Fresh
  <1>4. CASE ~excused' /\ UNCHANGED Held /\ (Told => Told')
    <2>1. \A q \in Queries : Response(q)' = Response(q)
      BY <1>4 DEF Response, Described, Overridden
    <2> QED
      BY <1>1, <1>4, <2>1 DEF Fresh
  <1> QED
    BY <1>2, <1>3, <1>4

\* A change that is served, or lost, will be told to the page.
LEMMA ServedTold ==
    ASSUME NEW r \in Change, saveAsked[r] # NoChange, r \notin settled,
           UNCHANGED <<saveAsked, settled>>, stage'[r] \notin {"idle", "refused"}
    PROVE  Told'
  BY DEF Told

\* No step of the store ends a mutation or makes a served change an unserved one.
LEMMA StoreTells ==
    ASSUME StoreTyped, UNCHANGED <<saveAsked, settled>>, Told,
           \A r \in Change : stage[r] \notin {"idle", "refused"}
                                => stage'[r] \notin {"idle", "refused"}
    PROVE  Told'
  BY DEF Told

\* What a step does to the queries, seen from one of them: it stays, is asked for, is
\* answered or arrives.
LEMMA FreshQueries ==
    ASSUME Fresh, UNCHANGED <<pageKit, memory, pod, saveAsked, settled, stage, excused>>,
           \A q \in Queries :
              \/ effective'[q] = effective[q] /\ (page'.open /\ effective[q].fetch = "idle"
                                                   => page.open \/ ~effective[q].stale)
              \/ effective'[q].fetch = "asked"
              \/ effective'[q].fetch = "answered" /\ effective'[q].got = Response(q)
              \/ /\ effective[q].fetch = "answered" /\ effective'[q].fetch = "idle"
                 /\ effective'[q].data = effective[q].got /\ ~effective'[q].stale
    PROVE  Fresh'
  <1>1. Queries' = Queries /\ (Told' <=> Told) /\ \A q \in Queries : Response(q)' = Response(q)
    BY DEF Queries, Told, Response, Held, scope, Described, Overridden
  <1> QED
    BY <1>1 DEF Fresh

\* No step breaks the invariant.
LEMMA ConfigInvStep == ConfigInv /\ [ConfigNext]_configVars => ConfigInv'
  <1> SUFFICES ASSUME ConfigInv, [ConfigNext]_configVars
               PROVE  ConfigInv'
    OBVIOUS
  <1>0. /\ ConfigTyped /\ ConfigTyped' /\ StoreTyped /\ DurableInv /\ SettledServed /\ Fresh
        /\ effective \in QueryStates /\ settled \subseteq Change
        /\ saveAsked \in [Change -> SaveRequest \cup {NoChange}]
        /\ stage \in [Change -> {"idle", "mkdir", "opening", "writing", "renaming",
                                 "ok", "refused", "failed", "lost"}]
    BY ConfigTypedStep DEF ConfigInv, ConfigTyped, ConfigTypeOK, StoreTypeOK
  <1>d. \A q \in Queries : q \in DOMAIN effective
    BY <1>0 DEF QueryStates, Queries
  <1>a. ASSUME UNCHANGED storeVars, UNCHANGED settled
        PROVE  DurableInv' /\ SettledServed'
    <2>1. UNCHANGED <<memory, ofs, stage, text, ofd, overlapped, clean>>
      BY <1>a DEF storeVars, storeRequest
    <2>2. Persisting' = Persisting
      BY <2>1 DEF Persisting
    <2> QED
      BY <1>0, <1>a, <2>1, <2>2, IdleDurable DEF SettledServed
  <1>1. CASE OpenTab
    <2>1. PICK old \in SUBSET Queries :
             Renders([open |-> TRUE, hidden |-> {}],
                [q \in DOMAIN effective |->
                    IF q \in Queries /\ ((q \in old \/ effective[q].stale) /\ Quiet(q))
                    THEN [effective[q] EXCEPT !.fetch = "asked"] ELSE effective[q]])
      BY <1>1 DEF OpenTab
    <2>2. UNCHANGED <<storeVars, pageKit, pod, saveAsked, settled, excused>>
      BY <1>1 DEF OpenTab
    <2>3. ASSUME NEW q \in Queries
          PROVE  \/ effective'[q] = effective[q] /\ (effective[q].fetch = "idle" => ~effective[q].stale)
                 \/ effective'[q].fetch = "asked"
      <3>1. effective'[q] = IF (q \in old \/ effective[q].stale) /\ Quiet(q)
                            THEN [effective[q] EXCEPT !.fetch = "asked"] ELSE effective[q]
        BY <1>d, <2>1 DEF Renders
      <3>2. effective[q] \in QueryState
        BY <1>0 DEF QueryStates, Queries
      <3>3. [effective[q] EXCEPT !.fetch = "asked"].fetch = "asked"
        BY <3>2 DEF QueryState
      <3> QED
        BY <3>1, <3>3 DEF Quiet
    <2>4. Fresh'
      BY <1>0, <2>2, <2>3, FreshQueries DEF storeVars, storeRequest
    <2> QED
      BY <1>0, <1>a, <2>2, <2>4 DEF ConfigInv
  <1>2. CASE CloseTab \/ (\E h \in SUBSET Key : FilterKeys(h))
    <2>1. /\ UNCHANGED <<storeVars, pageKit, pod, saveAsked, settled, excused, effective>>
          /\ page'.open => page.open
      <3>1. CASE CloseTab
        BY <3>1 DEF CloseTab, Renders
      <3>2. ASSUME NEW h \in SUBSET Key, FilterKeys(h)
            PROVE  /\ UNCHANGED <<storeVars, pageKit, pod, saveAsked, settled, excused, effective>>
                   /\ page'.open => page.open
        BY <3>2 DEF FilterKeys, Renders
      <3> QED
        BY <1>2, <3>1, <3>2
    <2>2. Fresh'
      BY <1>0, <2>1, FreshQueries DEF storeVars, storeRequest
    <2> QED
      BY <1>0, <1>a, <2>1, <2>2 DEF ConfigInv
  <1>3. ASSUME NEW q \in Queries, ServeFetch(q) \/ ArriveFetch(q)
        PROVE  ConfigInv'
    <2>1. UNCHANGED <<storeVars, pageKit, pod, saveAsked, settled, excused, page>>
      BY <1>3 DEF ServeFetch, ArriveFetch, Renders
    <2>2. effective \in [{"entries", "overrides"} -> QueryState] /\ q \in {"entries", "overrides"}
      BY <1>0 DEF QueryStates, Queries
    <2>3. \/ effective'[q].fetch = "answered" /\ effective'[q].got = Response(q)
          \/ /\ effective[q].fetch = "answered" /\ effective'[q].fetch = "idle"
             /\ effective'[q].data = effective[q].got /\ ~effective'[q].stale
      <3>1. CASE ServeFetch(q)
        <4> DEFINE s == [effective[q] EXCEPT !.fetch = "answered", !.got = Response(q)]
        <4>1. s.fetch = "answered" /\ s.got = Response(q)
          BY <2>2 DEF QueryState
        <4>2. effective' = [effective EXCEPT ![q] = s]
          BY <3>1 DEF ServeFetch
        <4> HIDE DEF s
        <4>3. effective'[q] = s
          BY <2>2, <4>2
        <4> QED
          BY <4>1, <4>3
      <3>2. CASE ArriveFetch(q)
        BY <2>2, <3>2 DEF ArriveFetch, Renders
      <3> QED
        BY <1>3, <3>1, <3>2
    <2>4. \A p \in Queries : p # q => effective'[p] = effective[p]
      <3>1. \E s : effective' = [effective EXCEPT ![q] = s]
        BY <1>3 DEF ServeFetch, ArriveFetch, Renders
      <3> QED
        BY <2>2, <3>1 DEF Queries
    <2>5. Fresh'
      BY <1>0, <2>1, <2>3, <2>4, FreshQueries DEF storeVars, storeRequest
    <2> QED
      BY <1>0, <1>a, <2>1, <2>5 DEF ConfigInv
  <1>4. ASSUME NEW q \in Queries, FailFetch(q)
        PROVE  ConfigInv'
    <2>1. excused' = TRUE /\ UNCHANGED <<storeVars, settled>>
      BY <1>4 DEF FailFetch
    <2> QED
      BY <1>0, <1>a, <2>1 DEF ConfigInv, Fresh
  <1>5. ASSUME UNCHANGED <<storeVars, pageKit, pod, page, effective, settled, excused>>,
               \A r \in Change : saveAsked[r] # NoChange => saveAsked'[r] # NoChange
        PROVE  ConfigInv'
    <2>1. Told => Told'
      BY <1>5 DEF Told, storeVars, storeRequest
    <2>2. UNCHANGED Held
      BY <1>5 DEF Held, scope, storeVars
    <2>3. Fresh'
      BY <1>0, <1>5, <2>1, <2>2, FreshKept
    <2> QED
      BY <1>0, <1>a, <1>5, <2>3 DEF ConfigInv
  <1>6. ASSUME NEW e \in Editor, NEW v \in pageKit.values,
               Type(e, v) \/ Ask(e, v)
        PROVE  ConfigInv'
    BY <1>5, <1>6 DEF Type, Ask
  <1>7. ASSUME NEW e \in Editor, CancelDialog(e)
        PROVE  ConfigInv'
    BY <1>5, <1>7 DEF CancelDialog
  <1>8. ASSUME NEW e \in Editor, NEW r \in Change, Save(e, r) \/ Confirm(e, r) \/ ResetKey(e, r)
        PROVE  ConfigInv'
    <2>1. PICK request, kind : Mutate(e, r, kind, request)
      BY <1>8 DEF Save, Confirm, ResetKey
    <2>2. /\ UNCHANGED <<storeVars, pageKit, pod, page, effective, settled, excused>>
          /\ saveAsked[r] = NoChange /\ saveAsked' = [saveAsked EXCEPT ![r] = request]
      BY <2>1 DEF Mutate
    <2>3. \A q \in Change : saveAsked[q] # NoChange => saveAsked'[q] # NoChange
      BY <1>0, <2>2
    <2> QED
      BY <1>5, <2>2, <2>3
  <1>9. ASSUME NEW r \in Change, Receive(r)
        PROVE  ConfigInv'
    <2>1. /\ UNCHANGED <<pageKit, page, effective, excused, saveAsked, settled, pod>>
          /\ saveAsked[r] # NoChange /\ stage[r] = "idle" /\ r \notin settled
          /\ saveAsked[r] \in SaveRequest /\ scope = "console"
      BY <1>0, <1>9 DEF Receive, SaveSent, pageVars, SettledServed
    <2>2. \/ \E k \in Key : Clear(r, k)
          \/ \E k \in Key, v \in Value : Set(r, k, v)
          \/ Refuse(r)
      <3>1. CASE saveAsked[r].op = "clear"
        BY <1>9, <2>1, <3>1 DEF Receive, SaveRequest
      <3>2. CASE saveAsked[r].op # "clear"
        <4>1. saveAsked[r].key \in Key /\ saveAsked[r].value \in Value
          BY <2>1, <3>2 DEF SaveRequest
        <4> QED
          BY <1>9, <3>2, <4>1 DEF Receive
      <3> QED
        BY <3>1, <3>2
    <2>3. DurableInv'
      BY <1>0, <2>2, DurableStoreStep
    <2>4. \E s \in {"mkdir", "ok", "refused"} :
             /\ stage' = [stage EXCEPT ![r] = s]
             /\ s = "refused" => memory' = memory
      BY <2>2 DEF Clear, Set, Refuse, EntersPersist
    <2>5. PICK s \in {"mkdir", "ok", "refused"} :
             /\ stage' = [stage EXCEPT ![r] = s]
             /\ s = "refused" => memory' = memory
      BY <2>4
    <2>6. SettledServed'
      BY <1>0, <2>1, <2>5 DEF SettledServed
    <2>7. Fresh'
      <3>1. CASE s = "refused"
        <4>1. UNCHANGED Held
          BY <2>1, <2>5, <3>1 DEF Held, scope
        <4>2. Told => Told'
          BY <1>0, <2>1, <2>5 DEF Told
        <4> QED
          BY <1>0, <2>1, <4>1, <4>2, FreshKept
      <3>2. CASE s # "refused"
        <4>1. stage'[r] \notin {"idle", "refused"}
          BY <1>0, <2>5, <3>2
        <4>2. Told'
          BY <2>1, <4>1, ServedTold
        <4> QED
          BY <1>0, <2>1, <4>2, FreshKept
      <3> QED
        BY <3>1, <3>2
    <2> QED
      BY <1>0, <2>3, <2>6, <2>7 DEF ConfigInv
  <1>10. ASSUME NEW r \in Change, GatewayServes(r) \/ Lose(r)
         PROVE  ConfigInv'
    <2>1. /\ UNCHANGED <<memory, inForce, ofs, text, ofd, overlapped, exiting, restarts, clean>>
          /\ UNCHANGED <<pageKit, page, effective, saveAsked, settled, excused>>
          /\ saveAsked[r] # NoChange /\ r \notin settled /\ r \notin Persisting
      BY <1>0, <1>10 DEF GatewayServes, Lose, pageVars, SaveSent, SettledServed, Persisting
    <2>2. PICK s \in {"ok", "refused", "lost"} :
             stage' = [stage EXCEPT ![r] = s] /\ (s = "refused" => pod' = pod /\ stage[r] = "idle")
      BY <1>10 DEF GatewayServes, Lose, SaveSent
    <2>3. DurableInv'
      <3>1. Persisting' = Persisting /\ \A q \in Persisting : stage'[q] = stage[q]
        BY <1>0, <2>1, <2>2 DEF Persisting
      <3> QED
        BY <1>0, <2>1, <3>1, IdleDurable
    <2>4. SettledServed'
      BY <1>0, <2>1, <2>2 DEF SettledServed
    <2>5. Fresh'
      <3>1. CASE s = "refused"
        <4>1. UNCHANGED Held
          BY <2>1, <2>2, <3>1 DEF Held, scope
        <4>2. Told => Told'
          BY <1>0, <2>1, <2>2, <3>1 DEF Told
        <4> QED
          BY <1>0, <2>1, <4>1, <4>2, FreshKept
      <3>2. CASE s # "refused"
        <4>1. stage'[r] \notin {"idle", "refused"}
          BY <1>0, <2>2, <3>2
        <4>2. Told'
          BY <2>1, <4>1, ServedTold
        <4> QED
          BY <1>0, <2>1, <4>2, FreshKept
      <3> QED
        BY <3>1, <3>2
    <2> QED
      BY <1>0, <2>3, <2>4, <2>5 DEF ConfigInv
  <1>11. ASSUME NEW r \in Change, StoreStep(r), UNCHANGED pageVars
         PROVE  ConfigInv'
    <2>1. DurableInv'
      BY <1>0, <1>11, DurableStoreStep
    <2>2. /\ UNCHANGED memory /\ r \in Persisting
          /\ \E s \in {"opening", "writing", "renaming", "ok", "failed"} :
                stage' = [stage EXCEPT ![r] = s]
      BY <1>11 DEF StoreStep, Serialise, OpenTmp, WriteTmp, RenameTmp, PersistFails, Ends, Persisting
    <2>3. /\ UNCHANGED <<pageKit, page, effective, excused, saveAsked, settled, pod>>
      BY <1>11 DEF pageVars
    <2>4. \A q \in Change : /\ stage[q] # "idle" => stage'[q] # "idle"
                            /\ stage[q] \notin {"idle", "refused"}
                                  => stage'[q] \notin {"idle", "refused"}
      BY <1>0, <2>2
    <2>5. Told => Told'
      BY <1>0, <2>3, <2>4, StoreTells
    <2>6. UNCHANGED Held
      BY <2>2, <2>3 DEF Held, scope
    <2>7. Fresh'
      BY <1>0, <2>3, <2>5, <2>6, FreshKept
    <2>8. SettledServed'
      BY <1>0, <2>3, <2>4 DEF SettledServed
    <2> QED
      BY <1>0, <2>1, <2>7, <2>8 DEF ConfigInv
  <1>12. ASSUME NEW r \in Change, SaveAnswered(r)
         PROVE  ConfigInv'
    <2>1. /\ UNCHANGED <<storeVars, pageKit, pod, page, saveAsked>>
          /\ settled' = settled \cup {r} /\ r \notin settled
          /\ stage[r] \in {"ok", "refused", "failed", "lost"}
          /\ effective' = IF stage[r] # "ok" THEN effective
                          ELSE [q \in DOMAIN effective |-> IF q \in Queries THEN Invalidated(effective[q])
                                                           ELSE effective[q]]
          /\ excused' = (excused \/ stage[r] \in {"failed", "lost"}
                                 \/ (~page.open /\ \E q \in Queries : ~Quiet(q)))
      BY <1>12 DEF SaveAnswered
    <2>2. UNCHANGED <<memory, ofs, stage, text, ofd, overlapped, clean>>
      BY <2>1 DEF storeVars, storeRequest
    <2>3. DurableInv'
      <3>1. Persisting' = Persisting
        BY <2>2 DEF Persisting
      <3> QED
        BY <1>0, <2>2, <3>1, IdleDurable
    <2>4. SettledServed'
      BY <1>0, <2>1, <2>2 DEF SettledServed
    <2>5. Fresh'
      <3>1. CASE stage[r] # "ok"
        <4>1. UNCHANGED Held
          BY <2>1, <2>2 DEF Held, scope
        <4>2. ~excused' => (Told => Told') /\ ~excused
          BY <2>1, <2>2, <3>1 DEF Told
        <4> QED
          BY <1>0, <2>1, <3>1, <4>1, <4>2, FreshKept
      <3>2. CASE stage[r] = "ok"
        <4> SUFFICES ASSUME ~excused', NEW q \in Queries'
                     PROVE  /\ effective'[q].fetch = "idle" => effective'[q].stale
                            /\ effective'[q].fetch # "answered"
                            /\ page'.open => effective'[q].fetch # "idle"
          BY DEF Fresh
        <4>1. q \in Queries /\ q \in {"entries", "overrides"}
          BY <2>1 DEF Queries, scope
        <4>2. ~page.open => Quiet(q)
          BY <2>1, <4>1
        <4>3. effective'[q] = Invalidated(effective[q]) /\ effective[q] \in QueryState
          BY <1>0, <1>d, <2>1, <3>2, <4>1 DEF QueryStates
        <4>4. /\ Invalidated(effective[q]).stale
              /\ Invalidated(effective[q]).fetch = IF page.open THEN "asked" ELSE effective[q].fetch
          BY <4>3, QueryFacts
        <4> QED
          BY <2>1, <4>2, <4>3, <4>4 DEF Quiet
      <3> QED
        BY <3>1, <3>2
    <2> QED
      BY <1>0, <2>3, <2>4, <2>5 DEF ConfigInv
  <1>13. CASE AskRestart /\ UNCHANGED pageVars
    <2>1. /\ UNCHANGED <<pageKit, page, effective, excused, saveAsked, settled, pod, memory, stage>>
      BY <1>13 DEF AskRestart, pageVars, storeRequest
    <2>2. DurableInv'
      BY <1>0, <1>13, DurableStoreStep
    <2>3. UNCHANGED Held /\ (Told => Told') /\ SettledServed'
      BY <1>0, <2>1 DEF Held, scope, Told, SettledServed
    <2>4. Fresh'
      BY <1>0, <2>1, <2>3, FreshKept
    <2> QED
      BY <1>0, <2>2, <2>3, <2>4 DEF ConfigInv
  <1>14. CASE ConsoleRestarts
    <2>1. excused' = TRUE /\ Restart /\ settled' = settled
      BY <1>14 DEF ConsoleRestarts
    <2>2. DurableInv'
      BY <1>0, <2>1, DurableStoreStep
    <2>3. SettledServed'
      BY <1>0, <2>1 DEF SettledServed, Restart
    <2> QED
      BY <1>0, <2>1, <2>2, <2>3 DEF ConfigInv, Fresh
  <1>15. CASE GatewayRestarts
    <2>1. /\ UNCHANGED <<memory, ofs, stage, text, ofd, overlapped, clean, settled>>
          /\ excused' = TRUE
      BY <1>15 DEF GatewayRestarts, storeRequest
    <2>2. Persisting' = Persisting
      BY <2>1 DEF Persisting
    <2>3. DurableInv' /\ SettledServed'
      BY <1>0, <2>1, <2>2, IdleDurable DEF SettledServed
    <2> QED
      BY <1>0, <2>1, <2>3 DEF ConfigInv, Fresh
  <1>16. CASE UNCHANGED configVars
    BY <1>5, <1>16 DEF configVars, pageVars
  <1> QED
    BY <1>1, <1>2, <1>3, <1>4, <1>6, <1>7, <1>8, <1>9, <1>10, <1>11, <1>12, <1>13, <1>14, <1>15,
       <1>16 DEF ConfigNext

\* The page is not open yet, and nothing was changed.
LEMMA ConfigInvInit == ConfigInit => ConfigInv
  <1> SUFFICES ASSUME ConfigInit PROVE ConfigInv
    OBVIOUS
  <1>0. /\ NoOverride \in Overrides /\ MaxRestarts \in Nat
        /\ EmptyText \in Text(Overrides)
    BY OverridesAssumption DEF NoOverride, Overrides, Text
  <1>1. StoreTyped
    <2>1. ofs \in FileSystem(Overrides)
      BY <1>0 DEF ConfigInit, StoreInit, FileSystem
    <2>2. /\ memory \in Overrides /\ inForce \in Overrides
          /\ text \in [Change -> Overrides]
      BY <1>0 DEF ConfigInit, StoreInit, LoadConfig
    <2>3. /\ ofd \in [Change -> Inode \cup {NoFile}]
          /\ stage \in [Change -> {"idle", "mkdir", "opening", "writing", "renaming",
                                   "ok", "refused", "failed", "lost"}]
          /\ overlapped \subseteq Change
      BY DEF ConfigInit, StoreInit
    <2>4. restarts \in 0..MaxRestarts
      BY <1>0 DEF ConfigInit, StoreInit
    <2>5. exiting \in BOOLEAN /\ clean \in BOOLEAN
      BY DEF ConfigInit, StoreInit
    <2>6. StoreTypeOK
      BY <2>1, <2>2, <2>3, <2>4, <2>5 DEF StoreTypeOK
    <2> QED
      BY <2>6 DEF ConfigInit, StoreInit, StoreTyped
  <1>2. effective \in QueryStates
    <2>1. NewQuery \in QueryState /\ NewQuery.data = NoData /\ NewQuery.got = NoData
      BY DEF NewQuery, QueryState, Answers
    <2>2. effective = [q \in {"entries", "overrides"} |-> NewQuery]
      BY DEF ConfigInit
    <2> HIDE DEF NewQuery
    <2> QED
      BY <2>1, <2>2 DEF QueryStates
  <1>3. DraftOK
    BY DEF ConfigInit, DraftOK, Mounted, MountedIn, HasData
  <1>4. ConfigTypeOK
    BY <1>0, <1>1 DEF ConfigInit, ConfigTypeOK, StoreTyped
  <1>5. DurableInv
    <2>1. Persisting = {}
      BY DEF ConfigInit, StoreInit, Persisting
    <2>2. Loaded(ofs) = {memory}
      BY DEF ConfigInit, StoreInit, Loaded, Parsed
    <2> QED
      BY <2>1, <2>2 DEF ConfigInit, StoreInit, DurableInv, AckedSurvives
  <1>6. Fresh /\ SettledServed
    BY DEF ConfigInit, Fresh, SettledServed, NewQuery, Queries
  <1>7. saveAsked \in [Change -> SaveRequest \cup {NoChange}]
    BY DEF ConfigInit
  <1> QED
    BY <1>1, <1>2, <1>3, <1>4, <1>5, <1>6, <1>7 DEF ConfigInv, ConfigTyped

\* Every variable of the configuration page and of the override store keeps its type.
THEOREM ConfigTypeCorrect == ConfigSpec => []ConfigTypeOK
  <1>1. ConfigInv => ConfigTypeOK
    BY DEF ConfigInv, ConfigTyped
  <1> QED
    BY <1>1, ConfigInvInit, ConfigInvStep, PTL DEF ConfigSpec

\* When the last write succeeded and ran alone, a restart at any later moment finds
\* what the memory holds.
THEOREM AckedOverridesSurvive == ConfigSpec => []AckedSurvives
  <1>1. ConfigInv => AckedSurvives
    BY DEF ConfigInv, DurableInv
  <1> QED
    BY <1>1, ConfigInvInit, ConfigInvStep, PTL DEF ConfigSpec

\* When every mutation of an open tab ended well and nothing is being fetched, its
\* queries show what the process holds, however mutations and fetches interleaved.
THEOREM PageShowsHeld == ConfigSpec => []ShownIsHeld
  <1>1. ConfigInv => ShownIsHeld
    <2> SUFFICES ASSUME ConfigInv, page.open, ~excused, \A q \in Queries : Quiet(q),
                        \A r \in Change : saveAsked[r] # NoChange => r \in settled,
                        NEW q \in Queries
                 PROVE  effective[q].data = Response(q)
      BY DEF ShownIsHeld
    <2>1. ~Told
      BY DEF Told
    <2> QED
      BY <2>1 DEF ConfigInv, Fresh, Quiet
  <1> QED
    BY <1>1, ConfigInvInit, ConfigInvStep, PTL DEF ConfigSpec

-----------------------------------------------------------------------------
(* Fetched panels.                                                         *)

\* What a window, a typed text, the controls and a question can be.
Windows == [after : Nat, upTo : Nat]
ViewTexts == {Anything} \cup TextPicks
Views == [subject : Subject, span : Spans, end : Nat, pick : KindPicks, typed : ViewTexts,
          scope : ViewTexts]
Questions == [subjects : SUBSET Subject, kinds : SUBSET Kind, window : Windows \cup {NoData}]
CallsOf(D) == [D -> [question : Questions, got : (SUBSET Nat) \cup {NoData}]]

PanelsTyped ==
    /\ PanelsTypeOK
    /\ kindOf \in {"log", "frames", "events", "uptime"}
    /\ view \in Views /\ sentText \in ViewTexts
    /\ effect \in Nat /\ ranAt \in 0..Now
    /\ calls \in CallsOf(DOMAIN calls)

\* The view whose question the last run of the effect asked.
SentView == [view EXCEPT !.typed = sentText]

\* The records are those that the controls select, or for the frames panel all of
\* them that there were when it asked.
Fits(data) ==
    LET fits == FetchAnswered(Question(SentView))
    IN  IF kindOf = "frames"
        THEN data \subseteq fits /\ {i \in fits : i <= ranAt} \subseteq data
        ELSE data = fits

\* The one call that is not cancelled asks that question, and its answer fits.
CallsFit ==
    effect \in DOMAIN calls =>
        /\ calls[effect].question = Question(SentView)
        /\ calls[effect].got # NoData => Fits(calls[effect].got)

PanelsInv == PanelsTyped /\ CallsFit /\ ShownFitsControls

-----------------------------------------------------------------------------
\* Every panel asks for a window that ends with the view, or for none.
LEMMA QuestionType ==
    ASSUME NEW v \in Views, kindOf \in {"log", "frames", "events", "uptime"}
    PROVE  /\ Question(v) \in Questions
           /\ kindOf # "frames" => Question(v).window \in Windows /\ Question(v).window.upTo = v.end
<1>1. v.end \in Nat /\ v.span \in Nat
  BY FetchedPanelsAssumption DEF Views
<1>2. Window(v) \in Windows /\ Window(v).upTo = v.end
  BY <1>1 DEF Window, Windows
<1>3. v.pick \in SUBSET Kind /\ {v.subject} \in SUBSET Subject
  BY FetchedPanelsAssumption DEF Views
<1>4. v.scope.subjects \in SUBSET Subject
  BY FetchedPanelsAssumption DEF Views, ViewTexts, Anything
<1> QED BY <1>2, <1>3, <1>4 DEF Question, LogQuestion, FramesQuestion, EventsQuestion, UptimeQuestion, Questions

\* Sending what was typed is asking for the view as it is.
LEMMA SentIsView ==
    ASSUME NEW v \in Views
    PROVE  [v EXCEPT !.typed = v.typed] = v
BY DEF Views

\* A fetch answers with records that there are.
LEMMA AnsweredType ==
    ASSUME PanelsTyped, NEW q
    PROVE  FetchAnswered(q) \in SUBSET Nat /\ FetchAnswered(q) \subseteq 1..Now
<1>1. DOMAIN records = 1..Now /\ Now \in Nat
  BY LenProperties DEF PanelsTyped, PanelsTypeOK, Now
<1> QED BY <1>1 DEF FetchAnswered

\* A run of the effect asks for the view that it finds.
LEMMA RunsFits ==
    ASSUME PanelsInv, NEW v \in Views, v.end \in 1..Now, Runs(v),
           UNCHANGED <<records, kindOf>>
    PROVE  PanelsInv'
<1>1. Now' = Now /\ Now \in Nat
  BY LenProperties DEF PanelsInv, PanelsTyped, PanelsTypeOK, Now
<1>2. effect' = effect + 1 /\ effect \in Nat /\ effect + 1 \notin DOMAIN calls
  BY DEF Runs, PanelsInv, PanelsTyped, PanelsTypeOK
<1> DEFINE c == [question |-> Question(v), got |-> NoData]
<1>3. c \in [question : Questions, got : (SUBSET Nat) \cup {NoData}] /\ c.got = NoData
      /\ c.question = Question(v)
  BY QuestionType DEF PanelsInv, PanelsTyped
<1>4. calls' = With(calls, effect + 1, c)
  BY DEF Runs
<1> HIDE DEF c
<1>5. /\ DOMAIN calls' = DOMAIN calls \cup {effect + 1}
      /\ calls'[effect + 1] = c
  BY <1>4 DEF With
<1>6. calls' \in CallsOf(DOMAIN calls')
  BY <1>3, <1>4, <1>5 DEF With, CallsOf, PanelsInv, PanelsTyped
<1>7. view' = v /\ sentText' = v.typed /\ ranAt' = Now /\ shown'.phase = "loading"
  BY DEF Runs, PanelLoading
<1>8. DOMAIN calls' \subseteq 1..effect'
  BY <1>2, <1>5 DEF PanelsInv, PanelsTyped, PanelsTypeOK
<1>9. v.span \in Spans /\ v.pick \in KindPicks /\ v.typed \in ViewTexts
  BY DEF Views
<1>10. PanelsTyped'
  BY <1>1, <1>2, <1>6, <1>7, <1>8, <1>9 DEF PanelsInv, PanelsTyped, PanelsTypeOK, Now
<1>11. SentView' = v
  BY <1>7, SentIsView DEF SentView
<1>12. Question(v)' = Question(v)
  BY DEF Question, LogQuestion, FramesQuestion, EventsQuestion, UptimeQuestion
<1>13. CallsFit'
  BY <1>2, <1>3, <1>5, <1>11, <1>12 DEF CallsFit
<1> QED BY <1>7, <1>10, <1>13 DEF PanelsInv, ShownFitsControls

\* A step that leaves the controls, the effect and the records alone, and takes of
\* the calls no more than it answers.
LEMMA CallStep ==
    ASSUME PanelsInv, UNCHANGED <<records, kindOf, view, effect, sentText, ranAt>>,
           DOMAIN calls' \subseteq DOMAIN calls, calls' \in CallsOf(DOMAIN calls'),
           \A e \in DOMAIN calls' :
                \/ calls'[e] = calls[e]
                \/ /\ calls'[e].question = calls[e].question
                   /\ calls'[e].got = FetchAnswered(calls[e].question),
           \/ shown' = shown
           \/ shown'.phase = "error"
           \/ /\ shown'.phase = "ok" /\ effect \in DOMAIN calls
              /\ calls[effect].got # NoData /\ shown'.data = calls[effect].got
    PROVE  PanelsInv'
<1>1. SentView' = SentView
  BY DEF SentView
<1>2. \A q : FetchAnswered(q)' = FetchAnswered(q)
  BY DEF FetchAnswered, OfSubject, OfKind
<1>3. Question(SentView)' = Question(SentView)
  BY <1>1 DEF Question, LogQuestion, FramesQuestion, EventsQuestion, UptimeQuestion
<1>4. \A data : Fits(data)' <=> Fits(data)
  BY <1>2, <1>3 DEF Fits
<1>5. PanelsTyped'
  BY DEF PanelsInv, PanelsTyped, PanelsTypeOK, Now
<1>6. SentView \in Views
  BY DEF SentView, PanelsInv, PanelsTyped, Views
<1>7. Fits(FetchAnswered(Question(SentView)))
  BY DEF Fits
<1>8. CallsFit'
  BY <1>3, <1>4, <1>7 DEF CallsFit, PanelsInv
<1>9. shown.phase = "ok" => Fits(shown.data)
  BY DEF PanelsInv, ShownFitsControls, Fits, SentView
<1>10. shown'.phase = "ok" => Fits(shown'.data)
  BY <1>9 DEF PanelsInv, CallsFit
<1>11. shown'.phase = "ok" => Fits(shown.data)'
  BY <1>4, <1>10
<1>12. ShownFitsControls'
  BY <1>11 DEF ShownFitsControls, Fits, SentView
<1> QED BY <1>5, <1>8, <1>12 DEF PanelsInv

\* A new record is after every window that was asked for, and none of those that
\* a transaction had when it was asked for.
LEMMA RecordStep ==
    ASSUME PanelsInv, NEW s \in Subject, NEW k \in Kind, Record(s, k)
    PROVE  PanelsInv'
<1> DEFINE rec == [subject |-> s, kind |-> k]
<1>1. /\ records \in Seq([subject : Subject, kind : Kind]) /\ Now < MaxInstant
      /\ records' = Append(records, rec) /\ rec \in [subject : Subject, kind : Kind]
      /\ UNCHANGED <<kindOf, view, effect, calls, shown, sentText, ranAt>>
  BY DEF Record, PanelsInv, PanelsTyped, PanelsTypeOK
<1> HIDE DEF rec
<1>2. /\ records' \in Seq([subject : Subject, kind : Kind]) /\ Now' = Now + 1 /\ Now \in Nat
      /\ DOMAIN records = 1..Now /\ DOMAIN records' = 1..(Now + 1)
      /\ \A i \in 1..Now : records'[i] = records[i]
  BY <1>1, LenProperties DEF Now
<1>3. PanelsTyped'
  <2>1. Now' <= MaxInstant
    BY <1>1, <1>2, FetchedPanelsAssumption
  <2>2. view.end \in 1..Now' /\ ranAt \in 0..Now'
    BY <1>2 DEF PanelsInv, PanelsTyped, PanelsTypeOK
  <2> QED BY <1>1, <1>2, <2>1, <2>2 DEF PanelsInv, PanelsTyped, PanelsTypeOK
<1>4. \A q : /\ FetchAnswered(q) = {i \in FetchAnswered(q)' : i <= Now}
             /\ FetchAnswered(q) \subseteq FetchAnswered(q)'
  BY <1>2 DEF FetchAnswered, OfSubject, OfKind
<1>5. \A q : q.window \in Windows /\ q.window.upTo <= Now => FetchAnswered(q)' = FetchAnswered(q)
  <2> SUFFICES ASSUME NEW q, q.window \in Windows, q.window.upTo <= Now,
                      NEW i \in FetchAnswered(q)'
               PROVE  i <= Now
    BY <1>4
  <2>1. q.window # NoData /\ q.window.upTo \in Nat
    BY FetchedPanelsAssumption DEF Windows
  <2>2. i \in 1..(Now + 1) /\ i <= q.window.upTo
    BY <1>2, <2>1 DEF FetchAnswered, Within
  <2> QED BY <1>2, <2>1, <2>2
<1>6. SentView \in Views /\ SentView.end \in 1..Now /\ SentView' = SentView
  BY <1>1 DEF SentView, PanelsInv, PanelsTyped, PanelsTypeOK, Views
<1>7. Question(SentView)' = Question(SentView)
  BY <1>1, <1>6 DEF Question, LogQuestion, FramesQuestion, EventsQuestion, UptimeQuestion
<1>8. \A data : Fits(data) => Fits(data)'
  <2>1. CASE kindOf # "frames"
    <3>1. FetchAnswered(Question(SentView))' = FetchAnswered(Question(SentView))
      <4>1. Question(SentView).window \in Windows /\ Question(SentView).window.upTo <= Now
        BY <1>2, <1>6, <2>1, QuestionType DEF PanelsInv, PanelsTyped
      <4>2. \A q : q = Question(SentView) => FetchAnswered(q)' = FetchAnswered(q)
        BY <1>5, <4>1
      <4> QED BY <1>7, <4>2
    <3> QED BY <1>1, <2>1, <3>1 DEF Fits
  <2>2. CASE kindOf = "frames"
    <3>1. /\ FetchAnswered(Question(SentView)) = {i \in FetchAnswered(Question(SentView))' : i <= Now}
          /\ FetchAnswered(Question(SentView)) \subseteq FetchAnswered(Question(SentView))'
      BY <1>4, <1>7
    <3>2. ranAt \in 0..Now /\ ranAt' = ranAt
      BY <1>1 DEF PanelsInv, PanelsTyped
    <3>3. FetchAnswered(Question(SentView))' \subseteq Nat
      BY <1>2 DEF FetchAnswered
    <3> QED BY <1>1, <1>2, <2>2, <3>1, <3>2, <3>3 DEF Fits
  <2> QED BY <2>1, <2>2
<1>9. CallsFit'
  BY <1>1, <1>7, <1>8 DEF PanelsInv, CallsFit
<1>10. shown.phase = "ok" => Fits(shown.data)
  BY DEF PanelsInv, ShownFitsControls, Fits, SentView
<1>11. shown'.phase = "ok" => Fits(shown.data)'
  BY <1>1, <1>8, <1>10
<1>12. ShownFitsControls'
  BY <1>11 DEF ShownFitsControls, Fits, SentView
<1> QED BY <1>3, <1>9, <1>12 DEF PanelsInv

\* Every step of the panels keeps the invariant.
LEMMA PanelsInvStep == PanelsInv /\ [PanelsNext]_panelsVars => PanelsInv'
<1> SUFFICES ASSUME PanelsInv, [PanelsNext]_panelsVars PROVE PanelsInv'
  OBVIOUS
<1>0. /\ view \in Views /\ view.end \in 1..Now /\ 1 \in 1..Now /\ Now \in 1..Now /\ Now \in Nat
      /\ calls \in CallsOf(DOMAIN calls)
  BY LenProperties DEF PanelsInv, PanelsTyped, PanelsTypeOK, Now
<1>1. CASE UNCHANGED panelsVars
  BY <1>0, <1>1, CallStep DEF panelsVars
<1>2. ASSUME NEW s \in Subject, NEW k \in Kind, Record(s, k) PROVE PanelsInv'
  BY <1>2, RecordStep
<1>3. ASSUME NEW e \in DOMAIN calls, ServeCall(e) PROVE PanelsInv'
  <2> DEFINE a == FetchAnswered(calls[e].question)
  <2>1. a \in SUBSET Nat
    BY AnsweredType DEF PanelsInv
  <2>2. calls' = [calls EXCEPT ![e].got = a]
    BY <1>3 DEF ServeCall
  <2>3. a = FetchAnswered(calls[e].question)
    OBVIOUS
  <2> HIDE DEF a
  <2> DEFINE c == [calls[e] EXCEPT !.got = a]
  <2>4. c.question = calls[e].question /\ c.got = a
        /\ c \in [question : Questions, got : (SUBSET Nat) \cup {NoData}]
    BY <1>0, <2>1 DEF CallsOf
  <2>5. calls' = [calls EXCEPT ![e] = c]
    BY <2>2
  <2> HIDE DEF c
  <2>6. /\ DOMAIN calls' = DOMAIN calls /\ calls' \in CallsOf(DOMAIN calls')
        /\ calls'[e] = c /\ \A f \in DOMAIN calls \ {e} : calls'[f] = calls[f]
    BY <1>0, <2>4, <2>5 DEF CallsOf
  <2>7. UNCHANGED <<records, kindOf, view, effect, sentText, ranAt, shown>>
    BY <1>3 DEF ServeCall
  <2> QED BY <2>3, <2>4, <2>6, <2>7, CallStep
<1>4. ASSUME NEW e \in DOMAIN calls, TakeAnswer(e) \/ LoseCall(e) PROVE PanelsInv'
  <2>1. calls' = Without(e) /\ UNCHANGED <<records, kindOf, view, effect, sentText, ranAt>>
    BY <1>4 DEF TakeAnswer, LoseCall
  <2>2. /\ DOMAIN calls' \subseteq DOMAIN calls /\ calls' \in CallsOf(DOMAIN calls')
        /\ \A f \in DOMAIN calls' : calls'[f] = calls[f]
    BY <1>0, <2>1 DEF Without, CallsOf
  <2>3. \/ shown' = shown
        \/ shown'.phase = "error"
        \/ /\ shown'.phase = "ok" /\ effect \in DOMAIN calls
           /\ calls[effect].got # NoData /\ shown'.data = calls[effect].got
    BY <1>4 DEF TakeAnswer, LoseCall, NotCancelled
  <2> QED BY <2>1, <2>2, <2>3, CallStep
<1>5. ASSUME NEW v \in Views, v.end \in 1..Now, Runs(v), UNCHANGED <<records, kindOf>>
      PROVE  PanelsInv'
  BY <1>5, RunsFits
<1>6. ASSUME NEW n \in Spans, LogSpan(n) \/ EventsSpan(n) \/ ChipSpan(n) PROVE PanelsInv'
  <2>1. [view EXCEPT !.span = n, !.end = Now] \in Views
        /\ [view EXCEPT !.span = n, !.end = Now].end = Now
    BY <1>0 DEF Views
  <2>2. Runs([view EXCEPT !.span = n, !.end = Now]) /\ UNCHANGED <<records, kindOf>>
    BY <1>6 DEF LogSpan, EventsSpan, ChipSpan, NewSpan
  <2> QED BY <1>0, <1>5, <2>1, <2>2
<1>7. ASSUME NEW ks \in KindPicks, LogDirection(ks) \/ EventsStatus(ks) PROVE PanelsInv'
  <2>1. [view EXCEPT !.pick = ks] \in Views /\ [view EXCEPT !.pick = ks].end = view.end
    BY <1>0 DEF Views
  <2>2. Runs([view EXCEPT !.pick = ks]) /\ UNCHANGED <<records, kindOf>>
    BY <1>7 DEF LogDirection, EventsStatus
  <2> QED BY <1>0, <1>5, <2>1, <2>2
<1>8. CASE LogRefresh \/ FramesRefresh \/ ChipBoot
  BY <1>0, <1>5, <1>8 DEF LogRefresh, FramesRefresh, ChipBoot
<1>9. ASSUME NEW s \in Subject, JumpTo(s) PROVE PanelsInv'
  <2>1. [view EXCEPT !.subject = s] \in Views /\ [view EXCEPT !.subject = s].end = view.end
    BY <1>0 DEF Views
  <2>2. Runs([view EXCEPT !.subject = s]) /\ UNCHANGED <<records, kindOf>>
    BY <1>9 DEF JumpTo
  <2> QED BY <1>0, <1>5, <2>1, <2>2
<1>10. CASE EventsCommit
  <2>1. [view EXCEPT !.scope = view.typed] \in Views /\ [view EXCEPT !.scope = view.typed].end = view.end
    BY <1>0 DEF Views
  <2>2. Runs([view EXCEPT !.scope = view.typed]) /\ UNCHANGED <<records, kindOf>>
    BY <1>10 DEF EventsCommit
  <2> QED BY <1>0, <1>5, <2>1, <2>2
<1>11. ASSUME NEW t \in ViewTexts, view' = [view EXCEPT !.typed = t],
              UNCHANGED <<records, kindOf, effect, calls, shown, sentText, ranAt>>
       PROVE  PanelsInv'
  <2>1. view' \in Views /\ view'.end = view.end /\ view'.span = view.span /\ view'.pick = view.pick
    BY <1>0, <1>11 DEF Views
  <2>2. PanelsTyped'
    BY <1>11, <2>1 DEF PanelsInv, PanelsTyped, PanelsTypeOK, Now
  <2>3. SentView' = SentView
    BY <1>0, <1>11 DEF SentView, Views
  <2>4. \A q : FetchAnswered(q)' = FetchAnswered(q)
    BY <1>11 DEF FetchAnswered, OfSubject, OfKind
  <2>5. Question(SentView)' = Question(SentView)
    BY <1>11, <2>3 DEF Question, LogQuestion, FramesQuestion, EventsQuestion, UptimeQuestion
  <2>6. \A data : Fits(data)' <=> Fits(data)
    BY <1>11, <2>4, <2>5 DEF Fits
  <2>7. CallsFit'
    BY <1>11, <2>5, <2>6 DEF CallsFit, PanelsInv
  <2>8. shown.phase = "ok" => Fits(shown.data)
    BY DEF PanelsInv, ShownFitsControls, Fits, SentView
  <2>9. shown'.phase = "ok" => Fits(shown.data)'
    BY <1>11, <2>6, <2>8
  <2> QED BY <2>2, <2>7, <2>9 DEF PanelsInv, ShownFitsControls, Fits, SentView
<1>12. CASE EventsClear
  <2>1. CASE view.scope = Anything
    <3>1. Anything \in ViewTexts
      BY DEF ViewTexts
    <3> QED BY <1>11, <1>12, <2>1, <3>1 DEF EventsClear
  <2>2. CASE view.scope # Anything
    <3> DEFINE v == [view EXCEPT !.typed = Anything, !.scope = Anything]
    <3>1. v \in Views /\ v.end = view.end
      BY <1>0 DEF Views, ViewTexts
    <3>2. Runs(v) /\ UNCHANGED <<records, kindOf>>
      BY <1>12, <2>2 DEF EventsClear
    <3> QED BY <1>0, <1>5, <3>1, <3>2
  <2> QED BY <2>1, <2>2
<1>13. ASSUME NEW t \in TextPicks, TypeInto(t) PROVE PanelsInv'
  BY <1>11, <1>13 DEF TypeInto, ViewTexts
<1>14. CASE ChipToggle
  <2>1. UNCHANGED <<records, kindOf, view, effect, calls, shown, sentText, ranAt>>
    BY <1>14 DEF ChipToggle
  <2> QED BY <1>0, <2>1, CallStep
<1> QED BY <1>1, <1>2, <1>3, <1>4, <1>6, <1>7, <1>8, <1>9, <1>10, <1>12, <1>13, <1>14
        DEF PanelsNext

\* The first run of the effect asks for the first view.
LEMMA PanelsInvInit == PanelsInit => PanelsInv
<1> SUFFICES ASSUME PanelsInit PROVE PanelsInv
  OBVIOUS
<1>1. PICK s \in Subject, k \in Kind : records = <<[subject |-> s, kind |-> k]>>
  BY DEF PanelsInit
<1>2. records \in Seq([subject : Subject, kind : Kind]) /\ Now = 1
  BY <1>1 DEF Now
<1>3. PICK u \in Subject : view = FirstView(u)
  BY DEF PanelsInit
<1>4. view \in Views /\ view.end = 1 /\ view.typed = Anything
  BY <1>3, FetchedPanelsAssumption DEF FirstView, Views, ViewTexts
<1>5. kindOf \in {"log", "frames", "events", "uptime"}
  BY DEF PanelsInit
<1> DEFINE c == [question |-> Question(view), got |-> NoData]
<1>6. c \in [question : Questions, got : (SUBSET Nat) \cup {NoData}] /\ c.got = NoData
      /\ c.question = Question(view)
  BY <1>4, <1>5, QuestionType
<1>7. calls = [e \in {1} |-> c] /\ effect = 1
  BY DEF PanelsInit
<1> HIDE DEF c
<1>8. calls \in CallsOf(DOMAIN calls) /\ DOMAIN calls = {1} /\ calls[1] = c
  BY <1>6, <1>7 DEF CallsOf
<1>9. sentText = Anything /\ ranAt = 1 /\ shown.phase = "loading"
  BY DEF PanelsInit, PanelLoading
<1>10. PanelsTypeOK
  BY <1>2, <1>4, <1>7, <1>8, <1>9, FetchedPanelsAssumption DEF PanelsTypeOK, Views
<1>11. PanelsTyped
  BY <1>2, <1>4, <1>5, <1>7, <1>8, <1>9, <1>10 DEF PanelsTyped, ViewTexts
<1>12. SentView = view
  BY <1>4, <1>9, SentIsView DEF SentView
<1> QED BY <1>6, <1>7, <1>8, <1>9, <1>11, <1>12 DEF PanelsInv, CallsFit, ShownFitsControls

\* The panels that fetch in an effect keep their types.
THEOREM PanelsTypeCorrect == PanelsSpec => []PanelsTypeOK
<1>1. PanelsInv => PanelsTypeOK
  BY DEF PanelsInv, PanelsTyped
<1> QED BY <1>1, PanelsInvInit, PanelsInvStep, PTL DEF PanelsSpec

\* In whatever order the answers come, a panel shows the records that the controls
\* on the screen select, but for text that has not been sent.
THEOREM PanelsFitControls == PanelsSpec => []ShownFitsControls
<1>1. PanelsInv => ShownFitsControls
  BY DEF PanelsInv
<1> QED BY <1>1, PanelsInvInit, PanelsInvStep, PTL DEF PanelsSpec

-----------------------------------------------------------------------------
(* The list of transactions.                                               *)

Urls == [status : {"all", "active", "finished"}, text : TextFilter, range : BOOLEAN,
         size : RowsPerPage, live : BOOLEAN, sort : {"id", "energy"}, dir : {"asc", "desc"}]

\* The parts of the type that the proof needs.
TxTyped ==
    /\ sessions \in Seq({"open", "closed"}) /\ Len(sessions) <= MaxSessions
    /\ url \in Urls /\ textInput \in TextFilter
    /\ tail \in Tails \cup {NoData} /\ (tail # NoData <=> LiveRows(url))
    /\ unseenTail \in BOOLEAN /\ untold \in BOOLEAN
    /\ RowKey \in DOMAIN pages
    /\ \A k \in DOMAIN pages : DOMAIN pages[k] = CacheFields

\* A delta that the page has not rendered yet.
TailPending ==
    \/ tail.stage = "live" /\ \E j \in DOMAIN tail.wire : tail.wire[j].kind = "delta"
    \/ unseenTail

\* The query is to show the rows ids, unless it shows nothing or an error.
ShowsRows(e, ids) ==
    \/ e.fetch = "asked"
    \/ e.fetch = "answered" /\ e.got.ids = ids
    \/ e.fetch = "idle" /\ (~e.error /\ e.data # NoData => e.data.ids = ids)

\* What the page has missed and was told, the effect of the live tail still has to
\* ask for.
RowsFresh ==
    LiveRows(url) /\ ~untold /\ ~TailPending => ShowsRows(pages[RowKey], Answer(RowKey).ids)

TxInv == TxTyped /\ RowsFresh

-----------------------------------------------------------------------------
\* What the gateway answers depends on the sessions only.
LEMMA SameAnswer ==
    ASSUME sessions' = sessions
    PROVE  \A k : Answer(k)' = Answer(k)
  BY DEF Answer, Selected

\* A stop changes which sessions are open, but not which there are.
LEMMA StopAnswer ==
    ASSUME DOMAIN sessions' = DOMAIN sessions, NEW k, k.filter.status = "all"
    PROVE  Answer(k)'.ids = Answer(k).ids
<1>1. Selected(k.filter)' = Selected(k.filter)
  BY DEF Selected
<1> QED BY <1>1 DEF Answer

-----------------------------------------------------------------------------
\* A step that leaves the rows' entry and their answer alone, and catches up with
\* nothing, leaves the rows as fresh as they were.
LEMMA FreshStays ==
    ASSUME TxInv, TxTyped', NEW k, k = RowKey, RowKey' = k, Answer(k)'.ids = Answer(k).ids,
           pages'[k] = pages[k], LiveRows(url)' => LiveRows(url), ~untold' => ~untold,
           TailPending => TailPending'
    PROVE  TxInv'
<1>1. Answer(RowKey)'.ids = Answer(RowKey).ids
  OBVIOUS
<1>2. pages'[RowKey'] = pages[RowKey]
  OBVIOUS
<1>3. RowsFresh'
  <2> SUFFICES ASSUME LiveRows(url)', ~untold', ~TailPending'
               PROVE  ShowsRows(pages[RowKey], Answer(RowKey).ids)'
    BY DEF RowsFresh
  <2>1. ShowsRows(pages[RowKey], Answer(RowKey).ids)
    BY DEF TxInv, RowsFresh
  <2> QED BY <1>1, <1>2, <2>1 DEF ShowsRows
<1> QED BY <1>3 DEF TxInv

\* A step of the query or of its effect.
LEMMA QueryStepTyped ==
    ASSUME TxTyped, UNCHANGED <<sessions, url, textInput, stack, pageIdx, tail>>,
           DOMAIN pages' = DOMAIN pages,
           \A k \in DOMAIN pages : DOMAIN pages'[k] = CacheFields,
           unseenTail' \in BOOLEAN, untold' \in BOOLEAN
    PROVE  /\ TxTyped' /\ RowKey' = RowKey /\ (LiveRows(url)' <=> LiveRows(url))
           /\ \A k : Answer(k)' = Answer(k)
<1>1. RowKey' = RowKey
  BY DEF RowKey, QueryKey, FilterKey, CursorOf, SortedList
<1>2. LiveRows(url)' <=> LiveRows(url)
  BY DEF LiveRows
<1>3. \A k : Answer(k)' = Answer(k)
  BY SameAnswer
<1>4. RowKey' \in DOMAIN pages'
  BY <1>1 DEF TxTyped
<1>5. TxTyped'
  BY <1>2, <1>4 DEF TxTyped
<1> QED BY <1>1, <1>2, <1>3, <1>5

\* A fetch of a page is answered, arrives or fails.
LEMMA QuerySteps ==
    ASSUME TxInv, NEW k \in DOMAIN pages, ServePage(k) \/ ArrivePage(k) \/ FailPage(k)
    PROVE  TxInv'
<1>0. TxTyped /\ \A j \in DOMAIN pages : DOMAIN pages[j] = CacheFields
  BY DEF TxInv, TxTyped
<1>1. CASE ServePage(k)
  <2>1. /\ pages' = Served(pages, k, Answer(k)) /\ untold' = (untold /\ k # RowKey)
        /\ UNCHANGED <<sessions, url, textInput, stack, pageIdx, tail, unseenTail>>
    BY <1>1 DEF ServePage
  <2>2. /\ DOMAIN pages' = DOMAIN pages
        /\ pages'[k].fetch = "answered" /\ pages'[k].got = Answer(k)
        /\ \A j \in DOMAIN pages \ {k} : pages'[j] = pages[j]
        /\ \A j \in DOMAIN pages : DOMAIN pages'[j] = CacheFields
    BY <1>0, <2>1, ServedEntry
  <2>3. untold' \in BOOLEAN /\ unseenTail' \in BOOLEAN
    BY <1>0, <2>1 DEF TxTyped
  <2>4. /\ TxTyped' /\ RowKey' = RowKey /\ (LiveRows(url)' <=> LiveRows(url))
        /\ \A j : Answer(j)' = Answer(j)
    BY <1>0, <2>1, <2>2, <2>3, QueryStepTyped
  <2>5. CASE k = RowKey
    <3>1. Answer(RowKey)' = Answer(RowKey)
      BY <2>4
    <3>2. ShowsRows(pages[RowKey], Answer(RowKey).ids)'
      BY <2>2, <2>4, <2>5, <3>1 DEF ShowsRows
    <3> QED BY <2>4, <3>2 DEF TxInv, RowsFresh
  <2>6. CASE k # RowKey
    <3>0. PICK r : r = RowKey
      OBVIOUS
    <3>1. r = RowKey /\ RowKey' = r /\ r \in DOMAIN pages \ {k}
      BY <1>0, <2>4, <2>6, <3>0 DEF TxTyped
    <3>2. TailPending => TailPending'
      BY <2>1 DEF TailPending
    <3>3. ~untold' => ~untold
      BY <2>1, <2>6
    <3>4. Answer(r)'.ids = Answer(r).ids
      BY <2>4
    <3>5. pages'[r] = pages[r]
      BY <2>2, <3>1
    <3> QED BY <2>4, <3>1, <3>2, <3>3, <3>4, <3>5, FreshStays
  <2> QED BY <2>5, <2>6
<1>2. CASE ArrivePage(k)
  <2>1. /\ pages' = Arrived(pages, k) /\ pages[k].fetch = "answered"
        /\ UNCHANGED <<sessions, url, textInput, stack, pageIdx, tail, unseenTail, untold>>
    BY <1>2 DEF ArrivePage
  <2>2. /\ DOMAIN pages' = DOMAIN pages
        /\ pages'[k].fetch = "idle" /\ pages'[k].data = pages[k].got
        /\ \A j \in DOMAIN pages \ {k} : pages'[j] = pages[j]
        /\ \A j \in DOMAIN pages : DOMAIN pages'[j] = CacheFields
    BY <1>0, <2>1, ArrivedEntry
  <2>3. untold' \in BOOLEAN /\ unseenTail' \in BOOLEAN
    BY <1>0, <2>1 DEF TxTyped
  <2>4. /\ TxTyped' /\ RowKey' = RowKey /\ (LiveRows(url)' <=> LiveRows(url))
        /\ \A j : Answer(j)' = Answer(j)
    BY <1>0, <2>1, <2>2, <2>3, QueryStepTyped
  <2>5. TailPending => TailPending'
    BY <2>1 DEF TailPending
  <2>6. CASE k = RowKey
    <3>1. Answer(RowKey)' = Answer(RowKey)
      BY <2>4
    <3>2. LiveRows(url)' /\ ~untold' /\ ~TailPending' => ShowsRows(pages[RowKey], Answer(RowKey).ids)
      BY <2>1, <2>4, <2>5 DEF TxInv, RowsFresh
    <3>3. ShowsRows(pages[RowKey], Answer(RowKey).ids) => ShowsRows(pages[RowKey], Answer(RowKey).ids)'
      BY <2>1, <2>2, <2>4, <2>6, <3>1 DEF ShowsRows
    <3> QED BY <2>4, <3>2, <3>3 DEF TxInv, RowsFresh
  <2>7. CASE k # RowKey
    <3>0. PICK r : r = RowKey
      OBVIOUS
    <3>1. r = RowKey /\ RowKey' = r /\ r \in DOMAIN pages \ {k}
      BY <1>0, <2>4, <2>7, <3>0 DEF TxTyped
    <3>3. ~untold' => ~untold
      BY <2>1
    <3>4. Answer(r)'.ids = Answer(r).ids
      BY <2>4
    <3>5. pages'[r] = pages[r]
      BY <2>2, <3>1
    <3> QED BY <2>4, <2>5, <3>1, <3>3, <3>4, <3>5, FreshStays
  <2> QED BY <2>6, <2>7
<1>3. CASE FailPage(k)
  <2>1. /\ pages' = GivenUp(pages, k) /\ untold' = TRUE
        /\ UNCHANGED <<sessions, url, textInput, stack, pageIdx, tail, unseenTail>>
    BY <1>3 DEF FailPage
  <2>2. /\ DOMAIN pages' = DOMAIN pages
        /\ \A j \in DOMAIN pages : DOMAIN pages'[j] = CacheFields
    BY <1>0, <2>1, GivenUpEntry
  <2>3. untold' \in BOOLEAN /\ unseenTail' \in BOOLEAN
    BY <1>0, <2>1 DEF TxTyped
  <2>4. TxTyped'
    BY <1>0, <2>1, <2>2, <2>3, QueryStepTyped
  <2> QED BY <2>1, <2>4 DEF TxInv, RowsFresh
<1> QED BY <1>1, <1>2, <1>3

\* The effect of the tail asks for the page on the screen again.
LEMMA RenderStep ==
    ASSUME TxInv, RenderTail
    PROVE  TxInv'
<1>0. TxTyped /\ RowKey \in DOMAIN pages /\ \A j \in DOMAIN pages : DOMAIN pages[j] = CacheFields
  BY DEF TxInv, TxTyped
<1>1. /\ pages' = Refetched(pages, RowKey) /\ unseenTail' = FALSE
      /\ UNCHANGED <<sessions, url, textInput, stack, pageIdx, tail, untold>>
  BY DEF RenderTail, RefetchesActive
<1>2. /\ DOMAIN pages' = DOMAIN pages /\ pages'[RowKey].fetch = "asked"
      /\ \A j \in DOMAIN pages : DOMAIN pages'[j] = CacheFields
  BY <1>0, <1>1, RefetchedEntry
<1>3. untold' \in BOOLEAN /\ unseenTail' \in BOOLEAN
  BY <1>0, <1>1 DEF TxTyped
<1>4. TxTyped' /\ RowKey' = RowKey
  BY <1>0, <1>1, <1>2, <1>3, QueryStepTyped
<1> QED BY <1>2, <1>4 DEF TxInv, RowsFresh, ShowsRows

\* A step that leaves the page and the sessions alone.
LEMMA TailStep ==
    ASSUME TxInv, UNCHANGED <<sessions, url, textInput, stack, pageIdx, pages, untold>>,
           tail' \in Tails \cup {NoData}, tail' # NoData <=> tail # NoData,
           unseenTail' \in BOOLEAN, TailPending => TailPending'
    PROVE  TxInv'
<1>0. PICK r : r = RowKey
  OBVIOUS
<1>1. r = RowKey /\ RowKey' = r
  BY <1>0 DEF RowKey, QueryKey, FilterKey, CursorOf, SortedList
<1>2. TxTyped'
  BY <1>1 DEF TxInv, TxTyped, LiveRows
<1>3. Answer(r)'.ids = Answer(r).ids
  <2>1. \A k : Answer(k)' = Answer(k)
    BY SameAnswer
  <2> QED BY <2>1
<1>4. LiveRows(url)' <=> LiveRows(url)
  BY DEF LiveRows
<1> QED BY <1>1, <1>2, <1>3, <1>4, FreshStays

\* The subscription of the Live switch goes on.
LEMMA TailSteps ==
    ASSUME TxInv, ReadTail \/ RegisterTail \/ DeliverTail
    PROVE  TxInv'
<1>1. NoData \notin Tails /\ tail \in Tails \cup {NoData} /\ unseenTail \in BOOLEAN
  BY TransactionsAssumption DEF TxInv, TxTyped
<1>2. CASE ReadTail
  <2>1. /\ tail \in Tails /\ tail.stage = "asked"
        /\ tail' = SnapshotRead(tail, {i \in DOMAIN sessions : sessions[i] = "open"})
        /\ UNCHANGED <<sessions, url, textInput, stack, pageIdx, pages, unseenTail, untold>>
    BY <1>1, <1>2 DEF ReadTail
  <2>2. {i \in DOMAIN sessions : sessions[i] = "open"} \in SUBSET SessionId
    <3>1. DOMAIN sessions = 1..Len(sessions) /\ Len(sessions) \in Nat /\ Len(sessions) <= MaxSessions
      BY DEF TxInv, TxTyped
    <3> QED BY <3>1, TransactionsAssumption DEF SessionId
  <2>3. tail' \in Tails
    BY <2>1, <2>2, ReadHook DEF Tails
  <2>4. TailPending => TailPending'
    BY <2>1 DEF TailPending
  <2> QED BY <1>1, <2>1, <2>3, <2>4, TailStep
<1>3. CASE RegisterTail
  <2>1. /\ tail \in Tails /\ tail.stage = "read" /\ tail' = Registered(tail)
        /\ UNCHANGED <<sessions, url, textInput, stack, pageIdx, pages, unseenTail, untold>>
    BY <1>1, <1>3 DEF RegisterTail
  <2>2. tail' \in Tails
    BY <2>1, RegisteredHook DEF Tails
  <2>3. TailPending => TailPending'
    BY <2>1 DEF TailPending
  <2> QED BY <1>1, <2>1, <2>2, <2>3, TailStep
<1>4. CASE DeliverTail
  <2>1. /\ tail \in Tails /\ Deliverable(tail) /\ tail' = Delivered(tail)
        /\ unseenTail' = (unseenTail \/ Arriving(tail) = "delta")
        /\ UNCHANGED <<sessions, url, textInput, stack, pageIdx, pages, untold>>
    BY <1>1, <1>4 DEF DeliverTail
  <2>2. /\ tail' \in Tails /\ tail'.stage = "live" /\ Arriving(tail) = tail.wire[1].kind
        /\ Len(tail'.wire) \in Nat /\ DOMAIN tail'.wire = 1..Len(tail'.wire)
        /\ DOMAIN tail.wire = 1..(Len(tail'.wire) + 1)
        /\ \A i \in DOMAIN tail'.wire : tail'.wire[i] = tail.wire[i + 1]
    BY <2>1, DeliveredOne DEF Tails
  <2>3. TailPending => TailPending'
    <3>1. ASSUME NEW j \in DOMAIN tail.wire, tail.wire[j].kind = "delta", j # 1
          PROVE  TailPending'
      <4>1. /\ Len(tail'.wire) \in Nat /\ j \in 1..(Len(tail'.wire) + 1) /\ j # 1
            /\ \A n \in Nat : \A i \in 1..(n + 1) : i # 1 => i - 1 \in 1..n /\ (i - 1) + 1 = i
        BY <2>2, <3>1
      <4>2. j - 1 \in 1..Len(tail'.wire) /\ (j - 1) + 1 = j
        BY <4>1
      <4>3. j - 1 \in DOMAIN tail'.wire /\ tail'.wire[j - 1] = tail.wire[j]
        BY <2>2, <4>2
      <4> QED BY <2>2, <3>1, <4>3 DEF TailPending
    <3> QED BY <2>1, <2>2, <3>1 DEF TailPending
  <2>4. unseenTail' \in BOOLEAN
    BY <2>1, <1>1
  <2> QED BY <1>1, <2>1, <2>2, <2>3, <2>4, TailStep
<1> QED BY <1>2, <1>3, <1>4

\* A start reaches the wire of a registered tail, or the page is not told.
LEMMA StartStep ==
    ASSUME TxInv, StartSession
    PROVE  TxInv'
<1>1. /\ NoData \notin Tails /\ tail \in Tails \cup {NoData} /\ sessions \in Seq({"open", "closed"})
      /\ TxTyped
  BY TransactionsAssumption DEF TxInv, TxTyped
<1>2. /\ sessions' = Append(sessions, "open") /\ Len(sessions) < MaxSessions
      /\ tail' = IF tail = NoData THEN tail ELSE Published(tail, <<Len(sessions')>>)
      /\ untold' = (untold \/ ~Subscribed)
      /\ UNCHANGED <<url, textInput, stack, pageIdx, pages, unseenTail>>
  BY DEF StartSession
<1>3. /\ sessions' \in Seq({"open", "closed"}) /\ Len(sessions') = Len(sessions) + 1
      /\ Len(sessions) \in Nat
  BY <1>1, <1>2
<1>4. Len(sessions') \in SessionId /\ Len(sessions') <= MaxSessions
  BY <1>2, <1>3, TransactionsAssumption DEF SessionId
<1>5. ASSUME tail \in Tails
      PROVE  /\ tail' \in Tails
             /\ tail.stage = "live" => /\ tail'.stage = "live"
                                       /\ \E j \in DOMAIN tail'.wire : tail'.wire[j].kind = "delta"
  <2> DEFINE d == Len(sessions')
  <2>1. d \in SessionId /\ tail' = Published(tail, <<d>>)
    BY <1>1, <1>2, <1>4, <1>5
  <2> HIDE DEF d
  <2>2. /\ tail' \in Tails /\ tail'.stage = tail.stage
        /\ tail.stage = "live" =>
              /\ Len(tail.wire) \in Nat /\ DOMAIN tail'.wire = 1..(Len(tail.wire) + 1)
              /\ tail'.wire[Len(tail.wire) + 1] = [kind |-> "delta", data |-> d]
    BY <2>1, <1>5, PublishedOne DEF Tails
  <2>3. ASSUME tail.stage = "live"
        PROVE  \E j \in DOMAIN tail'.wire : tail'.wire[j].kind = "delta"
    <3>1. Len(tail.wire) + 1 \in DOMAIN tail'.wire
      BY <2>2, <2>3
    <3> QED BY <2>2, <2>3, <3>1
  <2> QED BY <2>2, <2>3
<1>6. tail' \in Tails \cup {NoData} /\ (tail' # NoData <=> tail # NoData)
  BY <1>1, <1>2, <1>5
<1>7. RowKey' = RowKey /\ (LiveRows(url)' <=> LiveRows(url))
  BY <1>2 DEF RowKey, QueryKey, FilterKey, CursorOf, SortedList, LiveRows
<1>8. untold' \in BOOLEAN
  BY <1>1, <1>2 DEF Subscribed, TxTyped
<1>9. TxTyped'
  BY <1>1, <1>2, <1>3, <1>4, <1>6, <1>7, <1>8 DEF TxTyped
<1>10. ~untold' => TailPending'
  BY <1>1, <1>2, <1>5 DEF Subscribed, TailPending
<1> QED BY <1>9, <1>10 DEF TxInv, RowsFresh

\* Without a status filter a stop does not change which rows there are.
LEMMA StopStep ==
    ASSUME TxInv, NEW i \in SessionId, StopSession(i)
    PROVE  TxInv'
<1>1. /\ sessions' = [sessions EXCEPT ![i] = "closed"] /\ i \in DOMAIN sessions
      /\ untold' = (untold \/ url.status # "all")
      /\ UNCHANGED <<url, textInput, stack, pageIdx, pages, tail, unseenTail>>
  BY DEF StopSession
<1>2. /\ TxTyped /\ sessions \in Seq({"open", "closed"}) /\ url \in Urls
      /\ Len(sessions) <= MaxSessions
  BY DEF TxInv, TxTyped
<1>3. sessions' \in Seq({"open", "closed"}) /\ Len(sessions') <= MaxSessions
      /\ DOMAIN sessions' = DOMAIN sessions
  BY <1>1, <1>2
<1>4. PICK r : r = RowKey
  OBVIOUS
<1>5. RowKey' = r /\ (LiveRows(url)' <=> LiveRows(url))
  BY <1>1, <1>4 DEF RowKey, QueryKey, FilterKey, CursorOf, SortedList, LiveRows
<1>6. untold' \in BOOLEAN
  BY <1>1, <1>2 DEF TxTyped
<1>7. TxTyped'
  BY <1>1, <1>2, <1>3, <1>4, <1>5, <1>6 DEF TxTyped
<1>8. CASE url.status # "all"
  BY <1>1, <1>7, <1>8 DEF TxInv, RowsFresh
<1>9. CASE url.status = "all"
  <2>1. r.filter.status = "all"
    BY <1>2, <1>4, <1>9 DEF RowKey, QueryKey, FilterKey, Urls
  <2>2. Answer(r)'.ids = Answer(r).ids
    BY <1>3, <2>1, StopAnswer
  <2>3. (TailPending => TailPending') /\ (~untold' => ~untold) /\ pages'[r] = pages[r]
    BY <1>1 DEF TailPending
  <2> QED BY <1>4, <1>5, <1>7, <2>2, <2>3, FreshStays
<1> QED BY <1>8, <1>9

-----------------------------------------------------------------------------
\* It is one of Tails from its mount on.
LEMMA NewTail == NewSub("transactions-active") \in Tails
  BY NewHook DEF Tails

\* The page renders for a url whose switch is as it was.
LEMMA GoesStep ==
    ASSUME TxInv, NEW u \in Urls, u.live = url.live, NEW s, NEW n, Goes(u, s, n),
           textInput' = textInput
    PROVE  TxInv'
<1>1. TxTyped /\ NoData \notin Tails /\ tail \in Tails \cup {NoData} /\ url \in Urls
      /\ (tail # NoData <=> LiveRows(url)) /\ untold \in BOOLEAN /\ unseenTail \in BOOLEAN
  BY TransactionsAssumption DEF TxInv, TxTyped
<1>2. PICK fresh \in BOOLEAN :
          LET k == QueryKey(u, stack', n)
          IN  /\ url' = u /\ pageIdx' = n
              /\ pages' = IF k = RowKey THEN pages ELSE Observed(pages, k, fresh)
              /\ untold' = (untold \/ (k # RowKey /\ k \in DOMAIN pages))
  BY DEF Goes
<1>3. /\ tail' = Mounts(u) /\ unseenTail' = (unseenTail /\ tail' # NoData)
      /\ UNCHANGED sessions
  BY DEF Goes
<1>4. PICK k : k = QueryKey(u, stack', n)
  OBVIOUS
<1>5. /\ RowKey' = k /\ pages' = IF k = RowKey THEN pages ELSE Observed(pages, k, fresh)
      /\ untold' = (untold \/ (k # RowKey /\ k \in DOMAIN pages))
  BY <1>2, <1>4 DEF RowKey
<1>6. /\ k \in DOMAIN pages' /\ \A j \in DOMAIN pages' : DOMAIN pages'[j] = CacheFields
      /\ k \notin DOMAIN pages => pages'[k].fetch = "asked"
  <2>1. CASE k = RowKey
    BY <1>1, <1>5, <2>1 DEF TxTyped
  <2>2. CASE k # RowKey
    BY <1>1, <1>5, <2>2, ObservedEntry DEF TxTyped
  <2> QED BY <2>1, <2>2
<1>7. tail' \in Tails \cup {NoData} /\ (tail' # NoData <=> LiveRows(u))
  BY <1>1, <1>3, NewTail DEF Mounts
<1>8. untold' \in BOOLEAN /\ unseenTail' \in BOOLEAN
  BY <1>1, <1>3, <1>5
<1>9. LiveRows(url)' <=> LiveRows(u)
  BY <1>2 DEF LiveRows
<1>10. TxTyped'
  BY <1>1, <1>2, <1>3, <1>5, <1>6, <1>7, <1>8, <1>9 DEF TxTyped
<1>11. CASE k # RowKey
  BY <1>5, <1>6, <1>10, <1>11 DEF TxInv, RowsFresh, ShowsRows
<1>12. CASE k = RowKey
  <2>1. k.filter = FilterKey(u) /\ RowKey.filter = FilterKey(url)
    BY <1>4 DEF RowKey, QueryKey
  <2>2. u.range = url.range
    BY <1>1, <1>12, <2>1 DEF FilterKey, Urls
  <2>3. LiveRows(u) <=> LiveRows(url)
    BY <2>2 DEF LiveRows
  <2>4. CASE LiveRows(u)
    <3>1. tail' = tail /\ unseenTail' = unseenTail
      BY <1>1, <1>3, <2>3, <2>4 DEF Mounts
    <3>2. (TailPending => TailPending') /\ (~untold' => ~untold) /\ pages'[k] = pages[k]
      BY <1>5, <1>12, <3>1 DEF TailPending
    <3>3. Answer(k)'.ids = Answer(k).ids
      <4>1. \A j : Answer(j)' = Answer(j)
        BY <1>3, SameAnswer
      <4> QED BY <4>1
    <3> QED BY <1>5, <1>9, <1>10, <1>12, <2>3, <3>2, <3>3, FreshStays
  <2>5. CASE ~LiveRows(u)
    BY <1>9, <1>10, <2>5 DEF TxInv, RowsFresh
  <2> QED BY <2>4, <2>5
<1> QED BY <1>11, <1>12

\* The Live switch starts or ends a tail that has told of nothing yet.
LEMMA ToggleStep ==
    ASSUME TxInv, ToggleLive
    PROVE  TxInv'
<1>1. TxTyped /\ NoData \notin Tails /\ tail \in Tails \cup {NoData} /\ url \in Urls
  BY TransactionsAssumption DEF TxInv, TxTyped
<1>2. /\ url' = [url EXCEPT !.live = ~@] /\ tail' = Mounts(url') /\ unseenTail' = FALSE
      /\ untold' = TRUE /\ UNCHANGED <<sessions, textInput, stack, pageIdx, pages>>
  BY DEF ToggleLive
<1>3. url' \in Urls /\ FilterKey(url') = FilterKey(url) /\ SortedList(url') = SortedList(url)
  BY <1>1, <1>2 DEF Urls, FilterKey, SortedList
<1>4. RowKey' = RowKey
  BY <1>2, <1>3 DEF RowKey, QueryKey, CursorOf, FilterKey, SortedList
<1>5. tail' \in Tails \cup {NoData} /\ (tail' # NoData <=> LiveRows(url'))
  BY <1>1, <1>2, NewTail DEF Mounts
<1>6. TxTyped'
  BY <1>1, <1>2, <1>3, <1>4, <1>5 DEF TxTyped, LiveRows
<1> QED BY <1>2, <1>6 DEF TxInv, RowsFresh

\* Text that was not sent changes no query.
LEMMA TypeTextStep ==
    ASSUME TxInv, NEW t \in TextFilter, TypeText(t)
    PROVE  TxInv'
<1>1. /\ textInput' = t
      /\ UNCHANGED <<sessions, url, stack, pageIdx, pages, tail, unseenTail, untold>>
  BY DEF TypeText
<1>2. PICK r : r = RowKey
  OBVIOUS
<1>3. RowKey' = r /\ (LiveRows(url)' <=> LiveRows(url))
  BY <1>1, <1>2 DEF RowKey, QueryKey, FilterKey, CursorOf, SortedList, LiveRows
<1>4. TxTyped'
  BY <1>1, <1>2, <1>3 DEF TxInv, TxTyped
<1>5. Answer(r)'.ids = Answer(r).ids
  <2>1. \A k : Answer(k)' = Answer(k)
    BY <1>1, SameAnswer
  <2> QED BY <2>1
<1>6. (TailPending => TailPending') /\ (~untold' => ~untold) /\ pages'[r] = pages[r]
  BY <1>1 DEF TailPending
<1> QED BY <1>2, <1>3, <1>4, <1>5, <1>6, FreshStays

\* Every step of the page keeps the invariant.
LEMMA TxInvStep == TxInv /\ [TxNext]_txVars => TxInv'
<1> SUFFICES ASSUME TxInv, [TxNext]_txVars PROVE TxInv'
  OBVIOUS
<1>0. url \in Urls /\ textInput \in TextFilter
  BY DEF TxInv, TxTyped
<1>1. CASE UNCHANGED txVars
  <2>1. UNCHANGED <<sessions, url, textInput, stack, pageIdx, pages, tail, unseenTail, untold>>
    BY <1>1 DEF txVars
  <2>2. TailPending => TailPending'
    BY <2>1 DEF TailPending
  <2> QED BY <2>1, <2>2, TailStep DEF TxInv, TxTyped
<1>2. CASE StartSession
  BY <1>2, StartStep
<1>3. ASSUME NEW i \in SessionId, StopSession(i) PROVE TxInv'
  BY <1>3, StopStep
<1>4. ASSUME NEW k \in DOMAIN pages, ServePage(k) \/ ArrivePage(k) \/ FailPage(k) PROVE TxInv'
  BY <1>4, QuerySteps
<1>5. CASE ReadTail \/ RegisterTail \/ DeliverTail
  BY <1>5, TailSteps
<1>6. CASE RenderTail
  BY <1>6, RenderStep
<1>7. ASSUME NEW s \in {"all", "active", "finished"}, PickStatus(s) PROVE TxInv'
  <2> DEFINE u == [url EXCEPT !.status = s]
  <2>1. u \in Urls /\ u.live = url.live
    BY <1>0 DEF Urls
  <2>2. Goes(u, stack, pageIdx) /\ textInput' = textInput
    BY <1>7 DEF PickStatus
  <2> HIDE DEF u
  <2> QED BY <2>1, <2>2, GoesStep
<1>8. ASSUME NEW n \in RowsPerPage, PickRows(n) PROVE TxInv'
  <2> DEFINE u == [url EXCEPT !.size = n]
  <2>1. u \in Urls /\ u.live = url.live
    BY <1>0 DEF Urls
  <2>2. Goes(u, stack, pageIdx) /\ textInput' = textInput
    BY <1>8 DEF PickRows
  <2> HIDE DEF u
  <2> QED BY <2>1, <2>2, GoesStep
<1>9. CASE SetRange
  <2> DEFINE u == [url EXCEPT !.range = ~@]
  <2>1. u \in Urls /\ u.live = url.live
    BY <1>0 DEF Urls
  <2>2. Goes(u, stack, pageIdx) /\ textInput' = textInput
    BY <1>9 DEF SetRange
  <2> HIDE DEF u
  <2> QED BY <2>1, <2>2, GoesStep
<1>10. ASSUME NEW t \in TextFilter, TypeText(t) PROVE TxInv'
  BY <1>10, TypeTextStep
<1>11. CASE CommitText
  <2> DEFINE u == [url EXCEPT !.text = textInput]
  <2>1. u \in Urls /\ u.live = url.live
    BY <1>0 DEF Urls
  <2>2. Goes(u, stack, pageIdx) /\ textInput' = textInput
    BY <1>11 DEF CommitText
  <2> HIDE DEF u
  <2> QED BY <2>1, <2>2, GoesStep
<1>12. CASE ToggleLive
  BY <1>12, ToggleStep
<1>13. ASSUME NEW k \in {"id", "energy"}, ToggleSort(k) PROVE TxInv'
  <2> DEFINE v == IF url.sort # k THEN [url EXCEPT !.sort = k, !.dir = "desc"]
                  ELSE IF url.dir = "desc" THEN [url EXCEPT !.dir = "asc"]
                  ELSE [url EXCEPT !.sort = "id"]
             u == Normalised(v)
  <2>1. v \in Urls /\ v.live = url.live
    BY <1>0 DEF Urls
  <2>2. Goes(u, <<>>, 1) /\ textInput' = textInput
    BY <1>13 DEF ToggleSort
  <2> HIDE DEF v
  <2>3. u \in Urls /\ u.live = url.live
    BY <2>1 DEF Urls, Normalised
  <2> HIDE DEF u
  <2> QED BY <2>2, <2>3, GoesStep
<1>14. CASE GoNext \/ GoPrev
  <2>1. textInput' = textInput /\ \E s, n : Goes(url, s, n)
    BY <1>14 DEF GoNext, GoPrev
  <2> QED BY <1>0, <2>1, GoesStep
<1> QED BY <1>1, <1>2, <1>3, <1>4, <1>5, <1>6, <1>7, <1>8, <1>9, <1>10, <1>11, <1>12, <1>13, <1>14
        DEF TxNext

\* The first page was asked for when the page mounted.
LEMMA TxInvInit == TxInit => TxInv
<1> SUFFICES ASSUME TxInit PROVE TxInv
  OBVIOUS
<1>1. sessions \in Seq({"open", "closed"}) /\ Len(sessions) <= MaxSessions
  <2>1. sessions = [i \in 1..FirstSessions |-> "open"] /\ FirstSessions \in Nat
        /\ FirstSessions <= MaxSessions
    BY TransactionsAssumption DEF TxInit
  <2> QED BY <2>1
<1>2. url \in Urls /\ textInput \in TextFilter /\ url.live = FALSE
  <2>1. Min(RowsPerPage) \in RowsPerPage
    BY SmallestIsIn, TransactionsAssumption
  <2> QED BY <2>1, TransactionsAssumption DEF TxInit, DefaultUrl, Urls
<1>3. tail = NoData /\ unseenTail = FALSE /\ untold = FALSE /\ ~LiveRows(url)
  BY <1>2 DEF TxInit, LiveRows
<1>4. RowKey \in DOMAIN pages /\ \A k \in DOMAIN pages : DOMAIN pages[k] = CacheFields
  <2>1. PICK k, c : k = RowKey /\ c = <<>> /\ pages = Observed(c, k, FALSE)
    BY DEF TxInit, RowKey
  <2>2. \A j \in DOMAIN c : DOMAIN c[j] = CacheFields
    BY <2>1
  <2>3. /\ k \in DOMAIN Observed(c, k, FALSE)
        /\ \A j \in DOMAIN Observed(c, k, FALSE) : DOMAIN Observed(c, k, FALSE)[j] = CacheFields
    BY <2>2, ObservedEntry
  <2> QED BY <2>1, <2>3
<1> QED BY <1>1, <1>2, <1>3, <1>4 DEF TxInv, TxTyped, RowsFresh

-----------------------------------------------------------------------------
\* What a page of the list may be asked for, and what the gateway answers.
QueryKeys == [filter : Urls, mode : {"page"}, at : Nat \ {0}]
               \cup [filter : Urls, mode : {"cursor"}, at : Nat]
TxAnswers == [ids : Seq(SessionId), open : SUBSET SessionId, next : SessionId \cup {0}, total : Int]

\* The pages that the user can turn to are pages of the list.
PagesTyped ==
    /\ stack \in Seq(SessionId) /\ pageIdx \in Nat \ {0}
    /\ DOMAIN pages \subseteq QueryKeys /\ Caches(pages, TxAnswers)

\* The key of what is on the screen.
LEMMA KeyType ==
    ASSUME NEW u \in Urls, NEW s \in Seq(SessionId), NEW n \in Nat \ {0}
    PROVE  QueryKey(u, s, n) \in QueryKeys
<1>1. FilterKey(u) \in Urls
  BY DEF FilterKey, Urls
<1>2. CursorOf(s) \in Nat
  <2>1. CASE s = <<>>
    BY <2>1, TransactionsAssumption DEF CursorOf
  <2>2. CASE s # <<>>
    <3>1. Len(s) \in 1..Len(s)
      BY <2>2
    <3>2. s[Len(s)] \in SessionId
      BY <3>1, ElementOfSeq
    <3> QED BY <2>2, <3>2 DEF CursorOf, SessionId
  <2> QED BY <2>1, <2>2
<1> QED BY <1>1, <1>2 DEF QueryKey, QueryKeys

\* A stretch of a list, which may lie beyond its end.
LEMMA StretchType ==
    ASSUME NEW T, NEW s \in Seq(T), NEW m \in Nat \ {0}, NEW n \in Int, n <= Len(s)
    PROVE  /\ SubSeq(s, m, n) \in Seq(T)
           /\ m <= n => Len(SubSeq(s, m, n)) = n - m + 1
<1>1. CASE m <= n
  <2>1. m \in 1..(Len(s) + 1) /\ n \in (m - 1)..Len(s)
    BY <1>1
  <2> QED BY <1>1, <2>1, SubSeqProperties
<1>2. CASE n < m
  <2>1. SubSeq(s, m, n) = <<>>
    BY <1>2
  <2> QED BY <1>2, <2>1
<1> QED BY <1>1, <1>2

\* The smaller of two numbers.
LEMMA SmallerType ==
    ASSUME NEW a \in Int, NEW b \in Int
    PROVE  Min({a, b}) \in Int /\ Min({a, b}) <= b /\ Min({a, b}) <= a /\ Min({a, b}) \in {a, b}
<1>1. \E x \in {a, b} : \A y \in {a, b} : x <= y
  OBVIOUS
<1> QED BY <1>1 DEF Min

\* What the gateway answers is a page.
LEMMA AnswerType ==
    ASSUME TxTyped, NEW k \in QueryKeys
    PROVE  Answer(k) \in TxAnswers
<1> DEFINE below == IF k.mode = "cursor" THEN {i \in Selected(k.filter) : i < k.at}
                    ELSE Selected(k.filter)
           all   == Ordered(below, k.filter)
           first == IF k.mode = "cursor" THEN 1 ELSE (k.at - 1) * k.filter.size + 1
           end   == Min({first + k.filter.size - 1, Len(all)})
           ids   == SubSeq(all, first, end)
<1>1. k.filter.size \in Nat \ {0} /\ k.filter \in Urls
  BY TransactionsAssumption DEF QueryKeys, Urls
<1>2. DOMAIN sessions \subseteq SessionId
  BY TransactionsAssumption DEF TxTyped, SessionId
<1>3. below \in SUBSET SessionId
  BY <1>2 DEF Selected
<1>4. all \in Seq(SessionId)
  <2> HIDE DEF below
  <2>1. MaxSessions \in Int /\ 1 \in Int
    BY TransactionsAssumption
  <2>2. IsFiniteSet(SessionId)
    BY <2>1, FS_Interval DEF SessionId
  <2>3. IsFiniteSet(below)
    BY <1>3, <2>2, FS_Subset
  <2>3a. below \in SUBSET Int
    BY <1>3 DEF SessionId
  <2>4. Descending(below) \in Seq(below)
    BY <2>3, <2>3a, DescendingFacts
  <2>5. PICK s : s = Descending(below)
    OBVIOUS
  <2>6. s \in Seq(SessionId)
    BY <1>3, <2>4, <2>5
  <2>7. Reverse(s) \in Seq(SessionId)
    BY <2>6 DEF Reverse
  <2> QED BY <2>5, <2>6, <2>7 DEF Ordered
<1>5. first \in Nat \ {0} /\ (k.mode = "cursor" => first = 1)
  <2>1. CASE k.mode = "cursor"
    BY <2>1
  <2>2. CASE k.mode # "cursor"
    <3>1. k.at \in Nat \ {0}
      BY <2>2 DEF QueryKeys
    <3>2. (k.at - 1) * k.filter.size \in Nat
      BY <1>1, <3>1
    <3> QED BY <2>2, <3>2
  <2> QED BY <2>1, <2>2
<1> HIDE DEF all, first
<1>6. Len(all) \in Nat
  BY <1>4
<1>7. /\ end \in Int /\ end <= Len(all)
      /\ end \in {first + k.filter.size - 1, Len(all)}
  <2>1. PICK a, b : a = first + k.filter.size - 1 /\ b = Len(all)
    OBVIOUS
  <2>2. a \in Int /\ b \in Int
    BY <1>1, <1>5, <1>6, <2>1
  <2> QED BY <2>1, <2>2, SmallerType
<1> HIDE DEF end
<1>8. ids \in Seq(SessionId) /\ (first <= end => Len(ids) = end - first + 1)
  BY <1>4, <1>5, <1>7, StretchType
<1> HIDE DEF ids
<1>9. {i \in Range(ids) : sessions[i] = "open"} \in SUBSET SessionId
  <2>1. Range(ids) \subseteq SessionId
    <3> SUFFICES ASSUME NEW i \in 1..Len(ids)
                 PROVE  ids[i] \in SessionId
      BY <1>8 DEF Range
    <3> QED BY <1>8, ElementOfSeq
  <2> QED BY <2>1
<1>10. (IF k.mode = "cursor" /\ Len(all) > Len(ids) THEN ids[Len(ids)] ELSE 0) \in SessionId \cup {0}
  <2> SUFFICES ASSUME k.mode = "cursor", Len(all) > Len(ids)
               PROVE  ids[Len(ids)] \in SessionId
    OBVIOUS
  <2>1. first = 1 /\ Len(ids) \in Nat
    BY <1>5, <1>8
  <2>2. first <= end
    BY <1>1, <1>6, <1>7, <2>1
  <2>3. Len(ids) \in 1..Len(ids)
    BY <1>7, <1>8, <2>1, <2>2
  <2> QED BY <1>8, <2>3, ElementOfSeq
<1>11. (Len(all) + k.filter.size - 1) \div k.filter.size \in Int
  BY <1>1, <1>6
<1>12. Answer(k) = [ids |-> ids, open |-> {i \in Range(ids) : sessions[i] = "open"},
                    next |-> IF k.mode = "cursor" /\ Len(all) > Len(ids) THEN ids[Len(ids)] ELSE 0,
                    total |-> (Len(all) + k.filter.size - 1) \div k.filter.size]
  BY DEF Answer, ids, end, first, all
<1> QED BY <1>8, <1>9, <1>10, <1>11, <1>12 DEF TxAnswers

-----------------------------------------------------------------------------
\* What the entry on the screen holds is a page of the list.
LEMMA DataType ==
    ASSUME TxTyped, PagesTyped, HasRows
    PROVE  Data \in TxAnswers
<1>1. pages[RowKey] \in Entry(TxAnswers)
  BY DEF TxTyped, PagesTyped, Caches
<1> QED BY <1>1 DEF HasRows, Data, Entry

\* Turning to a page of a url.
LEMMA GoesTyped ==
    ASSUME TxTyped, PagesTyped, NEW u \in Urls, NEW s \in Seq(SessionId), NEW n \in Nat \ {0},
           Goes(u, s, n)
    PROVE  PagesTyped'
<1>0. <<>> \in Seq(SessionId)
  OBVIOUS
<1>1. PICK st : st = IF FilterKey(u) # FilterKey(url) THEN <<>> ELSE s
  OBVIOUS
<1>2. st \in Seq(SessionId)
  BY <1>0, <1>1
<1>3. PICK k : k = QueryKey(u, st, n)
  OBVIOUS
<1>4. k \in QueryKeys
  BY <1>2, <1>3, KeyType
<1>5. PICK fresh \in BOOLEAN :
          /\ stack' = st /\ pageIdx' = n
          /\ pages' = IF k = RowKey THEN pages ELSE Observed(pages, k, fresh)
  BY <1>1, <1>3 DEF Goes
<1>6. DOMAIN pages' \subseteq QueryKeys /\ Caches(pages', TxAnswers)
  <2>1. CASE k = RowKey
    BY <1>5, <2>1 DEF PagesTyped
  <2>2. CASE k # RowKey
    <3>1. pages' = Observed(pages, k, fresh) /\ Caches(pages, TxAnswers)
      BY <1>5, <2>2 DEF PagesTyped
    <3>2. Caches(pages', TxAnswers) /\ Watched(pages, k, pages')
      BY <3>1, CacheObserved
    <3> QED BY <1>4, <3>2 DEF PagesTyped, Watched
  <2> QED BY <2>1, <2>2
<1> QED BY <1>2, <1>5, <1>6 DEF PagesTyped

\* The steps of the query keep it a cache of pages.
LEMMA PagesServed ==
    ASSUME TxTyped, PagesTyped, NEW k \in DOMAIN pages, ServePage(k) \/ ArrivePage(k) \/ FailPage(k)
    PROVE  PagesTyped'
<1>0. k \in QueryKeys /\ Caches(pages, TxAnswers) /\ UNCHANGED <<stack, pageIdx>>
  BY DEF PagesTyped, ServePage, ArrivePage, FailPage
<1>1. CASE ServePage(k)
  <2>1. PICK r : r = Answer(k)
    OBVIOUS
  <2>2. r \in TxAnswers /\ pages' = Served(pages, k, r)
    BY <1>0, <1>1, <2>1, AnswerType DEF ServePage
  <2>3. Caches(pages', TxAnswers) /\ Touched(pages, k, pages')
    BY <1>0, <2>2, CacheServed
  <2> QED BY <1>0, <2>3 DEF PagesTyped, Touched
<1>2. CASE ArrivePage(k)
  <2>1. pages' = Arrived(pages, k)
    BY <1>2 DEF ArrivePage
  <2>2. Caches(pages', TxAnswers) /\ Touched(pages, k, pages')
    BY <1>0, <2>1, CacheArrived
  <2> QED BY <1>0, <2>2 DEF PagesTyped, Touched
<1>3. CASE FailPage(k)
  <2>1. pages' = GivenUp(pages, k)
    BY <1>3 DEF FailPage
  <2>2. Caches(pages', TxAnswers) /\ Touched(pages, k, pages')
    BY <1>0, <2>1, CacheGivenUp
  <2> QED BY <1>0, <2>2 DEF PagesTyped, Touched
<1> QED BY <1>1, <1>2, <1>3

\* Every step keeps the pages typed.
LEMMA PagesTypedStep ==
    ASSUME TxTyped, PagesTyped, [TxNext]_txVars
    PROVE  PagesTyped'
<1>0. /\ url \in Urls /\ textInput \in TextFilter /\ stack \in Seq(SessionId)
      /\ pageIdx \in Nat \ {0} /\ RowKey \in DOMAIN pages /\ Caches(pages, TxAnswers)
  BY DEF TxTyped, PagesTyped
<1>1. ASSUME UNCHANGED <<stack, pageIdx, pages>> PROVE PagesTyped'
  BY <1>1 DEF PagesTyped
<1>2. CASE UNCHANGED txVars
  BY <1>1, <1>2 DEF txVars
<1>3. CASE StartSession \/ (\E i \in SessionId : StopSession(i))
  BY <1>1, <1>3 DEF StartSession, StopSession
<1>4. ASSUME NEW k \in DOMAIN pages, ServePage(k) \/ ArrivePage(k) \/ FailPage(k)
      PROVE  PagesTyped'
  BY <1>4, PagesServed
<1>5. CASE ReadTail \/ RegisterTail \/ DeliverTail \/ ToggleLive \/ (\E t \in TextFilter : TypeText(t))
  BY <1>1, <1>5 DEF ReadTail, RegisterTail, DeliverTail, ToggleLive, TypeText
<1>6. CASE RenderTail
  <2>1. PICK k : k = RowKey
    OBVIOUS
  <2>2. pages' = Refetched(pages, k) /\ k \in DOMAIN pages /\ UNCHANGED <<stack, pageIdx>>
    BY <1>0, <1>6, <2>1 DEF RenderTail, RefetchesActive
  <2>3. Caches(pages', TxAnswers) /\ Touched(pages, k, pages')
    BY <1>0, <2>2, CacheRefetched
  <2> QED BY <2>2, <2>3 DEF PagesTyped, Touched
<1>7. ASSUME NEW s \in {"all", "active", "finished"}, PickStatus(s) PROVE PagesTyped'
  <2> DEFINE u == [url EXCEPT !.status = s]
  <2>1. u \in Urls
    BY <1>0 DEF Urls
  <2>2. Goes(u, stack, pageIdx)
    BY <1>7 DEF PickStatus
  <2> HIDE DEF u
  <2> QED BY <1>0, <2>1, <2>2, GoesTyped
<1>8. ASSUME NEW n \in RowsPerPage, PickRows(n) PROVE PagesTyped'
  <2> DEFINE u == [url EXCEPT !.size = n]
  <2>1. u \in Urls
    BY <1>0 DEF Urls
  <2>2. Goes(u, stack, pageIdx)
    BY <1>8 DEF PickRows
  <2> HIDE DEF u
  <2> QED BY <1>0, <2>1, <2>2, GoesTyped
<1>9. CASE SetRange
  <2> DEFINE u == [url EXCEPT !.range = ~@]
  <2>1. u \in Urls
    BY <1>0 DEF Urls
  <2>2. Goes(u, stack, pageIdx)
    BY <1>9 DEF SetRange
  <2> HIDE DEF u
  <2> QED BY <1>0, <2>1, <2>2, GoesTyped
<1>10. CASE CommitText
  <2> DEFINE u == [url EXCEPT !.text = textInput]
  <2>1. u \in Urls
    BY <1>0 DEF Urls
  <2>2. Goes(u, stack, pageIdx)
    BY <1>10 DEF CommitText
  <2> HIDE DEF u
  <2> QED BY <1>0, <2>1, <2>2, GoesTyped
<1>11. ASSUME NEW k \in {"id", "energy"}, ToggleSort(k) PROVE PagesTyped'
  <2> DEFINE v == IF url.sort # k THEN [url EXCEPT !.sort = k, !.dir = "desc"]
                  ELSE IF url.dir = "desc" THEN [url EXCEPT !.dir = "asc"]
                  ELSE [url EXCEPT !.sort = "id"]
             u == Normalised(v)
  <2>1. v \in Urls
    BY <1>0 DEF Urls
  <2>2. Goes(u, <<>>, 1)
    BY <1>11 DEF ToggleSort
  <2> HIDE DEF v
  <2>3. u \in Urls
    BY <2>1 DEF Urls, Normalised
  <2> HIDE DEF u
  <2>4. PICK s : s = <<>>
    OBVIOUS
  <2>5. s \in Seq(SessionId) /\ 1 \in Nat \ {0} /\ Goes(u, s, 1)
    BY <2>2, <2>4
  <2> QED BY <2>3, <2>5, GoesTyped
<1>12. CASE GoNext
  <2>1. Data \in TxAnswers
    BY <1>12, DataType DEF GoNext
  <2>2. PICK d : d = Data
    OBVIOUS
  <2>3. CASE SortedList(url)
    <3>1. Goes(url, stack, pageIdx + 1) /\ pageIdx + 1 \in Nat \ {0}
      BY <1>0, <1>12, <2>3 DEF GoNext
    <3> QED BY <1>0, <3>1, GoesTyped
  <2>4. CASE ~SortedList(url)
    <3>1. Goes(url, Append(stack, d.next), pageIdx) /\ d.next # 0 /\ d \in TxAnswers
      BY <1>12, <2>1, <2>2, <2>4 DEF GoNext, HasNext
    <3>2. Append(stack, d.next) \in Seq(SessionId)
      <4>1. d.next \in SessionId
        BY <3>1 DEF TxAnswers
      <4> QED BY <1>0, <4>1
    <3> QED BY <1>0, <3>1, <3>2, GoesTyped
  <2> QED BY <2>3, <2>4
<1>13. CASE GoPrev
  <2>1. CASE SortedList(url)
    <3>1. Goes(url, stack, pageIdx - 1) /\ pageIdx - 1 \in Nat \ {0}
      BY <1>0, <1>13, <2>1 DEF GoPrev, HasPrev
    <3> QED BY <1>0, <3>1, GoesTyped
  <2>2. CASE ~SortedList(url)
    <3>1. Goes(url, Front(stack), pageIdx) /\ stack # <<>>
      BY <1>13, <2>2 DEF GoPrev, HasPrev
    <3>2. Front(stack) \in Seq(SessionId)
      BY <1>0, <3>1 DEF Front
    <3> QED BY <1>0, <3>1, <3>2, GoesTyped
  <2> QED BY <2>1, <2>2
<1> QED BY <1>2, <1>3, <1>4, <1>5, <1>6, <1>7, <1>8, <1>9, <1>10, <1>11, <1>12, <1>13 DEF TxNext

\* The first page is asked for by a key of its own.
LEMMA PagesTypedInit ==
    ASSUME TxInit
    PROVE  PagesTyped
<1>1. PICK s : s = <<>>
  OBVIOUS
<1>2. s \in Seq(SessionId) /\ 1 \in Nat \ {0} /\ stack = s /\ pageIdx = 1
  BY <1>1 DEF TxInit
<1>3. DefaultUrl \in Urls
  <2>1. Min(RowsPerPage) \in RowsPerPage
    BY SmallestIsIn, TransactionsAssumption
  <2> QED BY <2>1, TransactionsAssumption DEF DefaultUrl, Urls
<1>4. PICK k, c : k = QueryKey(DefaultUrl, s, 1) /\ c = <<>> /\ pages = Observed(c, k, FALSE)
  BY <1>1 DEF TxInit
<1>5. k \in QueryKeys
  BY <1>2, <1>3, <1>4, KeyType
<1>6. Caches(c, TxAnswers) /\ DOMAIN c = {}
  BY <1>4 DEF Caches
<1>7. Caches(pages, TxAnswers) /\ Watched(c, k, pages)
  BY <1>4, <1>6, CacheObserved
<1> QED BY <1>2, <1>5, <1>6, <1>7 DEF PagesTyped, Watched

\* The page of transactions keeps its types.
LEMMA TxTypeImplied == TxTyped /\ PagesTyped => TxTypeOK
<1> SUFFICES ASSUME TxTyped, PagesTyped PROVE TxTypeOK
  OBVIOUS
<1>1. url.live \in BOOLEAN /\ url.range \in BOOLEAN
  BY DEF TxTyped, Urls
<1>2. LiveRows(url) \in BOOLEAN
  BY <1>1 DEF LiveRows
<1>3. PICK b \in BOOLEAN : b <=> tail # NoData
  OBVIOUS
<1>4. (tail # NoData) = LiveRows(url)
  BY <1>2 DEF TxTyped
<1> QED BY <1>4 DEF TxTyped, PagesTyped, TxTypeOK, Urls

\* The page of transactions keeps its types, for any sessions, filters and page sizes:
\* the pages that the user can turn to start below sessions that there are.
THEOREM TxTypeCorrect == TxSpec => []TxTypeOK
<1>1. TxInit => TxInv /\ PagesTyped
  BY TxInvInit, PagesTypedInit
<1>2. TxInv /\ PagesTyped /\ [TxNext]_txVars => (TxInv /\ PagesTyped)'
  BY TxInvStep, PagesTypedStep DEF TxInv
<1>3. TxInv /\ PagesTyped => TxTypeOK
  BY TxTypeImplied DEF TxInv
<1> QED BY <1>1, <1>2, <1>3, PTL DEF TxSpec

\* With Live on, an idle page shows the rows that the gateway would send now.
THEOREM LiveRowsAreThere == TxSpec => []LiveShowsStarts
<1>1. TxInv => LiveShowsStarts
  <2> SUFFICES ASSUME TxInv, LiveAndIdle, ~untold PROVE Data.ids = Answer(RowKey).ids
    BY DEF LiveShowsStarts
  <2>1. LiveRows(url) /\ ~TailPending
    BY DEF LiveAndIdle, UpToDate, TailPending
  <2> QED BY <2>1 DEF TxInv, RowsFresh, ShowsRows, LiveAndIdle, Settled, Data
<1> QED BY <1>1, TxInvInit, TxInvStep, PTL DEF TxSpec

-----------------------------------------------------------------------------
(* The fleet and charger pages.                                            *)

FleetKeys ==
    [online : {"all", "online", "offline"}, search : Needle, size : PageSizes, page : Nat \ {0}]
      \cup [cp : Fleet]
FleetSnapshots ==
    [rows : UNION {[S -> FleetRow] : S \in SUBSET Fleet}, total : Nat, size : PageSizes]
      \cup [row : FleetRow]
Hooks == Subscriptions(FleetKeys, FleetSnapshots, FleetDeltas)

FleetTyped ==
    /\ FleetTypeOK /\ hook \in Hooks
    /\ screen.at # "list" => screen.cp \in Fleet

\* Message j of the wire is a delta of charger c.
DeltaAt(j, c) == hook.wire[j].kind = "delta" /\ hook.wire[j].data.cp = c
Awaited(c) == \E j \in DOMAIN hook.wire : DeltaAt(j, c)

\* The delta that charger c would make now.
DeltaNow(c) == IF screen.at = "list" THEN ListDelta(hook.key, c, fleet[c])
               ELSE [op |-> "upsert", cp |-> c, row |-> fleet[c]]

\* The snapshot of the present subscription, once it was read.
Snap == IF 1 \in DOMAIN hook.wire /\ hook.wire[1].kind = "snapshot" THEN hook.wire[1].data
        ELSE hook.snapshot

\* The snapshot comes first, and nothing before it was read.
WireInOrder ==
    /\ \A j \in DOMAIN hook.wire : j # 1 => hook.wire[j].kind = "delta"
    /\ hook.stage \in {"asked", "failed"} => hook.wire = <<>>
    /\ hook.stage = "read" => \A j \in DOMAIN hook.wire : hook.wire[j].kind = "snapshot"

\* The history of the delta that is held; the detail page hears of its charger only.
OriginFits ==
    /\ origin = "none" => hook.delta = NoData
    /\ origin = "new" => hook.delta \in FleetDeltas /\ hook.stage = "live"
    /\ screen.at # "list" =>
          /\ origin = "new" => hook.delta.cp = hook.key.cp
          /\ \A j \in DOMAIN hook.wire :
                hook.wire[j].kind = "delta" => hook.wire[j].data.cp = hook.key.cp

\* Of every charger the last delta that is on its way is true.
LastIsTrue ==
    \A j \in DOMAIN hook.wire, c \in Fleet :
        DeltaAt(j, c) /\ (\A i \in DOMAIN hook.wire : i > j => ~DeltaAt(i, c))
        => hook.wire[j].data = DeltaNow(c)

\* So is the delta that is held, if none of its charger is on its way.
HeldIsTrue ==
    origin = "new" /\ ~missed /\ ~Awaited(hook.delta.cp) => hook.delta = DeltaNow(hook.delta.cp)

\* And so is the snapshot about every charger that has sent no delta since.
SnapshotIsTrue ==
    hook.stage \in {"read", "live"} /\ ~missed =>
        /\ screen.at = "list" => DOMAIN Snap.rows \subseteq Fleet
        /\ \A c \in Fleet :
              ~Awaited(c) /\ ~(origin = "new" /\ hook.delta.cp = c) =>
                IF screen.at # "list" THEN c = hook.key.cp => Snap.row = fleet[c]
                ELSE c \in DOMAIN Snap.rows =>
                        Snap.rows[c] = fleet[c] /\ Matches(hook.key, c, fleet[c])

FleetInv ==
    FleetTyped /\ WireInOrder /\ OriginFits /\ LastIsTrue /\ HeldIsTrue /\ SnapshotIsTrue

-----------------------------------------------------------------------------
\* The gateway's pages hold rows of chargers that match.
LEMMA PageOfMatches ==
    ASSUME FleetTypeOK, NEW q, q.size \in PageSizes
    PROVE  LET s == ListSnapshot(q)
           IN  /\ s \in FleetSnapshots /\ DOMAIN s.rows \subseteq Fleet
               /\ \A c \in DOMAIN s.rows : s.rows[c] = fleet[c] /\ Matches(q, c, fleet[c])
<1> DEFINE all == {c \in Fleet : Matches(q, c, fleet[c])}
           P == NthPage(all, q.size, q.page)
<1>1. P \subseteq all
  BY DEF NthPage
<1>2. IsFiniteSet(all) /\ Cardinality(all) \in Nat
  BY FleetViewAssumption, FS_Subset, FS_CardinalityType
<1>3. P \in SUBSET Fleet /\ \A c \in P : Matches(q, c, fleet[c])
  BY <1>1
<1>4. ListSnapshot(q) = [rows |-> Restrict(fleet, P), total |-> Cardinality(all), size |-> q.size]
  BY DEF ListSnapshot
<1> HIDE DEF P, all
<1>5. Restrict(fleet, P) \in [P -> FleetRow] /\ \A c \in P : Restrict(fleet, P)[c] = fleet[c]
  BY <1>3 DEF Restrict, FleetTypeOK
<1>6. ListSnapshot(q) \in FleetSnapshots
  BY <1>2, <1>3, <1>4, <1>5 DEF FleetSnapshots
<1> QED BY <1>3, <1>4, <1>5, <1>6

\* A delta says which charger it is of and how it is.
LEMMA DeltaType ==
    ASSUME NEW q, NEW c \in Fleet, NEW r \in FleetRow
    PROVE  /\ ListDelta(q, c, r) \in FleetDeltas
           /\ ListDelta(q, c, r).cp = c /\ ListDelta(q, c, r).row = r
           /\ ListDelta(q, c, r).op = "upsert" <=> Matches(q, c, r)
           /\ [op |-> "upsert", cp |-> c, row |-> r] \in FleetDeltas
  BY DEF ListDelta, FleetDeltas

\* When a subscription starts again, nothing of it is held yet.
LEMMA ResetStep ==
    ASSUME FleetTyped', hook'.stage \in {"asked", "failed"}, hook'.wire = <<>>,
           (origin' = "none" /\ hook'.delta = NoData) \/ origin' = "old"
    PROVE  FleetInv'
<1>1. DOMAIN hook'.wire = {}
  OBVIOUS
<1>2. WireInOrder'
  BY <1>1 DEF WireInOrder
<1>3. OriginFits'
  BY <1>1 DEF OriginFits
<1>4. LastIsTrue' /\ HeldIsTrue' /\ SnapshotIsTrue'
  BY <1>1 DEF LastIsTrue, HeldIsTrue, SnapshotIsTrue
<1> QED BY <1>2, <1>3, <1>4 DEF FleetInv

\* Nothing but the controls changes.
LEMMA KeptStep ==
    ASSUME FleetInv, FleetTyped', UNCHANGED <<fleet, screen, hook, origin, missed>>
    PROVE  FleetInv'
<1>1. WireInOrder' /\ OriginFits'
  BY DEF FleetInv, WireInOrder, OriginFits
<1>2. (\A c : Awaited(c)' <=> Awaited(c)) /\ \A j, c : DeltaAt(j, c)' <=> DeltaAt(j, c)
  BY DEF Awaited, DeltaAt
<1>3. (\A c : DeltaNow(c)' = DeltaNow(c)) /\ Snap' = Snap
  BY DEF DeltaNow, Snap
<1>4. LastIsTrue'
  BY <1>2, <1>3 DEF FleetInv, LastIsTrue
<1>5. HeldIsTrue'
  BY <1>2, <1>3 DEF FleetInv, HeldIsTrue
<1>6. SnapshotIsTrue'
  BY <1>2, <1>3 DEF FleetInv, SnapshotIsTrue
<1> QED BY <1>1, <1>4, <1>5, <1>6 DEF FleetInv

FleetPicks == [online : {"all", "online", "offline"}, typed : Needle, search : Needle,
               faults : BOOLEAN, size : PageSizes, page : Nat \ {0}]

\* The controls ask for pages that there are sizes of,
LEMMA PicksType ==
    /\ FirstPicks \in FleetPicks
    /\ \A p \in FleetPicks : SubParams(p) \in FleetKeys /\ SubParams(p).size \in PageSizes
<1>1. Max(PageSizes) \in PageSizes
  BY FleetViewAssumption DEF Max
<1>2. FirstPicks \in FleetPicks
  BY <1>1, FleetViewAssumption DEF FirstPicks, FleetPicks
<1> QED BY <1>2 DEF FleetPicks, SubParams, FleetKeys

\* and a new filter starts from the first of them.
LEMMA PageOne == \A p \in FleetPicks : FromPageOne(p) \in FleetPicks
  BY DEF FleetPicks, FromPageOne

\* What is left of the last delta when the params change is marked old.
LEMMA ResubscribeStep ==
    ASSUME FleetTyped, NEW key \in FleetKeys, Resubscribe(key)
    PROVE  /\ hook' \in Hooks /\ hook'.key = key
           /\ hook'.stage = "asked" /\ hook'.wire = <<>>
           /\ (origin' = "none" /\ hook'.delta = NoData) \/ origin' = "old"
           /\ origin' \in {"none", "old", "new"} /\ missed' \in BOOLEAN
<1>1. hook \in Hooks /\ hook' = Resubscribed(hook, key)
      /\ origin' = (IF hook.delta = NoData THEN "none" ELSE "old") /\ missed' = FALSE
  BY DEF FleetTyped, Resubscribe
<1>2. /\ hook' \in Hooks /\ hook'.key = key /\ hook'.stage = "asked" /\ hook'.wire = <<>>
      /\ hook'.delta = hook.delta
  BY <1>1, AgainHook DEF Hooks
<1> QED BY <1>1, <1>2

\* A control of the list: the subscription stays, or starts again.
LEMMA PicksStep ==
    ASSUME FleetInv, screen.at = "list", NEW p \in FleetPicks, Picks(p), early' \in BOOLEAN
    PROVE  FleetInv'
<1>1. /\ picks' = p /\ UNCHANGED <<fleet, screen>>
      /\ \/ SubParams(p) = hook.key /\ UNCHANGED <<hook, origin, missed>>
         \/ Resubscribe(SubParams(p))
  BY DEF Picks
<1>2. FleetTyped /\ FleetTypeOK
  BY DEF FleetInv, FleetTyped
<1>3. CASE SubParams(p) = hook.key /\ UNCHANGED <<hook, origin, missed>>
  <2>1. FleetTyped'
    BY <1>1, <1>2, <1>3 DEF FleetTyped, FleetTypeOK, FleetPicks
  <2> QED BY <1>1, <1>3, <2>1, KeptStep
<1>4. CASE Resubscribe(SubParams(p))
  <2>1. SubParams(p) \in FleetKeys
    BY PicksType
  <2>2. /\ hook' \in Hooks /\ hook'.key = SubParams(p)
        /\ hook'.stage = "asked" /\ hook'.wire = <<>>
        /\ (origin' = "none" /\ hook'.delta = NoData) \/ origin' = "old"
        /\ origin' \in {"none", "old", "new"} /\ missed' \in BOOLEAN
    BY <1>2, <1>4, <2>1, ResubscribeStep
  <2>3. FleetTyped'
    BY <1>1, <1>2, <2>2 DEF FleetTyped, FleetTypeOK, FleetPicks
  <2> QED BY <2>2, <2>3, ResetStep
<1> QED BY <1>1, <1>3, <1>4

\* A control of the list changes the params of its subscription, or nothing.
LEMMA ControlSteps ==
    ASSUME FleetInv,
           \/ \E f \in {"all", "online", "offline"} : PickFilter(f)
           \/ \E n \in PageSizes : PickSize(n)
           \/ \E t \in Needle : TypeSearch(t)
           \/ CommitSearch \/ ToggleFaults
           \/ \E n \in 1..Cardinality(Fleet) : TurnPage(n)
    PROVE  FleetInv'
<1>1. picks \in FleetPicks /\ early \in BOOLEAN /\ FleetTyped /\ FleetTypeOK
  BY DEF FleetInv, FleetTyped, FleetTypeOK, FleetPicks
<1>2. ASSUME NEW f \in {"all", "online", "offline"}, PickFilter(f) PROVE FleetInv'
  <2> DEFINE q == [picks EXCEPT !.online = f]
             p == FromPageOne(q)
  <2>1. screen.at = "list" /\ Picks(p) /\ early' = FALSE
    BY <1>2 DEF PickFilter, OnList
  <2>2. q \in FleetPicks
    BY <1>1 DEF FleetPicks
  <2> HIDE DEF q
  <2>6. p \in FleetPicks
    BY <2>2, PageOne
  <2> HIDE DEF p
  <2> QED BY <2>1, <2>6, PicksStep
<1>3. ASSUME NEW n \in PageSizes, PickSize(n) PROVE FleetInv'
  <2> DEFINE q == [picks EXCEPT !.size = n]
             p == FromPageOne(q)
  <2>1. screen.at = "list" /\ Picks(p) /\ early' = FALSE
    BY <1>3 DEF PickSize, OnList
  <2>2. q \in FleetPicks
    BY <1>1 DEF FleetPicks
  <2> HIDE DEF q
  <2>6. p \in FleetPicks
    BY <2>2, PageOne
  <2> HIDE DEF p
  <2> QED BY <2>1, <2>6, PicksStep
<1>4. ASSUME NEW t \in Needle, TypeSearch(t) PROVE FleetInv'
  <2> DEFINE p == [picks EXCEPT !.typed = t]
  <2>1. screen.at = "list" /\ Picks(p) /\ early' = early
    BY <1>4 DEF TypeSearch, OnList
  <2>2. p \in FleetPicks
    BY <1>1 DEF FleetPicks
  <2> HIDE DEF p
  <2> QED BY <1>1, <2>1, <2>2, PicksStep
<1>5. CASE CommitSearch
  <2> DEFINE q == [picks EXCEPT !.search = picks.typed]
             p == FromPageOne(q)
  <2>1. /\ screen.at = "list" /\ picks' = p /\ Resubscribe(SubParams(p)) /\ early' = FALSE
        /\ UNCHANGED <<fleet, screen>>
    BY <1>5 DEF CommitSearch
  <2>2. q \in FleetPicks
    BY <1>1 DEF FleetPicks
  <2> HIDE DEF q
  <2>6. p \in FleetPicks
    BY <2>2, PageOne
  <2> HIDE DEF p
  <2>3. SubParams(p) \in FleetKeys
    BY <2>6, PicksType
  <2>4. /\ hook' \in Hooks /\ hook'.key = SubParams(p)
        /\ hook'.stage = "asked" /\ hook'.wire = <<>>
        /\ (origin' = "none" /\ hook'.delta = NoData) \/ origin' = "old"
        /\ origin' \in {"none", "old", "new"} /\ missed' \in BOOLEAN
    BY <1>1, <2>1, <2>3, ResubscribeStep
  <2>5. FleetTyped'
    BY <1>1, <2>1, <2>6, <2>4 DEF FleetTyped, FleetTypeOK, FleetPicks
  <2> QED BY <2>4, <2>5, ResetStep
<1>6. CASE ToggleFaults
  <2> DEFINE p == [picks EXCEPT !.faults = ~@]
  <2>1. screen.at = "list" /\ Picks(p) /\ early' = early
    BY <1>6 DEF ToggleFaults, OnList
  <2>2. p \in FleetPicks
    BY <1>1 DEF FleetPicks
  <2> HIDE DEF p
  <2> QED BY <1>1, <2>1, <2>2, PicksStep
<1>7. ASSUME NEW n \in 1..Cardinality(Fleet), TurnPage(n) PROVE FleetInv'
  <2> DEFINE p == [picks EXCEPT !.page = n]
  <2>1. screen.at = "list" /\ Picks(p) /\ early' = (early \/ ~UpToDate(hook))
    BY <1>7 DEF TurnPage, OnList
  <2>2. n \in Nat \ {0}
    BY FleetViewAssumption, FS_CardinalityType
  <2>3. p \in FleetPicks
    BY <1>1, <2>2 DEF FleetPicks
  <2>4. early' \in BOOLEAN
    BY <1>1, <2>1 DEF UpToDate
  <2> HIDE DEF p
  <2> QED BY <2>1, <2>3, <2>4, PicksStep
<1> QED BY <1>2, <1>3, <1>4, <1>5, <1>6, <1>7

\* Opening a page, a reconnect or a failed snapshot starts afresh.
LEMMA ScreenSteps ==
    ASSUME FleetInv,
           \/ \E c \in Fleet : OpenDetail(c) \/ JumpDetail(c)
           \/ FailSnapshot \/ ListReconnect \/ OpenList
    PROVE  FleetInv'
<1>1. /\ picks \in FleetPicks /\ early \in BOOLEAN /\ FleetTyped /\ FleetTypeOK
      /\ hook \in Hooks /\ WireInOrder /\ OriginFits
  BY DEF FleetInv, FleetTyped, FleetTypeOK, FleetPicks
<1>2. ASSUME NEW c \in Fleet, OpenDetail(c) PROVE FleetInv'
  <2>1. /\ screen' = [at |-> "detail", cp |-> c] /\ hook' = NewSub([cp |-> c])
        /\ picks' = FirstPicks /\ origin' = "none" /\ missed' = FALSE /\ early' = FALSE
        /\ UNCHANGED fleet
    BY <1>2 DEF OpenDetail
  <2>2. hook' \in Hooks
    BY <2>1, NewHook DEF Hooks, FleetKeys
  <2>3. /\ hook'.key = [cp |-> c] /\ hook'.stage = "asked" /\ hook'.wire = <<>>
        /\ hook'.delta = NoData
    BY <2>1 DEF NewSub
  <2>4. FleetTyped'
    BY <1>1, <2>1, <2>2, <2>3, PicksType DEF FleetTyped, FleetTypeOK, FleetPicks
  <2> QED BY <2>1, <2>3, <2>4, ResetStep
<1>3. ASSUME NEW c \in Fleet, JumpDetail(c) PROVE FleetInv'
  <2>1. /\ screen' = [at |-> "detail", cp |-> c] /\ Resubscribe([cp |-> c])
        /\ UNCHANGED <<fleet, picks, early>>
    BY <1>3 DEF JumpDetail
  <2>2. [cp |-> c] \in FleetKeys
    BY DEF FleetKeys
  <2>3. /\ hook' \in Hooks /\ hook'.key = [cp |-> c]
        /\ hook'.stage = "asked" /\ hook'.wire = <<>>
        /\ (origin' = "none" /\ hook'.delta = NoData) \/ origin' = "old"
        /\ origin' \in {"none", "old", "new"} /\ missed' \in BOOLEAN
    BY <1>1, <2>1, <2>2, ResubscribeStep
  <2>4. FleetTyped'
    BY <1>1, <2>1, <2>3 DEF FleetTyped, FleetTypeOK
  <2> QED BY <2>3, <2>4, ResetStep
<1>4. CASE FailSnapshot
  <2>1. /\ hook.stage = "asked" /\ hook' = Failed(hook)
        /\ screen' = (IF screen.at = "detail" THEN [screen EXCEPT !.at = "crashed"] ELSE screen)
        /\ UNCHANGED <<fleet, picks, origin, missed, early>>
    BY <1>4 DEF FailSnapshot
  <2>2. /\ hook' \in Hooks /\ hook'.key = hook.key /\ hook'.stage = "failed"
        /\ hook'.delta = hook.delta /\ hook'.wire = hook.wire
    BY <1>1, <2>1, FailedHook DEF Hooks
  <2>3. hook'.wire = <<>> /\ ((origin' = "none" /\ hook'.delta = NoData) \/ origin' = "old")
    BY <1>1, <2>1, <2>2 DEF WireInOrder, OriginFits, FleetTypeOK
  <2>4. /\ screen' \in [at : {"list", "detail", "crashed"}, cp : Fleet \cup {0}]
        /\ screen'.cp = screen.cp /\ (screen'.at = "list" <=> screen.at = "list")
    BY <1>1, <2>1 DEF FleetTypeOK
  <2>5. FleetTyped'
    BY <1>1, <2>1, <2>2, <2>4 DEF FleetTyped, FleetTypeOK
  <2> QED BY <2>2, <2>3, <2>5, ResetStep
<1>5. CASE ListReconnect
  <2>1. Resubscribe(hook.key) /\ UNCHANGED <<fleet, screen, picks, early>>
    BY <1>5 DEF ListReconnect
  <2>2. hook.key \in FleetKeys
    BY <1>1 DEF Hooks, Subscriptions
  <2>3. /\ hook' \in Hooks /\ hook'.key = hook.key
        /\ hook'.stage = "asked" /\ hook'.wire = <<>>
        /\ (origin' = "none" /\ hook'.delta = NoData) \/ origin' = "old"
        /\ origin' \in {"none", "old", "new"} /\ missed' \in BOOLEAN
    BY <1>1, <2>1, <2>2, ResubscribeStep
  <2>4. FleetTyped'
    BY <1>1, <2>1, <2>3 DEF FleetTyped, FleetTypeOK
  <2> QED BY <2>3, <2>4, ResetStep
<1>6. CASE OpenList
  <2>1. /\ screen' = [at |-> "list", cp |-> 0] /\ hook' = NewSub(SubParams(FirstPicks))
        /\ picks' = FirstPicks /\ origin' = "none" /\ missed' = FALSE /\ early' = FALSE
        /\ UNCHANGED fleet
    BY <1>6 DEF OpenList
  <2>2. hook' \in Hooks
    BY <2>1, NewHook, PicksType DEF Hooks
  <2>3. /\ hook'.key = SubParams(FirstPicks) /\ hook'.stage = "asked" /\ hook'.wire = <<>>
        /\ hook'.delta = NoData
    BY <2>1 DEF NewSub
  <2>4. FleetTyped'
    BY <1>1, <2>1, <2>2, <2>3, PicksType DEF FleetTyped, FleetTypeOK, FleetPicks
  <2> QED BY <2>1, <2>3, <2>4, ResetStep
<1> QED BY <1>2, <1>3, <1>4, <1>5, <1>6

-----------------------------------------------------------------------------
\* A snapshot is true when it is read, and so it is when the subscription is
\* registered, unless a change was missed in between.
LEMMA ReadStep ==
    ASSUME FleetInv, ReadSnapshot \/ RegisterSub
    PROVE  FleetInv'
<1>1. /\ FleetTyped /\ FleetTypeOK /\ hook \in Hooks /\ WireInOrder /\ OriginFits
      /\ LastIsTrue /\ HeldIsTrue /\ SnapshotIsTrue
  BY DEF FleetInv, FleetTyped
<1>2. CASE ReadSnapshot
  <2> DEFINE d == IF screen.at = "list" THEN ListSnapshot(hook.key)
                  ELSE [row |-> fleet[hook.key.cp]]
  <2>1. /\ hook.stage = "asked" /\ hook' = SnapshotRead(hook, d)
        /\ UNCHANGED <<fleet, screen, picks, origin, missed, early>>
    BY <1>2 DEF ReadSnapshot
  <2>2. screen.at = "list" =>
          /\ d \in FleetSnapshots /\ DOMAIN d.rows \subseteq Fleet
          /\ \A c \in DOMAIN d.rows : d.rows[c] = fleet[c] /\ Matches(hook.key, c, fleet[c])
    <3>1. screen.at = "list" => hook.key.size \in PageSizes
      BY <1>1 DEF FleetTypeOK, SubParams
    <3> QED BY <1>1, <3>1, PageOfMatches
  <2>3. screen.at # "list" => d \in FleetSnapshots /\ d.row = fleet[hook.key.cp]
    BY <1>1 DEF FleetTyped, FleetTypeOK, FleetSnapshots
  <2> HIDE DEF d
  <2>4. PICK e : e = d
    OBVIOUS
  <2>5. /\ hook' \in Hooks /\ hook'.key = hook.key /\ hook'.stage = "read"
        /\ hook'.delta = hook.delta /\ DOMAIN hook'.wire = {1}
        /\ hook'.wire[1] = [kind |-> "snapshot", data |-> e] /\ hook'.wire # <<>>
    BY <1>1, <2>1, <2>2, <2>3, <2>4, ReadHook DEF Hooks
  <2>6. FleetTyped'
    BY <1>1, <2>1, <2>5 DEF FleetTyped, FleetTypeOK
  <2>7. origin # "new"
    BY <1>1, <2>1 DEF OriginFits
  <2>8. WireInOrder'
    BY <2>5 DEF WireInOrder
  <2>9. OriginFits'
    BY <1>1, <2>1, <2>5, <2>7 DEF OriginFits
  <2>10. Snap' = e /\ \A j \in DOMAIN hook'.wire, c \in Fleet : ~DeltaAt(j, c)'
    BY <2>5 DEF Snap, DeltaAt
  <2>11. LastIsTrue' /\ HeldIsTrue'
    BY <2>1, <2>7, <2>10 DEF LastIsTrue, HeldIsTrue
  <2>12. SnapshotIsTrue'
    <3>1. screen.at = "list" => DOMAIN Snap'.rows \subseteq Fleet
      BY <2>2, <2>4, <2>10
    <3>2. ASSUME NEW c \in Fleet
          PROVE  IF screen.at # "list" THEN c = hook.key.cp => Snap'.row = fleet[c]
                 ELSE c \in DOMAIN Snap'.rows =>
                        Snap'.rows[c] = fleet[c] /\ Matches(hook.key, c, fleet[c])
      BY <2>2, <2>3, <2>4, <2>10
    <3> QED BY <2>1, <2>5, <3>1, <3>2 DEF SnapshotIsTrue
  <2> QED BY <2>6, <2>8, <2>9, <2>11, <2>12 DEF FleetInv
<1>3. CASE RegisterSub
  <2>1. /\ hook.stage = "read" /\ hook' = Registered(hook)
        /\ UNCHANGED <<fleet, screen, picks, origin, missed, early>>
    BY <1>3 DEF RegisterSub
  <2>2. /\ hook' \in Hooks /\ hook'.key = hook.key /\ hook'.stage = "live"
        /\ hook'.delta = hook.delta /\ hook'.snapshot = hook.snapshot /\ hook'.wire = hook.wire
    BY <1>1, <2>1, RegisteredHook DEF Hooks
  <2>3. FleetTyped'
    BY <1>1, <2>1, <2>2 DEF FleetTyped, FleetTypeOK
  <2>4. WireInOrder' /\ OriginFits'
    BY <1>1, <2>1, <2>2 DEF WireInOrder, OriginFits
  <2>5. (\A c : Awaited(c)' <=> Awaited(c)) /\ \A j, c : DeltaAt(j, c)' <=> DeltaAt(j, c)
    BY <2>2 DEF Awaited, DeltaAt
  <2>6. (\A c : DeltaNow(c)' = DeltaNow(c)) /\ Snap' = Snap
    BY <2>1, <2>2 DEF DeltaNow, Snap
  <2>7. LastIsTrue'
    BY <1>1, <2>2, <2>5, <2>6 DEF LastIsTrue
  <2>8. HeldIsTrue'
    BY <1>1, <2>1, <2>2, <2>5, <2>6 DEF HeldIsTrue
  <2>9. SnapshotIsTrue'
    BY <1>1, <2>1, <2>2, <2>5, <2>6 DEF SnapshotIsTrue
  <2> QED BY <2>3, <2>4, <2>7, <2>8, <2>9 DEF FleetInv
<1> QED BY <1>2, <1>3

\* A delta that is overwritten by one of another charger is missed.
LEMMA ReceiveStep ==
    ASSUME FleetInv, Receives
    PROVE  FleetInv'
<1>1. /\ FleetTyped /\ FleetTypeOK /\ hook \in Hooks /\ WireInOrder /\ OriginFits
      /\ LastIsTrue /\ HeldIsTrue /\ SnapshotIsTrue
  BY DEF FleetInv, FleetTyped
<1> DEFINE m == hook.wire[1]
           N == Len(hook'.wire)
<1>2. /\ Deliverable(hook) /\ hook' = Delivered(hook) /\ hook.stage = "live"
      /\ UNCHANGED <<fleet, screen, picks, early>>
  BY DEF Receives, Deliverable
<1>3. /\ hook' \in Hooks /\ hook'.key = hook.key /\ hook'.stage = "live"
      /\ 1 \in DOMAIN hook.wire /\ Head(hook.wire) = m
      /\ Arriving(hook) = m.kind /\ m.kind \in {"snapshot", "delta"}
      /\ m.kind = "snapshot" => hook'.snapshot = m.data /\ hook'.delta = hook.delta
      /\ m.kind = "delta" => hook'.delta = m.data /\ hook'.snapshot = hook.snapshot
      /\ N \in Nat /\ DOMAIN hook'.wire = 1..N /\ DOMAIN hook.wire = 1..(N + 1)
      /\ \A i \in 1..N : hook'.wire[i] = hook.wire[i + 1]
  BY <1>1, <1>2, DeliveredOne DEF Hooks
<1>4. IF m.kind = "snapshot" THEN UNCHANGED <<origin, missed>>
      ELSE /\ origin' = "new"
           /\ missed' = (missed \/ (origin = "new" /\ hook.delta.cp # m.data.cp))
  BY <1>3 DEF Receives
<1>5. hook.wire \in Seq(Messages(FleetSnapshots, FleetDeltas))
  BY <1>1 DEF Hooks, Subscriptions, Messages
<1>6. m \in Messages(FleetSnapshots, FleetDeltas)
  BY <1>3, <1>5
<1>7. m.kind = "delta" => m.data \in FleetDeltas /\ m.data.cp \in Fleet
  BY <1>6 DEF Messages, FleetDeltas
<1> HIDE DEF N
<1>8. \A j \in 1..N : \A c : DeltaAt(j, c)' <=> DeltaAt(j + 1, c)
  BY <1>3 DEF DeltaAt
<1>9. \A c : Awaited(c) => Awaited(c)' \/ DeltaAt(1, c)
  <2> SUFFICES ASSUME NEW c, NEW j \in 1..(N + 1), DeltaAt(j, c), j # 1 PROVE Awaited(c)'
    BY <1>3 DEF Awaited
  <2>1. j - 1 \in 1..N /\ (j - 1) + 1 = j
    BY <1>3
  <2>2. DeltaAt(j - 1, c)'
    BY <1>8, <2>1
  <2> QED BY <1>3, <2>1, <2>2 DEF Awaited
<1>10. \A c : Awaited(c)' => Awaited(c)
  <2> SUFFICES ASSUME NEW c, NEW j \in 1..N, DeltaAt(j, c)' PROVE Awaited(c)
    BY <1>3 DEF Awaited
  <2>1. j + 1 \in 1..(N + 1) /\ DeltaAt(j + 1, c)
    BY <1>3, <1>8
  <2> QED BY <1>3, <2>1 DEF Awaited
<1>11. (\A c : DeltaNow(c)' = DeltaNow(c)) /\ Snap' = Snap
  <2>1. \A c : DeltaNow(c)' = DeltaNow(c)
    BY <1>2, <1>3 DEF DeltaNow
  <2>2. 1 \in DOMAIN hook'.wire => hook'.wire[1].kind = "delta"
    BY <1>1, <1>3 DEF WireInOrder
  <2>3. Snap' = hook'.snapshot
    BY <2>2 DEF Snap
  <2>4. Snap = IF m.kind = "snapshot" THEN m.data ELSE hook.snapshot
    BY <1>3 DEF Snap
  <2> QED BY <1>3, <2>1, <2>3, <2>4
<1>12. origin' \in {"none", "old", "new"} /\ missed' \in BOOLEAN
  BY <1>1, <1>3, <1>4 DEF FleetTypeOK
<1>13. FleetTyped'
  BY <1>1, <1>2, <1>3, <1>12 DEF FleetTyped, FleetTypeOK
<1>14. WireInOrder'
  BY <1>1, <1>2, <1>3 DEF WireInOrder
<1>15. OriginFits'
  <2>1. origin' = "none" => hook'.delta = NoData
    BY <1>1, <1>3, <1>4 DEF OriginFits
  <2>2. origin' = "new" => hook'.delta \in FleetDeltas /\ hook'.stage = "live"
    BY <1>1, <1>3, <1>4, <1>7 DEF OriginFits
  <2>3. screen'.at # "list" /\ origin' = "new" => hook'.delta.cp = hook'.key.cp
    BY <1>1, <1>2, <1>3, <1>4 DEF OriginFits
  <2>4. ASSUME screen'.at # "list", NEW j \in DOMAIN hook'.wire, hook'.wire[j].kind = "delta"
        PROVE  hook'.wire[j].data.cp = hook'.key.cp
    <3>1. j + 1 \in DOMAIN hook.wire /\ hook'.wire[j] = hook.wire[j + 1]
      BY <1>3, <2>4
    <3>2. hook.wire[j + 1].data.cp = hook.key.cp
      BY <1>1, <1>2, <2>4, <3>1 DEF OriginFits
    <3> QED BY <1>3, <3>1, <3>2
  <2> QED BY <2>1, <2>2, <2>3, <2>4 DEF OriginFits
<1>16. LastIsTrue'
  <2> SUFFICES ASSUME NEW j \in 1..N, NEW c \in Fleet, DeltaAt(j, c)',
                      \A i \in 1..N : i > j => ~DeltaAt(i, c)'
               PROVE  hook'.wire[j].data = DeltaNow(c)'
    BY <1>3 DEF LastIsTrue
  <2>1. j + 1 \in DOMAIN hook.wire /\ DeltaAt(j + 1, c)
    BY <1>3, <1>8
  <2>2. ASSUME NEW i \in DOMAIN hook.wire, i > j + 1 PROVE ~DeltaAt(i, c)
    <3>1. i - 1 \in 1..N /\ i - 1 > j /\ (i - 1) + 1 = i
      BY <1>3, <2>2
    <3> QED BY <1>8, <3>1
  <2>3. hook.wire[j + 1].data = DeltaNow(c)
    BY <1>1, <2>1, <2>2 DEF LastIsTrue
  <2> QED BY <1>3, <1>11, <2>3
<1>17. HeldIsTrue'
  <2> SUFFICES ASSUME origin' = "new", ~missed', ~Awaited(hook.delta.cp)'
               PROVE  hook'.delta = DeltaNow(hook.delta.cp)'
    BY DEF HeldIsTrue
  <2>1. CASE m.kind = "snapshot"
    <3>1. hook'.delta = hook.delta /\ origin = "new" /\ ~missed
      BY <1>3, <1>4, <2>1
    <3>2. ~Awaited(hook.delta.cp)
      <4>1. ~DeltaAt(1, hook.delta.cp)
        BY <2>1 DEF DeltaAt
      <4>2. PICK c : c = hook.delta.cp
        OBVIOUS
      <4>3. ~Awaited(c)'
        BY <3>1, <4>2
      <4> QED BY <1>9, <4>1, <4>2, <4>3
    <3>3. hook.delta = DeltaNow(hook.delta.cp)
      BY <1>1, <3>1, <3>2 DEF HeldIsTrue
    <3> QED BY <1>11, <3>1, <3>3
  <2>2. CASE m.kind = "delta"
    <3>1. hook'.delta = m.data /\ m.data.cp \in Fleet
      BY <1>3, <1>7, <2>2
    <3>2. PICK c \in Fleet : c = m.data.cp
      BY <3>1
    <3>3. ~Awaited(c)'
      BY <3>1, <3>2
    <3>4. DeltaAt(1, c) /\ \A i \in DOMAIN hook.wire : i > 1 => ~DeltaAt(i, c)
      <4>1. DeltaAt(1, c)
        BY <2>2, <3>2 DEF DeltaAt
      <4>2. ASSUME NEW i \in DOMAIN hook.wire, i > 1 PROVE ~DeltaAt(i, c)
        <5>1. i - 1 \in 1..N /\ (i - 1) + 1 = i
          BY <1>3, <4>2
        <5>2. ~DeltaAt(i - 1, c)'
          BY <1>3, <3>3, <5>1 DEF Awaited
        <5> QED BY <1>8, <5>1, <5>2
      <4> QED BY <4>1, <4>2
    <3>5. m.data = DeltaNow(c)
      BY <1>1, <1>3, <3>4 DEF LastIsTrue
    <3> QED BY <1>11, <3>1, <3>2, <3>5
  <2> QED BY <1>3, <2>1, <2>2
<1>18. SnapshotIsTrue'
  <2> SUFFICES ASSUME ~missed' PROVE SnapshotIsTrue'
    BY DEF SnapshotIsTrue
  <2>1. ~missed
    BY <1>4
  <2>2. screen.at = "list" => DOMAIN Snap.rows \subseteq Fleet
    BY <1>1, <1>2, <2>1 DEF SnapshotIsTrue
  <2>3. ASSUME NEW c \in Fleet, ~Awaited(c)', ~(origin' = "new" /\ hook'.delta.cp = c)
        PROVE  ~Awaited(c) /\ ~(origin = "new" /\ hook.delta.cp = c)
    <3>1. CASE m.kind = "snapshot"
      BY <1>3, <1>4, <1>9, <2>3, <3>1 DEF DeltaAt
    <3>2. CASE m.kind = "delta"
      <4>1. origin' = "new" /\ hook'.delta = m.data /\ m.data.cp # c
        BY <1>3, <1>4, <2>3, <3>2
      <4>2. ~(origin = "new" /\ hook.delta.cp = c)
        BY <1>4, <3>2, <4>1
      <4>3. ~DeltaAt(1, c)
        BY <4>1 DEF DeltaAt
      <4> QED BY <1>9, <2>3, <4>2, <4>3
    <3> QED BY <1>3, <3>1, <3>2
  <2>4. ASSUME NEW c \in Fleet, ~Awaited(c), ~(origin = "new" /\ hook.delta.cp = c)
        PROVE  IF screen.at # "list" THEN c = hook.key.cp => Snap.row = fleet[c]
               ELSE c \in DOMAIN Snap.rows =>
                      Snap.rows[c] = fleet[c] /\ Matches(hook.key, c, fleet[c])
    BY <1>1, <1>2, <2>1, <2>4 DEF SnapshotIsTrue
  <2>5. UNCHANGED <<fleet, screen>> /\ hook'.key = hook.key /\ Snap' = Snap
    BY <1>2, <1>3, <1>11
  <2> QED BY <2>2, <2>3, <2>4, <2>5 DEF SnapshotIsTrue
<1> QED BY <1>13, <1>14, <1>15, <1>16, <1>17, <1>18 DEF FleetInv

\* Nothing but one row changes, and a registered subscription is told: what the
\* hook holds of the other chargers stays true.
LEMMA ChangeStep ==
    ASSUME FleetInv, NEW c0 \in Fleet, NEW r \in FleetRow, ChangeRow(c0, r)
    PROVE  FleetInv'
<1>1. /\ FleetTyped /\ FleetTypeOK /\ hook \in Hooks /\ WireInOrder /\ OriginFits
      /\ LastIsTrue /\ HeldIsTrue /\ SnapshotIsTrue
  BY DEF FleetInv, FleetTyped
<1> DEFINE d == IF screen.at = "list" THEN ListDelta(hook.key, c0, r)
                ELSE [op |-> "upsert", cp |-> c0, row |-> r]
<1>2. /\ fleet' = [fleet EXCEPT ![c0] = r] /\ missed' = (missed \/ hook.stage = "read")
      /\ UNCHANGED <<screen, picks, origin, early>>
      /\ \/ (screen.at = "list" \/ c0 = hook.key.cp) /\ hook' = Published(hook, <<d>>)
         \/ screen.at # "list" /\ c0 # hook.key.cp /\ hook' = hook
  BY DEF ChangeRow
<1>3. /\ fleet' \in [Fleet -> FleetRow] /\ fleet'[c0] = r
      /\ \A c \in Fleet : c # c0 => fleet'[c] = fleet[c]
  BY <1>1, <1>2 DEF FleetTypeOK
<1>4. d \in FleetDeltas /\ d.cp = c0
  BY DeltaType
<1>5. hook'.key = hook.key => DeltaNow(c0)' = d
  BY <1>2, <1>3 DEF DeltaNow
<1>6. hook'.key = hook.key => \A c \in Fleet : c # c0 => DeltaNow(c)' = DeltaNow(c)
  BY <1>2, <1>3 DEF DeltaNow
<1> HIDE DEF d
<1>7. PICK e : e = d
  OBVIOUS
<1>8. hook' = Published(hook, <<e>>) =>
          /\ hook' \in Hooks
          /\ hook'.key = hook.key /\ hook'.stage = hook.stage
          /\ hook'.snapshot = hook.snapshot /\ hook'.delta = hook.delta
          /\ hook.stage = "live" =>
               /\ Len(hook.wire) \in Nat /\ DOMAIN hook.wire = 1..Len(hook.wire)
               /\ DOMAIN hook'.wire = 1..(Len(hook.wire) + 1)
               /\ \A j \in DOMAIN hook.wire : hook'.wire[j] = hook.wire[j]
               /\ hook'.wire[Len(hook.wire) + 1] = [kind |-> "delta", data |-> e]
          /\ hook.stage # "live" => hook'.wire = hook.wire
  BY <1>1, <1>4, <1>7, PublishedOne DEF Hooks
<1>9. /\ hook' \in Hooks /\ hook'.key = hook.key /\ hook'.stage = hook.stage
      /\ hook'.snapshot = hook.snapshot /\ hook'.delta = hook.delta
  BY <1>1, <1>2, <1>7, <1>8
<1>10. FleetTyped'
  <2>1. missed' \in BOOLEAN
    BY <1>1, <1>2 DEF FleetTypeOK
  <2> QED BY <1>1, <1>2, <1>3, <1>9, <2>1 DEF FleetTyped, FleetTypeOK
<1>11. CASE hook.stage # "live"
  <2>1. hook'.wire = hook.wire
    BY <1>2, <1>7, <1>8, <1>11
  <2>2. WireInOrder' /\ OriginFits'
    BY <1>1, <1>2, <1>9, <2>1 DEF WireInOrder, OriginFits
  <2>3. \A j \in DOMAIN hook.wire : hook.wire[j].kind # "delta"
    BY <1>1, <1>11 DEF WireInOrder, FleetTyped, Hooks, Subscriptions
  <2>4. LastIsTrue'
    BY <2>1, <2>3 DEF LastIsTrue, DeltaAt
  <2>5. HeldIsTrue'
    BY <1>1, <1>2, <1>11 DEF HeldIsTrue, OriginFits
  <2>6. SnapshotIsTrue'
    BY <1>2, <1>9, <1>11 DEF SnapshotIsTrue
  <2> QED BY <1>10, <2>2, <2>4, <2>5, <2>6 DEF FleetInv
<1>12. CASE hook.stage = "live" /\ screen.at # "list" /\ c0 # hook.key.cp /\ hook' = hook
  <2>1. WireInOrder' /\ OriginFits'
    BY <1>1, <1>2, <1>12 DEF WireInOrder, OriginFits
  <2>2. (\A c : Awaited(c)' <=> Awaited(c)) /\ \A j, c : DeltaAt(j, c)' <=> DeltaAt(j, c)
    BY <1>12 DEF Awaited, DeltaAt
  <2>3. \A j \in DOMAIN hook.wire : \A c : DeltaAt(j, c) => c = hook.key.cp
    BY <1>1, <1>12 DEF OriginFits, DeltaAt
  <2>4. LastIsTrue'
    <3> SUFFICES ASSUME NEW j \in DOMAIN hook.wire, NEW c \in Fleet, DeltaAt(j, c),
                        \A i \in DOMAIN hook.wire : i > j => ~DeltaAt(i, c)
                 PROVE  hook.wire[j].data = DeltaNow(c)'
      BY <1>12, <2>2 DEF LastIsTrue
    <3>1. hook.wire[j].data = DeltaNow(c)
      BY <1>1 DEF LastIsTrue
    <3> QED BY <1>6, <1>9, <1>12, <2>3, <3>1
  <2>5. HeldIsTrue'
    <3> SUFFICES ASSUME origin = "new", ~missed, ~Awaited(hook.delta.cp)
                 PROVE  hook.delta = DeltaNow(hook.delta.cp)'
      <4>1. PICK h : h = hook.delta.cp
        OBVIOUS
      <4>2. Awaited(h)' <=> Awaited(h)
        BY <2>2
      <4> QED BY <1>2, <1>12, <4>1, <4>2 DEF HeldIsTrue
    <3>1. hook.delta = DeltaNow(hook.delta.cp)
      BY <1>1 DEF HeldIsTrue
    <3>2. hook.delta.cp = hook.key.cp /\ hook.delta.cp \in Fleet
      BY <1>1, <1>12 DEF OriginFits, FleetDeltas
    <3> QED BY <1>6, <1>9, <1>12, <3>1, <3>2
  <2>6. SnapshotIsTrue'
    <3> SUFFICES ASSUME ~missed, NEW c \in Fleet, ~Awaited(c), c = hook.key.cp,
                        ~(origin = "new" /\ hook.delta.cp = c)
                 PROVE  Snap.row = fleet'[c]
      <4>1. Snap' = Snap
        BY <1>12 DEF Snap
      <4> QED BY <1>2, <1>12, <2>2, <4>1 DEF SnapshotIsTrue
    <3>1. Snap.row = fleet[c]
      BY <1>1, <1>12 DEF SnapshotIsTrue
    <3> QED BY <1>3, <1>12, <3>1
  <2> QED BY <1>10, <2>1, <2>4, <2>5, <2>6 DEF FleetInv
<1>13. CASE hook.stage = "live" /\ (screen.at = "list" \/ c0 = hook.key.cp)
            /\ hook' = Published(hook, <<d>>)
  <2> DEFINE N == Len(hook.wire)
  <2>1. /\ N \in Nat /\ DOMAIN hook.wire = 1..N /\ DOMAIN hook'.wire = 1..(N + 1)
        /\ \A j \in 1..N : hook'.wire[j] = hook.wire[j]
        /\ hook'.wire[N + 1].kind = "delta" /\ hook'.wire[N + 1].data = d
    BY <1>7, <1>8, <1>13
  <2>12. missed' = missed
    BY <1>1, <1>2, <1>13 DEF FleetTypeOK
  <2> HIDE DEF N
  <2>2. PICK n : n = N
    OBVIOUS
  <2>3. /\ n \in Nat /\ DOMAIN hook.wire = 1..n /\ DOMAIN hook'.wire = 1..(n + 1)
        /\ \A j \in 1..n : hook'.wire[j] = hook.wire[j]
        /\ hook'.wire[n + 1].kind = "delta" /\ hook'.wire[n + 1].data = d
    BY <2>1, <2>2
  <2>4. \A j \in 1..n : \A c : DeltaAt(j, c)' <=> DeltaAt(j, c)
    BY <2>3 DEF DeltaAt
  <2>5. \A c : DeltaAt(n + 1, c)' <=> c = c0
    BY <1>4, <2>3 DEF DeltaAt
  <2>6. \A c : Awaited(c)' <=> (Awaited(c) \/ c = c0)
    <3>1. ASSUME NEW c, Awaited(c)' PROVE Awaited(c) \/ c = c0
      <4>1. PICK j \in 1..(n + 1) : DeltaAt(j, c)'
        BY <2>3, <3>1 DEF Awaited
      <4>2. j = n + 1 \/ j \in 1..n
        BY <2>3
      <4> QED BY <2>3, <2>4, <2>5, <4>1, <4>2 DEF Awaited
    <3>2. ASSUME NEW c, Awaited(c) PROVE Awaited(c)'
      <4>1. PICK j \in 1..n : DeltaAt(j, c)
        BY <2>3, <3>2 DEF Awaited
      <4>2. j \in 1..(n + 1) /\ DeltaAt(j, c)'
        BY <2>3, <2>4, <4>1
      <4> QED BY <2>3, <4>2 DEF Awaited
    <3>3. ASSUME NEW c, c = c0 PROVE Awaited(c)'
      <4>1. n + 1 \in 1..(n + 1) /\ DeltaAt(n + 1, c)'
        BY <2>3, <2>5, <3>3
      <4> QED BY <2>3, <4>1 DEF Awaited
    <3> QED BY <3>1, <3>2, <3>3
  <2>7. WireInOrder'
    BY <1>1, <1>9, <1>13, <2>3 DEF WireInOrder
  <2>8. OriginFits'
    <3>1. ASSUME screen'.at # "list", NEW j \in 1..(n + 1), hook'.wire[j].kind = "delta"
          PROVE  hook'.wire[j].data.cp = hook'.key.cp
      <4>1. CASE j = n + 1
        BY <1>2, <1>4, <1>9, <1>13, <2>3, <3>1, <4>1
      <4>2. CASE j \in 1..n
        BY <1>1, <1>2, <1>9, <2>3, <3>1, <4>2 DEF OriginFits
      <4> QED BY <2>3, <4>1, <4>2
    <3> QED BY <1>1, <1>2, <1>9, <2>3, <3>1 DEF OriginFits
  <2>9. LastIsTrue'
    <3> SUFFICES ASSUME NEW j \in 1..(n + 1), NEW c \in Fleet, DeltaAt(j, c)',
                        \A i \in 1..(n + 1) : i > j => ~DeltaAt(i, c)'
                 PROVE  hook'.wire[j].data = DeltaNow(c)'
      BY <2>3 DEF LastIsTrue
    <3>1. CASE j = n + 1
      BY <1>5, <1>9, <2>3, <2>5, <3>1
    <3>2. CASE j \in 1..n
      <4>1. n + 1 \in 1..(n + 1) /\ n + 1 > j
        BY <2>3, <3>2
      <4>2. c # c0
        BY <2>5, <4>1
      <4>3. DeltaAt(j, c) /\ \A i \in DOMAIN hook.wire : i > j => ~DeltaAt(i, c)
        BY <2>3, <2>4, <3>2
      <4>4. hook.wire[j].data = DeltaNow(c)
        BY <1>1, <2>3, <3>2, <4>3 DEF LastIsTrue
      <4> QED BY <1>6, <1>9, <2>3, <3>2, <4>2, <4>4
    <3> QED BY <2>3, <3>1, <3>2
  <2>10. HeldIsTrue'
    <3>1. PICK h : h = hook.delta.cp
      OBVIOUS
    <3> SUFFICES ASSUME origin = "new", ~missed, ~Awaited(h)'
                 PROVE  hook.delta = DeltaNow(h)'
      BY <1>2, <1>9, <2>12, <3>1 DEF HeldIsTrue
    <3>2. ~Awaited(h) /\ h # c0
      BY <2>6
    <3>3. hook.delta = DeltaNow(h)
      BY <1>1, <3>1, <3>2 DEF HeldIsTrue
    <3>4. h \in Fleet
      BY <1>1, <3>1 DEF OriginFits, FleetDeltas
    <3> QED BY <1>6, <1>9, <3>2, <3>3, <3>4
  <2>11. SnapshotIsTrue'
    <3>1. Snap' = Snap
      <4>1. 1 \in DOMAIN hook.wire => 1 \in DOMAIN hook'.wire /\ hook'.wire[1] = hook.wire[1]
        BY <2>3
      <4>2. 1 \notin DOMAIN hook.wire /\ 1 \in DOMAIN hook'.wire => hook'.wire[1].kind = "delta"
        BY <2>3
      <4> QED BY <1>9, <4>1, <4>2 DEF Snap
    <3>2. ~missed => (screen.at = "list" => DOMAIN Snap.rows \subseteq Fleet)
      BY <1>1, <1>13 DEF SnapshotIsTrue
    <3>3. ASSUME ~missed, NEW c \in Fleet, ~Awaited(c)', ~(origin = "new" /\ hook.delta.cp = c)
          PROVE  IF screen.at # "list" THEN c = hook.key.cp => Snap.row = fleet'[c]
                 ELSE c \in DOMAIN Snap.rows =>
                        Snap.rows[c] = fleet'[c] /\ Matches(hook.key, c, fleet'[c])
      <4>1. ~Awaited(c) /\ c # c0
        BY <2>6, <3>3
      <4>2. fleet'[c] = fleet[c]
        BY <1>3, <4>1
      <4> QED BY <1>1, <1>13, <3>3, <4>1, <4>2 DEF SnapshotIsTrue
    <3> QED BY <1>2, <1>9, <2>12, <3>1, <3>2, <3>3 DEF SnapshotIsTrue
  <2> QED BY <1>10, <2>7, <2>8, <2>9, <2>10, <2>11 DEF FleetInv
<1> QED BY <1>2, <1>11, <1>12, <1>13

\* Every step of the fleet pages keeps the invariant.
LEMMA FleetInvStep == FleetInv /\ [FleetNext]_fleetVars => FleetInv'
<1> SUFFICES ASSUME FleetInv, [FleetNext]_fleetVars PROVE FleetInv'
  OBVIOUS
<1>1. CASE UNCHANGED fleetVars
  <2>1. FleetTyped'
    BY <1>1 DEF fleetVars, FleetInv, FleetTyped, FleetTypeOK
  <2> QED BY <1>1, <2>1, KeptStep DEF fleetVars
<1>2. ASSUME NEW c \in Fleet, NEW r \in FleetRow, ChangeRow(c, r) PROVE FleetInv'
  BY <1>2, ChangeStep
<1>3. ASSUME NEW c \in Fleet, OpenDetail(c) \/ JumpDetail(c) PROVE FleetInv'
  BY <1>3, ScreenSteps
<1>4. CASE FailSnapshot \/ ListReconnect \/ OpenList
  BY <1>4, ScreenSteps
<1>5. CASE ReadSnapshot \/ RegisterSub
  BY <1>5, ReadStep
<1>6. CASE Receives
  BY <1>6, ReceiveStep
<1>7. CASE \/ \E f \in {"all", "online", "offline"} : PickFilter(f)
           \/ \E n \in PageSizes : PickSize(n)
           \/ \E t \in Needle : TypeSearch(t)
           \/ CommitSearch \/ ToggleFaults
           \/ \E n \in 1..Cardinality(Fleet) : TurnPage(n)
  BY <1>7, ControlSteps
<1> QED BY <1>1, <1>2, <1>3, <1>4, <1>5, <1>6, <1>7 DEF FleetNext

\* The list mounts with nothing to show.
LEMMA FleetInvInit == FleetInit => FleetInv
<1> SUFFICES ASSUME FleetInit PROVE FleetInv
  OBVIOUS
<1>1. /\ fleet \in [Fleet -> FleetRow] /\ screen = [at |-> "list", cp |-> 0]
      /\ picks = FirstPicks /\ hook = NewSub(SubParams(FirstPicks))
      /\ origin = "none" /\ missed = FALSE /\ early = FALSE
  BY DEF FleetInit
<1>2. hook \in Hooks
  BY <1>1, NewHook, PicksType DEF Hooks
<1>3. /\ hook.key = SubParams(FirstPicks) /\ hook.stage = "asked" /\ hook.wire = <<>>
      /\ hook.delta = NoData
  BY <1>1 DEF NewSub
<1>4. FleetTyped
  BY <1>1, <1>2, <1>3, PicksType DEF FleetTyped, FleetTypeOK, FleetPicks
<1>5. DOMAIN hook.wire = {}
  BY <1>3
<1>6. WireInOrder /\ OriginFits
  BY <1>1, <1>3, <1>5 DEF WireInOrder, OriginFits
<1>7. LastIsTrue /\ HeldIsTrue /\ SnapshotIsTrue
  BY <1>1, <1>3, <1>5 DEF LastIsTrue, HeldIsTrue, SnapshotIsTrue
<1> QED BY <1>4, <1>6, <1>7 DEF FleetInv

\* The fleet pages keep their types.
THEOREM FleetTypeCorrect == FleetSpec => []FleetTypeOK
<1>1. FleetInv => FleetTypeOK
  BY DEF FleetInv, FleetTyped
<1> QED BY <1>1, FleetInvInit, FleetInvStep, PTL DEF FleetSpec

\* What an idle page shows of a charger is how the charger is, whatever the filters,
\* the pages, the reconnects and the changes before; unless a delta was overwritten
\* by one of another charger or comes from an earlier subscription.
THEOREM RowsStayTrue == FleetSpec => []RowsAreTrue
<1>1. FleetInv => RowsAreTrue
  <2> SUFFICES ASSUME FleetInv, UpToDate(hook), Usable, ~missed, origin # "old"
               PROVE  IF screen.at = "detail" THEN Shows(DetailRow) = Shows(fleet[screen.cp])
                      ELSE /\ \A c \in DOMAIN AllRows :
                                Shows(AllRows[c]) = Shows(fleet[c]) /\ Matches(hook.key, c, fleet[c])
                           /\ \A c \in DOMAIN hook.snapshot.rows :
                                Matches(hook.key, c, fleet[c]) => c \in DOMAIN AllRows
    BY DEF RowsAreTrue
  <2>1. hook.stage = "live" /\ DOMAIN hook.wire = {} /\ screen.at # "crashed"
    BY DEF UpToDate, Usable
  <2>2. Snap = hook.snapshot /\ \A c : ~Awaited(c)
    BY <2>1 DEF Snap, Awaited
  <2>3. \/ origin = "none" /\ hook.delta = NoData
        \/ /\ origin = "new" /\ hook.delta # NoData /\ hook.delta.cp \in Fleet
           /\ hook.delta = DeltaNow(hook.delta.cp)
    BY <2>2, FleetViewAssumption
       DEF FleetInv, FleetTyped, FleetTypeOK, OriginFits, HeldIsTrue, FleetDeltas
  <2>4. CASE screen.at = "detail"
    <3>1. hook.key.cp = screen.cp /\ screen.cp \in Fleet
      BY <2>4 DEF FleetInv, FleetTyped, FleetTypeOK
    <3>2. CASE origin = "none" /\ hook.delta = NoData
      <4>1. hook.snapshot.row = fleet[screen.cp]
        BY <2>1, <2>2, <2>4, <3>1, <3>2 DEF FleetInv, SnapshotIsTrue
      <4> QED BY <2>4, <3>2, <4>1 DEF DetailRow
    <3>3. CASE origin = "new" /\ hook.delta # NoData /\ hook.delta = DeltaNow(hook.delta.cp)
      <4>1. hook.delta.cp = screen.cp
        BY <2>4, <3>1, <3>3 DEF FleetInv, OriginFits
      <4>2. hook.delta.row = fleet[screen.cp]
        BY <2>4, <3>3, <4>1 DEF DeltaNow
      <4> QED BY <2>4, <3>3, <4>2 DEF DetailRow
    <3> QED BY <2>3, <3>2, <3>3
  <2>5. CASE screen.at = "list"
    <3> DEFINE rows == hook.snapshot.rows
    <3>1. DOMAIN rows \subseteq Fleet
      BY <2>1, <2>2, <2>5 DEF FleetInv, SnapshotIsTrue
    <3>2. ASSUME NEW c \in DOMAIN rows, ~(origin = "new" /\ hook.delta.cp = c)
          PROVE  rows[c] = fleet[c] /\ Matches(hook.key, c, fleet[c])
      BY <2>1, <2>2, <2>5, <3>1, <3>2 DEF FleetInv, SnapshotIsTrue
    <3>3. CASE origin = "none" /\ hook.delta = NoData
      <4>1. AllRows = rows
        BY <3>3 DEF AllRows, Overlaid
      <4> HIDE DEF rows
      <4>2. \A c \in DOMAIN rows : rows[c] = fleet[c] /\ Matches(hook.key, c, fleet[c])
        BY <3>2, <3>3
      <4> QED BY <2>5, <4>1, <4>2 DEF rows
    <3>4. CASE /\ origin = "new" /\ hook.delta # NoData /\ hook.delta.cp \in Fleet
               /\ hook.delta = DeltaNow(hook.delta.cp)
      <4>1. PICK h \in Fleet : h = hook.delta.cp
        BY <3>4
      <4>2. hook.delta = ListDelta(hook.key, h, fleet[h])
        BY <2>5, <3>4, <4>1 DEF DeltaNow
      <4>3. /\ hook.delta.row = fleet[h]
            /\ hook.delta.op = "upsert" <=> Matches(hook.key, h, fleet[h])
        BY <4>2 DEF ListDelta
      <4>4. \A c \in DOMAIN rows : c # h => rows[c] = fleet[c] /\ Matches(hook.key, c, fleet[c])
        BY <3>2, <4>1
      <4>5. CASE hook.delta.op = "upsert"
        <5>1. AllRows = With(rows, h, fleet[h])
          BY <3>4, <4>1, <4>3, <4>5 DEF AllRows, Overlaid
        <5> HIDE DEF rows
        <5>2. /\ DOMAIN AllRows = DOMAIN rows \cup {h} /\ AllRows[h] = fleet[h]
              /\ \A c \in DOMAIN rows \ {h} : AllRows[c] = rows[c]
          BY <5>1 DEF With
        <5>3. \A c \in DOMAIN AllRows : AllRows[c] = fleet[c] /\ Matches(hook.key, c, fleet[c])
          BY <4>3, <4>4, <4>5, <5>2
        <5> QED BY <2>5, <5>2, <5>3 DEF rows
      <4>6. CASE hook.delta.op # "upsert"
        <5>1. AllRows = Restrict(rows, DOMAIN rows \ {h})
          BY <3>4, <4>1, <4>6 DEF AllRows, Overlaid
        <5> HIDE DEF rows
        <5>2. /\ DOMAIN AllRows = DOMAIN rows \ {h}
              /\ \A c \in DOMAIN rows \ {h} : AllRows[c] = rows[c]
          BY <5>1 DEF Restrict
        <5>3. \A c \in DOMAIN AllRows : AllRows[c] = fleet[c] /\ Matches(hook.key, c, fleet[c])
          BY <4>4, <5>2
        <5> QED BY <2>5, <4>3, <4>6, <5>2, <5>3 DEF rows
      <4> QED BY <4>5, <4>6
    <3> QED BY <2>3, <3>3, <3>4
  <2> QED BY <2>1, <2>4, <2>5 DEF FleetInv, FleetTyped, FleetTypeOK
<1> QED BY <1>1, FleetInvInit, FleetInvStep, PTL DEF FleetSpec

-----------------------------------------------------------------------------
(* Commands and the transcript.                                            *)

\* What the forms can send, and what can come back.
Catalogue ==
    RemoteStart \cup RemoteStop \cup Reset \cup Trigger \cup Unlock \cup GetConfig
      \cup ChangeConfig \cup ClearCache \cup ReserveNow \cup DataTransfer
      \cup [method : {"cancel-reservation"}, hold : Hold]
      \cup [method : {"get-diagnostics"}, url : Nat]
      \cup [method : {"get-log"}, url : Nat, id : Nat \cup {NoData}]

Methods == {r.method : r \in Catalogue}

Replies == Reply \cup {ConnectionLost}
Outcomes == {"accepted", "rejected", "soft-reject", "error"}
Patches == [phase : {"ok", "error"}, outcome : Outcomes]
TranscriptEntries ==
    [id : Int, request : Catalogue, phase : {"pending", "ok", "error"},
     outcome : Outcomes \cup {"pending"}]
Buffers == UNION {[D -> Patches] : D \in SUBSET Nat}
Stores ==
    [entries : Seq(TranscriptEntries), inFlight : Seq(Methods), paused : BOOLEAN,
     buffer : Buffers, nextId : Nat \ {0}]
Calls ==
    [at : Station, id : Nat \ {0}, visit : Nat, request : Catalogue, reply : Replies \cup {NoData}]

CommandsTyped ==
    /\ desk \in [at : Station, visit : Nat, manual : BOOLEAN, picked : Hold \cup {NoData},
                 auto : SUBSET {"GetDiagnostics", "GetLog"}, requestId : Nat \cup {NoData},
                 advanced : BOOLEAN, config : Station \cup {NoData}]
    /\ stationRow \in [Station -> [online : BOOLEAN, holds : SUBSET Hold]]
    /\ issues \subseteq [n : Nat, at : Station, visit : Nat, requestId : Nat \cup {NoData},
                         command : {"GetDiagnostics", "GetLog"}]
    /\ {urls, moves, troubles} \subseteq Nat

\* The entry e of the store t shows the reply of its command, if there is one and
\* it is not held back.
Tells(t, e, reply) ==
    IF reply = NoData \/ e.id \in DOMAIN t.buffer
    THEN e.phase = "pending" /\ e.outcome = "pending"
    ELSE e.phase = PatchFor(reply).phase /\ e.outcome = PatchFor(reply).outcome

\* What the store t of charger c and the calls R have to do with one another.
StoreFits(t, c, R) ==
    /\ \A k \in DOMAIN R : R[k].at = c => R[k].id < t.nextId
    /\ \A k, l \in DOMAIN R : R[k].at = c /\ R[l].at = c /\ R[k].id = R[l].id => k = l
    /\ \A i \in DOMAIN t.entries :
          /\ t.entries[i].id = t.nextId - i
          /\ \E k \in DOMAIN R :
                /\ R[k].at = c /\ R[k].id = t.entries[i].id /\ R[k].request = t.entries[i].request
                /\ Tells(t, t.entries[i], R[k].reply)
    /\ t.paused \/ DOMAIN t.buffer = {}
    /\ \A n \in DOMAIN t.buffer :
          \E k \in DOMAIN R : /\ R[k].at = c /\ R[k].id = n /\ R[k].reply # NoData
                              /\ t.buffer[n] = PatchFor(R[k].reply)
    /\ \A k \in DOMAIN R :
          R[k].at = c /\ R[k].reply = NoData
            /\ (\E i \in DOMAIN t.entries : t.entries[i].id = R[k].id)
          => Includes(t.inFlight, R[k].request.method)

\* Another entry of s than that of command id is pending, of the same method.
StillPending(s, id, m) ==
    \E i \in DOMAIN s : s[i].id # id /\ s[i].request.method = m /\ s[i].phase = "pending"

\* From t to u no method leaves the flight but m, and m only if no other entry of s
\* is pending.
KeepsFlight(t, u, s, id, m) ==
    \A n : Includes(t.inFlight, n) /\ (n = m => StillPending(s, id, m)) => Includes(u.inFlight, n)

\* What Completed does to a store that is paused, and to one that is not.
HeldBack(t, u, id, m, p) ==
    /\ u \in Stores /\ u.entries = t.entries /\ u.nextId = t.nextId
    /\ u.paused = TRUE /\ u.buffer = With(t.buffer, id, p)
    /\ KeepsFlight(t, u, t.entries, id, m)

ShownAtOnce(t, u, id, m, p) ==
    /\ u \in Stores /\ u.entries = Patched(t.entries, id, p) /\ u.nextId = t.nextId
    /\ u.buffer = t.buffer
    /\ KeepsFlight(t, u, u.entries, id, m)

AllFit(T, R) == \A c \in Station : StoreFits(T[c], c, R)

\* The stores T and the calls R.
Fit(T, R) ==
    /\ T \in [Station -> Stores] /\ R \in Seq(Calls)
    /\ \A c \in Station : Len(T[c].entries) <= RingCap
    /\ AllFit(T, R)

CommandsInv == CommandsTyped /\ Fit(transcript, rpcs)

-----------------------------------------------------------------------------
\* The patch of a reply is one.
LEMMA PatchType == \A r : PatchFor(r) \in Patches
<1> TAKE r
<1>1. DescribeResponse(r.status) \in Outcomes
  BY DEF DescribeResponse, Outcomes
<1> QED BY <1>1 DEF PatchFor, Patches, Outcomes

\* WithoutOne keeps the others.
LEMMA WithoutFacts ==
    ASSUME NEW s \in Seq(Methods), NEW x
    PROVE  /\ WithoutOne(s, x) \in Seq(Methods)
           /\ \A y : y # x /\ Includes(s, y) => Includes(WithoutOne(s, x), y)
<1>1. CASE ~Includes(s, x)
  BY <1>1 DEF WithoutOne
<1>2. CASE Includes(s, x)
  <2> DEFINE k == CHOOSE i \in DOMAIN s : s[i] = x
             a == SubSeq(s, 1, k - 1)
             b == SubSeq(s, k + 1, Len(s))
  <2>1. k \in 1..Len(s) /\ s[k] = x
    BY <1>2 DEF Includes
  <2>2. WithoutOne(s, x) = a \o b
    BY <1>2 DEF WithoutOne
  <2> HIDE DEF k
  <2>3. /\ a \in Seq(Methods) /\ Len(a) = k - 1 /\ \A i \in 1..k - 1 : a[i] = s[i]
        /\ b \in Seq(Methods) /\ Len(b) = Len(s) - k /\ \A i \in 1..Len(s) - k : b[i] = s[k + i]
    BY <2>1
  <2> HIDE DEF a, b
  <2>4. /\ a \o b \in Seq(Methods) /\ Len(a \o b) = Len(s) - 1
        /\ DOMAIN (a \o b) = 1..Len(s) - 1
        /\ \A i \in 1..k - 1 : (a \o b)[i] = s[i]
        /\ \A i \in k..Len(s) - 1 : (a \o b)[i] = s[i + 1]
    <3>0. a \o b \in Seq(Methods) /\ Len(a \o b) = Len(a) + Len(b)
          /\ DOMAIN (a \o b) = 1..Len(a) + Len(b)
          /\ \A i \in 1..Len(a) : (a \o b)[i] = a[i]
      <4>1. a \in Seq(Methods) /\ b \in Seq(Methods)
        BY <2>3
      <4>2. a \o b \in Seq(Methods) /\ Len(a \o b) = Len(a) + Len(b)
        BY <4>1
      <4>3. DOMAIN (a \o b) = 1..Len(a) + Len(b)
        BY <4>2
      <4>4. \A i \in 1..Len(a) : (a \o b)[i] = a[i]
        BY <4>1
      <4> QED BY <4>2, <4>3, <4>4
    <3>1. /\ a \o b \in Seq(Methods) /\ Len(a \o b) = Len(s) - 1
          /\ DOMAIN (a \o b) = 1..Len(s) - 1
          /\ \A i \in 1..k - 1 : (a \o b)[i] = s[i]
      BY <2>1, <2>3, <3>0
    <3>2. \A i \in k..Len(s) - 1 : (a \o b)[i] = b[i - (k - 1)]
      BY <2>1, <2>3
    <3>3. \A i \in k..Len(s) - 1 : i - (k - 1) \in 1..Len(s) - k /\ k + (i - (k - 1)) = i + 1
      BY <2>1
    <3>4. \A i \in k..Len(s) - 1 : b[i - (k - 1)] = s[i + 1]
      BY <2>3, <3>3
    <3> QED BY <3>1, <3>2, <3>4
  <2>5. ASSUME NEW y, y # x, Includes(s, y) PROVE Includes(a \o b, y)
    <3>1. PICK i \in 1..Len(s) : s[i] = y
      BY <2>5 DEF Includes
    <3>2. i # k
      BY <2>1, <2>5, <3>1
    <3>3. CASE i < k
      <4>1. i \in DOMAIN (a \o b) /\ (a \o b)[i] = y
        BY <2>1, <2>4, <3>1, <3>3
      <4> QED BY <4>1 DEF Includes
    <3>4. CASE i > k
      <4>1. i - 1 \in k..Len(s) - 1 /\ i - 1 \in 1..Len(s) - 1 /\ (i - 1) + 1 = i
        BY <2>1, <3>1, <3>4
      <4>2. i - 1 \in DOMAIN (a \o b) /\ (a \o b)[i - 1] = y
        BY <2>4, <3>1, <4>1
      <4> QED BY <4>2 DEF Includes
    <3> QED BY <2>1, <3>1, <3>2, <3>3, <3>4
  <2> QED BY <2>2, <2>4, <2>5
<1> QED BY <1>1, <1>2

-----------------------------------------------------------------------------
(* What the operations of a store do to it.                                *)

\* A new command is the newest entry, and its method is in flight.
LEMMA BegunStore ==
    ASSUME NEW t \in Stores, NEW r \in Catalogue, Len(t.entries) <= RingCap
    PROVE  LET u == Begun(t, r)
           IN  /\ u \in Stores /\ Len(u.entries) <= RingCap
               /\ u.nextId = t.nextId + 1 /\ u.paused = t.paused /\ u.buffer = t.buffer
               /\ 1 \in DOMAIN u.entries
               /\ u.entries[1] = [id |-> t.nextId, request |-> r, phase |-> "pending",
                                  outcome |-> "pending"]
               /\ \A i \in DOMAIN u.entries :
                     i # 1 => i - 1 \in DOMAIN t.entries /\ u.entries[i] = t.entries[i - 1]
               /\ Includes(u.inFlight, r.method)
               /\ \A m : Includes(t.inFlight, m) => Includes(u.inFlight, m)
<1> DEFINE e == [id |-> t.nextId, request |-> r, phase |-> "pending", outcome |-> "pending"]
           all == <<e>> \o t.entries
           new == Newest(all, RingCap)
           fl == IF Includes(t.inFlight, r.method) THEN t.inFlight
                 ELSE Append(t.inFlight, r.method)
<1>1. e \in TranscriptEntries /\ t.entries \in Seq(TranscriptEntries) /\ t.inFlight \in Seq(Methods)
      /\ t.nextId \in Nat
  BY DEF Stores, TranscriptEntries
<1>2. r.method \in Methods
  BY DEF Methods
<1>3. RingCap \in Nat \ {0}
  BY CommandsAssumption
<1>4. Begun(t, r) = [t EXCEPT !.entries = new, !.inFlight = fl, !.nextId = t.nextId + 1]
  BY DEF Begun
<1>5. e = [id |-> t.nextId, request |-> r, phase |-> "pending", outcome |-> "pending"]
  OBVIOUS
<1> HIDE DEF e
<1>6. /\ all \in Seq(TranscriptEntries) /\ Len(all) = Len(t.entries) + 1 /\ all[1] = e
      /\ \A i \in 2..Len(all) : all[i] = t.entries[i - 1]
  BY <1>1
<1> HIDE DEF all
<1>7. /\ new \in Seq(TranscriptEntries) /\ Len(new) <= RingCap /\ Len(new) <= Len(all)
      /\ Len(new) >= 1 /\ \A i \in 1..Len(new) : new[i] = all[i]
  BY <1>1, <1>3, <1>6 DEF Newest
<1> HIDE DEF new
<1>8. /\ 1 \in DOMAIN new /\ new[1] = e
      /\ \A i \in DOMAIN new : i # 1 => i - 1 \in DOMAIN t.entries /\ new[i] = t.entries[i - 1]
  <2>1. DOMAIN new = 1..Len(new) /\ DOMAIN t.entries = 1..Len(t.entries) /\ Len(t.entries) \in Nat
        /\ Len(new) \in Nat
    BY <1>1, <1>7
  <2>2. ASSUME NEW i \in 1..Len(new), i # 1
        PROVE  i - 1 \in 1..Len(t.entries) /\ i \in 2..Len(all)
    BY <1>6, <1>7, <2>1, <2>2
  <2>3. 1 \in DOMAIN new /\ new[1] = e
    BY <1>6, <1>7, <2>1
  <2> QED BY <1>6, <1>7, <2>1, <2>2, <2>3
<1>9. /\ fl \in Seq(Methods) /\ Includes(fl, r.method)
      /\ \A m : Includes(t.inFlight, m) => Includes(fl, m)
  <2>1. CASE Includes(t.inFlight, r.method)
    BY <1>1, <2>1
  <2>2. CASE ~Includes(t.inFlight, r.method)
    <3>1. fl = Append(t.inFlight, r.method)
      BY <2>2
    <3> HIDE DEF fl
    <3>2. /\ fl \in Seq(Methods) /\ Len(fl) = Len(t.inFlight) + 1 /\ fl[Len(fl)] = r.method
          /\ \A i \in 1..Len(t.inFlight) : fl[i] = t.inFlight[i]
      BY <1>1, <1>2, <3>1
    <3>3. DOMAIN fl = 1..Len(t.inFlight) + 1 /\ DOMAIN t.inFlight = 1..Len(t.inFlight)
          /\ Len(t.inFlight) \in Nat
      BY <1>1, <3>2
    <3> QED BY <3>2, <3>3 DEF Includes
  <2> QED BY <2>1, <2>2
<1> HIDE DEF fl
<1>10. LET u == Begun(t, r)
       IN  /\ u \in Stores /\ u.entries = new /\ u.inFlight = fl /\ u.nextId = t.nextId + 1
           /\ u.paused = t.paused /\ u.buffer = t.buffer
  <2>1. Begun(t, r) = [entries |-> new, inFlight |-> fl, paused |-> t.paused, buffer |-> t.buffer,
                       nextId |-> t.nextId + 1]
    BY <1>4 DEF Stores
  <2>2. t.nextId + 1 \in Nat \ {0} /\ t.paused \in BOOLEAN /\ t.buffer \in Buffers
    BY <1>1 DEF Stores
  <2> QED BY <1>7, <1>9, <2>1, <2>2 DEF Stores
<1> QED BY <1>5, <1>7, <1>8, <1>9, <1>10

\* A patch changes the entry that it is for.
LEMMA PatchedEntries ==
    ASSUME NEW s \in Seq(TranscriptEntries), NEW id, NEW p \in Patches
    PROVE  LET q == Patched(s, id, p)
           IN  /\ q \in Seq(TranscriptEntries) /\ DOMAIN q = DOMAIN s /\ Len(q) = Len(s)
               /\ \A i \in DOMAIN s :
                     /\ q[i].id = s[i].id /\ q[i].request = s[i].request
                     /\ s[i].id # id => q[i] = s[i]
                     /\ s[i].id = id => q[i].phase = p.phase /\ q[i].outcome = p.outcome
<1> DEFINE q == Patched(s, id, p)
<1>1. q = [k \in 1..Len(s) |-> IF s[k].id = id
                               THEN [s[k] EXCEPT !.phase = p.phase, !.outcome = p.outcome] ELSE s[k]]
  BY DEF Patched
<1> HIDE DEF q
<1>2. \A k \in 1..Len(s) : s[k] \in TranscriptEntries
  OBVIOUS
<1>3. \A k \in 1..Len(s) :
         /\ q[k] \in TranscriptEntries
         /\ q[k].id = s[k].id /\ q[k].request = s[k].request
         /\ s[k].id # id => q[k] = s[k]
         /\ s[k].id = id => q[k].phase = p.phase /\ q[k].outcome = p.outcome
  BY <1>1, <1>2 DEF TranscriptEntries, Patches
<1>4. q \in Seq(TranscriptEntries) /\ Len(q) = Len(s) /\ DOMAIN q = DOMAIN s
  <2>1. DOMAIN s = 1..Len(s) /\ Len(s) \in Nat
    OBVIOUS
  <2>2. q \in [1..Len(s) -> TranscriptEntries]
    BY <1>1, <1>3
  <2>3. q \in Seq(TranscriptEntries)
    BY <2>1, <2>2, SeqDef
  <2>4. DOMAIN q = 1..Len(s)
    BY <2>2
  <2>5. Len(q) = Len(s)
    BY <2>1, <2>3, <2>4
  <2> QED BY <2>1, <2>3, <2>4, <2>5
<1> QED BY <1>3, <1>4 DEF q

\* A buffer takes one more patch.
LEMMA BufferWith ==
    ASSUME NEW b \in Buffers, NEW id \in Nat, NEW p \in Patches
    PROVE  With(b, id, p) \in Buffers
<1>1. PICK D \in SUBSET Nat : b \in [D -> Patches]
  BY DEF Buffers
<1>2. With(b, id, p) \in [D \cup {id} -> Patches]
  BY <1>1 DEF With
<1> QED BY <1>2 DEF Buffers

\* The method of a command that is done leaves the others in flight, and stays
\* itself while another entry of it is pending.
LEMMA DroppedStore ==
    ASSUME NEW t \in Stores, NEW id, NEW m, NEW u, u = DropMethodIfDone(t, id, m)
    PROVE  /\ u \in Stores /\ u.entries = t.entries /\ u.nextId = t.nextId
           /\ u.paused = t.paused /\ u.buffer = t.buffer
           /\ KeepsFlight(t, u, t.entries, id, m)
<1> DEFINE fl == WithoutOne(t.inFlight, m)
<1>0. OtherPending(t, id, m) <=> StillPending(t.entries, id, m)
  BY DEF OtherPending, StillPending
<1>1. t.inFlight \in Seq(Methods)
  BY DEF Stores
<1>2. fl \in Seq(Methods) /\ \A y : y # m /\ Includes(t.inFlight, y) => Includes(fl, y)
  BY <1>1, WithoutFacts
<1>3. CASE OtherPending(t, id, m)
  BY <1>3 DEF DropMethodIfDone, KeepsFlight
<1>4. CASE ~OtherPending(t, id, m)
  <2>1. DropMethodIfDone(t, id, m) = [t EXCEPT !.inFlight = fl]
    BY <1>4 DEF DropMethodIfDone
  <2> HIDE DEF fl
  <2>2. DropMethodIfDone(t, id, m)
          = [entries |-> t.entries, inFlight |-> fl, paused |-> t.paused, buffer |-> t.buffer,
             nextId |-> t.nextId]
    BY <2>1 DEF Stores
  <2>3. /\ t.entries \in Seq(TranscriptEntries) /\ t.paused \in BOOLEAN /\ t.buffer \in Buffers
        /\ t.nextId \in Nat \ {0}
    BY DEF Stores
  <2> QED BY <1>0, <1>2, <1>4, <2>2, <2>3 DEF Stores, KeepsFlight
<1> QED BY <1>3, <1>4

\* A store with another buffer.
LEMMA BufferedStore ==
    ASSUME NEW t \in Stores, NEW b \in Buffers
    PROVE  LET v == [t EXCEPT !.buffer = b]
           IN  /\ v \in Stores /\ v.entries = t.entries /\ v.inFlight = t.inFlight
               /\ v.paused = t.paused /\ v.buffer = b /\ v.nextId = t.nextId
<1> DEFINE v == [t EXCEPT !.buffer = b]
<1>1. v = [entries |-> t.entries, inFlight |-> t.inFlight, paused |-> t.paused, buffer |-> b,
           nextId |-> t.nextId]
  BY DEF Stores
<1> QED BY <1>1 DEF Stores

\* While the transcript is paused a reply is held back.
LEMMA HeldStore ==
    ASSUME NEW t \in Stores, t.paused = TRUE, NEW id \in Nat, NEW m, NEW p \in Patches,
           NEW u, u = Completed(t, id, m, p)
    PROVE  HeldBack(t, u, id, m, p)
<1> DEFINE b == With(t.buffer, id, p)
           v == [t EXCEPT !.buffer = b]
<1>1. b \in Buffers
  BY BufferWith DEF Stores
<1>2. u = DropMethodIfDone(v, id, m)
  BY DEF Completed
<1> HIDE DEF b
<1>3. /\ v \in Stores /\ v.entries = t.entries /\ v.inFlight = t.inFlight
      /\ v.buffer = b /\ v.nextId = t.nextId
  BY <1>1, BufferedStore
<1>4. v.paused = TRUE
  BY <1>1, BufferedStore, Zenon
<1> HIDE DEF v
<1>5. /\ u \in Stores /\ u.entries = v.entries /\ u.nextId = v.nextId /\ u.buffer = v.buffer
      /\ KeepsFlight(v, u, v.entries, id, m)
  BY <1>2, <1>3, DroppedStore
<1>6. u.paused = TRUE
  BY <1>2, <1>3, <1>4, DroppedStore
<1>7. u \in Stores /\ u.entries = t.entries /\ u.nextId = t.nextId /\ u.buffer = b
  BY <1>3, <1>5
<1>8. KeepsFlight(t, u, t.entries, id, m)
  BY <1>3, <1>5, Zenon DEF KeepsFlight
<1> QED BY <1>6, <1>7, <1>8, Zenon DEF b, HeldBack

\* Otherwise the entry that it is for is patched.
LEMMA PatchedStore ==
    ASSUME NEW t \in Stores, t.paused = FALSE, NEW id \in Nat, NEW m, NEW p \in Patches,
           NEW u, u = Completed(t, id, m, p)
    PROVE  ShownAtOnce(t, u, id, m, p)
<1> DEFINE s == Patched(t.entries, id, p)
           v == [t EXCEPT !.entries = s]
<1>1. s \in Seq(TranscriptEntries)
  BY PatchedEntries DEF Stores
<1>2. u = DropMethodIfDone(v, id, m)
  BY DEF Completed
<1> HIDE DEF s
<1>3. v = [entries |-> s, inFlight |-> t.inFlight, paused |-> t.paused, buffer |-> t.buffer,
           nextId |-> t.nextId]
  BY DEF Stores
<1>4. /\ t.inFlight \in Seq(Methods) /\ t.paused \in BOOLEAN /\ t.buffer \in Buffers
      /\ t.nextId \in Nat \ {0}
  BY DEF Stores
<1> HIDE DEF v
<1>5. /\ v \in Stores /\ v.entries = s /\ v.inFlight = t.inFlight /\ v.buffer = t.buffer
      /\ v.nextId = t.nextId
  BY <1>1, <1>3, <1>4 DEF Stores
<1>6. /\ u \in Stores /\ u.entries = v.entries /\ u.nextId = v.nextId /\ u.buffer = v.buffer
      /\ KeepsFlight(v, u, v.entries, id, m)
  BY <1>2, <1>5, DroppedStore
<1>7. u \in Stores /\ u.entries = s /\ u.nextId = t.nextId /\ u.buffer = t.buffer
  BY <1>5, <1>6
<1>8. KeepsFlight(t, u, u.entries, id, m)
  BY <1>5, <1>6, Zenon DEF KeepsFlight
<1> QED BY <1>7, <1>8, Zenon DEF s, ShownAtOnce

\* To resume is to show what was held back.
LEMMA ResumedStore ==
    ASSUME NEW t \in Stores
    PROVE  LET u == Resumed(t)
           IN  /\ u \in Stores /\ DOMAIN u.entries = DOMAIN t.entries
               /\ Len(u.entries) = Len(t.entries) /\ u.inFlight = t.inFlight
               /\ u.nextId = t.nextId /\ ~u.paused /\ DOMAIN u.buffer = {}
               /\ \A i \in DOMAIN t.entries :
                     /\ u.entries[i].id = t.entries[i].id
                     /\ u.entries[i].request = t.entries[i].request
                     /\ t.entries[i].id \notin DOMAIN t.buffer => u.entries[i] = t.entries[i]
                     /\ t.entries[i].id \in DOMAIN t.buffer =>
                           /\ u.entries[i].phase = t.buffer[t.entries[i].id].phase
                           /\ u.entries[i].outcome = t.buffer[t.entries[i].id].outcome
<1> DEFINE s == t.entries
           q == [k \in DOMAIN s |-> IF s[k].id \in DOMAIN t.buffer
                                    THEN Patched(s, s[k].id, t.buffer[s[k].id])[k] ELSE s[k]]
<1>1. /\ s \in Seq(TranscriptEntries) /\ DOMAIN s = 1..Len(s) /\ Len(s) \in Nat
      /\ \A n \in DOMAIN t.buffer : t.buffer[n] \in Patches
  <2>1. s \in Seq(TranscriptEntries) /\ t.buffer \in Buffers
    BY DEF Stores
  <2> HIDE DEF s
  <2>2. DOMAIN s = 1..Len(s) /\ Len(s) \in Nat
    BY <2>1
  <2>3. \A n \in DOMAIN t.buffer : t.buffer[n] \in Patches
    BY <2>1 DEF Buffers
  <2> QED BY <2>1, <2>2, <2>3
<1>2. Resumed(t) = [t EXCEPT !.paused = FALSE, !.buffer = <<>>, !.entries = q]
  BY DEF Resumed
<1> HIDE DEF s
<1>3. ASSUME NEW i \in DOMAIN s
      PROVE  /\ q[i] \in TranscriptEntries
             /\ q[i].id = s[i].id /\ q[i].request = s[i].request
             /\ s[i].id \notin DOMAIN t.buffer => q[i] = s[i]
             /\ s[i].id \in DOMAIN t.buffer => /\ q[i].phase = t.buffer[s[i].id].phase
                                              /\ q[i].outcome = t.buffer[s[i].id].outcome
  <2>1. CASE s[i].id \in DOMAIN t.buffer
    <3> DEFINE p == t.buffer[s[i].id]
               r == Patched(s, s[i].id, p)
    <3>1. p \in Patches
      BY <1>1, <2>1
    <3>2. q[i] = r[i]
      BY <2>1
    <3> HIDE DEF p
    <3>3. /\ r \in Seq(TranscriptEntries) /\ DOMAIN r = DOMAIN s /\ Len(r) = Len(s)
          /\ r[i].id = s[i].id /\ r[i].request = s[i].request
          /\ r[i].phase = p.phase /\ r[i].outcome = p.outcome
      BY <1>1, <3>1, PatchedEntries
    <3> HIDE DEF r
    <3>4. r[i] \in TranscriptEntries
      BY <1>1, <3>3
    <3> QED BY <2>1, <3>2, <3>3, <3>4 DEF p
  <2>2. CASE s[i].id \notin DOMAIN t.buffer
    <3>1. s[i] \in TranscriptEntries
      BY <1>1
    <3> QED BY <2>2, <3>1
  <2> QED BY <2>1, <2>2
<1>4. DOMAIN q = DOMAIN s
  OBVIOUS
<1> HIDE DEF q
<1>5. q \in Seq(TranscriptEntries) /\ Len(q) = Len(s)
  <2>1. q \in [1..Len(s) -> TranscriptEntries]
    BY <1>1, <1>2, <1>3, <1>4 DEF q
  <2>2. q \in Seq(TranscriptEntries)
    BY <1>1, <2>1, SeqDef
  <2> QED BY <1>1, <1>4, <2>2
<1>6. Resumed(t) = [entries |-> q, inFlight |-> t.inFlight, paused |-> FALSE, buffer |-> <<>>,
                    nextId |-> t.nextId]
  BY <1>2 DEF Stores
<1>7. <<>> \in Buffers /\ DOMAIN <<>> = {}
  <2>1. <<>> \in [{} -> Patches]
    OBVIOUS
  <2> QED BY <2>1 DEF Buffers
<1>8. t.inFlight \in Seq(Methods) /\ t.nextId \in Nat \ {0}
  BY DEF Stores
<1>9. Resumed(t) \in Stores
  BY <1>5, <1>6, <1>7, <1>8 DEF Stores
<1>10. /\ Resumed(t).entries = q /\ Resumed(t).inFlight = t.inFlight /\ Resumed(t).buffer = <<>>
       /\ Resumed(t).nextId = t.nextId /\ Resumed(t).paused = FALSE
  BY <1>6
<1> QED BY <1>3, <1>4, <1>5, <1>7, <1>9, <1>10 DEF s

-----------------------------------------------------------------------------
(* What a step keeps between stores and calls.                             *)

\* A call that is sent.
LEMMA CallSent ==
    ASSUME NEW R \in Seq(Calls), NEW call \in Calls, NEW Q, Q = Append(R, call)
    PROVE  /\ Q \in Seq(Calls) /\ DOMAIN Q = DOMAIN R \cup {Len(R) + 1}
           /\ Len(R) + 1 \notin DOMAIN R /\ Q[Len(R) + 1] = call
           /\ \A k \in DOMAIN R : Q[k] = R[k]
<1>1. /\ Len(R) \in Nat /\ DOMAIN R = 1..Len(R) /\ Q \in Seq(Calls) /\ Len(Q) = Len(R) + 1
      /\ Q[Len(R) + 1] = call /\ \A k \in 1..Len(R) : Q[k] = R[k]
  OBVIOUS
<1>2. DOMAIN Q = 1..Len(R) + 1
  BY <1>1
<1> QED BY <1>1, <1>2

\* The new entry is that of the call, and those that the ring drops are missed by
\* nobody.
LEMMA BegunFits ==
    ASSUME NEW c, NEW t \in Stores, Len(t.entries) <= RingCap, NEW R \in Seq(Calls),
           StoreFits(t, c, R), NEW call \in Calls, call.at = c, call.id = t.nextId,
           call.reply = NoData, NEW Q, Q = Append(R, call), NEW u, u = Begun(t, call.request)
    PROVE  StoreFits(u, c, Q)
<1> DEFINE N == Len(R) + 1
           r == call.request
<1>1. r \in Catalogue /\ t.nextId \in Nat \ {0}
  BY DEF Calls, Stores
<1>2. /\ DOMAIN Q = DOMAIN R \cup {N} /\ N \notin DOMAIN R /\ Q[N] = call
      /\ \A k \in DOMAIN R : Q[k] = R[k] /\ R[k].id \in Nat
  <2>1. \A k \in DOMAIN R : R[k] \in Calls
    OBVIOUS
  <2>2. \A k \in DOMAIN R : R[k].id \in Nat
    BY <2>1 DEF Calls
  <2> QED BY <2>2, CallSent
<1>3. /\ u \in Stores /\ u.nextId = t.nextId + 1 /\ u.buffer = t.buffer
      /\ u.paused = t.paused
      /\ 1 \in DOMAIN u.entries
      /\ u.entries[1] = [id |-> t.nextId, request |-> r, phase |-> "pending", outcome |-> "pending"]
      /\ \A i \in DOMAIN u.entries :
            i # 1 => i - 1 \in DOMAIN t.entries /\ u.entries[i] = t.entries[i - 1]
      /\ Includes(u.inFlight, r.method)
      /\ \A m : Includes(t.inFlight, m) => Includes(u.inFlight, m)
  BY <1>1, BegunStore
<1> HIDE DEF N
<1>4. \A k \in DOMAIN R : R[k].at = c => R[k].id < t.nextId
  BY DEF StoreFits
<1>5. \A k \in DOMAIN Q : Q[k].at = c => Q[k].id < u.nextId
  BY <1>1, <1>2, <1>3, <1>4
<1>6. \A k, l \in DOMAIN Q : Q[k].at = c /\ Q[l].at = c /\ Q[k].id = Q[l].id => k = l
  <2>1. \A k, l \in DOMAIN R : R[k].at = c /\ R[l].at = c /\ R[k].id = R[l].id => k = l
    BY DEF StoreFits
  <2>2. \A k \in DOMAIN R : R[k].at = c => R[k].id # call.id
    BY <1>1, <1>2, <1>4
  <2> QED BY <1>2, <2>1, <2>2
<1>7. \A n \in DOMAIN t.buffer :
          \E k \in DOMAIN R : /\ R[k].at = c /\ R[k].id = n /\ R[k].reply # NoData
                              /\ t.buffer[n] = PatchFor(R[k].reply)
  BY DEF StoreFits
<1>8. \A n \in DOMAIN u.buffer :
          \E k \in DOMAIN Q : /\ Q[k].at = c /\ Q[k].id = n /\ Q[k].reply # NoData
                              /\ u.buffer[n] = PatchFor(Q[k].reply)
  BY <1>2, <1>3, <1>7
<1>9. t.nextId \notin DOMAIN t.buffer
  BY <1>1, <1>2, <1>4, <1>7
<1>10. ASSUME NEW i \in DOMAIN u.entries
       PROVE  /\ u.entries[i].id = u.nextId - i
              /\ \E k \in DOMAIN Q :
                    /\ Q[k].at = c /\ Q[k].id = u.entries[i].id
                    /\ Q[k].request = u.entries[i].request
                    /\ Tells(u, u.entries[i], Q[k].reply)
  <2>1. CASE i = 1
    <3>1. /\ u.entries[i].id = u.nextId - i /\ u.entries[i].id = call.id
          /\ u.entries[i].request = r
          /\ u.entries[i].phase = "pending" /\ u.entries[i].outcome = "pending"
      BY <1>1, <1>3, <2>1
    <3>2. Tells(u, u.entries[i], Q[N].reply)
      BY <1>2, <3>1 DEF Tells
    <3> QED BY <1>2, <3>1, <3>2
  <2>2. CASE i # 1
    <3>1. /\ i - 1 \in DOMAIN t.entries /\ u.entries[i] = t.entries[i - 1]
      BY <1>3, <2>2
    <3>2. /\ t.entries[i - 1].id = t.nextId - (i - 1)
          /\ \E k \in DOMAIN R :
                /\ R[k].at = c /\ R[k].id = t.entries[i - 1].id
                /\ R[k].request = t.entries[i - 1].request
                /\ Tells(t, t.entries[i - 1], R[k].reply)
      BY <3>1 DEF StoreFits
    <3>3. i \in Nat
      BY <1>3 DEF Stores
    <3>4. u.entries[i].id = u.nextId - i
      <4>1. u.nextId = t.nextId + 1 /\ t.nextId \in Nat
        BY <1>1, <1>3
      <4>2. \A a, b \in Nat : (a + 1) - b = a - (b - 1)
        OBVIOUS
      <4>3. u.nextId - i = t.nextId - (i - 1)
        <5>1. (t.nextId + 1) - i = t.nextId - (i - 1)
          BY <3>3, <4>1, <4>2
        <5> QED BY <4>1, <5>1
      <4> QED BY <3>1, <3>2, <4>3
    <3>5. \A e, x : Tells(t, e, x) => Tells(u, e, x)
      BY <1>3 DEF Tells
    <3> QED BY <1>2, <3>1, <3>2, <3>4, <3>5
  <2> QED BY <2>1, <2>2
<1>11. u.paused \/ DOMAIN u.buffer = {}
  <2>1. t.paused \/ DOMAIN t.buffer = {}
    BY DEF StoreFits
  <2> QED BY <1>3, <2>1
<1>12. ASSUME NEW k \in DOMAIN Q, Q[k].at = c, Q[k].reply = NoData,
              NEW i \in DOMAIN u.entries, u.entries[i].id = Q[k].id
       PROVE  Includes(u.inFlight, Q[k].request.method)
  <2>1. CASE k = N
    BY <1>2, <1>3, <2>1
  <2>2. CASE k \in DOMAIN R
    <3>1. Q[k] = R[k] /\ R[k].id < t.nextId /\ R[k].id \in Nat
      BY <1>2, <1>4, <1>12, <2>2
    <3>2. i # 1
      BY <1>1, <1>3, <1>12, <3>1
    <3>3. i - 1 \in DOMAIN t.entries /\ t.entries[i - 1].id = R[k].id
      BY <1>3, <1>12, <3>1, <3>2
    <3>4. Includes(t.inFlight, R[k].request.method)
      BY <1>12, <2>2, <3>1, <3>3 DEF StoreFits
    <3> QED BY <1>3, <3>1, <3>4
  <2> QED BY <1>2, <2>1, <2>2
<1> QED BY <1>5, <1>6, <1>8, <1>10, <1>11, <1>12 DEF StoreFits

\* A call to another charger is no matter of this one.
LEMMA OtherSent ==
    ASSUME NEW c, NEW t, NEW R \in Seq(Calls), StoreFits(t, c, R),
           NEW call \in Calls, call.at # c, NEW Q, Q = Append(R, call)
    PROVE  StoreFits(t, c, Q)
<1> DEFINE N == Len(R) + 1
<1>1. /\ DOMAIN Q = DOMAIN R \cup {N} /\ N \notin DOMAIN R /\ Q[N].at # c
      /\ \A k \in DOMAIN R : Q[k] = R[k]
  BY CallSent
<1> HIDE DEF N
<1>2. \A k \in DOMAIN Q : Q[k].at = c => k \in DOMAIN R /\ Q[k] = R[k]
  BY <1>1
<1>3. DOMAIN R \subseteq DOMAIN Q
  BY <1>1
<1> QED BY <1>1, <1>2, <1>3 DEF StoreFits

\* The calls Q are the calls R, of which the k-th has got its reply.
Answering(R, k, reply, Q) ==
    /\ Q \in Seq(Calls) /\ DOMAIN Q = DOMAIN R /\ Len(Q) = Len(R)
    /\ Q[k].at = R[k].at /\ Q[k].id = R[k].id /\ Q[k].request = R[k].request
    /\ Q[k].visit = R[k].visit /\ Q[k].reply = reply
    /\ \A l \in DOMAIN R : l # k => Q[l] = R[l]

LEMMA CallAnswered ==
    ASSUME NEW R \in Seq(Calls), NEW k \in DOMAIN R, NEW reply \in Replies, NEW Q,
           Q = [R EXCEPT ![k].reply = reply]
    PROVE  Answering(R, k, reply, Q)
<1> DEFINE call == [R[k] EXCEPT !.reply = reply]
<1>1. R[k] \in Calls
  OBVIOUS
<1>2. /\ call \in Calls /\ call.at = R[k].at /\ call.id = R[k].id
      /\ call.request = R[k].request /\ call.reply = reply /\ call.visit = R[k].visit
  BY <1>1 DEF Calls
<1>3. Q = [R EXCEPT ![k] = call]
  OBVIOUS
<1> HIDE DEF call
<1>4. /\ Q \in Seq(Calls) /\ DOMAIN Q = DOMAIN R /\ Len(Q) = Len(R)
      /\ Q[k] = call /\ \A l \in DOMAIN R : l # k => Q[l] = R[l]
  BY <1>2, <1>3
<1> QED BY <1>2, <1>4 DEF Answering

\* The answer goes to the entry of its call, at once or when the transcript resumes;
\* a method that another entry waits for stays in flight.
LEMMA AnsweredFits ==
    ASSUME NEW c, NEW t \in Stores, NEW R \in Seq(Calls), StoreFits(t, c, R),
           NEW k \in DOMAIN R, R[k].at = c, R[k].reply = NoData, NEW reply \in Replies,
           NEW Q, Answering(R, k, reply, Q),
           NEW u, u = Completed(t, R[k].id, R[k].request.method, PatchFor(reply))
    PROVE  StoreFits(u, c, Q) /\ u \in Stores /\ Len(u.entries) = Len(t.entries)
<1> DEFINE p == PatchFor(reply)
<1>1. p \in Patches
  BY PatchType
<1> HIDE DEF p
<1>2. /\ DOMAIN Q = DOMAIN R
      /\ Q[k].at = R[k].at /\ Q[k].id = R[k].id /\ Q[k].request = R[k].request
      /\ Q[k].reply = reply /\ \A l \in DOMAIN R : l # k => Q[l] = R[l]
  BY DEF Answering
<1>3. reply # NoData
  BY CommandsAssumption DEF Replies
<1> DEFINE mine == R[k].id
           method == R[k].request.method
<1>4. mine \in Nat
  <2>1. R[k] \in Calls
    OBVIOUS
  <2> QED BY <2>1 DEF Calls
<1>5. u = Completed(t, mine, method, p)
  BY DEF p
<1> HIDE DEF mine, method
<1>6. /\ \A l \in DOMAIN R : R[l].at = c => R[l].id < t.nextId
      /\ \A l \in DOMAIN R : R[l].at = c /\ R[l].id = mine => l = k
      /\ \A j, l \in DOMAIN R : R[j].at = c /\ R[l].at = c /\ R[j].id = R[l].id => j = l
  BY DEF StoreFits, mine
<1>7. mine \notin DOMAIN t.buffer
  BY <1>6 DEF StoreFits
<1>8. \A l \in DOMAIN Q : /\ Q[l].at = R[l].at /\ Q[l].id = R[l].id
                         /\ Q[l].request = R[l].request
                         /\ l # k => Q[l].reply = R[l].reply
  BY <1>2
\* What does not depend on whether the transcript is paused.
<1>9. ASSUME NEW s, s = u.entries, DOMAIN s = DOMAIN t.entries, u.nextId = t.nextId,
             \A i \in DOMAIN s : /\ s[i].id = t.entries[i].id
                               /\ s[i].request = t.entries[i].request,
             \A i \in DOMAIN s : s[i].id = mine => Tells(u, s[i], reply),
             \A i \in DOMAIN s : \A x : s[i].id # mine /\ Tells(t, t.entries[i], x) => Tells(u, s[i], x),
             u.paused \/ DOMAIN u.buffer = {},
             \A n \in DOMAIN u.buffer :
                (n = mine /\ u.buffer[n] = p) \/ (n \in DOMAIN t.buffer /\ u.buffer[n] = t.buffer[n]),
             \A i \in DOMAIN s :
                t.entries[i].id # mine /\ t.entries[i].phase = "pending"
                  => s[i].phase = "pending",
             KeepsFlight(t, u, s, mine, method)
      PROVE  StoreFits(u, c, Q)
  <2>0. /\ DOMAIN s = DOMAIN t.entries /\ u.nextId = t.nextId
        /\ \A i \in DOMAIN s : s[i].id = t.entries[i].id /\ s[i].request = t.entries[i].request
    BY <1>9
  <2>1. \A l \in DOMAIN Q : Q[l].at = c => Q[l].id < u.nextId
    BY <1>2, <1>6, <1>8, <2>0
  <2>2. \A j, l \in DOMAIN Q : Q[j].at = c /\ Q[l].at = c /\ Q[j].id = Q[l].id => j = l
    BY <1>2, <1>6, <1>8
  <2>3. ASSUME NEW i \in DOMAIN s
        PROVE  /\ s[i].id = u.nextId - i
               /\ \E l \in DOMAIN Q : /\ Q[l].at = c /\ Q[l].id = s[i].id
                                     /\ Q[l].request = s[i].request
                                     /\ Tells(u, s[i], Q[l].reply)
    <3>1. t.entries[i].id = t.nextId - i
      BY <1>9, <2>3 DEF StoreFits
    <3>2. PICK l \in DOMAIN R : /\ R[l].at = c /\ R[l].id = t.entries[i].id
                               /\ R[l].request = t.entries[i].request
                               /\ Tells(t, t.entries[i], R[l].reply)
      BY <1>9, <2>3 DEF StoreFits
    <3>3. CASE l = k
      <4>1. s[i].id = mine
        BY <1>9, <2>3, <3>2, <3>3 DEF mine
      <4>2. Tells(u, s[i], Q[l].reply)
        BY <1>2, <1>9, <2>3, <3>3, <4>1
      <4>3. /\ l \in DOMAIN Q /\ Q[l].at = c /\ Q[l].id = s[i].id
            /\ Q[l].request = s[i].request
        BY <1>2, <1>8, <2>0, <2>3, <3>2
      <4> QED BY <1>9, <2>3, <3>1, <4>2, <4>3
    <3>4. CASE l # k
      <4>1. s[i].id # mine
        BY <1>6, <2>0, <2>3, <3>2, <3>4
      <4>2. Tells(u, s[i], Q[l].reply)
        BY <1>2, <1>8, <1>9, <2>3, <3>2, <3>4, <4>1
      <4>3. /\ l \in DOMAIN Q /\ Q[l].at = c /\ Q[l].id = s[i].id
            /\ Q[l].request = s[i].request
        BY <1>2, <1>8, <2>0, <2>3, <3>2
      <4> QED BY <1>9, <2>3, <3>1, <4>2, <4>3
    <3> QED BY <3>3, <3>4
  <2>4. ASSUME NEW n \in DOMAIN u.buffer
        PROVE  \E l \in DOMAIN Q : /\ Q[l].at = c /\ Q[l].id = n /\ Q[l].reply # NoData
                                  /\ u.buffer[n] = PatchFor(Q[l].reply)
    <3>1. CASE n = mine /\ u.buffer[n] = p
      BY <1>2, <1>3, <3>1 DEF mine, p
    <3>2. CASE n \in DOMAIN t.buffer /\ u.buffer[n] = t.buffer[n]
      <4>1. PICK l \in DOMAIN R : /\ R[l].at = c /\ R[l].id = n /\ R[l].reply # NoData
                                 /\ t.buffer[n] = PatchFor(R[l].reply)
        BY <3>2 DEF StoreFits
      <4>2. l # k
        BY <4>1
      <4> QED BY <1>2, <3>2, <4>1, <4>2
    <3> QED BY <1>9, <2>4, <3>1, <3>2
  <2>5. ASSUME NEW l \in DOMAIN Q, Q[l].at = c, Q[l].reply = NoData,
               NEW i \in DOMAIN s, s[i].id = Q[l].id
        PROVE  Includes(u.inFlight, Q[l].request.method)
    <3>1. l \in DOMAIN R /\ l # k /\ Q[l] = R[l]
      BY <1>2, <1>3, <2>5
    <3>2. i \in DOMAIN t.entries /\ t.entries[i].id = R[l].id
      BY <1>9, <2>5, <3>1
    <3>3. Includes(t.inFlight, R[l].request.method)
      BY <2>5, <3>1, <3>2 DEF StoreFits
    <3>4. PICK j \in DOMAIN R : /\ R[j].at = c /\ R[j].id = t.entries[i].id
                               /\ R[j].request = t.entries[i].request
                               /\ Tells(t, t.entries[i], R[j].reply)
      BY <3>2 DEF StoreFits
    <3>5. j = l
      BY <1>6, <2>5, <3>1, <3>2, <3>4
    <3>6. t.entries[i].phase = "pending"
      BY <2>5, <3>1, <3>4, <3>5 DEF Tells
    <3>7. t.entries[i].id # mine
      BY <1>6, <2>5, <3>1, <3>2
    <3>8. s[i].id # mine /\ s[i].request.method = R[l].request.method /\ s[i].phase = "pending"
      BY <1>9, <2>5, <3>4, <3>5, <3>6, <3>7
    <3>9. R[l].request.method = method => StillPending(s, mine, method)
      BY <2>5, <3>8 DEF StillPending
    <3>10. Includes(u.inFlight, R[l].request.method)
      BY <1>9, <3>3, <3>9, Zenon DEF KeepsFlight
    <3> QED BY <3>1, <3>10
  <2>6. \A i \in DOMAIN u.entries :
          /\ u.entries[i].id = u.nextId - i
          /\ \E l \in DOMAIN Q : /\ Q[l].at = c /\ Q[l].id = u.entries[i].id
                                /\ Q[l].request = u.entries[i].request
                                /\ Tells(u, u.entries[i], Q[l].reply)
    BY <1>9, <2>3
  <2>7. \A l \in DOMAIN Q :
           Q[l].at = c /\ Q[l].reply = NoData
             /\ (\E i \in DOMAIN u.entries : u.entries[i].id = Q[l].id)
           => Includes(u.inFlight, Q[l].request.method)
    BY <1>9, <2>5
  <2>8. u.paused \/ DOMAIN u.buffer = {}
    BY <1>9
  <2> QED BY <2>1, <2>2, <2>4, <2>6, <2>7, <2>8, Zenon DEF StoreFits
<1>10. t \in Stores /\ t.entries \in Seq(TranscriptEntries) /\ p \in Patches
  BY <1>1 DEF Stores
<1>11. CASE t.paused = TRUE
  <2>0. t \in Stores /\ t.paused = TRUE /\ mine \in Nat /\ p \in Patches
    BY <1>4, <1>10, <1>11
  <2>00. u = Completed(t, mine, method, p)
    BY <1>5
  <2>1. HeldBack(t, u, mine, method, p)
    BY <2>0, <2>00, HeldStore
  <2>2. /\ u \in Stores /\ u.entries = t.entries /\ u.nextId = t.nextId
        /\ u.buffer = With(t.buffer, mine, p)
        /\ KeepsFlight(t, u, t.entries, mine, method)
    BY <2>1 DEF HeldBack
  <2>3. PICK b : b = u.buffer /\ b = With(t.buffer, mine, p)
    BY <2>2
  <2>4. /\ DOMAIN u.buffer = DOMAIN t.buffer \cup {mine} /\ u.buffer[mine] = p
        /\ \A n \in DOMAIN t.buffer : u.buffer[n] = t.buffer[n]
    <3>1. /\ DOMAIN b = DOMAIN t.buffer \cup {mine} /\ b[mine] = p
          /\ \A n \in DOMAIN t.buffer \ {mine} : b[n] = t.buffer[n]
      BY <2>3 DEF With
    <3> QED BY <1>7, <2>3, <3>1
  <2> DEFINE s == t.entries
  <2>5. ASSUME NEW i \in DOMAIN s, s[i].id = mine PROVE Tells(u, s[i], reply)
    <3>1. PICK l \in DOMAIN R : R[l].at = c /\ R[l].id = s[i].id /\ Tells(t, s[i], R[l].reply)
      BY <2>5 DEF StoreFits
    <3>2. l = k
      BY <1>6, <2>5, <3>1
    <3> QED BY <2>4, <2>5, <3>1, <3>2 DEF Tells
  <2>6. \A i \in DOMAIN s : \A x : s[i].id # mine /\ Tells(t, s[i], x) => Tells(u, s[i], x)
    BY <2>4 DEF Tells
  <2>7. \A n \in DOMAIN u.buffer :
           (n = mine /\ u.buffer[n] = p) \/ (n \in DOMAIN t.buffer /\ u.buffer[n] = t.buffer[n])
    BY <2>4
  <2> HIDE DEF s
  <2>8. s = u.entries /\ s = t.entries
    BY <2>2 DEF s
  <2>9. /\ DOMAIN s = DOMAIN t.entries
        /\ KeepsFlight(t, u, s, mine, method)
        /\ \A i \in DOMAIN s : /\ s[i].id = t.entries[i].id
                               /\ s[i].request = t.entries[i].request
        /\ \A i \in DOMAIN s : t.entries[i].id # mine /\ t.entries[i].phase = "pending"
                                 => s[i].phase = "pending"
    BY <2>2, <2>8
  <2>10. \A i \in DOMAIN s : \A x : s[i].id # mine /\ Tells(t, t.entries[i], x) => Tells(u, s[i], x)
    BY <2>6, <2>8
  <2>11. StoreFits(u, c, Q)
    <3>1. u.paused \/ DOMAIN u.buffer = {}
      BY <2>1, Zenon DEF HeldBack
    <3> QED BY <1>9, <2>2, <2>5, <2>7, <2>8, <2>9, <2>10, <3>1, Zenon
  <2> QED BY <2>2, <2>11
<1>12. CASE t.paused = FALSE
  <2> DEFINE s == Patched(t.entries, mine, p)
  <2>0. ShownAtOnce(t, u, mine, method, p)
    BY <1>4, <1>5, <1>10, <1>12, PatchedStore
  <2>1. /\ u \in Stores /\ u.entries = s /\ u.nextId = t.nextId /\ u.buffer = t.buffer
        /\ KeepsFlight(t, u, u.entries, mine, method)
    BY <2>0 DEF ShownAtOnce
  <2>2. /\ DOMAIN s = DOMAIN t.entries /\ Len(s) = Len(t.entries)
        /\ \A i \in DOMAIN s :
              /\ s[i].id = t.entries[i].id /\ s[i].request = t.entries[i].request
              /\ t.entries[i].id # mine => s[i] = t.entries[i]
              /\ t.entries[i].id = mine => s[i].phase = p.phase /\ s[i].outcome = p.outcome
    BY <1>10, PatchedEntries
  <2>3. DOMAIN u.buffer = {} /\ DOMAIN t.buffer = {}
    BY <1>12, <2>1 DEF StoreFits
  <2> HIDE DEF s
  <2>4. /\ KeepsFlight(t, u, s, mine, method)
        /\ s = u.entries
    BY <2>1
  <2>5. \A i \in DOMAIN s : s[i].id = mine => Tells(u, s[i], reply)
    BY <1>3, <2>2, <2>3 DEF Tells, p
  <2>6. \A i \in DOMAIN s : \A x : s[i].id # mine /\ Tells(t, t.entries[i], x) => Tells(u, s[i], x)
    BY <2>2, <2>3 DEF Tells
  <2>7. StoreFits(u, c, Q)
    <3>1. /\ \A i \in DOMAIN s : s[i].id = t.entries[i].id /\ s[i].request = t.entries[i].request
          /\ \A i \in DOMAIN s : t.entries[i].id # mine /\ t.entries[i].phase = "pending"
                                  => s[i].phase = "pending"
          /\ \A n \in DOMAIN u.buffer :
               (n = mine /\ u.buffer[n] = p) \/ (n \in DOMAIN t.buffer /\ u.buffer[n] = t.buffer[n])
      BY <2>2, <2>3
    <3> QED BY <1>9, <2>1, <2>2, <2>3, <2>4, <2>5, <2>6, <3>1, Zenon
  <2> QED BY <2>1, <2>2, <2>7
<1>13. t.paused \in BOOLEAN
  BY DEF Stores
<1> QED BY <1>11, <1>12, <1>13

\* An answer to a call of another charger is no matter of this one.
LEMMA OtherAnswered ==
    ASSUME NEW c, NEW t, NEW R \in Seq(Calls), StoreFits(t, c, R),
           NEW k \in DOMAIN R, R[k].at # c, NEW reply \in Replies,
           NEW Q, Answering(R, k, reply, Q)
    PROVE  StoreFits(t, c, Q)
<1>1. /\ DOMAIN Q = DOMAIN R /\ Q[k].at # c /\ \A l \in DOMAIN R : l # k => Q[l] = R[l]
  BY DEF Answering
<1>2. \A l \in DOMAIN Q : Q[l].at = c => R[l].at = c /\ Q[l] = R[l]
  BY <1>1
<1>3. \A l \in DOMAIN R : R[l].at = c => Q[l] = R[l]
  BY <1>1
<1> QED BY <1>1, <1>2, <1>3 DEF StoreFits

\* What the buttons of the transcript do to a store.
LEMMA ClearedFits ==
    ASSUME NEW c, NEW t \in Stores, NEW R, StoreFits(t, c, R), NEW u, u = Cleared(t)
    PROVE  u \in Stores /\ StoreFits(u, c, R) /\ Len(u.entries) <= Len(t.entries)
<1>1. u = [entries |-> <<>>, inFlight |-> t.inFlight, paused |-> t.paused, buffer |-> <<>>,
           nextId |-> t.nextId]
  BY DEF Cleared, Stores
<1>2. /\ u.entries = <<>> /\ u.nextId = t.nextId /\ u.buffer = <<>>
      /\ DOMAIN u.entries = {} /\ DOMAIN u.buffer = {}
  BY <1>1
<1>3. StoreFits(u, c, R)
  BY <1>2 DEF StoreFits
<1>4. <<>> \in Buffers
  <2>1. <<>> \in [{} -> Patches]
    OBVIOUS
  <2> QED BY <2>1 DEF Buffers
<1>5. u \in Stores
  BY <1>1, <1>4 DEF Stores
<1>6. Len(u.entries) = 0 /\ Len(t.entries) \in Nat
  BY <1>2 DEF Stores
<1> QED BY <1>3, <1>5, <1>6

LEMMA PausedFits ==
    ASSUME NEW c, NEW t \in Stores, NEW R, StoreFits(t, c, R), NEW u, u = Paused(t)
    PROVE  u \in Stores /\ StoreFits(u, c, R) /\ Len(u.entries) <= Len(t.entries)
<1>1. u = [entries |-> t.entries, inFlight |-> t.inFlight, paused |-> TRUE, buffer |-> t.buffer,
           nextId |-> t.nextId]
  BY DEF Paused, Stores
<1>2. /\ u.entries = t.entries /\ u.nextId = t.nextId /\ u.buffer = t.buffer
      /\ u.inFlight = t.inFlight /\ u.paused
  BY <1>1
<1>3. \A e, x : Tells(u, e, x) <=> Tells(t, e, x)
  BY <1>2 DEF Tells
<1>4. StoreFits(u, c, R)
  BY <1>2, <1>3 DEF StoreFits
<1>5. u \in Stores
  BY <1>1 DEF Stores
<1>6. Len(t.entries) \in Nat
  BY DEF Stores
<1> QED BY <1>2, <1>4, <1>5, <1>6

LEMMA ResumedFits ==
    ASSUME NEW c, NEW t \in Stores, NEW R, StoreFits(t, c, R), NEW u, u = Resumed(t)
    PROVE  u \in Stores /\ StoreFits(u, c, R) /\ Len(u.entries) <= Len(t.entries)
<1>1. /\ u \in Stores /\ DOMAIN u.entries = DOMAIN t.entries
      /\ Len(u.entries) = Len(t.entries) /\ u.inFlight = t.inFlight
      /\ u.nextId = t.nextId /\ ~u.paused /\ DOMAIN u.buffer = {}
      /\ \A i \in DOMAIN t.entries :
            /\ u.entries[i].id = t.entries[i].id
            /\ u.entries[i].request = t.entries[i].request
            /\ t.entries[i].id \notin DOMAIN t.buffer => u.entries[i] = t.entries[i]
            /\ t.entries[i].id \in DOMAIN t.buffer =>
                  /\ u.entries[i].phase = t.buffer[t.entries[i].id].phase
                  /\ u.entries[i].outcome = t.buffer[t.entries[i].id].outcome
  BY ResumedStore
<1>2. \A j, l \in DOMAIN R : R[j].at = c /\ R[l].at = c /\ R[j].id = R[l].id => j = l
  BY DEF StoreFits
<1>3. ASSUME NEW i \in DOMAIN u.entries
      PROVE  /\ u.entries[i].id = u.nextId - i
             /\ \E k \in DOMAIN R : /\ R[k].at = c /\ R[k].id = u.entries[i].id
                                   /\ R[k].request = u.entries[i].request
                                   /\ Tells(u, u.entries[i], R[k].reply)
  <2>1. PICK k \in DOMAIN R : /\ R[k].at = c /\ R[k].id = t.entries[i].id
                             /\ R[k].request = t.entries[i].request
                             /\ Tells(t, t.entries[i], R[k].reply)
    BY <1>1, <1>3 DEF StoreFits
  <2>2. t.entries[i].id = t.nextId - i
    BY <1>1, <1>3 DEF StoreFits
  <2>3. CASE t.entries[i].id \in DOMAIN t.buffer
    <3> DEFINE n == t.entries[i].id
    <3>1. PICK l \in DOMAIN R : /\ R[l].at = c /\ R[l].id = n /\ R[l].reply # NoData
                               /\ t.buffer[n] = PatchFor(R[l].reply)
      BY <2>3 DEF StoreFits
    <3>2. l = k
      BY <1>2, <2>1, <3>1
    <3>3. Tells(u, u.entries[i], R[k].reply)
      BY <1>1, <1>3, <2>3, <3>1, <3>2 DEF Tells
    <3> QED BY <1>1, <1>3, <2>1, <2>2, <3>3
  <2>4. CASE t.entries[i].id \notin DOMAIN t.buffer
    <3>1. Tells(u, u.entries[i], R[k].reply)
      BY <1>1, <1>3, <2>1, <2>4 DEF Tells
    <3> QED BY <1>1, <1>3, <2>1, <2>2, <3>1
  <2> QED BY <2>3, <2>4
<1>4. ASSUME NEW k \in DOMAIN R, R[k].at = c, R[k].reply = NoData,
             NEW i \in DOMAIN u.entries, u.entries[i].id = R[k].id
      PROVE  Includes(u.inFlight, R[k].request.method)
  BY <1>1, <1>4 DEF StoreFits
<1>5. \A k \in DOMAIN R : R[k].at = c => R[k].id < u.nextId
  BY <1>1 DEF StoreFits
<1>6. StoreFits(u, c, R)
  BY <1>1, <1>2, <1>3, <1>4, <1>5 DEF StoreFits
<1>7. Len(t.entries) \in Nat
  BY DEF Stores
<1> QED BY <1>1, <1>6, <1>7

-----------------------------------------------------------------------------
(* The steps on the stores of all chargers.                                *)

\* A command is sent.
LEMMA SentFits ==
    ASSUME Fit(transcript, rpcs), NEW c \in Station, NEW visit \in Nat,
           NEW request \in Catalogue, Sent(c, visit, request)
    PROVE  Fit(transcript', rpcs')
<1> DEFINE t == transcript[c]
           u == Begun(t, request)
           call == [at |-> c, id |-> t.nextId, visit |-> visit, request |-> request,
                    reply |-> NoData]
<1>1. /\ transcript \in [Station -> Stores] /\ rpcs \in Seq(Calls)
      /\ \A x \in Station : Len(transcript[x].entries) <= RingCap
      /\ \A x \in Station : StoreFits(transcript[x], x, rpcs)
  BY DEF Fit, AllFit
<1>2. t \in Stores /\ Len(t.entries) <= RingCap /\ StoreFits(t, c, rpcs)
  BY <1>1
<1>3. transcript' = [transcript EXCEPT ![c] = u] /\ rpcs' = Append(rpcs, call)
  BY DEF Sent
<1>4. /\ call \in Calls /\ call.at = c /\ call.id = t.nextId /\ call.reply = NoData
      /\ call.request = request
  BY <1>2 DEF Calls, Stores
<1> HIDE DEF t, call
<1>5. u \in Stores /\ Len(u.entries) <= RingCap
  BY <1>2, BegunStore
<1>6. StoreFits(u, c, rpcs')
  BY <1>1, <1>2, <1>3, <1>4, BegunFits
<1>7. ASSUME NEW x \in Station, x # c PROVE StoreFits(transcript[x], x, rpcs')
  BY <1>1, <1>3, <1>4, <1>7, OtherSent
<1>8. rpcs' \in Seq(Calls)
  BY <1>1, <1>3, <1>4
<1> HIDE DEF u
<1>9. /\ transcript' \in [Station -> Stores] /\ transcript'[c] = u
      /\ \A x \in Station : x # c => transcript'[x] = transcript[x]
  BY <1>1, <1>3, <1>5
<1> QED BY <1>1, <1>5, <1>6, <1>7, <1>8, <1>9 DEF Fit, AllFit

\* A call is answered.
LEMMA AnsweredAllFit ==
    ASSUME NEW T, NEW R, Fit(T, R), NEW k \in DOMAIN R, R[k].reply = NoData,
           NEW reply \in Replies, NEW Q, Answering(R, k, reply, Q),
           NEW U, U = [T EXCEPT ![R[k].at] =
                          Completed(@, R[k].id, R[k].request.method, PatchFor(reply))]
    PROVE  Fit(U, Q)
<1> DEFINE c == R[k].at
           u == Completed(T[c], R[k].id, R[k].request.method, PatchFor(reply))
<1>1. /\ T \in [Station -> Stores] /\ R \in Seq(Calls)
      /\ \A x \in Station : Len(T[x].entries) <= RingCap
      /\ \A x \in Station : StoreFits(T[x], x, R)
  BY DEF Fit, AllFit
<1>2. c \in Station
  <2>1. R[k] \in Calls
    BY <1>1
  <2> QED BY <2>1 DEF Calls
<1>3. StoreFits(u, c, Q) /\ u \in Stores /\ Len(u.entries) = Len(T[c].entries)
  BY <1>1, <1>2, AnsweredFits
<1>4. ASSUME NEW x \in Station, x # c PROVE StoreFits(T[x], x, Q)
  BY <1>1, <1>4, OtherAnswered
<1>5. U = [T EXCEPT ![c] = u]
  OBVIOUS
<1> HIDE DEF u, c
<1>6. /\ U \in [Station -> Stores] /\ U[c] = u /\ \A x \in Station : x # c => U[x] = T[x]
  BY <1>1, <1>2, <1>3, <1>5
<1>7. Q \in Seq(Calls)
  BY DEF Answering
<1>8. \A x \in Station : Len(U[x].entries) <= RingCap /\ StoreFits(U[x], x, Q)
  BY <1>1, <1>2, <1>3, <1>4, <1>6
<1> QED BY <1>6, <1>7, <1>8 DEF Fit, AllFit

\* A button changes the store of one charger.
LEMMA ButtonFits ==
    ASSUME Fit(transcript, rpcs), NEW c \in Station, NEW u \in Stores,
           StoreFits(u, c, rpcs), Len(u.entries) <= Len(transcript[c].entries),
           transcript' = [transcript EXCEPT ![c] = u], rpcs' = rpcs
    PROVE  Fit(transcript', rpcs')
<1>1. /\ transcript \in [Station -> Stores] /\ rpcs \in Seq(Calls)
      /\ \A x \in Station : Len(transcript[x].entries) <= RingCap
      /\ \A x \in Station : StoreFits(transcript[x], x, rpcs)
  BY DEF Fit, AllFit
<1>2. /\ transcript' \in [Station -> Stores] /\ transcript'[c] = u
      /\ \A x \in Station : x # c => transcript'[x] = transcript[x]
  BY <1>1
<1>3. \A s \in Stores : Len(s.entries) \in Nat
  BY DEF Stores
<1>4. Len(u.entries) <= RingCap
  BY <1>1, <1>3, CommandsAssumption
<1> QED BY <1>1, <1>2, <1>4 DEF Fit, AllFit

-----------------------------------------------------------------------------
(* The calls that a lost socket rejects.                                   *)

\* What holds of 0, and of n + 1 when it holds of n, holds up to N.
LEMMA UpTo ==
    ASSUME NEW N \in Nat, NEW G, 0 \in G, \A n \in Nat : n < N /\ n \in G => n + 1 \in G
    PROVE  \A n \in 0..N : n \in G
<1> DEFINE B == {n \in 0..N : n \notin G}
<1> SUFFICES ASSUME B # {} PROVE FALSE
  OBVIOUS
<1>1. B \in SUBSET Nat
  OBVIOUS
<1>2. \A n \in B : n \in 0..N /\ n \notin G
  OBVIOUS
<1>3. \A n \in 0..N : n \notin B => n \in G
  OBVIOUS
<1> HIDE DEF B
<1>4. PICK x \in B : \A y \in B : x <= y
  BY <1>1, LeastNat
<1>5. x \in Nat /\ x # 0 /\ x <= N
  BY <1>2, <1>4
<1>6. x - 1 \in Nat /\ x - 1 < N /\ x - 1 \in 0..N /\ ~(x <= x - 1) /\ (x - 1) + 1 = x
  BY <1>5
<1>7. x - 1 \in G
  BY <1>3, <1>4, <1>6
<1>8. x \in G
  BY <1>6, <1>7
<1> QED BY <1>2, <1>4, <1>8

\* One call more, if it is under way.
RejectOne(T, k) == IF Unanswered(k) THEN Answered(T, k, ConnectionLost) ELSE T

\* g holds the transcripts after each of the first n calls.
Table(g, n) == g = [k \in 0..n |-> IF k = 0 THEN transcript ELSE RejectOne(g[k - 1], k)]

LEMMA TableFacts ==
    ASSUME NEW n \in Nat, NEW g, Table(g, n)
    PROVE  /\ g = [k \in 0..n |-> g[k]]
           /\ g[0] = transcript /\ \A k \in 1..n : g[k] = RejectOne(g[k - 1], k)
<1> DEFINE F(k) == IF k = 0 THEN transcript ELSE RejectOne(g[k - 1], k)
<1>1. g = [k \in 0..n |-> F(k)]
  BY DEF Table
<1>2. \A k \in 0..n : g[k] = F(k)
  <2> HIDE DEF F
  <2> QED BY <1>1
<1>3. g = [k \in 0..n |-> g[k]]
  <2> HIDE DEF F
  <2> QED BY <1>1, <1>2
<1>4. g[0] = transcript
  BY <1>2
<1>5. \A k \in 1..n : g[k] = RejectOne(g[k - 1], k)
  BY <1>2
<1> QED BY <1>3, <1>4, <1>5

\* There is a longer table.
LEMMA LongerTable ==
    ASSUME NEW n \in Nat, NEW g, Table(g, n)
    PROVE  \E h : Table(h, n + 1)
<1> DEFINE h == [k \in 0..n + 1 |-> IF k = n + 1 THEN RejectOne(g[n], n + 1) ELSE g[k]]
<1>1. g[0] = transcript /\ \A k \in 1..n : g[k] = RejectOne(g[k - 1], k)
  BY TableFacts
<1>2. /\ h[n + 1] = RejectOne(g[n], n + 1)
      /\ \A k \in 0..n : h[k] = g[k]
      /\ h = [k \in 0..n + 1 |-> h[k]]
  OBVIOUS
<1> HIDE DEF h
<1>3. ASSUME NEW k \in 0..n + 1
      PROVE  h[k] = IF k = 0 THEN transcript ELSE RejectOne(h[k - 1], k)
  <2>1. CASE k = 0
    BY <1>1, <1>2, <2>1
  <2>2. CASE k \in 1..n
    <3>1. k - 1 \in 0..n /\ k \in 0..n /\ k # 0
      BY <2>2
    <3> QED BY <1>1, <1>2, <2>2, <3>1
  <2>3. CASE k = n + 1
    <3>1. k - 1 = n /\ k # 0 /\ n \in 0..n
      BY <2>3
    <3> QED BY <1>2, <2>3, <3>1
  <2> QED BY <2>1, <2>2, <2>3
<1>4. h = [k \in 0..n + 1 |-> IF k = 0 THEN transcript ELSE RejectOne(h[k - 1], k)]
  BY <1>2, <1>3
<1> QED BY <1>4 DEF Table

\* Rejected is the table of all calls.
LEMMA RejectedFacts ==
    ASSUME rpcs \in Seq(Calls)
    PROVE  /\ Rejected[0] = transcript
           /\ \A k \in 1..Len(rpcs) : Rejected[k] = RejectOne(Rejected[k - 1], k)
<1> DEFINE N == Len(rpcs)
           G == {n \in Nat : \E g : Table(g, n)}
<1>1. N \in Nat
  OBVIOUS
<1>2. Rejected = CHOOSE g : g = [k \in 0..N |->
            IF k = 0 THEN transcript
            ELSE IF Unanswered(k) THEN Answered(g[k - 1], k, ConnectionLost)
            ELSE g[k - 1]]
  BY DEF Rejected
<1> HIDE DEF N
<1>3. 0 \in G
  <2> DEFINE g == [k \in 0..0 |-> transcript]
  <2>1. g = [k \in 0..0 |-> IF k = 0 THEN transcript ELSE RejectOne(g[k - 1], k)]
    OBVIOUS
  <2> HIDE DEF g
  <2> QED BY <2>1 DEF Table
<1>4. ASSUME NEW n \in Nat, n < N, n \in G PROVE n + 1 \in G
  <2>1. PICK g : Table(g, n)
    BY <1>4
  <2> QED BY <2>1, LongerTable
<1>5. \A n \in 0..N : n \in G
  <2> HIDE DEF G
  <2> QED BY <1>1, <1>3, <1>4, UpTo
<1>6. \E g : Table(g, N)
  BY <1>1, <1>5
<1>7. Rejected = CHOOSE g : Table(g, N)
  BY <1>2 DEF Table, RejectOne
<1>8. Table(Rejected, N)
  BY <1>6, <1>7
<1> QED BY <1>1, <1>8, TableFacts DEF N

\* The calls when the first n have been rejected.
RejectedCalls(n) ==
    [l \in DOMAIN rpcs |-> IF l <= n /\ Unanswered(l)
                           THEN [rpcs[l] EXCEPT !.reply = ConnectionLost] ELSE rpcs[l]]

AreRejected(R, n) ==
    /\ R \in Seq(Calls) /\ DOMAIN R = DOMAIN rpcs /\ Len(R) = Len(rpcs)
    /\ \A l \in DOMAIN rpcs :
          /\ ~(l <= n /\ Unanswered(l)) => R[l] = rpcs[l]
          /\ l <= n /\ Unanswered(l) => R[l] = [rpcs[l] EXCEPT !.reply = ConnectionLost]

LEMMA RejectedCallsFacts ==
    ASSUME rpcs \in Seq(Calls), NEW n \in Nat, NEW R, R = RejectedCalls(n)
    PROVE  AreRejected(R, n)
<1>1. /\ DOMAIN rpcs = 1..Len(rpcs) /\ Len(rpcs) \in Nat
      /\ \A l \in DOMAIN rpcs : rpcs[l] \in Calls
  OBVIOUS
<1>2. /\ DOMAIN R = DOMAIN rpcs
      /\ \A l \in DOMAIN rpcs :
            R[l] = IF l <= n /\ Unanswered(l)
                   THEN [rpcs[l] EXCEPT !.reply = ConnectionLost] ELSE rpcs[l]
  BY DEF RejectedCalls
<1>3. \A call \in Calls : [call EXCEPT !.reply = ConnectionLost] \in Calls
  <2>1. ConnectionLost \in Replies
    BY DEF Replies
  <2> HIDE DEF ConnectionLost
  <2> QED BY <2>1 DEF Calls
<1>4. \A l \in DOMAIN rpcs : R[l] \in Calls
  BY <1>1, <1>2, <1>3
<1>5. R = [l \in 1..Len(rpcs) |-> R[l]]
  BY <1>1 DEF RejectedCalls
<1>6. R \in [1..Len(rpcs) -> Calls]
  BY <1>1, <1>4, <1>5
<1>7. R \in Seq(Calls)
  BY <1>1, <1>6, SeqDef
<1>8. Len(R) = Len(rpcs)
  BY <1>1, <1>2, <1>7
<1> QED BY <1>2, <1>7, <1>8 DEF AreRejected

\* Rejecting them one by one keeps the stores true to the calls.
LEMMA RejectedFits ==
    ASSUME Fit(transcript, rpcs)
    PROVE  Fit(Rejected[Len(rpcs)], RejectedCalls(Len(rpcs)))
<1> DEFINE N == Len(rpcs)
           G == {n \in Nat : Fit(Rejected[n], RejectedCalls(n))}
<1>1. rpcs \in Seq(Calls) /\ N \in Nat /\ DOMAIN rpcs = 1..N
  BY DEF Fit
<1>2. Rejected[0] = transcript /\ \A k \in 1..N : Rejected[k] = RejectOne(Rejected[k - 1], k)
  BY <1>1, RejectedFacts
<1> HIDE DEF N
<1>3. 0 \in G
  <2>1. PICK R : R = RejectedCalls(0)
    OBVIOUS
  <2>2. R \in Seq(Calls) /\ DOMAIN R = DOMAIN rpcs /\ \A l \in DOMAIN rpcs : R[l] = rpcs[l]
    <3>1. /\ R \in Seq(Calls) /\ DOMAIN R = DOMAIN rpcs
          /\ \A l \in DOMAIN rpcs : ~(l <= 0 /\ Unanswered(l)) => R[l] = rpcs[l]
      <4>1. AreRejected(R, 0)
        BY <1>1, <2>1, RejectedCallsFacts
      <4> QED BY <4>1 DEF AreRejected
    <3> QED BY <1>1, <3>1
  <2>3. R = rpcs
    <3>1. Len(R) = Len(rpcs)
      BY <1>1, <2>1, RejectedCallsFacts DEF AreRejected
    <3> QED BY <1>1, <2>2, <3>1
  <2> QED BY <1>2, <2>1, <2>3
<1>4. ASSUME NEW n \in Nat, n < N, n \in G PROVE n + 1 \in G
  <2> DEFINE k == n + 1
  <2>1. PICK R, Q : R = RejectedCalls(n) /\ Q = RejectedCalls(k)
    OBVIOUS
  <2>2. k \in 1..N /\ k - 1 = n /\ k \in DOMAIN rpcs /\ ~(k <= n) /\ k <= k /\ k \in Nat
    BY <1>1, <1>4
  <2>3. \A l \in DOMAIN rpcs : l # k => (l <= n <=> l <= k)
    BY <1>1
  <2>4. Fit(Rejected[n], R)
    BY <1>4, <2>1
  <2>5. Rejected[k] = RejectOne(Rejected[n], k)
    BY <1>2, <2>2
  <2> HIDE DEF k
  <2>6. /\ R \in Seq(Calls) /\ DOMAIN R = DOMAIN rpcs /\ Len(R) = Len(rpcs)
        /\ \A l \in DOMAIN rpcs :
              /\ ~(l <= n /\ Unanswered(l)) => R[l] = rpcs[l]
              /\ l <= n /\ Unanswered(l) => R[l] = [rpcs[l] EXCEPT !.reply = ConnectionLost]
    <3>1. AreRejected(R, n)
      BY <1>1, <2>1, RejectedCallsFacts
    <3> QED BY <3>1 DEF AreRejected
  <2>7. /\ Q \in Seq(Calls) /\ DOMAIN Q = DOMAIN rpcs /\ Len(Q) = Len(rpcs)
        /\ \A l \in DOMAIN rpcs :
              /\ ~(l <= k /\ Unanswered(l)) => Q[l] = rpcs[l]
              /\ l <= k /\ Unanswered(l) => Q[l] = [rpcs[l] EXCEPT !.reply = ConnectionLost]
    <3>1. AreRejected(Q, k)
      BY <1>1, <2>1, <2>2, RejectedCallsFacts
    <3> QED BY <3>1 DEF AreRejected
  <2>8. \A l \in DOMAIN rpcs : l # k => Q[l] = R[l]
    BY <2>3, <2>6, <2>7
  <2>9. R[k] = rpcs[k]
    BY <2>2, <2>6
  <2>10. CASE Unanswered(k)
    <3>1. Q[k] = [rpcs[k] EXCEPT !.reply = ConnectionLost]
      BY <2>2, <2>7, <2>10
    <3>2. rpcs[k] \in Calls /\ R[k].reply = NoData
      BY <1>1, <2>2, <2>9, <2>10 DEF Unanswered
    <3>3. /\ Q[k].at = R[k].at /\ Q[k].id = R[k].id /\ Q[k].request = R[k].request
          /\ Q[k].visit = R[k].visit /\ Q[k].reply = ConnectionLost
      <4> HIDE DEF ConnectionLost
      <4> QED BY <2>9, <3>1, <3>2 DEF Calls
    <3>4. Answering(R, k, ConnectionLost, Q)
      BY <2>6, <2>7, <2>8, <3>3 DEF Answering
    <3>5. Rejected[k] = [Rejected[n] EXCEPT ![R[k].at] =
                            Completed(@, R[k].id, R[k].request.method, PatchFor(ConnectionLost))]
      BY <2>5, <2>9, <2>10 DEF RejectOne, Answered
    <3>6. k \in DOMAIN R /\ ConnectionLost \in Replies
      BY <2>2, <2>6 DEF Replies
    <3>7. Fit(Rejected[k], Q)
      BY <2>4, <3>2, <3>4, <3>5, <3>6, AnsweredAllFit
    <3> QED BY <2>1, <2>2, <3>7 DEF k
  <2>11. CASE ~Unanswered(k)
    <3>1. Q[k] = R[k]
      BY <2>2, <2>7, <2>9, <2>11
    <3>2. Q = R
      BY <2>6, <2>7, <2>8, <3>1
    <3>3. Rejected[k] = Rejected[n]
      BY <2>5, <2>11 DEF RejectOne
    <3> QED BY <2>1, <2>2, <2>4, <3>2, <3>3 DEF k
  <2> QED BY <2>10, <2>11
<1>5. \A n \in 0..N : n \in G
  <2> HIDE DEF G
  <2> QED BY <1>1, <1>3, <1>4, UpTo
<1> QED BY <1>1, <1>5 DEF N

-----------------------------------------------------------------------------
(* The invariant says what the transcript has to.                          *)

LEMMA FitIsTrue ==
    ASSUME Fit(transcript, rpcs)
    PROVE  TranscriptIsTrue
<1> SUFFICES ASSUME NEW c \in Station, NEW t, t = transcript[c], NEW u, u = Resumed(t)
             PROVE  /\ \A i \in DOMAIN u.entries :
                          /\ u.entries[i].id = t.nextId - i
                          /\ \E k \in Commands(c) : TranscriptRow(u.entries[i]) = TrueRow(k)
                    /\ \A i \in DOMAIN t.entries :
                          \/ t.entries[i] = u.entries[i]
                          \/ /\ t.paused /\ t.entries[i].phase = "pending"
                             /\ t.entries[i].id = u.entries[i].id
                    /\ \A f \in Filter : Visible(t, f) \subseteq Visible(u, f)
                    /\ \A k \in Commands(c) :
                          Unanswered(k) /\ (\E i \in DOMAIN t.entries : t.entries[i].id = rpcs[k].id)
                             => Includes(t.inFlight, rpcs[k].request.method)
  BY DEF TranscriptIsTrue
<1>1. t \in Stores /\ StoreFits(t, c, rpcs)
  BY DEF Fit, AllFit
<1>2. StoreFits(u, c, rpcs)
  BY <1>1, ResumedFits
<1>3. /\ DOMAIN u.entries = DOMAIN t.entries /\ u.nextId = t.nextId
      /\ DOMAIN u.buffer = {}
      /\ \A i \in DOMAIN t.entries :
            /\ u.entries[i].id = t.entries[i].id
            /\ t.entries[i].id \notin DOMAIN t.buffer => u.entries[i] = t.entries[i]
  BY <1>1, ResumedStore
<1>4. ASSUME NEW i \in DOMAIN u.entries
      PROVE  /\ u.entries[i].id = t.nextId - i
             /\ \E k \in Commands(c) : TranscriptRow(u.entries[i]) = TrueRow(k)
  <2>1. u.entries[i].id = u.nextId - i
    BY <1>2, <1>4 DEF StoreFits
  <2>2. PICK k \in DOMAIN rpcs : /\ rpcs[k].at = c /\ rpcs[k].id = u.entries[i].id
                                /\ rpcs[k].request = u.entries[i].request
                                /\ Tells(u, u.entries[i], rpcs[k].reply)
    BY <1>2, <1>4 DEF StoreFits
  <2>3. u.entries[i].outcome = IF Unanswered(k) THEN "pending" ELSE PatchFor(rpcs[k].reply).outcome
    BY <1>3, <2>2 DEF Tells, Unanswered
  <2>4. k \in Commands(c)
    BY <2>2 DEF Commands
  <2>5. TranscriptRow(u.entries[i]) = TrueRow(k)
    BY <2>2, <2>3 DEF TranscriptRow, TrueRow
  <2> QED BY <1>3, <2>1, <2>4, <2>5
<1>5. ASSUME NEW i \in DOMAIN t.entries, t.entries[i].id \in DOMAIN t.buffer
      PROVE  /\ t.entries[i].phase = "pending" /\ t.entries[i].outcome = "pending"
             /\ DOMAIN t.buffer # {}
  <2>1. PICK k \in DOMAIN rpcs : Tells(t, t.entries[i], rpcs[k].reply)
    BY <1>1, <1>5 DEF StoreFits
  <2> QED BY <1>5, <2>1 DEF Tells
<1>6. ASSUME NEW i \in DOMAIN t.entries
      PROVE  \/ t.entries[i] = u.entries[i]
             \/ /\ t.paused /\ t.entries[i].phase = "pending"
                /\ t.entries[i].id = u.entries[i].id
  <2>1. CASE t.entries[i].id \in DOMAIN t.buffer
    <3>1. t.paused
      BY <1>1, <1>5, <1>6, <2>1 DEF StoreFits
    <3> QED BY <1>3, <1>5, <1>6, <2>1, <3>1
  <2>2. CASE t.entries[i].id \notin DOMAIN t.buffer
    BY <1>3, <1>6, <2>2
  <2> QED BY <2>1, <2>2
<1>7. ASSUME NEW f \in Filter, NEW i \in Visible(t, f) PROVE i \in Visible(u, f)
  <2>1. i \in DOMAIN t.entries /\ i \in DOMAIN u.entries
    BY <1>3, <1>7 DEF Visible
  <2>2. CASE f = "all"
    BY <2>1, <2>2 DEF Visible
  <2>3. CASE f \in {"accepted", "failed"}
    <3>1. t.entries[i].outcome # "pending"
      BY <1>7, <2>3 DEF Visible
    <3>2. u.entries[i] = t.entries[i]
      BY <1>3, <1>5, <2>1, <3>1
    <3> QED BY <1>7, <2>1, <2>3, <3>2 DEF Visible
  <2> QED BY <2>2, <2>3 DEF Filter
<1>8. ASSUME NEW k \in Commands(c), Unanswered(k),
             \E i \in DOMAIN t.entries : t.entries[i].id = rpcs[k].id
      PROVE  Includes(t.inFlight, rpcs[k].request.method)
  BY <1>1, <1>8 DEF StoreFits, Commands, Unanswered
<1> QED BY <1>4, <1>6, <1>7, <1>8

-----------------------------------------------------------------------------
(* The steps of the tab.                                                   *)

\* The forms send what the catalogue has.
LEMMA FormsInCatalogue ==
    ASSUME CommandsTyped
    PROVE  Forms \subseteq Catalogue
<1>1. desk.requestId \in Nat \cup {NoData}
  BY DEF CommandsTyped
<1>2. CancelReservation \subseteq [method : {"cancel-reservation"}, hold : Hold]
  BY DEF CancelReservation
<1>3. TypedDiagnostics \subseteq [method : {"get-diagnostics"}, url : Nat]
  BY DEF TypedDiagnostics, DiagnosticsTo, Typed
<1>4. TypedLog \subseteq [method : {"get-log"}, url : Nat, id : Nat \cup {NoData}]
  BY <1>1 DEF TypedLog, LogTo, Typed
<1> QED BY <1>2, <1>3, <1>4 DEF Forms, Catalogue

LEMMA CommandsStart == CommandsInit => CommandsInv
<1> SUFFICES ASSUME CommandsInit PROVE CommandsInv
  OBVIOUS
<1>1. PICK c \in Station : desk = NewDesk(c, 0)
  BY DEF CommandsInit
<1>2. desk \in [at : Station, visit : Nat, manual : BOOLEAN, picked : Hold \cup {NoData},
                 auto : SUBSET {"GetDiagnostics", "GetLog"}, requestId : Nat \cup {NoData},
                 advanced : BOOLEAN, config : Station \cup {NoData}]
  BY <1>1 DEF NewDesk
<1>3. CommandsTyped
  BY <1>2 DEF CommandsInit, CommandsTyped
<1>4. <<>> \in Buffers
  <2>1. <<>> \in [{} -> Patches]
    OBVIOUS
  <2> QED BY <2>1 DEF Buffers
<1>5. NewTranscript \in Stores
  BY <1>4 DEF NewTranscript, Stores
<1>6. /\ Len(NewTranscript.entries) <= RingCap
      /\ \A x \in Station : StoreFits(NewTranscript, x, <<>>)
  <2>1. /\ NewTranscript.entries = <<>> /\ NewTranscript.buffer = <<>>
        /\ DOMAIN NewTranscript.entries = {} /\ DOMAIN NewTranscript.buffer = {}
    BY DEF NewTranscript
  <2>2. Len(NewTranscript.entries) <= RingCap
    BY <2>1, CommandsAssumption
  <2>3. \A x \in Station : StoreFits(NewTranscript, x, <<>>)
    BY <2>1 DEF StoreFits
  <2> QED BY <2>2, <2>3
<1>7. rpcs = <<>> /\ transcript = [x \in Station |-> NewTranscript]
  BY DEF CommandsInit
<1> HIDE DEF NewTranscript
<1>8. transcript \in [Station -> Stores] /\ \A x \in Station : transcript[x] = NewTranscript
  BY <1>5, <1>7
<1>9. rpcs \in Seq(Calls)
  BY <1>7
<1>10. Fit(transcript, rpcs)
  BY <1>6, <1>7, <1>8, <1>9 DEF Fit, AllFit
<1> QED BY <1>3, <1>10 DEF CommandsInv

LEMMA CommandsStep == CommandsInv /\ [CommandsNext]_commandVars => CommandsInv'
<1> DEFINE Desks == [at : Station, visit : Nat, manual : BOOLEAN, picked : Hold \cup {NoData},
                     auto : SUBSET {"GetDiagnostics", "GetLog"}, requestId : Nat \cup {NoData},
                     advanced : BOOLEAN, config : Station \cup {NoData}]
           Issues == [n : Nat, at : Station, visit : Nat, requestId : Nat \cup {NoData},
                      command : {"GetDiagnostics", "GetLog"}]
<1> SUFFICES ASSUME CommandsInv, [CommandsNext]_commandVars PROVE CommandsInv'
  OBVIOUS
<1>1. /\ CommandsTyped /\ Fit(transcript, rpcs)
      /\ desk \in Desks /\ issues \subseteq Issues /\ urls \in Nat /\ moves \in Nat
      /\ troubles \in Nat /\ stationRow \in [Station -> [online : BOOLEAN, holds : SUBSET Hold]]
  BY DEF CommandsInv, CommandsTyped
<1>2. desk.at \in Station /\ desk.visit \in Nat
  BY <1>1
\* The step keeps the types if it keeps those of what it changes.
<1>3. ASSUME desk' \in Desks, issues' \subseteq Issues, {urls', moves', troubles'} \subseteq Nat,
             stationRow' \in [Station -> [online : BOOLEAN, holds : SUBSET Hold]],
             Fit(transcript', rpcs')
      PROVE  CommandsInv'
  BY <1>3 DEF CommandsInv, CommandsTyped, Fit, AllFit, StoreFits, Tells
<1> HIDE DEF Desks, Issues
\* A step that leaves the stores and the calls alone.
<1>4. ASSUME UNCHANGED <<transcript, rpcs>> PROVE Fit(transcript', rpcs')
  BY <1>1, <1>4
<1>5. CASE Submit
  <2>1. PICK request \in Forms :
            /\ Sent(desk.at, desk.visit, request)
            /\ UNCHANGED <<kit, stationRow, desk, issues, urls, moves, troubles>>
    BY <1>5 DEF Submit
  <2>2. request \in Catalogue
    BY <1>1, FormsInCatalogue
  <2>3. Fit(transcript', rpcs')
    BY <1>1, <1>2, <2>1, <2>2, SentFits
  <2> QED BY <1>1, <1>3, <2>1, <2>3
<1>6. ASSUME NEW command \in {"GetDiagnostics", "GetLog"}, NEW id \in Nat \cup {NoData},
             Asks(command, id)
      PROVE  CommandsInv'
  <2>1. urls' \in Nat /\ UNCHANGED <<kit, stationRow, desk, transcript, rpcs, moves, troubles>>
    BY <1>1, <1>6 DEF Asks
  <2>2. issues' \subseteq Issues
    BY <1>1, <1>2, <1>6, <2>1 DEF Asks, Issues
  <2> QED BY <1>1, <1>3, <1>4, <2>1, <2>2
<1>7. CASE SubmitDiagnostics \/ SubmitLog
  <2>1. desk.requestId \in Nat \cup {NoData}
    BY <1>1 DEF Desks
  <2> QED BY <1>6, <1>7, <2>1 DEF SubmitDiagnostics, SubmitLog
<1>8. CASE IssueAnswered
  <2>1. PICK i \in issues :
            LET id == IF i.requestId = NoData THEN i.n ELSE i.requestId
            IN  /\ issues' = issues \ {i}
                /\ IF i.command = "GetLog"
                     THEN /\ desk' = IF desk.visit = i.visit THEN [desk EXCEPT !.requestId = id]
                                     ELSE desk
                          /\ Sent(i.at, i.visit, LogTo(i.n, id))
                     ELSE desk' = desk /\ Sent(i.at, i.visit, DiagnosticsTo(i.n))
                /\ UNCHANGED <<kit, stationRow, urls, moves, troubles>>
    BY <1>8 DEF IssueAnswered
  <2> DEFINE id == IF i.requestId = NoData THEN i.n ELSE i.requestId
  <2>2. i.n \in Nat /\ i.at \in Station /\ i.visit \in Nat /\ id \in Nat
    BY <1>1 DEF Issues
  <2>3. issues' \subseteq Issues /\ UNCHANGED <<kit, stationRow, urls, moves, troubles>>
    BY <1>1, <2>1
  <2>4. LogTo(i.n, id) \in Catalogue /\ DiagnosticsTo(i.n) \in Catalogue
    BY <2>2 DEF LogTo, DiagnosticsTo, Catalogue
  <2>5. /\ desk' \in {desk, [desk EXCEPT !.requestId = id]}
        /\ \E r \in {LogTo(i.n, id), DiagnosticsTo(i.n)} : Sent(i.at, i.visit, r)
    BY <2>1
  <2> HIDE DEF id
  <2>6. desk' \in Desks
    BY <1>1, <2>2, <2>5 DEF Desks
  <2>7. PICK r \in Catalogue : Sent(i.at, i.visit, r)
    BY <2>4, <2>5
  <2>8. Fit(transcript', rpcs')
    BY <1>1, <2>2, <2>7, SentFits
  <2> QED BY <1>1, <1>3, <2>3, <2>6, <2>8
<1>9. CASE IssueFailed
  BY <1>1, <1>3, <1>4, <1>9 DEF IssueFailed
<1>10. CASE ReplyArrives
  <2>1. PICK k \in DOMAIN rpcs, reply \in Reply :
            /\ Unanswered(k)
            /\ rpcs' = [rpcs EXCEPT ![k].reply = reply]
            /\ transcript' = Answered(transcript, k, reply)
            /\ desk' \in {[desk EXCEPT !.config = rpcs[k].at], desk}
            /\ UNCHANGED <<kit, stationRow, issues, urls, moves, troubles>>
    BY <1>10 DEF ReplyArrives
  <2>2. rpcs \in Seq(Calls) /\ reply \in Replies
    BY <1>1 DEF Fit, Replies
  <2>3. rpcs[k].at \in Station
    <3>1. rpcs[k] \in Calls
      BY <2>2
    <3> QED BY <3>1 DEF Calls
  <2>4. desk' \in Desks
    BY <1>1, <2>1, <2>3 DEF Desks
  <2>5. PICK Q : Q = rpcs' /\ Q = [rpcs EXCEPT ![k].reply = reply]
    BY <2>1
  <2>6. Answering(rpcs, k, reply, Q)
    BY <2>2, <2>5, CallAnswered
  <2>7. Fit(transcript', Q)
    BY <1>1, <2>1, <2>2, <2>6, AnsweredAllFit DEF Unanswered, Answered
  <2> QED BY <1>1, <1>3, <2>1, <2>4, <2>5, <2>7
<1>11. CASE FeedLost
  <2>1. troubles' \in Nat /\ UNCHANGED <<kit, stationRow, desk, issues, urls, moves>>
    BY <1>1, <1>11 DEF FeedLost
  <2>2. rpcs' = RejectedCalls(Len(rpcs))
    <3>1. rpcs \in Seq(Calls)
      BY <1>1 DEF Fit
    <3>2. \A l \in DOMAIN rpcs : l <= Len(rpcs)
      BY <3>1
    <3> QED BY <1>11, <3>2 DEF FeedLost, RejectedCalls
  <2>3. transcript' = Rejected[Len(rpcs)]
    BY <1>11 DEF FeedLost
  <2>4. Fit(transcript', rpcs')
    BY <1>1, <2>2, <2>3, RejectedFits
  <2> QED BY <1>1, <1>3, <2>1, <2>4
<1>12. CASE RowChanges
  <2>1. /\ troubles' \in Nat
        /\ UNCHANGED <<kit, desk, transcript, rpcs, issues, urls, moves>>
        /\ stationRow' \in [Station -> [online : BOOLEAN, holds : SUBSET Hold]]
    BY <1>1, <1>2, <1>12 DEF RowChanges
  <2> QED BY <1>1, <1>3, <1>4, <2>1
\* The operator in the forms.
<1>13. ASSUME NEW method, NEW d \in Desks, InForms(method, d) PROVE CommandsInv'
  <2>1. /\ moves' \in Nat /\ desk' \in Desks
        /\ UNCHANGED <<stationRow, transcript, rpcs, issues, urls, troubles>>
    BY <1>1, <1>13 DEF InForms, Moves
  <2> QED BY <1>1, <1>3, <1>4, <2>1
<1>14. CASE PickHold \/ ToggleManual
  <2>1. \A h \in Hold : [desk EXCEPT !.picked = h] \in Desks
    BY <1>1 DEF Desks
  <2>2. [desk EXCEPT !.manual = ~@, !.picked = NoData] \in Desks
    BY <1>1 DEF Desks
  <2>3. stationRow[desk.at].holds \subseteq Hold
    BY <1>1, <1>2
  <2>4. CASE PickHold
    BY <1>13, <2>1, <2>3, <2>4 DEF PickHold
  <2>5. CASE ToggleManual
    BY <1>13, <2>2, <2>5 DEF ToggleManual
  <2> QED BY <1>14, <2>4, <2>5
<1>15. CASE ToggleAuto
  <2>1. PICK f \in {"GetDiagnostics", "GetLog"} :
           InForms(IF f = "GetLog" THEN "get-log" ELSE "get-diagnostics",
                   [desk EXCEPT !.auto = IF f \in @ THEN @ \ {f} ELSE @ \cup {f}])
    BY <1>15 DEF ToggleAuto
  <2>2. [desk EXCEPT !.auto = IF f \in @ THEN @ \ {f} ELSE @ \cup {f}] \in Desks
    BY <1>1 DEF Desks
  <2> QED BY <1>13, <2>1, <2>2
<1>16. CASE TypeRequestId
  <2>1. [desk EXCEPT !.requestId = Typed] \in Desks
    BY <1>1 DEF Desks, Typed
  <2> QED BY <1>13, <1>16, <2>1 DEF TypeRequestId
<1>17. CASE ToggleAdvanced
  <2>1. [desk EXCEPT !.advanced = ~@] \in Desks
    BY <1>1 DEF Desks
  <2> QED BY <1>13, <1>17, <2>1 DEF ToggleAdvanced
\* The operator in the transcript.
<1>18. ASSUME NEW u \in Stores, StoreFits(u, desk.at, rpcs),
              Len(u.entries) <= Len(transcript[desk.at].entries), InTranscript(u)
       PROVE  CommandsInv'
  <2>1. /\ moves' \in Nat /\ transcript' = [transcript EXCEPT ![desk.at] = u]
        /\ UNCHANGED <<stationRow, desk, rpcs, issues, urls, troubles>>
    BY <1>1, <1>18 DEF InTranscript, Moves
  <2>2. Fit(transcript', rpcs')
    BY <1>1, <1>2, <1>18, <2>1, ButtonFits
  <2> QED BY <1>1, <1>3, <2>1, <2>2
<1>19. CASE Pause \/ Resume \/ ClearTranscript
  <2>1. PICK t : t = transcript[desk.at]
    OBVIOUS
  <2>2. t \in Stores /\ StoreFits(t, desk.at, rpcs)
    BY <1>1, <1>2, <2>1 DEF Fit, AllFit
  <2>3. PICK u \in {Paused(t), Resumed(t), Cleared(t)} : InTranscript(u)
    BY <1>19, <2>1 DEF Pause, Resume, ClearTranscript
  <2>4. u \in Stores /\ StoreFits(u, desk.at, rpcs) /\ Len(u.entries) <= Len(t.entries)
    BY <2>2, <2>3, PausedFits, ResumedFits, ClearedFits
  <2> QED BY <1>18, <2>1, <2>3, <2>4
<1>20. CASE Jump \/ Reopen
  <2>1. /\ moves' \in Nat
        /\ UNCHANGED <<stationRow, transcript, rpcs, issues, urls, troubles>>
    BY <1>1, <1>20 DEF Jump, Reopen, Moves
  <2>2. \A c \in Station : [desk EXCEPT !.at = c] \in Desks
    BY <1>1 DEF Desks
  <2>3. NewDesk(desk.at, desk.visit + 1) \in Desks
    BY <1>2 DEF NewDesk, Desks
  <2>4. desk' \in Desks
    BY <1>20, <2>2, <2>3 DEF Jump, Reopen
  <2> QED BY <1>1, <1>3, <1>4, <2>1, <2>4
<1>21. CASE UNCHANGED commandVars
  <2>1. UNCHANGED <<stationRow, desk, transcript, rpcs, issues, urls, moves, troubles>>
    BY <1>21 DEF commandVars
  <2> QED BY <1>1, <1>3, <1>4, <2>1
<1> QED
  BY <1>5, <1>7, <1>8, <1>9, <1>10, <1>11, <1>12, <1>14, <1>15, <1>16, <1>17, <1>19, <1>20,
     <1>21 DEF CommandsNext

\* The type is part of the invariant.
LEMMA CommandsTypeImplied == CommandsInv => CommandsTypeOK
<1> SUFFICES ASSUME CommandsInv PROVE CommandsTypeOK
  OBVIOUS
<1>1. \A s \in Station : Len(transcript[s].entries) <= RingCap
  BY DEF CommandsInv, Fit
<1> QED BY <1>1 DEF CommandsInv, CommandsTyped, CommandsTypeOK

\* The commands and the transcripts keep their types: a transcript is never longer
\* than its ring, for any chargers, forms and answers.
THEOREM CommandsTypeCorrect == CommandsSpec => []CommandsTypeOK
<1> QED BY CommandsStart, CommandsStep, CommandsTypeImplied, PTL DEF CommandsSpec

\* A row of the transcript is that of a command sent to this charger, with its answer
\* or none while it waits, also across a pause, a lost socket and the ring's end
\* (use-command-transcript.ts:126-191).
THEOREM TranscriptsTellTheTruth == CommandsSpec => []TranscriptIsTrue
<1>1. CommandsInit => CommandsInv
  BY CommandsStart
<1>2. CommandsInv /\ [CommandsNext]_commandVars => CommandsInv'
  BY CommandsStep
<1>3. CommandsInv => TranscriptIsTrue
  BY FitIsTrue DEF CommandsInv
<1> QED BY <1>1, <1>2, <1>3, PTL DEF CommandsSpec
=============================================================================
