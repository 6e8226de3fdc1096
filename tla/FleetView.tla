------------------------------ MODULE FleetView ------------------------------
(***************************************************************************)
(* The list of charge points (FleetPage.tsx) and the page of one of them   *)
(* (ChargerDetailPage.tsx): filters and pages that the gateway applies, a  *)
(* subscription for whatever they are at the moment, and the last delta    *)
(* laid over the last snapshot.                                            *)
(*                                                                         *)
(* A row is a charger's connection and its connectors; `online` stands for *)
(* the five fields that the gateway filters by, and the cp_id search for a *)
(* set of chargers.                                                        *)
(***************************************************************************)
EXTENDS LiveQuery, Integers, FiniteSetsExt, Functions

CONSTANTS
    Fleet,          \* the chargers, 1..n: the gateway lists them in this order
    FleetRow,            \* [online, connectors]; a connector is [status, error]
    Needle,         \* texts of the search box: sets of chargers
    PageSizes,      \* what the page-size control offers
    MaxRowChanges, MaxPicks, MaxListDrops   \* bounds

\* The deltas of both topics.
FleetDeltas == [op : {"upsert", "remove"}, cp : Fleet, row : FleetRow]

ASSUME FleetViewAssumption ==
    /\ IsFiniteSet(Fleet) /\ Fleet \subseteq Nat /\ PageSizes \subseteq Nat \ {0}
    /\ \E n \in PageSizes : \A m \in PageSizes : n >= m
    /\ NoData \notin FleetDeltas
    /\ Needle \subseteq SUBSET Fleet /\ Fleet \in Needle
    /\ {MaxRowChanges, MaxPicks, MaxListDrops} \subseteq Nat

VARIABLES
    fleet,      \* what the gateway holds: a row per charger
    screen,     \* "list", "detail" or "crashed", and the charger of the latter two
    hook,       \* the subscription of the screen
    picks,      \* the filters, the page and its size
    origin,     \* the subscription that sent the last delta: "none", "old", "new" (history)
    missed,     \* a change of the present subscription that is not seen (history)
    early,      \* the page was turned on the totals of another query (history)
    rowChanges, pickCount, listDrops

fleetVars == <<fleet, screen, hook, picks, origin, missed, early,
               rowChanges, pickCount, listDrops>>

-----------------------------------------------------------------------------
(* What a row shows.                                                       *)

ConnectorFaultLevel(c) ==
    IF c.status = "Faulted" THEN "fault"
    ELSE IF c.error THEN "advisory" ELSE "ok"

\* A charger takes the worst of its connectors.
ChargePointFaultLevel(row) ==
    LET levels == {ConnectorFaultLevel(c) : c \in row.connectors}
    IN  CHOOSE l \in {"fault", "advisory", "ok"} :
            \/ l = "fault" /\ l \in levels
            \/ l = "advisory" /\ l \in levels /\ "fault" \notin levels
            \/ l = "ok" /\ levels \subseteq {"ok"}

\* The dot of a connector: any error code is as red as a fault.
ConnectorTone(c) ==
    IF c.error \/ c.status = "Faulted" THEN "destructive" ELSE c.status

Shows(row) == [online |-> row.online,
               dot    |-> ChargePointFaultLevel(row),
               tones  |-> {ConnectorTone(c) : c \in row.connectors}]

-----------------------------------------------------------------------------
(* The gateway's answer to the parameters of the list.                     *)

Matches(q, c, row) ==
    /\ q.online = "all" \/ row.online = (q.online = "online")
    /\ c \in q.search

NthPage(S, size, page) ==
    {c \in S : LET before == Cardinality({d \in S : d < c})
               IN  (page - 1) * size <= before /\ before < page * size}

ListSnapshot(q) ==
    LET all == {c \in Fleet : Matches(q, c, fleet[c])}
    IN  [rows  |-> Restrict(fleet, NthPage(all, q.size, q.page)),
         total |-> Cardinality(all), size |-> q.size]

\* subParams.
SubParams(p) == [online |-> p.online, search |-> p.search, size |-> p.size, page |-> p.page]

\* The delta of a change of charger c: to whatever page, for a row that matches.
ListDelta(q, c, row) ==
    IF Matches(q, c, row) THEN [op |-> "upsert", cp |-> c, row |-> row]
    ELSE [op |-> "remove", cp |-> c, row |-> row]

-----------------------------------------------------------------------------
(* What the pages show.                                                    *)

HasSnapshot == hook.snapshot # NoData

\* Mutant: a removal is taken for an update.
OverlaidAlways(rows, d) == IF d = NoData THEN rows ELSE With(rows, d.cp, d.row)

\* The last delta over the rows of the snapshot.
Overlaid(rows, d) ==
    IF d = NoData THEN rows
    ELSE IF d.op = "upsert" THEN With(rows, d.cp, d.row)
    ELSE Restrict(rows, DOMAIN rows \ {d.cp})

AllRows == Overlaid(hook.snapshot.rows, hook.delta)

\* The rows of the table or grid.
ListedRows ==
    Restrict(AllRows,
             {c \in DOMAIN AllRows : picks.faults => ChargePointFaultLevel(AllRows[c]) # "ok"})

\* The page takes any delta before the snapshot, whatever charger it is of.
DetailRow == IF hook.delta # NoData THEN hook.delta.row ELSE hook.snapshot.row

Usable == HasSnapshot /\ ~hook.error /\ screen.at # "crashed"

PageCount == LET s == hook.snapshot
             IN  Max({1, (s.total + s.size - 1) \div s.size})

FirstPicks == [online |-> "all", typed |-> Fleet, search |-> Fleet, faults |-> FALSE,
               size |-> Max(PageSizes), page |-> 1]

FleetInit ==
    /\ fleet \in [Fleet -> FleetRow]
    /\ screen = [at |-> "list", cp |-> 0]
    /\ picks = FirstPicks
    /\ hook = NewSub(SubParams(FirstPicks))
    /\ origin = "none" /\ missed = FALSE /\ early = FALSE
    /\ rowChanges = 0 /\ pickCount = 0 /\ listDrops = 0

-----------------------------------------------------------------------------
(* The subscription.                                                       *)

\* The params changed, or the socket was lost and is back.
Resubscribe(key) ==
    /\ hook' = Resubscribed(hook, key)
    /\ origin' = IF hook.delta = NoData THEN "none" ELSE "old"
    /\ missed' = FALSE

\* The state of a charger changes, and a Kafka event tells the Console.
ChangeRow(c, row) ==
    /\ rowChanges < MaxRowChanges /\ row # fleet[c]
    /\ rowChanges' = rowChanges + 1
    /\ fleet' = [fleet EXCEPT ![c] = row]
    /\ hook' = IF screen.at = "list" THEN Published(hook, <<ListDelta(hook.key, c, row)>>)
               ELSE IF c = hook.key.cp
               THEN Published(hook, <<[op |-> "upsert", cp |-> c, row |-> row]>>)
               ELSE hook
    /\ missed' = (missed \/ hook.stage = "read")
    /\ UNCHANGED <<screen, picks, origin, early, pickCount, listDrops>>

ReadSnapshot ==
    /\ hook.stage = "asked"
    /\ hook' = SnapshotRead(hook, IF screen.at = "list" THEN ListSnapshot(hook.key)
                                  ELSE [row |-> fleet[hook.key.cp]])
    /\ UNCHANGED <<fleet, screen, picks, origin, missed, early, rowChanges, pickCount, listDrops>>

RegisterSub ==
    /\ hook.stage = "read"
    /\ hook' = Registered(hook)
    /\ UNCHANGED <<fleet, screen, picks, origin, missed, early, rowChanges, pickCount, listDrops>>

\* The gateway does not answer.  The list shows the error.  The detail page
\* returns it above a useMemo: React finds fewer hooks than before and throws.
FailSnapshot ==
    /\ hook.stage = "asked"
    /\ hook' = Failed(hook)
    /\ screen' = IF screen.at = "detail" THEN [screen EXCEPT !.at = "crashed"] ELSE screen
    /\ UNCHANGED <<fleet, picks, origin, missed, early, rowChanges, pickCount, listDrops>>

\* A delta replaces the one before: a row that only that one showed goes back
\* to what it was in the snapshot.
Receives ==
    /\ Deliverable(hook)
    /\ hook' = Delivered(hook)
    /\ IF Arriving(hook) = "snapshot" THEN UNCHANGED <<origin, missed>>
       ELSE /\ origin' = "new"
            /\ missed' = (missed \/ (origin = "new" /\ hook.delta.cp # Head(hook.wire).data.cp))
    /\ UNCHANGED <<fleet, screen, picks, early, rowChanges, pickCount, listDrops>>

ListReconnect ==
    /\ screen.at # "crashed" /\ listDrops < MaxListDrops
    /\ listDrops' = listDrops + 1
    /\ Resubscribe(hook.key)
    /\ UNCHANGED <<fleet, screen, picks, early, rowChanges, pickCount>>

-----------------------------------------------------------------------------
(* The controls of the list.                                               *)

OnList == screen.at = "list" /\ Usable /\ pickCount < MaxPicks

Picks(p) ==
    /\ picks' = p
    /\ pickCount' = pickCount + 1
    /\ IF SubParams(p) = hook.key THEN UNCHANGED <<hook, origin, missed>>
       ELSE Resubscribe(SubParams(p))
    /\ UNCHANGED <<fleet, screen, rowChanges, listDrops>>

\* Mutant: the page number is kept.
StaysOnPage(p) == p

\* The effect on the filters and the page size.
FromPageOne(p) == [p EXCEPT !.page = 1]

PickFilter(f) ==
    /\ OnList /\ f # picks.online
    /\ Picks(FromPageOne([picks EXCEPT !.online = f]))
    /\ early' = FALSE

PickSize(n) ==
    /\ OnList /\ n # picks.size
    /\ Picks(FromPageOne([picks EXCEPT !.size = n]))
    /\ early' = FALSE

\* Typing only restarts the timer; 250 ms later the text takes effect.
TypeSearch(t) ==
    /\ OnList /\ t # picks.typed
    /\ Picks([picks EXCEPT !.typed = t])
    /\ UNCHANGED early

CommitSearch ==
    /\ screen.at = "list" /\ picks.search # picks.typed
    /\ LET p == FromPageOne([picks EXCEPT !.search = picks.typed])
       IN  picks' = p /\ Resubscribe(SubParams(p))
    /\ early' = FALSE
    /\ UNCHANGED <<fleet, screen, rowChanges, pickCount, listDrops>>

\* First, Previous, Next, Last: by the totals of the snapshot that is shown.
TurnPage(n) ==
    /\ OnList /\ n # picks.page
    /\ n \in {1, picks.page - 1, picks.page + 1, PageCount}
    /\ n < picks.page \/ n <= PageCount
    /\ n >= 1
    /\ Picks([picks EXCEPT !.page = n])
    /\ early' = (early \/ ~UpToDate(hook))

ToggleFaults ==
    /\ OnList
    /\ Picks([picks EXCEPT !.faults = ~@])
    /\ UNCHANGED early

-----------------------------------------------------------------------------
(* Moving between the pages.                                               *)

\* A row is clicked: the list is unmounted, with its filters.
OpenDetail(c) ==
    /\ OnList /\ c \in DOMAIN ListedRows
    /\ screen' = [at |-> "detail", cp |-> c]
    /\ hook' = NewSub([cp |-> c])
    /\ picks' = FirstPicks /\ origin' = "none" /\ missed' = FALSE /\ early' = FALSE
    /\ pickCount' = pickCount + 1
    /\ UNCHANGED <<fleet, rowChanges, listDrops>>

\* From charger to charger in the browser's history: the page stays mounted.
JumpDetail(c) ==
    /\ screen.at = "detail" /\ c # screen.cp /\ pickCount < MaxPicks
    /\ screen' = [at |-> "detail", cp |-> c]
    /\ Resubscribe([cp |-> c])
    /\ pickCount' = pickCount + 1
    /\ UNCHANGED <<fleet, picks, early, rowChanges, listDrops>>

OpenList ==
    /\ screen.at # "list" \/ hook.error
    /\ pickCount < MaxPicks
    /\ screen' = [at |-> "list", cp |-> 0]
    /\ hook' = NewSub(SubParams(FirstPicks))
    /\ picks' = FirstPicks /\ origin' = "none" /\ missed' = FALSE /\ early' = FALSE
    /\ pickCount' = pickCount + 1
    /\ UNCHANGED <<fleet, rowChanges, listDrops>>

FleetNext ==
    \/ \E c \in Fleet : OpenDetail(c) \/ JumpDetail(c) \/ \E row \in FleetRow : ChangeRow(c, row)
    \/ ReadSnapshot \/ RegisterSub \/ FailSnapshot \/ Receives \/ ListReconnect
    \/ \E f \in {"all", "online", "offline"} : PickFilter(f)
    \/ \E n \in PageSizes : PickSize(n)
    \/ \E t \in Needle : TypeSearch(t)
    \/ CommitSearch \/ ToggleFaults \/ OpenList
    \/ \E n \in 1..Cardinality(Fleet) : TurnPage(n)

FleetSpec == FleetInit /\ [][FleetNext]_fleetVars

-----------------------------------------------------------------------------
FleetTypeOK ==
    /\ fleet \in [Fleet -> FleetRow]
    /\ screen \in [at : {"list", "detail", "crashed"}, cp : Fleet \cup {0}]
    /\ picks \in [online : {"all", "online", "offline"}, typed : Needle, search : Needle,
                  faults : BOOLEAN, size : PageSizes, page : Nat \ {0}]
    /\ hook.key = IF screen.at = "list" THEN SubParams(picks) ELSE [cp |-> screen.cp]
    /\ origin \in {"none", "old", "new"} /\ missed \in BOOLEAN /\ early \in BOOLEAN

\* "Apply the latest delta on top of the snapshot. Filtering happens server-side"
\* (FleetPage.tsx): however filters, pages and reconnects interleave with the
\* changes, an idle page shows the present state of every charger it shows, none
\* that the filters exclude, and each of its snapshot that they let through;
\* unless a delta was overwritten by one of another charger or comes from an
\* earlier subscription.
RowsAreTrue ==
    UpToDate(hook) /\ Usable /\ ~missed /\ origin # "old" =>
        IF screen.at = "detail" THEN Shows(DetailRow) = Shows(fleet[screen.cp])
        ELSE /\ \A c \in DOMAIN AllRows :
                  Shows(AllRows[c]) = Shows(fleet[c]) /\ Matches(hook.key, c, fleet[c])
             /\ \A c \in DOMAIN hook.snapshot.rows :
                  Matches(hook.key, c, fleet[c]) => c \in DOMAIN AllRows

\* "so the operator doesn't end up looking at an empty page that exists only in
\* the previous filter set" (FleetPage.tsx): in a fleet that does not change, a
\* snapshot of a later page has rows; unless the page was turned while the
\* totals shown were those of the query before.
PageExists ==
    screen.at = "list" /\ UpToDate(hook) /\ rowChanges = 0 /\ ~early /\ picks.page > 1
    => hook.snapshot.total > 0 /\ DOMAIN hook.snapshot.rows # {}
=============================================================================
