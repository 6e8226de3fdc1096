------------------------------ MODULE EventPanel ------------------------------
(***************************************************************************)
(* The live event feed of a charger (DeviceEventsPanel.tsx): a ring fed by *)
(* the snapshot and the deltas of a device-events subscription, paused and *)
(* resumed, and extended downwards by pages of the durable log             *)
(* (event-log/search.ts).                                                  *)
(*                                                                         *)
(* An event is its time stamp; stamps are unique here.  Lists are newest   *)
(* first.  A message from the socket changes React state, and the effects  *)
(* of the panel run when React renders, later; clicks come between.        *)
(***************************************************************************)
EXTENDS LiveQuery, Sorting, Functions

CONSTANTS
    Charger,        \* chargers whose detail page is visited
    History,        \* per charger, the stamps its log holds at the start
    PanelRing,      \* RING_CAP
    SnapshotLimit,  \* rows of a snapshot
    PageLimit,      \* rows of a page of older events
    LogFilter,      \* sets of stamps that the chips and the search let through
    MaxEvents,      \* bound on the stamps
    MaxReconnects,  \* bound on lost sockets
    MaxVisits       \* bound on moves to another charger

ASSUME EventPanelAssumption ==
    /\ {PanelRing, SnapshotLimit, PageLimit} \subseteq Nat \ {0}
    /\ {MaxEvents, MaxReconnects, MaxVisits} \subseteq Nat
    /\ History \in [Charger -> SUBSET (1..MaxEvents)]
    /\ LogFilter \subseteq SUBSET (1..MaxEvents)
    /\ NoData \notin 1..MaxEvents

NoStamp == 0

VARIABLES
    log,         \* per charger, the durable event log
    clock,       \* the latest stamp
    feed,        \* the device-events subscription
    unrendered,  \* messages that came since the last render
    cpId,        \* the charger of the page
    events,      \* the ring
    paused,
    buffer,      \* pauseBufferRef
    seen,        \* lastSeenDeltaRef
    older,       \* the cursor, and the request for older events under way
    filter,
    visits, reconnects,
    broken       \* something made the list unreliable (history)

panelVars == <<log, clock, feed, unrendered, cpId, events, paused, buffer, seen, older,
               filter, visits, reconnects, broken>>

Cut(s, n) == SubSeq(s, 1, IF Len(s) > n THEN n ELSE Len(s))

PanelIdle == [stage |-> "idle", to |-> NoStamp, page |-> <<>>]

PanelInit ==
    /\ log = History
    /\ clock = LET S == UNION {History[c] : c \in Charger}
               IN  CHOOSE n \in S \cup {0} : \A m \in S : m <= n
    /\ cpId \in Charger
    /\ feed = NewSub(cpId) /\ unrendered = {}
    /\ events = <<>> /\ paused = FALSE /\ buffer = <<>> /\ seen = NoData
    /\ older = [cursor |-> NoStamp, load |-> PanelIdle]
    /\ filter \in LogFilter
    /\ visits = 0 /\ reconnects = 0 /\ broken = FALSE

LoadingOlder  == older.load.stage # "idle"
Anchored == LoadingOlder \/ older.cursor # NoStamp

RenderedEvents == unrendered = {}

\* What the panel holds, and will show when it is not paused: the buffer is newer
\* than the ring, and replaces it when it is as long.
Known == IF Len(buffer) = PanelRing THEN buffer ELSE buffer \o events

-----------------------------------------------------------------------------
(* The server.                                                             *)

\* A charger event: logged, and sent to the subscription that is registered.
\* The one that is about to be registered misses it.
Happen(c) ==
    /\ clock < MaxEvents
    /\ clock' = clock + 1
    /\ log' = [log EXCEPT ![c] = @ \cup {clock'}]
    /\ feed' = IF c = feed.key THEN Published(feed, <<clock'>>) ELSE feed
    /\ broken' = (broken \/ (c = feed.key /\ feed.stage = "read"))
    /\ UNCHANGED <<unrendered, cpId, events, paused, buffer, seen, older, filter,
                   visits, reconnects>>

\* tailLastN: the newest rows of the log.
TailLastN(S) == Cut(Descending(S), SnapshotLimit)

\* A snapshot that does not reach back to what the panel holds leaves a hole.
ServeSnapshot ==
    /\ feed.stage = "asked"
    /\ LET rows == TailLastN(log[feed.key])
       IN  /\ feed' = SnapshotRead(feed, rows)
           /\ broken' = (broken \/ \E k \in DOMAIN Known, e \in log[feed.key] :
                                     /\ Known[k] < e /\ e < rows[Len(rows)]
                                     /\ \A n \in DOMAIN Known : Known[n] < e)
    /\ UNCHANGED <<log, clock, unrendered, cpId, events, paused, buffer, seen, older,
                   filter, visits, reconnects>>

Register ==
    /\ feed.stage = "read"
    /\ feed' = Registered(feed)
    /\ UNCHANGED <<log, clock, unrendered, cpId, events, paused, buffer, seen, older,
                   filter, visits, reconnects, broken>>

\* searchEvents, backwards from a bound that is itself excluded.
SearchEvents(S, to) == Cut(Descending({e \in S : e < to}), PageLimit)

\* The page starts below the cursor or, before there is one, the oldest event.
ServeOlder ==
    /\ older.load.stage = "asked"
    /\ older' = [older EXCEPT !.load.stage = "answered",
                              !.load.page = SearchEvents(log[cpId], older.load.to)]
    /\ UNCHANGED <<log, clock, feed, unrendered, cpId, events, paused, buffer, seen,
                   filter, visits, reconnects, broken>>

-----------------------------------------------------------------------------
(* Messages and the effects that they cause.                               *)

\* A delta that comes before the last one was rendered overwrites it.
DeliverMessage ==
    /\ Deliverable(feed)
    /\ feed' = Delivered(feed)
    /\ unrendered' = unrendered \cup {Arriving(feed)}
    /\ broken' = (broken \/ (Arriving(feed) = "delta" /\ "delta" \in unrendered))
    /\ UNCHANGED <<log, clock, cpId, events, paused, buffer, seen, older, filter,
                   visits, reconnects>>

\* Mutant: the rows of a snapshot are taken to be new.
Doubled(list, rows) == NewestFirst(list \o rows)

\* Rows that the list has not are added in their place.
Merged(list, rows) == NewestFirst(list \o Descending(Range(rows) \ Range(list)))

\* The snapshot effect, which runs for a new snapshot.
AfterSnapshot ==
    IF "snapshot" \in unrendered /\ feed.snapshot # <<>>
    THEN Cut(Merged(events, feed.snapshot), PanelRing) ELSE events

\* The ref tells whether the delta is one that the effect has handled.
NewDelta == feed.delta # NoData /\ feed.delta # seen

Prepended(list) == IF NewDelta THEN Cut(<<feed.delta>> \o list, PanelRing) ELSE list

\* The ring may have dropped events that the request for older ones starts below.
Dropped(list) == Anchored /\ Len(list) >= PanelRing /\ list # events

\* So it has; or a snapshot was merged with the ring while there is a buffer, which
\* repeats it or lies below it.
Damaged(list) ==
    \/ Dropped(list)
    \/ \E k \in DOMAIN list, n \in DOMAIN buffer : list[k] >= buffer[n]

\* React renders; the effects of what changed run.
Render ==
    /\ ~RenderedEvents
    /\ unrendered' = {}
    /\ IF "delta" \notin unrendered
       THEN events' = AfterSnapshot /\ UNCHANGED <<buffer, seen>>
       ELSE /\ events' = IF paused THEN AfterSnapshot ELSE Prepended(AfterSnapshot)
            /\ buffer' = IF paused THEN Prepended(buffer) ELSE buffer
            /\ seen' = feed.delta
    /\ broken' = (broken \/ Damaged(events'))
    /\ UNCHANGED <<log, clock, feed, cpId, paused, older, filter, visits, reconnects>>

-----------------------------------------------------------------------------
(* Clicks.                                                                 *)

\* The delta effect runs for a change of `paused` too.  A delta that it has not
\* handled is then one of a charger visited before.
PauseFeed ==
    /\ RenderedEvents /\ ~paused
    /\ paused' = TRUE
    /\ buffer' = Prepended(buffer)
    /\ seen' = feed.delta
    /\ broken' = (broken \/ NewDelta)
    /\ UNCHANGED <<log, clock, feed, unrendered, cpId, events, older, filter,
                   visits, reconnects>>

\* onResume: the buffer, if there is one, goes on top of the ring, which may drop
\* events.
Flushed == IF buffer = <<>> THEN events ELSE Cut(buffer \o events, PanelRing)

ResumeFeed ==
    /\ RenderedEvents /\ paused
    /\ paused' = FALSE
    /\ buffer' = <<>>
    /\ events' = Prepended(Flushed)
    /\ seen' = feed.delta
    /\ broken' = (broken \/ NewDelta \/ Dropped(events'))
    /\ UNCHANGED <<log, clock, feed, unrendered, cpId, older, filter, visits, reconnects>>

\* The list is emptied; the cursor and a page under way are not.
ClearList ==
    /\ events # <<>>
    /\ events' = <<>>
    /\ broken' = (broken \/ Anchored)
    /\ UNCHANGED <<log, clock, feed, unrendered, cpId, paused, buffer, seen, older, filter,
                   visits, reconnects>>

\* A chip is toggled or the search changes: only what is visible changes.
SetFilter(f) ==
    /\ f # filter
    /\ filter' = f
    /\ UNCHANGED <<log, clock, feed, unrendered, cpId, events, paused, buffer, seen, older,
                   visits, reconnects, broken>>

VisibleEvents == {k \in DOMAIN events : events[k] \in filter}

\* The button is under the list, and there is no list when nothing is visible.
CanLoadOlder == VisibleEvents # {} /\ ~LoadingOlder

PageBound == IF older.cursor # NoStamp THEN older.cursor ELSE events[Len(events)]

LoadOlder ==
    /\ RenderedEvents /\ CanLoadOlder
    /\ older' = [older EXCEPT !.load = [PanelIdle EXCEPT !.stage = "asked", !.to = PageBound]]
    /\ UNCHANGED <<log, clock, feed, unrendered, cpId, events, paused, buffer, seen, filter,
                   visits, reconnects, broken>>

\* next_cursor: only a full page has a next one.
NextCursor(page) == IF Len(page) = PageLimit THEN page[Len(page)] ELSE NoStamp

\* The page is merged; it is not cut to the ring.
ArriveOlder ==
    /\ older.load.stage = "answered"
    /\ LET page == older.load.page
       IN  IF page = <<>>
           THEN events' = events /\ older' = [older EXCEPT !.load = PanelIdle]
           ELSE /\ events' = Merged(events, page)
                /\ older' = [cursor |-> NextCursor(page), load |-> PanelIdle]
    /\ UNCHANGED <<log, clock, feed, unrendered, cpId, paused, buffer, seen, filter,
                   visits, reconnects, broken>>

FailOlder ==
    /\ LoadingOlder
    /\ older' = [older EXCEPT !.load = PanelIdle]
    /\ UNCHANGED <<log, clock, feed, unrendered, cpId, events, paused, buffer, seen, filter,
                   visits, reconnects, broken>>

-----------------------------------------------------------------------------
(* Another charger; a lost socket.                                         *)

\* The same panel is rendered for another charger, with nothing in it yet.  `paused`,
\* the request for older events and the data of the hook are kept.
Visit(c) ==
    /\ RenderedEvents /\ visits < MaxVisits /\ c # cpId
    /\ cpId' = c /\ visits' = visits + 1
    /\ feed' = Resubscribed(feed, c)
    /\ events' = <<>> /\ buffer' = <<>> /\ seen' = NoData
    /\ older' = [older EXCEPT !.cursor = NoStamp]
    /\ broken' = LoadingOlder
    /\ UNCHANGED <<log, clock, unrendered, paused, filter, reconnects>>

\* The client is back after at least 500 ms: what had arrived is rendered.
Reconnect ==
    /\ RenderedEvents /\ reconnects < MaxReconnects
    /\ reconnects' = reconnects + 1
    /\ feed' = Resubscribed(feed, cpId)
    /\ UNCHANGED <<log, clock, unrendered, cpId, events, paused, buffer, seen, older, filter,
                   visits, broken>>

PanelNext ==
    \/ \E c \in Charger : Happen(c) \/ Visit(c)
    \/ ServeSnapshot \/ Register \/ ServeOlder
    \/ DeliverMessage \/ Render
    \/ PauseFeed \/ ResumeFeed \/ ClearList \/ LoadOlder \/ ArriveOlder \/ FailOlder
    \/ \E f \in LogFilter : SetFilter(f)
    \/ Reconnect

PanelSpec == PanelInit /\ [][PanelNext]_panelVars

-----------------------------------------------------------------------------
Stamp == 1..MaxEvents

PanelTypeOK ==
    /\ log \in [Charger -> SUBSET Stamp] /\ clock \in 0..MaxEvents
    /\ cpId \in Charger /\ feed.key = cpId
    /\ feed \in Subscriptions(Charger, Seq(Stamp), Stamp)
    /\ events \in Seq(Stamp) /\ buffer \in Seq(Stamp) /\ Len(buffer) <= PanelRing
    /\ ~paused => buffer = <<>>
    /\ seen \in Stamp \cup {NoData}
    /\ older \in [cursor : Stamp \cup {NoStamp},
                 load : [stage : {"idle", "asked", "answered"}, to : Stamp \cup {NoStamp},
                         page : Seq(Stamp)]]
    /\ unrendered \subseteq {"snapshot", "delta"} /\ filter \in LogFilter
    /\ paused \in BOOLEAN /\ broken \in BOOLEAN
    /\ visits \in 0..MaxVisits /\ reconnects \in 0..MaxReconnects

\* A list that falls, and holds every event of the log between its two ends.
Tidy(list) ==
    list # <<>> =>
        /\ list = Descending(Range(list))
        /\ Range(list) = {e \in log[cpId] : list[Len(list)] <= e /\ e <= list[1]}

\* "Pause / Resume - buffers events while paused so resuming replays the missed
\* window (no event loss ...)" and "Load older - fetches an older page": until
\* one of the steps that set `broken`, what the panel shows are the events of
\* this charger between two stamps, each once and in order, and so is what it will
\* show when it is resumed; that reaches to the newest event when nothing is on
\* its way to the panel.
NoHoleNoRepeat ==
    ~broken =>
        /\ Tidy(events) /\ Tidy(Known)
        /\ UpToDate(feed) /\ RenderedEvents /\ Known # <<>> =>
               \A e \in log[cpId] : e <= Known[1]
=============================================================================
