----------------------------- MODULE Transactions -----------------------------
(***************************************************************************)
(* The audit list of transactions (TransactionsPage.tsx): filters in the   *)
(* URL, two ways of paging, and the Live switch, which fetches the page    *)
(* again for every delta of a transactions-active subscription.            *)
(*                                                                         *)
(* Sessions are numbered as they start.  The text filters (cp_id, id_tag)  *)
(* are one set of sessions; a date range lets every session through here.  *)
(***************************************************************************)
EXTENDS LiveQuery, CachedQuery, Sorting, SequencesExt, FiniteSetsExt, Functions

CONSTANTS
    FirstSessions,   \* sessions at the start, all open
    MaxSessions,     \* bound on sessions
    TextFilter,      \* sets of sessions: what a cp_id or id_tag lets through
    RowsPerPage,     \* the page sizes
    MaxStops, MaxClicks, MaxFailures   \* bounds

SessionId == 1..MaxSessions

\* What the live tail can be.
Tails == Subscriptions({"transactions-active"}, SUBSET SessionId, SessionId)

ASSUME TransactionsAssumption ==
    /\ FirstSessions \in 0..MaxSessions
    /\ {MaxSessions, MaxStops, MaxClicks, MaxFailures} \subseteq Nat
    /\ TextFilter \subseteq SUBSET SessionId /\ SessionId \in TextFilter
    /\ RowsPerPage \subseteq Nat \ {0} /\ RowsPerPage # {}
    /\ NoData \notin Tails

VARIABLES
    sessions,   \* the gateway's table: "open" or "closed", by number
    url,        \* the search params of the page
    textInput,  \* the text fields, until they are committed
    stack,      \* cursorStack: sessions that a page starts below
    pageIdx,    \* the page, when the list is sorted
    pages,      \* the query cache
    tail,       \* the subscription of LiveTailRefetcher (NoData: not mounted)
    unseenTail, \* a delta came since the last render
    untold,     \* the page missed a change, and nothing will tell it (history)
    stops, clicks, failures

txVars == <<sessions, url, textInput, stack, pageIdx, pages, tail, unseenTail, untold,
            stops, clicks, failures>>

DefaultUrl == [status |-> "all", text |-> SessionId, range |-> FALSE, size |-> Min(RowsPerPage),
               live |-> FALSE, sort |-> "id", dir |-> "desc"]

-----------------------------------------------------------------------------
(* The page's view of its URL.                                             *)

\* Clearing the sort clears the direction too.
Normalised(u) == IF u.sort = "id" THEN [u EXCEPT !.dir = "desc"] ELSE u

SortedList(u) == u.sort # "id"

\* A date range turns Live off without taking it from the URL.
LiveRows(u) == u.live /\ ~u.range

FilterKey(u) == [u EXCEPT !.live = FALSE]

CursorOf(s) == IF s = <<>> THEN MaxSessions + 1 ELSE s[Len(s)]

\* Sorted lists are paged by number, the others by cursor.
QueryKey(u, s, n) ==
    IF SortedList(u) THEN [filter |-> FilterKey(u), mode |-> "page", at |-> n]
    ELSE [filter |-> FilterKey(u), mode |-> "cursor", at |-> CursorOf(s)]

RowKey == QueryKey(url, stack, pageIdx)

-----------------------------------------------------------------------------
(* The gateway's answer, through GET /sys/transactions.                    *)

Selected(f) ==
    {i \in DOMAIN sessions :
        /\ i \in f.text
        /\ f.status # "all" => sessions[i] = IF f.status = "active" THEN "open" ELSE "closed"}

\* Newest first unless a sort is ascending; any other sort key orders the
\* sessions in some way, here by number as well.
Ordered(S, f) == IF f.dir = "asc" THEN Reverse(Descending(S)) ELSE Descending(S)

Answer(k) ==
    LET below == IF k.mode = "cursor" THEN {i \in Selected(k.filter) : i < k.at}
                 ELSE Selected(k.filter)
        all   == Ordered(below, k.filter)
        first == IF k.mode = "cursor" THEN 1 ELSE (k.at - 1) * k.filter.size + 1
        ids   == SubSeq(all, first, Min({first + k.filter.size - 1, Len(all)}))
    IN  [ids   |-> ids,
         open  |-> {i \in Range(ids) : sessions[i] = "open"},
         next  |-> IF k.mode = "cursor" /\ Len(all) > Len(ids) THEN ids[Len(ids)] ELSE 0,
         total |-> (Len(all) + k.filter.size - 1) \div k.filter.size]

Data == pages[RowKey].data

-----------------------------------------------------------------------------
TxInit ==
    /\ sessions = [i \in 1..FirstSessions |-> "open"]
    /\ url = DefaultUrl /\ textInput = SessionId
    /\ stack = <<>> /\ pageIdx = 1
    /\ pages = Observed(<<>>, QueryKey(DefaultUrl, <<>>, 1), FALSE)
    /\ tail = NoData /\ unseenTail = FALSE /\ untold = FALSE
    /\ stops = 0 /\ clicks = 0 /\ failures = 0

Subscribed == tail # NoData /\ tail.stage = "live"

\* tx.started: the only topic that the transactions-active resolver looks at.
StartSession ==
    /\ Len(sessions) < MaxSessions
    /\ sessions' = Append(sessions, "open")
    /\ tail' = IF tail = NoData THEN tail ELSE Published(tail, <<Len(sessions')>>)
    /\ untold' = (untold \/ ~Subscribed)
    /\ UNCHANGED <<url, textInput, stack, pageIdx, pages, unseenTail, stops, clicks, failures>>

\* tx.stopped makes no delta.  What it changes about the rows of a page is not
\* told to the page, and under a status filter even which rows there are.
StopSession(i) ==
    /\ stops < MaxStops /\ i \in DOMAIN sessions /\ sessions[i] = "open"
    /\ stops' = stops + 1
    /\ sessions' = [sessions EXCEPT ![i] = "closed"]
    /\ untold' = (untold \/ url.status # "all")
    /\ UNCHANGED <<url, textInput, stack, pageIdx, pages, tail, unseenTail, clicks, failures>>

-----------------------------------------------------------------------------
(* The query.                                                              *)

\* A page that was read now has missed nothing so far, unless a change that
\* the tail was to report happened before it was registered.
ServePage(k) ==
    /\ k \in DOMAIN pages /\ pages[k].fetch = "asked"
    /\ pages' = Served(pages, k, Answer(k))
    /\ untold' = (untold /\ k # RowKey)
    /\ UNCHANGED <<sessions, url, textInput, stack, pageIdx, tail, unseenTail, stops, clicks,
                   failures>>

ArrivePage(k) ==
    /\ k \in DOMAIN pages /\ pages[k].fetch = "answered"
    /\ pages' = Arrived(pages, k)
    /\ UNCHANGED <<sessions, url, textInput, stack, pageIdx, tail, unseenTail, untold, stops,
                   clicks, failures>>

FailPage(k) ==
    /\ k \in DOMAIN pages /\ ~Settled(pages, k) /\ failures < MaxFailures
    /\ failures' = failures + 1
    /\ pages' = GivenUp(pages, k)
    /\ untold' = TRUE
    /\ UNCHANGED <<sessions, url, textInput, stack, pageIdx, tail, unseenTail, stops, clicks>>

-----------------------------------------------------------------------------
(* The live tail.                                                          *)

Mounts(u) == IF ~LiveRows(u) THEN NoData ELSE IF tail = NoData THEN NewSub("transactions-active")
             ELSE tail

ReadTail ==
    /\ tail # NoData /\ tail.stage = "asked"
    /\ tail' = SnapshotRead(tail, {i \in DOMAIN sessions : sessions[i] = "open"})
    /\ UNCHANGED <<sessions, url, textInput, stack, pageIdx, pages, unseenTail, untold, stops,
                   clicks, failures>>

RegisterTail ==
    /\ tail # NoData /\ tail.stage = "read"
    /\ tail' = Registered(tail)
    /\ UNCHANGED <<sessions, url, textInput, stack, pageIdx, pages, unseenTail, untold, stops,
                   clicks, failures>>

DeliverTail ==
    /\ tail # NoData /\ Deliverable(tail)
    /\ tail' = Delivered(tail)
    /\ unseenTail' = (unseenTail \/ Arriving(tail) = "delta")
    /\ UNCHANGED <<sessions, url, textInput, stack, pageIdx, pages, untold, stops, clicks,
                   failures>>

\* Mutant: the page is fetched again only if no fetch is under way.
Joined(c) == Polled(c, RowKey)

\* "Refetch is louder than necessary": of the observed page.
RefetchesActive(c) == Refetched(c, RowKey)

\* The effect of LiveTailRefetcher, once for however many deltas.
RenderTail ==
    /\ unseenTail
    /\ unseenTail' = FALSE
    /\ pages' = RefetchesActive(pages)
    /\ UNCHANGED <<sessions, url, textInput, stack, pageIdx, tail, untold, stops, clicks, failures>>

-----------------------------------------------------------------------------
(* The controls.                                                           *)

\* The page renders for the url u, with the stack s and page number n.  The
\* stack does not outlive the filters it was built under; the number does.
Goes(u, s, n) ==
    LET st == IF FilterKey(u) # FilterKey(url) THEN <<>> ELSE s
        k  == QueryKey(u, st, n)
    IN  /\ url' = u /\ stack' = st /\ pageIdx' = n
        /\ \E fresh \in BOOLEAN :
              /\ pages' = IF k = RowKey THEN pages ELSE Observed(pages, k, fresh)
              /\ untold' = (untold \/ (k # RowKey /\ k \in DOMAIN pages))
        /\ tail' = Mounts(u)
        /\ unseenTail' = (unseenTail /\ tail' # NoData)
        /\ UNCHANGED <<sessions, stops, failures>>

Click == clicks < MaxClicks /\ clicks' = clicks + 1

PickStatus(s) ==
    /\ Click /\ s # url.status
    /\ Goes([url EXCEPT !.status = s], stack, pageIdx)
    /\ UNCHANGED textInput

PickRows(n) ==
    /\ Click /\ n # url.size
    /\ Goes([url EXCEPT !.size = n], stack, pageIdx)
    /\ UNCHANGED textInput

SetRange ==
    /\ Click
    /\ Goes([url EXCEPT !.range = ~@], stack, pageIdx)
    /\ UNCHANGED textInput

TypeText(t) ==
    /\ Click /\ t # textInput
    /\ textInput' = t
    /\ UNCHANGED <<sessions, url, stack, pageIdx, pages, tail, unseenTail, untold, stops, failures>>

\* Enter, the button, or leaving the field.
CommitText ==
    /\ textInput # url.text
    /\ Goes([url EXCEPT !.text = textInput], stack, pageIdx)
    /\ UNCHANGED <<textInput, clicks>>

\* What came before the switch was on is not told either.
ToggleLive ==
    /\ Click /\ ~url.range
    /\ url' = [url EXCEPT !.live = ~@]
    /\ tail' = Mounts(url')
    /\ unseenTail' = FALSE
    /\ untold' = TRUE
    /\ UNCHANGED <<sessions, textInput, stack, pageIdx, pages, stops, failures>>

\* The headers and the pagination belong to the rows: an empty page has none.
HasRows == Data # NoData /\ ~pages[RowKey].error /\ Data.ids # <<>>

\* A header: descending, ascending, off; always back to page one.
ToggleSort(k) ==
    /\ Click /\ HasRows
    /\ Goes(Normalised(IF url.sort # k THEN [url EXCEPT !.sort = k, !.dir = "desc"]
                       ELSE IF url.dir = "desc" THEN [url EXCEPT !.dir = "asc"]
                       ELSE [url EXCEPT !.sort = "id"]), <<>>, 1)
    /\ UNCHANGED textInput

HasNext == IF SortedList(url) THEN pageIdx < Data.total ELSE Data.next # 0
HasPrev == IF SortedList(url) THEN pageIdx > 1 ELSE stack # <<>>

GoNext ==
    /\ Click /\ HasRows /\ HasNext
    /\ IF SortedList(url) THEN Goes(url, stack, pageIdx + 1)
       ELSE Goes(url, Append(stack, Data.next), pageIdx)
    /\ UNCHANGED textInput

GoPrev ==
    /\ Click /\ HasRows /\ HasPrev
    /\ IF SortedList(url) THEN Goes(url, stack, pageIdx - 1)
       ELSE Goes(url, Front(stack), pageIdx)
    /\ UNCHANGED textInput

TxNext ==
    \/ StartSession
    \/ \E i \in SessionId : StopSession(i)
    \/ \E k \in DOMAIN pages : ServePage(k) \/ ArrivePage(k) \/ FailPage(k)
    \/ ReadTail \/ RegisterTail \/ DeliverTail \/ RenderTail
    \/ \E s \in {"all", "active", "finished"} : PickStatus(s)
    \/ \E n \in RowsPerPage : PickRows(n)
    \/ SetRange
    \/ \E t \in TextFilter : TypeText(t)
    \/ CommitText \/ ToggleLive
    \/ \E k \in {"id", "energy"} : ToggleSort(k)
    \/ GoNext \/ GoPrev

TxSpec == TxInit /\ [][TxNext]_txVars

-----------------------------------------------------------------------------
TxTypeOK ==
    /\ sessions \in Seq({"open", "closed"}) /\ Len(sessions) <= MaxSessions
    /\ url \in [status : {"all", "active", "finished"}, text : TextFilter, range : BOOLEAN,
                size : RowsPerPage, live : BOOLEAN, sort : {"id", "energy"},
                dir : {"asc", "desc"}]
    /\ textInput \in TextFilter
    /\ stack \in Seq(SessionId) /\ pageIdx \in Nat \ {0}
    /\ RowKey \in DOMAIN pages
    /\ tail \in Tails \cup {NoData} /\ (tail # NoData) = LiveRows(url)
    /\ unseenTail \in BOOLEAN /\ untold \in BOOLEAN

\* The page is idle, and so is its live tail.
LiveAndIdle ==
    /\ LiveRows(url) /\ UpToDate(tail) /\ ~unseenTail
    /\ Settled(pages, RowKey) /\ ~pages[RowKey].error /\ Data # NoData

\* "refetches on every delta so freshly-started sessions surface"
\* (TransactionsPage.tsx): with Live on, an idle page has the rows that the
\* gateway would send now, however the deltas, the fetches they restart, the
\* filters and the pages interleave; unless what changed is not told to it.
LiveShowsStarts == LiveAndIdle /\ ~untold => Data.ids = Answer(RowKey).ids

\* "refetches the REST list whenever a tx-started / tx-stopped delta arrives"
\* (TransactionsPage.tsx), "Refetch is louder than necessary but produces
\* correct results": the rows also show which sessions are open.  They do not:
\* no delta is sent for tx.stopped.
LiveShowsStops == LiveAndIdle /\ ~untold => Data = Answer(RowKey)
=============================================================================
