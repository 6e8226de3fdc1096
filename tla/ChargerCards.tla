----------------------------- MODULE ChargerCards -----------------------------
(***************************************************************************)
(* The cards on the page of a charger that poll: its sessions, their live  *)
(* readings, its statistics, its reservations and its diagnostics.  The    *)
(* polls are the safety net; events of the charger fetch the first and the *)
(* third again at once (hooks/use-invalidate-on-cp-events.ts).             *)
(*                                                                         *)
(* One charger, one card at a time: they share nothing but its sessions,   *)
(* which are numbered as they start, and their number is the time.         *)
(***************************************************************************)
EXTENDS LiveQuery, CachedQuery, Sorting, SequencesExt, FiniteSetsExt

CONSTANTS
    IdTag,
    CardSizes,            \* rows per page of the history
    WalkPages, WalkSize,  \* what the statistics read at most: 5 pages of 500
    Artefacts,            \* diagnostics uploads
    MaxStarts,            \* bound on sessions, and on samples
    MaxHappenings, MaxCardClicks, MaxCardFailures   \* bounds

ASSUME ChargerCardsAssumption ==
    /\ IdTag # {}
    /\ CardSizes \subseteq Nat \ {0} /\ CardSizes # {}
    /\ {WalkPages, WalkSize} \subseteq Nat \ {0}
    /\ MaxStarts > 0
    /\ {MaxStarts, MaxHappenings, MaxCardClicks, MaxCardFailures} \subseteq Nat

VARIABLES
    card,        \* "history", "readings", "statistics", "reservations", "diagnostics"
    charger,     \* at the gateway and on the server: sessions, reserved, artefacts, reading
    cardView,    \* rows per page, the stack of cursors, the window
    cardCache,       \* the queries of the card
    walk,        \* the pages that the statistics have read: rows, cursor, pages
    cardFeed,        \* the subscription of the card
    unseenFeed,  \* a delta came since the last render
    readings,    \* what the live readings hold, by measurand
    deletes,     \* DELETE requests: the artefact, and "asked", "gone" or "failed"
    pendingDelete,
    behind,      \* a change that nothing but the next poll will show (history)
    happenings, cardClicks, cardFailures

cardVars == <<card, charger, cardView, cardCache, walk, cardFeed, unseenFeed, readings, deletes,
              pendingDelete, behind, happenings, cardClicks, cardFailures>>

NoRow == 0

Last2(s, none) == IF s = <<>> THEN none ELSE s[Len(s)]

-----------------------------------------------------------------------------
(* The queries.                                                            *)

Sessions == charger.sessions
CardRow(i)   == [id |-> i, open |-> Sessions[i].open]

\* One page, newest first: GET /sys/charge-points/:cp_id/transactions.
PageBelow(at, size) ==
    LET ids == Descending({i \in DOMAIN Sessions : i < at})
        few == SubSeq(ids, 1, Min({size, Len(ids)}))
    IN  [rows |-> [k \in DOMAIN few |-> CardRow(few[k])],
         next |-> IF Len(ids) > Len(few) THEN few[Len(few)] ELSE NoRow]

Top == MaxStarts + 1

HistoryKey(v) == [name |-> "cp-transactions", size |-> v.size, at |-> Last2(v.cursors, Top)]

KeysOf(v) ==
    CASE card = "history"      -> {HistoryKey(v)}
      [] card = "statistics"   -> {[name |-> "cp-statistics"]}
      [] card = "reservations" -> {[name |-> "cp-reservations"], [name |-> "join"]}
      [] card = "diagnostics"  -> {[name |-> "diagnostics"]}
      [] OTHER                 -> {}

Keys == KeysOf(cardView)

NewWalk == [rows |-> <<>>, cursor |-> Top, pages |-> 0]

\* fetchAllChargePointTransactions reads one more page.
WalkedOn(w) ==
    LET page == PageBelow(w.cursor, WalkSize)
    IN  [rows |-> w.rows \o page.rows, cursor |-> page.next, pages |-> w.pages + 1,
         done |-> page.next = NoRow \/ w.pages + 1 = WalkPages, truncated |-> page.next # NoRow]

\* What the statistics are computed from, read at one moment.
WholeWalk ==
    LET most == PageBelow(Top, WalkPages * WalkSize)
    IN  [rows |-> most.rows, truncated |-> most.next # NoRow]

AnswerTo(k) ==
    CASE k.name = "cp-transactions" -> PageBelow(k.at, k.size)
      [] k.name = "cp-statistics"   -> WholeWalk
      [] k.name = "cp-reservations" -> charger.reserved
      [] k.name = "join"            -> Sessions
      [] OTHER                      -> charger.artefacts

-----------------------------------------------------------------------------
(* What the cards compute from their data.                                 *)

\* computeStats, of the sessions that started in the window.
Stats(rows, since) ==
    LET within == {k \in DOMAIN rows : rows[k].id > since}
    IN  [total     |-> Cardinality(within),
         completed |-> Cardinality({k \in within : ~rows[k].open}),
         active    |-> Cardinality({k \in within : rows[k].open}),
         last      |-> IF within = {} THEN NoRow ELSE Max({rows[k].id : k \in within})]

\* The first session of the list, that is the newest, with the tag of the
\* reservation that started between its creation and its expiry.
MatchTransaction(r, txs) ==
    LET fits == {i \in DOMAIN txs : txs[i].tag = r.tag /\ r.made < i /\ i <= r.expires}
    IN  IF fits = {} THEN NoRow ELSE Max(fits)

HistoryShows(page) == [rows |-> page.rows, page |-> Len(cardView.cursors) + 1]

StatisticsShow(all) == [tiles |-> Stats(all.rows, cardView.since), truncated |-> all.truncated]

ReservationsShow(list, txs) == {<<r, MatchTransaction(r, txs)>> : r \in list}

DiagnosticsShow(list) == {[row |-> a, busy |-> a = pendingDelete] : a \in list}

\* What is on the screen, given the answers to the card's queries.
Display(answer(_)) ==
    CASE card = "history"      -> HistoryShows(answer(HistoryKey(cardView)))
      [] card = "statistics"   -> StatisticsShow(answer([name |-> "cp-statistics"]))
      [] card = "reservations" -> ReservationsShow(answer([name |-> "cp-reservations"]),
                                                   answer([name |-> "join"]))
      [] OTHER                 -> DiagnosticsShow(answer([name |-> "diagnostics"]))

-----------------------------------------------------------------------------
Measurand  == {"power", "soc"}
NoReadings == [m \in Measurand |-> 0]

\* The cards that subscribe to something.
HasFeed == card \in {"history", "statistics", "readings"}

FeedOf(c) == NewSub(IF c = "readings" THEN "meter-history" ELSE "device-events")

CardInit ==
    /\ card \in {"history", "readings", "statistics", "reservations", "diagnostics"}
    /\ charger = [sessions |-> <<[open |-> FALSE, tag |-> CHOOSE t \in IdTag : TRUE]>>, reserved |-> {},
                  artefacts |-> Artefacts, reading |-> NoReadings]
    /\ cardView = [size |-> Min(CardSizes), cursors |-> <<>>, since |-> 0]
    /\ cardCache = [k \in Keys |-> Started(NewEntry)]
    /\ walk = NewWalk
    /\ cardFeed = FeedOf(card) /\ unseenFeed = FALSE
    /\ readings = NoReadings
    /\ deletes = <<>> /\ pendingDelete = NoData
    /\ behind = FALSE /\ happenings = 0 /\ cardClicks = 0 /\ cardFailures = 0

\* kinds of the two cards; the others are not told of anything.
KindsOf(c) == IF c = "history" THEN {"tx-started", "tx-stopped", "status"}
              ELSE IF c = "statistics" THEN {"tx-started", "tx-stopped"} ELSE {}

\* The delta `old` changes nothing on the card once `new` is laid over it.
LostUnder(old, new) ==
    IF card = "readings" THEN old.kind # new.kind
    ELSE old.kind \in KindsOf(card) /\ new.kind \notin KindsOf(card)

\* Something has happened at the gateway, and an event says so.
Happens(c, kind, value) ==
    /\ charger' = c
    /\ cardFeed' = IF HasFeed THEN Published(cardFeed, <<[kind |-> kind, value |-> value]>>)
                   ELSE cardFeed
    /\ behind' = (behind \/ (c # charger /\ ~(HasFeed /\ cardFeed.stage = "live")))
    /\ UNCHANGED <<card, cardView, cardCache, walk, unseenFeed, readings, deletes, pendingDelete,
                   cardClicks, cardFailures>>

SessionStarts(t) ==
    /\ card \in {"history", "statistics", "reservations"} /\ Len(Sessions) < MaxStarts
    /\ card = "reservations" \/ t = CHOOSE u \in IdTag : TRUE
    /\ Happens([charger EXCEPT !.sessions = Append(@, [open |-> TRUE, tag |-> t])], "tx-started", 0)
    /\ UNCHANGED happenings

SessionEnds(i) ==
    /\ i \in DOMAIN Sessions /\ Sessions[i].open
    /\ happenings < MaxHappenings /\ happenings' = happenings + 1
    /\ Happens([charger EXCEPT !.sessions[i].open = FALSE], "tx-stopped", 0)

\* An event of another kind.
EventPasses ==
    /\ KindsOf(card) # {} /\ happenings < MaxHappenings
    /\ happenings' = happenings + 1
    /\ \E kind \in {"status", "heartbeat"} : Happens(charger, kind, 0)

\* MeterValues: one delta for each sample, numbered here in their order.
Samples(m) ==
    LET n == 1 + Max({charger.reading[l] : l \in Measurand})
    IN  /\ card = "readings" /\ n <= MaxStarts
        /\ Happens([charger EXCEPT !.reading[m] = n], m, n)
        /\ UNCHANGED happenings

Reserve(t, until) ==
    /\ card = "reservations" /\ happenings < MaxHappenings
    /\ happenings' = happenings + 1
    /\ Happens([charger EXCEPT !.reserved = @ \cup
                    {[tag |-> t, made |-> Len(Sessions), expires |-> until]}], "reserved", 0)

\* Somebody else deletes an artefact.
DeleteElsewhere(a) ==
    /\ card = "diagnostics" /\ a \in charger.artefacts
    /\ happenings < MaxHappenings /\ happenings' = happenings + 1
    /\ Happens([charger EXCEPT !.artefacts = @ \ {a}], "deleted", 0)

-----------------------------------------------------------------------------
(* Polls, pushes and answers.                                              *)

PollQuery(k) ==
    /\ k \in Keys /\ Settled(cardCache, k)
    /\ cardCache' = Polled(cardCache, k)
    /\ walk' = NewWalk
    /\ UNCHANGED <<card, charger, cardView, cardFeed, unseenFeed, readings, deletes, pendingDelete,
                   behind, happenings, cardClicks, cardFailures>>

\* The entry of k shows what the server has, or will once its fetch is over.
Current(k) ==
    CASE cardCache[k].fetch = "asked"    -> TRUE
      [] cardCache[k].fetch = "answered" -> cardCache[k].got = AnswerTo(k)
      [] OTHER                           -> cardCache[k].data = AnswerTo(k)

\* The answer is as of now: what it misses is yet to be told, or is behind.
ServeQuery(k) ==
    /\ k \in DOMAIN cardCache /\ cardCache[k].fetch = "asked" /\ k.name # "cp-statistics"
    /\ cardCache' = Served(cardCache, k, AnswerTo(k))
    /\ behind' = (behind /\ ~(k \in Keys /\ \A l \in Keys \ {k} : Current(l)))
    /\ UNCHANGED <<card, charger, cardView, walk, cardFeed, unseenFeed, readings, deletes,
                   pendingDelete, happenings, cardClicks, cardFailures>>

\* The statistics read page after page.
ServeWalk ==
    LET k == [name |-> "cp-statistics"]
        w == WalkedOn(walk)
    IN  /\ k \in DOMAIN cardCache /\ cardCache[k].fetch = "asked"
        /\ IF w.done
           THEN /\ cardCache' = Served(cardCache, k, [rows |-> w.rows, truncated |-> w.truncated])
                /\ walk' = NewWalk
           ELSE /\ walk' = [rows |-> w.rows, cursor |-> w.cursor, pages |-> w.pages]
                /\ UNCHANGED cardCache
        /\ behind' = (behind /\ walk.pages > 0)
        /\ UNCHANGED <<card, charger, cardView, cardFeed, unseenFeed, readings, deletes,
                       pendingDelete, happenings, cardClicks, cardFailures>>

ArriveQuery(k) ==
    /\ k \in DOMAIN cardCache /\ cardCache[k].fetch = "answered"
    /\ cardCache' = Arrived(cardCache, k)
    /\ UNCHANGED <<card, charger, cardView, walk, cardFeed, unseenFeed, readings, deletes,
                   pendingDelete, behind, happenings, cardClicks, cardFailures>>

FailQuery(k) ==
    /\ k \in DOMAIN cardCache /\ ~Settled(cardCache, k) /\ cardFailures < MaxCardFailures
    /\ cardFailures' = cardFailures + 1
    /\ cardCache' = GivenUp(cardCache, k)
    /\ walk' = NewWalk
    /\ behind' = TRUE
    /\ UNCHANGED <<card, charger, cardView, cardFeed, unseenFeed, readings, deletes, pendingDelete,
                   happenings, cardClicks>>

OpenFeed ==
    /\ HasFeed
    /\ cardFeed' = CASE cardFeed.stage = "asked" -> SnapshotRead(cardFeed, {})
                 [] cardFeed.stage = "read"  -> Registered(cardFeed)
                 [] OTHER                -> cardFeed
    /\ cardFeed' # cardFeed
    /\ UNCHANGED <<card, charger, cardView, cardCache, walk, unseenFeed, readings, deletes,
                   pendingDelete, behind, happenings, cardClicks, cardFailures>>

\* lastDelta is overwritten: a matching delta that no render has seen is lost
\* under one that does not match.
HearFeed ==
    /\ HasFeed /\ Deliverable(cardFeed)
    /\ cardFeed' = Delivered(cardFeed)
    /\ unseenFeed' = (unseenFeed \/ Arriving(cardFeed) = "delta")
    /\ behind' = (behind \/ (unseenFeed /\ LostUnder(cardFeed.delta, Head(cardFeed.wire).data)))
    /\ UNCHANGED <<card, charger, cardView, cardCache, walk, readings, deletes, pendingDelete,
                   happenings, cardClicks, cardFailures>>

\* The effects on lastDelta.
RenderFeed ==
    /\ unseenFeed /\ unseenFeed' = FALSE
    /\ IF card = "readings"
       THEN readings' = [readings EXCEPT ![cardFeed.delta.kind] = cardFeed.delta.value] /\ UNCHANGED <<cardCache, walk>>
       ELSE /\ IF cardFeed.delta.kind \in KindsOf(card)
               THEN \E k \in Keys : cardCache' = Refetched(cardCache, k) /\ walk' = NewWalk
               ELSE UNCHANGED <<cardCache, walk>>
            /\ UNCHANGED readings
    /\ UNCHANGED <<card, charger, cardView, cardFeed, deletes, pendingDelete, behind, happenings,
                   cardClicks, cardFailures>>

-----------------------------------------------------------------------------
(* The controls.                                                           *)

CardClick == cardClicks < MaxCardClicks /\ cardClicks' = cardClicks + 1

\* A page of the history that was shown before has missed what came since.
TurnsTo(v) ==
    /\ card = "history" /\ CardClick
    /\ cardView' = v
    /\ LET k == HistoryKey(v)
       IN  /\ \E fresh \in BOOLEAN : cardCache' = Observed(cardCache, k, fresh)
           /\ behind' = (behind \/ k \in DOMAIN cardCache)
    /\ UNCHANGED <<card, charger, walk, cardFeed, unseenFeed, readings, deletes, pendingDelete,
                   happenings, cardFailures>>

Showing(k) == cardCache[k].data # NoData /\ ~cardCache[k].error

\* The pagination is under the rows.
HasPages ==
    LET k == HistoryKey(cardView) IN card = "history" /\ Showing(k) /\ cardCache[k].data.rows # <<>>

NextPage ==
    /\ HasPages
    /\ LET next == cardCache[HistoryKey(cardView)].data.next
       IN  next # NoRow /\ TurnsTo([cardView EXCEPT !.cursors = Append(@, next)])

PreviousPage ==
    /\ HasPages /\ cardView.cursors # <<>>
    /\ TurnsTo([cardView EXCEPT !.cursors = Front(@)])

\* Back to the newest.
ChooseSize(n) ==
    /\ HasPages /\ n # cardView.size
    /\ TurnsTo([cardView EXCEPT !.size = n, !.cursors = <<>>])

\* All-time, or the sessions after some moment.
ChooseWindow(since) ==
    /\ card = "statistics" /\ CardClick /\ since # cardView.since
    /\ cardView' = [cardView EXCEPT !.since = since]
    /\ UNCHANGED <<card, charger, cardCache, walk, cardFeed, unseenFeed, readings, deletes, pendingDelete,
                   behind, happenings, cardFailures>>

\* The button of a row is disabled while that row is the pending one: with two
\* deletions under way, the first row can be asked for again.
AskDropArtefact(a) ==
    LET k == [name |-> "diagnostics"]
    IN  /\ card = "diagnostics" /\ CardClick
        /\ Showing(k) /\ a \in cardCache[k].data
        /\ a # pendingDelete
        /\ deletes' = With(deletes, cardClicks, [row |-> a, stage |-> "asked"])
        /\ pendingDelete' = a
        /\ UNCHANGED <<card, charger, cardView, cardCache, walk, cardFeed, unseenFeed, readings, behind,
                       happenings, cardFailures>>

\* DELETE /sys/diagnostics/:id; one that is gone already is a 404.
ServeDelete(d) ==
    LET a == deletes[d].row
    IN  /\ deletes[d].stage = "asked"
        /\ deletes' = [deletes EXCEPT ![d].stage = IF a \in charger.artefacts THEN "gone" ELSE "failed"]
        /\ charger' = [charger EXCEPT !.artefacts = @ \ {a}]
        /\ behind' = TRUE
        /\ UNCHANGED <<card, cardView, cardCache, walk, cardFeed, unseenFeed, readings, pendingDelete,
                       happenings, cardClicks, cardFailures>>

\* Mutant: a fetch that is under way is left to finish.
JoinsFetch(c, k) == Polled(c, k)

\* invalidateQueries: it is fetched again, whatever is under way.
Invalidates(c, k) == Refetched(c, k)

\* After a failure only a toast; pendingDelete is cleared in both cases,
\* whichever row it is by now.
EndDelete(d) ==
    LET gone == deletes[d].stage = "gone"
    IN  /\ deletes[d].stage # "asked"
        /\ cardCache' = IF gone THEN Invalidates(cardCache, [name |-> "diagnostics"]) ELSE cardCache
        /\ behind' = (behind /\ ~gone)
        /\ deletes' = [b \in DOMAIN deletes \ {d} |-> deletes[b]]
        /\ pendingDelete' = NoData
        /\ UNCHANGED <<card, charger, cardView, walk, cardFeed, unseenFeed, readings, happenings,
                       cardClicks, cardFailures>>

CardNext ==
    \/ \E t \in IdTag : SessionStarts(t) \/ \E until \in 1..MaxStarts : Reserve(t, until)
    \/ \E i \in DOMAIN Sessions : SessionEnds(i)
    \/ \E k \in DOMAIN cardCache : PollQuery(k) \/ ServeQuery(k) \/ ArriveQuery(k) \/ FailQuery(k)
    \/ \E n \in CardSizes : ChooseSize(n)
    \/ \E since \in {0, 1} : ChooseWindow(since)
    \/ \E a \in Artefacts : AskDropArtefact(a) \/ DeleteElsewhere(a)
    \/ \E d \in DOMAIN deletes : ServeDelete(d) \/ EndDelete(d)
    \/ \E m \in Measurand : Samples(m)
    \/ EventPasses \/ ServeWalk \/ OpenFeed \/ HearFeed \/ RenderFeed \/ NextPage \/ PreviousPage

CardSpec == CardInit /\ [][CardNext]_cardVars

-----------------------------------------------------------------------------
\* A delta of the card's subscription.
CardDelta ==
    IF card = "readings" THEN [kind : Measurand, value : 1..MaxStarts]
    ELSE [kind : {"tx-started", "tx-stopped", "status", "heartbeat"}, value : {0}]

CardTypeOK ==
    /\ charger \in [sessions : Seq([open : BOOLEAN, tag : IdTag]),
                   reserved : SUBSET [tag : IdTag, made : Nat, expires : 1..MaxStarts],
                   artefacts : SUBSET Artefacts, reading : [Measurand -> 0..MaxStarts]]
    /\ cardView \in [size : CardSizes, cursors : Seq(Nat), since : {0, 1}]
    /\ Keys \subseteq DOMAIN cardCache
    /\ HasFeed => cardFeed \in Subscriptions({"device-events", "meter-history"}, {{}}, CardDelta)
    /\ unseenFeed => HasFeed /\ cardFeed.delta \in CardDelta
    /\ readings \in [Measurand -> 0..MaxStarts]
    /\ \A d \in DOMAIN deletes : deletes[d].row \in Artefacts
    /\ pendingDelete \in Artefacts \cup {NoData}
    /\ unseenFeed \in BOOLEAN /\ behind \in BOOLEAN

CardIdle ==
    /\ \A k \in Keys : Settled(cardCache, k) /\ Showing(k)
    /\ HasFeed => UpToDate(cardFeed) /\ ~unseenFeed

\* "tx-started / tx-stopped / status event arriving on the broker refetches this
\* list" (TransactionsHistory.tsx), "The poll stays on as a safety net", "Artefact
\* deleted": a card at rest shows what the gateway holds, however polls, pushes,
\* pages of the statistics, deletions and their answers interleave; unless what
\* it misses is left to the next poll.
CardsAreTrue ==
    CardIdle /\ ~behind =>
        IF card = "readings" THEN readings = charger.reading
        ELSE Display(LAMBDA k : cardCache[k].data) = Display(AnswerTo)
=============================================================================
