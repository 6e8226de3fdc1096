----------------------------- MODULE CachedQuery -----------------------------
(***************************************************************************)
(* useQuery of TanStack Query, as the pages of the Console use it: a cache *)
(* of query keys, each with its data and the fetch under way.  The library *)
(* is external; main.tsx sets staleTime to 30 s and turns the refetch on   *)
(* window focus off.                                                       *)
(***************************************************************************)
EXTENDS PageData

\* fetch: "idle", "asked" (not yet read by the server), "answered" with `got`.
NewEntry == [data |-> NoData, error |-> FALSE, fetch |-> "idle", got |-> NoData]

\* A fetch starts; one that was under way is cancelled.
Started(e) == [e EXCEPT !.fetch = "asked", !.got = NoData]

EntryOf(cache, k) == IF k \in DOMAIN cache THEN cache[k] ELSE NewEntry

\* A component observes k: it is fetched unless it has data that are fresh.
Observed(cache, k, fresh) ==
    LET e == EntryOf(cache, k)
    IN  IF e.fetch # "idle" \/ (fresh /\ e.data # NoData /\ ~e.error) THEN With(cache, k, e)
        ELSE With(cache, k, Started(e))

\* refetchQueries: cancelRefetch is the default.
Refetched(cache, k) == [cache EXCEPT ![k] = Started(@)]

\* refetchInterval: a fetch under way is left to finish.
Polled(cache, k) == IF cache[k].fetch = "idle" THEN Refetched(cache, k) ELSE cache

Served(cache, k, response) ==
    [cache EXCEPT ![k].fetch = "answered", ![k].got = response]

Arrived(cache, k) ==
    [cache EXCEPT ![k] = [NewEntry EXCEPT !.data = cache[k].got]]

\* The last retry has failed: the data stay, next to the error.
GivenUp(cache, k) ==
    [cache EXCEPT ![k].fetch = "idle", ![k].got = NoData, ![k].error = TRUE]

Settled(cache, k) == cache[k].fetch = "idle"
=============================================================================
