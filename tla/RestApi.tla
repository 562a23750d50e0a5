------------------------------ MODULE RestApi ------------------------------
(***************************************************************************)
(* What readers of the REST API see of tables and counters that announces  *)
(* change meanwhile: /api/stats and /api/torrents (src/api/rest_api.cpp,   *)
(* each query one step of src/database/db_manager.cpp), the dashboard      *)
(* paging through the torrents (dashboard/src/App.jsx), and the meter of   *)
(* /api/metrics (src/tracker/tracker_server.cpp).                          *)
(*                                                                         *)
(* Readers change nothing another one reads, so a behaviour has readers of *)
(* one endpoint, and announces change only what that endpoint reads.       *)
(***************************************************************************)
EXTENDS Integers, Sequences, FiniteSets

CONSTANTS
  Torrents,    \* info hashes
  Peers,       \* rows of peers, one per torrent and peer id
  Readers,     \* task threads that may answer /api/metrics
  Fetches,     \* bound: requests for a page the dashboard has in flight
  PageSize,    \* the limit the dashboard asks for, PAGE_SIZE
  MaxPage,     \* the largest page param_int lets through, 10000
  MaxInt,      \* the largest int std::stoi returns
  TicksPerSecond,  \* what a step of the steady clock of the meter is to a second
  MaxChanges,  \* bound: statements of announces and requests counted
  MaxTime,     \* bound: seconds
  MaxTicks,    \* bound: steps of the steady clock
  MaxRequests  \* bound: requests of the readers

ASSUME ApiAssumption ==
  /\ IsFiniteSet(Torrents) /\ IsFiniteSet(Peers) /\ IsFiniteSet(Readers)
  /\ Fetches # {}
  /\ {PageSize, MaxPage, TicksPerSecond} \subseteq Nat \ {0}
  /\ {MaxInt, MaxChanges, MaxTime, MaxTicks, MaxRequests} \subseteq Nat

Endpoints == {"stats", "torrents", "metrics"}

(* A peer's row to the counting queries: absent or not seen for an hour,   *)
(* or by its left: 0, more, or less, which neither query counts.           *)
Classes == {"inactive", "seeder", "leecher", "negative"}

(* The queries of get_stats, in the order it runs them. *)
Queries == <<"active_seeders", "active_leechers", "complete", "incomplete",
             "downloaded", "torrent_count", "peer_count">>
Figures == {Queries[q] : q \in 1 .. Len(Queries)}

VARIABLES
  endpoint,   \* what the readers of this behaviour read
  now,        \* seconds; steps of the steady clock for /api/metrics
  changes,    \* announce statements so far
  requests,   \* requests of readers so far
  updated,    \* updated_at of each torrent, 0 without a row
  peer,       \* the class of each peer
  downloads,  \* the sum of torrents.downloaded
  query,      \* get_stats is about to run this query; 0 between requests
  figure,     \* the figures it has
  changed,    \* history: peers that changed class since it began
  guessed,    \* history: a failed query was answered with 0 or no rows
  page,       \* the page the dashboard is on
  loading,    \* its buttons are disabled
  fetch,      \* its requests for a page in flight
  shown,      \* the answer on the screen: its page, total and whether it had grown
  seen,       \* torrents it has shown
  owed,       \* history: torrents it has to show
  passed,     \* history: pages up to this one have been shown
  strayed,    \* history: the user went on from a page that had not been shown
  disturbed,  \* history: the timer asked again too early, or a request failed
  counted,    \* total_requests_
  meter,      \* last_rps_time_ and last_rps_requests_
  rate,       \* of each reader: its place, the duration and the requests it read
  reported,   \* history: requests the readers were told of, in all
  claimed     \* history: what their rates amount to over the true durations

clock == <<endpoint, now, changes, requests>>
tables == <<updated, peer, downloads>>
stats == <<query, figure, changed>>
pages == <<page, loading, fetch, shown, seen>>
story == <<owed, passed, strayed, disturbed>>
walk  == <<pages, story>>
rps   == <<counted, meter, rate, reported, claimed>>
vars  == <<clock, tables, stats, guessed, walk, rps>>

(* A slot for a request: its next step, its page, and what it has so far. *)
Slots == [step  : {"idle", "count", "select", "answer"}, page : Nat,
          total : Nat, rows : SUBSET Torrents, grown : BOOLEAN]

(* One that is not in use, and one that asks for a page. *)
Idle == [step |-> "idle", page |-> 0, total |-> 0, rows |-> {}, grown |-> FALSE]
Asked(p) == [step |-> "count", page |-> p, total |-> 0, rows |-> {}, grown |-> FALSE]

(* A reader that does not hold rps_mutex_. *)
Outside == [at |-> "outside", ticks |-> 0, count |-> 0]

Rows    == {t \in Torrents : updated[t] > 0}
Alone(t) == \A u \in Rows \ {t} : updated[u] # updated[t]

Init ==
  /\ endpoint \in Endpoints
  /\ now = 2
  /\ changes = 0
  /\ requests = 0
  /\ updated \in IF endpoint = "torrents" THEN [Torrents -> 0 .. now] ELSE {[t \in Torrents |-> 0]}
  /\ peer \in IF endpoint = "stats" THEN [Peers -> Classes] ELSE {[p \in Peers |-> "inactive"]}
  /\ downloads \in IF endpoint = "stats" THEN 0 .. MaxInt ELSE {0}
  /\ query = 0
  /\ figure = [f \in Figures |-> 0]
  /\ changed = {}
  /\ guessed = FALSE
  /\ page = 1
  /\ loading = TRUE
  /\ \E f \in Fetches : fetch = [g \in Fetches |-> IF g = f THEN Asked(1) ELSE Idle]
  /\ shown = [page |-> 0, total |-> 0, grown |-> FALSE]
  /\ seen = {}
  /\ owed = {t \in Rows : Alone(t)}
  /\ passed = 0
  /\ strayed = FALSE
  /\ disturbed = FALSE
  /\ counted = 0
  /\ meter = [time |-> now, requests |-> 0]
  /\ rate = [r \in Readers |-> Outside]
  /\ reported = 0
  /\ claimed = 0

-----------------------------------------------------------------------------
(* The announces and the clock *)

Change ==
  /\ changes < MaxChanges
  /\ changes' = changes + 1

(***************************************************************************)
(* update_peer's INSERT ... ON DUPLICATE KEY UPDATE updated_at=NOW(), or a *)
(* later statement that changes the row.  From now on the order of this    *)
(* row, and of rows of the same second, may change between two queries.  A *)
(* new row makes the total of requests between their queries too low.      *)
(***************************************************************************)
TouchTorrent(t) ==
  /\ endpoint # "metrics"
  /\ Change
  /\ updated' = [updated EXCEPT ![t] = now]
  /\ owed' = owed \ {u \in Torrents : u = t \/ updated[u] = now}
  /\ fetch' = [f \in Fetches |->
                 IF fetch[f].step = "select" /\ t \notin Rows
                 THEN [fetch[f] EXCEPT !.grown = TRUE] ELSE fetch[f]]
  /\ UNCHANGED <<endpoint, now, requests, peer, downloads, stats, guessed, page, loading,
                 shown, seen, passed, strayed, disturbed, rps>>

(* A peer announces with another left, leaves, or is not seen for an hour. *)
ChangePeer(p, class) ==
  /\ endpoint = "stats"
  /\ Change
  /\ peer[p] # class
  /\ peer' = [peer EXCEPT ![p] = class]
  /\ changed' = IF query = 0 THEN changed ELSE changed \union {p}
  /\ UNCHANGED <<endpoint, now, requests, updated, downloads, query, figure, guessed,
                 walk, rps>>

(* increment_downloaded. *)
Download ==
  /\ endpoint = "stats"
  /\ Change
  /\ downloads' = downloads + 1
  /\ UNCHANGED <<endpoint, now, requests, updated, peer, stats, guessed, walk, rps>>

(* record_request. *)
RecordRequest ==
  /\ endpoint = "metrics"
  /\ Change
  /\ counted' = counted + 1
  /\ UNCHANGED <<endpoint, now, requests, tables, stats, guessed, walk, meter, rate,
                 reported, claimed>>

Tick ==
  /\ endpoint # "stats"
  /\ now < IF endpoint = "metrics" THEN MaxTicks ELSE MaxTime
  /\ now' = now + 1
  /\ UNCHANGED <<endpoint, changes, requests, tables, stats, guessed, walk, rps>>

Request(e) ==
  /\ endpoint = e
  /\ requests < MaxRequests
  /\ requests' = requests + 1

-----------------------------------------------------------------------------
(* RESTApi::get_stats *)

OfClass(C) == Cardinality({p \in Peers : peer[p] \in C})

(* Mutated form of Answer: left_to_download >= 0 counts as a leecher. *)
AnswerAtLeastZero(f) ==
  CASE f \in {"active_seeders", "complete"}    -> OfClass({"seeder"})
    [] f \in {"active_leechers", "incomplete"} -> OfClass({"seeder", "leecher"})
    [] f = "downloaded"    -> downloads
    [] f = "torrent_count" -> Cardinality(Rows)
    [] f = "peer_count"    -> OfClass(Classes \ {"inactive"})

(* What the query for a figure returns; get_complete_count and             *)
(* get_incomplete_count run those for the active peers once more.          *)
Answer(f) ==
  CASE f \in {"active_seeders", "complete"}    -> OfClass({"seeder"})
    [] f \in {"active_leechers", "incomplete"} -> OfClass({"leecher"})
    [] f = "downloaded"    -> downloads
    [] f = "torrent_count" -> Cardinality(Rows)
    [] f = "peer_count"    -> OfClass(Classes \ {"inactive"})

GetStats ==
  /\ query = 0
  /\ Request("stats")
  /\ query' = 1
  /\ changed' = {}
  /\ guessed' = FALSE
  /\ figure' = [f \in Figures |-> 0]
  /\ UNCHANGED <<endpoint, now, changes, tables, walk, rps>>

(* Each figure has a query, and a connection, of its own. *)
Count ==
  LET f == Queries[query] IN
    /\ query \in 1 .. Len(Queries)
    /\ Answer(f) <= MaxInt
    /\ figure' = [figure EXCEPT ![f] = Answer(f)]
    /\ query' = query + 1
    /\ UNCHANGED <<clock, tables, changed, guessed, walk, rps>>

(* Mutated form of CountFails: a failed query is reported as -1. *)
CountFailsNegative ==
  /\ query \in 1 .. Len(Queries)
  /\ figure' = [figure EXCEPT ![Queries[query]] = -1]
  /\ query' = query + 1
  /\ guessed' = TRUE
  /\ UNCHANGED <<clock, tables, changed, walk, rps>>

(* No connection, or the query failed: 0, which the response does not tell *)
(* from a count.                                                           *)
CountFails ==
  /\ query \in 1 .. Len(Queries)
  /\ figure' = [figure EXCEPT ![Queries[query]] = 0]
  /\ query' = query + 1
  /\ guessed' = TRUE
  /\ UNCHANGED <<clock, tables, changed, walk, rps>>

(* std::stoi throws std::out_of_range: handle_request answers an error.    *)
StatsOverflow ==
  /\ query \in 1 .. Len(Queries)
  /\ Answer(Queries[query]) > MaxInt
  /\ query' = 0
  /\ UNCHANGED <<clock, tables, figure, changed, guessed, walk, rps>>

StatsDone ==
  /\ query = Len(Queries) + 1
  /\ query' = 0
  /\ UNCHANGED <<clock, tables, figure, changed, guessed, walk, rps>>

-----------------------------------------------------------------------------
(* The dashboard and RESTApi::get_torrents *)

(* Mutated form of Offset: pages counted from zero. *)
OffsetOfNext(p) == p * PageSize

(* handle_request: param_int clamps the page. *)
Offset(p) == ((IF p > MaxPage THEN MaxPage ELSE p) - 1) * PageSize

(* get_torrents_list_json, first query. *)
CountTorrents(f) ==
  /\ endpoint = "torrents" /\ fetch[f].step = "count"
  /\ fetch' = [fetch EXCEPT ![f].step = "select", ![f].total = Cardinality(Rows)]
  /\ UNCHANGED <<clock, tables, stats, guessed, page, loading, shown, seen, story, rps>>

(* It failed, and the second query runs all the same; or there is no       *)
(* connection, and no rows.  The total is 0 in the answer.                 *)
TotalFails(f) ==
  /\ endpoint = "torrents" /\ fetch[f].step = "count"
  /\ \E next \in {"select", "answer"} : fetch' = [fetch EXCEPT ![f].step = next]
  /\ guessed' = TRUE
  /\ UNCHANGED <<clock, tables, stats, page, loading, shown, seen, story, rps>>

(* ORDER BY updated_at DESC: rows of the same second in any order. *)
Orders ==
  {o \in [1 .. Cardinality(Rows) -> Rows] :
     \A m, n \in DOMAIN o : m < n => o[m] # o[n] /\ updated[o[m]] >= updated[o[n]]}

(* What LIMIT and OFFSET cut out of them. *)
Cut(o, p) ==
  {o[n] : n \in {m \in DOMAIN o : m > Offset(p) /\ m <= Offset(p) + PageSize}}

(* Second query, on the same connection. *)
SelectPage(f) ==
  /\ endpoint = "torrents" /\ fetch[f].step = "select"
  /\ \E o \in Orders :
       fetch' = [fetch EXCEPT ![f].step = "answer", ![f].rows = Cut(o, fetch[f].page)]
  /\ UNCHANGED <<clock, tables, stats, guessed, page, loading, shown, seen, story, rps>>

(* It failed: no rows. *)
SelectFails(f) ==
  /\ endpoint = "torrents" /\ fetch[f].step = "select"
  /\ fetch' = [fetch EXCEPT ![f].step = "answer"]
  /\ guessed' = TRUE
  /\ UNCHANGED <<clock, tables, stats, page, loading, shown, seen, story, rps>>

(***************************************************************************)
(* refresh() of App.jsx has all its answers: it shows them, whatever page  *)
(* the dashboard is on by now, and enables the buttons, whatever other     *)
(* request is in flight.                                                   *)
(***************************************************************************)
ShowAnswer(f) ==
  /\ endpoint = "torrents" /\ fetch[f].step = "answer"
  /\ shown' = [page |-> fetch[f].page, total |-> fetch[f].total, grown |-> fetch[f].grown]
  /\ seen' = seen \union fetch[f].rows
  /\ passed' = IF fetch[f].page > passed THEN fetch[f].page ELSE passed
  /\ loading' = FALSE
  /\ fetch' = [fetch EXCEPT ![f] = Idle]
  /\ UNCHANGED <<clock, tables, stats, guessed, page, owed, strayed, disturbed, rps>>

(* One of its four requests failed: an error banner, over the old answer.  *)
FetchFails(f) ==
  /\ endpoint = "torrents" /\ fetch[f].step # "idle"
  /\ loading' = FALSE
  /\ fetch' = [fetch EXCEPT ![f] = Idle]
  /\ disturbed' = TRUE
  /\ UNCHANGED <<clock, tables, stats, guessed, page, shown, seen, owed, passed, strayed, rps>>

InFlight == {f \in Fetches : fetch[f].step # "idle"}

(* refresh(p) begins. *)
Fetch(p) ==
  /\ Request("torrents")
  /\ \E f \in Fetches \ InFlight : fetch' = [fetch EXCEPT ![f] = Asked(p)]
  /\ loading' = TRUE

(* totalPages of App.jsx lets the user go on. *)
HasNext == page * PageSize < shown.total

(* Mutated form of NextPage: the button is not disabled while loading. *)
NextPageWhileLoading ==
  /\ HasNext
  /\ page' = page + 1
  /\ Fetch(page')
  /\ strayed' = (strayed \/ page > passed)
  /\ UNCHANGED <<endpoint, now, changes, tables, stats, guessed, shown, seen, owed, passed,
                 disturbed, rps>>

(* The buttons of the pagination: setPage, and the effect of [page]. *)
NextPage ==
  /\ ~ loading /\ HasNext
  /\ page' = page + 1
  /\ Fetch(page')
  /\ strayed' = (strayed \/ page > passed)
  /\ UNCHANGED <<endpoint, now, changes, tables, stats, guessed, shown, seen, owed, passed,
                 disturbed, rps>>

PrevPage ==
  /\ ~ loading /\ page > 1
  /\ page' = page - 1
  /\ Fetch(page')
  /\ UNCHANGED <<endpoint, now, changes, tables, stats, guessed, shown, seen, story, rps>>

(* The interval timer, which does not look whether a request is in flight, *)
(* or the button for it.                                                   *)
RefreshPage ==
  /\ Fetch(page)
  /\ disturbed' = (disturbed \/ InFlight # {})
  /\ UNCHANGED <<endpoint, now, changes, tables, stats, guessed, page, shown, seen, owed,
                 passed, strayed, rps>>

-----------------------------------------------------------------------------
(* TrackerServer::get_requests_per_second *)

(* Mutated form of MeterFree: no lock. *)
MeterUnlocked == TRUE

(* rps_mutex_ is free. *)
MeterFree == \A r \in Readers : rate[r].at = "outside"

(* duration_cast to whole seconds. *)
Seconds(ticks) == ticks \div TicksPerSecond

(* A whole second has passed, or the reader is told 0.0 and nothing changes. *)
EnterMeter(r) ==
  /\ rate[r].at = "outside" /\ MeterFree
  /\ Request("metrics")
  /\ Seconds(now - meter.time) > 0
  /\ rate' = [rate EXCEPT ![r] = [at |-> "timed", ticks |-> now - meter.time, count |-> 0]]
  /\ meter' = [meter EXCEPT !.time = now]
  /\ UNCHANGED <<endpoint, now, changes, tables, stats, guessed, walk, counted, reported,
                 claimed>>

(* The first load, for the rate. *)
LoadCount(r) ==
  /\ rate[r].at = "timed"
  /\ rate' = [rate EXCEPT ![r] =
                [at |-> "loaded", ticks |-> @.ticks, count |-> counted - meter.requests]]
  /\ UNCHANGED <<clock, tables, stats, guessed, walk, counted, meter, reported, claimed>>

(***************************************************************************)
(* The second load, for the next rate.  The reader is told count over      *)
(* whole seconds, which over the true duration amounts to more requests,   *)
(* here in 1/TicksPerSecond of one.                                        *)
(***************************************************************************)
LeaveMeter(r) ==
  LET told == rate[r] IN
    /\ told.at = "loaded"
    /\ reported' = reported + told.count
    /\ claimed' = claimed + (told.count * told.ticks) \div Seconds(told.ticks)
    /\ meter' = [meter EXCEPT !.requests = counted]
    /\ rate' = [rate EXCEPT ![r] = Outside]
    /\ UNCHANGED <<clock, tables, stats, guessed, walk, counted>>

Next ==
  \/ \E t \in Torrents : TouchTorrent(t)
  \/ \E p \in Peers, class \in Classes : ChangePeer(p, class)
  \/ Download \/ RecordRequest \/ Tick
  \/ GetStats \/ Count \/ CountFails \/ StatsOverflow \/ StatsDone
  \/ \E f \in Fetches : \/ CountTorrents(f) \/ TotalFails(f)
                         \/ SelectPage(f) \/ SelectFails(f)
                         \/ ShowAnswer(f) \/ FetchFails(f)
  \/ NextPage \/ PrevPage \/ RefreshPage
  \/ \E r \in Readers : EnterMeter(r) \/ LoadCount(r) \/ LeaveMeter(r)

Spec == Init /\ [][Next]_vars

-----------------------------------------------------------------------------
(* Properties *)

TypeOK ==
  /\ endpoint \in Endpoints
  /\ {now, changes, requests, downloads, counted, passed} \subseteq Nat
  /\ updated \in [Torrents -> 0 .. now]
  /\ peer \in [Peers -> Classes]
  /\ query \in 0 .. Len(Queries) + 1
  /\ figure \in [Figures -> Nat]
  /\ changed \subseteq Peers
  /\ guessed \in BOOLEAN
  /\ page \in Nat \ {0}
  /\ {loading, strayed, disturbed} \subseteq BOOLEAN
  /\ fetch \in [Fetches -> Slots]
  /\ shown \in [page : Nat, total : Nat, grown : BOOLEAN]
  /\ seen \subseteq Torrents
  /\ owed \subseteq Torrents
  /\ meter \in [time : 0 .. now, requests : Nat]
  /\ rate \in [Readers -> [at : {"outside", "timed", "loaded"}, ticks : Nat, count : Int]]
  /\ {reported, claimed} \subseteq Int

(***************************************************************************)
(* The figures of one response come from seven moments.  They cannot be    *)
(* added up exactly, but are wrong by no more than what changed meanwhile: *)
(* peers that kept their class are each counted once by the figures of     *)
(* their class, so seeders and leechers together exceed peer_count, or     *)
(* fall short of the peers with a left of zero or more, by at most two for *)
(* each peer that changed.                                                 *)
(***************************************************************************)
FiguresAgree ==
  query = Len(Queries) + 1 /\ ~ guessed =>
    LET steady(C) == Cardinality({p \in Peers \ changed : peer[p] \in C})
        moved     == Cardinality(changed)
        pairs     == {<<"active_seeders", "active_leechers">>, <<"complete", "incomplete">>}
    IN \A pair \in pairs :
         LET sum == figure[pair[1]] + figure[pair[2]] IN
           /\ sum <= figure["peer_count"] + 2 * moved
           /\ figure["peer_count"] - steady({"negative"}) - moved <= sum
           /\ sum >= steady({"seeder", "leecher"})

(***************************************************************************)
(* A user who has gone on from each page only when it was shown, and is    *)
(* shown the last one, has seen every torrent that was there at the start  *)
(* and whose place no announce touched, however the answers of several     *)
(* requests overtake each other: announces move other torrents in front of *)
(* it, so it can only come later, and twice.  total is counted before the  *)
(* rows are read: torrents added in between may push it to a page the      *)
(* dashboard does not know of.                                             *)
(***************************************************************************)
WalkComplete ==
  endpoint = "torrents" /\ shown.page = page /\ ~ HasNext
    /\ ~ guessed /\ ~ shown.grown /\ ~ strayed /\ page <= MaxPage
    => owed \subseteq seen

(***************************************************************************)
(* The buttons let nobody go on from a page that was not shown, unless the *)
(* timer asked again with a request in flight, whose answer then enables   *)
(* them too early, or a request failed.                                    *)
(***************************************************************************)
StraysByTimer == strayed => disturbed

(***************************************************************************)
(* Readers of the rate, who all reset it for each other, are together told *)
(* of no request twice.  The rates they are told are too high by the       *)
(* truncated second, but amount to less than twice these requests.         *)
(***************************************************************************)
RateBounded ==
  /\ reported <= meter.requests
  /\ meter.requests <= counted
  /\ claimed <= (2 * TicksPerSecond - 1) * reported

=============================================================================
