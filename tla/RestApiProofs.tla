--------------------------- MODULE RestApiProofs ---------------------------
(***************************************************************************)
(* The properties of RestApi, for every set of torrents, peers and task    *)
(* threads, every page size and any number of requests in flight: the      *)
(* meter tells of no request twice, the figures of one response are close  *)
(* to each other, and a walk through the pages misses no torrent that      *)
(* stayed where it was.                                                    *)
(***************************************************************************)
EXTENDS RestApi, FiniteSetTheorems, TLAPS

(* A slot in use, or not, has its type. *)
LEMMA SlotFacts ==
  /\ Idle \in Slots /\ Idle.step = "idle"
  /\ \A p \in Nat : Asked(p) \in Slots /\ Asked(p).step = "count" /\ Asked(p).page = p
<1>1. Idle \in Slots /\ Idle.step = "idle"
  BY DEF Idle, Slots
<1>2. \A p \in Nat : Asked(p) \in Slots /\ Asked(p).step = "count" /\ Asked(p).page = p
  BY DEF Asked, Slots
<1> QED
  BY <1>1, <1>2

(* The queries by name. *)
LEMMA QueryNames ==
  /\ Len(Queries) = 7
  /\ Queries[1] = "active_seeders" /\ Queries[2] = "active_leechers"
  /\ Queries[3] = "complete"       /\ Queries[4] = "incomplete"
  /\ Queries[5] = "downloaded"     /\ Queries[6] = "torrent_count"
  /\ Queries[7] = "peer_count"
BY DEF Queries

(* No two queries are for the same figure. *)
LEMMA QueriesDiffer ==
  \A q, r \in 1 .. Len(Queries) : Queries[q] = Queries[r] => q = r
<1> SUFFICES ASSUME NEW q \in 1 .. 7, NEW r \in 1 .. 7, Queries[q] = Queries[r]
             PROVE  q = r
  BY QueryNames
<1>1. q \in {1, 2, 3, 4, 5, 6, 7} /\ r \in {1, 2, 3, 4, 5, 6, 7}
  OBVIOUS
<1> QED
  BY <1>1, QueryNames

(* A figure of /api/stats is what one of the seven queries returns. *)
LEMMA FigureNames ==
  /\ Figures = {"active_seeders", "active_leechers", "complete", "incomplete",
                "downloaded", "torrent_count", "peer_count"}
  /\ \A q \in 1 .. Len(Queries) : Queries[q] \in Figures
<1>1. \A q \in 1 .. 7 : q \in {1, 2, 3, 4, 5, 6, 7}
  OBVIOUS
<1> QED
  BY <1>1, QueryNames DEF Figures

(* Rows and peers can be counted. *)
LEMMA SubsetCounted ==
  ASSUME NEW S, IsFiniteSet(S), NEW T, T \subseteq S
  PROVE  IsFiniteSet(T) /\ Cardinality(T) \in Nat /\ Cardinality(T) <= Cardinality(S)
BY FS_Subset, FS_CardinalityType

(* So can the rows of the torrents table, *)
LEMMA RowsFinite ==
  IsFiniteSet(Rows) /\ Cardinality(Rows) \in Nat
<1>1. Rows \subseteq Torrents
  BY DEF Rows
<1> QED
  BY <1>1, SubsetCounted, ApiAssumption

(* and the peers of some classes. *)
LEMMA OfClassCounts ==
  \A C : OfClass(C) \in Nat
<1> SUFFICES ASSUME NEW C PROVE OfClass(C) \in Nat
  OBVIOUS
<1>1. {p \in Peers : peer[p] \in C} \subseteq Peers
  OBVIOUS
<1> QED
  BY <1>1, SubsetCounted, ApiAssumption DEF OfClass

(* Every query returns a count. *)
LEMMA AnswerCounts ==
  ASSUME TypeOK, NEW f \in Figures
  PROVE  Answer(f) \in Nat
<1>1. downloads \in Nat
  BY DEF TypeOK
<1> QED
  BY <1>1, FigureNames, OfClassCounts, RowsFinite DEF Answer

-----------------------------------------------------------------------------
(* Types, and the meter *)

(* updated_at = 0 stands for no row: the clock never shows it. *)
ClockRuns == now > 0

(* rps_mutex_: one reader at a time is between its loads. *)
OneInMeter ==
  \A r, s \in Readers : rate[r].at # "outside" /\ rate[s].at # "outside" => r = s

(* A rate about to be reported and those reported are of counted requests, *)
(* and it is over a second at least.                                       *)
RateOwed ==
  \A r \in Readers :
    /\ rate[r].at # "outside" => Seconds(rate[r].ticks) > 0
    /\ rate[r].at = "loaded"  => rate[r].count \in Nat /\ reported + rate[r].count <= counted

MeterInv == OneInMeter /\ RateOwed /\ RateBounded

BaseInv == TypeOK /\ ClockRuns /\ MeterInv

(* The types, by the parts of the model that steps change together. *)
ClockTypes == endpoint \in Endpoints /\ {now, changes, requests} \subseteq Nat
TableTypes == /\ updated \in [Torrents -> 0 .. now] /\ peer \in [Peers -> Classes]
              /\ downloads \in Nat
StatsTypes == /\ query \in 0 .. Len(Queries) + 1 /\ figure \in [Figures -> Nat]
              /\ changed \subseteq Peers /\ guessed \in BOOLEAN
PageTypes  == /\ page \in Nat \ {0} /\ passed \in Nat
              /\ {loading, strayed, disturbed} \subseteq BOOLEAN
              /\ fetch \in [Fetches -> Slots]
              /\ shown \in [page : Nat, total : Nat, grown : BOOLEAN]
              /\ seen \subseteq Torrents /\ owed \subseteq Torrents
MeterTypes == /\ counted \in Nat /\ {reported, claimed} \subseteq Int
              /\ meter \in [time : 0 .. now, requests : Nat]
              /\ rate \in [Readers -> [at    : {"outside", "timed", "loaded"},
                                       ticks : Nat, count : Int]]

(* They make up the type invariant, *)
LEMMA TypeParts ==
  TypeOK <=> ClockTypes /\ TableTypes /\ StatsTypes /\ PageTypes /\ MeterTypes
<1>1. TypeOK => ClockTypes /\ TableTypes
  BY DEF TypeOK, ClockTypes, TableTypes
<1>2. TypeOK => StatsTypes /\ PageTypes
  BY DEF TypeOK, StatsTypes, PageTypes
<1>3. TypeOK => MeterTypes
  BY DEF TypeOK, MeterTypes
<1>4. ASSUME ClockTypes, TableTypes, StatsTypes, PageTypes, MeterTypes PROVE TypeOK
  <2>1. {now, changes, requests, downloads, counted, passed} \subseteq Nat
    BY <1>4 DEF ClockTypes, TableTypes, PageTypes, MeterTypes
  <2> QED
    BY <1>4, <2>1, Zenon DEF TypeOK, ClockTypes, TableTypes, StatsTypes, PageTypes, MeterTypes
<1> QED
  BY <1>1, <1>2, <1>3, <1>4

(* after a step as before it. *)
LEMMA PartsTyped ==
  ASSUME ClockTypes', TableTypes', StatsTypes', PageTypes', MeterTypes'
  PROVE  TypeOK'
<1>1. {now', changes', requests', downloads', counted', passed'} \subseteq Nat
  BY DEF ClockTypes, TableTypes, PageTypes, MeterTypes
<1> QED
  BY <1>1, Zenon DEF TypeOK, ClockTypes, TableTypes, StatsTypes, PageTypes, MeterTypes

(* A step that leaves variables of a part alone leaves their types. *)
LEMMA PartsKept ==
  ASSUME TypeOK
  PROVE  /\ tables' = tables /\ now' = now => TableTypes'
         /\ stats' = stats /\ guessed' = guessed => StatsTypes'
         /\ walk' = walk => PageTypes'
         /\ rps' = rps /\ now' = now => MeterTypes'
<1>1. tables' = tables /\ now' = now => TableTypes'
  BY TypeParts DEF TableTypes, tables
<1>2. stats' = stats /\ guessed' = guessed => StatsTypes'
  BY TypeParts DEF StatsTypes, stats
<1>3. walk' = walk => PageTypes'
  BY TypeParts DEF PageTypes, walk, pages, story
<1>4. rps' = rps /\ now' = now => MeterTypes'
  BY TypeParts DEF MeterTypes, rps
<1> QED
  BY <1>1, <1>2, <1>3, <1>4

(* And one that leaves the meter alone leaves what its readers owe. *)
LEMMA MeterKept ==
  ASSUME MeterInv, rps' = rps
  PROVE  MeterInv'
<1>1. rate' = rate /\ meter' = meter /\ counted' = counted /\ reported' = reported
      /\ claimed' = claimed
  BY DEF rps
<1> QED
  BY <1>1 DEF MeterInv, OneInMeter, RateOwed, RateBounded

(* No request has come at first, and the clock does not show the time of no row. *)
LEMMA InitBase == Init => BaseInv
<1> SUFFICES ASSUME Init PROVE BaseInv
  OBVIOUS
<1>1. updated \in [Torrents -> 0 .. now] /\ peer \in [Peers -> Classes]
  BY DEF Init, Classes
<1>2. owed \subseteq Torrents
  BY DEF Init, Rows
<1>3. query \in 0 .. Len(Queries) + 1
  BY QueryNames DEF Init
<1>4. /\ rate \in [Readers -> [at : {"outside", "timed", "loaded"}, ticks : Nat, count : Int]]
      /\ \A r \in Readers : rate[r].at = "outside"
  BY DEF Init, Outside
<1>5. MeterInv
  <2>1. meter.requests = 0 /\ counted = 0 /\ reported = 0 /\ claimed = 0
    BY DEF Init
  <2>2. RateBounded
    BY <2>1, ApiAssumption DEF RateBounded
  <2> QED
    BY <1>4, <2>2 DEF MeterInv, OneInMeter, RateOwed
<1>6. {now, changes, requests, downloads, counted, passed} \subseteq Nat
  BY DEF Init
<1>7. /\ meter \in [time : 0 .. now, requests : Nat] /\ {reported, claimed} \subseteq Int
      /\ page \in Nat \ {0}
  BY DEF Init
<1>10. fetch \in [Fetches -> Slots]
  BY SlotFacts DEF Init
<1>11. shown \in [page : Nat, total : Nat, grown : BOOLEAN]
  BY DEF Init
<1>12. {loading, strayed, disturbed} \subseteq BOOLEAN
  BY DEF Init
<1>8. figure \in [Figures -> Nat]
  BY DEF Init
<1>9. TypeOK
  BY <1>1, <1>2, <1>3, <1>4, <1>6, <1>7, <1>8, <1>10, <1>11, <1>12 DEF Init, TypeOK
<1> QED
  BY <1>5, <1>9 DEF Init, BaseInv, ClockRuns

(* What the announces and the clock change. *)
LEMMA AnnouncesKeepBase ==
  ASSUME BaseInv,
         \/ \E t \in Torrents : TouchTorrent(t)
         \/ \E p \in Peers, class \in Classes : ChangePeer(p, class)
         \/ Download \/ RecordRequest \/ Tick
  PROVE  BaseInv'
<1>0. /\ TypeOK /\ ClockTypes /\ TableTypes /\ StatsTypes /\ PageTypes /\ MeterTypes
      /\ MeterInv /\ now > 0
  BY TypeParts DEF BaseInv, ClockRuns
<1>1. ASSUME NEW t \in Torrents, TouchTorrent(t) PROVE BaseInv'
  <2>1. /\ rps' = rps /\ now' = now /\ stats' = stats /\ guessed' = guessed
        /\ endpoint' = endpoint /\ changes' = changes + 1 /\ requests' = requests
        /\ updated' = [updated EXCEPT ![t] = now] /\ peer' = peer /\ downloads' = downloads
        /\ owed' = owed \ {u \in Torrents : u = t \/ updated[u] = now}
        /\ fetch' = [f \in Fetches |->
                       IF fetch[f].step = "select" /\ t \notin Rows
                       THEN [fetch[f] EXCEPT !.grown = TRUE] ELSE fetch[f]]
        /\ UNCHANGED <<page, loading, shown, seen, passed, strayed, disturbed>>
    BY <1>1 DEF TouchTorrent, Change
  <2>2. ClockTypes'
    BY <1>0, <2>1 DEF ClockTypes
  <2>3. TableTypes'
    BY <1>0, <2>1 DEF TableTypes, ClockTypes
  <2>4. PageTypes'
    <3>1. \A f \in Fetches : fetch[f] \in Slots
      BY <1>0 DEF PageTypes
    <3>2. \A f \in Fetches : [fetch[f] EXCEPT !.grown = TRUE] \in Slots
      BY <3>1 DEF Slots
    <3>3. fetch' \in [Fetches -> Slots]
      BY <2>1, <3>1, <3>2
    <3> QED
      BY <1>0, <2>1, <3>3 DEF PageTypes
  <2>5. TypeOK'
    BY <1>0, <2>1, <2>2, <2>3, <2>4, PartsKept, PartsTyped
  <2> QED
    BY <1>0, <2>1, <2>5, MeterKept DEF BaseInv, ClockRuns
<1>2. ASSUME NEW p \in Peers, NEW class \in Classes, ChangePeer(p, class) PROVE BaseInv'
  <2>1. /\ rps' = rps /\ now' = now /\ walk' = walk /\ guessed' = guessed
        /\ endpoint' = endpoint /\ changes' = changes + 1 /\ requests' = requests
        /\ updated' = updated /\ downloads' = downloads /\ query' = query /\ figure' = figure
        /\ peer' = [peer EXCEPT ![p] = class]
        /\ changed' = IF query = 0 THEN changed ELSE changed \union {p}
    BY <1>2 DEF ChangePeer, Change
  <2>2. ClockTypes'
    BY <1>0, <2>1 DEF ClockTypes
  <2>3. TableTypes'
    BY <1>0, <2>1 DEF TableTypes
  <2>4. StatsTypes'
    BY <1>0, <2>1 DEF StatsTypes
  <2>5. TypeOK'
    BY <1>0, <2>1, <2>2, <2>3, <2>4, PartsKept, PartsTyped
  <2> QED
    BY <1>0, <2>1, <2>5, MeterKept DEF BaseInv, ClockRuns
<1>3. CASE Download
  <2>1. /\ rps' = rps /\ now' = now /\ walk' = walk /\ stats' = stats /\ guessed' = guessed
        /\ endpoint' = endpoint /\ changes' = changes + 1 /\ requests' = requests
        /\ updated' = updated /\ peer' = peer /\ downloads' = downloads + 1
    BY <1>3 DEF Download, Change
  <2>2. ClockTypes'
    BY <1>0, <2>1 DEF ClockTypes
  <2>3. TableTypes'
    BY <1>0, <2>1 DEF TableTypes
  <2>4. TypeOK'
    BY <1>0, <2>1, <2>2, <2>3, PartsKept, PartsTyped
  <2> QED
    BY <1>0, <2>1, <2>4, MeterKept DEF BaseInv, ClockRuns
<1>4. CASE Tick
  <2>1. /\ rps' = rps /\ now' = now + 1 /\ walk' = walk /\ stats' = stats /\ guessed' = guessed
        /\ endpoint' = endpoint /\ changes' = changes /\ requests' = requests
        /\ tables' = tables
    BY <1>4 DEF Tick
  <2>2. now \in Nat
    BY <1>0 DEF ClockTypes
  <2>3. ClockTypes'
    BY <1>0, <2>1 DEF ClockTypes
  <2>4. TableTypes'
    BY <1>0, <2>1, <2>2 DEF TableTypes, tables
  <2>5. MeterTypes'
    BY <1>0, <2>1, <2>2 DEF MeterTypes, rps
  <2>6. TypeOK'
    BY <1>0, <2>1, <2>3, <2>4, <2>5, PartsKept, PartsTyped
  <2>7. now' > 0
    BY <2>1, <2>2
  <2> QED
    BY <1>0, <2>1, <2>6, <2>7, MeterKept DEF BaseInv, ClockRuns
<1>5. CASE RecordRequest
  <2>1. /\ counted' = counted + 1 /\ rate' = rate /\ reported' = reported /\ meter' = meter
        /\ claimed' = claimed
        /\ now' = now /\ walk' = walk /\ stats' = stats /\ guessed' = guessed
        /\ endpoint' = endpoint /\ changes' = changes + 1 /\ requests' = requests
        /\ tables' = tables
    BY <1>5 DEF RecordRequest, Change
  <2>2. reported \in Int /\ counted \in Nat /\ meter.requests \in Nat
    BY <1>0 DEF MeterTypes
  <2>3. OneInMeter' /\ RateBounded'
    BY <1>0, <2>1, <2>2 DEF MeterInv, OneInMeter, RateBounded
  <2>4. ASSUME NEW s \in Readers
        PROVE  /\ rate'[s].at # "outside" => Seconds(rate'[s].ticks) > 0
               /\ rate'[s].at = "loaded"  => /\ rate'[s].count \in Nat
                                             /\ reported' + rate'[s].count <= counted'
    <3>1. /\ rate[s].at # "outside" => Seconds(rate[s].ticks) > 0
          /\ rate[s].at = "loaded"  => /\ rate[s].count \in Nat
                                       /\ reported + rate[s].count <= counted
      BY <1>0 DEF MeterInv, RateOwed
    <3>2. \A c \in Nat : reported + c <= counted => reported + c <= counted + 1
      BY <2>2
    <3> QED
      BY <2>1, <3>1, <3>2
  <2>5. RateOwed'
    BY <2>4 DEF RateOwed, Seconds
  <2>6. ClockTypes'
    BY <1>0, <2>1 DEF ClockTypes
  <2>7. MeterTypes'
    BY <1>0, <2>1 DEF MeterTypes
  <2>8. TypeOK'
    BY <1>0, <2>1, <2>6, <2>7, PartsKept, PartsTyped
  <2> QED
    BY <1>0, <2>1, <2>3, <2>5, <2>8 DEF BaseInv, ClockRuns, MeterInv
<1> QED
  BY <1>1, <1>2, <1>3, <1>4, <1>5

(* What the reader of the statistics changes. *)
LEMMA StatsKeepBase ==
  ASSUME BaseInv, GetStats \/ Count \/ CountFails \/ StatsOverflow \/ StatsDone
  PROVE  BaseInv'
<1>0. /\ TypeOK /\ ClockTypes /\ StatsTypes /\ MeterInv /\ now > 0
  BY TypeParts DEF BaseInv, ClockRuns
<1>1. /\ rps' = rps /\ walk' = walk /\ tables' = tables
      /\ endpoint' = endpoint /\ now' = now /\ changes' = changes
      /\ requests' \in {requests, requests + 1}
  BY DEF GetStats, Count, CountFails, StatsOverflow, StatsDone, Request, clock
<1>2. changed' \in {changed, {}} /\ guessed' \in {guessed, TRUE, FALSE}
  BY DEF GetStats, Count, CountFails, StatsOverflow, StatsDone
<1>3. query' \in 0 .. Len(Queries) + 1
  <2>1. query \in 0 .. 8
    BY <1>0, QueryNames DEF StatsTypes
  <2> QED
    BY <2>1, QueryNames DEF GetStats, Count, CountFails, StatsOverflow, StatsDone
<1>4. figure' \in [Figures -> Nat]
  <2>0. figure \in [Figures -> Nat]
    BY <1>0 DEF StatsTypes
  <2>1. CASE GetStats \/ StatsOverflow \/ StatsDone
    BY <2>0, <2>1 DEF GetStats, StatsOverflow, StatsDone
  <2>2. CASE Count
    <3>1. /\ query \in 1 .. Len(Queries)
          /\ figure' = [figure EXCEPT ![Queries[query]] = Answer(Queries[query])]
      BY <2>2 DEF Count
    <3>2. Queries[query] \in Figures
      BY <3>1, FigureNames
    <3>3. Answer(Queries[query]) \in Nat
      BY <1>0, <3>2, AnswerCounts
    <3> QED
      BY <2>0, <3>1, <3>3
  <2>3. CASE CountFails
    BY <2>0, <2>3 DEF CountFails
  <2> QED
    BY <2>1, <2>2, <2>3
<1>5. ClockTypes'
  BY <1>0, <1>1 DEF ClockTypes
<1>6. StatsTypes'
  BY <1>0, <1>2, <1>3, <1>4 DEF StatsTypes
<1>7. TypeOK'
  BY <1>0, <1>1, <1>5, <1>6, PartsKept, PartsTyped
<1> QED
  BY <1>0, <1>1, <1>7, MeterKept DEF BaseInv, ClockRuns

(* The steps of the dashboard and of get_torrents for it. *)
Paging ==
  \/ \E f \in Fetches : \/ CountTorrents(f) \/ TotalFails(f)
                        \/ SelectPage(f) \/ SelectFails(f)
                        \/ ShowAnswer(f) \/ FetchFails(f)
  \/ NextPage \/ PrevPage \/ RefreshPage

(* A request that begins takes a slot that is not in use. *)
LEMMA FetchBegins ==
  ASSUME NEW p, Fetch(p)
  PROVE  \E f \in Fetches : fetch[f].step = "idle" /\ fetch' = [fetch EXCEPT ![f] = Asked(p)]
BY DEF Fetch, InFlight

(* The buttons and the timer ask for the page the dashboard is then on. *)
LEMMA AskedFor ==
  ASSUME NextPage \/ PrevPage \/ RefreshPage
  PROVE  /\ loading' = TRUE
         /\ \E f \in Fetches : /\ fetch[f].step = "idle"
                              /\ fetch' = [fetch EXCEPT ![f] = Asked(page')]
<1>1. CASE NextPage \/ PrevPage
  BY <1>1, FetchBegins DEF NextPage, PrevPage, Fetch
<1>2. CASE RefreshPage
  BY <1>2, FetchBegins DEF RefreshPage, Fetch
<1> QED
  BY <1>1, <1>2

(* An order lists torrents, and what is cut out of it are some of them. *)
LEMMA CutTypes ==
  \A o \in Orders : \A p : Cut(o, p) \subseteq Torrents
<1>1. \A o \in Orders : o \in [1 .. Cardinality(Rows) -> Rows]
  BY DEF Orders
<1>2. Rows \subseteq Torrents
  BY DEF Rows
<1> QED
  BY <1>1, <1>2 DEF Cut

(* Requests in flight keep their type, through each step of theirs. *)
LEMMA FetchTypes ==
  ASSUME TypeOK, Paging
  PROVE  fetch' \in [Fetches -> Slots]
<1>0. /\ fetch \in [Fetches -> Slots]
      /\ page \in Nat \ {0}
  BY DEF TypeOK
<1>1. ASSUME NEW f \in Fetches, CountTorrents(f) \/ TotalFails(f) \/ SelectFails(f)
      PROVE  fetch' \in [Fetches -> Slots]
  BY <1>0, <1>1, RowsFinite DEF CountTorrents, TotalFails, SelectFails, Slots
<1>2. ASSUME NEW f \in Fetches, SelectPage(f)
      PROVE  fetch' \in [Fetches -> Slots]
  <2>1. PICK o \in Orders :
          fetch' = [fetch EXCEPT ![f].step = "answer", ![f].rows = Cut(o, fetch[f].page)]
    BY <1>2 DEF SelectPage
  <2>2. Cut(o, fetch[f].page) \subseteq Torrents
    BY CutTypes
  <2>3. [fetch[f] EXCEPT !.step = "answer", !.rows = Cut(o, fetch[f].page)] \in Slots
    BY <1>0, <2>2 DEF Slots
  <2>4. fetch' = [fetch EXCEPT ![f] =
                    [fetch[f] EXCEPT !.step = "answer", !.rows = Cut(o, fetch[f].page)]]
    BY <1>0, <2>1 DEF Slots
  <2> QED
    BY <1>0, <2>3, <2>4
<1>3. ASSUME NEW f \in Fetches, ShowAnswer(f) \/ FetchFails(f)
      PROVE  fetch' \in [Fetches -> Slots]
  BY <1>0, <1>3, SlotFacts DEF ShowAnswer, FetchFails
<1>4. CASE NextPage \/ PrevPage \/ RefreshPage
  <2>1. page' \in Nat
    BY <1>0, <1>4 DEF NextPage, PrevPage, RefreshPage
  <2>2. PICK f \in Fetches : fetch' = [fetch EXCEPT ![f] = Asked(page')]
    BY <1>4, AskedFor
  <2> QED
    BY <1>0, <2>1, <2>2, SlotFacts
<1> QED
  BY <1>1, <1>2, <1>3, <1>4 DEF Paging

(* What the dashboard changes. *)
LEMMA WalkKeepsBase ==
  ASSUME BaseInv, Paging
  PROVE  BaseInv'
<1>0. /\ TypeOK /\ ClockTypes /\ StatsTypes /\ PageTypes /\ MeterInv /\ now > 0
  BY TypeParts DEF BaseInv, ClockRuns
<1>1. /\ rps' = rps /\ stats' = stats /\ tables' = tables
      /\ endpoint' = endpoint /\ now' = now /\ changes' = changes /\ owed' = owed
      /\ requests' \in {requests, requests + 1}
      /\ guessed' \in {guessed, TRUE}
  BY DEF Paging, CountTorrents, TotalFails, SelectPage, SelectFails, ShowAnswer, FetchFails,
         NextPage, PrevPage, RefreshPage, Fetch, Request, clock, story
<1>2. ClockTypes'
  BY <1>0, <1>1 DEF ClockTypes
<1>3. StatsTypes'
  BY <1>0, <1>1 DEF StatsTypes, stats
<1>4. page' \in Nat \ {0}
  <2>1. page \in Nat \ {0}
    BY <1>0 DEF PageTypes
  <2>2. page' \in {page, page + 1} \/ (page > 1 /\ page' = page - 1)
    BY DEF Paging, CountTorrents, TotalFails, SelectPage, SelectFails, ShowAnswer, FetchFails,
           NextPage, PrevPage, RefreshPage
  <2> QED
    BY <2>1, <2>2
<1>5. {loading', strayed', disturbed'} \subseteq BOOLEAN
  BY <1>0, Zenon DEF Paging, CountTorrents, TotalFails, SelectPage, SelectFails, ShowAnswer,
       FetchFails, NextPage, PrevPage, RefreshPage, Fetch, story, PageTypes
<1>6. /\ seen' \subseteq Torrents /\ passed' \in Nat
      /\ shown' \in [page : Nat, total : Nat, grown : BOOLEAN]
  <2>0. /\ fetch \in [Fetches -> Slots] /\ seen \subseteq Torrents /\ passed \in Nat
        /\ shown \in [page : Nat, total : Nat, grown : BOOLEAN]
    BY <1>0 DEF PageTypes
  <2>1. ASSUME NEW f \in Fetches, ShowAnswer(f)
        PROVE  /\ seen' \subseteq Torrents /\ passed' \in Nat
               /\ shown' \in [page : Nat, total : Nat, grown : BOOLEAN]
    <3>1. /\ shown' = [page |-> fetch[f].page, total |-> fetch[f].total, grown |-> fetch[f].grown]
          /\ seen' = seen \union fetch[f].rows
          /\ passed' = IF fetch[f].page > passed THEN fetch[f].page ELSE passed
      BY <2>1 DEF ShowAnswer
    <3> QED
      BY <2>0, <3>1 DEF Slots
  <2>2. (\E f \in Fetches : ShowAnswer(f)) \/ UNCHANGED <<seen, shown, passed>>
    BY DEF Paging, CountTorrents, TotalFails, SelectPage, SelectFails, FetchFails,
           NextPage, PrevPage, RefreshPage, story
  <2> QED
    BY <2>0, <2>1, <2>2
<1>7. PageTypes'
  BY <1>0, <1>1, <1>4, <1>5, <1>6, FetchTypes, Zenon DEF PageTypes
<1>8. TypeOK'
  BY <1>0, <1>1, <1>2, <1>3, <1>7, PartsKept, PartsTyped
<1> QED
  BY <1>0, <1>1, <1>8, MeterKept DEF BaseInv, ClockRuns

(***************************************************************************)
(* A rate over whole seconds, held against the true duration, amounts to   *)
(* less than twice its requests: the truncation drops less than a second   *)
(* of at least one.                                                        *)
(***************************************************************************)
LEMMA Inflation ==
  ASSUME NEW c \in Nat, NEW k \in Nat, Seconds(k) > 0
  PROVE  /\ (c * k) \div Seconds(k) \in Nat
         /\ (c * k) \div Seconds(k) <= (2 * TicksPerSecond - 1) * c
<1> DEFINE T == TicksPerSecond
           s == Seconds(k)
           q == (c * k) \div s
<1>1. T \in Nat \ {0}
  BY ApiAssumption
<1>2. s \in Nat /\ k <= T * s + T - 1
  BY <1>1 DEF Seconds
<1>3. s \in Nat \ {0}
  BY <1>2
<1> HIDE DEF s, T
<1>4. c * k \in Nat
  OBVIOUS
<1>5. q \in Nat /\ s * q <= c * k
  BY <1>3, <1>4
<1> HIDE DEF q
<1>6. k <= (2 * T - 1) * s
  <2>1. (T - 1) * (s - 1) >= 0
    BY <1>1, <1>3
  <2>2. (T - 1) * (s - 1) = T * s - T - s + 1 /\ (2 * T - 1) * s = 2 * (T * s) - s
        /\ T * s \in Nat
    BY <1>1, <1>3
  <2> QED
    BY <1>1, <1>2, <1>3, <2>1, <2>2
<1>7. c * k <= c * ((2 * T - 1) * s)
  <2>1. (2 * T - 1) * s \in Nat
    BY <1>1, <1>3
  <2> QED
    BY <1>6, <2>1
<1>8. c * ((2 * T - 1) * s) = s * ((2 * T - 1) * c)
  BY <1>1, <1>3
<1>9. s * q <= s * ((2 * T - 1) * c)
  <2>1. s * q \in Nat /\ (2 * T - 1) * c \in Nat
    BY <1>1, <1>3, <1>5
  <2> QED
    BY <1>3, <1>4, <1>5, <1>7, <1>8, <2>1
<1>10. q <= (2 * T - 1) * c
  <2>1. (2 * T - 1) * c \in Nat
    BY <1>1
  <2> QED
    BY <1>3, <1>5, <1>9, <2>1
<1> QED
  BY <1>5, <1>10 DEF q, s, T

(***************************************************************************)
(* The meter: a reader inside alone knows which requests its rate is of.   *)
(***************************************************************************)
LEMMA MeterKeepsBase ==
  ASSUME BaseInv, NEW r \in Readers, EnterMeter(r) \/ LoadCount(r) \/ LeaveMeter(r)
  PROVE  BaseInv'
<1> DEFINE Rates == [at : {"outside", "timed", "loaded"}, ticks : Nat, count : Int]
<1>0. /\ counted \in Nat /\ reported \in Int /\ claimed \in Int /\ requests \in Nat
      /\ meter \in [time : 0 .. now, requests : Nat] /\ now \in Nat
      /\ rate \in [Readers -> Rates] /\ TypeOK /\ ClockTypes /\ MeterInv
  BY TypeParts DEF BaseInv, ClockTypes, MeterTypes
<1>1. /\ stats' = stats /\ tables' = tables /\ walk' = walk /\ guessed' = guessed
      /\ endpoint' = endpoint /\ now' = now /\ changes' = changes /\ counted' = counted
  BY DEF EnterMeter, LoadCount, LeaveMeter, Request, clock
<1>2. requests' \in {requests, requests + 1}
  BY DEF EnterMeter, LoadCount, LeaveMeter, Request, clock
<1>3. ASSUME rate' \in [Readers -> Rates], meter' \in [time : 0 .. now, requests : Nat],
             {reported', claimed'} \subseteq Int, MeterInv'
      PROVE  BaseInv'
  <2>1. ClockTypes'
    BY <1>0, <1>1, <1>2 DEF ClockTypes
  <2>2. MeterTypes'
    BY <1>0, <1>1, <1>3 DEF MeterTypes
  <2>3. TypeOK'
    BY <1>0, <1>1, <2>1, <2>2, PartsKept, PartsTyped
  <2> QED
    BY <1>1, <1>3, <2>3 DEF BaseInv, ClockRuns
<1>4. reported <= meter.requests /\ meter.requests <= counted
      /\ claimed <= (2 * TicksPerSecond - 1) * reported
  BY <1>0 DEF MeterInv, RateBounded
<1>5. CASE EnterMeter(r)
  <2> DEFINE told == [at |-> "timed", ticks |-> now - meter.time, count |-> 0]
  <2>1. /\ MeterFree /\ rate[r].at = "outside" /\ reported' = reported /\ claimed' = claimed
        /\ Seconds(now - meter.time) > 0
        /\ rate' = [rate EXCEPT ![r] = told]
        /\ meter' = [meter EXCEPT !.time = now]
    BY <1>5 DEF EnterMeter
  <2>2. now - meter.time \in Nat
    BY <1>0
  <2>3. told \in Rates /\ told.at = "timed" /\ told.ticks = now - meter.time
    BY <2>2
  <2> HIDE DEF told
  <2>4. rate' \in [Readers -> Rates] /\ rate'[r] = told
    BY <1>0, <2>1, <2>3
  <2>5. \A s \in Readers \ {r} : rate'[s].at = "outside"
    BY <1>0, <2>1 DEF MeterFree
  <2>6. meter' \in [time : 0 .. now, requests : Nat] /\ meter'.requests = meter.requests
    BY <1>0, <2>1
  <2>7. OneInMeter'
    BY <2>5 DEF OneInMeter
  <2>8. RateOwed'
    <3> SUFFICES ASSUME NEW s \in Readers
                 PROVE  /\ rate'[s].at # "outside" => Seconds(rate'[s].ticks) > 0
                        /\ rate'[s].at = "loaded" => /\ rate'[s].count \in Nat
                                                     /\ reported' + rate'[s].count <= counted'
      BY DEF RateOwed, Seconds
    <3>1. CASE s = r
      BY <2>1, <2>3, <2>4, <3>1
    <3>2. CASE s # r
      BY <2>5, <3>2
    <3> QED
      BY <3>1, <3>2
  <2>9. RateBounded'
    BY <1>1, <1>4, <2>1, <2>6 DEF RateBounded
  <2> QED
    BY <1>0, <1>3, <2>1, <2>4, <2>6, <2>7, <2>8, <2>9 DEF MeterInv
<1>6. CASE LoadCount(r)
  <2>1. /\ rate[r].at = "timed" /\ reported' = reported /\ claimed' = claimed /\ meter' = meter
        /\ rate' = [rate EXCEPT ![r] =
                      [at |-> "loaded", ticks |-> @.ticks, count |-> counted - meter.requests]]
    BY <1>6 DEF LoadCount
  <2>2. counted - meter.requests \in Nat
    BY <1>0, <1>4
  <2>3. /\ rate' \in [Readers -> Rates] /\ rate'[r].at = "loaded"
        /\ rate'[r].count = counted - meter.requests /\ rate'[r].ticks = rate[r].ticks
        /\ \A s \in Readers \ {r} : rate'[s] = rate[s]
    <3> DEFINE told == [at    |-> "loaded", ticks |-> rate[r].ticks,
                        count |-> counted - meter.requests]
    <3>1. rate' = [rate EXCEPT ![r] = told]
      BY <2>1
    <3>2. /\ told \in Rates /\ told.at = "loaded" /\ told.ticks = rate[r].ticks
          /\ told.count = counted - meter.requests
      BY <1>0, <2>2
    <3> HIDE DEF told
    <3> QED
      BY <1>0, <3>1, <3>2
  <2>4. OneInMeter'
    BY <1>0, <2>1, <2>3 DEF MeterInv, OneInMeter
  <2>5. RateOwed'
    <3> SUFFICES ASSUME NEW s \in Readers
                 PROVE  /\ rate'[s].at # "outside" => Seconds(rate'[s].ticks) > 0
                        /\ rate'[s].at = "loaded" => /\ rate'[s].count \in Nat
                                                     /\ reported' + rate'[s].count <= counted'
      BY DEF RateOwed, Seconds
    <3>1. CASE s = r
      <4>1. Seconds(rate[r].ticks) > 0
        BY <1>0, <2>1 DEF MeterInv, RateOwed
      <4>2. reported' + rate'[r].count <= counted'
        BY <1>0, <1>1, <1>4, <2>1, <2>3
      <4> QED
        BY <2>2, <2>3, <3>1, <4>1, <4>2
    <3>2. CASE s # r
      <4>1. rate'[s] = rate[s]
        BY <2>3, <3>2
      <4> QED
        BY <1>0, <1>1, <2>1, <4>1 DEF MeterInv, RateOwed
    <3> QED
      BY <3>1, <3>2
  <2>6. RateBounded'
    BY <1>1, <1>4, <2>1 DEF RateBounded
  <2> QED
    BY <1>0, <1>3, <2>1, <2>3, <2>4, <2>5, <2>6 DEF MeterInv
<1>7. CASE LeaveMeter(r)
  <2> DEFINE c == rate[r].count
             k == rate[r].ticks
             more == (c * k) \div Seconds(k)
  <2>1. /\ rate[r].at = "loaded"
        /\ reported' = reported + c /\ claimed' = claimed + more
        /\ rate' = [rate EXCEPT ![r] = Outside]
        /\ meter' = [meter EXCEPT !.requests = counted]
    BY <1>7 DEF LeaveMeter
  <2>2. /\ c \in Nat /\ k \in Nat /\ reported + c <= counted /\ Seconds(k) > 0
    BY <1>0, <2>1 DEF MeterInv, RateOwed
  <2>3. more \in Nat /\ more <= (2 * TicksPerSecond - 1) * c
    BY <2>2, Inflation
  <2> HIDE DEF c, k, more
  <2>4. meter' \in [time : 0 .. now, requests : Nat] /\ meter'.requests = counted
    BY <1>0, <2>1
  <2>5. rate' \in [Readers -> Rates] /\ \A s \in Readers : rate'[s].at = "outside"
    BY <1>0, <2>1 DEF MeterInv, OneInMeter, Outside
  <2>6. claimed' <= (2 * TicksPerSecond - 1) * reported'
    <3> DEFINE W == 2 * TicksPerSecond - 1
    <3>1. W \in Nat
      BY ApiAssumption
    <3> HIDE DEF W
    <3>2. W * (reported + c) = W * reported + W * c /\ W * reported \in Int /\ W * c \in Int
      BY <1>0, <2>2, <3>1
    <3>3. claimed <= W * reported /\ more <= W * c
      BY <1>4, <2>3 DEF W
    <3>4. claimed + more <= W * (reported + c)
      BY <1>0, <2>3, <3>2, <3>3
    <3> QED
      BY <2>1, <3>4 DEF W
  <2>7. RateBounded'
    BY <1>0, <1>1, <2>1, <2>2, <2>4, <2>6 DEF RateBounded
  <2>8. OneInMeter' /\ RateOwed'
    BY <2>5 DEF OneInMeter, RateOwed
  <2>9. {reported', claimed'} \subseteq Int
    BY <1>0, <2>1, <2>2, <2>3
  <2> QED
    BY <1>3, <2>4, <2>5, <2>7, <2>8, <2>9 DEF MeterInv
<1> QED
  BY <1>5, <1>6, <1>7

(* Every step keeps the types and what the readers of the meter owe. *)
LEMMA NextKeepsBase == BaseInv /\ [Next]_vars => BaseInv'
<1> SUFFICES ASSUME BaseInv, [Next]_vars PROVE BaseInv'
  OBVIOUS
<1>1. CASE UNCHANGED vars
  <2>1. /\ endpoint' = endpoint /\ now' = now /\ changes' = changes /\ requests' = requests
        /\ tables' = tables /\ stats' = stats /\ guessed' = guessed /\ walk' = walk
        /\ rps' = rps
    BY <1>1 DEF vars, clock
  <2>2. TypeOK /\ MeterInv /\ ClockRuns
    BY DEF BaseInv
  <2>3. ClockTypes'
    BY <2>1, <2>2, TypeParts DEF ClockTypes
  <2>4. TypeOK'
    BY <2>1, <2>2, <2>3, PartsKept, PartsTyped
  <2> QED
    BY <2>1, <2>2, <2>4, MeterKept DEF BaseInv, ClockRuns
<1> QED
  BY <1>1, AnnouncesKeepBase, StatsKeepBase, WalkKeepsBase, MeterKeepsBase DEF Next, Paging

(***************************************************************************)
(* One reader at a time is between its loads of the meter, which           *)
(* rps_mutex_ guards, and the requests it read are still told to nobody.   *)
(***************************************************************************)
THEOREM BaseInvariance == Spec => []BaseInv
  BY InitBase, NextKeepsBase, PTL DEF Spec

(* What get_stats, the walk and the meter read and keep has its type: no rate is negative. *)
THEOREM ApiTyping == Spec => []TypeOK
<1>1. BaseInv => TypeOK
  BY DEF BaseInv
<1> QED
  BY <1>1, BaseInvariance, PTL

(***************************************************************************)
(* The readers of get_requests_per_second, who reset the meter for each    *)
(* other, are together told of no request twice, however many they are;    *)
(* and the rates they are told, whose durations are cut to whole seconds,  *)
(* amount over the true ones to less than twice these requests.            *)
(***************************************************************************)
THEOREM NoRequestTwice == Spec => []RateBounded
<1>1. BaseInv => RateBounded
  BY DEF BaseInv, MeterInv
<1> QED
  BY <1>1, BaseInvariance, PTL
-----------------------------------------------------------------------------
(* The figures of one response *)

(* The classes of the peers a figure counts. *)
Counted(f) ==
  CASE f \in {"active_seeders", "complete"}    -> {"seeder"}
    [] f \in {"active_leechers", "incomplete"} -> {"leecher"}
    [] f = "peer_count"                        -> Classes \ {"inactive"}

PeerFigures ==
  {"active_seeders", "complete", "active_leechers", "incomplete", "peer_count"}

(* Peers that have been in one of these classes since the request began. *)
Steady(C) == {p \in Peers \ changed : peer[p] \in C}

(* A figure counts all of those, and of the others at most each once. *)
Close(f) ==
  /\ Cardinality(Steady(Counted(f))) <= figure[f]
  /\ figure[f] <= Cardinality(Steady(Counted(f))) + Cardinality(changed)

FiguresClose ==
  ~ guessed => \A q \in 1 .. Len(Queries) :
                 q < query /\ Queries[q] \in PeerFigures => Close(Queries[q])

(* The peers that changed, and those that stayed in a class, can be counted. *)
LEMMA SteadyFinite ==
  ASSUME TypeOK
  PROVE  /\ IsFiniteSet(changed) /\ Cardinality(changed) \in Nat
         /\ \A C : IsFiniteSet(Steady(C)) /\ Cardinality(Steady(C)) \in Nat
<1>1. changed \subseteq Peers
  BY DEF TypeOK
<1>2. \A C : Steady(C) \subseteq Peers
  BY DEF Steady
<1> QED
  BY <1>1, <1>2, SubsetCounted, ApiAssumption

(* Cardinalities of disjoint sets add up. *)
LEMMA DisjointUnion ==
  ASSUME NEW S, NEW T, IsFiniteSet(S), IsFiniteSet(T), S \cap T = {}
  PROVE  Cardinality(S \union T) = Cardinality(S) + Cardinality(T)
<1>1. Cardinality(S) \in Nat /\ Cardinality(T) \in Nat
  BY FS_CardinalityType
<1>2. Cardinality(S \cap T) = 0
  BY FS_EmptySet
<1>3. Cardinality(S \union T) = Cardinality(S) + Cardinality(T) - Cardinality(S \cap T)
  BY FS_Union, Zenon
<1> QED
  BY <1>1, <1>2, <1>3

(* What a query counts now is close. *)
LEMMA AnswerClose ==
  ASSUME TypeOK, NEW f \in PeerFigures
  PROVE  /\ Cardinality(Steady(Counted(f))) <= Answer(f)
         /\ Answer(f) <= Cardinality(Steady(Counted(f))) + Cardinality(changed)
<1> DEFINE C     == Counted(f)
           All   == {p \in Peers : peer[p] \in C}
           Moved == {p \in changed : peer[p] \in C}
<1>1. Answer(f) = Cardinality(All)
  BY DEF PeerFigures, Answer, OfClass, Counted
<1> HIDE DEF C
<1>2. All = Steady(C) \union Moved /\ Steady(C) \cap Moved = {}
  BY DEF TypeOK, Steady
<1>3. IsFiniteSet(Moved) /\ Cardinality(Moved) \in Nat
      /\ Cardinality(Moved) <= Cardinality(changed)
  BY SteadyFinite, SubsetCounted
<1>4. Cardinality(All) = Cardinality(Steady(C)) + Cardinality(Moved)
  BY <1>2, <1>3, SteadyFinite, DisjointUnion
<1>5. Cardinality(Steady(C)) \in Nat /\ Cardinality(changed) \in Nat
  BY SteadyFinite
<1>6. /\ Cardinality(Steady(C)) <= Answer(f)
      /\ Answer(f) <= Cardinality(Steady(C)) + Cardinality(changed)
  BY <1>1, <1>3, <1>4, <1>5
<1> QED
  BY <1>6 DEF C

(***************************************************************************)
(* While a request runs, a peer that changes its class leaves the steady   *)
(* ones and joins the changed: what was close stays so.                    *)
(***************************************************************************)
LEMMA ChangeStaysClose ==
  ASSUME TypeOK, TypeOK', NEW p \in Peers, NEW class \in Classes, ChangePeer(p, class),
         query # 0, NEW f \in PeerFigures, Close(f)
  PROVE  Close(f)'
<1> DEFINE C == Counted(f)
<1>1. /\ changed' = changed \union {p} /\ figure' = figure
      /\ peer' = [peer EXCEPT ![p] = class] /\ peer \in [Peers -> Classes]
  BY DEF ChangePeer, TypeOK
<1>2. Counted(f)' = C
  BY DEF Counted
<1> HIDE DEF C
<1>3. Steady(C)' = Steady(C) \ {p}
  BY <1>1 DEF Steady
<1>4. /\ Cardinality(Steady(C)) \in Nat /\ Cardinality(changed) \in Nat
      /\ IsFiniteSet(Steady(C)) /\ IsFiniteSet(changed)
  BY SteadyFinite
<1>5. Cardinality(Steady(C)') = IF p \in Steady(C) THEN Cardinality(Steady(C)) - 1
                                                   ELSE Cardinality(Steady(C))
  BY <1>3, <1>4, FS_RemoveElement
<1>6. Cardinality(changed') = IF p \in changed THEN Cardinality(changed)
                                               ELSE Cardinality(changed) + 1
  BY <1>1, <1>4, FS_AddElement
<1>7. p \in Steady(C) => p \notin changed
  BY DEF Steady
<1>8. figure[f] \in Nat
  BY FigureNames DEF TypeOK, PeerFigures
<1>9. /\ Cardinality(Steady(C)) <= figure[f]
      /\ figure[f] <= Cardinality(Steady(C)) + Cardinality(changed)
  BY DEF Close, C
<1>10. /\ Cardinality(Steady(C)') <= figure[f]
       /\ figure[f] <= Cardinality(Steady(C)') + Cardinality(changed')
  BY <1>4, <1>5, <1>6, <1>7, <1>8, <1>9
<1>11. /\ Cardinality(Steady(Counted(f))') <= figure'[f]
       /\ figure'[f] <= Cardinality(Steady(Counted(f))') + Cardinality(changed')
  BY <1>1, <1>2, <1>10 DEF Steady
<1> QED
  BY <1>11 DEF Close

(* Nothing has been counted at first. *)
LEMMA InitFigures == Init => FiguresClose
  BY DEF Init, FiguresClose

(* A query that succeeds counts a close figure, and no announce spoils the earlier ones. *)
LEMMA NextKeepsFigures ==
  ASSUME BaseInv, BaseInv', FiguresClose, [Next]_vars
  PROVE  FiguresClose'
<1> SUFFICES ASSUME ~ guessed', NEW q \in 1 .. Len(Queries), q < query',
                    Queries[q] \in PeerFigures
             PROVE  Close(Queries[q])'
  BY DEF FiguresClose, Queries
<1> DEFINE f == Queries[q]
<1>0. TypeOK /\ TypeOK' /\ query \in 0 .. Len(Queries) + 1 /\ f \in Figures
      /\ Len(Queries) = 7
  BY FigureNames, QueryNames DEF BaseInv, TypeOK
<1>1. ASSUME NEW p \in Peers, NEW class \in Classes, ChangePeer(p, class)
      PROVE  Close(f)'
  <2>1. query' = query /\ guessed' = guessed
    BY <1>1 DEF ChangePeer
  <2>2. query # 0 /\ Close(f)
    BY <1>0, <2>1 DEF FiguresClose
  <2> QED
    BY <1>0, <1>1, <2>2, ChangeStaysClose
<1>2. CASE Count
  <2>1. /\ query \in 1 .. Len(Queries) /\ query' = query + 1 /\ guessed' = guessed
        /\ figure' = [figure EXCEPT ![Queries[query]] = Answer(Queries[query])]
        /\ tables' = tables /\ changed' = changed
    BY <1>2 DEF Count
  <2>2. \A C : Steady(C)' = Steady(C)
    BY <2>1 DEF Steady, tables
  <2>3. figure \in [Figures -> Nat]
    BY <1>0 DEF TypeOK
  <2>4. CASE q = query
    <3>1. figure'[f] = Answer(f)
      BY <1>0, <2>1, <2>3, <2>4
    <3> QED
      BY <1>0, <2>1, <2>2, <3>1, AnswerClose DEF Close, Counted
  <2>5. CASE q # query
    <3>1. q < query /\ f # Queries[query]
      BY <1>0, <2>1, <2>5, QueriesDiffer
    <3>2. figure'[f] = figure[f] /\ Close(f)
      BY <1>0, <2>1, <2>3, <3>1 DEF FiguresClose
    <3> QED
      BY <2>1, <2>2, <3>2 DEF Close, Counted
  <2> QED
    BY <2>4, <2>5
<1>3. CASE GetStats \/ StatsOverflow \/ StatsDone
  BY <1>0, <1>3 DEF GetStats, StatsOverflow, StatsDone
<1>4. CASE CountFails
  BY <1>4 DEF CountFails
<1>5. ASSUME stats' = stats, peer' = peer, guessed' = guessed
      PROVE  Close(f)'
  <2>1. Close(f)
    BY <1>5 DEF FiguresClose, stats
  <2>2. \A C : Steady(C)' = Steady(C)
    BY <1>5 DEF Steady, stats
  <2> QED
    BY <1>5, <2>1, <2>2 DEF Close, Counted, stats
<1>6. CASE \/ \E t \in Torrents : TouchTorrent(t)
           \/ Download \/ RecordRequest \/ Tick \/ UNCHANGED vars
           \/ \E r \in Readers : EnterMeter(r) \/ LoadCount(r) \/ LeaveMeter(r)
  <2>1. stats' = stats /\ peer' = peer /\ guessed' = guessed
    BY <1>6 DEF TouchTorrent, Download, RecordRequest, Tick, EnterMeter, LoadCount,
                LeaveMeter, tables, vars
  <2> QED
    BY <1>5, <2>1
<1>7. CASE Paging
  <2>1. stats' = stats /\ peer' = peer /\ (guessed' = guessed \/ guessed')
    BY <1>7 DEF Paging, CountTorrents, TotalFails, SelectPage, SelectFails, ShowAnswer,
                FetchFails, NextPage, PrevPage, RefreshPage, tables
  <2> QED
    BY <1>5, <2>1
<1> QED
  BY <1>1, <1>2, <1>3, <1>4, <1>6, <1>7 DEF Next, Paging

(***************************************************************************)
(* Whatever announces come between the queries of get_stats, each figure   *)
(* counts the peers that stayed in its class all along, and no more others *)
(* than have changed.                                                      *)
(***************************************************************************)
THEOREM FiguresInvariance == Spec => [](BaseInv /\ FiguresClose)
<1>1. BaseInv /\ BaseInv' /\ FiguresClose /\ [Next]_vars => FiguresClose'
  BY NextKeepsFigures
<1> QED
  BY <1>1, InitFigures, BaseInvariance, PTL DEF Spec
(* Close figures agree as far as FiguresAgree says. *)
LEMMA CloseFiguresAgree == BaseInv /\ FiguresClose => FiguresAgree
<1> SUFFICES ASSUME BaseInv, FiguresClose, query = Len(Queries) + 1, ~ guessed
             PROVE  LET steady(C) == Cardinality({p \in Peers \ changed : peer[p] \in C})
                        moved     == Cardinality(changed)
                        pairs     == {<<"active_seeders", "active_leechers">>,
                                      <<"complete", "incomplete">>}
                    IN \A pair \in pairs :
                         LET sum == figure[pair[1]] + figure[pair[2]] IN
                           /\ sum <= figure["peer_count"] + 2 * moved
                           /\ figure["peer_count"] - steady({"negative"}) - moved <= sum
                           /\ sum >= steady({"seeder", "leecher"})
  BY DEF FiguresAgree
<1> DEFINE moved == Cardinality(changed)
           S == Cardinality(Steady({"seeder"}))
           L == Cardinality(Steady({"leecher"}))
           N == Cardinality(Steady({"negative"}))
<1>1. TypeOK
  BY DEF BaseInv
<1>2. \A f \in PeerFigures : Close(f)
  <2>1. \A q \in 1 .. 7 : Queries[q] \in PeerFigures => Close(Queries[q])
    BY QueryNames DEF FiguresClose
  <2>2. 1 \in 1 .. 7 /\ 2 \in 1 .. 7 /\ 3 \in 1 .. 7 /\ 4 \in 1 .. 7 /\ 7 \in 1 .. 7
    OBVIOUS
  <2> QED
    BY <2>1, <2>2, QueryNames DEF PeerFigures
<1>3. S \in Nat /\ L \in Nat /\ N \in Nat /\ moved \in Nat
  BY <1>1, SteadyFinite
<1>4. \A f \in Figures : figure[f] \in Nat
  BY <1>1 DEF TypeOK
<1>5. Cardinality(Steady({"seeder", "leecher"})) = S + L
  <2>1. /\ Steady({"seeder", "leecher"}) = Steady({"seeder"}) \union Steady({"leecher"})
        /\ Steady({"seeder"}) \cap Steady({"leecher"}) = {}
    BY DEF Steady
  <2> QED
    BY <1>1, <2>1, SteadyFinite, DisjointUnion
<1>6. Cardinality(Steady(Classes \ {"inactive"})) = S + L + N
  <2>1. /\ Steady(Classes \ {"inactive"})
             = Steady({"seeder", "leecher"}) \union Steady({"negative"})
        /\ Steady({"seeder", "leecher"}) \cap Steady({"negative"}) = {}
    BY DEF Steady, Classes
  <2> QED
    BY <1>1, <1>5, <2>1, SteadyFinite, DisjointUnion
<1>7. /\ figure["active_seeders"] \in S .. S + moved
      /\ figure["complete"] \in S .. S + moved
      /\ figure["active_leechers"] \in L .. L + moved
      /\ figure["incomplete"] \in L .. L + moved
      /\ figure["peer_count"] \in S + L + N .. S + L + N + moved
  <2>1. /\ Counted("active_seeders") = {"seeder"} /\ Counted("complete") = {"seeder"}
        /\ Counted("active_leechers") = {"leecher"} /\ Counted("incomplete") = {"leecher"}
        /\ Counted("peer_count") = Classes \ {"inactive"}
    BY DEF Counted
  <2>2. \A f \in PeerFigures : f \in Figures
    BY FigureNames DEF PeerFigures
  <2>3. \A f \in PeerFigures : \A n \in Nat :
          Cardinality(Steady(Counted(f))) = n => figure[f] \in n .. n + moved
    BY <1>2, <1>3, <1>4, <2>2 DEF Close
  <2>4. figure["active_seeders"] \in S .. S + moved
    BY <1>3, <2>1, <2>3 DEF PeerFigures
  <2>5. figure["complete"] \in S .. S + moved
    BY <1>3, <2>1, <2>3 DEF PeerFigures
  <2>6. figure["active_leechers"] \in L .. L + moved
    BY <1>3, <2>1, <2>3 DEF PeerFigures
  <2>7. figure["incomplete"] \in L .. L + moved
    BY <1>3, <2>1, <2>3 DEF PeerFigures
  <2>8. figure["peer_count"] \in S + L + N .. S + L + N + moved
    <3>1. S + L + N \in Nat
      BY <1>3
    <3> QED
      BY <1>6, <2>1, <2>3, <3>1 DEF PeerFigures
  <2> QED
    BY <2>4, <2>5, <2>6, <2>7, <2>8
<1>8. /\ Cardinality({p \in Peers \ changed : peer[p] \in {"negative"}}) = N
      /\ Cardinality({p \in Peers \ changed : peer[p] \in {"seeder", "leecher"}}) = S + L
  BY <1>5 DEF Steady
<1> HIDE DEF S, L, N, moved
<1>9. ASSUME NEW a \in S .. S + moved, NEW b \in L .. L + moved
      PROVE  /\ a + b <= figure["peer_count"] + 2 * moved
             /\ figure["peer_count"] - N - moved <= a + b
             /\ a + b >= S + L
  <2>1. \A p \in S + L + N .. S + L + N + moved :
          /\ a + b <= p + 2 * moved /\ p - N - moved <= a + b /\ a + b >= S + L
    BY <1>3
  <2> QED
    BY <1>7, <2>1
<1> QED
  BY <1>7, <1>8, <1>9 DEF moved

(***************************************************************************)
(* One response of /api/stats, whose figures come from seven moments: what *)
(* seeders and leechers add up to differs from peer_count, by no more than *)
(* peers changed meanwhile, however many peers there are.                  *)
(***************************************************************************)
THEOREM StatsAgree == Spec => []FiguresAgree
  BY CloseFiguresAgree, FiguresInvariance, PTL

-----------------------------------------------------------------------------
(* The walk through the pages *)

(* A torrent, and those that may be listed before it. *)
Ahead(t) == {u \in Rows : updated[u] >= updated[t]}

(* What the walk is about: no query failed, and no page was left unread. *)
Walking == endpoint = "torrents" /\ ~ guessed /\ ~ strayed

(* What has to be seen has a row, and shares its second with no other. *)
OwedAlone == \A t \in owed : t \in Rows /\ Alone(t)

(* No page is asked for before the one in front of it has been shown. *)
InOrder ==
  ~ strayed => /\ page <= passed + 1
               /\ \A f \in InFlight : fetch[f].page \in 1 .. passed + 1

(* Announces move others to the front, so a torrent not yet seen is still  *)
(* behind all pages that have been shown.                                  *)
PlacesLater ==
  Walking => \A p \in 0 .. MaxPage : p <= passed =>
               \A t \in owed \ seen : Cardinality(Ahead(t)) > p * PageSize

(* The select follows the count that found these rows. *)
TotalCounted ==
  Walking => \A f \in Fetches : fetch[f].step = "select" /\ ~ fetch[f].grown
                                => fetch[f].total = Cardinality(Rows)

(* What is neither shown nor in an answer under way is behind the page of  *)
(* that answer, whose total then tells of a next page.                     *)
AnswersWhole ==
  Walking => \A f \in Fetches : fetch[f].step = "answer" /\ fetch[f].page <= MaxPage =>
               \A t \in owed \ (seen \union fetch[f].rows) :
                 /\ Cardinality(Ahead(t)) > fetch[f].page * PageSize
                 /\ ~ fetch[f].grown => fetch[f].page * PageSize < fetch[f].total

(* So does the total on the screen, for what has not been shown. *)
ShownWhole ==
  Walking /\ shown.page \in 1 .. MaxPage /\ ~ shown.grown /\ owed \ seen # {}
    => shown.page * PageSize < shown.total

WalkInv ==
  /\ OwedAlone
  /\ InOrder
  /\ PlacesLater
  /\ TotalCounted
  /\ AnswersWhole
  /\ ShownWhole

(* Places of a page. *)
LEMMA PageFacts ==
  /\ PageSize \in Nat \ {0} /\ MaxPage \in Nat
  /\ \A p \in Nat : p * PageSize \in Nat
  /\ \A p \in Nat \ {0} : (p - 1) * PageSize = p * PageSize - PageSize
<1>1. PageSize \in Nat \ {0} /\ MaxPage \in Nat
  BY ApiAssumption
<1>2. \A p \in Nat : p * PageSize \in Nat
  BY <1>1
<1>3. \A p \in Nat \ {0} : (p - 1) * PageSize = p * PageSize - PageSize
  BY <1>1
<1> QED
  BY <1>1, <1>2, <1>3

(* The rows ahead of a torrent, and itself. *)
LEMMA AheadFinite ==
  ASSUME TypeOK, NEW t \in Rows
  PROVE  /\ IsFiniteSet(Ahead(t)) /\ Cardinality(Ahead(t)) \in Nat \ {0}
         /\ Cardinality(Ahead(t)) <= Cardinality(Rows)
<1>1. Ahead(t) \subseteq Rows
  BY DEF Ahead
<1>2. t \in Ahead(t)
  BY DEF Ahead, Rows, TypeOK
<1>3. IsFiniteSet(Ahead(t)) /\ Cardinality(Ahead(t)) \in Nat
      /\ Cardinality(Ahead(t)) <= Cardinality(Rows)
  BY <1>1, RowsFinite, SubsetCounted
<1>4. Cardinality(Ahead(t)) # 0
  BY <1>2, <1>3, FS_EmptySet
<1> QED
  BY <1>3, <1>4

(***************************************************************************)
(* ORDER BY updated_at DESC puts a torrent with a time of its own at the   *)
(* place after those that are ahead, in whatever order it puts the rest.   *)
(***************************************************************************)
LEMMA PlaceInOrder ==
  ASSUME TypeOK, NEW o \in Orders, NEW t \in Rows, Alone(t)
  PROVE  /\ Cardinality(Ahead(t)) \in DOMAIN o
         /\ o[Cardinality(Ahead(t))] = t
<1> DEFINE N == Cardinality(Rows)
<1>0. N \in Nat /\ IsFiniteSet(Rows) /\ updated \in [Torrents -> Nat]
      /\ Rows \subseteq Torrents
  BY RowsFinite DEF TypeOK, Rows
<1>1. /\ o \in [1 .. N -> Rows] /\ DOMAIN o = 1 .. N
      /\ \A m, n \in 1 .. N : m < n => o[m] # o[n] /\ updated[o[m]] >= updated[o[n]]
  BY DEF Orders
<1> HIDE DEF N
<1>2. \A m, n \in 1 .. N : o[m] = o[n] => m = n
  <2>1. \A m, n \in 1 .. N : m < n \/ n < m \/ m = n
    BY <1>0
  <2> QED
    BY <1>1, <2>1
<1>3. \A u \in Rows : \E n \in 1 .. N : o[n] = u
  <2>1. o \in Injection(1 .. N, Rows)
    BY <1>1, <1>2 DEF Injection, IsInjective
  <2>2. Cardinality(1 .. N) = N
    BY <1>0, FS_Interval
  <2>3. o \in Surjection(1 .. N, Rows)
    BY <1>0, <2>1, <2>2, FS_Injection DEF N
  <2> QED
    BY <2>3 DEF Surjection
<1>4. PICK m \in 1 .. N : o[m] = t
  BY <1>3
<1>5. \A n \in 1 .. N : o[n] \in Ahead(t) <=> n <= m
  <2>1. ASSUME NEW n \in 1 .. N, n <= m PROVE o[n] \in Ahead(t)
    <3>1. n < m \/ n = m
      BY <1>0, <2>1
    <3>2. updated[o[n]] >= updated[t] /\ o[n] \in Rows
      BY <1>0, <1>1, <1>4, <3>1
    <3> QED
      BY <3>2 DEF Ahead
  <2>2. ASSUME NEW n \in 1 .. N, ~ (n <= m) PROVE o[n] \notin Ahead(t)
    <3>1. m < n
      BY <1>0, <2>2
    <3>2. o[n] # t /\ updated[t] >= updated[o[n]] /\ o[n] \in Rows
      BY <1>1, <1>4, <3>1
    <3>3. updated[o[n]] # updated[t]
      BY <3>2 DEF Alone
    <3> QED
      BY <1>0, <3>2, <3>3 DEF Ahead
  <2> QED
    BY <2>1, <2>2
<1>6. Cardinality(Ahead(t)) = m
  <2> DEFINE b == [n \in 1 .. m |-> o[n]]
  <2>1. 1 .. m \subseteq 1 .. N
    BY <1>0
  <2>2. b \in [1 .. m -> Ahead(t)]
    BY <1>5, <2>1
  <2>3. \A k, n \in 1 .. m : b[k] = b[n] => k = n
    BY <1>2, <2>1
  <2>4. ASSUME NEW u \in Ahead(t) PROVE \E n \in 1 .. m : b[n] = u
    <3>1. PICK n \in 1 .. N : o[n] = u
      BY <1>3 DEF Ahead
    <3>2. n \in 1 .. m
      BY <1>0, <1>5, <3>1
    <3> QED
      BY <3>1, <3>2
  <2> HIDE DEF b
  <2>5. b \in Bijection(1 .. m, Ahead(t))
    BY <2>2, <2>3, <2>4 DEF Bijection, Injection, Surjection, IsInjective
  <2>6. ExistsBijection(1 .. m, Ahead(t))
    BY <2>5 DEF ExistsBijection
  <2> QED
    BY <1>0, <2>6, FS_CountingElements
<1> QED
  BY <1>1, <1>4, <1>6

(* The types of what the walk keeps. *)
LEMMA WalkTypes ==
  ASSUME TypeOK
  PROVE  /\ page \in Nat \ {0} /\ passed \in Nat /\ owed \subseteq Torrents
         /\ fetch \in [Fetches -> Slots]
         /\ shown \in [page : Nat, total : Nat, grown : BOOLEAN]
         /\ {loading, strayed, disturbed} \subseteq BOOLEAN
BY DEF TypeOK

(* Nothing has been shown at first, and the first page is asked for. *)
LEMMA InitWalk == Init => WalkInv
<1> SUFFICES ASSUME Init PROVE WalkInv
  OBVIOUS
<1>1. TypeOK
  BY InitBase DEF BaseInv
<1>2. OwedAlone
  BY DEF Init, OwedAlone
<1>3. passed = 0 /\ page = 1 /\ shown.page = 0
      /\ \A f \in Fetches : fetch[f] \in {Idle, Asked(1)}
  BY DEF Init
<1>4. \A f \in Fetches : fetch[f].step \in {"idle", "count"}
                         /\ (fetch[f].step # "idle" => fetch[f].page = 1)
  BY <1>3, SlotFacts
<1>5. PlacesLater
  <2>1. ASSUME NEW p \in 0 .. MaxPage, p <= passed, NEW t \in owed \ seen
        PROVE  Cardinality(Ahead(t)) > p * PageSize
    <3>1. p = 0
      BY <1>3, <2>1, PageFacts
    <3>2. Cardinality(Ahead(t)) \in Nat \ {0}
      BY <1>1, <1>2, AheadFinite DEF OwedAlone
    <3> QED
      BY <3>1, <3>2, PageFacts
  <2> QED
    BY <2>1 DEF PlacesLater
<1>6. InOrder
  BY <1>3, <1>4 DEF InOrder, InFlight
<1>7. TotalCounted /\ AnswersWhole /\ ShownWhole
  BY <1>3, <1>4, PageFacts DEF TotalCounted, AnswersWhole, ShownWhole
<1> QED
  BY <1>2, <1>5, <1>6, <1>7 DEF WalkInv

(***************************************************************************)
(* An announce of another torrent puts that one ahead, or leaves it there; *)
(* it changes neither what has been shown nor the totals.                  *)
(***************************************************************************)
LEMMA TouchKeepsWalk ==
  ASSUME BaseInv, BaseInv', WalkInv, NEW t \in Torrents, TouchTorrent(t)
  PROVE  WalkInv'
<1>1. /\ updated' = [updated EXCEPT ![t] = now]
      /\ owed' = owed \ {u \in Torrents : u = t \/ updated[u] = now}
      /\ fetch' = [f \in Fetches |->
                     IF fetch[f].step = "select" /\ t \notin Rows
                     THEN [fetch[f] EXCEPT !.grown = TRUE] ELSE fetch[f]]
      /\ now' = now /\ page' = page /\ shown' = shown /\ seen' = seen
      /\ passed' = passed /\ strayed' = strayed
      /\ endpoint' = endpoint /\ guessed' = guessed
  BY DEF TouchTorrent
<1>2. /\ updated \in [Torrents -> 0 .. now] /\ now \in Nat /\ now > 0
      /\ owed \subseteq Torrents /\ TypeOK /\ TypeOK'
  BY DEF BaseInv, TypeOK, ClockRuns
<1>3. Rows' = Rows \union {t}
  BY <1>1, <1>2 DEF Rows
<1>4. ASSUME NEW u \in owed'
      PROVE  /\ u \in owed /\ u \in Rows /\ u # t /\ updated'[u] = updated[u] /\ updated[u] < now
  <2>1. u \in owed /\ u # t /\ updated[u] # now /\ u \in Torrents
    BY <1>1, <1>2
  <2> QED
    BY <1>1, <1>2, <2>1 DEF WalkInv, OwedAlone
<1>5. OwedAlone'
  <2>1. ASSUME NEW u \in owed' PROVE u \in Rows' /\ Alone(u)'
    <3>1. ASSUME NEW v \in Rows' \ {u} PROVE updated'[v] # updated'[u]
      <4>1. CASE v = t
        BY <1>1, <1>2, <1>4, <2>1, <4>1
      <4>2. CASE v # t
        <5>1. v \in Rows \ {u} /\ updated'[v] = updated[v]
          BY <1>1, <1>2, <1>3, <3>1, <4>2 DEF Rows
        <5>2. Alone(u)
          BY <1>4, <2>1 DEF WalkInv, OwedAlone
        <5> QED
          BY <1>4, <2>1, <5>1, <5>2 DEF Alone
      <4> QED
        BY <4>1, <4>2
    <3> QED
      BY <1>3, <1>4, <2>1, <3>1 DEF Alone
  <2> QED
    BY <2>1 DEF OwedAlone
<1>6. ASSUME NEW u \in owed', NEW n \in Nat, Cardinality(Ahead(u)) > n
      PROVE  Cardinality(Ahead(u)') > n
  <2>1. u \in Rows' /\ u \in Rows
    BY <1>3, <1>4, <1>6
  <2>2. Ahead(u) \subseteq Ahead(u)'
    <3>1. ASSUME NEW v \in Ahead(u) PROVE v \in Rows' /\ updated'[v] >= updated'[u]
      <4>1. v \in Rows /\ updated[v] >= updated[u] /\ v \in Torrents
        BY <3>1 DEF Ahead, Rows
      <4>2. updated'[v] = IF v = t THEN now ELSE updated[v]
        BY <1>1, <1>2, <4>1
      <4>3. updated'[u] = updated[u] /\ updated[u] < now
        BY <1>4, <1>6
      <4>4. updated[u] \in Nat /\ updated[v] \in Nat
        BY <1>2, <2>1, <4>1 DEF Rows
      <4> QED
        BY <1>2, <1>3, <4>1, <4>2, <4>3, <4>4
    <3> QED
      BY <3>1 DEF Ahead
  <2>3. IsFiniteSet(Ahead(u)')
    BY <1>2, <2>1, AheadFinite, RowsFinite, ApiAssumption, SubsetCounted DEF Ahead, Rows
  <2>4. /\ Cardinality(Ahead(u)) <= Cardinality(Ahead(u)')
        /\ Cardinality(Ahead(u)) \in Nat /\ Cardinality(Ahead(u)') \in Nat
    BY <2>2, <2>3, SubsetCounted, FS_CardinalityType
  <2> QED
    BY <1>6, <2>4
<1>7. ASSUME NEW f \in Fetches
      PROVE  /\ fetch'[f].step = fetch[f].step /\ fetch'[f].page = fetch[f].page
             /\ fetch'[f].total = fetch[f].total /\ fetch'[f].rows = fetch[f].rows
             /\ fetch[f] \in Slots
             /\ ~ fetch'[f].grown => ~ fetch[f].grown
             /\ fetch[f].step = "select" /\ ~ fetch'[f].grown => t \in Rows
  <2>1. fetch[f] \in Slots
    BY <1>2 DEF TypeOK
  <2>2. CASE fetch[f].step = "select" /\ t \notin Rows
    <3>1. fetch'[f] = [fetch[f] EXCEPT !.grown = TRUE]
      BY <1>1, <2>2
    <3> QED
      BY <2>1, <3>1 DEF Slots
  <2>3. CASE ~ (fetch[f].step = "select" /\ t \notin Rows)
    BY <1>1, <2>1, <2>3
  <2> QED
    BY <2>2, <2>3
<1>8. InOrder'
  BY <1>1, <1>7 DEF WalkInv, InOrder, InFlight
<1>9. PlacesLater'
  <2>1. ASSUME Walking', NEW p \in 0 .. MaxPage, p <= passed', NEW u \in owed' \ seen'
        PROVE  Cardinality(Ahead(u)') > p * PageSize
    <3>1. Walking /\ u \in owed \ seen
      BY <1>1, <2>1 DEF Walking
    <3>2. Cardinality(Ahead(u)) > p * PageSize
      BY <1>1, <2>1, <3>1 DEF WalkInv, PlacesLater
    <3>3. p * PageSize \in Nat
      BY PageFacts
    <3> QED
      BY <1>6, <2>1, <3>2, <3>3
  <2> QED
    BY <2>1 DEF PlacesLater
<1>10. TotalCounted'
  <2>1. ASSUME Walking', NEW f \in Fetches, fetch'[f].step = "select", ~ fetch'[f].grown
        PROVE  fetch'[f].total = Cardinality(Rows')
    <3>1. Rows' = Rows
      BY <1>3, <1>7, <2>1
    <3>2. Walking
      BY <1>1, <2>1 DEF Walking
    <3> QED
      BY <1>7, <2>1, <3>1, <3>2 DEF WalkInv, TotalCounted
  <2> QED
    BY <2>1 DEF TotalCounted
<1>11. AnswersWhole'
  <2>1. ASSUME Walking', NEW f \in Fetches, fetch'[f].step = "answer", fetch'[f].page <= MaxPage,
               NEW u \in owed' \ (seen' \union fetch'[f].rows)
        PROVE  /\ Cardinality(Ahead(u)') > fetch'[f].page * PageSize
               /\ ~ fetch'[f].grown => fetch'[f].page * PageSize < fetch'[f].total
    <3>1. Walking /\ u \in owed \ (seen \union fetch[f].rows)
      BY <1>1, <1>7, <2>1 DEF Walking
    <3>2. /\ Cardinality(Ahead(u)) > fetch[f].page * PageSize
          /\ ~ fetch[f].grown => fetch[f].page * PageSize < fetch[f].total
      BY <1>7, <2>1, <3>1 DEF WalkInv, AnswersWhole
    <3>3. fetch[f].page * PageSize \in Nat
      BY <1>7, PageFacts DEF Slots
    <3> QED
      BY <1>6, <1>7, <2>1, <3>2, <3>3
  <2> QED
    BY <2>1 DEF AnswersWhole
<1>12. ShownWhole'
  BY <1>1 DEF WalkInv, ShownWhole, Walking
<1> QED
  BY <1>5, <1>8, <1>9, <1>10, <1>11, <1>12 DEF WalkInv

(***************************************************************************)
(* An answer has whatever has its place on its page, so that what is owed  *)
(* and is neither shown nor in it is further on: on a page the total tells *)
(* of, if none was added since the count.                                  *)
(***************************************************************************)
LEMMA SelectKeepsWalk ==
  ASSUME BaseInv, WalkInv, NEW f \in Fetches, SelectPage(f)
  PROVE  WalkInv'
<1>1. /\ updated' = updated /\ page' = page /\ shown' = shown /\ seen' = seen /\ owed' = owed
      /\ passed' = passed /\ strayed' = strayed /\ endpoint' = endpoint /\ guessed' = guessed
      /\ fetch[f].step = "select"
  BY DEF SelectPage, clock, tables, story
<1>2. PICK o \in Orders :
        fetch' = [fetch EXCEPT ![f].step = "answer", ![f].rows = Cut(o, fetch[f].page)]
  BY DEF SelectPage
<1>3. TypeOK /\ fetch \in [Fetches -> Slots] /\ passed \in Nat
  BY DEF BaseInv, TypeOK
<1>4. /\ \A g \in Fetches \ {f} : fetch'[g] = fetch[g]
      /\ fetch'[f].step = "answer" /\ fetch'[f].page = fetch[f].page
      /\ fetch'[f].total = fetch[f].total /\ fetch'[f].grown = fetch[f].grown
      /\ fetch'[f].rows = Cut(o, fetch[f].page)
  BY <1>2, <1>3 DEF Slots
<1>5. Rows' = Rows /\ \A t : Ahead(t)' = Ahead(t)
  BY <1>1 DEF Rows, Ahead
<1>6. ASSUME Walking, fetch[f].page <= MaxPage,
             NEW t \in owed, t \notin seen, t \notin Cut(o, fetch[f].page)
      PROVE  /\ Cardinality(Ahead(t)) > fetch[f].page * PageSize
             /\ ~ fetch[f].grown => fetch[f].page * PageSize < fetch[f].total
  <2> DEFINE m == Cardinality(Ahead(t))
             q == fetch[f].page
  <2>1. t \in Rows /\ Alone(t)
    BY <1>6 DEF WalkInv, OwedAlone
  <2>2. m \in DOMAIN o /\ o[m] = t
    BY <1>3, <2>1, PlaceInOrder
  <2>3. m \in Nat /\ m <= Cardinality(Rows) /\ Cardinality(Rows) \in Nat
    BY <1>3, <2>1, AheadFinite, RowsFinite
  <2>4. q \in 1 .. passed + 1
    BY <1>1, <1>6 DEF WalkInv, InOrder, InFlight, Walking
  <2>5. m > (q - 1) * PageSize
    <3>1. q - 1 \in 0 .. MaxPage /\ q - 1 <= passed
      BY <1>3, <1>6, <2>4, PageFacts
    <3>2. \A t1 \in owed \ seen : Cardinality(Ahead(t1)) > (q - 1) * PageSize
      BY <1>6, <3>1 DEF WalkInv, PlacesLater
    <3> QED
      BY <1>6, <3>2
  <2>6. Offset(q) = (q - 1) * PageSize
    BY <1>3, <1>6, <2>4, PageFacts DEF Offset
  <2>7. /\ (q - 1) * PageSize = q * PageSize - PageSize /\ q * PageSize \in Nat
        /\ PageSize \in Nat
    BY <1>3, <2>4, PageFacts
  <2>8. ~ (m > Offset(q) /\ m <= Offset(q) + PageSize)
    BY <1>6, <2>2 DEF Cut
  <2> HIDE DEF m, q
  <2>9. m > q * PageSize
    BY <2>3, <2>5, <2>6, <2>7, <2>8
  <2>10. ~ fetch[f].grown => q * PageSize < fetch[f].total
    <3>1. ~ fetch[f].grown => fetch[f].total = Cardinality(Rows)
      BY <1>1, <1>6 DEF WalkInv, TotalCounted
    <3> QED
      BY <2>3, <2>7, <2>9, <3>1
  <2> QED
    BY <2>9, <2>10 DEF m, q
<1>7. OwedAlone'
  BY <1>1, <1>5 DEF WalkInv, OwedAlone, Alone
<1>8. InOrder'
  BY <1>1, <1>3, <1>4 DEF WalkInv, InOrder, InFlight
<1>9. PlacesLater'
  BY <1>1, <1>5 DEF WalkInv, PlacesLater, Walking
<1>10. TotalCounted'
  <2>1. ASSUME Walking', NEW g \in Fetches, fetch'[g].step = "select", ~ fetch'[g].grown
        PROVE  fetch'[g].total = Cardinality(Rows')
    <3>1. g # f /\ fetch'[g] = fetch[g] /\ Walking
      BY <1>1, <1>4, <2>1 DEF Walking
    <3> QED
      BY <1>5, <2>1, <3>1 DEF WalkInv, TotalCounted
  <2> QED
    BY <2>1 DEF TotalCounted
<1>11. AnswersWhole'
  <2>1. ASSUME Walking', NEW g \in Fetches, fetch'[g].step = "answer", fetch'[g].page <= MaxPage,
               NEW t \in owed' \ (seen' \union fetch'[g].rows)
        PROVE  /\ Cardinality(Ahead(t)') > fetch'[g].page * PageSize
               /\ ~ fetch'[g].grown => fetch'[g].page * PageSize < fetch'[g].total
    <3>0. Walking /\ Ahead(t)' = Ahead(t)
      BY <1>1, <1>5, <2>1 DEF Walking
    <3>1. CASE g = f
      BY <1>1, <1>4, <1>6, <2>1, <3>0, <3>1
    <3>2. CASE g # f
      <4>1. fetch'[g] = fetch[g]
        BY <1>4, <3>2
      <4> QED
        BY <1>1, <2>1, <3>0, <4>1 DEF WalkInv, AnswersWhole
    <3> QED
      BY <3>1, <3>2
  <2> QED
    BY <2>1 DEF AnswersWhole
<1>12. ShownWhole'
  BY <1>1 DEF WalkInv, ShownWhole, Walking
<1> QED
  BY <1>7, <1>8, <1>9, <1>10, <1>11, <1>12 DEF WalkInv

(***************************************************************************)
(* An answer shown shows its rows: the page after those shown before, or   *)
(* one of them again.                                                      *)
(***************************************************************************)
LEMMA ShowKeepsWalk ==
  ASSUME BaseInv, WalkInv, NEW f \in Fetches, ShowAnswer(f)
  PROVE  WalkInv'
<1>1. /\ updated' = updated /\ page' = page /\ owed' = owed
      /\ strayed' = strayed /\ endpoint' = endpoint /\ guessed' = guessed
      /\ fetch[f].step = "answer" /\ seen' = seen \union fetch[f].rows
      /\ shown' = [page |-> fetch[f].page, total |-> fetch[f].total, grown |-> fetch[f].grown]
      /\ passed' = (IF fetch[f].page > passed THEN fetch[f].page ELSE passed)
      /\ fetch' = [fetch EXCEPT ![f] = Idle]
  BY DEF ShowAnswer, clock, tables
<1>2. TypeOK /\ fetch \in [Fetches -> Slots] /\ passed \in Nat /\ fetch[f].page \in Nat
      /\ page \in Nat
  BY DEF BaseInv, TypeOK, Slots
<1>3. passed' \in Nat /\ passed <= passed'
  BY <1>1, <1>2
<1>4. fetch'[f].step = "idle" /\ \A g \in Fetches \ {f} : fetch'[g] = fetch[g]
  BY <1>1, <1>2, SlotFacts
<1>5. Rows' = Rows /\ \A t : Ahead(t)' = Ahead(t)
  BY <1>1 DEF Rows, Ahead
<1>6. OwedAlone'
  BY <1>1, <1>5 DEF WalkInv, OwedAlone, Alone
<1>7. InOrder'
  <2>1. ASSUME ~ strayed, NEW g \in Fetches, fetch'[g].step # "idle"
        PROVE  fetch'[g].page \in 1 .. passed' + 1
    <3>1. fetch'[g] = fetch[g] /\ fetch[g].page \in 1 .. passed + 1
      BY <1>4, <2>1 DEF WalkInv, InOrder, InFlight
    <3> QED
      BY <1>2, <1>3, <3>1
  <2>2. ~ strayed => page <= passed' + 1
    <3>1. ~ strayed => page <= passed + 1
      BY DEF WalkInv, InOrder
    <3>2. \A a, b, c \in Nat : a <= b + 1 /\ b <= c => a <= c + 1
      OBVIOUS
    <3> QED
      BY <1>2, <1>3, <3>1, <3>2, Zenon
  <2> QED
    BY <1>1, <2>1, <2>2 DEF InOrder, InFlight
<1>8. PlacesLater'
  <2>1. ASSUME Walking, NEW p \in 0 .. MaxPage, p <= passed', NEW t \in owed \ seen'
        PROVE  Cardinality(Ahead(t)) > p * PageSize
    <3>1. CASE p <= passed
      BY <1>1, <2>1, <3>1 DEF WalkInv, PlacesLater
    <3>2. CASE ~ (p <= passed)
      <4>1. fetch[f].page <= passed + 1
        BY <1>1, <2>1 DEF WalkInv, InOrder, InFlight, Walking
      <4>2. p = fetch[f].page /\ fetch[f].page <= MaxPage
        BY <1>1, <1>2, <2>1, <3>2, <4>1, PageFacts
      <4>3. t \in owed \ (seen \union fetch[f].rows)
        BY <1>1, <2>1
      <4> QED
        BY <1>1, <2>1, <4>2, <4>3 DEF WalkInv, AnswersWhole
    <3> QED
      BY <3>1, <3>2
  <2> QED
    BY <1>1, <1>5, <2>1 DEF PlacesLater, Walking
<1>9. TotalCounted'
  <2>1. ASSUME Walking', NEW g \in Fetches, fetch'[g].step = "select", ~ fetch'[g].grown
        PROVE  fetch'[g].total = Cardinality(Rows')
    <3>1. fetch'[g] = fetch[g] /\ Walking
      BY <1>1, <1>4, <2>1 DEF Walking
    <3> QED
      BY <1>5, <2>1, <3>1 DEF WalkInv, TotalCounted
  <2> QED
    BY <2>1 DEF TotalCounted
<1>10. AnswersWhole'
  <2>1. ASSUME Walking', NEW g \in Fetches, fetch'[g].step = "answer", fetch'[g].page <= MaxPage,
               NEW t \in owed' \ (seen' \union fetch'[g].rows)
        PROVE  /\ Cardinality(Ahead(t)') > fetch'[g].page * PageSize
               /\ ~ fetch'[g].grown => fetch'[g].page * PageSize < fetch'[g].total
    <3>1. Walking /\ Ahead(t)' = Ahead(t) /\ fetch'[g] = fetch[g]
      BY <1>1, <1>4, <1>5, <2>1 DEF Walking
    <3>2. t \in owed \ (seen \union fetch[g].rows)
      BY <1>1, <2>1, <3>1
    <3> QED
      BY <2>1, <3>1, <3>2 DEF WalkInv, AnswersWhole
  <2> QED
    BY <2>1 DEF AnswersWhole
<1>11. ShownWhole'
  <2>1. ASSUME Walking, fetch[f].page \in 1 .. MaxPage, ~ fetch[f].grown,
               NEW t \in owed, t \notin seen'
        PROVE  fetch[f].page * PageSize < fetch[f].total
    <3>1. t \in owed \ (seen \union fetch[f].rows)
      BY <1>1, <2>1
    <3>2. fetch[f].page <= MaxPage
      BY <2>1, PageFacts
    <3> QED
      BY <1>1, <2>1, <3>1, <3>2 DEF WalkInv, AnswersWhole
  <2>2. /\ shown'.page = fetch[f].page /\ shown'.total = fetch[f].total
        /\ shown'.grown = fetch[f].grown
    BY <1>1
  <2> QED
    BY <1>1, <2>1, <2>2 DEF ShownWhole, Walking
<1> QED
  BY <1>6, <1>7, <1>8, <1>9, <1>10, <1>11 DEF WalkInv

(* The other steps of a request: it counts the rows, or ends the promise   *)
(* of the walk, or its slot is free.                                       *)
LEMMA ServeKeepsWalk ==
  ASSUME BaseInv, BaseInv', WalkInv, NEW f \in Fetches,
         CountTorrents(f) \/ TotalFails(f) \/ SelectFails(f) \/ FetchFails(f)
  PROVE  WalkInv'
<1>1. /\ updated' = updated /\ page' = page /\ shown' = shown /\ seen' = seen /\ owed' = owed
      /\ passed' = passed /\ strayed' = strayed /\ endpoint' = endpoint
      /\ fetch[f].step # "idle"
  BY DEF CountTorrents, TotalFails, SelectFails, FetchFails, clock, tables, story
<1>2. fetch \in [Fetches -> Slots] /\ Cardinality(Rows) \in Nat
  BY RowsFinite DEF BaseInv, TypeOK
<1>3. Rows' = Rows /\ \A t : Ahead(t)' = Ahead(t)
  BY <1>1 DEF Rows, Ahead
<1>4. \A g \in Fetches \ {f} : fetch'[g] = fetch[g]
  BY <1>2 DEF CountTorrents, TotalFails, SelectFails, FetchFails
<1>5. fetch'[f].step = "idle" \/ fetch'[f].page = fetch[f].page
  BY <1>2, SlotFacts DEF CountTorrents, TotalFails, SelectFails, FetchFails, Slots
<1>6. ASSUME Walking'
      PROVE  /\ Walking
             /\ fetch'[f].step # "answer"
             /\ fetch'[f].step = "select" => fetch'[f].total = Cardinality(Rows)
  <2>1. CASE TotalFails(f) \/ SelectFails(f)
    BY <1>6, <2>1 DEF TotalFails, SelectFails, Walking
  <2>2. CASE CountTorrents(f)
    <3>1. fetch'[f].step = "select" /\ fetch'[f].total = Cardinality(Rows)
      BY <1>2, <2>2 DEF CountTorrents, Slots
    <3>2. guessed' = guessed
      BY <2>2 DEF CountTorrents
    <3> QED
      BY <1>1, <1>6, <3>1, <3>2 DEF Walking
  <2>3. CASE FetchFails(f)
    <3>1. fetch'[f].step = "idle" /\ guessed' = guessed
      BY <1>2, <2>3, SlotFacts DEF FetchFails
    <3> QED
      BY <1>1, <1>6, <3>1 DEF Walking
  <2> QED
    BY <2>1, <2>2, <2>3
<1>7. OwedAlone'
  BY <1>1, <1>3 DEF WalkInv, OwedAlone, Alone
<1>8. InOrder'
  <2>1. ASSUME ~ strayed, NEW g \in Fetches, fetch'[g].step # "idle"
        PROVE  fetch'[g].page \in 1 .. passed + 1
    <3>1. fetch'[g].page = fetch[g].page /\ fetch[g].step # "idle"
      BY <1>1, <1>4, <1>5, <2>1
    <3> QED
      BY <2>1, <3>1 DEF WalkInv, InOrder, InFlight
  <2> QED
    BY <1>1, <2>1 DEF WalkInv, InOrder, InFlight
<1>9. PlacesLater'
  BY <1>1, <1>3, <1>6 DEF WalkInv, PlacesLater
<1>10. TotalCounted'
  <2>1. ASSUME Walking', NEW g \in Fetches, fetch'[g].step = "select", ~ fetch'[g].grown
        PROVE  fetch'[g].total = Cardinality(Rows')
    <3>1. CASE g = f
      BY <1>3, <1>6, <2>1, <3>1
    <3>2. CASE g # f
      BY <1>3, <1>4, <1>6, <2>1, <3>2 DEF WalkInv, TotalCounted
    <3> QED
      BY <3>1, <3>2
  <2> QED
    BY <2>1 DEF TotalCounted
<1>11. AnswersWhole'
  <2>1. ASSUME Walking', NEW g \in Fetches, fetch'[g].step = "answer", fetch'[g].page <= MaxPage,
               NEW t \in owed' \ (seen' \union fetch'[g].rows)
        PROVE  /\ Cardinality(Ahead(t)') > fetch'[g].page * PageSize
               /\ ~ fetch'[g].grown => fetch'[g].page * PageSize < fetch'[g].total
    <3>1. Walking /\ Ahead(t)' = Ahead(t) /\ fetch'[g] = fetch[g]
      BY <1>3, <1>4, <1>6, <2>1
    <3> QED
      BY <1>1, <2>1, <3>1 DEF WalkInv, AnswersWhole
  <2> QED
    BY <2>1 DEF AnswersWhole
<1>12. ShownWhole'
  BY <1>1, <1>6 DEF WalkInv, ShownWhole
<1> QED
  BY <1>7, <1>8, <1>9, <1>10, <1>11, <1>12 DEF WalkInv

(* The user turns to a page behind one that was shown, or strays; the      *)
(* timer asks for the same page again.                                     *)
LEMMA TurnKeepsWalk ==
  ASSUME BaseInv, BaseInv', WalkInv, NextPage \/ PrevPage \/ RefreshPage
  PROVE  WalkInv'
<1>1. /\ updated' = updated /\ shown' = shown /\ seen' = seen /\ owed' = owed
      /\ passed' = passed /\ endpoint' = endpoint /\ guessed' = guessed
  BY DEF NextPage, PrevPage, RefreshPage, tables, story
<1>2. fetch \in [Fetches -> Slots] /\ page \in Nat \ {0} /\ page' \in Nat \ {0} /\ passed \in Nat
  BY DEF BaseInv, TypeOK
<1>3. PICK f \in Fetches : fetch[f].step = "idle" /\ fetch' = [fetch EXCEPT ![f] = Asked(page')]
  BY AskedFor
<1>4. /\ fetch'[f].step = "count" /\ fetch'[f].page = page'
      /\ \A g \in Fetches \ {f} : fetch'[g] = fetch[g]
  BY <1>2, <1>3, SlotFacts
<1>5. Rows' = Rows /\ \A t : Ahead(t)' = Ahead(t)
  BY <1>1 DEF Rows, Ahead
<1>6. (~ strayed' => ~ strayed) /\ (Walking' => Walking)
  <2>1. ~ strayed' => ~ strayed
    BY Zenon DEF NextPage, PrevPage, RefreshPage, story
  <2> QED
    BY <1>1, <2>1 DEF Walking
<1>7. ~ strayed' => page' <= passed + 1
  <2>1. CASE NextPage
    <3>1. ~ strayed' => ~ (page > passed)
      BY <2>1, Zenon DEF NextPage
    <3>2. page' = page + 1
      BY <2>1 DEF NextPage
    <3> QED
      BY <1>2, <3>1, <3>2
  <2>2. CASE PrevPage \/ RefreshPage
    <3>1. ~ strayed => page <= passed + 1
      BY DEF WalkInv, InOrder
    <3>2. page' <= page
      BY <1>2, <2>2 DEF PrevPage, RefreshPage
    <3> QED
      BY <1>2, <1>6, <3>1, <3>2
  <2> QED
    BY <2>1, <2>2
<1>8. OwedAlone'
  BY <1>1, <1>5 DEF WalkInv, OwedAlone, Alone
<1>9. InOrder'
  <2>1. ASSUME ~ strayed', NEW g \in Fetches, fetch'[g].step # "idle"
        PROVE  fetch'[g].page \in 1 .. passed + 1
    <3>1. CASE g = f
      BY <1>2, <1>4, <1>7, <2>1, <3>1
    <3>2. CASE g # f
      BY <1>4, <1>6, <2>1, <3>2 DEF WalkInv, InOrder, InFlight
    <3> QED
      BY <3>1, <3>2
  <2> QED
    BY <1>1, <1>7, <2>1 DEF InOrder, InFlight
<1>10. PlacesLater'
  BY <1>1, <1>5, <1>6 DEF WalkInv, PlacesLater
<1>11. TotalCounted'
  BY <1>1, <1>4, <1>5, <1>6 DEF WalkInv, TotalCounted
<1>12. AnswersWhole'
  <2>1. ASSUME Walking', NEW g \in Fetches, fetch'[g].step = "answer", fetch'[g].page <= MaxPage,
               NEW t \in owed' \ (seen' \union fetch'[g].rows)
        PROVE  /\ Cardinality(Ahead(t)') > fetch'[g].page * PageSize
               /\ ~ fetch'[g].grown => fetch'[g].page * PageSize < fetch'[g].total
    <3>1. Walking /\ Ahead(t)' = Ahead(t) /\ fetch'[g] = fetch[g]
      BY <1>4, <1>5, <1>6, <2>1
    <3> QED
      BY <1>1, <2>1, <3>1 DEF WalkInv, AnswersWhole
  <2> QED
    BY <2>1 DEF AnswersWhole
<1>13. ShownWhole'
  BY <1>1, <1>6 DEF WalkInv, ShownWhole
<1> QED
  BY <1>8, <1>9, <1>10, <1>11, <1>12, <1>13 DEF WalkInv

(* A step that moves no torrent and turns no page leaves the walk as it is; the others keep it. *)
LEMMA NextKeepsWalk ==
  ASSUME BaseInv, BaseInv', WalkInv, [Next]_vars
  PROVE  WalkInv'
<1>1. ASSUME updated' = updated, walk' = walk, endpoint' = endpoint,
             endpoint = "stats" \/ guessed' = guessed \/ guessed'
      PROVE  WalkInv'
  <2>1. Rows' = Rows /\ \A t : Ahead(t)' = Ahead(t)
    BY <1>1 DEF Rows, Ahead
  <2>2. /\ page' = page /\ fetch' = fetch /\ shown' = shown /\ seen' = seen
        /\ owed' = owed /\ passed' = passed /\ strayed' = strayed
    BY <1>1 DEF walk, pages, story
  <2>3. Walking' => Walking
    BY <1>1, <2>2 DEF Walking
  <2>4. OwedAlone'
    BY <1>1, <2>1, <2>2 DEF WalkInv, OwedAlone, Alone
  <2>5. InOrder' /\ ShownWhole'
    BY <2>2, <2>3 DEF WalkInv, InOrder, InFlight, ShownWhole
  <2>6. PlacesLater'
    BY <2>1, <2>2, <2>3 DEF WalkInv, PlacesLater
  <2>7. TotalCounted' /\ AnswersWhole'
    BY <2>1, <2>2, <2>3 DEF WalkInv, TotalCounted, AnswersWhole
  <2> QED
    BY <2>4, <2>5, <2>6, <2>7 DEF WalkInv
<1>2. CASE \/ \E p \in Peers, class \in Classes : ChangePeer(p, class)
           \/ Download \/ RecordRequest \/ Tick \/ UNCHANGED vars
           \/ \E r \in Readers : EnterMeter(r) \/ LoadCount(r) \/ LeaveMeter(r)
  <2>1. updated' = updated /\ walk' = walk /\ endpoint' = endpoint /\ guessed' = guessed
    BY <1>2 DEF ChangePeer, Download, RecordRequest, Tick, EnterMeter, LoadCount, LeaveMeter,
                clock, tables, vars
  <2> QED
    BY <1>1, <2>1
<1>3. CASE GetStats \/ Count \/ CountFails \/ StatsOverflow \/ StatsDone
  <2>1. updated' = updated /\ walk' = walk /\ endpoint' = endpoint
        /\ (endpoint = "stats" \/ guessed' = guessed \/ guessed')
    BY <1>3 DEF GetStats, Count, CountFails, StatsOverflow, StatsDone, Request, clock, tables
  <2> QED
    BY <1>1, <2>1
<1>4. CASE Paging
  BY <1>4, SelectKeepsWalk, ShowKeepsWalk, ServeKeepsWalk, TurnKeepsWalk DEF Paging
<1> QED
  BY <1>2, <1>3, <1>4, TouchKeepsWalk DEF Next, Paging

(* So a torrent not yet shown is always still to come. *)
LEMMA WalkInvariance == Spec => [](BaseInv /\ WalkInv)
<1>1. BaseInv /\ BaseInv' /\ WalkInv /\ [Next]_vars => WalkInv'
  BY NextKeepsWalk
<1> QED
  BY <1>1, InitWalk, BaseInvariance, PTL DEF Spec

(***************************************************************************)
(* Whoever pages through the torrents to the end, and from page to page    *)
(* only when it was shown, has seen each that no announce moved, however   *)
(* many others move past the pages meanwhile and whatever requests overlap *)
(* or fail on their way, as long as no query failed and none was added     *)
(* between the count and the rows of the last page.                        *)
(***************************************************************************)
THEOREM WalkMissesNone == Spec => []WalkComplete
<1>1. BaseInv /\ WalkInv => WalkComplete
  <2> SUFFICES ASSUME BaseInv, WalkInv, Walking, shown.page = page, ~ HasNext,
                      ~ shown.grown, page <= MaxPage
               PROVE  owed \subseteq seen
    BY DEF WalkComplete, Walking
  <2>1. shown.page \in 1 .. MaxPage
    BY PageFacts DEF BaseInv, TypeOK
  <2>2. owed \ seen = {}
    BY <2>1 DEF WalkInv, ShownWhole, HasNext
  <2> QED
    BY <2>2
<1> QED
  BY <1>1, WalkInvariance, PTL

-----------------------------------------------------------------------------
(* The buttons and the timer *)

(***************************************************************************)
(* As long as the timer waits and no request fails, one request at a time  *)
(* is in flight, for the page the dashboard is on, and the buttons are     *)
(* enabled once this page has been shown.                                  *)
(***************************************************************************)
OneAtATime ==
  ~ disturbed =>
    /\ ~ strayed
    /\ loading => InFlight # {}
    /\ \A f \in InFlight : loading /\ fetch[f].page = page
    /\ \A f, g \in InFlight : f = g
    /\ ~ loading => page <= passed

(* At first the page is asked for, once. *)
LEMMA InitOneAtATime == Init => OneAtATime
<1> SUFFICES ASSUME Init PROVE OneAtATime
  OBVIOUS
<1>1. PICK f \in Fetches : fetch = [g \in Fetches |-> IF g = f THEN Asked(1) ELSE Idle]
  BY DEF Init
<1>2. InFlight = {f} /\ fetch[f].page = 1
  BY <1>1, SlotFacts DEF InFlight
<1> QED
  BY <1>2 DEF Init, OneAtATime

(* A request keeps its page while it is served, and frees the buttons when it ends. *)
LEMMA ServeOneAtATime ==
  ASSUME TypeOK, OneAtATime, NEW f \in Fetches,
         \/ CountTorrents(f) \/ TotalFails(f) \/ SelectPage(f) \/ SelectFails(f)
         \/ ShowAnswer(f) \/ FetchFails(f)
  PROVE  OneAtATime'
<1>0. fetch \in [Fetches -> Slots] /\ page \in Nat /\ passed \in Nat
  BY DEF TypeOK
<1>1. CASE CountTorrents(f) \/ TotalFails(f) \/ SelectPage(f) \/ SelectFails(f)
  <2>1. /\ page' = page /\ loading' = loading /\ passed' = passed /\ strayed' = strayed
        /\ disturbed' = disturbed
    BY <1>1 DEF CountTorrents, TotalFails, SelectPage, SelectFails, story
  <2>2. InFlight' = InFlight /\ \A g \in InFlight : fetch'[g].page = fetch[g].page
    BY <1>0, <1>1 DEF CountTorrents, TotalFails, SelectPage, SelectFails, InFlight, Slots
  <2> QED
    BY <2>1, <2>2 DEF OneAtATime
<1>2. CASE ShowAnswer(f)
  <2>1. /\ page' = page /\ loading' = FALSE /\ strayed' = strayed /\ disturbed' = disturbed
        /\ passed' = (IF fetch[f].page > passed THEN fetch[f].page ELSE passed)
        /\ f \in InFlight
    BY <1>2 DEF ShowAnswer, InFlight
  <2>2. InFlight' = InFlight \ {f}
    BY <1>0, <1>2, SlotFacts DEF ShowAnswer, InFlight
  <2>3. ASSUME ~ disturbed PROVE InFlight' = {} /\ page' <= passed'
    BY <1>0, <2>1, <2>2, <2>3 DEF OneAtATime
  <2> QED
    BY <2>1, <2>3 DEF OneAtATime
<1>3. CASE FetchFails(f)
  BY <1>3 DEF FetchFails, OneAtATime
<1> QED
  BY <1>1, <1>2, <1>3

(* The buttons ask when no request is in flight; a timer that does not wait disturbs. *)
LEMMA TurnOneAtATime ==
  ASSUME TypeOK, OneAtATime, NextPage \/ PrevPage \/ RefreshPage
  PROVE  OneAtATime'
<1>0. page \in Nat \ {0} /\ passed \in Nat
  BY DEF TypeOK
<1>1. loading' = TRUE /\ page' \in Nat /\ fetch \in [Fetches -> Slots]
  <2>1. page' \in Nat
    BY <1>0 DEF NextPage, PrevPage, RefreshPage
  <2> QED
    BY <2>1, AskedFor, Zenon DEF TypeOK
<1>2. PICK f \in Fetches : fetch[f].step = "idle" /\ fetch' = [fetch EXCEPT ![f] = Asked(page')]
  BY AskedFor
<1>3. InFlight' = InFlight \union {f} /\ fetch'[f].page = page'
  BY <1>1, <1>2, SlotFacts DEF InFlight
<1>4. ASSUME ~ disturbed' PROVE ~ disturbed /\ InFlight = {} /\ ~ strayed'
  <2>1. CASE NextPage \/ PrevPage
    <3>1. ~ disturbed /\ ~ loading
      BY <1>4, <2>1 DEF NextPage, PrevPage, story
    <3>2. InFlight = {} /\ ~ strayed /\ page <= passed
      BY <3>1 DEF OneAtATime
    <3>3. ~ (page > passed)
      BY <1>0, <3>2
    <3>4. ~ strayed'
      BY <2>1, <3>2, <3>3, Zenon DEF NextPage, PrevPage, story
    <3> QED
      BY <3>1, <3>2, <3>4
  <2>2. CASE RefreshPage
    <3>1. ~ disturbed /\ InFlight = {} /\ strayed' = strayed
      BY <1>4, <2>2, Zenon DEF RefreshPage
    <3> QED
      BY <3>1 DEF OneAtATime
  <2> QED
    BY <2>1, <2>2
<1> QED
  BY <1>1, <1>3, <1>4 DEF OneAtATime

(***************************************************************************)
(* Nobody is let on from a page that was not shown, however long the user  *)
(* pages back and forth, unless the timer's request overlapped another or  *)
(* a request failed.                                                       *)
(***************************************************************************)
THEOREM ButtonsWait == Spec => []StraysByTimer
<1>1. BaseInv /\ OneAtATime /\ [Next]_vars => OneAtATime'
  <2> SUFFICES ASSUME BaseInv, OneAtATime, [Next]_vars PROVE OneAtATime'
    OBVIOUS
  <2>1. TypeOK
    BY DEF BaseInv
  <2>2. ASSUME UNCHANGED <<page, loading, passed, strayed, disturbed>>,
               \A f \in Fetches : /\ fetch'[f].step = fetch[f].step
                                  /\ fetch'[f].page = fetch[f].page
        PROVE  OneAtATime'
    <3>1. InFlight' = InFlight
      BY <2>2 DEF InFlight
    <3>2. \A f \in InFlight : fetch'[f].page = fetch[f].page
      BY <2>2 DEF InFlight
    <3> QED
      BY <2>2, <3>1, <3>2 DEF OneAtATime
  <2>3. ASSUME NEW t \in Torrents, TouchTorrent(t) PROVE OneAtATime'
    <3>1. fetch \in [Fetches -> Slots]
      BY <2>1 DEF TypeOK
    <3>2. \A f \in Fetches : /\ fetch'[f].step = fetch[f].step
                             /\ fetch'[f].page = fetch[f].page
      BY <2>3, <3>1 DEF TouchTorrent, Slots
    <3>3. UNCHANGED <<page, loading, passed, strayed, disturbed>>
      BY <2>3 DEF TouchTorrent
    <3> QED
      BY <2>2, <3>2, <3>3
  <2>4. CASE walk' = walk
    BY <2>2, <2>4 DEF walk, pages, story
  <2>5. CASE Paging
    BY <2>1, <2>5, ServeOneAtATime, TurnOneAtATime DEF Paging
  <2>6. \/ \E t \in Torrents : TouchTorrent(t)
        \/ Paging
        \/ walk' = walk
    <3>1. CASE \/ \E p \in Peers, class \in Classes : ChangePeer(p, class)
               \/ Download \/ RecordRequest \/ Tick \/ UNCHANGED vars
               \/ \E r \in Readers : EnterMeter(r) \/ LoadCount(r) \/ LeaveMeter(r)
               \/ GetStats \/ Count \/ CountFails \/ StatsOverflow \/ StatsDone
      BY <3>1 DEF ChangePeer, Download, RecordRequest, Tick, EnterMeter, LoadCount, LeaveMeter,
                  GetStats, Count, CountFails, StatsOverflow, StatsDone, vars
    <3> QED
      BY <3>1 DEF Next, Paging
  <2> QED
    BY <2>3, <2>4, <2>5, <2>6
<1>2. OneAtATime => StraysByTimer
  BY DEF OneAtATime, StraysByTimer
<1> QED
  BY <1>1, <1>2, InitOneAtATime, BaseInvariance, PTL DEF Spec

=============================================================================
