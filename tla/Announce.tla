------------------------------ MODULE Announce ------------------------------
(***************************************************************************)
(* Announce requests against the peer database: BEPHandler::handle_request *)
(* (src/tracker/bep_handler.cpp), run by the task pool threads, as the SQL *)
(* statements of DBManager (src/database/db_manager.cpp), and the cleanup  *)
(* thread of main.cpp.                                                     *)
(*                                                                         *)
(* Each statement is one step: MySQL runs it atomically and nothing joins  *)
(* two of them in a transaction.  Any statement may fail, and mysql_query  *)
(* also fails when only its answer is lost, so that MySQL runs what the    *)
(* tracker has given up.  The process may be killed at any point and is    *)
(* started again later; what is in the tables stays, and ages.  Seconds    *)
(* are counted in coarse ticks and a due cleanup runs within its tick.     *)
(***************************************************************************)
EXTENDS Naturals, FiniteSets

CONSTANTS
  Workers,          \* task pool threads
  Torrents,         \* info hashes
  Peers,            \* peer ids
  None,             \* no request, no row
  StatsWindow,      \* ticks in the 2 HOUR interval of refresh_torrent_stats
  MaxPeerAge,       \* ticks in max(60, max_peer_age)
  CleanupInterval,  \* ticks in cleanup_interval
  NumWant,          \* num_want, between 1 and 500
  MaxAnnounces,     \* bound: announces received
  MaxFaults,        \* bound: failed statements and kills
  MaxOutage         \* bound: ticks without a process

ASSUME AnnounceAssumption ==
  /\ IsFiniteSet(Workers) /\ IsFiniteSet(Torrents) /\ IsFiniteSet(Peers)
  /\ StatsWindow \in Nat
  /\ MaxPeerAge \in Nat
  /\ CleanupInterval \in Nat \ {0}
  /\ NumWant \in Nat \ {0}
  /\ MaxAnnounces \in Nat
  /\ MaxFaults \in Nat
  /\ MaxOutage \in Nat

(***************************************************************************)
(* The left parameter: zero (or missing, or not a number), positive, or a  *)
(* negative number, which std::stoll accepts.                              *)
(***************************************************************************)
Lefts  == {"zero", "positive", "negative"}
Events == {"", "completed", "stopped"}

(* accepted: update_peer takes the request's ip and port. *)
Requests ==
  [torrent : Torrents, peer : Peers, event : Events, left : Lefts, accepted : BOOLEAN]

(* Bound: ages above OldestAge are not told apart. *)
OldestAge == MaxPeerAge + CleanupInterval * (MaxFaults + 1) + MaxOutage + 1
Rows      == [left : Lefts, age : 0 .. OldestAge]

(* The next SQL statement of a worker. *)
Statements == {"increment", "torrent", "peer", "delete", "refresh", "peers", "info"}

(* Those that write a table. *)
Writes == {"increment", "torrent", "peer", "delete", "refresh"}

VARIABLES
  known,      \* the info hashes with a row in torrents
  counters,   \* complete, incomplete and downloaded of that row
  rows,       \* the row of peers for each torrent and peer
  pc,         \* the statement each worker is about to run, or "idle"
  req,        \* the announce each worker serves
  reply,      \* the peers it has selected, each with the age it then had
  orphans,    \* statements that the tracker has given up and MySQL has yet to run
  sleep,      \* ticks until the cleanup thread runs
  up,         \* the process runs
  outage,     \* history: ticks in which it did not
  announces,  \* announces received
  faults,     \* statements failed and kills so far
  begun,      \* history: acceptable completed announces received
  counted,    \* history: completed announces answered with 200
  drifted     \* history: torrents whose peers changed unseen by a refresh

tables  == <<known, counters, rows>>
threads == <<pc, req, reply>>
history == <<begun, counted, drifted>>
clock   == <<sleep, up, outage>>
vars    == <<tables, threads, orphans, clock, announces, faults, history>>

(* The subqueries of refresh_torrent_stats on the peers table r. *)
Seen(r, t, left) ==
  {p \in Peers : /\ r[<<t, p>>] # None
                 /\ r[<<t, p>>].left = left
                 /\ r[<<t, p>>].age < StatsWindow}

Complete(r, t)   == Cardinality(Seen(r, t, "zero"))
Incomplete(r, t) == Cardinality(Seen(r, t, "positive"))

(* The torrents whose statistics the change of peers to r makes stale. *)
Drift(r) ==
  {t \in Torrents : \/ Complete(r, t) # Complete(rows, t)
                    \/ Incomplete(r, t) # Incomplete(rows, t)}

Init ==
  /\ known = {}
  /\ counters = [t \in Torrents |-> [complete |-> 0, incomplete |-> 0, downloaded |-> 0]]
  /\ rows = [tp \in Torrents \X Peers |-> None]
  /\ pc = [w \in Workers |-> "idle"]
  /\ req = [w \in Workers |-> None]
  /\ reply = [w \in Workers |-> {}]
  /\ orphans = {}
  /\ sleep = CleanupInterval
  /\ up = TRUE
  /\ outage = 0
  /\ announces = 0
  /\ faults = 0
  /\ begun = [t \in Torrents |-> 0]
  /\ counted = [t \in Torrents |-> 0]
  /\ drifted = {}

-----------------------------------------------------------------------------
(* What each statement does to the tables, for the request q *)

(* UPDATE torrents SET downloaded = downloaded + 1: no row, no effect. *)
Incremented(q) ==
  IF q.torrent \in known THEN [counters EXCEPT ![q.torrent].downloaded = @ + 1]
  ELSE counters

(* INSERT INTO peers ... ON DUPLICATE KEY UPDATE ..., last_seen = NOW(). *)
Inserted(q) ==
  [rows EXCEPT ![<<q.torrent, q.peer>>] = [left |-> q.left, age |-> 0]]

Deleted(q) == [rows EXCEPT ![<<q.torrent, q.peer>>] = None]

Refreshed(q) ==
  LET t == q.torrent IN
  IF t \in known THEN [counters EXCEPT ![t].complete = Complete(rows, t),
                                       ![t].incomplete = Incomplete(rows, t)]
  ELSE counters

(* DELETE FROM peers by age. *)
CleanedUp ==
  [tp \in Torrents \X Peers |->
     IF rows[tp] # None /\ rows[tp].age > MaxPeerAge THEN None ELSE rows[tp]]

-----------------------------------------------------------------------------
(* BEPHandler::handle_request *)

(* A worker goes on to statement s. *)
Go(w, s) == pc' = [pc EXCEPT ![w] = s]

(* A worker has its response and serves nobody. *)
Done(w) ==
  /\ pc' = [pc EXCEPT ![w] = "idle"]
  /\ req' = [req EXCEPT ![w] = None]
  /\ reply' = [reply EXCEPT ![w] = {}]

Fail ==
  /\ faults < MaxFaults
  /\ faults' = faults + 1

(***************************************************************************)
(* mysql_query fails: MySQL never sees the statement, or it runs it now or *)
(* later and only the answer is lost.                                      *)
(***************************************************************************)
QueryFails(w) ==
  /\ Fail
  /\ orphans' \in {orphans, orphans \union {<<pc[w], req[w]>>}}

Announce(w, r) ==
  /\ up
  /\ pc[w] = "idle"
  /\ announces < MaxAnnounces
  /\ announces' = announces + 1
  /\ req' = [req EXCEPT ![w] = r]
  /\ Go(w, CASE r.event = "stopped" -> "delete"
             [] r.event = "completed" -> "increment"
             [] OTHER -> "torrent")
  /\ begun' = IF r.event = "completed" /\ r.accepted
              THEN [begun EXCEPT ![r.torrent] = @ + 1]
              ELSE begun
  /\ UNCHANGED <<tables, reply, orphans, clock, faults, counted, drifted>>

(* The result of increment_downloaded is ignored. *)
IncrementDownloaded(w) ==
  /\ pc[w] = "increment"
  /\ counters' = Incremented(req[w])
  /\ Go(w, "torrent")
  /\ UNCHANGED <<known, rows, req, reply, orphans, clock, announces, faults, history>>

IncrementFails(w) ==
  /\ pc[w] = "increment"
  /\ QueryFails(w)
  /\ Go(w, "torrent")
  /\ UNCHANGED <<tables, req, reply, clock, announces, history>>

(* update_peer rejects the request's ip or port before any statement: 500. *)
Reject(w) ==
  /\ pc[w] = "torrent"
  /\ ~req[w].accepted
  /\ Done(w)
  /\ UNCHANGED <<tables, orphans, clock, announces, faults, history>>

(* Mutated form of UpsertTorrent: only an announce with no event inserts. *)
UpsertTorrentOnStart(w) ==
  /\ pc[w] = "torrent"
  /\ req[w].accepted
  /\ known' = IF req[w].event = "" THEN known \union {req[w].torrent} ELSE known
  /\ Go(w, "peer")
  /\ UNCHANGED <<counters, rows, req, reply, orphans, clock, announces, faults, history>>

(* INSERT INTO torrents ... ON DUPLICATE KEY UPDATE: counters start at their DEFAULT 0. *)
UpsertTorrent(w) ==
  /\ pc[w] = "torrent"
  /\ req[w].accepted
  /\ known' = known \union {req[w].torrent}
  /\ Go(w, "peer")
  /\ UNCHANGED <<counters, rows, req, reply, orphans, clock, announces, faults, history>>

(* Mutated form of UpsertPeer: regular announces do not refresh the statistics. *)
UpsertPeerQuietly(w) ==
  /\ pc[w] = "peer"
  /\ rows' = Inserted(req[w])
  /\ Go(w, IF req[w].event = "" THEN "peers" ELSE "refresh")
  /\ UNCHANGED <<known, counters, req, reply, orphans, clock, announces, faults, history>>

(* SELECT id FROM torrents, of a row that nothing deletes, then the insertion. *)
UpsertPeer(w) ==
  /\ pc[w] = "peer"
  /\ rows' = Inserted(req[w])
  /\ Go(w, "refresh")
  /\ UNCHANGED <<known, counters, req, reply, orphans, clock, announces, faults, history>>

(* A statement of update_peer fails: no refresh, and 500. *)
UpdatePeerFails(w) ==
  /\ pc[w] \in {"torrent", "peer"}
  /\ req[w].accepted
  /\ QueryFails(w)
  /\ Done(w)
  /\ UNCHANGED <<tables, clock, announces, history>>

RemovePeer(w) ==
  /\ pc[w] = "delete"
  /\ rows' = Deleted(req[w])
  /\ Go(w, "refresh")
  /\ UNCHANGED <<known, counters, req, reply, orphans, clock, announces, faults, history>>

(* No refresh then, and the response is 200 all the same. *)
RemovePeerFails(w) ==
  /\ pc[w] = "delete"
  /\ QueryFails(w)
  /\ Go(w, "peers")
  /\ UNCHANGED <<tables, req, reply, clock, announces, history>>

RefreshTorrentStats(w) ==
  /\ pc[w] = "refresh"
  /\ counters' = Refreshed(req[w])
  /\ drifted' = drifted \ {req[w].torrent}
  /\ Go(w, "peers")
  /\ UNCHANGED <<known, rows, req, reply, orphans, clock, announces, faults, begun, counted>>

(* update_peer and remove_peer ignore the result. *)
RefreshFails(w) ==
  /\ pc[w] = "refresh"
  /\ QueryFails(w)
  /\ drifted' = drifted \union {req[w].torrent}
  /\ Go(w, "peers")
  /\ UNCHANGED <<tables, req, reply, clock, announces, begun, counted>>

(* SELECT ... WHERE peer_id != own ORDER BY last_seen DESC LIMIT num_want. *)
GetPeers(w) ==
  LET t == req[w].torrent
      others == {p \in Peers \ {req[w].peer} : rows[<<t, p>>] # None}
  IN
  /\ pc[w] = "peers"
  /\ \E chosen \in SUBSET others :
       /\ Cardinality(chosen) <= NumWant
       /\ Cardinality(chosen) = NumWant \/ chosen = others
       /\ \A p \in chosen, q \in others \ chosen : rows[<<t, p>>].age <= rows[<<t, q>>].age
       /\ reply' = [reply EXCEPT ![w] = {<<p, rows[<<t, p>>].age>> : p \in chosen}]
  /\ Go(w, "info")
  /\ UNCHANGED <<tables, req, orphans, clock, announces, faults, history>>

GetPeersFails(w) ==
  /\ pc[w] = "peers"
  /\ Fail
  /\ Go(w, "info")
  /\ UNCHANGED <<tables, req, reply, orphans, clock, announces, history>>

(* get_torrent_info answers zeros if it fails; the response is 200 either way. *)
GetTorrentInfo(w) ==
  /\ pc[w] = "info"
  /\ Done(w)
  /\ counted' = IF req[w].event = "completed"
                THEN [counted EXCEPT ![req[w].torrent] = @ + 1]
                ELSE counted
  /\ UNCHANGED <<tables, orphans, clock, announces, faults, begun, drifted>>

-----------------------------------------------------------------------------
(* MySQL, time, the cleanup thread of main.cpp and kills *)

(***************************************************************************)
(* MySQL runs a statement that the tracker has given up, or one that was   *)
(* on its way when the process was killed; no refresh follows it.          *)
(***************************************************************************)
RunOrphan ==
  \E o \in orphans :
    LET q == o[2] IN
    /\ orphans' = orphans \ {o}
    /\ known' = IF o[1] = "torrent" THEN known \union {q.torrent} ELSE known
    /\ counters' = CASE o[1] = "increment" -> Incremented(q)
                     [] o[1] = "refresh" -> Refreshed(q)
                     [] OTHER -> counters
    /\ rows' = CASE o[1] = "peer" -> Inserted(q)
                 [] o[1] = "delete" -> Deleted(q)
                 [] o[1] = "cleanup" -> CleanedUp
                 [] OTHER -> rows
    /\ drifted' = IF o[1] = "refresh" THEN drifted \ {q.torrent}
                  ELSE drifted \union Drift(rows')
    /\ UNCHANGED <<threads, clock, announces, faults, begun, counted>>

Aged(row) ==
  IF row = None \/ row.age = OldestAge THEN row ELSE [row EXCEPT !.age = @ + 1]

(* Mutated form of Tick: the cleanup thread oversleeps. *)
TickOversleeps ==
  /\ rows' = [tp \in Torrents \X Peers |-> Aged(rows[tp])]
  /\ sleep' = sleep - 1
  /\ drifted' = drifted \union Drift(rows')
  /\ UNCHANGED <<known, counters, threads, orphans, up, outage, announces, faults, begun,
                 counted>>

(* A tick passes; a row's age is what it has over last_seen, process or not. *)
Tick ==
  /\ \/ up /\ sleep > 0 /\ sleep' = sleep - 1 /\ UNCHANGED outage
     \/ ~up /\ outage < MaxOutage /\ outage' = outage + 1 /\ UNCHANGED sleep
  /\ rows' = [tp \in Torrents \X Peers |-> Aged(rows[tp])]
  /\ drifted' = drifted \union Drift(rows')
  /\ UNCHANGED <<known, counters, threads, orphans, up, announces, faults, begun, counted>>

(* The cleanup thread has run, or tried to, and sleeps. *)
SleepAgain ==
  /\ up
  /\ sleep = 0
  /\ sleep' = CleanupInterval
  /\ UNCHANGED <<known, counters, threads, up, outage, announces, begun, counted>>

(* Mutated form of CleanupOldPeers: one tick too lenient. *)
CleanupOldPeersLate ==
  /\ SleepAgain
  /\ rows' = [tp \in Torrents \X Peers |->
                IF rows[tp] # None /\ rows[tp].age > MaxPeerAge + 1 THEN None
                ELSE rows[tp]]
  /\ drifted' = drifted \union Drift(rows')
  /\ UNCHANGED <<orphans, faults>>

(* Mutated form of CleanupOldPeers: seeders are spared. *)
CleanupLeechersOnly ==
  /\ SleepAgain
  /\ rows' = [tp \in Torrents \X Peers |->
                IF /\ rows[tp] # None
                   /\ rows[tp].left = "positive"
                   /\ rows[tp].age > MaxPeerAge
                THEN None ELSE rows[tp]]
  /\ drifted' = drifted \union Drift(rows')
  /\ UNCHANGED <<orphans, faults>>

(* The peers are deleted, whatever refresh_torrent_stats has counted. *)
CleanupOldPeers ==
  /\ SleepAgain
  /\ rows' = CleanedUp
  /\ drifted' = drifted \union Drift(rows')
  /\ UNCHANGED <<orphans, faults>>

(* The thread sleeps a whole interval again before it retries. *)
CleanupFails ==
  /\ SleepAgain
  /\ Fail
  /\ orphans' \in {orphans, orphans \union {<<"cleanup", None>>}}
  /\ UNCHANGED <<rows, drifted>>

(***************************************************************************)
(* The process is killed; MySQL may still run what its workers had sent.   *)
(* The cleanup thread of the next process sleeps before it runs.           *)
(***************************************************************************)
Kill ==
  /\ up
  /\ Fail
  /\ up' = FALSE
  /\ sleep' = CleanupInterval
  /\ \E S \in SUBSET {w \in Workers : pc[w] \in Writes} :
       orphans' = orphans \union {<<pc[w], req[w]>> : w \in S}
  /\ pc' = [w \in Workers |-> "idle"]
  /\ req' = [w \in Workers |-> None]
  /\ reply' = [w \in Workers |-> {}]
  /\ drifted' = drifted \union {req[w].torrent : w \in {v \in Workers : pc[v] = "refresh"}}
  /\ UNCHANGED <<tables, outage, announces, begun, counted>>

(* A new process, on the tables as it finds them. *)
Start ==
  /\ ~up
  /\ up' = TRUE
  /\ UNCHANGED <<tables, threads, orphans, sleep, outage, announces, faults, history>>

-----------------------------------------------------------------------------

HandleRequest(w) ==
  \/ IncrementDownloaded(w) \/ IncrementFails(w)
  \/ Reject(w) \/ UpsertTorrent(w) \/ UpsertPeer(w) \/ UpdatePeerFails(w)
  \/ RemovePeer(w) \/ RemovePeerFails(w)
  \/ RefreshTorrentStats(w) \/ RefreshFails(w)
  \/ GetPeers(w) \/ GetPeersFails(w)
  \/ GetTorrentInfo(w)

Next ==
  \/ \E w \in Workers : HandleRequest(w) \/ \E r \in Requests : Announce(w, r)
  \/ Tick \/ CleanupOldPeers \/ CleanupFails
  \/ RunOrphan \/ Kill \/ Start

Spec == Init /\ [][Next]_vars

(***************************************************************************)
(* Time passes, the cleanup thread wakes, started requests are served, and *)
(* a process that ends is started again (Restart=always of                 *)
(* config/tracker-server.service); nobody has to announce, nothing has to  *)
(* fail, and MySQL need not run what the tracker has given up.             *)
(***************************************************************************)
FairSpec ==
  /\ Spec
  /\ WF_vars(Tick)
  /\ WF_vars(CleanupOldPeers)
  /\ WF_vars(Start)
  /\ \A w \in Workers : WF_vars(HandleRequest(w))

-----------------------------------------------------------------------------
(* Properties *)

TypeOK ==
  /\ known \subseteq Torrents
  /\ counters \in [Torrents -> [complete : Nat, incomplete : Nat, downloaded : Nat]]
  /\ rows \in [Torrents \X Peers -> Rows \union {None}]
  /\ pc \in [Workers -> Statements \union {"idle"}]
  /\ req \in [Workers -> Requests \union {None}]
  /\ reply \in [Workers -> SUBSET (Peers \X (0 .. OldestAge))]
  /\ orphans \subseteq (Writes \X Requests) \union {<<"cleanup", None>>}
  /\ sleep \in 0 .. CleanupInterval
  /\ up \in BOOLEAN
  /\ outage \in Nat
  /\ announces \in Nat
  /\ faults \in Nat
  /\ begun \in [Torrents -> Nat]
  /\ counted \in [Torrents -> Nat]
  /\ drifted \subseteq Torrents

(***************************************************************************)
(* refresh_torrent_stats counts after each change of the peers, with other *)
(* workers between the two statements.  The counters of a torrent are what *)
(* a count of its peers gives now, unless a worker has still to refresh    *)
(* them, or the peers last changed where nothing refreshes: they aged out  *)
(* of the two hours, cleanup_old_peers deleted them, the refresh failed or *)
(* a kill came before it, or MySQL ran a statement whose answer was lost.  *)
(***************************************************************************)
Refreshing(t) == \E w \in Workers : pc[w] = "refresh" /\ req[w].torrent = t

StatsExact ==
  \A t \in known :
    \/ t \in drifted
    \/ Refreshing(t)
    \/ /\ counters[t].complete = Complete(rows, t)
       /\ counters[t].incomplete = Incomplete(rows, t)

(***************************************************************************)
(* handle_request increments downloaded before update_peer makes sure that *)
(* the torrent has a row.  If no statement fails, the acceptable completed *)
(* announces lost that way are those of a torrent's first moments, one for *)
(* each task pool thread at most; every later one is counted.              *)
(***************************************************************************)
Incrementing(t) == {w \in Workers : pc[w] = "increment" /\ req[w].torrent = t}

FewDownloadsMissed ==
  faults = 0 =>
    \A t \in Torrents :
      begun[t] <= counters[t].downloaded + Cardinality(Incrementing(t))
                    + Cardinality(Workers)

(***************************************************************************)
(* No peer is kept, or served, for longer than max_peer_age plus one       *)
(* cleanup interval, one more interval for each cleanup that failed or     *)
(* that a restart put off, and the time in which there was no process.     *)
(***************************************************************************)
AgeBound ==
  LET limit == MaxPeerAge + CleanupInterval * (faults + 1) + outage IN
  /\ \A tp \in Torrents \X Peers : rows[tp] # None => rows[tp].age <= limit
  /\ \A w \in Workers : \A pa \in reply[w] : pa[2] <= limit

(***************************************************************************)
(* A peer that stops announcing disappears, even one whose row a delayed   *)
(* announce wrote again after the announce that removed it.                *)
(***************************************************************************)
SilentPeersGo ==
  \A tp \in Torrents \X Peers :
    rows[tp] # None /\ rows[tp].age > 0 ~> rows[tp] = None \/ rows[tp].age = 0

(***************************************************************************)
(* db_manager.hpp:54 says that increment_downloaded is "called on          *)
(* event=completed" to increment torrents.downloaded: a completed announce *)
(* that was answered 200 is counted.                                       *)
(***************************************************************************)
CompletedCounted == \A t \in Torrents : counted[t] <= counters[t].downloaded
=============================================================================
