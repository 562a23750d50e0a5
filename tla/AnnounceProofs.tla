--------------------------- MODULE AnnounceProofs ---------------------------
(***************************************************************************)
(* Theorems about Announce, for every set of workers, torrents and peers,  *)
(* every interval and every number of announces and faults.                *)
(***************************************************************************)
EXTENDS Announce, FiniteSetTheorems, TLAPS

-----------------------------------------------------------------------------
(* Types *)

(***************************************************************************)
(* A worker that runs a statement serves a request, and update_peer goes   *)
(* on to the peer row with an acceptable one only.                         *)
(***************************************************************************)
Serves ==
  \A w \in Workers :
    /\ pc[w] # "idle" => req[w] \in Requests
    /\ pc[w] = "peer" => req[w].accepted

TypeInv == TypeOK /\ Serves

(* The parts of a request. *)
LEMMA RequestFacts ==
  ASSUME NEW r \in Requests
  PROVE  /\ r.torrent \in Torrents
         /\ r.peer \in Peers
         /\ r.event \in Events
         /\ r.left \in Lefts
         /\ r.accepted \in BOOLEAN
BY DEF Requests

(* The largest age is a number. *)
LEMMA OldestAgeNat == OldestAge \in Nat
<1>1. CleanupInterval \in Nat /\ MaxFaults + 1 \in Nat /\ MaxPeerAge \in Nat
  BY AnnounceAssumption
<1>2. CleanupInterval * (MaxFaults + 1) \in Nat
  BY <1>1
<1> QED
  BY <1>1, <1>2, AnnounceAssumption DEF OldestAge

(* A count of peers is a number, whatever the table. *)
LEMMA CountNat ==
  ASSUME NEW r, NEW t, NEW left
  PROVE  /\ IsFiniteSet(Seen(r, t, left))
         /\ Cardinality(Seen(r, t, left)) \in Nat
<1>1. Seen(r, t, left) \subseteq Peers
  BY DEF Seen
<1>2. IsFiniteSet(Seen(r, t, left))
  BY <1>1, AnnounceAssumption, FS_Subset
<1> QED
  BY <1>2, FS_CardinalityType

(* A row of the table that is there has a type. *)
LEMMA RowFacts ==
  ASSUME TypeOK, NEW tp \in Torrents \X Peers, rows[tp] # None
  PROVE  /\ rows[tp] \in Rows
         /\ rows[tp].left \in Lefts
         /\ rows[tp].age \in 0 .. OldestAge
         /\ rows[tp] = [left |-> rows[tp].left, age |-> rows[tp].age]
BY DEF TypeOK, Rows

(* Initially no table has a row. *)
LEMMA InitTypeInv == Init => TypeInv
<1> SUFFICES ASSUME Init PROVE TypeInv
  OBVIOUS
<1>1. TypeOK
  BY AnnounceAssumption DEF Init, TypeOK, Statements, Writes
<1>2. Serves
  BY DEF Init, Serves
<1> QED
  BY <1>1, <1>2 DEF TypeInv

(* What a worker's next statement and the other workers have to do with it. *)
LEMMA GoServes ==
  ASSUME TypeInv, NEW w \in Workers, pc[w] # "idle", NEW s \in Statements,
         s = "peer" => req[w].accepted, Go(w, s), req' = req
  PROVE  /\ pc' \in [Workers -> Statements \union {"idle"}]
         /\ Serves'
BY DEF TypeInv, TypeOK, Serves, Go

(* A worker that is done serves nobody. *)
LEMMA DoneServes ==
  ASSUME TypeInv, NEW w \in Workers, Done(w)
  PROVE  /\ pc' \in [Workers -> Statements \union {"idle"}]
         /\ req' \in [Workers -> Requests \union {None}]
         /\ reply' \in [Workers -> SUBSET (Peers \X (0 .. OldestAge))]
         /\ Serves'
<1> USE DEF TypeInv, TypeOK, Done
<1>1. /\ pc' \in [Workers -> Statements \union {"idle"}]
      /\ req' \in [Workers -> Requests \union {None}]
      /\ reply' \in [Workers -> SUBSET (Peers \X (0 .. OldestAge))]
  OBVIOUS
<1>2. Serves'
  BY DEF Serves
<1> QED
  BY <1>1, <1>2

(* What MySQL may still run is a statement that writes, with its request. *)
LEMMA OrphanTypes ==
  ASSUME TypeInv, NEW w \in Workers, pc[w] \in Writes, QueryFails(w)
  PROVE  /\ orphans' \subseteq (Writes \X Requests) \union {<<"cleanup", None>>}
         /\ faults' \in Nat
<1>1. req[w] \in Requests
  BY DEF TypeInv, Serves, Writes
<1>2. <<pc[w], req[w]>> \in Writes \X Requests
  BY <1>1
<1> QED
  BY <1>2 DEF TypeInv, TypeOK, QueryFails, Fail

(* A request is received. *)
LEMMA AnnounceTypes ==
  ASSUME TypeInv, NEW w \in Workers, NEW r \in Requests, Announce(w, r)
  PROVE  TypeInv'
<1> USE DEF TypeInv, TypeOK
<1>1. PICK s \in {"delete", "increment", "torrent"} : pc' = [pc EXCEPT ![w] = s]
  BY RequestFacts DEF Announce, Go, Events
<1>2. pc' \in [Workers -> Statements \union {"idle"}]
  BY <1>1 DEF Statements
<1>3. Serves'
  BY <1>1 DEF Announce, Serves
<1>4. begun' \in [Torrents -> Nat]
  BY RequestFacts DEF Announce
<1>5. announces' \in Nat /\ req' \in [Workers -> Requests \union {None}]
  BY DEF Announce
<1> QED
  BY <1>2, <1>3, <1>4, <1>5 DEF Announce, tables, clock

(* The tables that a statement leaves have their types. *)
LEMMA EffectTypes ==
  ASSUME TypeInv, NEW q \in Requests
  PROVE  /\ Incremented(q) \in [Torrents -> [complete : Nat, incomplete : Nat,
                                            downloaded : Nat]]
         /\ Refreshed(q) \in [Torrents -> [complete : Nat, incomplete : Nat,
                                          downloaded : Nat]]
         /\ Inserted(q) \in [Torrents \X Peers -> Rows \union {None}]
         /\ Deleted(q) \in [Torrents \X Peers -> Rows \union {None}]
         /\ CleanedUp \in [Torrents \X Peers -> Rows \union {None}]
<1> USE DEF TypeInv, TypeOK
<1> DEFINE t == q.torrent
           c == Complete(rows, t)
           n == Incomplete(rows, t)
           d == counters[t].downloaded + 1
<1>1. c \in Nat /\ n \in Nat /\ t \in Torrents /\ d \in Nat
  BY CountNat, RequestFacts DEF Complete, Incomplete
<1>2. \/ Refreshed(q) = counters
      \/ Refreshed(q) = [counters EXCEPT ![t].complete = c, ![t].incomplete = n]
  BY DEF Refreshed
<1>3. Incremented(q) = counters \/ Incremented(q) = [counters EXCEPT ![t].downloaded = d]
  BY DEF Incremented
<1>4. [left |-> q.left, age |-> 0] \in Rows
  BY RequestFacts, OldestAgeNat DEF Rows
<1>5. Inserted(q) \in [Torrents \X Peers -> Rows \union {None}]
  BY <1>4 DEF Inserted
<1>6. /\ Deleted(q) \in [Torrents \X Peers -> Rows \union {None}]
      /\ CleanedUp \in [Torrents \X Peers -> Rows \union {None}]
  BY DEF Deleted, CleanedUp
<1> HIDE DEF t, c, n, d
<1>7. Refreshed(q) \in [Torrents -> [complete : Nat, incomplete : Nat, downloaded : Nat]]
  BY <1>1, <1>2
<1>8. Incremented(q) \in [Torrents -> [complete : Nat, incomplete : Nat, downloaded : Nat]]
  BY <1>1, <1>3
<1> QED
  BY <1>5, <1>6, <1>7, <1>8

(* The steps of a worker that change at most the counters and its statement. *)
LEMMA CounterTypes ==
  ASSUME TypeInv, NEW w \in Workers,
         \/ IncrementDownloaded(w) \/ IncrementFails(w) \/ RemovePeerFails(w)
         \/ RefreshTorrentStats(w) \/ RefreshFails(w) \/ GetPeersFails(w)
  PROVE  TypeInv'
<1> USE DEF TypeInv, TypeOK
<1>1. pc[w] # "idle" /\ req' = req
  BY DEF IncrementDownloaded, IncrementFails, RemovePeerFails, RefreshTorrentStats,
         RefreshFails, GetPeersFails, tables
<1>2. PICK s \in {"torrent", "peers", "info"} : Go(w, s)
  BY DEF IncrementDownloaded, IncrementFails, RemovePeerFails, RefreshTorrentStats,
         RefreshFails, GetPeersFails
<1>3. s \in Statements /\ s # "peer"
  BY DEF Statements
<1>4. pc' \in [Workers -> Statements \union {"idle"}] /\ Serves'
  BY <1>1, <1>2, <1>3, GoServes
<1>5. req[w].torrent \in Torrents
  BY <1>1, RequestFacts DEF Serves
<1>6. counters' \in [Torrents -> [complete : Nat, incomplete : Nat, downloaded : Nat]]
  <2>1. CASE IncrementDownloaded(w)
    BY <1>1, <1>5, <2>1, EffectTypes DEF IncrementDownloaded, Serves
  <2>2. CASE RefreshTorrentStats(w)
    BY <1>1, <1>5, <2>2, EffectTypes DEF RefreshTorrentStats, Serves
  <2>3. CASE ~(IncrementDownloaded(w) \/ RefreshTorrentStats(w))
    BY <2>3 DEF IncrementFails, RemovePeerFails, RefreshFails, GetPeersFails, tables
  <2> QED
    BY <2>1, <2>2, <2>3
<1>7. /\ faults' \in Nat /\ drifted' \subseteq Torrents
      /\ orphans' \subseteq (Writes \X Requests) \union {<<"cleanup", None>>}
  <2>1. CASE IncrementFails(w) \/ RemovePeerFails(w) \/ RefreshFails(w)
    <3>1. pc[w] \in Writes /\ QueryFails(w)
      BY <2>1 DEF IncrementFails, RemovePeerFails, RefreshFails, Writes
    <3>2. drifted' \subseteq Torrents
      BY <1>5, <2>1 DEF IncrementFails, RemovePeerFails, RefreshFails, history
    <3> QED
      BY <3>1, <3>2, OrphanTypes
  <2>2. CASE IncrementDownloaded(w) \/ RefreshTorrentStats(w) \/ GetPeersFails(w)
    BY <1>5, <2>2
    DEF IncrementDownloaded, RefreshTorrentStats, GetPeersFails, Fail, history
  <2> QED
    BY <2>1, <2>2
<1>8. UNCHANGED <<known, rows, reply, clock, announces, begun, counted>>
  BY DEF IncrementDownloaded, IncrementFails, RemovePeerFails, RefreshTorrentStats,
         RefreshFails, GetPeersFails, tables, history
<1> QED
  BY <1>1, <1>4, <1>6, <1>7, <1>8 DEF clock

(* The steps after which a worker has its response. *)
LEMMA DoneTypes ==
  ASSUME TypeInv, NEW w \in Workers,
         Reject(w) \/ UpdatePeerFails(w) \/ GetTorrentInfo(w)
  PROVE  TypeInv'
<1> USE DEF TypeInv, TypeOK
<1>1. Done(w)
  BY DEF Reject, UpdatePeerFails, GetTorrentInfo
<1>2. /\ faults' \in Nat
      /\ orphans' \subseteq (Writes \X Requests) \union {<<"cleanup", None>>}
  <2>1. CASE UpdatePeerFails(w)
    BY <2>1, OrphanTypes DEF UpdatePeerFails, Writes
  <2>2. CASE Reject(w) \/ GetTorrentInfo(w)
    BY <2>2 DEF Reject, GetTorrentInfo
  <2> QED
    BY <2>1, <2>2
<1>3. counted' \in [Torrents -> Nat]
  <2>1. CASE GetTorrentInfo(w)
    <3>1. req[w].torrent \in Torrents
      BY <2>1, RequestFacts DEF GetTorrentInfo, Serves
    <3> QED
      BY <2>1, <3>1 DEF GetTorrentInfo
  <2>2. CASE Reject(w) \/ UpdatePeerFails(w)
    BY <2>2 DEF Reject, UpdatePeerFails, history
  <2> QED
    BY <2>1, <2>2
<1>4. UNCHANGED <<known, counters, rows, clock, announces, begun, drifted>>
  BY DEF Reject, UpdatePeerFails, GetTorrentInfo, tables, history
<1> QED
  BY <1>1, <1>2, <1>3, <1>4, DoneServes DEF clock

(* The statements that write a torrent's or a peer's row. *)
LEMMA TableTypes ==
  ASSUME TypeInv, NEW w \in Workers, UpsertTorrent(w) \/ UpsertPeer(w) \/ RemovePeer(w)
  PROVE  TypeInv'
<1> USE DEF TypeInv, TypeOK
<1>1. pc[w] # "idle" /\ req' = req
  BY DEF UpsertTorrent, UpsertPeer, RemovePeer
<1>2. /\ req[w].torrent \in Torrents
      /\ req[w].peer \in Peers
      /\ req[w].left \in Lefts
  BY <1>1, RequestFacts DEF Serves
<1>3. PICK s \in Statements : Go(w, s) /\ (s = "peer" => req[w].accepted)
  BY DEF UpsertTorrent, UpsertPeer, RemovePeer, Statements
<1>4. pc' \in [Workers -> Statements \union {"idle"}] /\ Serves'
  BY <1>1, <1>3, GoServes
<1>5. known' \subseteq Torrents
  BY <1>2 DEF UpsertTorrent, UpsertPeer, RemovePeer
<1>6. rows' \in [Torrents \X Peers -> Rows \union {None}]
  <2>1. req[w] \in Requests
    BY <1>1 DEF Serves
  <2>2. CASE UpsertTorrent(w)
    BY <2>2 DEF UpsertTorrent
  <2>3. CASE UpsertPeer(w)
    BY <2>1, <2>3, EffectTypes DEF UpsertPeer
  <2>4. CASE RemovePeer(w)
    BY <2>1, <2>4, EffectTypes DEF RemovePeer
  <2> QED
    BY <2>2, <2>3, <2>4
<1>7. UNCHANGED <<counters, reply, orphans, clock, announces, faults, begun, counted, drifted>>
  BY DEF UpsertTorrent, UpsertPeer, RemovePeer, history
<1> QED
  BY <1>1, <1>4, <1>5, <1>6, <1>7 DEF clock

(* The selection of peers. *)
LEMMA GetPeersTypes ==
  ASSUME TypeInv, NEW w \in Workers, GetPeers(w)
  PROVE  TypeInv'
<1> USE DEF TypeInv, TypeOK
<1>1. pc[w] # "idle" /\ req' = req /\ Go(w, "info") /\ "info" \in Statements
  BY DEF GetPeers, Statements
<1>2. req[w].torrent \in Torrents
  BY <1>1, RequestFacts DEF Serves
<1>3. pc' \in [Workers -> Statements \union {"idle"}] /\ Serves'
  BY <1>1, GoServes
<1>4. PICK chosen \in SUBSET {p \in Peers \ {req[w].peer} :
                                rows[<<req[w].torrent, p>>] # None} :
        reply' = [reply EXCEPT
                    ![w] = {<<p, rows[<<req[w].torrent, p>>].age>> : p \in chosen}]
  BY DEF GetPeers
<1>5. \A p \in chosen : <<p, rows[<<req[w].torrent, p>>].age>> \in Peers \X (0 .. OldestAge)
  BY <1>2, RowFacts
<1>6. reply' \in [Workers -> SUBSET (Peers \X (0 .. OldestAge))]
  <2> DEFINE listed == {<<p, rows[<<req[w].torrent, p>>].age>> : p \in chosen}
  <2>1. listed \in SUBSET (Peers \X (0 .. OldestAge))
    <3> SUFFICES ASSUME NEW x \in listed
                 PROVE  x \in Peers \X (0 .. OldestAge)
      OBVIOUS
    <3>1. PICK p \in chosen : x = <<p, rows[<<req[w].torrent, p>>].age>>
      OBVIOUS
    <3> QED
      BY <1>5, <3>1
  <2>2. reply' = [reply EXCEPT ![w] = listed]
    BY <1>4
  <2> HIDE DEF listed
  <2> QED
    BY <2>1, <2>2
<1>7. UNCHANGED <<known, counters, rows, req, orphans, clock, announces, faults, history>>
  BY DEF GetPeers, tables
<1> QED
  BY <1>3, <1>6, <1>7 DEF history, clock

(* A drift is a set of torrents. *)
LEMMA DriftType == \A r : Drift(r) \subseteq Torrents
BY DEF Drift

(* A row stays a row as it ages. *)
LEMMA AgedType ==
  ASSUME NEW row \in Rows \union {None}
  PROVE  Aged(row) \in Rows \union {None}
<1>1. CASE row = None \/ row.age = OldestAge
  BY <1>1 DEF Aged
<1>2. CASE ~(row = None \/ row.age = OldestAge)
  <2>1. row \in Rows /\ row.age \in 0 .. OldestAge /\ row.age # OldestAge
    BY <1>2 DEF Rows
  <2>2. row.age + 1 \in 0 .. OldestAge
    BY <2>1, OldestAgeNat
  <2>3. [row EXCEPT !.age = @ + 1] \in Rows
    BY <2>1, <2>2 DEF Rows
  <2> QED
    BY <1>2, <2>3 DEF Aged
<1> QED
  BY <1>1, <1>2

(* The steps of time and of the cleanup thread. *)
LEMMA TimeTypes ==
  ASSUME TypeInv, Tick \/ CleanupOldPeers \/ CleanupFails
  PROVE  TypeInv'
<1> USE DEF TypeInv, TypeOK
<1>1. UNCHANGED <<known, counters, pc, req, reply, announces, begun, counted, up>>
  BY DEF Tick, CleanupOldPeers, CleanupFails, SleepAgain, threads
<1>2. rows' \in [Torrents \X Peers -> Rows \union {None}]
  <2>1. CASE Tick
    BY <2>1, AgedType DEF Tick
  <2>2. CASE CleanupOldPeers
    BY <2>2 DEF CleanupOldPeers, CleanedUp
  <2>3. CASE CleanupFails
    BY <2>3 DEF CleanupFails
  <2> QED
    BY <2>1, <2>2, <2>3
<1>3. drifted' \subseteq Torrents
  BY DriftType DEF Tick, CleanupOldPeers, CleanupFails
<1>4. sleep' \in 0 .. CleanupInterval /\ outage' \in Nat
  BY AnnounceAssumption DEF Tick, CleanupOldPeers, CleanupFails, SleepAgain
<1>5. /\ faults' \in Nat
      /\ orphans' \subseteq (Writes \X Requests) \union {<<"cleanup", None>>}
  BY DEF Tick, CleanupOldPeers, CleanupFails, Fail
<1>6. Serves'
  BY <1>1 DEF Serves
<1> QED
  BY <1>1, <1>2, <1>3, <1>4, <1>5, <1>6

(* A kill forgets the requests only, and a start nothing. *)
LEMMA RestartTypes ==
  ASSUME TypeInv, Kill \/ Start
  PROVE  TypeInv'
<1> USE DEF TypeInv, TypeOK
<1>1. CASE Start
  BY <1>1, AnnounceAssumption DEF Start, tables, threads, history, Serves
<1>2. CASE Kill
  <2>1. /\ pc' \in [Workers -> Statements \union {"idle"}]
        /\ req' \in [Workers -> Requests \union {None}]
        /\ reply' \in [Workers -> SUBSET (Peers \X (0 .. OldestAge))]
        /\ Serves'
    BY <1>2 DEF Kill, Serves
  <2>2. {req[w].torrent : w \in {v \in Workers : pc[v] = "refresh"}} \subseteq Torrents
    BY RequestFacts DEF Serves
  <2>3. up' \in BOOLEAN /\ faults' \in Nat
    <3>1. up' = FALSE /\ faults' = faults + 1
      BY <1>2 DEF Kill, Fail
    <3>2. up' \in BOOLEAN
      BY <3>1, Zenon
    <3>3. faults' \in Nat
      BY <3>1
    <3> QED
      BY <3>2, <3>3
  <2>4. /\ UNCHANGED <<known, counters, rows, outage, announces, begun, counted>>
        /\ sleep' \in 0 .. CleanupInterval
    BY <1>2, AnnounceAssumption DEF Kill, tables
  <2>5. drifted' \subseteq Torrents
    BY <1>2, <2>2 DEF Kill
  <2>6. orphans' \subseteq (Writes \X Requests) \union {<<"cleanup", None>>}
    <3>1. PICK S \in SUBSET {w \in Workers : pc[w] \in Writes} :
            orphans' = orphans \union {<<pc[w], req[w]>> : w \in S}
      BY <1>2 DEF Kill
    <3>2. \A w \in S : <<pc[w], req[w]>> \in Writes \X Requests
      BY DEF Serves, Writes
    <3> QED
      BY <3>1, <3>2
  <2> QED
    BY <2>1, <2>3, <2>4, <2>5, <2>6
<1> QED
  BY <1>1, <1>2

(* What MySQL runs late leaves tables of the same types. *)
LEMMA OrphanRunTypes ==
  ASSUME TypeInv, RunOrphan
  PROVE  TypeInv'
<1> USE DEF TypeInv, TypeOK
<1>1. PICK o \in orphans :
        /\ orphans' = orphans \ {o}
        /\ known' = IF o[1] = "torrent" THEN known \union {o[2].torrent} ELSE known
        /\ counters' = CASE o[1] = "increment" -> Incremented(o[2])
                         [] o[1] = "refresh" -> Refreshed(o[2])
                         [] OTHER -> counters
        /\ rows' = CASE o[1] = "peer" -> Inserted(o[2])
                     [] o[1] = "delete" -> Deleted(o[2])
                     [] o[1] = "cleanup" -> CleanedUp
                     [] OTHER -> rows
        /\ drifted' = IF o[1] = "refresh" THEN drifted \ {o[2].torrent}
                      ELSE drifted \union Drift(rows')
        /\ UNCHANGED <<threads, clock, announces, faults, begun, counted>>
  BY DEF RunOrphan
<1>2. drifted' \subseteq Torrents
  BY <1>1, DriftType
<1>3. UNCHANGED <<pc, req, reply, sleep, up, outage, announces, faults, begun, counted>>
  BY <1>1 DEF threads, clock
<1>4. /\ known' \subseteq Torrents
      /\ counters' \in [Torrents -> [complete : Nat, incomplete : Nat, downloaded : Nat]]
      /\ rows' \in [Torrents \X Peers -> Rows \union {None}]
  <2>1. CASE o[1] \in Writes /\ o[2] \in Requests
    <3>1. o[2].torrent \in Torrents
      BY <2>1, RequestFacts
    <3> QED
      BY <1>1, <2>1, <3>1, EffectTypes
  <2>2. CASE o = <<"cleanup", None>>
    BY <1>1, <2>2 DEF CleanedUp
  <2> QED
    BY <2>1, <2>2
<1>5. Serves'
  BY <1>3 DEF Serves
<1> QED
  BY <1>1, <1>2, <1>3, <1>4, <1>5

(* Every step keeps the types. *)
LEMMA NextTypes == TypeInv /\ [Next]_vars => TypeInv'
<1> SUFFICES ASSUME TypeInv, [Next]_vars PROVE TypeInv'
  OBVIOUS
<1>1. ASSUME NEW w \in Workers, HandleRequest(w) PROVE TypeInv'
  BY <1>1, CounterTypes, DoneTypes, TableTypes, GetPeersTypes DEF HandleRequest
<1>2. ASSUME NEW w \in Workers, NEW r \in Requests, Announce(w, r) PROVE TypeInv'
  BY <1>2, AnnounceTypes
<1>3. CASE UNCHANGED vars
  BY <1>3 DEF vars, tables, threads, history, clock, TypeInv, TypeOK, Serves
<1> QED
  BY <1>1, <1>2, <1>3, TimeTypes, RestartTypes, OrphanRunTypes DEF Next

(* Every variable keeps its type. *)
THEOREM AnnounceTyping == Spec => []TypeOK
<1>1. Spec => []TypeInv
  BY InitTypeInv, NextTypes, PTL DEF Spec
<1>2. TypeInv => TypeOK
  BY DEF TypeInv
<1> QED
  BY <1>1, <1>2, PTL

-----------------------------------------------------------------------------
(* Statistics *)

(***************************************************************************)
(* A torrent without a row has no peers and nothing counted, and a peer's  *)
(* row is written, in time or late, only for a torrent that has one.       *)
(***************************************************************************)
KnownFirst ==
  /\ \A t \in Torrents \ known :
       /\ counters[t].complete = 0
       /\ counters[t].incomplete = 0
       /\ \A p \in Peers : rows[<<t, p>>] = None
  /\ \A w \in Workers : pc[w] = "peer" => req[w].torrent \in known
  /\ \A o \in orphans : o[1] = "peer" => o[2].torrent \in known

StatsInv == KnownFirst /\ StatsExact

(* What a count of torrent t's peers sees are the rows of t. *)
LEMMA CountSameRows ==
  ASSUME NEW r, NEW q, NEW t, \A p \in Peers : r[<<t, p>>] = q[<<t, p>>]
  PROVE  Complete(r, t) = Complete(q, t) /\ Incomplete(r, t) = Incomplete(q, t)
<1>1. \A left : Seen(r, t, left) = Seen(q, t, left)
  BY DEF Seen
<1> QED
  BY <1>1 DEF Complete, Incomplete

(* A torrent without peers counts none. *)
LEMMA CountNone ==
  ASSUME NEW r, NEW t, \A p \in Peers : r[<<t, p>>] = None
  PROVE  Complete(r, t) = 0 /\ Incomplete(r, t) = 0
<1>1. \A left : Seen(r, t, left) = {}
  BY DEF Seen
<1> QED
  BY <1>1, FS_EmptySet DEF Complete, Incomplete

(* Initially nothing is known. *)
LEMMA InitStatsInv == Init => StatsInv
<1> SUFFICES ASSUME Init PROVE StatsInv
  OBVIOUS
<1>1. StatsExact
  BY DEF Init, StatsExact
<1>2. KnownFirst
  BY DEF Init, KnownFirst
<1> QED
  BY <1>1, <1>2 DEF StatsInv

(***************************************************************************)
(* A step that writes no table and no drift, and after which every worker  *)
(* that had to refresh still has to, keeps the statistics.                 *)
(***************************************************************************)
LEMMA TablesUntouched ==
  ASSUME TypeInv, StatsInv,
         UNCHANGED <<known, rows>>, drifted \subseteq drifted',
         \A t \in Torrents :
           /\ counters'[t].complete = counters[t].complete
           /\ counters'[t].incomplete = counters[t].incomplete
           /\ Refreshing(t) => Refreshing(t)' \/ t \in drifted',
         \A w \in Workers :
           pc'[w] = "peer" => pc[w] = "peer" /\ req'[w] = req[w],
         \A o \in orphans' :
           o \in orphans \/ o[1] # "peer" \/ \E w \in Workers : o = <<pc[w], req[w]>>
  PROVE  StatsInv'
<1>1. KnownFirst'
  <2>1. \A o \in orphans' : o[1] = "peer" => o[2].torrent \in known
    BY DEF StatsInv, KnownFirst
  <2> QED
    BY <2>1 DEF StatsInv, KnownFirst
<1>2. \A t \in Torrents : Complete(rows, t)' = Complete(rows, t)
                        /\ Incomplete(rows, t)' = Incomplete(rows, t)
  BY CountSameRows
<1>3. ASSUME NEW t \in known'
      PROVE  \/ t \in drifted'
             \/ Refreshing(t)'
             \/ /\ counters'[t].complete = Complete(rows, t)'
                /\ counters'[t].incomplete = Incomplete(rows, t)'
  <2>1. t \in known /\ t \in Torrents
    BY DEF TypeInv, TypeOK
  <2> QED
    BY <1>2, <2>1 DEF StatsInv, StatsExact
<1> QED
  BY <1>1, <1>3 DEF StatsInv, StatsExact

(* A worker that moves between other statements leaves the refreshes alone. *)
LEMMA RefreshersStay ==
  ASSUME TypeInv, NEW w \in Workers, pc[w] # "refresh",
         \A v \in Workers \ {w} : pc'[v] = pc[v] /\ req'[v] = req[v],
         NEW t, Refreshing(t)
  PROVE  Refreshing(t)'
BY DEF Refreshing

(* The steps of a worker that change no peer and no count of peers. *)
LEMMA QuietStats ==
  ASSUME TypeInv, StatsInv, NEW w \in Workers,
         \/ \E r \in Requests : Announce(w, r)
         \/ IncrementDownloaded(w) \/ IncrementFails(w) \/ Reject(w) \/ UpdatePeerFails(w)
         \/ RemovePeerFails(w) \/ GetPeers(w) \/ GetPeersFails(w) \/ GetTorrentInfo(w)
  PROVE  StatsInv'
<1> USE DEF TypeInv, TypeOK
<1>1. /\ UNCHANGED <<known, rows, drifted>>
      /\ pc[w] # "refresh"
  BY DEF Announce, IncrementDownloaded, IncrementFails, Reject, UpdatePeerFails,
         RemovePeerFails, GetPeers, GetPeersFails, GetTorrentInfo, tables, history
<1>2. /\ pc'[w] # "peer"
      /\ \A v \in Workers \ {w} : pc'[v] = pc[v] /\ req'[v] = req[v]
  <2>1. CASE \E r \in Requests : Announce(w, r)
    BY <2>1, RequestFacts DEF Announce, Go, Events
  <2>2. CASE Reject(w) \/ UpdatePeerFails(w) \/ GetTorrentInfo(w)
    BY <2>2 DEF Reject, UpdatePeerFails, GetTorrentInfo, Done
  <2>3. CASE \/ IncrementDownloaded(w) \/ IncrementFails(w) \/ RemovePeerFails(w)
             \/ GetPeers(w) \/ GetPeersFails(w)
    BY <2>3 DEF IncrementDownloaded, IncrementFails, RemovePeerFails, GetPeers,
                GetPeersFails, Go
  <2> QED
    BY <2>1, <2>2, <2>3
<1>3. \A t \in Torrents : /\ counters'[t].complete = counters[t].complete
                         /\ counters'[t].incomplete = counters[t].incomplete
  <2>1. CASE IncrementDownloaded(w)
    BY <2>1 DEF IncrementDownloaded, Incremented
  <2>2. CASE ~IncrementDownloaded(w)
    BY <2>2 DEF Announce, IncrementFails, Reject, UpdatePeerFails,
         RemovePeerFails, GetPeers, GetPeersFails, GetTorrentInfo, tables
  <2> QED
    BY <2>1, <2>2
<1>4. \A t \in Torrents : Refreshing(t) => Refreshing(t)'
  BY <1>1, <1>2, RefreshersStay
<1>5. \A v \in Workers : pc'[v] = "peer" => pc[v] = "peer" /\ req'[v] = req[v]
  BY <1>2
<1>6. \A o \in orphans' : o \in orphans \/ o = <<pc[w], req[w]>>
  BY DEF Announce, IncrementDownloaded, IncrementFails, Reject, UpdatePeerFails,
         RemovePeerFails, GetPeers, GetPeersFails, GetTorrentInfo, QueryFails
<1> QED
  BY <1>1, <1>3, <1>4, <1>5, <1>6, TablesUntouched

(* A refresh that fails, and a kill before one, leave the torrent marked as drifted. *)
LEMMA LostRefreshStats ==
  ASSUME TypeInv, StatsInv, Kill \/ \E w \in Workers : RefreshFails(w)
  PROVE  StatsInv'
<1> USE DEF TypeInv, TypeOK
<1>1. UNCHANGED <<known, rows, counters>> /\ drifted \subseteq drifted'
  BY DEF Kill, RefreshFails, tables
<1>2. CASE Kill
  <2>1. \A t \in Torrents : Refreshing(t) => t \in drifted'
    BY <1>2 DEF Kill, Refreshing
  <2>2. \A v \in Workers : pc'[v] # "peer"
    BY <1>2 DEF Kill
  <2>3. \A o \in orphans' : o \in orphans \/ \E w \in Workers : o = <<pc[w], req[w]>>
    BY <1>2 DEF Kill
  <2> QED
    BY <1>1, <2>1, <2>2, <2>3, TablesUntouched
<1>3. ASSUME NEW w \in Workers, RefreshFails(w) PROVE StatsInv'
  <2>1. /\ req' = req
        /\ pc'[w] = "peers"
        /\ req[w].torrent \in drifted'
        /\ \A v \in Workers \ {w} : pc'[v] = pc[v]
    BY <1>3 DEF RefreshFails, Go
  <2>2. \A t \in Torrents : Refreshing(t) => Refreshing(t)' \/ t \in drifted'
    BY <2>1 DEF Refreshing
  <2>3. \A v \in Workers : pc'[v] = "peer" => pc[v] = "peer" /\ req'[v] = req[v]
    BY <2>1
  <2>4. \A o \in orphans' : o \in orphans \/ o = <<pc[w], req[w]>>
    BY <1>3 DEF RefreshFails, QueryFails
  <2> QED
    BY <1>1, <2>2, <2>3, <2>4, TablesUntouched
<1> QED
  BY <1>2, <1>3

(* A torrent's new row counts nothing, as it has no peers yet. *)
LEMMA UpsertTorrentStats ==
  ASSUME TypeInv, StatsInv, NEW w \in Workers, UpsertTorrent(w)
  PROVE  StatsInv'
<1> USE DEF TypeInv, TypeOK
<1>1. /\ UNCHANGED <<counters, rows, req, drifted, orphans>>
      /\ known' = known \union {req[w].torrent}
      /\ pc[w] = "torrent" /\ pc'[w] = "peer"
      /\ \A v \in Workers \ {w} : pc'[v] = pc[v]
  BY DEF UpsertTorrent, Go, history
<1>2. KnownFirst'
  BY <1>1 DEF StatsInv, KnownFirst
<1>3. ASSUME NEW t \in known', t \notin drifted', ~Refreshing(t)'
      PROVE  /\ counters'[t].complete = Complete(rows, t)'
             /\ counters'[t].incomplete = Incomplete(rows, t)'
  <2>1. Complete(rows, t)' = Complete(rows, t) /\ Incomplete(rows, t)' = Incomplete(rows, t)
    BY <1>1, CountSameRows
  <2>2. CASE t \in known
    <3>1. ~Refreshing(t)
      BY <1>1, <1>3, RefreshersStay
    <3> QED
      BY <1>1, <1>3, <2>1, <2>2, <3>1 DEF StatsInv, StatsExact
  <2>3. CASE t \notin known
    <3>1. t \in Torrents
      BY <1>1, <2>3, RequestFacts DEF Serves
    <3>2. /\ counters[t].complete = 0 /\ counters[t].incomplete = 0
          /\ \A p \in Peers : rows[<<t, p>>] = None
      BY <2>3, <3>1 DEF StatsInv, KnownFirst
    <3> QED
      BY <1>1, <2>1, <3>2, CountNone
  <2> QED
    BY <2>2, <2>3
<1> QED
  BY <1>2, <1>3 DEF StatsInv, StatsExact

(* A worker that writes or deletes a peer's row then refreshes its torrent. *)
LEMMA PeerRowStats ==
  ASSUME TypeInv, StatsInv, NEW w \in Workers, UpsertPeer(w) \/ RemovePeer(w)
  PROVE  StatsInv'
<1> USE DEF TypeInv, TypeOK
<1>1. /\ UNCHANGED <<known, counters, req, drifted, orphans>>
      /\ pc[w] \in {"peer", "delete"} /\ pc'[w] = "refresh"
      /\ \A v \in Workers \ {w} : pc'[v] = pc[v]
  BY DEF UpsertPeer, RemovePeer, Go, history
<1>2. \A t \in Torrents, p \in Peers :
        t # req[w].torrent => rows'[<<t, p>>] = rows[<<t, p>>]
  BY DEF UpsertPeer, RemovePeer, Inserted, Deleted
<1>3. KnownFirst'
  <2>1. ASSUME NEW t \in Torrents \ known, NEW p \in Peers PROVE rows'[<<t, p>>] = None
    <3>1. CASE UpsertPeer(w)
      <4>1. t # req[w].torrent
        BY <3>1 DEF UpsertPeer, StatsInv, KnownFirst
      <4> QED
        BY <1>2, <4>1 DEF StatsInv, KnownFirst
    <3>2. CASE RemovePeer(w)
      BY <3>2 DEF RemovePeer, Deleted, StatsInv, KnownFirst
    <3> QED
      BY <3>1, <3>2
  <2> QED
    BY <1>1, <2>1 DEF StatsInv, KnownFirst
<1>4. ASSUME NEW t \in known', t \notin drifted', ~Refreshing(t)'
      PROVE  /\ counters'[t].complete = Complete(rows, t)'
             /\ counters'[t].incomplete = Incomplete(rows, t)'
  <2>1. t # req[w].torrent
    BY <1>1, <1>4 DEF Refreshing
  <2>2. Complete(rows, t)' = Complete(rows, t) /\ Incomplete(rows, t)' = Incomplete(rows, t)
    <3>1. t \in Torrents /\ \A p \in Peers : rows'[<<t, p>>] = rows[<<t, p>>]
      BY <1>1, <1>2, <1>4, <2>1
    <3> QED
      BY <3>1, CountSameRows DEF Complete, Incomplete, Seen
  <2>3. ~Refreshing(t)
    BY <1>1, <1>4, RefreshersStay
  <2> QED
    BY <1>1, <1>4, <2>2, <2>3 DEF StatsInv, StatsExact
<1> QED
  BY <1>3, <1>4 DEF StatsInv, StatsExact

(* The refresh makes its torrent's counters exact, whoever else refreshes it. *)
LEMMA RefreshStats ==
  ASSUME TypeInv, StatsInv, NEW w \in Workers, RefreshTorrentStats(w)
  PROVE  StatsInv'
<1> USE DEF TypeInv, TypeOK
<1> DEFINE u == req[w].torrent
<1>1. /\ UNCHANGED <<known, rows, req, orphans>>
      /\ pc'[w] = "peers" /\ \A v \in Workers \ {w} : pc'[v] = pc[v]
      /\ drifted' = drifted \ {u}
      /\ \A t \in Torrents : t \notin known \/ t # u => counters'[t] = counters[t]
      /\ u \in known => /\ counters'[u].complete = Complete(rows, u)
                        /\ counters'[u].incomplete = Incomplete(rows, u)
  BY DEF RefreshTorrentStats, Refreshed, Go
<1>2. KnownFirst'
  BY <1>1 DEF StatsInv, KnownFirst
<1>3. ASSUME NEW t \in known', t \notin drifted', ~Refreshing(t)'
      PROVE  /\ counters'[t].complete = Complete(rows, t)'
             /\ counters'[t].incomplete = Incomplete(rows, t)'
  <2>1. Complete(rows, t)' = Complete(rows, t) /\ Incomplete(rows, t)' = Incomplete(rows, t)
    BY <1>1, CountSameRows
  <2>2. CASE t = u
    BY <1>1, <2>1, <2>2
  <2>3. CASE t # u
    <3>1. ~Refreshing(t)
      BY <1>1, <1>3, <2>3 DEF Refreshing
    <3>2. t \in Torrents /\ t \notin drifted
      BY <1>1, <1>3, <2>3
    <3> QED
      BY <1>1, <2>1, <2>3, <3>1, <3>2 DEF StatsInv, StatsExact
  <2> QED
    BY <2>2, <2>3
<1> QED
  BY <1>2, <1>3 DEF StatsInv, StatsExact

(* Time and the cleanup mark the torrents whose count they change. *)
LEMMA DriftStats ==
  ASSUME TypeInv, StatsInv, Tick \/ CleanupOldPeers
  PROVE  StatsInv'
<1> USE DEF TypeInv, TypeOK
<1>1. /\ UNCHANGED <<known, counters, pc, req, orphans>>
      /\ drifted' = drifted \union Drift(rows')
  BY DEF Tick, CleanupOldPeers, SleepAgain, threads
<1>2. \A tp \in Torrents \X Peers : rows[tp] = None => rows'[tp] = None
  BY DEF Tick, CleanupOldPeers, CleanedUp, Aged
<1>3. KnownFirst'
  BY <1>1, <1>2 DEF StatsInv, KnownFirst
<1>4. ASSUME NEW t \in known', t \notin drifted', ~Refreshing(t)'
      PROVE  /\ counters'[t].complete = Complete(rows', t)
             /\ counters'[t].incomplete = Incomplete(rows', t)
  <2>1. t \in Torrents /\ t \notin drifted /\ t \notin Drift(rows') /\ ~Refreshing(t)
    BY <1>1, <1>4 DEF Refreshing
  <2>2. Complete(rows', t) = Complete(rows, t) /\ Incomplete(rows', t) = Incomplete(rows, t)
    BY <2>1 DEF Drift
  <2> QED
    BY <1>1, <2>1, <2>2 DEF StatsInv, StatsExact
<1>5. \A t : Complete(rows, t)' = Complete(rows', t)
          /\ Incomplete(rows, t)' = Incomplete(rows', t)
  BY DEF Complete, Incomplete, Seen
<1> QED
  BY <1>3, <1>4, <1>5 DEF StatsInv, StatsExact

(* A peers table that MySQL changes late marks the torrents whose count it changes. *)
LEMMA LateRowsStats ==
  ASSUME TypeInv, StatsInv, NEW o \in orphans, orphans' = orphans \ {o},
         UNCHANGED <<known, counters, pc, req>>, drifted' = drifted \union Drift(rows'),
         \A t \in Torrents \ known, p \in Peers : rows'[<<t, p>>] = None
  PROVE  StatsInv'
<1> USE DEF TypeInv, TypeOK
<1>1. KnownFirst'
  BY DEF StatsInv, KnownFirst
<1>2. ASSUME NEW t \in known', t \notin drifted', ~Refreshing(t)'
      PROVE  /\ counters'[t].complete = Complete(rows', t)
             /\ counters'[t].incomplete = Incomplete(rows', t)
  <2>1. t \in Torrents /\ t \notin drifted /\ t \notin Drift(rows') /\ ~Refreshing(t)
    BY <1>2 DEF Refreshing
  <2>2. Complete(rows', t) = Complete(rows, t) /\ Incomplete(rows', t) = Incomplete(rows, t)
    BY <2>1 DEF Drift
  <2> QED
    BY <1>2, <2>1, <2>2 DEF StatsInv, StatsExact
<1>3. \A t : Complete(rows, t)' = Complete(rows', t)
          /\ Incomplete(rows, t)' = Incomplete(rows', t)
  BY DEF Complete, Incomplete, Seen
<1> QED
  BY <1>1, <1>2, <1>3 DEF StatsInv, StatsExact

(* A torrents table that MySQL changes late counts what is there. *)
LEMMA LateCountersStats ==
  ASSUME TypeInv, StatsInv, NEW o \in orphans, orphans' = orphans \ {o},
         o[2] \in Requests, rows' = rows, UNCHANGED <<pc, req>>,
         \/ /\ o[1] = "torrent"
            /\ known' = known \union {o[2].torrent}
            /\ UNCHANGED <<counters, drifted>>
         \/ /\ o[1] = "increment"
            /\ counters' = Incremented(o[2])
            /\ UNCHANGED <<known, drifted>>
         \/ /\ o[1] = "refresh"
            /\ counters' = Refreshed(o[2])
            /\ drifted' = drifted \ {o[2].torrent}
            /\ UNCHANGED known
  PROVE  StatsInv'
<1> USE DEF TypeInv, TypeOK
<1> DEFINE u == o[2].torrent
<1>1. \A t : Refreshing(t)' <=> Refreshing(t)
  BY DEF Refreshing
<1>2. \A t : Complete(rows, t)' = Complete(rows, t) /\ Incomplete(rows, t)' = Incomplete(rows, t)
  BY CountSameRows
<1>3. u \in Torrents /\ known \subseteq known'
  BY RequestFacts
<1>4. \A t \in Torrents \ known' : /\ counters'[t].complete = counters[t].complete
                                   /\ counters'[t].incomplete = counters[t].incomplete
  BY DEF Incremented, Refreshed
<1>5. KnownFirst'
  BY <1>3, <1>4 DEF StatsInv, KnownFirst
<1>6. ASSUME NEW t \in known', t \notin drifted', ~Refreshing(t)
      PROVE  /\ counters'[t].complete = Complete(rows, t)
             /\ counters'[t].incomplete = Incomplete(rows, t)
  <2>1. CASE o[1] = "torrent"
    <3>1. CASE t \in known
      BY <1>6, <2>1, <3>1 DEF StatsInv, StatsExact
    <3>2. CASE t \notin known
      <4>1. /\ counters[t].complete = 0 /\ counters[t].incomplete = 0
            /\ \A p \in Peers : rows[<<t, p>>] = None
        BY <1>3, <2>1, <3>2 DEF StatsInv, KnownFirst
      <4> QED
        BY <2>1, <4>1, CountNone
    <3> QED
      BY <3>1, <3>2
  <2>2. CASE o[1] = "increment"
    <3>1. t \in known /\ t \in Torrents /\ t \notin drifted
      BY <1>6, <2>2
    <3>2. /\ counters'[t].complete = counters[t].complete
          /\ counters'[t].incomplete = counters[t].incomplete
      <4>1. counters' = counters \/ counters' = [counters EXCEPT ![u].downloaded = @ + 1]
        BY <2>2 DEF Incremented
      <4> HIDE DEF u
      <4> QED
        BY <1>3, <3>1, <4>1
    <3> QED
      BY <1>6, <3>1, <3>2 DEF StatsInv, StatsExact
  <2>3. CASE o[1] = "refresh"
    <3>1. t \in known /\ t \in Torrents
      BY <1>6, <2>3
    <3>2. CASE t = u
      BY <2>3, <3>1, <3>2 DEF Refreshed
    <3>3. CASE t # u
      <4>1. counters'[t] = counters[t] /\ t \notin drifted
        BY <1>6, <2>3, <3>1, <3>3 DEF Refreshed
      <4> QED
        BY <1>6, <3>1, <4>1 DEF StatsInv, StatsExact
    <3> QED
      BY <3>2, <3>3
  <2> QED
    BY <2>1, <2>2, <2>3
<1> QED
  BY <1>1, <1>2, <1>5, <1>6 DEF StatsInv, StatsExact

(* What MySQL runs late is one or the other. *)
LEMMA OrphanStats ==
  ASSUME TypeInv, StatsInv, RunOrphan
  PROVE  StatsInv'
<1> USE DEF TypeInv, TypeOK
<1>1. PICK o \in orphans :
        /\ orphans' = orphans \ {o}
        /\ known' = IF o[1] = "torrent" THEN known \union {o[2].torrent} ELSE known
        /\ counters' = CASE o[1] = "increment" -> Incremented(o[2])
                         [] o[1] = "refresh" -> Refreshed(o[2])
                         [] OTHER -> counters
        /\ rows' = CASE o[1] = "peer" -> Inserted(o[2])
                     [] o[1] = "delete" -> Deleted(o[2])
                     [] o[1] = "cleanup" -> CleanedUp
                     [] OTHER -> rows
        /\ drifted' = IF o[1] = "refresh" THEN drifted \ {o[2].torrent}
                      ELSE drifted \union Drift(rows')
        /\ UNCHANGED <<threads, clock, announces, faults, begun, counted>>
  BY DEF RunOrphan
<1>2. UNCHANGED <<pc, req>>
  BY <1>1 DEF threads
<1>3. CASE o[1] \in {"peer", "delete", "cleanup"}
  <2>1. UNCHANGED <<known, counters>> /\ drifted' = drifted \union Drift(rows')
    BY <1>1, <1>3
  <2>2. ASSUME NEW t \in Torrents \ known, NEW p \in Peers PROVE rows'[<<t, p>>] = None
    <3>1. rows[<<t, p>>] = None
      BY DEF StatsInv, KnownFirst
    <3>2. CASE o[1] = "peer"
      <4>1. t # o[2].torrent
        BY <3>2 DEF StatsInv, KnownFirst
      <4> QED
        BY <1>1, <3>1, <3>2, <4>1 DEF Inserted
    <3>3. CASE o[1] = "delete"
      BY <1>1, <3>1, <3>3 DEF Deleted
    <3>4. CASE o[1] = "cleanup"
      BY <1>1, <3>1, <3>4 DEF CleanedUp
    <3> QED
      BY <1>3, <3>2, <3>3, <3>4
  <2> QED
    BY <1>1, <1>2, <2>1, <2>2, LateRowsStats
<1>4. CASE o[1] \in {"torrent", "increment", "refresh"}
  <2>1. o[2] \in Requests /\ rows' = rows
    BY <1>1, <1>4
  <2>2. Drift(rows') = {}
    BY <2>1 DEF Drift
  <2>3. \/ /\ o[1] = "torrent"
           /\ known' = known \union {o[2].torrent}
           /\ UNCHANGED <<counters, drifted>>
        \/ /\ o[1] = "increment"
           /\ counters' = Incremented(o[2])
           /\ UNCHANGED <<known, drifted>>
        \/ /\ o[1] = "refresh"
           /\ counters' = Refreshed(o[2])
           /\ drifted' = drifted \ {o[2].torrent}
           /\ UNCHANGED known
    BY <1>1, <1>4, <2>2
  <2> QED
    BY <1>1, <1>2, <2>1, <2>3, LateCountersStats
<1> QED
  BY <1>3, <1>4 DEF Writes

(* Every step keeps the statistics. *)
LEMMA NextStats == TypeInv /\ StatsInv /\ [Next]_vars => StatsInv'
<1> SUFFICES ASSUME TypeInv, StatsInv, [Next]_vars PROVE StatsInv'
  OBVIOUS
<1>1. ASSUME NEW w \in Workers, HandleRequest(w) PROVE StatsInv'
  BY <1>1, QuietStats, LostRefreshStats, UpsertTorrentStats, PeerRowStats, RefreshStats
     DEF HandleRequest
<1>2. ASSUME NEW w \in Workers, NEW r \in Requests, Announce(w, r) PROVE StatsInv'
  BY <1>2, QuietStats
<1>3. CASE CleanupFails \/ Start \/ UNCHANGED vars
  <2>1. UNCHANGED <<known, rows, counters, drifted, pc, req>>
    BY <1>3 DEF CleanupFails, SleepAgain, Start, vars, tables, threads, history
  <2>2. orphans' \subseteq orphans \union {<<"cleanup", None>>}
    BY <1>3 DEF CleanupFails, Start, vars
  <2>3. \A o \in orphans' : o \in orphans \/ o[1] # "peer"
    BY <2>2
  <2> QED
    BY <2>1, <2>3, TablesUntouched DEF Refreshing
<1> QED
  BY <1>1, <1>2, <1>3, DriftStats, LostRefreshStats, OrphanStats DEF Next

(***************************************************************************)
(* A torrent's counters are what a count of its peers gives, unless a      *)
(* worker has still to refresh them or the peers last changed unseen,      *)
(* however the workers' statements interleave and whatever fails.          *)
(***************************************************************************)
THEOREM Statistics == Spec => []StatsExact
<1>1. Spec => []TypeInv
  BY InitTypeInv, NextTypes, PTL DEF Spec
<1>2. StatsInv => StatsExact
  BY DEF StatsInv
<1> QED
  BY <1>1, <1>2, InitStatsInv, NextStats, PTL DEF Spec

-----------------------------------------------------------------------------
(* Ages *)

(* The largest age after n faults, without an outage. *)
AgeLimit(n) == MaxPeerAge + CleanupInterval * (n + 1)

(***************************************************************************)
(* A row can still age until the next cleanup runs, and no more.           *)
(***************************************************************************)
AgeInv ==
  /\ \A tp \in Torrents \X Peers :
       rows[tp] # None => rows[tp].age + sleep <= AgeLimit(faults) + outage
  /\ \A w \in Workers : \A pa \in reply[w] : pa[2] <= AgeLimit(faults) + outage

(* Each fault puts the cleanup off by one interval. *)
LEMMA AgeLimitFacts ==
  ASSUME NEW n \in Nat
  PROVE  /\ AgeLimit(n) \in Nat
         /\ AgeLimit(n) >= MaxPeerAge + CleanupInterval
         /\ AgeLimit(n + 1) = AgeLimit(n) + CleanupInterval
<1>1. CleanupInterval \in Nat /\ MaxPeerAge \in Nat
  BY AnnounceAssumption
<1>2. CleanupInterval * n \in Nat
  BY <1>1
<1>3. CleanupInterval * (n + 1) = CleanupInterval * n + CleanupInterval
  BY <1>1
<1>4. CleanupInterval * ((n + 1) + 1) = CleanupInterval * (n + 1) + CleanupInterval
  BY <1>1
<1> QED
  BY <1>1, <1>2, <1>3, <1>4 DEF AgeLimit

(* What the types say of ages, replies and faults. *)
LEMMA AgeTypes ==
  ASSUME TypeInv
  PROVE  /\ faults \in Nat /\ outage \in Nat
         /\ sleep \in Nat /\ sleep <= CleanupInterval
         /\ CleanupInterval \in Nat /\ MaxPeerAge \in Nat
         /\ \A tp \in Torrents \X Peers : rows[tp] # None => rows[tp].age \in Nat
         /\ \A w \in Workers : \A pa \in reply[w] : pa[2] \in Nat
<1> USE DEF TypeInv, TypeOK
<1>1. faults \in Nat /\ outage \in Nat
  OBVIOUS
<1>2. sleep \in Nat /\ sleep <= CleanupInterval
  BY AnnounceAssumption
<1>3. \A tp \in Torrents \X Peers : rows[tp] # None => rows[tp].age \in Nat
  BY RowFacts, OldestAgeNat
<1>4. \A w \in Workers : \A pa \in reply[w] : pa[2] \in Nat
  BY OldestAgeNat
<1> QED
  BY <1>1, <1>2, <1>3, <1>4, AnnounceAssumption

(* A step that ages and lists nothing new keeps the bound, if anything fails or not. *)
LEMMA NothingOlder ==
  ASSUME TypeInv, AgeInv, TypeInv', UNCHANGED <<sleep, outage>>,
         faults' = faults \/ faults' = faults + 1,
         \A tp \in Torrents \X Peers :
           rows'[tp] # None => rows'[tp] = rows[tp] \/ rows'[tp].age = 0,
         \A w \in Workers : \A pa \in reply'[w] : pa \in reply[w]
  PROVE  AgeInv'
<1>1. /\ AgeLimit(faults) \in Nat /\ AgeLimit(faults') \in Nat
      /\ AgeLimit(faults) <= AgeLimit(faults')
      /\ MaxPeerAge + CleanupInterval <= AgeLimit(faults')
  BY AgeTypes, AgeLimitFacts
<1>2. ASSUME NEW tp \in Torrents \X Peers, rows'[tp] # None
      PROVE  rows'[tp].age + sleep' <= AgeLimit(faults') + outage
  <2>1. CASE rows'[tp] = rows[tp]
    <3>1. rows[tp].age \in Nat /\ rows[tp].age + sleep <= AgeLimit(faults) + outage
      BY <1>2, <2>1, AgeTypes DEF AgeInv
    <3> QED
      BY <1>1, <2>1, <3>1, AgeTypes
  <2>2. CASE rows'[tp].age = 0
    BY <1>1, <2>2, AgeTypes
  <2> QED
    BY <1>2, <2>1, <2>2
<1>3. ASSUME NEW w \in Workers, NEW pa \in reply'[w]
      PROVE  pa[2] <= AgeLimit(faults') + outage
  <2>1. pa \in reply[w] /\ pa[2] <= AgeLimit(faults) + outage /\ pa[2] \in Nat
    BY AgeTypes DEF AgeInv
  <2> QED
    BY <1>1, <2>1, AgeTypes
<1>4. AgeLimit(faults)' = AgeLimit(faults')
  BY DEF AgeLimit
<1> QED
  BY <1>2, <1>3, <1>4 DEF AgeInv

(* The steps of a worker, but for its selection of peers. *)
LEMMA WorkerAges ==
  ASSUME TypeInv, AgeInv, TypeInv', NEW w \in Workers,
         \/ \E r \in Requests : Announce(w, r)
         \/ HandleRequest(w) /\ ~GetPeers(w)
  PROVE  AgeInv'
<1> USE DEF TypeInv, TypeOK
<1>1. UNCHANGED <<sleep, outage>>
  BY DEF Announce, HandleRequest, IncrementDownloaded, IncrementFails, Reject, UpsertTorrent,
         UpsertPeer, UpdatePeerFails, RemovePeer, RemovePeerFails, RefreshTorrentStats,
         RefreshFails, GetPeersFails, GetTorrentInfo, clock
<1>2. faults' = faults \/ faults' = faults + 1
  BY DEF Announce, HandleRequest, IncrementDownloaded, IncrementFails, Reject, UpsertTorrent,
         UpsertPeer, UpdatePeerFails, RemovePeer, RemovePeerFails, RefreshTorrentStats,
         RefreshFails, GetPeersFails, GetTorrentInfo, QueryFails, Fail
<1>3. ASSUME NEW tp \in Torrents \X Peers, rows'[tp] # None
      PROVE  rows'[tp] = rows[tp] \/ rows'[tp].age = 0
  <2>1. CASE UpsertPeer(w)
    BY <2>1 DEF UpsertPeer, Inserted
  <2>2. CASE RemovePeer(w)
    BY <1>3, <2>2 DEF RemovePeer, Deleted
  <2>3. CASE ~(UpsertPeer(w) \/ RemovePeer(w))
    BY <2>3 DEF Announce, HandleRequest, IncrementDownloaded, IncrementFails, Reject,
           UpsertTorrent, UpdatePeerFails, RemovePeerFails, RefreshTorrentStats,
           RefreshFails, GetPeersFails, GetTorrentInfo, tables
  <2> QED
    BY <2>1, <2>2, <2>3
<1>4. reply' = reply \/ reply' = [reply EXCEPT ![w] = {}]
  BY DEF Announce, HandleRequest, IncrementDownloaded, IncrementFails, Reject, UpsertTorrent,
         UpsertPeer, UpdatePeerFails, RemovePeer, RemovePeerFails, RefreshTorrentStats,
         RefreshFails, GetPeersFails, GetTorrentInfo, Done
<1>5. \A v \in Workers : \A pa \in reply'[v] : pa \in reply[v]
  BY <1>4
<1> HIDE DEF TypeInv, TypeOK
<1> QED
  BY <1>1, <1>2, <1>3, <1>5, NothingOlder

(* What MySQL runs late is a row of age 0, or removes some. *)
LEMMA OrphanAges ==
  ASSUME TypeInv, AgeInv, TypeInv', RunOrphan
  PROVE  AgeInv'
<1>1. UNCHANGED <<sleep, outage, faults, reply>>
  BY DEF RunOrphan, threads, clock
<1>2. ASSUME NEW tp \in Torrents \X Peers, rows'[tp] # None
      PROVE  rows'[tp] = rows[tp] \/ rows'[tp].age = 0
  <2>1. PICK o \in orphans :
          rows' = CASE o[1] = "peer" -> Inserted(o[2])
                    [] o[1] = "delete" -> Deleted(o[2])
                    [] o[1] = "cleanup" -> CleanedUp
                    [] OTHER -> rows
    BY DEF RunOrphan
  <2>2. CASE o[1] = "peer"
    BY <2>1, <2>2 DEF Inserted, TypeInv, TypeOK
  <2>3. CASE o[1] = "delete"
    BY <1>2, <2>1, <2>3 DEF Deleted, TypeInv, TypeOK
  <2>4. CASE o[1] = "cleanup"
    BY <1>2, <2>1, <2>4 DEF CleanedUp
  <2>5. CASE o[1] \notin {"peer", "delete", "cleanup"}
    BY <2>1, <2>5
  <2> QED
    BY <2>2, <2>3, <2>4, <2>5
<1> QED
  BY <1>1, <1>2, NothingOlder

(* The peers that a worker selects are rows of the table. *)
LEMMA GetPeersAges ==
  ASSUME TypeInv, AgeInv, TypeInv', NEW w \in Workers, GetPeers(w)
  PROVE  AgeInv'
<1>1. UNCHANGED <<rows, sleep, outage, faults>> /\ pc[w] # "idle"
  BY DEF GetPeers, tables, clock
<1>2. req[w].torrent \in Torrents
  BY <1>1, RequestFacts DEF TypeInv, Serves
<1>3. PICK chosen \in SUBSET {p \in Peers \ {req[w].peer} :
                                rows[<<req[w].torrent, p>>] # None} :
        reply' = [reply EXCEPT
                    ![w] = {<<p, rows[<<req[w].torrent, p>>].age>> : p \in chosen}]
  BY DEF GetPeers
<1>4. ASSUME NEW v \in Workers, NEW pa \in reply'[v] PROVE pa[2] <= AgeLimit(faults) + outage
  <2>1. CASE v # w
    BY <1>3, <2>1 DEF TypeInv, TypeOK, AgeInv
  <2>2. CASE v = w
    <3>1. PICK p \in chosen : pa = <<p, rows[<<req[w].torrent, p>>].age>>
      BY <1>3, <2>2 DEF TypeInv, TypeOK
    <3>2. <<req[w].torrent, p>> \in Torrents \X Peers
      BY <1>2
    <3>3. /\ rows[<<req[w].torrent, p>>].age \in Nat
          /\ rows[<<req[w].torrent, p>>].age + sleep <= AgeLimit(faults) + outage
      BY <3>2, AgeTypes DEF AgeInv
    <3>4. rows[<<req[w].torrent, p>>].age <= AgeLimit(faults) + outage
      BY <3>3, AgeTypes, AgeLimitFacts
    <3> QED
      BY <3>1, <3>4
  <2> QED
    BY <2>1, <2>2
<1>5. AgeLimit(faults)' = AgeLimit(faults)
  BY <1>1 DEF AgeLimit
<1> QED
  BY <1>1, <1>4, <1>5 DEF AgeInv

(* Time, the cleanup thread, a kill and a start. *)
LEMMA TimeAges ==
  ASSUME TypeInv, AgeInv, TypeInv',
         Tick \/ CleanupOldPeers \/ CleanupFails \/ Kill \/ Start
  PROVE  AgeInv'
<1>a. /\ AgeLimit(faults) \in Nat
      /\ AgeLimit(faults) >= MaxPeerAge + CleanupInterval
      /\ AgeLimit(faults + 1) = AgeLimit(faults) + CleanupInterval
      /\ AgeLimit(faults)' = AgeLimit(faults')
  BY AgeTypes, AgeLimitFacts DEF AgeLimit
<1>b. \A tp \in Torrents \X Peers :
        rows[tp] # None => /\ rows[tp].age \in Nat
                          /\ rows[tp].age + sleep <= AgeLimit(faults) + outage
  BY AgeTypes DEF AgeInv
<1>c. \A w \in Workers : \A pa \in reply[w] :
        pa[2] \in Nat /\ pa[2] <= AgeLimit(faults) + outage
  BY AgeTypes DEF AgeInv
<1>1. CASE Tick
  <2>1. /\ UNCHANGED <<reply, faults>> /\ sleep' \in Int /\ outage' \in Nat
        /\ outage' - sleep' = outage - sleep + 1 /\ outage' >= outage
    BY <1>1, AgeTypes DEF Tick, threads
  <2>2. ASSUME NEW tp \in Torrents \X Peers, rows'[tp] # None
        PROVE  rows'[tp].age + sleep' <= AgeLimit(faults) + outage'
    <3>1. rows'[tp] = Aged(rows[tp]) /\ rows[tp] # None
      BY <1>1, <2>2 DEF Tick, Aged
    <3>2. rows'[tp].age = rows[tp].age \/ rows'[tp].age = rows[tp].age + 1
      BY <3>1, RowFacts DEF Aged, TypeInv
    <3> QED
      BY <1>a, <1>b, <2>1, <3>1, <3>2, AgeTypes
  <2>3. ASSUME NEW w \in Workers, NEW pa \in reply[w]
        PROVE  pa[2] <= AgeLimit(faults) + outage'
    BY <1>a, <1>c, <2>1, AgeTypes
  <2> QED
    BY <1>a, <2>1, <2>2, <2>3 DEF AgeInv
<1>2. CASE CleanupOldPeers
  <2>1. UNCHANGED <<reply, faults, outage>> /\ sleep' = CleanupInterval
    BY <1>2 DEF CleanupOldPeers, SleepAgain, threads
  <2>2. ASSUME NEW tp \in Torrents \X Peers, rows'[tp] # None
        PROVE  rows'[tp].age + sleep' <= AgeLimit(faults) + outage
    <3>1. rows'[tp] = rows[tp] /\ rows[tp] # None /\ ~(rows[tp].age > MaxPeerAge)
      BY <1>2, <2>2 DEF CleanupOldPeers, CleanedUp
    <3> QED
      BY <1>a, <1>b, <2>1, <3>1, AgeTypes
  <2> QED
    BY <1>a, <1>c, <2>1, <2>2 DEF AgeInv
<1>3. CASE CleanupFails \/ Kill
  <2>1. /\ rows' = rows /\ faults' = faults + 1 /\ outage' = outage
        /\ sleep' = CleanupInterval
        /\ reply' = reply \/ reply' = [w \in Workers |-> {}]
    BY <1>3 DEF CleanupFails, SleepAgain, Kill, Fail, tables, threads
  <2>2. ASSUME NEW tp \in Torrents \X Peers, rows'[tp] # None
        PROVE  rows'[tp].age + sleep' <= AgeLimit(faults + 1) + outage
    BY <1>a, <1>b, <2>1, <2>2, AgeTypes
  <2>3. ASSUME NEW w \in Workers, NEW pa \in reply'[w]
        PROVE  pa[2] <= AgeLimit(faults + 1) + outage
    <3>1. pa \in reply[w]
      BY <2>1
    <3> QED
      BY <1>a, <1>c, <3>1, AgeTypes
  <2> QED
    BY <1>a, <2>1, <2>2, <2>3 DEF AgeInv
<1>4. CASE Start
  <2>1. UNCHANGED <<rows, reply, faults, sleep, outage>>
    BY <1>4 DEF Start, tables, threads
  <2> QED
    BY <2>1, NothingOlder
<1> QED
  BY <1>1, <1>2, <1>3, <1>4

(* Every step keeps the bound. *)
LEMMA NextAges == TypeInv /\ TypeInv' /\ AgeInv /\ [Next]_vars => AgeInv'
<1> SUFFICES ASSUME TypeInv, TypeInv', AgeInv, [Next]_vars PROVE AgeInv'
  OBVIOUS
<1>1. ASSUME NEW w \in Workers, HandleRequest(w) PROVE AgeInv'
  BY <1>1, WorkerAges, GetPeersAges
<1>2. ASSUME NEW w \in Workers, NEW r \in Requests, Announce(w, r) PROVE AgeInv'
  BY <1>2, WorkerAges
<1>3. CASE UNCHANGED vars
  BY <1>3 DEF vars, tables, threads, clock, AgeInv, AgeLimit
<1> QED
  BY <1>1, <1>2, <1>3, TimeAges, OrphanAges DEF Next

(* Initially there are no rows. *)
LEMMA InitAgeInv == Init => AgeInv
BY DEF Init, AgeInv

(***************************************************************************)
(* No peer is kept or served for longer than max_peer_age and an interval, *)
(* and an interval more for each cleanup that failed or was put off.       *)
(***************************************************************************)
THEOREM AgesBounded == Spec => []AgeBound
<1>1. Spec => []TypeInv
  BY InitTypeInv, NextTypes, PTL DEF Spec
<1>2. TypeInv /\ AgeInv => AgeBound
  <2> SUFFICES ASSUME TypeInv, AgeInv PROVE AgeBound
    OBVIOUS
  <2>1. ASSUME NEW tp \in Torrents \X Peers, rows[tp] # None
        PROVE  rows[tp].age <= AgeLimit(faults) + outage
    BY <2>1, AgeTypes, AgeLimitFacts DEF AgeInv
  <2> QED
    BY <2>1 DEF AgeInv, AgeBound, AgeLimit
<1> QED
  BY <1>1, <1>2, InitAgeInv, NextAges, PTL DEF Spec

-----------------------------------------------------------------------------
(* Downloads *)

(* The workers whose announce may still be missed, or was. *)
Pending(t) ==
  {w \in Workers : /\ pc[w] \in {"increment", "torrent"}
                   /\ req[w].torrent = t
                   /\ req[w].accepted}

(***************************************************************************)
(* Until a torrent is known, who missed its row has not yet inserted it.   *)
(* Once it is known nobody misses it: the missed are those pending then.   *)
(***************************************************************************)
DownloadInv ==
  faults = 0 =>
    \A t \in Torrents :
      /\ t \notin known => begun[t] <= counters[t].downloaded + Cardinality(Pending(t))
      /\ t \in known => begun[t] <= counters[t].downloaded + Cardinality(Incrementing(t))
                                      + Cardinality(Workers)

(* Sets of workers are finite, and the larger has no fewer. *)
LEMMA WorkerSets ==
  ASSUME NEW S \in SUBSET Workers, NEW R \in SUBSET S
  PROVE  /\ IsFiniteSet(S)
         /\ Cardinality(S) \in Nat /\ Cardinality(R) \in Nat
         /\ Cardinality(R) <= Cardinality(S)
BY AnnounceAssumption, FS_Subset, FS_CardinalityType

(* The numbers in the bound. *)
LEMMA DownloadTypes ==
  ASSUME TypeInv, NEW t \in Torrents
  PROVE  /\ begun[t] \in Nat /\ counters[t].downloaded \in Nat
         /\ Pending(t) \in SUBSET Workers /\ Incrementing(t) \in SUBSET Workers
         /\ Cardinality(Pending(t)) \in Nat /\ Cardinality(Incrementing(t)) \in Nat
         /\ Cardinality(Workers) \in Nat
         /\ Cardinality(Pending(t)) <= Cardinality(Workers)
<1>1. Pending(t) \in SUBSET Workers /\ Incrementing(t) \in SUBSET Workers
  BY DEF Pending, Incrementing
<1>2. begun[t] \in Nat /\ counters[t].downloaded \in Nat
  BY DEF TypeInv, TypeOK
<1> QED
  BY <1>1, <1>2, WorkerSets

(* A torrent for which nothing is announced, and nobody gets past a statement, keeps it. *)
LEMMA TorrentKept ==
  ASSUME TypeInv, TypeInv', DownloadInv, faults = 0, NEW t \in Torrents,
         t \in known' <=> t \in known,
         begun'[t] = begun[t], counters'[t].downloaded = counters[t].downloaded,
         Pending(t) \subseteq Pending(t)', Incrementing(t) \subseteq Incrementing(t)'
  PROVE  /\ t \notin known' => begun'[t] <= counters'[t].downloaded + Cardinality(Pending(t)')
         /\ t \in known' => begun'[t] <= counters'[t].downloaded
                              + Cardinality(Incrementing(t)') + Cardinality(Workers)
<1>1. Pending(t)' \in SUBSET Workers /\ Incrementing(t)' \in SUBSET Workers
  BY DEF Pending, Incrementing
<1>2. /\ Cardinality(Pending(t)) <= Cardinality(Pending(t)')
      /\ Cardinality(Incrementing(t)) <= Cardinality(Incrementing(t)')
      /\ Cardinality(Pending(t)') \in Nat /\ Cardinality(Incrementing(t)') \in Nat
  BY <1>1, WorkerSets
<1> QED
  BY <1>2, DownloadTypes DEF DownloadInv

(* Steps after which every torrent is kept, and steps that fail. *)
LEMMA DownloadsKept ==
  ASSUME TypeInv, TypeInv', DownloadInv,
         \/ faults' = faults + 1
         \/ /\ UNCHANGED <<known, begun, faults>>
            /\ \A t \in Torrents : /\ counters'[t].downloaded = counters[t].downloaded
                                   /\ Pending(t) \subseteq Pending(t)'
                                   /\ Incrementing(t) \subseteq Incrementing(t)'
  PROVE  DownloadInv'
<1> SUFFICES ASSUME faults' = 0, NEW t \in Torrents
             PROVE  /\ t \notin known' =>
                         begun'[t] <= counters'[t].downloaded + Cardinality(Pending(t)')
                    /\ t \in known' => begun'[t] <= counters'[t].downloaded
                         + Cardinality(Incrementing(t)') + Cardinality(Workers)
  BY DEF DownloadInv, Pending, Incrementing
<1>1. faults \in Nat
  BY DEF TypeInv, TypeOK
<1> QED
  BY <1>1, TorrentKept

(* A completed announce is one more to count, and one more pending. *)
LEMMA AnnounceDownloads ==
  ASSUME TypeInv, TypeInv', DownloadInv, NEW w \in Workers, NEW r \in Requests, Announce(w, r)
  PROVE  DownloadInv'
<1> SUFFICES ASSUME faults' = 0, NEW t \in Torrents
             PROVE  /\ t \notin known' =>
                         begun'[t] <= counters'[t].downloaded + Cardinality(Pending(t)')
                    /\ t \in known' => begun'[t] <= counters'[t].downloaded
                         + Cardinality(Incrementing(t)') + Cardinality(Workers)
  BY DEF DownloadInv, Pending, Incrementing
<1>1. /\ UNCHANGED <<known, counters, faults>> /\ pc[w] = "idle"
      /\ req'[w] = r /\ \A v \in Workers \ {w} : pc'[v] = pc[v] /\ req'[v] = req[v]
  BY DEF Announce, tables, Go, TypeInv, TypeOK
<1>2. /\ w \notin Pending(t) /\ Pending(t) \subseteq Pending(t)'
      /\ w \notin Incrementing(t) /\ Incrementing(t) \subseteq Incrementing(t)'
  BY <1>1 DEF Pending, Incrementing
<1>3. CASE begun'[t] = begun[t]
  BY <1>1, <1>2, <1>3, TorrentKept
<1>4. CASE begun'[t] # begun[t]
  <2>1. /\ r.event = "completed" /\ r.accepted /\ r.torrent = t
        /\ begun'[t] = begun[t] + 1
    BY <1>4 DEF Announce, TypeInv, TypeOK
  <2>2. pc'[w] = "increment"
    BY <2>1 DEF Announce, Go, TypeInv, TypeOK
  <2>3. /\ Pending(t) \union {w} \subseteq Pending(t)'
        /\ Incrementing(t) \union {w} \subseteq Incrementing(t)'
    BY <1>1, <1>2, <2>1, <2>2 DEF Pending, Incrementing
  <2>4. Pending(t)' \in SUBSET Workers /\ Incrementing(t)' \in SUBSET Workers
    BY DEF Pending, Incrementing
  <2>5. /\ Cardinality(Pending(t) \union {w}) = Cardinality(Pending(t)) + 1
        /\ Cardinality(Incrementing(t) \union {w}) = Cardinality(Incrementing(t)) + 1
    BY <1>2, DownloadTypes, WorkerSets, FS_AddElement
  <2>6. /\ Cardinality(Pending(t)) + 1 <= Cardinality(Pending(t)')
        /\ Cardinality(Incrementing(t)) + 1 <= Cardinality(Incrementing(t)')
        /\ Cardinality(Pending(t)') \in Nat /\ Cardinality(Incrementing(t)') \in Nat
    BY <2>3, <2>4, <2>5, WorkerSets
  <2> QED
    BY <1>1, <2>1, <2>6, DownloadTypes DEF DownloadInv
<1> QED
  BY <1>3, <1>4

(* An increment counts, or leaves its worker pending. *)
LEMMA IncrementDownloads ==
  ASSUME TypeInv, TypeInv', DownloadInv, NEW w \in Workers, IncrementDownloaded(w)
  PROVE  DownloadInv'
<1> SUFFICES ASSUME faults' = 0, NEW t \in Torrents
             PROVE  /\ t \notin known' =>
                         begun'[t] <= counters'[t].downloaded + Cardinality(Pending(t)')
                    /\ t \in known' => begun'[t] <= counters'[t].downloaded
                         + Cardinality(Incrementing(t)') + Cardinality(Workers)
  BY DEF DownloadInv, Pending, Incrementing
<1>1. /\ UNCHANGED <<known, begun, faults, req>>
      /\ pc[w] = "increment" /\ pc'[w] = "torrent"
      /\ \A v \in Workers \ {w} : pc'[v] = pc[v]
  BY DEF IncrementDownloaded, Go, history, TypeInv, TypeOK
<1>2. Pending(t)' = Pending(t)
  BY <1>1 DEF Pending
<1>3. CASE t = req[w].torrent /\ t \in known
  <2>1. counters'[t].downloaded = counters[t].downloaded + 1
    BY <1>3 DEF IncrementDownloaded, Incremented, TypeInv, TypeOK
  <2>2. w \in Incrementing(t) /\ Incrementing(t)' = Incrementing(t) \ {w}
    BY <1>1, <1>3 DEF Incrementing
  <2>3. Cardinality(Incrementing(t)') = Cardinality(Incrementing(t)) - 1
    BY <2>2, DownloadTypes, WorkerSets, FS_RemoveElement
  <2> QED
    BY <1>1, <1>3, <2>1, <2>3, DownloadTypes DEF DownloadInv
<1>4. CASE ~(t = req[w].torrent /\ t \in known)
  <2>1. counters'[t].downloaded = counters[t].downloaded
    BY <1>4 DEF IncrementDownloaded, Incremented, TypeInv, TypeOK
  <2>2. CASE t \notin known
    BY <1>1, <1>2, <2>1, <2>2, DownloadTypes DEF DownloadInv
  <2>3. CASE t # req[w].torrent
    <3>1. Incrementing(t)' = Incrementing(t)
      BY <1>1, <2>3 DEF Incrementing
    <3> QED
      BY <1>1, <1>2, <2>1, <3>1, TorrentKept
  <2> QED
    BY <1>4, <2>2, <2>3
<1> QED
  BY <1>3, <1>4

(* From the insertion on, those who had missed the row are at most all workers. *)
LEMMA UpsertTorrentDownloads ==
  ASSUME TypeInv, TypeInv', DownloadInv, NEW w \in Workers, UpsertTorrent(w)
  PROVE  DownloadInv'
<1> SUFFICES ASSUME faults' = 0, NEW t \in Torrents
             PROVE  /\ t \notin known' =>
                         begun'[t] <= counters'[t].downloaded + Cardinality(Pending(t)')
                    /\ t \in known' => begun'[t] <= counters'[t].downloaded
                         + Cardinality(Incrementing(t)') + Cardinality(Workers)
  BY DEF DownloadInv, Pending, Incrementing
<1>1. /\ UNCHANGED <<counters, begun, faults, req>>
      /\ pc[w] = "torrent" /\ pc'[w] = "peer"
      /\ \A v \in Workers \ {w} : pc'[v] = pc[v]
      /\ known' = known \union {req[w].torrent}
  BY DEF UpsertTorrent, Go, history, TypeInv, TypeOK
<1>2. Incrementing(t)' = Incrementing(t)
  BY <1>1 DEF Incrementing
<1>3. CASE t = req[w].torrent
  BY <1>1, <1>2, <1>3, DownloadTypes DEF DownloadInv
<1>4. CASE t # req[w].torrent
  <2>1. Pending(t)' = Pending(t)
    BY <1>1, <1>4 DEF Pending
  <2> QED
    BY <1>1, <1>2, <1>4, <2>1, TorrentKept
<1> QED
  BY <1>3, <1>4

(* The other steps of a worker let nobody past the first two statements, or fail. *)
LEMMA WorkerDownloads ==
  ASSUME TypeInv, TypeInv', DownloadInv, NEW w \in Workers,
         HandleRequest(w), ~IncrementDownloaded(w), ~UpsertTorrent(w)
  PROVE  DownloadInv'
<1> USE DEF TypeInv, TypeOK
<1>1. CASE Reject(w)
  <2>1. /\ UNCHANGED <<known, counters, begun, faults>>
        /\ pc[w] = "torrent" /\ ~req[w].accepted
        /\ \A v \in Workers \ {w} : pc'[v] = pc[v] /\ req'[v] = req[v]
    BY <1>1 DEF Reject, Done, tables, history
  <2>2. \A t \in Torrents : /\ Pending(t) \subseteq Pending(t)'
                            /\ Incrementing(t) \subseteq Incrementing(t)'
    BY <2>1 DEF Pending, Incrementing
  <2> HIDE DEF TypeInv, TypeOK
  <2> QED
    BY <2>1, <2>2, DownloadsKept
<1>2. CASE UpsertPeer(w) \/ RemovePeer(w) \/ RefreshTorrentStats(w) \/ GetPeers(w)
           \/ GetTorrentInfo(w)
  <2>1. /\ UNCHANGED <<known, begun, faults>>
        /\ pc[w] \notin {"increment", "torrent"}
        /\ \A v \in Workers \ {w} : pc'[v] = pc[v] /\ req'[v] = req[v]
    BY <1>2 DEF UpsertPeer, RemovePeer, RefreshTorrentStats, GetPeers, GetTorrentInfo,
                Go, Done, tables, history
  <2>2. \A t \in Torrents : counters'[t].downloaded = counters[t].downloaded
    <3>1. CASE RefreshTorrentStats(w)
      BY <3>1 DEF RefreshTorrentStats, Refreshed
    <3>2. CASE UpsertPeer(w) \/ RemovePeer(w) \/ GetPeers(w) \/ GetTorrentInfo(w)
      <4>1. counters' = counters
        BY <3>2 DEF UpsertPeer, RemovePeer, GetPeers, GetTorrentInfo, tables
      <4> QED
        BY <4>1
    <3> QED
      BY <1>2, <3>1, <3>2
  <2>3. \A t \in Torrents : /\ Pending(t) \subseteq Pending(t)'
                            /\ Incrementing(t) \subseteq Incrementing(t)'
    BY <2>1 DEF Pending, Incrementing
  <2> HIDE DEF TypeInv, TypeOK
  <2> QED
    BY <2>1, <2>2, <2>3, DownloadsKept
<1>3. CASE IncrementFails(w) \/ UpdatePeerFails(w) \/ RemovePeerFails(w) \/ RefreshFails(w)
           \/ GetPeersFails(w)
  <2>1. faults' = faults + 1
    BY <1>3 DEF IncrementFails, UpdatePeerFails, RemovePeerFails, RefreshFails,
                GetPeersFails, QueryFails, Fail
  <2> HIDE DEF TypeInv, TypeOK
  <2> QED
    BY <2>1, DownloadsKept
<1> QED
  BY <1>1, <1>2, <1>3 DEF HandleRequest

(* If nothing has failed, MySQL runs nothing late. *)
NoOrphans == faults = 0 => orphans = {}

(* Only what fails leaves MySQL a statement. *)
LEMMA NextOrphans == TypeInv /\ NoOrphans /\ [Next]_vars => NoOrphans'
<1> SUFFICES ASSUME TypeInv, NoOrphans, [Next]_vars PROVE NoOrphans'
  OBVIOUS
<1>1. faults \in Nat
  BY DEF TypeInv, TypeOK
<1>2. Fail => faults' # 0
  BY <1>1 DEF Fail
<1>3. ASSUME NEW w \in Workers, HandleRequest(w) PROVE Fail \/ UNCHANGED <<orphans, faults>>
  BY <1>3 DEF HandleRequest, IncrementDownloaded, IncrementFails, Reject, UpsertTorrent,
       UpsertPeer, UpdatePeerFails, RemovePeer, RemovePeerFails, RefreshTorrentStats,
       RefreshFails, GetPeers, GetPeersFails, GetTorrentInfo, QueryFails
<1>4. ASSUME NEW w \in Workers, NEW r \in Requests, Announce(w, r)
      PROVE  UNCHANGED <<orphans, faults>>
  BY <1>4 DEF Announce
<1>5. CASE Tick \/ CleanupOldPeers \/ CleanupFails \/ Kill \/ Start \/ UNCHANGED vars
  <2>1. Fail \/ UNCHANGED <<orphans, faults>>
    BY <1>5 DEF Tick, CleanupOldPeers, CleanupFails, Kill, Start, vars
  <2> QED
    BY <1>2, <2>1 DEF NoOrphans
<1>6. RunOrphan => UNCHANGED faults /\ orphans # {}
  BY DEF RunOrphan
<1> QED
  BY <1>2, <1>3, <1>4, <1>5, <1>6 DEF Next, NoOrphans

(* Every step keeps the bound on the missed. *)
LEMMA NextDownloads ==
  TypeInv /\ TypeInv' /\ NoOrphans /\ DownloadInv /\ [Next]_vars => DownloadInv'
<1> SUFFICES ASSUME TypeInv, TypeInv', NoOrphans, DownloadInv, [Next]_vars
             PROVE  DownloadInv'
  OBVIOUS
<1>1. ASSUME NEW w \in Workers, HandleRequest(w) PROVE DownloadInv'
  BY <1>1, IncrementDownloads, UpsertTorrentDownloads, WorkerDownloads
<1>2. ASSUME NEW w \in Workers, NEW r \in Requests, Announce(w, r) PROVE DownloadInv'
  BY <1>2, AnnounceDownloads
<1>3. CASE Tick \/ CleanupOldPeers \/ Start \/ UNCHANGED vars
  <2>1. UNCHANGED <<known, counters, begun, faults, pc, req>>
    BY <1>3 DEF Tick, CleanupOldPeers, SleepAgain, Start, vars, tables, threads, history
  <2>2. \A t \in Torrents : Pending(t)' = Pending(t) /\ Incrementing(t)' = Incrementing(t)
    BY <2>1 DEF Pending, Incrementing
  <2> QED
    BY <2>1, <2>2, DownloadsKept
<1>4. CASE CleanupFails \/ Kill
  <2>1. faults' = faults + 1
    BY <1>4 DEF CleanupFails, Kill, Fail
  <2> QED
    BY <2>1, DownloadsKept
<1>5. CASE RunOrphan
  <2>1. faults # 0 /\ faults' = faults
    BY <1>5 DEF RunOrphan, NoOrphans
  <2> QED
    BY <2>1 DEF DownloadInv
<1> QED
  BY <1>1, <1>2, <1>3, <1>4, <1>5 DEF Next

(* Initially nothing was announced. *)
LEMMA InitDownloadInv == Init => DownloadInv
<1> SUFFICES ASSUME Init, NEW t \in Torrents
             PROVE  t \notin known /\ begun[t] <= counters[t].downloaded + Cardinality(Pending(t))
  BY DEF DownloadInv
<1>1. Cardinality(Pending(t)) \in Nat
  BY WorkerSets DEF Pending
<1> QED
  BY <1>1 DEF Init

(***************************************************************************)
(* If no statement fails, at most one completed announce per worker is     *)
(* missed for each torrent, however many are made.                         *)
(***************************************************************************)
THEOREM DownloadsCounted == Spec => []FewDownloadsMissed
<1>1. Spec => []TypeInv
  BY InitTypeInv, NextTypes, PTL DEF Spec
<1>2. TypeInv /\ DownloadInv => FewDownloadsMissed
  <2> SUFFICES ASSUME TypeInv, DownloadInv, faults = 0, NEW t \in Torrents
               PROVE  begun[t] <= counters[t].downloaded + Cardinality(Incrementing(t))
                                    + Cardinality(Workers)
    BY DEF FewDownloadsMissed
  <2> QED
    BY DownloadTypes DEF DownloadInv
<1>3. Init => NoOrphans
  BY DEF Init, NoOrphans
<1> QED
  BY <1>1, <1>2, <1>3, InitDownloadInv, NextOrphans, NextDownloads, PTL DEF Spec
=============================================================================
