# Verification of the BitTorrent tracker server

This directory holds TLA+ specifications of the tracker under `src/`, the
configurations that check them with TLC, and theorems about them checked by
TLAPS. Paths below are paths in the repository.

    tlc -workers 4 -config pool_safety.cfg MCConnectionPool   # one run
    tlapm ConnectionPoolProofs.tla                            # its proofs

`PROJECT.json` lists the runs, maps each definition to the lines it models, and
lists the hazards each property is for.

## 1. The system

A client announces itself over HTTP to the tracker port. The tracker reads the
request on an `io_context` thread, hands it to a pool of worker threads, and
there runs a few SQL statements on MySQL connections from a pool. A REST API on
a second port reads the same tables, **on the tracker's own worker pool**. One
more thread deletes peers that have fallen silent.

| Part | Code | State | Operations |
|---|---|---|---|
| Connection pool | `src/database/connection_pool.cpp` | queue of `shared_ptr`s, `mutex_`, `condition_`; the chain of wrappers inside each `shared_ptr` | `initialize`, `get_connection`, `return_connection`, `close_all` |
| Database manager | `src/database/db_manager.cpp` | the tables `torrents` and `peers` | `update_peer`, `remove_peer`, `increment_downloaded`, `refresh_torrent_stats`, `get_peers`, `get_torrent_info`, `cleanup_old_peers`, the counting queries |
| BEP handler | `src/tracker/bep_handler.cpp` | none | `/announce`, `/scrape` |
| Tracker server | `src/tracker/tracker_server.cpp` | `running_`, `active_connections_`, `task_pool_`, the request meter, the sessions | accept, session handlers, `stop`, `get_requests_per_second` |
| API server | `src/api/http_server.cpp`, `rest_api.cpp` | a session on the stack of its thread | accept, blocking read, routing, static files |
| Start-up and shutdown | `src/main.cpp` | the global pointers, `g_running`, the detached cleanup thread | signal handler, cleanup loop, teardown |
| Logger | `src/utils/logger.cpp` | the log file and its generations | log, rotate |
| Config, SQL utilities | `src/utils/` | none after start-up | parsing, validation, escaping |
| Dashboard | `dashboard/src/App.jsx` | the page shown | fetch every ten seconds, next page |
| Schema, scripts | the rest | | |

How the parts interact: sessions and API sessions **share** `task_pool_`;
workers and the cleanup thread **share** the connection pool; workers
communicate through the tables, with no transaction; session handlers call
`TrackerServer` through `active_connections_`; a `shared_ptr`'s **deleter calls
back** into the connection pool, from wherever the last reference dies.

What is hard about it, and what has to be true:

- *Connection pool.* Two mechanisms return each connection, an explicit
  `return_connection` and a custom deleter, and every get wraps the popped
  `shared_ptr` once more. A connection must never be in two places; must not be
  lost on any path but an outage; a waiter must be woken; the nested
  acquisition of `update_peer` must not starve; a deleter must not run under
  the mutex it locks.
- *Announce.* Every statement stands alone: other workers, a failure, or a kill
  may come between any two. The counters shown to clients must be what a count
  of the peers gives; completed downloads must be counted; silent peers must go.
- *Server.* The limit on connections is a counter tested, incremented, loaded
  and decremented in separate steps; every way a session ends must release it
  once; a request that was read must be handled although the API shares the
  threads.
- *Lifecycle.* A signal handler runs on top of any of several threads, joins the
  others and resets what they use; main destroys the rest. A signal must end the
  server, and nothing may be destroyed under a request.
- *Logger.* A rotation is a chain of renames that may fail or be cut by a kill:
  the backups must stay in order and only old ones may go.
- *API.* Each figure of `/api/stats`, and each page of the torrent list, is read at
  a moment of its own, from tables and an order that announces change; the
  request meter is one rate shared by all who ask for it.

## 2. Modules

| Module | What it is |
|---|---|
| `ConnectionPool` | the pool and the pattern in which DBManager uses it |
| `LendingPool` | abstract: what a pool of connections promises |
| `ConnectionPoolProofs` | theorems about `ConnectionPool`: types, exclusion |
| `ConnectionPoolRefinement` | that it implements `LendingPool`, and what can lose a connection |
| `ConnectionPoolWaiting` | that no wakeup is lost, that waiting calls do not hold every connection, and how `close_all` can end |
| `Announce` | announces as SQL statements, the cleanup thread, failures and kills |
| `AnnounceProofs` | theorems about `Announce` |
| `TrackerServer` | accepts, sessions, the counter, the shared task pool |
| `Admission` | abstract: what `max_connections` promises |
| `TrackerServerProofs` | theorems about `TrackerServer`, and that it implements `Admission` |
| `Lifecycle` | signal handler, `stop()`, start-up and teardown of main, thread by thread |
| `LifecycleProofs` | theorems about `Lifecycle` |
| `LogRotation` | the log file and its backups, with failures and kills |
| `LogRotationProofs` | theorems about `LogRotation` |
| `RestApi` | what readers of `/api/stats`, `/api/torrents` and `/api/metrics` see |
| `RestApiProofs` | theorems about `RestApi` |
| `MCConnectionPool`, `MCAnnounce`, `MCTrackerServer`, `MCLifecycle`, `MCRestApi` | the small sets TLC uses |

`ConnectionPool` implements `LendingPool`, and `TrackerServer` implements
`Admission`, each by an `INSTANCE ... WITH` that is checked as a property. The
three detailed modules meet at the boundaries named in section 5: a worker of
`Announce` is a task thread of `TrackerServer`, and each of its statements runs
inside one frame of `ConnectionPool`. `Lifecycle` is the same server seen from its
start and its end: its tasks are those of `TrackerServer`, and where it ends,
`close_all` of `ConnectionPool` begins.

### ConnectionPool

A `shared_ptr` is a **handle** `[conn, depth]`: `depth` is the number of
wrappers between it and the original `shared_ptr`. A wrapper's deleter captures
the handle one below, so a handle keeps alive those of the same connection with
a depth no larger (`KeepsAlive`); `LastRef` says when dropping one runs a
deleter. A **frame** `<<t, 1>>` is a DBManager call of thread `t`, `<<t, 2>>` the
`refresh_torrent_stats` nested in its `update_peer` or `remove_peer`.

| Action | Code |
|---|---|
| `Begin`, `CallRefresh`, `Finish`, `Throw` | a DBManager operation: its get, its nested refresh, its explicit return, an exception of `std::stoi` past the return |
| `Wait`, `SpuriousWake`, `Pop`, `ProbeOk`, `ProbeFails`, `ProbeRelocks` | `get_connection`: the wait loop, the pop, and the ping and reconnect under `mutex_`; the two failures differ in whether the dropped handle was the last reference to a wrapper |
| `Push`, `Notify`, `Drop`, `DropRunsDeleter` | `return_connection`: push under the lock, notify after it, and the death of the caller's own reference afterwards |
| `CloseAll`, `CloseAgain`, `CloseOne`, `CloseRelocks`, `Closed` | `close_all`, which `~DBManager` calls and `~ConnectionPool` calls again |
| `DbDown`, `DbUp` | the MySQL server |

`mutex_` is not a variable: it is held exactly while a frame probes or is
stuck, or `close_all` runs (`MutexFree`); the pushes and pops that hold it for
one step are atomic. `Init` is the queue `connect()` leaves: `create_tables` has
used the first connection, so one handle is already a wrapper, at the back.
The pool goes through two `close_all`: `closing` is `"closing"` in the first, `"between"`
while `mutex_` is free and the pool still there, `"again"` in the second. They start
once the threads that `stop()` joins are idle. Two kinds of threads may then still call
(`unjoined`): the cleanup thread, `Detached`, whom nobody joins, and the tasks
that a second signal leaves running (`Abandoned`; `Lifecycle` shows how main gets here
with them). Both may be anywhere in their calls, before, in and between the two.

### Announce

`pc[w]` is the next statement of worker `w`. `Announce` receives a request;
each other worker action is a statement that succeeds or one that fails. What the
handler does with a failure is the code's: update fails, 500; delete, refresh,
select or increment fails, 200 all the same. `mysql_query` also fails when only its reply
is lost: a failed statement may therefore stay in `orphans`, from where `RunOrphan`, MySQL,
runs it at once, later, after a kill, or never; no refresh follows it. `left` is zero, positive or negative
(`std::stoll` takes a negative number, which then counts as neither seeder nor
leecher). A row has an age in ticks since `last_seen`; `Tick` ages all rows and
counts down the cleanup thread's sleep; `CleanupOldPeers` deletes, and does not
refresh any counter. `Kill` ends every worker between two statements, or with one on
its way to MySQL; rows go on ageing while there is no process (`outage` counts these ticks),
and the cleanup thread of the next one (`Start`) sleeps a whole interval first.

`begun`, `counted`, `drifted` and `outage` are history variables: the program does not
have them, no guard reads them, and the properties are stated with them.

### TrackerServer

`session[s]` is the pending handler of a session. `handle_accept` is two steps
(`Accept` tests the counter, `Start` increments it) because decrements of other
sessions fall between; only one accept is ever under way, since the next
`async_accept` is the last thing a handler does. `release_connection` is two
steps (`LoadActive`, `Decrement`), as its load and `fetch_sub` are. `WritePart`
and `WriteRest` are the composed `async_write` whose buffer is a string the
posted handler owned. `tasks` is the queue of `task_pool_`: it mixes tracker
requests with whole API sessions, and an API session that is being read keeps
its thread.

### Lifecycle

`main` is the call main is about to make, `doing[t]` what a thread is in the
middle of, and `handler[t]` where it is in `signal_handler`, which runs **on
top of** `doing[t]`: a thread's own step needs `handler[t] = "none"`.

| Action | Code |
|---|---|
| `StartServer`, `StartFails`, `StartApi`, `StartCleanup`, `StartWorker`, `EnterWorker`, `Run`, `RunReturns`, `Teardown`, `DeleteServer` | main, from `start()` to `delete g_server`; `emplace_back` first makes a thread, then enters it in `worker_threads_vec_` |
| `BeginAccept`, `EndAccept` | `handle_accept` and `start_accept`: the test of `running_`, then the use of `acceptor_` |
| `BeginPost`, `Post` | a session's or the API's handler: the test, then the use of `task_pool_` |
| `TakeTask`, `ClientSends`, `EndRequest`, `TaskEnds`, `WorkerEnds`, `ReturnToNoPool` | the threads of the two pools; the last, a task thread that has run `stop()` itself |
| `BeginCleanup`, `EndCleanup`, `CleanerEnds` | the detached cleanup thread |
| `BeginLog`, `BeginRound`, `Unlock` | a log line, under `mutex_` of the logger; a turn of `run()` between two handlers, under the mutex of asio's scheduler. `EndAccept` and `Post` may take the latter too |
| `Signal`, `LogSignal`, `StopApi` | `signal_handler`, up to `stop()` |
| `TestRunning`, `CloseAcceptor`, `StopTaskPool`, `StopIo`, `JoinWorkers`, `JoinTasks` | `stop()`, statement group by statement group |

What would be a null pointer, `std::system_error` from a join or `std::terminate`
sets `crash`, and the process is over. So may what is undefined: two threads that join
the same one, or use the vector at once (`VectorShared`). A thread of the task pool that joins
its own pool goes on, as asio ignores the error of that join. `came`, `stoppers` and
`overlooked` are history variables: where main was when signals came (`"made"` if it was
still before `run()`, with every worker in the vector), which threads went past the first test
of `stop()`, and the worker `stop()` did not find in the vector because it came between its
making and its entry.

`stop()` calls `task_pool_->stop()` and `io_context_.stop()`, and each locks the mutex of a
scheduler that the interrupted thread may hold (`"poollock"`, `"iolock"`): then it waits for
itself, as with the logger's (`"log"`). The handler also formats, writes to files and frees
memory, under the locks of the C library; these are the same hazard and not in the model.

A signal goes to the main thread, as Linux delivers one sent to the process, and
to another thread only while main is in the handler. All signals of a behaviour
are the same one, which its handler blocks on its own thread; a SIGINT that nests
in the handler of a SIGTERM is left out.

### LogRotation

`file[s]` is the generation of the log in slot `s`, 0 the current file. `log`
holds `mutex_` from end to end, so there is one program counter: `Log` tests the
size and closes a full file, `RemoveOldest`, `Rename` and `Reopen` are the rest of
`rotate_if_needed`, `Write` the line and its flush. Each can fail: the `stat`
(`StatFails`, which skips a rotation that is due), the removal, the renames, the reopening and
the opening of the first file, and the write or flush (`WriteFails`: some of the line may be
in the file, the stream is `bad` from then on and drops what is logged until the file is
opened anew, and `Close` may write what its buffer kept). The code looks at no
result but those of `stat` and `is_open()`. A `close` that fails with nothing to write leaves
nothing different. `Kill` may come between any two steps, and `Restart` is `init` of the next process, which
appends. `cut` counts rotations begun and not completed, `spoilt` the generations a
rename failed to move, `slips` the rotations skipped and writes failed since the current file
was begun; all three are history.

### RestApi

`Count` and `CountFails` are one query of `get_stats`, `CountTorrents` and
`SelectPage` the two of `get_torrents_list_json`, `TotalFails` and `SelectFails` their
failures (the select runs even if the count failed). The dashboard has several requests in
flight (`fetch`): `NextPage`, `PrevPage` and `RefreshPage` begin one, and the timer, unlike the
buttons, does not look at `loading`. `ShowAnswer` takes them in any order: it shows the
answer of whatever page, and enables the buttons whatever else is in flight. `EnterMeter`,
`LoadCount` and `LeaveMeter` are `get_requests_per_second`: the clock, which runs in
fractions of a second there, and its duration cut to whole seconds; the first load; the
second. `TouchTorrent`, `ChangePeer`, `Download` and
`RecordRequest` are what announces do to what is read: every announce moves its
torrent to the front of `ORDER BY updated_at DESC`. The readers of the three
endpoints change nothing for each other, so each behaviour has one endpoint.
`owed` is what a walk through the pages has to show: the torrents of its start
that no announce has touched and that share their second with no other row, whose
order MySQL may choose anew in each query. `strayed` says that the user went on from a page no
answer had shown, `disturbed` that the timer asked with a request in flight or a request
failed; `claimed` is what the rates that were told amount to over the true durations.

## 3. What the runs check

Passing runs:

| Run | Instance | Properties |
|---|---|---|
| `pool_safety` | 3 threads (one the cleanup thread, one perhaps left behind by a second signal), 2 connections, 1 operation each, 1 outage, both `close_all` | `TypeOK`, `ExclusiveUse`, `NoLostWakeup`, `LossNeedsOutage`, `CloseFindsWrapper`, `ImplementsLending` |
| `pool_liveness` | 2 threads (one perhaps left behind), 2 operations each, 3 connections, both `close_all`, no outage | `OperationsEnd`, `NoCircularWait` |
| `announce_safety` | 2 workers, 2 peers, 3 announces, cleanup, no failure | `TypeOK`, `StatsExact`, `FewDownloadsMissed` |
| `announce_recovery` | 2 workers, 1 peer, 2 announces, one failure, lost reply or kill anywhere, 1 tick without a process | `StatsExact`, `AgeBound`, `SilentPeersGo` |
| `server_safety` | 3 connections with a limit of 2, 2 task threads, 1 API client | `TypeOK`, `ActiveExact`, `RequestNotBlocked`, `ImplementsAdmission`, `RequestsHandled` |
| `lifecycle` | main, 1 worker, 1 task thread, the cleanup thread, 2 signals, 3 requests, log lines, turns of `run()` or cleanups | `TypeOK`, `RequestsEndFirst`, `PoolOutlivesWorkers`, `OnlyEarlySignalLost`, `DeletedWhole`, `StopNotBlocked`, `SignalEnds` |
| `log_rotation` | 3 backups, 8 generations, 5 kills or failures, lines of 1 or 2 bytes, a limit of 3 | `TypeOK`, `NewestFirst`, `OnlyOldestMissing`, `NumbersTellAges`, `SizeBounded` |
| `api_readers` | 3 torrents on pages of 1, 2 requests for a page in flight, 2 peers, 2 readers of the meter with a clock of half seconds, 2 changes, 3 requests | `TypeOK`, `FiguresAgree`, `WalkComplete`, `StraysByTimer`, `RateBounded` |

- `ExclusiveUse`: a connection is in one queue slot or with one call, never
  both and never twice. It holds although both the operation and the deleter
  return connections, because what the operation pushes is the wrapper itself.
- `NoLostWakeup`: while a caller sleeps, every queued connection has a
  notification under way or a caller about to pop it.
- `LossNeedsOutage`: outside `close_all` a connection disappears only with a
  frame's reference to an *unwrapped* handle, after an outage.
- `ImplementsLending`: each step of the pool lends, takes back, writes off,
  recovers or disposes of one connection, or changes nothing abstract. The
  recovery is real: a thread that has pushed a wrapper and not yet dropped its own
  reference runs the deleter if another popped it and failed to reconnect.
- `CloseFindsWrapper`: without an outage, and with nobody left but the cleanup thread, one
  of the two `close_all` does not come to its end, unless that thread has the connection that
  `create_tables` used. `pool_shutdown` shows that it may hang; this, that nothing else
  happens. A task that a second signal left running can make the end clean: its query may throw,
  and its deleter return the connection with no wrapper left.
- `NoCircularWait`: when the queue is empty, some call has a connection and waits
  for no other, so the nested acquisition of `update_peer` cannot stop the pool.
- `OperationsEnd`: every operation ends. It needs more connections than threads
  (see below), and a thread somebody joined before `close_all` took the connections away.
- `StatsExact`: a torrent's counters are what a count gives, or a worker has
  still to refresh them, or its peers last changed where nothing refreshes: by age, by the
  cleanup, before a refresh that failed or a kill, or by a statement whose reply was lost.
  The next refresh that succeeds makes them right again. Two workers that interleave their upserts and refreshes never leave it stale.
- `FewDownloadsMissed`: with no failure, the completed announces not counted are
  at most as many per torrent as there are workers: those of its first moments.
- `AgeBound`, `SilentPeersGo`: the age of what is kept and served is bounded by
  `max_peer_age`, an interval, an interval more per failed or postponed
  cleanup, and the time without a process; and a peer that stops announcing goes, even if a delayed announce
  rewrote its row after its `stopped`.
- `ActiveExact`, `ImplementsAdmission`: the counter is the number of sessions
  started and not released, so the limit holds, nobody is released twice, and nobody
  is turned away while there is room.
- `RequestsHandled`: a request that was read is answered or its session closed.
- `RequestNotBlocked`: such a request waits for no API client: while it is queued, a
  thread is at work on a request, or one is idle and the head of the queue is there to be
  taken.
- `RequestsEndFirst`: when main destroys the database manager, no worker that `stop()` found
  in the vector and no task is serving a request, if main alone was in `stop()`. With a second signal on
  another thread it fails: main leaves `io_context_.run` while that thread still waits
  in its joins.
- `PoolOutlivesWorkers`: no worker that `stop()` found in the vector finds `task_pool_` gone.
  Main may: it goes on with the handler the signal interrupted, which has tested `running_`.
- `OnlyEarlySignalLost`: the server goes on after a signal only if it came before
  `running_` was set; it then runs without its cleanup thread.
- `DeletedWhole`: `delete g_server` ends in `std::terminate`, or under a handler
  still running, only after a second signal or one between the start of the server and
  the entry of its last worker: `stop()` has then joined those it found, and `start_workers`
  goes on to make the others. From there on, `main.cpp:149-155` included, a single signal
  leads to a clean end.
- `StopNotBlocked`: with a single signal that meets main without one of the three mutexes,
  no thread `stop()` waits for, at a mutex or a join, waits for main: each is in a step of its
  own, or idle and about to end.
- `SignalEnds`: such a signal, if it finds the server running, ends it, provided that API
  clients do not stay silent for ever.
- `NewestFirst`, `NumbersTellAges`, `OnlyOldestMissing`, `SizeBounded`: the backups are in
  order of age after any failures and kills, and the number of each is its age in
  rotations, give or take one for each of those; a rotation keeps its `backup_count` predecessors less one
  per rotation that was cut short, and less those a failed rename did not move; the log
  outgrows its limit by less than a line, and a line for each rotation that a failed `stat`
  skipped and for each failed write.
- `FiguresAgree`: in one `/api/stats`, seeders and leechers together differ from
  the number of peers by at most two for each peer that changed meanwhile, beside those
  with a negative `left`.
- `WalkComplete`: who has gone to the last page, and from each page only when it was shown,
  has seen every torrent that was there and untouched all along, however the answers of
  overlapping requests come.
- `StraysByTimer`: going on from a page that was not shown takes a timer that asked with a
  request in flight, whose answer enables the buttons, or a request that failed. The code
  allows both, and then an untouched torrent can be missed.
- `RateBounded`: the readers of the meter are together told of no request twice, and some
  requests, those between its two loads, are told to nobody. A rate is too high by
  its truncated second (10 requests in 1.9 s are told as 10 per second); over the
  true durations all rates together amount to less than twice the requests.

Each condition of these was dropped in turn to see that it is needed. For
`RequestsEndFirst` that is `stoppers \subseteq {Main}` and `overlooked`, for `DeletedWhole` both
alternatives, for `SignalEnds` the assumption on clients and main without a mutex; for
`WalkComplete`, failed queries (`guessed`), torrents added between the count and the
select (`grown`), pages left unseen (`strayed`) and rows of the same second; for `StraysByTimer`,
`disturbed`; for `SizeBounded`, `slips`; for `AgeBound`, `outage`; for `CloseFindsWrapper`, the
abandoned tasks.

Runs whose property is **violated**, each a disagreement between the code and
what the repository says of it (`findings` quotes the lines):

| Run | What it shows |
|---|---|
| `pool_outage` / `ReconnectReturns` | after a failed reconnection `return nullptr` drops the popped wrapper under `mutex_`; its deleter locks `mutex_` again and the pool hangs. Every connection used once is a wrapper. |
| `pool_shutdown` / `CloseAllReturns` | `close_all` drops wrappers under `mutex_`; even a server that did nothing has one |
| `announce_completed` / `CompletedCounted` | `increment_downloaded` runs before the torrent has a row |
| `server_response` / `ResponseWritten` | the buffer of `async_write` dies with the handler that started it |

Three more disagreements are plain from the code and need no run: `get_peers` does not
look at `last_seen`, so a peer older than `max_peer_age` is served until the next
cleanup (`AgeBound` says how old it can be); nothing reads `server.connection_timeout`,
so a client that sends nothing keeps its place; and the dashboard labels its active
seeders and leechers "2h", where the queries look back 3600 seconds.

### Bounds

- Pool: three threads on two connections is the smallest instance with a
  waiter, a holder, and a stale reference at once; nested calls make up to six
  frames. The wrapper chain grows by one per get; nothing bounds it but
  `MaxOps`. The proofs have no bound.
- `pool_liveness` has `PoolSize` above the number of threads, and three
  connections for up to four frames, so callers do wait. With as many
  connections as threads, all may hold one and wait for a second, for ever. The
  defaults (`pool_size=20`, `worker_threads=4`) are on the safe side and nothing
  checks a configuration for it: this is the hazard at `db_manager.cpp:187`.
- In `pool_safety` one thread is `Detached`, one `Abandoned` or joined, as `CloseAll`
  chooses, and one joined; about 210,000 states.
- Announce: `announce_safety` has one hour as its tick: `MaxPeerAge = 1`,
  `CleanupInterval = 1` and `StatsWindow = 2`, the defaults of the code. The other two
  runs have `StatsWindow = 3`: peers can be expired and still counted, be cleaned up while they
  are counted, and leave the statistics' window when a cleanup is put off. `MaxOutage = 1` ages
  a row once while there is no process. Ages above `OldestAge` are merged; `AgeBound` shows
  that no row reaches it.
  Workers and peers are interchangeable in `announce_safety` (symmetry); the
  liveness run uses none.
- Server: two task threads and one API client, the condition under which
  `RequestsHandled` is promised. Three sessions and a limit of two exercise
  rejection.
- Lifecycle: a second signal is what puts another thread into `stop()`; a third adds
  nobody new there but a task thread, which behaves alike. One worker beside main is enough to
  be overlooked, joined by another thread, or join itself; that `start_workers` makes several,
  some before and some after a `stop()`, is left to the theorems, which hold for any number of
  both kinds of threads. `MaxEvents = 3` lets one handler be interrupted while a mutex is held and
  another thread serve.
- LogRotation: eight generations push the first ones out of three backups several
  times over; with five faults more rotations can be cut than there are backups, and a
  file can slip several times.
- RestApi: `MaxInt = 2` stands for `INT_MAX` and is exceeded; two changes fit inside one
  request; three pages, two requests in flight and three requests give the dashboard a timer's
  request that is overtaken, an answer of another page on the screen, and a walk to the end.
  With `TicksPerSecond = 2` three half seconds are told as one second, the worst case. No run
  goes beyond `MaxPage`, where the page is clamped: `WalkMissesNone` covers that.

`CHECK_DEADLOCK FALSE` in all but the runs of `Announce`, where time always passes: the
operations, clients and events of an instance run out, and the pool's self-deadlocks are
findings of their own.

### Fairness

- Pool: weak fairness of each started call (`Finish`, `get_connection`,
  `return_connection` of each frame). Strictly `mutex_` promises no thread its
  turn; within `MaxOps` operations the others run out, so weak fairness is
  enough here and nothing stronger is assumed. Nobody has to call, nothing has to fail,
  no spurious wakeup has to come.
- Announce: time passes, the cleanup thread wakes in its tick, started requests are
  served, and a process that ended is started again (`Restart=always` in
  `config/tracker-server.service`). No client has to announce, and MySQL need not run what
  the tracker has given up.
- Server: the server's own threads run. `Accept`, `Read`, the rest of a
  write and the end of an API read depend on clients and have no fairness;
  `Respond` relies on the pool's operations ending (`OperationsEnd`).
- Lifecycle: every thread goes on when it can, inside its handler or outside it. Nothing
  is assumed of signals, ports, incoming requests, log lines or clients; `SignalEnds`
  takes the clients' sending as its hypothesis (`ClientsSend`).

## 4. What is proved

For every value of the constants that satisfies the assumptions. Those are
`PoolAssumption`, `AnnounceAssumption`, `ServerAssumption`, `LogAssumption`,
`LifecycleAssumption` and `ApiAssumption` of the six modules (finite sets, distinct
threads, natural numbers, some intervals and limits not zero). `NoMutualWait` and
`RequestsNotBlocked` each take one more, stated in the theorem: nothing in the code
enforces it, and without it what they say is false.

| Module | Theorem | Statement |
|---|---|---|
| `ConnectionPoolProofs` | `Invariance` | `Spec => []IInv` |
| | `Typing` | `Spec => []TypeOK` |
| | `Exclusion` | `Spec => []ExclusiveUse` |
| `ConnectionPoolRefinement` | `Refinement` | `Spec => ImplementsLending` |
| | `PlacesKept` | until MySQL first fails, every connection is in the queue or with a call |
| | `NoOtherLoss` | `Spec => LossNeedsOutage` |
| `ConnectionPoolWaiting` | `Wakeups` | `Spec => []NoLostWakeup` |
| | `CloseNeverClean` | `Spec => []CloseFindsWrapper` |
| | `NoMutualWait` | `Spec => []NoCircularWait` if `PoolSize > Cardinality(Threads \ Detached)` |
| `AnnounceProofs` | `AnnounceTyping` | `Spec => []TypeOK` |
| | `Statistics` | `Spec => []StatsExact` |
| | `DownloadsCounted` | `Spec => []FewDownloadsMissed` |
| | `AgesBounded` | `Spec => []AgeBound` |
| `TrackerServerProofs` | `CounterInvariance`, `ServerTyping` | the inductive invariant; `Spec => []TypeOK` |
| | `ExactCounter` | `Spec => []ActiveExact` |
| | `LimitHolds` | never more than `max_connections` sessions are open |
| | `AdmissionImplemented` | `Spec => ImplementsAdmission` |
| | `RequestsNotBlocked` | `Spec => []RequestNotBlocked` if `Cardinality(ApiClients) < TaskThreads` |
| `LifecycleProofs` | `LifeInvariance`, `LifeTyping` | the inductive invariant; `Spec => []TypeOK` |
| | `NothingServed` | `Spec => []RequestsEndFirst` |
| | `PoolResetLast` | `Spec => []PoolOutlivesWorkers` |
| | `SignalsNotLost` | `Spec => []OnlyEarlySignalLost` |
| | `DeletionWhole` | `Spec => []DeletedWhole` |
| | `StopGoesOn` | `Spec => []StopNotBlocked` |
| `LogRotationProofs` | `LogInvariance`, `LogTyping` | the inductive invariant; `Spec => []TypeOK` |
| | `FilesInOrder` | `Spec => []NewestFirst` |
| | `LossesBounded` | `Spec => []OnlyOldestMissing` |
| | `NumbersAreAges` | `Spec => []NumbersTellAges` |
| | `LogSizeBounded` | `Spec => []SizeBounded` |
| `RestApiProofs` | `BaseInvariance`, `ApiTyping` | types and the owner of the meter; `Spec => []TypeOK` |
| | `NoRequestTwice` | `Spec => []RateBounded` |
| | `FiguresInvariance`, `StatsAgree` | each figure is close; `Spec => []FiguresAgree` |
| | `WalkMissesNone` | `Spec => []WalkComplete` |
| | `ButtonsWait` | `Spec => []StraysByTimer` |

**The pool.** `ExclusiveUse` is not inductive. A frame that has pushed its handle still refers
to it; if that reference were the last, the deleter would return the connection
one level below, and were the connection in use meanwhile it would then be in
two places. `IInv` adds what rules that out: a frame has a handle exactly while
it should (`HandleInUse`), a refresh runs exactly inside its caller
(`RefreshNested`), a used handle is a wrapper (`UsesWrapper`), and, the heart of
it, wherever the connection of a stale reference is now, it is there under a
handle at least as deep (`StaleBelowQueued`, `StaleBelowOwned`), strictly deeper
while in use, because `Throw` takes one level off. A deeper handle keeps the stale one
alive, so the deleter runs only when the connection is nowhere else.

The proof has one lemma per action that changes a handle, a phase or the queue,
and `NextPreserves` puts them together. `EndedFacts` says what the end of a frame
does to the other phases; `TailFacts` and `AppendFacts` say what a pop and a push
do to the queue.

`ConnectionPoolRefinement` maps each action to a step of `LendingPool` under
`IInv`. `LossNeedsOutage` also needs that, until MySQL first fails, every
connection of an open pool has a place (`LossInv`, stated by `PlacesKept`).

`NoLostWakeup` is inductive together with `IInv`: it compares the queue with the
number of calls that are about to notify or to pop. A push adds one to both sides; a
notification that wakes a sleeper hands its place to that sleeper, and one that
wakes nobody finds nobody asleep; a pop takes one from both; a call goes to sleep
only when the queue is empty.

`NoMutualWait` counts. If the queue is empty and no call is past its wait,
each connection is with an `update_peer` or `remove_peer` that is inside its
refresh (`WaitInv`: only those call it, a refresh calls no other, the cleanup thread
never does, and nothing is stuck before an outage). Mapping each connection to that
thread is one-to-one, so there would be as many such threads as connections.

`CloseNeverClean` follows the connection `create_tables` used, if MySQL has not failed
and nobody but the cleanup thread is left. It is then under a wrapper in the queue and with
whoever has it (`FirstWrapped`): an exception takes off only the level its own get put on,
and no deleter runs in a call before `close_all`. When the first `close_all` begins, the joined threads have
ended and call no more (`WorkersIdle`); from then on it cannot drop the last reference to that
wrapper and go on (`FirstKept`). The cleanup thread may hold the connection across both
calls, and each may take the queue's reference away from under it, so that its own drop runs
a deleter: `FirstStale` says that it has two levels to lose until it has pushed between the
two calls. When the queue is empty at the end (`ClosedEmpty`) only that thread can be left with it.

**Announces.** `StatsExact` needs that a torrent with peers is known
(`KnownFirst`): otherwise the first insertion would create counters of zero beside
peers. Each step either leaves a torrent's peers alone, or leaves its worker at the
refresh, or marks the torrent as drifted; what MySQL runs late marks it if it changed a count.
`AgesBounded` rests on `AgeInv`: the age of a row plus what is left of the cleanup's sleep is
bounded, and each tick takes from the sleep or adds to `outage`. `DownloadsCounted` rests on
`DownloadInv`: until a torrent is known, the announces not counted are those of
workers that have still to insert it, who are at most all the workers; after, every
increment counts.

**The server.** `SInv` relates the counter to the sessions that hold a place
and adds that only one accept is under way (`OneAdmitted`) and that what it tested is still
true when it increments (`RoomForAdmitted`): others only decrement in between.
Nobody is turned away too early, because the counter that `Reject` tests is
exact at that moment. `RequestsNotBlocked` adds that the queue of the task pool holds each
session and API client that waits exactly once and nobody else, so its head can be
taken; and as API clients are fewer than threads, a pool that is full runs a request.

**Start-up and shutdown.** `RequestsEndFirst` says nothing of how main got to the
teardown. `StopOrder` and `Ending` add that: whoever is past the stop of
`io_context_` is in the joins or has reset `task_pool_`, which nobody does before
the workers have ended (`WorkersKnown`: a worker that runs is in the vector that is
joined, about to enter it, or was overlooked) and the tasks have; main alone in `stop()` cannot be in the joins and at
the end of `run()` at once. `SignalKept` follows a signal from its log line to the
test of `running_`, and `Sole` a single signal from the place where it came: from the entry of
the last worker on, it finds them all in the vector and empties it.
`StopGoesOn` adds `Joinable`: what is joined was started, and when `stop()` comes to its
joins both pools have been stopped; and by `Sole` nobody but main is in a handler.

**The log.** `OnlyOldestMissing` is about generations, a rotation about slots.
`Placed` bounds how much further down than its age a generation can be (by one
per cut rotation, and one more for the slots this loop has done), and `Vacated`
says that what a rename replaces has been moved or could not be. `NumbersAreAges`
bounds how far a file can lag behind its age too (`Lag`), more tightly where the next
generation to begin will make it older (`Spare`). `LogSizeBounded` needs that a file about to
be written, or one whose buffer may be written by its close, has room for one more line
(`RoomForLine`).

**The readers.** One reader is in the meter, under `rps_mutex_`, and what it owes and what
has been told never add up to more than was counted (`BaseInv`); a duration of at least one whole
second is less than twice what it is truncated to. A figure of `/api/stats` lies between the number of peers that have been in its
class since the request began and that number plus the peers that changed
(`FiguresClose`); `FiguresAgree` is what those intervals leave open, in whatever order the
peers changed. In a walk, the place of a torrent that is owed only grows: it is behind all
pages that have been shown (`PlacesLater`), behind the page of each answer under way that
does not have it (`AnswersWhole`), and no request is for a page beyond the next (`InOrder`). So
answers may overtake each other, and what is not on the last page shown is behind it, where
its total says there is more (`ShownWhole`). `ButtonsWait` says that without the timer or
a failure one request at a time is in flight, for the page the dashboard is on
(`OneAtATime`).

Only model-checked: liveness (`OperationsEnd`, `SilentPeersGo`, `RequestsHandled`,
`SignalEnds`), which is out of the prover's reach. `NoMutualWait`, `RequestsNotBlocked` and
`StopGoesOn` prove the part of three of them that is an invariant, that nobody waits for
one who waits for him; that whoever can go on does is fairness. Every other property of a
passing run is a theorem. The violated properties are not.

## 5. What is not modelled

- The modules meet by agreement, not by composition: `Announce` assumes that a
  statement may fail (that is what a null connection is to it), and
  `TrackerServer` that a handler returns. `ConnectionPool` discharges the second
  where its pool is larger than its threads.
- `/scrape`, `/api/torrent/`, `/api/peers/` and `/api/health` read, each row
  or list in one statement, and change nothing; `update_torrent_stats` has no caller.
- Of start-up, what runs before the signal handlers are installed, one call after another;
  the built-in static server, off by default. The cleanup thread may use
  `g_db_manager` and the locals of `main` after their end, which nothing prevents:
  `RequestsEndFirst` leaves it out, and `ConnectionPool` shows how both `close_all` meet it.
  What a call does with a pool that is gone has no model.
- The locks of the allocator and of stdio, which `signal_handler` takes as it takes the
  logger's.
- Two different signals: the second one then nests in the first one's handler.
- The configuration loader and the SQL utilities are functions of text without state,
  run before the threads start or inside one call.
- Bencoding, HTTP parsing, SQL escaping and the config parser turn text into
  text; a request is a record, and `accepted` says whether validation takes it.
- MySQL's isolation: each statement is atomic. A lock wait timeout or a
  deadlock in InnoDB is a failed statement.
- The dashboard but for its paging, the deployment scripts, and the tables of the
  schema no code uses.

## 6. Plan

Order of work, the most important behaviour first:

1. *Done.* `ConnectionPool` with `LendingPool`; `Announce`; `TrackerServer`
   with `Admission`; every safety property of theirs that a run checks, proved.
2. *Done.* `Lifecycle`, its safety properties proved.
3. *Done.* `LogRotation`, its properties proved for any `backup_count`.
4. *Done.* `RestApi`: the readers and the request meter, proved for any number of
   peers, torrents and readers.
5. *Done.* The invariant parts of the liveness properties: waiting in the pool, the queue of
   the task pool, the joins of `stop()`.
6. Open: `Lifecycle` with nested signals and the static server; `Lifecycle` and
   `ConnectionPool` composed, so that the detached thread meets `close_all` in one
   state.
