----------------------------- MODULE Lifecycle -----------------------------
(***************************************************************************)
(* From the installation of the signal handlers to the destruction of the  *)
(* server: main and signal_handler (src/main.cpp), TrackerServer::start,   *)
(* start_workers, stop and its destructor (src/tracker/tracker_server.cpp),*)
(* HttpServer::start, stop and do_accept (src/api/http_server.cpp), thread *)
(* by thread.                                                              *)
(*                                                                         *)
(* A signal handler runs on top of whatever its thread was doing, which    *)
(* goes on when it returns.  Linux gives a signal of the process to the    *)
(* main thread, unless main is inside a handler and so blocks it: all the  *)
(* signals of a behaviour are the same one, SIGTERM or SIGINT.  The        *)
(* dashboard's static server is disabled, as by default.                   *)
(***************************************************************************)
EXTENDS Naturals, FiniteSets

CONSTANTS
  Main,         \* the main thread, which also runs io_context_
  Workers,      \* worker_threads_vec_, which run it too
  Tasks,        \* threads of task_pool_
  Cleaner,      \* the detached cleanup thread
  MaxSignals,   \* bound: signals
  MaxEvents     \* bound: requests, log lines and cleanups

ASSUME LifecycleAssumption ==
  /\ IsFiniteSet(Workers) /\ IsFiniteSet(Tasks)
  /\ Main \notin Workers \union Tasks \union {Cleaner}
  /\ Cleaner \notin Workers \union Tasks
  /\ Workers \cap Tasks = {}
  /\ MaxSignals \in Nat /\ MaxEvents \in Nat

IoThreads == {Main} \union Workers
Threads   == IoThreads \union Tasks \union {Cleaner}

(* Where main is: the call it is about to make, "run" inside io_context_.run,  *)
(* "closing" once it destroys g_db_manager, "exited" when it has returned (the *)
(* static objects, g_db_manager if it is left, are then destroyed).            *)
MainSteps == {"start", "api", "cleanup", "workers", "run", "teardown", "closing", "exited"}

(***************************************************************************)
(* What a thread is in the middle of:                                      *)
(*   absent, idle, gone                                                    *)
(*   log      it holds the logger's mutex_                                 *)
(*   iolock   it holds the mutex of io_context_'s scheduler, in run() or   *)
(*            in async_accept                                              *)
(*   poollock it holds that of task_pool_'s, in post() or in its own run() *)
(*   make     emplace_back has made a thread and not entered it yet        *)
(*   accept   start_accept has found running_ true and will use acceptor_  *)
(*   post     a handler will use task_pool_: a session's has found         *)
(*            running_ true, the API's accept handler has not looked       *)
(*   request  a task: a tracker request, or an API request that was read   *)
(*   client   a task: blocked in read_until until an API client sends      *)
(*   clean    cleanup_old_peers                                            *)
(***************************************************************************)
Activities == {"absent", "idle", "gone", "log", "iolock", "poollock", "make", "accept",
               "post", "request", "client", "clean"}

(* The next step of signal_handler on a thread; "none" outside it. *)
HandlerSteps == {"none", "log", "api", "test", "close", "stop", "stopio", "join", "joinpool"}

VARIABLES
  main,       \* where main is
  doing,      \* what each thread is doing
  handler,    \* where each thread is in signal_handler
  gRunning,   \* g_running
  running,    \* TrackerServer::running_
  api,        \* g_api_server: "none", "running" or "stopped"
  acceptor,   \* acceptor_ of the tracker: "none", "open" or "reset"
  pool,       \* task_pool_: "up", "stopped" or "reset"
  ioStopped,  \* io_context_ has been stopped
  started,    \* the threads in worker_threads_vec_
  made,       \* the threads start_workers has made
  entering,   \* the one it has made and not entered in the vector yet, if any
  queued,     \* tasks posted and not taken
  signals,    \* signals so far
  events,     \* requests, log lines and cleanups so far
  crash,      \* "none", or how the process has crashed
  victim,     \* the thread that crashed, Main before
  came,       \* history: where main was when the signals came
  stoppers,   \* history: threads that went past the test of stop()
  overlooked  \* history: threads made that stop() did not find in the vector

vector == <<started, made, entering>>
server == <<running, acceptor, pool, ioStopped, vector>>
bounds == <<signals, events>>
ends   == <<crash, victim>>
ghosts == <<came, stoppers, overlooked>>
vars   == <<main, doing, handler, gRunning, server, api, queued, bounds, ends, ghosts>>

Init ==
  /\ main = "start"
  /\ doing = [t \in Threads |-> IF t \in {Main} \union Tasks THEN "idle" ELSE "absent"]
  /\ handler = [t \in Threads |-> "none"]
  /\ gRunning = TRUE
  /\ running = FALSE
  /\ api = "none"
  /\ acceptor = "none"
  /\ pool = "up"
  /\ ioStopped = FALSE
  /\ started = {} /\ made = {} /\ entering = {}
  /\ queued = 0
  /\ signals = 0
  /\ events = 0
  /\ crash = "none" /\ victim = Main
  /\ came = {}
  /\ stoppers = {} /\ overlooked = {}

(* A thread runs its own code: no handler is on top of it. *)
At(t, activity) == handler[t] = "none" /\ doing[t] = activity
Do(t, activity) == doing' = [doing EXCEPT ![t] = activity]

MainAt(step) == main = step /\ At(Main, "idle")

(* Nobody holds a mutex: the logger's, or a scheduler's. *)
Free(lock) == \A t \in Threads : doing[t] # lock

Locks == {"log", "iolock", "poollock"}

Event ==
  /\ events < MaxEvents
  /\ events' = events + 1
  /\ UNCHANGED signals

Crash(t, how) == crash' = how /\ victim' = t

-----------------------------------------------------------------------------
(* main *)

(* TrackerServer::start, up to the use of acceptor_ by its start_accept. *)
StartServer ==
  /\ MainAt("start")
  /\ acceptor' = "open"
  /\ running' = TRUE
  /\ Do(Main, "accept")
  /\ main' = "api"
  /\ UNCHANGED <<handler, gRunning, pool, ioStopped, vector, api, queued, bounds, ends,
                 ghosts>>

(* start() of the tracker or the API returns false, its port in use, say:  *)
(* return 1, with g_server never deleted.                                  *)
StartFails ==
  /\ main \in {"start", "api"} /\ At(Main, "idle")
  /\ main' = "exited"
  /\ UNCHANGED <<doing, handler, gRunning, server, api, queued, bounds, ends, ghosts>>

StartApi ==
  /\ MainAt("api")
  /\ api' = "running"
  /\ main' = "cleanup"
  /\ UNCHANGED <<doing, handler, gRunning, server, queued, bounds, ends, ghosts>>

StartCleanup ==
  /\ MainAt("cleanup")
  /\ Do(Cleaner, "idle")
  /\ main' = "workers"
  /\ UNCHANGED <<handler, gRunning, server, api, queued, bounds, ends, ghosts>>

(***************************************************************************)
(* start_workers, one thread at a time: emplace_back makes the thread, and *)
(* then counts it in the vector.  A stop() between the two has emptied the *)
(* vector meanwhile, and the new entry may be lost; one on another thread  *)
(* uses the vector at the same time, which is undefined.                   *)
(***************************************************************************)
StartWorker(t) ==
  /\ MainAt("workers")
  /\ t \in Workers \ made
  /\ made' = made \union {t}
  /\ entering' = {t}
  /\ doing' = [doing EXCEPT ![t] = "idle", ![Main] = "make"]
  /\ UNCHANGED <<main, handler, gRunning, running, acceptor, pool, ioStopped, started, api,
                 queued, bounds, ends, ghosts>>

EnterWorker(t) ==
  /\ At(Main, "make")
  /\ t \in entering
  /\ entering' = {}
  /\ \/ started' = started \union {t}
     \/ t \in overlooked /\ started' = started
  /\ \/ UNCHANGED ends
     \/ (\E u \in Threads : handler[u] = "join") /\ Crash(Main, "join")
  /\ Do(Main, "idle")
  /\ UNCHANGED <<main, handler, gRunning, running, acceptor, pool, ioStopped, made, api,
                 queued, bounds, ghosts>>

(* start_workers returns, main logs and calls run(). *)
Run ==
  /\ MainAt("workers")
  /\ made = Workers
  /\ main' = "run"
  /\ UNCHANGED <<doing, handler, gRunning, server, api, queued, bounds, ends, ghosts>>

(* io_context_.run returns. *)
RunReturns ==
  /\ MainAt("run")
  /\ ioStopped
  /\ Free("iolock")
  /\ main' = "teardown"
  /\ UNCHANGED <<doing, handler, gRunning, server, api, queued, bounds, ends, ghosts>>

(* g_api_server, then g_rest_api, are gone and g_db_manager is next. *)
Teardown ==
  /\ MainAt("teardown")
  /\ main' = "closing"
  /\ gRunning' = FALSE
  /\ UNCHANGED <<doing, handler, server, api, queued, bounds, ends, ghosts>>

(***************************************************************************)
(* delete g_server.  The destructor's stop() has nothing to do, or main    *)
(* would still be in io_context_.run, so a thread left joinable in         *)
(* worker_threads_vec_ calls std::terminate.  A handler still running on   *)
(* another thread may use the deleted server.                              *)
(***************************************************************************)
DeleteServer ==
  /\ MainAt("closing")
  /\ main' = "exited"
  /\ \/ started # {} /\ Crash(Main, "terminate")
     \/ (\E t \in Threads : handler[t] # "none") /\ Crash(Main, "delete")
     \/ started = {} /\ UNCHANGED ends
  /\ UNCHANGED <<doing, handler, gRunning, server, api, queued, bounds, ghosts>>

-----------------------------------------------------------------------------
(* Handlers on the threads of io_context_ *)

OnIo(t) == t \in Workers \/ (t = Main /\ main = "run")

(* run() takes a handler from the queue, under the scheduler's mutex. *)
Handles(t) == OnIo(t) /\ At(t, "idle") /\ ~ ioStopped /\ Free("iolock")

(* handle_accept, to the test in start_accept; one accept is pending. *)
BeginAccept(t) ==
  /\ Handles(t)
  /\ running
  /\ \A u \in IoThreads : doing[u] # "accept"
  /\ Event
  /\ Do(t, "accept")
  /\ UNCHANGED <<main, handler, gRunning, server, api, queued, ends, ghosts>>

(* acceptor_->async_accept, which queues at once a connection that is waiting. *)
EndAccept(t) ==
  /\ At(t, "accept")
  /\ IF acceptor = "reset" THEN Crash(t, "acceptor") ELSE UNCHANGED ends
  /\ \/ Do(t, "idle")
     \/ Free("iolock") /\ Do(t, "iolock")
  /\ UNCHANGED <<main, handler, gRunning, server, api, queued, bounds, ghosts>>

(* handle_read finds is_running(), or the API has accepted a client. *)
BeginPost(t) ==
  /\ Handles(t)
  /\ running \/ api # "none"
  /\ Event
  /\ Do(t, "post")
  /\ UNCHANGED <<main, handler, gRunning, server, api, queued, ends, ghosts>>

(* post(server_->task_pool(), ...), under the mutex of the pool's scheduler. *)
Post(t) ==
  /\ At(t, "post")
  /\ IF pool = "reset" THEN Crash(t, "pool") ELSE UNCHANGED ends
  /\ Free("poollock")
  /\ queued' = queued + 1
  /\ Do(t, "poollock")
  /\ UNCHANGED <<main, handler, gRunning, server, api, bounds, ghosts>>

(* A worker's io_context_.run returns. *)
WorkerEnds(t) ==
  /\ t \in Workers /\ At(t, "idle")
  /\ ioStopped
  /\ Free("iolock")
  /\ Do(t, "gone")
  /\ UNCHANGED <<main, handler, gRunning, server, api, queued, bounds, ends, ghosts>>

-----------------------------------------------------------------------------
(* Threads of task_pool_, the cleanup thread, and the mutexes *)

(* Mutated form of TakeTask: an empty queue is not noticed. *)
TakeFromEmpty(k) ==
  /\ k \in Tasks /\ At(k, "idle")
  /\ pool = "up"
  /\ queued' = queued - 1
  /\ \E activity \in {"request", "client"} : Do(k, activity)
  /\ UNCHANGED <<main, handler, gRunning, server, api, bounds, ends, ghosts>>

TakeTask(k) ==
  /\ k \in Tasks /\ At(k, "idle")
  /\ pool = "up"
  /\ Free("poollock")
  /\ queued > 0
  /\ queued' = queued - 1
  /\ \E activity \in {"request", "client"} : Do(k, activity)
  /\ UNCHANGED <<main, handler, gRunning, server, api, bounds, ends, ghosts>>

(* The API client has sent its request, or gone. *)
ClientSends(k) ==
  /\ At(k, "client")
  /\ \E activity \in {"request", "idle"} : Do(k, activity)
  /\ UNCHANGED <<main, handler, gRunning, server, api, queued, bounds, ends, ghosts>>

EndRequest(k) ==
  /\ At(k, "request")
  /\ Do(k, "idle")
  /\ UNCHANGED <<main, handler, gRunning, server, api, queued, bounds, ends, ghosts>>

(* A stopped pool leaves its queue alone. *)
TaskEnds(k) ==
  /\ k \in Tasks /\ At(k, "idle")
  /\ pool = "stopped"
  /\ Free("poollock")
  /\ Do(k, "gone")
  /\ UNCHANGED <<main, handler, gRunning, server, api, queued, bounds, ends, ghosts>>

(* A task thread that has run stop() itself returns to the pool it has destroyed. *)
ReturnToNoPool(k) ==
  /\ k \in Tasks /\ At(k, "idle")
  /\ pool = "reset"
  /\ UNCHANGED ends \/ Crash(k, "task")
  /\ Do(k, "gone")
  /\ UNCHANGED <<main, handler, gRunning, server, api, queued, bounds, ghosts>>

(* The cleanup thread has slept cleanup_interval. *)
BeginCleanup ==
  /\ At(Cleaner, "idle")
  /\ gRunning
  /\ Event
  /\ Do(Cleaner, "clean")
  /\ UNCHANGED <<main, handler, gRunning, server, api, queued, ends, ghosts>>

EndCleanup ==
  /\ At(Cleaner, "clean")
  /\ Do(Cleaner, "idle")
  /\ UNCHANGED <<main, handler, gRunning, server, api, queued, bounds, ends, ghosts>>

CleanerEnds ==
  /\ At(Cleaner, "idle")
  /\ ~ gRunning
  /\ Do(Cleaner, "gone")
  /\ UNCHANGED <<main, handler, gRunning, server, api, queued, bounds, ends, ghosts>>

(* Any thread logs between two of its other steps. *)
BeginLog(t) ==
  /\ At(t, "idle")
  /\ Free("log")
  /\ Event
  /\ Do(t, "log")
  /\ UNCHANGED <<main, handler, gRunning, server, api, queued, ends, ghosts>>

(* Between two handlers, or two tasks, run() holds its scheduler's mutex. *)
BeginRound(t) ==
  /\ At(t, "idle")
  /\ \/ Handles(t) /\ Do(t, "iolock")
     \/ t \in Tasks /\ pool = "up" /\ Free("poollock") /\ Do(t, "poollock")
  /\ Event
  /\ UNCHANGED <<main, handler, gRunning, server, api, queued, ends, ghosts>>

Unlock(t) ==
  /\ \E lock \in Locks : At(t, lock)
  /\ Do(t, "idle")
  /\ UNCHANGED <<main, handler, gRunning, server, api, queued, bounds, ends, ghosts>>

-----------------------------------------------------------------------------
(* signal_handler and TrackerServer::stop *)

Go(t, step) == handler' = [handler EXCEPT ![t] = step]

(* Where main is, told apart once all the workers have been made. *)
Place == IF main = "workers" /\ made = Workers /\ entering = {} THEN "made" ELSE main

Signal(t) ==
  /\ handler[t] = "none"
  /\ doing[t] \notin {"absent", "gone"}
  /\ t = Main \/ handler[Main] # "none"
  /\ main \notin {"closing", "exited"}
  /\ signals < MaxSignals
  /\ signals' = signals + 1
  /\ Go(t, "log")
  /\ came' = came \union {Place}
  /\ UNCHANGED <<main, doing, gRunning, server, api, queued, events, ends, stoppers,
                 overlooked>>

(* LOG_INFO, which waits for mutex_, and g_running = false. *)
LogSignal(t) ==
  /\ handler[t] = "log"
  /\ Free("log")
  /\ gRunning' = FALSE
  /\ Go(t, "api")
  /\ UNCHANGED <<main, doing, server, api, queued, bounds, ends, ghosts>>

StopApi(t) ==
  /\ handler[t] = "api"
  /\ api' = IF api = "none" THEN "none" ELSE "stopped"
  /\ Go(t, "test")
  /\ UNCHANGED <<main, doing, gRunning, server, queued, bounds, ends, ghosts>>

(* Mutated form of TestRunning: the condition is inverted. *)
TestNotRunning(t) ==
  /\ handler[t] = "test"
  /\ Go(t, IF running THEN "none" ELSE "close")
  /\ stoppers' = IF running THEN stoppers ELSE stoppers \union {t}
  /\ UNCHANGED <<main, doing, gRunning, server, api, queued, bounds, ends, came,
                 overlooked>>

(* if (!running_) return *)
TestRunning(t) ==
  /\ handler[t] = "test"
  /\ Go(t, IF running THEN "close" ELSE "none")
  /\ stoppers' = IF running THEN stoppers \union {t} ELSE stoppers
  /\ UNCHANGED <<main, doing, gRunning, server, api, queued, bounds, ends, came,
                 overlooked>>

CloseAcceptor(t) ==
  /\ handler[t] = "close"
  /\ running' = FALSE
  /\ acceptor' = "reset"
  /\ Go(t, "stop")
  /\ UNCHANGED <<main, doing, gRunning, pool, ioStopped, vector, api, queued, bounds, ends,
                 ghosts>>

(***************************************************************************)
(* task_pool_->stop() and io_context_.stop() wait for the mutex of their   *)
(* scheduler, for ever if the thread the signal interrupted holds it.      *)
(***************************************************************************)
StopTaskPool(t) ==
  /\ handler[t] = "stop"
  /\ pool # "reset" => Free("poollock")
  /\ pool' = IF pool = "reset" THEN "reset" ELSE "stopped"
  /\ Go(t, "stopio")
  /\ UNCHANGED <<main, doing, gRunning, running, acceptor, ioStopped, vector, api, queued,
                 bounds, ends, ghosts>>

(* Mutated form of StopIo: io_context_ is left running. *)
StopNoIo(t) ==
  /\ handler[t] = "stopio"
  /\ Go(t, "join")
  /\ UNCHANGED <<main, doing, gRunning, server, api, queued, bounds, ends, ghosts>>

StopIo(t) ==
  /\ handler[t] = "stopio"
  /\ Free("iolock")
  /\ ioStopped' = TRUE
  /\ Go(t, "join")
  /\ UNCHANGED <<main, doing, gRunning, running, acceptor, pool, vector, api, queued, bounds,
                 ends, ghosts>>

(* Mutated form of JoinWorkers: the workers are not joined. *)
JoinNoWorkers(t) ==
  /\ handler[t] = "join"
  /\ Go(t, "joinpool")
  /\ UNCHANGED <<main, doing, gRunning, server, api, queued, bounds, ends, ghosts>>

(***************************************************************************)
(* Joining oneself throws.  So may two threads that join the same one, and *)
(* what happens if another one uses the vector meanwhile is undefined.     *)
(***************************************************************************)
VectorShared(t) ==
  \E u \in Threads \ {t} : handler[u] = "join" \/ (u = Main /\ At(Main, "make"))

JoinWorkers(t) ==
  /\ handler[t] = "join"
  /\ \/ /\ t \in started \/ VectorShared(t)
        /\ Crash(t, "join")
        /\ UNCHANGED <<started, overlooked, handler>>
     \/ /\ t \notin started
        /\ \A u \in started : doing[u] = "gone"
        /\ started' = {}
        /\ overlooked' = overlooked \union entering
        /\ Go(t, "joinpool")
        /\ UNCHANGED ends
  /\ UNCHANGED <<main, doing, gRunning, running, acceptor, pool, ioStopped, made, entering,
                 api, queued, bounds, came, stoppers>>

(* Mutated form of JoinTasks: task_pool_ is not joined. *)
JoinNoTasks(t) ==
  /\ handler[t] = "joinpool"
  /\ pool' = "reset"
  /\ Go(t, "none")
  /\ UNCHANGED <<main, doing, gRunning, running, acceptor, ioStopped, vector, api, queued,
                 bounds, ends, ghosts>>

(* asio does not mind a thread of the pool that joins itself; two joins may collide. *)
JoinTasks(t) ==
  /\ handler[t] = "joinpool"
  /\ \/ /\ \E u \in Threads \ {t} : handler[u] = "joinpool"
        /\ pool # "reset"
        /\ Crash(t, "join")
        /\ UNCHANGED <<pool, handler>>
     \/ /\ pool = "reset" \/ \A k \in Tasks \ {t} : doing[k] = "gone"
        /\ pool' = "reset"
        /\ Go(t, "none")
        /\ UNCHANGED ends
  /\ UNCHANGED <<main, doing, gRunning, running, acceptor, ioStopped, vector, api, queued,
                 bounds, ghosts>>

MainStep ==
  \/ StartServer \/ StartApi \/ StartCleanup
  \/ \E t \in Workers : StartWorker(t) \/ EnterWorker(t)
  \/ Run \/ RunReturns \/ Teardown \/ DeleteServer

(* What a thread does in its own code, however its clients behave. *)
OwnStep(t) ==
  \/ EndAccept(t) \/ Post(t) \/ WorkerEnds(t)
  \/ TakeTask(t) \/ EndRequest(t) \/ TaskEnds(t) \/ ReturnToNoPool(t)
  \/ Unlock(t)

CleanerStep == EndCleanup \/ CleanerEnds

HandlerStep(t) ==
  \/ LogSignal(t) \/ StopApi(t) \/ TestRunning(t)
  \/ CloseAcceptor(t) \/ StopTaskPool(t) \/ StopIo(t) \/ JoinWorkers(t) \/ JoinTasks(t)

(* What nobody has to do: clients, the port, the user. *)
Outside(t) ==
  \/ BeginAccept(t) \/ BeginPost(t) \/ ClientSends(t)
  \/ BeginLog(t) \/ BeginRound(t) \/ Signal(t)

(* The process is running. *)
Alive == crash = "none" /\ main # "exited"

Next ==
  /\ Alive
  /\ \/ MainStep \/ StartFails \/ BeginCleanup \/ CleanerStep
     \/ \E t \in Threads : OwnStep(t) \/ HandlerStep(t) \/ Outside(t)

Spec == Init /\ [][Next]_vars

(***************************************************************************)
(* Every thread that can go on does.  No client has to send anything, no   *)
(* request has to come.                                                    *)
(***************************************************************************)
Fairness ==
  /\ WF_vars(Alive /\ MainStep)
  /\ WF_vars(Alive /\ CleanerStep)
  /\ \A t \in Threads : /\ WF_vars(Alive /\ OwnStep(t))
                        /\ WF_vars(Alive /\ HandlerStep(t))

FairSpec == Spec /\ Fairness

-----------------------------------------------------------------------------
(* Properties *)

TypeOK ==
  /\ main \in MainSteps
  /\ doing \in [Threads -> Activities]
  /\ handler \in [Threads -> HandlerSteps]
  /\ gRunning \in BOOLEAN /\ running \in BOOLEAN /\ ioStopped \in BOOLEAN
  /\ api \in {"none", "running", "stopped"}
  /\ acceptor \in {"none", "open", "reset"}
  /\ pool \in {"up", "stopped", "reset"}
  /\ made \subseteq Workers /\ started \subseteq made
  /\ entering \subseteq made \ started /\ (entering # {} <=> doing[Main] = "make")
  /\ queued \in Nat /\ signals \in Nat /\ events \in Nat
  /\ crash \in {"none", "acceptor", "pool", "join", "terminate", "delete", "task"}
  /\ victim \in Threads
  /\ came \subseteq MainSteps \union {"made"}
  /\ stoppers \subseteq Threads
  /\ overlooked \subseteq made

(***************************************************************************)
(* What main destroys at the end is used by no request: the handlers and   *)
(* tasks that could have ended before, because main itself was in stop().  *)
(* The cleanup thread, which nobody joins, is the exception, and a worker  *)
(* the signal caught between its making and its entry in the vector; and   *)
(* if a second signal makes another thread run stop(), main does not wait. *)
(***************************************************************************)
RequestsEndFirst ==
  main \in {"closing", "exited"} /\ stoppers \subseteq {Main} =>
    /\ \A t \in Workers \ overlooked : doing[t] \notin {"accept", "post", "poollock"}
    /\ \A k \in Tasks : doing[k] \notin {"request", "client"}

(***************************************************************************)
(* task_pool_ is reset after the worker threads are joined, so the only    *)
(* threads that can find it gone are main, inside the handler the signal   *)
(* interrupted, and a worker stop() did not find in the vector; acceptor_  *)
(* is reset before, and any of them can.                                   *)
(***************************************************************************)
PoolOutlivesWorkers == crash = "pool" => victim \in {Main} \union overlooked

(***************************************************************************)
(* The server goes on after a handled signal only if the signal came       *)
(* before running_ was set: stop() has nothing to do then.  It goes on     *)
(* without its cleanup thread.                                             *)
(***************************************************************************)
ServesOn == main = "run" /\ running /\ \A t \in Threads : handler[t] = "none"

OnlyEarlySignalLost == ServesOn /\ ~ gRunning => "start" \in came

(***************************************************************************)
(* delete g_server ends the process by std::terminate, or under a handler  *)
(* that still uses it, only if there was a second signal, or the one there *)
(* was came when the server had started and start_workers was not through: *)
(* stop() has then not found every thread to join, and start_workers goes  *)
(* on to make the others.  Once they are all made, stop() joins them and   *)
(* main goes through run() to a clean end.                                 *)
(***************************************************************************)
DeletedWhole ==
  main = "exited" /\ crash # "none" =>
    signals > 1 \/ came \subseteq {"api", "cleanup", "workers"}

(***************************************************************************)
(* While one signal is handled, no thread main waits for waits for main:   *)
(* who holds the logger's or a scheduler's mutex, a worker stop() joins    *)
(* and a thread of task_pool_ can each go on by themselves, or with what   *)
(* an API client sends.  An idle one ends because what it runs has been    *)
(* stopped, in that order.  If the signal interrupts main while it holds   *)
(* one of these mutexes, or a second one puts another thread in stop(),    *)
(* somebody may wait for himself.                                          *)
(***************************************************************************)
Awaited ==
  {t \in Threads :
     \/ handler[Main] = "log" /\ doing[t] = "log"
     \/ handler[Main] = "stop" /\ doing[t] = "poollock"
     \/ handler[Main] = "stopio" /\ doing[t] = "iolock"
     \/ handler[Main] = "join" /\ t \in started /\ doing[t] # "gone"
     \/ handler[Main] = "joinpool" /\ t \in Tasks /\ doing[t] # "gone"}

GoesOn(t) ==
  /\ handler[t] = "none"
  /\ doing[t] # "absent"
  /\ doing[t] = "idle" => \/ t \in Workers /\ ioStopped
                          \/ t \in Tasks /\ pool = "stopped"

StopNotBlocked ==
  signals = 1 /\ doing[Main] \notin Locks => \A t \in Awaited : GoesOn(t)

(***************************************************************************)
(* A single signal that finds the server running, and main without one of  *)
(* the mutexes the handler takes, ends it: if no API client keeps its      *)
(* connection open silently for ever, main comes to close the database, or *)
(* crashes on the way.                                                     *)
(***************************************************************************)
ClientsSend == \A k \in Tasks : doing[k] = "client" ~> doing[k] # "client"

Alone == signals = 1 /\ handler[Main] = "log" /\ doing[Main] \notin Locks /\ running

SignalEnds ==
  ClientsSend => (Alone ~> (main \in {"closing", "exited"} \/ crash # "none" \/ signals > 1))

=============================================================================
