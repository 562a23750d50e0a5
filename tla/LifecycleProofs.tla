-------------------------- MODULE LifecycleProofs --------------------------
(***************************************************************************)
(* Theorems about Lifecycle, for any number of worker and task threads and *)
(* of signals: what main destroys is used by no request, task_pool_        *)
(* outlives the workers, and which signals are lost or end the process     *)
(* badly.                                                                  *)
(*                                                                         *)
(* stop() joins the workers before it resets task_pool_, and main leaves   *)
(* io_context_.run only when it is stopped: StopOrder and Ending.  What a  *)
(* single signal does is followed by Sole from the place where it came.    *)
(***************************************************************************)
EXTENDS Lifecycle, TLAPS

(* Which thread does what. *)
Kinds ==
  /\ doing[Main] \in Locks \union {"idle", "make", "accept", "post"}
  /\ \A t \in Workers : doing[t] \in Locks \union {"absent", "idle", "gone", "accept", "post"}
  /\ \A k \in Tasks : doing[k] \in {"idle", "gone", "log", "poollock", "request", "client"}
  /\ doing[Cleaner] \in {"absent", "idle", "gone", "log", "clean"}

(* Before the workers start nobody serves, and before the server nobody stops. *)
Startup ==
  /\ doing[Main] = "post" => main = "run"
  /\ doing[Main] = "make" => main = "workers"
  /\ main \in {"start", "api", "cleanup"} =>
       /\ \A t \in Workers : doing[t] = "absent"
       /\ queued = 0
       /\ \A k \in Tasks : doing[k] \notin {"request", "client"}
  /\ main = "start" =>
       /\ ~ running /\ ~ ioStopped
       /\ \A t \in Threads : handler[t] \in {"none", "log", "api", "test"}
  /\ main \in {"run", "teardown", "closing"} => made = Workers

(* A worker that runs is in worker_threads_vec_, or stop() has come too soon for it. *)
WorkersKnown ==
  /\ \A t \in Workers : \/ t \in started \union entering \union overlooked
                        \/ doing[t] \in {"absent", "gone"}
  /\ \A t, u \in entering : t = u

NoneServes == \A t \in Workers \ overlooked : doing[t] \notin {"accept", "post", "poollock"}

(* stop() in its order: io_context_, the workers, task_pool_. *)
StopOrder ==
  /\ \A t \in Threads :
       /\ handler[t] \in {"close", "stop", "stopio", "join", "joinpool"} => t \in stoppers
       /\ handler[t] \in {"join", "joinpool"} => ioStopped
       /\ handler[t] = "joinpool" => NoneServes
  /\ pool = "reset" => /\ ioStopped /\ NoneServes
                       /\ \A k \in Tasks \ stoppers : doing[k] = "gone"
  /\ ioStopped =>
       pool = "reset" \/ \E t \in stoppers : handler[t] \in {"join", "joinpool"}
  /\ ioStopped \/ (\E t \in Threads : handler[t] \in {"stop", "stopio"}) => ~ running

(* Main gets to the teardown with io_context_ stopped, by itself or by another. *)
Ending ==
  /\ main \in {"teardown", "closing"} => ioStopped
  /\ main \in {"teardown", "closing"} /\ stoppers \subseteq {Main} => pool = "reset"

(* A signal that was logged is on its way to stop(), or came before the server. *)
SignalKept ==
  /\ main = "start" /\ (~ gRunning \/ \E t \in Threads : handler[t] # "none") =>
       "start" \in came
  /\ running /\ ~ gRunning /\ "start" \notin came =>
       \E t \in Threads : handler[t] \in {"api", "test", "close"}

(* With a single signal, main alone is in the handler. *)
Sole ==
  signals <= 1 =>
    /\ \A t \in Threads \ {Main} : handler[t] = "none"
    /\ stoppers \subseteq {Main}
    /\ signals = 0 => came = {}
    /\ came = {} => handler[Main] = "none"
    /\ handler[Main] # "none" /\ "start" \in came => main = "start"
    /\ came \subseteq {"start"} =>
         ~ ioStopped /\ handler[Main] \in {"none", "log", "api", "test"}
    /\ came \in {{"made"}, {"run"}} =>
         /\ made = Workers /\ entering = {}
         /\ ioStopped => handler[Main] = "join" \/ started = {}
    /\ \/ came \subseteq {"start"} \/ came \subseteq {"api", "cleanup", "workers"}
       \/ came \in {{"made"}, {"run"}}

(* The inductive invariant. *)
LInv ==
  /\ TypeOK /\ Kinds /\ Startup /\ WorkersKnown /\ StopOrder /\ Ending /\ SignalKept /\ Sole
  /\ RequestsEndFirst /\ PoolOutlivesWorkers /\ DeletedWhole

(* Every step keeps the types. *)
LEMMA LifeTyped ==
  ASSUME LInv, Next
  PROVE  TypeOK'
<1> USE LifecycleAssumption DEF LInv, TypeOK, Threads, IoThreads, Activities, MainSteps,
         HandlerSteps, At, Do, Go, MainAt, Crash, server, vector, bounds, ends, ghosts
<1>1. CASE StartServer
  BY <1>1 DEF StartServer
<1>2. CASE StartFails
  BY <1>2 DEF StartFails
<1>3. CASE StartApi
  BY <1>3 DEF StartApi
<1>4. CASE StartCleanup
  BY <1>4 DEF StartCleanup
<1>5. ASSUME NEW t \in Workers, StartWorker(t)  PROVE TypeOK'
  BY <1>5 DEF StartWorker
<1>6. CASE Run
  BY <1>6 DEF Run
<1>7. CASE RunReturns
  BY <1>7 DEF RunReturns
<1>8. CASE Teardown
  <2>1. gRunning' \in BOOLEAN
    BY <1>8 DEF Teardown
  <2>2. main' \in MainSteps
    BY <1>8 DEF Teardown
  <2> QED
    BY <1>8, <2>1, <2>2 DEF Teardown
<1>9. CASE DeleteServer
  BY <1>9 DEF DeleteServer
<1>10. CASE BeginCleanup
  BY <1>10 DEF BeginCleanup, Event
<1>11. CASE EndCleanup
  BY <1>11 DEF EndCleanup
<1>12. CASE CleanerEnds
  BY <1>12 DEF CleanerEnds
<1>13. ASSUME NEW t \in Threads, BeginAccept(t)  PROVE TypeOK'
  BY <1>13 DEF BeginAccept, Event, Handles, OnIo
<1>14. ASSUME NEW t \in Threads, EndAccept(t)  PROVE TypeOK'
  BY <1>14 DEF EndAccept
<1>15. ASSUME NEW t \in Threads, BeginPost(t)  PROVE TypeOK'
  BY <1>15 DEF BeginPost, Event, Handles, OnIo
<1>16. ASSUME NEW t \in Threads, Post(t)  PROVE TypeOK'
  BY <1>16 DEF Post
<1>17. ASSUME NEW t \in Threads, WorkerEnds(t)  PROVE TypeOK'
  BY <1>17 DEF WorkerEnds
<1>18. ASSUME NEW t \in Threads, TakeTask(t)  PROVE TypeOK'
  BY <1>18 DEF TakeTask
<1>19. ASSUME NEW t \in Threads, ClientSends(t)  PROVE TypeOK'
  BY <1>19 DEF ClientSends
<1>20. ASSUME NEW t \in Threads, EndRequest(t)  PROVE TypeOK'
  BY <1>20 DEF EndRequest
<1>21. ASSUME NEW t \in Threads, TaskEnds(t)  PROVE TypeOK'
  BY <1>21 DEF TaskEnds
<1>22. ASSUME NEW t \in Threads, BeginLog(t)  PROVE TypeOK'
  BY <1>22 DEF BeginLog, Event, Free
<1>23. ASSUME NEW t \in Threads, Unlock(t)  PROVE TypeOK'
  BY <1>23 DEF Unlock, Locks
<1>24. ASSUME NEW t \in Threads, Signal(t)  PROVE TypeOK'
  BY <1>24 DEF Signal, Place
<1>25. ASSUME NEW t \in Threads, LogSignal(t)  PROVE TypeOK'
  <2>1. doing' = doing /\ handler' \in [Threads -> HandlerSteps]
    BY <1>25 DEF LogSignal
  <2>2. gRunning' \in BOOLEAN
    BY <1>25 DEF LogSignal
  <2> QED
    BY <1>25, <2>1, <2>2 DEF LogSignal
<1>26. ASSUME NEW t \in Threads, StopApi(t)  PROVE TypeOK'
  BY <1>26 DEF StopApi
<1>27. ASSUME NEW t \in Threads, TestRunning(t)  PROVE TypeOK'
  BY <1>27 DEF TestRunning
<1>28. ASSUME NEW t \in Threads, CloseAcceptor(t)  PROVE TypeOK'
  <2>1. doing' = doing /\ handler' \in [Threads -> HandlerSteps]
    BY <1>28 DEF CloseAcceptor
  <2>2. running' \in BOOLEAN
    BY <1>28 DEF CloseAcceptor
  <2> QED
    BY <1>28, <2>1, <2>2 DEF CloseAcceptor
<1>29. ASSUME NEW t \in Threads, StopTaskPool(t)  PROVE TypeOK'
  BY <1>29 DEF StopTaskPool
<1>30. ASSUME NEW t \in Threads, JoinWorkers(t)  PROVE TypeOK'
  BY <1>30 DEF JoinWorkers
<1>31. ASSUME NEW t \in Threads, JoinTasks(t)  PROVE TypeOK'
  BY <1>31 DEF JoinTasks
<1>32. ASSUME NEW t \in Workers, EnterWorker(t)  PROVE TypeOK'
  BY <1>32 DEF EnterWorker
<1>33. ASSUME NEW t \in Threads, ReturnToNoPool(t)  PROVE TypeOK'
  BY <1>33 DEF ReturnToNoPool
<1>34. ASSUME NEW t \in Threads, BeginRound(t)  PROVE TypeOK'
  BY <1>34 DEF BeginRound, Handles, OnIo, Event
<1>35. ASSUME NEW t \in Threads, StopIo(t)  PROVE TypeOK'
  BY <1>35 DEF StopIo
<1> QED
  BY <1>1, <1>2, <1>3, <1>4, <1>5, <1>6, <1>7, <1>8, <1>9, <1>10, <1>11, <1>12, <1>13,
     <1>14, <1>15, <1>16, <1>17, <1>18, <1>19, <1>20, <1>21, <1>22, <1>23, <1>24, <1>25,
     <1>26, <1>27, <1>28, <1>29, <1>30, <1>31, <1>32, <1>33, <1>34, <1>35
     DEF Next, MainStep, CleanerStep, OwnStep, HandlerStep, Outside

(* A thread only does what is its kind's to do. *)
LEMMA KindsKept ==
  ASSUME LInv, Next
  PROVE  Kinds'
<1> USE LifecycleAssumption DEF LInv, TypeOK, Threads, IoThreads, Kinds, Locks, At, Do, Go,
         MainAt, Crash, server, vector, bounds, ends, ghosts
<1>1. CASE StartServer
  BY <1>1 DEF StartServer
<1>2. CASE StartCleanup
  BY <1>2 DEF StartCleanup
<1>3. ASSUME NEW t \in Workers, StartWorker(t)  PROVE Kinds'
  BY <1>3 DEF StartWorker
<1>4. CASE BeginCleanup
  BY <1>4 DEF BeginCleanup, Event
<1>5. CASE EndCleanup
  BY <1>5 DEF EndCleanup
<1>6. CASE CleanerEnds
  BY <1>6 DEF CleanerEnds
<1>7. ASSUME NEW t \in Threads, BeginAccept(t)  PROVE Kinds'
  BY <1>7 DEF BeginAccept, Event, Handles, OnIo
<1>8. ASSUME NEW t \in Threads, EndAccept(t)  PROVE Kinds'
  BY <1>8 DEF EndAccept
<1>9. ASSUME NEW t \in Threads, BeginPost(t)  PROVE Kinds'
  BY <1>9 DEF BeginPost, Event, Handles, OnIo
<1>10. ASSUME NEW t \in Threads, Post(t)  PROVE Kinds'
  BY <1>10 DEF Post
<1>11. ASSUME NEW t \in Threads, WorkerEnds(t)  PROVE Kinds'
  BY <1>11 DEF WorkerEnds
<1>12. ASSUME NEW t \in Threads, TakeTask(t)  PROVE Kinds'
  BY <1>12 DEF TakeTask
<1>13. ASSUME NEW t \in Threads, ClientSends(t)  PROVE Kinds'
  BY <1>13 DEF ClientSends
<1>14. ASSUME NEW t \in Threads, EndRequest(t)  PROVE Kinds'
  BY <1>14 DEF EndRequest
<1>15. ASSUME NEW t \in Threads, TaskEnds(t)  PROVE Kinds'
  BY <1>15 DEF TaskEnds
<1>16. ASSUME NEW t \in Threads, BeginLog(t)  PROVE Kinds'
  BY <1>16 DEF BeginLog, Event, Free
<1>17. ASSUME NEW t \in Threads, Unlock(t)  PROVE Kinds'
  BY <1>17 DEF Unlock, Locks
<1>18. CASE UNCHANGED <<doing>>
  BY <1>18
<1>19. ASSUME NEW t \in Workers, EnterWorker(t)  PROVE Kinds'
  BY <1>19 DEF EnterWorker
<1>20. ASSUME NEW t \in Threads, ReturnToNoPool(t)  PROVE Kinds'
  BY <1>20 DEF ReturnToNoPool
<1>21. ASSUME NEW t \in Threads, BeginRound(t)  PROVE Kinds'
  BY <1>21 DEF BeginRound, Handles, OnIo, Event
<1> QED
  BY <1>1, <1>2, <1>3, <1>4, <1>5, <1>6, <1>7, <1>8, <1>9, <1>10, <1>11, <1>12, <1>13,
     <1>14, <1>15, <1>16, <1>17, <1>18, <1>19, <1>20, <1>21
     DEF Next, MainStep, CleanerStep, OwnStep, HandlerStep, Outside, StartFails, StartApi,
         Run, RunReturns, Teardown, DeleteServer, Signal, LogSignal, StopApi, TestRunning,
         CloseAcceptor, StopTaskPool, JoinWorkers, JoinTasks, StopIo

(* Nothing is served before the workers start. *)
LEMMA StartupKept ==
  ASSUME LInv, Next
  PROVE  Startup'
<1> USE LifecycleAssumption DEF LInv, TypeOK, Threads, IoThreads, Startup, At, Do, Go,
         MainAt, Crash, server, vector, bounds, ends, ghosts
<1>1. CASE StartServer
  BY <1>1 DEF StartServer
<1>2. CASE StartFails
  BY <1>2 DEF StartFails
<1>3. CASE StartApi
  BY <1>3 DEF StartApi
<1>4. CASE StartCleanup
  BY <1>4 DEF StartCleanup
<1>5. ASSUME NEW t \in Workers, StartWorker(t)  PROVE Startup'
  BY <1>5 DEF StartWorker
<1>6. CASE Run
  BY <1>6 DEF Run
<1>7. CASE RunReturns
  BY <1>7 DEF RunReturns
<1>8. CASE Teardown
  BY <1>8 DEF Teardown
<1>9. CASE DeleteServer
  BY <1>9 DEF DeleteServer
<1>10. CASE BeginCleanup
  BY <1>10 DEF BeginCleanup, Event
<1>11. CASE EndCleanup
  BY <1>11 DEF EndCleanup
<1>12. CASE CleanerEnds
  BY <1>12 DEF CleanerEnds
<1>13. ASSUME NEW t \in Threads, BeginAccept(t)  PROVE Startup'
  BY <1>13 DEF BeginAccept, Event, Handles, OnIo
<1>14. ASSUME NEW t \in Threads, EndAccept(t)  PROVE Startup'
  BY <1>14 DEF EndAccept
<1>15. ASSUME NEW t \in Threads, BeginPost(t)  PROVE Startup'
  BY <1>15 DEF BeginPost, Event, Handles, OnIo
<1>16. ASSUME NEW t \in Threads, Post(t)  PROVE Startup'
  BY <1>16 DEF Post, Kinds
<1>17. ASSUME NEW t \in Threads, WorkerEnds(t)  PROVE Startup'
  BY <1>17 DEF WorkerEnds
<1>18. ASSUME NEW t \in Threads, TakeTask(t)  PROVE Startup'
  BY <1>18 DEF TakeTask
<1>19. ASSUME NEW t \in Threads, ClientSends(t)  PROVE Startup'
  BY <1>19 DEF ClientSends
<1>20. ASSUME NEW t \in Threads, EndRequest(t)  PROVE Startup'
  BY <1>20 DEF EndRequest
<1>21. ASSUME NEW t \in Threads, TaskEnds(t)  PROVE Startup'
  BY <1>21 DEF TaskEnds
<1>22. ASSUME NEW t \in Threads, BeginLog(t)  PROVE Startup'
  BY <1>22 DEF BeginLog, Event, Free
<1>23. ASSUME NEW t \in Threads, Unlock(t)  PROVE Startup'
  BY <1>23 DEF Unlock, Locks
<1>24. ASSUME NEW t \in Threads, Signal(t)  PROVE Startup'
  BY <1>24 DEF Signal
<1>25. ASSUME NEW t \in Threads, LogSignal(t)  PROVE Startup'
  BY <1>25 DEF LogSignal, Free
<1>26. ASSUME NEW t \in Threads, StopApi(t)  PROVE Startup'
  BY <1>26 DEF StopApi
<1>27. ASSUME NEW t \in Threads, TestRunning(t)  PROVE Startup'
  BY <1>27 DEF TestRunning
<1>28. ASSUME NEW t \in Threads, CloseAcceptor(t)  PROVE Startup'
  BY <1>28 DEF CloseAcceptor
<1>29. ASSUME NEW t \in Threads, StopTaskPool(t)  PROVE Startup'
  BY <1>29 DEF StopTaskPool
<1>30. ASSUME NEW t \in Threads, JoinWorkers(t)  PROVE Startup'
  BY <1>30 DEF JoinWorkers
<1>31. ASSUME NEW t \in Threads, JoinTasks(t)  PROVE Startup'
  BY <1>31 DEF JoinTasks
<1>32. ASSUME NEW t \in Workers, EnterWorker(t)  PROVE Startup'
  BY <1>32 DEF EnterWorker
<1>33. ASSUME NEW t \in Threads, ReturnToNoPool(t)  PROVE Startup'
  BY <1>33 DEF ReturnToNoPool
<1>34. ASSUME NEW t \in Threads, BeginRound(t)  PROVE Startup'
  BY <1>34 DEF BeginRound, Handles, OnIo, Event
<1>35. ASSUME NEW t \in Threads, StopIo(t)  PROVE Startup'
  BY <1>35 DEF StopIo
<1> QED
  BY <1>1, <1>2, <1>3, <1>4, <1>5, <1>6, <1>7, <1>8, <1>9, <1>10, <1>11, <1>12, <1>13,
     <1>14, <1>15, <1>16, <1>17, <1>18, <1>19, <1>20, <1>21, <1>22, <1>23, <1>24, <1>25,
     <1>26, <1>27, <1>28, <1>29, <1>30, <1>31, <1>32, <1>33, <1>34, <1>35
     DEF Next, MainStep, CleanerStep, OwnStep, HandlerStep, Outside

(* Only threads that have ended are cleared from worker_threads_vec_. *)
LEMMA WorkersKnownKept ==
  ASSUME LInv, Next
  PROVE  WorkersKnown'
<1> USE LifecycleAssumption DEF LInv, TypeOK, Threads, IoThreads, WorkersKnown, At, Do,
         Go, MainAt, Crash, server, vector, bounds, ends, ghosts
<1>1. CASE StartServer
  BY <1>1 DEF StartServer
<1>2. CASE StartCleanup
  BY <1>2 DEF StartCleanup
<1>3. ASSUME NEW t \in Workers, StartWorker(t)  PROVE WorkersKnown'
  BY <1>3 DEF StartWorker
<1>4. CASE BeginCleanup
  BY <1>4 DEF BeginCleanup, Event
<1>5. CASE EndCleanup
  BY <1>5 DEF EndCleanup
<1>6. CASE CleanerEnds
  BY <1>6 DEF CleanerEnds
<1>7. ASSUME NEW t \in Threads, BeginAccept(t)  PROVE WorkersKnown'
  BY <1>7 DEF BeginAccept, Event, Handles, OnIo
<1>8. ASSUME NEW t \in Threads, EndAccept(t)  PROVE WorkersKnown'
  BY <1>8 DEF EndAccept
<1>9. ASSUME NEW t \in Threads, BeginPost(t)  PROVE WorkersKnown'
  BY <1>9 DEF BeginPost, Event, Handles, OnIo
<1>10. ASSUME NEW t \in Threads, Post(t)  PROVE WorkersKnown'
  BY <1>10 DEF Post
<1>11. ASSUME NEW t \in Threads, WorkerEnds(t)  PROVE WorkersKnown'
  BY <1>11 DEF WorkerEnds
<1>12. ASSUME NEW t \in Threads, TakeTask(t)  PROVE WorkersKnown'
  BY <1>12 DEF TakeTask
<1>13. ASSUME NEW t \in Threads, ClientSends(t)  PROVE WorkersKnown'
  BY <1>13 DEF ClientSends
<1>14. ASSUME NEW t \in Threads, EndRequest(t)  PROVE WorkersKnown'
  BY <1>14 DEF EndRequest
<1>15. ASSUME NEW t \in Threads, TaskEnds(t)  PROVE WorkersKnown'
  BY <1>15 DEF TaskEnds
<1>16. ASSUME NEW t \in Threads, BeginLog(t)  PROVE WorkersKnown'
  BY <1>16 DEF BeginLog, Event, Free
<1>17. ASSUME NEW t \in Threads, Unlock(t)  PROVE WorkersKnown'
  BY <1>17 DEF Unlock, Locks
<1>18. ASSUME NEW t \in Threads, JoinWorkers(t)  PROVE WorkersKnown'
  BY <1>18 DEF JoinWorkers
<1>19. CASE UNCHANGED <<doing, started, entering, overlooked>>
  BY <1>19
<1>20. ASSUME NEW t \in Workers, EnterWorker(t)  PROVE WorkersKnown'
  BY <1>20 DEF EnterWorker
<1>21. ASSUME NEW t \in Threads, ReturnToNoPool(t)  PROVE WorkersKnown'
  BY <1>21 DEF ReturnToNoPool
<1>22. ASSUME NEW t \in Threads, BeginRound(t)  PROVE WorkersKnown'
  BY <1>22 DEF BeginRound, Handles, OnIo, Event
<1> QED
  BY <1>1, <1>2, <1>3, <1>4, <1>5, <1>6, <1>7, <1>8, <1>9, <1>10, <1>11, <1>12, <1>13,
     <1>14, <1>15, <1>16, <1>17, <1>18, <1>19, <1>20, <1>21, <1>22
     DEF Next, MainStep, CleanerStep, OwnStep, HandlerStep, Outside, StartFails, StartApi,
         Run, RunReturns, Teardown, DeleteServer, Signal, LogSignal, StopApi, TestRunning,
         CloseAcceptor, StopTaskPool, JoinTasks, StopIo

(* stop() keeps its order, whatever the other threads do. *)
LEMMA StopOrderKept ==
  ASSUME LInv, Next
  PROVE  StopOrder'
<1> USE LifecycleAssumption DEF LInv, TypeOK, Threads, IoThreads, StopOrder, NoneServes,
         At, Do, Go, MainAt, Crash, server, vector, bounds, ends, ghosts
<1>1. CASE StartServer
  BY <1>1 DEF StartServer, Startup
<1>2. CASE StartCleanup
  BY <1>2 DEF StartCleanup
<1>3. ASSUME NEW t \in Workers, StartWorker(t)  PROVE StopOrder'
  BY <1>3 DEF StartWorker
<1>4. CASE BeginCleanup
  BY <1>4 DEF BeginCleanup, Event
<1>5. CASE EndCleanup
  BY <1>5 DEF EndCleanup
<1>6. CASE CleanerEnds
  BY <1>6 DEF CleanerEnds
<1>7. ASSUME NEW t \in Threads, BeginAccept(t)  PROVE StopOrder'
  BY <1>7 DEF BeginAccept, Event, Handles, OnIo, Kinds
<1>8. ASSUME NEW t \in Threads, EndAccept(t)  PROVE StopOrder'
  BY <1>8 DEF EndAccept, Kinds
<1>9. ASSUME NEW t \in Threads, BeginPost(t)  PROVE StopOrder'
  BY <1>9 DEF BeginPost, Event, Handles, OnIo, Kinds
<1>10. ASSUME NEW t \in Threads, Post(t)  PROVE StopOrder'
  BY <1>10 DEF Post, Kinds
<1>11. ASSUME NEW t \in Threads, WorkerEnds(t)  PROVE StopOrder'
  BY <1>11 DEF WorkerEnds
<1>12. ASSUME NEW t \in Threads, TakeTask(t)  PROVE StopOrder'
  BY <1>12 DEF TakeTask, Kinds
<1>13. ASSUME NEW t \in Threads, ClientSends(t)  PROVE StopOrder'
  BY <1>13 DEF ClientSends, Kinds
<1>14. ASSUME NEW t \in Threads, EndRequest(t)  PROVE StopOrder'
  BY <1>14 DEF EndRequest, Kinds
<1>15. ASSUME NEW t \in Threads, TaskEnds(t)  PROVE StopOrder'
  BY <1>15 DEF TaskEnds
<1>16. ASSUME NEW t \in Threads, BeginLog(t)  PROVE StopOrder'
  BY <1>16 DEF BeginLog, Event, Free
<1>17. ASSUME NEW t \in Threads, Unlock(t)  PROVE StopOrder'
  BY <1>17 DEF Unlock, Locks
<1>18. ASSUME NEW t \in Threads, Signal(t)  PROVE StopOrder'
  BY <1>18 DEF Signal
<1>19. ASSUME NEW t \in Threads, LogSignal(t)  PROVE StopOrder'
  BY <1>19 DEF LogSignal, Free
<1>20. ASSUME NEW t \in Threads, StopApi(t)  PROVE StopOrder'
  BY <1>20 DEF StopApi
<1>21. ASSUME NEW t \in Threads, TestRunning(t)  PROVE StopOrder'
  BY <1>21 DEF TestRunning
<1>22. ASSUME NEW t \in Threads, CloseAcceptor(t)  PROVE StopOrder'
  BY <1>22 DEF CloseAcceptor
<1>23. ASSUME NEW t \in Threads, StopTaskPool(t)  PROVE StopOrder'
  BY <1>23 DEF StopTaskPool
<1>24. ASSUME NEW t \in Threads, JoinWorkers(t)  PROVE StopOrder'
  BY <1>24 DEF JoinWorkers, WorkersKnown
<1>25. ASSUME NEW t \in Threads, JoinTasks(t)  PROVE StopOrder'
  BY <1>25 DEF JoinTasks
<1>26. CASE UNCHANGED <<handler, stoppers, ioStopped, doing, pool, running, overlooked>>
  BY <1>26
<1>27. ASSUME NEW t \in Workers, EnterWorker(t)  PROVE StopOrder'
  BY <1>27 DEF EnterWorker
<1>28. ASSUME NEW t \in Threads, ReturnToNoPool(t)  PROVE StopOrder'
  BY <1>28 DEF ReturnToNoPool
<1>29. ASSUME NEW t \in Threads, BeginRound(t)  PROVE StopOrder'
  BY <1>29 DEF BeginRound, Handles, OnIo, Event, Kinds
<1>30. ASSUME NEW t \in Threads, StopIo(t)  PROVE StopOrder'
  BY <1>30 DEF StopIo
<1> QED
  BY <1>1, <1>2, <1>3, <1>4, <1>5, <1>6, <1>7, <1>8, <1>9, <1>10, <1>11, <1>12, <1>13,
     <1>14, <1>15, <1>16, <1>17, <1>18, <1>19, <1>20, <1>21, <1>22, <1>23, <1>24, <1>25,
     <1>26, <1>27, <1>28, <1>29, <1>30
     DEF Next, MainStep, CleanerStep, OwnStep, HandlerStep, Outside, StartFails, StartApi,
         Run, RunReturns, Teardown, DeleteServer

(* Main leaves io_context_.run only once stop() has begun, and its own is over. *)
LEMMA EndingKept ==
  ASSUME LInv, Next
  PROVE  Ending'
<1> USE LifecycleAssumption DEF LInv, TypeOK, Threads, IoThreads, Ending, At, Do, Go,
         MainAt, Crash, server, vector, bounds, ends, ghosts
<1>1. CASE StartServer
  BY <1>1 DEF StartServer
<1>2. CASE StartFails
  BY <1>2 DEF StartFails
<1>3. CASE StartApi
  BY <1>3 DEF StartApi
<1>4. CASE StartCleanup
  BY <1>4 DEF StartCleanup
<1>5. CASE Run
  BY <1>5 DEF Run
<1>6. CASE RunReturns
  BY <1>6 DEF RunReturns, StopOrder
<1>7. CASE Teardown
  BY <1>7 DEF Teardown
<1>8. CASE DeleteServer
  BY <1>8 DEF DeleteServer
<1>9. ASSUME NEW t \in Threads, TestRunning(t)  PROVE Ending'
  BY <1>9 DEF TestRunning
<1>10. ASSUME NEW t \in Threads, StopTaskPool(t)  PROVE Ending'
  BY <1>10 DEF StopTaskPool
<1>11. ASSUME NEW t \in Threads, JoinTasks(t)  PROVE Ending'
  BY <1>11 DEF JoinTasks
<1>12. CASE UNCHANGED <<main, ioStopped, stoppers, pool>>
  BY <1>12
<1>13. ASSUME NEW t \in Threads, StopIo(t)  PROVE Ending'
  BY <1>13 DEF StopIo
<1> QED
  BY <1>1, <1>2, <1>3, <1>4, <1>5, <1>6, <1>7, <1>8, <1>9, <1>10, <1>11, <1>12, <1>13
     DEF Next, MainStep, CleanerStep, OwnStep, HandlerStep, Outside, StartWorker,
         BeginCleanup, EndCleanup, CleanerEnds, BeginAccept, EndAccept, BeginPost, Post,
         WorkerEnds, TakeTask, ClientSends, EndRequest, TaskEnds, BeginLog, Unlock, Signal,
         LogSignal, StopApi, CloseAcceptor, JoinWorkers, Event, EnterWorker, ReturnToNoPool,
         BeginRound

(* The steps of the handler pass a signal on to stop(). *)
LEMMA SignalPassedOn ==
  ASSUME LInv, Next
  PROVE  SignalKept'
<1> USE LifecycleAssumption DEF LInv, TypeOK, Threads, IoThreads, SignalKept, At, Do,
         Go, MainAt, Crash, server, vector, bounds, ends, ghosts
<1>1. CASE StartServer
  BY <1>1 DEF StartServer
<1>2. CASE StartFails
  BY <1>2 DEF StartFails
<1>3. CASE StartApi
  BY <1>3 DEF StartApi
<1>4. CASE StartCleanup
  BY <1>4 DEF StartCleanup
<1>5. CASE Run
  BY <1>5 DEF Run
<1>6. CASE RunReturns
  BY <1>6 DEF RunReturns
<1>7. CASE Teardown
  BY <1>7 DEF Teardown, Ending, StopOrder
<1>8. CASE DeleteServer
  BY <1>8 DEF DeleteServer
<1>9. ASSUME NEW t \in Threads, Signal(t)  PROVE SignalKept'
  BY <1>9 DEF Signal, Place
<1>10. ASSUME NEW t \in Threads, LogSignal(t)  PROVE SignalKept'
  BY <1>10 DEF LogSignal, Free
<1>11. ASSUME NEW t \in Threads, StopApi(t)  PROVE SignalKept'
  BY <1>11 DEF StopApi
<1>12. ASSUME NEW t \in Threads, TestRunning(t)  PROVE SignalKept'
  BY <1>12 DEF TestRunning
<1>13. ASSUME NEW t \in Threads, CloseAcceptor(t)  PROVE SignalKept'
  BY <1>13 DEF CloseAcceptor
<1>14. ASSUME NEW t \in Threads, StopTaskPool(t)  PROVE SignalKept'
  BY <1>14 DEF StopTaskPool
<1>15. ASSUME NEW t \in Threads, JoinWorkers(t)  PROVE SignalKept'
  BY <1>15 DEF JoinWorkers
<1>16. ASSUME NEW t \in Threads, JoinTasks(t)  PROVE SignalKept'
  BY <1>16 DEF JoinTasks
<1>17. CASE UNCHANGED <<main, gRunning, handler, came, running>>
  BY <1>17
<1>18. ASSUME NEW t \in Threads, StopIo(t)  PROVE SignalKept'
  BY <1>18 DEF StopIo
<1> QED
  BY <1>1, <1>2, <1>3, <1>4, <1>5, <1>6, <1>7, <1>8, <1>9, <1>10, <1>11, <1>12, <1>13,
     <1>14, <1>15, <1>16, <1>17, <1>18
     DEF Next, MainStep, CleanerStep, OwnStep, HandlerStep, Outside, StartWorker,
         BeginCleanup, EndCleanup, CleanerEnds, BeginAccept, EndAccept, BeginPost, Post,
         WorkerEnds, TakeTask, ClientSends, EndRequest, TaskEnds, BeginLog, Unlock, Event,
         EnterWorker, ReturnToNoPool, BeginRound

(* A single signal is handled by main, in one piece. *)
LEMMA SoleHandled ==
  ASSUME LInv, Next
  PROVE  Sole'
<1> USE LifecycleAssumption DEF LInv, TypeOK, Threads, IoThreads, Sole, At, Do, Go,
         MainAt, Crash, server, vector, bounds, ends, ghosts
<1>1. CASE StartServer
  BY <1>1 DEF StartServer
<1>2. CASE StartFails
  BY <1>2 DEF StartFails
<1>3. CASE StartApi
  BY <1>3 DEF StartApi
<1>4. CASE StartCleanup
  BY <1>4 DEF StartCleanup
<1>5. ASSUME NEW t \in Workers, StartWorker(t)  PROVE Sole'
  BY <1>5 DEF StartWorker
<1>6. CASE Run
  BY <1>6 DEF Run
<1>7. CASE RunReturns
  BY <1>7 DEF RunReturns
<1>8. CASE Teardown
  BY <1>8 DEF Teardown
<1>9. CASE DeleteServer
  BY <1>9 DEF DeleteServer
<1>10. ASSUME NEW t \in Threads, Signal(t)  PROVE Sole'
  <2>1. CASE signals = 0
    <3>1. came = {} /\ ~ ioStopped /\ \A u \in Threads : handler[u] = "none"
      BY <2>1
    <3>2. t = Main /\ main \in {"start", "api", "cleanup", "workers", "run"}
      BY <1>10, <3>1 DEF Signal, Ending, MainSteps
    <3>3. /\ came' = {Place}
          /\ handler'[Main] = "log" /\ \A u \in Threads \ {Main} : handler'[u] = "none"
          /\ UNCHANGED <<main, stoppers, ioStopped, started, made, entering>> /\ signals' = 1
      BY <1>10, <2>1, <3>1, <3>2 DEF Signal
    <3>4. \/ Place = main /\ main # "run"
          \/ Place \in {"made", "run"} /\ made = Workers /\ entering = {}
      BY <3>2 DEF Place, Startup
    <3> QED
      BY <2>1, <3>1, <3>2, <3>3, <3>4
  <2>2. CASE signals # 0
    BY <1>10, <2>2 DEF Signal
  <2> QED
    BY <2>1, <2>2
<1>11. ASSUME NEW t \in Threads, LogSignal(t)  PROVE Sole'
  BY <1>11 DEF LogSignal, Free
<1>12. ASSUME NEW t \in Threads, StopApi(t)  PROVE Sole'
  BY <1>12 DEF StopApi
<1>13. ASSUME NEW t \in Threads, TestRunning(t)  PROVE Sole'
  BY <1>13 DEF TestRunning, Startup
<1>14. ASSUME NEW t \in Threads, CloseAcceptor(t)  PROVE Sole'
  BY <1>14 DEF CloseAcceptor
<1>15. ASSUME NEW t \in Threads, StopTaskPool(t)  PROVE Sole'
  BY <1>15 DEF StopTaskPool
<1>16. ASSUME NEW t \in Threads, JoinWorkers(t)  PROVE Sole'
  BY <1>16 DEF JoinWorkers
<1>17. ASSUME NEW t \in Threads, JoinTasks(t)  PROVE Sole'
  BY <1>17 DEF JoinTasks
<1>18. CASE UNCHANGED <<signals, handler, stoppers, came, main, ioStopped, started, made,
                       entering>>
  BY <1>18
<1>19. ASSUME NEW t \in Workers, EnterWorker(t)  PROVE Sole'
  BY <1>19 DEF EnterWorker
<1>20. ASSUME NEW t \in Threads, StopIo(t)  PROVE Sole'
  BY <1>20 DEF StopIo
<1> QED
  BY <1>1, <1>2, <1>3, <1>4, <1>5, <1>6, <1>7, <1>8, <1>9, <1>10, <1>11, <1>12, <1>13,
     <1>14, <1>15, <1>16, <1>17, <1>18, <1>19, <1>20
     DEF Next, MainStep, CleanerStep, OwnStep, HandlerStep, Outside, BeginCleanup,
         EndCleanup, CleanerEnds, BeginAccept, EndAccept, BeginPost, Post, WorkerEnds,
         TakeTask, ClientSends, EndRequest, TaskEnds, BeginLog, Unlock, Event,
         ReturnToNoPool, BeginRound

(* Every step keeps RequestsEndFirst. *)
LEMMA RequestsEndFirstKept ==
  ASSUME LInv, Next
  PROVE  RequestsEndFirst'
<1> USE LifecycleAssumption DEF LInv, TypeOK, Threads, IoThreads, RequestsEndFirst, At,
         Do, Go, MainAt, Crash, server, vector, bounds, ends, ghosts
<1>a. Alive
  BY DEF Next
<1>1. CASE StartServer
  BY <1>1 DEF StartServer
<1>2. CASE StartFails
  BY <1>2 DEF StartFails, Startup, Kinds
<1>3. CASE StartApi
  BY <1>3 DEF StartApi
<1>4. CASE StartCleanup
  BY <1>4 DEF StartCleanup, Kinds
<1>5. ASSUME NEW t \in Workers, StartWorker(t)  PROVE RequestsEndFirst'
  BY <1>5 DEF StartWorker
<1>6. CASE Run
  BY <1>6 DEF Run
<1>7. CASE RunReturns
  BY <1>7 DEF RunReturns
<1>8. CASE Teardown
  BY <1>8 DEF Teardown, Kinds, StopOrder, Ending, NoneServes
<1>9. CASE DeleteServer
  BY <1>9 DEF DeleteServer
<1>10. CASE BeginCleanup
  BY <1>10 DEF BeginCleanup, Event
<1>11. CASE EndCleanup
  BY <1>11 DEF EndCleanup
<1>12. CASE CleanerEnds
  BY <1>12 DEF CleanerEnds
<1>13. ASSUME NEW t \in Threads, BeginAccept(t)  PROVE RequestsEndFirst'
  BY <1>13, <1>a DEF BeginAccept, Event, Handles, OnIo, Alive, Ending
<1>14. ASSUME NEW t \in Threads, EndAccept(t)  PROVE RequestsEndFirst'
  BY <1>14 DEF EndAccept
<1>15. ASSUME NEW t \in Threads, BeginPost(t)  PROVE RequestsEndFirst'
  BY <1>15, <1>a DEF BeginPost, Event, Handles, OnIo, Alive, Ending
<1>16. ASSUME NEW t \in Threads, Post(t)  PROVE RequestsEndFirst'
  BY <1>16 DEF Post
<1>17. ASSUME NEW t \in Threads, WorkerEnds(t)  PROVE RequestsEndFirst'
  BY <1>17 DEF WorkerEnds
<1>18. ASSUME NEW t \in Threads, TakeTask(t)  PROVE RequestsEndFirst'
  BY <1>18, <1>a DEF TakeTask, Alive, Ending
<1>19. ASSUME NEW t \in Threads, ClientSends(t)  PROVE RequestsEndFirst'
  BY <1>19 DEF ClientSends
<1>20. ASSUME NEW t \in Threads, EndRequest(t)  PROVE RequestsEndFirst'
  BY <1>20 DEF EndRequest
<1>21. ASSUME NEW t \in Threads, TaskEnds(t)  PROVE RequestsEndFirst'
  BY <1>21 DEF TaskEnds
<1>22. ASSUME NEW t \in Threads, BeginLog(t)  PROVE RequestsEndFirst'
  BY <1>22 DEF BeginLog, Event, Free
<1>23. ASSUME NEW t \in Threads, Unlock(t)  PROVE RequestsEndFirst'
  BY <1>23 DEF Unlock, Locks
<1>24. ASSUME NEW t \in Threads, TestRunning(t)  PROVE RequestsEndFirst'
  BY <1>24 DEF TestRunning
<1>25. CASE UNCHANGED <<main, stoppers, doing>> /\ overlooked \subseteq overlooked'
  BY <1>25
<1>26. ASSUME NEW t \in Workers, EnterWorker(t)  PROVE RequestsEndFirst'
  BY <1>26, <1>a DEF EnterWorker
<1>27. ASSUME NEW t \in Threads, ReturnToNoPool(t)  PROVE RequestsEndFirst'
  BY <1>27, <1>a DEF ReturnToNoPool
<1>28. ASSUME NEW t \in Threads, BeginRound(t)  PROVE RequestsEndFirst'
  BY <1>28, <1>a DEF BeginRound, Handles, OnIo, Event, Alive, Ending
<1> QED
  BY <1>1, <1>2, <1>3, <1>4, <1>5, <1>6, <1>7, <1>8, <1>9, <1>10, <1>11, <1>12, <1>13,
     <1>14, <1>15, <1>16, <1>17, <1>18, <1>19, <1>20, <1>21, <1>22, <1>23, <1>24, <1>25,
     <1>26, <1>27, <1>28
     DEF Next, MainStep, CleanerStep, OwnStep, HandlerStep, Outside, Signal, LogSignal,
         StopApi, CloseAcceptor, StopTaskPool, JoinWorkers, JoinTasks, StopIo

(* Only main can find task_pool_ gone. *)
LEMMA PoolOutlivesWorkersKept ==
  ASSUME LInv, Next
  PROVE  PoolOutlivesWorkers'
<1> USE LifecycleAssumption DEF LInv, TypeOK, Threads, IoThreads, PoolOutlivesWorkers,
         At, Do, Go, MainAt, Crash, server, vector, bounds, ends, ghosts
<1>1. CASE DeleteServer
  BY <1>1 DEF DeleteServer
<1>2. ASSUME NEW t \in Threads, EndAccept(t)  PROVE PoolOutlivesWorkers'
  BY <1>2 DEF EndAccept
<1>3. ASSUME NEW t \in Threads, Post(t)  PROVE PoolOutlivesWorkers'
  BY <1>3 DEF Post, Kinds, StopOrder, NoneServes
<1>4. ASSUME NEW t \in Threads, JoinWorkers(t)  PROVE PoolOutlivesWorkers'
  BY <1>4 DEF JoinWorkers
<1>5. CASE UNCHANGED <<crash, victim, overlooked>>
  BY <1>5
<1>6. ASSUME NEW t \in Workers, EnterWorker(t)  PROVE PoolOutlivesWorkers'
  BY <1>6 DEF EnterWorker
<1>7. ASSUME NEW t \in Threads, ReturnToNoPool(t)  PROVE PoolOutlivesWorkers'
  BY <1>7 DEF ReturnToNoPool
<1>8. ASSUME NEW t \in Threads, JoinTasks(t)  PROVE PoolOutlivesWorkers'
  BY <1>8 DEF JoinTasks
<1> QED
  BY <1>1, <1>2, <1>3, <1>4, <1>5, <1>6, <1>7, <1>8
     DEF Next, MainStep, CleanerStep, OwnStep, HandlerStep, Outside, StartServer,
         StartFails, StartApi, StartCleanup, StartWorker, Run, RunReturns, Teardown,
         BeginCleanup, EndCleanup, CleanerEnds, BeginAccept, BeginPost, WorkerEnds,
         TakeTask, ClientSends, EndRequest, TaskEnds, BeginLog, Unlock, Signal, LogSignal,
         StopApi, TestRunning, CloseAcceptor, StopTaskPool, Event, BeginRound, StopIo

(* Every step keeps DeletedWhole. *)
LEMMA DeletedWholeKept ==
  ASSUME LInv, Next
  PROVE  DeletedWhole'
<1> USE LifecycleAssumption DEF LInv, TypeOK, Threads, IoThreads, DeletedWhole, At, Do,
         Go, MainAt, Crash, server, vector, bounds, ends, ghosts
<1>a. Alive
  BY DEF Next
<1>1. CASE StartServer
  BY <1>1 DEF StartServer
<1>2. CASE StartFails
  BY <1>2, <1>a DEF StartFails, Alive
<1>3. CASE StartApi
  BY <1>3 DEF StartApi
<1>4. CASE StartCleanup
  BY <1>4 DEF StartCleanup
<1>5. CASE Run
  BY <1>5 DEF Run
<1>6. CASE RunReturns
  BY <1>6 DEF RunReturns
<1>7. CASE Teardown
  BY <1>7 DEF Teardown
<1>8. CASE DeleteServer
  BY <1>8, <1>a DEF DeleteServer, Alive, Sole, Ending
<1>9. ASSUME NEW t \in Threads, EndAccept(t)  PROVE DeletedWhole'
  BY <1>9, <1>a DEF EndAccept, Alive
<1>10. ASSUME NEW t \in Threads, Post(t)  PROVE DeletedWhole'
  BY <1>10, <1>a DEF Post, Alive
<1>11. ASSUME NEW t \in Threads, Signal(t)  PROVE DeletedWhole'
  BY <1>11 DEF Signal
<1>12. ASSUME NEW t \in Threads, JoinWorkers(t)  PROVE DeletedWhole'
  BY <1>12, <1>a DEF JoinWorkers, Alive
<1>13. CASE UNCHANGED <<main, crash, signals, came>>
  BY <1>13
<1>14. ASSUME NEW t \in Workers, EnterWorker(t)  PROVE DeletedWhole'
  BY <1>14, <1>a DEF EnterWorker, Alive
<1>15. ASSUME NEW t \in Threads, ReturnToNoPool(t)  PROVE DeletedWhole'
  BY <1>15, <1>a DEF ReturnToNoPool, Alive
<1>16. ASSUME NEW t \in Threads, JoinTasks(t)  PROVE DeletedWhole'
  BY <1>16, <1>a DEF JoinTasks, Alive
<1> QED
  BY <1>1, <1>2, <1>3, <1>4, <1>5, <1>6, <1>7, <1>8, <1>9, <1>10, <1>11, <1>12, <1>13,
     <1>14, <1>15, <1>16
     DEF Next, MainStep, CleanerStep, OwnStep, HandlerStep, Outside, StartWorker,
         BeginCleanup, EndCleanup, CleanerEnds, BeginAccept, BeginPost, WorkerEnds,
         TakeTask, ClientSends, EndRequest, TaskEnds, BeginLog, Unlock, LogSignal, StopApi,
         TestRunning, CloseAcceptor, StopTaskPool, Event, BeginRound, StopIo

(* LInv holds when the signal handlers have been installed. *)
LEMMA LifeInit ==
  ASSUME Init
  PROVE  LInv
<1> USE LifecycleAssumption DEF Init, Threads, IoThreads
<1>1. TypeOK
  BY DEF TypeOK, Activities, MainSteps, HandlerSteps
<1>2. Kinds /\ Startup /\ WorkersKnown
  BY DEF Kinds, Startup, WorkersKnown
<1>3. StopOrder /\ Ending /\ SignalKept
  BY DEF StopOrder, Ending, SignalKept
<1>4. Sole
  BY DEF Sole
<1>5. RequestsEndFirst /\ PoolOutlivesWorkers /\ DeletedWhole
  BY DEF RequestsEndFirst, PoolOutlivesWorkers, DeletedWhole
<1> QED
  BY <1>1, <1>2, <1>3, <1>4, <1>5 DEF LInv

(* A step that changes nothing keeps LInv. *)
LEMMA LifeStutters ==
  ASSUME LInv, UNCHANGED vars
  PROVE  LInv'
<1> USE DEF LInv, vars, server, vector, bounds, ends, ghosts
<1>1. TypeOK' /\ Kinds' /\ Startup' /\ WorkersKnown'
  BY DEF TypeOK, Kinds, Startup, WorkersKnown
<1>2. StopOrder' /\ Ending' /\ SignalKept' /\ Sole'
  BY DEF StopOrder, NoneServes, Ending, SignalKept, Sole
<1>3. RequestsEndFirst' /\ PoolOutlivesWorkers' /\ DeletedWhole'
  BY DEF RequestsEndFirst, PoolOutlivesWorkers, DeletedWhole
<1> QED
  BY <1>1, <1>2, <1>3

(***************************************************************************)
(* The inductive invariant: from signal() in main to its return, stop()    *)
(* keeps its order and main its own, whichever threads the signals reach.  *)
(***************************************************************************)
THEOREM LifeInvariance == Spec => []LInv
<1>1. Init => LInv
  BY LifeInit
<1>2. LInv /\ [Next]_vars => LInv'
  <2> SUFFICES ASSUME LInv, [Next]_vars
               PROVE  LInv'
    OBVIOUS
  <2>1. CASE Next
    BY <2>1, LifeTyped, KindsKept, StartupKept, WorkersKnownKept, StopOrderKept, EndingKept,
       SignalPassedOn, SoleHandled, RequestsEndFirstKept, PoolOutlivesWorkersKept,
       DeletedWholeKept DEF LInv
  <2>2. CASE UNCHANGED vars
    BY <2>2, LifeStutters
  <2> QED
    BY <2>1, <2>2
<1> QED
  BY <1>1, <1>2, PTL DEF Spec

(* Type correctness of the threads, pools and pointers of main.cpp. *)
THEOREM LifeTyping == Spec => []TypeOK
<1>1. LInv => TypeOK
  BY DEF LInv
<1> QED
  BY <1>1, LifeInvariance, PTL

(***************************************************************************)
(* While main alone has been in stop(), no worker and no task uses what    *)
(* main destroys after io_context_.run.                                    *)
(***************************************************************************)
THEOREM NothingServed == Spec => []RequestsEndFirst
<1>1. LInv => RequestsEndFirst
  BY DEF LInv
<1> QED
  BY <1>1, LifeInvariance, PTL

(* stop() resets task_pool_ when no worker can post to it any more. *)
THEOREM PoolResetLast == Spec => []PoolOutlivesWorkers
<1>1. LInv => PoolOutlivesWorkers
  BY DEF LInv
<1> QED
  BY <1>1, LifeInvariance, PTL

(* Only a signal before running_ is set leaves the server running. *)
THEOREM SignalsNotLost == Spec => []OnlyEarlySignalLost
<1>1. LInv => OnlyEarlySignalLost
  BY DEF LInv, SignalKept, OnlyEarlySignalLost, ServesOn
<1> QED
  BY <1>1, LifeInvariance, PTL

(***************************************************************************)
(* delete g_server goes wrong only after a second signal, or one between   *)
(* the start of the server and the return of start_workers.                *)
(***************************************************************************)
THEOREM DeletionWhole == Spec => []DeletedWhole
<1>1. LInv => DeletedWhole
  BY DEF LInv
<1> QED
  BY <1>1, LifeInvariance, PTL

-----------------------------------------------------------------------------
(* Whom main waits for *)

(* What stop() joins has been started, and the pool it joins has been stopped. *)
Joinable ==
  /\ \A t \in made : doing[t] # "absent"
  /\ \A t \in Threads : handler[t] \in {"stopio", "join", "joinpool"} => pool # "up"

(* No thread goes back to where it had not been started. *)
LEMMA StartedForGood ==
  ASSUME LInv, Joinable, Next
  PROVE  \A t \in made' : doing'[t] # "absent"
<1> USE LifecycleAssumption DEF LInv, TypeOK, Threads, IoThreads, Joinable, Locks, At, Do, Go,
         MainAt, server, vector
<1>1. ASSUME NEW t \in Workers, StartWorker(t) \/ EnterWorker(t)
      PROVE  \A u \in made' : doing'[u] # "absent"
  BY <1>1 DEF StartWorker, EnterWorker
<1>2. CASE StartServer \/ StartCleanup \/ EndCleanup \/ CleanerEnds \/ BeginCleanup
  BY <1>2 DEF StartServer, StartCleanup, EndCleanup, CleanerEnds, BeginCleanup
<1>3. ASSUME NEW t \in Threads, OwnStep(t)
      PROVE  \A u \in made' : doing'[u] # "absent"
  BY <1>3 DEF OwnStep, EndAccept, Post, WorkerEnds, TakeTask, EndRequest, TaskEnds,
              ReturnToNoPool, Unlock
<1>4. ASSUME NEW t \in Threads, Outside(t)
      PROVE  \A u \in made' : doing'[u] # "absent"
  BY <1>4 DEF Outside, BeginAccept, BeginPost, ClientSends, BeginLog, BeginRound, Signal
<1>5. CASE UNCHANGED <<doing, made>>
  BY <1>5
<1> QED
  BY <1>1, <1>2, <1>3, <1>4, <1>5
     DEF Next, MainStep, CleanerStep, HandlerStep, StartFails, StartApi, Run, RunReturns,
         Teardown, DeleteServer, LogSignal, StopApi, TestRunning, CloseAcceptor,
         StopTaskPool, StopIo, JoinWorkers, JoinTasks

(* Nothing starts task_pool_ again, and stop() comes to its joins through StopTaskPool. *)
LEMMA PoolStaysDown ==
  ASSUME LInv, Joinable, Next
  PROVE  \A t \in Threads : handler'[t] \in {"stopio", "join", "joinpool"} => pool' # "up"
<1> USE DEF LInv, TypeOK, Joinable, Go, server, vector
<1> DEFINE Down == \A u \in Threads : handler[u] \in {"stopio", "join", "joinpool"} => pool # "up"
<1>1. ASSUME NEW t \in Threads, StopTaskPool(t)  PROVE Down'
  BY <1>1 DEF StopTaskPool
<1>2. ASSUME NEW t \in Threads, JoinTasks(t)  PROVE Down'
  BY <1>2 DEF JoinTasks
<1>3. ASSUME NEW t \in Threads, StopIo(t) \/ JoinWorkers(t)  PROVE Down'
  BY <1>3 DEF StopIo, JoinWorkers
<1>4. ASSUME NEW t \in Threads,
             \/ Signal(t) \/ LogSignal(t) \/ StopApi(t) \/ TestRunning(t) \/ CloseAcceptor(t)
      PROVE  Down'
  BY <1>4 DEF Signal, LogSignal, StopApi, TestRunning, CloseAcceptor
<1>5. CASE UNCHANGED <<handler, pool>>
  BY <1>5
<1> QED
  BY <1>1, <1>2, <1>3, <1>4, <1>5
     DEF Next, MainStep, CleanerStep, OwnStep, HandlerStep, Outside, StartServer,
         StartFails, StartApi, StartCleanup, StartWorker, EnterWorker, Run, RunReturns,
         Teardown, DeleteServer, BeginCleanup, EndCleanup, CleanerEnds, BeginAccept,
         EndAccept, BeginPost, Post, WorkerEnds, TakeTask, ClientSends, EndRequest,
         TaskEnds, ReturnToNoPool, BeginLog, BeginRound, Unlock

(* Whom main waits for is in no handler, and has something to do or to end. *)
LEMMA AwaitedGoOn ==
  ASSUME LInv, Joinable
  PROVE  StopNotBlocked
<1> USE LifecycleAssumption DEF LInv, TypeOK, Threads, IoThreads, Locks
<1> SUFFICES ASSUME signals = 1, doing[Main] \notin Locks, NEW t \in Awaited
             PROVE  GoesOn(t)
  BY DEF StopNotBlocked
<1>1. t \in Threads \ {Main}
  BY DEF Awaited
<1>2. handler[t] = "none" /\ stoppers \subseteq {Main}
  BY <1>1 DEF Sole
<1>3. CASE doing[t] \in Locks
  BY <1>2, <1>3 DEF GoesOn
<1>4. CASE handler[Main] = "join" /\ t \in started
  BY <1>2, <1>4 DEF GoesOn, Joinable, StopOrder
<1>5. CASE handler[Main] = "joinpool" /\ t \in Tasks /\ doing[t] # "gone"
  BY <1>2, <1>5 DEF GoesOn, Joinable, StopOrder, Kinds
<1> QED
  BY <1>3, <1>4, <1>5 DEF Awaited

(***************************************************************************)
(* For any number of workers and tasks: a single signal that does not find *)
(* main with a mutex of the logger or of asio makes main wait for nobody   *)
(* who waits for main.  What SignalEnds needs beyond it is fairness.       *)
(***************************************************************************)
THEOREM StopGoesOn == Spec => []StopNotBlocked
<1>1. Init => Joinable
  BY DEF Init, Joinable
<1>2. LInv /\ Joinable /\ [Next]_vars => Joinable'
  <2> SUFFICES ASSUME LInv, Joinable, [Next]_vars
               PROVE  Joinable'
    OBVIOUS
  <2>1. CASE Next
    BY <2>1, StartedForGood, PoolStaysDown DEF Joinable
  <2>2. CASE UNCHANGED vars
    BY <2>2 DEF Joinable, vars, server, vector
  <2> QED
    BY <2>1, <2>2
<1>3. LInv /\ Joinable => StopNotBlocked
  BY AwaitedGoOn
<1> QED
  BY <1>1, <1>2, <1>3, LifeInvariance, PTL DEF Spec

=============================================================================
