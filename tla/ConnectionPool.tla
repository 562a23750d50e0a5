--------------------------- MODULE ConnectionPool ---------------------------
(***************************************************************************)
(* The MySQL connection pool (src/database/connection_pool.cpp) as the     *)
(* operations of DBManager (src/database/db_manager.cpp) use it.           *)
(*                                                                         *)
(* get_connection wraps the popped shared_ptr in a fresh shared_ptr whose  *)
(* custom deleter captures the popped one and calls return_connection.     *)
(* Every DBManager operation also calls return_connection itself, which    *)
(* pushes the WRAPPER, so the deleter does not run and the next            *)
(* get_connection wraps the wrapper.  A shared_ptr is therefore modelled   *)
(* as a handle: the connection it points to and its depth, the number of   *)
(* wrappers around the original shared_ptr (depth 0).  A handle of depth n *)
(* keeps the handles of the same connection with a smaller depth alive.    *)
(*                                                                         *)
(* A call of get_connection that has not returned its connection is a      *)
(* frame <<t, level>> of thread t: level 1 is the DBManager operation,     *)
(* level 2 the refresh_torrent_stats that update_peer and remove_peer call *)
(* while they still hold their own connection.                             *)
(***************************************************************************)
EXTENDS Naturals, Sequences, FiniteSets

CONSTANTS
  Threads,     \* the threads that call DBManager: task pool threads, cleanup
  Detached,    \* those nobody ever joins: the cleanup thread
  Abandoned,   \* those a second signal may leave running under ~DBManager
  PoolSize,    \* pool_size_
  MaxOps,      \* bound: DBManager operations one thread starts
  MaxOutages   \* bound: times MySQL becomes unreachable

ASSUME PoolAssumption ==
  /\ IsFiniteSet(Threads)
  /\ Detached \subseteq Threads
  /\ Abandoned \subseteq Threads
  /\ PoolSize \in Nat \ {0}
  /\ MaxOps \in Nat
  /\ MaxOutages \in Nat

Conns  == 1 .. PoolSize
Frames == Threads \X {1, 2}
Outer(t) == <<t, 1>>
Inner(t) == <<t, 2>>

(* A handle of connection 0 stands for a null shared_ptr. *)
Handles == [conn : 0 .. PoolSize, depth : Nat]
Null    == [conn |-> 0, depth |-> 0]

(***************************************************************************)
(*   lock    wants mutex_ in get_connection                                *)
(*   wait    blocked in condition_.wait                                    *)
(*   probe   holds mutex_: is_connected and connect on the popped handle   *)
(*   use     get_connection has returned: SQL runs on the connection       *)
(*   call    update_peer or remove_peer is inside refresh_torrent_stats    *)
(*   return  wants mutex_ in return_connection, called by the operation or *)
(*           by the deleter                                                *)
(*   notify  has pushed and unlocked, is about to notify_one               *)
(*   drop    is about to destroy its reference to the handle it pushed     *)
(*   stuck   the deleter ran inside get_connection: return_connection      *)
(*           waits for the mutex_ that its own thread holds                *)
(***************************************************************************)
Phases ==
  {"none", "lock", "wait", "probe", "use", "call", "return", "notify", "drop",
   "stuck"}

(* The phases in which a frame, and not the queue, has the connection. *)
Owning == {"probe", "use", "call", "return", "stuck"}

(***************************************************************************)
(*   open     ~DBManager has not run                                       *)
(*   closing  its disconnect holds mutex_ in close_all                     *)
(*   between  that call has returned: mutex_ is free, the pool still there *)
(*   again    ~ConnectionPool holds mutex_ in its own close_all            *)
(*   closed   the pool is gone                                             *)
(*   stuck    a deleter ran inside close_all and waits for mutex_          *)
(***************************************************************************)
Closings == {"open", "closing", "between", "again", "closed", "stuck"}

VARIABLES
  available,  \* available_connections_, oldest first
  phase,      \* where each frame is
  local,      \* the handle in each frame's local variable conn
  kind,       \* "query": one connection; "update": refreshes the statistics too
  ops,        \* operations each thread has started
  closing,    \* how far ~DBManager is: see Closings
  unjoined,   \* the threads that may still call DBManager once it runs
  dbUp,       \* MySQL answers
  outages     \* times it has stopped answering

vars == <<available, phase, local, kind, ops, closing, unjoined, dbUp, outages>>

(* mutex_ is free: no frame probes, no deleter is stuck, no close_all runs. *)
MutexFree ==
  /\ closing \in {"open", "between"}
  /\ \A f \in Frames : phase[f] \notin {"probe", "stuck"}

(* Handle h keeps the control block of handle g alive. *)
KeepsAlive(h, g) == h.conn = g.conn /\ h.depth >= g.depth

(* No reference but frame f's own keeps its handle alive. *)
LastRef(f) ==
  /\ \A i \in DOMAIN available : ~KeepsAlive(available[i], local[f])
  /\ \A g \in Frames \ {f} : ~KeepsAlive(local[g], local[f])

(***************************************************************************)
(* The phases once frame f has let go of its handle: a refresh returns to  *)
(* the operation that called it, which then returns its own connection.    *)
(***************************************************************************)
Ended(f) ==
  [g \in Frames |->
     IF g = f THEN "none"
     ELSE IF f[2] = 2 /\ g = Outer(f[1]) THEN "return"
     ELSE phase[g]]

(***************************************************************************)
(* connect(): PoolSize original handles, the first of which create_tables  *)
(* has taken, wrapped once and returned to the back of the queue.          *)
(***************************************************************************)
Init ==
  /\ available = [i \in Conns |-> IF i = PoolSize THEN [conn |-> 1, depth |-> 1]
                                  ELSE [conn |-> i + 1, depth |-> 0]]
  /\ phase = [f \in Frames |-> "none"]
  /\ local = [f \in Frames |-> Null]
  /\ kind = [t \in Threads |-> "query"]
  /\ ops = [t \in Threads |-> 0]
  /\ closing = "open"
  /\ unjoined = Detached
  /\ dbUp = TRUE
  /\ outages = 0

-----------------------------------------------------------------------------
(* DBManager operations *)

(* A DBManager operation calls get_connection. *)
Begin(t) ==
  /\ phase[Outer(t)] = "none"
  /\ ops[t] < MaxOps
  /\ closing = "open" \/ t \in unjoined
  /\ closing # "closed"
  /\ \E k \in IF t \in Detached THEN {"query"} ELSE {"query", "update"} :
       kind' = [kind EXCEPT ![t] = k]
  /\ ops' = [ops EXCEPT ![t] = @ + 1]
  /\ phase' = [phase EXCEPT ![Outer(t)] = "lock"]
  /\ UNCHANGED <<available, local, closing, unjoined, dbUp, outages>>

(* update_peer and remove_peer refresh the statistics on a second connection. *)
CallRefresh(t) ==
  /\ phase[Outer(t)] = "use"
  /\ kind[t] = "update"
  /\ phase' = [phase EXCEPT ![Outer(t)] = "call", ![Inner(t)] = "lock"]
  /\ UNCHANGED <<available, local, kind, ops, closing, unjoined, dbUp, outages>>

(* The statements are done, or one failed: the operation returns its connection. *)
Finish(f) ==
  /\ phase[f] = "use"
  /\ phase' = [phase EXCEPT ![f] = "return"]
  /\ UNCHANGED <<available, local, kind, ops, closing, unjoined, dbUp, outages>>

(* Mutated form of Throw: unwinding frees the wrapper but returns nothing. *)
ThrowLeaks(t) ==
  LET f == Outer(t) IN
  /\ t \notin Detached
  /\ phase[f] = "use"
  /\ kind[t] = "query"
  /\ phase' = [phase EXCEPT ![f] = "none"]
  /\ local' = [local EXCEPT ![f] = Null]
  /\ UNCHANGED <<available, kind, ops, closing, unjoined, dbUp, outages>>

(***************************************************************************)
(* std::stoi throws in a query: no return_connection call, the wrapper is  *)
(* destroyed by unwinding and its deleter returns the handle it wrapped.   *)
(***************************************************************************)
Throw(t) ==
  LET f == Outer(t) IN
  /\ t \notin Detached
  /\ phase[f] = "use"
  /\ kind[t] = "query"
  /\ phase' = [phase EXCEPT ![f] = "return"]
  /\ local' = [local EXCEPT ![f].depth = @ - 1]
  /\ UNCHANGED <<available, kind, ops, closing, unjoined, dbUp, outages>>

-----------------------------------------------------------------------------
(* ConnectionPool::get_connection *)

Wait(f) ==
  /\ phase[f] = "lock"
  /\ MutexFree
  /\ available = <<>>
  /\ phase' = [phase EXCEPT ![f] = "wait"]
  /\ UNCHANGED <<available, local, kind, ops, closing, unjoined, dbUp, outages>>

(* The standard lets condition_.wait return without a notification. *)
SpuriousWake(f) ==
  /\ phase[f] = "wait"
  /\ phase' = [phase EXCEPT ![f] = "lock"]
  /\ UNCHANGED <<available, local, kind, ops, closing, unjoined, dbUp, outages>>

Pop(f) ==
  /\ phase[f] = "lock"
  /\ MutexFree
  /\ available # <<>>
  /\ local' = [local EXCEPT ![f] = Head(available)]
  /\ available' = Tail(available)
  /\ phase' = [phase EXCEPT ![f] = "probe"]
  /\ UNCHANGED <<kind, ops, closing, unjoined, dbUp, outages>>

(* The ping, or the reconnection, succeeds: the handle is wrapped once more. *)
ProbeOk(f) ==
  /\ phase[f] = "probe"
  /\ dbUp
  /\ local' = [local EXCEPT ![f].depth = @ + 1]
  /\ phase' = [phase EXCEPT ![f] = "use"]
  /\ UNCHANGED <<available, kind, ops, closing, unjoined, dbUp, outages>>

(* It fails, and the popped handle dies with the call, which returns nullptr. *)
ProbeFails(f) ==
  /\ phase[f] = "probe"
  /\ ~dbUp
  /\ LastRef(f) => local[f].depth = 0
  /\ local' = [local EXCEPT ![f] = Null]
  /\ phase' = Ended(f)
  /\ UNCHANGED <<available, kind, ops, closing, unjoined, dbUp, outages>>

(* It fails, and the popped handle was the last reference to a wrapper. *)
ProbeRelocks(f) ==
  /\ phase[f] = "probe"
  /\ ~dbUp
  /\ LastRef(f)
  /\ local[f].depth > 0
  /\ phase' = [phase EXCEPT ![f] = "stuck"]
  /\ UNCHANGED <<available, local, kind, ops, closing, unjoined, dbUp, outages>>

-----------------------------------------------------------------------------
(* ConnectionPool::return_connection *)

(* Mutated form of Push: the operation hands back the handle inside its wrapper. *)
PushUnwrapped(f) ==
  /\ phase[f] = "return"
  /\ MutexFree
  /\ available' = Append(available, [local[f] EXCEPT !.depth = @ - 1])
  /\ phase' = [phase EXCEPT ![f] = "notify"]
  /\ UNCHANGED <<local, kind, ops, closing, unjoined, dbUp, outages>>

(* Mutated form of Push: only a push onto an empty queue is announced. *)
PushQuietly(f) ==
  /\ phase[f] = "return"
  /\ MutexFree
  /\ available' = Append(available, local[f])
  /\ phase' = [phase EXCEPT ![f] = IF available = <<>> THEN "notify" ELSE "drop"]
  /\ UNCHANGED <<local, kind, ops, closing, unjoined, dbUp, outages>>

Push(f) ==
  /\ phase[f] = "return"
  /\ MutexFree
  /\ available' = Append(available, local[f])
  /\ phase' = [phase EXCEPT ![f] = "notify"]
  /\ UNCHANGED <<local, kind, ops, closing, unjoined, dbUp, outages>>

Waiting == {f \in Frames : phase[f] = "wait"}

(* Mutated form of Notify: no notify_one after the unlock. *)
NotifyNobody(f) ==
  /\ phase[f] = "notify"
  /\ phase' = [phase EXCEPT ![f] = "drop"]
  /\ UNCHANGED <<available, local, kind, ops, closing, unjoined, dbUp, outages>>

Notify(f) ==
  /\ phase[f] = "notify"
  /\ IF Waiting = {}
       THEN phase' = [phase EXCEPT ![f] = "drop"]
       ELSE \E g \in Waiting : phase' = [phase EXCEPT ![f] = "drop", ![g] = "lock"]
  /\ UNCHANGED <<available, local, kind, ops, closing, unjoined, dbUp, outages>>

(* The operation's reference goes: another one remains, or the connection dies. *)
Drop(f) ==
  /\ phase[f] = "drop"
  /\ LastRef(f) => local[f].depth = 0
  /\ local' = [local EXCEPT ![f] = Null]
  /\ phase' = Ended(f)
  /\ UNCHANGED <<available, kind, ops, closing, unjoined, dbUp, outages>>

(* Mutated form of DropRunsDeleter: an original handle is returned as well. *)
DropAlwaysReturns(f) ==
  /\ phase[f] = "drop"
  /\ LastRef(f)
  /\ local' = [local EXCEPT ![f].depth = @ - 1]
  /\ phase' = [phase EXCEPT ![f] = "return"]
  /\ UNCHANGED <<available, kind, ops, closing, unjoined, dbUp, outages>>

(***************************************************************************)
(* Another thread has popped the handle and dropped it after a failed      *)
(* reconnection: the deleter runs here, and returns the wrapped handle.    *)
(***************************************************************************)
DropRunsDeleter(f) ==
  /\ phase[f] = "drop"
  /\ LastRef(f)
  /\ local[f].depth > 0
  /\ local' = [local EXCEPT ![f].depth = @ - 1]
  /\ phase' = [phase EXCEPT ![f] = "return"]
  /\ UNCHANGED <<available, kind, ops, closing, unjoined, dbUp, outages>>

-----------------------------------------------------------------------------
(* ConnectionPool::close_all, which ~DBManager calls twice *)

(***************************************************************************)
(* disconnect in ~DBManager.  As a rule stop() has joined the task pool's  *)
(* threads by now, and only the cleanup thread is left; but after a second *)
(* signal main gets here while tasks still run.                            *)
(***************************************************************************)
CloseAll ==
  /\ closing = "open"
  /\ MutexFree
  /\ unjoined' \in {Detached, Detached \union Abandoned}
  /\ \A t \in Threads \ unjoined' : phase[Outer(t)] = "none"
  /\ closing' = "closing"
  /\ UNCHANGED <<available, phase, local, kind, ops, dbUp, outages>>

(* ~ConnectionPool: its member connection_pool_ goes once ~DBManager's body is done. *)
CloseAgain ==
  /\ closing = "between"
  /\ MutexFree
  /\ closing' = "again"
  /\ UNCHANGED <<available, phase, local, kind, ops, unjoined, dbUp, outages>>

InCloseAll == closing \in {"closing", "again"}

(* Only the queue refers to the wrapper at its head. *)
HeadIsLastRef ==
  /\ \A i \in 2 .. Len(available) : ~KeepsAlive(available[i], Head(available))
  /\ \A f \in Frames : ~KeepsAlive(local[f], Head(available))

(* Mutated form of CloseOne: the last wrapper dies as if its deleter found mutex_ free. *)
CloseOneUnlocked ==
  /\ InCloseAll
  /\ available # <<>>
  /\ available' = Tail(available)
  /\ UNCHANGED <<phase, local, kind, ops, closing, unjoined, dbUp, outages>>

CloseOne ==
  /\ InCloseAll
  /\ available # <<>>
  /\ HeadIsLastRef => Head(available).depth = 0
  /\ available' = Tail(available)
  /\ UNCHANGED <<phase, local, kind, ops, closing, unjoined, dbUp, outages>>

(* The deleter of the popped wrapper calls return_connection under mutex_. *)
CloseRelocks ==
  /\ InCloseAll
  /\ available # <<>>
  /\ HeadIsLastRef
  /\ Head(available).depth > 0
  /\ closing' = "stuck"
  /\ UNCHANGED <<available, phase, local, kind, ops, unjoined, dbUp, outages>>

(* close_all has emptied the queue: the first time the pool is still there. *)
Closed ==
  /\ InCloseAll
  /\ available = <<>>
  /\ closing' = IF closing = "closing" THEN "between" ELSE "closed"
  /\ UNCHANGED <<available, phase, local, kind, ops, unjoined, dbUp, outages>>

-----------------------------------------------------------------------------
(* The MySQL server *)

DbDown ==
  /\ dbUp
  /\ outages < MaxOutages
  /\ dbUp' = FALSE
  /\ outages' = outages + 1
  /\ UNCHANGED <<available, phase, local, kind, ops, closing, unjoined>>

DbUp ==
  /\ ~dbUp
  /\ dbUp' = TRUE
  /\ UNCHANGED <<available, phase, local, kind, ops, closing, unjoined, outages>>

-----------------------------------------------------------------------------

GetConnection(f) ==
  Wait(f) \/ Pop(f) \/ ProbeOk(f) \/ ProbeFails(f) \/ ProbeRelocks(f)

ReturnConnection(f) ==
  Push(f) \/ Notify(f) \/ Drop(f) \/ DropRunsDeleter(f)

Next ==
  \/ \E t \in Threads : Begin(t) \/ CallRefresh(t) \/ Throw(t)
  \/ \E f \in Frames :
       Finish(f) \/ SpuriousWake(f) \/ GetConnection(f) \/ ReturnConnection(f)
  \/ CloseAll \/ CloseAgain \/ CloseOne \/ CloseRelocks \/ Closed
  \/ DbDown \/ DbUp

(* Every started call is scheduled; nobody has to call, and nothing has to fail. *)
Fairness ==
  \A f \in Frames : WF_vars(Finish(f) \/ GetConnection(f) \/ ReturnConnection(f))

Spec == Init /\ [][Next]_vars
FairSpec == Spec /\ Fairness

-----------------------------------------------------------------------------
(* Properties *)

TypeOK ==
  /\ available \in Seq([conn : Conns, depth : Nat])
  /\ phase \in [Frames -> Phases]
  /\ local \in [Frames -> Handles]
  /\ kind \in [Threads -> {"query", "update"}]
  /\ ops \in [Threads -> Nat]
  /\ closing \in Closings
  /\ unjoined \in SUBSET Threads
  /\ dbUp \in BOOLEAN
  /\ outages \in Nat

(***************************************************************************)
(* A connection is in one place: one slot of available_connections_, or one *)
(* call that has it.  Each operation returns its connection explicitly AND *)
(* its wrapper has a deleter that returns it: two threads would run SQL on *)
(* one MYSQL* if both ever did.                                            *)
(***************************************************************************)
QueuedOnce ==
  \A i, j \in DOMAIN available : available[i].conn = available[j].conn => i = j

OwnedOnce ==
  \A f, g \in Frames :
    /\ phase[f] \in Owning
    /\ phase[g] \in Owning
    /\ local[f].conn = local[g].conn
    => f = g

QueuedOrOwned ==
  \A i \in DOMAIN available, f \in Frames :
    phase[f] \in Owning => available[i].conn # local[f].conn

ExclusiveUse == QueuedOnce /\ OwnedOnce /\ QueuedOrOwned

(***************************************************************************)
(* return_connection notifies after it has unlocked.  No wakeup is lost:   *)
(* while a caller sleeps in condition_.wait, each queued connection has a  *)
(* notification still to come or a caller on its way to pop it.            *)
(***************************************************************************)
NoLostWakeup ==
  Waiting # {} =>
    Len(available) <= Cardinality({f \in Frames : phase[f] \in {"notify", "lock"}})

(***************************************************************************)
(* Outside close_all the pool loses a connection for good only when a      *)
(* reconnection fails on one that is not wrapped: on every other path (the *)
(* explicit return, an exception, a handle dropped by another thread) the  *)
(* connection comes back.                                                  *)
(***************************************************************************)
Referenced(c) ==
  \/ \E i \in DOMAIN available : available[i].conn = c
  \/ \E f \in Frames : local[f].conn = c

LossNeedsOutage ==
  [][closing = "open" =>
       \A c \in Conns :
         Referenced(c) /\ ~Referenced(c)' =>
           /\ outages > 0
           /\ \E f \in Frames : local[f] = [conn |-> c, depth |-> 0]]_vars

(***************************************************************************)
(* The pool implements LendingPool: a connection is free while it is in    *)
(* the queue and lent while a call of get_connection or return_connection, *)
(* or the SQL between them, has it.                                        *)
(***************************************************************************)
Free == {available[i].conn : i \in DOMAIN available}
Lent == [f \in Frames |-> IF phase[f] \in Owning THEN {local[f].conn} ELSE {}]

Lending == INSTANCE LendingPool WITH
  Clients <- Frames, Items <- Conns, free <- Free, lent <- Lent

ImplementsLending == Lending!Spec

(***************************************************************************)
(* update_peer and remove_peer wait for a second connection while they     *)
(* hold one.  If the pool has more connections than there are threads that *)
(* do so, not all connections are held by such waiting calls: whenever the *)
(* queue of an open pool is empty and MySQL has never failed, some call    *)
(* has a connection and waits for no other.                                *)
(***************************************************************************)
NoCircularWait ==
  closing = "open" /\ outages = 0 /\ available = <<>> =>
    \E f \in Frames : phase[f] \in {"probe", "use", "return"}

(***************************************************************************)
(* Every DBManager operation ends, provided that MySQL answers and that    *)
(* the pool has more connections than threads: update_peer and remove_peer *)
(* hold one connection while they wait for a second.  Only a thread that   *)
(* nobody joined before close_all may be left without one for good.        *)
(***************************************************************************)
OperationsEnd ==
  \A t \in Threads :
    phase[Outer(t)] # "none" ~> phase[Outer(t)] = "none" \/ t \in unjoined

(***************************************************************************)
(* The teardown is never clean, although both ~DBManager and               *)
(* ~ConnectionPool call close_all.  If nobody but the cleanup thread is    *)
(* left and MySQL has not failed, the pool goes only while that thread has *)
(* the connection that create_tables wrapped, which it will then return to *)
(* a pool that is gone; otherwise a close_all hangs in the deleter of that *)
(* wrapper.                                                                *)
(***************************************************************************)
CloseFindsWrapper ==
  closing = "closed" /\ outages = 0 /\ unjoined = Detached =>
    \E t \in Detached : local[Outer(t)].conn = 1

(***************************************************************************)
(* connection_pool.cpp:95 says a lost connection is reconnected "if        *)
(* needed": get_connection returns, with the connection or with nullptr.   *)
(***************************************************************************)
ReconnectReturns == \A f \in Frames : phase[f] # "stuck"

(***************************************************************************)
(* connection_pool.cpp:104 says the deleter "returns the connection to the *)
(* pool": it never hangs the close_all that drops the wrapper.             *)
(***************************************************************************)
CloseAllReturns == closing # "stuck"
=============================================================================
