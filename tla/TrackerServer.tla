--------------------------- MODULE TrackerServer ---------------------------
(***************************************************************************)
(* The running tracker server: TrackerSession and TrackerServer            *)
(* (src/tracker/tracker_server.cpp), whose handlers run on the io_context  *)
(* threads and whose requests run on the task pool, and the API server     *)
(* (src/api/http_server.cpp), whose whole sessions run on the same pool.   *)
(*                                                                         *)
(* A session's handlers follow one another, each posted by the one before; *)
(* handlers of different sessions interleave.  The server is running       *)
(* throughout: its start and its end are in Lifecycle.                     *)
(***************************************************************************)
EXTENDS Naturals, Sequences, FiniteSets

CONSTANTS
  Sessions,        \* TCP connections to the tracker port, one session each
  ApiClients,      \* TCP connections to the API port
  TaskThreads,     \* threads of task_pool_: worker_threads
  MaxConnections   \* max_connections

ASSUME ServerAssumption ==
  /\ IsFiniteSet(Sessions)
  /\ IsFiniteSet(ApiClients)
  /\ Sessions \cap ApiClients = {}
  /\ TaskThreads \in Nat \ {0}
  /\ MaxConnections \in Nat

(***************************************************************************)
(*   new      the client has not connected                                 *)
(*   admitted handle_accept has found active_connections_ below the limit  *)
(*   reading  async_read_some is pending, without a timeout                *)
(*   queued   the request is in task_pool_                                 *)
(*   handling a task pool thread runs handle_request                       *)
(*   posted   the response waits for an io_context thread                  *)
(*   failed   close_session waits for one: the task threw                  *)
(*   writing  a part of the response waits for room in the socket          *)
(*   release  close_session is about to load active_connections_           *)
(*   decrement release_connection has found it positive                    *)
(*   closed   released                                                     *)
(*   rejected destroyed by handle_accept: too many connections             *)
(***************************************************************************)
Open ==
  {"reading", "queued", "handling", "posted", "failed", "writing", "release",
   "decrement"}
SessionStates == Open \union {"new", "admitted", "closed", "rejected"}

VARIABLES
  session,  \* the state of each session
  sent,     \* what its client has been sent: "nothing", "response" or "garbage"
  active,   \* active_connections_
  tasks,    \* the queue of task_pool_
  api       \* each API client: "new", "queued", "reading" or "done"

vars == <<session, sent, active, tasks, api>>

Handling == {s \in Sessions : session[s] = "handling"}
Blocked  == {c \in ApiClients : api[c] = "reading"}

(* Mutated form of ThreadFree: the pool has one thread. *)
OnlyThreadFree == Cardinality(Handling) + Cardinality(Blocked) < 1

(* A thread of task_pool_ is idle. *)
ThreadFree == Cardinality(Handling) + Cardinality(Blocked) < TaskThreads

Move(s, from, to) ==
  /\ session[s] = from
  /\ session' = [session EXCEPT ![s] = to]

Init ==
  /\ session = [s \in Sessions |-> "new"]
  /\ sent = [s \in Sessions |-> "nothing"]
  /\ active = 0
  /\ tasks = <<>>
  /\ api = [c \in ApiClients |-> "new"]

-----------------------------------------------------------------------------
(* TrackerServer::handle_accept, one at a time: it starts the next accept last *)

NoneAdmitted == \A s \in Sessions : session[s] # "admitted"

(* Mutated form of Accept: one connection too many. *)
AcceptOneMore(s) ==
  /\ NoneAdmitted
  /\ active <= MaxConnections
  /\ Move(s, "new", "admitted")
  /\ UNCHANGED <<sent, active, tasks, api>>

Accept(s) ==
  /\ NoneAdmitted
  /\ active < MaxConnections
  /\ Move(s, "new", "admitted")
  /\ UNCHANGED <<sent, active, tasks, api>>

Reject(s) ==
  /\ NoneAdmitted
  /\ active >= MaxConnections
  /\ Move(s, "new", "rejected")
  /\ UNCHANGED <<sent, active, tasks, api>>

Start(s) ==
  /\ Move(s, "admitted", "reading")
  /\ active' = active + 1
  /\ UNCHANGED <<sent, tasks, api>>

-----------------------------------------------------------------------------
(* TrackerSession *)

(* handle_read posts the request to the task pool. *)
Read(s) ==
  /\ Move(s, "reading", "queued")
  /\ tasks' = Append(tasks, s)
  /\ UNCHANGED <<sent, active, api>>

(* Mutated form of ReadError: the session ends without close_session. *)
ReadErrorLeaks(s) ==
  /\ Move(s, "reading", "closed")
  /\ UNCHANGED <<sent, active, tasks, api>>

(* The client has gone: close_session. *)
ReadError(s) ==
  /\ Move(s, "reading", "release")
  /\ UNCHANGED <<sent, active, tasks, api>>

(* A task pool thread takes the request. *)
TakeRequest(s) ==
  /\ ThreadFree
  /\ tasks # <<>>
  /\ Head(tasks) = s
  /\ tasks' = Tail(tasks)
  /\ Move(s, "queued", "handling")
  /\ UNCHANGED <<sent, active, api>>

(* handle_request returns a response, whatever happened in it. *)
Respond(s) ==
  /\ Move(s, "handling", "posted")
  /\ UNCHANGED <<sent, active, tasks, api>>

(* Something else in the task throws: copying the response, posting it. *)
TaskThrows(s) ==
  /\ Move(s, "handling", "failed")
  /\ UNCHANGED <<sent, active, tasks, api>>

CloseFailed(s) ==
  /\ Move(s, "failed", "release")
  /\ UNCHANGED <<sent, active, tasks, api>>

(* async_write sends all at once, and its handler closes the session. *)
WriteAtOnce(s) ==
  /\ Move(s, "posted", "release")
  /\ sent' = [sent EXCEPT ![s] = "response"]
  /\ UNCHANGED <<active, tasks, api>>

(***************************************************************************)
(* The socket takes a part.  The rest is sent later from the string that   *)
(* the posted handler owned, and the handler is destroyed when it returns. *)
(***************************************************************************)
WritePart(s) ==
  /\ Move(s, "posted", "writing")
  /\ UNCHANGED <<sent, active, tasks, api>>

WriteRest(s) ==
  /\ Move(s, "writing", "release")
  /\ \E bytes \in {"response", "garbage"} : sent' = [sent EXCEPT ![s] = bytes]
  /\ UNCHANGED <<active, tasks, api>>

(* The client has gone: handle_write closes the session all the same. *)
WriteError(s) ==
  /\ Move(s, "posted", "release") \/ Move(s, "writing", "release")
  /\ UNCHANGED <<sent, active, tasks, api>>

(***************************************************************************)
(* close_session has set connection_released_ and closed the socket:       *)
(* release_connection loads active_connections_, and then decrements it.   *)
(***************************************************************************)
LoadActive(s) ==
  /\ Move(s, "release", IF active > 0 THEN "decrement" ELSE "closed")
  /\ UNCHANGED <<sent, active, tasks, api>>

(* Mutated form of Decrement: close_session does not test connection_released_. *)
DecrementAgain(s) ==
  /\ Move(s, "decrement", "release")
  /\ active' = active - 1
  /\ UNCHANGED <<sent, tasks, api>>

Decrement(s) ==
  /\ Move(s, "decrement", "closed")
  /\ active' = active - 1
  /\ UNCHANGED <<sent, tasks, api>>

-----------------------------------------------------------------------------
(* HttpServer in API mode *)

(* do_accept posts the whole session to the tracker's task pool. *)
ApiAccept(c) ==
  /\ api[c] = "new"
  /\ api' = [api EXCEPT ![c] = "queued"]
  /\ tasks' = Append(tasks, c)
  /\ UNCHANGED <<session, sent, active>>

(* A task pool thread takes the API session and blocks in read_until. *)
TakeApi(c) ==
  /\ ThreadFree
  /\ tasks # <<>>
  /\ Head(tasks) = c
  /\ tasks' = Tail(tasks)
  /\ api' = [api EXCEPT ![c] = "reading"]
  /\ UNCHANGED <<session, sent, active>>

(* The blocking read_until returns, or throws, and the session is served. *)
ApiDone(c) ==
  /\ api[c] = "reading"
  /\ api' = [api EXCEPT ![c] = "done"]
  /\ UNCHANGED <<session, sent, active, tasks>>

-----------------------------------------------------------------------------

(* The steps that depend on the server's own threads only. *)
ServerStep(s) ==
  \/ Start(s) \/ TakeRequest(s) \/ Respond(s) \/ CloseFailed(s)
  \/ WriteAtOnce(s) \/ WritePart(s) \/ LoadActive(s) \/ Decrement(s)

(* Those that depend on the client or on a failure. *)
ClientStep(s) ==
  \/ Accept(s) \/ Reject(s) \/ Read(s) \/ ReadError(s) \/ TaskThrows(s)
  \/ WriteRest(s) \/ WriteError(s)

Next ==
  \/ \E s \in Sessions : ServerStep(s) \/ ClientStep(s)
  \/ \E c \in ApiClients : ApiAccept(c) \/ TakeApi(c) \/ ApiDone(c)

Spec == Init /\ [][Next]_vars

(* No client has to do anything. *)
FairSpec ==
  /\ Spec
  /\ \A s \in Sessions : WF_vars(ServerStep(s))
  /\ \A c \in ApiClients : WF_vars(TakeApi(c))

-----------------------------------------------------------------------------
(* Properties *)

TypeOK ==
  /\ session \in [Sessions -> SessionStates]
  /\ sent \in [Sessions -> {"nothing", "response", "garbage"}]
  /\ active \in Nat
  /\ tasks \in Seq(Sessions \union ApiClients)
  /\ api \in [ApiClients -> {"new", "queued", "reading", "done"}]

(***************************************************************************)
(* active_connections_ is the number of sessions that were started and not *)
(* released, through every way a session can end: the clamp of             *)
(* release_connection never hides a second release, and no path forgets    *)
(* its release.                                                            *)
(***************************************************************************)
OpenSessions == {s \in Sessions : session[s] \in Open}

ActiveExact == active = Cardinality(OpenSessions)

(***************************************************************************)
(* The server implements Admission: although handle_accept tests the       *)
(* counter in one step and increments it in another, while other sessions  *)
(* load and decrement it, no more than max_connections sessions are open,  *)
(* a client is rejected only when as many are, and a session that was      *)
(* released stays so.                                                      *)
(***************************************************************************)
Limit == INSTANCE Admission WITH
  Guests <- Sessions,
  Capacity <- MaxConnections,
  inside <- OpenSessions,
  gone <- {s \in Sessions : session[s] \in {"closed", "rejected"}}

ImplementsAdmission == Limit!Spec

(***************************************************************************)
(* Every request that was read is answered or its session closed, whatever *)
(* the clients do, provided that the API clients are fewer than the        *)
(* threads of the task pool: each may block one for as long as it likes.   *)
(***************************************************************************)
RequestsHandled ==
  \A s \in Sessions : session[s] = "queued" ~> session[s] \in {"writing", "closed"}

(***************************************************************************)
(* A request that was posted waits for no client, with fewer API clients   *)
(* than threads: a thread runs a request, or one is idle and the head of   *)
(* the queue is a request or an API session that nobody has taken.         *)
(***************************************************************************)
Wanted(x) == IF x \in Sessions THEN session[x] = "queued" ELSE api[x] = "queued"

RequestNotBlocked ==
  \A s \in Sessions : session[s] = "queued" =>
    /\ \E k \in DOMAIN tasks : tasks[k] = s
    /\ Handling # {} \/ (ThreadFree /\ Wanted(Head(tasks)))

(***************************************************************************)
(* tracker_server.cpp:168 says that the network threads write the response *)
(* back: what a client is sent is the response.                            *)
(***************************************************************************)
ResponseWritten == \A s \in Sessions : sent[s] # "garbage"

=============================================================================
