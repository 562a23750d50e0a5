------------------------- MODULE TrackerServerProofs -------------------------
(***************************************************************************)
(* Theorems about TrackerServer, for every set of connections, every limit *)
(* and every number of threads.                                            *)
(***************************************************************************)
EXTENDS TrackerServer, FiniteSetTheorems, TLAPS

(* handle_accept works on one connection at a time. *)
OneAdmitted ==
  \A s, u \in Sessions : session[s] = "admitted" /\ session[u] = "admitted" => s = u

(* What handle_accept has tested still holds when it increments the counter. *)
RoomForAdmitted == \A s \in Sessions : session[s] = "admitted" => active < MaxConnections

WithinLimit == active <= MaxConnections

SInv ==
  /\ TypeOK
  /\ ActiveExact
  /\ OneAdmitted
  /\ RoomForAdmitted
  /\ WithinLimit

-----------------------------------------------------------------------------
(* Counting open sessions *)

(* The open sessions can be counted. *)
LEMMA OpenFinite == IsFiniteSet(OpenSessions) /\ Cardinality(OpenSessions) \in Nat
<1>1. OpenSessions \subseteq Sessions
  BY DEF OpenSessions
<1>2. IsFiniteSet(OpenSessions)
  BY <1>1, ServerAssumption, FS_Subset
<1> QED
  BY <1>2, FS_CardinalityType

(* A session on its way to its release is counted: the clamp never applies. *)
LEMMA OpenCounted ==
  ASSUME TypeOK, ActiveExact, NEW s \in Sessions, session[s] \in Open
  PROVE  active > 0
<1>1. s \in OpenSessions
  BY DEF OpenSessions
<1>2. Cardinality(OpenSessions) # 0
  BY <1>1, OpenFinite, FS_EmptySet
<1> QED
  BY <1>2, OpenFinite DEF ActiveExact

(* A step that moves one session within or outside Open changes nothing. *)
LEMMA SameOpen ==
  ASSUME TypeOK, NEW s \in Sessions, NEW from, NEW to, Move(s, from, to),
         from \in Open <=> to \in Open
  PROVE  OpenSessions' = OpenSessions
BY DEF TypeOK, Move, OpenSessions

(* One that brings a session in adds one to the count. *)
LEMMA OneMoreOpen ==
  ASSUME TypeOK, NEW s \in Sessions, NEW from, NEW to, Move(s, from, to),
         from \notin Open, to \in Open
  PROVE  /\ OpenSessions' = OpenSessions \union {s}
         /\ s \notin OpenSessions
         /\ Cardinality(OpenSessions') = Cardinality(OpenSessions) + 1
<1>1. OpenSessions' = OpenSessions \union {s} /\ s \notin OpenSessions
  BY DEF TypeOK, Move, OpenSessions
<1> QED
  BY <1>1, OpenFinite, FS_AddElement

(* One that takes a session out takes one from the count. *)
LEMMA OneLessOpen ==
  ASSUME TypeOK, NEW s \in Sessions, NEW from, NEW to, Move(s, from, to),
         from \in Open, to \notin Open
  PROVE  /\ OpenSessions' = OpenSessions \ {s}
         /\ s \in OpenSessions
         /\ Cardinality(OpenSessions') = Cardinality(OpenSessions) - 1
<1>1. OpenSessions' = OpenSessions \ {s} /\ s \in OpenSessions
  BY DEF TypeOK, Move, OpenSessions
<1> QED
  BY <1>1, OpenFinite, FS_RemoveElement

-----------------------------------------------------------------------------
(* The inductive invariant *)

(* At first nobody is connected. *)
LEMMA InitSInv == Init => SInv
<1> SUFFICES ASSUME Init PROVE SInv
  OBVIOUS
<1>1. TypeOK
  BY DEF Init, TypeOK, SessionStates
<1>2. OpenSessions = {}
  BY DEF Init, OpenSessions, Open
<1>3. ActiveExact
  BY <1>2, FS_EmptySet DEF Init, ActiveExact
<1>4. OneAdmitted /\ RoomForAdmitted /\ WithinLimit
  BY ServerAssumption DEF Init, OneAdmitted, RoomForAdmitted, WithinLimit
<1> QED
  BY <1>1, <1>3, <1>4 DEF SInv

(***************************************************************************)
(* A step that moves one session, admits none and leaves the counter alone *)
(* keeps the invariant.                                                    *)
(***************************************************************************)
LEMMA CounterUntouched ==
  ASSUME SInv, TypeOK', NEW s \in Sessions, NEW from, NEW to, Move(s, from, to),
         from \in Open <=> to \in Open, to # "admitted", active' = active
  PROVE  SInv'
<1> USE DEF SInv, TypeOK
<1>1. ActiveExact'
  BY SameOpen DEF ActiveExact
<1>2. \A u \in Sessions : session'[u] = "admitted" => session[u] = "admitted"
  BY DEF Move
<1>3. OneAdmitted' /\ RoomForAdmitted' /\ WithinLimit'
  BY <1>2 DEF OneAdmitted, RoomForAdmitted, WithinLimit
<1> QED
  BY <1>1, <1>3

(* handle_accept keeps it: it tests the counter of a server that admits nobody. *)
LEMMA AcceptPreserves ==
  ASSUME SInv, NEW s \in Sessions, Accept(s)
  PROVE  SInv'
<1> USE DEF SInv, TypeOK
<1>1. TypeOK'
  BY DEF Accept, Move, SessionStates
<1>2. ActiveExact'
  BY SameOpen DEF Accept, Open, ActiveExact
<1>3. \A u \in Sessions : session'[u] = "admitted" => u = s
  BY DEF Accept, Move, NoneAdmitted
<1>4. OneAdmitted' /\ RoomForAdmitted' /\ WithinLimit'
  BY <1>3 DEF Accept, OneAdmitted, RoomForAdmitted, WithinLimit
<1> QED
  BY <1>1, <1>2, <1>4

(* So does the start of the session that was admitted. *)
LEMMA StartPreserves ==
  ASSUME SInv, NEW s \in Sessions, Start(s)
  PROVE  SInv'
<1> USE DEF SInv, TypeOK
<1>1. TypeOK'
  BY DEF Start, Move, SessionStates, Open
<1>2. ActiveExact'
  BY OneMoreOpen DEF Start, Open, ActiveExact
<1>3. \A u \in Sessions : session'[u] # "admitted"
  BY DEF Start, Move, OneAdmitted
<1>4. active < MaxConnections
  BY DEF Start, Move, RoomForAdmitted
<1>5. OneAdmitted' /\ RoomForAdmitted' /\ WithinLimit'
  BY <1>3, <1>4, ServerAssumption DEF Start, OneAdmitted, RoomForAdmitted, WithinLimit
<1> QED
  BY <1>1, <1>2, <1>5

(* And the release of a session. *)
LEMMA DecrementPreserves ==
  ASSUME SInv, NEW s \in Sessions, Decrement(s)
  PROVE  SInv'
<1> USE DEF SInv, TypeOK
<1>1. active > 0
  BY OpenCounted DEF Decrement, Move, Open
<1>2. TypeOK'
  BY <1>1 DEF Decrement, Move, SessionStates
<1>3. ActiveExact'
  BY OneLessOpen DEF Decrement, Open, ActiveExact
<1>4. \A u \in Sessions : session'[u] = "admitted" => session[u] = "admitted"
  BY DEF Decrement, Move
<1>5. OneAdmitted' /\ RoomForAdmitted' /\ WithinLimit'
  BY <1>4, ServerAssumption DEF Decrement, OneAdmitted, RoomForAdmitted, WithinLimit
<1> QED
  BY <1>2, <1>3, <1>5

(* The load of a positive counter never takes the branch of the clamp. *)
LEMMA LoadActivePositive ==
  ASSUME SInv, NEW s \in Sessions, LoadActive(s)
  PROVE  Move(s, "release", "decrement")
<1>1. active > 0
  BY OpenCounted DEF SInv, LoadActive, Move, Open
<1> QED
  BY <1>1 DEF LoadActive

(* The steps between the start of a session and its release. *)
Between(s) ==
  \/ Read(s) \/ ReadError(s) \/ TakeRequest(s) \/ Respond(s) \/ TaskThrows(s)
  \/ CloseFailed(s) \/ WriteAtOnce(s) \/ WritePart(s) \/ WriteRest(s) \/ WriteError(s)
  \/ LoadActive(s)

(* They move a session within Open. *)
LEMMA BetweenMoves ==
  ASSUME SInv, NEW s \in Sessions, Between(s)
  PROVE  /\ active' = active
         /\ \E from \in Open, to \in Open : Move(s, from, to)
<1> USE DEF Open
<1>1. CASE Read(s) \/ ReadError(s) \/ TakeRequest(s)
  BY <1>1 DEF Read, ReadError, TakeRequest
<1>2. CASE Respond(s) \/ TaskThrows(s) \/ CloseFailed(s)
  BY <1>2 DEF Respond, TaskThrows, CloseFailed
<1>3. CASE WriteAtOnce(s) \/ WritePart(s)
  BY <1>3 DEF WriteAtOnce, WritePart
<1>4. CASE WriteRest(s)
  BY <1>4 DEF WriteRest
<1>5. CASE WriteError(s)
  BY <1>5 DEF WriteError
<1>6. CASE LoadActive(s)
  <2>1. Move(s, "release", "decrement")
    BY <1>6, LoadActivePositive
  <2> QED
    BY <1>6, <2>1 DEF LoadActive
<1> QED
  BY <1>1, <1>2, <1>3, <1>4, <1>5, <1>6 DEF Between

(* The queue of the task pool holds sessions and API clients. *)
LEMMA BetweenTypes ==
  ASSUME SInv, NEW s \in Sessions, Between(s)
  PROVE  TypeOK'
<1> USE DEF SInv, TypeOK
<1>1. active' \in Nat
  BY BetweenMoves
<1>2. session' \in [Sessions -> SessionStates]
  <2>1. PICK from \in Open, to \in Open : Move(s, from, to)
    BY BetweenMoves
  <2> QED
    BY <2>1 DEF Move, SessionStates
<1>3. sent' \in [Sessions -> {"nothing", "response", "garbage"}]
  <2>1. CASE WriteAtOnce(s) \/ WriteRest(s)
    BY <2>1 DEF WriteAtOnce, WriteRest
  <2>2. CASE ~(WriteAtOnce(s) \/ WriteRest(s))
    BY <2>2 DEF Between, Read, ReadError, TakeRequest, Respond, TaskThrows, CloseFailed,
                WritePart, WriteError, LoadActive
  <2> QED
    BY <2>1, <2>2
<1>4. tasks' \in Seq(Sessions \union ApiClients)
  <2>1. CASE Read(s)
    BY <2>1 DEF Read
  <2>2. CASE TakeRequest(s)
    BY <2>2 DEF TakeRequest
  <2>3. CASE ~(Read(s) \/ TakeRequest(s))
    BY <2>3 DEF Between, ReadError, Respond, TaskThrows, CloseFailed, WriteAtOnce,
                WritePart, WriteRest, WriteError, LoadActive
  <2> QED
    BY <2>1, <2>2, <2>3
<1>5. api' = api
  BY DEF Between, Read, ReadError, TakeRequest, Respond, TaskThrows, CloseFailed,
         WriteAtOnce, WritePart, WriteRest, WriteError, LoadActive
<1> QED
  BY <1>1, <1>2, <1>3, <1>4, <1>5

(* They keep the invariant. *)
LEMMA BetweenPreserves ==
  ASSUME SInv, NEW s \in Sessions, Between(s)
  PROVE  SInv'
<1>1. PICK from \in Open, to \in Open : Move(s, from, to)
  BY BetweenMoves
<1>2. to # "admitted"
  BY DEF Open
<1> QED
  BY <1>1, <1>2, BetweenMoves, BetweenTypes, CounterUntouched

(* A connection that is turned away was never counted. *)
LEMMA RejectPreserves ==
  ASSUME SInv, NEW s \in Sessions, Reject(s)
  PROVE  SInv'
<1>1. TypeOK'
  BY DEF SInv, TypeOK, Reject, Move, SessionStates
<1>2. Move(s, "new", "rejected") /\ active' = active
  BY DEF Reject
<1>3. "new" \notin Open /\ "rejected" \notin Open
  BY DEF Open
<1> QED
  BY <1>1, <1>2, <1>3, CounterUntouched

(* API sessions are not counted at all. *)
ApiStep(c) == ApiAccept(c) \/ TakeApi(c) \/ ApiDone(c)

(* An API session's steps touch neither sessions nor counter. *)
LEMMA ApiPreserves ==
  ASSUME SInv, NEW c \in ApiClients, ApiStep(c)
  PROVE  SInv' /\ UNCHANGED <<session, active>>
<1> USE DEF SInv, TypeOK
<1>1. UNCHANGED <<session, sent, active>>
  BY DEF ApiStep, ApiAccept, TakeApi, ApiDone
<1>2. api' \in [ApiClients -> {"new", "queued", "reading", "done"}]
  BY DEF ApiStep, ApiAccept, TakeApi, ApiDone
<1>3. tasks' \in Seq(Sessions \union ApiClients)
  <2>1. CASE ApiAccept(c)
    BY <2>1 DEF ApiAccept
  <2>2. CASE TakeApi(c)
    BY <2>2 DEF TakeApi
  <2>3. CASE ApiDone(c)
    BY <2>3 DEF ApiDone
  <2> QED
    BY <2>1, <2>2, <2>3 DEF ApiStep
<1>4. TypeOK'
  BY <1>1, <1>2, <1>3
<1>5. ActiveExact' /\ OneAdmitted' /\ RoomForAdmitted' /\ WithinLimit'
  BY <1>1 DEF ActiveExact, OpenSessions, OneAdmitted, RoomForAdmitted, WithinLimit
<1> QED
  BY <1>1, <1>4, <1>5

(* Every step is one of these. *)
LEMMA StepCases ==
  ASSUME Next
  PROVE  \/ \E s \in Sessions :
              Accept(s) \/ Reject(s) \/ Start(s) \/ Between(s) \/ Decrement(s)
         \/ \E c \in ApiClients : ApiStep(c)
BY DEF Next, ServerStep, ClientStep, Between, ApiStep

(* Every step keeps the invariant. *)
LEMMA StepPreserves == SInv /\ [Next]_vars => SInv'
<1> SUFFICES ASSUME SInv, [Next]_vars PROVE SInv'
  OBVIOUS
<1>1. CASE Next
  BY <1>1, StepCases, AcceptPreserves, RejectPreserves, StartPreserves, BetweenPreserves,
     DecrementPreserves, ApiPreserves
<1>2. CASE UNCHANGED vars
  BY <1>2 DEF vars, SInv, TypeOK, ActiveExact, OpenSessions, OneAdmitted,
              RoomForAdmitted, WithinLimit
<1> QED
  BY <1>1, <1>2

-----------------------------------------------------------------------------
(* The limit *)

Gone == {s \in Sessions : session[s] \in {"closed", "rejected"}}

(* Nobody is in and gone. *)
LEMMA Apart == OpenSessions \cap Gone = {}
BY DEF OpenSessions, Gone, Open

(* At first nobody is either. *)
LEMMA InitAdmits == Init => Limit!Init
<1> SUFFICES ASSUME Init PROVE Limit!Init
  OBVIOUS
<1>1. \A s \in Sessions : session[s] = "new"
  BY DEF Init
<1> QED
  BY <1>1 DEF Limit!Init, OpenSessions, Open

(* The start of a session enters. *)
LEMMA StartEnters ==
  ASSUME SInv, NEW s \in Sessions, Start(s)
  PROVE  Limit!Enter(s)
<1> USE DEF SInv, TypeOK
<1>1. OpenSessions' = OpenSessions \union {s} /\ s \notin OpenSessions
  BY OneMoreOpen DEF Start, Open
<1>2. Gone' = Gone /\ s \notin Gone
  BY DEF Start, Move, Gone
<1>3. Cardinality(OpenSessions) < MaxConnections
  <2>1. session[s] = "admitted"
    BY DEF Start, Move
  <2>2. active < MaxConnections
    BY <2>1 DEF RoomForAdmitted
  <2> QED
    BY <2>2 DEF ActiveExact
<1>4. Limit!Cardinality(OpenSessions) = Cardinality(OpenSessions)
  BY DEF Limit!Cardinality, Cardinality, Limit!IsFiniteSet, IsFiniteSet
<1> QED
  BY <1>1, <1>2, <1>3, <1>4 DEF Limit!Enter, Gone

(* A release leaves. *)
LEMMA DecrementLeaves ==
  ASSUME SInv, NEW s \in Sessions, Decrement(s)
  PROVE  Limit!Leave(s)
<1> USE DEF SInv, TypeOK
<1>1. OpenSessions' = OpenSessions \ {s} /\ s \in OpenSessions
  BY OneLessOpen DEF Decrement, Open
<1>2. Gone' = Gone \union {s}
  BY DEF Decrement, Move, Gone
<1> QED
  BY <1>1, <1>2 DEF Limit!Leave, Gone

(* A rejection turns away. *)
LEMMA RejectTurnsAway ==
  ASSUME SInv, NEW s \in Sessions, Reject(s)
  PROVE  Limit!TurnAway(s)
<1> USE DEF SInv, TypeOK
<1>1. OpenSessions' = OpenSessions /\ s \notin OpenSessions
  BY DEF Reject, Move, OpenSessions, Open
<1>2. Gone' = Gone \union {s} /\ s \notin Gone
  BY DEF Reject, Move, Gone
<1>3. Limit!Cardinality(OpenSessions) >= MaxConnections
  <2>1. Limit!Cardinality(OpenSessions) = Cardinality(OpenSessions)
    BY DEF Limit!Cardinality, Cardinality, Limit!IsFiniteSet, IsFiniteSet
  <2> QED
    BY <2>1 DEF Reject, ActiveExact
<1> QED
  BY <1>1, <1>2, <1>3 DEF Limit!TurnAway, Gone

(* The rest stutters. *)
LEMMA RestStutters ==
  ASSUME SInv, NEW s \in Sessions, Accept(s) \/ Between(s)
  PROVE  OpenSessions' = OpenSessions /\ Gone' = Gone
<1> USE DEF SInv, TypeOK
<1>1. CASE Accept(s)
  BY <1>1 DEF Accept, Move, OpenSessions, Open, Gone
<1>2. CASE Between(s)
  <2>1. PICK from \in Open, to \in Open : Move(s, from, to)
    BY <1>2, BetweenMoves
  <2>2. from \notin {"closed", "rejected"} /\ to \notin {"closed", "rejected"}
    BY DEF Open
  <2> QED
    BY <2>1, <2>2 DEF Move, OpenSessions, Gone
<1> QED
  BY <1>1, <1>2

(* Every step enters, leaves, turns away, or stutters. *)
LEMMA StepAdmits ==
  SInv /\ [Next]_vars => Limit!Next \/ (OpenSessions' = OpenSessions /\ Gone' = Gone)
<1> SUFFICES ASSUME SInv, [Next]_vars
             PROVE  Limit!Next \/ (OpenSessions' = OpenSessions /\ Gone' = Gone)
  OBVIOUS
<1>1. ASSUME NEW s \in Sessions, Start(s) \/ Decrement(s) \/ Reject(s)
      PROVE  Limit!Next
  BY <1>1, StartEnters, DecrementLeaves, RejectTurnsAway DEF Limit!Next
<1>2. ASSUME NEW s \in Sessions, Accept(s) \/ Between(s)
      PROVE  OpenSessions' = OpenSessions /\ Gone' = Gone
  BY <1>2, RestStutters
<1>3. ASSUME NEW c \in ApiClients, ApiStep(c)
      PROVE  OpenSessions' = OpenSessions /\ Gone' = Gone
  BY <1>3, ApiPreserves DEF OpenSessions, Gone
<1>4. CASE UNCHANGED vars
  BY <1>4 DEF vars, OpenSessions, Gone
<1> QED
  BY <1>1, <1>2, <1>3, <1>4, StepCases

-----------------------------------------------------------------------------
(* The queue of the task pool *)

Clients == Sessions \union ApiClients

(* Those who wait for a thread. *)
Wanters == {x \in Clients : Wanted(x)}

(* They are in the queue, each once, and nobody else is. *)
NoneTwice == \A i, j \in DOMAIN tasks : tasks[i] = tasks[j] => i = j
AllWanted == \A i \in DOMAIN tasks : tasks[i] \in Wanters
AllQueued == \A x \in Wanters : \E i \in DOMAIN tasks : tasks[i] = x

QueueInv == NoneTwice /\ AllWanted /\ AllQueued

(* Who was not in the queue joins it at the end. *)
LEMMA QueueJoined ==
  ASSUME TypeOK, QueueInv, NEW x \in Clients, x \notin Wanters,
         Wanters' = Wanters \union {x}, tasks' = Append(tasks, x)
  PROVE  QueueInv'
<1> USE DEF QueueInv
<1>0. tasks \in Seq(Clients)
  BY DEF TypeOK, Clients
<1>1. /\ Len(tasks) \in Nat /\ DOMAIN tasks = 1 .. Len(tasks)
      /\ DOMAIN tasks' = 1 .. Len(tasks) + 1
      /\ \A i \in DOMAIN tasks : tasks'[i] = tasks[i]
      /\ tasks'[Len(tasks) + 1] = x
  BY <1>0
<1>2. \A i \in DOMAIN tasks : tasks[i] # x
  BY DEF AllWanted
<1>3. NoneTwice'
  BY <1>1, <1>2 DEF NoneTwice
<1>4. AllWanted'
  BY <1>1 DEF AllWanted
<1>5. AllQueued'
  <2> SUFFICES ASSUME NEW y \in Wanters' PROVE \E i \in DOMAIN tasks' : tasks'[i] = y
    BY DEF AllQueued
  <2>1. CASE y = x
    BY <1>1, <2>1
  <2>2. CASE y # x
    <3>1. PICK i \in DOMAIN tasks : tasks[i] = y
      BY <2>2 DEF AllQueued
    <3> QED
      BY <1>1, <3>1
  <2> QED
    BY <2>1, <2>2
<1> QED
  BY <1>3, <1>4, <1>5

(* Whom a thread takes leaves it at its head. *)
LEMMA QueueLeft ==
  ASSUME TypeOK, QueueInv, tasks # <<>>, tasks' = Tail(tasks),
         Wanters' = Wanters \ {Head(tasks)}
  PROVE  QueueInv'
<1> USE DEF QueueInv
<1>0. tasks \in Seq(Clients)
  BY DEF TypeOK, Clients
<1>1. /\ Len(tasks) \in Nat /\ DOMAIN tasks = 1 .. Len(tasks) /\ 1 \in DOMAIN tasks
      /\ DOMAIN tasks' = 1 .. Len(tasks) - 1
      /\ \A i \in DOMAIN tasks' : i + 1 \in DOMAIN tasks /\ tasks'[i] = tasks[i + 1]
      /\ Head(tasks) = tasks[1]
  BY <1>0
<1>2. NoneTwice'
  <2> SUFFICES ASSUME NEW i \in DOMAIN tasks', NEW j \in DOMAIN tasks',
                      tasks'[i] = tasks'[j]
               PROVE  i = j
    BY DEF NoneTwice
  <2>1. i + 1 = j + 1
    BY <1>1 DEF NoneTwice
  <2> QED
    BY <1>1, <2>1
<1>3. AllWanted'
  <2> SUFFICES ASSUME NEW i \in DOMAIN tasks' PROVE tasks'[i] \in Wanters'
    BY DEF AllWanted
  <2>1. i \in Nat /\ i + 1 # 1 /\ i + 1 \in DOMAIN tasks /\ tasks'[i] = tasks[i + 1]
    BY <1>1
  <2>2. tasks[i + 1] # Head(tasks)
    BY <1>1, <2>1 DEF NoneTwice
  <2> QED
    BY <2>1, <2>2 DEF AllWanted
<1>4. AllQueued'
  <2> SUFFICES ASSUME NEW y \in Wanters' PROVE \E i \in DOMAIN tasks' : tasks'[i] = y
    BY DEF AllQueued
  <2>1. y # Head(tasks) /\ y \in Wanters
    OBVIOUS
  <2>2. PICK i \in DOMAIN tasks : tasks[i] = y
    BY <2>1 DEF AllQueued
  <2>3. i # 1 /\ i - 1 \in DOMAIN tasks'
    BY <1>1, <2>1, <2>2
  <2>4. tasks'[i - 1] = tasks[i]
    BY <1>1, <2>3
  <2> QED
    BY <2>2, <2>3, <2>4
<1> QED
  BY <1>2, <1>3, <1>4

(* A request joins the queue when it is read, and leaves it when a thread takes it. *)
LEMMA SessionKeepsQueue ==
  ASSUME SInv, QueueInv, NEW s \in Sessions, ServerStep(s) \/ ClientStep(s)
  PROVE  QueueInv'
<1> USE DEF SInv, TypeOK
<1>0. \A c \in ApiClients : c \notin Sessions
  BY ServerAssumption
<1>1. CASE Read(s)
  <2>1. s \notin Wanters /\ Wanters' = Wanters \union {s}
    BY <1>0, <1>1 DEF Read, Move, Wanters, Wanted, Clients
  <2> QED
    BY <1>1, <2>1, QueueJoined DEF Read, Clients
<1>2. CASE TakeRequest(s)
  <2>1. Wanters' = Wanters \ {s}
    BY <1>0, <1>2 DEF TakeRequest, Move, Wanters, Wanted, Clients
  <2> QED
    BY <1>2, <2>1, QueueLeft DEF TakeRequest
<1>3. CASE ~Read(s) /\ ~TakeRequest(s)
  <2>1. /\ tasks' = tasks /\ api' = api
        /\ \E from \in SessionStates \ {"queued"}, to \in SessionStates \ {"queued"} :
             Move(s, from, to)
    BY <1>3 DEF ServerStep, ClientStep, Start, Respond, CloseFailed, WriteAtOnce,
                WritePart, LoadActive, Decrement, Accept, Reject, ReadError, TaskThrows,
                WriteRest, WriteError, SessionStates, Open
  <2>2. Wanters' = Wanters
    BY <1>0, <2>1 DEF Move, Wanters, Wanted, Clients
  <2> QED
    BY <2>1, <2>2 DEF QueueInv, NoneTwice, AllWanted, AllQueued
<1> QED
  BY <1>1, <1>2, <1>3

(* Whole API sessions join the same queue. *)
LEMMA ApiKeepsQueue ==
  ASSUME SInv, QueueInv, NEW c \in ApiClients, ApiStep(c)
  PROVE  QueueInv'
<1> USE DEF SInv, TypeOK
<1>0. c \notin Sessions /\ \A d \in ApiClients : d \notin Sessions
  BY ServerAssumption
<1>1. CASE ApiAccept(c)
  <2>1. c \notin Wanters /\ Wanters' = Wanters \union {c}
    BY <1>0, <1>1 DEF ApiAccept, Wanters, Wanted, Clients
  <2> QED
    BY <1>1, <2>1, QueueJoined DEF ApiAccept, Clients
<1>2. CASE TakeApi(c)
  <2>1. Wanters' = Wanters \ {c}
    BY <1>0, <1>2 DEF TakeApi, Wanters, Wanted, Clients
  <2> QED
    BY <1>2, <2>1, QueueLeft DEF TakeApi
<1>3. CASE ApiDone(c)
  <2>1. Wanters' = Wanters
    BY <1>0, <1>3 DEF ApiDone, Wanters, Wanted, Clients
  <2> QED
    BY <1>3, <2>1 DEF ApiDone, QueueInv, NoneTwice, AllWanted, AllQueued
<1> QED
  BY <1>1, <1>2, <1>3 DEF ApiStep

(* Every step keeps the queue. *)
LEMMA StepKeepsQueue == SInv /\ QueueInv /\ [Next]_vars => QueueInv'
<1> SUFFICES ASSUME SInv, QueueInv, [Next]_vars PROVE QueueInv'
  OBVIOUS
<1>1. CASE Next
  BY <1>1, SessionKeepsQueue, ApiKeepsQueue DEF Next, ApiStep
<1>2. CASE UNCHANGED vars
  BY <1>2 DEF vars, QueueInv, NoneTwice, AllWanted, AllQueued, Wanters, Wanted
<1> QED
  BY <1>1, <1>2

(***************************************************************************)
(* Not all threads are blocked by API clients, who are fewer: if none is   *)
(* idle, one handles a request.                                            *)
(***************************************************************************)
LEMMA ThreadForRequests ==
  ASSUME Cardinality(ApiClients) < TaskThreads, ~ThreadFree
  PROVE  Handling # {}
<1>1. Blocked \subseteq ApiClients
  BY DEF Blocked
<1>2. /\ Cardinality(Blocked) \in Nat /\ Cardinality(ApiClients) \in Nat
      /\ Cardinality(Blocked) <= Cardinality(ApiClients)
  BY <1>1, ServerAssumption, FS_Subset, FS_CardinalityType
<1> SUFFICES ASSUME Handling = {} PROVE FALSE
  OBVIOUS
<1>3. Cardinality(Handling) = 0
  BY FS_EmptySet
<1> QED
  BY <1>2, <1>3, ServerAssumption DEF ThreadFree

-----------------------------------------------------------------------------
(* Theorems *)

(* The counter, the sessions and the limit agree in every reachable state. *)
THEOREM CounterInvariance == Spec => []SInv
  BY InitSInv, StepPreserves, PTL DEF Spec

(* Every variable of the server keeps its type; the counter never wraps. *)
THEOREM ServerTyping == Spec => []TypeOK
<1>1. SInv => TypeOK
  BY DEF SInv
<1> QED
  BY <1>1, CounterInvariance, PTL

(***************************************************************************)
(* active_connections_ is exactly the number of open sessions, whichever   *)
(* way each of them ends.                                                  *)
(***************************************************************************)
THEOREM ExactCounter == Spec => []ActiveExact
<1>1. SInv => ActiveExact
  BY DEF SInv
<1> QED
  BY <1>1, CounterInvariance, PTL

(* No more than max_connections sessions are ever open. *)
THEOREM LimitHolds == Spec => [](Cardinality(OpenSessions) <= MaxConnections)
<1>1. SInv => Cardinality(OpenSessions) <= MaxConnections
  BY DEF SInv, ActiveExact, WithinLimit
<1> QED
  BY <1>1, CounterInvariance, PTL

(***************************************************************************)
(* The server implements Admission: the test and the increment of          *)
(* handle_accept are two steps, and still act as one.                      *)
(***************************************************************************)
THEOREM AdmissionImplemented == Spec => ImplementsAdmission
<1>1. Init => Limit!Init
  BY InitAdmits
<1>2. SInv /\ [Next]_vars =>
        [Limit!Next]_(<<OpenSessions, {s \in Sessions : session[s] \in {"closed", "rejected"}}>>)
  BY StepAdmits DEF Gone
<1> QED
  BY <1>1, <1>2, CounterInvariance, PTL DEF Spec, ImplementsAdmission, Limit!Spec

(***************************************************************************)
(* Where fewer API clients are connected than task_pool_ has threads, no   *)
(* request that was posted waits for them: it is in the queue, and either  *)
(* a thread is handling another request, or an idle one can take the head  *)
(* of the queue, which still waits to be taken.                            *)
(***************************************************************************)
THEOREM RequestsNotBlocked ==
  ASSUME Cardinality(ApiClients) < TaskThreads
  PROVE  Spec => []RequestNotBlocked
<1>1. Init => QueueInv
  BY DEF Init, QueueInv, NoneTwice, AllWanted, AllQueued, Wanters, Wanted, Clients
<1>2. SInv /\ QueueInv => RequestNotBlocked
  <2> SUFFICES ASSUME SInv, QueueInv, NEW s \in Sessions, session[s] = "queued"
               PROVE  /\ \E k \in DOMAIN tasks : tasks[k] = s
                      /\ Handling # {} \/ (ThreadFree /\ Wanted(Head(tasks)))
    BY DEF RequestNotBlocked
  <2>1. s \in Wanters
    BY DEF Wanters, Wanted, Clients
  <2>2. PICK k \in DOMAIN tasks : tasks[k] = s
    BY <2>1 DEF QueueInv, AllQueued
  <2>3. 1 \in DOMAIN tasks /\ Head(tasks) = tasks[1]
    <3>1. tasks \in Seq(Clients) /\ tasks # <<>>
      BY <2>2 DEF SInv, TypeOK, Clients
    <3> QED
      BY <3>1
  <2>4. Wanted(Head(tasks))
    BY <2>3 DEF QueueInv, AllWanted, Wanters
  <2> QED
    BY <2>2, <2>4, ThreadForRequests
<1> QED
  BY <1>1, <1>2, StepKeepsQueue, CounterInvariance, PTL DEF Spec
=============================================================================
