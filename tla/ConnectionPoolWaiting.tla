------------------------ MODULE ConnectionPoolWaiting ------------------------
(***************************************************************************)
(* The callers of ConnectionPool that wait: no wakeup of theirs is lost,   *)
(* for every set of threads and every pool size, and they never all wait   *)
(* for each other, if there are more connections than threads that hold    *)
(* one while they wait.  Nor does close_all ever end well: it waits for    *)
(* itself, or leaves a connection behind.                                  *)
(***************************************************************************)
EXTENDS ConnectionPoolRefinement, FiniteSetTheorems

-----------------------------------------------------------------------------
(* No lost wakeup *)

(* The frames that owe the waiting ones a notification, or will pop. *)
Announcing == {f \in Frames : phase[f] \in {"notify", "lock"}}

(* NoLostWakeup counts those frames. *)
LEMMA WakeupCounts ==
  NoLostWakeup <=> (Waiting # {} => Len(available) <= Cardinality(Announcing))
BY DEF NoLostWakeup, Announcing

(* There are finitely many frames. *)
LEMMA FramesFinite == IsFiniteSet(Frames)
<1>1. IsFiniteSet({1, 2})
  <2>1. IsFiniteSet({1})
    BY FS_Singleton
  <2>2. IsFiniteSet({1} \union {2})
    BY <2>1, FS_AddElement
  <2>3. {1} \union {2} = {1, 2}
    OBVIOUS
  <2> QED
    BY <2>2, <2>3
<1> QED
  BY <1>1, FS_Product, PoolAssumption DEF Frames

(* So the announcing ones can be counted, before and after a step. *)
LEMMA AnnouncingFinite ==
  /\ IsFiniteSet(Announcing) /\ Cardinality(Announcing) \in Nat
  /\ IsFiniteSet(Announcing') /\ Cardinality(Announcing') \in Nat
<1>1. Announcing \subseteq Frames /\ Announcing' \subseteq Frames
  BY DEF Announcing
<1>2. IsFiniteSet(Announcing) /\ IsFiniteSet(Announcing')
  BY <1>1, FramesFinite, FS_Subset
<1> QED
  BY <1>2, FS_CardinalityType

(***************************************************************************)
(* A step that puts nobody to sleep, silences nobody and queues nothing    *)
(* loses no wakeup.                                                        *)
(***************************************************************************)
LEMMA QuietStep ==
  ASSUME TypeOK, NoLostWakeup,
         \A f \in Frames :
           /\ phase[f] \in {"notify", "lock"} => phase'[f] \in {"notify", "lock"}
           /\ phase'[f] = "wait" => phase[f] = "wait",
         \/ available' = available
         \/ available # <<>> /\ available' = Tail(available)
  PROVE  NoLostWakeup'
<1>1. Announcing \subseteq Announcing'
  BY DEF Announcing
<1>2. Cardinality(Announcing) <= Cardinality(Announcing')
  BY <1>1, AnnouncingFinite, FS_Subset
<1>3. Waiting' # {} => Waiting # {}
  BY DEF Waiting
<1>4. Len(available) \in Nat /\ Len(available') \in Nat /\ Len(available') <= Len(available)
  BY DEF TypeOK
<1>5. Waiting' # {} => Len(available') <= Cardinality(Announcing')
  BY <1>2, <1>3, <1>4, AnnouncingFinite, WakeupCounts
<1> QED
  BY <1>5 DEF NoLostWakeup, Announcing

(* The steps of a DBManager operation are such steps. *)
LEMMA QuietOperation ==
  ASSUME IInv, NoLostWakeup, NEW t \in Threads,
         Begin(t) \/ CallRefresh(t) \/ Throw(t)
  PROVE  NoLostWakeup'
<1> USE DEF IInv, TypeOK
<1>1. Outer(t) \in Frames /\ Inner(t) \in Frames
  BY FrameFacts
<1>2. available' = available
  BY DEF Begin, CallRefresh, Throw
<1>3. ASSUME NEW f \in Frames
      PROVE  /\ phase[f] \in {"notify", "lock"} => phase'[f] \in {"notify", "lock"}
             /\ phase'[f] = "wait" => phase[f] = "wait"
  <2>1. CASE Begin(t)
    BY <1>1, <2>1 DEF Begin
  <2>2. CASE CallRefresh(t)
    <3>1. phase[Inner(t)] = "none"
      BY <1>1, <2>2 DEF RefreshNested, CallRefresh
    <3> QED
      BY <1>1, <2>2, <3>1 DEF CallRefresh
  <2>3. CASE Throw(t)
    BY <1>1, <2>3 DEF Throw
  <2> QED
    BY <2>1, <2>2, <2>3
<1> QED
  BY <1>2, <1>3, QuietStep

(* So are the steps of one call that end neither it nor its claim to announce. *)
LEMMA QuietFrame ==
  ASSUME IInv, NoLostWakeup, NEW f \in Frames,
         \/ Finish(f) \/ SpuriousWake(f) \/ ProbeOk(f) \/ ProbeRelocks(f)
         \/ DropRunsDeleter(f)
  PROVE  NoLostWakeup'
<1> USE DEF IInv, TypeOK
<1>1. available' = available
  BY DEF Finish, SpuriousWake, ProbeOk, ProbeRelocks, DropRunsDeleter
<1>2. ASSUME NEW g \in Frames
      PROVE  /\ phase[g] \in {"notify", "lock"} => phase'[g] \in {"notify", "lock"}
             /\ phase'[g] = "wait" => phase[g] = "wait"
  BY DEF Finish, SpuriousWake, ProbeOk, ProbeRelocks, DropRunsDeleter
<1> QED
  BY <1>1, <1>2, QuietStep

(* So is the end of a call. *)
LEMMA QuietEnd ==
  ASSUME IInv, NoLostWakeup, NEW f \in Frames, ProbeFails(f) \/ Drop(f)
  PROVE  NoLostWakeup'
<1>1. phase[f] \in {"probe", "drop"} /\ phase' = Ended(f) /\ available' = available
  BY DEF ProbeFails, Drop
<1>2. ASSUME NEW g \in Frames
      PROVE  /\ phase[g] \in {"notify", "lock"} => phase'[g] \in {"notify", "lock"}
             /\ phase'[g] = "wait" => phase[g] = "wait"
  BY <1>1, EndedFacts
<1> QED
  BY <1>1, <1>2, QuietStep DEF IInv

(* A frame goes to sleep only when the queue is empty. *)
LEMMA WaitLosesNone ==
  ASSUME IInv, NEW f \in Frames, Wait(f)
  PROVE  NoLostWakeup'
<1>1. available' = <<>>
  BY DEF Wait
<1>2. Len(available') <= Cardinality(Announcing')
  BY <1>1, AnnouncingFinite
<1> QED
  BY <1>2 DEF NoLostWakeup, Announcing

(* A pop takes one connection and one announcing frame away. *)
LEMMA PopLosesNone ==
  ASSUME IInv, NoLostWakeup, NEW f \in Frames, Pop(f)
  PROVE  NoLostWakeup'
<1> USE DEF IInv, TypeOK
<1>1. f \in Announcing /\ Announcing' = Announcing \ {f} /\ Waiting' = Waiting
  BY DEF Pop, Announcing, Waiting
<1>2. Cardinality(Announcing') = Cardinality(Announcing) - 1
  BY <1>1, AnnouncingFinite, FS_RemoveElement
<1>3. Len(available) \in Nat /\ Len(available') = Len(available) - 1
  BY DEF Pop
<1>4. Waiting' # {} => Len(available') <= Cardinality(Announcing')
  BY <1>1, <1>2, <1>3, AnnouncingFinite, WakeupCounts
<1> QED
  BY <1>4 DEF NoLostWakeup, Announcing

(* A push adds one connection and one frame about to notify. *)
LEMMA PushLosesNone ==
  ASSUME IInv, NoLostWakeup, NEW f \in Frames, Push(f)
  PROVE  NoLostWakeup'
<1> USE DEF IInv, TypeOK
<1>1. f \notin Announcing /\ Announcing' = Announcing \union {f} /\ Waiting' = Waiting
  BY DEF Push, Announcing, Waiting
<1>2. Cardinality(Announcing') = Cardinality(Announcing) + 1
  BY <1>1, AnnouncingFinite, FS_AddElement
<1>3. Len(available) \in Nat /\ Len(available') = Len(available) + 1
  BY DEF Push
<1>4. Waiting' # {} => Len(available') <= Cardinality(Announcing')
  BY <1>1, <1>2, <1>3, AnnouncingFinite, WakeupCounts
<1> QED
  BY <1>4 DEF NoLostWakeup, Announcing

(* A notification is passed on to the frame it wakes, or nobody waits. *)
LEMMA NotifyLosesNone ==
  ASSUME IInv, NoLostWakeup, NEW f \in Frames, Notify(f)
  PROVE  NoLostWakeup'
<1> USE DEF IInv, TypeOK
<1>a. available' = available /\ f \in Announcing
  BY DEF Notify, Announcing
<1>1. CASE Waiting = {}
  <2>1. Waiting' = {}
    BY <1>1 DEF Notify, Waiting
  <2> QED
    BY <2>1 DEF NoLostWakeup
<1>2. CASE Waiting # {}
  <2>1. PICK g \in Waiting : phase' = [phase EXCEPT ![f] = "drop", ![g] = "lock"]
    BY <1>2 DEF Notify
  <2>2. g \in Frames /\ phase[g] = "wait" /\ phase[f] = "notify"
    BY DEF Notify, Waiting
  <2>3. g \notin Announcing /\ Announcing' = (Announcing \ {f}) \union {g}
    BY <2>1, <2>2 DEF Announcing
  <2>4. /\ IsFiniteSet(Announcing \ {f})
        /\ Cardinality(Announcing \ {f}) = Cardinality(Announcing) - 1
    BY <1>a, AnnouncingFinite, FS_RemoveElement
  <2>5. Cardinality(Announcing') = Cardinality(Announcing \ {f}) + 1
    BY <2>3, <2>4, FS_AddElement
  <2>6. Len(available) <= Cardinality(Announcing)
    BY <1>2, WakeupCounts
  <2>7. Len(available') <= Cardinality(Announcing')
    BY <1>a, <2>4, <2>5, <2>6, AnnouncingFinite
  <2> QED
    BY <2>7 DEF NoLostWakeup, Announcing
<1> QED
  BY <1>1, <1>2

(* Every step keeps the wakeups. *)
LEMMA StepLosesNone == IInv /\ NoLostWakeup /\ [Next]_vars => NoLostWakeup'
<1> SUFFICES ASSUME IInv, NoLostWakeup, [Next]_vars PROVE NoLostWakeup'
  OBVIOUS
<1>1. ASSUME NEW t \in Threads, Begin(t) \/ CallRefresh(t) \/ Throw(t)
      PROVE  NoLostWakeup'
  BY <1>1, QuietOperation
<1>2. ASSUME NEW f \in Frames, Finish(f) \/ SpuriousWake(f) PROVE NoLostWakeup'
  BY <1>2, QuietFrame
<1>3. ASSUME NEW f \in Frames, GetConnection(f) PROVE NoLostWakeup'
  BY <1>3, WaitLosesNone, PopLosesNone, QuietFrame, QuietEnd DEF GetConnection
<1>4. ASSUME NEW f \in Frames, ReturnConnection(f) PROVE NoLostWakeup'
  BY <1>4, PushLosesNone, NotifyLosesNone, QuietFrame, QuietEnd DEF ReturnConnection
<1>5. CASE CloseOne
  BY <1>5, QuietStep DEF CloseOne, IInv
<1>6. CASE CloseAll \/ CloseAgain \/ CloseRelocks \/ Closed \/ DbDown \/ DbUp \/ UNCHANGED vars
  <2>1. phase' = phase /\ available' = available
    BY <1>6 DEF CloseAll, CloseAgain, CloseRelocks, Closed, DbDown, DbUp, vars
  <2> QED
    BY <2>1, QuietStep DEF IInv
<1> QED
  BY <1>1, <1>2, <1>3, <1>4, <1>5, <1>6 DEF Next

(***************************************************************************)
(* While a caller of get_connection sleeps, every queued connection has a  *)
(* notification still to come or a caller about to pop it, although        *)
(* return_connection notifies after it has unlocked.                       *)
(***************************************************************************)
THEOREM Wakeups == Spec => []NoLostWakeup
<1>1. Init => NoLostWakeup
  BY DEF Init, NoLostWakeup, Waiting
<1> QED
  BY <1>1, StepLosesNone, Invariance, PTL DEF Spec

-----------------------------------------------------------------------------
(* No circular wait *)

(* The cleanup thread never waits for a second connection. *)
DetachedQuery == \A t \in Detached : kind[t] = "query"

(* A thread that calls the refresh runs update_peer or remove_peer. *)
CallersUpdate == \A t \in Threads : phase[Outer(t)] = "call" => kind[t] = "update"

(* A refresh calls no further refresh. *)
RefreshCallsNone == \A t \in Threads : phase[Inner(t)] # "call"

(* A deleter runs inside get_connection only after an outage. *)
StuckAfterOutage == \A f \in Frames : phase[f] = "stuck" => outages > 0

WaitInv ==
  /\ DetachedQuery
  /\ CallersUpdate
  /\ RefreshCallsNone
  /\ StuckAfterOutage

(* Only Begin chooses the kind of an operation, and only ProbeRelocks hangs. *)
LEMMA KindAndStuck ==
  ASSUME IInv, [Next]_vars
  PROVE  /\ kind' = kind \/ \E t \in Threads : Begin(t)
         /\ \A f \in Frames :
              phase'[f] = "stuck" => phase[f] = "stuck" \/ ProbeRelocks(f)
         /\ \A t \in Threads :
              /\ phase'[Outer(t)] = "call" => phase[Outer(t)] = "call" \/ CallRefresh(t)
              /\ phase'[Inner(t)] = "call" => phase[Inner(t)] = "call"
<1> USE DEF IInv, TypeOK
<1>0. \A t \in Threads : Outer(t) \in Frames /\ Inner(t) \in Frames
  BY FrameFacts
<1>1. CASE CloseAll \/ CloseAgain \/ CloseOne \/ CloseRelocks \/ Closed \/ DbDown \/ DbUp
           \/ UNCHANGED vars
  <2>1. phase' = phase /\ kind' = kind
    BY <1>1 DEF CloseAll, CloseAgain, CloseOne, CloseRelocks, Closed, DbDown, DbUp, vars
  <2> QED
    BY <2>1
<1>2. ASSUME NEW u \in Threads, Begin(u) \/ CallRefresh(u) \/ Throw(u)
      PROVE  /\ kind' = kind \/ Begin(u)
             /\ \A f \in Frames : phase'[f] = "stuck" => phase[f] = "stuck"
             /\ \A t \in Threads :
                  /\ phase'[Outer(t)] = "call" =>
                       phase[Outer(t)] = "call" \/ CallRefresh(t)
                  /\ phase'[Inner(t)] = "call" => phase[Inner(t)] = "call"
  <2>1. CASE Begin(u)
    BY <1>0, <2>1 DEF Begin
  <2>2. CASE CallRefresh(u)
    BY <1>0, <2>2, FrameFacts DEF CallRefresh
  <2>3. CASE Throw(u)
    BY <1>0, <2>3 DEF Throw
  <2> QED
    BY <1>2, <2>1, <2>2, <2>3
<1>3. ASSUME NEW g \in Frames,
             Finish(g) \/ SpuriousWake(g) \/ GetConnection(g) \/ ReturnConnection(g)
      PROVE  /\ kind' = kind
             /\ \A f \in Frames :
                  /\ phase'[f] = "stuck" => phase[f] = "stuck" \/ ProbeRelocks(f)
                  /\ phase'[f] = "call" => phase[f] = "call"
  <2>1. CASE ProbeFails(g) \/ Drop(g)
    <3>1. /\ phase[g] \in {"probe", "drop"} /\ phase' = Ended(g) /\ kind' = kind
      BY <2>1 DEF ProbeFails, Drop
    <3> QED
      BY <3>1, EndedFacts
  <2>2. CASE Finish(g) \/ SpuriousWake(g) \/ Wait(g) \/ Pop(g) \/ ProbeOk(g)
             \/ ProbeRelocks(g) \/ Push(g) \/ DropRunsDeleter(g)
    BY <2>2 DEF Finish, SpuriousWake, Wait, Pop, ProbeOk, ProbeRelocks, Push,
                DropRunsDeleter
  <2>3. CASE Notify(g)
    BY <2>3 DEF Notify, Waiting
  <2> QED
    BY <1>3, <2>1, <2>2, <2>3 DEF GetConnection, ReturnConnection
<1> QED
  BY <1>0, <1>1, <1>2, <1>3 DEF Next

(* WaitInv is kept by every step. *)
LEMMA WaitInvPreserved == IInv /\ LossInv /\ WaitInv /\ [Next]_vars => WaitInv'
<1> SUFFICES ASSUME IInv, LossInv, WaitInv, [Next]_vars PROVE WaitInv'
  OBVIOUS
<1> USE DEF WaitInv
<1>1. outages \in Nat /\ kind \in [Threads -> {"query", "update"}]
  BY DEF IInv, TypeOK
<1>2. DetachedQuery'
  <2>1. ASSUME NEW t \in Threads, Begin(t) PROVE DetachedQuery'
    BY <1>1, <2>1, PoolAssumption DEF Begin, DetachedQuery
  <2> QED
    BY <2>1, KindAndStuck DEF DetachedQuery
<1>3. CallersUpdate'
  <2>1. ASSUME NEW t \in Threads, phase'[Outer(t)] = "call", CallRefresh(t)
        PROVE  kind'[t] = "update"
    BY <2>1 DEF CallRefresh
  <2>2. ASSUME NEW t \in Threads, phase'[Outer(t)] = "call", phase[Outer(t)] = "call"
        PROVE  kind'[t] = "update"
    <3>1. CASE kind' = kind
      BY <2>2, <3>1 DEF CallersUpdate
    <3>2. ASSUME NEW u \in Threads, Begin(u) PROVE kind'[t] = "update"
      <4>1. u # t /\ kind'[t] = kind[t]
        BY <1>1, <2>2, <3>2 DEF Begin
      <4> QED
        BY <2>2, <4>1 DEF CallersUpdate
    <3> QED
      BY <3>1, <3>2, KindAndStuck
  <2> QED
    BY <2>1, <2>2, KindAndStuck DEF CallersUpdate
<1>4. RefreshCallsNone'
  BY KindAndStuck DEF RefreshCallsNone
<1>5. StuckAfterOutage'
  <2>1. outages > 0 => outages' > 0
    <3>1. outages' = outages \/ outages' = outages + 1
      BY ClosingAndOutages, Zenon
    <3> QED
      BY <1>1, <3>1
  <2>2. \A f \in Frames : ProbeRelocks(f) => outages > 0
    BY DEF ProbeRelocks, LossInv, DownAfterOutage
  <2> QED
    BY <2>1, <2>2, KindAndStuck DEF StuckAfterOutage
<1> QED
  BY <1>2, <1>3, <1>4, <1>5

(* No operation has begun at first. *)
LEMMA InitWaitInv == Init => WaitInv
<1> SUFFICES ASSUME Init PROVE WaitInv
  OBVIOUS
<1>1. \A t \in Threads : Outer(t) \in Frames /\ Inner(t) \in Frames
  BY FrameFacts
<1> QED
  BY <1>1, PoolAssumption
     DEF Init, WaitInv, DetachedQuery, CallersUpdate, RefreshCallsNone, StuckAfterOutage

-----------------------------------------------------------------------------
(***************************************************************************)
(* Were all connections held by calls that wait for a second one, each     *)
(* would be held by a thread of its own, and none of them the cleanup      *)
(* thread: there would be as many such threads as connections.             *)
(***************************************************************************)
LEMMA HoldersAreThreads ==
  ASSUME IInv, LossInv, WaitInv, PoolSize > Cardinality(Threads \ Detached)
  PROVE  NoCircularWait
<1> SUFFICES ASSUME closing = "open", outages = 0, available = <<>>,
                    \A f \in Frames : phase[f] \notin {"probe", "use", "return"}
             PROVE  FALSE
  BY DEF NoCircularWait
<1> DEFINE Nested == Threads \ Detached
           Holds(t, c) == phase[Outer(t)] = "call" /\ local[Outer(t)].conn = c
           holder == [c \in Conns |-> CHOOSE t \in Nested : Holds(t, c)]
<1>1. ASSUME NEW c \in Conns PROVE \E t \in Nested : Holds(t, c)
  <2>1. HasPlace(c)
    BY DEF LossInv, PlaceUntilOutage
  <2>2. c \notin Free
    BY DEF Free
  <2>3. PICK f \in Frames : c \in Lent[f]
    BY <2>1, <2>2 DEF HasPlace
  <2>4. phase[f] \in Owning /\ local[f].conn = c
    BY <2>3 DEF Lent
  <2>5. phase[f] # "stuck"
    BY DEF WaitInv, StuckAfterOutage
  <2>6. phase[f] = "call"
    BY <2>4, <2>5 DEF Owning
  <2>7. PICK t \in Threads : f = Outer(t)
    BY <2>6, FrameFacts DEF WaitInv, RefreshCallsNone
  <2>8. t \notin Detached
    BY <2>6, <2>7 DEF WaitInv, DetachedQuery, CallersUpdate
  <2> QED
    BY <2>4, <2>6, <2>7, <2>8
<1>2. \A c \in Conns : holder[c] \in Nested /\ Holds(holder[c], c)
  BY <1>1
<1>3. holder \in Injection(Conns, Nested)
  <2>1. holder \in [Conns -> Nested]
    BY <1>2
  <2>2. ASSUME NEW c \in Conns, NEW d \in Conns, holder[c] = holder[d] PROVE c = d
    <3>1. Holds(holder[c], c) /\ Holds(holder[c], d)
      BY <1>2, <2>2
    <3> QED
      BY <3>1
  <2> HIDE DEF holder
  <2> QED
    BY <2>1, <2>2 DEF Injection, IsInjective
<1>4. IsFiniteSet(Nested)
  BY PoolAssumption, FS_Difference
<1>5. Cardinality(Conns) <= Cardinality(Nested)
  BY <1>3, <1>4, FS_Injection
<1>6. Cardinality(Conns) = PoolSize
  BY PoolAssumption, FS_Interval DEF Conns
<1>7. Cardinality(Nested) \in Nat
  BY <1>4, FS_CardinalityType
<1> QED
  BY <1>5, <1>6, <1>7, PoolAssumption

(***************************************************************************)
(* With more connections than threads that hold one while they wait for    *)
(* another, the waiting calls never hold them all: as long as MySQL has    *)
(* never failed, somebody who waits for no connection will return one.     *)
(***************************************************************************)
THEOREM NoMutualWait ==
  ASSUME PoolSize > Cardinality(Threads \ Detached)
  PROVE  Spec => []NoCircularWait
<1>1. IInv /\ LossInv /\ WaitInv => NoCircularWait
  BY HoldersAreThreads
<1> QED
  BY <1>1, InitLossInv, LossInvPreserved, InitWaitInv, WaitInvPreserved, Invariance, PTL
     DEF Spec

-----------------------------------------------------------------------------
(* The end of the pool *)

(* Connection 1 is under a wrapper in the queue. *)
FirstQueued == \A i \in DOMAIN available : available[i].conn = 1 => available[i].depth > 0

BeforeAgain == closing \in {"open", "closing", "between"}

(***************************************************************************)
(* And wherever a call has it: an exception takes one level off, and so    *)
(* does a deleter, which no call runs for it before close_all.             *)
(***************************************************************************)
FirstHeld ==
  \A f \in Frames : local[f].conn = 1 =>
    /\ phase[f] \in {"use", "call"} => local[f].depth > 1
    /\ phase[f] # "return" \/ BeforeAgain => local[f].depth > 0

(***************************************************************************)
(* Each close_all may take the queue's reference away from under a call,   *)
(* whose deleter then takes one level off.  The cleanup thread, which      *)
(* throws nothing, has two levels to lose until it has pushed between the  *)
(* two calls.                                                              *)
(***************************************************************************)
FirstStale ==
  BeforeAgain =>
    \A t \in Detached : local[Outer(t)].conn = 1 =>
      /\ phase[Outer(t)] = "return" /\ closing = "open" => local[Outer(t)].depth > 1
      /\ phase[Outer(t)] \in {"notify", "drop"} =>
           local[Outer(t)].depth > 1 \/ (closing = "between" /\ HasPlace(1))

(* MySQL has not failed, and nobody but the cleanup thread calls during the teardown. *)
Orderly == outages = 0 /\ unjoined = Detached

FirstWrapped == Orderly => FirstQueued /\ FirstHeld /\ FirstStale

(* A second signal counts when close_all starts. *)
OpenJoined == closing = "open" => unjoined = Detached

(* Those who are joined before close_all have ended, and call no more. *)
WorkersIdle ==
  closing # "open" =>
    \A t \in Threads \ unjoined : phase[Outer(t)] = "none" /\ phase[Inner(t)] = "none"

(* close_all cannot drop the last reference to a wrapper and go on. *)
FirstKept == closing # "open" /\ Orderly => Referenced(1)

(* close_all returns when it has emptied the queue, and nobody pushes after. *)
ClosedEmpty == closing = "closed" => available = <<>>

CloseInv == FirstWrapped /\ OpenJoined /\ WorkersIdle /\ FirstKept /\ ClosedEmpty

(* All that the steps of close_all rest on. *)
PoolInv == IInv /\ LossInv /\ WaitInv /\ CloseInv

(* connect() leaves connection 1 wrapped, by create_tables. *)
LEMMA InitCloseInv == Init => CloseInv
<1> SUFFICES ASSUME Init PROVE CloseInv
  OBVIOUS
<1>1. FirstQueued
  BY PoolAssumption DEF Init, FirstQueued, Conns
<1>0. \A t \in Threads : Outer(t) \in Frames
  BY FrameFacts
<1>2. FirstHeld /\ FirstStale
  BY <1>0, PoolAssumption DEF Init, FirstHeld, FirstStale, Null
<1> QED
  BY <1>1, <1>2
     DEF Init, CloseInv, FirstWrapped, OpenJoined, WorkersIdle, FirstKept, ClosedEmpty

(* ~DBManager goes forward, touches no call, and decides at once who is left. *)
LEMMA ClosingSteps ==
  ASSUME [Next]_vars
  PROVE  /\ BeforeAgain' => BeforeAgain
         /\ closing' = "between" => closing \in {"closing", "between"}
         /\ closing' = "closing" => closing \in {"open", "closing"}
         /\ unjoined' = unjoined \/ CloseAll
         /\ closing' = closing \/ UNCHANGED <<available, phase, local>>
<1>1. CASE CloseAll \/ CloseAgain \/ CloseOne \/ CloseRelocks \/ Closed
           \/ DbDown \/ DbUp \/ UNCHANGED vars
  BY <1>1 DEF CloseAll, CloseAgain, CloseOne, CloseRelocks, Closed, DbDown, DbUp, vars,
              InCloseAll, BeforeAgain
<1>2. ASSUME NEW t \in Threads, Begin(t) \/ CallRefresh(t) \/ Throw(t)
      PROVE  UNCHANGED <<closing, unjoined>>
  BY <1>2 DEF Begin, CallRefresh, Throw
<1>3. ASSUME NEW f \in Frames,
             Finish(f) \/ SpuriousWake(f) \/ GetConnection(f) \/ ReturnConnection(f)
      PROVE  UNCHANGED <<closing, unjoined>>
  BY <1>3 DEF Finish, SpuriousWake, GetConnection, Wait, Pop, ProbeOk, ProbeFails,
              ProbeRelocks, ReturnConnection, Push, Notify, Drop, DropRunsDeleter
<1> QED
  BY <1>1, <1>2, <1>3 DEF Next, BeforeAgain

(* Once ~DBManager runs in good order, only the cleanup thread is in the pool. *)
LEMMA OnlyDetached ==
  ASSUME PoolInv, closing # "open", unjoined = Detached, NEW f \in Frames,
         phase[f] # "none"
  PROVE  \E t \in Detached : f = Outer(t)
<1>1. PICK t \in Threads : f = Outer(t) \/ f = Inner(t)
  BY FrameFacts
<1>2. t \in Detached
  BY <1>1 DEF PoolInv, CloseInv, WorkersIdle
<1>3. phase[Outer(t)] # "call"
  BY <1>2, PoolAssumption DEF PoolInv, WaitInv, DetachedQuery, CallersUpdate
<1>4. f = Outer(t)
  BY <1>1, <1>3 DEF PoolInv, IInv, RefreshNested
<1> QED
  BY <1>2, <1>4

(* A frame comes to life by Begin, or by the refresh of a thread that runs one. *)
LEMMA WhoStarts ==
  ASSUME IInv, [Next]_vars, NEW g \in Frames, phase[g] = "none", phase'[g] # "none"
  PROVE  \E t \in Threads :
           (Begin(t) /\ g = Outer(t)) \/ (CallRefresh(t) /\ g = Inner(t))
<1> USE DEF IInv, TypeOK
<1>0. \A t \in Threads : Outer(t) \in Frames /\ Inner(t) \in Frames
  BY FrameFacts
<1>1. CASE CloseAll \/ CloseAgain \/ CloseOne \/ CloseRelocks \/ Closed \/ DbDown \/ DbUp
           \/ UNCHANGED vars
  BY <1>1 DEF CloseAll, CloseAgain, CloseOne, CloseRelocks, Closed, DbDown, DbUp, vars
<1>2. ASSUME NEW t \in Threads, Begin(t) \/ CallRefresh(t) \/ Throw(t)
      PROVE  (Begin(t) /\ g = Outer(t)) \/ (CallRefresh(t) /\ g = Inner(t))
  <2>1. Begin(t) => g = Outer(t)
    BY <1>0 DEF Begin
  <2>2. CallRefresh(t) => g = Inner(t)
    <3>1. CallRefresh(t) => phase' = [phase EXCEPT ![Outer(t)] = "call", ![Inner(t)] = "lock"]
                            /\ phase[Outer(t)] = "use"
      BY DEF CallRefresh
    <3> QED
      BY <1>0, <3>1
  <2>3. ~Throw(t)
    BY <1>0 DEF Throw
  <2> QED
    BY <1>2, <2>1, <2>2, <2>3, Zenon
<1>3. ASSUME NEW f \in Frames,
             Finish(f) \/ SpuriousWake(f) \/ GetConnection(f) \/ ReturnConnection(f)
      PROVE  FALSE
  <2>1. CASE ProbeFails(f) \/ Drop(f)
    <3>1. phase[f] \in {"probe", "drop"} /\ phase' = Ended(f)
      BY <2>1 DEF ProbeFails, Drop
    <3> QED
      BY <3>1, EndedFacts
  <2>2. CASE Finish(f) \/ SpuriousWake(f) \/ Wait(f) \/ Pop(f) \/ ProbeOk(f)
             \/ ProbeRelocks(f) \/ Push(f) \/ DropRunsDeleter(f)
    BY <2>2 DEF Finish, SpuriousWake, Wait, Pop, ProbeOk, ProbeRelocks, Push,
                DropRunsDeleter
  <2>3. CASE Notify(f)
    BY <2>3 DEF Notify, Waiting
  <2> QED
    BY <1>3, <2>1, <2>2, <2>3 DEF GetConnection, ReturnConnection
<1> QED
  BY <1>1, <1>2, <1>3 DEF Next

(* close_all starts when the joined threads are idle, and they stay idle. *)
LEMMA WorkersStayIdle ==
  ASSUME PoolInv, [Next]_vars
  PROVE  WorkersIdle'
<1> USE DEF PoolInv, CloseInv
<1> SUFFICES ASSUME closing' # "open", NEW t \in Threads \ unjoined'
             PROVE  phase'[Outer(t)] = "none" /\ phase'[Inner(t)] = "none"
  BY DEF WorkersIdle
<1>0. Outer(t) \in Frames /\ Inner(t) \in Frames
  BY FrameFacts
<1>1. CASE closing = "open"
  <2>1. CloseAll
    <3>1. ASSUME NEW u \in Threads, Begin(u) \/ CallRefresh(u) \/ Throw(u) PROVE FALSE
      BY <1>1, <3>1 DEF Begin, CallRefresh, Throw
    <3>2. ASSUME NEW f \in Frames,
                 Finish(f) \/ SpuriousWake(f) \/ GetConnection(f) \/ ReturnConnection(f)
          PROVE  FALSE
      BY <1>1, <3>2 DEF Finish, SpuriousWake, GetConnection, Wait, Pop, ProbeOk,
                        ProbeFails, ProbeRelocks, ReturnConnection, Push, Notify, Drop,
                        DropRunsDeleter
    <3>3. ~(CloseAgain \/ CloseOne \/ CloseRelocks \/ Closed \/ DbDown \/ DbUp
            \/ UNCHANGED vars)
      BY <1>1 DEF CloseAgain, CloseOne, CloseRelocks, Closed, InCloseAll, DbDown, DbUp, vars
    <3> QED
      BY <3>1, <3>2, <3>3 DEF Next
  <2>2. phase' = phase /\ phase[Outer(t)] = "none"
    BY <2>1 DEF CloseAll
  <2>3. phase[Inner(t)] = "none"
    BY <2>2 DEF IInv, RefreshNested
  <2> QED
    BY <2>2, <2>3
<1>2. CASE closing # "open"
  <2>0. unjoined' = unjoined
    BY <1>2, ClosingSteps DEF CloseAll
  <2>1. phase[Outer(t)] = "none" /\ phase[Inner(t)] = "none"
    BY <1>2, <2>0 DEF WorkersIdle
  <2>2. ASSUME NEW u \in Threads, Begin(u) PROVE Outer(t) # Outer(u) /\ Inner(t) # Outer(u)
    BY <1>2, <2>0, <2>2, FrameFacts DEF Begin
  <2>3. ASSUME NEW u \in Threads, CallRefresh(u)
        PROVE  Outer(t) # Inner(u) /\ Inner(t) # Inner(u)
    <3>1. u # t
      BY <2>1, <2>3 DEF CallRefresh
    <3> QED
      BY <3>1, FrameFacts
  <2> QED
    BY <1>0, <2>1, <2>2, <2>3, WhoStarts
<1> QED
  BY <1>1, <1>2

(***************************************************************************)
(* A step that changes no handle, and wraps none up for use, leaves the    *)
(* first connection wrapped.                                               *)
(***************************************************************************)
LEMMA SameHandlesWrapped ==
  ASSUME IInv, FirstQueued, FirstHeld, local' = local,
         available' = available \/ (available # <<>> /\ available' = Tail(available)),
         BeforeAgain' => BeforeAgain,
         \A g \in Frames :
           /\ phase'[g] \in {"use", "call"} => phase[g] \in {"use", "call"}
           /\ phase[g] = "return" => phase'[g] = "return"
  PROVE  FirstQueued' /\ FirstHeld'
<1>1. FirstQueued'
  <2>1. CASE available' = available
    BY <2>1 DEF FirstQueued
  <2>2. CASE available # <<>> /\ available' = Tail(available)
    BY <2>2, TailFacts DEF FirstQueued, IInv, TypeOK
  <2> QED
    BY <2>1, <2>2
<1>2. FirstHeld'
  BY DEF FirstHeld
<1> QED
  BY <1>1, <1>2

(* The teardown becomes disorderly for good. *)
LEMMA StaysOrderly ==
  ASSUME PoolInv, [Next]_vars, Orderly'
  PROVE  Orderly /\ dbUp
<1> USE DEF PoolInv, Orderly
<1>1. outages \in Nat
  BY DEF IInv, TypeOK
<1>2. outages' = outages \/ outages' = outages + 1
  BY ClosingAndOutages, Zenon
<1>3. outages = 0
  BY <1>1, <1>2
<1>4. unjoined = Detached
  BY ClosingSteps DEF CloseInv, OpenJoined, CloseAll
<1> QED
  BY <1>3, <1>4 DEF LossInv, DownAfterOutage, IInv, TypeOK

(***************************************************************************)
(* A stale reference that is the last one: its connection has no place, or *)
(* the handle there would keep the stale one alive.                        *)
(***************************************************************************)
LEMMA NoPlaceLeft ==
  ASSUME IInv, NEW f \in Frames, phase[f] = "drop", LastRef(f)
  PROVE  ~HasPlace(local[f].conn)
<1> USE DEF IInv, TypeOK
<1>1. ASSUME NEW k \in DOMAIN available, available[k].conn = local[f].conn PROVE FALSE
  BY <1>1 DEF StaleBelowQueued, Stale, LastRef, KeepsAlive
<1>2. ASSUME NEW g \in Frames, local[f].conn \in Lent[g] PROVE FALSE
  <2>1. phase[g] \in Owning /\ local[g].conn = local[f].conn /\ g # f
    BY <1>2 DEF Lent, Owning
  <2>2. local[g].depth \in Nat /\ local[f].depth \in Nat
    BY HandleFacts
  <2>3. local[g].depth >= local[f].depth
    BY <2>1, <2>2 DEF StaleBelowOwned, Stale
  <2> QED
    BY <2>1, <2>3 DEF LastRef, KeepsAlive
<1> QED
  BY <1>1, <1>2 DEF HasPlace, Free

(* Steps of a DBManager operation. *)
LEMMA OperationKeepsWrapped ==
  ASSUME PoolInv, FirstQueued, FirstHeld, NEW t \in Threads,
         Begin(t) \/ CallRefresh(t) \/ Throw(t)
  PROVE  FirstQueued' /\ FirstHeld'
<1> USE DEF PoolInv, IInv, TypeOK, BeforeAgain
<1>0. Outer(t) \in Frames /\ Inner(t) \in Frames
  BY FrameFacts
<1>1. CASE Begin(t)
  BY <1>0, <1>1, SameHandlesWrapped DEF Begin
<1>2. CASE CallRefresh(t)
  <2>1. phase[Inner(t)] = "none"
    BY <1>0, <1>2 DEF CallRefresh, RefreshNested
  <2> QED
    BY <1>0, <1>2, <2>1, SameHandlesWrapped DEF CallRefresh
<1>3. CASE Throw(t)
  <2>1. local'[Outer(t)].conn = 1 => local'[Outer(t)].depth > 0
    BY <1>0, <1>3, HandleFacts DEF Throw, FirstHeld
  <2>2. \A g \in Frames \ {Outer(t)} : local'[g] = local[g] /\ phase'[g] = phase[g]
    BY <1>3 DEF Throw
  <2>3. phase'[Outer(t)] = "return"
    BY <1>0, <1>3 DEF Throw
  <2>4. FirstHeld'
    BY <1>3, <2>1, <2>2, <2>3 DEF FirstHeld, Throw
  <2>5. available' = available
    BY <1>3 DEF Throw
  <2>6. FirstQueued'
    BY <2>5 DEF FirstQueued
  <2> QED
    BY <2>4, <2>6
<1> QED
  BY <1>1, <1>2, <1>3

(* Steps of get_connection while MySQL answers: a pop and a wrapping. *)
LEMMA GetKeepsWrapped ==
  ASSUME PoolInv, FirstQueued, FirstHeld, dbUp, NEW f \in Frames, GetConnection(f)
  PROVE  FirstQueued' /\ FirstHeld'
<1> USE DEF PoolInv, IInv, TypeOK, BeforeAgain
<1>1. CASE Wait(f)
  BY <1>1, SameHandlesWrapped DEF Wait
<1>2. CASE Pop(f)
  <2>1. available # <<>> /\ available' = Tail(available)
    BY <1>2 DEF Pop
  <2>2. FirstQueued'
    BY <2>1, TailFacts DEF FirstQueued
  <2>3. Head(available).conn = 1 => Head(available).depth > 0
    BY <2>1, TailFacts DEF FirstQueued
  <2>4. local'[f] = Head(available) /\ phase'[f] = "probe"
    BY <1>2 DEF Pop
  <2>5. \A g \in Frames \ {f} : local'[g] = local[g] /\ phase'[g] = phase[g]
    BY <1>2 DEF Pop
  <2>6. closing' = closing
    BY <1>2 DEF Pop
  <2>7. FirstHeld'
    BY <2>3, <2>4, <2>5, <2>6 DEF FirstHeld
  <2> QED
    BY <2>2, <2>7
<1>3. CASE ProbeOk(f)
  <2>0. /\ local[f] = [conn |-> local[f].conn, depth |-> local[f].depth]
        /\ local[f].depth \in Nat
    BY HandleFacts
  <2>a. local'[f] = [conn |-> local[f].conn, depth |-> local[f].depth + 1]
    BY <1>3, <2>0 DEF ProbeOk
  <2>1. local'[f].conn = 1 => local'[f].depth > 1
    BY <1>3, <2>0, <2>a DEF ProbeOk, FirstHeld
  <2>2. /\ \A g \in Frames \ {f} : local'[g] = local[g] /\ phase'[g] = phase[g]
        /\ phase'[f] = "use" /\ closing' = closing
    BY <1>3 DEF ProbeOk
  <2>3. local'[f].depth \in Nat
    BY <2>0, <2>a
  <2>b. local'[f].conn = 1 => local'[f].depth > 0
    BY <2>1, <2>3
  <2>4. FirstHeld'
    <3> SUFFICES ASSUME NEW g \in Frames, (local[g].conn = 1)'
                 PROVE  /\ phase'[g] \in {"use", "call"} => local'[g].depth > 1
                        /\ phase'[g] # "return" \/ BeforeAgain' => local'[g].depth > 0
      BY DEF FirstHeld
    <3>1. CASE g = f
      BY <2>1, <2>b, <3>1
    <3>2. CASE g # f
      BY <2>2, <3>2 DEF FirstHeld
    <3> QED
      BY <3>1, <3>2
  <2>5. available' = available
    BY <1>3 DEF ProbeOk
  <2>6. FirstQueued'
    BY <2>5 DEF FirstQueued
  <2> QED
    BY <2>4, <2>6
<1>4. ~ProbeFails(f) /\ ~ProbeRelocks(f)
  BY DEF ProbeFails, ProbeRelocks
<1> QED
  BY <1>1, <1>2, <1>3, <1>4 DEF GetConnection

(***************************************************************************)
(* Steps of return_connection.  The deleter of a stale reference to        *)
(* connection 1 does not run in an open pool: the connection has a place,  *)
(* and there under a handle that keeps the stale one alive.                *)
(***************************************************************************)
LEMMA ReturnKeepsWrapped ==
  ASSUME PoolInv, FirstQueued, FirstHeld, FirstStale, Orderly, NEW f \in Frames,
         ReturnConnection(f)
  PROVE  FirstQueued' /\ FirstHeld'
<1> USE DEF PoolInv, IInv, TypeOK, BeforeAgain
<1>1. CASE Push(f)
  <2>1. BeforeAgain /\ phase[f] = "return"
    BY <1>1 DEF Push, MutexFree
  <2>2. local[f].conn = 1 => local[f].depth > 0
    BY <2>1 DEF FirstHeld
  <2>3. local[f] \in [conn : Conns, depth : Nat]
    <3>1. local[f] \in Handles /\ local[f].conn \in Conns
      BY <2>1 DEF HandleInUse
    <3> QED
      BY <3>1 DEF Handles
  <2>4. FirstQueued'
    BY <1>1, <2>2, <2>3, AppendFacts DEF FirstQueued, Push
  <2>5. FirstHeld'
    BY <1>1, <2>1 DEF FirstHeld, Push
  <2> QED
    BY <2>4, <2>5
<1>2. CASE Notify(f)
  BY <1>2, SameHandlesWrapped DEF Notify, Waiting
<1>3. CASE Drop(f)
  <2>1. phase[f] = "drop" /\ phase' = Ended(f)
    BY <1>3 DEF Drop
  <2>2. local'[f].conn = 0
    BY <1>3 DEF Drop, Null
  <2>3. ASSUME NEW g \in Frames \ {f}
        PROVE  /\ local'[g] = local[g]
               /\ phase'[g] = phase[g] \/ (phase[g] = "call" /\ phase'[g] = "return")
    BY <1>3, <2>1, EndedFacts DEF Drop
  <2>4. \A g \in Frames : local[g].depth \in Nat
    BY HandleFacts
  <2>5. FirstHeld'
    BY <1>3, <2>2, <2>3, <2>4 DEF FirstHeld, Drop
  <2> QED
    BY <1>3, <2>5 DEF FirstQueued, Drop
<1>4. CASE DropRunsDeleter(f)
  <2>1. phase[f] = "drop" /\ LastRef(f) /\ phase'[f] = "return" /\ closing' = closing
    BY <1>4 DEF DropRunsDeleter
  <2>2. ASSUME local[f].conn = 1, BeforeAgain PROVE local[f].depth > 1
    <3>1. ~HasPlace(1)
      BY <2>1, <2>2, NoPlaceLeft
    <3>2. 1 \in Conns
      BY PoolAssumption DEF Conns
    <3>3. closing # "open"
      BY <3>1, <3>2 DEF LossInv, PlaceUntilOutage, Orderly
    <3>4. PICK t \in Detached : f = Outer(t)
      BY <2>1, <3>3, OnlyDetached DEF Orderly
    <3> QED
      BY <2>1, <2>2, <3>1, <3>4 DEF FirstStale
  <2>a. local'[f] = [conn |-> local[f].conn, depth |-> local[f].depth - 1]
        /\ local[f].depth \in Nat
    BY <1>4, HandleFacts DEF DropRunsDeleter
  <2>3. local'[f].conn = 1 /\ BeforeAgain => local'[f].depth > 0
    BY <2>2, <2>a
  <2>4. \A g \in Frames \ {f} : local'[g] = local[g] /\ phase'[g] = phase[g]
    BY <1>4 DEF DropRunsDeleter
  <2>5. FirstHeld'
    BY <2>1, <2>2, <2>3, <2>4 DEF FirstHeld
  <2> QED
    BY <1>4, <2>5 DEF FirstQueued, DropRunsDeleter
<1> QED
  BY <1>1, <1>2, <1>3, <1>4 DEF ReturnConnection

(* What a call has after a step that it had before, and how it got to let it go. *)
LEMMA HowStale ==
  ASSUME IInv, [Next]_vars, NEW f \in Frames,
         phase'[f] \in {"return", "notify", "drop"}
  PROVE  \/ /\ local'[f] = local[f]
            /\ \/ phase'[f] = phase[f]
               \/ phase'[f] = "drop" /\ phase[f] = "notify"
               \/ phase'[f] = "return" /\ phase[f] \in {"use", "call"}
         \/ Push(f)
         \/ DropRunsDeleter(f)
         \/ \E t \in Threads : Throw(t) /\ f = Outer(t)
<1> USE DEF IInv, TypeOK
<1>0. \A t \in Threads : Outer(t) \in Frames /\ Inner(t) \in Frames
  BY FrameFacts
<1>1. CASE CloseAll \/ CloseAgain \/ CloseOne \/ CloseRelocks \/ Closed \/ DbDown \/ DbUp
           \/ UNCHANGED vars
  BY <1>1 DEF CloseAll, CloseAgain, CloseOne, CloseRelocks, Closed, DbDown, DbUp, vars
<1>2. ASSUME NEW t \in Threads, Begin(t) \/ CallRefresh(t)
      PROVE  local'[f] = local[f] /\ phase'[f] = phase[f]
  <2>1. CASE Begin(t)
    BY <1>0, <2>1 DEF Begin
  <2>2. CASE CallRefresh(t)
    BY <1>0, <2>2 DEF CallRefresh
  <2> QED
    BY <1>2, <2>1, <2>2
<1>3. ASSUME NEW t \in Threads, Throw(t), f # Outer(t)
      PROVE  local'[f] = local[f] /\ phase'[f] = phase[f]
  BY <1>3 DEF Throw
<1>4. ASSUME NEW g \in Frames, Finish(g) \/ SpuriousWake(g) \/ GetConnection(g)
      PROVE  /\ local'[f] = local[f]
             /\ \/ phase'[f] = phase[f]
                \/ phase'[f] = "return" /\ phase[f] \in {"use", "call"}
  <2>1. CASE ProbeFails(g)
    BY <2>1, EndedFacts DEF ProbeFails
  <2>2. CASE Finish(g) \/ SpuriousWake(g) \/ Wait(g) \/ Pop(g) \/ ProbeOk(g)
             \/ ProbeRelocks(g)
    BY <2>2 DEF Finish, SpuriousWake, Wait, Pop, ProbeOk, ProbeRelocks
  <2> QED
    BY <1>4, <2>1, <2>2 DEF GetConnection
<1>5. ASSUME NEW g \in Frames, Notify(g) \/ Drop(g)
      PROVE  /\ local'[f] = local[f]
             /\ \/ phase'[f] = phase[f]
                \/ phase'[f] = "drop" /\ phase[f] = "notify"
                \/ phase'[f] = "return" /\ phase[f] = "call"
  <2>1. CASE Drop(g)
    BY <2>1, EndedFacts DEF Drop
  <2>2. CASE Notify(g)
    BY <2>2 DEF Notify, Waiting
  <2> QED
    BY <1>5, <2>1, <2>2
<1>6. ASSUME NEW g \in Frames, g # f, Push(g) \/ DropRunsDeleter(g)
      PROVE  local'[f] = local[f] /\ phase'[f] = phase[f]
  BY <1>6 DEF Push, DropRunsDeleter
<1> QED
  BY <1>1, <1>2, <1>3, <1>4, <1>5, <1>6 DEF Next, ReturnConnection

(* The second close_all finds no place of connection 1 taken but by the first. *)
LEMMA PlaceKeptBetween ==
  ASSUME PoolInv, [Next]_vars, outages = 0, closing = "between", closing' = "between",
         HasPlace(1)
  PROVE  HasPlace(1)'
<1>1. ~CloseOne
  BY DEF CloseOne, InCloseAll
<1>2. ~\E f \in Frames : ProbeFails(f)
  BY DEF PoolInv, IInv, TypeOK, LossInv, DownAfterOutage, ProbeFails
<1>3. 1 \in Conns
  BY PoolAssumption DEF Conns
<1> QED
  BY <1>1, <1>2, <1>3, StepKinds, PlaceKept DEF PoolInv

(* The cleanup thread keeps its two levels until it pushes between the calls. *)
LEMMA StaysStale ==
  ASSUME PoolInv, [Next]_vars, FirstHeld, FirstStale, Orderly, Orderly'
  PROVE  FirstStale'
<1> USE DEF PoolInv
<1> DEFINE F(t) == Outer(t)
<1> SUFFICES ASSUME BeforeAgain', NEW t \in Detached, (local[F(t)].conn = 1)'
             PROVE  /\ (phase[F(t)] = "return" /\ closing = "open"
                           => local[F(t)].depth > 1)'
                    /\ (phase[F(t)] \in {"notify", "drop"}
                           => \/ local[F(t)].depth > 1
                              \/ closing = "between" /\ HasPlace(1))'
  BY DEF FirstStale
<1>0. F(t) \in Frames /\ t \in Threads
  BY FrameFacts, PoolAssumption
<1>1. BeforeAgain /\ outages = 0
  BY ClosingSteps DEF Orderly
<1>2. closing' = "open" => closing = "open"
  BY ClosingAndOutages
<1>3. CASE phase'[F(t)] \notin {"return", "notify", "drop"}
  BY <1>3
<1>4. CASE local'[F(t)] = local[F(t)] /\ phase'[F(t)] = phase[F(t)]
  <2>1. /\ phase[F(t)] = "return" /\ closing = "open" => local[F(t)].depth > 1
        /\ phase[F(t)] \in {"notify", "drop"} =>
             local[F(t)].depth > 1 \/ (closing = "between" /\ HasPlace(1))
    BY <1>1, <1>4 DEF FirstStale
  <2>2. closing = "between" => closing' = "between"
    <3>1. closing = "between" => closing' # "open" /\ closing' # "closing"
      BY <1>2, ClosingSteps
    <3> QED
      BY <3>1 DEF BeforeAgain
  <2> QED
    BY <1>1, <1>2, <1>4, <2>1, <2>2, PlaceKeptBetween
<1>5. CASE local'[F(t)] = local[F(t)] /\ phase'[F(t)] = "drop" /\ phase[F(t)] = "notify"
  <2>1. local[F(t)].depth > 1 \/ (closing = "between" /\ HasPlace(1))
    BY <1>1, <1>5 DEF FirstStale
  <2>2. closing' = closing
    BY <1>5, ClosingSteps
  <2> QED
    BY <1>1, <1>5, <2>1, <2>2, PlaceKeptBetween
<1>6. CASE /\ local'[F(t)] = local[F(t)]
           /\ phase'[F(t)] = "return"
           /\ phase[F(t)] \in {"use", "call"}
  BY <1>0, <1>6 DEF FirstHeld
<1>7. CASE Push(F(t))
  <2>1. /\ closing' = closing /\ local' = local /\ phase[F(t)] = "return"
        /\ phase'[F(t)] = "notify" /\ closing \in {"open", "between"}
        /\ available' = Append(available, local[F(t)])
    BY <1>0, <1>7 DEF Push, MutexFree, IInv, TypeOK
  <2>2. CASE closing = "open"
    BY <1>1, <2>1, <2>2 DEF FirstStale
  <2>3. CASE closing = "between"
    <3>1. local[F(t)] \in [conn : Conns, depth : Nat] /\ local[F(t)].conn = 1
      <4>1. local[F(t)] \in Handles /\ local[F(t)].conn \in Conns
        BY <1>0, <2>1 DEF IInv, TypeOK, HandleInUse
      <4> QED
        BY <2>1, <4>1 DEF Handles
    <3>2. \E i \in DOMAIN available' : available'[i].conn = 1
      BY <2>1, <3>1, AppendFacts DEF IInv, TypeOK
    <3> QED
      BY <2>1, <2>3, <3>2 DEF HasPlace, Free
  <2> QED
    BY <2>1, <2>2, <2>3
<1>8. CASE DropRunsDeleter(F(t))
  <2>1. /\ closing' = closing /\ phase[F(t)] = "drop" /\ LastRef(F(t))
        /\ phase'[F(t)] = "return" /\ local'[F(t)].conn = local[F(t)].conn
    BY <1>0, <1>8, HandleFacts DEF DropRunsDeleter, IInv, TypeOK
  <2>2. ~HasPlace(1)
    BY <1>0, <2>1, NoPlaceLeft
  <2>3. closing # "open"
    BY <1>1, <2>2, PoolAssumption DEF LossInv, PlaceUntilOutage, Conns
  <2> QED
    BY <2>1, <2>3
<1>9. ASSUME NEW u \in Threads, Throw(u), F(t) = Outer(u) PROVE FALSE
  <2>1. t = u
    BY <1>0, <1>9, FrameFacts
  <2> QED
    BY <1>9, <2>1 DEF Throw
<1> QED
  BY <1>0, <1>3, <1>4, <1>5, <1>6, <1>7, <1>8, <1>9, HowStale

(* No step unwraps connection 1 before MySQL fails. *)
LEMMA StaysWrapped ==
  ASSUME PoolInv, [Next]_vars
  PROVE  FirstWrapped'
<1> SUFFICES ASSUME Orderly' PROVE FirstQueued' /\ FirstHeld' /\ FirstStale'
  BY DEF FirstWrapped
<1> USE DEF PoolInv
<1>0. Orderly /\ dbUp
  BY StaysOrderly
<1>2. FirstQueued /\ FirstHeld /\ FirstStale
  BY <1>0 DEF CloseInv, FirstWrapped
<1>3. ASSUME CloseAll \/ CloseAgain \/ CloseOne \/ CloseRelocks \/ Closed
             \/ DbDown \/ DbUp \/ UNCHANGED vars
      PROVE  FirstQueued' /\ FirstHeld'
  <2>1. local' = local /\ phase' = phase
    BY <1>3 DEF CloseAll, CloseAgain, CloseOne, CloseRelocks, Closed, DbDown, DbUp, vars
  <2>2. available' = available \/ (available # <<>> /\ available' = Tail(available))
    BY <1>3 DEF CloseAll, CloseAgain, CloseOne, CloseRelocks, Closed, DbDown, DbUp, vars
  <2>3. BeforeAgain' => BeforeAgain
    BY ClosingSteps
  <2>4. IInv
    OBVIOUS
  <2> QED
    BY <1>2, <2>1, <2>2, <2>3, <2>4, SameHandlesWrapped
<1>4. ASSUME NEW f \in Frames, Finish(f) \/ SpuriousWake(f)
      PROVE  FirstQueued' /\ FirstHeld'
  <2>1. CASE Finish(f)
    BY <1>2, <2>1, SameHandlesWrapped DEF Finish, IInv, TypeOK, BeforeAgain
  <2>2. CASE SpuriousWake(f)
    BY <1>2, <2>2, SameHandlesWrapped DEF SpuriousWake, IInv, TypeOK, BeforeAgain
  <2> QED
    BY <1>4, <2>1, <2>2
<1>5. FirstQueued' /\ FirstHeld'
  BY <1>0, <1>2, <1>3, <1>4, OperationKeepsWrapped, GetKeepsWrapped, ReturnKeepsWrapped
     DEF Next
<1> QED
  BY <1>0, <1>2, <1>5, StaysStale

(***************************************************************************)
(* close_all and the cleanup thread let go of connection 1 only while the  *)
(* other still refers to it: neither can drop a wrapper's last reference.  *)
(***************************************************************************)
LEMMA FirstStaysKept ==
  ASSUME PoolInv, [Next]_vars
  PROVE  FirstKept'
<1> USE DEF PoolInv
<1> SUFFICES ASSUME closing' # "open", Orderly' PROVE Referenced(1)'
  BY DEF FirstKept
<1>1. Orderly /\ outages = 0 /\ dbUp
  BY StaysOrderly DEF Orderly
<1>2. 1 \in Conns
  BY PoolAssumption DEF Conns
<1>3. Referenced(1)
  <2>1. CASE closing = "open"
    <3>1. HasPlace(1)
      BY <1>1, <1>2, <2>1 DEF LossInv, PlaceUntilOutage
    <3> QED
      BY <3>1 DEF HasPlace, Free, Lent, Referenced
  <2>2. CASE closing # "open"
    BY <1>1, <2>2 DEF CloseInv, FirstKept
  <2> QED
    BY <2>1, <2>2
<1>4. FirstQueued /\ FirstHeld
  BY <1>1 DEF CloseInv, FirstWrapped
<1>5. ASSUME NEW f \in Frames, Drop(f) PROVE ~Loses(1)
  <2>1. local[f] = [conn |-> 1, depth |-> 0] => FALSE
    BY <1>4, <1>5 DEF Drop, FirstHeld
  <2> QED
    BY <1>2, <1>5, <2>1, EndLosesOriginal DEF Drop
<1>6. ASSUME CloseOne PROVE Referenced(1)'
  <2> USE DEF IInv, TypeOK
  <2>0. available # <<>> /\ available' = Tail(available) /\ local' = local
    BY <1>6 DEF CloseOne
  <2>1. ASSUME NEW f \in Frames, local[f].conn = 1 PROVE Referenced(1)'
    BY <2>0, <2>1 DEF Referenced
  <2>2. ASSUME NEW k \in DOMAIN available, k # 1, available[k].conn = 1
        PROVE  Referenced(1)'
    <3>1. k - 1 \in DOMAIN available' /\ available'[k - 1].conn = 1
      BY <2>0, <2>2, TailInverse
    <3> QED
      BY <3>1 DEF Referenced
  <2>3. CASE Head(available).conn = 1
    <3>1. Head(available).depth > 0
      BY <1>4, <2>0, <2>3, TailFacts DEF FirstQueued
    <3>2. ~HeadIsLastRef
      BY <1>6, <3>1 DEF CloseOne
    <3>3. \/ \E k \in 2 .. Len(available) : available[k].conn = 1
          \/ \E f \in Frames : local[f].conn = 1
      BY <2>3, <3>2 DEF HeadIsLastRef, KeepsAlive
    <3> QED
      BY <2>1, <2>2, <3>3
  <2>4. CASE Head(available).conn # 1
    <3>1. available[1].conn # 1
      BY <2>0, <2>4, TailFacts
    <3> QED
      BY <1>3, <2>1, <2>2, <3>1 DEF Referenced
  <2> QED
    BY <2>3, <2>4
<1>7. ASSUME NEW f \in Frames, ProbeFails(f) PROVE FALSE
  BY <1>1, <1>7 DEF ProbeFails
<1> QED
  BY <1>2, <1>3, <1>5, <1>6, <1>7, WhoLoses DEF Loses

(* A closed pool gets nothing back. *)
LEMMA StaysEmpty ==
  ASSUME PoolInv, [Next]_vars
  PROVE  ClosedEmpty'
<1> USE DEF PoolInv, CloseInv, ClosedEmpty
<1> SUFFICES ASSUME closing' = "closed" PROVE available' = <<>>
  OBVIOUS
<1>1. CASE CloseAll \/ CloseAgain \/ CloseOne \/ CloseRelocks \/ Closed \/ DbDown \/ DbUp
           \/ UNCHANGED vars
  BY <1>1 DEF CloseAll, CloseAgain, CloseOne, CloseRelocks, Closed, DbDown, DbUp, vars
<1>2. ASSUME NEW t \in Threads, Begin(t) \/ CallRefresh(t) \/ Throw(t)
      PROVE  available' = <<>>
  BY <1>2 DEF Begin, CallRefresh, Throw
<1>3. ASSUME NEW f \in Frames,
             Finish(f) \/ SpuriousWake(f) \/ GetConnection(f) \/ ReturnConnection(f)
      PROVE  available' = <<>>
  BY <1>3 DEF Finish, SpuriousWake, GetConnection, Wait, Pop, ProbeOk, ProbeFails,
              ProbeRelocks, ReturnConnection, Push, Notify, Drop, DropRunsDeleter,
              MutexFree
<1> QED
  BY <1>1, <1>2, <1>3 DEF Next

(* Every step keeps all of it. *)
LEMMA PoolInvPreserved == PoolInv /\ [Next]_vars => PoolInv'
<1>1. PoolInv /\ [Next]_vars => CloseInv'
  <2>1. PoolInv /\ [Next]_vars => OpenJoined'
    BY ClosingAndOutages, ClosingSteps DEF PoolInv, CloseInv, OpenJoined, CloseAll
  <2> QED
    BY <2>1, WorkersStayIdle, StaysWrapped, FirstStaysKept, StaysEmpty DEF CloseInv
<1> QED
  BY <1>1, NextPreserves, LossInvPreserved, WaitInvPreserved DEF PoolInv

(***************************************************************************)
(* ~DBManager never ends well, for any number of threads and connections   *)
(* and wherever the cleanup thread is between its two calls of close_all:  *)
(* before MySQL first fails, and with nobody else left, the pool is gone   *)
(* only if the cleanup thread still has a connection of it.  If it has     *)
(* none, close_all waits for the mutex it holds.                           *)
(***************************************************************************)
THEOREM CloseNeverClean == Spec => []CloseFindsWrapper
<1>1. ASSUME PoolInv, closing = "closed", outages = 0, unjoined = Detached
      PROVE  \E t \in Detached : local[Outer(t)].conn = 1
  <2>0. available = <<>>
    BY <1>1 DEF PoolInv, CloseInv, ClosedEmpty
  <2>1. PICK f \in Frames : local[f].conn = 1
    BY <1>1, <2>0 DEF PoolInv, CloseInv, FirstKept, Orderly, Referenced
  <2>2. phase[f] # "none"
    BY <1>1, <2>1 DEF PoolInv, IInv, HandleInUse, Null
  <2>3. PICK t \in Detached : f = Outer(t)
    BY <1>1, <2>2, OnlyDetached
  <2> QED
    BY <2>1, <2>3
<1>2. Init => PoolInv
  BY InitIInv, InitLossInv, InitWaitInv, InitCloseInv DEF PoolInv
<1>3. PoolInv => CloseFindsWrapper
  BY <1>1 DEF CloseFindsWrapper
<1> QED
  BY <1>2, <1>3, PoolInvPreserved, PTL DEF Spec
=============================================================================
