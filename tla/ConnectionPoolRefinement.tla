---------------------- MODULE ConnectionPoolRefinement ----------------------
(***************************************************************************)
(* ConnectionPool implements LendingPool, and loses no connection without  *)
(* an outage, for every set of threads and every pool size.                *)
(***************************************************************************)
EXTENDS ConnectionPoolProofs

-----------------------------------------------------------------------------
(* How steps change what is lent *)

(* A step that moves no connection between frames lends nothing. *)
LEMMA SameLent ==
  ASSUME \A g \in Frames :
           /\ phase'[g] \in Owning <=> phase[g] \in Owning
           /\ phase[g] \in Owning => local'[g].conn = local[g].conn
  PROVE  Lent' = Lent
BY DEF Lent

(* A step that moves frame f's connection only changes what f is lent. *)
LEMMA OnlyLentTo ==
  ASSUME NEW f \in Frames,
         \A g \in Frames \ {f} :
           /\ phase'[g] \in Owning <=> phase[g] \in Owning
           /\ phase[g] \in Owning => local'[g].conn = local[g].conn
  PROVE  Lent' = [Lent EXCEPT ![f] = Lent'[f]]
<1>1. \A g \in Frames \ {f} : Lent'[g] = Lent[g]
  BY DEF Lent
<1>2. /\ Lent = [g \in Frames |-> Lent[g]]
      /\ Lent' = [g \in Frames |-> Lent'[g]]
  BY DEF Lent
<1> QED
  BY <1>1, <1>2

(* What a pop leaves at each place but the first. *)
LEMMA TailInverse ==
  ASSUME NEW S, NEW q \in Seq(S), NEW i \in DOMAIN q, i # 1
  PROVE  i - 1 \in DOMAIN Tail(q) /\ Tail(q)[i - 1] = q[i]
OBVIOUS

(* The head of a queue without duplicates is free, and a pop takes only it away. *)
LEMMA PopTakesHead ==
  ASSUME IInv, available # <<>>, available' = Tail(available)
  PROVE  /\ Head(available).conn \in Conns
         /\ Head(available).conn \in Free
         /\ Free' = Free \ {Head(available).conn}
<1> USE DEF IInv, TypeOK
<1>1. /\ Head(available) = available[1]
      /\ Head(available) \in [conn : Conns, depth : Nat]
      /\ 1 \in DOMAIN available
  BY TailFacts
<1>2. Head(available).conn \in Free
  BY <1>1, Zenon DEF Free
<1>3. ASSUME NEW c \in Free' PROVE c \in Free \ {Head(available).conn}
  <2>1. PICK i \in DOMAIN Tail(available) : c = Tail(available)[i].conn
    BY DEF Free
  <2>2. /\ i + 1 \in DOMAIN available
        /\ i + 1 # 1
        /\ c = available[i + 1].conn
    BY <2>1, TailFacts
  <2>3. 1 \in DOMAIN available
    BY <1>1
  <2>4. c # available[1].conn
    BY <2>2, <2>3 DEF ExclusiveUse, QueuedOnce
  <2> QED
    BY <1>1, <2>2, <2>4 DEF Free
<1>4. ASSUME NEW c \in Free, c # Head(available).conn PROVE c \in Free'
  <2>1. PICK i \in DOMAIN available : c = available[i].conn
    BY DEF Free
  <2>2. i # 1
    BY <1>1, <1>4, <2>1
  <2>3. i - 1 \in DOMAIN Tail(available) /\ Tail(available)[i - 1] = available[i]
    BY TailInverse, <2>2
  <2> QED
    BY <2>1, <2>3 DEF Free
<1> QED
  BY <1>1, <1>2, <1>3, <1>4

(* A push adds its connection to the free ones. *)
LEMMA PushFrees ==
  ASSUME TypeOK, NEW h \in [conn : Conns, depth : Nat],
         available' = Append(available, h)
  PROVE  Free' = Free \union {h.conn}
<1> USE DEF TypeOK
<1>1. /\ DOMAIN available' = DOMAIN available \union {Len(available) + 1}
      /\ \A i \in DOMAIN available : available'[i] = available[i]
      /\ available'[Len(available) + 1] = h
      /\ Len(available) + 1 \notin DOMAIN available
  OBVIOUS
<1> QED
  BY <1>1 DEF Free

-----------------------------------------------------------------------------
(* Every step maps to a step of LendingPool or to a stutter *)

(* connect() leaves every connection in the queue. *)
LEMMA InitFree ==
  ASSUME Init
  PROVE  Free = Conns
<1> USE PoolAssumption
<1>1. DOMAIN available = Conns
  BY DEF Init
<1>2. available[PoolSize].conn = 1 /\ PoolSize \in Conns
  BY DEF Init, Conns
<1>3. \A i \in Conns : i # PoolSize => available[i].conn = i + 1
  BY DEF Init
<1>4. Free \subseteq Conns
  BY <1>1, <1>2, <1>3 DEF Free, Conns
<1>5. ASSUME NEW c \in Conns PROVE c \in Free
  <2>1. CASE c = 1
    BY <1>1, <1>2, <2>1 DEF Free
  <2>2. CASE c # 1
    <3>1. c - 1 \in Conns /\ c - 1 # PoolSize
      BY <2>2 DEF Conns
    <3>2. available[c - 1].conn = (c - 1) + 1
      BY <1>3, <3>1
    <3>3. (c - 1) + 1 = c
      BY DEF Conns
    <3> QED
      BY <1>1, <3>1, <3>2, <3>3 DEF Free
  <2> QED
    BY <2>1, <2>2
<1> QED
  BY <1>4, <1>5

(* The initial states map to initial states. *)
LEMMA InitLends == Init => Lending!Init
<1> SUFFICES ASSUME Init PROVE Lending!Init
  OBVIOUS
<1>1. Lent = [f \in Frames |-> {}]
  BY DEF Init, Lent, Owning
<1> QED
  BY <1>1, InitFree DEF Lending!Init

(* A pop lends the head of the queue. *)
LEMMA PopLends ==
  ASSUME IInv, NEW f \in Frames, Pop(f)
  PROVE  Lending!Lend(f, Head(available).conn)
<1> USE DEF IInv, TypeOK
<1>1. /\ Head(available).conn \in Free
      /\ Free' = Free \ {Head(available).conn}
  BY PopTakesHead DEF Pop
<1>2. Lent[f] = {}
  BY DEF Pop, Lent, Owning
<1>3. Lent'[f] = {Head(available).conn}
  BY DEF Pop, Lent, Owning
<1>4. Lent' = [Lent EXCEPT ![f] = Lent'[f]]
  BY OnlyLentTo DEF Pop
<1> QED
  BY <1>1, <1>2, <1>3, <1>4 DEF Lending!Lend

(* A push gives back what its frame was lent. *)
LEMMA PushGivesBack ==
  ASSUME IInv, NEW f \in Frames, Push(f)
  PROVE  Lending!GiveBack(f, local[f].conn)
<1> USE DEF IInv, TypeOK
<1>1. local[f] \in [conn : Conns, depth : Nat]
  <2>1. /\ local[f] = [conn |-> local[f].conn, depth |-> local[f].depth]
        /\ local[f].depth \in Nat
    BY HandleFacts
  <2>2. local[f].conn \in Conns
    BY DEF Push, HandleInUse
  <2> QED
    BY <2>1, <2>2, Zenon
<1>2. Free' = Free \union {local[f].conn}
  BY <1>1, PushFrees DEF Push
<1>3. local[f].conn \in Lent[f]
  BY DEF Push, Lent, Owning
<1>4. Lent'[f] = {}
  BY DEF Push, Lent, Owning
<1>5. Lent' = [Lent EXCEPT ![f] = Lent'[f]]
  BY OnlyLentTo DEF Push
<1> QED
  BY <1>2, <1>3, <1>4, <1>5 DEF Lending!GiveBack

(* The end of a frame changes what no other frame is lent. *)
LEMMA EndedLends ==
  ASSUME IInv, NEW f \in Frames, phase[f] \notin {"none", "call"},
         phase' = Ended(f), local' = [local EXCEPT ![f] = Null]
  PROVE  /\ Lent'[f] = {}
         /\ Lent' = [Lent EXCEPT ![f] = Lent'[f]]
<1> USE DEF IInv, TypeOK
<1>1. /\ phase'[f] = "none"
      /\ \A g \in Frames \ {f} :
           /\ local'[g] = local[g]
           /\ \/ phase'[g] = phase[g]
              \/ phase[g] = "call" /\ phase'[g] = "return"
  BY EndedFacts
<1>2. Lent'[f] = {}
  BY <1>1 DEF Lent, Owning
<1>3. \A g \in Frames \ {f} :
        /\ phase'[g] \in Owning <=> phase[g] \in Owning
        /\ phase[g] \in Owning => local'[g].conn = local[g].conn
  BY <1>1 DEF Owning
<1>4. Lent' = [Lent EXCEPT ![f] = Lent'[f]]
  BY <1>3, OnlyLentTo
<1> QED
  BY <1>2, <1>4

(* A failed reconnection writes the connection off. *)
LEMMA ProbeFailsWritesOff ==
  ASSUME IInv, NEW f \in Frames, ProbeFails(f)
  PROVE  Lending!WriteOff(f, local[f].conn)
<1>1. /\ Lent'[f] = {}
      /\ Lent' = [Lent EXCEPT ![f] = Lent'[f]]
  BY EndedLends DEF ProbeFails
<1>2. local[f].conn \in Lent[f]
  BY DEF ProbeFails, Lent, Owning
<1>3. Free' = Free
  BY DEF ProbeFails, Free
<1> QED
  BY <1>1, <1>2, <1>3 DEF Lending!WriteOff

(***************************************************************************)
(* The deleter that runs when a stale reference is dropped recovers a      *)
(* connection that is neither queued nor with a call: wherever it were,    *)
(* it would be under a handle that keeps the stale one alive.              *)
(***************************************************************************)
LEMMA DeleterRecovers ==
  ASSUME IInv, NEW f \in Frames, DropRunsDeleter(f)
  PROVE  Lending!Recover(f, local[f].conn)
<1> USE DEF IInv, TypeOK
<1>1. /\ phase[f] = "drop"
      /\ phase[f] \in Stale
      /\ phase[f] \notin Owning
      /\ local[f].conn \in Conns
      /\ local[f].depth \in Nat
  BY HandleFacts DEF DropRunsDeleter, Stale, Owning, HandleInUse
<1>2. local[f].conn \notin Free
  <2> SUFFICES ASSUME NEW i \in DOMAIN available,
                      available[i].conn = local[f].conn
               PROVE  FALSE
    BY DEF Free
  <2>1. available[i].depth >= local[f].depth
    BY <1>1 DEF StaleBelowQueued
  <2> QED
    BY <2>1 DEF DropRunsDeleter, LastRef, KeepsAlive
<1>3. ASSUME NEW g \in Frames PROVE local[f].conn \notin Lent[g]
  <2> SUFFICES ASSUME phase[g] \in Owning, local[g].conn = local[f].conn
               PROVE  FALSE
    BY DEF Lent
  <2>1. local[g].depth \in Nat /\ g # f
    BY <1>1, HandleFacts
  <2>2. local[g].depth >= local[f].depth
    BY <1>1, <2>1 DEF StaleBelowOwned
  <2> QED
    BY <2>1, <2>2 DEF DropRunsDeleter, LastRef, KeepsAlive
<1>4. local[f].conn \in Lending!Gone
  BY <1>1, <1>2, <1>3 DEF Lending!Gone
<1>5. Lent[f] = {}
  BY <1>1 DEF Lent
<1>6. Lent'[f] = {local[f].conn}
  <2>1. phase'[f] \in Owning /\ local'[f].conn = local[f].conn
    BY DEF DropRunsDeleter, Owning, Handles
  <2> QED
    BY <2>1 DEF Lent
<1>7. Lent' = [Lent EXCEPT ![f] = Lent'[f]]
  BY OnlyLentTo DEF DropRunsDeleter
<1>8. Free' = Free
  BY DEF DropRunsDeleter, Free
<1> QED
  BY <1>4, <1>5, <1>6, <1>7, <1>8 DEF Lending!Recover

(* close_all disposes of the head of the queue. *)
LEMMA CloseOneDisposes ==
  ASSUME IInv, CloseOne
  PROVE  Lending!Dispose(Head(available).conn)
<1>1. /\ Head(available).conn \in Free
      /\ Free' = Free \ {Head(available).conn}
  BY PopTakesHead DEF CloseOne
<1>2. Lent' = Lent
  BY DEF CloseOne, Lent
<1> QED
  BY <1>1, <1>2 DEF Lending!Dispose

(***************************************************************************)
(* The other steps stutter: they move no connection between the queue and  *)
(* the frames, or between frames.                                          *)
(***************************************************************************)
LEMMA OperationStutters ==
  ASSUME IInv, NEW t \in Threads, Begin(t) \/ CallRefresh(t) \/ Throw(t)
  PROVE  UNCHANGED <<Free, Lent>>
<1> USE DEF IInv, TypeOK
<1>1. Free' = Free
  BY DEF Begin, CallRefresh, Throw, Free
<1>2. Outer(t) \in Frames /\ Inner(t) \in Frames
  BY FrameFacts
<1>3. CASE Begin(t)
  BY <1>2, <1>3, <1>1, SameLent DEF Begin, Owning
<1>4. CASE CallRefresh(t)
  <2>1. phase[Inner(t)] = "none"
    BY <1>2, <1>4 DEF RefreshNested, CallRefresh
  <2> QED
    BY <1>2, <1>4, <2>1, <1>1, SameLent DEF CallRefresh, Owning
<1>5. CASE Throw(t)
  <2>1. \A g \in Frames : local'[g].conn = local[g].conn
    BY <1>2, <1>5 DEF Throw, Handles
  <2> QED
    BY <1>2, <1>5, <2>1, <1>1, SameLent DEF Throw, Owning
<1> QED
  BY <1>3, <1>4, <1>5

(* So do waiting, the probe that succeeds or hangs, and the notification. *)
LEMMA FrameStutters ==
  ASSUME IInv, NEW f \in Frames,
         \/ Finish(f) \/ SpuriousWake(f) \/ Wait(f) \/ ProbeOk(f)
         \/ ProbeRelocks(f) \/ Notify(f)
  PROVE  UNCHANGED <<Free, Lent>>
<1> USE DEF IInv, TypeOK
<1>1. Free' = Free
  BY DEF Finish, SpuriousWake, Wait, ProbeOk, ProbeRelocks, Notify, Free
<1>2. CASE Finish(f) \/ SpuriousWake(f) \/ Wait(f) \/ ProbeRelocks(f)
  BY <1>1, <1>2, SameLent DEF Finish, SpuriousWake, Wait, ProbeRelocks, Owning
<1>3. CASE ProbeOk(f)
  <2>1. \A g \in Frames : local'[g].conn = local[g].conn
    BY <1>3 DEF ProbeOk, Handles
  <2> QED
    BY <1>3, <2>1, <1>1, SameLent DEF ProbeOk, Owning
<1>4. CASE Notify(f)
  <2>1. \A g \in Frames : phase'[g] \in Owning <=> phase[g] \in Owning
    BY <1>4 DEF Notify, Waiting, Owning
  <2> QED
    BY <1>4, <2>1, <1>1, SameLent DEF Notify
<1> QED
  BY <1>2, <1>3, <1>4

(* A reference dropped while another remains, or an original, is no one's loan. *)
LEMMA DropStutters ==
  ASSUME IInv, NEW f \in Frames, Drop(f)
  PROVE  UNCHANGED <<Free, Lent>>
<1> USE DEF IInv, TypeOK
<1>1. Lent'[f] = {} /\ Lent' = [Lent EXCEPT ![f] = Lent'[f]]
  BY EndedLends DEF Drop
<1>2. Lent[f] = {}
  BY DEF Drop, Lent, Owning
<1>3. Lent = [g \in Frames |-> Lent[g]]
  BY DEF Lent
<1>4. Free' = Free
  BY DEF Drop, Free
<1> QED
  BY <1>1, <1>2, <1>3, <1>4

(* The rest of close_all and MySQL leave queue and frames alone. *)
LEMMA OtherStutters ==
  ASSUME CloseAll \/ CloseAgain \/ CloseRelocks \/ Closed \/ DbDown \/ DbUp \/ UNCHANGED vars
  PROVE  UNCHANGED <<Free, Lent>>
BY DEF CloseAll, CloseAgain, CloseRelocks, Closed, DbDown, DbUp, vars, Free, Lent

(* The steps that keep, lend, give back or recover a connection. *)
Lends ==
  \E f \in Frames, c \in Conns :
    Lending!Lend(f, c) \/ Lending!GiveBack(f, c) \/ Lending!Recover(f, c)

(* Every other step is a failed reconnection or belongs to close_all. *)
LEMMA StepKinds ==
  ASSUME IInv, [Next]_vars
  PROVE  \/ UNCHANGED <<Free, Lent>>
         \/ Lends
         \/ \E f \in Frames : ProbeFails(f)
         \/ CloseOne
<1>a. \A f \in Frames :
        phase[f] \notin {"none", "lock", "wait"} => local[f].conn \in Conns
  BY DEF IInv, HandleInUse
<1>1. ASSUME NEW t \in Threads, Begin(t) \/ CallRefresh(t) \/ Throw(t)
      PROVE  UNCHANGED <<Free, Lent>>
  BY <1>1, OperationStutters
<1>2. ASSUME NEW f \in Frames, Finish(f) \/ SpuriousWake(f)
      PROVE  UNCHANGED <<Free, Lent>>
  BY <1>2, FrameStutters
<1>3. ASSUME NEW f \in Frames, GetConnection(f)
      PROVE  UNCHANGED <<Free, Lent>> \/ Lends \/ ProbeFails(f)
  <2>1. CASE Pop(f)
    <3>1. Head(available).conn \in Conns
      BY <2>1, PopTakesHead DEF Pop
    <3> QED
      BY <2>1, <3>1, PopLends DEF Lends
  <2>2. CASE Wait(f) \/ ProbeOk(f) \/ ProbeRelocks(f)
    BY <2>2, FrameStutters
  <2> QED
    BY <1>3, <2>1, <2>2 DEF GetConnection
<1>4. ASSUME NEW f \in Frames, ReturnConnection(f)
      PROVE  UNCHANGED <<Free, Lent>> \/ Lends
  <2>1. CASE Push(f)
    <3>1. local[f].conn \in Conns
      BY <1>a, <2>1 DEF Push
    <3> QED
      BY <2>1, <3>1, PushGivesBack DEF Lends
  <2>2. CASE DropRunsDeleter(f)
    <3>1. local[f].conn \in Conns
      BY <1>a, <2>2 DEF DropRunsDeleter
    <3> QED
      BY <2>2, <3>1, DeleterRecovers DEF Lends
  <2>3. CASE Notify(f) \/ Drop(f)
    BY <2>3, FrameStutters, DropStutters
  <2> QED
    BY <1>4, <2>1, <2>2, <2>3 DEF ReturnConnection
<1>5. CASE CloseAll \/ CloseAgain \/ CloseRelocks \/ Closed \/ DbDown \/ DbUp \/ UNCHANGED vars
  BY <1>5, OtherStutters
<1> QED
  BY <1>1, <1>2, <1>3, <1>4, <1>5 DEF Next

(* So every step is one of LendingPool, or a stutter. *)
LEMMA StepsLend == IInv /\ [Next]_vars => [Lending!Next]_(Lending!lvars)
<1> SUFFICES ASSUME IInv, [Next]_vars
             PROVE  Lending!Next \/ UNCHANGED <<Free, Lent>>
  BY DEF Lending!lvars
<1>1. CASE Lends
  BY <1>1 DEF Lends, Lending!Next
<1>2. ASSUME NEW f \in Frames, ProbeFails(f) PROVE Lending!Next
  <2>1. local[f].conn \in Conns
    BY <1>2 DEF IInv, HandleInUse, ProbeFails
  <2>2. Lending!WriteOff(f, local[f].conn)
    BY <1>2, ProbeFailsWritesOff
  <2> QED
    BY <2>1, <2>2 DEF Lending!Next
<1>3. CASE CloseOne
  <2>1. Head(available).conn \in Conns
    BY <1>3, PopTakesHead DEF CloseOne
  <2>2. Lending!Dispose(Head(available).conn)
    BY <1>3, CloseOneDisposes
  <2> QED
    BY <2>1, <2>2 DEF Lending!Next
<1> QED
  BY <1>1, <1>2, <1>3, StepKinds

-----------------------------------------------------------------------------
(* Nothing is lost without an outage *)

(* A connection has a place: it is free, or a frame is lent it. *)
HasPlace(c) == c \in Free \/ \E f \in Frames : c \in Lent[f]

(***************************************************************************)
(* Until MySQL first fails and until close_all, every connection has a     *)
(* place; and MySQL is only down after it has failed.                      *)
(***************************************************************************)
PlaceUntilOutage ==
  closing = "open" => outages > 0 \/ \A c \in Conns : HasPlace(c)

DownAfterOutage == ~dbUp => outages > 0

LossInv == PlaceUntilOutage /\ DownAfterOutage

(* Only a failed reconnection and close_all take a connection's place away. *)
LEMMA PlaceKept ==
  ASSUME IInv, NEW c \in Conns, HasPlace(c),
         \/ UNCHANGED <<Free, Lent>>
         \/ Lends
  PROVE  HasPlace(c)'
<1> USE DEF HasPlace
<1>1. \A f \in Frames : Lent[f] = {} \/ Lent[f] = {local[f].conn}
  BY DEF Lent
<1>2. CASE UNCHANGED <<Free, Lent>>
  BY <1>2
<1>3. ASSUME NEW f \in Frames, NEW d \in Conns, Lending!Lend(f, d)
      PROVE  HasPlace(c)'
  <2>1. /\ Lent'[f] = {d} /\ Lent[f] = {} /\ Free' = Free \ {d}
        /\ \A g \in Frames \ {f} : Lent'[g] = Lent[g]
    BY <1>3 DEF Lending!Lend, Lent
  <2> QED
    BY <2>1
<1>4. ASSUME NEW f \in Frames, NEW d \in Conns, Lending!GiveBack(f, d)
      PROVE  HasPlace(c)'
  <2>1. /\ d \in Lent[f] /\ Free' = Free \union {d}
        /\ \A g \in Frames \ {f} : Lent'[g] = Lent[g]
    BY <1>4 DEF Lending!GiveBack, Lent
  <2>2. Lent[f] = {d}
    BY <1>1, <2>1
  <2> QED
    BY <2>1, <2>2
<1>5. ASSUME NEW f \in Frames, NEW d \in Conns, Lending!Recover(f, d)
      PROVE  HasPlace(c)'
  <2>1. /\ Lent[f] = {} /\ Free' = Free
        /\ \A g \in Frames \ {f} : Lent'[g] = Lent[g]
    BY <1>5 DEF Lending!Recover, Lent
  <2> QED
    BY <2>1
<1> QED
  BY <1>2, <1>3, <1>4, <1>5 DEF Lends

(* Nothing reopens the pool, and outages are only counted up, when MySQL fails. *)
LEMMA ClosingAndOutages ==
  ASSUME [Next]_vars
  PROVE  /\ closing' = "open" => closing = "open"
         /\ \/ UNCHANGED <<dbUp, outages>>
            \/ outages' = outages + 1
            \/ dbUp' = TRUE /\ outages' = outages
<1>1. CASE CloseAll \/ CloseAgain \/ CloseOne \/ CloseRelocks \/ Closed \/ UNCHANGED vars
  BY <1>1 DEF CloseAll, CloseAgain, CloseOne, CloseRelocks, Closed, vars
<1>2. CASE DbDown \/ DbUp
  BY <1>2 DEF DbDown, DbUp
<1>3. ASSUME NEW t \in Threads, Begin(t) \/ CallRefresh(t) \/ Throw(t)
      PROVE  UNCHANGED <<closing, unjoined, dbUp, outages>>
  BY <1>3 DEF Begin, CallRefresh, Throw
<1>4. ASSUME NEW f \in Frames,
             Finish(f) \/ SpuriousWake(f) \/ GetConnection(f) \/ ReturnConnection(f)
      PROVE  UNCHANGED <<closing, unjoined, dbUp, outages>>
  BY <1>4 DEF Finish, SpuriousWake, GetConnection, Wait, Pop, ProbeOk, ProbeFails,
              ProbeRelocks, ReturnConnection, Push, Notify, Drop, DropRunsDeleter
<1> QED
  BY <1>1, <1>2, <1>3, <1>4 DEF Next

(* A reconnection fails only once MySQL has failed. *)
LEMMA LossInvPreserved == IInv /\ LossInv /\ [Next]_vars => LossInv'
<1> SUFFICES ASSUME IInv, LossInv, [Next]_vars PROVE LossInv'
  OBVIOUS
<1>1. outages \in Nat
  BY DEF IInv, TypeOK
<1>2. outages > 0 => outages' > 0
  <2>1. outages' = outages \/ outages' = outages + 1
    BY ClosingAndOutages, Zenon
  <2> QED
    BY <1>1, <2>1
<1>3. DownAfterOutage'
  <2>1. CASE UNCHANGED <<dbUp, outages>>
    BY <2>1 DEF LossInv, DownAfterOutage
  <2>2. CASE outages' = outages + 1
    BY <1>1, <2>2 DEF DownAfterOutage
  <2>3. CASE dbUp' = TRUE
    BY <2>3 DEF DownAfterOutage
  <2> QED
    BY <2>1, <2>2, <2>3, ClosingAndOutages
<1>4. PlaceUntilOutage'
  <2> SUFFICES ASSUME closing' = "open", ~(outages' > 0), NEW c \in Conns
               PROVE  HasPlace(c)'
    BY DEF PlaceUntilOutage
  <2>1. closing = "open" /\ ~(outages > 0)
    BY <1>2, ClosingAndOutages
  <2>2. HasPlace(c)
    BY <2>1 DEF LossInv, PlaceUntilOutage
  <2>3. ~CloseOne
    BY <2>1 DEF CloseOne, InCloseAll
  <2>4. ~\E f \in Frames : ProbeFails(f)
    BY <2>1 DEF LossInv, DownAfterOutage, ProbeFails
  <2> QED
    BY <2>2, <2>3, <2>4, StepKinds, PlaceKept
<1> QED
  BY <1>3, <1>4 DEF LossInv

(* connect() gives every connection a place. *)
LEMMA InitLossInv == Init => LossInv
<1> SUFFICES ASSUME Init PROVE LossInv
  OBVIOUS
<1>1. dbUp = TRUE
  BY DEF Init
<1> QED
  BY <1>1, InitFree DEF LossInv, PlaceUntilOutage, DownAfterOutage, HasPlace

(***************************************************************************)
(* A step that takes the last reference to a connection away from an open  *)
(* pool drops an original handle, and follows an outage.                   *)
(***************************************************************************)
Loses(c) == Referenced(c) /\ ~Referenced(c)'

(* Letting go of a handle loses a connection only with its original handle. *)
LEMMA EndLosesOriginal ==
  ASSUME IInv, NEW f \in Frames, local' = [local EXCEPT ![f] = Null],
         available' = available, LastRef(f) => local[f].depth = 0,
         NEW c \in Conns, Loses(c)
  PROVE  local[f] = [conn |-> c, depth |-> 0]
<1> USE DEF IInv, TypeOK
<1>1. /\ \A i \in DOMAIN available : available[i].conn # c
      /\ \A g \in Frames \ {f} : local[g].conn # c
  BY DEF Loses, Referenced
<1>2. local[f].conn = c
  BY <1>1 DEF Loses, Referenced
<1>3. LastRef(f)
  BY <1>1, <1>2 DEF LastRef, KeepsAlive
<1> QED
  BY <1>2, <1>3, HandleFacts

(* Steps that let go of no handle lose nothing. *)
LEMMA OthersKeep ==
  ASSUME IInv, NEW c \in Conns, Referenced(c),
         \/ /\ available' = available
            /\ \A f \in Frames : local'[f].conn = local[f].conn
         \/ \E f \in Frames : Pop(f) \/ Push(f)
  PROVE  Referenced(c)'
<1> USE DEF IInv, TypeOK
<1>1. CASE /\ available' = available
           /\ \A f \in Frames : local'[f].conn = local[f].conn
  BY <1>1 DEF Referenced
<1>2. ASSUME NEW f \in Frames, Pop(f) PROVE Referenced(c)'
  <2>1. local[f].conn = 0 /\ c # 0
    BY <1>2 DEF Pop, HandleInUse, Null, Conns
  <2>2. CASE \E g \in Frames : local[g].conn = c
    BY <1>2, <2>1, <2>2 DEF Pop, Referenced
  <2>3. ASSUME NEW i \in DOMAIN available, available[i].conn = c
        PROVE  Referenced(c)'
    <3>1. CASE i = 1
      <4>1. local'[f].conn = c
        BY <1>2, <2>3, <3>1, TailFacts DEF Pop
      <4> QED
        BY <4>1 DEF Referenced
    <3>2. CASE i # 1
      <4>1. i - 1 \in DOMAIN available' /\ available'[i - 1].conn = c
        BY <1>2, <2>3, <3>2, TailInverse DEF Pop
      <4> QED
        BY <4>1 DEF Referenced
    <3> QED
      BY <3>1, <3>2
  <2> QED
    BY <2>2, <2>3 DEF Referenced
<1>3. ASSUME NEW f \in Frames, Push(f) PROVE Referenced(c)'
  <2>1. /\ local' = local
        /\ \A i \in DOMAIN available :
             i \in DOMAIN available' /\ available'[i] = available[i]
    BY <1>3 DEF Push
  <2> QED
    BY <2>1 DEF Referenced
<1> QED
  BY <1>1, <1>2, <1>3

(* Who lets go of a handle does it in ProbeFails, in Drop, or in close_all. *)
LEMMA WhoLoses ==
  ASSUME IInv, [Next]_vars, NEW c \in Conns, Loses(c)
  PROVE  CloseOne \/ \E f \in Frames : ProbeFails(f) \/ Drop(f)
<1> USE DEF IInv, TypeOK
<1> SUFFICES ASSUME ~CloseOne, ~\E f \in Frames : ProbeFails(f) \/ Drop(f)
             PROVE  Referenced(c)'
  BY DEF Loses
<1>1. CASE CloseAll \/ CloseAgain \/ CloseRelocks \/ Closed \/ DbDown \/ DbUp \/ UNCHANGED vars
  BY <1>1, OthersKeep
     DEF CloseAll, CloseAgain, CloseRelocks, Closed, DbDown, DbUp, vars, Loses
<1>2. ASSUME NEW t \in Threads, Begin(t) \/ CallRefresh(t) \/ Throw(t)
      PROVE  Referenced(c)'
  <2>1. available' = available
    BY <1>2 DEF Begin, CallRefresh, Throw
  <2>2. \A f \in Frames : local'[f].conn = local[f].conn
    <3>1. CASE Begin(t) \/ CallRefresh(t)
      BY <3>1 DEF Begin, CallRefresh
    <3>2. CASE Throw(t)
      BY <3>2 DEF Throw, Handles
    <3> QED
      BY <1>2, <3>1, <3>2
  <2> QED
    BY <2>1, <2>2, OthersKeep DEF Loses
<1>3. ASSUME NEW f \in Frames, Finish(f) \/ SpuriousWake(f) \/ Wait(f) \/ ProbeOk(f)
                               \/ ProbeRelocks(f) \/ Notify(f) \/ DropRunsDeleter(f)
      PROVE  Referenced(c)'
  <2>1. available' = available
    BY <1>3 DEF Finish, SpuriousWake, Wait, ProbeOk, ProbeRelocks, Notify,
                DropRunsDeleter
  <2>2. CASE ProbeOk(f)
    BY <2>1, <2>2, OthersKeep DEF ProbeOk, Handles, Loses
  <2>3. CASE DropRunsDeleter(f)
    BY <2>1, <2>3, OthersKeep DEF DropRunsDeleter, Handles, Loses
  <2>4. CASE Finish(f) \/ SpuriousWake(f) \/ Wait(f) \/ ProbeRelocks(f) \/ Notify(f)
    <3>1. local' = local
      BY <2>4 DEF Finish, SpuriousWake, Wait, ProbeRelocks, Notify
    <3> QED
      BY <2>1, <3>1, OthersKeep DEF Loses
  <2> QED
    BY <1>3, <2>2, <2>3, <2>4
<1>4. ASSUME NEW f \in Frames, Pop(f) \/ Push(f) PROVE Referenced(c)'
  BY <1>4, OthersKeep DEF Loses
<1> QED
  BY <1>1, <1>2, <1>3, <1>4 DEF Next, GetConnection, ReturnConnection

(* The step that loses a connection drops its original handle after an outage. *)
LEMMA LossStep ==
  ASSUME IInv, LossInv, [Next]_vars, closing = "open", NEW c \in Conns, Loses(c)
  PROVE  /\ outages > 0
         /\ \E f \in Frames : local[f] = [conn |-> c, depth |-> 0]
<1>1. PICK f \in Frames : ProbeFails(f) \/ Drop(f)
  BY WhoLoses DEF CloseOne, InCloseAll
<1>2. local[f] = [conn |-> c, depth |-> 0]
  BY <1>1, EndLosesOriginal DEF ProbeFails, Drop
<1>3. CASE ProbeFails(f)
  BY <1>2, <1>3 DEF LossInv, DownAfterOutage, ProbeFails
<1>4. CASE Drop(f)
  <2>1. ASSUME HasPlace(c) PROVE FALSE
    <3>1. HasPlace(c)'
      BY <1>4, <2>1, DropStutters, PlaceKept
    <3>2. Referenced(c)'
      BY <3>1 DEF HasPlace, Free, Lent, Referenced
    <3> QED
      BY <3>2 DEF Loses
  <2> QED
    BY <1>2, <2>1 DEF LossInv, PlaceUntilOutage
<1> QED
  BY <1>1, <1>2, <1>3, <1>4

-----------------------------------------------------------------------------
(* Theorems *)

(***************************************************************************)
(* The pool implements LendingPool: whoever returns a connection, and by   *)
(* whichever of the two ways, each connection is free, lent to one call,   *)
(* or gone, and only the call that has it gives it back.                   *)
(***************************************************************************)
THEOREM Refinement == Spec => ImplementsLending
  BY InitLends, StepsLend, Invariance, PTL
     DEF Spec, ImplementsLending, Lending!Spec

(***************************************************************************)
(* Until MySQL first fails and until close_all, no connection goes missing *)
(* between the queue and the calls, whatever is returned in which way.     *)
(***************************************************************************)
THEOREM PlacesKept == Spec => [](closing = "open" /\ outages = 0 =>
                                   \A c \in Conns : HasPlace(c))
<1>1. LossInv => (closing = "open" /\ outages = 0 => \A c \in Conns : HasPlace(c))
  BY DEF LossInv, PlaceUntilOutage
<1> QED
  BY <1>1, InitLossInv, LossInvPreserved, Invariance, PTL DEF Spec

(***************************************************************************)
(* Only a failed reconnection of an original handle, after an outage,      *)
(* loses a connection for good: not the explicit return, not an exception, *)
(* not a handle that another thread drops.                                 *)
(***************************************************************************)
THEOREM NoOtherLoss == Spec => LossNeedsOutage
<1>1. /\ IInv /\ LossInv /\ [Next]_vars
      => [closing = "open" =>
            \A c \in Conns :
              Referenced(c) /\ ~Referenced(c)' =>
                /\ outages > 0
                /\ \E f \in Frames : local[f] = [conn |-> c, depth |-> 0]]_vars
  BY LossStep DEF Loses
<1> QED
  BY <1>1, InitLossInv, LossInvPreserved, Invariance, PTL DEF Spec, LossNeedsOutage
=============================================================================
