------------------------ MODULE ConnectionPoolProofs ------------------------
(***************************************************************************)
(* Theorems about ConnectionPool, for every set of threads, pool size and  *)
(* number of operations and outages.                                       *)
(***************************************************************************)
EXTENDS ConnectionPool, TLAPS

-----------------------------------------------------------------------------
(* The inductive invariant *)

(* A frame has a handle exactly while it has popped one and not dropped it. *)
HandleInUse ==
  \A f \in Frames :
    IF phase[f] \in {"none", "lock", "wait"} THEN local[f] = Null
    ELSE local[f].conn \in Conns

(* A refresh runs exactly while the operation of its thread is calling it. *)
RefreshNested ==
  \A t \in Threads : phase[Inner(t)] # "none" <=> phase[Outer(t)] = "call"

(* get_connection returns a wrapper, never an original handle. *)
UsesWrapper ==
  \A f \in Frames : phase[f] \in {"use", "call"} => local[f].depth > 0

(***************************************************************************)
(* A frame that has pushed its handle and not yet dropped it holds a stale *)
(* reference.  Wherever the connection is now, it is there under a handle  *)
(* that keeps the stale one alive, and in use it is wrapped once more: the *)
(* stale frame runs the deleter only when the connection is nowhere else.  *)
(***************************************************************************)
Stale == {"notify", "drop"}

StaleBelowQueued ==
  \A f \in Frames, i \in DOMAIN available :
    phase[f] \in Stale /\ available[i].conn = local[f].conn =>
      available[i].depth >= local[f].depth

StaleBelowOwned ==
  \A f, g \in Frames :
    /\ phase[f] \in Stale
    /\ phase[g] \in Owning
    /\ local[g].conn = local[f].conn
    => IF phase[g] \in {"use", "call"} THEN local[g].depth > local[f].depth
       ELSE local[g].depth >= local[f].depth

IInv ==
  /\ TypeOK
  /\ HandleInUse
  /\ RefreshNested
  /\ UsesWrapper
  /\ ExclusiveUse
  /\ StaleBelowQueued
  /\ StaleBelowOwned

-----------------------------------------------------------------------------
(* Lemmas about frames and queues *)

(* A frame is the operation of its thread or the refresh of its thread. *)
LEMMA FrameFacts ==
  /\ \A t \in Threads :
       Outer(t) \in Frames /\ Inner(t) \in Frames /\ Outer(t) # Inner(t)
  /\ \A f \in Frames :
       /\ f[1] \in Threads
       /\ \/ f = Outer(f[1]) /\ f[2] = 1
          \/ f = Inner(f[1]) /\ f[2] = 2
  /\ \A t, u \in Threads :
       /\ Outer(t) = Outer(u) => t = u
       /\ Inner(t) = Inner(u) => t = u
       /\ Outer(t) # Inner(u)
BY DEF Frames, Outer, Inner

(* The handle of a frame is one. *)
LEMMA HandleFacts ==
  ASSUME TypeOK
  PROVE  \A f \in Frames :
           /\ local[f] \in Handles
           /\ local[f] = [conn |-> local[f].conn, depth |-> local[f].depth]
           /\ local[f].conn \in 0 .. PoolSize
           /\ local[f].depth \in Nat
BY DEF TypeOK, Handles

(* What a pop leaves in a queue. *)
LEMMA TailFacts ==
  ASSUME NEW S, NEW q \in Seq(S), q # <<>>
  PROVE  /\ Tail(q) \in Seq(S)
         /\ Head(q) \in S
         /\ 1 \in DOMAIN q
         /\ Head(q) = q[1]
         /\ \A i \in DOMAIN Tail(q) :
              i + 1 \in DOMAIN q /\ i + 1 # 1 /\ Tail(q)[i] = q[i + 1]
         /\ DOMAIN Tail(q) \subseteq Nat
         /\ DOMAIN q \subseteq Nat
OBVIOUS

(* What a push adds to a queue. *)
LEMMA AppendFacts ==
  ASSUME NEW S, NEW q \in Seq(S), NEW e \in S
  PROVE  /\ Append(q, e) \in Seq(S)
         /\ \A i \in DOMAIN Append(q, e) :
              \/ i \in DOMAIN q /\ Append(q, e)[i] = q[i]
              \/ i = Len(q) + 1 /\ Append(q, e)[i] = e
         /\ DOMAIN q = 1 .. Len(q)
         /\ Len(q) \in Nat
OBVIOUS

(* The queue that connect() leaves satisfies IInv. *)
LEMMA InitIInv == Init => IInv
<1> SUFFICES ASSUME Init PROVE IInv
  OBVIOUS
<1> USE PoolAssumption
<1>1. available \in Seq([conn : Conns, depth : Nat]) /\ DOMAIN available = Conns
  BY DEF Init, Conns
<1>2. TypeOK
  BY <1>1, PoolAssumption DEF Init, TypeOK, Phases, Closings, Handles, Null
<1>3. HandleInUse /\ RefreshNested /\ UsesWrapper
  BY FrameFacts DEF Init, HandleInUse, RefreshNested, UsesWrapper
<1>4. ExclusiveUse
  BY <1>1 DEF Init, ExclusiveUse, QueuedOnce, OwnedOnce, QueuedOrOwned, Owning, Conns
<1>5. StaleBelowQueued /\ StaleBelowOwned
  BY DEF Init, StaleBelowQueued, StaleBelowOwned, Stale
<1>6. QED
  BY <1>2, <1>3, <1>4, <1>5 DEF IInv

-----------------------------------------------------------------------------
(* Every step preserves it *)

(* The end of the SQL keeps IInv: the connection stays where it is. *)
LEMMA FinishPreserves ==
  ASSUME IInv, NEW f \in Frames, Finish(f)
  PROVE  IInv'
<1> USE DEF IInv, TypeOK
<1>1. TypeOK'
  BY HandleFacts DEF Phases, Handles, Null, Finish
<1>2. HandleInUse'
  BY HandleFacts DEF HandleInUse, Null, Finish
<1>3. RefreshNested'
  BY FrameFacts DEF RefreshNested, Finish
<1>4. UsesWrapper'
  BY HandleFacts DEF UsesWrapper, Finish
<1>5. QueuedOnce'
  BY DEF ExclusiveUse, QueuedOnce, Finish
<1>6. OwnedOnce'
  BY DEF ExclusiveUse, OwnedOnce, Owning, Finish
<1>7. QueuedOrOwned'
  BY DEF ExclusiveUse, QueuedOrOwned, Owning, Finish
<1>8. StaleBelowQueued'
  BY DEF StaleBelowQueued, Stale, Finish
<1>9. StaleBelowOwned'
  <2> SUFFICES ASSUME NEW a \in Frames, NEW b \in Frames,
                      (phase[a] \in Stale)', (phase[b] \in Owning)',
                      (local[b].conn = local[a].conn)'
               PROVE  IF phase'[b] \in {"use", "call"}
                      THEN local'[b].depth > local'[a].depth
                      ELSE local'[b].depth >= local'[a].depth
    BY DEF StaleBelowOwned
  <2>1. a # f /\ phase[a] \in Stale /\ phase[b] \in Owning
    BY DEF Finish, Stale, Owning
  <2>2. local[a].depth \in Nat /\ local[b].depth \in Nat
    BY HandleFacts
  <2>3. local' = local /\ (phase'[b] \in {"use", "call"} => phase[b] = phase'[b])
    BY DEF Finish
  <2>4. local[b].conn = local[a].conn
    BY <2>3
  <2> QED
    BY <2>1, <2>2, <2>3, <2>4 DEF StaleBelowOwned
<1> QED
  BY <1>1, <1>2, <1>3, <1>4, <1>5, <1>6, <1>7, <1>8, <1>9 DEF ExclusiveUse

(* A frame that starts to wait has no handle. *)
LEMMA WaitPreserves ==
  ASSUME IInv, NEW f \in Frames, Wait(f)
  PROVE  IInv'
<1> USE DEF IInv, TypeOK
<1>1. TypeOK'
  BY HandleFacts DEF Phases, Handles, Null, Wait
<1>2. HandleInUse'
  BY HandleFacts DEF HandleInUse, Null, Wait
<1>3. RefreshNested'
  BY FrameFacts DEF RefreshNested, Wait
<1>4. UsesWrapper'
  BY HandleFacts DEF UsesWrapper, Wait
<1>5. QueuedOnce'
  BY DEF ExclusiveUse, QueuedOnce, Wait
<1>6. OwnedOnce'
  BY DEF ExclusiveUse, OwnedOnce, Owning, Wait
<1>7. QueuedOrOwned'
  BY DEF ExclusiveUse, QueuedOrOwned, Owning, Wait
<1>8. StaleBelowQueued'
  BY DEF StaleBelowQueued, Stale, Wait
<1>9. StaleBelowOwned'
  BY HandleFacts DEF StaleBelowOwned, Stale, Owning, Wait
<1> QED
  BY <1>1, <1>2, <1>3, <1>4, <1>5, <1>6, <1>7, <1>8, <1>9 DEF ExclusiveUse

(* A frame that wakes has no handle. *)
LEMMA SpuriousWakePreserves ==
  ASSUME IInv, NEW f \in Frames, SpuriousWake(f)
  PROVE  IInv'
<1> USE DEF IInv, TypeOK
<1>1. TypeOK'
  BY HandleFacts DEF Phases, Handles, Null, SpuriousWake
<1>2. HandleInUse'
  BY HandleFacts DEF HandleInUse, Null, SpuriousWake
<1>3. RefreshNested'
  BY FrameFacts DEF RefreshNested, SpuriousWake
<1>4. UsesWrapper'
  BY HandleFacts DEF UsesWrapper, SpuriousWake
<1>5. QueuedOnce'
  BY DEF ExclusiveUse, QueuedOnce, SpuriousWake
<1>6. OwnedOnce'
  BY DEF ExclusiveUse, OwnedOnce, Owning, SpuriousWake
<1>7. QueuedOrOwned'
  BY DEF ExclusiveUse, QueuedOrOwned, Owning, SpuriousWake
<1>8. StaleBelowQueued'
  BY DEF StaleBelowQueued, Stale, SpuriousWake
<1>9. StaleBelowOwned'
  BY HandleFacts DEF StaleBelowOwned, Stale, Owning, SpuriousWake
<1> QED
  BY <1>1, <1>2, <1>3, <1>4, <1>5, <1>6, <1>7, <1>8, <1>9 DEF ExclusiveUse

(* A frame that starts has no handle. *)
LEMMA BeginPreserves ==
  ASSUME IInv, NEW t \in Threads, Begin(t)
  PROVE  IInv'
<1> USE DEF IInv, TypeOK
<1>1. TypeOK'
  BY FrameFacts, HandleFacts DEF Phases, Handles, Null, Begin
<1>2. HandleInUse'
  BY FrameFacts, HandleFacts DEF HandleInUse, Null, Begin, RefreshNested
<1>3. RefreshNested'
  BY FrameFacts DEF RefreshNested, Begin
<1>4. UsesWrapper'
  BY FrameFacts, HandleFacts DEF UsesWrapper, Begin
<1>5. QueuedOnce'
  BY FrameFacts DEF ExclusiveUse, QueuedOnce, Begin
<1>6. OwnedOnce'
  BY FrameFacts DEF ExclusiveUse, OwnedOnce, Owning, Begin
<1>7. QueuedOrOwned'
  BY FrameFacts DEF ExclusiveUse, QueuedOrOwned, Owning, Begin
<1>8. StaleBelowQueued'
  BY FrameFacts DEF StaleBelowQueued, Stale, Begin
<1>9. StaleBelowOwned'
  BY FrameFacts, HandleFacts DEF StaleBelowOwned, Stale, Owning, Begin
<1> QED
  BY <1>1, <1>2, <1>3, <1>4, <1>5, <1>6, <1>7, <1>8, <1>9 DEF ExclusiveUse

(* A refresh starts exactly when its operation calls it. *)
LEMMA CallRefreshPreserves ==
  ASSUME IInv, NEW t \in Threads, CallRefresh(t)
  PROVE  IInv'
<1> USE DEF IInv, TypeOK
<1>1. TypeOK'
  BY FrameFacts, HandleFacts DEF Phases, Handles, Null, CallRefresh
<1>2. HandleInUse'
  BY FrameFacts, HandleFacts DEF HandleInUse, Null, CallRefresh,
     RefreshNested
<1>3. RefreshNested'
  BY FrameFacts DEF RefreshNested, CallRefresh
<1>4. UsesWrapper'
  BY FrameFacts, HandleFacts DEF UsesWrapper, CallRefresh
<1>5. QueuedOnce'
  BY FrameFacts DEF ExclusiveUse, QueuedOnce, CallRefresh
<1>6. OwnedOnce'
  BY FrameFacts DEF ExclusiveUse, OwnedOnce, Owning, CallRefresh
<1>7. QueuedOrOwned'
  BY FrameFacts DEF ExclusiveUse, QueuedOrOwned, Owning, CallRefresh
<1>8. StaleBelowQueued'
  BY FrameFacts DEF StaleBelowQueued, Stale, CallRefresh
<1>9. StaleBelowOwned'
  <2>1. \A f \in Frames : phase'[f] = phase[f] \/ phase'[f] \in {"call", "lock"}
    BY FrameFacts DEF CallRefresh
  <2>2. \A f \in Frames : phase'[f] = "call" => phase[f] \in {"use", "call"}
    BY FrameFacts DEF CallRefresh
  <2>3. local' = local
    BY DEF CallRefresh
  <2> QED
    BY <2>1, <2>2, <2>3 DEF StaleBelowOwned, Stale, Owning
<1> QED
  BY <1>1, <1>2, <1>3, <1>4, <1>5, <1>6, <1>7, <1>8, <1>9 DEF ExclusiveUse

(* Unwinding leaves the depth that a stale reference may have at most. *)
LEMMA ThrowPreserves ==
  ASSUME IInv, NEW t \in Threads, Throw(t)
  PROVE  IInv'
<1> USE DEF IInv, TypeOK
<1>a. Outer(t) \in Frames /\ local[Outer(t)].depth - 1 \in Nat
  BY FrameFacts, HandleFacts DEF Throw, UsesWrapper
<1>1. TypeOK'
  <2>1. local' \in [Frames -> Handles]
    BY <1>a, HandleFacts DEF Handles, Throw
  <2>2. phase' \in [Frames -> Phases]
    BY DEF Phases, Throw
  <2> QED
    BY <2>1, <2>2 DEF Throw
<1>2. HandleInUse'
  BY FrameFacts, <1>a, HandleFacts DEF HandleInUse, Null, Throw
<1>3. RefreshNested'
  BY FrameFacts, <1>a DEF RefreshNested, Throw
<1>4. UsesWrapper'
  BY FrameFacts, <1>a, HandleFacts DEF UsesWrapper, Throw
<1>5. QueuedOnce'
  BY FrameFacts, <1>a DEF ExclusiveUse, QueuedOnce, Throw
<1>6. OwnedOnce'
  BY FrameFacts, <1>a DEF ExclusiveUse, OwnedOnce, Owning, Throw
<1>7. QueuedOrOwned'
  BY FrameFacts, <1>a DEF ExclusiveUse, QueuedOrOwned, Owning, Throw
<1>8. StaleBelowQueued'
  BY FrameFacts, <1>a DEF StaleBelowQueued, Stale, Throw
<1>9. StaleBelowOwned'
  BY FrameFacts, <1>a, HandleFacts DEF StaleBelowOwned, Stale, Owning, Throw
<1> QED
  BY <1>1, <1>2, <1>3, <1>4, <1>5, <1>6, <1>7, <1>8, <1>9 DEF ExclusiveUse

(* A pop moves the connection from the head of the queue to the frame. *)
LEMMA PopPreserves ==
  ASSUME IInv, NEW f \in Frames, Pop(f)
  PROVE  IInv'
<1> USE DEF IInv, TypeOK
<1>a. /\ Head(available) \in [conn : Conns, depth : Nat]
      /\ Tail(available) \in Seq([conn : Conns, depth : Nat])
      /\ 1 \in DOMAIN available
      /\ Head(available) = available[1]
      /\ \A i \in DOMAIN Tail(available) :
           /\ i \in Nat
           /\ i + 1 \in DOMAIN available /\ i + 1 # 1
           /\ Tail(available)[i] = available[i + 1]
  BY TailFacts DEF Pop
<1>b. Head(available) \in Handles
  BY <1>a DEF Handles, Conns
<1>c. \A g \in Frames : phase'[g] \in Owning =>
        \/ g # f /\ phase[g] \in Owning /\ local'[g] = local[g]
        \/ g = f /\ local'[g] = available[1]
  BY <1>a DEF Pop, Owning
<1>1. TypeOK'
  BY <1>a, <1>b, HandleFacts DEF Phases, Handles, Null, Pop
<1>2. HandleInUse'
  BY <1>a, <1>b, HandleFacts DEF HandleInUse, Null, Pop
<1>3. RefreshNested'
  BY <1>a, <1>b, FrameFacts DEF RefreshNested, Pop
<1>4. UsesWrapper'
  BY <1>a, <1>b, HandleFacts DEF UsesWrapper, Pop
<1>5. QueuedOnce'
  BY <1>a, <1>b DEF ExclusiveUse, QueuedOnce, Pop
<1>6. OwnedOnce'
  BY <1>a, <1>b, <1>c DEF ExclusiveUse, OwnedOnce, Owning, Pop,
     QueuedOrOwned
<1>7. QueuedOrOwned'
  BY <1>a, <1>b, <1>c DEF ExclusiveUse, QueuedOrOwned, Owning, Pop,
     QueuedOnce
<1>8. StaleBelowQueued'
  BY <1>a, <1>b DEF StaleBelowQueued, Stale, Pop
<1>9. StaleBelowOwned'
  <2> SUFFICES ASSUME NEW a \in Frames, NEW b \in Frames,
                      (phase[a] \in Stale)', (phase[b] \in Owning)',
                      (local[b].conn = local[a].conn)'
               PROVE  IF phase'[b] \in {"use", "call"}
                      THEN local'[b].depth > local'[a].depth
                      ELSE local'[b].depth >= local'[a].depth
    BY DEF StaleBelowOwned
  <2>1. a # f /\ phase[a] \in Stale /\ local'[a] = local[a]
    BY DEF Pop, Stale
  <2>2. CASE b = f
    BY <1>a, <1>c, <2>1, <2>2 DEF StaleBelowQueued, Pop
  <2>3. CASE b # f
    BY <1>c, <2>1, <2>3 DEF StaleBelowOwned, Pop
  <2> QED
    BY <2>2, <2>3
<1> QED
  BY <1>1, <1>2, <1>3, <1>4, <1>5, <1>6, <1>7, <1>8, <1>9 DEF ExclusiveUse

(* The new wrapper is above every stale reference. *)
LEMMA ProbeOkPreserves ==
  ASSUME IInv, NEW f \in Frames, ProbeOk(f)
  PROVE  IInv'
<1> USE DEF IInv, TypeOK
<1>a. local[f].depth + 1 \in Nat
  BY HandleFacts
<1>1. TypeOK'
  BY <1>a, HandleFacts, HandleFacts DEF Phases, Handles, Null, ProbeOk
<1>2. HandleInUse'
  BY <1>a, HandleFacts, HandleFacts DEF HandleInUse, Null, ProbeOk
<1>3. RefreshNested'
  BY <1>a, HandleFacts, FrameFacts DEF RefreshNested, ProbeOk
<1>4. UsesWrapper'
  BY <1>a, HandleFacts, HandleFacts DEF UsesWrapper, ProbeOk
<1>5. QueuedOnce'
  BY <1>a, HandleFacts DEF ExclusiveUse, QueuedOnce, ProbeOk
<1>6. OwnedOnce'
  BY <1>a, HandleFacts DEF ExclusiveUse, OwnedOnce, Owning, ProbeOk
<1>7. QueuedOrOwned'
  BY <1>a, HandleFacts DEF ExclusiveUse, QueuedOrOwned, Owning, ProbeOk
<1>8. StaleBelowQueued'
  BY <1>a, HandleFacts DEF StaleBelowQueued, Stale, ProbeOk
<1>9. StaleBelowOwned'
  BY <1>a, HandleFacts, HandleFacts DEF StaleBelowOwned, Stale, Owning,
     ProbeOk
<1> QED
  BY <1>1, <1>2, <1>3, <1>4, <1>5, <1>6, <1>7, <1>8, <1>9 DEF ExclusiveUse

(* A stuck deleter keeps its handle. *)
LEMMA ProbeRelocksPreserves ==
  ASSUME IInv, NEW f \in Frames, ProbeRelocks(f)
  PROVE  IInv'
<1> USE DEF IInv, TypeOK
<1>1. TypeOK'
  BY HandleFacts DEF Phases, Handles, Null, ProbeRelocks
<1>2. HandleInUse'
  BY HandleFacts DEF HandleInUse, Null, ProbeRelocks
<1>3. RefreshNested'
  BY FrameFacts DEF RefreshNested, ProbeRelocks
<1>4. UsesWrapper'
  BY HandleFacts DEF UsesWrapper, ProbeRelocks
<1>5. QueuedOnce'
  BY DEF ExclusiveUse, QueuedOnce, ProbeRelocks
<1>6. OwnedOnce'
  BY DEF ExclusiveUse, OwnedOnce, Owning, ProbeRelocks
<1>7. QueuedOrOwned'
  BY DEF ExclusiveUse, QueuedOrOwned, Owning, ProbeRelocks
<1>8. StaleBelowQueued'
  BY DEF StaleBelowQueued, Stale, ProbeRelocks
<1>9. StaleBelowOwned'
  BY HandleFacts DEF StaleBelowOwned, Stale, Owning, ProbeRelocks
<1> QED
  BY <1>1, <1>2, <1>3, <1>4, <1>5, <1>6, <1>7, <1>8, <1>9 DEF ExclusiveUse

(* A push moves the connection to the queue, under the handle that is now stale. *)
LEMMA PushPreserves ==
  ASSUME IInv, NEW f \in Frames, Push(f)
  PROVE  IInv'
<1> USE DEF IInv, TypeOK
<1>a. local[f] \in [conn : Conns, depth : Nat]
  BY HandleFacts DEF HandleInUse, Push, Handles
<1>b. /\ Append(available, local[f]) \in Seq([conn : Conns, depth : Nat])
      /\ \A i \in DOMAIN Append(available, local[f]) :
           \/ /\ i \in DOMAIN available
              /\ Append(available, local[f])[i] = available[i]
           \/ /\ i = Len(available) + 1
              /\ Append(available, local[f])[i] = local[f]
  BY <1>a, AppendFacts
<1>c. phase[f] \in Owning
  BY DEF Push, Owning
<1>d. \A g \in Frames :
        /\ phase'[g] \in Owning => g # f /\ phase[g] \in Owning
        /\ phase'[g] \in Stale => g = f \/ phase[g] \in Stale
  BY DEF Push, Owning, Stale
<1>e. /\ \A g \in Frames \ {f} :
           phase[g] \in Owning => local[g].conn # local[f].conn
      /\ \A i \in DOMAIN available : available[i].conn # local[f].conn
  BY <1>c DEF ExclusiveUse, OwnedOnce, QueuedOrOwned
<1>f. available' = Append(available, local[f]) /\ local' = local
  BY DEF Push
<1>1. TypeOK'
  BY <1>a, <1>b, HandleFacts DEF Phases, Handles, Null, Push
<1>2. HandleInUse'
  BY <1>a, <1>b, HandleFacts DEF HandleInUse, Null, Push
<1>3. RefreshNested'
  BY <1>a, <1>b, FrameFacts DEF RefreshNested, Push
<1>4. UsesWrapper'
  BY <1>a, <1>b, HandleFacts DEF UsesWrapper, Push
<1>5. QueuedOnce'
  BY <1>b, <1>e, <1>f DEF ExclusiveUse, QueuedOnce
<1>6. OwnedOnce'
  BY <1>d, <1>f DEF ExclusiveUse, OwnedOnce
<1>7. QueuedOrOwned'
  BY <1>b, <1>d, <1>e, <1>f DEF ExclusiveUse, QueuedOrOwned
<1>8. StaleBelowQueued'
  <2> SUFFICES ASSUME NEW a \in Frames, NEW i \in DOMAIN available',
                      phase'[a] \in Stale, available'[i].conn = local[a].conn
               PROVE  available'[i].depth >= local[a].depth
    BY <1>f DEF StaleBelowQueued
  <2>1. CASE i \in DOMAIN available /\ available'[i] = available[i]
    BY <1>d, <1>e, <2>1 DEF StaleBelowQueued
  <2>2. CASE available'[i] = local[f]
    <3>1. CASE a = f
      BY <2>2, <3>1, HandleFacts
    <3>2. CASE phase[a] \in Stale
      BY <1>c, <2>2, <3>2 DEF StaleBelowOwned, Push
    <3> QED
      BY <1>d, <3>1, <3>2
  <2> QED
    BY <1>b, <1>f, <2>1, <2>2
<1>9. StaleBelowOwned'
  <2> SUFFICES ASSUME NEW a \in Frames, NEW b \in Frames,
                      phase'[a] \in Stale, phase'[b] \in Owning,
                      local[b].conn = local[a].conn
               PROVE  IF phase'[b] \in {"use", "call"}
                      THEN local[b].depth > local[a].depth
                      ELSE local[b].depth >= local[a].depth
    BY <1>f DEF StaleBelowOwned
  <2>1. b # f /\ phase[b] \in Owning /\ phase'[b] = phase[b]
    BY <1>d DEF Push
  <2>2. phase[a] \in Stale
    BY <1>d, <1>e, <2>1
  <2> QED
    BY <2>1, <2>2 DEF StaleBelowOwned
<1> QED
  BY <1>1, <1>2, <1>3, <1>4, <1>5, <1>6, <1>7, <1>8, <1>9 DEF ExclusiveUse

(* A notification moves no handle. *)
LEMMA NotifyPreserves ==
  ASSUME IInv, NEW f \in Frames, Notify(f)
  PROVE  IInv'
<1> USE DEF IInv, TypeOK
<1>1. TypeOK'
  BY HandleFacts DEF Phases, Handles, Null, Notify, Waiting
<1>2. HandleInUse'
  BY HandleFacts DEF HandleInUse, Null, Notify, Waiting
<1>3. RefreshNested'
  BY FrameFacts DEF RefreshNested, Notify, Waiting
<1>4. UsesWrapper'
  BY HandleFacts DEF UsesWrapper, Notify, Waiting
<1>5. QueuedOnce'
  BY DEF ExclusiveUse, QueuedOnce, Notify, Waiting
<1>6. OwnedOnce'
  BY DEF ExclusiveUse, OwnedOnce, Owning, Notify, Waiting
<1>7. QueuedOrOwned'
  BY DEF ExclusiveUse, QueuedOrOwned, Owning, Notify, Waiting
<1>8. StaleBelowQueued'
  BY DEF StaleBelowQueued, Stale, Notify, Waiting
<1>9. StaleBelowOwned'
  <2>1. \A g \in Frames :
          /\ phase'[g] \in Owning => phase[g] \in Owning /\ phase'[g] = phase[g]
          /\ phase'[g] \in Stale => phase[g] \in Stale
    BY DEF Notify, Waiting, Owning, Stale
  <2>2. local' = local
    BY DEF Notify
  <2> QED
    BY <2>1, <2>2 DEF StaleBelowOwned
<1> QED
  BY <1>1, <1>2, <1>3, <1>4, <1>5, <1>6, <1>7, <1>8, <1>9 DEF ExclusiveUse

(* The last reference to a wrapper is the only place of its connection. *)
LEMMA DropRunsDeleterPreserves ==
  ASSUME IInv, NEW f \in Frames, DropRunsDeleter(f)
  PROVE  IInv'
<1> USE DEF IInv, TypeOK
<1>a. /\ local[f].depth \in Nat /\ local[f].depth - 1 \in Nat
      /\ phase[f] = "drop" /\ phase[f] \in Stale
      /\ phase' = [phase EXCEPT ![f] = "return"] /\ available' = available
      /\ local' = [local EXCEPT ![f].depth = @ - 1]
  BY HandleFacts DEF DropRunsDeleter, Stale
<1>b. \A i \in DOMAIN available : available[i].conn # local[f].conn
  BY <1>a DEF DropRunsDeleter, LastRef, KeepsAlive, StaleBelowQueued
<1>c. \A g \in Frames : phase[g] \in Owning => local[g].conn # local[f].conn
  <2> SUFFICES ASSUME NEW g \in Frames, phase[g] \in Owning,
                      local[g].conn = local[f].conn
               PROVE  FALSE
    OBVIOUS
  <2>1. g # f
    BY <1>a DEF Owning
  <2>2. local[g].depth >= local[f].depth
    BY <1>a, HandleFacts DEF StaleBelowOwned
  <2> QED
    BY <2>1, <2>2 DEF DropRunsDeleter, LastRef, KeepsAlive
<1>d. \A g \in Frames \ {f} :
        local[g].conn = local[f].conn => local[g].depth <= local[f].depth - 1
  BY <1>a, HandleFacts DEF DropRunsDeleter, LastRef, KeepsAlive
<1>e. \A g \in Frames :
        /\ local'[g].conn = local[g].conn
        /\ g # f => local'[g] = local[g] /\ phase'[g] = phase[g]
        /\ g = f => local'[g].depth = local[f].depth - 1 /\ phase'[g] = "return"
  BY <1>a, HandleFacts
<1>1. TypeOK'
  BY HandleFacts DEF Phases, Handles, Null, DropRunsDeleter
<1>2. HandleInUse'
  BY HandleFacts DEF HandleInUse, Null, DropRunsDeleter
<1>3. RefreshNested'
  BY FrameFacts DEF RefreshNested, DropRunsDeleter
<1>4. UsesWrapper'
  BY HandleFacts DEF UsesWrapper, DropRunsDeleter
<1>5. QueuedOnce'
  BY <1>a DEF ExclusiveUse, QueuedOnce
<1>6. OwnedOnce'
  BY <1>c, <1>e DEF ExclusiveUse, OwnedOnce
<1>7. QueuedOrOwned'
  BY <1>a, <1>b, <1>e DEF ExclusiveUse, QueuedOrOwned
<1>8. StaleBelowQueued'
  BY <1>a, <1>e DEF StaleBelowQueued, Stale
<1>9. StaleBelowOwned'
  <2> SUFFICES ASSUME NEW g \in Frames, NEW b \in Frames,
                      phase'[g] \in Stale, phase'[b] \in Owning,
                      local[b].conn = local[g].conn
               PROVE  IF phase'[b] \in {"use", "call"}
                      THEN local'[b].depth > local'[g].depth
                      ELSE local'[b].depth >= local'[g].depth
    BY <1>e DEF StaleBelowOwned
  <2>1. g # f /\ phase[g] \in Stale /\ local'[g] = local[g]
    BY <1>e DEF Stale
  <2>2. CASE b = f
    BY <1>a, <1>d, <1>e, <2>1, <2>2, HandleFacts
  <2>3. CASE b # f
    BY <1>e, <2>1, <2>3 DEF StaleBelowOwned
  <2> QED
    BY <2>2, <2>3
<1> QED
  BY <1>1, <1>2, <1>3, <1>4, <1>5, <1>6, <1>7, <1>8, <1>9 DEF ExclusiveUse

(* A frame that lets go of its handle: a refresh hands over to its operation. *)
LEMMA EndedFacts ==
  ASSUME IInv, NEW f \in Frames, phase[f] \notin {"none", "call"}
  PROVE  /\ Ended(f) \in [Frames -> Phases]
         /\ Ended(f)[f] = "none"
         /\ \A g \in Frames \ {f} :
              \/ Ended(f)[g] = phase[g]
              \/ phase[g] = "call" /\ Ended(f)[g] = "return"
         /\ \A t \in Threads :
              Ended(f)[Inner(t)] # "none" <=> Ended(f)[Outer(t)] = "call"
<1> USE DEF IInv, TypeOK
<1>1. Ended(f) \in [Frames -> Phases] /\ Ended(f)[f] = "none"
  BY DEF Ended, Phases
<1>2. ASSUME NEW g \in Frames \ {f}
      PROVE  \/ Ended(f)[g] = phase[g]
             \/ phase[g] = "call" /\ Ended(f)[g] = "return"
  <2>1. CASE f[2] = 2 /\ g = Outer(f[1])
    <3>1. f = Inner(f[1]) /\ f[1] \in Threads
      BY FrameFacts, <2>1
    <3>2. phase[g] = "call"
      BY <2>1, <3>1 DEF RefreshNested
    <3> QED
      BY <2>1, <3>2 DEF Ended
  <2>2. CASE ~(f[2] = 2 /\ g = Outer(f[1]))
    BY <2>2 DEF Ended
  <2> QED
    BY <2>1, <2>2
<1>3. ASSUME NEW t \in Threads
      PROVE  Ended(f)[Inner(t)] # "none" <=> Ended(f)[Outer(t)] = "call"
  <2>1. Outer(t) \in Frames /\ Inner(t) \in Frames /\ Outer(t) # Inner(t)
    BY FrameFacts
  <2>2. CASE f = Inner(t)
    <3>1. f[2] = 2 /\ f[1] = t
      BY <2>2 DEF Inner
    <3> QED
      BY <2>1, <2>2, <3>1 DEF Ended
  <2>3. CASE f = Outer(t)
    <3>1. f[2] = 1
      BY <2>3 DEF Outer
    <3> QED
      BY <2>1, <2>3, <3>1 DEF Ended, RefreshNested
  <2>4. CASE f # Inner(t) /\ f # Outer(t)
    <3>1. ~(f[2] = 2 /\ Outer(t) = Outer(f[1]))
      BY <2>4, FrameFacts
    <3>2. ~(f[2] = 2 /\ Inner(t) = Outer(f[1]))
      BY FrameFacts
    <3> QED
      BY <2>1, <2>4, <3>1, <3>2 DEF Ended, RefreshNested
  <2> QED
    BY <2>2, <2>3, <2>4
<1> QED
  BY <1>1, <1>2, <1>3

(***************************************************************************)
(* A frame that lets go of its handle changes nothing that IInv says of    *)
(* the other frames.                                                       *)
(***************************************************************************)
LEMMA EndedPreserves ==
  ASSUME IInv, NEW f \in Frames, phase[f] \notin {"none", "call"},
         phase' = Ended(f), local' = [local EXCEPT ![f] = Null],
         UNCHANGED <<available, kind, ops, closing, unjoined, dbUp, outages>>
  PROVE  IInv'
<1> USE DEF IInv, TypeOK
<1>a. /\ phase' \in [Frames -> Phases]
      /\ phase'[f] = "none" /\ local'[f] = Null
      /\ \A g \in Frames \ {f} :
           /\ local'[g] = local[g]
           /\ \/ phase'[g] = phase[g]
              \/ phase[g] = "call" /\ phase'[g] = "return"
  BY EndedFacts
<1>b. \A g \in Frames :
        /\ phase'[g] \in Owning => g # f /\ phase[g] \in Owning
        /\ phase'[g] \in Stale => g # f /\ phase[g] \in Stale
        /\ phase'[g] \in {"use", "call"} => phase[g] = phase'[g]
  BY <1>a DEF Owning, Stale
<1>1. TypeOK'
  <2>1. Null \in Handles
    BY PoolAssumption DEF Handles, Null
  <2>2. local' \in [Frames -> Handles]
    BY <2>1
  <2> QED
    BY <1>a, <2>2
<1>2. HandleInUse'
  BY <1>a DEF HandleInUse
<1>3. RefreshNested'
  BY EndedFacts DEF RefreshNested
<1>4. UsesWrapper'
  BY <1>a, <1>b DEF UsesWrapper
<1>5. ExclusiveUse'
  BY <1>a, <1>b DEF ExclusiveUse, QueuedOnce, OwnedOnce, QueuedOrOwned
<1>6. StaleBelowQueued'
  BY <1>a, <1>b DEF StaleBelowQueued
<1>7. StaleBelowOwned'
  <2> SUFFICES ASSUME NEW a \in Frames, NEW b \in Frames,
                      phase'[a] \in Stale, phase'[b] \in Owning,
                      local'[b].conn = local'[a].conn
               PROVE  IF phase'[b] \in {"use", "call"}
                      THEN local'[b].depth > local'[a].depth
                      ELSE local'[b].depth >= local'[a].depth
    BY DEF StaleBelowOwned
  <2>1. /\ phase[a] \in Stale /\ local'[a] = local[a]
        /\ phase[b] \in Owning /\ local'[b] = local[b]
    BY <1>a, <1>b
  <2>2. local[a].depth \in Nat /\ local[b].depth \in Nat
    BY HandleFacts
  <2> QED
    BY <1>b, <2>1, <2>2 DEF StaleBelowOwned
<1> QED
  BY <1>1, <1>2, <1>3, <1>4, <1>5, <1>6, <1>7

(* close_all only takes connections out of the queue. *)
LEMMA CloseOnePreserves ==
  ASSUME IInv, CloseOne
  PROVE  IInv'
<1> USE DEF IInv, TypeOK
<1>a. /\ Tail(available) \in Seq([conn : Conns, depth : Nat])
      /\ \A i \in DOMAIN Tail(available) :
           /\ i \in Nat
           /\ i + 1 \in DOMAIN available
           /\ Tail(available)[i] = available[i + 1]
  BY TailFacts DEF CloseOne
<1>b. available' = Tail(available) /\ phase' = phase /\ local' = local
  BY DEF CloseOne
<1>1. TypeOK' /\ HandleInUse' /\ RefreshNested' /\ UsesWrapper'
  BY <1>a DEF CloseOne, HandleInUse, RefreshNested, UsesWrapper
<1>2. QueuedOnce'
  BY <1>a, <1>b DEF ExclusiveUse, QueuedOnce
<1>3. OwnedOnce' /\ QueuedOrOwned'
  BY <1>a, <1>b DEF ExclusiveUse, OwnedOnce, QueuedOrOwned
<1>4. StaleBelowQueued' /\ StaleBelowOwned'
  BY <1>a, <1>b DEF StaleBelowQueued, StaleBelowOwned
<1> QED
  BY <1>1, <1>2, <1>3, <1>4 DEF ExclusiveUse

(* The rest of close_all, MySQL and stuttering touch no frame and no handle. *)
LEMMA OtherPreserves ==
  ASSUME IInv, CloseAll \/ CloseAgain \/ CloseRelocks \/ Closed \/ DbDown \/ DbUp \/ UNCHANGED vars
  PROVE  IInv'
<1> USE DEF IInv, TypeOK
<1>1. /\ UNCHANGED <<available, phase, local, kind, ops>>
      /\ closing' \in Closings
      /\ unjoined' \in SUBSET Threads
      /\ dbUp' \in BOOLEAN
      /\ outages' \in Nat
  <2>1. CASE CloseAll \/ CloseAgain \/ CloseRelocks \/ Closed
    BY <2>1, PoolAssumption
       DEF CloseAll, CloseAgain, CloseRelocks, Closed, InCloseAll, Closings
  <2>2. CASE DbDown
    <3>1. outages' \in Nat
      BY <2>2 DEF DbDown
    <3> QED
      BY <2>2, <3>1, Zenon DEF DbDown
  <2>3. CASE DbUp
    BY <2>3 DEF DbUp
  <2>4. CASE UNCHANGED vars
    BY <2>4 DEF vars
  <2> QED
    BY <2>1, <2>2, <2>3, <2>4
<1>2. TypeOK'
  BY <1>1 DEF IInv, TypeOK
<1>3. HandleInUse' /\ RefreshNested' /\ UsesWrapper'
  BY <1>1 DEF IInv, HandleInUse, RefreshNested, UsesWrapper
<1>4. ExclusiveUse'
  BY <1>1 DEF IInv, ExclusiveUse, QueuedOnce, OwnedOnce, QueuedOrOwned
<1>5. StaleBelowQueued' /\ StaleBelowOwned'
  BY <1>1 DEF IInv, StaleBelowQueued, StaleBelowOwned
<1> QED
  BY <1>2, <1>3, <1>4, <1>5 DEF IInv

(* Every step of the pool keeps IInv. *)
LEMMA NextPreserves == IInv /\ [Next]_vars => IInv'
<1> SUFFICES ASSUME IInv, [Next]_vars PROVE IInv'
  OBVIOUS
<1>1. ASSUME NEW t \in Threads, Begin(t) \/ CallRefresh(t) \/ Throw(t)
      PROVE  IInv'
  BY <1>1, BeginPreserves, CallRefreshPreserves, ThrowPreserves
<1>2. ASSUME NEW f \in Frames, Finish(f) \/ SpuriousWake(f) PROVE IInv'
  BY <1>2, FinishPreserves, SpuriousWakePreserves
<1>3. ASSUME NEW f \in Frames, GetConnection(f) PROVE IInv'
  <2>1. CASE ProbeFails(f)
    BY <2>1, EndedPreserves DEF ProbeFails
  <2> QED
    BY <1>3, <2>1, WaitPreserves, PopPreserves, ProbeOkPreserves,
       ProbeRelocksPreserves DEF GetConnection
<1>4. ASSUME NEW f \in Frames, ReturnConnection(f) PROVE IInv'
  <2>1. CASE Drop(f)
    BY <2>1, EndedPreserves DEF Drop
  <2> QED
    BY <1>4, <2>1, PushPreserves, NotifyPreserves, DropRunsDeleterPreserves
       DEF ReturnConnection
<1>5. CASE CloseOne
  BY <1>5, CloseOnePreserves
<1> QED
  BY <1>1, <1>2, <1>3, <1>4, <1>5, OtherPreserves DEF Next

-----------------------------------------------------------------------------
(* Theorems *)

(***************************************************************************)
(* The inductive invariant holds in every reachable state: what the queue, *)
(* the calls and the stale references say of a connection always agrees.   *)
(***************************************************************************)
THEOREM Invariance == Spec => []IInv
  BY InitIInv, NextPreserves, PTL DEF Spec

(* Every variable of the pool keeps its type. *)
THEOREM Typing == Spec => []TypeOK
<1>1. IInv => TypeOK
  BY DEF IInv
<1> QED
  BY <1>1, Invariance, PTL

(***************************************************************************)
(* Whatever the threads, the failures and the interleaving, a connection   *)
(* is never queued twice, nor queued and in use, nor in use by two calls,  *)
(* although it is returned both explicitly and by a deleter.               *)
(***************************************************************************)
THEOREM Exclusion == Spec => []ExclusiveUse
<1>1. IInv => ExclusiveUse
  BY DEF IInv
<1> QED
  BY <1>1, Invariance, PTL
=============================================================================
