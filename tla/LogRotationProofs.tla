------------------------- MODULE LogRotationProofs -------------------------
(***************************************************************************)
(* Theorems about LogRotation, for every backup_count and max_size.        *)
(*                                                                         *)
(* A generation is lost before its time only if it is further down the     *)
(* files than its age: Placed bounds by how much, and Vacated says that    *)
(* what a rename replaces has been moved on or could not be.               *)
(***************************************************************************)
EXTENDS LogRotation, TLAPS

(* This rotation has moved what was in slot s - 1 to slot s, if anything. *)
Moved(s) == pc \in {"shift", "reopen"} /\ s > i

Placed ==
  \A s \in Slots :
    file[s] # None => \/ s <= newest - file[s] + cut
                      \/ Moved(s) /\ s <= newest - file[s] + cut + 1

Vacated ==
  /\ pc = "remove" => Backups > 0 /\ i = Backups
  /\ pc = "shift" => i > 0 /\ (i < Backups => file[i] \in spoilt \union {None})
  /\ pc = "reopen" => i = 0 /\ (Backups > 0 => file[0] \in spoilt \union {None})
  /\ open => pc \in {"idle", "write"}
  /\ bad => open
  /\ file[0] \in {None, newest}

RoomForLine ==
  MaxSize > 0 /\ (bad \/ (pc = "write" /\ open)) => size < MaxSize + Longest * slips

LogInv ==
  /\ TypeOK
  /\ NewestFirst
  /\ OnlyOldestMissing
  /\ SizeBounded
  /\ Placed
  /\ Vacated
  /\ RoomForLine

-----------------------------------------------------------------------------
(* The initial state is typed. *)
LEMMA LogInitTyped ==
  ASSUME Init
  PROVE  TypeOK
<1> USE LogAssumption DEF Init, TypeOK
<1>1. file \in [Slots -> 0 .. newest]
  BY DEF None
<1>2. 0 \in Slots
  BY DEF Slots
<1>3. QED
  BY <1>1, <1>2 DEF Phases

(* Every step keeps the types. *)
LEMMA LogTyped ==
  ASSUME TypeOK, Vacated, Next
  PROVE  TypeOK'
<1> USE LogAssumption DEF TypeOK, Next
<1>1. newest' \in Nat /\ newest <= newest'
  BY DEF Log, StatFails, RemoveOldest, Rename, RenameFails, Reopen, ReopenFails, Write,
         WriteFails, Kill, Restart, RestartSilent, Begin
<1>2. file' \in [Slots -> 0 .. newest']
  <2>1. file \in [Slots -> 0 .. newest']
    BY <1>1
  <2>2. ASSUME Rename PROVE file' \in [Slots -> 0 .. newest']
    <3>1. file[Source] \in 0 .. newest' /\ 0 \in 0 .. newest'
      BY <1>1, <2>2, <2>1 DEF Rename, Source, Vacated, Slots
    <3>2. QED
      BY <3>1, <2>1, <2>2 DEF Rename, None
  <2>3. ASSUME Begin(0) PROVE file' \in [Slots -> 0 .. newest']
    BY <2>1, <2>3, <1>1 DEF Begin, Slots
  <2>4. ASSUME RemoveOldest PROVE file' \in [Slots -> 0 .. newest']
    BY <2>1, <2>4, <1>1 DEF RemoveOldest, None
  <2>5. QED
    BY <2>1, <2>2, <2>3, <2>4
    DEF Log, StatFails, RenameFails, Reopen, ReopenFails, Write, WriteFails, Kill, Restart,
        RestartSilent
<1>3. size' \in Nat /\ slips' \in Nat
  <2>1. Close => size' \in Nat
    BY DEF Close
  <2>2. \A n \in Nat : Write(n) \/ WriteFails(n) => size' \in Nat /\ slips' \in Nat
    BY DEF Write, WriteFails
  <2>3. Log \/ StatFails \/ Kill => size' \in Nat /\ slips' \in Nat
    BY <2>1 DEF Log, StatFails, Kill
  <2>4. RemoveOldest \/ Rename \/ RenameFails \/ ReopenFails \/ RestartSilent
        => size' \in Nat /\ slips' \in Nat
    BY DEF RemoveOldest, Rename, RenameFails, ReopenFails, RestartSilent
  <2>5. Reopen \/ Restart => size' \in Nat /\ slips' \in Nat
    BY DEF Reopen, Restart, Begin
  <2> QED
    BY <2>2, <2>3, <2>4, <2>5
<1>4. open' \in BOOLEAN /\ bad' \in BOOLEAN /\ pc' \in Phases
  BY DEF Log, RemoveOldest, Rename, RenameFails, Reopen, ReopenFails, Write, Kill,
         Restart, RestartSilent, Begin, Phases, NextSlot, StatFails, WriteFails, Close, stream
<1>5. i' \in Slots
  BY DEF Log, RemoveOldest, Rename, RenameFails, Reopen, ReopenFails, Write, Kill,
         Restart, RestartSilent, Slots, NextSlot, Vacated, StatFails, WriteFails
<1>6. cut' \in Nat /\ faults' \in Nat
  BY DEF Log, RemoveOldest, Rename, RenameFails, Reopen, ReopenFails, Write, Kill,
         Restart, RestartSilent, Fault, StatFails, WriteFails
<1>7. spoilt' \subseteq 0 .. newest'
  <2>1. spoilt \subseteq 0 .. newest'
    BY <1>1
  <2>2. ASSUME RenameFails PROVE spoilt' \subseteq 0 .. newest'
    <3>1. file[Source] \in 0 .. newest'
      BY <1>1, <2>2 DEF RenameFails, Source, Vacated, Slots
    <3>2. QED
      BY <3>1, <2>1, <2>2 DEF RenameFails
  <2>3. QED
    BY <2>1, <2>2
    DEF Log, StatFails, RemoveOldest, Rename, Reopen, ReopenFails, Write, WriteFails, Kill,
        Restart, RestartSilent
<1>8. QED
  BY <1>1, <1>2, <1>3, <1>4, <1>5, <1>6, <1>7

(* A fresh log directory satisfies the invariant. *)
LEMMA InitLog == Init => LogInv
<1> SUFFICES ASSUME Init PROVE LogInv
  OBVIOUS
<1>1. TypeOK
  BY LogInitTyped
<1>2. \A s \in Slots : file[s] = None
  BY DEF Init
<1>3. NewestFirst /\ Placed
  BY <1>2 DEF NewestFirst, Placed, Init
<1>4. OnlyOldestMissing
  BY DEF OnlyOldestMissing, Init
<1>5. SizeBounded /\ RoomForLine
  BY LogAssumption DEF SizeBounded, RoomForLine, Init
<1>6. 0 \in Slots
  BY LogAssumption DEF Slots
<1>7. Vacated
  BY <1>2, <1>6 DEF Vacated, Init
<1>8. QED
  BY <1>1, <1>3, <1>4, <1>5, <1>7 DEF LogInv

(* What the types say of the numbers the other lemmas compare. *)
LEMMA LogNumbers ==
  ASSUME TypeOK
  PROVE  /\ Backups \in Nat /\ newest \in Nat /\ cut \in Nat /\ i \in Nat /\ i <= Backups
         /\ 0 \in Slots /\ Backups \in Slots
         /\ \A s \in Slots : s \in Nat /\ s <= Backups /\ file[s] \in Nat /\ file[s] <= newest
  BY LogAssumption DEF TypeOK, Slots

(* The steps that change no file and begin none. *)
Quiet ==
  \/ Log \/ StatFails \/ RenameFails \/ ReopenFails \/ Kill
  \/ \E line \in 1 .. Longest : Write(line)
  \/ \E part \in 0 .. Longest - 1 : WriteFails(part)

(* A new generation begins in slot 0, after a rotation or a restart. *)
Begins == Reopen \/ (Restart /\ Begin(0) /\ file[0] = None)

(* A step changes no file, removes, renames or begins one. *)
LEMMA LogCases ==
  ASSUME TypeOK, Vacated, Next
  PROVE  \/ (Quiet \/ RestartSilent \/ (Restart /\ file[0] # None)) /\ UNCHANGED <<file, newest>>
         \/ RemoveOldest \/ Rename \/ Begins
<1>1. Log \/ StatFails \/ RenameFails \/ ReopenFails \/ Kill \/ RestartSilent
      => UNCHANGED <<file, newest>>
  BY DEF Log, StatFails, RenameFails, ReopenFails, Kill, RestartSilent
<1>2. \A n \in Int : Write(n) \/ WriteFails(n) => UNCHANGED <<file, newest>>
  BY DEF Write, WriteFails
<1>3. Restart => Begins \/ (file[0] # None /\ UNCHANGED <<file, newest>>)
  BY DEF Restart, Begins
<1> QED
  BY <1>1, <1>2, <1>3, LogAssumption DEF Next, Quiet, Begins

(* What a rename does to the slots: it moves slot i - 1 to slot i. *)
LEMMA RenameFacts ==
  ASSUME LogInv, Rename
  PROVE  /\ pc = "shift" /\ i \in 1 .. Backups /\ i' = i - 1 /\ i - 1 \in Slots /\ i \in Slots
         /\ pc' \in {"shift", "reopen"} /\ (pc' = "reopen" => i = 1) /\ ~ open
         /\ UNCHANGED <<newest, size, open, bad, cut, spoilt, slips>>
         /\ \/ file[i - 1] = None /\ file' = file
            \/ /\ file[i - 1] # None
               /\ \A s \in Slots : file'[s] = IF s = i THEN file[i - 1]
                                              ELSE IF s = i - 1 THEN None ELSE file[s]
<1>1. pc = "shift" /\ i > 0 /\ i' = i - 1 /\ ~ open
  BY DEF Rename, NextSlot, LogInv, Vacated
<1>2. i \in 1 .. Backups /\ i - 1 \in Slots /\ i \in Slots
  BY <1>1, LogNumbers DEF LogInv, Slots
<1>3. pc' \in {"shift", "reopen"} /\ (pc' = "reopen" => i = 1)
      /\ UNCHANGED <<newest, size, open, bad, cut, spoilt, slips>>
  BY DEF Rename, NextSlot, stream
<1>4. Source = i - 1 /\ Source + 1 = i
  BY <1>2 DEF Source, Slots
<1>5. \/ file[i - 1] = None /\ file' = file
      \/ /\ file[i - 1] # None
         /\ file' = [file EXCEPT ![i] = file[i - 1], ![i - 1] = None]
  BY <1>4 DEF Rename
<1>6. ASSUME file' = [file EXCEPT ![i] = file[i - 1], ![i - 1] = None]
      PROVE  \A s \in Slots : file'[s] = IF s = i THEN file[i - 1]
                                         ELSE IF s = i - 1 THEN None ELSE file[s]
  BY <1>2, <1>6 DEF LogInv, TypeOK
<1>7. QED
  BY <1>1, <1>2, <1>3, <1>5, <1>6

(* What std::remove does: it empties the last slot, or nothing. *)
LEMMA RemoveFacts ==
  ASSUME LogInv, RemoveOldest
  PROVE  /\ i = Backups /\ Backups > 0 /\ pc = "remove" /\ pc' = "shift" /\ ~ open
         /\ UNCHANGED <<newest, size, open, bad, i, cut, spoilt, slips>>
         /\ \A s \in Slots : file'[s] = file[s] \/ (s = Backups /\ file'[s] = None)
<1>1. i = Backups /\ Backups > 0 /\ pc = "remove" /\ pc' = "shift" /\ ~ open
      /\ UNCHANGED <<newest, size, open, bad, i, cut, spoilt, slips>>
  BY DEF RemoveOldest, LogInv, Vacated, stream
<1>2. file' = file \/ file' = [file EXCEPT ![Backups] = None]
  BY DEF RemoveOldest
<1>3. QED
  BY <1>1, <1>2 DEF LogInv, TypeOK

(* What the start of a generation does. *)
LEMMA BeginFacts ==
  ASSUME LogInv, Begins
  PROVE  /\ newest' = newest + 1 /\ size' = 0 /\ open' = TRUE /\ bad' = FALSE /\ slips' = 0
         /\ UNCHANGED <<i, cut, spoilt>>
         /\ pc \in {"reopen", "down"} /\ pc' \in {"write", "idle"}
         /\ pc = "reopen" => i = 0 /\ (Backups > 0 => file[0] \in spoilt \union {None})
         /\ pc = "down" => file[0] = None
         /\ \A s \in Slots : file'[s] = IF s = 0 THEN newest + 1 ELSE file[s]
<1>1. Begin(0) /\ UNCHANGED <<i, cut, spoilt>>
      /\ pc \in {"reopen", "down"} /\ pc' \in {"write", "idle"}
      /\ (pc = "down" => file[0] = None)
  BY DEF Begins, Reopen, Restart
<1>2. pc = "reopen" => i = 0 /\ (Backups > 0 => file[0] \in spoilt \union {None})
  BY DEF LogInv, Vacated
<1>3. \A s \in Slots : file'[s] = IF s = 0 THEN newest + 1 ELSE file[s]
  BY <1>1 DEF Begin, LogInv, TypeOK
<1>4. QED
  BY <1>1, <1>2, <1>3 DEF Begin

-----------------------------------------------------------------------------
(* One more slip allows one more line. *)
LEMMA SlipAllows ==
  ASSUME TypeOK
  PROVE  /\ Longest * slips \in Nat /\ MaxSize \in Int /\ Longest \in Nat /\ slips \in Nat
         /\ Longest * (slips + 1) = Longest * slips + Longest
         /\ Longest * (1 + slips) = Longest * slips + Longest
         /\ Longest * (1 + (slips + 1)) = Longest * slips + Longest + Longest
  BY LogAssumption DEF TypeOK

(* The size a step leaves alone stays within bounds. *)
LEMMA SizeKept ==
  ASSUME LogInv, UNCHANGED <<size, slips>>, (bad' => bad), (pc' = "write" => ~ open' \/ bad')
  PROVE  SizeBounded' /\ RoomForLine'
  BY DEF LogInv, SizeBounded, RoomForLine

(* What close may still write has been allowed for when the write failed. *)
LEMMA CloseKeepsBound ==
  ASSUME LogInv, Close, UNCHANGED slips
  PROVE  SizeBounded' /\ RoomForLine'
<1>1. size \in Nat /\ bad \in BOOLEAN
  BY DEF LogInv, TypeOK
<1>2. ~ open' /\ ~ bad'
  BY DEF Close
<1>3. CASE bad
  <2>1. PICK kept \in 0 .. Longest : size' = size + kept
    BY <1>3 DEF Close
  <2>2. MaxSize > 0 => size < MaxSize + Longest * slips
    BY <1>3 DEF LogInv, RoomForLine
  <2>3. MaxSize > 0 => size' < MaxSize + (Longest * slips + Longest)
    <3> DEFINE L == Longest * slips
    <3>1. L \in Nat /\ MaxSize \in Int /\ Longest \in Nat
      BY SlipAllows DEF LogInv
    <3>2. MaxSize > 0 => size < MaxSize + L
      BY <2>2
    <3> HIDE DEF L
    <3>3. MaxSize > 0 => size' < MaxSize + (L + Longest)
      BY <1>1, <2>1, <3>1, <3>2
    <3> QED
      BY <3>3 DEF L
  <2> QED
    BY <1>2, <2>3, SlipAllows DEF LogInv, SizeBounded, RoomForLine
<1>4. CASE ~ bad
  <2>1. size' = size
    BY <1>1, <1>4 DEF Close
  <2> QED
    BY <1>2, <2>1, SizeKept
<1> QED
  BY <1>3, <1>4

(* A line is written where rotate_if_needed has left room for it, or slipped. *)
LEMMA SizeStep ==
  ASSUME LogInv, Next
  PROVE  SizeBounded' /\ RoomForLine'
<1> DEFINE L == Longest * slips
<1>0. /\ size \in Nat /\ bad \in BOOLEAN /\ open \in BOOLEAN /\ L \in Nat /\ MaxSize \in Int
      /\ Longest \in Nat /\ Longest * (1 + slips) = L + Longest
      /\ Longest * (slips + 1) = L + Longest
      /\ Longest * (1 + (slips + 1)) = L + Longest + Longest
  BY SlipAllows DEF LogInv, TypeOK
<1>1. MaxSize > 0 => size < MaxSize + (L + Longest)
  BY <1>0 DEF LogInv, SizeBounded
<1>2. MaxSize > 0 /\ (bad \/ (pc = "write" /\ open)) => size < MaxSize + L
  BY DEF LogInv, RoomForLine
<1> HIDE DEF L
<1>3. CASE Log
  <2>1. slips' = slips
    BY <1>3 DEF Log
  <2>2. CASE Full
    BY <1>3, <2>1, <2>2, CloseKeepsBound DEF Log
  <2>3. CASE ~ Full
    <3>1. UNCHANGED <<size, open, bad>>
      BY <1>3, <2>3 DEF Log, stream
    <3>2. MaxSize > 0 /\ open => size < MaxSize + L
      BY <1>0, <2>3 DEF Full
    <3> QED
      BY <1>0, <1>1, <1>2, <2>1, <3>1, <3>2 DEF SizeBounded, RoomForLine, L
  <2> QED
    BY <2>2, <2>3
<1>4. CASE StatFails
  <2>1. UNCHANGED size /\ slips' = slips + 1
    BY <1>4 DEF StatFails
  <2>2. MaxSize > 0 => size < MaxSize + (L + Longest + Longest)
    BY <1>0, <1>1
  <2> QED
    BY <1>0, <1>1, <2>1, <2>2 DEF SizeBounded, RoomForLine
<1>5. CASE \E line \in 1 .. Longest : Write(line)
  <2>1. PICK line \in 1 .. Longest : Write(line)
    BY <1>5
  <2>2. UNCHANGED <<open, bad, slips>> /\ pc' = "idle" /\ pc = "write"
        /\ size' = IF open /\ ~ bad THEN size + line ELSE size
    BY <2>1 DEF Write, stream
  <2>3. MaxSize > 0 => size' < MaxSize + (L + Longest)
    BY <1>0, <1>1, <1>2, <2>2
  <2>4. MaxSize > 0 /\ bad => size' < MaxSize + L
    BY <1>2, <2>2
  <2> QED
    BY <1>0, <2>2, <2>3, <2>4 DEF SizeBounded, RoomForLine, L
<1>6. CASE \E part \in 0 .. Longest - 1 : WriteFails(part)
  <2>1. PICK part \in 0 .. Longest - 1 : WriteFails(part)
    BY <1>6
  <2>2. pc = "write" /\ open /\ size' = size + part /\ slips' = slips + 1
    BY <2>1 DEF WriteFails
  <2>3. MaxSize > 0 => size' < MaxSize + (L + Longest)
                       /\ size' < MaxSize + (L + Longest + Longest)
    BY <1>0, <1>2, <2>2
  <2> QED
    BY <1>0, <2>2, <2>3 DEF SizeBounded, RoomForLine
<1>7. CASE Begins
  <2>1. size' = 0 /\ slips' = 0 /\ Longest * (1 + 0) = Longest /\ Longest * 0 = 0
    BY <1>0, <1>7, BeginFacts
  <2> QED
    BY <1>0, <2>1, LogAssumption DEF SizeBounded, RoomForLine
<1>8. CASE Kill
  BY <1>8, CloseKeepsBound DEF Kill
<1>9. CASE RemoveOldest \/ Rename \/ RenameFails \/ RestartSilent \/ ReopenFails
  <2>1. UNCHANGED <<size, slips, open, bad>>
    BY <1>9 DEF RemoveOldest, Rename, RenameFails, RestartSilent, ReopenFails, stream
  <2>2. pc' = "write" => ~ open'
    BY <1>9, <2>1
    DEF RemoveOldest, Rename, NextSlot, RenameFails, RestartSilent, ReopenFails, LogInv,
        Vacated
  <2> QED
    BY <2>1, <2>2, SizeKept
<1>10. CASE Restart /\ ~ Begins
  BY <1>10, SizeKept DEF Restart, Begins
<1>11. Reopen => Begins
  BY DEF Begins
<1> QED
  BY <1>3, <1>4, <1>5, <1>6, <1>7, <1>8, <1>9, <1>10, <1>11 DEF Next

(* A slot about to be filled is empty, or holds what could not be moved. *)
LEMMA VacatedStep ==
  ASSUME LogInv, Next
  PROVE  Vacated'
<1>1. TypeOK /\ Vacated
  BY DEF LogInv
<1>2. CASE Log
  BY <1>1, <1>2, LogNumbers DEF Vacated, Log, Close, stream
<1>3. CASE RenameFails
  <2>1. pc = "shift" /\ i \in 1 .. Backups /\ i' = i - 1 /\ ~ open' /\ ~ bad'
        /\ UNCHANGED <<file, newest>> /\ pc' \in {"shift", "reopen"}
        /\ (pc' = "reopen" => i = 1) /\ (pc' = "shift" => i # 1)
        /\ spoilt' = spoilt \union {file[i - 1]}
    BY <1>1, <1>3, LogNumbers DEF RenameFails, NextSlot, Source, Vacated, stream
  <2>2. QED
    BY <1>1, <2>1 DEF Vacated
<1>4. CASE RestartSilent \/ ReopenFails \/ Kill \/ StatFails \/ (Restart /\ file[0] # None)
  BY <1>1, <1>4
  DEF Vacated, RestartSilent, ReopenFails, Kill, Restart, StatFails, Close, stream
<1>9. CASE \/ \E line \in 1 .. Longest : Write(line)
           \/ \E part \in 0 .. Longest - 1 : WriteFails(part)
  BY <1>1, <1>9 DEF Vacated, Write, WriteFails, stream
<1>5. CASE RemoveOldest
  BY <1>1, <1>5, RemoveFacts, LogNumbers DEF Vacated
<1>6. CASE Rename
  <2>1. file'[i - 1] = None /\ (i # 1 => file'[0] = file[0] \/ file'[0] = None)
    BY <1>6, RenameFacts, <1>1, LogNumbers
  <2>2. file'[0] \in {None, newest}
    BY <1>1, <1>6, <2>1, RenameFacts DEF Vacated
  <2>3. i - 1 > 0 \/ pc' = "reopen"
    BY <1>6, RenameFacts DEF Rename, NextSlot
  <2>4. QED
    BY <1>1, <1>6, <2>1, <2>2, <2>3, RenameFacts DEF Vacated
<1>7. CASE Begins
  BY <1>1, <1>7, BeginFacts, LogNumbers DEF Vacated
<1>8. QED
  BY <1>1, <1>2, <1>3, <1>4, <1>9, <1>5, <1>6, <1>7, LogCases DEF Quiet

(* No step puts a younger file behind an older one. *)
LEMMA OrderStep ==
  ASSUME LogInv, Next
  PROVE  NewestFirst'
<1>1. TypeOK /\ Vacated /\ NewestFirst
  BY DEF LogInv
<1>2. CASE UNCHANGED <<file, newest>> /\ (Quiet \/ RestartSilent \/ (Restart /\ file[0] # None))
  <2>1. open' => open \/ file[0] # None
    BY <1>2
    DEF Quiet, Log, StatFails, RenameFails, ReopenFails, Write, WriteFails, Kill,
        RestartSilent, Close, stream
  <2>2. open' => file[0] = newest
    BY <1>1, <2>1 DEF NewestFirst, Vacated
  <2>3. QED
    BY <1>1, <1>2, <2>2 DEF NewestFirst
<1>3. CASE RemoveOldest
  BY <1>1, <1>3, RemoveFacts DEF NewestFirst
<1>4. CASE Rename
  BY <1>1, <1>4, RenameFacts, LogNumbers DEF NewestFirst
<1>5. CASE Begins
  BY <1>1, <1>5, BeginFacts, LogNumbers DEF NewestFirst, None
<1>6. QED
  BY <1>1, <1>2, <1>3, <1>4, <1>5, LogCases

(* A file moves one slot in a rotation, and ages by one if it is completed. *)
LEMMA PlacedStep ==
  ASSUME LogInv, Next
  PROVE  Placed'
<1>1. TypeOK /\ Vacated /\ Placed
  BY DEF LogInv
<1> SUFFICES ASSUME NEW s \in Slots, file'[s] # None
             PROVE  \/ s <= newest' - file'[s] + cut'
                    \/ Moved(s)' /\ s <= newest' - file'[s] + cut' + 1
  BY DEF Placed
<1>2. CASE UNCHANGED <<file, newest>> /\ (Quiet \/ RestartSilent \/ (Restart /\ file[0] # None))
  <2>1. cut' \in Nat /\ cut' >= cut /\ (cut' = cut \/ cut' = cut + 1)
    BY <1>1, <1>2, LogNumbers
    DEF Quiet, Log, StatFails, RenameFails, ReopenFails, Write, WriteFails, Kill, Restart,
        RestartSilent
  <2>2. Moved(s) => Moved(s)' \/ cut' = cut + 1
    BY <1>1, <1>2, LogNumbers
    DEF Quiet, Log, StatFails, RenameFails, NextSlot, ReopenFails, Write, WriteFails, Kill,
        Restart, RestartSilent, Moved
  <2>3. QED
    BY <1>1, <1>2, <2>1, <2>2, LogNumbers DEF Placed
<1>3. CASE RemoveOldest
  BY <1>1, <1>3, RemoveFacts, LogNumbers DEF Placed, Moved
<1>4. CASE Rename
  <2>1. CASE s = i /\ file[i - 1] # None
    <3>1. file'[s] = file[i - 1] /\ i - 1 <= newest - file[i - 1] + cut
      BY <1>1, <1>4, <2>1, RenameFacts, LogNumbers DEF Placed, Moved
    <3>2. QED
      BY <1>1, <1>4, <2>1, <3>1, RenameFacts, LogNumbers DEF Moved
  <2>2. CASE file'[s] = file[s]
    BY <1>1, <1>4, <2>2, RenameFacts, LogNumbers DEF Placed, Moved
  <2>3. QED
    BY <1>4, <2>1, <2>2, RenameFacts
<1>5. CASE Begins
  BY <1>1, <1>5, BeginFacts, LogNumbers DEF Placed, Moved
<1>6. QED
  BY <1>1, <1>2, <1>3, <1>4, <1>5, LogCases

(* What leaves the files is the oldest, or could not be moved on. *)
LEMMA LossStep ==
  ASSUME LogInv, Next
  PROVE  OnlyOldestMissing'
<1>1. TypeOK /\ Vacated /\ Placed /\ OnlyOldestMissing
  BY DEF LogInv
<1>2. CASE UNCHANGED <<file, newest>> /\ (Quiet \/ RestartSilent \/ (Restart /\ file[0] # None))
  <2>1. /\ cut' \in Nat /\ (cut' = cut \/ cut' = cut + 1)
        /\ spoilt \subseteq spoilt'
        /\ pc \in {"shift", "reopen"} => pc' \in {"shift", "reopen"} \/ cut' = cut + 1
    BY <1>1, <1>2, LogNumbers
    DEF Quiet, Log, StatFails, RenameFails, NextSlot, ReopenFails, Write, WriteFails, Kill,
        Restart, RestartSilent
  <2>2. QED
    BY <1>1, <1>2, <2>1, LogNumbers DEF OnlyOldestMissing, Kept
<1>3. CASE RemoveOldest
  <2> SUFFICES ASSUME NEW g \in 1 .. newest, ~ Kept(g)', g \notin spoilt
               PROVE  newest - g >= Backups - cut
    BY <1>1, <1>3, RemoveFacts, LogNumbers DEF OnlyOldestMissing
  <2>1. CASE ~ Kept(g)
    BY <1>1, <1>3, <2>1, RemoveFacts, LogNumbers DEF OnlyOldestMissing
  <2>2. CASE Kept(g)
    <3>1. file[Backups] = g
      BY <1>3, <2>2, RemoveFacts DEF Kept
    <3>2. QED
      BY <1>1, <1>3, <3>1, RemoveFacts, LogNumbers DEF Placed, Moved, None
  <2>3. QED
    BY <2>1, <2>2
<1>4. CASE Rename
  <2> SUFFICES ASSUME NEW g \in 1 .. newest, ~ Kept(g)', g \notin spoilt
               PROVE  newest - g >= Backups - cut
    BY <1>1, <1>4, RenameFacts, LogNumbers DEF OnlyOldestMissing
  <2>1. CASE ~ Kept(g)
    BY <1>1, <1>4, <2>1, RenameFacts, LogNumbers DEF OnlyOldestMissing
  <2>2. CASE Kept(g)
    <3>1. PICK s \in Slots : file[s] = g
      BY <2>2 DEF Kept
    <3>2. file[i - 1] # None
      BY <1>4, <3>1, RenameFacts DEF Kept
    <3>3. s # i - 1
      BY <1>4, <3>1, <3>2, RenameFacts DEF Kept
    <3>4. s = i
      BY <1>4, <3>1, <3>2, <3>3, RenameFacts DEF Kept
    <3>5. i = Backups
      BY <1>1, <1>4, <3>1, <3>4, RenameFacts, LogNumbers DEF Vacated, None
    <3>6. QED
      BY <1>1, <1>4, <3>1, <3>4, <3>5, RenameFacts, LogNumbers DEF Placed, Moved, None
  <2>3. QED
    BY <2>1, <2>2
<1>5. CASE Begins
  <2> SUFFICES ASSUME NEW g \in 1 .. newest + 1, ~ Kept(g)', g \notin spoilt
               PROVE  newest + 1 - g > Backups - cut
    BY <1>5, BeginFacts, LogNumbers, <1>1 DEF OnlyOldestMissing
  <2>1. g <= newest
    BY <1>1, <1>5, BeginFacts, LogNumbers DEF Kept
  <2>2. CASE ~ Kept(g)
    BY <1>1, <1>5, <2>1, <2>2, BeginFacts, LogNumbers DEF OnlyOldestMissing
  <2>3. CASE Kept(g)
    <3>1. file[0] = g
      BY <1>5, <2>3, BeginFacts DEF Kept
    <3>2. Backups = 0
      BY <1>1, <1>5, <3>1, BeginFacts, LogNumbers DEF None
    <3>3. QED
      BY <1>1, <2>1, <3>2, LogNumbers
  <2>4. QED
    BY <2>2, <2>3
<1>6. QED
  BY <1>1, <1>2, <1>3, <1>4, <1>5, LogCases

(* The invariant is inductive. *)
LEMMA LogNext == LogInv /\ [Next]_vars => LogInv'
<1> SUFFICES ASSUME LogInv, [Next]_vars
             PROVE  LogInv'
  OBVIOUS
<1>1. CASE UNCHANGED vars
  BY <1>1
  DEF vars, stream, LogInv, TypeOK, NewestFirst, OnlyOldestMissing, SizeBounded, Placed,
      Vacated, RoomForLine, Moved, Kept
<1>2. CASE Next
  <2>1. TypeOK'
    BY <1>2, LogTyped DEF LogInv
  <2>2. QED
    BY <1>2, <2>1, SizeStep, VacatedStep, OrderStep, PlacedStep, LossStep DEF LogInv
<1>3. QED
  BY <1>1, <1>2

-----------------------------------------------------------------------------
(* Ages and numbers *)

(* The next generation to begin makes the file in slot s no older than it may be. *)
Spare(s) ==
  \/ pc = "shift" /\ s >= i
  \/ pc = "reopen"
  \/ pc \in {"idle", "write", "down"} /\ file[0] = None

(***************************************************************************)
(* How far a file can be behind its age.  Whoever begins a generation has  *)
(* moved every other file on, or counted the failure to.                   *)
(***************************************************************************)
Lag ==
  \A s \in Slots \ {0} : file[s] # None =>
    /\ newest - file[s] <= s + faults
    /\ Spare(s) => newest - file[s] + 1 <= s + faults

AgeInv ==
  /\ Lag
  /\ cut <= faults
  /\ open \/ pc \in {"remove", "shift"} => file[0] # None

(* Every cut rotation is a fault, and a loop under way has not reached slot 0. *)
LEMMA CutAndCurrent ==
  ASSUME LogInv, AgeInv, Next
  PROVE  /\ cut' <= faults' /\ faults \in Nat /\ faults' \in Nat /\ faults' >= faults
         /\ open' \/ pc' \in {"remove", "shift"} => file'[0] # None
<1> USE DEF LogInv, TypeOK, Vacated, AgeInv
<1>1. CASE Log \/ RenameFails \/ ReopenFails \/ Kill \/ StatFails
  <2>1. cut' <= faults' /\ faults' \in Nat /\ faults' >= faults
    BY <1>1, LogNumbers DEF Log, RenameFails, ReopenFails, Kill, StatFails, Fault
  <2>2. CASE Log
    <3>1. pc' = "remove" => open /\ i' = Backups
      BY <2>2 DEF Log, Full
    <3> QED
      BY <2>1, <2>2, <3>1 DEF Log, Close, stream
  <2>3. CASE RenameFails \/ ReopenFails \/ Kill \/ StatFails
    BY <2>1, <2>3 DEF RenameFails, ReopenFails, Kill, StatFails, NextSlot, Close, stream
  <2> QED
    BY <1>1, <2>1, <2>2, <2>3
<1>2. CASE RemoveOldest
  <2>1. file'[0] = file[0]
    BY <1>2, RemoveFacts, LogNumbers
  <2> QED
    BY <1>2, <2>1, LogNumbers DEF RemoveOldest, Fault
<1>3. CASE Rename
  <2>1. pc' = "shift" => i # 1 /\ file'[0] = file[0]
    BY <1>3, RenameFacts, LogNumbers DEF Rename, NextSlot
  <2>2. pc = "shift" /\ pc' # "remove" /\ UNCHANGED <<cut, faults>>
    BY <1>3 DEF Rename, NextSlot
  <2>3. ~open /\ UNCHANGED open
    BY <1>3, RenameFacts
  <2> QED
    BY <2>1, <2>2, <2>3, LogNumbers
<1>4. CASE Begins
  <2>1. file'[0] = newest + 1 /\ newest + 1 # None
    <3>1. file'[0] = newest + 1
      BY <1>4, BeginFacts, LogNumbers
    <3> QED
      BY <3>1 DEF None
  <2>2. UNCHANGED <<cut, faults>>
    BY <1>4 DEF Begins, Reopen, Restart
  <2> QED
    BY <2>1, <2>2, LogNumbers
<1>5. CASE \/ (\E line \in 1 .. Longest : Write(line)) \/ RestartSilent
            \/ (\E part \in 0 .. Longest - 1 : WriteFails(part))
            \/ (Restart /\ file[0] # None /\ UNCHANGED file)
  BY <1>5, LogNumbers DEF Write, WriteFails, Restart, RestartSilent, Fault, stream
<1> QED
  <2>1. Restart => Begins \/ (file[0] # None /\ UNCHANGED file)
    BY DEF Restart, Begins
  <2>2. Reopen => Begins
    BY DEF Begins
  <2> QED
    BY <1>1, <1>2, <1>3, <1>4, <1>5, <2>1, <2>2 DEF Next

(* A step that changes no file puts none further behind. *)
LEMMA QuietLag ==
  ASSUME LogInv, AgeInv, UNCHANGED <<file, newest>>,
         Quiet \/ RestartSilent \/ (Restart /\ file[0] # None)
  PROVE  Lag'
<1> USE DEF LogInv, TypeOK, Vacated, AgeInv
<1> SUFFICES ASSUME NEW s \in Slots \ {0}, file[s] # None
             PROVE  /\ newest - file[s] <= s + faults'
                    /\ Spare(s)' => newest - file[s] + 1 <= s + faults'
  BY DEF Lag
<1>0. /\ newest - file[s] <= s + faults
      /\ Spare(s) => newest - file[s] + 1 <= s + faults
  BY DEF Lag
<1>1. newest - file[s] \in Int /\ s \in Nat /\ faults \in Nat /\ s <= Backups
  BY LogNumbers
<1>2. CASE faults' = faults + 1
  BY <1>0, <1>1, <1>2
<1>3. CASE faults' = faults
  <2>1. Log \/ (\E line \in 1 .. Longest : Write(line)) \/ (Restart /\ file[0] # None)
    BY <1>1, <1>3
    DEF Quiet, StatFails, WriteFails, RenameFails, ReopenFails, Kill, RestartSilent, Fault
  <2>2. Spare(s)' => Spare(s)
    BY <1>1, <2>1, LogNumbers DEF Spare, Log, Write, Restart
  <2> QED
    BY <1>0, <1>3, <2>2
<1> QED
  BY <1>2, <1>3 DEF Quiet, Log, StatFails, Write, WriteFails, RenameFails, ReopenFails,
                    Kill, Restart, RestartSilent, Fault

(* Removing the oldest backup, or failing to, leaves its slot ready. *)
LEMMA RemoveLag ==
  ASSUME LogInv, AgeInv, RemoveOldest
  PROVE  Lag'
<1> USE DEF LogInv, TypeOK, AgeInv
<1> SUFFICES ASSUME NEW s \in Slots \ {0}, file'[s] # None
             PROVE  /\ newest - file'[s] <= s + faults'
                    /\ Spare(s)' => newest - file'[s] + 1 <= s + faults'
  BY RemoveFacts DEF Lag
<1>1. file'[s] = file[s] /\ newest - file[s] \in Int /\ s \in Nat /\ faults \in Nat
  BY RemoveFacts, LogNumbers
<1>2. newest - file[s] <= s + faults
  BY <1>1 DEF Lag
<1>3. s = Backups => faults' = faults + 1
  BY <1>1, LogNumbers DEF RemoveOldest, Fault
<1>4. Spare(s)' => s = Backups
  BY <1>1, RemoveFacts, LogNumbers DEF Spare
<1>5. faults' = faults \/ faults' = faults + 1
  BY DEF RemoveOldest, Fault
<1> QED
  BY <1>1, <1>2, <1>3, <1>4, <1>5

(* A rename moves a file one slot on, which is what the rotation adds to its age. *)
LEMMA RenameLag ==
  ASSUME LogInv, AgeInv, Rename
  PROVE  Lag'
<1> USE DEF LogInv, TypeOK, AgeInv
<1>0. faults' = faults /\ faults \in Nat /\ newest' = newest /\ i' = i - 1 /\ i \in Nat
  BY RenameFacts, LogNumbers DEF Rename
<1> SUFFICES ASSUME NEW s \in Slots \ {0}, file'[s] # None
             PROVE  /\ newest - file'[s] <= s + faults
                    /\ Spare(s)' => newest - file'[s] + 1 <= s + faults
  BY <1>0 DEF Lag
<1>1. CASE s = i /\ file[i - 1] # None
  <2>1. file'[s] = file[i - 1] /\ file[i - 1] \in Nat /\ newest \in Nat
    BY <1>1, RenameFacts, LogNumbers
  <2>2. newest - file[i - 1] <= i - 1 + faults
    <3>1. CASE i = 1
      BY <1>0, <1>1, <3>1, LogNumbers DEF Vacated
    <3>2. CASE i # 1
      <4>1. i - 1 \in Slots \ {0}
        BY <3>2, RenameFacts, LogNumbers
      <4> QED
        BY <1>0, <1>1, <4>1 DEF Lag
    <3> QED
      BY <3>1, <3>2
  <2> QED
    BY <1>0, <1>1, <2>1, <2>2
<1>2. CASE file'[s] = file[s]
  <2>1. Spare(s)' => s >= i - 1
    BY <1>0, <1>2, RenameFacts, LogNumbers DEF Spare
  <2>2. s = i - 1 => FALSE
    BY <1>2, RenameFacts, LogNumbers
  <2>3. Spare(s)' => Spare(s)
    BY <1>0, <2>1, <2>2, RenameFacts, LogNumbers DEF Spare
  <2> QED
    BY <1>2, <2>3 DEF Lag
<1> QED
  BY <1>1, <1>2, RenameFacts

(* A new generation makes the others one older, who were ready for it. *)
LEMMA BeginLag ==
  ASSUME LogInv, AgeInv, Begins
  PROVE  Lag'
<1> USE DEF LogInv, TypeOK, AgeInv
<1> SUFFICES ASSUME NEW s \in Slots \ {0}, file'[s] # None
             PROVE  /\ newest' - file'[s] <= s + faults'
                    /\ Spare(s)' => newest' - file'[s] + 1 <= s + faults'
  BY DEF Lag
<1>1. file'[s] = file[s] /\ newest' = newest + 1 /\ faults' = faults /\ faults \in Nat
  BY BeginFacts DEF Begins, Reopen, Restart
<1>2. Spare(s)
  BY BeginFacts DEF Spare
<1>3. ~Spare(s)'
  <2>1. pc' \in {"write", "idle"}
    BY BeginFacts
  <2>2. file'[0] = newest + 1 /\ newest + 1 # None
    <3>1. file'[0] = newest + 1
      BY BeginFacts, LogNumbers
    <3> QED
      BY <3>1 DEF None
  <2> QED
    BY <2>1, <2>2 DEF Spare
<1> QED
  BY <1>1, <1>2, <1>3, LogNumbers DEF Lag

(* Every step keeps the ages. *)
LEMMA AgeStep == LogInv /\ AgeInv /\ [Next]_vars => AgeInv'
<1> SUFFICES ASSUME LogInv, AgeInv, [Next]_vars PROVE AgeInv'
  OBVIOUS
<1>1. CASE UNCHANGED vars
  BY <1>1 DEF vars, stream, AgeInv, Lag, Spare
<1>2. CASE Next
  <2>1. Lag'
    BY <1>2, LogCases, QuietLag, RemoveLag, RenameLag, BeginLag DEF LogInv
  <2> QED
    BY <1>2, <2>1, CutAndCurrent DEF AgeInv
<1> QED
  BY <1>1, <1>2

-----------------------------------------------------------------------------
(* The invariant holds in every reachable state. *)
THEOREM LogInvariance == Spec => []LogInv
  BY InitLog, LogNext, PTL DEF Spec

(***************************************************************************)
(* For any number of backups and any kills and failures: the files are in  *)
(* order of age.                                                           *)
(***************************************************************************)
THEOREM FilesInOrder == Spec => []NewestFirst
<1>1. LogInv => NewestFirst
  BY DEF LogInv
<1>2. QED
  BY LogInvariance, <1>1, PTL

(***************************************************************************)
(* For any number of backups and any kills and failures: a rotation cut    *)
(* short costs one of the oldest generations at most, a failed rename the  *)
(* one it did not move, and nothing else loses any.                        *)
(***************************************************************************)
THEOREM LossesBounded == Spec => []OnlyOldestMissing
<1>1. LogInv => OnlyOldestMissing
  BY DEF LogInv
<1>2. QED
  BY LogInvariance, <1>1, PTL

(***************************************************************************)
(* For any max_size: the log outgrows it by less than one line, and one    *)
(* more for each rotation skipped and each write failed since it began.    *)
(***************************************************************************)
THEOREM LogSizeBounded == Spec => []SizeBounded
<1>1. LogInv => SizeBounded
  BY DEF LogInv
<1>2. QED
  BY LogInvariance, <1>1, PTL

(* The variables keep their types. *)
THEOREM LogTyping == Spec => []TypeOK
<1>1. LogInv => TypeOK
  BY DEF LogInv
<1>2. QED
  BY LogInvariance, <1>1, PTL

(***************************************************************************)
(* For any number of backups, the number of a backup is its age in         *)
(* rotations, give or take the kills and failures so far.                  *)
(***************************************************************************)
THEOREM NumbersAreAges == Spec => []NumbersTellAges
<1>1. Init => AgeInv
  BY LogNumbers, LogInitTyped DEF Init, AgeInv, Lag
<1>2. LogInv /\ AgeInv => NumbersTellAges
  <2> SUFFICES ASSUME LogInv, AgeInv, NEW s \in Slots, file[s] # None
               PROVE  /\ newest - file[s] <= s + faults
                      /\ s <= newest - file[s] + faults
                              + (IF pc \in {"shift", "reopen"} THEN 1 ELSE 0)
    BY DEF NumbersTellAges
  <2>1. faults \in Nat /\ s \in Nat /\ newest \in Nat /\ file[s] \in Nat /\ cut \in Nat
    BY LogNumbers DEF LogInv, TypeOK
  <2>2. newest - file[s] <= s + faults
    BY <2>1 DEF LogInv, Vacated, AgeInv, Lag
  <2>3. \/ s <= newest - file[s] + cut
        \/ pc \in {"shift", "reopen"} /\ s <= newest - file[s] + cut + 1
    BY DEF LogInv, Placed, Moved
  <2>4. cut <= faults
    BY DEF AgeInv
  <2> QED
    BY <2>1, <2>2, <2>3, <2>4
<1> QED
  BY <1>1, <1>2, AgeStep, LogInvariance, PTL DEF Spec
=============================================================================
