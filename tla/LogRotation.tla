---------------------------- MODULE LogRotation ----------------------------
(***************************************************************************)
(* The log file and its backups: Logger::init, rotate_if_needed and log    *)
(* (src/utils/logger.cpp), with the file operations that may fail and the  *)
(* process killed and started again between any two of them.               *)
(*                                                                         *)
(* log holds mutex_ from end to end, so calls of all threads come one      *)
(* after another and the state has one program counter.                    *)
(***************************************************************************)
EXTENDS Integers, FiniteSets

CONSTANTS
  Backups,      \* backup_count_, already max(0, backup_count)
  MaxSize,      \* max_size_bytes_; 0 or less: no rotation
  Longest,      \* bytes of the longest line: the buffer and its prefix
  MaxFiles,     \* bound: generations of the log
  MaxFaults     \* bound: kills and failed file operations

ASSUME LogAssumption ==
  /\ Backups \in Nat
  /\ MaxSize \in Int
  /\ Longest \in Nat \ {0}
  /\ MaxFiles \in Nat
  /\ MaxFaults \in Nat

(***************************************************************************)
(* Slot 0 is log_file_path_, slot i is log_file_path_.i.  A slot holds the *)
(* number of a generation, what was logged between two truncations, or     *)
(* None.                                                                   *)
(***************************************************************************)
Slots == 0 .. Backups
None  == 0

(***************************************************************************)
(*   down    the process does not run                                      *)
(*   idle    no thread is inside log                                       *)
(*   remove  log_file_ is closed, the oldest backup about to be removed    *)
(*   shift   the loop is about to rename slot i - 1 to slot i              *)
(*   reopen  the loop has ended                                            *)
(*   write   rotate_if_needed has returned                                 *)
(***************************************************************************)
Phases == {"down", "idle", "remove", "shift", "reopen", "write"}

VARIABLES
  file,     \* the generation in each slot
  newest,   \* history: the generations begun so far
  size,     \* the size of slot 0, while it holds a file
  open,     \* log_file_.is_open()
  bad,      \* log_file_.bad(): a write failed, what is logged is dropped
  pc,       \* the phase of log
  i,        \* the index of the loop
  cut,      \* history: rotations begun and not completed
  spoilt,   \* history: generations a rename failed to move
  slips,    \* history: skipped rotations and failed writes of slot 0
  faults    \* kills and failures so far

stream == <<open, bad>>

vars == <<file, newest, size, stream, pc, i, cut, spoilt, slips, faults>>

Init ==
  /\ file = [s \in Slots |-> None]
  /\ newest = 0
  /\ size = 0
  /\ open = FALSE
  /\ bad = FALSE
  /\ pc = "down"
  /\ i = 0
  /\ cut = 0
  /\ spoilt = {}
  /\ slips = 0
  /\ faults = 0

Fault ==
  /\ faults < MaxFaults
  /\ faults' = faults + 1

-----------------------------------------------------------------------------
(* log, and rotate_if_needed inside it *)

(* Mutated form of Full: the file may reach max_size_bytes_. *)
Overfull == open /\ MaxSize > 0 /\ size > MaxSize

(* rotate_if_needed goes past its returns, if its stat does not fail. *)
Full == open /\ MaxSize > 0 /\ size >= MaxSize

(***************************************************************************)
(* log_file_ is closed.  After a failed write its buffer still holds the   *)
(* line, and close tries once more to write it.                            *)
(***************************************************************************)
Close ==
  /\ open' = FALSE
  /\ bad' = FALSE
  /\ \E kept \in IF bad THEN 0 .. Longest ELSE {0} : size' = size + kept

(* Mutated form of Log: the loop begins one backup too high. *)
LogBeyondOldest ==
  /\ pc = "idle"
  /\ IF Full
     THEN /\ Close
          /\ i' = Backups + 1
          /\ pc' = "remove"
     ELSE /\ pc' = "write"
          /\ UNCHANGED <<size, stream, i>>
  /\ UNCHANGED <<file, newest, cut, spoilt, slips, faults>>

(* log, past its test of min_level_. *)
Log ==
  /\ pc = "idle"
  /\ IF Full
     THEN /\ Close
          /\ i' = Backups
          /\ pc' = IF Backups > 0 THEN "remove" ELSE "reopen"
     ELSE /\ pc' = "write"
          /\ UNCHANGED <<size, stream, i>>
  /\ UNCHANGED <<file, newest, cut, spoilt, slips, faults>>

(* log, whose stat fails: the rotation that is due is skipped. *)
StatFails ==
  /\ pc = "idle"
  /\ Full
  /\ Fault
  /\ pc' = "write"
  /\ slips' = slips + 1
  /\ UNCHANGED <<file, newest, size, stream, i, cut, spoilt>>

(* std::remove; if it fails, the rename that follows replaces the file. *)
RemoveOldest ==
  /\ pc = "remove"
  /\ pc' = "shift"
  /\ \/ file' = [file EXCEPT ![Backups] = None] /\ UNCHANGED faults
     \/ Fault /\ UNCHANGED file
  /\ UNCHANGED <<newest, size, stream, i, cut, spoilt, slips>>

(* The loop goes on to the next lower slot, or ends. *)
NextSlot ==
  /\ i' = i - 1
  /\ pc' = IF i = 1 THEN "reopen" ELSE "shift"

(* Mutated form of Source: the loop runs upwards from slot 1. *)
SourceUpwards == Backups - i

(* The slot the loop renames to slot i. *)
Source == i - 1

(* Mutated form of Rename: every step takes the current log. *)
RenameCurrent ==
  /\ pc = "shift"
  /\ file' = IF file[0] = None THEN file
             ELSE [file EXCEPT ![i] = file[0], ![0] = None]
  /\ NextSlot
  /\ UNCHANGED <<newest, size, stream, cut, spoilt, slips, faults>>

(* std::rename of a file that is not there fails and changes nothing. *)
Rename ==
  /\ pc = "shift"
  /\ file' = IF file[Source] = None THEN file
             ELSE [file EXCEPT ![Source + 1] = file[Source], ![Source] = None]
  /\ NextSlot
  /\ UNCHANGED <<newest, size, stream, cut, spoilt, slips, faults>>

(* The result of std::rename is ignored. *)
RenameFails ==
  /\ pc = "shift"
  /\ Fault
  /\ NextSlot
  /\ spoilt' = spoilt \union {file[Source]}
  /\ UNCHANGED <<file, newest, size, stream, cut, slips>>

(* A file begins in slot 0, and open clears the state of the stream. *)
Begin(s) ==
  /\ file' = [file EXCEPT ![0] = newest + 1]
  /\ newest' = newest + 1
  /\ size' = s
  /\ open' = TRUE
  /\ bad' = FALSE
  /\ slips' = 0

(* open(trunc): whatever slot 0 still holds is gone. *)
Reopen ==
  /\ pc = "reopen"
  /\ newest < MaxFiles
  /\ Begin(0)
  /\ pc' = "write"
  /\ UNCHANGED <<i, cut, spoilt, faults>>

(* log_file_ stays closed: nothing is logged, or tried, until a restart. *)
ReopenFails ==
  /\ pc = "reopen"
  /\ Fault
  /\ pc' = "write"
  /\ cut' = cut + 1
  /\ UNCHANGED <<file, newest, size, stream, i, spoilt, slips>>

(* The line and its flush. *)
Write(line) ==
  /\ pc = "write"
  /\ size' = IF open /\ ~bad THEN size + line ELSE size
  /\ pc' = "idle"
  /\ UNCHANGED <<file, newest, stream, i, cut, spoilt, slips, faults>>

(***************************************************************************)
(* The flush fails, with a part of the line written or none.  is_open()    *)
(* stays true and nobody tests the stream: every later line is dropped,    *)
(* until the file is reopened.                                             *)
(***************************************************************************)
WriteFails(part) ==
  /\ pc = "write"
  /\ open /\ ~bad
  /\ Fault
  /\ size' = size + part
  /\ bad' = TRUE
  /\ slips' = slips + 1
  /\ pc' = "idle"
  /\ UNCHANGED <<file, newest, open, i, cut, spoilt>>

-----------------------------------------------------------------------------
(* The process ends: it is killed, or its exit closes log_file_. *)
Kill ==
  /\ pc # "down"
  /\ Fault
  /\ pc' = "down"
  /\ Close
  /\ cut' = IF pc \in {"shift", "reopen"} THEN cut + 1 ELSE cut
  /\ UNCHANGED <<file, newest, i, spoilt, slips>>

(* Mutated form of Restart: the new process truncates the log. *)
RestartTruncates ==
  /\ pc = "down"
  /\ pc' = "idle"
  /\ newest < MaxFiles
  /\ Begin(0)
  /\ UNCHANGED <<i, cut, spoilt, faults>>

(* Logger::init of a new process: open(app), which makes a missing file. *)
Restart ==
  /\ pc = "down"
  /\ pc' = "idle"
  /\ \/ file[0] = None /\ newest < MaxFiles /\ Begin(0)
     \/ file[0] # None /\ open' = TRUE /\ UNCHANGED <<file, newest, size, bad, slips>>
  /\ UNCHANGED <<i, cut, spoilt, faults>>

(* log_file_ could not be opened: the process runs without its log. *)
RestartSilent ==
  /\ pc = "down"
  /\ Fault
  /\ pc' = "idle"
  /\ UNCHANGED <<file, newest, size, stream, i, cut, spoilt, slips>>

Next ==
  \/ Log \/ StatFails
  \/ RemoveOldest \/ Rename \/ RenameFails
  \/ Reopen \/ ReopenFails
  \/ \E line \in 1 .. Longest : Write(line)
  \/ \E part \in 0 .. Longest - 1 : WriteFails(part)
  \/ Kill \/ Restart \/ RestartSilent

Spec == Init /\ [][Next]_vars

-----------------------------------------------------------------------------
(* Properties *)

TypeOK ==
  /\ file \in [Slots -> 0 .. newest]
  /\ newest \in Nat
  /\ size \in Nat
  /\ open \in BOOLEAN
  /\ bad \in BOOLEAN
  /\ pc \in Phases
  /\ i \in Slots
  /\ cut \in Nat
  /\ spoilt \subseteq 0 .. newest
  /\ slips \in Nat
  /\ faults \in Nat

(***************************************************************************)
(* The files are in order of age: a backup is older than every file with a *)
(* lower number, whichever renames failed or were cut off, and what is     *)
(* being written is newer than them all.  A shift that takes the wrong     *)
(* file would leave backups a reader puts in the wrong order.              *)
(***************************************************************************)
NewestFirst ==
  /\ \A s, t \in Slots :
       s < t /\ file[s] # None /\ file[t] # None => file[t] < file[s]
  /\ open => file[0] = newest

Kept(g) == \E s \in Slots : file[s] = g

(***************************************************************************)
(* What is missing is old.  A rotation keeps the current log and its       *)
(* backup_count predecessors.  Each rotation cut short, by a kill or a     *)
(* failed reopening, costs one generation at most, and the oldest: it      *)
(* leaves a gap in the numbers that the next shift does not close, which   *)
(* removes the last file all the same.  A failed rename costs the          *)
(* generation it did not move.                                             *)
(***************************************************************************)
OnlyOldestMissing ==
  \A g \in 1 .. newest :
    \/ Kept(g)
    \/ g \in spoilt
    \/ newest - g > Backups - cut
    \/ pc \in {"shift", "reopen"} /\ newest - g = Backups - cut

(***************************************************************************)
(* The number of a backup says how many rotations ago it was the log, give *)
(* or take the kills and failures: a failed rename leaves a file behind,   *)
(* and a rotation cut short moves files on without a new one.  While a     *)
(* rotation runs, what it has moved is one further.                        *)
(***************************************************************************)
NumbersTellAges ==
  \A s \in Slots : file[s] # None =>
    LET age == newest - file[s] IN
    /\ age <= s + faults
    /\ s <= age + faults + (IF pc \in {"shift", "reopen"} THEN 1 ELSE 0)

(***************************************************************************)
(* The log outgrows max_size by less than one line, and by one line more   *)
(* for every rotation a failed stat skipped and for every failed write,    *)
(* whose line the close may repeat; across restarts.                       *)
(***************************************************************************)
SizeBounded == MaxSize > 0 => size < MaxSize + Longest * (1 + slips)

=============================================================================
