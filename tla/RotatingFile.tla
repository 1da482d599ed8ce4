---------------------------- MODULE RotatingFile ----------------------------
(***************************************************************************)
(* spdlog's rotating_file_sink (include/spdlog/sinks/) and the file_helper *)
(* (include/spdlog/details/) that it writes through.  Every call holds the *)
(* mutex of base_sink, so calls do not overlap; each operation on the file *)
(* system is a step, for the process may end between two of them and some  *)
(* of them fail.  A rename is tried twice; a file that cannot be opened    *)
(* leaves the sink without one.  The writes of a full disk are left out.   *)
(*                                                                         *)
(* A definition that no other uses is a plausible fault of the one that    *)
(* follows it; a check that replaces the latter by it must fail.           *)
(***************************************************************************)
EXTENDS Integers, SequencesExt

CONSTANTS
  Sizes,       \* sizes of formatted messages
  SizeLimits,  \* values of max_size_
  FileLimits,  \* values of max_files_
  MaxLogs,     \* bound: messages logged
  MaxFaults    \* bound: crashes, failed renames and failed opens

ASSUME RotatingAssumption ==
  /\ Sizes \subseteq Nat \ {0} /\ SizeLimits \subseteq Nat \ {0}
  /\ FileLimits \subseteq Nat
  /\ MaxLogs \in Nat /\ MaxFaults \in Nat

VARIABLES
  disk,          \* the files that exist, by index: what each holds
  buffer,        \* what fd_ has buffered and not written to file 0 yet
  open,          \* fd_ # nullptr
  current_size,  \* current_size_
  max_size,      \* max_size_
  max_files,     \* max_files_
  pc,            \* where the call in progress stands; "down": no sink
  caller,        \* which call it is
  msg,           \* the message of sink_it_()
  new_size,      \* new_size of sink_it_()
  i              \* the loop counter of rotate_()

(* What happened, for the properties and the bounds.                       *)
VARIABLES
  count,   \* messages logged
  faults,  \* faults so far
  saved,   \* messages that were in a file at some time
  broken   \* a rename was given up, or max_files_ lowered

call == <<caller, msg, new_size, i>>
limits == <<max_size, max_files>>
vars == <<disk, buffer, open, current_size, limits, pc, call,
          count, faults, saved, broken>>

Message == [number : 1..MaxLogs, size : Sizes]

-----------------------------------------------------------------------------
Bytes(messages) == FoldLeft(LAMBDA n, m : n + m.size, 0, messages)

Exists(k) == k \in DOMAIN disk

Without(k) == [j \in DOMAIN disk \ {k} |-> disk[j]]

With(files, k, messages) ==
  [j \in DOMAIN files \cup {k} |-> IF j = k THEN messages ELSE files[j]]

(* fflush(): what is buffered goes to file 0.                              *)
Flushed == IF open THEN With(disk, 0, disk[0] \o buffer) ELSE disk

Fault == faults < MaxFaults /\ faults' = faults + 1

NoMessage == [number |-> 0, size |-> 0]

Forget == caller' = "none" /\ msg' = NoMessage /\ new_size' = 0 /\ i' = 0

Return == pc' = "idle" /\ Forget

(* An exception leaves the call; a constructor that throws leaves no sink. *)
Throw == pc' = (IF caller = "ctor" THEN "down" ELSE "idle") /\ Forget

-----------------------------------------------------------------------------
(* The constructor, up to rotate_(); if the open fails nothing changes.    *)
StartsAtZero(files) == 0

SizeOnOpen(files) == Bytes(files[0])

Start(size, files, rotate_on_open) ==
  /\ pc = "down"
  /\ disk' = IF Exists(0) THEN disk ELSE With(disk, 0, <<>>)
  /\ open' = TRUE
  /\ current_size' = SizeOnOpen(disk')
  /\ max_size' = size
  /\ max_files' = files
  /\ broken' = (broken \/ files < max_files)
  /\ IF rotate_on_open /\ current_size' > 0
       THEN pc' = "close" /\ caller' = "ctor" /\ UNCHANGED <<msg, new_size, i>>
       ELSE Return
  /\ UNCHANGED <<buffer, count, faults>>

Accept(size) ==
  caller' = "sink_it_" /\ msg' = [number |-> count + 1, size |-> size]

(* sink_it_(), up to the write or to rotate_().  Without a file size()     *)
(* throws; fflush() of no file does nothing to this one.                   *)
SinkIt(size) ==
  /\ pc = "idle"
  /\ count < MaxLogs
  /\ count' = count + 1
  /\ \/ /\ current_size + size <= max_size
        /\ Accept(size)
        /\ new_size' = current_size + size
        /\ pc' = "write"
        /\ UNCHANGED <<disk, buffer, i>>
     \/ /\ current_size + size > max_size /\ open
        /\ Accept(size)
        /\ disk' = Flushed /\ buffer' = <<>>
        /\ IF Bytes(disk'[0]) > 0
             THEN pc' = "close" /\ new_size' = size
             ELSE pc' = "write" /\ new_size' = current_size + size
        /\ UNCHANGED i
     \/ /\ current_size + size > max_size /\ ~open
        /\ Throw
        /\ UNCHANGED <<disk, buffer>>
  /\ UNCHANGED <<open, current_size, limits, faults, broken>>

RotateNow ==
  /\ pc = "idle"
  /\ caller' = "rotate_now"
  /\ pc' = "close"
  /\ UNCHANGED <<disk, buffer, open, current_size, limits, msg, new_size, i,
                 count, faults, broken>>

(* flush_()                                                                *)
Flush ==
  /\ pc = "idle"
  /\ disk' = Flushed /\ buffer' = <<>>
  /\ UNCHANGED <<open, current_size, limits, pc, call, count, faults, broken>>

SetMaxSize(size) ==
  /\ pc = "idle"
  /\ max_size' = size
  /\ UNCHANGED <<disk, buffer, open, current_size, max_files, pc, call,
                 count, faults, broken>>

SetMaxFiles(files) ==
  /\ pc = "idle"
  /\ max_files' = files
  /\ broken' = (broken \/ files < max_files)
  /\ UNCHANGED <<disk, buffer, open, current_size, max_size, pc, call,
                 count, faults>>

WriteUncounted ==
  /\ pc = "write"
  /\ buffer' = IF open THEN Append(buffer, msg) ELSE buffer
  /\ Return
  /\ UNCHANGED <<disk, open, current_size, limits, count, faults, broken>>

(* file_helper::write(), which does nothing without a file.                *)
Write ==
  /\ pc = "write"
  /\ buffer' = IF open THEN Append(buffer, msg) ELSE buffer
  /\ current_size' = new_size
  /\ Return
  /\ UNCHANGED <<disk, open, limits, count, faults, broken>>

-----------------------------------------------------------------------------
CloseAfterwards ==
  /\ pc = "close"
  /\ disk' = Flushed /\ buffer' = <<>>
  /\ i' = max_files
  /\ pc' = "shift"
  /\ UNCHANGED <<open, current_size, limits, caller, msg, new_size, count, faults, broken>>

(* rotate_(): close the file, shift the files up, open an empty one.       *)
Close ==
  /\ pc = "close"
  /\ disk' = Flushed /\ buffer' = <<>>
  /\ open' = FALSE
  /\ i' = max_files
  /\ pc' = "shift"
  /\ UNCHANGED <<current_size, limits, caller, msg, new_size, count, faults, broken>>

SourceFromBottom == max_files - i

(* The file that the loop moves up by one.                                 *)
Source == i - 1

(* One iteration, up to the rename: the target is removed first.           *)
Shift ==
  /\ pc = "shift" /\ i > 0
  /\ IF Exists(Source)
       THEN pc' = "rename" /\ disk' = Without(Source + 1) /\ UNCHANGED i
       ELSE i' = i - 1 /\ UNCHANGED <<pc, disk>>
  /\ UNCHANGED <<buffer, open, current_size, limits, caller, msg, new_size,
                 count, faults, broken>>

Copied == With(disk, Source + 1, disk[Source])

Renamed == With(Without(Source), Source + 1, disk[Source])

Rename ==
  /\ pc \in {"rename", "retry"}
  /\ disk' = Renamed
  /\ i' = i - 1
  /\ pc' = "shift"
  /\ UNCHANGED <<buffer, open, current_size, limits, caller, msg, new_size,
                 count, faults, broken>>

RenameFails ==
  /\ pc \in {"rename", "retry"}
  /\ Fault
  /\ pc' = IF pc = "rename" THEN "retry" ELSE "give up"
  /\ UNCHANGED <<disk, buffer, open, current_size, limits, call, count, broken>>

(* After the second failure the file is emptied and the call throws.       *)
GiveUp ==
  /\ pc = "give up"
  /\ disk' = With(disk, 0, <<>>)
  /\ open' = (caller # "ctor")
  /\ current_size' = 0
  /\ broken' = TRUE
  /\ Throw
  /\ UNCHANGED <<buffer, limits, count, faults>>

(* file_helper::reopen(true) at the end; what the caller does after it.    *)
Reopen ==
  /\ pc = "shift" /\ i = 0
  /\ disk' = With(disk, 0, <<>>)
  /\ open' = TRUE
  /\ current_size' = IF caller = "ctor" THEN 0 ELSE current_size
  /\ IF caller = "sink_it_" THEN pc' = "write" /\ UNCHANGED call ELSE Return
  /\ UNCHANGED <<buffer, limits, count, faults, broken>>

(* No open works, perhaps after the file was emptied: either reopen()      *)
(* throws and leaves the sink with no file.                                *)
ReopenFails ==
  /\ pc = "give up" \/ (pc = "shift" /\ i = 0)
  /\ Fault
  /\ disk' \in {disk, With(disk, 0, <<>>)}
  /\ broken' = (broken \/ pc = "give up")
  /\ Throw
  /\ UNCHANGED <<buffer, open, current_size, limits, count>>

(* The process ends, in order or not: some of the buffer gets written.     *)
Crash ==
  /\ pc # "down"
  /\ Fault
  /\ \E n \in 0..Len(buffer) :
       disk' = IF open THEN With(disk, 0, disk[0] \o SubSeq(buffer, 1, n)) ELSE disk
  /\ buffer' = <<>>
  /\ open' = FALSE
  /\ pc' = "down" /\ Forget
  /\ UNCHANGED <<current_size, limits, count, broken>>

-----------------------------------------------------------------------------
OnDisk(files) == {m.number : m \in UNION {ToSet(files[k]) : k \in DOMAIN files}}

Init ==
  /\ disk = <<>>
  /\ buffer = <<>>
  /\ open = FALSE
  /\ current_size = 0
  /\ max_size = 0 /\ max_files = 0
  /\ pc = "down"
  /\ caller = "none"
  /\ msg = NoMessage
  /\ new_size = 0
  /\ i = 0
  /\ count = 0 /\ faults = 0 /\ saved = {} /\ broken = FALSE

Rotate == Close \/ Shift \/ Rename \/ RenameFails \/ GiveUp \/ Reopen \/ ReopenFails

Next ==
  /\ \/ \E s \in SizeLimits, f \in FileLimits, r \in BOOLEAN : Start(s, f, r)
     \/ \E s \in Sizes : SinkIt(s)
     \/ RotateNow \/ Flush \/ Write \/ Rotate \/ Crash
     \/ \E s \in SizeLimits : SetMaxSize(s)
     \/ \E f \in FileLimits : SetMaxFiles(f)
  /\ saved' = saved \cup OnDisk(disk')

Spec == Init /\ [][Next]_vars

-----------------------------------------------------------------------------
Idle == {"down", "idle", "write"}

Rotating == {"close", "shift", "rename", "retry", "give up"}

(* The values each variable takes; an open file exists, and nothing is     *)
(* buffered without one.                                                   *)
TypeOK ==
  /\ DOMAIN disk \subseteq Nat
  /\ \A k \in DOMAIN disk : disk[k] \in Seq(Message)
  /\ buffer \in Seq(Message)
  /\ open \in BOOLEAN
  /\ open => Exists(0) /\ pc \in {"idle", "write", "close"}
  /\ ~open => buffer = <<>>
  /\ current_size \in Nat /\ new_size \in Nat
  /\ max_size \in Nat /\ max_files \in Nat
  /\ pc \in Idle \cup Rotating
  /\ caller \in {"none", "ctor", "sink_it_", "rotate_now"}
  /\ pc = "write" => caller = "sink_it_" /\ msg \in Message
  /\ i \in Nat
  /\ pc \in {"rename", "retry", "give up"} => i > 0
  /\ count \in 0..MaxLogs /\ faults \in 0..MaxFaults
  /\ saved \subseteq 1..MaxLogs /\ broken \in BOOLEAN

(* The messages of the files, from the highest index down to 0, are in the *)
(* order they were logged and none is there twice.                         *)
Ascending(messages) ==
  \A j, k \in DOMAIN messages : j < k => messages[j].number < messages[k].number

InOrder(files) ==
  /\ \A k \in DOMAIN files : Ascending(files[k])
  /\ \A j, k \in DOMAIN files : j < k =>
       \A a \in DOMAIN files[j], b \in DOMAIN files[k] :
         files[k][b].number < files[j][a].number

(* The files are in order between any two steps of a rotation, after any   *)
(* crash or failure and however the limits change; what is buffered fits.  *)
OldestFirst == InOrder(disk) /\ InOrder(Flushed)

(* Rotation takes messages from the old end only: whatever was in a file    *)
(* once and is in none now is older than all that is left, unless a rename  *)
(* was given up or max_files_ lowered.                                      *)
OldestGoFirst ==
  ~broken => \A gone \in saved \ OnDisk(disk), kept \in OnDisk(disk) : gone < kept

(* current_size_, which is not asked of the file again, never is less than  *)
(* what the file will hold; a rotate_now() leaves it more.                  *)
NeverUnderestimates ==
  open => current_size >= Bytes(disk[0]) + Bytes(buffer)

(* A file that has a message gets no other that takes it over max_size_.    *)
GrowsWithinLimit ==
  [][open /\ Len(buffer') > Len(buffer) /\ Bytes(disk[0] \o buffer) > 0
       => Bytes(disk[0] \o buffer') <= max_size]_vars

=============================================================================
