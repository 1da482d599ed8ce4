------------------------------ MODULE DailyFile ------------------------------
(***************************************************************************)
(* spdlog's daily_file_sink (include/spdlog/sinks/daily_file_sink.h): a    *)
(* file for each day, opened at a given time of the day, and a circular_q  *)
(* of the names of the last max_files_ files, the oldest of which is       *)
(* removed when another is opened.  A call holds the mutex of base_sink    *)
(* from start to end and is one step; the clock runs between the calls.    *)
(***************************************************************************)
EXTENDS Integers, Sequences

CONSTANTS
  DayLength,     \* moments of a day whose clocks are not changed
  Summer,        \* the moments at which summer time is in force
  Shift,         \* by how much the clocks are then ahead
  RotationTime,  \* the moment of a day at which rotation_h_:rotation_m_ falls
  MaxFiles,      \* max_files_, not 0: with 0 no file is ever removed
  LastMoment     \* bound: how long the clock runs

(* A file is named after its day; -1 is no name.                           *)
Ring == INSTANCE CircularQueueProofs WITH Item <- Int, Blank <- -1

VARIABLES
  now,          \* log_clock::now()
  rotation_tp,  \* rotation_tp_
  filename,     \* the name in file_helper_
  open,         \* has file_helper_ a file?
  filenames_q,  \* filenames_q_
  files         \* the files that exist

vars == <<now, rotation_tp, filename, open, filenames_q, files>>

-----------------------------------------------------------------------------
(* What localtime() adds to a time, and the day whose name it gives a file. *)
offset(time) == IF time \in Summer THEN Shift ELSE 0

calc_filename(time) == (time + offset(time)) \div DayLength

(* mktime() reads the rotation time of today with the tm_isdst of now, and  *)
(* hours(24) is added however long the day is.                             *)
next_rotation_tp ==
  LET rotation_time == calc_filename(now) * DayLength + RotationTime - offset(now)
  IN  IF rotation_time > now THEN rotation_time ELSE rotation_time + DayLength

(* init_filenames_q_() goes back by hours(24) at a time and finds the files *)
(* of n names: up to the first that does not exist, at most MaxFiles.      *)
Name(k) == calc_filename(now - k * DayLength)

Found(n) ==
  /\ \A k \in 0..n - 1 : Name(k) \in files
  /\ n = MaxFiles \/ Name(n) \notin files

(* The queue once it has pushed them, the latest last.                     *)
init_filenames_q(n) ==
  [Ring!New(MaxFiles) EXCEPT
     !.tail = n,
     !.v = [i \in 0..MaxFiles |-> IF i < n THEN Name(n - 1 - i) ELSE -1]]

(* The constructor, which opens the file of the day, next to files that    *)
(* earlier runs of the program left.                                       *)
Init ==
  /\ now \in 0..LastMoment
  /\ filename = calc_filename(now)
  /\ open = TRUE
  /\ \E earlier \in SUBSET (0..filename - 1) : files = earlier \cup {filename}
  /\ rotation_tp = next_rotation_tp
  /\ \E n \in 1..MaxFiles : Found(n) /\ filenames_q = init_filenames_q(n)

Tick ==
  /\ now < LastMoment
  /\ now' = now + 1
  /\ UNCHANGED <<rotation_tp, filename, open, filenames_q, files>>

(* sink_it_() of a message that was logged at some time before now.  If    *)
(* the removal of the oldest file fails, the name is pushed all the same.  *)
delete_old(present, removed) ==
  IF Ring!Full(filenames_q)
    THEN /\ files' = IF removed THEN present \ {Ring!Front(filenames_q)} ELSE present
         /\ filenames_q' =
              Ring!PushBack(Ring!PopFront(Ring!MoveFront(filenames_q)), filename')
    ELSE files' = present /\ filenames_q' = Ring!PushBack(filenames_q, filename')

Rotate(time, removed) ==
  /\ time >= rotation_tp
  /\ filename' = calc_filename(time)
  /\ open' = TRUE
  /\ rotation_tp' = next_rotation_tp
  /\ delete_old(files \cup {filename'}, removed)
  /\ UNCHANGED now

(* format() or write() throws: the file is open and the next rotation set, *)
(* but delete_old_() is not reached and the name is not queued.            *)
WriteFails(time) ==
  /\ time >= rotation_tp
  /\ filename' = calc_filename(time)
  /\ open' = TRUE
  /\ rotation_tp' = next_rotation_tp
  /\ files' = files \cup {filename'}
  /\ UNCHANGED <<now, filenames_q>>

(* The file cannot be opened, perhaps after it was created to truncate it:  *)
(* the call throws, and the next one tries again.                           *)
OpenFails(time) ==
  /\ time >= rotation_tp
  /\ filename' = calc_filename(time)
  /\ open' = FALSE
  /\ files' \in {files, files \cup {filename'}}
  /\ UNCHANGED <<now, rotation_tp, filenames_q>>

(* A message before rotation_tp is written to the file that is open, and   *)
(* changes nothing else.                                                   *)
Next ==
  \/ Tick
  \/ \E time \in 0..now :
       \/ OpenFails(time)
       \/ WriteFails(time)
       \/ \E removed \in BOOLEAN : Rotate(time, removed)

Spec == Init /\ [][Next]_vars

-----------------------------------------------------------------------------
(* daily_file_sink.h:64: "If max_files > 0, retain only the last max_files *)
(* and delete previous": the file that is written to is not deleted.       *)
CurrentFileRetained == open => filename \in files

(* And with it those before it: a file is deleted only if MaxFiles later   *)
(* ones are there.                                                         *)
LastFilesRetained ==
  [][\A f \in files \ files' :
       \E later \in [1..MaxFiles -> files'] :
         /\ \A i \in 1..MaxFiles : f < later[i]
         /\ \A i, j \in 1..MaxFiles : i < j => later[i] < later[j]]_vars

=============================================================================
