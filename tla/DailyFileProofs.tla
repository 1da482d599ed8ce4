--------------------------- MODULE DailyFileProofs ---------------------------
(***************************************************************************)
(* What daily_file_sink keeps of its files, and when.  The current one if  *)
(* it rotates at midnight and keeps two or more, whatever is done to the   *)
(* clocks, or if they are never changed and it rotates at midnight or      *)
(* keeps two or more.  All it promises if they are never changed and it    *)
(* rotates at midnight.  No hypothesis is idle: TLC finds the current file *)
(* deleted, or too many, without it.                                       *)
(***************************************************************************)
EXTENDS DailyFile, TLAPS

(* Summer time is ahead by less than a day; the rotation time is one of a   *)
(* day; MaxFiles as DailyFile takes it.                                     *)
Parameters ==
  /\ DayLength \in Nat \ {0}
  /\ Shift \in 0..DayLength - 1
  /\ RotationTime \in 0..DayLength - 1
  /\ MaxFiles \in Nat \ {0}
  /\ LastMoment \in Nat

(* The clocks are never set back to the day before.                         *)
DaysInOrder ==
  \A s, t \in Int : s <= t => calc_filename(s) <= calc_filename(t)

AtMidnight == RotationTime = 0

ClocksUnchanged == Shift = 0

Names == Ring!Contents(filenames_q)

DayOf(time) == time \div DayLength

(* The day of the next rotation, by clocks that are never changed.          *)
Due == DayOf(rotation_tp)

(* What times next_rotation_tp_() returns: the rotation time of a day, or,  *)
(* in summer, midnight by summer time.                                      *)
IsRotation(time) ==
  \/ ClocksUnchanged /\ time = DayOf(time) * DayLength + RotationTime
  \/ AtMidnight /\ time = DayOf(time) * DayLength
  \/ AtMidnight /\ time = (DayOf(time) + 1) * DayLength - Shift

TypesOK ==
  /\ now \in Nat /\ rotation_tp \in Int /\ filename \in Nat /\ open \in BOOLEAN
  /\ IsRotation(rotation_tp)
  /\ Ring!IsRing(filenames_q) /\ filenames_q.max = MaxFiles + 1
  /\ Names \in Seq(Int) /\ Len(Names) \in 0..MaxFiles

(* No name is of a day after the next rotation, and of the same day can     *)
(* only be the last one, and only if that day does not begin with it.       *)
Behind ==
  \A i \in 1..Len(Names) :
    /\ Names[i] <= Due
    /\ i < Len(Names) \/ rotation_tp = Due * DayLength => Names[i] < Due

-----------------------------------------------------------------------------
(* Division, and multiples of the length of a day.                          *)
LEMMA Divided ==
  ASSUME Parameters, NEW u \in Int
  PROVE  /\ DayOf(u) \in Int
         /\ DayOf(u) * DayLength <= u
         /\ u < DayOf(u) * DayLength + DayLength
<1>1. DayLength \in Nat /\ DayLength > 0
  BY DEF Parameters
<1>2. QED
  BY <1>1, SMT DEF DayOf

LEMMA Multiples ==
  ASSUME Parameters, NEW m \in Int, NEW n \in Int, m * DayLength < n * DayLength + DayLength
  PROVE  m <= n
<1>1. DayLength \in Nat /\ DayLength > 0
  BY DEF Parameters
<1>2. SUFFICES ASSUME m >= n + 1 PROVE FALSE
  OBVIOUS
<1>3. m * DayLength >= (n + 1) * DayLength
  BY <1>1, <1>2, SMT
<1>4. (n + 1) * DayLength = n * DayLength + DayLength
  BY <1>1, SMT
<1>5. m * DayLength \in Int /\ n * DayLength \in Int
  BY <1>1, SMT
<1>6. QED
  BY <1>1, <1>3, <1>4, <1>5

LEMMA DayIs ==
  ASSUME Parameters, NEW u \in Int, NEW d \in Int,
         d * DayLength <= u, u < d * DayLength + DayLength
  PROVE  DayOf(u) = d
<1>1. DayLength \in Nat /\ DayLength > 0
  BY DEF Parameters
<1>2. /\ DayOf(u) \in Int /\ DayOf(u) * DayLength <= u
      /\ u < DayOf(u) * DayLength + DayLength
  BY Divided
<1>3. d * DayLength \in Int /\ DayOf(u) * DayLength \in Int
  BY <1>1, <1>2, SMT
<1>4. /\ DayOf(u) * DayLength < d * DayLength + DayLength
      /\ d * DayLength < DayOf(u) * DayLength + DayLength
  BY <1>1, <1>2, <1>3
<1>5. DayOf(u) <= d /\ d <= DayOf(u)
  BY <1>2, <1>4, Multiples
<1>6. QED
  BY <1>2, <1>5

(* The day of a time is that of the time its clock shows.                   *)
LEMMA Calendar ==
  ASSUME Parameters, NEW t \in Int
  PROVE  /\ offset(t) \in 0..Shift /\ (offset(t) = 0 \/ offset(t) = Shift)
         /\ calc_filename(t) = DayOf(t + offset(t)) /\ calc_filename(t) \in Int
         /\ calc_filename(t) * DayLength <= t + offset(t)
         /\ t + offset(t) < calc_filename(t) * DayLength + DayLength
         /\ t \in Nat => calc_filename(t) \in Nat
<1>1. DayLength \in Nat /\ DayLength > 0 /\ Shift \in Nat
  BY DEF Parameters
<1>2. offset(t) \in 0..Shift /\ (offset(t) = 0 \/ offset(t) = Shift)
  BY <1>1 DEF offset
<1>3. calc_filename(t) = DayOf(t + offset(t))
  BY DEF calc_filename, DayOf
<1>4. t + offset(t) \in Int
  BY <1>1, <1>2
<1>5. /\ calc_filename(t) \in Int
      /\ calc_filename(t) * DayLength <= t + offset(t)
      /\ t + offset(t) < calc_filename(t) * DayLength + DayLength
  BY <1>3, <1>4, Divided
<1>6. ASSUME t \in Nat PROVE calc_filename(t) \in Nat
  <2>1. 0 * DayLength < calc_filename(t) * DayLength + DayLength
    BY <1>1, <1>2, <1>5, <1>6
  <2>2. 0 <= calc_filename(t)
    BY <1>5, <2>1, Multiples
  <2>3. QED
    BY <1>5, <2>2
<1>7. QED
  BY <1>2, <1>3, <1>5, <1>6

(* Clocks that are never changed keep the days in order.                    *)
LEMMA OrderOfDays == ASSUME Parameters, ClocksUnchanged PROVE DaysInOrder
<1> SUFFICES ASSUME NEW s \in Int, NEW t \in Int, s <= t
             PROVE  calc_filename(s) <= calc_filename(t)
  BY DEF DaysInOrder
<1>1. offset(s) = 0 /\ offset(t) = 0 /\ DayLength \in Nat
  BY DEF offset, ClocksUnchanged, Parameters
<1>2. /\ calc_filename(s) \in Int /\ calc_filename(t) \in Int
      /\ calc_filename(s) * DayLength \in Int /\ calc_filename(t) * DayLength \in Int
  BY <1>1, Calendar
<1>3. calc_filename(s) * DayLength <= s /\ t < calc_filename(t) * DayLength + DayLength
  <2>1. s + offset(s) = s /\ t + offset(t) = t
    BY <1>1
  <2>2. QED
    BY <2>1, Calendar
<1>4. calc_filename(s) * DayLength < calc_filename(t) * DayLength + DayLength
  BY <1>1, <1>2, <1>3
<1>5. QED
  BY <1>2, <1>4, Multiples

(* The rotation that next_rotation_tp_() sets: with unchanged clocks the    *)
(* first one after now; at midnight the one that ends the day, by the       *)
(* clocks of now.                                                           *)
LEMMA NextRotation ==
  ASSUME Parameters, AtMidnight \/ ClocksUnchanged, now \in Nat
  PROVE  LET next == next_rotation_tp
             due == DayOf(next)
             today == calc_filename(now)
         IN  /\ next \in Int /\ IsRotation(next)
             /\ \/ /\ ClocksUnchanged /\ next = due * DayLength + RotationTime
                   /\ next > now /\ (due = today \/ due = today + 1)
                   /\ AtMidnight => due = today + 1
                \/ AtMidnight /\ next = due * DayLength /\ due = today + 1
                \/ /\ AtMidnight /\ next = (due + 1) * DayLength - Shift
                   /\ Shift > 0 /\ offset(now) = Shift /\ due = today
<1> DEFINE today == calc_filename(now)
           rotation == today * DayLength + RotationTime - offset(now)
           next == next_rotation_tp
<1>1. /\ DayLength \in Nat /\ DayLength > 0 /\ RotationTime \in 0..DayLength - 1
      /\ Shift \in 0..DayLength - 1
  BY DEF Parameters
<1>2. /\ today \in Int /\ today * DayLength <= now + offset(now)
      /\ now + offset(now) < today * DayLength + DayLength
      /\ offset(now) \in 0..Shift /\ (offset(now) = 0 \/ offset(now) = Shift)
  BY Calendar
<1>3. next = IF rotation > now THEN rotation ELSE rotation + DayLength
  BY DEF next_rotation_tp
<1> HIDE DEF today, next
<1>4. today * DayLength \in Int /\ (today + 1) * DayLength = today * DayLength + DayLength
  BY <1>1, <1>2, SMT
<1>5. CASE ClocksUnchanged
  <2>1. offset(now) = 0
    BY <1>2, <1>5 DEF ClocksUnchanged
  <2>2. CASE rotation > now
    <3>1. next = today * DayLength + RotationTime /\ next > now
      BY <1>1, <1>3, <1>4, <2>1, <2>2
    <3>2. DayOf(next) = today
      BY <1>1, <1>2, <1>4, <3>1, DayIs
    <3>3. ~AtMidnight
      BY <1>1, <1>2, <1>4, <2>1, <3>1 DEF AtMidnight
    <3>4. QED
      BY <1>1, <1>4, <1>5, <3>1, <3>2, <3>3 DEF IsRotation, next, today
  <2>3. CASE ~(rotation > now)
    <3>1. next = (today + 1) * DayLength + RotationTime /\ next > now
      BY <1>1, <1>2, <1>3, <1>4, <2>1, <2>3
    <3>2. DayOf(next) = today + 1
      BY <1>1, <1>2, <1>4, <3>1, DayIs
    <3>3. next \in Int
      BY <1>1, <1>4, <3>1
    <3>4. QED
      BY <1>5, <3>1, <3>2, <3>3 DEF IsRotation, next, today
  <2>4. QED
    BY <2>2, <2>3
<1>6. CASE AtMidnight
  <2>1. next = (today + 1) * DayLength - offset(now)
    BY <1>1, <1>2, <1>3, <1>4, <1>6 DEF AtMidnight
  <2>2. CASE offset(now) = 0
    <3>1. next = (today + 1) * DayLength /\ next \in Int
      BY <1>1, <1>4, <2>1, <2>2
    <3>2. DayOf(next) = today + 1
      BY <1>1, <1>2, <1>4, <3>1, DayIs
    <3>3. QED
      BY <1>6, <3>1, <3>2 DEF IsRotation, next, today
  <2>3. CASE offset(now) # 0
    <3>1. /\ offset(now) = Shift /\ Shift > 0
          /\ next = (today + 1) * DayLength - Shift /\ next \in Int
      BY <1>1, <1>2, <1>4, <2>1, <2>3
    <3>2. DayOf(next) = today
      BY <1>1, <1>2, <1>4, <3>1, DayIs
    <3>3. QED
      BY <1>6, <3>1, <3>2 DEF IsRotation, next, today
  <2>4. QED
    BY <2>2, <2>3
<1>7. QED
  BY <1>5, <1>6

(* A message that is due is of the day Due or later, and the next rotation  *)
(* is not before its day.  Should it be at the start of a day, that day is  *)
(* a later one still; and so it is if this rotation was not at one.         *)
LEMMA RotationMovesOn ==
  ASSUME Parameters, DaysInOrder, AtMidnight \/ ClocksUnchanged, TypesOK,
         NEW time \in 0..now, time >= rotation_tp
  PROVE  LET day == calc_filename(time)
             next == next_rotation_tp
             due == DayOf(next)
         IN  /\ day \in Nat /\ due \in Int /\ Due \in Int
             /\ Due <= day /\ day <= due
             /\ next = due * DayLength => day < due
             /\ rotation_tp # Due * DayLength => Due < due
<1> DEFINE day == calc_filename(time)
           today == calc_filename(now)
           next == next_rotation_tp
           due == DayOf(next)
<1>1. /\ DayLength \in Nat /\ DayLength > 0 /\ RotationTime \in 0..DayLength - 1
      /\ Shift \in 0..DayLength - 1
      /\ now \in Nat /\ time \in Nat /\ time <= now /\ rotation_tp \in Int
  BY DEF Parameters, TypesOK
<1>2. /\ day \in Nat /\ day * DayLength <= time + offset(time)
      /\ time + offset(time) < day * DayLength + DayLength
      /\ offset(time) \in 0..Shift
      /\ today \in Nat /\ today * DayLength <= now + offset(now)
      /\ now + offset(now) < today * DayLength + DayLength
      /\ offset(now) \in 0..Shift
  BY <1>1, Calendar
<1>3. /\ Due \in Int /\ Due * DayLength <= rotation_tp
      /\ rotation_tp < Due * DayLength + DayLength
  BY <1>1, Divided DEF Due
<1>4. /\ next \in Int /\ due \in Int
      /\ \/ /\ ClocksUnchanged /\ next = due * DayLength + RotationTime
            /\ next > now /\ (due = today \/ due = today + 1)
            /\ AtMidnight => due = today + 1
         \/ AtMidnight /\ next = due * DayLength /\ due = today + 1
         \/ /\ AtMidnight /\ next = (due + 1) * DayLength - Shift
            /\ Shift > 0 /\ offset(now) = Shift /\ due = today
  <2>1. next \in Int
    BY <1>1, NextRotation
  <2>2. due \in Int
    BY <2>1, Divided
  <2>3. QED
    BY <1>1, <2>1, <2>2, NextRotation
<1>5. \/ ClocksUnchanged /\ rotation_tp = Due * DayLength + RotationTime
      \/ AtMidnight /\ rotation_tp = Due * DayLength
      \/ AtMidnight /\ rotation_tp = (Due + 1) * DayLength - Shift
  BY DEF TypesOK, IsRotation, Due
<1>6. day <= today
  BY <1>1 DEF DaysInOrder
<1> HIDE DEF day, today, next, due
<1>7. /\ day * DayLength \in Int /\ today * DayLength \in Int /\ Due * DayLength \in Int
      /\ due * DayLength \in Int
      /\ (Due + 1) * DayLength = Due * DayLength + DayLength
      /\ (due + 1) * DayLength = due * DayLength + DayLength
  BY <1>1, <1>2, <1>3, <1>4, SMT
<1>8. Due <= day
  <2>1. Due * DayLength < day * DayLength + DayLength
    BY <1>1, <1>2, <1>3, <1>7
  <2>2. QED
    BY <1>2, <1>3, <2>1, Multiples
<1>9. CASE /\ ClocksUnchanged /\ next = due * DayLength + RotationTime
           /\ next > now /\ (due = today \/ due = today + 1)
           /\ AtMidnight => due = today + 1
  <2>1. day <= due
    BY <1>2, <1>4, <1>6, <1>9
  <2>2. next = due * DayLength => day < due
    <3>1. next = due * DayLength => AtMidnight
      BY <1>1, <1>7, <1>9 DEF AtMidnight
    <3>2. QED
      BY <1>2, <1>6, <1>9, <3>1
  <2>3. rotation_tp = Due * DayLength + RotationTime \/ rotation_tp = Due * DayLength
    BY <1>1, <1>3, <1>5, <1>7, <1>9 DEF ClocksUnchanged
  <2>4. ASSUME rotation_tp # Due * DayLength PROVE Due < due
    <3>1. Due * DayLength < due * DayLength
      BY <1>1, <1>7, <1>9, <2>3, <2>4
    <3>2. (Due + 1) * DayLength < due * DayLength + DayLength /\ Due + 1 \in Int
      BY <1>1, <1>3, <1>7, <3>1
    <3>3. Due + 1 <= due
      BY <1>4, <3>2, Multiples
    <3>4. QED
      BY <1>3, <1>4, <3>3
  <2>5. QED
    BY <1>2, <1>3, <1>4, <1>8, <2>1, <2>2, <2>4 DEF day, next, due
<1>10. CASE AtMidnight /\ next = due * DayLength /\ due = today + 1
  <2>1. day < due /\ Due < due
    BY <1>2, <1>3, <1>6, <1>8, <1>10
  <2>2. QED
    BY <1>2, <1>3, <1>4, <1>8, <2>1 DEF day, next, due
<1>11. CASE /\ AtMidnight /\ next = (due + 1) * DayLength - Shift
            /\ Shift > 0 /\ offset(now) = Shift /\ due = today
  <2>1. next # due * DayLength
    BY <1>1, <1>7, <1>11
  <2>2. ASSUME rotation_tp # Due * DayLength PROVE Due < due
    <3>1. rotation_tp = (Due + 1) * DayLength - Shift
      BY <1>1, <1>5, <1>11, <2>2 DEF ClocksUnchanged
    <3>2. (Due + 1) * DayLength < today * DayLength + DayLength /\ Due + 1 \in Int
      BY <1>1, <1>2, <1>3, <1>7, <1>11, <3>1
    <3>3. Due + 1 <= today
      BY <1>2, <3>2, Multiples
    <3>4. QED
      BY <1>2, <1>3, <1>11, <3>3
  <2>3. day <= due
    BY <1>6, <1>11
  <2>4. QED
    BY <1>2, <1>3, <1>4, <1>8, <2>1, <2>2, <2>3 DEF day, next, due
<1>12. QED
  BY <1>4, <1>9, <1>10, <1>11

-----------------------------------------------------------------------------
(* The queue of names as a sequence.                                        *)
LEMMA NamePushed ==
  ASSUME Parameters, NEW q, Ring!IsRing(q), q.max = MaxFiles + 1, NEW d \in Int,
         Len(Ring!Contents(q)) < MaxFiles
  PROVE  LET r == Ring!PushBack(q, d)
         IN  /\ Ring!IsRing(r) /\ r.max = MaxFiles + 1
             /\ Ring!Contents(r) = Append(Ring!Contents(q), d)
             /\ Ring!Contents(r) \in Seq(Int)
             /\ Len(Ring!Contents(r)) = Len(Ring!Contents(q)) + 1
<1>1. MaxFiles \in Nat /\ q.max > 0 /\ d \in Ring!Slot
  BY DEF Parameters, Ring!Slot
<1>2. Ring!Contents(q) \in Seq(Int) /\ Len(Ring!Contents(q)) = Ring!Size(q)
  BY <1>1, Ring!ContentsIsSeq DEF Ring!Slot
<1>3. ~Ring!Full(q)
  BY <1>1, <1>2, Ring!SizeAndTests DEF Ring!Room
<1>4. /\ Ring!IsRing(Ring!PushBack(q, d)) /\ Ring!PushBack(q, d).max = q.max
      /\ Ring!Contents(Ring!PushBack(q, d)) = Append(Ring!Contents(q), d)
  BY <1>1, <1>3, Ring!PushAppends
<1>5. QED
  BY <1>2, <1>4

LEMMA RoomForNames ==
  ASSUME Parameters, TypesOK
  PROVE  Ring!Full(filenames_q) <=> Len(Names) = MaxFiles
<1>1. filenames_q.max > 0 /\ Ring!Room(filenames_q) = MaxFiles
  BY DEF Parameters, TypesOK, Ring!Room
<1>2. Len(Names) = Ring!Size(filenames_q)
  BY <1>1, Ring!ContentsIsSeq DEF TypesOK, Names
<1>3. QED
  BY <1>1, <1>2, Ring!SizeAndTests DEF TypesOK

LEMMA OldestTaken ==
  ASSUME Parameters, TypesOK, Ring!Full(filenames_q)
  PROVE  LET r == Ring!PopFront(Ring!MoveFront(filenames_q))
         IN  /\ Ring!IsRing(r) /\ r.max = MaxFiles + 1
             /\ Names # <<>> /\ Len(Names) = MaxFiles
             /\ Ring!Front(filenames_q) = Names[1]
             /\ Ring!Contents(r) = Tail(Names) /\ Len(Ring!Contents(r)) = MaxFiles - 1
<1>1. filenames_q.max > 0 /\ MaxFiles \in Nat /\ MaxFiles > 0
  BY DEF Parameters, TypesOK
<1>2. Len(Names) = MaxFiles /\ Names \in Seq(Int)
  BY RoomForNames DEF TypesOK
<1>3. ~Ring!Empty(filenames_q)
  <2>1. Len(Names) = Ring!Size(filenames_q)
    BY <1>1, Ring!ContentsIsSeq DEF TypesOK, Names
  <2>2. QED
    BY <1>1, <1>2, <2>1, Ring!SizeAndTests DEF TypesOK
<1>4. /\ Ring!IsRing(Ring!PopFront(Ring!MoveFront(filenames_q)))
      /\ Ring!PopFront(Ring!MoveFront(filenames_q)).max = filenames_q.max
      /\ Ring!Front(filenames_q) = Head(Names)
      /\ Ring!Contents(Ring!PopFront(Ring!MoveFront(filenames_q))) = Tail(Names)
  BY <1>1, <1>3, Ring!PopTakes DEF TypesOK, Names
<1>5. QED
  BY <1>1, <1>2, <1>4 DEF TypesOK

(* What a rotation does to the names and to the files: the new name comes   *)
(* last, and if there was no room the first one goes, with its file unless  *)
(* the removal fails.                                                       *)
LEMMA RotationInSequence ==
  ASSUME Parameters, TypesOK, filename' \in Nat,
         NEW removed \in BOOLEAN, delete_old(files \cup {filename'}, removed)
  PROVE  /\ Ring!IsRing(filenames_q') /\ filenames_q'.max = MaxFiles + 1
         /\ Names' \in Seq(Int) /\ Len(Names') \in 0..MaxFiles
         /\ \/ /\ Names' = Append(Names, filename')
               /\ files' = files \cup {filename'}
            \/ /\ Len(Names) = MaxFiles /\ Names # <<>>
               /\ Names' = Append(Tail(Names), filename')
               /\ (files \cup {filename'}) \ {Names[1]} \subseteq files'
<1> USE DEF Names
<1>1. MaxFiles \in Nat /\ MaxFiles > 0 /\ filename' \in Int
      /\ Names \in Seq(Int) /\ Len(Names) \in 0..MaxFiles
  BY DEF Parameters, TypesOK
<1>2. CASE ~Ring!Full(filenames_q)
  <2>1. files' = files \cup {filename'} /\ filenames_q' = Ring!PushBack(filenames_q, filename')
    BY <1>2 DEF delete_old
  <2>2. Len(Names) < MaxFiles
    BY <1>1, <1>2, RoomForNames
  <2>3. /\ Ring!IsRing(filenames_q') /\ filenames_q'.max = MaxFiles + 1
        /\ Names' = Append(Names, filename')
        /\ Names' \in Seq(Int) /\ Len(Names') = Len(Names) + 1
    BY <1>1, <2>1, <2>2, NamePushed DEF TypesOK
  <2>4. QED
    BY <1>1, <2>1, <2>2, <2>3
<1>3. CASE Ring!Full(filenames_q)
  <2> DEFINE r == Ring!PopFront(Ring!MoveFront(filenames_q))
  <2>1. /\ (files \cup {filename'}) \ {Ring!Front(filenames_q)} \subseteq files'
        /\ filenames_q' = Ring!PushBack(r, filename')
    BY <1>3 DEF delete_old
  <2>2. /\ Ring!IsRing(r) /\ r.max = MaxFiles + 1
        /\ Names # <<>> /\ Len(Names) = MaxFiles
        /\ Ring!Front(filenames_q) = Names[1]
        /\ Ring!Contents(r) = Tail(Names) /\ Len(Ring!Contents(r)) = MaxFiles - 1
    BY <1>3, OldestTaken
  <2> HIDE DEF r
  <2>3. /\ Ring!IsRing(filenames_q') /\ filenames_q'.max = MaxFiles + 1
        /\ Names' = Append(Tail(Names), filename')
        /\ Names' \in Seq(Int) /\ Len(Names') = MaxFiles
    <3>1. Len(Ring!Contents(r)) < MaxFiles
      BY <1>1, <2>2
    <3> DEFINE s == Ring!PushBack(r, filename')
    <3>2. /\ Ring!IsRing(s) /\ s.max = MaxFiles + 1
          /\ Ring!Contents(s) = Append(Ring!Contents(r), filename')
          /\ Ring!Contents(s) \in Seq(Int)
          /\ Len(Ring!Contents(s)) = Len(Ring!Contents(r)) + 1
      BY <1>1, <2>2, <3>1, NamePushed
    <3> HIDE DEF s
    <3>3. filenames_q' = s /\ Names' = Ring!Contents(s)
      BY <2>1 DEF s
    <3>4. Ring!IsRing(filenames_q') /\ filenames_q'.max = MaxFiles + 1
      BY <3>2, <3>3
    <3> HIDE DEF Names
    <3>5. Names' = Append(Tail(Names), filename') /\ Names' \in Seq(Int)
      BY <2>2, <3>2, <3>3 DEF Names
    <3>6. Len(Names') = MaxFiles
      BY <1>1, <2>2, <3>2, <3>3
    <3>7. QED
      BY <3>4, <3>5, <3>6
  <2>4. QED
    BY <1>1, <2>1, <2>2, <2>3
<1>4. QED
  BY <1>2, <1>3

-----------------------------------------------------------------------------
(* The constructor finds the files of a day each, going back from today.    *)
LEMMA NamesAtStart ==
  ASSUME Parameters, Init
  PROVE  /\ now \in Nat /\ filename \in Nat
         /\ Ring!IsRing(filenames_q) /\ filenames_q.max = MaxFiles + 1
         /\ Names \in Seq(Int) /\ Len(Names) \in 1..MaxFiles
         /\ \A i \in 1..Len(Names) : Names[i] = Name(Len(Names) - i) /\ Names[i] \in files
<1>1. now \in Nat /\ filename = calc_filename(now) /\ MaxFiles \in Nat /\ MaxFiles > 0
  BY DEF Init, Parameters
<1>2. filename \in Nat
  BY <1>1, Calendar
<1>3. PICK n \in 1..MaxFiles : Found(n) /\ filenames_q = init_filenames_q(n)
  BY DEF Init
<1> DEFINE v == [i \in 0..MaxFiles |-> IF i < n THEN Name(n - 1 - i) ELSE -1]
           q == [max |-> MaxFiles + 1, head |-> 0, tail |-> n, overrun |-> 0, v |-> v]
<1>4. filenames_q = q
  BY <1>3 DEF init_filenames_q, Ring!New
<1>5. \A k \in Int : Name(k) \in Int
  <2> SUFFICES ASSUME NEW k \in Int PROVE Name(k) \in Int
    OBVIOUS
  <2>1. now - k * DayLength \in Int
    BY <1>1, SMT DEF Parameters
  <2>2. QED
    BY <2>1, Calendar DEF Name
<1>6. v \in [0..MaxFiles -> Int]
  BY <1>1, <1>5
<1> HIDE DEF v
<1>7. Ring!IsRing(q) /\ q.max = MaxFiles + 1 /\ q.max > 0 /\ Ring!Size(q) = n
  BY <1>1, <1>6 DEF Ring!IsRing, Ring!Slot, Ring!Size
<1>8. /\ Names \in Seq(Int) /\ Len(Names) = n
      /\ \A i \in 1..n : Names[i] = Ring!At(q, i - 1)
  <2> HIDE DEF q
  <2>1. /\ Ring!Contents(q) \in Seq(Ring!Slot)
        /\ Len(Ring!Contents(q)) = Ring!Size(q)
        /\ \A i \in 1..Ring!Size(q) : Ring!Contents(q)[i] = Ring!At(q, i - 1)
    BY <1>7, Ring!ContentsIsSeq
  <2>2. Ring!Slot = Int
    BY DEF Ring!Slot
  <2>3. QED
    BY <1>4, <1>7, <2>1, <2>2 DEF Names
<1>9. ASSUME NEW i \in 1..n PROVE Names[i] = Name(n - i) /\ Names[i] \in files
  <2>1. i - 1 \in 0..q.max /\ i - 1 < q.max
    BY <1>1, <1>7
  <2>2. Ring!At(q, i - 1) = q.v[IF q.head + (i - 1) < q.max THEN q.head + (i - 1)
                                ELSE q.head + (i - 1) - q.max]
    BY <1>7, <2>1, Ring!AtIndex
  <2>3. q.head + (i - 1) = i - 1
    OBVIOUS
  <2>4. Ring!At(q, i - 1) = v[i - 1]
    BY <2>1, <2>2, <2>3
  <2>5. v[i - 1] = Name(n - 1 - (i - 1)) /\ n - 1 - (i - 1) = n - i
    BY <1>1 DEF v
  <2>6. n - i \in 0..n - 1
    OBVIOUS
  <2>7. Name(n - i) \in files
    BY <1>3, <2>6 DEF Found
  <2>8. QED
    BY <1>8, <2>4, <2>5, <2>7
<1>10. QED
  BY <1>1, <1>2, <1>4, <1>7, <1>8, <1>9

(* They are of today, or of a moment a day ago or longer.                   *)
LEMMA DaysAtStart ==
  ASSUME Parameters, DaysInOrder, Init
  PROVE  /\ Name(1) \in Int /\ Name(1) <= filename
         /\ offset(now) = Shift => Name(1) < filename
         /\ Names[Len(Names)] = filename
         /\ \A i \in 1..Len(Names) :
              /\ Names[i] \in Int /\ Names[i] <= filename
              /\ i < Len(Names) => Names[i] <= Name(1)
<1>1. /\ now \in Nat /\ filename \in Nat /\ filename = calc_filename(now)
      /\ Names \in Seq(Int) /\ Len(Names) \in 1..MaxFiles
      /\ \A i \in 1..Len(Names) : Names[i] = Name(Len(Names) - i)
      /\ DayLength \in Nat /\ DayLength > 0 /\ Shift \in 0..DayLength - 1
  BY NamesAtStart DEF Init, Parameters
<1>2. Name(1) = calc_filename(now - DayLength) /\ now - DayLength \in Int
  <2>1. 1 * DayLength = DayLength
    BY <1>1
  <2>2. QED
    BY <1>1, <2>1 DEF Name
<1>3. Name(1) \in Int /\ Name(1) <= filename
  <2>1. calc_filename(now - DayLength) <= calc_filename(now)
    BY <1>1, <1>2 DEF DaysInOrder
  <2>2. QED
    BY <1>1, <1>2, <2>1, Calendar
<1>4. ASSUME offset(now) = Shift PROVE Name(1) < filename
  <2>1. /\ Name(1) * DayLength <= now - DayLength + offset(now - DayLength)
        /\ offset(now - DayLength) \in 0..Shift
        /\ now + offset(now) < filename * DayLength + DayLength
    BY <1>1, <1>2, Calendar
  <2>2. /\ (Name(1) + 1) * DayLength = Name(1) * DayLength + DayLength
        /\ Name(1) * DayLength \in Int /\ filename * DayLength \in Int
    BY <1>1, <1>3, SMT
  <2>3. (Name(1) + 1) * DayLength < filename * DayLength + DayLength
    BY <1>1, <1>4, <2>1, <2>2
  <2>4. Name(1) + 1 <= filename
    BY <1>1, <1>3, <2>3, Multiples
  <2>5. QED
    BY <1>1, <1>3, <2>4
<1>5. ASSUME NEW k \in Nat
      PROVE  /\ Name(k) <= filename
             /\ k > 0 => Name(k) <= Name(1)
  <2>1. k * DayLength \in Nat
    BY <1>1, SMT
  <2>2. k > 0 => k * DayLength >= DayLength
    BY <1>1, SMT
  <2>3. Name(k) = calc_filename(now - k * DayLength)
    BY DEF Name
  <2> DEFINE t == now - k * DayLength
  <2>4. t \in Int /\ t <= now /\ (k > 0 => t <= now - DayLength)
    BY <1>1, <2>1, <2>2
  <2> HIDE DEF t
  <2>5. calc_filename(t) <= calc_filename(now)
    BY <1>1, <2>4 DEF DaysInOrder
  <2>6. k > 0 => calc_filename(t) <= calc_filename(now - DayLength)
    BY <1>2, <2>4 DEF DaysInOrder
  <2>7. Name(k) = calc_filename(t)
    BY <2>3 DEF t
  <2>8. QED
    BY <1>1, <1>2, <2>5, <2>6, <2>7
<1>6. Names[Len(Names)] = filename
  <2>1. Names[Len(Names)] = Name(Len(Names) - Len(Names)) /\ Len(Names) - Len(Names) = 0
    BY <1>1
  <2>2. 0 * DayLength = 0 /\ now - 0 = now
    BY <1>1
  <2>3. QED
    BY <1>1, <2>1, <2>2 DEF Name
<1>7. ASSUME NEW i \in 1..Len(Names)
      PROVE  /\ Names[i] \in Int /\ Names[i] <= filename
             /\ i < Len(Names) => Names[i] <= Name(1)
  <2>1. Len(Names) - i \in Nat /\ (i < Len(Names) => Len(Names) - i > 0)
    BY <1>1
  <2>2. QED
    BY <1>1, <1>5, <2>1
<1>8. QED
  BY <1>3, <1>4, <1>6, <1>7

-----------------------------------------------------------------------------
Inv == TypesOK /\ Behind

LEMMA InvAtStart ==
  ASSUME Parameters, DaysInOrder, AtMidnight \/ ClocksUnchanged, Init
  PROVE  Inv
<1>1. /\ now \in Nat /\ filename \in Nat /\ filename = calc_filename(now)
      /\ Ring!IsRing(filenames_q) /\ filenames_q.max = MaxFiles + 1
      /\ Names \in Seq(Int) /\ Len(Names) \in 1..MaxFiles
      /\ MaxFiles \in Nat /\ open = TRUE /\ rotation_tp = next_rotation_tp
  BY NamesAtStart DEF Init, Parameters
<1>2. /\ rotation_tp \in Int /\ IsRotation(rotation_tp)
      /\ \/ /\ ClocksUnchanged /\ rotation_tp = Due * DayLength + RotationTime
            /\ Due = filename \/ Due = filename + 1
            /\ AtMidnight => Due = filename + 1
         \/ AtMidnight /\ rotation_tp = Due * DayLength /\ Due = filename + 1
         \/ /\ AtMidnight /\ rotation_tp = (Due + 1) * DayLength - Shift
            /\ Shift > 0 /\ offset(now) = Shift /\ Due = filename
  BY <1>1, NextRotation DEF Due
<1>3. TypesOK
  BY <1>1, <1>2 DEF TypesOK
<1>4. /\ Due \in Int /\ filename <= Due
      /\ rotation_tp = Due * DayLength => filename < Due
      /\ Due = filename => offset(now) = Shift
  <2>1. DayLength \in Nat /\ DayLength > 0 /\ RotationTime \in Nat /\ Shift \in 0..DayLength - 1
    BY DEF Parameters
  <2>2. Due \in Int
    BY <1>1, <1>2
  <2>3. Due * DayLength \in Int /\ (Due + 1) * DayLength = Due * DayLength + DayLength
    BY <2>1, <2>2, SMT
  <2>4. ClocksUnchanged => offset(now) = Shift
    BY DEF offset, ClocksUnchanged
  <2>5. rotation_tp = Due * DayLength => filename < Due
    BY <1>1, <1>2, <2>1, <2>2, <2>3 DEF AtMidnight
  <2>6. QED
    BY <1>1, <1>2, <2>2, <2>4, <2>5
<1>5. Behind
  <2> SUFFICES ASSUME NEW i \in 1..Len(Names)
               PROVE  /\ Names[i] <= Due
                      /\ i < Len(Names) \/ rotation_tp = Due * DayLength => Names[i] < Due
    BY DEF Behind
  <2>1. /\ Names[i] \in Int /\ Names[i] <= filename
        /\ i < Len(Names) => Names[i] <= Name(1)
        /\ Name(1) \in Int /\ Name(1) <= filename
        /\ offset(now) = Shift => Name(1) < filename
    BY DaysAtStart
  <2>2. QED
    BY <1>1, <1>4, <2>1
<1>6. QED
  BY <1>3, <1>5 DEF Inv

(* What a rotation does to the rotation time, whether or not the message    *)
(* that brings it about is written.                                         *)
LEMMA DueMoves ==
  ASSUME Parameters, DaysInOrder, AtMidnight \/ ClocksUnchanged, Inv,
         NEW time \in 0..now, time >= rotation_tp,
         rotation_tp' = next_rotation_tp, filename' = calc_filename(time), now' = now
  PROVE  /\ now' \in Nat /\ filename' \in Nat
         /\ rotation_tp' \in Int /\ IsRotation(rotation_tp')
         /\ Due \in Int /\ Due' \in Int /\ Due <= filename' /\ filename' <= Due'
         /\ rotation_tp' = Due' * DayLength => filename' < Due'
         /\ \A i \in 1..Len(Names) : /\ Names[i] \in Int
                                      /\ Names[i] <= filename' /\ Names[i] < Due'
<1>1. Due' = DayOf(next_rotation_tp)
  BY DEF Due
<1>2. /\ filename' \in Nat /\ Due \in Int /\ Due' \in Int
      /\ Due <= filename' /\ filename' <= Due'
      /\ rotation_tp' = Due' * DayLength => filename' < Due'
      /\ rotation_tp # Due * DayLength => Due < Due'
  BY <1>1, RotationMovesOn DEF Inv
<1>3. now \in Nat
  BY DEF Inv, TypesOK
<1>4. next_rotation_tp \in Int /\ IsRotation(next_rotation_tp)
  BY <1>3, NextRotation
<1>5. ASSUME NEW i \in 1..Len(Names)
      PROVE  Names[i] \in Int /\ Names[i] <= filename' /\ Names[i] < Due'
  <2>1. Names[i] \in Int /\ Names[i] <= Due
    BY DEF Inv, TypesOK, Behind
  <2>2. rotation_tp = Due * DayLength => Names[i] < Due
    BY DEF Inv, Behind
  <2>3. QED
    BY <1>2, <2>1, <2>2
<1>6. QED
  BY <1>2, <1>3, <1>4, <1>5

-----------------------------------------------------------------------------
(* What a rotation does to the queue of names, each of which was queued     *)
(* before or is that of the file it opens.                                  *)
LEMMA NamesAfter ==
  ASSUME NEW q \in Seq(Int), NEW d \in Int, NEW r,
         r = Append(q, d) \/ (q # <<>> /\ r = Append(Tail(q), d))
  PROVE  /\ r \in Seq(Int) /\ Len(r) >= 1 /\ r[Len(r)] = d
         /\ \A i \in 1..Len(r) : i < Len(r) => \E j \in 1..Len(q) : r[i] = q[j]
<1>1. CASE r = Append(q, d)
  BY <1>1
<1>2. CASE q # <<>> /\ r = Append(Tail(q), d)
  <2> DEFINE s == Tail(q)
  <2>1. /\ s \in Seq(Int) /\ Len(s) \in Nat /\ Len(q) \in Nat /\ Len(s) = Len(q) - 1
        /\ \A k \in 1..Len(s) : s[k] = q[k + 1]
    BY <1>2
  <2> HIDE DEF s
  <2>2. r = Append(s, d)
    BY <1>2 DEF s
  <2>3. /\ r \in Seq(Int) /\ Len(r) = Len(s) + 1 /\ r[Len(r)] = d
        /\ \A k \in 1..Len(s) : r[k] = s[k]
    BY <2>1, <2>2
  <2>4. ASSUME NEW i \in 1..Len(r), i < Len(r) PROVE \E j \in 1..Len(q) : r[i] = q[j]
    <3>1. i \in 1..Len(s) /\ i + 1 \in 1..Len(q)
      BY <2>1, <2>3, <2>4
    <3>2. r[i] = q[i + 1]
      BY <2>1, <2>3, <3>1
    <3>3. QED
      BY <3>1, <3>2
  <2>5. Len(r) >= 1
    BY <2>1, <2>3
  <2>6. QED
    BY <2>3, <2>4, <2>5
<1>3. QED
  BY <1>1, <1>2

(* At midnight and with unchanged clocks a rotation begins a day.           *)
LEMMA RotationOfDay ==
  ASSUME Parameters, AtMidnight, ClocksUnchanged, rotation_tp \in Int, IsRotation(rotation_tp)
  PROVE  rotation_tp = Due * DayLength
<1>1. /\ DayLength \in Nat /\ DayLength > 0 /\ RotationTime = 0 /\ Shift = 0
      /\ Due \in Int /\ Due * DayLength <= rotation_tp
      /\ rotation_tp < Due * DayLength + DayLength
  BY Divided DEF Parameters, AtMidnight, ClocksUnchanged, Due
<1>2. Due * DayLength \in Int /\ (Due + 1) * DayLength = Due * DayLength + DayLength
  BY <1>1, SMT
<1>3. QED
  BY <1>1, <1>2 DEF IsRotation, Due

LEMMA InvRotate ==
  ASSUME Parameters, DaysInOrder, AtMidnight \/ ClocksUnchanged, Inv,
         NEW time \in 0..now, NEW removed \in BOOLEAN, Rotate(time, removed)
  PROVE  /\ Inv' /\ open' /\ filename' \in Nat
         /\ (MaxFiles >= 2 \/ rotation_tp = Due * DayLength) /\ Len(Names) = MaxFiles
              => Names[1] < filename'
         /\ rotation_tp = Due * DayLength => \A i \in 1..Len(Names) : Names[i] < filename'
<1>1. /\ time >= rotation_tp /\ filename' = calc_filename(time) /\ open' = TRUE
      /\ rotation_tp' = next_rotation_tp /\ now' = now
      /\ delete_old(files \cup {filename'}, removed)
  BY DEF Rotate
<1>2. /\ now' \in Nat /\ filename' \in Nat
      /\ rotation_tp' \in Int /\ IsRotation(rotation_tp')
      /\ Due \in Int /\ Due' \in Int /\ Due <= filename' /\ filename' <= Due'
      /\ rotation_tp' = Due' * DayLength => filename' < Due'
      /\ \A i \in 1..Len(Names) : Names[i] \in Int /\ Names[i] < Due'
  BY <1>1, DueMoves
<1>3. TypesOK /\ Names \in Seq(Int) /\ Len(Names) \in Nat
  BY DEF Inv, TypesOK
<1>4. /\ Ring!IsRing(filenames_q') /\ filenames_q'.max = MaxFiles + 1
      /\ Names' \in Seq(Int) /\ Len(Names') \in 0..MaxFiles
      /\ \/ Names' = Append(Names, filename')
         \/ Names # <<>> /\ Names' = Append(Tail(Names), filename')
  BY <1>1, <1>2, <1>3, RotationInSequence
<1>5. TypesOK'
  BY <1>1, <1>2, <1>4 DEF TypesOK
<1>6. Behind'
  <2> SUFFICES ASSUME NEW i \in 1..Len(Names')
               PROVE  /\ Names'[i] <= Due'
                      /\ i < Len(Names') \/ rotation_tp' = Due' * DayLength => Names'[i] < Due'
    BY DEF Behind
  <2>1. /\ Names'[Len(Names')] = filename'
        /\ i < Len(Names') => \E j \in 1..Len(Names) : Names'[i] = Names[j]
    <3>1. filename' \in Int /\ i \in 1..Len(Names')
      BY <1>2
    <3>2. CASE Names' = Append(Names, filename')
      BY <1>3, <3>1, <3>2, NamesAfter
    <3>3. CASE Names # <<>> /\ Names' = Append(Tail(Names), filename')
      BY <1>3, <3>1, <3>3, NamesAfter
    <3>4. QED
      BY <1>4, <3>2, <3>3
  <2>2. CASE i < Len(Names')
    <3>1. PICK j \in 1..Len(Names) : Names'[i] = Names[j]
      BY <2>1, <2>2
    <3>2. QED
      BY <1>2, <3>1
  <2>3. CASE ~(i < Len(Names'))
    <3>1. i = Len(Names')
      BY <1>4, <2>3
    <3>2. QED
      BY <1>2, <2>1, <2>3, <3>1
  <2>4. QED
    BY <2>2, <2>3
<1>7. /\ \A i \in 1..Len(Names) : Names[i] \in Int
      /\ \A i \in 1..Len(Names) :
           i < Len(Names) \/ rotation_tp = Due * DayLength => Names[i] < Due
  BY DEF Inv, Behind, TypesOK
<1>8. ASSUME MaxFiles >= 2 \/ rotation_tp = Due * DayLength, Len(Names) = MaxFiles
      PROVE  Names[1] < filename'
  <2>1. 1 \in 1..Len(Names) /\ (1 < Len(Names) \/ rotation_tp = Due * DayLength)
    BY <1>8 DEF Parameters
  <2>2. Names[1] < Due /\ Names[1] \in Int
    BY <1>7, <2>1
  <2>3. QED
    BY <1>2, <2>2
<1>9. ASSUME rotation_tp = Due * DayLength, NEW i \in 1..Len(Names) PROVE Names[i] < filename'
  <2>1. Names[i] < Due /\ Names[i] \in Int
    BY <1>7, <1>9
  <2>2. QED
    BY <1>2, <2>1
<1>10. QED
  BY <1>1, <1>2, <1>5, <1>6, <1>8, <1>9 DEF Inv

(* A message that is not written moves the rotation time and queues no      *)
(* name; the clock and a failed open do neither.                            *)
LEMMA InvElse ==
  ASSUME Parameters, DaysInOrder, AtMidnight \/ ClocksUnchanged, Inv,
         \/ Tick \/ UNCHANGED vars
         \/ \E time \in 0..now : OpenFails(time) \/ WriteFails(time)
  PROVE  /\ Inv' /\ Names' = Names /\ files \subseteq files'
         /\ open' => filename' \in files' \/ (open /\ filename' = filename)
<1>1. /\ filenames_q' = filenames_q /\ Names' = Names /\ files \subseteq files'
      /\ open' => filename' \in files' \/ (open /\ filename' = filename)
  BY DEF Tick, OpenFails, WriteFails, vars, Names
<1>2. CASE Tick \/ UNCHANGED vars
  <2>1. /\ rotation_tp' = rotation_tp /\ filename' = filename /\ open' = open
        /\ now' \in Nat /\ Due' = Due
    BY <1>2 DEF Tick, vars, Inv, TypesOK, Due
  <2>2. QED
    BY <1>1, <2>1 DEF Inv, TypesOK, Behind
<1>3. ASSUME NEW time \in 0..now, OpenFails(time) PROVE Inv'
  <2>1. rotation_tp' = rotation_tp /\ Due' = Due /\ open' = FALSE /\ now' = now
    BY <1>3 DEF OpenFails, Due
  <2>2. time \in Nat
    BY DEF Inv, TypesOK
  <2>3. filename' \in Nat
    BY <1>3, <2>2, Calendar DEF OpenFails
  <2>4. QED
    BY <1>1, <2>1, <2>3 DEF Inv, TypesOK, Behind
<1>4. ASSUME NEW time \in 0..now, WriteFails(time) PROVE Inv'
  <2>1. /\ time >= rotation_tp /\ filename' = calc_filename(time) /\ open' = TRUE
        /\ rotation_tp' = next_rotation_tp /\ now' = now
    BY <1>4 DEF WriteFails
  <2>2. /\ now' \in Nat /\ filename' \in Nat
        /\ rotation_tp' \in Int /\ IsRotation(rotation_tp') /\ Due' \in Int
        /\ \A i \in 1..Len(Names) : Names[i] \in Int /\ Names[i] < Due'
    BY <2>1, DueMoves
  <2>3. TypesOK'
    BY <1>1, <2>1, <2>2 DEF Inv, TypesOK
  <2>4. Behind'
    BY <1>1, <2>2 DEF Behind
  <2>5. QED
    BY <2>3, <2>4 DEF Inv
<1>5. QED
  BY <1>1, <1>2, <1>3, <1>4

-----------------------------------------------------------------------------
(* The sink never deletes the file it writes to if it keeps two files or    *)
(* more and rotates at midnight, whenever summer time is in force, or, with *)
(* clocks that are never changed, if it does one or the other.              *)
THEOREM CurrentFileKept ==
  ASSUME Parameters, DaysInOrder,
         \/ AtMidnight /\ MaxFiles >= 2
         \/ ClocksUnchanged /\ (AtMidnight \/ MaxFiles >= 2)
  PROVE  Spec => []CurrentFileRetained
<1>1. Init => Inv /\ CurrentFileRetained
  BY InvAtStart DEF Init, CurrentFileRetained
<1>2. Inv /\ CurrentFileRetained /\ [Next]_vars => (Inv /\ CurrentFileRetained)'
  <2> SUFFICES ASSUME Inv, CurrentFileRetained, [Next]_vars
               PROVE  Inv' /\ CurrentFileRetained'
    OBVIOUS
  <2>1. CASE \/ Tick \/ UNCHANGED vars
             \/ \E time \in 0..now : OpenFails(time) \/ WriteFails(time)
    BY <2>1, InvElse DEF CurrentFileRetained
  <2>2. ASSUME NEW time \in 0..now, NEW removed \in BOOLEAN, Rotate(time, removed)
        PROVE  Inv' /\ CurrentFileRetained'
    <3>1. /\ Inv' /\ filename' \in Nat
          /\ (MaxFiles >= 2 \/ rotation_tp = Due * DayLength) /\ Len(Names) = MaxFiles
               => Names[1] < filename'
      BY <2>2, InvRotate
    <3>2. \/ files' = files \cup {filename'}
          \/ /\ Len(Names) = MaxFiles /\ Names # <<>>
             /\ (files \cup {filename'}) \ {Names[1]} \subseteq files'
      BY <2>2, <3>1, RotationInSequence DEF Rotate, Inv
    <3>3. MaxFiles >= 2 \/ rotation_tp = Due * DayLength
      BY RotationOfDay DEF Inv, TypesOK
    <3>4. Names # <<>> => Names[1] \in Int
      BY DEF Inv, TypesOK
    <3>5. filename' \in files'
      BY <3>1, <3>2, <3>3, <3>4
    <3>6. QED
      BY <3>1, <3>5 DEF CurrentFileRetained
  <2>3. QED
    BY <2>1, <2>2 DEF Next
<1>3. QED
  BY <1>1, <1>2, PTL DEF Spec

(* With clocks that are never changed and rotations at midnight the last    *)
(* MaxFiles files are kept: the names in the queue are of different days,   *)
(* and each of them is a file.                                              *)
Queued ==
  /\ \A i \in 1..Len(Names) : Names[i] \in files
  /\ \A i, j \in 1..Len(Names) : i < j => Names[i] < Names[j]

LEMMA QueuedAtStart ==
  ASSUME Parameters, ClocksUnchanged, Init
  PROVE  Queued
<1>1. /\ now \in Nat /\ Names \in Seq(Int) /\ Len(Names) \in 1..MaxFiles
      /\ \A i \in 1..Len(Names) : Names[i] = Name(Len(Names) - i) /\ Names[i] \in files
  BY NamesAtStart
<1>2. DayLength \in Nat /\ DayLength > 0 /\ \A t \in Int : offset(t) = 0
  BY DEF Parameters, offset, ClocksUnchanged
<1> DEFINE n == Len(Names)
<1>3. ASSUME NEW i \in 1..n, NEW j \in 1..n, i < j PROVE Names[i] < Names[j]
  <2> DEFINE s == now - (n - i) * DayLength
             t == now - (n - j) * DayLength
  <2>1. n - i \in Nat /\ n - j \in Nat /\ n - j + 1 <= n - i
    <3>1. n \in Nat
      BY <1>1
    <3> HIDE DEF n
    <3>2. QED
      BY <1>3, <3>1
  <2>2. (n - i) * DayLength \in Int /\ (n - j) * DayLength \in Int
    BY <1>2, <2>1, SMT
  <2>3. (n - j) * DayLength + DayLength <= (n - i) * DayLength
    <3>1. (n - j + 1) * DayLength <= (n - i) * DayLength
      BY <1>2, <2>1, SMT
    <3>2. (n - j + 1) * DayLength = (n - j) * DayLength + DayLength
      BY <1>2, <2>1, SMT
    <3>3. QED
      BY <3>1, <3>2
  <2>4. s \in Int /\ t \in Int /\ s <= t - DayLength
    BY <1>1, <1>2, <2>2, <2>3
  <2>5. Names[i] = calc_filename(s) /\ Names[j] = calc_filename(t)
    BY <1>1 DEF Name
  <2> HIDE DEF s, t
  <2>6. offset(s) = 0 /\ offset(t) = 0
    BY <1>2, <2>4
  <2>7. /\ calc_filename(s) \in Int /\ calc_filename(t) \in Int
        /\ calc_filename(s) * DayLength <= s + offset(s)
        /\ t + offset(t) < calc_filename(t) * DayLength + DayLength
    BY <2>4, Calendar
  <2>8. /\ calc_filename(s) * DayLength \in Int /\ calc_filename(t) * DayLength \in Int
        /\ (calc_filename(s) + 1) * DayLength = calc_filename(s) * DayLength + DayLength
    BY <1>2, <2>7, SMT
  <2>9. (calc_filename(s) + 1) * DayLength < calc_filename(t) * DayLength + DayLength
    BY <1>2, <2>4, <2>6, <2>7, <2>8
  <2>10. calc_filename(s) + 1 <= calc_filename(t)
    BY <2>7, <2>9, Multiples
  <2>11. QED
    BY <2>5, <2>7, <2>10
<1>4. QED
  BY <1>1, <1>3 DEF Queued

(* Every name in the queue after a rotation is of a file, and a file that   *)
(* it deletes is older than all of them.                                    *)
LEMMA QueuedRotate ==
  ASSUME Parameters, AtMidnight, ClocksUnchanged, Inv, Queued,
         NEW time \in 0..now, NEW removed \in BOOLEAN, Rotate(time, removed)
  PROVE  /\ Queued'
         /\ \A f \in files \ files' : /\ Len(Names') = MaxFiles
                                        /\ \A i \in 1..Len(Names') : f < Names'[i]
<1>1. /\ Inv' /\ filename' \in Nat
      /\ \A i \in 1..Len(Names) : Names[i] < filename'
  <2>1. DaysInOrder
    BY OrderOfDays
  <2>2. rotation_tp = Due * DayLength
    BY RotationOfDay DEF Inv, TypesOK
  <2>3. QED
    BY <2>1, <2>2, InvRotate
<1>2. /\ Names' \in Seq(Int) /\ Len(Names') \in 0..MaxFiles
      /\ \/ /\ Names' = Append(Names, filename')
            /\ files' = files \cup {filename'}
         \/ /\ Len(Names) = MaxFiles /\ Names # <<>>
            /\ Names' = Append(Tail(Names), filename')
            /\ (files \cup {filename'}) \ {Names[1]} \subseteq files'
  BY <1>1, RotationInSequence DEF Rotate, Inv
<1>3. /\ Names \in Seq(Int) /\ MaxFiles \in Nat
      /\ \A i, j \in 1..Len(Names) : i < j => Names[i] < Names[j]
      /\ \A i \in 1..Len(Names) : Names[i] \in files
  BY DEF Inv, TypesOK, Queued, Parameters
<1>4. CASE Names' = Append(Names, filename') /\ files' = files \cup {filename'}
  <2>1. /\ \A i, j \in 1..Len(Names') : i < j => Names'[i] < Names'[j]
        /\ \A i \in 1..Len(Names') : Names'[i] \in files'
    BY <1>1, <1>3, <1>4
  <2>2. files \ files' = {}
    BY <1>4
  <2>3. QED
    BY <2>1, <2>2 DEF Queued
<1>5. CASE /\ Len(Names) = MaxFiles /\ Names # <<>>
           /\ Names' = Append(Tail(Names), filename')
           /\ (files \cup {filename'}) \ {Names[1]} \subseteq files'
  <2> DEFINE n == Len(Names)
  <2>1. n \in Nat /\ n > 0 /\ Len(Names') = n /\ Names'[n] = filename'
        /\ \A i \in 1..n - 1 : Names'[i] = Names[i + 1] /\ i + 1 \in 1..n
    BY <1>1, <1>3, <1>5
  <2>2. \A i \in 1..n : i > 1 => Names[i] \in files' /\ Names[i] \in Int /\ Names[1] < Names[i]
    BY <1>3, <1>5, <2>1
  <2>3. filename' \in files' /\ Names[1] \in Int /\ Names[1] < filename'
    BY <1>1, <1>3, <1>5, <2>1
  <2>4. \A f \in files \ files' : f = Names[1]
    BY <1>5
  <2> HIDE DEF n
  <2>5. ASSUME NEW i \in 1..n PROVE Names'[i] \in files' /\ Names[1] < Names'[i]
    BY <2>1, <2>2, <2>3
  <2>6. ASSUME NEW i \in 1..n, NEW j \in 1..n, i < j PROVE Names'[i] < Names'[j]
    <3>1. CASE j = n
      BY <1>1, <2>1, <2>6, <3>1 DEF n
    <3>2. CASE j < n
      <4>1. i \in 1..n - 1 /\ j \in 1..n - 1 /\ i + 1 < j + 1
        BY <2>1, <2>6, <3>2
      <4>2. /\ Names'[i] = Names[i + 1] /\ Names'[j] = Names[j + 1]
            /\ i + 1 \in 1..Len(Names) /\ j + 1 \in 1..Len(Names)
        BY <2>1, <4>1 DEF n
      <4>3. QED
        BY <1>3, <4>1, <4>2
    <3>3. QED
      BY <2>1, <3>1, <3>2
  <2>7. Queued'
    BY <2>1, <2>5, <2>6 DEF Queued
  <2>8. Len(Names') = MaxFiles
    BY <1>5, <2>1 DEF n
  <2>9. QED
    BY <2>1, <2>4, <2>5, <2>7, <2>8
<1>6. QED
  BY <1>2, <1>4, <1>5

THEOREM LastFilesKept ==
  ASSUME Parameters, AtMidnight, ClocksUnchanged
  PROVE  Spec => LastFilesRetained
<1> DEFINE Later(f) == \E later \in [1..MaxFiles -> files'] :
                         /\ \A i \in 1..MaxFiles : f < later[i]
                         /\ \A i, j \in 1..MaxFiles : i < j => later[i] < later[j]
<1>1. DaysInOrder
  BY OrderOfDays
<1>2. Init => Inv /\ Queued
  BY <1>1, InvAtStart, QueuedAtStart
<1>3. Inv /\ Queued /\ [Next]_vars
        => (Inv /\ Queued)' /\ [\A f \in files \ files' : Later(f)]_vars
  <2> SUFFICES ASSUME Inv, Queued, [Next]_vars
               PROVE  Inv' /\ Queued' /\ \A f \in files \ files' : Later(f)
    OBVIOUS
  <2>1. CASE \/ Tick \/ UNCHANGED vars
             \/ \E time \in 0..now : OpenFails(time) \/ WriteFails(time)
    <3>1. Inv' /\ Names' = Names /\ files \subseteq files'
      BY <1>1, <2>1, InvElse
    <3>2. QED
      BY <3>1 DEF Queued
  <2>2. ASSUME NEW time \in 0..now, NEW removed \in BOOLEAN, Rotate(time, removed)
        PROVE  Inv' /\ Queued' /\ \A f \in files \ files' : Later(f)
    <3>1. Inv'
      BY <1>1, <2>2, InvRotate
    <3>2. /\ Queued'
          /\ \A f \in files \ files' : /\ Len(Names') = MaxFiles
                                         /\ \A i \in 1..Len(Names') : f < Names'[i]
      BY <2>2, QueuedRotate
    <3>3. ASSUME NEW f \in files \ files' PROVE Later(f)
      <4> DEFINE later == [i \in 1..MaxFiles |-> Names'[i]]
      <4>1. Len(Names') = MaxFiles /\ \A i \in 1..MaxFiles : f < Names'[i]
        BY <3>2, <3>3
      <4>2. /\ \A i \in 1..MaxFiles : Names'[i] \in files'
            /\ \A i, j \in 1..MaxFiles : i < j => Names'[i] < Names'[j]
        BY <3>2, <4>1 DEF Queued
      <4>3. later \in [1..MaxFiles -> files']
        BY <4>2
      <4>4. /\ \A i \in 1..MaxFiles : f < later[i]
            /\ \A i, j \in 1..MaxFiles : i < j => later[i] < later[j]
        BY <4>1, <4>2
      <4>5. QED
        BY <4>3, <4>4
    <3>4. QED
      BY <3>1, <3>2, <3>3
  <2>3. QED
    BY <2>1, <2>2 DEF Next
<1>4. QED
  BY <1>2, <1>3, PTL DEF Spec, LastFilesRetained
=============================================================================
