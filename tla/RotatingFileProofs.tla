------------------------- MODULE RotatingFileProofs -------------------------
(***************************************************************************)
(* What a rotating_file_sink keeps, whatever fails and whenever the        *)
(* process ends: its files are in order, the oldest messages go first, and *)
(* current_size_ never falls behind the file.                              *)
(*                                                                         *)
(* The inductive invariant Inv looks at the files as they are once what    *)
(* fd_ has buffered is written: they are in order, and no message in them  *)
(* is later than the last one logged, or than the one that a sink_it_() in *)
(* progress has still to write.  Three more build on it: Rest (types),     *)
(* Sizing (sizes) and Gone, with Gap and Past (what has left the files).   *)
(***************************************************************************)
EXTENDS RotatingFile, SequenceTheorems, WellFoundedInduction, TLAPS

IsFiles(files) ==
  /\ files \in [DOMAIN files -> Seq(Message)]
  /\ DOMAIN files \subseteq Nat

(* Files in order, all of whose messages are among the first n.            *)
Holds(files, n) ==
  /\ IsFiles(files)
  /\ InOrder(files)
  /\ \A k \in DOMAIN files : \A j \in DOMAIN files[k] : files[k][j].number <= n

Holding == pc \in {"write", "close", "shift", "rename", "retry", "give up"}

InFlight == Holding /\ caller = "sink_it_"

Written == IF InFlight THEN count - 1 ELSE count

FileTypes ==
  /\ IsFiles(disk)
  /\ buffer \in Seq(Message)
  /\ open => Exists(0)
  /\ ~open => buffer = <<>>

Control ==
  /\ open \in BOOLEAN
  /\ open => pc \in {"idle", "write", "close"}
  /\ max_files \in Nat /\ i \in Nat /\ count \in 0..MaxLogs
  /\ pc \in Idle \cup Rotating
  /\ pc = "write" => caller = "sink_it_"

SourceExists == pc \in {"rename", "retry"} => i > 0 /\ Exists(i - 1)

Flight == InFlight => msg \in Message /\ msg.number = count

Types == FileTypes /\ Control /\ SourceExists /\ Flight

Inv == Types /\ Holds(Flushed, Written)

-----------------------------------------------------------------------------
(* Operations on files that are in order.                                  *)
LEMMA MessageNumber == ASSUME NEW m \in Message PROVE m.number \in Nat
BY RotatingAssumption DEF Message

(* What is appended last, or cut off at the end, of a concatenation.       *)
LEMMA AppendToConcat ==
  ASSUME NEW S, NEW s \in Seq(S), NEW t \in Seq(S), NEW m \in S
  PROVE  s \o Append(t, m) = Append(s \o t, m)
<1>1. <<m>> \in Seq(S)
  OBVIOUS
<1>2. (s \o t) \o <<m>> = s \o (t \o <<m>>)
  BY <1>1, ConcatAssociative
<1>3. Append(t, m) = t \o <<m>>
  BY AppendIsConcat
<1>4. s \o t \in Seq(S)
  BY ConcatProperties
<1>5. Append(s \o t, m) = (s \o t) \o <<m>>
  BY <1>4, AppendIsConcat
<1>6. QED
  BY <1>2, <1>3, <1>5

LEMMA PrefixOfConcat ==
  ASSUME NEW S, NEW s \in Seq(S), NEW t \in Seq(S), NEW n \in 0..Len(t)
  PROVE  /\ Len(s) + n \in 0..Len(s \o t)
         /\ s \o SubSeq(t, 1, n) = SubSeq(s \o t, 1, Len(s) + n)
<1> DEFINE u == SubSeq(t, 1, n)
           v == SubSeq(s \o t, 1, Len(s) + n)
<1>1. Len(s) \in Nat /\ Len(t) \in Nat /\ n \in Nat /\ n <= Len(t)
  OBVIOUS
<1>2. /\ s \o t \in Seq(S)
      /\ Len(s \o t) = Len(s) + Len(t)
      /\ \A k \in 1..Len(s) + Len(t) :
           (s \o t)[k] = IF k <= Len(s) THEN s[k] ELSE t[k - Len(s)]
  BY ConcatProperties
<1>3. u \in Seq(S) /\ Len(u) = n /\ \A k \in 1..n : u[k] = t[k]
  BY <1>1
<1>4. /\ s \o u \in Seq(S)
      /\ Len(s \o u) = Len(s) + n
      /\ \A k \in 1..Len(s) + n :
           (s \o u)[k] = IF k <= Len(s) THEN s[k] ELSE u[k - Len(s)]
  <2> HIDE DEF u
  <2>1. QED
    BY <1>3, ConcatProperties
<1>5. v \in Seq(S) /\ Len(v) = Len(s) + n
      /\ \A k \in 1..Len(s) + n : v[k] = (s \o t)[k]
  BY <1>1, <1>2
<1> HIDE DEF u, v
<1>6. ASSUME NEW k \in 1..Len(s) + n
      PROVE  v[k] = (s \o u)[k]
  <2>1. k \in 1..Len(s) + Len(t)
    BY <1>1
  <2>2. CASE k <= Len(s)
    BY <1>2, <1>4, <1>5, <2>1, <2>2
  <2>3. CASE ~(k <= Len(s))
    <3>1. k - Len(s) \in 1..n
      BY <1>1, <2>3
    <3>2. u[k - Len(s)] = t[k - Len(s)]
      BY <1>3, <3>1
    <3>3. QED
      BY <1>2, <1>4, <1>5, <2>1, <2>3, <3>2
  <2>4. QED
    BY <2>2, <2>3
<1>7. s \o u = v
  BY <1>4, <1>5, <1>6, SeqEqual
<1>8. QED
  BY <1>1, <1>2, <1>7 DEF u, v

LEMMA WithIsFiles ==
  ASSUME NEW files, IsFiles(files), NEW k \in Nat, NEW s \in Seq(Message)
  PROVE  IsFiles(With(files, k, s))
BY DEF IsFiles, With

LEMMA EmptyKeeps ==
  ASSUME NEW files, NEW n, Holds(files, n)
  PROVE  Holds(With(files, 0, <<>>), n)
<1> DEFINE g == With(files, 0, <<>>)
<1>1. IsFiles(g)
  <2>1. <<>> \in Seq(Message) /\ 0 \in Nat
    OBVIOUS
  <2>2. IsFiles(files)
    BY DEF Holds
  <2>3. QED
    BY <2>1, <2>2, WithIsFiles
<1>2. \A k \in DOMAIN g : \/ g[k] = <<>>
                          \/ k \in DOMAIN files /\ g[k] = files[k]
  BY DEF With
<1> HIDE DEF g
<1>3. DOMAIN <<>> = {}
  OBVIOUS
<1>4. \A k \in DOMAIN g : \A j \in DOMAIN g[k] : k \in DOMAIN files /\ g[k] = files[k]
  BY <1>2, <1>3
<1>5. InOrder(g)
  BY <1>4 DEF Holds, InOrder, Ascending
<1>6. QED
  BY <1>1, <1>4, <1>5 DEF Holds, g

LEMMA PrefixKeeps ==
  ASSUME NEW files, NEW n, NEW s \in Seq(Message), Holds(With(files, 0, s), n),
         NEW m \in 0..Len(s), IsFiles(files)
  PROVE  Holds(With(files, 0, SubSeq(s, 1, m)), n)
<1> DEFINE g == With(files, 0, s)
           h == With(files, 0, SubSeq(s, 1, m))
<1>1. SubSeq(s, 1, m) \in Seq(Message)
  OBVIOUS
<1>2. IsFiles(h)
  BY <1>1, WithIsFiles
<1>3. DOMAIN h = DOMAIN g /\ \A k \in DOMAIN g : k # 0 => h[k] = g[k]
  BY DEF With
<1>4. 0 \in DOMAIN g /\ g[0] = s /\ h[0] = SubSeq(s, 1, m)
  BY DEF With
<1>5. \A j \in DOMAIN h[0] : j \in DOMAIN g[0] /\ h[0][j] = g[0][j]
  BY <1>4
<1> HIDE DEF g, h
<1>6. \A k \in DOMAIN g : \A j \in DOMAIN h[k] : j \in DOMAIN g[k] /\ h[k][j] = g[k][j]
  BY <1>3, <1>4, <1>5
<1>7. Holds(g, n)
  BY DEF g
<1>8. InOrder(h)
  <2>1. \A k \in DOMAIN h : Ascending(h[k])
    BY <1>3, <1>6, <1>7 DEF Holds, InOrder, Ascending
  <2>2. \A j, k \in DOMAIN h : j < k =>
          \A a \in DOMAIN h[j], b \in DOMAIN h[k] : h[k][b].number < h[j][a].number
    BY <1>3, <1>6, <1>7 DEF Holds, InOrder
  <2>3. QED
    BY <2>1, <2>2 DEF InOrder
<1>9. \A k \in DOMAIN h : \A j \in DOMAIN h[k] : h[k][j].number <= n
  BY <1>3, <1>6, <1>7 DEF Holds
<1>10. QED
  BY <1>2, <1>8, <1>9 DEF Holds, h

LEMMA AppendKeeps ==
  ASSUME NEW files, NEW n \in Nat, NEW s \in Seq(Message), IsFiles(files),
         Holds(With(files, 0, s), n - 1),
         NEW m \in Message, m.number = n
  PROVE  Holds(With(files, 0, Append(s, m)), n)
<1> DEFINE g == With(files, 0, s)
           h == With(files, 0, Append(s, m))
<1>1. IsFiles(h) /\ IsFiles(g)
  <2>1. Append(s, m) \in Seq(Message) /\ 0 \in Nat
    OBVIOUS
  <2>2. QED
    BY <2>1, WithIsFiles
<1>2. DOMAIN h = DOMAIN g /\ \A k \in DOMAIN g : k # 0 => h[k] = g[k]
  BY DEF With
<1>3. 0 \in DOMAIN g /\ g[0] = s /\ h[0] = Append(s, m)
  BY DEF With
<1>4. \A j \in DOMAIN h[0] : \/ j \in DOMAIN g[0] /\ h[0][j] = g[0][j]
                             \/ j = Len(s) + 1 /\ h[0][j] = m
  BY <1>3
<1>5. \A j \in DOMAIN g[0] : j \in 1..Len(s)
  BY <1>3
<1> HIDE DEF g, h
<1>6. Holds(g, n - 1)
  BY DEF g
<1>7. \A k \in DOMAIN g : \A j \in DOMAIN g[k] : g[k][j].number < n /\ g[k][j].number \in Nat
  <2>1. ASSUME NEW k \in DOMAIN g, NEW j \in DOMAIN g[k] PROVE g[k][j] \in Message
    BY <1>1 DEF IsFiles
  <2>2. QED
    BY <1>6, <2>1, MessageNumber DEF Holds
<1>8. Ascending(h[0])
  <2> SUFFICES ASSUME NEW j \in DOMAIN h[0], NEW k \in DOMAIN h[0], j < k
               PROVE  h[0][j].number < h[0][k].number
    BY DEF Ascending
  <2>1. j \in Nat /\ k \in Nat /\ j <= Len(s) + 1 /\ k <= Len(s) + 1
    BY <1>3
  <2>2. Len(s) \in Nat
    OBVIOUS
  <2>3. j \in DOMAIN g[0] /\ h[0][j] = g[0][j]
    BY <1>4, <2>1, <2>2
  <2>4. CASE k \in DOMAIN g[0] /\ h[0][k] = g[0][k]
    BY <1>3, <1>6, <2>3, <2>4 DEF Holds, InOrder, Ascending
  <2>5. CASE h[0][k] = m
    BY <1>3, <1>7, <2>3, <2>5
  <2>6. QED
    BY <1>4, <2>4, <2>5
<1>9. InOrder(h)
  <2>1. \A k \in DOMAIN h : Ascending(h[k])
    BY <1>2, <1>6, <1>8 DEF Holds, InOrder
  <2>2. ASSUME NEW j \in DOMAIN h, NEW k \in DOMAIN h, j < k,
               NEW a \in DOMAIN h[j], NEW b \in DOMAIN h[k]
        PROVE  h[k][b].number < h[j][a].number
    <3>1. k # 0 /\ h[k] = g[k] /\ k \in DOMAIN g /\ j \in DOMAIN g
      BY <1>1, <1>2, <2>2 DEF IsFiles
    <3>2. CASE a \in DOMAIN g[j] /\ h[j][a] = g[j][a]
      BY <1>6, <2>2, <3>1, <3>2 DEF Holds, InOrder
    <3>3. CASE h[j][a] = m
      BY <1>7, <3>1, <3>3
    <3>4. QED
      BY <1>2, <1>4, <3>1, <3>2, <3>3
  <2>3. QED
    BY <2>1, <2>2 DEF InOrder
<1>10. \A k \in DOMAIN h : \A j \in DOMAIN h[k] : h[k][j].number <= n
  <2> SUFFICES ASSUME NEW k \in DOMAIN h, NEW j \in DOMAIN h[k]
               PROVE  h[k][j].number <= n
    OBVIOUS
  <2>1. CASE j \in DOMAIN g[k] /\ h[k][j] = g[k][j]
    BY <1>2, <1>7, <2>1
  <2>2. CASE h[k][j] = m
    BY <2>2
  <2>3. QED
    BY <1>2, <1>4, <2>1, <2>2
<1>11. QED
  BY <1>1, <1>9, <1>10 DEF Holds, h

LEMMA WithoutKeeps ==
  ASSUME NEW n, Holds(disk, n), NEW k
  PROVE  Holds(Without(k), n)
<1> DEFINE g == Without(k)
<1>1. IsFiles(g)
  BY DEF Without, Holds, IsFiles
<1>2. \A j \in DOMAIN g : j \in DOMAIN disk /\ g[j] = disk[j]
  BY DEF Without
<1> HIDE DEF g
<1>3. InOrder(g)
  BY <1>2 DEF Holds, InOrder
<1>4. QED
  BY <1>1, <1>2, <1>3 DEF Holds, g

LEMMA RenamedKeeps ==
  ASSUME NEW n, Holds(disk, n), i \in Nat, i > 0, Exists(i - 1)
  PROVE  Holds(Renamed, n)
<1> DEFINE g == Renamed
<1>1. disk[i - 1] \in Seq(Message) /\ Source = i - 1 /\ Source + 1 = i
  BY DEF Holds, IsFiles, Exists, Source
<1>2. IsFiles(g)
  <2>1. Holds(Without(Source), n)
    BY WithoutKeeps
  <2>2. QED
    BY <1>1, <2>1, WithIsFiles DEF Renamed, Holds
<1>3. DOMAIN g = (DOMAIN disk \ {i - 1}) \cup {i}
  BY <1>1 DEF Renamed, With, Without
<1>4. g[i] = disk[i - 1]
  BY <1>1, <1>3 DEF Renamed, With, Without
<1>5. \A k \in DOMAIN g \ {i} : k \in DOMAIN disk /\ k # i - 1 /\ g[k] = disk[k]
  BY <1>1, <1>3 DEF Renamed, With, Without
<1> HIDE DEF g
<1> DEFINE from(k) == IF k = i THEN i - 1 ELSE k
<1>6. \A k \in DOMAIN g : k \in Nat /\ from(k) \in DOMAIN disk /\ g[k] = disk[from(k)]
  BY <1>2, <1>4, <1>5 DEF Exists, IsFiles
<1>7. \A j, k \in DOMAIN g : j < k => from(j) < from(k)
  <2> SUFFICES ASSUME NEW j \in DOMAIN g, NEW k \in DOMAIN g, j < k
               PROVE  from(j) < from(k)
    OBVIOUS
  <2>1. j \in Nat /\ k \in Nat
    BY <1>6
  <2>2. CASE j = i
    <3>1. k # i /\ from(k) = k /\ from(j) = i - 1
      BY <2>1, <2>2
    <3>2. QED
      BY <2>1, <2>2, <3>1
  <2>3. CASE j # i /\ k = i
    <3>1. j # i - 1
      BY <1>5, <2>3
    <3>2. QED
      BY <2>1, <2>3, <3>1
  <2>4. CASE j # i /\ k # i
    BY <2>4
  <2>5. QED
    BY <2>2, <2>3, <2>4
<1> HIDE DEF from
<1>8. InOrder(g)
  BY <1>6, <1>7 DEF Holds, InOrder
<1>9. \A k \in DOMAIN g : \A j \in DOMAIN g[k] : g[k][j].number <= n
  BY <1>6 DEF Holds
<1>10. QED
  BY <1>2, <1>8, <1>9 DEF Holds, g

LEMMA MoreHold ==
  ASSUME NEW files, NEW m \in Int, NEW n \in Int, m <= n, Holds(files, m)
  PROVE  Holds(files, n)
<1>1. ASSUME NEW k \in DOMAIN files, NEW j \in DOMAIN files[k]
      PROVE  files[k][j].number <= n
  <2>1. files[k][j] \in Message
    BY <1>1 DEF Holds, IsFiles
  <2>2. files[k][j].number \in Nat /\ files[k][j].number <= m
    BY <1>1, <2>1, MessageNumber DEF Holds
  <2>3. QED
    BY <2>2
<1>2. QED
  BY <1>1 DEF Holds

LEMMA Refill ==
  ASSUME NEW files, IsFiles(files), 0 \in DOMAIN files
  PROVE  With(files, 0, files[0] \o <<>>) = files
<1>1. files[0] \o <<>> = files[0]
  <2>1. files[0] \in Seq(Message)
    BY DEF IsFiles
  <2>2. QED
    BY <2>1
<1>2. QED
  BY <1>1 DEF With, IsFiles

-----------------------------------------------------------------------------
(* What the invariant says of the files as they are.                       *)
LEMMA WholeFile ==
  ASSUME Types, open
  PROVE  disk[0] \in Seq(Message) /\ disk[0] \o buffer \in Seq(Message)
<1>1. disk[0] \in Seq(Message)
  BY DEF Types, FileTypes, IsFiles, Exists
<1>2. buffer \in Seq(Message)
  BY DEF Types, FileTypes
<1>3. QED
  BY <1>1, <1>2

LEMMA DiskHolds ==
  ASSUME Inv
  PROVE  Holds(disk, Written) /\ IsFiles(Flushed)
<1>1. CASE ~open
  BY <1>1 DEF Inv, Types, FileTypes, Control, Flushed
<1>2. CASE open
  <2>1. disk[0] \in Seq(Message) /\ disk[0] \o buffer \in Seq(Message)
    BY <1>2, WholeFile DEF Inv
  <2>2. /\ Len(disk[0]) \in 0..Len(disk[0] \o buffer)
        /\ SubSeq(disk[0] \o buffer, 1, Len(disk[0])) = disk[0]
    BY <2>1 DEF Inv, Types, FileTypes, Control
  <2>3. Holds(With(disk, 0, disk[0] \o buffer), Written)
    BY <1>2 DEF Inv, Flushed
  <2>4. Holds(With(disk, 0, disk[0]), Written)
    BY <2>1, <2>2, <2>3, PrefixKeeps DEF Inv, Types, FileTypes, Control
  <2>5. With(disk, 0, disk[0]) = disk
    BY <1>2 DEF With, Inv, Types, FileTypes, Control, IsFiles, Exists
  <2>6. QED
    BY <1>2, <2>3, <2>4, <2>5 DEF Holds, Flushed
<1>3. QED
  BY <1>1, <1>2 DEF Inv, Types, FileTypes, Control

LEMMA WrittenInt == Types => Written \in Int /\ Written <= count /\ count \in Nat
BY RotatingAssumption DEF Types, Control, Written

(* fflush() changes where messages are, not what they are.                 *)
LEMMA FlushKeeps ==
  ASSUME Inv, disk' = Flushed, buffer' = <<>>, open' \in {open, FALSE}
  PROVE  /\ Flushed' = Flushed
         /\ IsFiles(disk')
         /\ open' => 0 \in DOMAIN disk'
<1>1. IsFiles(disk')
  BY DiskHolds
<1>2. open => 0 \in DOMAIN disk'
  BY DEF Flushed, With
<1>3. CASE open'
  <2>1. open
    BY <1>3 DEF Inv, Types, FileTypes, Control
  <2>2. With(disk', 0, disk'[0] \o <<>>) = disk'
    BY <1>1, <1>2, <2>1, Refill
  <2>3. Flushed' = With(disk', 0, disk'[0] \o buffer')
    BY <1>3 DEF Flushed, With
  <2>4. QED
    BY <1>1, <1>2, <2>1, <2>2, <2>3
<1>4. CASE ~open'
  BY <1>1, <1>4 DEF Flushed
<1>5. QED
  BY <1>3, <1>4

(* The steps that leave the files and the buffer alone.                    *)
LEMMA QuietStep ==
  ASSUME Inv,
         \/ RotateNow \/ RenameFails
         \/ \E s \in SizeLimits : SetMaxSize(s)
         \/ \E f \in FileLimits : SetMaxFiles(f)
         \/ UNCHANGED vars
  PROVE  Inv'
<1>1. UNCHANGED <<disk, buffer, open, msg, i, count>>
  BY DEF RotateNow, RenameFails, SetMaxSize, SetMaxFiles, vars, call
<1>2. \/ UNCHANGED <<pc, caller>>
      \/ pc = "idle" /\ pc' = "close" /\ caller' = "rotate_now"
      \/ pc \in {"rename", "retry"} /\ pc' \in {"retry", "give up"} /\ UNCHANGED caller
  BY DEF RotateNow, RenameFails, SetMaxSize, SetMaxFiles, vars, call
<1>3. max_files' \in Nat
  BY RotatingAssumption
  DEF Inv, Types, Control, RotateNow, RenameFails, SetMaxSize, SetMaxFiles, vars, limits
<1>4. Flushed' = Flushed
  BY <1>1 DEF Flushed
<1>5. InFlight' = InFlight
  BY <1>2 DEF InFlight, Holding
<1>6. Written' = Written
  BY <1>1, <1>5 DEF Written
<1>7. FileTypes'
  BY <1>1 DEF Inv, Types, FileTypes, Exists
<1>8. Control'
  BY <1>1, <1>2, <1>3 DEF Inv, Types, Control, Idle, Rotating
<1>9. SourceExists'
  BY <1>1, <1>2 DEF Inv, Types, SourceExists, Exists
<1>10. Flight'
  BY <1>1, <1>5 DEF Inv, Types, Flight
<1>11. QED
  BY <1>4, <1>6, <1>7, <1>8, <1>9, <1>10 DEF Inv, Types

LEMMA StartStep ==
  ASSUME Inv, NEW s \in SizeLimits, NEW f \in FileLimits, NEW r \in BOOLEAN,
         Start(s, f, r)
  PROVE  Inv'
<1>1. pc = "down" /\ ~open /\ buffer = <<>>
  BY DEF Inv, Types, FileTypes, Control, Start
<1>2. Written = count
  BY <1>1 DEF Written, InFlight, Holding
<1>3. /\ open' = TRUE /\ buffer' = <<>> /\ UNCHANGED count /\ max_files' = f
      /\ \/ pc' = "close" /\ caller' = "ctor" /\ UNCHANGED i
         \/ pc' = "idle" /\ i' = 0
  BY <1>1 DEF Start, Return, Forget
<1>4. Holds(disk', count)
  <2>1. Holds(disk, count)
    BY <1>2, DiskHolds
  <2>2. QED
    BY <2>1, EmptyKeeps DEF Start
<1>5. 0 \in DOMAIN disk'
  BY DEF Start, Exists, With
<1>6. Flushed' = disk'
  <2>1. With(disk', 0, disk'[0] \o <<>>) = disk'
    BY <1>4, <1>5, Refill DEF Holds
  <2>2. QED
    BY <1>3, <2>1 DEF Flushed
<1>7. ~InFlight'
  BY <1>3 DEF InFlight, Holding
<1>8. Written' = count
  BY <1>3, <1>7 DEF Written
<1>9. FileTypes'
  BY <1>3, <1>4, <1>5 DEF FileTypes, Holds, Exists
<1>10. Control'
  <2>1. max_files' \in Nat /\ i' \in Nat /\ count' \in 0..MaxLogs
    BY <1>3, RotatingAssumption DEF Inv, Types, Control
  <2>2. pc' \in {"close", "idle"}
    BY <1>3
  <2>3. open' \in BOOLEAN
    BY <1>3
  <2>4. QED
    BY <2>1, <2>2, <2>3 DEF Control, Idle, Rotating
<1>11. SourceExists' /\ Flight'
  BY <1>3, <1>7 DEF SourceExists, Flight
<1>12. QED
  BY <1>4, <1>6, <1>8, <1>9, <1>10, <1>11 DEF Inv, Types

LEMMA SinkItStep ==
  ASSUME Inv, NEW s \in Sizes, SinkIt(s)
  PROVE  Inv'
<1>1. /\ pc = "idle" /\ count \in Nat /\ count < MaxLogs /\ count' = count + 1
      /\ UNCHANGED <<open, max_files>>
  BY RotatingAssumption DEF Inv, Types, Control, SinkIt, limits
<1>2. Written = count
  BY <1>1 DEF Written, InFlight, Holding
<1>3. \/ UNCHANGED <<disk, buffer>>
      \/ disk' = Flushed /\ buffer' = <<>>
  BY DEF SinkIt
<1>4. /\ Flushed' = Flushed
      /\ FileTypes'
  <2>1. CASE UNCHANGED <<disk, buffer>>
    BY <1>1, <2>1 DEF Flushed, Inv, Types, FileTypes, Exists
  <2>2. CASE disk' = Flushed /\ buffer' = <<>>
    <3>1. /\ Flushed' = Flushed
          /\ IsFiles(disk')
          /\ open' => 0 \in DOMAIN disk'
      BY <1>1, <2>2, FlushKeeps
    <3>2. QED
      BY <2>2, <3>1 DEF FileTypes, Exists
  <2>3. QED
    BY <1>3, <2>1, <2>2
<1>5. Holds(Flushed', count)
  BY <1>2, <1>4 DEF Inv
<1>6. \/ Accept(s) /\ pc' \in {"write", "close"} /\ UNCHANGED i
      \/ ~open /\ pc' \in {"idle", "down"} /\ i' = 0
  BY DEF SinkIt, Throw, Forget
<1>7. Control'
  <2>1. max_files' \in Nat /\ i' \in Nat /\ count' \in 0..MaxLogs
    BY <1>1, <1>6, RotatingAssumption DEF Inv, Types, Control
  <2>2. open' \in BOOLEAN
    BY <1>1 DEF Inv, Types, Control
  <2>3. pc' \in {"write", "close", "idle", "down"} /\ (open' => pc' \in {"write", "close"})
    BY <1>1, <1>6
  <2>4. pc' = "write" => caller' = "sink_it_"
    BY <1>6 DEF Accept
  <2>5. QED
    BY <2>1, <2>2, <2>3, <2>4 DEF Control, Idle, Rotating
<1>8. SourceExists'
  BY <1>6 DEF SourceExists
<1>9. CASE Accept(s) /\ pc' \in {"write", "close"}
  <2>1. InFlight'
    BY <1>9 DEF Accept, InFlight, Holding
  <2>2. Written' = count
    BY <1>1, <2>1 DEF Written
  <2>3. [number |-> count + 1, size |-> s] \in Message
    BY <1>1, RotatingAssumption DEF Message
  <2>4. Flight'
    BY <1>1, <1>9, <2>3 DEF Flight, Accept
  <2>5. QED
    BY <1>4, <1>5, <1>7, <1>8, <2>2, <2>4 DEF Inv, Types
<1>10. CASE pc' \in {"idle", "down"}
  <2>1. ~InFlight'
    BY <1>10 DEF InFlight, Holding
  <2>2. Written' = count + 1
    BY <1>1, <2>1 DEF Written
  <2>3. Holds(Flushed', count + 1)
    BY <1>1, <1>5, MoreHold
  <2>4. QED
    BY <1>4, <1>7, <1>8, <2>1, <2>2, <2>3 DEF Inv, Types, Flight
<1>11. QED
  BY <1>6, <1>9, <1>10

(* flush_(), and the steps of a rotation.                                  *)
LEMMA FlushStep ==
  ASSUME Inv, Flush \/ Close
  PROVE  Inv'
<1>1. disk' = Flushed /\ buffer' = <<>> /\ UNCHANGED <<max_files, caller, msg, count>>
  BY DEF Flush, Close, call, limits
<1>2. \/ pc = "idle" /\ UNCHANGED <<pc, i, open>>
      \/ pc = "close" /\ pc' = "shift" /\ open' = FALSE /\ i' = max_files
  BY DEF Flush, Close, call
<1>3. /\ Flushed' = Flushed
      /\ IsFiles(disk')
      /\ open' => 0 \in DOMAIN disk'
  BY <1>1, <1>2, FlushKeeps
<1>4. InFlight' = InFlight
  BY <1>1, <1>2 DEF InFlight, Holding
<1>5. Written' = Written
  BY <1>1, <1>4 DEF Written
<1>6. FileTypes'
  BY <1>1, <1>3 DEF FileTypes, Exists
<1>7. Control'
  BY <1>1, <1>2 DEF Inv, Types, Control, Idle, Rotating
<1>8. SourceExists' /\ Flight'
  BY <1>1, <1>2, <1>4 DEF Inv, Types, SourceExists, Flight
<1>9. QED
  BY <1>3, <1>5, <1>6, <1>7, <1>8 DEF Inv, Types

LEMMA WriteStep ==
  ASSUME Inv, Write
  PROVE  Inv'
<1>1. /\ pc = "write" /\ pc' = "idle" /\ i' = 0
      /\ UNCHANGED <<disk, open, max_files, count>>
  BY DEF Write, Return, Forget, limits
<1>2. InFlight /\ ~InFlight'
  BY <1>1 DEF Inv, Types, Control, InFlight, Holding
<1>3. Written = count - 1 /\ Written' = count /\ count \in Nat
  BY <1>1, <1>2, RotatingAssumption DEF Written, Inv, Types, Control
<1>4. msg \in Message /\ msg.number = count
  BY <1>2 DEF Inv, Types, Flight
<1>5. buffer \in Seq(Message)
  BY DEF Inv, Types, FileTypes
<1>6. FileTypes'
  <2>1. CASE open
    BY <1>1, <1>4, <1>5, <2>1 DEF Write, Inv, Types, FileTypes, Exists
  <2>2. CASE ~open
    BY <1>1, <1>5, <2>2 DEF Write, Inv, Types, FileTypes, Exists
  <2>3. QED
    BY <2>1, <2>2
<1>7. Control'
  BY <1>1, RotatingAssumption DEF Inv, Types, Control, Idle, Rotating
<1>8. SourceExists' /\ Flight'
  BY <1>1, <1>2 DEF SourceExists, Flight
<1>9. Holds(Flushed', count)
  <2>1. CASE open
    <3>1. disk[0] \in Seq(Message) /\ disk[0] \o buffer \in Seq(Message)
      BY <2>1, WholeFile DEF Inv
    <3>2. disk[0] \o Append(buffer, msg) = Append(disk[0] \o buffer, msg)
      <4>1. msg \in Message /\ buffer \in Seq(Message) /\ disk[0] \in Seq(Message)
        BY <1>4, <1>5, <3>1
      <4>2. \A s \in Seq(Message), t \in Seq(Message), m \in Message :
              s \o Append(t, m) = Append(s \o t, m)
        BY AppendToConcat
      <4>3. QED
        BY <4>1, <4>2, Zenon
    <3>3. Flushed' = With(disk, 0, Append(disk[0] \o buffer, msg))
      BY <1>1, <2>1, <3>2 DEF Write, Flushed
    <3>4. Holds(With(disk, 0, disk[0] \o buffer), count - 1)
      BY <1>3, <2>1 DEF Inv, Flushed
    <3>5. IsFiles(disk)
      BY DEF Inv, Types, FileTypes
    <3>6. QED
      BY <1>3, <1>4, <3>1, <3>3, <3>4, <3>5, AppendKeeps
  <2>2. CASE ~open
    <3>1. Flushed' = Flushed
      BY <1>1, <2>2 DEF Flushed
    <3>2. QED
      BY <1>3, <3>1, MoreHold DEF Inv
  <2>3. QED
    BY <2>1, <2>2
<1>10. QED
  BY <1>3, <1>6, <1>7, <1>8, <1>9 DEF Inv, Types

(* Without a file nothing is buffered, before and after.                   *)
LEMMA ClosedStep ==
  ASSUME Inv, ~open, ~open', UNCHANGED buffer, NEW n, Holds(disk', n)
  PROVE  Holds(Flushed', n) /\ FileTypes'
BY DEF Inv, Types, FileTypes, Flushed, Holds

LEMMA ShiftStep ==
  ASSUME Inv, Shift \/ Rename
  PROVE  Inv'
<1>1. UNCHANGED <<buffer, open, max_files, caller, msg, count>>
  BY DEF Shift, Rename, limits
<1>2. pc \in {"shift", "rename", "retry"} /\ pc' \in {"shift", "rename"}
  BY DEF Shift, Rename
<1>3. ~open /\ ~open'
  BY <1>1, <1>2 DEF Inv, Types, Control
<1>4. i \in Nat /\ i > 0
  BY <1>2 DEF Inv, Types, Control, SourceExists, Shift, Rename
<1>5. Holds(disk, Written)
  BY DiskHolds
<1>6. Holds(disk', Written) /\ i' \in {i, i - 1} /\ SourceExists'
  <2>1. CASE Rename
    <3>1. Exists(i - 1)
      BY <2>1 DEF Rename, Inv, Types, SourceExists
    <3>2. QED
      BY <1>4, <1>5, <2>1, <3>1, RenamedKeeps DEF Rename, SourceExists
  <2>2. CASE Shift /\ Exists(Source)
    <3>1. disk' = Without(i) /\ i' = i
      BY <1>4, <2>2 DEF Shift, Source
    <3>2. i - 1 \in DOMAIN disk'
      BY <1>4, <2>2, <3>1 DEF Without, Exists, Source
    <3>3. QED
      BY <1>4, <1>5, <3>1, <3>2, WithoutKeeps DEF SourceExists, Exists
  <2>3. CASE Shift /\ ~Exists(Source)
    BY <1>4, <1>5, <2>3 DEF Shift, SourceExists
  <2>4. QED
    BY <2>1, <2>2, <2>3
<1>7. Holds(Flushed', Written) /\ FileTypes'
  BY <1>1, <1>3, <1>6, ClosedStep
<1>8. InFlight' = InFlight
  BY <1>1, <1>2 DEF InFlight, Holding
<1>9. Written' = Written
  BY <1>1, <1>8 DEF Written
<1>10. Control'
  <2>1. i' \in Nat
    BY <1>4, <1>6
  <2>2. QED
    BY <1>1, <1>2, <1>3, <2>1 DEF Inv, Types, Control, Idle, Rotating
<1>11. Flight'
  BY <1>1, <1>8 DEF Inv, Types, Flight
<1>12. QED
  BY <1>6, <1>7, <1>9, <1>10, <1>11 DEF Inv, Types

LEMMA ReopenStep ==
  ASSUME Inv, GiveUp \/ Reopen \/ ReopenFails
  PROVE  Inv'
<1>1. UNCHANGED <<buffer, max_files, count>> /\ pc \in {"give up", "shift"}
  BY DEF GiveUp, Reopen, ReopenFails, limits
<1>2. ~open /\ buffer = <<>> /\ buffer' = <<>>
  BY <1>1 DEF Inv, Types, FileTypes, Control
<1>3. /\ open' \in BOOLEAN
      /\ open' => disk' = With(disk, 0, <<>>) /\ pc' \in {"idle", "write"}
      /\ disk' \in {disk, With(disk, 0, <<>>)}
      /\ \/ pc' \in {"idle", "down"} /\ i' = 0
         \/ pc' = "write" /\ caller = "sink_it_" /\ UNCHANGED <<caller, msg, i>>
  <2>1. CASE GiveUp
    <3>1. pc' \in {"idle", "down"} /\ i' = 0
      BY <2>1 DEF GiveUp, Throw, Forget
    <3>2. disk' = With(disk, 0, <<>>) /\ open' = (caller # "ctor")
      BY <2>1 DEF GiveUp
    <3>3. open' => pc' = "idle"
      BY <2>1, <3>2 DEF GiveUp, Throw
    <3>4. QED
      BY <3>1, <3>2, <3>3
  <2>2. CASE Reopen
    <3>1. disk' = With(disk, 0, <<>>) /\ open'  /\ open' \in BOOLEAN
      BY <2>2 DEF Reopen
    <3>2. \/ pc' = "idle" /\ i' = 0
          \/ pc' = "write" /\ caller = "sink_it_" /\ UNCHANGED <<caller, msg, i>>
      BY <2>2 DEF Reopen, Return, Forget, call
    <3>3. QED
      BY <3>1, <3>2
  <2>3. CASE ReopenFails
    <3>1. disk' \in {disk, With(disk, 0, <<>>)} /\ open' = open
      BY <2>3 DEF ReopenFails
    <3>2. pc' \in {"idle", "down"} /\ i' = 0
      BY <2>3 DEF ReopenFails, Throw, Forget
    <3>3. open' = FALSE
      BY <1>2, <3>1 DEF Inv, Types, Control
    <3>4. QED
      BY <3>1, <3>2, <3>3
  <2>4. QED
    BY <2>1, <2>2, <2>3
<1>4. Holds(disk', Written)
  <2>1. Holds(disk, Written)
    BY DiskHolds
  <2>2. Holds(With(disk, 0, <<>>), Written)
    BY <2>1, EmptyKeeps
  <2>3. QED
    BY <1>3, <2>1, <2>2
<1>5. open' => 0 \in DOMAIN disk'
  BY <1>3 DEF With
<1>6. Flushed' = disk'
  <2>1. CASE open'
    <3>1. With(disk', 0, disk'[0] \o <<>>) = disk'
      BY <1>4, <1>5, <2>1, Refill DEF Holds
    <3>2. QED
      BY <1>2, <2>1, <3>1 DEF Flushed
  <2>2. CASE ~open'
    BY <2>2 DEF Flushed
  <2>3. QED
    BY <2>1, <2>2
<1>7. FileTypes'
  BY <1>2, <1>4, <1>5 DEF FileTypes, Holds, Exists
<1>8. i' \in Nat /\ count' \in 0..MaxLogs /\ max_files' \in Nat
  <2>1. i \in Nat /\ count \in 0..MaxLogs /\ max_files \in Nat
    BY DEF Inv, Types, Control
  <2>2. i' = 0 \/ i' = i
    BY <1>3
  <2>3. count' = count /\ max_files' = max_files
    BY <1>1
  <2>4. QED
    BY <2>1, <2>2, <2>3
<1>9. Control'
  <2>1. pc' = "write" => caller' = "sink_it_"
    BY <1>3
  <2>2. pc' \in {"idle", "down", "write"}
    BY <1>3
  <2>3. QED
    BY <1>3, <1>8, <2>1, <2>2 DEF Control, Idle, Rotating
<1>10. SourceExists'
  BY <1>3 DEF SourceExists
<1>11. CASE pc' \in {"idle", "down"}
  <2>1. ~InFlight'
    BY <1>11 DEF InFlight, Holding
  <2>2. Written' = count
    BY <1>1, <2>1 DEF Written
  <2>3. Written \in Int /\ Written <= count /\ count \in Nat
    BY WrittenInt DEF Inv
  <2>4. Holds(Flushed', count)
    BY <1>4, <1>6, <2>3, MoreHold
  <2>5. QED
    BY <1>7, <1>9, <1>10, <2>1, <2>2, <2>4 DEF Inv, Types, Flight
<1>12. CASE pc' = "write" /\ caller = "sink_it_" /\ UNCHANGED <<caller, msg, i>>
  <2>1. InFlight /\ InFlight'
    BY <1>1, <1>12 DEF InFlight, Holding
  <2>2. Written' = Written
    BY <1>1, <2>1 DEF Written
  <2>3. Flight'
    BY <1>1, <1>12, <2>1 DEF Inv, Types, Flight
  <2>4. QED
    BY <1>4, <1>6, <1>7, <1>9, <1>10, <2>2, <2>3 DEF Inv, Types
<1>13. QED
  BY <1>3, <1>11, <1>12

LEMMA CrashStep ==
  ASSUME Inv, Crash
  PROVE  Inv'
<1>1. /\ pc' = "down" /\ i' = 0 /\ ~open' /\ open' \in BOOLEAN /\ buffer' = <<>>
      /\ UNCHANGED <<max_files, count>>
  BY DEF Crash, Forget, limits
<1>2. Holds(disk', Written)
  <2>1. CASE ~open
    BY <2>1, DiskHolds DEF Crash
  <2>2. CASE open
    <3>1. PICK n \in 0..Len(buffer) :
            disk' = With(disk, 0, disk[0] \o SubSeq(buffer, 1, n))
      BY <2>2 DEF Crash
    <3>2. disk[0] \in Seq(Message) /\ disk[0] \o buffer \in Seq(Message)
      BY <2>2, WholeFile DEF Inv
    <3>3. buffer \in Seq(Message) /\ IsFiles(disk)
      BY DEF Inv, Types, FileTypes
    <3>4. /\ Len(disk[0]) + n \in 0..Len(disk[0] \o buffer)
          /\ disk[0] \o SubSeq(buffer, 1, n)
               = SubSeq(disk[0] \o buffer, 1, Len(disk[0]) + n)
      BY <3>2, <3>3, PrefixOfConcat
    <3>5. Holds(With(disk, 0, disk[0] \o buffer), Written)
      BY <2>2 DEF Inv, Flushed
    <3>6. QED
      BY <3>1, <3>2, <3>3, <3>4, <3>5, PrefixKeeps
  <2>3. QED
    BY <2>1, <2>2
<1>3. ~InFlight'
  BY <1>1 DEF InFlight, Holding
<1>4. Written' = count
  BY <1>1, <1>3 DEF Written
<1>5. Written \in Int /\ Written <= count /\ count \in Nat
  BY WrittenInt DEF Inv
<1>6. Holds(Flushed', count)
  BY <1>1, <1>2, <1>5, MoreHold DEF Flushed
<1>7. FileTypes'
  BY <1>1, <1>2 DEF FileTypes, Holds
<1>8. Control' /\ SourceExists' /\ Flight'
  BY <1>1, <1>3 DEF Inv, Types, Control, SourceExists, Flight, Idle, Rotating
<1>9. QED
  BY <1>4, <1>6, <1>7, <1>8 DEF Inv, Types

-----------------------------------------------------------------------------
LEMMA InvInit == Init => Inv
<1> SUFFICES ASSUME Init PROVE Inv
  OBVIOUS
<1>1. DOMAIN disk = {} /\ ~open /\ open \in BOOLEAN /\ buffer = <<>>
  <2>1. DOMAIN <<>> = {}
    OBVIOUS
  <2>2. disk = <<>> /\ open = FALSE /\ buffer = <<>>
    BY DEF Init
  <2>3. QED
    BY <2>1, <2>2
<1>2. IsFiles(disk)
  <2>1. disk = [k \in {} |-> <<>>]
    BY DEF Init
  <2>2. QED
    BY <2>1 DEF IsFiles
<1>3. Holds(Flushed, Written)
  BY <1>1, <1>2 DEF Holds, InOrder, Flushed
<1>4. FileTypes
  BY <1>1, <1>2 DEF FileTypes
<1>5. pc = "down" /\ max_files = 0 /\ i = 0 /\ count = 0
  BY DEF Init
<1>6. Control
  BY <1>1, <1>5, RotatingAssumption DEF Control, Idle
<1>7. SourceExists /\ Flight
  BY <1>5 DEF SourceExists, Flight, InFlight, Holding
<1>8. QED
  BY <1>3, <1>4, <1>6, <1>7 DEF Inv, Types

LEMMA InvStep == Inv /\ [Next]_vars => Inv'
<1> SUFFICES ASSUME Inv, [Next]_vars PROVE Inv'
  OBVIOUS
<1>1. CASE UNCHANGED vars
  BY <1>1, QuietStep
<1>2. CASE \E s \in SizeLimits, f \in FileLimits, r \in BOOLEAN : Start(s, f, r)
  BY <1>2, StartStep
<1>3. CASE \E s \in Sizes : SinkIt(s)
  BY <1>3, SinkItStep
<1>4. CASE RotateNow \/ RenameFails \/ (\E s \in SizeLimits : SetMaxSize(s))
             \/ (\E f \in FileLimits : SetMaxFiles(f))
  BY <1>4, QuietStep
<1>5. CASE Flush \/ Close
  BY <1>5, FlushStep
<1>6. CASE Write
  BY <1>6, WriteStep
<1>7. CASE Shift \/ Rename
  BY <1>7, ShiftStep
<1>8. CASE GiveUp \/ Reopen \/ ReopenFails
  BY <1>8, ReopenStep
<1>9. CASE Crash
  BY <1>9, CrashStep
<1>10. QED
  BY <1>1, <1>2, <1>3, <1>4, <1>5, <1>6, <1>7, <1>8, <1>9 DEF Next, Rotate

(* Whatever fails and whenever the process ends, the files hold the        *)
(* messages in the order they were logged and none twice.                  *)
THEOREM FilesInOrder == Spec => []OldestFirst
<1>1. Inv => OldestFirst
  BY DiskHolds DEF OldestFirst, Holds, Inv
<1>2. QED
  BY <1>1, InvInit, InvStep, PTL DEF Spec

-----------------------------------------------------------------------------
(* Induction.  The numbers for which a statement holds are all numbers if 0 *)
(* is one of them and the next one always is: otherwise there is a least    *)
(* number for which it does not hold.                                       *)
Below == {pair \in Nat \X Nat : pair[1] < pair[2]}

LEMMA LeastNumber ==
  ASSUME NEW S, S \subseteq Nat, S # {}
  PROVE  \E n \in S : \A m \in S : n <= m
<1>1. IsWellFoundedOn(OpToRel(<, Nat), Nat)
  BY NatLessThanWellFounded
<1>2. OpToRel(<, Nat) = Below
  BY Zenon DEF OpToRel, Below
<1>3. PICK n \in S : \A m \in S : ~(<<m, n>> \in Below)
  BY <1>1, <1>2, WFMin, Zenon
<1>4. \A m \in Nat : <<m, n>> \in Below <=> m < n
  BY <1>3 DEF Below
<1>5. n \in Nat /\ \A m \in S : m \in Nat /\ ~(m < n)
  BY <1>3, <1>4
<1>6. \A m \in S : n <= m
  BY <1>5
<1>7. QED
  BY <1>6

LEMMA AllNumbers ==
  ASSUME NEW S, S \subseteq Nat, 0 \in S, \A n \in S : n + 1 \in S
  PROVE  S = Nat
<1>1. SUFFICES ASSUME Nat \ S # {} PROVE FALSE
  OBVIOUS
<1>2. PICK n \in Nat \ S : \A m \in Nat \ S : n <= m
  BY <1>1, LeastNumber
<1>3. n - 1 \in Nat /\ n - 1 \in S /\ (n - 1) + 1 = n
  BY <1>2
<1>4. QED
  BY <1>2, <1>3

(* Bytes(s) is g[DOMAIN s] of a function g that sums up the sizes of the    *)
(* messages at each set of positions, the last one first.                   *)
Summand(g, s, u) == IF u = {} THEN 0 ELSE g[u \ {Max(u)}] + s[Max(u)].size

IsSum(g, s, n) == g = [u \in SUBSET (1..n) |-> Summand(g, s, u)]

LEMMA MaxIsLast ==
  ASSUME NEW u, NEW n \in Nat, n \in u, \A k \in u : k \in Nat /\ k <= n
  PROVE  Max(u) = n
<1>1. \A x \in u : (\A y \in u : x >= y) => x = n
  BY Z3
<1>2. \A y \in u : n >= y
  OBVIOUS
<1>3. (CHOOSE x \in u : \A y \in u : x >= y) = n
  BY <1>1, <1>2
<1>4. QED
  BY <1>3 DEF Max

LEMMA SumExists ==
  ASSUME NEW s, NEW n \in Nat
  PROVE  \E g : IsSum(g, s, n)
<1> DEFINE S == {k \in Nat : \E g : IsSum(g, s, k)}
<1>1. 0 \in S
  <2> DEFINE g == [u \in SUBSET (1..0) |-> 0]
  <2>1. SUBSET (1..0) = {{}}
    OBVIOUS
  <2>2. g = [u \in SUBSET (1..0) |-> Summand(g, s, u)]
    BY <2>1 DEF Summand
  <2>3. IsSum(g, s, 0)
    BY <2>2 DEF IsSum
  <2>4. QED
    BY <2>3
<1>2. ASSUME NEW k \in S PROVE k + 1 \in S
  <2>1. k \in Nat /\ k + 1 \in Nat
    OBVIOUS
  <2>2. PICK g : IsSum(g, s, k)
    OBVIOUS
  <2> DEFINE h == [u \in SUBSET (1..k + 1) |->
                     IF k + 1 \in u THEN g[u \ {k + 1}] + s[k + 1].size ELSE g[u]]
  <2>3. ASSUME NEW u \in SUBSET (1..k + 1) PROVE h[u] = Summand(h, s, u)
    <3>1. CASE k + 1 \in u
      <4>1. Max(u) = k + 1
        <5>1. k + 1 \in Nat /\ k + 1 \in u
              /\ \A j \in u : j \in Nat /\ j <= k + 1
          BY <2>1, <3>1
        <5> HIDE DEF h
        <5>2. QED
          BY <5>1, MaxIsLast, Zenon
      <4>2. u \ {k + 1} \in SUBSET (1..k) /\ u \ {k + 1} \in SUBSET (1..k + 1)
        BY <2>1
      <4>3. h[u \ {k + 1}] = g[u \ {k + 1}]
        BY <4>2
      <4>4. QED
        BY <3>1, <4>1, <4>3 DEF Summand
    <3>2. CASE k + 1 \notin u
      <4>1. u \in SUBSET (1..k)
        BY <2>1, <3>2
      <4>2. h[u] = g[u]
        BY <3>2
      <4>3. g[u] = Summand(g, s, u)
        BY <2>2, <4>1 DEF IsSum
      <4>4. k + 1 \notin u \ {Max(u)} /\ u \ {Max(u)} \in SUBSET (1..k + 1)
        BY <3>2
      <4>5. h[u \ {Max(u)}] = g[u \ {Max(u)}]
        BY <4>4
      <4>6. QED
        BY <4>2, <4>3, <4>5 DEF Summand
    <3>3. QED
      BY <3>1, <3>2
  <2>4. h = [u \in SUBSET (1..k + 1) |-> Summand(h, s, u)]
    <3>1. h = [u \in SUBSET (1..k + 1) |-> h[u]]
      OBVIOUS
    <3> HIDE DEF h
    <3>2. QED
      BY <2>3, <3>1
  <2> HIDE DEF h
  <2>5. IsSum(h, s, k + 1)
    BY <2>4 DEF IsSum
  <2>6. QED
    BY <2>1, <2>5
<1>3. S \subseteq Nat
  OBVIOUS
<1> HIDE DEF S
<1>4. S = Nat
  BY <1>1, <1>2, <1>3, AllNumbers
<1>5. QED
  BY <1>4 DEF S

LEMMA BytesIsSum ==
  ASSUME NEW s \in Seq(Message)
  PROVE  \E g : IsSum(g, s, Len(s)) /\ Bytes(s) = g[1..Len(s)]
<1>1. DOMAIN s = 1..Len(s) /\ Len(s) \in Nat
  OBVIOUS
<1>2. Bytes(s) =
        (CHOOSE iter : iter = [u \in SUBSET DOMAIN s |->
           IF u = {} THEN 0 ELSE iter[u \ {Max(u)}] + s[Max(u)].size])[DOMAIN s]
  BY DEF Bytes, FoldLeft, MapThenFoldSet
<1>3. Bytes(s) = (CHOOSE g : IsSum(g, s, Len(s)))[1..Len(s)]
  BY <1>1, <1>2, Zenon DEF IsSum, Summand
<1>4. IsSum(CHOOSE g : IsSum(g, s, Len(s)), s, Len(s))
  <2>1. \E g : IsSum(g, s, Len(s))
    BY <1>1, SumExists
  <2>2. QED
    BY <2>1, Zenon
<1>5. QED
  BY <1>3, <1>4

LEMMA SumSteps ==
  ASSUME NEW s, NEW n \in Nat, NEW g, IsSum(g, s, n)
  PROVE  /\ g[1..0] = 0
         /\ \A k \in Nat : k < n => g[1..k + 1] = g[1..k] + s[k + 1].size
<1>1. \A u \in SUBSET (1..n) : g[u] = Summand(g, s, u)
  BY DEF IsSum
<1>2. g[1..0] = 0
  <2>1. 1..0 = {} /\ {} \in SUBSET (1..n)
    OBVIOUS
  <2>2. QED
    BY <1>1, <2>1 DEF Summand
<1>3. ASSUME NEW k \in Nat, k < n PROVE g[1..k + 1] = g[1..k] + s[k + 1].size
  <2>1. 1..k + 1 \in SUBSET (1..n) /\ 1..k + 1 # {}
    BY <1>3
  <2>2. Max(1..k + 1) = k + 1
    <3>1. k + 1 \in Nat /\ k + 1 \in 1..k + 1
          /\ \A j \in 1..k + 1 : j \in Nat /\ j <= k + 1
      OBVIOUS
    <3>2. QED
      BY <3>1, MaxIsLast, Zenon
  <2>3. (1..k + 1) \ {k + 1} = 1..k
    OBVIOUS
  <2>4. QED
    BY <1>1, <2>1, <2>2, <2>3 DEF Summand
<1>4. QED
  BY <1>2, <1>3

(* The sums of two sequences agree as far as the sequences do. *)
LEMMA SumPrefix ==
  ASSUME NEW s \in Seq(Message), NEW t \in Seq(Message), NEW g, NEW h,
         IsSum(g, s, Len(s)), IsSum(h, t, Len(t)),
         NEW n \in Nat, n <= Len(s), n <= Len(t), \A k \in 1..n : s[k] = t[k]
  PROVE  g[1..n] = h[1..n] /\ g[1..n] \in Nat
<1> DEFINE S == {k \in Nat : k <= n => g[1..k] = h[1..k] /\ g[1..k] \in Nat}
<1>1. Len(s) \in Nat /\ Len(t) \in Nat
  OBVIOUS
<1>2. /\ g[1..0] = 0 /\ h[1..0] = 0
      /\ \A k \in Nat : k < n => /\ g[1..k + 1] = g[1..k] + s[k + 1].size
                                 /\ h[1..k + 1] = h[1..k] + t[k + 1].size
  <2>1. /\ g[1..0] = 0
        /\ \A k \in Nat : k < Len(s) => g[1..k + 1] = g[1..k] + s[k + 1].size
    BY <1>1, SumSteps
  <2>2. /\ h[1..0] = 0
        /\ \A k \in Nat : k < Len(t) => h[1..k + 1] = h[1..k] + t[k + 1].size
    BY <1>1, SumSteps
  <2>3. QED
    BY <1>1, <2>1, <2>2
<1>3. 0 \in S
  BY <1>2
<1>4. ASSUME NEW k \in S PROVE k + 1 \in S
  <2>1. SUFFICES ASSUME k + 1 <= n
                 PROVE  g[1..k + 1] = h[1..k + 1] /\ g[1..k + 1] \in Nat
    OBVIOUS
  <2>2. g[1..k] = h[1..k] /\ g[1..k] \in Nat /\ k \in Nat /\ k < n
    BY <2>1
  <2>3. s[k + 1] = t[k + 1] /\ s[k + 1] \in Message
    BY <1>1, <2>1, <2>2
  <2>4. s[k + 1].size \in Nat
    BY <2>3, RotatingAssumption DEF Message
  <2>5. QED
    BY <1>2, <2>2, <2>3, <2>4
<1>5. S \subseteq Nat
  OBVIOUS
<1> HIDE DEF S
<1>6. S = Nat
  BY <1>3, <1>4, <1>5, AllNumbers
<1>7. QED
  BY <1>6 DEF S

(* What the file size computations of the sink rest on. *)
LEMMA BytesOfNone == Bytes(<<>>) = 0
<1>1. <<>> \in Seq(Message) /\ Len(<<>>) = 0
  OBVIOUS
<1>2. PICK g : IsSum(g, <<>>, 0) /\ Bytes(<<>>) = g[1..0]
  BY <1>1, BytesIsSum
<1>3. QED
  BY <1>2, SumSteps

LEMMA BytesType == ASSUME NEW s \in Seq(Message) PROVE Bytes(s) \in Nat
<1>1. PICK g : IsSum(g, s, Len(s)) /\ Bytes(s) = g[1..Len(s)]
  BY BytesIsSum
<1>2. Len(s) \in Nat /\ Len(s) <= Len(s)
  OBVIOUS
<1>3. g[1..Len(s)] \in Nat
  BY <1>1, <1>2, SumPrefix
<1>4. QED
  BY <1>1, <1>3

LEMMA BytesOfAppend ==
  ASSUME NEW s \in Seq(Message), NEW m \in Message
  PROVE  Bytes(Append(s, m)) = Bytes(s) + m.size
<1> DEFINE t == Append(s, m)
<1>1. /\ t \in Seq(Message) /\ Len(t) = Len(s) + 1 /\ Len(s) \in Nat
      /\ \A k \in 1..Len(s) : t[k] = s[k]
      /\ t[Len(s) + 1] = m
  OBVIOUS
<1> HIDE DEF t
<1>2. PICK g : IsSum(g, s, Len(s)) /\ Bytes(s) = g[1..Len(s)]
  BY BytesIsSum
<1>3. PICK h : IsSum(h, t, Len(t)) /\ Bytes(t) = h[1..Len(t)]
  BY <1>1, BytesIsSum
<1>4. g[1..Len(s)] = h[1..Len(s)]
  BY <1>1, <1>2, <1>3, SumPrefix
<1>5. h[1..Len(s) + 1] = h[1..Len(s)] + m.size
  <2>1. Len(t) \in Nat /\ Len(s) < Len(t)
    BY <1>1
  <2>2. QED
    BY <1>1, <1>3, <2>1, SumSteps
<1>6. QED
  BY <1>1, <1>2, <1>3, <1>4, <1>5 DEF t

LEMMA BytesOfConcat ==
  ASSUME NEW s \in Seq(Message), NEW t \in Seq(Message)
  PROVE  Bytes(s \o t) = Bytes(s) + Bytes(t)
<1> DEFINE S == {n \in Nat : \A r \in Seq(Message) : Len(r) = n =>
                               Bytes(s \o r) = Bytes(s) + Bytes(r)}
<1>1. Bytes(s) \in Nat
  BY BytesType
<1>2. 0 \in S
  <2>1. ASSUME NEW r \in Seq(Message), Len(r) = 0 PROVE Bytes(s \o r) = Bytes(s) + Bytes(r)
    <3>1. r = <<>> /\ s \o <<>> = s
      BY <2>1
    <3>2. QED
      BY <1>1, <3>1, BytesOfNone
  <2>2. QED
    BY <2>1
<1>3. ASSUME NEW n \in S PROVE n + 1 \in S
  <2>1. ASSUME NEW r \in Seq(Message), Len(r) = n + 1
        PROVE  Bytes(s \o r) = Bytes(s) + Bytes(r)
    <3> DEFINE f == SubSeq(r, 1, n)
               m == r[n + 1]
    <3>1. /\ n \in Nat /\ f \in Seq(Message) /\ Len(f) = n /\ m \in Message
          /\ \A k \in 1..n : f[k] = r[k]
      BY <2>1
    <3>2. r = Append(f, m)
      <4>1. /\ Append(f, m) \in Seq(Message) /\ Len(Append(f, m)) = n + 1
            /\ \A k \in 1..n + 1 : Append(f, m)[k] = r[k]
        <5> HIDE DEF f
        <5>1. QED
          BY <3>1
      <4> HIDE DEF f, m
      <4>2. QED
        BY <2>1, <4>1, SeqEqual
    <3> HIDE DEF f, m
    <3>3. s \o r = Append(s \o f, m)
      <4>1. \A a \in Seq(Message), b \in Seq(Message), c \in Message :
              a \o Append(b, c) = Append(a \o b, c)
        BY AppendToConcat
      <4>2. QED
        BY <3>1, <3>2, <4>1, Zenon
    <3>4. s \o f \in Seq(Message)
      BY <3>1
    <3>5. Bytes(s \o f) = Bytes(s) + Bytes(f)
      BY <3>1
    <3>6. /\ Bytes(s \o r) = Bytes(s \o f) + m.size
          /\ Bytes(r) = Bytes(f) + m.size
      BY <3>1, <3>2, <3>3, <3>4, BytesOfAppend
    <3>7. Bytes(f) \in Nat /\ m.size \in Nat
      BY <3>1, BytesType, RotatingAssumption DEF Message
    <3>8. QED
      BY <1>1, <3>5, <3>6, <3>7
  <2>2. n + 1 \in Nat
    OBVIOUS
  <2>3. QED
    BY <2>1, <2>2
<1>4. S \subseteq Nat
  OBVIOUS
<1> HIDE DEF S
<1>5. S = Nat
  BY <1>2, <1>3, <1>4, AllNumbers
<1>6. Len(t) \in S
  BY <1>5
<1>7. QED
  BY <1>6 DEF S

-----------------------------------------------------------------------------
(* Types.  What the inductive invariant does not say of them already.      *)
Numbers == current_size \in Nat /\ new_size \in Nat /\ max_size \in Nat

Rest ==
  /\ Numbers
  /\ caller \in {"none", "ctor", "sink_it_", "rotate_now"}
  /\ pc = "give up" => i > 0
  /\ faults \in 0..MaxFaults

Within == saved \subseteq 1..MaxLogs /\ broken \in BOOLEAN

LEMMA FaultType ==
  ASSUME Rest, Fault \/ UNCHANGED faults
  PROVE  faults' \in 0..MaxFaults
<1>1. faults \in 0..MaxFaults /\ MaxFaults \in Nat
  BY RotatingAssumption DEF Rest
<1>2. CASE Fault
  BY <1>1, <1>2 DEF Fault
<1>3. CASE UNCHANGED faults
  BY <1>1, <1>3
<1>4. QED
  BY <1>2, <1>3

LEMMA NumbersOnDisk ==
  ASSUME NEW files, IsFiles(files)
  PROVE  OnDisk(files) \subseteq 1..MaxLogs
<1> SUFFICES ASSUME NEW n \in OnDisk(files) PROVE n \in 1..MaxLogs
  OBVIOUS
<1>1. PICK k \in DOMAIN files : \E m \in ToSet(files[k]) : n = m.number
  BY DEF OnDisk
<1>2. files[k] \in Seq(Message)
  BY DEF IsFiles
<1>3. PICK j \in DOMAIN files[k] : n = files[k][j].number
  BY <1>1 DEF ToSet
<1>4. files[k][j] \in Message
  BY <1>2, <1>3
<1>5. QED
  BY <1>3, <1>4 DEF Message

LEMMA SavedStep ==
  ASSUME Inv', [Next]_vars, saved \subseteq 1..MaxLogs
  PROVE  saved' \subseteq 1..MaxLogs
<1>1. saved' = saved \cup OnDisk(disk') \/ saved' = saved
  BY DEF Next, vars
<1>2. IsFiles(disk')
  BY DEF Inv, Types, FileTypes
<1>3. OnDisk(disk') \subseteq 1..MaxLogs
  BY <1>2, NumbersOnDisk
<1>4. QED
  BY <1>1, <1>3

LEMMA BrokenStep == [Next]_vars /\ broken \in BOOLEAN => broken' \in BOOLEAN
<1>1. [Next]_vars => \/ broken' = broken
                     \/ broken' = TRUE
                     \/ broken' = (broken \/ pc = "give up")
                     \/ \E f \in FileLimits : broken' = (broken \/ f < max_files)
  BY DEF Next, Rotate, Start, SinkIt, RotateNow, Flush, Write, Close, Shift,
         Rename, RenameFails, GiveUp, Reopen, ReopenFails, Crash, SetMaxSize,
         SetMaxFiles, vars
<1>2. QED
  BY <1>1, Zenon

LEMMA OpenedSize ==
  ASSUME NEW files, IsFiles(files), 0 \in DOMAIN files
  PROVE  Bytes(files[0]) \in Nat
<1>1. files[0] \in Seq(Message)
  BY DEF IsFiles
<1>2. QED
  BY <1>1, BytesType

LEMMA RestStep == Rest /\ Inv /\ Inv' /\ [Next]_vars => Rest'
<1> SUFFICES ASSUME Rest, Inv, Inv', [Next]_vars PROVE Rest'
  OBVIOUS
<1>1. CASE UNCHANGED vars
  BY <1>1 DEF Rest, Numbers, vars, call, limits
<1>2. CASE Next
  <2>1. faults' \in 0..MaxFaults
    <3>1. Fault \/ UNCHANGED faults
      BY <1>2 DEF Next, Rotate, Start, SinkIt, RotateNow, Flush, Write, Close, Shift,
                  Rename, RenameFails, GiveUp, Reopen, ReopenFails, Crash, SetMaxSize,
                  SetMaxFiles
    <3>2. QED
      BY <3>1, FaultType
  <2>2. ASSUME NEW s \in SizeLimits, NEW f \in FileLimits, NEW r \in BOOLEAN, Start(s, f, r)
        PROVE  Rest'
    <3>1. 0 \in DOMAIN disk' /\ IsFiles(disk')
      BY <2>2 DEF Start, Inv, Types, FileTypes, Exists
    <3>2. current_size' \in Nat
      BY <2>2, <3>1, OpenedSize DEF Start, SizeOnOpen
    <3>3. max_size' \in Nat
      BY <2>2, RotatingAssumption DEF Start
    <3>4. new_size' = 0 \/ new_size' = new_size
      BY <2>2 DEF Start, Return, Forget
    <3>5. Numbers'
      <4>1. Numbers
        BY DEF Rest
      <4>2. QED
        BY <3>2, <3>3, <3>4, <4>1 DEF Numbers
    <3>6. pc' # "give up" /\ (caller' = "none" \/ caller' = "ctor")
      BY <2>2 DEF Start, Return, Forget
    <3>7. QED
      BY <2>1, <3>5, <3>6 DEF Rest
  <2>3. ASSUME NEW s \in Sizes, SinkIt(s) PROVE Rest'
    <3>1. s \in Nat
      BY RotatingAssumption
    <3>2. new_size' = 0 \/ new_size' = s \/ new_size' = current_size + s
      BY <2>3 DEF SinkIt, Accept, Throw, Forget
    <3>3. UNCHANGED <<current_size, max_size>>
      BY <2>3 DEF SinkIt, limits
    <3>4. Numbers'
      <4>1. Numbers
        BY DEF Rest
      <4>2. QED
        BY <3>1, <3>2, <3>3, <4>1 DEF Numbers
    <3>5. pc' # "give up" /\ (caller' = "none" \/ caller' = "sink_it_")
      BY <2>3 DEF SinkIt, Accept, Throw, Forget
    <3>6. QED
      BY <2>1, <3>4, <3>5 DEF Rest
  <2>4. CASE RotateNow \/ Flush \/ Write
    <3>1. \/ UNCHANGED <<new_size, i, caller>> /\ UNCHANGED pc
          \/ UNCHANGED new_size /\ pc' = "close" /\ caller' = "rotate_now"
          \/ new_size' = 0 /\ pc' = "idle" /\ caller' = "none"
      BY <2>4 DEF RotateNow, Flush, Write, Return, Forget, call
    <3>2. UNCHANGED <<max_size>> /\ (current_size' = current_size \/ current_size' = new_size)
      BY <2>4 DEF RotateNow, Flush, Write, limits
    <3>3. Numbers'
      <4>1. Numbers
        BY DEF Rest
      <4>2. QED
        BY <3>1, <3>2, <4>1 DEF Numbers
    <3>4. QED
      BY <2>1, <3>1, <3>2, <3>3 DEF Rest
  <2>5. CASE Close \/ Shift \/ Rename
    <3>1. /\ UNCHANGED <<current_size, new_size, max_size, caller>>
          /\ pc' # "give up"
      BY <2>5 DEF Close, Shift, Rename, limits
    <3>2. QED
      BY <2>1, <3>1 DEF Rest, Numbers
  <2>6. CASE RenameFails
    <3>1. i > 0
      BY <2>6 DEF RenameFails, Inv, Types, SourceExists
    <3>2. UNCHANGED <<current_size, max_size, call>>
      BY <2>6 DEF RenameFails, limits
    <3>3. Numbers'
      <4>1. Numbers
        BY DEF Rest
      <4>2. QED
        BY <3>1, <3>2, <4>1 DEF Numbers, call
    <3>4. QED
      BY <2>1, <3>1, <3>2, <3>3 DEF Rest, call
  <2>7. CASE GiveUp \/ ReopenFails
    <3>1. new_size' = 0
      BY <2>7 DEF GiveUp, ReopenFails, Throw, Forget
    <3>2. (current_size' = 0 \/ current_size' = current_size) /\ UNCHANGED max_size
      BY <2>7 DEF GiveUp, ReopenFails, limits, Rest
    <3>3. Numbers'
      <4>1. Numbers
        BY DEF Rest
      <4>2. QED
        BY <3>1, <3>2, <4>1 DEF Numbers
    <3>4. pc' # "give up" /\ caller' = "none"
      BY <2>7 DEF GiveUp, ReopenFails, Throw, Forget
    <3>5. QED
      BY <2>1, <3>3, <3>4 DEF Rest
  <2>8. CASE Reopen
    <3>1. new_size' = 0 \/ new_size' = new_size
      BY <2>8 DEF Reopen, Return, Forget, call
    <3>2. (current_size' = 0 \/ current_size' = current_size) /\ UNCHANGED <<max_size>>
      BY <2>8 DEF Reopen, limits
    <3>3. Numbers'
      <4>1. Numbers
        BY DEF Rest
      <4>2. QED
        BY <3>1, <3>2, <4>1 DEF Numbers
    <3>4. pc' # "give up" /\ (caller' = "none" \/ caller' = caller)
      BY <2>8 DEF Reopen, Return, Forget, call
    <3>5. QED
      BY <2>1, <3>3, <3>4 DEF Rest
  <2>9. CASE Crash
    <3>1. pc' # "give up" /\ caller' = "none" /\ new_size' = 0
      BY <2>9 DEF Crash, Forget
    <3>2. UNCHANGED <<current_size, max_size>>
      BY <2>9 DEF Crash, limits
    <3>3. Numbers'
      <4>1. Numbers
        BY DEF Rest
      <4>2. QED
        BY <3>1, <3>2, <4>1 DEF Numbers
    <3>4. QED
      BY <2>1, <3>1, <3>2, <3>3 DEF Rest
  <2>10. CASE (\E s \in SizeLimits : SetMaxSize(s)) \/ (\E f \in FileLimits : SetMaxFiles(f))
    <3>1. max_size' \in Nat
      BY <2>10, RotatingAssumption DEF SetMaxSize, SetMaxFiles, Rest, Numbers
    <3>2. UNCHANGED <<current_size, call, faults, pc>>
      BY <2>10 DEF SetMaxSize, SetMaxFiles
    <3>3. Numbers'
      <4>1. Numbers
        BY DEF Rest
      <4>2. QED
        BY <3>1, <3>2, <4>1 DEF Numbers, call
    <3>4. QED
      BY <2>1, <3>1, <3>2, <3>3 DEF Rest, call
  <2>11. QED
    BY <1>2, <2>2, <2>3, <2>4, <2>5, <2>6, <2>7, <2>8, <2>9, <2>10 DEF Next, Rotate
<1>3. QED
  BY <1>1, <1>2

LEMMA RestInit == Init => Rest
<1> SUFFICES ASSUME Init PROVE Rest
  OBVIOUS
<1>1. /\ faults = 0 /\ pc = "down" /\ caller = "none"
      /\ current_size = 0 /\ new_size = 0 /\ max_size = 0
  BY DEF Init
<1>2. 0 \in 0..MaxFaults
  BY RotatingAssumption
<1>3. QED
  BY <1>1, <1>2 DEF Rest, Numbers

(* Every variable keeps its type; an open file exists, and nothing is      *)
(* buffered without one.                                                   *)
THEOREM TypesHold == Spec => []TypeOK
<1>1. ASSUME Inv, Rest, Within PROVE TypeOK
  <2>1. DOMAIN disk \subseteq Nat /\ \A k \in DOMAIN disk : disk[k] \in Seq(Message)
    BY <1>1 DEF Inv, Types, FileTypes, IsFiles
  <2>2. /\ buffer \in Seq(Message) /\ open \in BOOLEAN
        /\ (open => Exists(0) /\ pc \in {"idle", "write", "close"})
        /\ (~open => buffer = <<>>)
    BY <1>1 DEF Inv, Types, FileTypes, Control
  <2>3. max_files \in Nat /\ pc \in Idle \cup Rotating /\ i \in Nat /\ count \in 0..MaxLogs
    BY <1>1 DEF Inv, Types, Control
  <2>4. pc = "write" => caller = "sink_it_" /\ msg \in Message
    BY <1>1 DEF Inv, Types, Control, Flight, InFlight, Holding
  <2>5. pc \in {"rename", "retry", "give up"} => i > 0
    BY <1>1 DEF Inv, Types, SourceExists, Rest
  <2>6. QED
    BY <1>1, <2>1, <2>2, <2>3, <2>4, <2>5 DEF TypeOK, Rest, Numbers, Within
<1>2. Init => Within
  BY DEF Init, Within
<1>3. Inv' /\ [Next]_vars /\ Within => Within'
  BY SavedStep, BrokenStep, Zenon DEF Within
<1>4. QED
  BY <1>1, <1>2, <1>3, InvInit, InvStep, RestInit, RestStep, PTL DEF Spec

-----------------------------------------------------------------------------
(* Sizes.  current_size_ is no less than what file 0 will hold, and the     *)
(* new size of a message on its way no less than what it will hold then.    *)
SizeOf(files, tail) == Bytes(files[0]) + Bytes(tail)

Size == SizeOf(disk, buffer)

Counted == open => current_size >= Size

Alone == InFlight /\ pc # "write" => new_size = msg.size

Ahead ==
  pc = "write" /\ open =>
    /\ new_size >= Size + msg.size
    /\ Size > 0 => Size + msg.size <= max_size

Sizing == Counted /\ Alone /\ Ahead

LEMMA SizeType ==
  ASSUME NEW files, IsFiles(files), 0 \in DOMAIN files, NEW tail \in Seq(Message)
  PROVE  SizeOf(files, tail) \in Nat
<1>1. Bytes(files[0]) \in Nat /\ Bytes(tail) \in Nat
  BY OpenedSize, BytesType
<1>2. QED
  BY <1>1 DEF SizeOf

LEMMA OpenSize == Inv /\ open => Size \in Nat
BY SizeType DEF Inv, Types, FileTypes, Exists, Size

LEMMA EmptySize ==
  ASSUME NEW files, IsFiles(files), 0 \in DOMAIN files
  PROVE  SizeOf(files, <<>>) = Bytes(files[0])
BY OpenedSize, BytesOfNone DEF SizeOf

(* Nothing of what a file will hold is lost or added by an fflush().       *)
LEMMA FlushedSize ==
  ASSUME Inv, open, disk' = Flushed, buffer' = <<>>
  PROVE  Bytes(disk'[0]) = Size /\ Size' = Size
<1>1. disk[0] \in Seq(Message) /\ buffer \in Seq(Message)
  BY WholeFile DEF Inv, Types, FileTypes
<1>2. 0 \in DOMAIN disk' /\ disk'[0] = disk[0] \o buffer
  BY DEF Flushed, With
<1>3. Bytes(disk'[0]) = Size
  BY <1>1, <1>2, BytesOfConcat DEF Size, SizeOf
<1>4. IsFiles(disk')
  BY DiskHolds
<1>5. QED
  BY <1>2, <1>3, <1>4, EmptySize DEF Size

LEMMA StartSizing ==
  ASSUME Inv', NEW s \in SizeLimits, NEW f \in FileLimits, NEW r \in BOOLEAN,
         Start(s, f, r), Inv
  PROVE  Sizing'
<1>1. open' /\ buffer' = <<>> /\ current_size' = Bytes(disk'[0])
  BY DEF Start, SizeOnOpen, Inv, Types, FileTypes, Control
<1>2. IsFiles(disk') /\ 0 \in DOMAIN disk'
  BY <1>1 DEF Inv, Types, FileTypes, Exists
<1>3. Size' = current_size' /\ current_size' \in Nat
  BY <1>1, <1>2, EmptySize, OpenedSize DEF Size
<1>4. Counted'
  BY <1>3 DEF Counted
<1>5. pc' # "write" /\ caller' # "sink_it_"
  BY DEF Start, Return, Forget, Inv, Types, Control, Idle, InFlight
<1>6. QED
  BY <1>4, <1>5 DEF Sizing, Alone, Ahead, InFlight

LEMMA SinkItSizing ==
  ASSUME Inv, Inv', Rest, Sizing, NEW s \in Sizes, SinkIt(s)
  PROVE  Sizing'
<1>1. s \in Nat /\ current_size \in Nat /\ max_size \in Nat
  BY RotatingAssumption DEF Rest, Numbers
<1>2. UNCHANGED <<open, current_size, max_size>>
  BY DEF SinkIt, limits
<1>3. open => Size \in Nat /\ current_size >= Size
  BY OpenSize DEF Sizing, Counted
<1>4. ASSUME Accept(s) PROVE msg'.size = s
  BY <1>4 DEF Accept
<1>5. CASE /\ current_size + s <= max_size /\ Accept(s)
           /\ new_size' = current_size + s /\ pc' = "write" /\ UNCHANGED <<disk, buffer>>
  <2>1. Size' = Size /\ msg'.size = s
    BY <1>4, <1>5 DEF Size
  <2>2. Counted' /\ Alone'
    BY <1>2, <1>3, <1>5, <2>1 DEF Counted, Alone
  <2>3. open' => /\ new_size' >= Size' + msg'.size
                 /\ Size' + msg'.size <= max_size'
    BY <1>1, <1>2, <1>3, <1>5, <2>1
  <2>4. QED
    BY <2>2, <2>3 DEF Sizing, Ahead
<1>6. CASE /\ open /\ Accept(s) /\ disk' = Flushed /\ buffer' = <<>>
           /\ IF Bytes(disk'[0]) > 0
                THEN pc' = "close" /\ new_size' = s
                ELSE pc' = "write" /\ new_size' = current_size + s
  <2>1. Size' = Size /\ Bytes(disk'[0]) = Size /\ msg'.size = s
    BY <1>4, <1>6, FlushedSize
  <2>2. Counted'
    BY <1>2, <1>3, <1>6, <2>1 DEF Counted
  <2>3. pc' = "close" => new_size' = msg'.size
    BY <1>6, <2>1
  <2>4. pc' = "write" => /\ new_size' >= Size' + msg'.size
                         /\ ~(Size' > 0)
    <3>1. pc' = "write" => ~(Bytes(disk'[0]) > 0) /\ new_size' = current_size + s
      BY <1>6
    <3>2. QED
      BY <1>1, <1>3, <1>6, <2>1, <3>1
  <2>5. pc' = "close" \/ pc' = "write"
    BY <1>6
  <2>6. Alone' /\ Ahead'
    BY <2>3, <2>4, <2>5 DEF Alone, Ahead
  <2>7. QED
    BY <2>2, <2>6 DEF Sizing
<1>7. CASE ~open /\ Throw
  <2>1. ~open' /\ caller' = "none"
    BY <1>2, <1>7 DEF Throw, Forget
  <2>2. QED
    BY <2>1 DEF Sizing, Counted, Alone, Ahead, InFlight
<1>8. QED
  BY <1>5, <1>6, <1>7 DEF SinkIt

LEMMA WriteSizing ==
  ASSUME Inv, Inv', Sizing, Write
  PROVE  /\ Sizing'
         /\ open => /\ Size' = Size + msg.size
                    /\ buffer' = Append(buffer, msg)
<1>1. pc = "write" /\ pc' = "idle" /\ current_size' = new_size /\ UNCHANGED <<disk, open>>
  BY DEF Write, Return, Forget
<1>2. open => Size' = Size + msg.size /\ buffer' = Append(buffer, msg)
  <2> SUFFICES ASSUME open
               PROVE  Size' = Size + msg.size /\ buffer' = Append(buffer, msg)
    OBVIOUS
  <2>1. msg \in Message /\ buffer \in Seq(Message) /\ buffer' = Append(buffer, msg)
    BY <1>1 DEF Write, Inv, Types, FileTypes, Control, Flight, InFlight, Holding
  <2>2. Bytes(buffer') = Bytes(buffer) + msg.size
    BY <2>1, BytesOfAppend
  <2>3. Bytes(buffer) \in Nat /\ Bytes(disk[0]) \in Nat /\ msg.size \in Nat
    BY <2>1, WholeFile, BytesType, RotatingAssumption DEF Inv, Message
  <2>4. QED
    BY <1>1, <2>1, <2>2, <2>3 DEF Size, SizeOf
<1>3. Counted'
  BY <1>1, <1>2 DEF Sizing, Counted, Ahead
<1>4. Alone' /\ Ahead'
  BY <1>1 DEF Alone, Ahead, InFlight, Holding
<1>5. QED
  BY <1>2, <1>3, <1>4 DEF Sizing

(* The steps between a call and its write: no file is open, and the message *)
(* waits with its own size.                                                 *)
LEMMA ClosedSizing ==
  ASSUME Sizing, ~open', pc' # "write",
         InFlight' => InFlight /\ pc # "write" /\ UNCHANGED <<new_size, msg>>
  PROVE  Sizing'
BY DEF Sizing, Counted, Alone, Ahead

LEMMA RotateSizing ==
  ASSUME Inv, Inv', Sizing, Close \/ Shift \/ Rename \/ RenameFails \/ ReopenFails \/ Crash
  PROVE  Sizing'
<1>1. CASE Close \/ Shift \/ Rename \/ RenameFails
  <2>1. /\ pc \in {"close", "shift", "rename", "retry"}
        /\ pc' \in {"shift", "rename", "retry", "give up"}
        /\ UNCHANGED <<caller, msg, new_size>>
    BY <1>1 DEF Close, Shift, Rename, RenameFails, call
  <2>2. ~open'
    BY <2>1 DEF Inv, Types, Control
  <2>3. InFlight' => InFlight /\ pc # "write"
    BY <2>1 DEF InFlight, Holding
  <2>4. QED
    BY <2>1, <2>2, <2>3, ClosedSizing
<1>2. CASE ReopenFails \/ Crash
  <2>1. pc' # "write" /\ caller' # "sink_it_"
    BY <1>2 DEF ReopenFails, Crash, Throw, Forget
  <2>2. ~open'
    <3>1. ReopenFails => ~open
      BY DEF ReopenFails, Inv, Types, Control
    <3>2. QED
      BY <1>2, <3>1 DEF ReopenFails, Crash
  <2>3. QED
    BY <2>1, <2>2, ClosedSizing DEF InFlight
<1>3. QED
  BY <1>1, <1>2

LEMMA EmptiedSizing ==
  ASSUME Inv, Inv', Rest, Sizing, GiveUp \/ Reopen
  PROVE  Sizing'
<1>1. ~open /\ buffer' = <<>>
  BY DEF GiveUp, Reopen, Inv, Types, FileTypes, Control
<1>2. disk' = With(disk, 0, <<>>)
  BY DEF GiveUp, Reopen
<1>3. IsFiles(disk') /\ 0 \in DOMAIN disk' /\ disk'[0] = <<>>
  BY <1>2 DEF With, Inv, Types, FileTypes
<1>4. Size' = 0
  BY <1>1, <1>3, EmptySize, BytesOfNone DEF Size
<1>5. current_size' \in Nat
  <2>1. current_size \in Nat
    BY DEF Rest, Numbers
  <2>2. current_size' = 0 \/ current_size' = current_size
    BY DEF GiveUp, Reopen
  <2>3. QED
    BY <2>1, <2>2
<1>6. Counted'
  BY <1>4, <1>5 DEF Counted
<1>7. CASE caller' # "sink_it_" /\ pc' # "write"
  BY <1>6, <1>7 DEF Sizing, Alone, Ahead, InFlight
<1>8. CASE Reopen /\ caller = "sink_it_" /\ pc' = "write" /\ UNCHANGED call
  <2>1. msg \in Message /\ new_size = msg.size /\ UNCHANGED <<msg, new_size>>
    BY <1>8 DEF Reopen, call, Inv, Types, Flight, InFlight, Holding, Sizing, Alone
  <2>2. msg.size \in Nat
    BY <2>1, RotatingAssumption DEF Message
  <2>3. Ahead'
    BY <1>4, <2>1, <2>2 DEF Ahead
  <2>4. QED
    BY <1>6, <1>8, <2>3 DEF Sizing, Alone
<1>9. QED
  <2>1. GiveUp => caller' # "sink_it_" /\ pc' # "write"
    BY DEF GiveUp, Throw, Forget
  <2>2. Reopen /\ caller # "sink_it_" => caller' # "sink_it_" /\ pc' # "write"
    BY DEF Reopen, Return, Forget
  <2>3. Reopen /\ caller = "sink_it_" => pc' = "write" /\ UNCHANGED call
    BY DEF Reopen
  <2>4. QED
    BY <1>7, <1>8, <2>1, <2>2, <2>3

LEMMA QuietSizing ==
  ASSUME Inv, Sizing,
         \/ RotateNow \/ Flush \/ UNCHANGED vars
         \/ \E s \in SizeLimits : SetMaxSize(s)
         \/ \E f \in FileLimits : SetMaxFiles(f)
  PROVE  Sizing'
<1>1. CASE UNCHANGED vars
  BY <1>1 DEF Sizing, Counted, Alone, Ahead, InFlight, Holding, Size, vars, call, limits
<1>2. CASE Flush \/ RotateNow \/ (\E s \in SizeLimits : SetMaxSize(s))
             \/ (\E f \in FileLimits : SetMaxFiles(f))
  <2>1. UNCHANGED <<open, current_size>>
    BY <1>2 DEF RotateNow, Flush, SetMaxSize, SetMaxFiles
  <2>2. pc' # "write" /\ ~InFlight'
    BY <1>2 DEF RotateNow, Flush, SetMaxSize, SetMaxFiles, call, InFlight, Holding
  <2>3. open => Size' = Size
    <3>1. Flush /\ open => Size' = Size
      BY FlushedSize DEF Flush
    <3>2. ~Flush => UNCHANGED <<disk, buffer>>
      BY <1>2 DEF RotateNow, SetMaxSize, SetMaxFiles
    <3>3. QED
      BY <3>1, <3>2 DEF Size
  <2>4. Counted'
    BY <2>1, <2>3 DEF Sizing, Counted
  <2>5. QED
    BY <2>2, <2>4 DEF Sizing, Alone, Ahead
<1>3. QED
  BY <1>1, <1>2

LEMMA SizingStep == Sizing /\ Rest /\ Inv /\ Inv' /\ [Next]_vars => Sizing'
<1> SUFFICES ASSUME Sizing, Rest, Inv, Inv', [Next]_vars PROVE Sizing'
  OBVIOUS
<1>1. CASE \E s \in SizeLimits, f \in FileLimits, r \in BOOLEAN : Start(s, f, r)
  BY <1>1, StartSizing
<1>2. CASE \E s \in Sizes : SinkIt(s)
  BY <1>2, SinkItSizing
<1>3. CASE Write
  BY <1>3, WriteSizing
<1>4. CASE Close \/ Shift \/ Rename \/ RenameFails \/ ReopenFails \/ Crash
  BY <1>4, RotateSizing
<1>5. CASE GiveUp \/ Reopen
  BY <1>5, EmptiedSizing
<1>6. CASE \/ RotateNow \/ Flush \/ UNCHANGED vars
           \/ \E s \in SizeLimits : SetMaxSize(s)
           \/ \E f \in FileLimits : SetMaxFiles(f)
  BY <1>6, QuietSizing
<1>7. QED
  BY <1>1, <1>2, <1>3, <1>4, <1>5, <1>6 DEF Next, Rotate

LEMMA SizingInit == Init => Sizing
BY DEF Init, Sizing, Counted, Alone, Ahead, InFlight, Holding

(* current_size_, which is kept without asking the file, is never less than *)
(* what is in the file and in fd_'s buffer together, over rotations that     *)
(* fail and reopenings alike.                                                *)
THEOREM NeverTooLow == Spec => []NeverUnderestimates
<1>1. Sizing => NeverUnderestimates
  BY DEF Sizing, Counted, Size, SizeOf, NeverUnderestimates
<1>2. QED
  BY <1>1, InvInit, InvStep, RestInit, RestStep, SizingInit, SizingStep, PTL DEF Spec

(* No message takes a file that has one over the limit of the moment.      *)
THEOREM GrowsWithin == Spec => GrowsWithinLimit
<1> DEFINE Grown == open /\ Len(buffer') > Len(buffer) /\ Bytes(disk[0] \o buffer) > 0
           Fits == Bytes(disk[0] \o buffer') <= max_size
<1>1. ASSUME Inv, Inv', Sizing, [Next]_vars, Grown PROVE Fits
  <2>1. disk[0] \in Seq(Message) /\ buffer \in Seq(Message)
    BY <1>1, WholeFile DEF Inv, Types, FileTypes
  <2>2. buffer' # buffer /\ buffer' # <<>>
    BY <1>1, <2>1
  <2>3. Write
    BY <1>1, <2>2
    DEF Next, Rotate, Start, SinkIt, RotateNow, Flush, Close, Shift, Rename,
        RenameFails, GiveUp, Reopen, ReopenFails, Crash, SetMaxSize, SetMaxFiles, vars
  <2>4. Size' = Size + msg.size /\ buffer' = Append(buffer, msg) /\ UNCHANGED disk
    BY <1>1, <2>3, WriteSizing DEF Write
  <2>5. Bytes(disk[0] \o buffer) = Size
    BY <2>1, BytesOfConcat DEF Size, SizeOf
  <2>6. buffer' \in Seq(Message)
    BY <1>1 DEF Inv, Types, FileTypes
  <2>7. Bytes(disk[0] \o buffer') = Size'
    BY <2>1, <2>4, <2>6, BytesOfConcat DEF Size, SizeOf
  <2>8. Size + msg.size <= max_size
    BY <1>1, <2>3, <2>5 DEF Sizing, Ahead, Write
  <2>9. QED
    BY <2>4, <2>7, <2>8
<1>2. Inv /\ Inv' /\ Sizing /\ [Next]_vars => [Grown => Fits]_vars
  BY <1>1
<1> HIDE DEF Grown, Fits
<1>3. Spec => [][Grown => Fits]_vars
  BY <1>2, InvInit, InvStep, RestInit, RestStep, SizingInit, SizingStep, PTL DEF Spec
<1>4. QED
  BY <1>3 DEF GrowsWithinLimit, Grown, Fits

-----------------------------------------------------------------------------
(* The messages in files, by number.                                       *)
LEMMA OnDiskIs ==
  ASSUME NEW files
  PROVE  \A n : n \in OnDisk(files) <=>
           \E k \in DOMAIN files : \E j \in DOMAIN files[k] : n = files[k][j].number
<1>1. \A n : n \in OnDisk(files) <=>
        \E k \in DOMAIN files : \E m \in ToSet(files[k]) : n = m.number
  BY Zenon DEF OnDisk
<1>2. ASSUME NEW n, NEW k \in DOMAIN files
      PROVE  (\E m \in ToSet(files[k]) : n = m.number) <=>
             (\E j \in DOMAIN files[k] : n = files[k][j].number)
  BY Zenon DEF ToSet
<1>3. ASSUME NEW n
      PROVE  (\E k \in DOMAIN files : \E m \in ToSet(files[k]) : n = m.number) <=>
             (\E k \in DOMAIN files : \E j \in DOMAIN files[k] : n = files[k][j].number)
  BY <1>2
<1>4. QED
  BY <1>1, <1>3

LEMMA OnDiskUpTo ==
  ASSUME NEW files, NEW n, Holds(files, n)
  PROVE  \A m \in OnDisk(files) : m <= n
<1> SUFFICES ASSUME NEW m \in OnDisk(files) PROVE m <= n
  OBVIOUS
<1>1. PICK k \in DOMAIN files : \E j \in DOMAIN files[k] : m = files[k][j].number
  BY OnDiskIs
<1>2. QED
  BY <1>1 DEF Holds

(* Every message of s is one of t.                                         *)
Among(s, t) == \A j \in DOMAIN s : \E l \in DOMAIN t : t[l] = s[j]

LEMMA AmongLonger ==
  ASSUME NEW s \in Seq(Message), NEW t \in Seq(Message)
  PROVE  Among(s, s \o t)
<1> SUFFICES ASSUME NEW j \in DOMAIN s
             PROVE  j \in DOMAIN (s \o t) /\ (s \o t)[j] = s[j]
  BY DEF Among
<1>1. j \in 1..Len(s) /\ Len(s) \in Nat /\ Len(t) \in Nat
  OBVIOUS
<1>2. QED
  BY <1>1

LEMMA AmongCut ==
  ASSUME NEW s \in Seq(Message), NEW n \in 0..Len(s)
  PROVE  Among(SubSeq(s, 1, n), s)
<1>1. SubSeq(s, 1, n) \in Seq(Message) /\ Len(SubSeq(s, 1, n)) = n /\ Len(s) \in Nat
  OBVIOUS
<1>2. \A j \in DOMAIN SubSeq(s, 1, n) : j \in DOMAIN s /\ SubSeq(s, 1, n)[j] = s[j]
  BY <1>1
<1>3. QED
  BY <1>2 DEF Among

LEMMA WithMore ==
  ASSUME NEW files, NEW s, NEW t, Among(s, t)
  PROVE  OnDisk(With(files, 0, s)) \subseteq OnDisk(With(files, 0, t))
<1> DEFINE g == With(files, 0, s)
           h == With(files, 0, t)
<1>1. /\ DOMAIN g = DOMAIN h
      /\ g[0] = s /\ h[0] = t
      /\ \A k \in DOMAIN g : k # 0 => g[k] = h[k]
  BY DEF With
<1> HIDE DEF g, h
<1>2. ASSUME NEW n \in OnDisk(g) PROVE n \in OnDisk(h)
  <2>1. PICK k \in DOMAIN g : \E j \in DOMAIN g[k] : n = g[k][j].number
    BY OnDiskIs
  <2>2. PICK j \in DOMAIN g[k] : n = g[k][j].number
    BY <2>1
  <2>3. \E l \in DOMAIN h[k] : n = h[k][l].number
    BY <1>1, <2>2 DEF Among
  <2>4. QED
    BY <1>1, <2>3, OnDiskIs
<1>3. QED
  BY <1>2 DEF g, h

LEMMA WithSame ==
  ASSUME NEW files, IsFiles(files), 0 \in DOMAIN files
  PROVE  With(files, 0, files[0]) = files
BY DEF With, IsFiles

LEMMA WithEmpty ==
  ASSUME NEW files, 0 \notin DOMAIN files
  PROVE  OnDisk(With(files, 0, <<>>)) = OnDisk(files)
<1> DEFINE g == With(files, 0, <<>>)
<1>1. /\ DOMAIN g = DOMAIN files \cup {0}
      /\ \A k \in DOMAIN files : g[k] = files[k]
      /\ DOMAIN g[0] = {}
  BY DEF With
<1> HIDE DEF g
<1>2. \A n : n \in OnDisk(g) <=> n \in OnDisk(files)
  <2>1. \A n : (\E k \in DOMAIN g : \E j \in DOMAIN g[k] : n = g[k][j].number) <=>
               (\E k \in DOMAIN files : \E j \in DOMAIN files[k] : n = files[k][j].number)
    BY <1>1
  <2>2. QED
    BY <2>1, OnDiskIs
<1>3. QED
  BY <1>2 DEF g

LEMMA WithOneMore ==
  ASSUME NEW files, NEW s \in Seq(Message), NEW m \in Message
  PROVE  OnDisk(With(files, 0, Append(s, m)))
           \subseteq OnDisk(With(files, 0, s)) \cup {m.number}
<1> DEFINE g == With(files, 0, Append(s, m))
           h == With(files, 0, s)
<1>1. /\ DOMAIN g = DOMAIN h
      /\ g[0] = Append(s, m) /\ h[0] = s
      /\ \A k \in DOMAIN g : k # 0 => g[k] = h[k]
  BY DEF With
<1>2. \A j \in DOMAIN Append(s, m) : \/ j \in DOMAIN s /\ Append(s, m)[j] = s[j]
                                     \/ Append(s, m)[j] = m
  OBVIOUS
<1> HIDE DEF g, h
<1>3. ASSUME NEW n \in OnDisk(g), n # m.number PROVE n \in OnDisk(h)
  <2>1. PICK k \in DOMAIN g : \E j \in DOMAIN g[k] : n = g[k][j].number
    BY OnDiskIs
  <2>2. PICK j \in DOMAIN g[k] : n = g[k][j].number
    BY <2>1
  <2>3. \E l \in DOMAIN h[k] : n = h[k][l].number
    BY <1>1, <1>2, <1>3, <2>2
  <2>4. QED
    BY <1>1, <2>3, OnDiskIs
<1>4. QED
  BY <1>3 DEF g, h

LEMMA FlushedHasMore == Inv => OnDisk(disk) \subseteq OnDisk(Flushed)
<1> SUFFICES ASSUME Inv PROVE OnDisk(disk) \subseteq OnDisk(Flushed)
  OBVIOUS
<1>1. CASE ~open
  BY <1>1 DEF Flushed
<1>2. CASE open
  <2>1. disk[0] \in Seq(Message) /\ buffer \in Seq(Message)
    BY <1>2, WholeFile DEF Inv, Types, FileTypes
  <2>2. With(disk, 0, disk[0]) = disk
    BY <1>2, WithSame DEF Inv, Types, FileTypes, Exists
  <2>3. OnDisk(With(disk, 0, disk[0])) \subseteq OnDisk(With(disk, 0, disk[0] \o buffer))
    BY <2>1, AmongLonger, WithMore
  <2>4. QED
    BY <1>2, <2>2, <2>3 DEF Flushed
<1>3. QED
  BY <1>1, <1>2 DEF Inv, Types, Control

Sound == Holds(disk, Written)

LEMMA NextSound == Inv' => Sound'
<1>1. Inv => Sound
  BY DiskHolds DEF Sound
<1>2. QED
  BY <1>1, PTL

-----------------------------------------------------------------------------
(* Where a rotation stands: the index it has come down to has no file, once *)
(* it is below the highest one.                                             *)
Climbing == pc \in {"shift", "rename", "retry", "give up"}

Gap ==
  /\ Climbing => i <= max_files
  /\ pc = "shift" /\ i < max_files => ~Exists(i)
  /\ pc \in {"rename", "retry", "give up"} => ~Exists(i)

LEMMA GapStep == Gap /\ Inv /\ [Next]_vars => Gap'
<1> SUFFICES ASSUME Gap, Inv, [Next]_vars PROVE Gap'
  OBVIOUS
<1>1. CASE UNCHANGED vars
  BY <1>1 DEF Gap, Climbing, Exists, vars, call, limits
<1>2. CASE Close
  BY <1>2 DEF Close, Gap, Climbing, limits, Inv, Types, Control
<1>3. CASE Shift
  <2>1. i \in Nat /\ i > 0 /\ i <= max_files /\ max_files \in Nat /\ max_files' = max_files
    BY <1>3 DEF Shift, limits, Gap, Climbing, Inv, Types, Control
  <2>2. CASE Exists(Source)
    <3>1. pc' = "rename" /\ disk' = Without(i) /\ i' = i
      BY <1>3, <2>1, <2>2 DEF Shift, Source
    <3>2. i' \notin DOMAIN disk'
      BY <3>1 DEF Without
    <3>3. QED
      BY <2>1, <3>1, <3>2 DEF Gap, Climbing, Exists
  <2>3. CASE ~Exists(Source)
    <3>1. pc' = "shift" /\ disk' = disk /\ i' = i - 1
      BY <1>3, <2>3 DEF Shift
    <3>2. i' \notin DOMAIN disk' /\ i' <= max_files'
      BY <2>1, <2>3, <3>1 DEF Source, Exists
    <3>3. QED
      BY <3>1, <3>2 DEF Gap, Climbing, Exists
  <2>4. QED
    BY <2>2, <2>3
<1>4. CASE Rename
  <2>1. i \in Nat /\ i > 0 /\ i <= max_files /\ max_files \in Nat /\ max_files' = max_files
    BY <1>4 DEF Rename, limits, Gap, Climbing, Inv, Types, Control, SourceExists
  <2>2. pc' = "shift" /\ i' = i - 1 /\ disk' = Renamed
    BY <1>4 DEF Rename
  <2>3. DOMAIN disk' = (DOMAIN disk \ {i - 1}) \cup {i}
    BY <2>1, <2>2 DEF Renamed, With, Without, Source
  <2>4. i' \notin DOMAIN disk' /\ i' <= max_files'
    BY <2>1, <2>2, <2>3
  <2>5. QED
    BY <2>2, <2>4 DEF Gap, Climbing, Exists
<1>5. CASE RenameFails
  BY <1>5 DEF RenameFails, Gap, Climbing, Exists, call, limits
<1>6. CASE \/ RotateNow \/ Flush \/ Write \/ GiveUp \/ Reopen \/ ReopenFails \/ Crash
           \/ \E s \in SizeLimits : SetMaxSize(s)
           \/ \E f \in FileLimits : SetMaxFiles(f)
           \/ \E s \in Sizes : SinkIt(s)
           \/ \E s \in SizeLimits, f \in FileLimits, r \in BOOLEAN : Start(s, f, r)
  <2>1. pc' \in {"down", "idle", "write", "close"}
    BY <1>6 DEF RotateNow, Flush, Write, GiveUp, Reopen, ReopenFails, Crash, SetMaxSize,
                SetMaxFiles, SinkIt, Start, Return, Throw
  <2>2. QED
    BY <2>1 DEF Gap, Climbing
<1>7. QED
  BY <1>1, <1>2, <1>3, <1>4, <1>5, <1>6 DEF Next, Rotate

LEMMA GapInit == Init => Gap
BY DEF Init, Gap, Climbing

-----------------------------------------------------------------------------
(* Nothing that was ever in a file is later than the last message written. *)
Past == \A n \in saved : n <= Written

LEMMA WrittenGrows == Inv /\ Inv' /\ [Next]_vars => Written <= Written'
<1> SUFFICES ASSUME Inv, Inv', [Next]_vars PROVE Written <= Written'
  OBVIOUS
<1>1. count \in Nat /\ count' \in Nat
  BY RotatingAssumption DEF Inv, Types, Control
<1>2. CASE \E s \in Sizes : SinkIt(s)
  <2>1. ~InFlight /\ count' = count + 1
    BY <1>2 DEF SinkIt, InFlight, Holding
  <2>2. QED
    BY <1>1, <2>1 DEF Written
<1>3. CASE ~(\E s \in Sizes : SinkIt(s))
  <2>1. count' = count
    BY <1>3 DEF Next, Rotate, Start, RotateNow, Flush, Write, Close, Shift, Rename,
       RenameFails, GiveUp, Reopen, ReopenFails, Crash, SetMaxSize, SetMaxFiles, vars
  <2>2. InFlight' => InFlight
    <3>1. CASE \/ RotateNow \/ Flush \/ Write \/ GiveUp \/ ReopenFails \/ Crash
               \/ \E s \in SizeLimits : SetMaxSize(s)
               \/ \E f \in FileLimits : SetMaxFiles(f)
               \/ \E s \in SizeLimits, f \in FileLimits, r \in BOOLEAN : Start(s, f, r)
      BY <3>1 DEF RotateNow, Flush, Write, GiveUp, ReopenFails, Crash, SetMaxSize,
                  SetMaxFiles, Start, Return, Throw, Forget, call, InFlight, Holding
    <3>2. CASE Close \/ Shift \/ Rename \/ RenameFails \/ Reopen
      BY <3>2 DEF Close, Shift, Rename, RenameFails, Reopen, Return, Forget, call,
                  InFlight, Holding
    <3>3. CASE UNCHANGED vars
      BY <3>3 DEF vars, call, InFlight, Holding
    <3>4. QED
      BY <1>3, <3>1, <3>2, <3>3 DEF Next, Rotate
  <2>3. QED
    BY <1>1, <2>1, <2>2 DEF Written
<1>4. QED
  BY <1>2, <1>3

LEMMA PastStep == Past /\ Within /\ Inv /\ Inv' /\ [Next]_vars => Past'
<1> SUFFICES ASSUME Past, Within, Inv, Inv', [Next]_vars PROVE Past'
  OBVIOUS
<1>1. saved' = saved \cup OnDisk(disk') \/ saved' = saved
  BY DEF Next, vars
<1>2. \A n \in OnDisk(disk') : n <= Written'
  BY NextSound, OnDiskUpTo DEF Sound
<1>3. Written <= Written' /\ Written \in Int
  BY WrittenGrows, WrittenInt DEF Inv
<1>4. Written' \in Int
  BY RotatingAssumption DEF Written, Inv, Types, Control
<1>5. ASSUME NEW n \in saved PROVE n <= Written'
  <2>1. n \in Int /\ n <= Written
    BY DEF Past, Within
  <2>2. QED
    BY <1>3, <1>4, <2>1
<1>6. QED
  BY <1>1, <1>2, <1>5 DEF Past

-----------------------------------------------------------------------------
(* As long as no rename is given up: no file is above max_files_, and what  *)
(* is in no file any more is older than all there is and will be.           *)
Few == \A k \in DOMAIN disk : k <= max_files

Oldest == \A gone \in saved \ OnDisk(disk), kept \in OnDisk(Flushed) : gone < kept

Gone == ~broken => Few /\ Oldest

LEMMA NothingLost ==
  ASSUME Oldest, saved' = saved \cup OnDisk(disk'),
         OnDisk(disk) \subseteq OnDisk(disk'), OnDisk(Flushed') \subseteq OnDisk(Flushed)
  PROVE  Oldest'
BY DEF Oldest

(* The steps that leave every message where it is found: they move files,   *)
(* or write to them what fd_ has buffered, all of it or a part.             *)
LEMMA MovingStep ==
  ASSUME Inv, Inv', Gone, Gap, saved' = saved \cup OnDisk(disk'), ~broken', ~broken,
         Few', OnDisk(disk) \subseteq OnDisk(disk'),
         OnDisk(Flushed') \subseteq OnDisk(Flushed)
  PROVE  Gone'
BY NothingLost DEF Gone

LEMMA ClosedFlushed == Inv /\ ~open => Flushed = disk
BY DEF Flushed

LEMMA RenamedHasAll ==
  ASSUME Inv, i > 0, Exists(i - 1), ~Exists(i)
  PROVE  OnDisk(Renamed) = OnDisk(disk)
<1> DEFINE g == Renamed
<1>1. i \in Nat
  BY DEF Inv, Types, Control
<1>2. /\ DOMAIN g = (DOMAIN disk \ {i - 1}) \cup {i}
      /\ g[i] = disk[i - 1]
      /\ \A k \in DOMAIN disk \ {i - 1} : g[k] = disk[k]
  BY <1>1 DEF Renamed, With, Without, Source, Exists
<1> HIDE DEF g
<1>3. ASSUME NEW n
      PROVE  (\E k \in DOMAIN g : \E j \in DOMAIN g[k] : n = g[k][j].number) <=>
             (\E k \in DOMAIN disk : \E j \in DOMAIN disk[k] : n = disk[k][j].number)
  <2>1. ASSUME NEW k \in DOMAIN g, NEW j \in DOMAIN g[k], n = g[k][j].number
        PROVE  \E l \in DOMAIN disk : \E m \in DOMAIN disk[l] : n = disk[l][m].number
    BY <1>2, <2>1 DEF Exists
  <2>2. ASSUME NEW k \in DOMAIN disk, NEW j \in DOMAIN disk[k], n = disk[k][j].number
        PROVE  \E l \in DOMAIN g : \E m \in DOMAIN g[l] : n = g[l][m].number
    <3>1. CASE k = i - 1
      BY <1>2, <2>2, <3>1
    <3>2. CASE k # i - 1
      <4>1. k \in DOMAIN g /\ g[k] = disk[k]
        BY <1>2, <3>2
      <4>2. QED
        BY <2>2, <4>1
    <3>3. QED
      BY <3>1, <3>2
  <2>3. QED
    BY <2>1, <2>2
<1>4. \A n : n \in OnDisk(g) <=> n \in OnDisk(disk)
  BY <1>3, OnDiskIs
<1>5. QED
  BY <1>4 DEF g

(* Only the highest file goes: all others hold later messages.             *)
LEMMA WithoutHighest ==
  ASSUME NEW n, Holds(disk, n), NEW h \in Nat, \A k \in DOMAIN disk : k <= h
  PROVE  \A gone \in OnDisk(disk) \ OnDisk(Without(h)), kept \in OnDisk(Without(h)) :
           gone < kept
<1> DEFINE g == Without(h)
<1>1. DOMAIN g = DOMAIN disk \ {h} /\ \A k \in DOMAIN g : g[k] = disk[k]
  BY DEF Without
<1> HIDE DEF g
<1> SUFFICES ASSUME NEW gone \in OnDisk(disk) \ OnDisk(g), NEW kept \in OnDisk(g)
             PROVE  gone < kept
  BY DEF g
<1>2. PICK a \in DOMAIN disk : \E j \in DOMAIN disk[a] : gone = disk[a][j].number
  BY OnDiskIs
<1>3. PICK j \in DOMAIN disk[a] : gone = disk[a][j].number
  BY <1>2
<1>4. a = h
  <2>1. a \in DOMAIN g => gone \in OnDisk(g)
    <3>1. a \in DOMAIN g => g[a] = disk[a]
      BY <1>1
    <3>2. QED
      BY <1>3, <3>1, OnDiskIs
  <2>2. QED
    BY <1>1, <2>1
<1>5. PICK b \in DOMAIN g : \E l \in DOMAIN g[b] : kept = g[b][l].number
  BY OnDiskIs
<1>6. PICK l \in DOMAIN g[b] : kept = g[b][l].number
  BY <1>5
<1>7. b \in DOMAIN disk /\ b < h /\ g[b] = disk[b]
  BY <1>1 DEF Holds, IsFiles
<1>8. QED
  BY <1>3, <1>4, <1>6, <1>7 DEF Holds, InOrder

LEMMA ShiftGone ==
  ASSUME Inv, Inv', Gone, Gap, Past, ~broken', saved' = saved \cup OnDisk(disk'), Shift
  PROVE  Gone'
<1>1. /\ i \in Nat /\ i > 0 /\ i <= max_files /\ max_files \in Nat
      /\ UNCHANGED <<max_files, broken, open>>
  BY DEF Shift, limits, Gap, Climbing, Inv, Types, Control
<1>2. Few /\ Oldest
  BY <1>1 DEF Gone
<1>3. ~open /\ Flushed = disk /\ Flushed' = disk'
  BY <1>1 DEF Shift, Flushed, Inv, Types, Control
<1>4. CASE UNCHANGED disk
  BY <1>1, <1>2, <1>3, <1>4, MovingStep DEF Few
<1>5. CASE disk' = Without(i)
  <2>1. Few'
    BY <1>1, <1>2, <1>5 DEF Few, Without
  <2>2. OnDisk(disk') \subseteq OnDisk(disk)
    <3>1. DOMAIN disk' \subseteq DOMAIN disk /\ \A k \in DOMAIN disk' : disk'[k] = disk[k]
      BY <1>5 DEF Without
    <3>2. ASSUME NEW n \in OnDisk(disk') PROVE n \in OnDisk(disk)
      <4>1. PICK k \in DOMAIN disk' : \E j \in DOMAIN disk'[k] : n = disk'[k][j].number
        BY OnDiskIs
      <4>2. QED
        BY <3>1, <4>1, OnDiskIs
    <3>3. QED
      BY <3>2
  <2>3. CASE i = max_files
    <3>1. \A gone \in OnDisk(disk) \ OnDisk(disk'), kept \in OnDisk(disk') : gone < kept
      BY <1>1, <1>2, <1>5, <2>3, DiskHolds, WithoutHighest DEF Few
    <3>2. ASSUME NEW gone \in saved' \ OnDisk(disk'), NEW kept \in OnDisk(disk')
          PROVE  gone < kept
      <4>1. gone \in saved
        OBVIOUS
      <4>2. CASE gone \in OnDisk(disk)
        BY <3>1, <4>2
      <4>3. CASE gone \notin OnDisk(disk)
        BY <1>2, <1>3, <2>2, <4>1, <4>3 DEF Oldest
      <4>4. QED
        BY <4>2, <4>3
    <3>3. Oldest'
      BY <1>3, <3>2 DEF Oldest
    <3>4. QED
      BY <2>1, <3>3 DEF Gone
  <2>4. CASE i < max_files
    <3>1. ~Exists(i)
      BY <2>4 DEF Gap, Shift
    <3>2. disk' = disk
      BY <1>5, <3>1 DEF Without, Exists, Inv, Types, FileTypes, IsFiles
    <3>3. QED
      BY <1>4, <3>2
  <2>5. QED
    BY <1>1, <2>3, <2>4
<1>6. QED
  BY <1>1, <1>4, <1>5 DEF Shift, Source

LEMMA RenameGone ==
  ASSUME Inv, Inv', Gone, Gap, ~broken', saved' = saved \cup OnDisk(disk'), Rename
  PROVE  Gone'
<1>1. /\ i \in Nat /\ i > 0 /\ i <= max_files /\ max_files \in Nat
      /\ Exists(i - 1) /\ ~Exists(i)
      /\ UNCHANGED <<max_files, broken, open>>
  BY DEF Rename, limits, Gap, Climbing, Inv, Types, Control, SourceExists
<1>2. ~open /\ Flushed = disk /\ Flushed' = disk'
  BY <1>1 DEF Rename, Flushed, Inv, Types, Control
<1>3. OnDisk(disk') = OnDisk(disk)
  BY <1>1, RenamedHasAll DEF Rename
<1>4. Few'
  <2>1. DOMAIN disk' = (DOMAIN disk \ {i - 1}) \cup {i}
    BY <1>1 DEF Rename, Renamed, With, Without, Source
  <2>2. QED
    BY <1>1, <2>1 DEF Gone, Few
<1>5. QED
  BY <1>1, <1>2, <1>3, <1>4, MovingStep

(* The file opened at the end of a rotation: there is no other of that     *)
(* name, or no files but the one are kept.                                  *)
LEMMA ReopenGone ==
  ASSUME Inv, Inv', Gone, Gap, ~broken', saved' = saved \cup OnDisk(disk'),
         Reopen \/ GiveUp \/ ReopenFails
  PROVE  Gone'
<1>1. /\ pc = "shift" /\ i = 0 /\ ~broken
      /\ UNCHANGED <<buffer, max_files>>
      /\ disk' = disk \/ disk' = With(disk, 0, <<>>)
  <2>1. ~GiveUp
    BY DEF GiveUp
  <2>2. ReopenFails => ~broken /\ pc # "give up"
    BY Zenon DEF ReopenFails
  <2>3. Reopen => ~broken
    BY DEF Reopen
  <2>4. pc = "shift" /\ i = 0 /\ ~broken
    BY <2>1, <2>2, <2>3 DEF Reopen, ReopenFails
  <2>5. UNCHANGED <<buffer, max_files>> /\ (disk' = disk \/ disk' = With(disk, 0, <<>>))
    BY <2>1 DEF Reopen, ReopenFails, limits
  <2>6. QED
    BY <2>4, <2>5
<1>2. ~open /\ buffer' = <<>> /\ max_files \in Nat /\ Flushed = disk
  BY <1>1 DEF Flushed, Inv, Types, FileTypes, Control
<1>3. Flushed' = disk'
  <2>1. open' => 0 \in DOMAIN disk' /\ IsFiles(disk')
    BY DEF Inv, Types, FileTypes, Exists
  <2>2. open' => With(disk', 0, disk'[0] \o <<>>) = disk'
    BY <2>1, Refill
  <2>3. QED
    BY <1>2, <2>2 DEF Flushed
<1>4. Few'
  BY <1>1, <1>2 DEF Gone, Few, With
<1>5. CASE disk' = disk
  BY <1>1, <1>2, <1>3, <1>4, <1>5, MovingStep
<1>6. CASE disk' = With(disk, 0, <<>>) /\ 0 \notin DOMAIN disk
  BY <1>1, <1>2, <1>3, <1>4, <1>6, WithEmpty, MovingStep
<1>7. CASE disk' = With(disk, 0, <<>>) /\ 0 \in DOMAIN disk
  <2>1. max_files = 0
    BY <1>1, <1>2, <1>7 DEF Gap, Exists
  <2>2. DOMAIN disk \subseteq {0}
    BY <1>1, <2>1 DEF Gone, Few, Inv, Types, FileTypes, IsFiles
  <2>3. \A k \in DOMAIN disk' : DOMAIN disk'[k] = {}
    BY <1>7, <2>2 DEF With
  <2>4. OnDisk(disk') = {}
    BY <2>3, OnDiskIs
  <2>5. QED
    BY <1>3, <1>4, <2>4 DEF Gone, Oldest
<1>8. QED
  BY <1>1, <1>5, <1>6, <1>7

LEMMA WriteGone ==
  ASSUME Inv, Inv', Gone, Past, Within, ~broken', saved' = saved \cup OnDisk(disk'), Write
  PROVE  Gone'
<1>1. /\ pc = "write" /\ UNCHANGED <<disk, open, max_files, broken>>
      /\ open => buffer' = Append(buffer, msg)
      /\ ~open => UNCHANGED buffer
  BY DEF Write, limits
<1>2. InFlight /\ Written = count - 1 /\ count \in Nat
  <2>1. InFlight
    BY <1>1 DEF InFlight, Holding, Inv, Types, Control
  <2>2. count \in Nat
    BY WrittenInt DEF Inv
  <2>3. QED
    BY <2>1, <2>2 DEF Written
<1>3. msg \in Message /\ msg.number = count
  BY <1>2 DEF Inv, Types, Flight
<1>4. OnDisk(Flushed') \subseteq OnDisk(Flushed) \cup {count}
  <2>1. CASE open
    <3>1. disk[0] \in Seq(Message) /\ disk[0] \o buffer \in Seq(Message)
          /\ buffer \in Seq(Message)
      BY <2>1, WholeFile DEF Inv, Types, FileTypes
    <3>2. disk[0] \o Append(buffer, msg) = Append(disk[0] \o buffer, msg)
      <4>1. \A s \in Seq(Message), t \in Seq(Message), m \in Message :
              s \o Append(t, m) = Append(s \o t, m)
        BY AppendToConcat
      <4>2. QED
        BY <1>3, <3>1, <4>1, Zenon
    <3>3. /\ Flushed = With(disk, 0, disk[0] \o buffer)
          /\ Flushed' = With(disk, 0, Append(disk[0] \o buffer, msg))
      BY <1>1, <2>1, <3>2 DEF Flushed
    <3>4. QED
      BY <1>3, <3>1, <3>3, WithOneMore
  <2>2. CASE ~open
    <3>1. Flushed' = Flushed
      BY <1>1, <2>2 DEF Flushed
    <3>2. QED
      BY <3>1
  <2>3. QED
    BY <2>1, <2>2
<1>5. ASSUME NEW gone \in saved' \ OnDisk(disk'), NEW kept \in OnDisk(Flushed')
      PROVE  gone < kept
  <2>1. gone \in saved \ OnDisk(disk)
    BY <1>1
  <2>2. CASE kept \in OnDisk(Flushed)
    BY <1>1, <2>1, <2>2 DEF Gone, Oldest
  <2>3. CASE kept = count
    <3>1. gone <= Written /\ gone \in Int
      BY <2>1 DEF Past, Within
    <3>2. QED
      BY <1>2, <2>3, <3>1
  <2>4. QED
    BY <1>4, <2>2, <2>3
<1>6. Few'
  BY <1>1 DEF Gone, Few
<1>7. QED
  BY <1>5, <1>6 DEF Gone, Oldest

LEMMA CrashGone ==
  ASSUME Inv, Inv', Gone, Gap, ~broken', saved' = saved \cup OnDisk(disk'), Crash
  PROVE  Gone'
<1>1. ~open' /\ UNCHANGED <<max_files, broken>>
  BY DEF Crash, limits
<1>2. Flushed' = disk'
  BY <1>1 DEF Flushed
<1>3. CASE ~open
  BY <1>1, <1>2, <1>3, ClosedFlushed, MovingStep DEF Crash, Few, Gone
<1>4. CASE open
  <2>1. PICK n \in 0..Len(buffer) :
          disk' = With(disk, 0, disk[0] \o SubSeq(buffer, 1, n))
    BY <1>4 DEF Crash
  <2>2. /\ disk[0] \in Seq(Message) /\ disk[0] \o buffer \in Seq(Message)
        /\ buffer \in Seq(Message) /\ SubSeq(buffer, 1, n) \in Seq(Message)
    BY <1>4, WholeFile DEF Inv, Types, FileTypes
  <2>3. OnDisk(disk) \subseteq OnDisk(disk')
    <3>1. With(disk, 0, disk[0]) = disk
      BY <1>4, WithSame DEF Inv, Types, FileTypes, Exists
    <3>2. Among(disk[0], disk[0] \o SubSeq(buffer, 1, n))
      BY <2>2, AmongLonger
    <3>3. QED
      BY <2>1, <3>1, <3>2, WithMore
  <2>4. OnDisk(disk') \subseteq OnDisk(Flushed)
    <3>1. /\ Len(disk[0]) + n \in 0..Len(disk[0] \o buffer)
          /\ disk[0] \o SubSeq(buffer, 1, n)
               = SubSeq(disk[0] \o buffer, 1, Len(disk[0]) + n)
      BY <2>2, PrefixOfConcat
    <3>2. Among(disk[0] \o SubSeq(buffer, 1, n), disk[0] \o buffer)
      BY <2>2, <3>1, AmongCut
    <3>3. QED
      BY <1>4, <2>1, <3>2, WithMore DEF Flushed
  <2>5. Few'
    <3>1. DOMAIN disk' = DOMAIN disk
      BY <1>4, <2>1 DEF With, Inv, Types, FileTypes, Exists
    <3>2. QED
      BY <1>1, <3>1 DEF Few, Gone
  <2>6. QED
    BY <1>1, <1>2, <2>3, <2>4, <2>5, MovingStep
<1>5. QED
  BY <1>3, <1>4 DEF Inv, Types, Control

LEMMA StartGone ==
  ASSUME Inv, Inv', Gone, Gap, ~broken', saved' = saved \cup OnDisk(disk'),
         NEW s \in SizeLimits, NEW f \in FileLimits, NEW r \in BOOLEAN, Start(s, f, r)
  PROVE  Gone'
<1>1. /\ ~open /\ Flushed = disk /\ buffer' = <<>> /\ open'
      /\ disk' = disk \/ (0 \notin DOMAIN disk /\ disk' = With(disk, 0, <<>>))
      /\ ~broken /\ ~(f < max_files) /\ max_files' = f
  BY DEF Start, Flushed, Exists, Inv, Types, FileTypes, Control
<1>2. Few /\ f \in Nat /\ max_files \in Nat
  BY <1>1, RotatingAssumption DEF Gone, Inv, Types, Control
<1>3. Few'
  <2>1. ASSUME NEW k \in DOMAIN disk' PROVE k <= max_files'
    <3>1. k \in DOMAIN disk \/ k = 0
      BY <1>1 DEF With
    <3>2. k \in DOMAIN disk => k \in Nat /\ k <= max_files
      BY <1>2 DEF Few, Inv, Types, FileTypes, IsFiles
    <3>3. QED
      BY <1>1, <1>2, <3>1, <3>2
  <2>2. QED
    BY <2>1 DEF Few
<1>4. Flushed' = disk'
  <2>1. 0 \in DOMAIN disk' /\ IsFiles(disk')
    BY <1>1 DEF Inv, Types, FileTypes, Exists
  <2>2. With(disk', 0, disk'[0] \o <<>>) = disk'
    BY <2>1, Refill
  <2>3. QED
    BY <1>1, <2>2 DEF Flushed
<1>5. OnDisk(disk') = OnDisk(disk)
  BY <1>1, WithEmpty
<1>6. QED
  BY <1>1, <1>3, <1>4, <1>5, MovingStep

LEMMA FlushGone ==
  ASSUME Inv, Inv', Gone, Gap, ~broken', saved' = saved \cup OnDisk(disk'),
         UNCHANGED <<broken, max_files>>, open' \in {open, FALSE},
         disk' = Flushed, buffer' = <<>>
  PROVE  Gone'
<1>1. Flushed' = Flushed
  BY FlushKeeps
<1>2. OnDisk(disk) \subseteq OnDisk(disk')
  BY FlushedHasMore
<1>3. Few'
  <2>1. DOMAIN disk' = DOMAIN disk
    BY DEF Flushed, With, Inv, Types, FileTypes, Exists
  <2>2. QED
    BY <2>1 DEF Few, Gone
<1>4. QED
  BY <1>1, <1>2, <1>3, MovingStep

LEMMA QuietGone ==
  ASSUME Inv, Inv', Gone, Gap, ~broken', saved' = saved \cup OnDisk(disk'), ~broken,
         UNCHANGED <<disk, buffer, open>>, max_files' \in Nat, max_files <= max_files'
  PROVE  Gone'
<1>1. Flushed' = Flushed
  BY DEF Flushed
<1>2. Few'
  <2>1. ASSUME NEW k \in DOMAIN disk' PROVE k <= max_files'
    <3>1. k \in Nat /\ k <= max_files /\ max_files \in Nat
      BY DEF Gone, Few, Inv, Types, FileTypes, Control, IsFiles
    <3>2. QED
      BY <3>1
  <2>2. QED
    BY <2>1 DEF Few
<1>3. QED
  BY <1>1, <1>2, MovingStep

LEMMA GoneStep ==
  Gone /\ Gap /\ Past /\ Within /\ Inv /\ Inv' /\ [Next]_vars => Gone'
<1> SUFFICES ASSUME Gone, Gap, Past, Within, Inv, Inv', [Next]_vars PROVE Gone'
  OBVIOUS
<1>1. CASE UNCHANGED vars
  BY <1>1 DEF Gone, Few, Oldest, Flushed, vars, limits
<1>2. CASE broken'
  BY <1>2 DEF Gone
<1>3. CASE Next /\ ~broken'
  <2>1. saved' = saved \cup OnDisk(disk')
    BY <1>3 DEF Next
  <2>2. max_files \in Nat
    BY DEF Inv, Types, Control
  <2>3. CASE \E s \in SizeLimits, f \in FileLimits, r \in BOOLEAN : Start(s, f, r)
    BY <1>3, <2>1, <2>3, StartGone
  <2>4. ASSUME NEW s \in Sizes, SinkIt(s) PROVE Gone'
    <3>1. UNCHANGED <<open, broken, max_files>>
      BY <2>4 DEF SinkIt, limits
    <3>2. \/ UNCHANGED <<disk, buffer>>
          \/ disk' = Flushed /\ buffer' = <<>>
      BY <2>4 DEF SinkIt
    <3>3. QED
      BY <1>3, <2>1, <2>2, <3>1, <3>2, QuietGone, FlushGone
  <2>5. CASE RotateNow \/ RenameFails \/ (\E s \in SizeLimits : SetMaxSize(s))
    <3>1. UNCHANGED <<disk, buffer, open, max_files, broken>>
      BY <2>5 DEF RotateNow, RenameFails, SetMaxSize, limits
    <3>2. QED
      BY <1>3, <2>1, <2>2, <3>1, QuietGone
  <2>6. ASSUME NEW f \in FileLimits, SetMaxFiles(f) PROVE Gone'
    <3>1. UNCHANGED <<disk, buffer, open>> /\ max_files' = f /\ ~broken /\ ~(f < max_files)
      BY <1>3, <2>6 DEF SetMaxFiles
    <3>2. f \in Nat
      BY RotatingAssumption
    <3>3. QED
      BY <1>3, <2>1, <2>2, <3>1, <3>2, QuietGone
  <2>7. CASE Flush \/ Close
    <3>1. /\ UNCHANGED <<broken, max_files>> /\ disk' = Flushed /\ buffer' = <<>>
          /\ open' \in {open, FALSE}
      BY <2>7 DEF Flush, Close, limits
    <3>2. QED
      BY <1>3, <2>1, <3>1, FlushGone
  <2>8. CASE Write
    BY <1>3, <2>1, <2>8, WriteGone
  <2>9. CASE Shift
    BY <1>3, <2>1, <2>9, ShiftGone
  <2>10. CASE Rename
    BY <1>3, <2>1, <2>10, RenameGone
  <2>11. CASE Reopen \/ GiveUp \/ ReopenFails
    BY <1>3, <2>1, <2>11, ReopenGone
  <2>12. CASE Crash
    BY <1>3, <2>1, <2>12, CrashGone
  <2>13. QED
    BY <1>3, <2>3, <2>4, <2>5, <2>6, <2>7, <2>8, <2>9, <2>10, <2>11, <2>12
    DEF Next, Rotate
<1>4. QED
  BY <1>1, <1>2, <1>3

LEMMA GoneInit == Init => Gone /\ Past /\ Within
<1> SUFFICES ASSUME Init PROVE Gone /\ Past /\ Within
  OBVIOUS
<1>1. saved = {} /\ broken = FALSE /\ DOMAIN disk = {}
  <2>1. DOMAIN <<>> = {}
    OBVIOUS
  <2>2. QED
    BY <2>1 DEF Init
<1>2. QED
  BY <1>1 DEF Gone, Few, Oldest, Past, Within

(* Rotation takes messages from the old end only: unless a rename was      *)
(* given up or max_files_ lowered, whatever was in a file once and is in    *)
(* none now is older than all that is left.                                *)
THEOREM OldestLeaveFirst == Spec => []OldestGoFirst
<1>1. Inv /\ Gone => OldestGoFirst
  BY FlushedHasMore DEF Gone, Oldest, OldestGoFirst
<1>2. Inv' /\ [Next]_vars /\ Within => Within'
  BY SavedStep, BrokenStep, Zenon DEF Within
<1>3. QED
  BY <1>1, <1>2, InvInit, InvStep, GapInit, GapStep, GoneInit, GoneStep, PastStep,
     PTL DEF Spec

=============================================================================
