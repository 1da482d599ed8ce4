---------------------------- MODULE SinksProofs ----------------------------
(***************************************************************************)
(* What the sinks guarantee for any dispatchers, sinks and entries.  That  *)
(* std::cout is protected by a mutex of each StdoutSink is enough exactly  *)
(* while the process has one of them, which is a hypothesis here.          *)
(***************************************************************************)
EXTENDS Sinks, TLAPS

USE SinksAssumption DEF Objects, Streams, Critical, Part

OneConsole == \A s, t \in StdoutSinks : s = t

(* What a writer is made of. *)
LEMMA WriterSink ==
  \A w \in Writers : w[1] \in Dispatchers /\ w[2] \in Objects
  BY DEF Writers

(* Every sink has a stream. *)
LEMMA WriterStream == \A s \in Objects : StreamOf(s) \in Streams
  BY DEF StreamOf

(* With one console, two writers of a stream write through the same sink.   *)
LEMMA SameSink ==
  ASSUME OneConsole, NEW s \in Objects, NEW t \in Objects, StreamOf(s) = StreamOf(t)
  PROVE  s = t
  BY DEF OneConsole, StreamOf

(* Two neighbours in a sequence of length n. *)
LEMMA NotTheLast ==
  ASSUME NEW n \in Nat, NEW k \in 1..n, k # n
  PROVE  k \in 1..(n - 1) /\ k + 1 \in 1..n
  OBVIOUS

(* What appending a part to a stream does. *)
LEMMA AppendPart ==
  ASSUME NEW seq \in Seq(Part), NEW p \in Part
  PROVE  /\ Append(seq, p) \in Seq(Part)
         /\ Len(Append(seq, p)) = Len(seq) + 1
         /\ Append(seq, p)[Len(seq) + 1] = p
         /\ \A k \in 1..Len(seq) : Append(seq, p)[k] = seq[k]
  OBVIOUS

-----------------------------------------------------------------------------
(* The state is well-typed, and a mutex is held exactly by the writer that  *)
(* is between taking and releasing it: two writers of one sink are never    *)
(* both writing.                                                            *)
THEOREM TypeCorrect == Spec => []TypeOK
<1>1. Init => TypeOK
  <2> SUFFICES ASSUME Init PROVE TypeOK
    OBVIOUS
  <2>1. Nobody \notin Writers
    BY DEF Writers
  <2>2. <<>> \in Seq(Part)
    OBVIOUS
  <2>3. \A w \in Writers : holder[w[2]] = w <=> wpc[w] \in Critical
    BY <2>1, WriterSink DEF Init
  <2>4. entry \in [Dispatchers -> [number : Nat, dump : BOOLEAN]]
    BY DEF Init
  <2>5. QED
    BY <2>2, <2>3, <2>4 DEF Init, TypeOK
<1>2. TypeOK /\ [Next]_vars => TypeOK'
  <2> SUFFICES ASSUME TypeOK, [Next]_vars
               PROVE  TypeOK'
    OBVIOUS
  <2> USE DEF TypeOK, Goto, At
  <2>0. Nobody \notin Writers
    BY DEF Writers
  <2>1. ASSUME NEW d \in Dispatchers, Dispatch(d)
        PROVE  TypeOK'
    <3>1. entry' \in [Dispatchers -> [number : Nat, dump : BOOLEAN]]
      BY <2>1 DEF Dispatch
    <3>2. /\ wpc' \in [Writers -> {"done", "lock"} \cup Critical]
          /\ \A w \in Writers : wpc'[w] \in Critical <=> wpc[w] \in Critical
      BY <2>1 DEF Dispatch, AllDone
    <3>3. QED
      BY <2>1, <3>1, <3>2 DEF Dispatch
  <2>4. ASSUME NEW w \in Writers, Lock(w)
        PROVE  TypeOK'
    <3>1. w[2] \in Objects /\ holder[w[2]] = Nobody
      BY <2>4, WriterSink DEF Lock
    <3>2. \A v \in Writers : holder'[v[2]] = v <=> wpc'[v] \in Critical
      BY <2>0, <2>4, <3>1, WriterSink DEF Lock
    <3>3. holder' \in [Objects -> Writers \cup {Nobody}]
      BY <2>4 DEF Lock
    <3>4. \A s \in Objects : holder'[s] # Nobody => holder'[s][2] = s
      BY <2>4 DEF Lock
    <3>5. QED
      BY <2>4, <3>2, <3>3, <3>4 DEF Lock
  <2>5. ASSUME NEW w \in Writers, WriteText(w) \/ WriteDump(w) \/ WriteEol(w)
        PROVE  TypeOK'
    <3>1. PICK part \in Critical : Put(w, part)
      BY <2>5 DEF WriteText, WriteDump, WriteEol
    <3>2. stream' \in [Streams -> Seq(Part)]
      <4>1. StreamOf(w[2]) \in Streams /\ EntryOf(w).number \in Nat
        BY WriterSink, WriterStream DEF EntryOf
      <4>2. [line |-> <<w, EntryOf(w).number>>, part |-> part] \in Part
        BY <4>1
      <4>3. Append(stream[StreamOf(w[2])],
                   [line |-> <<w, EntryOf(w).number>>, part |-> part]) \in Seq(Part)
        BY <4>1, <4>2, AppendPart
      <4>4. QED
        BY <3>1, <4>1, <4>3 DEF Put
    <3>3. CASE WriteEol(w)
      <4>1. w[2] \in Objects /\ holder[w[2]] = w
        BY <3>3, WriterSink DEF WriteEol
      <4>2. \A v \in Writers : holder'[v[2]] = v <=> wpc'[v] \in Critical
        BY <2>0, <3>3, <4>1, WriterSink DEF WriteEol
      <4>3. QED
        BY <3>2, <3>3, <4>2 DEF WriteEol
    <3>4. CASE WriteText(w) \/ WriteDump(w)
      <4>1. PICK where \in {"dump", "eol"} : wpc' = [wpc EXCEPT ![w] = where]
        BY <3>4 DEF WriteText, WriteDump
      <4>2. wpc[w] \in Critical
        BY <3>4 DEF WriteText, WriteDump
      <4>3. /\ wpc' \in [Writers -> {"done", "lock"} \cup Critical]
            /\ \A v \in Writers : wpc'[v] \in Critical <=> wpc[v] \in Critical
        BY <4>1, <4>2
      <4>4. UNCHANGED <<entry, holder, flushed>>
        BY <3>4 DEF WriteText, WriteDump
      <4>5. QED
        BY <3>2, <4>3, <4>4
    <3>5. QED
      BY <2>5, <3>3, <3>4
  <2>6. ASSUME NEW s \in Objects, Flush(s)
        PROVE  TypeOK'
    <3>1. Len(stream[StreamOf(s)]) \in Nat
      BY WriterStream
    <3>2. flushed' \in [Streams -> Nat]
      BY <2>6, <3>1 DEF Flush
    <3>3. QED
      BY <2>6, <3>2 DEF Flush
  <2>7. CASE UNCHANGED vars
    BY <2>7 DEF vars
  <2>8. ASSUME NEW w \in Writers, Write(w)
        PROVE  TypeOK'
    BY <2>4, <2>5, <2>8 DEF Write
  <2>9. QED
    BY <2>1, <2>6, <2>7, <2>8 DEF Next
<1>3. QED
  BY <1>1, <1>2, PTL DEF Spec

-----------------------------------------------------------------------------
(* A stream ends with a whole line, or with a part of the line of the       *)
(* writer that is in the middle of it.                                      *)
Busy(w) == wpc[w] \in {"dump", "eol"}

EndsLine(seq) == seq = <<>> \/ seq[Len(seq)].part = "eol"

StreamEnds ==
  \A x \in Streams :
    IF EndsLine(stream[x])
      THEN \A w \in Writers : StreamOf(w[2]) = x => ~Busy(w)
      ELSE \E w \in Writers :
             /\ StreamOf(w[2]) = x /\ Busy(w)
             /\ stream[x][Len(stream[x])].line = <<w, EntryOf(w).number>>

FlushedWritten == \A x \in Streams : flushed[x] <= Len(stream[x])

LineInv == LinesWhole /\ StreamEnds /\ FlushedToLineEnd /\ FlushedWritten

(* Of the writers of a stream only one is between taking and releasing a    *)
(* mutex, because they share the sink and its mutex.                        *)
LEMMA OneWriter ==
  ASSUME OneConsole, TypeOK, NEW v \in Writers, NEW w \in Writers,
         StreamOf(v[2]) = StreamOf(w[2]),
         wpc[v] \in Critical, wpc[w] \in Critical
  PROVE  v = w
<1>1. v[2] = w[2]
  BY SameSink, WriterSink
<1>2. QED
  BY <1>1 DEF TypeOK

(* A writer that puts the next part of its line onto its stream: the first  *)
(* part behind a whole line, another one behind an earlier part of the line.*)
LEMMA PutKeepsLines ==
  ASSUME OneConsole, TypeOK, LineInv, NEW w \in Writers, NEW part \in Critical,
         NEW where \in {"dump", "eol", "done"}, where = "done" <=> part = "eol",
         wpc[w] = part, Put(w, part), Goto(w, where),
         entry' = entry, flushed' = flushed
  PROVE  LineInv'
<1> DEFINE x == StreamOf(w[2])
           seq == stream[x]
           p == [line |-> <<w, EntryOf(w).number>>, part |-> part]
<1>1. x \in Streams /\ seq \in Seq(Part) /\ p \in Part /\ Len(seq) \in Nat
  <2>1. x \in Streams
    BY WriterSink, WriterStream
  <2>2. EntryOf(w).number \in Nat
    BY WriterSink DEF TypeOK, EntryOf
  <2>3. p \in Part
    BY <2>2
  <2>4. seq \in Seq(Part)
    BY <2>1 DEF TypeOK
  <2>5. QED
    BY <2>1, <2>3, <2>4
<1>2. /\ stream'[x] = Append(seq, p)
      /\ \A y \in Streams : y # x => stream'[y] = stream[y]
  BY <1>1 DEF Put, TypeOK
<1>3. /\ Len(stream'[x]) = Len(seq) + 1
      /\ stream'[x][Len(seq) + 1] = p
      /\ \A k \in 1..Len(seq) : stream'[x][k] = seq[k]
  BY <1>1, <1>2, AppendPart
<1>4. /\ wpc'[w] = where
      /\ \A v \in Writers : v # w => wpc'[v] = wpc[v]
      /\ \A v \in Writers : EntryOf(v)' = EntryOf(v)
  BY DEF Goto, TypeOK, EntryOf
<1>5. \A v \in Writers : StreamOf(v[2]) = x /\ Busy(v) => v = w
  BY OneWriter DEF Busy
<1>6. IF part = "text" THEN EndsLine(seq)
      ELSE /\ ~EndsLine(seq)
           /\ seq[Len(seq)].line = p.line
  <2>1. CASE part = "text"
    <3>1. \A v \in Writers : StreamOf(v[2]) = x => ~Busy(v)
      BY <1>5, <2>1 DEF Busy
    <3>2. QED
      BY <1>1, <2>1, <3>1 DEF LineInv, StreamEnds
  <2>2. CASE part # "text"
    <3>1. Busy(w)
      BY <2>2 DEF Busy
    <3>2. ~EndsLine(seq)
      BY <1>1, <3>1 DEF LineInv, StreamEnds
    <3>3. QED
      BY <1>1, <1>5, <2>2, <3>2 DEF LineInv, StreamEnds
  <2>3. QED
    BY <2>1, <2>2
<1>7. LinesWhole'
  <2> SUFFICES ASSUME NEW y \in Streams, NEW k \in 1..(Len(stream'[y]) - 1)
               PROVE  LET here == stream'[y][k]
                          next == stream'[y][k + 1]
                      IN  IF here.part = "eol" THEN next.part = "text"
                          ELSE next.line = here.line /\ next.part # "text"
    BY DEF LinesWhole
  <2>1. CASE y # x
    <3>1. stream'[y] = stream[y] /\ k \in 1..(Len(stream[y]) - 1)
      BY <1>2, <2>1
    <3>2. QED
      BY <3>1 DEF LineInv, LinesWhole
  <2>2. CASE y = x /\ k = Len(seq)
    <3>1. seq # <<>> /\ stream'[x][k] = seq[Len(seq)] /\ stream'[x][k + 1] = p
      <4>1. k \in 1..Len(seq)
        BY <1>1, <2>2
      <4>2. stream'[x][k] = seq[Len(seq)]
        BY <1>3, <2>2, <4>1
      <4>3. stream'[x][k + 1] = p
        BY <1>3, <2>2
      <4>4. seq # <<>>
        BY <4>1
      <4>5. QED
        BY <4>2, <4>3, <4>4
    <3>2. p.part = part
      OBVIOUS
    <3>3. CASE part = "text"
      <4>1. seq[Len(seq)].part = "eol"
        BY <1>6, <3>1, <3>3 DEF EndsLine
      <4>2. QED
        BY <2>2, <3>1, <3>2, <3>3, <4>1
    <3>4. CASE part # "text"
      <4>1. seq[Len(seq)].part # "eol" /\ seq[Len(seq)].line = p.line
        BY <1>6, <3>1, <3>4 DEF EndsLine
      <4>2. QED
        BY <2>2, <3>1, <3>2, <3>4, <4>1
    <3>5. QED
      BY <3>3, <3>4
  <2>3. CASE y = x /\ k # Len(seq)
    <3>1. k \in 1..(Len(seq) - 1) /\ k \in 1..Len(seq) /\ k + 1 \in 1..Len(seq)
      <4>1. Len(stream'[y]) - 1 = Len(seq)
        BY <1>1, <1>3, <2>3
      <4>2. k \in 1..Len(seq)
        BY <4>1
      <4>3. QED
        BY <1>1, <2>3, <4>2, NotTheLast
    <3>2. stream'[x][k] = seq[k] /\ stream'[x][k + 1] = seq[k + 1]
      BY <1>3, <3>1
    <3>3. IF seq[k].part = "eol" THEN seq[k + 1].part = "text"
          ELSE seq[k + 1].line = seq[k].line /\ seq[k + 1].part # "text"
      BY <1>1, <3>1 DEF LineInv, LinesWhole
    <3>4. QED
      BY <2>3, <3>2, <3>3
  <2>4. QED
    BY <2>1, <2>2, <2>3
<1>8. StreamEnds'
  <2> SUFFICES ASSUME NEW y \in Streams
               PROVE  IF EndsLine(stream'[y])
                        THEN \A v \in Writers : StreamOf(v[2]) = y => ~Busy(v)'
                        ELSE \E v \in Writers :
                               /\ StreamOf(v[2]) = y /\ Busy(v)'
                               /\ stream'[y][Len(stream'[y])].line
                                    = <<v, EntryOf(v).number>>'
    BY DEF StreamEnds, EndsLine
  <2>1. CASE y # x
    <3>1. \A v \in Writers : StreamOf(v[2]) = y => Busy(v)' = Busy(v)
      BY <1>4, <2>1 DEF Busy
    <3>2. stream'[y] = stream[y]
      BY <1>2, <2>1
    <3>3. QED
      BY <1>4, <3>1, <3>2 DEF LineInv, StreamEnds
  <2>2. CASE y = x
    <3>1. EndsLine(stream'[x]) <=> part = "eol"
      BY <1>1, <1>2, <1>3 DEF EndsLine
    <3>2. CASE part = "eol"
      <4>1. \A v \in Writers : StreamOf(v[2]) = x => ~Busy(v)'
        BY <1>4, <1>5, <3>2 DEF Busy
      <4>2. QED
        BY <2>2, <3>1, <3>2, <4>1
    <3>3. CASE part # "eol"
      <4>1. /\ StreamOf(w[2]) = x /\ Busy(w)'
            /\ stream'[x][Len(stream'[x])].line = <<w, EntryOf(w).number>>'
        BY <1>1, <1>3, <1>4, <3>3 DEF Busy
      <4>2. QED
        BY <2>2, <3>1, <3>3, <4>1
    <3>4. QED
      BY <3>2, <3>3
  <2>3. QED
    BY <2>1, <2>2
<1>9. FlushedToLineEnd' /\ FlushedWritten'
  <2> SUFFICES ASSUME NEW y \in Streams
               PROVE  /\ flushed[y] > 0 => stream'[y][flushed[y]].part = "eol"
                      /\ flushed[y] <= Len(stream'[y])
    BY DEF FlushedToLineEnd, FlushedWritten
  <2>1. flushed[y] \in Nat /\ flushed[y] <= Len(stream[y])
    BY DEF TypeOK, LineInv, FlushedWritten
  <2>2. CASE y # x
    BY <1>2, <2>1, <2>2 DEF LineInv, FlushedToLineEnd
  <2>3. CASE y = x
    <3>1. flushed[x] > 0 => flushed[x] \in 1..Len(seq)
      BY <1>1, <2>1, <2>3
    <3>2. flushed[x] > 0 => stream'[x][flushed[x]].part = "eol"
      BY <1>1, <1>3, <3>1 DEF LineInv, FlushedToLineEnd
    <3>3. flushed[x] <= Len(stream'[x])
      BY <1>1, <1>3, <2>1, <2>3
    <3>4. QED
      BY <2>3, <3>2, <3>3
  <2>4. QED
    BY <2>2, <2>3
<1>10. QED
  BY <1>7, <1>8, <1>9 DEF LineInv

(* One StdoutSink in the process: a line, once begun, goes on to its end    *)
(* before anything else is written to its stream, and a flush() never falls *)
(* into the middle of one; files need no such hypothesis about the others.  *)
THEOREM LinesStayWhole ==
  ASSUME OneConsole
  PROVE  Spec => [](LinesWhole /\ FlushedToLineEnd)
<1>1. Init => LineInv
  <2> SUFFICES ASSUME Init PROVE LineInv
    OBVIOUS
  <2>1. /\ \A x \in Streams : stream[x] = <<>> /\ flushed[x] = 0
        /\ \A w \in Writers : wpc[w] = "done"
    BY DEF Init
  <2>2. LinesWhole
    <3>1. \A x \in Streams : 1..(Len(stream[x]) - 1) = {}
      BY <2>1
    <3>2. QED
      BY <3>1 DEF LinesWhole
  <2>3. StreamEnds
    BY <2>1 DEF StreamEnds, EndsLine, Busy
  <2>4. FlushedToLineEnd
    <3>1. \A x \in Streams : ~(flushed[x] > 0)
      BY <2>1
    <3>2. QED
      BY <3>1 DEF FlushedToLineEnd
  <2>5. FlushedWritten
    <3>1. \A x \in Streams : Len(stream[x]) = 0
      BY <2>1
    <3>2. QED
      BY <2>1, <3>1 DEF FlushedWritten
  <2>6. QED
    BY <2>2, <2>3, <2>4, <2>5 DEF LineInv
<1>2. TypeOK /\ LineInv /\ [Next]_vars => LineInv'
  <2> SUFFICES ASSUME TypeOK, LineInv, [Next]_vars
               PROVE  LineInv'
    OBVIOUS
  <2>1. ASSUME stream' = stream, flushed' = flushed,
               \A w \in Writers : Busy(w)' = Busy(w),
               \A w \in Writers : Busy(w) => EntryOf(w)' = EntryOf(w)
        PROVE  LineInv'
    BY <2>1 DEF LineInv, LinesWhole, StreamEnds, EndsLine,
                FlushedToLineEnd, FlushedWritten
  <2>2. ASSUME NEW d \in Dispatchers, Dispatch(d)
        PROVE  LineInv'
    <3>1. \A w \in Writers : Busy(w)' = Busy(w) /\ (Busy(w) => w[1] # d)
      BY <2>2 DEF Dispatch, AllDone, At, Busy, TypeOK
    <3>2. \A w \in Writers : w[1] # d => EntryOf(w)' = EntryOf(w)
      BY <2>2, WriterSink DEF Dispatch, EntryOf, TypeOK
    <3>3. QED
      BY <2>1, <2>2, <3>1, <3>2 DEF Dispatch
  <2>3. ASSUME NEW w \in Writers, Lock(w)
        PROVE  LineInv'
    <3>1. stream' = stream /\ flushed' = flushed /\ entry' = entry
      BY <2>3 DEF Lock
    <3>2. \A v \in Writers : Busy(v)' = Busy(v)
      BY <2>3 DEF Lock, At, Goto, Busy, TypeOK
    <3>3. QED
      BY <2>1, <3>1, <3>2 DEF EntryOf
  <2>4. ASSUME NEW w \in Writers, WriteText(w) \/ WriteDump(w) \/ WriteEol(w)
        PROVE  LineInv'
    <3>1. CASE WriteText(w)
      BY <3>1, PutKeepsLines DEF WriteText, At
    <3>2. CASE WriteDump(w)
      BY <3>2, PutKeepsLines DEF WriteDump, At
    <3>3. CASE WriteEol(w)
      BY <3>3, PutKeepsLines DEF WriteEol, At
    <3>4. QED
      BY <2>4, <3>1, <3>2, <3>3
  <2>5. ASSUME NEW s \in Objects, Flush(s)
        PROVE  LineInv'
    <3>1. /\ stream' = stream /\ entry' = entry /\ wpc' = wpc
          /\ StreamOf(s) \in Streams
          /\ flushed' = [flushed EXCEPT ![StreamOf(s)] = Len(stream[StreamOf(s)])]
      BY <2>5, WriterStream DEF Flush
    <3>2. \A w \in Writers : StreamOf(w[2]) = StreamOf(s) => ~Busy(w)
      <4>1. Nobody \notin Writers
        BY DEF Writers
      <4>2. \A w \in Writers : StreamOf(w[2]) = StreamOf(s) => w[2] = s
        BY SameSink, WriterSink
      <4>3. QED
        BY <2>5, <4>1, <4>2 DEF Flush, TypeOK, Busy
    <3>3. EndsLine(stream[StreamOf(s)])
      BY <3>1, <3>2 DEF LineInv, StreamEnds
    <3>4. FlushedToLineEnd' /\ FlushedWritten'
      <4>1. \A x \in Streams : stream[x] \in Seq(Part)
        BY DEF TypeOK
      <4>2. ASSUME NEW x \in Streams, x # StreamOf(s)
            PROVE  flushed'[x] = flushed[x]
        BY <3>1, <4>2 DEF TypeOK
      <4>3. flushed'[StreamOf(s)] = Len(stream[StreamOf(s)])
        BY <3>1 DEF TypeOK
      <4>4. QED
        BY <3>1, <3>3, <4>1, <4>2, <4>3
        DEF LineInv, FlushedToLineEnd, FlushedWritten, EndsLine
    <3>5. LinesWhole' /\ StreamEnds'
      BY <3>1 DEF LineInv, LinesWhole, StreamEnds, EndsLine, Busy, EntryOf
    <3>6. QED
      BY <3>4, <3>5 DEF LineInv
  <2>6. CASE UNCHANGED vars
    BY <2>1, <2>6 DEF vars, Busy, EntryOf
  <2>7. QED
    BY <2>2, <2>3, <2>4, <2>5, <2>6 DEF Next, Write
<1>3. LineInv => LinesWhole /\ FlushedToLineEnd
  BY DEF LineInv
<1>4. QED
  BY <1>1, <1>2, <1>3, TypeCorrect, PTL DEF Spec

-----------------------------------------------------------------------------
(* A writer is at work only for a dispatcher that has dispatched.           *)
Started == \A w \in Writers : wpc[w] # "done" => entry[w[1]].number > 0

(* Where w ended a line, and the lines it ended.                            *)
Ends(w) == {k \in DOMAIN stream[StreamOf(w[2])] :
              /\ stream[StreamOf(w[2])][k].line[1] = w
              /\ stream[StreamOf(w[2])][k].part = "eol"}

Ended(w) == {stream[StreamOf(w[2])][k].line[2] : k \in Ends(w)}

Ascending(w) == \A k, l \in Ends(w) :
  k < l => stream[StreamOf(w[2])][k].line[2] < stream[StreamOf(w[2])][l].line[2]

(* LinesInTurn, writer by writer.                                           *)
InTurn == \A w \in Writers : Ascending(w) /\ Ended(w) = 1..Finished(w)

(* What a part that v appends to its stream changes for w: nothing, unless  *)
(* it ends a line of w itself.                                              *)
LEMMA EndsAfterPut ==
  ASSUME TypeOK, NEW v \in Writers, NEW w \in Writers, NEW part \in Critical, Put(v, part)
  PROVE  LET out == stream[StreamOf(w[2])]
             n   == Len(out) + 1
         IN  /\ out \in Seq(Part) /\ Len(out) \in Nat
             /\ \A k \in Ends(w) : k \in 1..Len(out) /\ stream'[StreamOf(w[2])][k] = out[k]
             /\ v = w /\ part = "eol" =>
                  /\ Ends(w)' = Ends(w) \cup {n}
                  /\ stream'[StreamOf(w[2])][n].line[2] = EntryOf(w).number
             /\ ~(v = w /\ part = "eol") => Ends(w)' = Ends(w)
<1> DEFINE x == StreamOf(w[2])
           out == stream[x]
           n == Len(out) + 1
           p == [line |-> <<v, EntryOf(v).number>>, part |-> part]
<1>1. /\ x \in Streams /\ StreamOf(v[2]) \in Streams
      /\ out \in Seq(Part) /\ Len(out) \in Nat /\ EntryOf(v).number \in Nat
  <2>1. x \in Streams /\ StreamOf(v[2]) \in Streams
    BY WriterSink, WriterStream
  <2>2. EntryOf(v).number \in Nat
    BY WriterSink DEF TypeOK, EntryOf
  <2>3. out \in Seq(Part)
    BY <2>1 DEF TypeOK
  <2>4. QED
    BY <2>1, <2>2, <2>3
<1>2. p \in Part /\ p.line[1] = v /\ p.line[2] = EntryOf(v).number /\ p.part = part
  BY <1>1
<1>3. CASE StreamOf(v[2]) # x
  <2>1. stream'[x] = out /\ v # w
    BY <1>1, <1>3 DEF Put, TypeOK
  <2>2. Ends(w)' = Ends(w)
    BY <2>1 DEF Ends
  <2>3. \A k \in Ends(w) : k \in 1..Len(out)
    BY <1>1 DEF Ends
  <2>4. QED
    BY <1>1, <2>1, <2>2, <2>3
<1>4. CASE StreamOf(v[2]) = x
  <2>1. stream'[x] = Append(out, p)
    BY <1>1, <1>4 DEF Put, TypeOK
  <2> HIDE DEF p
  <2>2. /\ stream'[x] \in Seq(Part) /\ Len(stream'[x]) = n
        /\ stream'[x][n] = p
        /\ \A k \in 1..Len(out) : stream'[x][k] = out[k]
    BY <1>1, <1>2, <2>1, AppendPart
  <2> HIDE DEF out, x
  <2>3. DOMAIN stream'[x] = 1..Len(out) \cup {n} /\ DOMAIN out = 1..Len(out)
    <3>1. DOMAIN stream'[x] = 1..n
      BY <2>2
    <3>2. 1..n = 1..Len(out) \cup {n}
      BY <1>1 DEF n
    <3>3. QED
      BY <1>1, <3>1, <3>2
  <2>4. /\ Ends(w) = {k \in DOMAIN out : out[k].line[1] = w /\ out[k].part = "eol"}
        /\ Ends(w)' = {k \in DOMAIN stream'[x] :
                         stream'[x][k].line[1] = w /\ stream'[x][k].part = "eol"}
    BY DEF Ends, out, x
  <2>5. \A k \in Ends(w) : k \in 1..Len(out) /\ stream'[x][k] = out[k]
    BY <2>2, <2>3, <2>4
  <2> HIDE DEF n
  <2>6. ASSUME v = w, part = "eol"
        PROVE  Ends(w)' = Ends(w) \cup {n} /\ stream'[x][n].line[2] = EntryOf(w).number
    <3>1. \A k \in 1..Len(out) : stream'[x][k] = out[k]
      BY <2>2
    <3>2. stream'[x][n].line[1] = w /\ stream'[x][n].part = "eol"
      BY <1>2, <2>2, <2>6
    <3>3. QED
      BY <1>2, <2>2, <2>3, <2>4, <2>6, <3>1, <3>2
  <2>7. ASSUME ~(v = w /\ part = "eol")
        PROVE  Ends(w)' = Ends(w)
    <3>1. \A k \in 1..Len(out) : stream'[x][k] = out[k]
      BY <2>2
    <3>2. ~(stream'[x][n].line[1] = w /\ stream'[x][n].part = "eol")
      BY <1>2, <2>2, <2>7
    <3>3. QED
      BY <2>3, <2>4, <3>1, <3>2
  <2>8. QED
    BY <1>1, <2>5, <2>6, <2>7 DEF x, out, n
<1>5. QED
  BY <1>3, <1>4

(* Steps that write nothing, or not for w, leave w where it is.             *)
LEMMA TurnKept ==
  ASSUME NEW w \in Writers, Ascending(w), Ended(w) = 1..Finished(w),
         Finished(w)' = Finished(w), Ends(w)' = Ends(w),
         \A k \in Ends(w) :
           stream'[StreamOf(w[2])][k] = stream[StreamOf(w[2])][k]
  PROVE  Ascending(w)' /\ Ended(w)' = 1..Finished(w)'
<1>1. Ascending(w)'
  BY DEF Ascending
<1>2. Ended(w)' = Ended(w)
  BY DEF Ended
<1>3. QED
  BY <1>1, <1>2

(* However many threads dispatch to the same sinks: each writer ends its    *)
(* lines in order, one for each entry before the one in hand, which is what *)
(* the barrier of dispatch() is for.                                        *)
THEOREM WritersInTurn == Spec => []LinesInTurn
<1> DEFINE TurnInv == Started /\ InTurn
<1>1. Init => TurnInv
  <2> SUFFICES ASSUME Init PROVE TurnInv
    OBVIOUS
  <2>1. Started
    BY DEF Init, Started
  <2>2. ASSUME NEW w \in Writers PROVE Ascending(w) /\ Ended(w) = 1..Finished(w)
    <3>1. stream[StreamOf(w[2])] = <<>> /\ Finished(w) = 0
      BY WriterSink, WriterStream DEF Init, Finished, At, EntryOf
    <3>2. Ends(w) = {}
      BY <3>1 DEF Ends
    <3>3. Ended(w) = {} /\ Ascending(w)
      BY <3>2 DEF Ended, Ascending
    <3>4. QED
      BY <3>1, <3>3
  <2>3. QED
    BY <2>1, <2>2 DEF InTurn
<1>2. TypeOK /\ TurnInv /\ [Next]_vars => TurnInv'
  <2> SUFFICES ASSUME TypeOK, Started, InTurn, [Next]_vars
               PROVE  Started' /\ InTurn'
    OBVIOUS
  <2>0. \A w \in Writers : Ascending(w) /\ Ended(w) = 1..Finished(w)
    BY DEF InTurn
  <2>1. ASSUME stream' = stream, \A w \in Writers : Finished(w)' = Finished(w)
        PROVE  InTurn'
    <3>1. ASSUME NEW w \in Writers PROVE (Ascending(w) /\ Ended(w) = 1..Finished(w))'
      <4>1. Ends(w)' = Ends(w) /\ Finished(w)' = Finished(w)
        BY <2>1 DEF Ends
      <4>2. QED
        BY <2>0, <2>1, <4>1, TurnKept
    <3>2. QED
      BY <3>1 DEF InTurn
  <2>2. ASSUME NEW d \in Dispatchers, Dispatch(d)
        PROVE  Started' /\ InTurn'
    <3>1. /\ \A w \in Writers : w[1] = d => wpc[w] = "done" /\ wpc'[w] = "lock"
          /\ \A w \in Writers : w[1] # d => wpc'[w] = wpc[w]
          /\ \A c \in Dispatchers \ {d} : entry'[c] = entry[c]
          /\ entry'[d].number = entry[d].number + 1 /\ entry[d].number \in Nat
      BY <2>2 DEF Dispatch, AllDone, At, TypeOK
    <3>2. Started'
      BY <3>1, WriterSink DEF Started
    <3>3. \A w \in Writers : Finished(w)' = Finished(w)
      BY <3>1, WriterSink DEF Finished, At, EntryOf
    <3>4. QED
      BY <2>1, <2>2, <3>2, <3>3 DEF Dispatch
  <2>3. ASSUME NEW w \in Writers, Lock(w)
        PROVE  Started' /\ InTurn'
    <3>1. /\ entry' = entry /\ wpc[w] = "lock" /\ wpc'[w] = "text"
          /\ \A v \in Writers : v # w => wpc'[v] = wpc[v]
      BY <2>3 DEF Lock, At, Goto, TypeOK
    <3>2. Started' /\ \A v \in Writers : Finished(v)' = Finished(v)
      BY <3>1 DEF Started, Finished, At, EntryOf
    <3>3. QED
      BY <2>1, <2>3, <3>2 DEF Lock
  <2>4. ASSUME NEW w \in Writers, WriteText(w) \/ WriteDump(w) \/ WriteEol(w)
        PROVE  Started' /\ InTurn'
    <3>1. PICK part \in Critical :
            /\ Put(w, part) /\ wpc[w] = part
            /\ wpc'[w] # "done" <=> part # "eol"
            /\ \A v \in Writers : v # w => wpc'[v] = wpc[v]
            /\ entry' = entry
      <4>1. CASE WriteText(w)
        BY <4>1 DEF WriteText, At, Goto, TypeOK
      <4>2. CASE WriteDump(w)
        BY <4>2 DEF WriteDump, At, Goto, TypeOK
      <4>3. CASE WriteEol(w)
        BY <4>3 DEF WriteEol, At, Goto, TypeOK
      <4>4. QED
        BY <2>4, <4>1, <4>2, <4>3
    <3>2. Started'
      BY <3>1 DEF Started
    <3>3. ASSUME NEW v \in Writers PROVE (Ascending(v) /\ Ended(v) = 1..Finished(v))'
      <4>1. CASE ~(v = w /\ part = "eol")
        <5>1. Finished(v)' = Finished(v)
          BY <3>1, <4>1 DEF Finished, At, EntryOf
        <5>2. /\ Ends(v)' = Ends(v)
              /\ \A k \in Ends(v) :
                   stream'[StreamOf(v[2])][k] = stream[StreamOf(v[2])][k]
          BY <3>1, <4>1, EndsAfterPut
        <5>3. QED
          BY <2>0, <5>1, <5>2, TurnKept
      <4>2. CASE v = w /\ part = "eol"
        <5> DEFINE out == stream[StreamOf(v[2])]
                   n == Len(out) + 1
                   number == EntryOf(v).number
        <5>1. /\ out \in Seq(Part) /\ Len(out) \in Nat
              /\ \A k \in Ends(v) : k \in 1..Len(out) /\ stream'[StreamOf(v[2])][k] = out[k]
              /\ Ends(v)' = Ends(v) \cup {n}
              /\ stream'[StreamOf(v[2])][n].line[2] = number
          <6>1. Put(v, "eol") /\ "eol" \in Critical
            BY <3>1, <4>2
          <6>2. QED
            BY <6>1, EndsAfterPut
        <5>2. /\ number \in Nat /\ number > 0
              /\ Finished(v) = number - 1 /\ Finished(v)' = number
          BY <3>1, <4>2, WriterSink DEF Started, Finished, At, EntryOf, TypeOK
        <5> HIDE DEF out, n, number
        <5>3. Ended(v)' = Ended(v) \cup {number}
          <6>1. Ended(v)' = {stream'[StreamOf(v[2])][k].line[2] : k \in Ends(v) \cup {n}}
            BY <5>1 DEF Ended
          <6>2. Ended(v) = {out[k].line[2] : k \in Ends(v)}
            BY DEF Ended, out
          <6>3. \A k \in Ends(v) : stream'[StreamOf(v[2])][k].line[2] = out[k].line[2]
            BY <5>1
          <6>4. QED
            BY <5>1, <6>1, <6>2, <6>3
        <5>4. Ended(v)' = 1..Finished(v)'
          <6>1. 1..number = 1..(number - 1) \cup {number}
            BY <5>2
          <6>2. QED
            BY <2>0, <5>2, <5>3, <6>1
        <5>5. \A k \in Ends(v) : out[k].line[2] \in 1..(number - 1)
          BY <2>0, <5>2 DEF Ended, out
        <5>6. Ascending(v)'
          <6>1. SUFFICES ASSUME NEW k \in Ends(v)', NEW l \in Ends(v)', k < l
                         PROVE  stream'[StreamOf(v[2])][k].line[2]
                                  < stream'[StreamOf(v[2])][l].line[2]
            BY DEF Ascending
          <6>2. k \in Ends(v)
            BY <5>1, <6>1 DEF n
          <6>3. CASE l = n
            BY <5>1, <5>2, <5>5, <6>2, <6>3
          <6>4. CASE l # n
            BY <2>0, <5>1, <6>1, <6>2, <6>4 DEF Ascending, out
          <6>5. QED
            BY <6>3, <6>4
        <5>7. QED
          BY <5>4, <5>6
      <4>3. QED
        BY <4>1, <4>2
    <3>4. QED
      BY <3>2, <3>3 DEF InTurn
  <2>5. CASE UNCHANGED vars \/ \E s \in Objects : Flush(s)
    <3>1. UNCHANGED <<entry, wpc, stream>>
      BY <2>5 DEF vars, Flush
    <3>2. Started' /\ \A v \in Writers : Finished(v)' = Finished(v)
      BY <3>1 DEF Started, Finished, At, EntryOf
    <3>3. QED
      BY <2>1, <3>1, <3>2
  <2>6. QED
    BY <2>2, <2>3, <2>4, <2>5 DEF Next, Write
<1>3. InTurn => LinesInTurn
  BY DEF InTurn, LinesInTurn, Ends, Ended, Ascending
<1>4. QED
  BY <1>1, <1>2, <1>3, TypeCorrect, PTL DEF Spec

=============================================================================
