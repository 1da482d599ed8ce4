-------------------------------- MODULE Sinks --------------------------------
(***************************************************************************)
(* StdoutSink and FileSink of include/sinks/, written to by dispatchers:   *)
(* threads that run Logger::dispatch(), which are the workers of the       *)
(* asynchronous loggers and the callers of the synchronous ones.  A        *)
(* dispatcher writes an entry to all its sinks in parallel and waits for   *)
(* them; other threads may flush the sinks at any moment.                  *)
(*                                                                         *)
(* Each output operation is a step.  One operation on a standard stream is *)
(* not torn by another, so a line is torn between operations only.  What   *)
(* comes before the lock, the conversion of the entry's time, is left out. *)
(*                                                                         *)
(* A definition that no other uses is a plausible fault of the one that    *)
(* follows it; a check that replaces the latter by it must fail.           *)
(***************************************************************************)
EXTENDS Naturals, Sequences, Functions

CONSTANTS
  Dispatchers,   \* threads that run dispatch()
  StdoutSinks,   \* StdoutSink objects
  FileSinks,     \* FileSink objects, each with a file of its own
  Attached,      \* the sinks each dispatcher's logger writes to
  Nobody,        \* no writer
  MaxEntries     \* bound: entries dispatched, by all together

Objects == StdoutSinks \cup FileSinks

ASSUME SinksAssumption ==
  /\ StdoutSinks \cap FileSinks = {}
  /\ Attached \in [Dispatchers -> SUBSET Objects]
  /\ Nobody \notin Dispatchers \X Objects
  /\ "std::cout" \notin FileSinks
  /\ MaxEntries \in Nat

(* The thread that writes d's entry to sink s, in d's parallel loop.       *)
Writers == {w \in Dispatchers \X Objects : w[2] \in Attached[w[1]]}

(* Where a sink writes: std::cout belongs to the process.                  *)
StreamOf(s) == IF s \in StdoutSinks THEN "std::cout" ELSE s

Streams == {"std::cout"} \cup FileSinks

VARIABLES
  entry,    \* the entry each dispatcher is dispatching
  wpc,      \* where each writer stands in write()
  holder,   \* who holds the mutex_ of each sink
  stream,   \* what was written to each stream
  flushed   \* how much of it the last flush() covered

vars == <<entry, wpc, holder, stream, flushed>>

-----------------------------------------------------------------------------
At(w, where) == wpc[w] = where

Goto(w, where) == wpc' = [wpc EXCEPT ![w] = where]

EntryOf(w) == entry[w[1]]

(* A writer appends a part of the line of its entry to its stream.         *)
Put(w, part) ==
  stream' = [stream EXCEPT ![StreamOf(w[2])] =
               Append(@, [line |-> <<w, EntryOf(w).number>>, part |-> part])]

NoBarrier(d) == \E w \in Writers : w[1] = d /\ At(w, "done")

(* The barrier at the end of the parallel loop of dispatch().              *)
AllDone(d) == \A w \in Writers : w[1] = d => At(w, "done")

Dispatched == FoldFunction(+, 0, [d \in Dispatchers |-> entry[d].number])

Dispatch(d) ==
  /\ AllDone(d)
  /\ Dispatched < MaxEntries
  /\ \E dump \in BOOLEAN :
       entry' = [entry EXCEPT ![d] = [number |-> @.number + 1, dump |-> dump]]
  /\ wpc' = [w \in Writers |-> IF w[1] = d /\ At(w, "done") THEN "lock" ELSE wpc[w]]
  /\ UNCHANGED <<holder, stream, flushed>>

LockNothing(w) ==
  /\ At(w, "lock")
  /\ Goto(w, "text")
  /\ UNCHANGED <<entry, holder, stream, flushed>>

Lock(w) ==
  /\ At(w, "lock")
  /\ holder[w[2]] = Nobody
  /\ holder' = [holder EXCEPT ![w[2]] = w]
  /\ Goto(w, "text")
  /\ UNCHANGED <<entry, stream, flushed>>

(* A StdoutSink has the dump in the text; a FileSink writes it separately. *)
WriteText(w) ==
  /\ At(w, "text")
  /\ Put(w, "text")
  /\ Goto(w, IF w[2] \in FileSinks /\ EntryOf(w).dump THEN "dump" ELSE "eol")
  /\ UNCHANGED <<entry, holder, flushed>>

WriteDump(w) ==
  /\ At(w, "dump")
  /\ Put(w, "dump")
  /\ Goto(w, "eol")
  /\ UNCHANGED <<entry, holder, flushed>>

(* The newline; then write() returns and releases mutex_.                  *)
WriteEol(w) ==
  /\ At(w, "eol")
  /\ Put(w, "eol")
  /\ Goto(w, "done")
  /\ holder' = [holder EXCEPT ![w[2]] = Nobody]
  /\ UNCHANGED <<entry, flushed>>

FlushUnlocked(s) ==
  /\ flushed' = [flushed EXCEPT ![StreamOf(s)] = Len(stream[StreamOf(s)])]
  /\ UNCHANGED <<entry, wpc, holder, stream>>

(* flush() of a sink, called by any thread.                                *)
Flush(s) ==
  /\ holder[s] = Nobody
  /\ flushed' = [flushed EXCEPT ![StreamOf(s)] = Len(stream[StreamOf(s)])]
  /\ UNCHANGED <<entry, wpc, holder, stream>>

Init ==
  /\ entry = [d \in Dispatchers |-> [number |-> 0, dump |-> FALSE]]
  /\ wpc = [w \in Writers |-> "done"]
  /\ holder = [s \in Objects |-> Nobody]
  /\ stream = [x \in Streams |-> <<>>]
  /\ flushed = [x \in Streams |-> 0]

Write(w) == Lock(w) \/ WriteText(w) \/ WriteDump(w) \/ WriteEol(w)

Next ==
  \/ \E d \in Dispatchers : Dispatch(d)
  \/ \E w \in Writers : Write(w)
  \/ \E s \in Objects : Flush(s)

Spec == Init /\ [][Next]_vars

-----------------------------------------------------------------------------
Critical == {"text", "dump", "eol"}

Part == [line : Writers \X Nat, part : Critical]

(* The values each variable takes; a mutex is held exactly by the writer    *)
(* that is between taking and releasing it.                                 *)
TypeOK ==
  /\ entry \in [Dispatchers -> [number : Nat, dump : BOOLEAN]]
  /\ wpc \in [Writers -> {"done", "lock"} \cup Critical]
  /\ holder \in [Objects -> Writers \cup {Nobody}]
  /\ \A w \in Writers : holder[w[2]] = w <=> wpc[w] \in Critical
  /\ \A s \in Objects : holder[s] # Nobody => holder[s][2] = s
  /\ stream \in [Streams -> Seq(Part)]
  /\ flushed \in [Streams -> Nat]

(* stdout_sink.hpp:15: "Protect std::cout from interleaved output across    *)
(* threads", and the same for files: a line, once begun, goes on to its end *)
(* before anything else is written to its stream.                           *)
LinesWhole ==
  \A x \in Streams : \A k \in 1..(Len(stream[x]) - 1) :
    LET here == stream[x][k]
        next == stream[x][k + 1]
    IN  IF here.part = "eol" THEN next.part = "text"
        ELSE next.line = here.line /\ next.part # "text"

(* A flush() never falls into the middle of a line.                         *)
FlushedToLineEnd ==
  \A x \in Streams :
    flushed[x] > 0 => stream[x][flushed[x]].part = "eol"

(* How many lines w has finished: that of the entry in hand too, if w is    *)
(* done with it.                                                            *)
Finished(w) == IF At(w, "done") THEN EntryOf(w).number ELSE EntryOf(w).number - 1

(* The barrier of dispatch(): when it returns every sink has the line of    *)
(* the entry to its end, once, and until then no sink is given the next     *)
(* one.  The lines that a writer has finished are those of its entries one  *)
(* by one, in order, up to the one in hand or the one before: to Logger     *)
(* write() is the single step it is taken for.                              *)
LinesInTurn ==
  \A w \in Writers :
    LET out  == stream[StreamOf(w[2])]
        ends == {k \in DOMAIN out : out[k].line[1] = w /\ out[k].part = "eol"}
    IN  /\ \A k, l \in ends : k < l => out[k].line[2] < out[l].line[2]
        /\ {out[k].line[2] : k \in ends} = 1..Finished(w)

=============================================================================
