------------------------------- MODULE Logger -------------------------------
(***************************************************************************)
(* The Logger of include/logger.hpp and src/logger.cpp, composed with the  *)
(* BoundedQueue it owns.  Three kinds of threads run in it: the clients,   *)
(* which call log() and flush(); the worker, which runs drain_loop(); and  *)
(* the owner, which runs ~Logger().                                        *)
(*                                                                         *)
(* Between two accesses to shared state (the queue, pending_, drained_cv_, *)
(* a sink) any other thread may run.  drained_mutex_ is held by the client *)
(* at "decided"; the notifiers of drained_cv_ do not take it.              *)
(*                                                                         *)
(* A definition that no other uses is a plausible fault of the one that    *)
(* follows it; a check that replaces the latter by it must fail.           *)
(***************************************************************************)
EXTENDS Integers, Sequences, FiniteSets

CONSTANTS
  Clients,         \* threads of the program that call log()
  Flushers,        \* those that also call flush()
  Worker,          \* the thread that runs drain_loop()
  Owner,           \* the thread that runs ~Logger()
  NumSinks,        \* sinks_.size()
  Async,           \* policy_.async
  OverflowPolicy,  \* policy_.overflow_policy
  Capacity,        \* policy_.queue_capacity
  OwnerWaits,      \* does the owner wait for every call to return first?
  MaxLogs          \* bound: entries each client logs

ASSUME LoggerAssumption ==
  /\ Flushers \subseteq Clients
  /\ Worker \notin Clients /\ Owner \notin Clients /\ Worker # Owner
  /\ IsFiniteSet(Clients)
  /\ NumSinks \in Nat /\ MaxLogs \in Nat
  /\ Async \in BOOLEAN /\ OwnerWaits \in BOOLEAN
  /\ OverflowPolicy \in {"DROP_NEWEST", "DROP_OLDEST", "BLOCK"}
  /\ Capacity \in Nat
  /\ OverflowPolicy = "DROP_OLDEST" => Capacity > 0

Actors == Clients \cup {Worker, Owner}
Sinks  == 1..NumSinks
Entry  == Clients \X (1..MaxLogs)   \* <<client, number of its log() call>>

VARIABLES
  data, stopped, qpc, held, undelivered, out,  \* queue_, see BoundedQueue
  pending,  \* pending_
  pc,       \* where each thread stands in the Logger's code
  calls,    \* log() calls that passed min_level_, per client
  todo,     \* sinks that a thread's loop over sinks_ has still to visit
  written,  \* what each sink received, in order
  flushed,  \* how much of it the sink's last flush() covered
  lastPass  \* the worker has left the main loop of drain_loop()

(* What happened, for the properties; the code keeps none of it.           *)
VARIABLES
  dropped,  \* entries a push() reported undelivered
  owed,     \* per client: entries logged when its flush() was called
  missed    \* flushers whose notification came between check and sleep

qvars == <<data, stopped, qpc, held, undelivered, out>>
hist  == <<dropped, owed, missed>>
vars  == <<qvars, pending, pc, calls, todo, written, flushed, lastPass, hist>>

Q == INSTANCE BoundedQueue
       WITH Producers <- Clients, Consumers <- {Worker}, Stopper <- Owner,
            Item <- Entry, Policies <- {OverflowPolicy}

-----------------------------------------------------------------------------
At(t, where) == pc[t] = where

(* t goes on at "where"; when the destructor is done the object is gone    *)
(* and no thread does anything to it any more.                             *)
Runs(t, where) == At(t, where) /\ ~At(Owner, "destroyed")

Goto(t, where) == pc' = [pc EXCEPT ![t] = where]

Contents(seq) == {seq[i] : i \in DOMAIN seq}

(* The entry of the log() call that a client is in.                        *)
Current(t) == <<t, calls[t]>>

HandlingLast(t) ==
  IF t = Worker THEN out[Worker][Len(out[Worker])] ELSE Current(t)

(* The entry a dispatching thread hands to the sinks.                      *)
Handling(t) == IF t = Worker THEN Head(out[Worker]) ELSE Current(t)

InLog(t) == pc[t] \in {"push", "pushed", "announce", "dispatch"}

(* Entries whose log() call has returned.                                  *)
Returned == {e \in Entry : e[2] <= calls[e[1]] - (IF InLog(e[1]) THEN 1 ELSE 0)}

(* What the return value of the push that is ending says about entries.    *)
Loss(t) ==
  IF undelivered'[t] = 0 \/ qpc'[t] = "not_full" THEN {}
  ELSE IF OverflowPolicy = "DROP_OLDEST" THEN {Head(data)}
  ELSE {Current(t)}

RecordPush(t) ==
  /\ dropped' = dropped \cup Loss(t)
  /\ UNCHANGED <<owed, missed>>

CountNothing == UNCHANGED pending

CountUp == pending' = pending + 1

ReachesMinusOne == pending = 0

(* Does a fetch_sub(1), which returns the old value, take it to zero?      *)
ReachesZero == pending = 1

(* pending_.fetch_sub(1): only the thread that takes it to zero announces. *)
CountDown(t, otherwise) ==
  /\ pending' = pending - 1
  /\ Goto(t, IF ReachesZero THEN "announce" ELSE otherwise)

-----------------------------------------------------------------------------
(* log(), with level >= min_level_: a call below it returns at once and    *)
(* changes nothing.  Nobody calls a logger that is being destroyed.        *)
Log(t) ==
  /\ Runs(t, "idle")
  /\ Runs(Owner, "idle")
  /\ calls[t] < MaxLogs
  /\ calls' = [calls EXCEPT ![t] = @ + 1]
  /\ IF Async THEN CountUp /\ Goto(t, "push")
              ELSE UNCHANGED pending /\ Goto(t, "dispatch")
  /\ UNCHANGED <<qvars, todo, written, flushed, lastPass, hist>>

LogPush(t) ==
  /\ Runs(t, "push")
  /\ Q!Push(t, Current(t), OverflowPolicy)
  /\ Goto(t, "pushed")
  /\ RecordPush(t)
  /\ UNCHANGED <<pending, calls, todo, written, flushed, lastPass>>

LogResume(t) ==
  /\ Runs(t, "pushed")
  /\ Q!PushResume(t)
  /\ RecordPush(t)
  /\ UNCHANGED <<pending, pc, calls, todo, written, flushed, lastPass>>

LogNotify(t) ==
  /\ Runs(t, "pushed")
  /\ Q!PushNotify(t)
  /\ UNCHANGED <<pending, pc, calls, todo, written, flushed, lastPass, hist>>

AlwaysGivesBack(t) == TRUE

GivesBack(t) == undelivered[t] > 0

(* push() has returned: take the undelivered entry back from pending_.     *)
LogReturn(t) ==
  /\ Runs(t, "pushed")
  /\ qpc[t] = "idle"
  /\ IF GivesBack(t) THEN CountDown(t, "idle")
                     ELSE Goto(t, "idle") /\ UNCHANGED pending
  /\ UNCHANGED <<qvars, calls, todo, written, flushed, lastPass, hist>>

-----------------------------------------------------------------------------
(* dispatch() runs one iteration of a parallel loop per sink: the sinks    *)
(* take the entry in any order, each under its own mutex.                  *)
WriteSink(t, i) ==
  /\ Runs(t, "dispatch")
  /\ i \in todo[t]
  /\ written' = [written EXCEPT ![i] = Append(@, Handling(t))]
  /\ todo' = [todo EXCEPT ![t] = @ \ {i}]
  /\ UNCHANGED <<qvars, pending, pc, calls, flushed, lastPass, hist>>

NoWait(t) == TRUE

(* The barrier that ends the parallel loop.                                *)
Barrier(t) == todo[t] = {}

(* A synchronous log() call returns.                                       *)
SyncReturn(t) ==
  /\ t \in Clients
  /\ Runs(t, "dispatch")
  /\ Barrier(t)
  /\ todo' = [todo EXCEPT ![t] = Sinks]
  /\ Goto(t, "idle")
  /\ UNCHANGED <<qvars, pending, calls, written, flushed, lastPass, hist>>

(* drained_cv_.notify_all(), with drained_mutex_ not held: a flusher that  *)
(* has decided to wait but does not sleep yet gets nothing.                *)
WakeFlushers(t, next) ==
  /\ pc' = [u \in Actors |-> IF u = t THEN next
                             ELSE IF pc[u] = "asleep" THEN "flush" ELSE pc[u]]
  /\ missed' = {u \in Clients : At(u, "decided")}
  /\ UNCHANGED <<qvars, pending, calls, todo, written, flushed, lastPass,
                 dropped, owed>>

LogAnnounce(t) == Runs(t, "announce") /\ WakeFlushers(t, "idle")

-----------------------------------------------------------------------------
(* flush() on a synchronous logger goes straight to the sinks.             *)
Flush(t) ==
  /\ t \in Flushers
  /\ Runs(t, "idle")
  /\ Runs(Owner, "idle")
  /\ Goto(t, IF Async THEN "flush" ELSE "sinks")
  /\ owed' = [owed EXCEPT ![t] = Returned]
  /\ UNCHANGED <<qvars, pending, calls, todo, written, flushed, lastPass,
                 dropped, missed>>

(* The wait predicate of flush().                                          *)
Drained == pending = 0

(* The predicate is evaluated with drained_mutex_ held.                    *)
FlushCheck(t) ==
  /\ Runs(t, "flush")
  /\ \A u \in Clients : ~At(u, "decided")
  /\ Goto(t, IF Drained THEN "sinks" ELSE "decided")
  /\ UNCHANGED <<qvars, pending, calls, todo, written, flushed, lastPass, hist>>

(* drained_cv_ releases drained_mutex_ and blocks.                         *)
FlushSleep(t) ==
  /\ Runs(t, "decided")
  /\ Goto(t, "asleep")
  /\ UNCHANGED <<qvars, pending, calls, todo, written, flushed, lastPass, hist>>

(* The loop "for (auto& s : sinks_) s->flush()" of flush() and ~Logger().  *)
FlushSink(t) ==
  /\ Runs(t, "sinks")
  /\ \E i \in todo[t] :
       /\ \A j \in todo[t] : i <= j
       /\ flushed' = [flushed EXCEPT ![i] = Len(written[i])]
       /\ todo' = [todo EXCEPT ![t] = @ \ {i}]
  /\ UNCHANGED <<qvars, pending, pc, calls, written, lastPass, hist>>

SinksDone(t) ==
  /\ Runs(t, "sinks")
  /\ todo[t] = {}
  /\ todo' = [todo EXCEPT ![t] = Sinks]
  /\ Goto(t, IF t = Owner THEN "destroyed" ELSE "idle")
  /\ owed' = [u \in Clients |-> IF u = t THEN {} ELSE owed[u]]
  /\ UNCHANGED <<qvars, pending, calls, written, flushed, lastPass,
                 dropped, missed>>

-----------------------------------------------------------------------------
(* drain_loop(): the main loop, then the pass over what is left after it.  *)
WorkerDrain ==
  /\ Runs(Worker, "drain")
  /\ Q!Drain(Worker)
  /\ Goto(Worker, "drained")
  /\ UNCHANGED <<pending, calls, todo, written, flushed, lastPass, hist>>

WorkerInDrain ==
  /\ Runs(Worker, "drained")
  /\ \/ qpc[Worker] = "re_not_empty" /\ Q!Drain(Worker)
     \/ Q!DrainNotify(Worker)
  /\ UNCHANGED <<pending, pc, calls, todo, written, flushed, lastPass, hist>>

WorkerDrained ==
  /\ Runs(Worker, "drained")
  /\ qpc[Worker] = "idle"
  /\ IF out[Worker] # <<>>
       THEN Goto(Worker, "dispatch") /\ UNCHANGED lastPass
       ELSE Goto(Worker, IF lastPass THEN "exited" ELSE "final") /\ lastPass' = TRUE
  /\ UNCHANGED <<qvars, pending, calls, todo, written, flushed, hist>>

(* while (!queue_.empty()) of the last pass                                *)
WorkerFinal ==
  /\ Runs(Worker, "final")
  /\ Goto(Worker, IF data = <<>> THEN "exited" ELSE "drain")
  /\ UNCHANGED <<qvars, pending, calls, todo, written, flushed, lastPass, hist>>

StopsMidBatch(rest) == IF lastPass THEN "final" ELSE "drain"

(* Where the worker goes after an entry, with the rest of the batch.       *)
NextEntry(rest) ==
  IF rest # <<>> THEN "dispatch" ELSE IF lastPass THEN "final" ELSE "drain"

(* Every sink has the entry: count it down and step to the next one.       *)
WorkerCount ==
  /\ Runs(Worker, "dispatch")
  /\ Barrier(Worker)
  /\ todo' = [todo EXCEPT ![Worker] = Sinks]
  /\ Q!Consume(Worker)
  /\ CountDown(Worker, NextEntry(out'[Worker]))
  /\ UNCHANGED <<calls, written, flushed, lastPass, hist>>

WorkerAnnounce ==
  Runs(Worker, "announce") /\ WakeFlushers(Worker, NextEntry(out[Worker]))

(* dispatch() returns, to drain_loop() or to the log() of a synchronous     *)
(* logger.                                                                  *)
DispatchReturns(t) == IF t = Worker THEN WorkerCount ELSE SyncReturn(t)

(* Whoever took pending_ to zero calls notify_all().                        *)
Announce(t) == IF t = Worker THEN WorkerAnnounce ELSE LogAnnounce(t)

-----------------------------------------------------------------------------
(* ~Logger()                                                               *)
Destroy ==
  /\ Runs(Owner, "idle")
  /\ OwnerWaits => \A t \in Clients : At(t, "idle")
  /\ IF Async THEN Q!Stop(Owner) /\ Goto(Owner, "stopping")
              ELSE UNCHANGED qvars /\ Goto(Owner, "sinks")
  /\ UNCHANGED <<pending, calls, todo, written, flushed, lastPass, hist>>

OwnerInStop ==
  /\ Q!StopNotify(Owner)
  /\ UNCHANGED <<pending, pc, calls, todo, written, flushed, lastPass, hist>>

NotJoined == TRUE

Exited == At(Worker, "exited")

(* worker_.join()                                                          *)
Join ==
  /\ Runs(Owner, "stopping")
  /\ qpc[Owner] = "idle"
  /\ Exited
  /\ Goto(Owner, "sinks")
  /\ UNCHANGED <<qvars, pending, calls, todo, written, flushed, lastPass, hist>>

-----------------------------------------------------------------------------
(* The condition variables may wake a waiter that nobody notified.         *)
QueueSpuriousWake(t) ==
  /\ ~At(Owner, "destroyed")
  /\ Q!SpuriousWake(t)
  /\ UNCHANGED <<pending, pc, calls, todo, written, flushed, lastPass, hist>>

FlushSpuriousWake(t) ==
  /\ Runs(t, "asleep")
  /\ Goto(t, "flush")
  /\ missed' = missed \ {t}
  /\ UNCHANGED <<qvars, pending, calls, todo, written, flushed, lastPass,
                 dropped, owed>>

Init ==
  /\ Q!Init
  /\ pending = 0
  /\ pc = [t \in Actors |-> IF t # Worker THEN "idle"
                            ELSE IF Async THEN "drain" ELSE "exited"]
  /\ calls = [t \in Clients |-> 0]
  /\ todo = [t \in Actors |-> Sinks]
  /\ written = [i \in Sinks |-> <<>>]
  /\ flushed = [i \in Sinks |-> 0]
  /\ lastPass = FALSE
  /\ dropped = {} /\ missed = {}
  /\ owed = [t \in Clients |-> {}]

LogStep(t) ==
  \/ LogPush(t) \/ LogResume(t) \/ LogNotify(t) \/ LogReturn(t)
  \/ DispatchReturns(t) \/ Announce(t)

FlushStep(t) == FlushCheck(t) \/ FlushSleep(t) \/ FlushSink(t) \/ SinksDone(t)

SinkStep(t) == \E i \in Sinks : WriteSink(t, i)

ClientStep(t) == LogStep(t) \/ FlushStep(t) \/ SinkStep(t)

WorkerStep ==
  \/ WorkerDrain \/ WorkerInDrain \/ WorkerDrained \/ WorkerFinal
  \/ SinkStep(Worker) \/ DispatchReturns(Worker) \/ Announce(Worker)

OwnerStep == OwnerInStop \/ Join \/ FlushSink(Owner) \/ SinksDone(Owner)

Next ==
  \/ \E t \in Clients : Log(t) \/ Flush(t) \/ ClientStep(t) \/ FlushSpuriousWake(t)
  \/ WorkerStep
  \/ Destroy
  \/ OwnerStep
  \/ \E t \in Actors : QueueSpuriousWake(t)

(* A thread that is inside a call, and the worker, go on running and get    *)
(* the mutexes in the end.  Nobody has to log, flush or destroy, and no     *)
(* wait may count on a spurious wake.                                       *)
Fairness ==
  /\ \A t \in Clients : WF_vars(ClientStep(t))
  /\ WF_vars(WorkerStep)
  /\ WF_vars(OwnerStep)

SafetySpec == Init /\ [][Next]_vars

Spec == SafetySpec /\ Fairness

-----------------------------------------------------------------------------
PcOf(t) ==
  IF t = Worker
    THEN {"drain", "drained", "dispatch", "announce", "final", "exited"}
  ELSE IF t = Owner THEN {"idle", "stopping", "sinks", "destroyed"}
  ELSE {"idle", "push", "pushed", "announce", "dispatch",
        "flush", "decided", "asleep", "sinks"}

(* The values each variable takes; pending_ never wraps below zero.        *)
TypeOK ==
  /\ Q!TypeOK
  /\ pending \in Nat
  /\ pc \in [Actors -> UNION {PcOf(t) : t \in Actors}]
  /\ \A t \in Actors : pc[t] \in PcOf(t)
  /\ calls \in [Clients -> 0..MaxLogs]
  /\ todo \in [Actors -> SUBSET Sinks]
  /\ written \in [Sinks -> Seq(Entry)]
  /\ flushed \in [Sinks -> Nat]
  /\ lastPass \in BOOLEAN
  /\ dropped \subseteq Entry
  /\ owed \in [Clients -> SUBSET Entry]
  /\ missed \subseteq Clients

(* Clients whose entry is counted in pending_ but not in the queue or the  *)
(* batch: not pushed yet, or undelivered and not yet taken back.           *)
Owing ==
  {t \in Clients :
     \/ At(t, "push")
     \/ At(t, "pushed") /\ held[t] # <<>>
     \/ At(t, "pushed") /\ undelivered[t] = 1}

(* pending_ counts the entries that are neither dispatched nor given up,   *)
(* at every step of every thread: it is zero only when nothing is on its   *)
(* way, and no fetch_sub takes it below zero (logger.cpp:47-51, 83, 94).   *)
PendingAccounting ==
  Async => pending = Cardinality(Owing) + Len(data) + Len(out[Worker])

(* Where an entry is that a client has logged.  Delivered: every sink has  *)
(* it and the worker is done with it.                                      *)
HeldByCaller(e) ==
  LET t == e[1] IN
  /\ e = Current(t)
  /\ \/ At(t, "push")
     \/ At(t, "pushed") /\ held[t] # <<>>
     \/ At(t, "dispatch")

Delivered(e) ==
  /\ \A i \in Sinks : e \in Contents(written[i])
  /\ e \notin Contents(out[Worker]) /\ ~HeldByCaller(e)

(* Every logged entry is in exactly one place: still with its caller, in   *)
(* the queue, in the worker's batch, delivered, or reported undelivered by *)
(* exactly that return value of push().  None is lost silently, none is    *)
(* both dropped and dispatched.                                            *)
ExactlyOnePlace ==
  \A e \in Entry : e[2] <= calls[e[1]] =>
    Cardinality({place \in 1..5 :
      CASE place = 1 -> HeldByCaller(e)
        [] place = 2 -> e \in Contents(data)
        [] place = 3 -> e \in Contents(out[Worker])
        [] place = 4 -> e \in dropped
        [] place = 5 -> Delivered(e)}) = 1

(* Each sink has the entries of one thread in the order they were logged,  *)
(* and none of them twice.                                                 *)
ProgramOrder ==
  \A i \in Sinks : \A j, k \in DOMAIN written[i] :
    j < k /\ written[i][j][1] = written[i][k][1]
      => written[i][j][2] < written[i][k][2]

(* All sinks of an asynchronous logger have the same entries in the same   *)
(* order, but for the entry being dispatched: the parallel loop ends with  *)
(* a barrier before the next entry.                                        *)
SinksAgree ==
  Async => \A i, j \in Sinks :
    LET a == written[i]
        b == written[j]
    IN  Len(a) <= Len(b) => Len(b) <= Len(a) + 1 /\ a = SubSeq(b, 1, Len(a))

(* What a sink holds that its last flush() covered.                        *)
Durable(i) == {written[i][k] : k \in 1..flushed[i]}

(* flush() is a barrier: once its wait is over, every entry whose log() had *)
(* returned when flush() was called, on whatever thread, is in every sink   *)
(* or was reported dropped; what the sinks flushed so far covers it.        *)
FlushIsBarrier ==
  \A t \in Clients : At(t, "sinks") =>
    \A e \in owed[t] \ dropped : \A i \in Sinks :
      /\ e \in Contents(written[i])
      /\ i \notin todo[t] => e \in Durable(i)

(* When ~Logger() is done, every entry is durable in every sink or was      *)
(* reported dropped: stop() cuts nothing off.                               *)
ShutdownDelivers ==
  At(Owner, "destroyed") =>
    \A e \in Entry : e[2] <= calls[e[1]] =>
      e \in dropped \/ \A i \in Sinks : e \in Durable(i)

(* BLOCK drops nothing before stop(): waiting producers are not refused.    *)
BlockKeepsAll == OverflowPolicy = "BLOCK" /\ dropped # {} => stopped

(* No flusher waits for a zero that has been announced, other than one      *)
(* whose notification fell between its check and its sleep.                 *)
NoStrandedFlusher ==
  pending = 0 =>
    \A t \in Clients \ missed : pc[t] \in {"decided", "asleep"} =>
      \E u \in Actors : At(u, "announce")

(* With the owner waiting for the callers, the pass after the main loop of  *)
(* drain_loop() finds nothing: drain() gave up only on an empty queue.      *)
LastPassIsEmpty == lastPass => out[Worker] = <<>> /\ data = <<>>

(* Every log() call returns: a producer blocked on a full queue gets room.  *)
LogReturns == \A t \in Clients : InLog(t) ~> At(t, "idle")

(* Every logged entry reaches all the sinks or is reported dropped, with    *)
(* nobody calling flush() or destroying the logger.                         *)
EntriesSettle ==
  \A e \in Entry : e[2] <= calls[e[1]] ~> e \in dropped \/ Delivered(e)

(* flush() returns unless its only notification came too early.             *)
FlushReturnsUnlessMissed ==
  \A t \in Clients : At(t, "flush") ~> At(t, "idle") \/ t \in missed

(* flush() returns.  bench_throughput.cpp:387: "logger.flush(); // includes *)
(* background drain time".                                                  *)
FlushReturns == \A t \in Clients : At(t, "flush") ~> At(t, "idle")

(* ~Logger() finishes: the worker sees stop() and exits, and join() returns. *)
ShutdownCompletes == At(Owner, "stopping") ~> At(Owner, "destroyed")

(* The Logger calls its queue as BoundedQueue's callers do.                 *)
UsesQueue == Q!SafetySpec

Service == INSTANCE LogService
  WITH Buffered <- Async, Lossless <- OverflowPolicy = "BLOCK", Orderly <- OwnerWaits,
       logged <- calls, inCall <- {t \in Clients : InLog(t)},
       line <- out[Worker] \o data, lost <- dropped, shown <- written, saved <- flushed,
       phase <- IF At(Owner, "idle") THEN "open"
                ELSE IF At(Owner, "destroyed") THEN "closed" ELSE "closing"

(* With queue and batch as one line, the Logger keeps what LogService says: *)
(* batches, evictions, blocked pushes, the two threads that count pending_  *)
(* down and the two passes of drain_loop() show in nothing a caller sees.   *)
KeepsPromise == Service!Spec

=============================================================================
