# conc_logger in TLA+

Specifications of the concurrent logger in `src/` and `include/`, and of the part
of the vendored spdlog that its benchmark compares it with: TLA+ modules that TLC
checks on small instances, and theorems about them that TLAPS proves for every
value of their constants.

## The system

conc_logger is a logging library for programs with many (OpenMP) threads. A
`Logger` owns a bounded queue and one background thread. `log()` builds an
entry and pushes it; the background thread drains the queue in batches and
hands every entry to all sinks. A synchronous logger has no queue traffic and
no thread: `log()` calls the sinks itself. The benchmark runs the same scenarios
against naive loggers and against spdlog's `async_logger`, whose sources are
vendored.

| Part | State | Operations | Interacts with |
|---|---|---|---|
| `BoundedQueue` (`include/bounded_queue.hpp`) | `data_`, `stopped_`, `mutex_`, `not_full_`, `not_empty_` | `push` (DROP_NEWEST, DROP_OLDEST, BLOCK), `drain`, `stop`, `empty` | called by clients (`push`), the worker (`drain`, `empty`) and the destroying thread (`stop`) |
| `Logger` (`src/logger.cpp`, `include/logger.hpp`) | `pending_`, `drained_cv_`, `drained_mutex_`, `worker_`, configuration | `log` and its shorthands, `flush`, `drain_loop`, `dispatch`, constructor, destructor | the queue, the sinks |
| Sinks (`include/sink.hpp`, `include/sinks/*.hpp`) | a stream, a mutex per object | `write`, `flush` | called concurrently by `dispatch` and `flush` |
| Entries and levels (`include/log_entry.hpp`, `include/log_level.hpp`) | plain data | `to_string` | |
| Example (`examples/main.cpp`) | | three scenarios: DROP_NEWEST with OpenMP clients, DROP_OLDEST overflow, synchronous | `Logger` |
| Benchmark (`benchmarks/`) | naive loggers, null and slow sinks | BLOCK logger from many threads, then `flush` | `Logger`, spdlog |
| spdlog ring and queue (`details/circular_q.h`, `details/mpmc_blocking_q.h`) | the ring's indexes, one mutex, `push_cv_`, `pop_cv_`, a counter of discards | `enqueue`, `enqueue_nowait`, `enqueue_if_have_room`, `dequeue` | callers of loggers, the pool's threads |
| spdlog thread pool and async logger (`details/thread_pool*.h`, `async_logger*.h`) | the threads, the queue; a weak pointer per logger | `log`, `flush`, the worker loop, `~thread_pool` | the registry and every call in progress own the pool |
| spdlog file sinks (`sinks/rotating_file_sink*.h`, `sinks/daily_file_sink.h`, `details/file_helper*.h`) | sizes, limits, the next rotation, the names of old files; the file system | `log`, `flush`, `rotate_now`, setters | the file system, the clock |
| rest of spdlog (`include/spdlog/`) | registry, formatters, `{fmt}`, other sinks | | |

### What is hard about it

* Three kinds of threads (clients, worker, destroyer) meet in the queue, in
  `pending_` and in three condition variables.
* Every notification is sent after the lock was released, and `drained_cv_` is
  notified by threads that never take its mutex.
* `push` notifies the consumer only when it found the queue empty.
* `pending_` is counted up by the client before the push, counted down by the
  worker per entry and by the client per undelivered entry, and must never
  wrap, be zero too early or stay above zero.
* DROP_OLDEST discards an entry of a thread that knows nothing of it.
* `stop()` releases threads that are anywhere inside `push` or `drain`, and
  nothing that was queued may be cut off.
* In spdlog's pool loggers with different overflow policies share one ring, and
  the pool is destroyed by whoever gives up the last reference, a client in the
  middle of its own call included. Its threads end by terminate messages, one
  each, that go through the same ring.
* A rotation is a dozen operations on the file system. The process may end
  between any two of them and each can fail, while the size of the file is kept
  by addition and never asked again.

### What makes each part correct

* Queues: never above capacity; no waiter asleep without a wake-up on its way;
  everything queued is taken; `stop()` releases everybody.
* Logger: `pending_` counts exactly what is neither dispatched nor given up;
  every entry is dispatched to all sinks or reported dropped, once; each sink
  has a client's entries in program order; `flush()` is a barrier and returns;
  the destructor delivers everything and returns.
* Sinks: a line of one entry is not torn by others, and a dispatcher's lines
  end in every sink before it goes on to its next entry.
* Thread pool: the ring behaves as a FIFO that loses its oldest messages only
  and counts them; every call returns; every thread gets its terminate message
  after the last message of a client.
* Rotating files: in order from the oldest to the newest, nothing twice, nothing
  younger lost before what is older; no file grows over the limit.
* Daily files: the last `max_files` are kept, the current one among them.

## Modules

| Module | Models | State |
|---|---|---|
| `BoundedQueue` | the queue alone, any producers, consumers and policies | the members; `qpc`: where a thread stands inside a call; `out`: the consumers' batches |
| `Logger` | the Logger composed with `BoundedQueue` | the queue's, `pending`, `pc`, what each sink got and flushed |
| `LogService` | the abstract specification of the Logger | one line of accepted entries, what is lost, what each sink has and how much of it is durable, what flushes have to cover |
| `Sinks` | the inside of `write()` and `flush()` | streams as sequences of parts of lines, the mutexes, the entry in each dispatcher's hand |
| `CircularQueue` | `circular_q<T>`, as operators on its members | none |
| `AsyncPool` | queue, pool and async loggers on a `CircularQueue` | the ring, who owns the pool, where each thread stands, what was written |
| `LossyFifo` | the abstract specification of the pool's queue | a sequence, its room, what was evicted, what each taker has |
| `RotatingFile` | `rotating_file_sink` and `file_helper` | the files by index, the stream's buffer, the sizes, where the call stands |
| `DailyFile` | `daily_file_sink`, with its `CircularQueue` of file names | the clock, the next rotation, the names, the files |
| `NaiveSlowLogger` | the benchmark's logger with one mutex | the shared entry, the mutex |
| `MC...` | what TLC needs beside a cfg: symmetry, sets of sinks | |
| `MCLoggerPolicies` | five instances of `Logger`, one per setup, as one specification | `setup` |
| `...Proofs` | the theorems about the module they are named after, `PoliciesProofs` those about `MCLoggerPolicies` | |

Composition. The queue variables of `Logger` are those of `BoundedQueue`, and every
step of the Logger that touches the queue is an action of `Q == INSTANCE
BoundedQueue` with the clients as producers, the worker as the only consumer and
the owner as the stopper. The run `logger_live` checks `UsesQueue`, and
`LoggerProofs` proves it: every behaviour of the Logger is one of the queue's
specification, so what is proved of the queue holds inside it. In the other direction
`Logger` implements `LogService` (`KeepsPromise`), which is all a caller sees of it: the
worker's batch followed by the queue is the line, and capacity, batches,
`pending_`, the worker and every wait are gone. `AsyncPool` maps to
`LossyFifo` (`RingIsFifo`): the contents of the ring, read from `head_` on, are the
sequence, and the messages the threads have in hand are what the takers took.
`Logger` takes a sink's `write()` as one step; `Sinks` is about what happens inside
it, driven by dispatchers: threads that run `dispatch()`, whichever logger they
belong to.

### Steps

A critical section is one step. What follows an unlock is another one, because
the code notifies after unlocking. Each access to the atomic `pending_` is one
step together with thread-local work. A condition variable's wait is: evaluate
the predicate and, if false, sleep. For the waits of the queues that is one step,
since the predicates read only what the mutex protects. For `flush()` it is two
(`FlushCheck`, `FlushSleep`), since `pending_` changes without `drained_mutex_`.
A woken thread evaluates its predicate again; a wait may also end spuriously.
In `RotatingFile` and `DailyFile` the mutex of `base_sink` keeps calls apart; a
rotation is one step per operation on the file system in `RotatingFile`, whose
subject is what an interruption leaves, and one step in `DailyFile`.

| Code | Actions |
|---|---|
| `BoundedQueue::push` | `Push` up to the unlock or the sleep, `PushResume` for a woken producer, `PushNotify` |
| `BoundedQueue::drain` | `Drain` (also for a woken consumer), `DrainNotify` |
| `BoundedQueue::stop` | `Stop`, `StopNotify` twice |
| `BoundedQueue::empty` | the guard of `WorkerFinal` |
| `Logger::log` | `Log` (and the fetch_add), `LogPush`, `LogResume`, `LogNotify`, `LogReturn` (the fetch_sub), `LogAnnounce`; synchronous: `Log`, `WriteSink`, `SyncReturn` |
| `Logger::dispatch` | `WriteSink` per sink in any order, then `Barrier` |
| `Logger::flush` | `Flush`, `FlushCheck`, `FlushSleep`, `FlushSink` per sink in order, `SinksDone` |
| `Logger::drain_loop` | `WorkerDrain`, `WorkerInDrain`, `WorkerDrained`, `WriteSink`, `WorkerCount`, `WorkerAnnounce`, `WorkerFinal` |
| return from `dispatch`, `drained_cv_.notify_all` | `DispatchReturns`, `Announce`: the actions above of the worker or of a client |
| `Logger::~Logger` | `Destroy`, `OwnerInStop`, `Join`, `FlushSink`, `SinksDone` |
| `StdoutSink::write`, `FileSink::write` | `Dispatch` (the parallel loop starts them), `Lock`, `WriteText`, `WriteDump`, `WriteEol` (and the unlock) |
| `StdoutSink::flush`, `FileSink::flush` | `Flush` |
| `async_logger::sink_it_`, `flush_` | `Call` (locks the `weak_ptr`), then `Post`, `Discard`, `Notify`, `Release` |
| `mpmc_blocking_queue::enqueue*` | `Post` up to the unlock or the sleep, `Notify`; `Discard` counts a refused message |
| `thread_pool::process_next_msg_` | `Dequeue`, `NotifyRoom`, `Write`, `Flush` |
| `thread_pool::~thread_pool` | `Release` of the last owner, `Post` and `Notify` per thread, `Join` |
| `rotating_file_sink`, constructor and `sink_it_` | `Start`, `SinkIt` up to the write or the rotation, `Write` |
| `rotating_file_sink::rotate_` | `Close`, `Shift` (the removal of the target), `Rename`, `RenameFails` twice, `GiveUp`, `Reopen`, `ReopenFails` |
| `rotate_now`, `flush_`, `set_max_size`, `set_max_files` | `RotateNow`, `Flush`, `SetMaxSize`, `SetMaxFiles` |
| `daily_file_sink` | `Init` (the constructor), `Rotate`, `OpenFails`, `WriteFails` (`sink_it_`), `Tick` (the clock) |
| `NaiveSlowLogger::log` | `Log` and `Assigned` (the assignment to the entry), `Lock`, `Written` |

In `Sinks` each output operation is a step: the standard keeps one operation on
a stream whole (and `std::cout` usable from several threads), not a sequence of
them. The assignments in `NaiveSlowLogger` are not synchronised: those that
overlap leave the value of one of them or a garbled one.

`dropped`, `owed` and `missed` in `Logger`, `calls`, `rejected` and `handled` in
`AsyncPool`, `saved` and `broken` in `RotatingFile` record what happened, for the
properties and bounds; no guard of the code reads them.

Entries are pairs of a client and the number of its call. A call below
`min_level_` returns at once and is a stuttering step. The thread dump, the
time stamp and all formatting are payload. `pending_` is an unbounded natural:
it is bounded by the entries that exist, and `TypeOK` checks it never goes
below zero, which is where the code's `size_t` would wrap.

After `~Logger()` no thread takes a step: what a call does to a destroyed
object is undefined. `OwnerWaits` says whether the destroying thread waits for
all calls to return first, as the example and the benchmark do, or destroys
the logger under calls in progress.

`AsyncPool` starts with any of the queue sizes and overflow policies it is given
and any number of threads, so one run covers every mix. A call that finds no pool
throws inside the logger, is reported and returns (`rejected`). An urgent message
is one whose level makes the logger flush after it.

`RotatingFile` numbers its messages. A crash loses some end of what the stream had
buffered; a failed rename is tried again and then given up; an open can fail after
it created or emptied the file.

`DailyFile` takes a file for the number of its day. Local time is UTC plus an offset,
which is `Shift` at the moments of `Summer` and 0 at others; `next_rotation_tp` reads the
rotation time of today with the offset of now and adds the length of an ordinary day,
as the code does with `mktime` and `hours(24)`. The readings of the clock within one call
are one.

### Faults

Beside several definitions stands a second one that no other uses: a plausible
bug in the code it models (a dropped notification, an off-by-one, a missing
decrement, a swapped order). Each property of a passing run fails when one of
these replaces the definition that follows it; `PROJECT.json` lists which.

## Runs

| Run | Instance | Shows |
|---|---|---|
| `queue` | 3 producers, 2 consumers, capacity 2, all policies mixed, fairness | capacity, no stranded waiter, entries are taken, `stop()` releases |
| `logger_policies` | five setups, below | every entry in exactly one place, `pending_` exact and nobody waiting for a zero already announced, program order, the barrier, the destructor delivers; the Logger implements `LogService`, so its sinks agree too |
| `logger_live` | BLOCK, 2 clients with 2 entries, capacity 2, fairness | BLOCK drops nothing, the last pass finds nothing; the Logger implements its use of the queue; `log()`, delivery and shutdown finish; `flush()` returns unless its notification came too early |
| `sinks` | 2 dispatchers that share a StdoutSink and a FileSink, 3 entries | no torn line, no `flush()` inside a line, each dispatcher's lines in turn |
| `pool` | 2 clients, 1 or 2 threads, rings for 0, 1 and 2 messages, all policies, logs, urgent logs and flushes | losses are counted, nobody oversleeps, terminate messages come last and are enough, shutdown leaves nothing behind, one thread keeps the order |
| `pool_live` | the same with rings for 0 and 1, fairness | the ring is a lossy FIFO; calls and `~thread_pool()` return, the threads end |
| `rotating` | 4 messages of 2 sizes, 2 size limits, limits of 0 and 2 old files, 3 faults | the files are in order at every moment, the oldest go first, the size is not underestimated, no file outgrows the limit |
| `logger_flush` (violation) | 1 client, fairness | `flush()` can sleep for ever |
| `sinks_stdout` (violation) | 2 dispatchers with a StdoutSink each | their lines interleave on `std::cout` |
| `pool_flush` (violation) | 1 client, 1 thread, a ring for 2 | `flush()` returns before the messages that its caller logged are written |
| `daily` (violation) | days of 3 moments, 1 file kept | the sink deletes the file it writes to |
| `naive` (violation) | 2 threads, 2 messages each | a thread writes another one's message |

The setups of `logger_policies`:

| Setup | Clients (flushers) | Capacity | Entries each | Sinks |
|---|---|---|---|---|
| BLOCK | 3 (1) | 1 | 1 | 2 |
| DROP_OLDEST | 2 (1) | 2 | 2 | 1 |
| DROP_NEWEST | 2 (2) | 1 | 2 | 1 |
| BLOCK, the owner destroys during calls | 2 (1) | 2 | 2 | 1 |
| synchronous | 2 (1) | | 2 | 2 |

Bounds. Overflow, blocking and eviction need one more entry than the capacity;
a wake-up that reaches the wrong thread needs two waiters on one side; the
interleaved accounting needs two producers and the worker; disagreement of
sinks needs two sinks. `MaxLogs` bounds the entries per client and is the only
bound on behaviours of `Logger`; under DROP_OLDEST four entries of two clients
compete for two places, so that an eviction hits an entry of the other client
as well as an own one, and under DROP_NEWEST producers that give back an entry meet
the worker on the way to zero. A torn line needs two writers of one sink, an entry
that does not wait for the one before it two sinks and a second entry;
`MaxEntries` bounds the entries of all dispatchers together. In the pool two clients and `MaxCalls` 2 are enough for a full ring of
one, an overrun, a refused message and a terminate message behind a message of a
client; two threads are enough for a message that overtakes another and for a
terminate message taken by the wrong one. The ring for two messages wraps. In
`rotating`, 4 messages fill a limit of 3 and rotate through all of 2 old files;
3 faults allow a rename given up and a crash after it; both limits may change at
any time. The violation runs are as small as their question allows.

Deadlock is checked for the queue. It is not for the others: a destroyed
logger, one whose clients have logged all they may, or a pool that was shut down
rightly do nothing, and `LogReturns`, `CallsReturn`, `WorkersEnd` and
`ShutdownCompletes` say that nobody is left inside a call.

Symmetry is used for threads of the same role in runs with invariants only.

Fairness. Every thread inside a call is scheduled and gets the mutexes it waits
for in the end (weak fairness of its steps; the step that takes a mutex is
enabled whenever the thread is not asleep, since critical sections are one
step). The worker, and the threads of the pool, run. Nobody has to call `log()`,
`flush()`, `stop()` or the destructor, and no wait may count on a spurious wake-up.
In `AsyncPool` the registry gives the pool up in the end, as `spdlog::shutdown()`
at the end of a program does. A ring for no message at all is excluded from the
liveness of the pool: a blocking call on it never returns.

### Findings

* `logger_flush`: `flush()` checks `pending_` under `drained_mutex_`, the
  notifiers do not take that mutex. If the worker's `notify_all` falls between
  the check and the sleep, the flusher sleeps until some later entry takes
  `pending_` to zero again, or for ever. `FlushReturnsUnlessMissed` shows that
  this is the only way `flush()` can hang.
* `sinks_stdout`: the comment in `StdoutSink::write` says its lock protects
  `std::cout` from interleaved output across threads. The lock belongs to the
  sink object, so two objects do not exclude each other. `LinesStayWhole` proves
  the claim for programs with at most one StdoutSink object, and for files.
* `pool_flush`: the benchmark stops its clock after spdlog's `flush()` with the
  comment "includes full background drain time". The call posts a flush message
  and returns; in the trace a message that the same thread logged before is still
  in the ring.
* `daily`: a sink that starts before the rotation time of the day names its file
  after the day. At the rotation time it opens a file of the same name, queues
  the name a second time and, if the queue is full, deletes the file of the oldest
  name: with `max_files` 1 that is the file it has just opened, with more the number
  of files kept is one less than promised. A sink that rotates at midnight, the
  default, does the same on a day of 25 hours, since the next rotation is set 24
  hours after the midnight before, at 23:00. Two theorems say where this ends: at
  midnight or with clocks that are never changed two files are enough to keep the
  current one (`CurrentFileKept`), and with both a sink keeps all it promises
  (`LastFilesKept`).
* `naive`: `NaiveSlowLogger` fills the entry that its threads share before it takes
  the mutex that is "held for the *entire* write", so threads overwrite each
  other's messages.

One observation that contradicts no document. The second loop of `drain_loop()`
("Drain any remaining entries that arrived before stop()") never finds an entry
if all calls return before the destructor runs: the main loop gives up on an empty
queue only (`LastPassIsEmpty`, proved). It can only find entries of `log()` calls
that overlap the destructor.

## Proofs

`BoundedQueueProofs.tla`, about `BoundedQueue` for any finite or infinite set of
producers, consumers and items, any capacity (0 included unless DROP_OLDEST is
used) and any mix of policies:

* `TypeCorrect`: `TypeOK`, inductive by itself. Its conjunct that an item is
  held exactly while its producer is inside the BLOCK wait is what makes the
  resumed push well-defined.
* `CapacityHolds`: `CapacityRespected`, inductive relative to `TypeOK`.
* `NobodyStranded`: `NoStranded`, its halves for consumers and for producers inductive
  together relative to `TypeOK`. `EnqueueStrandsNobody` and
  `RefuseStrandsNobody` carry the pushes: an append that finds the queue empty
  owes a notification, one that does not relies on the wake-up that is already
  on its way; a producer only sleeps on a full queue.

They assume the named assumptions of `BoundedQueue`: roles are disjoint, the
capacity is a natural number, and not 0 with DROP_OLDEST.

`LoggerProofs.tla`, about `Logger` for any finite set of clients, any number of
sinks, entries, any capacity and policy, synchronous or asynchronous, destroyed
between calls or under them (assumption: `LoggerAssumption`):

* `QueueUsedAsSpecified`: `UsesQueue`. The invariant is `Base`: the queue's
  `TypeOK` and `Control`, which says where the threads stand. It is inductive
  because each half needs the other: a step of the Logger is a step of the queue
  only because the worker drains with an empty batch and a client in `log()` has
  an entry (`Control`), and `Control` needs to know where the worker stands in the
  queue (`Q!TypeOK`, kept by the queue's own lemma `TypeStep`).
* `LoggerQueueSafe`: with that, the queue's theorems hold inside the Logger.
* `PendingIsExact`: `PendingAccounting`, inductive relative to `Base`. `Owing` is the
  set of clients whose entry is counted but in neither queue nor batch;
  `PushCounts` shows that a push moves its entry into the queue, keeps it with
  the caller, or evicts another one that the caller owes from then on.
* `FlusherNotStranded`: `NoStrandedFlusher`, inductive relative to `Base` and
  `PendingAccounting` (a `log()` must not take `pending_` from -1 to 0).
* `TypeCorrect`: `TypeOK`, from `Base`, `PendingAccounting` (which makes `pending_`
  natural) and three invariants about sinks and history; that a push reports
  the loss of an entry needs that only BLOCK holds an entry while it waits.
* `BlockNeverDrops`: `BlockKeepsAll`. Under BLOCK a push reports a loss only after
  `stop()` (`BlockLosesNothing`), and nothing takes `stop()` back.
* `LastPassFindsNothing`: `LastPassIsEmpty`, if the owner waits for the callers. The
  invariant `LastInv` says that nobody is in a call after `stop()`, that a drain that
  took something has a batch, and that one that gave up did so on a queue that is
  empty and stopped, and so stays empty.

Its chapter on delivery: no entry of a Logger is lost without a report.

* The lemma `NothingIsLost` carries both theorems: every entry logged is with its
  caller, queued, in the worker's batch, dropped, or in every sink (`Accounted`).
  What makes it inductive is `Progress`, which says of each thread how much of its
  loop over the sinks is done: an entry leaves a batch only when the loop is
  complete.
* `FlushCoversTheLogged`: `FlushIsBarrier`. What is owed to a flusher has left the hands
  of its caller by the time `flush()` reads `pending_` (`OwedLeft`), a `pending_` of
  zero means that nothing is queued or in the batch (`DrainedIsEmpty`, by
  `PendingIsExact`), so all of it is in the sinks or dropped, and that stays so
  while the sinks are flushed one by one.
* `DestructorDelivers`: `ShutdownDelivers`, if the owner waits for the callers. They are
  gone when `stop()` is called (`CallersGone`), the worker ends on an empty queue
  (`WorkerEnds`, with `LastPassFindsNothing`), and the owner flushes after the join.

Its last chapter: where entries are and in which order. `Flow` sorts
the steps of the Logger by what they do to entries (push, take a batch, write to
a sink, finish an entry, nothing), so that each invariant has five cases and not
one per line of code.

* `SinksInStep`: `SinksAgree`. Sinks the worker has visited for the entry in dispatch
  are ahead of the others by that entry (`InStep`).
* `SinksInProgramOrder`: `ProgramOrder`. In a sink's sequence, followed by the batch and
  the queue, the entries of a thread are in increasing order, and what their
  caller still holds comes after all of them (`Places`).
* `EntriesInOnePlace`: `ExactlyOnePlace`, if there is a sink: without one an entry counts
  as delivered while it is still queued. At least one place is `NothingIsLost`; at
  most one is `Places`.
* `LoggerKeepsPromise`: `KeepsPromise`, the Logger implements `LogService`. `StepIsSeen`
  takes each step to one of the abstract specification or to none. `log()` is `Call`
  and `Return`. A push is `Accept`, `Replace`, `Refuse` or nothing (`PushIsSeen`), where
  an eviction takes from behind the batch, so from entries no sink has (`Places`).
  `WriteSink` is `Show` for the worker and `ShowOwn` for a synchronous caller. The end
  of an entry is `Done`, by what `Progress` says of the loop over the sinks.
  `SinksDone` is `FlushReturn` for a client, by `FlushInv`, and `Closed` for the owner,
  by `ShutdownDelivers`. Two small invariants are new: only the owner's
  destructor stops the queue (`StoppedByOwner`), and nothing is owed outside a
  `flush()` (`OwedInFlush`). Every other step, the accounting, the notifications and
  the worker's loop among them, changes nothing a caller sees.

`SinksAgree` is proved only: `KeepsPromise`, checked and proved, leaves a buffered logger
no other way to reach its sinks than one line.

`PoliciesProofs.tla`, about `MCLoggerPolicies`, the specification `logger_policies` runs,
for any threads (assumption: `ThreadsAssumption`, the worker and the owner are two
threads and no clients). `MCLoggerPolicies` instances `LoggerProofs`, so each setup has
the theorems above under its own values:

* The parameters of each setup meet `LoggerAssumption` (`BlockParameters` and the like).
* A behaviour starts in a setup and never leaves it, so it is one of that setup's
  Logger all along (`BlockRuns` and the like).
* `OnePlaceInEachSetup`, `PendingInEachSetup`, `FlusherInEachSetup`, `OrderInEachSetup`,
  `BarrierInEachSetup`, `DeliveryInEachSetup` and `PromiseInEachSetup`: with that the
  theorems about `Logger` give what the run checks, `ExactlyOnePlace`,
  `PendingAccounting`, `NoStrandedFlusher`, `ProgramOrder`, `FlushIsBarrier`,
  `ShutdownDelivers` and `KeepsPromise`. They add no argument of their own; they say that the run and the
  theorems are about the same thing.

`SinksProofs.tla`, about `Sinks` for any dispatchers, sinks and loggers
(assumption: `SinksAssumption`, with it that each FileSink has a file of its own: two on
one path would tear lines as two StdoutSinks do):

* `TypeCorrect`: `TypeOK`; its conjuncts on `holder` are mutual exclusion per sink.
* `LinesStayWhole`: `LinesWhole` and `FlushedToLineEnd`, if at most one StdoutSink
  object exists. Sinks that write to one stream are then one sink (`SameSink`), so
  at most one writer is inside a line of a stream; the invariant `LineInv` says how
  far that writer is, and that a stream nobody writes to ends with a whole line.
* `WritersInTurn`: `LinesInTurn`, with any number of StdoutSink objects. For each writer
  the lines that it ended are in order and are those of the entries up to the one it
  has finished (`InTurn`). What others append to its stream changes neither
  (`EndsAfterPut`), a step that appends nothing for it is `TurnKept`, and the barrier is
  what a new entry needs: every writer of the dispatcher is done with the last one.

`CircularQueueProofs.tla` has the lemmas about the ring: what its indexes mean
(`SizeAndTests`), and that on the contents read from `head_` on a push is an append
(`PushAppends`), or on a full ring an append that loses the head (`PushOverruns`),
and a pop a tail (`PopTakes`), wherever the indexes stand and for every size. The
arithmetic modulo the size is in `Wrap` and `NextIndex`.

`AsyncPoolProofs.tla`, about `AsyncPool` for any finite sets of clients and threads,
any queue sizes, 0 included, and any policies (assumptions: `ThreadsAssumption`,
`ConstantsAssumption`):

* `TypeCorrect`: `TypeOK`, inductive by itself; the ring's part is by the lemmas above.
* `PoolImplementsFifo`: `RingIsFifo`. Each step of the pool maps to `Put`, `PutOver`,
  `Take` or `Done` of `LossyFifo` or leaves its variables alone.
* `NobodyOversleeps`: `NoIdleWorker` and `NoBlockedCaller`, inductive together relative
  to `TypeOK`. They compare the messages (or the places) in the ring with the wake-ups
  under way; `MoveOne` and `MoveTwo` say how one thread that moves on, or one that
  moves on and wakes another, changes those two numbers.
* The other four rest on `Flow`, which sorts the steps of the pool by what they do to
  messages (post, refuse, overrun, take, finish, nothing), and on what a message's way
  through the pool implies. `Lifetime`: whoever is in a call owns the pool, and while
  somebody does nobody is in `~thread_pool()` and no terminate message exists;
  afterwards one thread at most is in there. `Employment`: a worker does what the
  message in its hand asks for. `Stock` counts messages, queued and in hand.
* `NothingUncounted`: `LossesAreCounted`, as an equation between the calls, the stock and
  the counters (`Accounts`), one case of `Flow` each.
* `TerminatesClosePool`: `TerminatesAreLast`, from the order of the messages
  (`Line(Final)`) and the number of terminate messages posted (`Balance`).
* `NothingLeftBehind`: `ShutdownDrains`. After the join each thread has taken a terminate
  message; by `Balance` none is left and by `Line(Final)` nothing is queued behind them.
* `OneThreadInOrder`: `OneThreadKeepsOrder`. A client's messages are in order through the
  pool (`Newest`, `Line(Before)`): what was written, what is in hand, what is queued,
  what is about to be posted; with one worker what it writes next is after all it
  wrote (`WrittenFirst`, `Single`).

`RotatingFileProofs.tla`, about `RotatingFile` for any sizes and limits and any number
of messages and faults (assumption: `RotatingAssumption`):

* `FilesInOrder`: `OldestFirst`. The inductive invariant `Inv` looks at the files as
  they are once the stream's buffer is written: they are in order, and no message
  in them is later than the last one logged, or than the one before it while a
  `sink_it_()` has still to write. What a crash leaves is a prefix of that. The lemmas
  `EmptyKeeps`, `PrefixKeeps`, `AppendKeeps`, `WithoutKeeps` and `RenamedKeeps` say so
  for each operation on the file system; the last one needs that the target of a
  rename is gone, which `Shift` has seen to.
* `TypesHold`: `TypeOK`, from `Inv` and the types of the rest (`Rest`, `Within`).
* `NeverTooLow` and `GrowsWithin`: `NeverUnderestimates` and `GrowsWithinLimit`. `Sizing`
  adds what `sink_it_()` knows on its way to the write: `new_size` is no less than what
  the file will hold, and that is within `max_size_` unless the file is empty
  (`Ahead`); during a rotation `new_size` is the message's own size (`Alone`). The size
  of a file is a fold over its messages, so these need what the fold computes:
  `BytesOfAppend` and `BytesOfConcat`, proved by induction. The library's induction
  theorems cannot be instantiated here, but its well-foundedness of `<` can:
  `AllNumbers` has induction for a set of numbers from there, and `SumExists` that
  the function the fold is defined by exists.
* `OldestLeaveFirst`: `OldestGoFirst`. The index a rotation has come down to has no file
  once it is below `max_files_` (`Gap`), so a removal takes the highest file or nothing,
  and an opening at the end empties a file only if no other is kept. What has left
  the files is older than what will be in them (`Gone`); a message on its way to the
  file is later than all that ever were (`Past`).

`DailyFileProofs.tla`, about `DailyFile`, for any length of a day, any `max_files` but 0
and any files of earlier runs (`Parameters`: summer time is ahead by less than a day, the
rotation time is one of a day), without the bound on the clock, for messages of any
age, and whichever opens, writes and removals fail. Further hypotheses are
`DaysInOrder`, the clocks are never set back over midnight to the day before,
`AtMidnight`, and `ClocksUnchanged`, which implies the first (`OrderOfDays`).

* `Due` is the day of the next rotation. The invariant `Inv` (`TypesOK`, `Behind`) says that no
  name in the queue is of a later day, that only the last one can be of that day, and
  that not even this one is if that day begins with the rotation. In summer the
  midnight that ends a day lies within it by the clocks of the winter (`IsRotation`).
* It is kept because a message that is due is of the day `Due` or a later one and not of
  a day after the rotation that is set next; and that rotation is of a later day than
  this one, or this one began its day (`RotationMovesOn`, from `NextRotation`). The day
  of a message and that of the clock may differ by any number of days: a message can
  be written long after it was logged. `DueMoves` is what this means for the names.
* The queue of names is read as a sequence, by the lemmas about the ring
  (`NamePushed`, `OldestTaken`, `RotationInSequence`). `NamesAtStart` and `DaysAtStart` say
  which names the constructor puts there: of today, and of a day ago and longer.
* `CurrentFileKept`: `CurrentFileRetained`, if the sink rotates at midnight and keeps two
  files or more, or if the clocks are never changed and it does one of the two: the
  name that is taken is then of an earlier day than the message's.
* `LastFilesKept`: `LastFilesRetained`, if the rotation is at midnight and the clocks are
  never changed: each name in the queue is of a file, no two are of one day (`Queued`),
  and a file is deleted only when `max_files` later ones are there.

No hypothesis is idle. The finding `daily` is `CurrentFileKept` without midnight and the
second file; a day of 25 hours deletes the only file of a sink that rotates at
midnight, and makes one that keeps more lose an older one too early. No run checks
`LastFilesRetained`, for it is false at other rotation times.

Every safety property that a passing run checks, invariants, action properties and
refinements alike, is the subject of a theorem. Only model-checked: all liveness and
the queue's freedom from deadlock, for the prover has no fairness and no ENABLED, and
the violations.

## Not modelled

* Formatting: spdlog's pattern formatter and the bundled `{fmt}`. They are most of
  the lines under `src/`, translate one call's arguments into text, and keep no
  state that a property here could be about.
* The contents of entries, levels and the thread dump.
* Failing or throwing sinks of conc_logger, partial writes and full disks, memory
  exhaustion; what happens to calls on a destroyed logger.
* Of the pool: `dequeue_for` and the resets of the counters, which nothing here
  calls; moves of a ring; the MinGW variants; `clone()`; thread callbacks.
* Of the file sinks: `sync()`, event handlers, the names of rotated files;
  writes and flushes that fail in the rotating sink (after a short write its
  `current_size_` is too low, so `NeverUnderestimates` and `GrowsWithinLimit` hold as long
  as none fails) and a removal that fails there; `max_files` 0 of the daily sink, with
  which it never removes anything.
* The conversion of time stamps. `std::localtime` fills a static buffer that all threads
  share, outside every lock: two sinks that write one entry race already, and what
  one copies can be half-converted. No document of the repository promises the right
  time, so nothing is claimed about it.
* spdlog's registry (its ownership of the pool is in `AsyncPool`), backtracer,
  periodic worker and other sinks: conc_logger and its benchmark create and drop
  loggers and use nothing else of them.

The atomics are taken as sequentially consistent: `pending_` is the only one in
conc_logger, its read-modify-writes are totally ordered, and what `flush()` reads of
the sinks is protected by their mutexes. spdlog's counter of discards is only ever
incremented.

## Plan

Done, in this order: the queue, the Logger on it, its sinks, their proofs; then
spdlog's ring and thread pool with the refinement to `LossyFifo`, the rotating
sink, the daily sink and the naive logger; then the proofs for the pool and the
rotating sink, and `LogService` with the proof that `Logger` implements it; then the
theorems about each setup of `MCLoggerPolicies` and about the daily sink.

Open: the registry and the periodic flusher with the pool, for the lock order between
`tp_mutex_`, `logger_map_mutex_` and the join in `~thread_pool()`.
