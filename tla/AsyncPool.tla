------------------------------ MODULE AsyncPool ------------------------------
(***************************************************************************)
(* spdlog's asynchronous path: async_logger posts messages to a            *)
(* thread_pool, whose threads take them from a mpmc_blocking_queue and run *)
(* the sinks.  The queue is the ring of CircularQueue.                     *)
(*                                                                         *)
(* A critical section of queue_mutex_ is one step; the notify_one() and    *)
(* the ++discard_counter_ after it are steps of their own.  Loggers hold   *)
(* the pool by weak_ptr: a call locks it, so that every call under way     *)
(* owns the pool, and whoever gives up the last reference, the owner or a  *)
(* client at the end of its call, runs ~thread_pool().  The sinks are seen *)
(* through one file: what was written and how much of it was flushed.      *)
(*                                                                         *)
(* A definition that no other uses is a plausible fault of the one that    *)
(* follows it; a check that replaces the latter by it must fail.           *)
(***************************************************************************)
EXTENDS Integers, Sequences, FiniteSets

CONSTANTS
  Clients,        \* threads that call a logger
  Workers,        \* the threads a pool may have
  Owner,          \* holds the pool for the registry (tp_)
  Kinds,          \* what the calls post: logs, logs that flush, flushes
  QueueSizes,     \* the q_max_items a pool is created with
  Policies,       \* the overflow policies of the loggers
  NoMessage,      \* async_msg{}, also a moved-from message
  MaxCalls        \* bound: the logger calls

Callers == Clients \cup {Owner}
Threads == Callers \cup Workers

Message ==
  [by : Clients, n : 1 .. MaxCalls, kind : Kinds]
    \cup [by : Callers, n : {0}, kind : {"terminate"}]

ASSUME ThreadsAssumption ==
  /\ Clients \cap Workers = {}
  /\ Owner \notin Clients \cup Workers
  /\ IsFiniteSet(Clients) /\ IsFiniteSet(Workers)

ASSUME ConstantsAssumption ==
  /\ Kinds \subseteq {"log", "urgent", "flush"}
  /\ QueueSizes \subseteq Nat
  /\ Policies \subseteq {"block", "overrun_oldest", "discard_new"}
  /\ NoMessage \notin Message
  /\ MaxCalls \in Nat

VARIABLES
  q,          \* q_.q_
  discarded,  \* q_.discard_counter_
  threads,    \* threads_, as many as the constructor was asked for
  policy,     \* overflow_policy_ of the logger of each client
  refs,       \* who owns the pool
  pc,         \* where each thread stands
  call,       \* the message of the call each caller is in, or made last
  sent,       \* the terminate messages ~thread_pool() has posted
  job,        \* incoming_async_msg of each worker, in its loop
  written,    \* what the sinks wrote, in order
  flushed,    \* how much of it they flushed
  calls,      \* history: how many logger calls began
  rejected,   \* history: the calls that found no pool
  handled     \* history: the messages the workers are done with

pool == <<threads, policy>>
history == <<calls, rejected, handled>>
vars == <<q, discarded, pool, refs, pc, call, sent, job, written, flushed, history>>

(* CircularQueue and the lemmas about it. *)
Ring == INSTANCE CircularQueueProofs WITH Item <- Message, Blank <- NoMessage

Terminate(t) == [by |-> t, n |-> 0, kind |-> "terminate"]

PolicyOfLastRites(t) ==
  IF call[t].kind = "terminate" THEN "overrun_oldest" ELSE policy[t]

PolicyOf(t) == IF call[t].kind = "terminate" THEN "block" ELSE policy[t]

Goto(t, where) == pc' = [pc EXCEPT ![t] = where]

(* t calls notify_one() for the wait "where" and goes on to "to". *)
NotifyOne(t, where, to) ==
  LET asleep == {u \in Threads : pc[u] = where} IN
    IF asleep = {} THEN Goto(t, to)
    ELSE \E u \in asleep : pc' = [pc EXCEPT ![t] = to, ![u] = "woken"]

-----------------------------------------------------------------------------
(* A logger call.  thread_pool_.lock() finds the pool while someone owns   *)
(* it; else the call throws, and the logger reports it and returns.        *)
Call(c, kind) ==
  /\ pc[c] = "idle"
  /\ calls < MaxCalls
  /\ calls' = calls + 1
  /\ call' = [call EXCEPT ![c] = [by |-> c, n |-> calls', kind |-> kind]]
  /\ IF refs = {}
       THEN rejected' = rejected + 1 /\ UNCHANGED <<refs, pc>>
       ELSE refs' = refs \cup {c} /\ Goto(c, "post") /\ UNCHANGED rejected
  /\ UNCHANGED <<q, discarded, pool, sent, job, written, flushed, handled>>

(* post_async_msg_: enqueue, enqueue_nowait or enqueue_if_have_room. *)
Post(t) ==
  /\ pc[t] \in {"post", "woken"}
  /\ IF ~Ring!Full(q) \/ PolicyOf(t) = "overrun_oldest"
       THEN q' = Ring!PushBack(q, call[t]) /\ Goto(t, "notify")
       ELSE /\ UNCHANGED q
            /\ Goto(t, IF PolicyOf(t) = "block" THEN "pop_cv" ELSE "discard")
  /\ UNCHANGED <<discarded, pool, refs, call, sent, job, written, flushed, history>>

DiscardUncounted(t) ==
  /\ pc[t] = "discard"
  /\ Goto(t, "release")
  /\ UNCHANGED <<q, discarded, pool, refs, call, sent, job, written, flushed, history>>

Discard(t) ==
  /\ pc[t] = "discard"
  /\ discarded' = discarded + 1
  /\ Goto(t, "release")
  /\ UNCHANGED <<q, pool, refs, call, sent, job, written, flushed, history>>

NotifyWhenFirst(t) ==
  /\ pc[t] = "notify"
  /\ call[t].kind # "terminate"
  /\ IF Ring!Size(q) > 1 THEN Goto(t, "release") ELSE NotifyOne(t, "push_cv", "release")
  /\ UNCHANGED <<q, discarded, pool, refs, call, sent, job, written, flushed, history>>

NotifyAndJoin(t) ==
  /\ pc[t] = "notify"
  /\ IF call[t].kind = "terminate"
       THEN sent' = sent + 1 /\ NotifyOne(t, "push_cv", "join")
       ELSE NotifyOne(t, "push_cv", "release") /\ UNCHANGED sent
  /\ UNCHANGED <<q, discarded, pool, refs, call, job, written, flushed, history>>

(* push_cv_.notify_one(); ~thread_pool() goes on with its loop. *)
Notify(t) ==
  /\ pc[t] = "notify"
  /\ IF call[t].kind = "terminate"
       THEN /\ sent' = sent + 1
            /\ NotifyOne(t, "push_cv",
                         IF sent' < Cardinality(threads) THEN "post" ELSE "join")
       ELSE NotifyOne(t, "push_cv", "release") /\ UNCHANGED sent
  /\ UNCHANGED <<q, discarded, pool, refs, call, job, written, flushed, history>>

ReleaseByOwner(t) ==
  /\ \/ pc[t] = "release"
     \/ t = Owner /\ pc[t] = "idle" /\ t \in refs
  /\ refs' = IF t = Owner THEN {} ELSE refs \ {t}
  /\ IF t = Owner THEN call' = [call EXCEPT ![t] = Terminate(t)] /\ Goto(t, "post")
                  ELSE Goto(t, "idle") /\ UNCHANGED call
  /\ UNCHANGED <<q, discarded, pool, sent, job, written, flushed, history>>

(* The caller gives up its reference; the last one runs ~thread_pool(). *)
Release(t) ==
  /\ \/ pc[t] = "release"
     \/ t = Owner /\ pc[t] = "idle" /\ t \in refs
  /\ refs' = refs \ {t}
  /\ IF refs' = {} THEN call' = [call EXCEPT ![t] = Terminate(t)] /\ Goto(t, "post")
                   ELSE Goto(t, "idle") /\ UNCHANGED call
  /\ UNCHANGED <<q, discarded, pool, sent, job, written, flushed, history>>

Join(t) ==
  /\ pc[t] = "join"
  /\ \A w \in threads : pc[w] = "exited"
  /\ Goto(t, "idle")
  /\ UNCHANGED <<q, discarded, pool, refs, call, sent, job, written, flushed, history>>

-----------------------------------------------------------------------------
(* dequeue(), up to the unlock *)
Dequeue(w) ==
  /\ pc[w] \in {"idle", "woken"}
  /\ IF Ring!Empty(q)
       THEN Goto(w, "push_cv") /\ UNCHANGED <<q, job>>
       ELSE /\ job' = [job EXCEPT ![w] = Ring!Front(q)]
            /\ q' = Ring!PopFront(Ring!MoveFront(q))
            /\ Goto(w, "notify")
  /\ UNCHANGED <<discarded, pool, refs, call, sent, written, flushed, history>>

NotifyRoomQuietly(w) ==
  /\ pc[w] = "notify"
  /\ Goto(w, IF job[w].kind = "terminate" THEN "exited" ELSE job[w].kind)
  /\ UNCHANGED <<q, discarded, pool, refs, call, sent, job, written, flushed, history>>

(* pop_cv_.notify_one(), then the switch on the type of the message. *)
NotifyRoom(w) ==
  /\ pc[w] = "notify"
  /\ NotifyOne(w, "pop_cv", IF job[w].kind = "terminate" THEN "exited" ELSE job[w].kind)
  /\ UNCHANGED <<q, discarded, pool, refs, call, sent, job, written, flushed, history>>

Finish(w) ==
  /\ handled' = handled + 1
  /\ job' = [job EXCEPT ![w] = NoMessage]
  /\ Goto(w, "idle")

(* backend_sink_it_: an urgent message is one that should_flush_ accepts. *)
Write(w) ==
  /\ pc[w] \in {"log", "urgent"}
  /\ written' = Append(written, job[w])
  /\ IF pc[w] = "urgent" THEN Goto(w, "flush") /\ UNCHANGED <<handled, job>>
                         ELSE Finish(w)
  /\ UNCHANGED <<q, discarded, pool, refs, call, sent, flushed, calls, rejected>>

(* backend_flush_ *)
Flush(w) ==
  /\ pc[w] = "flush"
  /\ flushed' = Len(written)
  /\ Finish(w)
  /\ UNCHANGED <<q, discarded, pool, refs, call, sent, written, calls, rejected>>

(* A condition variable may wake a waiter that nobody notified. *)
SpuriousWake(t) ==
  /\ pc[t] \in {"pop_cv", "push_cv"}
  /\ Goto(t, "woken")
  /\ UNCHANGED <<q, discarded, pool, refs, call, sent, job, written, flushed, history>>

-----------------------------------------------------------------------------
Init ==
  /\ \E n \in QueueSizes : q = Ring!New(n)
  /\ discarded = 0
  /\ threads \in (SUBSET Workers) \ {{}}
  /\ policy \in [Clients -> Policies]
  /\ refs = {Owner}
  /\ pc = [t \in Threads |-> "idle"]
  /\ call = [c \in Callers |-> NoMessage]
  /\ sent = 0
  /\ job = [w \in Workers |-> NoMessage]
  /\ written = <<>>
  /\ flushed = 0
  /\ calls = 0
  /\ rejected = 0
  /\ handled = 0

(* What t does next inside a call, or inside ~thread_pool(). *)
CallerStep(t) == Post(t) \/ Discard(t) \/ Notify(t) \/ Release(t) \/ Join(t)

WorkerStep(w) == Dequeue(w) \/ NotifyRoom(w) \/ Write(w) \/ Flush(w)

Next ==
  \/ \E c \in Clients, kind \in Kinds : Call(c, kind)
  \/ \E t \in Callers : CallerStep(t)
  \/ \E w \in threads : WorkerStep(w)
  \/ \E t \in Threads : SpuriousWake(t)

(* Threads inside a call, and the workers, are scheduled and get the mutex; *)
(* the registry gives the pool up in the end (spdlog::shutdown).  Nobody has *)
(* to log, and no wait may count on a spurious wake.                        *)
Fairness ==
  /\ \A t \in Callers : WF_vars(CallerStep(t))
  /\ \A w \in Workers : WF_vars(w \in threads /\ WorkerStep(w))

SafetySpec == Init /\ [][Next]_vars

Spec == SafetySpec /\ Fairness

-----------------------------------------------------------------------------
Queued == {i \in 0 .. Ring!Size(q) - 1 : Ring!At(q, i).kind # "terminate"}

(* Callers whose message is neither queued nor lost yet. *)
Undecided ==
  {t \in Callers : /\ pc[t] \in {"post", "woken", "pop_cv", "discard"}
                   /\ call[t].kind # "terminate"}

Handling == {w \in Workers : /\ pc[w] \in {"notify", "log", "urgent", "flush"}
                             /\ job[w].kind # "terminate"}

Asleep(where) == {t \in Threads : pc[t] = where}

(* Wake-ups on their way to workers and to callers: notifications still to *)
(* be sent, and threads that were woken and do not have the mutex yet.     *)
PushWakeups == {t \in Callers : pc[t] = "notify"} \cup {w \in Workers : pc[w] = "woken"}
PopWakeups  == {w \in Workers : pc[w] = "notify"} \cup {t \in Callers : pc[t] = "woken"}

CallerPhase == {"idle", "post", "pop_cv", "woken", "discard", "notify", "release", "join"}
WorkerPhase == {"idle", "push_cv", "woken", "notify", "log", "urgent", "flush", "exited"}

(* The values of the variables; the ring is enabled and has messages in its *)
(* window only, and a worker has one exactly while it deals with it.        *)
TypeOK ==
  /\ Ring!IsRing(q) /\ q.max > 0 /\ Ring!Contents(q) \in Seq(Message)
  /\ discarded \in Nat /\ rejected \in Nat /\ handled \in Nat /\ sent \in Nat
  /\ threads \in (SUBSET Workers) \ {{}}
  /\ policy \in [Clients -> Policies]
  /\ refs \subseteq Callers
  /\ pc \in [Threads -> CallerPhase \cup WorkerPhase]
  /\ \A t \in Callers : pc[t] \in CallerPhase
  /\ \A w \in Workers : pc[w] \in WorkerPhase
  /\ call \in [Callers -> Message \cup {NoMessage}]
  /\ \A t \in Callers : pc[t] # "idle" => call[t] \in Message
  /\ job \in [Workers -> Message \cup {NoMessage}]
  /\ \A w \in Workers :
       job[w] # NoMessage <=> pc[w] \in {"notify", "log", "urgent", "flush", "exited"}
  /\ written \in Seq(Message)
  /\ flushed \in 0 .. Len(written)
  /\ calls \in 0 .. MaxCalls

(* overrun_counter() and discard_counter() account for every message that   *)
(* did not reach the sinks: whatever mix of loggers posts to the pool, each *)
(* call is with its caller, queued, with a worker, done or counted as lost. *)
LossesAreCounted ==
  calls =
    rejected + Cardinality(Undecided) + Cardinality(Queued) + Cardinality(Handling)
      + handled + q.overrun + discarded

(* notify_one() comes after the unlock, and a worker that is not asleep may *)
(* take the message first.  Still no worker sleeps on messages that nobody  *)
(* was, or is about to be, woken for.                                       *)
NoIdleWorker ==
  Asleep("push_cv") # {} =>
    Ring!Size(q) <= Cardinality(PushWakeups)

(* The same for callers that wait for room, with the workers' notify_one(): *)
(* overrunning loggers refill the queue without room ever showing.          *)
NoBlockedCaller ==
  Asleep("pop_cv") # {} =>
    Ring!Room(q) - Ring!Size(q) <= Cardinality(PopWakeups)

(* ~thread_pool() runs when no call is under way and none can begin, so     *)
(* nothing is queued behind a terminate message, and none is overrun: each  *)
(* worker gets one, also when a client was the last to own the pool.        *)
TerminatesAreLast ==
  /\ sent > 0 => refs = {}
  /\ refs = {} => \A c \in Clients : pc[c] # "idle" => call[c].kind = "terminate"
  /\ \A i, j \in 0 .. Ring!Size(q) - 1 :
       i < j /\ Ring!At(q, i).kind = "terminate" => Ring!At(q, j).kind = "terminate"
  /\ sent + Cardinality({t \in Callers : pc[t] = "notify" /\ call[t].kind = "terminate"})
       = Cardinality({i \in 0 .. Ring!Size(q) - 1 : Ring!At(q, i).kind = "terminate"})
         + Cardinality({w \in Workers : /\ pc[w] \in {"notify", "exited"}
                                        /\ job[w].kind = "terminate"})

(* When the workers are gone, so is every message: nothing is left behind   *)
(* in the ring, although the workers stop at the first terminate they meet, *)
(* and what should_flush_ asked to be flushed was.                          *)
ShutdownDrains ==
  (\A w \in threads : pc[w] = "exited") =>
    /\ Ring!Empty(q) /\ Undecided = {}
    /\ \A i \in DOMAIN written : written[i].kind = "urgent" => i <= flushed

(* A pool of one thread writes the messages of a client in the order the    *)
(* client logged them, and a flush finds all earlier ones written.          *)
OneThreadKeepsOrder ==
  Cardinality(threads) = 1 =>
    /\ \A i, j \in DOMAIN written :
         i < j /\ written[i].by = written[j].by => written[i].n < written[j].n
    /\ \A w \in Workers : pc[w] = "flush" =>
         \A i \in Queued : Ring!At(q, i).by = job[w].by => Ring!At(q, i).n > job[w].n

(* When flush() returns, nothing its caller logged before is still queued.  *)
(* It returns when the flush message is posted, not when it is handled, so  *)
(* this does not hold: "includes full background drain time", says the      *)
(* benchmark (bench_throughput.cpp:194) of a clock stopped after flush().   *)
FlushDrains ==
  \A c \in Clients :
    pc[c] = "idle" /\ call[c] # NoMessage /\ call[c].kind = "flush" /\ refs # {} =>
      ~\E i \in Queued : LET m == Ring!At(q, i)
                        IN  m.by = c /\ m.kind # "flush" /\ m.n < call[c].n

Fifo == INSTANCE LossyFifo WITH Item <- Message, Takers <- Workers, NoItem <- NoMessage,
  items <- Ring!Contents(q), room <- Ring!Room(q), evicted <- q.overrun, got <- job

(* The ring, its wrap-around and its marker slot included, is a FIFO that   *)
(* drops only its oldest message, and each message goes to one worker.      *)
RingIsFifo == Fifo!Spec

(* Every logger call returns and ~thread_pool() finishes, whoever runs it,  *)
(* if the pool was created with room for a message: with q_max_items = 0    *)
(* the ring is full and empty at once, and a blocking post never returns.   *)
CallsReturn ==
  Ring!Room(q) > 0 =>
    \A t \in Callers : pc[t] # "idle" ~> pc[t] = "idle"

(* Once nobody needs the pool its threads end. *)
WorkersEnd == Ring!Room(q) > 0 => <>(\A w \in threads : pc[w] = "exited")

=============================================================================
