---------------------------- MODULE BoundedQueue ----------------------------
(***************************************************************************)
(* BoundedQueue<T> of include/bounded_queue.hpp: a bounded FIFO shared by  *)
(* producers (push), consumers (drain, which takes the whole content) and  *)
(* a thread that calls stop().                                             *)
(*                                                                         *)
(* A critical section of mutex_ is one step, because data_ and stopped_    *)
(* are only touched under it.  What the code does after lk.unlock() is a   *)
(* step of its own: between the two the other threads run.  Evaluating a   *)
(* wait predicate and falling asleep is one step: the predicates read only *)
(* what mutex_ protects.  A woken thread (notified or spuriously) takes    *)
(* the mutex again and evaluates its predicate again.                      *)
(*                                                                         *)
(* A definition that no other uses is a plausible fault of the one that    *)
(* follows it; a check that replaces the latter by it must fail.           *)
(***************************************************************************)
EXTENDS Naturals, Sequences

CONSTANTS
  Producers,      \* threads that call push()
  Consumers,      \* threads that call drain(); the Logger has one
  Stopper,        \* the thread that calls stop()
  Item,           \* the entries
  Capacity,       \* capacity_
  Policies        \* the overflow policies push() is called with

Threads == Producers \cup Consumers \cup {Stopper}

ASSUME ThreadsAssumption ==
  /\ Producers \cap Consumers = {}
  /\ Stopper \notin Producers \cup Consumers

ASSUME PolicyAssumption ==
  Policies \subseteq {"DROP_NEWEST", "DROP_OLDEST", "BLOCK"}

(* The constructor takes any capacity, 0 included.  DROP_OLDEST with       *)
(* capacity 0 calls pop_front() on an empty deque, which is undefined.     *)
ASSUME CapacityAssumption ==
  /\ Capacity \in Nat
  /\ "DROP_OLDEST" \in Policies => Capacity > 0

VARIABLES
  data,         \* data_
  stopped,      \* stopped_
  qpc,          \* where each thread stands inside a call of the queue
  held,         \* <<item>> while a producer is blocked inside push(item)
  undelivered,  \* what push() last returned to each producer
  out           \* the consumer's batch, the deque that drain() fills

qvars == <<data, stopped, qpc, held, undelivered, out>>

-----------------------------------------------------------------------------
Goto(t, where) == qpc' = [qpc EXCEPT ![t] = where]

(* Where a thread woken in the wait "where" goes: back for the mutex. *)
Woken(where) == IF where = "not_full" THEN "re_not_full" ELSE "re_not_empty"

Asleep(where) == {t \in Threads : qpc[t] = where}

WakeOne(t, where, to) ==
  \E w \in Asleep(where) \cup {t} :
    qpc' = [[qpc EXCEPT ![w] = Woken(where)] EXCEPT ![t] = to]

(* t calls notify_all() on a condition variable and goes on to "to". *)
WakeAll(t, where, to) ==
  qpc' = [u \in Threads |-> IF u = t THEN to
                            ELSE IF qpc[u] = where THEN Woken(where)
                            ELSE qpc[u]]

FullTooLate == Len(data) > Capacity

Full == Len(data) >= Capacity

ReturnZero(p, lost) == undelivered' = [undelivered EXCEPT ![p] = 0]

(* Were the count not a local that each call sets to 0. *)
ReturnTotal(p, lost) == undelivered' = [undelivered EXCEPT ![p] = @ + lost]

Return(p, lost) == undelivered' = [undelivered EXCEPT ![p] = lost]

NeverNotify(queue) == "idle"

(* After the unlock: notify the consumer only if the deque was empty. *)
AfterPush(queue) == IF queue = <<>> THEN "notify_empty" ELSE "idle"

(* push() from "was_empty" on, with the deque the policy left. *)
Enqueue(p, x, queue, lost) ==
  /\ data' = Append(queue, x)
  /\ held' = [held EXCEPT ![p] = <<>>]
  /\ Return(p, lost)
  /\ Goto(p, AfterPush(queue))
  /\ UNCHANGED <<stopped, out>>

(* push() returns 1 and leaves the deque alone. *)
Refuse(p) ==
  /\ held' = [held EXCEPT ![p] = <<>>]
  /\ Return(p, 1)
  /\ Goto(p, "idle")
  /\ UNCHANGED <<data, stopped, out>>

(* The wait predicate is false: release the mutex and sleep. *)
Block(p, x) ==
  /\ held' = [held EXCEPT ![p] = <<x>>]
  /\ Goto(p, "not_full")
  /\ UNCHANGED <<data, stopped, undelivered, out>>

-----------------------------------------------------------------------------
Push(p, x, policy) ==
  /\ qpc[p] = "idle"
  /\ \/ /\ ~Full
        /\ Enqueue(p, x, data, 0)
     \/ /\ Full
        /\ policy = "DROP_NEWEST"
        /\ Refuse(p)
     \/ /\ Full
        /\ policy = "DROP_OLDEST"
        /\ Enqueue(p, x, Tail(data), 1)
     \/ /\ Full
        /\ policy = "BLOCK"
        /\ IF stopped THEN Refuse(p) ELSE Block(p, x)

ResumeGivesUp(p) ==
  /\ qpc[p] = "re_not_full"
  /\ IF Full \/ stopped THEN Refuse(p) ELSE Enqueue(p, held[p][1], data, 0)

(* A producer woken in not_full_.wait holds the mutex again. *)
PushResume(p) ==
  /\ qpc[p] = "re_not_full"
  /\ \/ stopped /\ Refuse(p)
     \/ ~stopped /\ ~Full /\ Enqueue(p, held[p][1], data, 0)
     \/ ~stopped /\ Full /\ Block(p, held[p][1])

(* not_empty_.notify_one() wakes one of the consumers asleep, if any. *)
PushNotify(p) ==
  /\ qpc[p] = "notify_empty"
  /\ IF Asleep("not_empty") = {}
       THEN Goto(p, "idle")
       ELSE \E c \in Asleep("not_empty") :
              qpc' = [qpc EXCEPT ![p] = "idle", ![c] = "re_not_empty"]
  /\ UNCHANGED <<data, stopped, held, undelivered, out>>

-----------------------------------------------------------------------------
TakeUnlessStopped == data # <<>> /\ ~stopped

CanTake == data # <<>>

(* drain(out) swaps the caller's deque, which the caller has cleared, with *)
(* the content.  It returns false exactly when out stays empty.            *)
Drain(c) ==
  /\ qpc[c] \in {"idle", "re_not_empty"}
  /\ \/ /\ CanTake
        /\ out' = [out EXCEPT ![c] = data]
        /\ data' = out[c]
        /\ Goto(c, "notify_full")
     \/ /\ ~CanTake
        /\ Goto(c, IF stopped THEN "idle" ELSE "not_empty")
        /\ UNCHANGED <<data, out>>
  /\ UNCHANGED <<stopped, held, undelivered>>

DrainQuietly(c) ==
  /\ qpc[c] = "notify_full"
  /\ Goto(c, "idle")
  /\ UNCHANGED <<data, stopped, held, undelivered, out>>

(* not_full_.notify_all() *)
DrainNotify(c) ==
  /\ qpc[c] = "notify_full"
  /\ WakeAll(c, "not_full", "idle")
  /\ UNCHANGED <<data, stopped, held, undelivered, out>>

-----------------------------------------------------------------------------
Stop(t) ==
  /\ qpc[t] = "idle"
  /\ stopped' = TRUE
  /\ Goto(t, "stop_empty")
  /\ UNCHANGED <<data, held, undelivered, out>>

StopNotifyFullOnly(t) ==
  /\ \/ qpc[t] = "stop_empty" /\ Goto(t, "stop_full")
     \/ qpc[t] = "stop_full" /\ WakeAll(t, "not_full", "idle")
  /\ UNCHANGED <<data, stopped, held, undelivered, out>>

(* stop() notifies not_empty_ first, then not_full_. *)
StopNotify(t) ==
  /\ \/ qpc[t] = "stop_empty" /\ WakeAll(t, "not_empty", "stop_full")
     \/ qpc[t] = "stop_full" /\ WakeAll(t, "not_full", "idle")
  /\ UNCHANGED <<data, stopped, held, undelivered, out>>

(* A condition variable may wake a waiter that nobody notified. *)
SpuriousWake(t) ==
  /\ qpc[t] \in {"not_full", "not_empty"}
  /\ Goto(t, Woken(qpc[t]))
  /\ UNCHANGED <<data, stopped, held, undelivered, out>>

-----------------------------------------------------------------------------
(* A consumer is done with the next entry of its batch (drain_loop). *)
Consume(c) ==
  /\ qpc[c] = "idle"
  /\ out[c] # <<>>
  /\ out' = [out EXCEPT ![c] = Tail(@)]
  /\ UNCHANGED <<data, stopped, qpc, held, undelivered>>

Init ==
  /\ data = <<>>
  /\ stopped = FALSE
  /\ qpc = [t \in Threads |-> "idle"]
  /\ held = [p \in Producers |-> <<>>]
  /\ undelivered = [p \in Producers |-> 0]
  /\ out = [c \in Consumers |-> <<>>]

ProducerStep(p) == PushResume(p) \/ PushNotify(p)

ConsumerStep(c) ==
  \/ out[c] = <<>> /\ Drain(c)
  \/ DrainNotify(c)
  \/ Consume(c)

Next ==
  \/ \E p \in Producers, x \in Item, policy \in Policies : Push(p, x, policy)
  \/ \E p \in Producers : ProducerStep(p)
  \/ \E c \in Consumers : ConsumerStep(c)
  \/ Stop(Stopper)
  \/ StopNotify(Stopper)
  \/ \E t \in Threads : SpuriousWake(t)

(* Every thread inside a call is scheduled and gets the mutex in the end;   *)
(* consumers call drain() again and again, as drain_loop() does.  Nobody    *)
(* has to call push() or stop(), and no wait may count on a spurious wake.  *)
Fairness ==
  /\ \A p \in Producers : WF_qvars(ProducerStep(p))
  /\ \A c \in Consumers : WF_qvars(ConsumerStep(c))
  /\ WF_qvars(StopNotify(Stopper))

SafetySpec == Init /\ [][Next]_qvars

Spec == SafetySpec /\ Fairness

-----------------------------------------------------------------------------
ProducerPhase == {"idle", "not_full", "re_not_full", "notify_empty"}
ConsumerPhase == {"idle", "not_empty", "re_not_empty", "notify_full"}
StopperPhase  == {"idle", "stop_empty", "stop_full"}

(* The values each variable takes; an item is held exactly by the producers *)
(* that are inside the BLOCK wait.                                          *)
TypeOK ==
  /\ data \in Seq(Item)
  /\ stopped \in BOOLEAN
  /\ qpc \in [Threads -> ProducerPhase \cup ConsumerPhase \cup StopperPhase]
  /\ \A p \in Producers : qpc[p] \in ProducerPhase
  /\ \A c \in Consumers : qpc[c] \in ConsumerPhase
  /\ qpc[Stopper] \in StopperPhase
  /\ held \in [Producers -> {<<>>} \cup {<<x>> : x \in Item}]
  /\ \A p \in Producers :
       held[p] # <<>> <=> qpc[p] \in {"not_full", "re_not_full"}
  /\ undelivered \in [Producers -> {0, 1}]
  /\ out \in [Consumers -> Seq(Item)]

(* The queue never holds more than its capacity, whatever push() waited for *)
(* and whoever took the room first once it was woken; nor does a batch.     *)
CapacityRespected ==
  /\ Len(data) <= Capacity
  /\ \A c \in Consumers : Len(out[c]) <= Capacity

(* push() notifies not_empty_ only when it found the queue empty, and after *)
(* it unlocked.  Still no consumer sleeps on a queue that has entries, or   *)
(* is stopped, unless a wake-up is on its way: a notification not yet sent, *)
(* or a woken consumer that will take everything.                           *)
NoStrandedConsumer ==
  /\ data # <<>> /\ Asleep("not_empty") # {} =>
       \/ \E p \in Producers : qpc[p] = "notify_empty"
       \/ \E c \in Consumers : qpc[c] = "re_not_empty"
  /\ stopped /\ Asleep("not_empty") # {} => qpc[Stopper] = "stop_empty"

(* No producer sleeps in the BLOCK wait while the queue has room, or is     *)
(* stopped, unless the notify_all that follows the unlock of drain() or     *)
(* stop() is still to come.                                                 *)
NoStrandedProducer ==
  /\ ~Full /\ Asleep("not_full") # {} =>
       \E c \in Consumers : qpc[c] = "notify_full"
  /\ stopped /\ Asleep("not_full") # {} =>
       qpc[Stopper] \in {"stop_empty", "stop_full"}

(* Nobody sleeps on what is there: notifications sent after the unlock, one *)
(* per empty queue or one for all producers, are enough between them.       *)
NoStranded == NoStrandedConsumer /\ NoStrandedProducer

(* Whatever is queued is taken by a consumer in the end: notifying on the   *)
(* empty-to-nonempty push only (bounded_queue.hpp:45) loses no wake-up.     *)
EntriesAreTaken == data # <<>> ~> data = <<>>

(* stop() releases every thread that sleeps in the queue, and none falls    *)
(* asleep again.                                                            *)
StopReleases ==
  stopped ~> [](Asleep("not_full") \cup Asleep("not_empty") = {})

=============================================================================
