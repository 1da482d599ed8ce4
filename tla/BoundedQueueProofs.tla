------------------------- MODULE BoundedQueueProofs -------------------------
(***************************************************************************)
(* What BoundedQueue guarantees for any producers and consumers, any       *)
(* capacity (0 included) and any mix of overflow policies.                 *)
(***************************************************************************)
EXTENDS BoundedQueue, TLAPS

USE ThreadsAssumption, CapacityAssumption

(* Every step of the queue keeps its state well-typed.                      *)
LEMMA TypeStep == TypeOK /\ [Next]_qvars => TypeOK'
<1> USE DEF TypeOK, Threads, ProducerPhase, ConsumerPhase, StopperPhase
<1> SUFFICES ASSUME TypeOK, [Next]_qvars
             PROVE  TypeOK'
  OBVIOUS
<1> USE DEF Goto
<1>1. ASSUME NEW p \in Producers, NEW x \in Item, NEW queue \in Seq(Item),
             NEW lost \in {0, 1}, Enqueue(p, x, queue, lost)
      PROVE  TypeOK'
  BY <1>1 DEF Enqueue, Return, AfterPush
<1>2. ASSUME NEW p \in Producers, Refuse(p)
      PROVE  TypeOK'
  BY <1>2 DEF Refuse, Return
<1>3. ASSUME NEW p \in Producers, NEW x \in Item, Block(p, x)
      PROVE  TypeOK'
  BY <1>3 DEF Block
<1>4. ASSUME NEW p \in Producers, NEW x \in Item, NEW policy \in Policies,
             Push(p, x, policy)
      PROVE  TypeOK'
  <2>1. policy = "DROP_OLDEST" /\ Full => Tail(data) \in Seq(Item)
    BY DEF Full
  <2>2. QED
    BY <1>1, <1>2, <1>3, <1>4, <2>1 DEF Push
<1>5. ASSUME NEW p \in Producers, ProducerStep(p)
      PROVE  TypeOK'
  <2>1. CASE PushResume(p)
    <3>1. held[p][1] \in Item
      BY <2>1 DEF PushResume
    <3>2. QED
      BY <1>1, <1>2, <1>3, <2>1, <3>1 DEF PushResume
  <2>2. CASE PushNotify(p)
    <3>1. UNCHANGED <<data, stopped, held, undelivered, out>> /\ qpc[p] = "notify_empty"
      BY <2>2 DEF PushNotify
    <3>2. CASE Asleep("not_empty") = {}
      <4>1. qpc' = [qpc EXCEPT ![p] = "idle"]
        BY <2>2, <3>2 DEF PushNotify
      <4>2. QED
        BY <3>1, <4>1
    <3>3. CASE Asleep("not_empty") # {}
      <4>1. PICK c \in Asleep("not_empty") :
              qpc' = [qpc EXCEPT ![p] = "idle", ![c] = "re_not_empty"]
        BY <2>2, <3>3 DEF PushNotify
      <4>2. c \in Consumers
        BY DEF Asleep
      <4>3. QED
        BY <3>1, <4>1, <4>2
    <3>4. QED
      BY <3>2, <3>3
  <2>3. QED
    BY <1>5, <2>1, <2>2 DEF ProducerStep
<1>6. ASSUME NEW c \in Consumers, ConsumerStep(c)
      PROVE  TypeOK'
  <2>1. CASE Drain(c)
    <3> PICK where \in ConsumerPhase : qpc' = [qpc EXCEPT ![c] = where]
      BY <2>1 DEF Drain
    <3>1. /\ data' \in Seq(Item)
          /\ out' \in [Consumers -> Seq(Item)]
      <4>1. out[c] \in Seq(Item) /\ [out EXCEPT ![c] = data] \in [Consumers -> Seq(Item)]
        OBVIOUS
      <4>2. CASE CanTake
        BY <2>1, <4>1, <4>2 DEF Drain
      <4>3. CASE ~CanTake
        BY <2>1, <4>3 DEF Drain
      <4>4. QED
        BY <4>2, <4>3
    <3>2. QED
      BY <2>1, <3>1 DEF Drain
  <2>2. CASE DrainNotify(c)
    BY <2>2 DEF DrainNotify, WakeAll, Woken
  <2>3. CASE Consume(c)
    BY <2>3 DEF Consume
  <2>4. QED
    BY <1>6, <2>1, <2>2, <2>3 DEF ConsumerStep
<1>7. CASE Stop(Stopper)
  BY <1>7 DEF Stop
<1>8. CASE StopNotify(Stopper)
  <2>1. UNCHANGED <<data, stopped, held, undelivered, out>>
    BY <1>8 DEF StopNotify
  <2>2. CASE WakeAll(Stopper, "not_empty", "stop_full")
    BY <2>1, <2>2 DEF WakeAll, Woken
  <2>3. CASE WakeAll(Stopper, "not_full", "idle")
    BY <2>1, <2>3 DEF WakeAll, Woken
  <2>4. QED
    BY <1>8, <2>2, <2>3 DEF StopNotify
<1>9. ASSUME NEW t \in Threads, SpuriousWake(t)
      PROVE  TypeOK'
  BY <1>9 DEF SpuriousWake, Woken
<1>10. CASE UNCHANGED qvars
  BY <1>10 DEF qvars
<1>11. QED
  BY <1>4, <1>5, <1>6, <1>7, <1>8, <1>9, <1>10 DEF Next

(* A new queue is well-typed.                                               *)
LEMMA TypeInit == Init => TypeOK
<1> USE DEF TypeOK, Threads, ProducerPhase, ConsumerPhase, StopperPhase
<1> SUFFICES ASSUME Init PROVE TypeOK
  OBVIOUS
<1> USE DEF Init
<1>1. <<>> \in Seq(Item)
  OBVIOUS
<1>2. held \in [Producers -> {<<>>} \cup {<<x>> : x \in Item}]
  OBVIOUS
<1>3. stopped \in BOOLEAN
  OBVIOUS
<1>4. undelivered \in [Producers -> {0, 1}] /\ out \in [Consumers -> Seq(Item)]
  BY <1>1
<1>5. QED
  BY <1>1, <1>2, <1>3, <1>4

(* The queue's state has the types the code gives it, and an item is held   *)
(* exactly by the producers inside the BLOCK wait.                          *)
THEOREM TypeCorrect == SafetySpec => []TypeOK
BY TypeInit, TypeStep, PTL DEF SafetySpec

-----------------------------------------------------------------------------
(* What dropping the front entry does to a sequence of items. *)
LEMMA TailLength ==
  ASSUME NEW seq \in Seq(Item), seq # <<>>
  PROVE  Tail(seq) \in Seq(Item) /\ Len(Tail(seq)) = Len(seq) - 1
  OBVIOUS

(* Every step of the queue respects the capacity.                           *)
LEMMA CapacityStep == TypeOK /\ CapacityRespected /\ [Next]_qvars => CapacityRespected'
<1> USE DEF CapacityRespected, Full
<1> SUFFICES ASSUME TypeOK, CapacityRespected, [Next]_qvars
             PROVE  CapacityRespected'
  OBVIOUS
<1> USE DEF TypeOK
<1>1. ASSUME NEW p \in Producers, NEW x \in Item, NEW queue \in Seq(Item),
             NEW lost, Len(queue) < Capacity, Enqueue(p, x, queue, lost)
      PROVE  CapacityRespected'
  BY <1>1 DEF Enqueue
<1>2. ASSUME NEW p \in Producers, Refuse(p) \/ \E x : Block(p, x)
      PROVE  CapacityRespected'
  BY <1>2 DEF Refuse, Block
<1>3. ASSUME NEW p \in Producers, NEW x \in Item, NEW policy \in Policies,
             Push(p, x, policy)
      PROVE  CapacityRespected'
  <2>1. Full /\ policy = "DROP_OLDEST"
          => Tail(data) \in Seq(Item) /\ Len(Tail(data)) < Capacity
    BY TailLength
  <2>2. CASE \E queue \in Seq(Item), lost \in {0, 1} :
               Len(queue) < Capacity /\ Enqueue(p, x, queue, lost)
    BY <1>1, <2>2
  <2>3. CASE Refuse(p) \/ Block(p, x)
    BY <1>2, <2>3
  <2>4. CASE ~Full /\ Enqueue(p, x, data, 0)
    <3>1. data \in Seq(Item) /\ Len(data) < Capacity
      BY <2>4
    <3>2. QED
      BY <2>2, <2>4, <3>1
  <2>5. CASE Full /\ policy = "DROP_OLDEST" /\ Enqueue(p, x, Tail(data), 1)
    BY <2>1, <2>2, <2>5
  <2>6. QED
    BY <1>3, <2>3, <2>4, <2>5 DEF Push
<1>4. ASSUME NEW p \in Producers, ProducerStep(p)
      PROVE  CapacityRespected'
  <2>1. CASE PushResume(p)
    <3>1. held[p][1] \in Item
      BY <2>1 DEF PushResume
    <3>2. QED
      BY <1>1, <1>2, <2>1, <3>1 DEF PushResume
  <2>2. CASE PushNotify(p)
    BY <2>2 DEF PushNotify
  <2>3. QED
    BY <1>4, <2>1, <2>2 DEF ProducerStep
<1>5. ASSUME NEW c \in Consumers, ConsumerStep(c)
      PROVE  CapacityRespected'
  <2>1. CASE Drain(c)
    <3>1. CASE CanTake
      BY <2>1, <3>1 DEF Drain
    <3>2. CASE ~CanTake
      BY <2>1, <3>2 DEF Drain
    <3>3. QED
      BY <3>1, <3>2
  <2>2. CASE DrainNotify(c)
    BY <2>2 DEF DrainNotify
  <2>3. CASE Consume(c)
    <3>1. out' = [out EXCEPT ![c] = Tail(out[c])] /\ data' = data
      BY <2>3 DEF Consume
    <3>2. Len(Tail(out[c])) <= Capacity
      BY <2>3, TailLength DEF Consume
    <3>3. \A d \in Consumers : Len(out'[d]) <= Capacity
      BY <3>1, <3>2
    <3>4. QED
      BY <3>1, <3>3
  <2>4. QED
    BY <1>5, <2>1, <2>2, <2>3 DEF ConsumerStep
<1>6. CASE Stop(Stopper) \/ StopNotify(Stopper)
  BY <1>6 DEF Stop, StopNotify
<1>7. CASE \E t \in Threads : SpuriousWake(t)
  BY <1>7 DEF SpuriousWake
<1>8. CASE UNCHANGED qvars
  BY <1>8 DEF qvars
<1>9. QED
  BY <1>3, <1>4, <1>5, <1>6, <1>7, <1>8 DEF Next

(* The queue and the batches never hold more than the capacity: a producer  *)
(* that was woken checks again for room before it appends.                  *)
THEOREM CapacityHolds == SafetySpec => []CapacityRespected
<1> USE DEF CapacityRespected, Full
<1>1. Init => CapacityRespected
  BY DEF Init
<1>2. TypeOK /\ CapacityRespected /\ [Next]_qvars => CapacityRespected'
  BY CapacityStep
<1>3. QED
  BY <1>1, <1>2, TypeCorrect, PTL DEF SafetySpec

-----------------------------------------------------------------------------
(* An append keeps both promises: it notifies when it made the queue        *)
(* nonempty, and it only takes room away.                                   *)
LEMMA EnqueueStrandsNobody ==
  ASSUME TypeOK, NoStranded,
         NEW p \in Producers, qpc[p] \in {"idle", "re_not_full"},
         NEW x \in Item, NEW queue \in Seq(Item), NEW lost,
         queue = data \/ (data # <<>> /\ queue = Tail(data)),
         Enqueue(p, x, queue, lost)
  PROVE  NoStranded'
<1> USE DEF TypeOK, Threads, Enqueue, Goto, AfterPush
<1>1. \A t \in Threads : t # p => qpc'[t] = qpc[t]
  OBVIOUS
<1>2. qpc'[p] = AfterPush(queue)
  OBVIOUS
<1>3. /\ Asleep("not_empty")' = Asleep("not_empty")
      /\ Asleep("not_full")' = Asleep("not_full")
  BY <1>1, <1>2 DEF Asleep
<1>4. Len(data') >= Len(data)
  BY TailLength
<1>5. NoStrandedConsumer'
  <2>1. CASE queue = <<>>
    BY <2>1, <1>1, <1>2, <1>3 DEF NoStranded, NoStrandedConsumer
  <2>2. CASE queue # <<>>
    <3>1. data # <<>>
      BY <2>2
    <3>2. QED
      BY <3>1, <1>1, <1>3 DEF NoStranded, NoStrandedConsumer
  <2>3. QED
    BY <2>1, <2>2
<1>6. NoStrandedProducer'
  <2>1. ~Full' => ~Full
    BY <1>4 DEF Full
  <2>2. QED
    BY <2>1, <1>1, <1>3 DEF NoStranded, NoStrandedProducer
<1>7. QED
  BY <1>5, <1>6 DEF NoStranded

(* A push that is refused, or that has to wait because the queue is full.   *)
LEMMA RefuseStrandsNobody ==
  ASSUME TypeOK, NoStranded,
         NEW p \in Producers, qpc[p] \in {"idle", "re_not_full"},
         Refuse(p) \/ (\E x \in Item : Full /\ ~stopped /\ Block(p, x))
  PROVE  NoStranded'
<1> USE DEF TypeOK, Threads, Refuse, Block, Goto
<1>1. \A t \in Threads : t # p => qpc'[t] = qpc[t]
  OBVIOUS
<1>2. Asleep("not_empty")' = Asleep("not_empty")
  BY <1>1 DEF Asleep
<1>3. data' = data /\ stopped' = stopped
  OBVIOUS
<1>4. NoStrandedConsumer'
  BY <1>1, <1>2, <1>3 DEF NoStranded, NoStrandedConsumer
<1>5. CASE Refuse(p)
  <2>1. Asleep("not_full")' = Asleep("not_full")
    BY <1>1, <1>5 DEF Asleep
  <2>2. QED
    BY <2>1, <1>1, <1>3, <1>4 DEF NoStranded, NoStrandedProducer, Full
<1>6. CASE Full /\ ~stopped
  BY <1>3, <1>4, <1>6 DEF NoStranded, NoStrandedProducer, Full
<1>7. QED
  BY <1>5, <1>6

(* No step of the queue strands anybody.                                    *)
LEMMA StrandsNobodyStep == TypeOK /\ NoStranded /\ [Next]_qvars => NoStranded'
<1> USE DEF Threads
<1> SUFFICES ASSUME TypeOK, NoStranded, [Next]_qvars
             PROVE  NoStranded'
  OBVIOUS
<1>1. ASSUME NEW p \in Producers, NEW x \in Item, NEW policy \in Policies,
             Push(p, x, policy)
      PROVE  NoStranded'
  <2>1. Full /\ policy = "DROP_OLDEST"
          => data # <<>> /\ Tail(data) \in Seq(Item)
    BY DEF TypeOK, Full
  <2>2. data \in Seq(Item) /\ qpc[p] = "idle"
    BY <1>1 DEF TypeOK, Push
  <2>3. CASE \E queue \in Seq(Item), lost \in {0, 1} :
               /\ queue = data \/ (data # <<>> /\ queue = Tail(data))
               /\ Enqueue(p, x, queue, lost)
    <3>1. PICK queue \in Seq(Item), lost \in {0, 1} :
               /\ queue = data \/ (data # <<>> /\ queue = Tail(data))
               /\ Enqueue(p, x, queue, lost)
      BY <2>3
    <3>2. QED
      BY <2>2, <3>1, EnqueueStrandsNobody
  <2>4. CASE Refuse(p) \/ (Full /\ ~stopped /\ Block(p, x))
    BY <2>2, <2>4, RefuseStrandsNobody
  <2>5. CASE ~Full /\ Enqueue(p, x, data, 0)
    BY <2>2, <2>3, <2>5
  <2>6. CASE Full /\ policy = "DROP_OLDEST" /\ Enqueue(p, x, Tail(data), 1)
    BY <2>1, <2>3, <2>6
  <2>7. QED
    BY <1>1, <2>4, <2>5, <2>6 DEF Push
<1>2. ASSUME NEW p \in Producers, PushResume(p)
      PROVE  NoStranded'
  <2>1. qpc[p] \in {"idle", "re_not_full"} /\ data \in Seq(Item)
    BY <1>2 DEF TypeOK, PushResume
  <2>2. PICK x \in Item : x = held[p][1]
    BY <1>2 DEF TypeOK, PushResume
  <2>3. CASE Enqueue(p, x, data, 0)
    BY <2>1, <2>3, EnqueueStrandsNobody
  <2>4. CASE Refuse(p) \/ (Full /\ ~stopped /\ Block(p, x))
    BY <2>1, <2>4, RefuseStrandsNobody
  <2>5. QED
    BY <1>2, <2>2, <2>3, <2>4 DEF PushResume
<1>3. ASSUME NEW p \in Producers, PushNotify(p)
      PROVE  NoStranded'
  <2>1. Asleep("not_full")' = Asleep("not_full")
    BY <1>3 DEF PushNotify, Goto, Asleep, TypeOK
  <2>2. /\ data' = data /\ stopped' = stopped
        /\ \A t \in Threads : t \notin Producers /\ qpc[t] # "not_empty"
             => qpc'[t] = qpc[t]
    BY <1>3 DEF PushNotify, Goto, Asleep, TypeOK
  <2>3. NoStrandedProducer'
    BY <2>1, <2>2 DEF NoStranded, NoStrandedProducer, Full, TypeOK, ConsumerPhase, StopperPhase
  <2>4. CASE Asleep("not_empty") = {}
    <3>1. Asleep("not_empty")' = {}
      BY <1>3, <2>4 DEF PushNotify, Goto, Asleep, TypeOK
    <3>2. QED
      BY <2>3, <3>1 DEF NoStranded, NoStrandedConsumer
  <2>5. CASE Asleep("not_empty") # {}
    <3>1. PICK c \in Asleep("not_empty") :
            qpc' = [qpc EXCEPT ![p] = "idle", ![c] = "re_not_empty"]
      BY <1>3, <2>5 DEF PushNotify
    <3>2. c \in Consumers
      BY DEF Asleep, TypeOK, ProducerPhase, StopperPhase
    <3>3. qpc'[c] = "re_not_empty" /\ qpc'[Stopper] = qpc[Stopper]
      BY <3>1, <3>2 DEF TypeOK
    <3>4. QED
      BY <2>2, <2>3, <2>5, <3>2, <3>3 DEF NoStranded, NoStrandedConsumer
  <2>6. QED
    BY <2>4, <2>5
<1>4. ASSUME NEW c \in Consumers, Drain(c), out[c] = <<>>
      PROVE  NoStranded'
  <2>1. Asleep("not_full")' = Asleep("not_full") /\ stopped' = stopped
    BY <1>4 DEF Drain, Goto, Asleep, TypeOK, ProducerPhase
  <2>2. \A t \in Threads : t # c => qpc'[t] = qpc[t]
    BY <1>4 DEF Drain, Goto, TypeOK
  <2>3. CASE CanTake
    <3>1. data' = <<>> /\ qpc'[c] = "notify_full"
      BY <1>4, <2>3 DEF Drain, Goto, TypeOK
    <3>2. Asleep("not_empty")' \subseteq Asleep("not_empty")
      BY <2>2, <3>1 DEF Asleep
    <3>3. QED
      BY <2>1, <2>2, <3>1, <3>2 DEF NoStranded, NoStrandedConsumer, NoStrandedProducer
  <2>4. CASE ~CanTake
    <3>1. data' = <<>> /\ data = <<>>
      BY <1>4, <2>4 DEF Drain, CanTake
    <3>2. \A t \in Threads : t # c => qpc'[t] = qpc[t]
      BY <2>2
    <3>3. stopped => Asleep("not_empty")' \subseteq Asleep("not_empty")
      BY <1>4, <2>2, <2>4 DEF Drain, Goto, Asleep, TypeOK
    <3>4. qpc[c] # "notify_full"
      BY <1>4 DEF Drain
    <3>5. QED
      BY <2>1, <3>1, <3>2, <3>3, <3>4
      DEF NoStranded, NoStrandedConsumer, NoStrandedProducer, Full
  <2>5. QED
    BY <2>3, <2>4
<1>5. ASSUME NEW c \in Consumers, DrainNotify(c)
      PROVE  NoStranded'
  <2>1. /\ data' = data /\ stopped' = stopped
        /\ Asleep("not_full")' = {}
        /\ Asleep("not_empty")' = Asleep("not_empty")
    BY <1>5 DEF DrainNotify, WakeAll, Woken, Asleep
  <2>2. \A t \in Threads : t # c /\ qpc[t] # "not_full" => qpc'[t] = qpc[t]
    BY <1>5 DEF DrainNotify, WakeAll
  <2>3. qpc[c] = "notify_full"
    BY <1>5 DEF DrainNotify
  <2>4. QED
    BY <2>1, <2>2, <2>3
    DEF NoStranded, NoStrandedConsumer, NoStrandedProducer, TypeOK, StopperPhase
<1>6. ASSUME NEW c \in Consumers, Consume(c)
      PROVE  NoStranded'
  BY <1>6 DEF Consume, NoStranded, NoStrandedConsumer, NoStrandedProducer, Asleep, Full
<1>7. CASE Stop(Stopper)
  <2>1. /\ qpc'[Stopper] = "stop_empty" /\ data' = data
        /\ \A t \in Threads : t # Stopper => qpc'[t] = qpc[t]
    BY <1>7 DEF Stop, Goto, TypeOK
  <2>2. /\ Asleep("not_full")' = Asleep("not_full")
        /\ Asleep("not_empty")' = Asleep("not_empty")
    BY <1>7, <2>1 DEF Asleep, Stop
  <2>3. QED
    BY <2>1, <2>2 DEF NoStranded, NoStrandedConsumer, NoStrandedProducer, Full
<1>8. CASE StopNotify(Stopper)
  <2>1. data' = data /\ stopped' = stopped
    BY <1>8 DEF StopNotify
  <2>2. CASE qpc[Stopper] = "stop_empty" /\ WakeAll(Stopper, "not_empty", "stop_full")
    <3>1. /\ Asleep("not_empty")' = {}
          /\ Asleep("not_full")' = Asleep("not_full")
          /\ qpc'[Stopper] = "stop_full"
      BY <2>2 DEF WakeAll, Woken, Asleep
    <3>2. \A c \in Consumers : qpc[c] = "notify_full" => qpc'[c] = "notify_full"
      BY <2>2 DEF WakeAll
    <3>3. QED
      BY <2>1, <3>1, <3>2 DEF NoStranded, NoStrandedConsumer, NoStrandedProducer, Full
  <2>3. CASE qpc[Stopper] = "stop_full" /\ WakeAll(Stopper, "not_full", "idle")
    <3>1. /\ Asleep("not_full")' = {}
          /\ Asleep("not_empty")' = Asleep("not_empty")
      BY <2>3 DEF WakeAll, Woken, Asleep
    <3>2. \A t \in Threads : t # Stopper /\ qpc[t] # "not_full" => qpc'[t] = qpc[t]
      BY <2>3 DEF WakeAll
    <3>3. QED
      BY <2>1, <2>3, <3>1, <3>2 DEF NoStranded, NoStrandedConsumer, NoStrandedProducer
  <2>4. QED
    BY <1>8, <2>2, <2>3 DEF StopNotify
<1>9. ASSUME NEW t \in Threads, SpuriousWake(t)
      PROVE  NoStranded'
  <2>1. data' = data /\ stopped' = stopped
    BY <1>9 DEF SpuriousWake
  <2>2. \A u \in Threads : u # t => qpc'[u] = qpc[u]
    BY <1>9 DEF SpuriousWake, Goto, TypeOK
  <2>3. /\ Asleep("not_full")' \subseteq Asleep("not_full")
        /\ Asleep("not_empty")' \subseteq Asleep("not_empty")
    BY <1>9 DEF SpuriousWake, Goto, Woken, Asleep, TypeOK
  <2>4. qpc[t] \in {"not_full", "not_empty"}
    BY <1>9 DEF SpuriousWake
  <2>5. QED
    BY <2>1, <2>2, <2>3, <2>4
    DEF NoStranded, NoStrandedConsumer, NoStrandedProducer, Full
<1>10. CASE UNCHANGED qvars
  BY <1>10 DEF qvars, NoStranded, NoStrandedConsumer, NoStrandedProducer, Asleep, Full
<1>11. QED
  BY <1>1, <1>2, <1>3, <1>4, <1>5, <1>6, <1>7, <1>8, <1>9, <1>10
  DEF Next, ProducerStep, ConsumerStep

(* No consumer sleeps on entries and no producer on room unless its wake-up *)
(* is on the way, whatever the threads do between an unlock and the         *)
(* notification that follows it.                                            *)
THEOREM NobodyStranded == SafetySpec => []NoStranded
<1> USE DEF Threads
<1>1. Init => NoStranded
  BY DEF Init, NoStranded, NoStrandedConsumer, NoStrandedProducer, Asleep
<1>2. TypeOK /\ NoStranded /\ [Next]_qvars => NoStranded'
  BY StrandsNobodyStep
<1>3. QED
  BY <1>1, <1>2, TypeCorrect, PTL DEF SafetySpec

=============================================================================
