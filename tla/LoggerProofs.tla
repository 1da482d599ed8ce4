---------------------------- MODULE LoggerProofs ----------------------------
(***************************************************************************)
(* What Logger guarantees for any clients, sinks, capacity and overflow    *)
(* policy, synchronous or asynchronous, destroyed at any moment.  First    *)
(* its queue and its accounting, then delivery: no entry is lost without a *)
(* report, flush() is a barrier, the destructor delivers.  Then the places *)
(* of the entries: one at a time, in program order, sinks in step.  At the *)
(* end all this together: to its callers a Logger is a LogService.         *)
(***************************************************************************)
EXTENDS Logger, FiniteSetTheorems, TLAPS

QP == INSTANCE BoundedQueueProofs
        WITH Producers <- Clients, Consumers <- {Worker}, Stopper <- Owner,
             Item <- Entry, Policies <- {OverflowPolicy}

-----------------------------------------------------------------------------
(* The theorems about the queue, for the queue of a Logger.                 *)
LEMMA QueueTypes == (Q!TypeOK <=> QP!TypeOK) /\ (Q!TypeOK' <=> QP!TypeOK')
BY DEF Q!TypeOK, QP!TypeOK, Q!Threads, QP!Threads,
       Q!ProducerPhase, QP!ProducerPhase, Q!ConsumerPhase, QP!ConsumerPhase,
       Q!StopperPhase, QP!StopperPhase

LEMMA QueueInits == Q!Init <=> QP!Init
BY DEF Q!Init, QP!Init, Q!Threads, QP!Threads

LEMMA QueueSteps == [Q!Next]_(Q!qvars) <=> [QP!Next]_(QP!qvars)
BY DEF Q!qvars, QP!qvars, Q!Next, QP!Next,
       Q!ProducerStep, QP!ProducerStep, Q!ConsumerStep, QP!ConsumerStep,
       Q!Push, QP!Push, Q!PushResume, QP!PushResume,
       Q!PushNotify, QP!PushNotify, Q!Drain, QP!Drain,
       Q!DrainNotify, QP!DrainNotify, Q!Stop, QP!Stop,
       Q!StopNotify, QP!StopNotify, Q!SpuriousWake, QP!SpuriousWake,
       Q!Consume, QP!Consume, Q!Enqueue, QP!Enqueue, Q!Refuse, QP!Refuse,
       Q!Block, QP!Block, Q!Return, QP!Return, Q!AfterPush, QP!AfterPush,
       Q!Goto, QP!Goto, Q!Woken, QP!Woken, Q!Asleep, QP!Asleep,
       Q!WakeAll, QP!WakeAll, Q!Full, QP!Full, Q!CanTake, QP!CanTake,
       Q!Threads, QP!Threads

LEMMA QueueAssumptions ==
  QP!ThreadsAssumption /\ QP!PolicyAssumption /\ QP!CapacityAssumption
BY LoggerAssumption
DEF QP!ThreadsAssumption, QP!PolicyAssumption, QP!CapacityAssumption

(* A step of the queue keeps its state well-typed.                          *)
LEMMA QueueTypeStep == Q!TypeOK /\ [Q!Next]_(Q!qvars) => Q!TypeOK'
BY QueueTypes, QueueSteps, QueueAssumptions, QP!TypeStep

LEMMA QueueTypeInit == Q!Init => Q!TypeOK
BY QueueTypes, QueueInits, QueueAssumptions, QP!TypeInit

-----------------------------------------------------------------------------
(* The steps of the Logger by the part of the queue they touch.             *)
ClientInQueue(t) == LogPush(t) \/ LogResume(t) \/ LogNotify(t)

WorkerInQueue == WorkerDrain \/ WorkerInDrain \/ WorkerCount

ClientLocal(t) ==
  \/ Log(t) \/ LogReturn(t) \/ LogAnnounce(t) \/ SyncReturn(t)
  \/ Flush(t) \/ FlushStep(t) \/ SinkStep(t) \/ FlushSpuriousWake(t)

WorkerLocal ==
  WorkerDrained \/ WorkerFinal \/ SinkStep(Worker) \/ WorkerAnnounce

OwnerLocal == Join \/ FlushSink(Owner) \/ SinksDone(Owner)

LEMMA StepCases ==
  ASSUME [Next]_vars
  PROVE  \/ \E t \in Clients : ClientInQueue(t) \/ ClientLocal(t)
         \/ WorkerInQueue \/ WorkerLocal
         \/ Destroy \/ OwnerInStop \/ OwnerLocal
         \/ \E t \in Actors : QueueSpuriousWake(t)
         \/ UNCHANGED vars
BY LoggerAssumption
DEF Next, ClientStep, LogStep, WorkerStep, OwnerStep, DispatchReturns, Announce,
    ClientInQueue, WorkerInQueue, ClientLocal, WorkerLocal, OwnerLocal

(* Local steps leave the queue alone.                                       *)
LEMMA LocalKeepsQueue ==
  ASSUME (\E t \in Clients : ClientLocal(t)) \/ WorkerLocal \/ OwnerLocal
  PROVE  UNCHANGED qvars
BY DEF ClientLocal, WorkerLocal, OwnerLocal, Log, LogReturn, LogAnnounce,
       SyncReturn, Flush, FlushStep, SinkStep, FlushSpuriousWake,
       FlushCheck, FlushSleep, FlushSink, SinksDone, WriteSink, WakeFlushers,
       WorkerDrained, WorkerFinal, WorkerAnnounce, Join

-----------------------------------------------------------------------------
Phases ==
  {"idle", "push", "pushed", "announce", "dispatch", "flush", "decided",
   "asleep", "sinks", "drain", "drained", "final", "exited", "stopping",
   "destroyed"}

(* Where the threads stand: only inside drain() does the worker stand in    *)
(* the queue, and it calls drain() with an empty batch.                     *)
WorkerControl ==
  /\ pc[Worker] # "drained" => qpc[Worker] = "idle"
  /\ out[Worker] # <<>> => pc[Worker] \in {"drained", "dispatch", "announce"}
  /\ pc[Worker] = "dispatch" => out[Worker] # <<>>
  /\ qpc[Worker] \in {"not_empty", "re_not_empty"} => out[Worker] = <<>>

(* A synchronous logger counts nothing and has no worker.                   *)
SyncControl ==
  ~Async =>
    /\ pending = 0
    /\ pc[Worker] = "exited"
    /\ \A t \in Clients : pc[t] \notin {"push", "pushed", "announce"}

CallControl ==
  /\ calls \in [Clients -> 0..MaxLogs]
  /\ \A t \in Clients : InLog(t) => calls[t] > 0

PcControl ==
  /\ pc \in [Actors -> Phases]
  /\ \A t \in Actors : pc[t] \in PcOf(t)

Control == PcControl /\ CallControl /\ WorkerControl /\ SyncControl

LEMMA CurrentIsEntry ==
  ASSUME CallControl, NEW t \in Clients, InLog(t)
  PROVE  Current(t) \in Entry
BY LoggerAssumption DEF CallControl, Current, Entry

(* Every step of the Logger is a step of its queue, or leaves it alone.     *)
LEMMA UsesQueueStep ==
  ASSUME Control, [Next]_vars
  PROVE  [Q!Next]_(Q!qvars)
<1>1. ASSUME NEW t \in Clients, ClientInQueue(t)
      PROVE  Q!Next
  <2>1. CASE LogPush(t)
    <3>1. Current(t) \in Entry
      BY <2>1, CurrentIsEntry DEF LogPush, Runs, At, InLog, Control
    <3>2. Q!Push(t, Current(t), OverflowPolicy)
      BY <2>1 DEF LogPush
    <3>3. QED
      BY <3>1, <3>2 DEF Q!Next
  <2>2. CASE LogResume(t) \/ LogNotify(t)
    BY <2>2 DEF LogResume, LogNotify, Q!Next, Q!ProducerStep
  <2>3. QED
    BY <1>1, <2>1, <2>2 DEF ClientInQueue
<1>2. ASSUME WorkerInQueue
      PROVE  Q!Next
  <2>1. Q!ConsumerStep(Worker)
    BY <1>2 DEF WorkerInQueue, WorkerDrain, WorkerInDrain, WorkerCount, Runs, At,
                Control, WorkerControl, Q!ConsumerStep
  <2>2. QED
    BY <2>1 DEF Q!Next
<1>3. ASSUME Destroy \/ OwnerInStop \/ \E t \in Actors : QueueSpuriousWake(t)
      PROVE  Q!Next \/ UNCHANGED qvars
  BY <1>3 DEF Destroy, OwnerInStop, QueueSpuriousWake, Actors, Q!Threads, Q!Next
<1>4. UNCHANGED vars => UNCHANGED qvars
  BY DEF vars
<1>5. UNCHANGED qvars <=> UNCHANGED Q!qvars
  BY DEF qvars, Q!qvars
<1>6. QED
  BY <1>1, <1>2, <1>3, <1>4, <1>5, StepCases, LocalKeepsQueue

-----------------------------------------------------------------------------
LEMMA Roles ==
  /\ \A t \in Clients : t # Worker /\ t # Owner /\ t \in Actors
  /\ Worker # Owner /\ Worker \in Actors /\ Owner \in Actors
BY LoggerAssumption DEF Actors

(* Every thread goes on at a place in its own code.                         *)
LEMMA PcStep ==
  ASSUME PcControl, [Next]_vars
  PROVE  PcControl'
<1> USE Roles DEF PcControl, Goto, Runs, At
<1>1. ASSUME NEW t \in Actors, NEW where \in Phases, where \in PcOf(t), Goto(t, where)
      PROVE  PcControl'
  BY <1>1
<1>2. \A t \in Clients :
        PcOf(t) = {"idle", "push", "pushed", "announce", "dispatch",
                   "flush", "decided", "asleep", "sinks"}
  BY DEF PcOf
<1>3. /\ PcOf(Worker) = {"drain", "drained", "dispatch", "announce", "final", "exited"}
      /\ PcOf(Owner) = {"idle", "stopping", "sinks", "destroyed"}
  BY DEF PcOf
<1>4. ASSUME NEW t \in Actors, NEW next \in Phases, next \in PcOf(t), WakeFlushers(t, next)
      PROVE  PcControl'
  <2>1. /\ pc' \in [Actors -> Phases]
        /\ pc'[t] = next
        /\ \A u \in Actors : u # t /\ pc[u] = "asleep" => pc'[u] = "flush"
        /\ \A u \in Actors : u # t /\ pc[u] # "asleep" => pc'[u] = pc[u]
    BY <1>4 DEF WakeFlushers, Phases
  <2>2. \A u \in Actors : pc[u] = "asleep" => u \in Clients
    BY <1>3 DEF Actors
  <2>3. QED
    BY <1>2, <1>4, <2>1, <2>2
<1>5. ASSUME UNCHANGED pc
      PROVE  PcControl'
  BY <1>5
<1>6. ASSUME NEW t \in Clients, ClientInQueue(t) \/ ClientLocal(t)
      PROVE  PcControl'
  <2>1. CASE ClientInQueue(t)
    BY <1>1, <1>2, <1>5, <2>1 DEF ClientInQueue, LogPush, LogResume, LogNotify, Phases
  <2>2. CASE Log(t) \/ LogReturn(t) \/ SyncReturn(t)
    BY <1>1, <1>2, <2>2 DEF Log, LogReturn, CountDown, SyncReturn, Phases
  <2>3. CASE LogAnnounce(t)
    BY <1>2, <1>4, <2>3 DEF LogAnnounce, Phases
  <2>4. CASE Flush(t) \/ FlushStep(t) \/ FlushSpuriousWake(t)
    BY <1>1, <1>2, <1>5, <2>4
    DEF Flush, FlushStep, FlushCheck, FlushSleep, FlushSink, SinksDone,
        FlushSpuriousWake, Phases
  <2>5. CASE SinkStep(t)
    BY <1>5, <2>5 DEF SinkStep, WriteSink
  <2>6. QED
    BY <1>6, <2>1, <2>2, <2>3, <2>4, <2>5 DEF ClientLocal
<1>7. ASSUME WorkerInQueue \/ WorkerLocal
      PROVE  PcControl'
  <2>1. CASE WorkerDrain \/ WorkerInDrain \/ WorkerDrained \/ WorkerFinal
    BY <1>1, <1>3, <1>5, <2>1
    DEF WorkerDrain, WorkerInDrain, WorkerDrained, WorkerFinal, Phases
  <2>2. CASE WorkerCount
    BY <1>1, <1>3, <2>2 DEF WorkerCount, CountDown, NextEntry, Phases
  <2>3. CASE WorkerAnnounce
    BY <1>3, <1>4, <2>3 DEF WorkerAnnounce, NextEntry, Phases
  <2>4. CASE SinkStep(Worker)
    BY <1>5, <2>4 DEF SinkStep, WriteSink
  <2>5. QED
    BY <1>7, <2>1, <2>2, <2>3, <2>4 DEF WorkerInQueue, WorkerLocal
<1>8. ASSUME Destroy \/ OwnerInStop \/ OwnerLocal \/ UNCHANGED vars
             \/ \E t \in Actors : QueueSpuriousWake(t)
      PROVE  PcControl'
  BY <1>1, <1>3, <1>5, <1>8
  DEF Destroy, OwnerInStop, OwnerLocal, Join, FlushSink, SinksDone,
      QueueSpuriousWake, Phases, vars
<1>9. QED
  BY <1>6, <1>7, <1>8, StepCases

(* log() numbers its entries from 1, and a call in progress has a number.   *)
LEMMA CallStep ==
  ASSUME PcControl, CallControl, [Next]_vars
  PROVE  CallControl'
<1> USE Roles DEF PcControl, CallControl, InLog, Goto, Runs, At
<1>1. ASSUME UNCHANGED calls,
             \A t \in Clients : pc'[t] \in {"push", "pushed", "announce", "dispatch"} =>
               pc[t] \in {"push", "pushed", "announce", "dispatch"}
      PROVE  CallControl'
  BY <1>1
<1>2. ASSUME NEW t \in Clients, ClientInQueue(t) \/ ClientLocal(t)
      PROVE  CallControl'
  <2>1. CASE Log(t)
    BY <2>1, LoggerAssumption DEF Log
  <2>2. CASE ClientInQueue(t)
    BY <1>1, <2>2 DEF ClientInQueue, LogPush, LogResume, LogNotify
  <2>3. CASE LogReturn(t) \/ SyncReturn(t) \/ SinkStep(t)
    BY <1>1, <2>3 DEF LogReturn, CountDown, SyncReturn, SinkStep, WriteSink
  <2>4. CASE LogAnnounce(t)
    BY <1>1, <2>4 DEF LogAnnounce, WakeFlushers
  <2>5. CASE Flush(t) \/ FlushStep(t) \/ FlushSpuriousWake(t)
    BY <1>1, <2>5
    DEF Flush, FlushStep, FlushCheck, FlushSleep, FlushSink, SinksDone,
        FlushSpuriousWake
  <2>6. QED
    BY <1>2, <2>1, <2>2, <2>3, <2>4, <2>5 DEF ClientLocal
<1>3. ASSUME WorkerInQueue \/ WorkerLocal
      PROVE  CallControl'
  <2>1. CASE WorkerDrain \/ WorkerInDrain \/ WorkerDrained \/ WorkerFinal
             \/ WorkerCount \/ SinkStep(Worker)
    BY <1>1, <2>1
    DEF WorkerDrain, WorkerInDrain, WorkerDrained, WorkerFinal,
        WorkerCount, CountDown, SinkStep, WriteSink
  <2>2. CASE WorkerAnnounce
    BY <1>1, <2>2 DEF WorkerAnnounce, WakeFlushers
  <2>3. QED
    BY <1>3, <2>1, <2>2 DEF WorkerInQueue, WorkerLocal
<1>4. ASSUME Destroy \/ OwnerInStop \/ OwnerLocal \/ UNCHANGED vars
             \/ \E t \in Actors : QueueSpuriousWake(t)
      PROVE  CallControl'
  BY <1>1, <1>4
  DEF Destroy, OwnerInStop, OwnerLocal, Join, FlushSink, SinksDone,
      QueueSpuriousWake, vars
<1>5. QED
  BY <1>2, <1>3, <1>4, StepCases

(* What others do in the queue reaches the worker as a wake-up at most.     *)
WorkerUndisturbed ==
  /\ out' = out
  /\ \/ qpc'[Worker] = qpc[Worker]
     \/ qpc[Worker] = "not_empty" /\ qpc'[Worker] = "re_not_empty"

LEMMA OthersInQueue ==
  ASSUME Q!TypeOK,
         \/ \E t \in Clients : ClientInQueue(t)
         \/ Destroy \/ OwnerInStop
         \/ \E t \in Actors : QueueSpuriousWake(t)
  PROVE  WorkerUndisturbed
<1> USE Roles DEF WorkerUndisturbed, Q!Goto
<1>1. /\ qpc \in [Actors -> Q!ProducerPhase \cup Q!ConsumerPhase \cup Q!StopperPhase]
      /\ qpc[Worker] \in Q!ConsumerPhase
  BY DEF Q!TypeOK, Q!Threads, Actors
<1>2. ASSUME NEW t \in Clients, LogPush(t) \/ LogResume(t)
      PROVE  WorkerUndisturbed
  <2>1. CASE LogPush(t)
    BY <1>1, <2>1 DEF LogPush, Q!Push, Q!Enqueue, Q!Refuse, Q!Block
  <2>2. CASE LogResume(t)
    BY <1>1, <2>2 DEF LogResume, Q!PushResume, Q!Enqueue, Q!Refuse, Q!Block
  <2>3. QED
    BY <1>2, <2>1, <2>2
<1>3. ASSUME NEW t \in Clients, LogNotify(t)
      PROVE  WorkerUndisturbed
  <2>1. out' = out
    BY <1>3 DEF LogNotify, Q!PushNotify
  <2>2. CASE Q!Asleep("not_empty") = {}
    BY <1>1, <1>3, <2>1, <2>2 DEF LogNotify, Q!PushNotify
  <2>3. CASE Q!Asleep("not_empty") # {}
    <3>1. PICK c \in Q!Asleep("not_empty") :
            qpc' = [qpc EXCEPT ![t] = "idle", ![c] = "re_not_empty"]
      BY <1>3, <2>3 DEF LogNotify, Q!PushNotify
    <3>2. c \in Actors /\ qpc[c] = "not_empty"
      BY DEF Q!Asleep, Q!Threads, Actors
    <3>3. QED
      BY <1>1, <2>1, <3>1, <3>2
  <2>4. QED
    BY <2>2, <2>3
<1>4. ASSUME Destroy
      PROVE  WorkerUndisturbed
  BY <1>1, <1>4 DEF Destroy, Q!Stop, qvars
<1>5. ASSUME OwnerInStop
      PROVE  WorkerUndisturbed
  BY <1>1, <1>5
  DEF OwnerInStop, Q!StopNotify, Q!WakeAll, Q!Woken, Q!Threads, Actors,
      Q!ConsumerPhase
<1>6. ASSUME NEW t \in Actors, QueueSpuriousWake(t)
      PROVE  WorkerUndisturbed
  BY <1>1, <1>6 DEF QueueSpuriousWake, Q!SpuriousWake, Q!Woken, Q!ConsumerPhase
<1>7. QED
  BY <1>2, <1>3, <1>4, <1>5, <1>6 DEF ClientInQueue

(* The worker dispatches from its batch and drains when the batch is empty. *)
LEMMA WorkerStepControl ==
  ASSUME Q!TypeOK, Control, [Next]_vars
  PROVE  WorkerControl'
<1> USE Roles DEF WorkerControl
<1>1. ASSUME pc'[Worker] = pc[Worker], WorkerUndisturbed
      PROVE  WorkerControl'
  BY <1>1 DEF WorkerUndisturbed, Control
<1>2. ASSUME UNCHANGED qvars
      PROVE  WorkerUndisturbed
  BY <1>2 DEF qvars, WorkerUndisturbed
<1>3. ASSUME NEW t \in Clients, ClientInQueue(t) \/ ClientLocal(t)
      PROVE  pc'[Worker] = pc[Worker]
  <2> USE DEF Goto, Control, PcControl
  <2>1. pc[Worker] # "asleep"
    BY DEF PcOf
  <2>2. CASE LogAnnounce(t)
    BY <2>1, <2>2 DEF LogAnnounce, WakeFlushers
  <2>3. CASE ~LogAnnounce(t)
    BY <1>3, <2>3
    DEF ClientInQueue, LogPush, LogResume, LogNotify, ClientLocal, Log,
        LogReturn, CountDown, SyncReturn, Flush, FlushStep, FlushCheck,
        FlushSleep, FlushSink, SinksDone, SinkStep, WriteSink, FlushSpuriousWake
  <2>4. QED
    BY <2>2, <2>3
<1>4. ASSUME Destroy \/ OwnerInStop \/ OwnerLocal \/ UNCHANGED vars
             \/ \E t \in Actors : QueueSpuriousWake(t)
      PROVE  pc'[Worker] = pc[Worker]
  BY <1>4
  DEF Destroy, OwnerInStop, OwnerLocal, Join, FlushSink, SinksDone,
      QueueSpuriousWake, Goto, Control, PcControl, vars
<1>5. ASSUME WorkerLocal
      PROVE  WorkerControl'
  <2>1. qpc' = qpc /\ out' = out
    BY <1>5, LocalKeepsQueue DEF qvars
  <2>2. CASE WorkerDrained
    BY <2>1, <2>2 DEF WorkerDrained, Runs, At, Goto, Control, PcControl
  <2>3. CASE WorkerFinal
    BY <2>1, <2>3 DEF WorkerFinal, Runs, At, Goto, Control, PcControl
  <2>4. CASE SinkStep(Worker)
    BY <2>1, <2>4 DEF SinkStep, WriteSink, Control
  <2>5. CASE WorkerAnnounce
    BY <2>1, <2>5
    DEF WorkerAnnounce, WakeFlushers, NextEntry, Runs, At, Control, PcControl
  <2>6. QED
    BY <1>5, <2>2, <2>3, <2>4, <2>5 DEF WorkerLocal
<1>6. ASSUME WorkerInQueue
      PROVE  WorkerControl'
  <2> USE DEF Q!Goto, Goto, Runs, At, Control, PcControl
  <2>1. /\ qpc \in [Actors -> Q!ProducerPhase \cup Q!ConsumerPhase \cup Q!StopperPhase]
        /\ out \in [{Worker} -> Seq(Entry)]
    BY DEF Q!TypeOK, Q!Threads, Actors
  <2>2. CASE \/ WorkerDrain
             \/ WorkerInDrain /\ qpc[Worker] = "re_not_empty" /\ Q!Drain(Worker)
    <3>1. pc'[Worker] = "drained"
      BY <2>2 DEF WorkerDrain, WorkerInDrain
    <3>2. out[Worker] = <<>>
      BY <2>2 DEF WorkerDrain
    <3>3. Q!Drain(Worker)
      BY <2>2 DEF WorkerDrain
    <3>4. \/ qpc'[Worker] = "notify_full"
          \/ qpc'[Worker] \in {"idle", "not_empty"} /\ out' = out
      BY <2>1, <3>3 DEF Q!Drain
    <3>5. QED
      BY <3>1, <3>2, <3>4
  <2>3. CASE WorkerInDrain /\ Q!DrainNotify(Worker)
    <3>1. pc'[Worker] = "drained" /\ qpc'[Worker] = "idle" /\ out' = out
      BY <2>3 DEF WorkerInDrain, Q!DrainNotify, Q!WakeAll, Q!Threads, Actors
    <3>2. QED
      BY <3>1
  <2>4. CASE WorkerCount
    <3>1. /\ qpc'[Worker] = "idle"
          /\ pc'[Worker] \in {"announce", NextEntry(out'[Worker])}
      BY <2>4 DEF WorkerCount, CountDown, Q!Consume
    <3>2. QED
      BY <3>1 DEF NextEntry
  <2>5. WorkerInDrain =>
          \/ qpc[Worker] = "re_not_empty" /\ Q!Drain(Worker)
          \/ Q!DrainNotify(Worker)
    BY DEF WorkerInDrain
  <2>6. QED
    BY <1>6, <2>2, <2>3, <2>4, <2>5 DEF WorkerInQueue
<1>7. CASE UNCHANGED vars
  BY <1>1, <1>2, <1>4, <1>7 DEF vars
<1>8. QED
  BY <1>1, <1>2, <1>3, <1>4, <1>5, <1>6, <1>7,
     StepCases, LocalKeepsQueue, OthersInQueue

(* A synchronous logger never leaves the synchronous path.                  *)
LEMMA SyncStep ==
  ASSUME Control, [Next]_vars
  PROVE  SyncControl'
<1> SUFFICES ASSUME ~Async PROVE SyncControl'
  BY DEF SyncControl
<1> USE Roles DEF Control, PcControl, SyncControl, Goto, Runs, At
<1>1. ASSUME NEW t \in Clients, ClientInQueue(t) \/ ClientLocal(t)
      PROVE  SyncControl'
  <2>1. CASE ClientInQueue(t) \/ LogReturn(t) \/ LogAnnounce(t)
    BY <2>1
    DEF ClientInQueue, LogPush, LogResume, LogNotify, LogReturn, LogAnnounce
  <2>2. CASE Log(t) \/ SyncReturn(t) \/ SinkStep(t)
    BY <2>2 DEF Log, SyncReturn, SinkStep, WriteSink
  <2>3. CASE Flush(t) \/ FlushStep(t) \/ FlushSpuriousWake(t)
    BY <2>3
    DEF Flush, FlushStep, FlushCheck, FlushSleep, FlushSink, SinksDone,
        FlushSpuriousWake
  <2>4. QED
    BY <1>1, <2>1, <2>2, <2>3 DEF ClientLocal
<1>2. ASSUME WorkerInQueue \/ WorkerLocal
      PROVE  SyncControl'
  BY <1>2
  DEF WorkerInQueue, WorkerLocal, WorkerDrain, WorkerInDrain, WorkerDrained,
      WorkerFinal, WorkerCount, WorkerAnnounce, SinkStep, WriteSink
<1>3. ASSUME Destroy \/ OwnerInStop \/ OwnerLocal \/ UNCHANGED vars
             \/ \E t \in Actors : QueueSpuriousWake(t)
      PROVE  SyncControl'
  BY <1>3
  DEF Destroy, OwnerInStop, OwnerLocal, Join, FlushSink, SinksDone,
      QueueSpuriousWake, vars
<1>4. QED
  BY <1>1, <1>2, <1>3, StepCases

-----------------------------------------------------------------------------
Base == Q!TypeOK /\ Control

LEMMA BaseInit == Init => Base
<1> SUFFICES ASSUME Init PROVE Base
  OBVIOUS
<1> USE DEF Init
<1>1. Q!TypeOK
  BY QueueTypeInit
<1>2. PcControl
  BY Roles DEF PcControl, Phases, PcOf
<1>3. CallControl /\ SyncControl
  BY Roles, LoggerAssumption DEF CallControl, InLog, SyncControl
<1>4. WorkerControl
  BY Roles DEF Q!Init, Q!Threads, WorkerControl, Actors
<1>5. QED
  BY <1>1, <1>2, <1>3, <1>4 DEF Base, Control

LEMMA BaseStep == Base /\ [Next]_vars => Base'
BY UsesQueueStep, QueueTypeStep, PcStep, CallStep, WorkerStepControl, SyncStep
DEF Base, Control

LEMMA BaseHolds == SafetySpec => []Base
BY BaseInit, BaseStep, PTL DEF SafetySpec

(* The Logger calls its queue as the queue's specification allows, also     *)
(* when it is destroyed under calls in progress.                            *)
THEOREM QueueUsedAsSpecified == SafetySpec => UsesQueue
<1>1. Init => Q!Init
  BY DEF Init
<1>2. Base /\ [Next]_vars => [Q!Next]_(Q!qvars)
  BY UsesQueueStep DEF Base
<1>3. QED
  BY <1>1, <1>2, BaseHolds, PTL DEF SafetySpec, UsesQueue, Q!SafetySpec

(* Inside every Logger the queue keeps to its capacity and strands neither  *)
(* the worker nor a producer.                                               *)
THEOREM LoggerQueueSafe ==
  SafetySpec => [](Q!CapacityRespected /\ Q!NoStranded)
<1>1. QP!SafetySpec => []QP!CapacityRespected
  BY QueueAssumptions, QP!CapacityHolds
<1>2. QP!SafetySpec => []QP!NoStranded
  BY QueueAssumptions, QP!NobodyStranded
<1>3. Q!CapacityRespected <=> QP!CapacityRespected
  BY DEF Q!CapacityRespected, QP!CapacityRespected
<1>4. Q!NoStranded <=> QP!NoStranded
  BY DEF Q!NoStranded, QP!NoStranded, Q!NoStrandedConsumer, QP!NoStrandedConsumer, Q!NoStrandedProducer,
         QP!NoStrandedProducer, Q!Asleep, QP!Asleep, Q!Threads, QP!Threads,
         Q!Full, QP!Full
<1>5. QED
  BY <1>1, <1>2, <1>3, <1>4, QueueInits, QueueSteps, QueueUsedAsSpecified, PTL
  DEF UsesQueue, Q!SafetySpec, QP!SafetySpec

-----------------------------------------------------------------------------
LEMMA OwingFinite == IsFiniteSet(Owing) /\ Cardinality(Owing) \in Nat
<1>1. IsFiniteSet(Owing)
  BY LoggerAssumption, FS_Subset DEF Owing
<1>2. QED
  BY <1>1, FS_CardinalityType

(* A step that moves no entry, and takes no client into or out of a push.   *)
CountsNothing ==
  /\ UNCHANGED <<pending, data, out, held, undelivered>>
  /\ \A t \in Clients :
       pc'[t] = pc[t] \/ {pc[t], pc'[t]} \cap {"push", "pushed"} = {}

LEMMA CountsNothingKeeps ==
  ASSUME PendingAccounting, CountsNothing
  PROVE  PendingAccounting'
<1>1. Owing' = Owing
  BY DEF CountsNothing, Owing, At
<1>2. QED
  BY <1>1 DEF CountsNothing, PendingAccounting

(* A push moves the entry of its caller into the queue, leaves it with the  *)
(* caller, or puts it in the place of another one that the caller now owes. *)
LEMMA PushCounts ==
  ASSUME Base, PendingAccounting,
         NEW t \in Clients, t \in Owing, NEW x \in Entry,
         pc' = [pc EXCEPT ![t] = "pushed"], pending' = pending,
         \/ Q!Enqueue(t, x, data, 0)
         \/ data # <<>> /\ Q!Enqueue(t, x, Tail(data), 1)
         \/ Q!Refuse(t)
         \/ Q!Block(t, x)
  PROVE  PendingAccounting'
<1> SUFFICES ASSUME Async
             PROVE  pending' = Cardinality(Owing') + Len(data') + Len(out'[Worker])
  BY DEF PendingAccounting
<1>1. pending = Cardinality(Owing) + Len(data) + Len(out[Worker])
  BY DEF PendingAccounting
<1>2. /\ data \in Seq(Entry)
      /\ held \in [Clients -> {<<>>} \cup {<<e>> : e \in Entry}]
      /\ undelivered \in [Clients -> {0, 1}]
      /\ out \in [{Worker} -> Seq(Entry)]
      /\ pc \in [Actors -> Phases]
  BY DEF Base, Q!TypeOK, Control, PcControl
<1>3. out' = out
  BY DEF Q!Enqueue, Q!Refuse, Q!Block
<1>4. pc'[t] = "pushed" /\ \A u \in Clients : u # t => pc'[u] = pc[u]
  BY <1>2, Roles
<1>5. \A u \in Clients : u # t => held'[u] = held[u] /\ undelivered'[u] = undelivered[u]
  BY <1>2 DEF Q!Enqueue, Q!Refuse, Q!Block, Q!Return
<1>6. \A u \in Clients : u # t => (u \in Owing' <=> u \in Owing)
  BY <1>4, <1>5 DEF Owing, At
<1>7. Owing \subseteq Clients /\ Owing' \subseteq Clients
  BY DEF Owing
<1>8. CASE Q!Enqueue(t, x, data, 0)
  <2>1. held'[t] = <<>> /\ undelivered'[t] = 0 /\ data' = Append(data, x)
    BY <1>2, <1>8 DEF Q!Enqueue, Q!Return
  <2>2. Owing' = Owing \ {t}
    <3>1. t \notin Owing'
      BY <1>4, <2>1 DEF Owing, At
    <3>2. QED
      BY <1>6, <1>7, <3>1
  <2>3. Cardinality(Owing') = Cardinality(Owing) - 1
    BY <2>2, OwingFinite, FS_RemoveElement
  <2>4. Len(data') = Len(data) + 1
    BY <1>2, <2>1
  <2>5. QED
    BY <1>1, <1>2, <1>3, <2>3, <2>4, OwingFinite
<1>9. ASSUME Len(data') = Len(data), t \in Owing'
      PROVE  pending' = Cardinality(Owing') + Len(data') + Len(out'[Worker])
  <2>1. Owing' = Owing
    BY <1>6, <1>7, <1>9
  <2>2. QED
    BY <1>1, <1>3, <1>9, <2>1
<1>10. CASE data # <<>> /\ Q!Enqueue(t, x, Tail(data), 1)
  <2>1. undelivered'[t] = 1 /\ data' = Append(Tail(data), x)
    BY <1>2, <1>10 DEF Q!Enqueue, Q!Return
  <2>2. Len(data') = Len(data)
    <3>1. Tail(data) \in Seq(Entry) /\ Len(Tail(data)) = Len(data) - 1
      BY <1>2, <1>10
    <3>2. QED
      BY <1>2, <2>1, <3>1
  <2>3. QED
    BY <1>4, <1>9, <2>1, <2>2 DEF Owing, At
<1>11. CASE Q!Refuse(t)
  <2>1. undelivered'[t] = 1 /\ data' = data
    BY <1>2, <1>11 DEF Q!Refuse, Q!Return
  <2>2. QED
    BY <1>4, <1>9, <2>1 DEF Owing, At
<1>12. CASE Q!Block(t, x)
  <2>1. held'[t] = <<x>> /\ data' = data
    BY <1>2, <1>12 DEF Q!Block
  <2>2. <<x>> # <<>>
    OBVIOUS
  <2>3. QED
    BY <1>4, <1>9, <2>1, <2>2 DEF Owing, At
<1>13. QED
  BY <1>8, <1>10, <1>11, <1>12

LEMMA ClientCounts ==
  ASSUME Base, PendingAccounting,
         NEW t \in Clients, ClientInQueue(t) \/ ClientLocal(t)
  PROVE  PendingAccounting'
<1> USE Roles DEF Runs, At, Goto
<1>1. /\ pc \in [Actors -> Phases]
      /\ held \in [Clients -> {<<>>} \cup {<<e>> : e \in Entry}]
      /\ undelivered \in [Clients -> {0, 1}]
      /\ \A u \in Clients :
           held[u] # <<>> <=> qpc[u] \in {"not_full", "re_not_full"}
  BY DEF Base, Q!TypeOK, Control, PcControl
<1>2. /\ data \in Seq(Entry)
      /\ out \in [{Worker} -> Seq(Entry)]
  BY DEF Base, Q!TypeOK
<1>3. CASE Log(t)
  <2>1. CASE Async
    <3>1. /\ UNCHANGED <<data, out, held, undelivered>>
          /\ pc[t] = "idle" /\ pc' = [pc EXCEPT ![t] = "push"]
          /\ pending' = pending + 1
      BY <1>3, <2>1 DEF Log, CountUp, qvars
    <3>2. t \notin Owing /\ Owing' = Owing \cup {t}
      BY <1>1, <3>1 DEF Owing
    <3>3. Cardinality(Owing') = Cardinality(Owing) + 1
      BY <3>2, OwingFinite, FS_AddElement
    <3>4. pending = Cardinality(Owing) + Len(data) + Len(out[Worker])
      BY <2>1 DEF PendingAccounting
    <3>5. Len(data) \in Nat /\ Len(out[Worker]) \in Nat
      BY <1>2
    <3>6. pending' = Cardinality(Owing') + Len(data') + Len(out'[Worker])
      BY <3>1, <3>3, <3>4, <3>5, OwingFinite
    <3>7. QED
      BY <3>6 DEF PendingAccounting
  <2>2. CASE ~Async
    BY <1>3, <2>2 DEF Log, PendingAccounting
  <2>3. QED
    BY <2>1, <2>2
<1>4. CASE LogPush(t)
  <2>1. t \in Owing /\ Current(t) \in Entry
    BY <1>4, CurrentIsEntry DEF LogPush, Owing, InLog, Base, Control
  <2>2. pc' = [pc EXCEPT ![t] = "pushed"] /\ pending' = pending
    BY <1>4 DEF LogPush
  <2>3. Q!Full /\ OverflowPolicy = "DROP_OLDEST" => data # <<>>
    BY <1>2, LoggerAssumption DEF Q!Full
  <2>4. \/ Q!Enqueue(t, Current(t), data, 0)
        \/ data # <<>> /\ Q!Enqueue(t, Current(t), Tail(data), 1)
        \/ Q!Refuse(t)
        \/ Q!Block(t, Current(t))
    BY <1>4, <2>3 DEF LogPush, Q!Push
  <2>5. QED
    BY <2>1, <2>2, <2>4, PushCounts
<1>5. CASE LogResume(t)
  <2>1. pc[t] = "pushed" /\ qpc[t] = "re_not_full" /\ pending' = pending /\ pc' = pc
    BY <1>5 DEF LogResume, Q!PushResume
  <2>2. t \in Owing /\ held[t][1] \in Entry
    BY <1>1, <2>1 DEF Owing
  <2>3. pc' = [pc EXCEPT ![t] = "pushed"]
    BY <1>1, <2>1
  <2>4. \/ Q!Enqueue(t, held[t][1], data, 0)
        \/ Q!Refuse(t)
        \/ Q!Block(t, held[t][1])
    BY <1>5 DEF LogResume, Q!PushResume
  <2>5. QED
    BY <2>1, <2>2, <2>3, <2>4, PushCounts
<1>6. CASE LogNotify(t)
  BY <1>6, CountsNothingKeeps DEF LogNotify, Q!PushNotify, CountsNothing
<1>7. CASE LogReturn(t)
  <2>1. /\ UNCHANGED <<data, out, held, undelivered>>
        /\ pc[t] = "pushed" /\ qpc[t] = "idle"
    BY <1>7 DEF LogReturn, qvars
  <2>2. held[t] = <<>>
    BY <1>1, <2>1
  <2>3. pc'[t] \in {"idle", "announce"} /\ \A u \in Clients : u # t => pc'[u] = pc[u]
    BY <1>1, <1>7 DEF LogReturn, CountDown
  <2>4. Owing' = Owing \ {t}
    BY <2>1, <2>3 DEF Owing
  <2>5. CASE undelivered[t] = 1
    <3>1. pending' = pending - 1 /\ t \in Owing
      BY <1>7, <2>1, <2>5 DEF LogReturn, GivesBack, CountDown, Owing
    <3>2. Cardinality(Owing') = Cardinality(Owing) - 1
      BY <2>4, <3>1, OwingFinite, FS_RemoveElement
    <3>3. Len(data) \in Nat /\ Len(out[Worker]) \in Nat
      BY <1>2
    <3>4. QED
      BY <2>1, <3>1, <3>2, <3>3, OwingFinite DEF PendingAccounting
  <2>6. CASE undelivered[t] = 0
    <3>1. pending' = pending
      BY <1>7, <2>6 DEF LogReturn, GivesBack
    <3>2. t \notin Owing
      BY <2>1, <2>2, <2>6 DEF Owing
    <3>3. Owing' = Owing
      BY <2>4, <3>2
    <3>4. QED
      BY <2>1, <3>1, <3>3 DEF PendingAccounting
  <2>7. QED
    BY <1>1, <2>5, <2>6
<1>8. CASE LogAnnounce(t)
  <2>1. CountsNothing
    BY <1>8 DEF LogAnnounce, WakeFlushers, CountsNothing, qvars
  <2>2. QED
    BY <2>1, CountsNothingKeeps
<1>9. CASE SyncReturn(t) \/ Flush(t) \/ FlushStep(t) \/ SinkStep(t) \/ FlushSpuriousWake(t)
  <2>1. CountsNothing
    BY <1>1, <1>9
    DEF SyncReturn, Flush, FlushStep, FlushCheck, FlushSleep, FlushSink,
        SinksDone, SinkStep, WriteSink, FlushSpuriousWake, CountsNothing, qvars
  <2>2. QED
    BY <2>1, CountsNothingKeeps
<1>10. QED
  BY <1>3, <1>4, <1>5, <1>6, <1>7, <1>8, <1>9 DEF ClientInQueue, ClientLocal

LEMMA WorkerCounts ==
  ASSUME Base, PendingAccounting, WorkerInQueue \/ WorkerLocal
  PROVE  PendingAccounting'
<1> USE Roles DEF Runs, At, Goto
<1>1. /\ pc \in [Actors -> Phases]
      /\ data \in Seq(Entry)
      /\ out \in [{Worker} -> Seq(Entry)]
  BY DEF Base, Q!TypeOK, Control, PcControl
<1>2. ASSUME Q!Drain(Worker), out[Worker] = <<>>,
             pc' = [pc EXCEPT ![Worker] = "drained"], pending' = pending
      PROVE  PendingAccounting'
  <2>1. /\ Len(data') + Len(out'[Worker]) = Len(data) + Len(out[Worker])
        /\ UNCHANGED <<held, undelivered>>
    BY <1>1, <1>2 DEF Q!Drain
  <2>2. \A u \in Clients : pc'[u] = pc[u]
    BY <1>1, <1>2
  <2>3. Owing' = Owing
    BY <2>1, <2>2 DEF Owing
  <2>4. /\ Len(data) \in Nat /\ Len(out[Worker]) \in Nat
        /\ Len(data') \in Nat /\ Len(out'[Worker]) \in Nat
    BY <1>1, <1>2 DEF Q!Drain
  <2>5. QED
    BY <1>2, <2>1, <2>3, <2>4, OwingFinite DEF PendingAccounting
<1>3. CASE WorkerDrain
  BY <1>2, <1>3 DEF WorkerDrain, Base, Control, WorkerControl
<1>4. CASE WorkerInDrain
  <2>1. pc' = [pc EXCEPT ![Worker] = "drained"] /\ pending' = pending
    BY <1>1, <1>4 DEF WorkerInDrain
  <2>2. CASE qpc[Worker] = "re_not_empty" /\ Q!Drain(Worker)
    BY <1>2, <2>1, <2>2 DEF Base, Control, WorkerControl
  <2>3. CASE Q!DrainNotify(Worker)
    BY <1>4, <2>3, CountsNothingKeeps DEF WorkerInDrain, Q!DrainNotify, CountsNothing
  <2>4. QED
    BY <1>4, <2>2, <2>3 DEF WorkerInDrain
<1>5. CASE WorkerCount
  <2>1. /\ out[Worker] # <<>> /\ out'[Worker] = Tail(out[Worker])
        /\ UNCHANGED <<data, held, undelivered>>
        /\ pending' = pending - 1
    BY <1>1, <1>5 DEF WorkerCount, CountDown, Q!Consume
  <2>2. \A u \in Clients : pc'[u] = pc[u]
    BY <1>1, <1>5 DEF WorkerCount, CountDown
  <2>3. Owing' = Owing
    BY <2>1, <2>2 DEF Owing
  <2>4. Len(out'[Worker]) = Len(out[Worker]) - 1 /\ Len(out[Worker]) \in Nat
    BY <1>1, <2>1
  <2>5. Len(data) \in Nat
    BY <1>1
  <2>6. Async => pending' = Cardinality(Owing') + Len(data') + Len(out'[Worker])
    <3> SUFFICES ASSUME Async
                 PROVE  pending' = Cardinality(Owing') + Len(data') + Len(out'[Worker])
      OBVIOUS
    <3>1. pending = Cardinality(Owing) + Len(data) + Len(out[Worker])
      BY DEF PendingAccounting
    <3>2. QED
      BY <2>1, <2>3, <2>4, <2>5, <3>1, OwingFinite
  <2>7. QED
    BY <2>6 DEF PendingAccounting
<1>6. CASE WorkerLocal
  <2>1. UNCHANGED <<data, out, held, undelivered>>
    BY <1>6, LocalKeepsQueue DEF qvars
  <2>2. pending' = pending
    BY <1>6
    DEF WorkerLocal, WorkerDrained, WorkerFinal, SinkStep, WriteSink,
        WorkerAnnounce, WakeFlushers
  <2>3. \A u \in Clients : pc'[u] = pc[u] \/ (pc[u] = "asleep" /\ pc'[u] = "flush")
    BY <1>1, <1>6
    DEF WorkerLocal, WorkerDrained, WorkerFinal, SinkStep, WriteSink,
        WorkerAnnounce, WakeFlushers
  <2>4. QED
    BY <2>1, <2>2, <2>3, CountsNothingKeeps DEF CountsNothing
<1>7. QED
  BY <1>3, <1>4, <1>5, <1>6 DEF WorkerInQueue

LEMMA AccountingStep ==
  ASSUME Base, PendingAccounting, [Next]_vars
  PROVE  PendingAccounting'
<1>1. ASSUME Destroy \/ OwnerInStop \/ OwnerLocal \/ UNCHANGED vars
             \/ \E t \in Actors : QueueSpuriousWake(t)
      PROVE  CountsNothing
  <2>1. UNCHANGED <<pending, data, out, held, undelivered>>
    BY <1>1
    DEF Destroy, OwnerInStop, OwnerLocal, Join, FlushSink, SinksDone,
        QueueSpuriousWake, Q!Stop, Q!StopNotify, Q!SpuriousWake, vars, qvars
  <2>2. \A t \in Clients : pc'[t] = pc[t]
    BY <1>1, Roles
    DEF Destroy, OwnerInStop, OwnerLocal, Join, FlushSink, SinksDone,
        QueueSpuriousWake, Goto, vars, Base, Control, PcControl
  <2>3. QED
    BY <2>1, <2>2 DEF CountsNothing
<1>2. QED
  BY <1>1, StepCases, ClientCounts, WorkerCounts, CountsNothingKeeps

(* pending_ counts exactly the entries that are neither dispatched nor      *)
(* given up, however clients, worker and destructor interleave.             *)
THEOREM PendingIsExact == SafetySpec => []PendingAccounting
<1>1. Init => PendingAccounting
  <2> SUFFICES ASSUME Init PROVE PendingAccounting
    OBVIOUS
  <2>1. Owing = {}
    BY Roles DEF Init, Q!Init, Owing, At
  <2>2. Len(data) = 0 /\ Len(out[Worker]) = 0 /\ pending = 0
    BY DEF Init, Q!Init
  <2>3. QED
    BY <2>1, <2>2, FS_EmptySet DEF PendingAccounting
<1>2. Base /\ PendingAccounting /\ [Next]_vars => PendingAccounting'
  BY AccountingStep
<1>3. QED
  BY <1>1, <1>2, BaseHolds, PTL DEF SafetySpec

-----------------------------------------------------------------------------
Waiting == {"decided", "asleep"}

(* A step that neither makes pending_ zero, nor begins a wait, nor ends an  *)
(* announcement.                                                            *)
StrandsNoFlusher ==
  /\ missed' = missed
  /\ pending' = 0 => pending = 0
  /\ \A t \in Clients : pc'[t] \in Waiting => pc[t] \in Waiting
  /\ \A u \in Actors : pc[u] = "announce" => pc'[u] = "announce"

LEMMA StrandsNoFlusherKeeps ==
  ASSUME NoStrandedFlusher, StrandsNoFlusher
  PROVE  NoStrandedFlusher'
BY DEF NoStrandedFlusher, StrandsNoFlusher, Waiting, At

LEMMA PendingNat == Base /\ PendingAccounting => pending \in Nat
<1> SUFFICES ASSUME Base, PendingAccounting PROVE pending \in Nat
  OBVIOUS
<1>1. Len(data) \in Nat /\ Len(out[Worker]) \in Nat
  BY DEF Base, Q!TypeOK
<1>2. QED
  BY <1>1, OwingFinite DEF Base, Control, SyncControl, PendingAccounting

(* Everybody who sleeps is woken, and who is about to sleep has missed it.  *)
LEMMA AnnounceStrandsNobody ==
  ASSUME Base, NEW t \in Actors, NEW next, next \notin Waiting, WakeFlushers(t, next)
  PROVE  NoStrandedFlusher'
<1>1. \A u \in Clients : pc'[u] \in Waiting => pc[u] = "decided"
  BY Roles DEF WakeFlushers, Waiting
<1>2. missed' = {u \in Clients : pc[u] = "decided"}
  BY DEF WakeFlushers, At
<1>3. QED
  BY <1>1, <1>2 DEF NoStrandedFlusher, Waiting

LEMMA CountDownStrandsNobody ==
  ASSUME Base, pending \in Nat, NoStrandedFlusher,
         NEW t \in Actors, pc[t] \in {"pushed", "dispatch"},
         NEW where, where \notin Waiting,
         CountDown(t, where), missed' = missed
  PROVE  NoStrandedFlusher'
<1>1. pc \in [Actors -> Phases]
  BY DEF Base, Control, PcControl
<1>2. CASE pending = 1
  <2>1. pc'[t] = "announce"
    BY <1>1, <1>2 DEF CountDown, ReachesZero, Goto
  <2>2. QED
    BY <2>1 DEF NoStrandedFlusher, At
<1>3. CASE pending # 1
  BY <1>3 DEF CountDown, NoStrandedFlusher
<1>4. QED
  BY <1>2, <1>3

LEMMA FlusherStep ==
  ASSUME Base, PendingAccounting, NoStrandedFlusher, [Next]_vars
  PROVE  NoStrandedFlusher'
<1> USE Roles, StrandsNoFlusherKeeps DEF Runs, At, Goto
<1>1. pc \in [Actors -> Phases] /\ pending \in Nat
  BY PendingNat DEF Base, Control, PcControl
<1>2. ASSUME NEW t \in Clients, ClientInQueue(t) \/ ClientLocal(t)
      PROVE  NoStrandedFlusher'
  <2>1. CASE Log(t) \/ ClientInQueue(t)
    <3>1. StrandsNoFlusher
      BY <1>1, <2>1
      DEF Log, CountUp, ClientInQueue, LogPush, LogResume, LogNotify, RecordPush,
          hist, StrandsNoFlusher, Waiting
    <3>2. QED
      BY <3>1
  <2>2. CASE LogReturn(t)
    <3>1. missed' = missed /\ pc[t] = "pushed"
      BY <2>2 DEF LogReturn, hist
    <3>2. CASE GivesBack(t)
      <4>1. CountDown(t, "idle")
        BY <2>2, <3>2 DEF LogReturn
      <4>2. QED
        BY <1>1, <3>1, <4>1, CountDownStrandsNobody DEF Waiting
    <3>3. CASE ~GivesBack(t)
      <4>1. StrandsNoFlusher
        BY <1>1, <2>2, <3>1, <3>3 DEF LogReturn, StrandsNoFlusher, Waiting
      <4>2. QED
        BY <4>1
    <3>4. QED
      BY <3>2, <3>3
  <2>3. CASE LogAnnounce(t)
    BY <2>3, AnnounceStrandsNobody DEF LogAnnounce, Waiting
  <2>4. CASE SyncReturn(t) \/ Flush(t) \/ SinkStep(t)
    <3>1. StrandsNoFlusher
      BY <1>1, <2>4
      DEF SyncReturn, Flush, SinkStep, WriteSink, hist, StrandsNoFlusher, Waiting
    <3>2. QED
      BY <3>1
  <2>5. CASE FlushCheck(t)
    <3>1. CASE pending = 0
      <4>1. StrandsNoFlusher
        BY <1>1, <2>5, <3>1 DEF FlushCheck, Drained, hist, StrandsNoFlusher, Waiting
      <4>2. QED
        BY <4>1
    <3>2. CASE pending # 0
      BY <2>5, <3>2 DEF FlushCheck, NoStrandedFlusher
    <3>3. QED
      BY <3>1, <3>2
  <2>6. CASE FlushSleep(t) \/ FlushSink(t) \/ SinksDone(t)
    <3>1. StrandsNoFlusher
      BY <1>1, <2>6
      DEF FlushSleep, FlushSink, SinksDone, hist, StrandsNoFlusher, Waiting
    <3>2. QED
      BY <3>1
  <2>7. CASE FlushSpuriousWake(t)
    BY <1>1, <2>7 DEF FlushSpuriousWake, NoStrandedFlusher
  <2>8. QED
    BY <1>2, <2>1, <2>2, <2>3, <2>4, <2>5, <2>6, <2>7 DEF ClientLocal, FlushStep
<1>3. ASSUME WorkerInQueue \/ WorkerLocal
      PROVE  NoStrandedFlusher'
  <2>1. CASE WorkerDrain \/ WorkerInDrain \/ WorkerDrained \/ WorkerFinal
             \/ SinkStep(Worker)
    <3>1. StrandsNoFlusher
      BY <1>1, <2>1
      DEF WorkerDrain, WorkerInDrain, WorkerDrained, WorkerFinal, SinkStep,
          WriteSink, hist, StrandsNoFlusher, Waiting
    <3>2. QED
      BY <3>1
  <2>2. CASE WorkerCount
    <3>1. missed' = missed /\ pc[Worker] = "dispatch"
      BY <2>2 DEF WorkerCount, hist
    <3>2. CountDown(Worker, NextEntry(out'[Worker]))
      BY <2>2 DEF WorkerCount
    <3>3. NextEntry(out'[Worker]) \notin Waiting
      BY DEF NextEntry, Waiting
    <3>4. QED
      BY <1>1, <3>1, <3>2, <3>3, CountDownStrandsNobody
  <2>3. CASE WorkerAnnounce
    <3>1. NextEntry(out[Worker]) \notin Waiting
      BY DEF NextEntry, Waiting
    <3>2. QED
      BY <2>3, <3>1, AnnounceStrandsNobody DEF WorkerAnnounce
  <2>4. QED
    BY <1>3, <2>1, <2>2, <2>3 DEF WorkerInQueue, WorkerLocal
<1>4. ASSUME Destroy \/ OwnerInStop \/ OwnerLocal \/ UNCHANGED vars
             \/ \E t \in Actors : QueueSpuriousWake(t)
      PROVE  StrandsNoFlusher
  BY <1>1, <1>4
  DEF Destroy, OwnerInStop, OwnerLocal, Join, FlushSink, SinksDone,
      QueueSpuriousWake, vars, hist, StrandsNoFlusher, Waiting
<1>5. QED
  BY <1>2, <1>3, <1>4, StepCases

(* A flusher waits in vain only if its notification came between its check  *)
(* and its sleep: otherwise the zero it waits for is still to come or still *)
(* to be announced.                                                         *)
THEOREM FlusherNotStranded == SafetySpec => []NoStrandedFlusher
<1>1. Init => NoStrandedFlusher
  BY Roles DEF Init, NoStrandedFlusher
<1>2. Base /\ PendingAccounting /\ NoStrandedFlusher /\ [Next]_vars => NoStrandedFlusher'
  BY FlusherStep
<1>3. QED
  BY <1>1, <1>2, BaseHolds, PendingIsExact, PTL DEF SafetySpec

-----------------------------------------------------------------------------
(* Only a push with BLOCK keeps its entry while it waits.                   *)
HoldsInBlock ==
  \A t \in Clients : held[t] # <<>> => OverflowPolicy = "BLOCK"

LEMMA HoldsStep ==
  ASSUME Base, HoldsInBlock, [Next]_vars
  PROVE  HoldsInBlock'
<1>1. held \in [Clients -> {<<>>} \cup {<<e>> : e \in Entry}]
  BY DEF Base, Q!TypeOK
<1>2. ASSUME UNCHANGED held PROVE HoldsInBlock'
  BY <1>2 DEF HoldsInBlock
<1>3. ASSUME NEW t \in Clients, LogPush(t) \/ LogResume(t)
      PROVE  HoldsInBlock'
  <2>1. ASSUME NEW u \in Clients, u # t PROVE held'[u] = held[u]
    <3>1. CASE LogPush(t)
      BY <1>1, <2>1, <3>1 DEF LogPush, Q!Push, Q!Enqueue, Q!Refuse, Q!Block
    <3>2. CASE LogResume(t)
      BY <1>1, <2>1, <3>2 DEF LogResume, Q!PushResume, Q!Enqueue, Q!Refuse, Q!Block
    <3>3. QED
      BY <1>3, <3>1, <3>2
  <2>2. CASE LogPush(t)
    <3>1. held'[t] = <<>> \/ OverflowPolicy = "BLOCK"
      BY <1>1, <2>2 DEF LogPush, Q!Push, Q!Enqueue, Q!Refuse
    <3>2. QED
      BY <2>1, <3>1 DEF HoldsInBlock
  <2>3. CASE LogResume(t)
    <3>1. held[t] # <<>>
      BY <2>3 DEF LogResume, Q!PushResume, Base, Q!TypeOK
    <3>2. QED
      BY <2>1, <3>1 DEF HoldsInBlock
  <2>4. QED
    BY <1>3, <2>2, <2>3
<1>4. ASSUME WorkerInQueue \/ Destroy \/ OwnerInStop \/ UNCHANGED vars
             \/ (\E t \in Clients : LogNotify(t))
             \/ (\E t \in Actors : QueueSpuriousWake(t))
      PROVE  UNCHANGED held
  BY <1>4
  DEF WorkerInQueue, WorkerDrain, WorkerInDrain, WorkerCount, Q!Drain,
      Q!DrainNotify, Q!Consume, Destroy, OwnerInStop, Q!Stop, Q!StopNotify,
      LogNotify, Q!PushNotify, QueueSpuriousWake, Q!SpuriousWake, vars, qvars
<1>5. QED
  BY <1>2, <1>3, <1>4, StepCases, LocalKeepsQueue DEF ClientInQueue, qvars

(* What a push reports lost is an entry: its own, or the one it evicted.    *)
LEMMA LossIsEntry ==
  ASSUME Base, HoldsInBlock, NEW t \in Clients, LogPush(t) \/ LogResume(t)
  PROVE  Loss(t) \subseteq Entry
<1>1. /\ data \in Seq(Entry)
      /\ undelivered \in [Clients -> {0, 1}]
      /\ held[t] # <<>> <=> qpc[t] \in {"not_full", "re_not_full"}
  BY DEF Base, Q!TypeOK
<1>2. Current(t) \in Entry
  BY CurrentIsEntry
  DEF Base, Control, LogPush, LogResume, Runs, At, InLog
<1>3. CASE OverflowPolicy # "DROP_OLDEST"
  BY <1>2, <1>3 DEF Loss
<1>4. CASE OverflowPolicy = "DROP_OLDEST"
  <2>1. LogPush(t)
    BY <1>1, <1>4 DEF LogResume, Q!PushResume, HoldsInBlock
  <2>2. CASE Q!Full
    <3>1. data # <<>>
      BY <1>1, <1>4, <2>2, LoggerAssumption DEF Q!Full
    <3>2. Head(data) \in Entry
      BY <1>1, <3>1
    <3>3. QED
      BY <1>2, <3>2 DEF Loss
  <2>3. CASE ~Q!Full
    <3>1. undelivered'[t] = 0
      BY <1>1, <2>1, <2>3 DEF LogPush, Q!Push, Q!Enqueue, Q!Return
    <3>2. QED
      BY <3>1 DEF Loss
  <2>4. QED
    BY <2>2, <2>3
<1>5. QED
  BY <1>3, <1>4

SinkTypes ==
  /\ todo \in [Actors -> SUBSET Sinks]
  /\ written \in [Sinks -> Seq(Entry)]
  /\ flushed \in [Sinks -> Nat]
  /\ lastPass \in BOOLEAN

HistoryTypes ==
  /\ dropped \subseteq Entry
  /\ owed \in [Clients -> SUBSET Entry]
  /\ missed \subseteq Clients

(* A thread that dispatches has an entry to dispatch.                       *)
LEMMA HandlingIsEntry ==
  ASSUME Base, NEW t \in Clients \cup {Worker}, pc[t] = "dispatch"
  PROVE  Handling(t) \in Entry
<1>1. CASE t = Worker
  <2>1. out[Worker] # <<>> /\ out[Worker] \in Seq(Entry)
    BY <1>1 DEF Base, Q!TypeOK, Control, WorkerControl
  <2>2. QED
    BY <1>1, <2>1 DEF Handling
<1>2. CASE t # Worker
  BY <1>2, CurrentIsEntry DEF Base, Control, InLog, Handling
<1>3. QED
  BY <1>1, <1>2

LEMMA SinkTypesStep ==
  ASSUME Base, SinkTypes, [Next]_vars
  PROVE  SinkTypes'
<1> USE Roles
<1>1. ASSUME UNCHANGED <<todo, written, flushed, lastPass>>
      PROVE  SinkTypes'
  BY <1>1 DEF SinkTypes
<1>2. ASSUME UNCHANGED <<written, flushed, lastPass>>,
             NEW t \in Actors, todo' = [todo EXCEPT ![t] = Sinks]
      PROVE  SinkTypes'
  BY <1>2 DEF SinkTypes
<1>3. ASSUME NEW t \in Clients \cup {Worker}, SinkStep(t)
      PROVE  SinkTypes'
  <2>1. PICK i \in Sinks : WriteSink(t, i)
    BY <1>3 DEF SinkStep
  <2>2. Handling(t) \in Entry
    BY <2>1, HandlingIsEntry DEF WriteSink, Runs, At
  <2>3. Append(written[i], Handling(t)) \in Seq(Entry)
    BY <2>2 DEF SinkTypes
  <2>4. written' \in [Sinks -> Seq(Entry)]
    BY <2>1, <2>3 DEF WriteSink, SinkTypes
  <2>5. t \in Actors /\ todo' \in [Actors -> SUBSET Sinks]
    BY <2>1 DEF WriteSink, SinkTypes
  <2>6. QED
    BY <2>1, <2>4, <2>5 DEF WriteSink, SinkTypes
<1>4. ASSUME NEW t \in Actors, FlushSink(t)
      PROVE  SinkTypes'
  <2>1. PICK i \in todo[t] :
          /\ flushed' = [flushed EXCEPT ![i] = Len(written[i])]
          /\ todo' = [todo EXCEPT ![t] = @ \ {i}]
    BY <1>4 DEF FlushSink
  <2>2. i \in Sinks
    BY DEF SinkTypes
  <2>3. Len(written[i]) \in Nat
    BY <2>2 DEF SinkTypes
  <2>4. flushed' \in [Sinks -> Nat] /\ todo' \in [Actors -> SUBSET Sinks]
    BY <2>1, <2>3 DEF SinkTypes
  <2>5. QED
    BY <1>4, <2>4 DEF FlushSink, SinkTypes
<1>5. ASSUME NEW t \in Clients, ClientInQueue(t) \/ ClientLocal(t)
      PROVE  SinkTypes'
  <2>1. CASE SyncReturn(t) \/ SinksDone(t)
    BY <1>2, <2>1 DEF SyncReturn, SinksDone
  <2>2. CASE ClientInQueue(t) \/ Log(t) \/ LogReturn(t) \/ LogAnnounce(t)
    BY <1>1, <2>2
    DEF ClientInQueue, LogPush, LogResume, LogNotify, Log, LogReturn,
        LogAnnounce, WakeFlushers
  <2>3. CASE Flush(t) \/ FlushCheck(t) \/ FlushSleep(t) \/ FlushSpuriousWake(t)
    BY <1>1, <2>3 DEF Flush, FlushCheck, FlushSleep, FlushSpuriousWake
  <2>4. QED
    BY <1>3, <1>4, <1>5, <2>1, <2>2, <2>3 DEF ClientLocal, FlushStep
<1>6. ASSUME WorkerInQueue \/ WorkerLocal
      PROVE  SinkTypes'
  <2>1. CASE WorkerCount
    BY <1>2, <2>1 DEF WorkerCount
  <2>2. CASE WorkerDrained
    BY <2>2 DEF WorkerDrained, SinkTypes
  <2>3. CASE WorkerDrain \/ WorkerInDrain \/ WorkerFinal \/ WorkerAnnounce
    BY <1>1, <2>3
    DEF WorkerDrain, WorkerInDrain, WorkerFinal, WorkerAnnounce, WakeFlushers
  <2>4. QED
    BY <1>3, <1>6, <2>1, <2>2, <2>3 DEF WorkerInQueue, WorkerLocal
<1>7. ASSUME Destroy \/ OwnerInStop \/ Join \/ UNCHANGED vars
             \/ \E t \in Actors : QueueSpuriousWake(t)
      PROVE  SinkTypes'
  BY <1>1, <1>7 DEF Destroy, OwnerInStop, Join, QueueSpuriousWake, vars
<1>8. SinksDone(Owner) => SinkTypes'
  BY <1>2 DEF SinksDone
<1>9. QED
  BY <1>4, <1>5, <1>6, <1>7, <1>8, StepCases DEF OwnerLocal

LEMMA HistoryTypesStep ==
  ASSUME Base, HoldsInBlock, HistoryTypes, [Next]_vars
  PROVE  HistoryTypes'
<1> USE Roles
<1>1. ASSUME UNCHANGED hist
      PROVE  HistoryTypes'
  BY <1>1 DEF hist, HistoryTypes
<1>2. ASSUME NEW t \in Actors, NEW next, WakeFlushers(t, next)
      PROVE  HistoryTypes'
  BY <1>2 DEF WakeFlushers, HistoryTypes
<1>3. ASSUME NEW t \in Actors, SinksDone(t)
      PROVE  HistoryTypes'
  BY <1>3 DEF SinksDone, HistoryTypes
<1>4. ASSUME NEW t \in Clients, ClientInQueue(t) \/ ClientLocal(t)
      PROVE  HistoryTypes'
  <2>1. CASE LogPush(t) \/ LogResume(t)
    <3>1. Loss(t) \subseteq Entry
      BY <2>1, LossIsEntry
    <3>2. Current(t) \in Entry
      BY <2>1, CurrentIsEntry DEF Base, Control, LogPush, LogResume, Runs, At, InLog
    <3>3. RecordPush(t)
      BY <2>1 DEF LogPush, LogResume
    <3>4. QED
      BY <3>1, <3>2, <3>3 DEF RecordPush, HistoryTypes
  <2>2. CASE LogNotify(t) \/ Log(t) \/ LogReturn(t) \/ SyncReturn(t) \/ SinkStep(t)
             \/ FlushCheck(t) \/ FlushSleep(t) \/ FlushSink(t)
    BY <1>1, <2>2
    DEF LogNotify, Log, LogReturn, SyncReturn, SinkStep, WriteSink, FlushCheck,
        FlushSleep, FlushSink
  <2>3. CASE LogAnnounce(t)
    BY <1>2, <2>3 DEF LogAnnounce
  <2>4. CASE Flush(t)
    <3>1. Returned \subseteq Entry
      BY DEF Returned
    <3>2. QED
      BY <2>4, <3>1 DEF Flush, HistoryTypes
  <2>5. CASE FlushSpuriousWake(t)
    BY <2>5 DEF FlushSpuriousWake, HistoryTypes
  <2>6. QED
    BY <1>3, <1>4, <2>1, <2>2, <2>3, <2>4, <2>5
    DEF ClientInQueue, ClientLocal, FlushStep
<1>5. ASSUME WorkerInQueue \/ WorkerLocal
      PROVE  HistoryTypes'
  <2>1. CASE WorkerAnnounce
    BY <1>2, <2>1 DEF WorkerAnnounce
  <2>2. CASE ~WorkerAnnounce
    BY <1>1, <1>5, <2>2
    DEF WorkerInQueue, WorkerLocal, WorkerDrain, WorkerInDrain, WorkerCount,
        WorkerDrained, WorkerFinal, SinkStep, WriteSink
  <2>3. QED
    BY <2>1, <2>2
<1>6. ASSUME Destroy \/ OwnerInStop \/ Join \/ FlushSink(Owner) \/ UNCHANGED vars
             \/ \E t \in Actors : QueueSpuriousWake(t)
      PROVE  HistoryTypes'
  BY <1>1, <1>6 DEF Destroy, OwnerInStop, Join, FlushSink, QueueSpuriousWake, vars
<1>7. QED
  BY <1>3, <1>4, <1>5, <1>6, StepCases DEF OwnerLocal

LEMMA TypesInit == Init => HoldsInBlock /\ SinkTypes /\ HistoryTypes
<1> SUFFICES ASSUME Init PROVE HoldsInBlock /\ SinkTypes /\ HistoryTypes
  OBVIOUS
<1>1. HoldsInBlock
  BY DEF Init, Q!Init, HoldsInBlock
<1>2. SinkTypes
  <2>1. <<>> \in Seq(Entry)
    OBVIOUS
  <2>2. lastPass \in BOOLEAN
    BY DEF Init
  <2>3. /\ todo \in [Actors -> SUBSET Sinks]
        /\ written \in [Sinks -> Seq(Entry)]
        /\ flushed \in [Sinks -> Nat]
    BY <2>1 DEF Init
  <2>4. QED
    BY <2>2, <2>3 DEF SinkTypes
<1>3. HistoryTypes
  BY DEF Init, HistoryTypes
<1>4. QED
  BY <1>1, <1>2, <1>3

(* The Logger's state has the types the code gives it; pending_ never goes  *)
(* below zero, where size_t would wrap.                                     *)
THEOREM TypeCorrect == SafetySpec => []TypeOK
<1> DEFINE Inv == HoldsInBlock /\ SinkTypes /\ HistoryTypes
<1>1. Init => Inv
  BY TypesInit
<1>2. Base /\ Inv /\ [Next]_vars => Inv'
  BY HoldsStep, SinkTypesStep, HistoryTypesStep
<1>3. Base /\ PendingAccounting /\ Inv => TypeOK
  <2> SUFFICES ASSUME Base, PendingAccounting, Inv PROVE TypeOK
    OBVIOUS
  <2>1. pending \in Nat
    BY PendingNat
  <2>2. pc \in [Actors -> UNION {PcOf(t) : t \in Actors}]
    <3>1. \A t \in Actors : pc[t] \in UNION {PcOf(u) : u \in Actors}
      BY DEF Base, Control, PcControl
    <3>2. QED
      BY <3>1 DEF Base, Control, PcControl
  <2>3. QED
    BY <2>1, <2>2
    DEF Base, Control, PcControl, CallControl, SinkTypes, HistoryTypes, TypeOK
<1>4. QED
  BY <1>1, <1>2, <1>3, BaseHolds, PendingIsExact, PTL DEF SafetySpec

-----------------------------------------------------------------------------
(* What a BLOCK logger loses, and what is left for the last pass.           *)
LEMMA StaysStopped ==
  ASSUME [Next]_vars, stopped
  PROVE  stopped'
<1>1. ASSUME NEW t \in Clients, ClientInQueue(t) PROVE stopped'
  BY <1>1 DEF ClientInQueue, LogPush, LogResume, LogNotify, Q!Push, Q!PushResume,
              Q!PushNotify, Q!Enqueue, Q!Refuse, Q!Block
<1>2. ASSUME WorkerInQueue \/ Destroy \/ OwnerInStop \/ UNCHANGED vars
             \/ \E t \in Actors : QueueSpuriousWake(t)
      PROVE  stopped'
  BY <1>2
  DEF WorkerInQueue, WorkerDrain, WorkerInDrain, WorkerCount, Q!Drain,
      Q!DrainNotify, Q!Consume, Destroy, OwnerInStop, Q!Stop, Q!StopNotify,
      QueueSpuriousWake, Q!SpuriousWake, vars, qvars
<1>3. UNCHANGED qvars => stopped'
  BY DEF qvars
<1>4. QED
  BY <1>1, <1>2, <1>3, StepCases, LocalKeepsQueue

LEMMA BlockLosesNothing ==
  ASSUME Base, OverflowPolicy = "BLOCK", ~stopped,
         NEW t \in Clients, LogPush(t) \/ LogResume(t)
  PROVE  dropped' = dropped
<1> USE Roles DEF Q!Goto
<1>1. /\ t \in DOMAIN qpc /\ qpc \in [DOMAIN qpc -> Q!ProducerPhase \cup Q!ConsumerPhase \cup Q!StopperPhase]
      /\ undelivered \in [Clients -> {0, 1}]
  BY DEF Base, Q!TypeOK, Q!Threads
<1>2. undelivered'[t] = 0 \/ qpc'[t] = "not_full"
  <2>1. CASE LogPush(t)
    <3>1. ASSUME NEW x, Q!Enqueue(t, x, data, 0) PROVE undelivered'[t] = 0
      BY <1>1, <3>1 DEF Q!Enqueue, Q!Return
    <3>2. ASSUME NEW x, Q!Block(t, x) PROVE qpc'[t] = "not_full"
      BY <1>1, <3>2 DEF Q!Block
    <3>3. QED
      BY <2>1, <3>1, <3>2 DEF LogPush, Q!Push
  <2>2. CASE LogResume(t)
    <3>1. ASSUME NEW x, Q!Enqueue(t, x, data, 0) PROVE undelivered'[t] = 0
      BY <1>1, <3>1 DEF Q!Enqueue, Q!Return
    <3>2. ASSUME NEW x, Q!Block(t, x) PROVE qpc'[t] = "not_full"
      BY <1>1, <3>2 DEF Q!Block
    <3>3. QED
      BY <2>2, <3>1, <3>2 DEF LogResume, Q!PushResume
  <2>3. QED
    BY <2>1, <2>2
<1>3. Loss(t) = {}
  BY <1>2 DEF Loss
<1>4. QED
  BY <1>3 DEF LogPush, LogResume, RecordPush

LEMMA BlockKeepsStep ==
  ASSUME Base, BlockKeepsAll, [Next]_vars
  PROVE  BlockKeepsAll'
<1> USE Roles
<1>1. ASSUME UNCHANGED dropped PROVE BlockKeepsAll'
  BY <1>1, StaysStopped DEF BlockKeepsAll
<1>2. ASSUME NEW t \in Clients, LogPush(t) \/ LogResume(t) PROVE BlockKeepsAll'
  <2>1. CASE stopped
    BY <2>1, StaysStopped DEF BlockKeepsAll
  <2>2. CASE OverflowPolicy # "BLOCK"
    BY <2>2 DEF BlockKeepsAll
  <2>3. CASE ~stopped /\ OverflowPolicy = "BLOCK"
    BY <1>1, <1>2, <2>3, BlockLosesNothing
  <2>4. QED
    BY <2>1, <2>2, <2>3
<1>3. ASSUME NEW t \in Clients, LogNotify(t) \/ ClientLocal(t) PROVE UNCHANGED dropped
  BY <1>3
  DEF LogNotify, ClientLocal, Log, LogReturn, LogAnnounce, WakeFlushers, SyncReturn,
      Flush, FlushStep, FlushCheck, FlushSleep, FlushSink, SinksDone, SinkStep,
      WriteSink, FlushSpuriousWake, hist
<1>4. ASSUME WorkerInQueue \/ WorkerLocal PROVE UNCHANGED dropped
  BY <1>4
  DEF WorkerInQueue, WorkerLocal, WorkerDrain, WorkerInDrain, WorkerCount,
      WorkerDrained, WorkerFinal, WorkerAnnounce, WakeFlushers, SinkStep, WriteSink, hist
<1>5. ASSUME Destroy \/ OwnerInStop \/ OwnerLocal \/ UNCHANGED vars
             \/ \E t \in Actors : QueueSpuriousWake(t)
      PROVE  UNCHANGED dropped
  BY <1>5
  DEF Destroy, OwnerInStop, OwnerLocal, Join, FlushSink, SinksDone,
      QueueSpuriousWake, vars, hist
<1>6. QED
  BY <1>1, <1>2, <1>3, <1>4, <1>5, StepCases DEF ClientInQueue

(* A BLOCK logger drops an entry only once stop() has been called.          *)
THEOREM BlockNeverDrops == SafetySpec => []BlockKeepsAll
<1>1. Init => BlockKeepsAll
  BY DEF Init, BlockKeepsAll
<1>2. Base /\ BlockKeepsAll /\ [Next]_vars => BlockKeepsAll'
  BY BlockKeepsStep
<1>3. QED
  BY <1>1, <1>2, BaseHolds, PTL DEF SafetySpec

(* If the owner waits for the callers nobody is in a call after stop(); the *)
(* worker takes something, or gives up on a stopped and empty queue, which  *)
(* then stays so.                                                           *)
Quiet == stopped => pc[Owner] # "idle" /\ \A t \in Clients : pc[t] = "idle"

Took == qpc[Worker] = "notify_full" => out[Worker] # <<>>

GaveUp ==
  pc[Worker] = "drained" /\ qpc[Worker] = "idle" /\ out[Worker] = <<>> =>
    stopped /\ data = <<>>

NothingLeft == lastPass => stopped /\ data = <<>> /\ out[Worker] = <<>>

LastInv == Quiet /\ Took /\ GaveUp /\ NothingLeft

LEMMA QuietClients ==
  ASSUME Base, Quiet, stopped, NEW t \in Clients
  PROVE  ~ClientInQueue(t) /\ ~ClientLocal(t)
<1>1. pc[t] = "idle" /\ pc[Owner] # "idle"
  BY DEF Quiet
<1>2. QED
  BY <1>1
  DEF ClientInQueue, ClientLocal, LogPush, LogResume, LogNotify, Log, LogReturn,
      LogAnnounce, SyncReturn, Flush, FlushStep, FlushCheck, FlushSleep, FlushSink,
      SinksDone, SinkStep, WriteSink, FlushSpuriousWake, Runs, At

LEMMA ClientsSpareWorker ==
  ASSUME Base, NEW t \in Clients, ClientInQueue(t) \/ ClientLocal(t)
  PROVE  pc'[Worker] = pc[Worker] /\ lastPass' = lastPass
<1> USE Roles DEF Goto
<1>1. pc \in [Actors -> Phases] /\ pc[Worker] # "asleep"
  BY DEF Base, Control, PcControl, PcOf
<1>2. CASE ClientInQueue(t)
  BY <1>1, <1>2 DEF ClientInQueue, LogPush, LogResume, LogNotify
<1>3. CASE LogAnnounce(t)
  BY <1>1, <1>3 DEF LogAnnounce, WakeFlushers
<1>4. CASE Log(t) \/ LogReturn(t) \/ SyncReturn(t) \/ Flush(t) \/ FlushSpuriousWake(t)
  BY <1>1, <1>4 DEF Log, LogReturn, CountDown, SyncReturn, Flush, FlushSpuriousWake
<1>5. CASE FlushStep(t) \/ SinkStep(t)
  BY <1>1, <1>5 DEF FlushStep, FlushCheck, FlushSleep, FlushSink, SinksDone, SinkStep, WriteSink
<1>6. QED
  BY <1>2, <1>3, <1>4, <1>5 DEF ClientLocal

LEMMA LastClientStep ==
  ASSUME Base, LastInv, NEW t \in Clients, ClientInQueue(t) \/ ClientLocal(t)
  PROVE  LastInv'
<1>1. ~stopped
  BY QuietClients DEF LastInv
<1>2. ~stopped'
  <2>1. CASE ClientInQueue(t)
    BY <1>1, <2>1
    DEF ClientInQueue, LogPush, LogResume, LogNotify, Q!Push, Q!PushResume,
        Q!PushNotify, Q!Enqueue, Q!Refuse, Q!Block
  <2>2. CASE ClientLocal(t)
    BY <1>1, <2>2, LocalKeepsQueue DEF qvars
  <2>3. QED
    BY <2>1, <2>2
<1>3. pc'[Worker] = pc[Worker] /\ lastPass' = lastPass
  BY ClientsSpareWorker
<1>4. WorkerUndisturbed
  <2>1. CASE ClientInQueue(t)
    BY <2>1, OthersInQueue DEF Base
  <2>2. CASE ClientLocal(t)
    BY <2>2, LocalKeepsQueue DEF qvars, WorkerUndisturbed
  <2>3. QED
    BY <2>1, <2>2
<1>5. QED
  BY <1>1, <1>2, <1>3, <1>4
  DEF LastInv, Quiet, Took, GaveUp, NothingLeft, WorkerUndisturbed

LEMMA LastOwnerStep ==
  ASSUME Base, LastInv, OwnerWaits,
         \/ Destroy \/ OwnerInStop \/ OwnerLocal \/ UNCHANGED vars
         \/ \E t \in Actors : QueueSpuriousWake(t)
  PROVE  LastInv'
<1> USE Roles DEF Goto
<1>1. pc \in [Actors -> Phases]
  BY DEF Base, Control, PcControl
<1>2. /\ data' = data /\ lastPass' = lastPass
      /\ pc'[Worker] = pc[Worker] /\ \A t \in Clients : pc'[t] = pc[t]
  <2>1. CASE Destroy
    BY <1>1, <2>1 DEF Destroy, Q!Stop, qvars
  <2>2. CASE OwnerLocal
    BY <1>1, <2>2 DEF OwnerLocal, Join, FlushSink, SinksDone, qvars
  <2>3. CASE OwnerInStop \/ UNCHANGED vars \/ \E t \in Actors : QueueSpuriousWake(t)
    BY <2>3 DEF OwnerInStop, Q!StopNotify, QueueSpuriousWake, Q!SpuriousWake, vars, qvars
  <2>4. QED
    BY <2>1, <2>2, <2>3
<1>3. WorkerUndisturbed
  <2>1. CASE OwnerLocal \/ UNCHANGED vars
    BY <2>1, LocalKeepsQueue DEF vars, qvars, WorkerUndisturbed
  <2>2. QED
    BY <2>1, OthersInQueue DEF Base
<1>4. Quiet'
  <2>1. CASE Destroy
    <3>1. pc'[Owner] # "idle"
      BY <1>1, <2>1 DEF Destroy
    <3>2. \A t \in Clients : pc[t] = "idle"
      BY <2>1 DEF Destroy, At
    <3>3. QED
      BY <1>2, <3>1, <3>2 DEF Quiet
  <2>2. CASE OwnerLocal
    <3>1. pc'[Owner] # "idle" \/ pc'[Owner] = pc[Owner]
      BY <1>1, <2>2 DEF OwnerLocal, Join, FlushSink, SinksDone
    <3>2. stopped' = stopped
      BY <2>2, LocalKeepsQueue DEF qvars
    <3>3. QED
      BY <1>2, <3>1, <3>2 DEF Quiet, LastInv
  <2>3. CASE OwnerInStop \/ UNCHANGED vars \/ \E t \in Actors : QueueSpuriousWake(t)
    <3>1. UNCHANGED <<pc, stopped>>
      BY <2>3 DEF OwnerInStop, Q!StopNotify, QueueSpuriousWake, Q!SpuriousWake, vars, qvars
    <3>2. QED
      BY <3>1 DEF Quiet, LastInv
  <2>4. QED
    BY <2>1, <2>2, <2>3
<1>5. stopped => stopped'
  BY StaysStopped DEF Next, OwnerStep, OwnerLocal
<1>6. QED
  BY <1>2, <1>3, <1>4, <1>5 DEF LastInv, Took, GaveUp, NothingLeft, WorkerUndisturbed

LEMMA WorkerKeepsQuiet ==
  ASSUME Base, Quiet, WorkerInQueue \/ WorkerLocal
  PROVE  Quiet' /\ stopped' = stopped
<1> USE Roles DEF Goto
<1>1. pc \in [Actors -> Phases]
  BY DEF Base, Control, PcControl
<1>2. stopped' = stopped
  <2>1. CASE WorkerInQueue
    BY <2>1 DEF WorkerInQueue, WorkerDrain, WorkerInDrain, WorkerCount, Q!Drain,
                Q!DrainNotify, Q!Consume
  <2>2. CASE WorkerLocal
    BY <2>2, LocalKeepsQueue DEF qvars
  <2>3. QED
    BY <2>1, <2>2
<1>3. CASE WorkerAnnounce
  <2>1. \A u \in Actors : u # Worker /\ pc[u] # "asleep" => pc'[u] = pc[u]
    <3>1. PICK next : WakeFlushers(Worker, next)
      BY <1>3 DEF WorkerAnnounce
    <3>2. QED
      BY <3>1 DEF WakeFlushers
  <2>2. pc[Owner] # "asleep"
    BY DEF Base, Control, PcControl, PcOf
  <2>3. \A t \in Clients : pc[t] = "idle" => pc'[t] = "idle"
    BY <2>1
  <2>4. pc'[Owner] = pc[Owner]
    BY <2>1, <2>2
  <2>5. QED
    BY <1>2, <2>3, <2>4 DEF Quiet
<1>4. CASE ~WorkerAnnounce
  <2>1. \A u \in Actors : u # Worker => pc'[u] = pc[u]
    BY <1>1, <1>4
    DEF WorkerInQueue, WorkerLocal, WorkerDrain, WorkerInDrain, WorkerCount,
        CountDown, WorkerDrained, WorkerFinal, SinkStep, WriteSink
  <2>2. QED
    BY <1>2, <2>1 DEF Quiet
<1>5. QED
  BY <1>2, <1>3, <1>4

(* The worker leaves the main loop only when drain() gave up.               *)
LEMMA LastWorkerStep ==
  ASSUME Base, LastInv, WorkerInQueue \/ WorkerLocal
  PROVE  LastInv'
<1> USE Roles DEF Goto, Runs, At
<1>1. Quiet' /\ stopped' = stopped
  BY WorkerKeepsQuiet DEF LastInv
<1>2. /\ pc \in [Actors -> Phases]
      /\ qpc \in [Actors -> Q!ProducerPhase \cup Q!ConsumerPhase \cup Q!StopperPhase]
      /\ WorkerControl /\ Took /\ GaveUp /\ NothingLeft
      /\ out = [c \in {Worker} |-> out[c]]
  BY DEF Base, Control, PcControl, LastInv, Q!TypeOK, Q!Threads, Actors
<1>3. ASSUME Q!Drain(Worker), out[Worker] = <<>>, lastPass' = lastPass
      PROVE  Took' /\ GaveUp' /\ NothingLeft'
  <2>1. CASE data # <<>>
    <3>1. qpc'[Worker] = "notify_full" /\ out'[Worker] = data
      BY <1>2, <1>3, <2>1 DEF Q!Drain, Q!CanTake, Q!Goto
    <3>2. ~lastPass
      BY <1>2, <2>1 DEF NothingLeft
    <3>3. Took' /\ GaveUp'
      BY <2>1, <3>1 DEF Took, GaveUp
    <3>4. NothingLeft'
      BY <1>3, <3>2 DEF NothingLeft
    <3>5. QED
      BY <3>3, <3>4
  <2>2. CASE data = <<>>
    <3>1. data' = data /\ out' = out
      BY <1>3, <2>2 DEF Q!Drain, Q!CanTake
    <3>2. qpc'[Worker] = IF stopped THEN "idle" ELSE "not_empty"
      BY <1>2, <1>3, <2>2 DEF Q!Drain, Q!CanTake, Q!Goto
    <3>3. Took' /\ GaveUp'
      BY <1>1, <2>2, <3>1, <3>2 DEF Took, GaveUp
    <3>4. NothingLeft'
      BY <1>1, <1>2, <1>3, <3>1 DEF NothingLeft
    <3>5. QED
      BY <3>3, <3>4
  <2>3. QED
    BY <2>1, <2>2
<1>4. CASE WorkerDrain
  <2>1. out[Worker] = <<>>
    BY <1>2, <1>4 DEF WorkerDrain, WorkerControl
  <2>2. QED
    BY <1>1, <1>3, <1>4, <2>1 DEF WorkerDrain, LastInv
<1>5. CASE WorkerInDrain
  <2>1. CASE qpc[Worker] = "re_not_empty" /\ Q!Drain(Worker)
    BY <1>1, <1>2, <1>3, <1>5, <2>1 DEF WorkerInDrain, WorkerControl, LastInv
  <2>2. CASE Q!DrainNotify(Worker)
    <3>1. qpc[Worker] = "notify_full" /\ qpc'[Worker] = "idle"
      BY <1>2, <2>2 DEF Q!DrainNotify, Q!WakeAll, Q!Threads, Actors
    <3>2. data' = data /\ out' = out /\ lastPass' = lastPass
      BY <1>5, <2>2 DEF WorkerInDrain, Q!DrainNotify
    <3>3. out[Worker] # <<>>
      BY <1>2, <3>1 DEF Took
    <3>4. QED
      BY <1>1, <1>2, <3>1, <3>2, <3>3 DEF LastInv, Took, GaveUp, NothingLeft
  <2>3. QED
    BY <1>5, <2>1, <2>2 DEF WorkerInDrain
<1>6. CASE WorkerDrained
  <2>1. UNCHANGED <<data, out, qpc>> /\ pc'[Worker] # "drained"
    BY <1>2, <1>6 DEF WorkerDrained, qvars
  <2>2. lastPass' => lastPass \/ (stopped /\ data = <<>> /\ out[Worker] = <<>>)
    <3>1. CASE out[Worker] = <<>>
      BY <1>2, <1>6, <3>1 DEF WorkerDrained, GaveUp
    <3>2. CASE out[Worker] # <<>>
      BY <1>6, <3>2 DEF WorkerDrained
    <3>3. QED
      BY <3>1, <3>2
  <2>3. QED
    BY <1>1, <1>2, <2>1, <2>2 DEF LastInv, Took, GaveUp, NothingLeft
<1>7. CASE WorkerCount
  <2>1. out[Worker] # <<>> /\ qpc' = qpc /\ lastPass' = lastPass
    BY <1>7 DEF WorkerCount, Q!Consume
  <2>2. qpc'[Worker] = "idle" /\ pc'[Worker] # "drained"
    BY <1>2, <1>7, <2>1 DEF WorkerCount, CountDown, NextEntry, WorkerControl
  <2>3. ~lastPass
    BY <1>2, <2>1 DEF NothingLeft
  <2>4. QED
    BY <1>1, <2>1, <2>2, <2>3 DEF LastInv, Took, GaveUp, NothingLeft
<1>8. CASE WorkerFinal \/ SinkStep(Worker) \/ WorkerAnnounce
  <2>1. UNCHANGED <<data, out, qpc>>
    BY <1>8, LocalKeepsQueue DEF WorkerLocal, qvars
  <2>2. lastPass' = lastPass
    BY <1>8 DEF WorkerFinal, SinkStep, WriteSink, WorkerAnnounce, WakeFlushers
  <2>3. pc'[Worker] # "drained"
    <3>1. CASE WorkerFinal
      BY <1>2, <3>1 DEF WorkerFinal
    <3>2. CASE SinkStep(Worker)
      BY <3>2 DEF SinkStep, WriteSink
    <3>3. CASE WorkerAnnounce
      BY <3>3 DEF WorkerAnnounce, WakeFlushers, NextEntry
    <3>4. QED
      BY <1>8, <3>1, <3>2, <3>3
  <2>4. QED
    BY <1>1, <1>2, <2>1, <2>2, <2>3 DEF LastInv, Took, GaveUp, NothingLeft
<1>9. QED
  BY <1>4, <1>5, <1>6, <1>7, <1>8 DEF WorkerInQueue, WorkerLocal

(* With the owner waiting for the callers, the pass after the main loop of  *)
(* drain_loop() finds nothing.                                              *)
THEOREM LastPassFindsNothing ==
  ASSUME OwnerWaits
  PROVE  SafetySpec => []LastPassIsEmpty
<1>1. Init => LastInv
  BY Roles DEF Init, Q!Init, Q!Threads, Actors, LastInv, Quiet, Took, GaveUp, NothingLeft
<1>2. Base /\ LastInv /\ [Next]_vars => LastInv'
  BY StepCases, LastClientStep, LastOwnerStep, LastWorkerStep
<1>3. LastInv => LastPassIsEmpty
  BY DEF LastInv, NothingLeft, LastPassIsEmpty
<1>4. QED
  BY <1>1, <1>2, <1>3, BaseHolds, PTL DEF SafetySpec

-----------------------------------------------------------------------------
(* Delivery.                                                                *)

Dispatchers == Clients \cup {Worker}

InSinks(e) == \A i \in Sinks : e \in Contents(written[i])

(* An entry is with its caller, queued, in the worker's batch, reported     *)
(* lost, or in every sink.                                                  *)
Accounted(e) ==
  \/ HeldByCaller(e)
  \/ e \in Contents(data) \/ e \in Contents(out[Worker])
  \/ e \in dropped
  \/ InSinks(e)

NothingLost == \A e \in Entry : e[2] <= calls[e[1]] => Accounted(e)

(* What each thread has done of what it is doing.  Outside the loops over   *)
(* the sinks it has all of them before it; the sinks that it visited have   *)
(* its entry; what waits inside push() is the entry of the call in          *)
(* progress; the callers of an asynchronous logger do not dispatch.         *)
Progress(u) ==
  /\ pc[u] \notin {"dispatch", "sinks"} => todo[u] = Sinks
  /\ u \in Dispatchers /\ pc[u] = "dispatch" =>
       \A i \in Sinks : i \in todo[u] \/ Handling(u) \in Contents(written[i])
  /\ u \in Clients /\ pc[u] = "pushed" /\ held[u] # <<>> => held[u] = <<Current(u)>>
  /\ u \in Clients /\ pc[u] = "dispatch" => ~Async

AllProgress == \A u \in Actors : Progress(u)

Held == Base /\ HoldsInBlock /\ SinkTypes /\ HistoryTypes

-----------------------------------------------------------------------------
(* What appending, and taking the head, do to the entries of a sequence.    *)
LEMMA AppendContents ==
  ASSUME NEW S, NEW s \in Seq(S), NEW x \in S
  PROVE  Contents(Append(s, x)) = Contents(s) \cup {x}
<1>1. /\ Len(Append(s, x)) = Len(s) + 1
      /\ DOMAIN Append(s, x) = 1..(Len(s) + 1) /\ DOMAIN s = 1..Len(s)
      /\ \A i \in 1..Len(s) : Append(s, x)[i] = s[i]
      /\ Append(s, x)[Len(s) + 1] = x
      /\ Len(s) \in Nat
  OBVIOUS
<1>2. 1..(Len(s) + 1) = (1..Len(s)) \cup {Len(s) + 1}
  BY <1>1
<1>3. QED
  BY <1>1, <1>2 DEF Contents

LEMMA HeadContents ==
  ASSUME NEW S, NEW s \in Seq(S), s # <<>>
  PROVE  /\ Tail(s) \in Seq(S) /\ Head(s) \in S
         /\ Contents(s) = Contents(Tail(s)) \cup {Head(s)}
<1>1. /\ Tail(s) \in Seq(S) /\ Head(s) \in S /\ Head(s) = s[1]
      /\ Len(s) \in Nat /\ Len(s) > 0
      /\ DOMAIN s = 1..Len(s) /\ DOMAIN Tail(s) = 1..(Len(s) - 1)
      /\ \A i \in 1..(Len(s) - 1) : Tail(s)[i] = s[i + 1]
  OBVIOUS
<1>2. ASSUME NEW e \in Contents(s) PROVE e \in Contents(Tail(s)) \cup {Head(s)}
  <2>1. PICK i \in 1..Len(s) : e = s[i]
    BY <1>1 DEF Contents
  <2>2. CASE i = 1
    BY <1>1, <2>1, <2>2
  <2>3. CASE i # 1
    <3>1. i - 1 \in 1..(Len(s) - 1) /\ (i - 1) + 1 = i
      BY <1>1, <2>3
    <3>2. Tail(s)[i - 1] = e
      BY <1>1, <2>1, <3>1
    <3>3. QED
      BY <1>1, <3>1, <3>2 DEF Contents
  <2>4. QED
    BY <2>2, <2>3
<1>3. ASSUME NEW e \in Contents(Tail(s)) \cup {Head(s)} PROVE e \in Contents(s)
  <2>1. CASE e = Head(s)
    BY <1>1, <2>1 DEF Contents
  <2>2. CASE e \in Contents(Tail(s))
    <3>1. PICK i \in 1..(Len(s) - 1) : e = Tail(s)[i]
      BY <1>1, <2>2 DEF Contents
    <3>2. i + 1 \in 1..Len(s) /\ e = s[i + 1]
      BY <1>1, <3>1
    <3>3. QED
      BY <1>1, <3>2 DEF Contents
  <2>3. QED
    BY <1>3, <2>1, <2>2
<1>4. QED
  BY <1>1, <1>2, <1>3

LEMMA EmptyContents == Contents(<<>>) = {}
BY DEF Contents

-----------------------------------------------------------------------------
(* Sinks only receive, what was reported lost stays so, calls are counted.  *)
Grows ==
  /\ \A i \in Sinks : \/ written'[i] = written[i]
                      \/ \E e \in Entry : written'[i] = Append(written[i], e)
  /\ dropped \subseteq dropped'

LEMMA EverythingGrows ==
  ASSUME Held, [Next]_vars
  PROVE  Grows
<1> USE Roles
<1>1. ASSUME UNCHANGED <<written, dropped>> PROVE Grows
  BY <1>1 DEF Grows
<1>2. ASSUME NEW t \in Dispatchers, SinkStep(t) PROVE Grows
  <2>1. PICK i \in Sinks : WriteSink(t, i)
    BY <1>2 DEF SinkStep
  <2>2. Handling(t) \in Entry
    BY <2>1, HandlingIsEntry DEF WriteSink, Runs, At, Held, Dispatchers
  <2>3. /\ written \in [Sinks -> Seq(Entry)]
        /\ written' = [written EXCEPT ![i] = Append(@, Handling(t))]
        /\ dropped' = dropped
    BY <2>1 DEF WriteSink, Held, SinkTypes, hist
  <2>4. QED
    BY <2>2, <2>3 DEF Grows
<1>3. ASSUME NEW t \in Clients, LogPush(t) \/ LogResume(t) PROVE Grows
  BY <1>3 DEF LogPush, LogResume, RecordPush, Grows
<1>4. ASSUME NEW t \in Clients, LogNotify(t) \/ Log(t) \/ LogReturn(t) \/ LogAnnounce(t)
             \/ SyncReturn(t) \/ Flush(t) \/ FlushStep(t) \/ FlushSpuriousWake(t)
      PROVE  UNCHANGED <<written, dropped>>
  BY <1>4
  DEF LogNotify, Log, LogReturn, LogAnnounce, WakeFlushers, SyncReturn, Flush, FlushStep,
      FlushCheck, FlushSleep, FlushSink, SinksDone, FlushSpuriousWake, hist
<1>5. ASSUME WorkerInQueue \/ WorkerDrained \/ WorkerFinal \/ WorkerAnnounce
      PROVE  UNCHANGED <<written, dropped>>
  BY <1>5
  DEF WorkerInQueue, WorkerDrain, WorkerInDrain, WorkerCount, WorkerDrained, WorkerFinal,
      WorkerAnnounce, WakeFlushers, hist
<1>6. ASSUME Destroy \/ OwnerInStop \/ OwnerLocal \/ UNCHANGED vars
             \/ \E t \in Actors : QueueSpuriousWake(t)
      PROVE  UNCHANGED <<written, dropped>>
  BY <1>6
  DEF Destroy, OwnerInStop, OwnerLocal, Join, FlushSink, SinksDone, QueueSpuriousWake,
      vars, hist
<1>7. ASSUME NEW t \in Clients, ClientInQueue(t) \/ ClientLocal(t) PROVE Grows
  BY <1>1, <1>2, <1>3, <1>4, <1>7 DEF ClientInQueue, ClientLocal, Dispatchers
<1>8. ASSUME WorkerInQueue \/ WorkerLocal PROVE Grows
  BY <1>1, <1>2, <1>5, <1>8 DEF WorkerLocal, Dispatchers
<1>9. QED
  BY <1>1, <1>6, <1>7, <1>8, StepCases

LEMMA SinksKeep ==
  ASSUME Held, Grows, NEW i \in Sinks, NEW e \in Contents(written[i])
  PROVE  e \in Contents(written'[i])
<1>1. CASE written'[i] = written[i]
  BY <1>1
<1>2. ASSUME NEW x \in Entry, written'[i] = Append(written[i], x)
      PROVE  e \in Contents(written'[i])
  BY <1>2, AppendContents DEF Held, SinkTypes
<1>3. QED
  BY <1>1, <1>2 DEF Grows

-----------------------------------------------------------------------------
(* What the step of one thread does to another.                             *)
Undisturbed(u) ==
  /\ todo'[u] = todo[u]
  /\ u \in Clients => calls'[u] = calls[u] /\ held'[u] = held[u]
  /\ pc'[u] = pc[u] \/ (pc[u] = "asleep" /\ pc'[u] = "flush")

LEMMA ClientsSpareOthers ==
  ASSUME Held, NEW t \in Clients, ClientInQueue(t) \/ ClientLocal(t),
         NEW u \in Actors, u # t
  PROVE  Undisturbed(u)
<1> USE Roles DEF Undisturbed, Goto
<1>1. /\ pc \in [Actors -> Phases] /\ calls \in [Clients -> 0..MaxLogs]
      /\ todo \in [Actors -> SUBSET Sinks]
      /\ held \in [Clients -> {<<>>} \cup {<<e>> : e \in Entry}]
  BY DEF Held, Base, Control, PcControl, CallControl, SinkTypes, Q!TypeOK
<1>2. CASE LogPush(t)
  BY <1>1, <1>2 DEF LogPush, Q!Push, Q!Enqueue, Q!Refuse, Q!Block
<1>3. CASE LogResume(t)
  BY <1>1, <1>3 DEF LogResume, Q!PushResume, Q!Enqueue, Q!Refuse, Q!Block
<1>4. CASE LogNotify(t)
  BY <1>1, <1>4 DEF LogNotify, Q!PushNotify
<1>5. CASE LogAnnounce(t)
  BY <1>1, <1>5 DEF LogAnnounce, WakeFlushers, qvars
<1>6. CASE Log(t) \/ LogReturn(t) \/ SyncReturn(t) \/ SinkStep(t)
  BY <1>1, <1>6 DEF Log, LogReturn, CountDown, SyncReturn, SinkStep, WriteSink, qvars
<1>7. CASE Flush(t) \/ FlushStep(t) \/ FlushSpuriousWake(t)
  BY <1>1, <1>7
  DEF Flush, FlushStep, FlushCheck, FlushSleep, FlushSink, SinksDone, FlushSpuriousWake,
      qvars
<1>8. QED
  BY <1>2, <1>3, <1>4, <1>5, <1>6, <1>7 DEF ClientInQueue, ClientLocal

LEMMA WorkerSparesOthers ==
  ASSUME Held, WorkerInQueue \/ WorkerLocal, NEW u \in Actors, u # Worker
  PROVE  Undisturbed(u)
<1> USE Roles DEF Undisturbed, Goto
<1>1. /\ pc \in [Actors -> Phases] /\ todo \in [Actors -> SUBSET Sinks]
  BY DEF Held, Base, Control, PcControl, SinkTypes
<1>2. CASE WorkerDrain \/ WorkerInDrain \/ WorkerCount
  BY <1>1, <1>2
  DEF WorkerDrain, WorkerInDrain, WorkerCount, CountDown, Q!Drain, Q!DrainNotify, Q!Consume
<1>3. CASE WorkerAnnounce
  BY <1>1, <1>3 DEF WorkerAnnounce, WakeFlushers, qvars
<1>4. CASE WorkerDrained \/ WorkerFinal \/ SinkStep(Worker)
  BY <1>1, <1>4 DEF WorkerDrained, WorkerFinal, SinkStep, WriteSink, qvars
<1>5. QED
  BY <1>2, <1>3, <1>4 DEF WorkerInQueue, WorkerLocal

LEMMA OwnerSparesOthers ==
  ASSUME Held,
         \/ Destroy \/ OwnerInStop \/ OwnerLocal \/ UNCHANGED vars
         \/ \E t \in Actors : QueueSpuriousWake(t),
         NEW u \in Actors, u # Owner
  PROVE  Undisturbed(u)
<1> USE Roles DEF Undisturbed, Goto
<1>1. /\ pc \in [Actors -> Phases] /\ todo \in [Actors -> SUBSET Sinks]
  BY DEF Held, Base, Control, PcControl, SinkTypes
<1>2. CASE Destroy
  BY <1>1, <1>2 DEF Destroy, Q!Stop, qvars
<1>3. CASE OwnerLocal
  BY <1>1, <1>3 DEF OwnerLocal, Join, FlushSink, SinksDone, qvars
<1>4. CASE OwnerInStop \/ UNCHANGED vars \/ \E t \in Actors : QueueSpuriousWake(t)
  BY <1>4 DEF OwnerInStop, Q!StopNotify, QueueSpuriousWake, Q!SpuriousWake, vars, qvars
<1>5. QED
  BY <1>2, <1>3, <1>4

LEMMA UndisturbedProgress ==
  ASSUME Held, Grows, NEW u \in Actors, Progress(u), Undisturbed(u),
         u = Worker => out' = out
  PROVE  Progress(u)'
<1>2. u \in Clients => Current(u)' = Current(u)
  BY DEF Undisturbed, Current
<1>3. u \in Dispatchers => Handling(u)' = Handling(u)
  BY <1>2 DEF Handling, Dispatchers
<1>4. pc'[u] \notin {"dispatch", "sinks"} => todo'[u] = Sinks
  BY DEF Progress, Undisturbed
<1>5. ASSUME u \in Dispatchers, pc'[u] = "dispatch", NEW i \in Sinks
      PROVE  i \in todo'[u] \/ Handling(u)' \in Contents(written'[i])
  BY <1>3, <1>5, SinksKeep DEF Progress, Undisturbed
<1>6. u \in Clients /\ pc'[u] = "pushed" /\ held'[u] # <<>> => held'[u] = <<Current(u)>>'
  BY <1>2 DEF Progress, Undisturbed
<1>7. u \in Clients /\ pc'[u] = "dispatch" => ~Async
  BY DEF Progress, Undisturbed
<1>8. QED
  BY <1>4, <1>5, <1>6, <1>7 DEF Progress

LEMMA ClientProgress ==
  ASSUME Held, Grows, NEW t \in Clients, Progress(t), ClientInQueue(t) \/ ClientLocal(t)
  PROVE  Progress(t)'
<1> USE Roles DEF Goto, Runs, At, Dispatchers
<1>1. /\ pc \in [Actors -> Phases] /\ calls \in [Clients -> 0..MaxLogs]
      /\ todo \in [Actors -> SUBSET Sinks] /\ written \in [Sinks -> Seq(Entry)]
      /\ held \in [Clients -> {<<>>} \cup {<<e>> : e \in Entry}]
      /\ held[t] # <<>> <=> qpc[t] \in {"not_full", "re_not_full"}
      /\ SyncControl
  BY DEF Held, Base, Control, PcControl, CallControl, SinkTypes, Q!TypeOK
<1>2. ASSUME pc'[t] \notin {"dispatch", "sinks", "pushed"}, todo'[t] = Sinks
      PROVE  Progress(t)'
  BY <1>2 DEF Progress
<1>3. CASE LogPush(t)
  <2>1. pc'[t] = "pushed" /\ todo'[t] = Sinks /\ calls' = calls
    BY <1>1, <1>3 DEF LogPush, Progress
  <2>2. held'[t] = <<>> \/ held'[t] = <<Current(t)>>
    BY <1>1, <1>3 DEF LogPush, Q!Push, Q!Enqueue, Q!Refuse, Q!Block
  <2>3. Current(t)' = Current(t)
    BY <2>1 DEF Current
  <2>4. QED
    BY <2>1, <2>2, <2>3 DEF Progress
<1>4. CASE LogResume(t) \/ LogNotify(t)
  <2>1. pc'[t] = "pushed" /\ pc[t] = "pushed" /\ todo'[t] = Sinks /\ calls' = calls
    BY <1>1, <1>4 DEF LogResume, LogNotify, Progress
  <2>2. Current(t)' = Current(t)
    BY <2>1 DEF Current
  <2>3. held'[t] = <<>> \/ held'[t] = held[t]
    <3>1. CASE LogResume(t)
      <4>1. held[t] # <<>>
        BY <1>1, <3>1 DEF LogResume, Q!PushResume
      <4>2. <<held[t][1]>> = held[t]
        BY <1>1, <4>1
      <4>3. QED
        BY <1>1, <3>1, <4>2 DEF LogResume, Q!PushResume, Q!Enqueue, Q!Refuse, Q!Block
    <3>2. CASE LogNotify(t)
      BY <3>2 DEF LogNotify, Q!PushNotify
    <3>3. QED
      BY <1>4, <3>1, <3>2
  <2>4. held'[t] # <<>> => held'[t] = <<Current(t)>>
    BY <2>1, <2>3 DEF Progress
  <2>5. QED
    BY <2>1, <2>2, <2>4 DEF Progress
<1>5. CASE Log(t)
  <2>1. todo'[t] = Sinks /\ pc'[t] = (IF Async THEN "push" ELSE "dispatch")
    BY <1>1, <1>5 DEF Log, Progress
  <2>2. QED
    BY <2>1 DEF Progress
<1>6. CASE LogReturn(t) \/ LogAnnounce(t) \/ FlushSpuriousWake(t) \/ FlushSleep(t)
  BY <1>1, <1>2, <1>6
  DEF LogReturn, CountDown, LogAnnounce, WakeFlushers, FlushSpuriousWake, FlushSleep,
      Progress
<1>7. CASE SyncReturn(t) \/ SinksDone(t)
  BY <1>1, <1>2, <1>7 DEF SyncReturn, SinksDone
<1>8. CASE Flush(t) \/ FlushCheck(t)
  BY <1>1, <1>8 DEF Flush, FlushCheck, Progress
<1>9. CASE FlushSink(t)
  BY <1>1, <1>9 DEF FlushSink, Progress
<1>10. ASSUME NEW i \in Sinks, WriteSink(t, i) PROVE Progress(t)'
  <2>1. /\ pc[t] = "dispatch" /\ pc'[t] = "dispatch"
        /\ todo'[t] = todo[t] \ {i} /\ calls' = calls
        /\ written'[i] = Append(written[i], Handling(t))
    BY <1>1, <1>10 DEF WriteSink
  <2>2. Handling(t)' = Handling(t) /\ Handling(t) \in Entry
    BY <2>1, HandlingIsEntry DEF Handling, Current, Held
  <2>3. Handling(t) \in Contents(written'[i])
    BY <1>1, <2>1, <2>2, AppendContents
  <2>4. ASSUME NEW j \in Sinks
        PROVE  j \in todo'[t] \/ Handling(t)' \in Contents(written'[j])
    BY <2>1, <2>2, <2>3, SinksKeep DEF Progress
  <2>5. QED
    BY <2>1, <2>4 DEF Progress
<1>11. QED
  BY <1>3, <1>4, <1>5, <1>6, <1>7, <1>8, <1>9, <1>10
  DEF ClientInQueue, ClientLocal, FlushStep, SinkStep

LEMMA WorkerProgress ==
  ASSUME Held, Grows, Progress(Worker), WorkerInQueue \/ WorkerLocal
  PROVE  Progress(Worker)'
<1> USE Roles DEF Goto, Runs, At, Dispatchers
<1>1. /\ pc \in [Actors -> Phases]
      /\ todo \in [Actors -> SUBSET Sinks] /\ written \in [Sinks -> Seq(Entry)]
  BY DEF Held, Base, Control, PcControl, SinkTypes
<1>2. ASSUME pc'[Worker] # "sinks", todo'[Worker] = Sinks
      PROVE  Progress(Worker)'
  BY <1>2 DEF Progress
<1>3. CASE WorkerDrain \/ WorkerInDrain \/ WorkerDrained \/ WorkerFinal
  BY <1>1, <1>2, <1>3 DEF WorkerDrain, WorkerInDrain, WorkerDrained, WorkerFinal, Progress
<1>4. CASE WorkerCount
  BY <1>1, <1>2, <1>4 DEF WorkerCount, CountDown, NextEntry
<1>5. CASE WorkerAnnounce
  BY <1>1, <1>2, <1>5 DEF WorkerAnnounce, WakeFlushers, NextEntry, Progress
<1>6. ASSUME NEW i \in Sinks, WriteSink(Worker, i) PROVE Progress(Worker)'
  <2>1. /\ pc[Worker] = "dispatch" /\ pc'[Worker] = "dispatch"
        /\ todo'[Worker] = todo[Worker] \ {i} /\ out' = out
        /\ written'[i] = Append(written[i], Handling(Worker))
    BY <1>1, <1>6 DEF WriteSink, qvars
  <2>2. Handling(Worker)' = Handling(Worker) /\ Handling(Worker) \in Entry
    BY <2>1, HandlingIsEntry DEF Handling, Held
  <2>3. Handling(Worker) \in Contents(written'[i])
    BY <1>1, <2>1, <2>2, AppendContents
  <2>4. ASSUME NEW j \in Sinks
        PROVE  j \in todo'[Worker] \/ Handling(Worker)' \in Contents(written'[j])
    BY <2>1, <2>2, <2>3, SinksKeep DEF Progress
  <2>5. QED
    BY <2>1, <2>4 DEF Progress
<1>7. QED
  BY <1>3, <1>4, <1>5, <1>6 DEF WorkerInQueue, WorkerLocal, SinkStep

LEMMA OwnerProgress ==
  ASSUME Held, Progress(Owner),
         \/ Destroy \/ OwnerInStop \/ OwnerLocal \/ UNCHANGED vars
         \/ \E t \in Actors : QueueSpuriousWake(t)
  PROVE  Progress(Owner)'
<1> USE Roles DEF Goto, Runs, At, Dispatchers
<1>1. /\ pc \in [Actors -> Phases] /\ todo \in [Actors -> SUBSET Sinks]
      /\ Owner \notin Dispatchers /\ Owner \notin Clients
  BY LoggerAssumption DEF Held, Base, Control, PcControl, SinkTypes
<1>2. CASE OwnerLocal \/ Destroy
  BY <1>1, <1>2 DEF OwnerLocal, Join, FlushSink, SinksDone, Destroy, Progress
<1>3. CASE OwnerInStop \/ UNCHANGED vars \/ \E t \in Actors : QueueSpuriousWake(t)
  BY <1>1, <1>3 DEF OwnerInStop, QueueSpuriousWake, vars, Progress
<1>4. QED
  BY <1>2, <1>3

LEMMA ProgressStep ==
  ASSUME Held, AllProgress, [Next]_vars
  PROVE  AllProgress'
<1> USE Roles
<1>1. Grows
  BY EverythingGrows
<1>2. ASSUME NEW t \in Clients, ClientInQueue(t) \/ ClientLocal(t) PROVE AllProgress'
  <2>1. out' = out
    BY <1>2, LocalKeepsQueue, OthersInQueue DEF Held, Base, WorkerUndisturbed, qvars
  <2>2. QED
    BY <1>1, <1>2, <2>1, ClientsSpareOthers, ClientProgress, UndisturbedProgress
    DEF AllProgress
<1>3. ASSUME WorkerInQueue \/ WorkerLocal PROVE AllProgress'
  BY <1>1, <1>3, WorkerSparesOthers, WorkerProgress, UndisturbedProgress DEF AllProgress
<1>4. ASSUME \/ Destroy \/ OwnerInStop \/ OwnerLocal \/ UNCHANGED vars
             \/ \E t \in Actors : QueueSpuriousWake(t)
      PROVE  AllProgress'
  <2>1. out' = out
    BY <1>4, LocalKeepsQueue, OthersInQueue DEF Held, Base, WorkerUndisturbed, qvars, vars
  <2>2. QED
    BY <1>1, <1>4, <2>1, OwnerSparesOthers, OwnerProgress, UndisturbedProgress
    DEF AllProgress
<1>5. QED
  BY <1>2, <1>3, <1>4, StepCases

-----------------------------------------------------------------------------
(* A push stores the entry, evicts the oldest for it, refuses it, or waits. *)
PushEffect(t) ==
  \/ data' = Append(data, Current(t)) /\ dropped' = dropped /\ held'[t] = <<>>
  \/ /\ data # <<>> /\ data' = Append(Tail(data), Current(t))
     /\ dropped' = dropped \cup {Head(data)} /\ held'[t] = <<>>
  \/ data' = data /\ dropped' = dropped \cup {Current(t)} /\ held'[t] = <<>>
  \/ data' = data /\ dropped' = dropped /\ held'[t] # <<>>

LEMMA PushHasEffect ==
  ASSUME Held, AllProgress, NEW t \in Clients, LogPush(t) \/ LogResume(t)
  PROVE  PushEffect(t)
<1> USE Roles DEF Q!Goto, Goto, Runs, At
<1>1. /\ data \in Seq(Entry)
      /\ undelivered \in [Clients -> {0, 1}]
      /\ held \in [Clients -> {<<>>} \cup {<<e>> : e \in Entry}]
      /\ held[t] # <<>> <=> qpc[t] \in {"not_full", "re_not_full"}
      /\ qpc \in [Actors -> Q!ProducerPhase \cup Q!ConsumerPhase \cup Q!StopperPhase]
  BY DEF Held, Base, Q!TypeOK, Q!Threads, Actors
<1>2. dropped' = dropped \cup Loss(t)
  BY DEF LogPush, LogResume, RecordPush
<1>3. ASSUME Q!Enqueue(t, Current(t), data, 0)
      PROVE  PushEffect(t)
  <2>1. undelivered'[t] = 0 /\ held'[t] = <<>> /\ data' = Append(data, Current(t))
    BY <1>1, <1>3 DEF Q!Enqueue, Q!Return
  <2>2. Loss(t) = {}
    BY <2>1 DEF Loss
  <2>3. QED
    BY <1>2, <2>1, <2>2 DEF PushEffect
<1>4. ASSUME data # <<>>, OverflowPolicy = "DROP_OLDEST",
             Q!Enqueue(t, Current(t), Tail(data), 1)
      PROVE  PushEffect(t)
  <2>1. /\ undelivered'[t] = 1 /\ qpc'[t] # "not_full"
        /\ held'[t] = <<>> /\ data' = Append(Tail(data), Current(t))
    BY <1>1, <1>4 DEF Q!Enqueue, Q!Return, Q!AfterPush
  <2>2. Loss(t) = {Head(data)}
    BY <1>4, <2>1 DEF Loss
  <2>3. QED
    BY <1>2, <1>4, <2>1, <2>2 DEF PushEffect
<1>5. ASSUME OverflowPolicy # "DROP_OLDEST", Q!Refuse(t)
      PROVE  PushEffect(t)
  <2>1. undelivered'[t] = 1 /\ qpc'[t] # "not_full" /\ held'[t] = <<>> /\ data' = data
    BY <1>1, <1>5 DEF Q!Refuse, Q!Return
  <2>2. Loss(t) = {Current(t)}
    BY <1>5, <2>1 DEF Loss
  <2>3. QED
    BY <1>2, <2>1, <2>2 DEF PushEffect
<1>6. ASSUME NEW x, Q!Block(t, x)
      PROVE  PushEffect(t)
  <2>1. qpc'[t] = "not_full" /\ held'[t] # <<>> /\ data' = data
    BY <1>1, <1>6 DEF Q!Block
  <2>2. Loss(t) = {}
    BY <2>1 DEF Loss
  <2>3. QED
    BY <1>2, <2>1, <2>2 DEF PushEffect
<1>7. CASE LogPush(t)
  <2>1. CASE Q!Full /\ OverflowPolicy = "DROP_OLDEST"
    <3>1. data # <<>>
      BY <1>1, <2>1, LoggerAssumption DEF Q!Full
    <3>2. Q!Enqueue(t, Current(t), Tail(data), 1)
      BY <1>7, <2>1 DEF LogPush, Q!Push
    <3>3. QED
      BY <1>4, <2>1, <3>1, <3>2
  <2>2. CASE ~(Q!Full /\ OverflowPolicy = "DROP_OLDEST")
    <3>1. \/ Q!Enqueue(t, Current(t), data, 0)
          \/ OverflowPolicy # "DROP_OLDEST" /\ Q!Refuse(t)
          \/ Q!Block(t, Current(t))
      BY <1>7, <2>2 DEF LogPush, Q!Push
    <3>2. QED
      BY <1>3, <1>5, <1>6, <3>1
  <2>3. QED
    BY <2>1, <2>2
<1>8. CASE LogResume(t)
  <2>1. held[t] # <<>> /\ pc[t] = "pushed"
    BY <1>1, <1>8 DEF LogResume, Q!PushResume
  <2>2. held[t][1] = Current(t) /\ OverflowPolicy # "DROP_OLDEST"
    BY <2>1 DEF AllProgress, Progress, Held, HoldsInBlock
  <2>3. \/ Q!Enqueue(t, Current(t), data, 0)
        \/ Q!Refuse(t)
        \/ Q!Block(t, Current(t))
    BY <1>8, <2>2 DEF LogResume, Q!PushResume
  <2>4. QED
    BY <1>3, <1>5, <1>6, <2>2, <2>3
<1>9. QED
  BY <1>7, <1>8

LEMMA PushLosesNothing ==
  ASSUME Held, AllProgress, NEW t \in Clients, LogPush(t) \/ LogResume(t)
  PROVE  /\ Contents(data) \subseteq Contents(data') \cup dropped'
         /\ \/ Current(t) \in Contents(data') \cup dropped'
            \/ pc'[t] = "pushed" /\ held'[t] # <<>>
<1>1. /\ data \in Seq(Entry) /\ Current(t) \in Entry
      /\ pc'[t] = "pushed" /\ PushEffect(t)
  BY PushHasEffect, CurrentIsEntry, Roles
  DEF Held, Base, Q!TypeOK, Control, PcControl, LogPush, LogResume, Goto, Runs, At, InLog
<1>2. CASE data # <<>> /\ data' = Append(Tail(data), Current(t)) /\ Head(data) \in dropped'
  <2> DEFINE rest == Tail(data)
  <2>1. data' = Append(rest, Current(t))
    BY <1>2
  <2>2. rest \in Seq(Entry) /\ Contents(data) = Contents(rest) \cup {Head(data)}
    BY <1>1, <1>2, HeadContents
  <2> HIDE DEF rest
  <2>3. Contents(data') = Contents(rest) \cup {Current(t)}
    BY <1>1, <2>1, <2>2, AppendContents
  <2>4. QED
    BY <1>2, <2>2, <2>3
<1>3. CASE data' = Append(data, Current(t))
  BY <1>1, <1>3, AppendContents
<1>4. QED
  BY <1>1, <1>2, <1>3 DEF PushEffect

(* The destructor leaves the entries to the worker.                         *)
LEMMA OwnerKeepsQueue ==
  ASSUME \/ Destroy \/ OwnerInStop \/ OwnerLocal \/ UNCHANGED vars
         \/ \E t \in Actors : QueueSpuriousWake(t)
  PROVE  calls' = calls /\ data' = data /\ out' = out
<1>1. CASE Destroy
  BY <1>1 DEF Destroy, Q!Stop, qvars
<1>2. CASE OwnerLocal
  BY <1>2 DEF OwnerLocal, Join, FlushSink, SinksDone, qvars
<1>3. CASE OwnerInStop \/ UNCHANGED vars \/ \E t \in Actors : QueueSpuriousWake(t)
  BY <1>3 DEF OwnerInStop, Q!StopNotify, QueueSpuriousWake, Q!SpuriousWake, vars, qvars
<1>4. QED
  BY <1>1, <1>2, <1>3

(* A sink keeps what it has.                                                *)
LEMMA SinksStay ==
  ASSUME Held, Grows, NEW e \in Entry, InSinks(e)
  PROVE  InSinks(e)'
BY SinksKeep DEF InSinks

(* A caller keeps its entry while others run.                               *)
LEMMA CallerKeeps ==
  ASSUME NEW e \in Entry, HeldByCaller(e), Undisturbed(e[1])
  PROVE  HeldByCaller(e)'
BY DEF HeldByCaller, Undisturbed, Current, At, Entry

LEMMA ClientLosesNothing ==
  ASSUME Held, AllProgress, NothingLost,
         NEW t \in Clients, ClientInQueue(t) \/ ClientLocal(t),
         Grows
  PROVE  NothingLost'
<1> USE Roles DEF Goto, Runs, At
<1> SUFFICES ASSUME NEW e \in Entry, e[2] <= calls'[e[1]]
             PROVE  Accounted(e)'
  BY DEF NothingLost
<1>1. /\ pc \in [Actors -> Phases] /\ calls \in [Clients -> 0..MaxLogs]
      /\ held[t] # <<>> <=> qpc[t] \in {"not_full", "re_not_full"}
  BY DEF Held, Base, Control, PcControl, CallControl, Q!TypeOK
<1>2. e[1] \in Clients /\ e[1] \in Actors /\ e[2] \in 1..MaxLogs /\ e = <<e[1], e[2]>>
  BY DEF Entry
<1>3. e[1] # t => Undisturbed(e[1])
  BY <1>2, ClientsSpareOthers
<1>4. out' = out
  BY LocalKeepsQueue, OthersInQueue DEF Held, Base, WorkerUndisturbed, qvars
<1>5. dropped \subseteq dropped'
  BY DEF Grows
<1>6. CASE Log(t)
  <2>1. data' = data /\ calls' = [calls EXCEPT ![t] = @ + 1]
    BY <1>6 DEF Log, qvars
  <2>2. CASE e[1] = t /\ e[2] = calls[t] + 1
    <3>1. e = Current(t)'
      BY <1>1, <1>2, <2>1, <2>2 DEF Current
    <3>2. pc'[t] \in {"push", "dispatch"}
      BY <1>1, <1>6 DEF Log
    <3>3. QED
      BY <2>2, <3>1, <3>2 DEF HeldByCaller, Accounted
  <2>3. CASE ~(e[1] = t /\ e[2] = calls[t] + 1)
    <3>1. e[2] <= calls[e[1]]
      BY <1>1, <1>2, <2>1, <2>3, LoggerAssumption
    <3>2. Accounted(e)
      BY <3>1 DEF NothingLost
    <3>3. HeldByCaller(e) => e[1] # t
      BY <1>6 DEF Log, HeldByCaller
    <3>4. QED
      BY <1>3, <1>4, <1>5, <2>1, <3>2, <3>3, CallerKeeps, SinksStay DEF Accounted
  <2>4. QED
    BY <2>2, <2>3
<1>7. CASE ~Log(t)
  <2>1. calls' = calls
    BY <1>7
    DEF ClientInQueue, LogPush, LogResume, LogNotify, ClientLocal, LogReturn,
        LogAnnounce, WakeFlushers, SyncReturn, Flush, FlushStep, FlushCheck, FlushSleep,
        FlushSink, SinksDone, SinkStep, WriteSink, FlushSpuriousWake
  <2>2. Accounted(e)
    BY <2>1 DEF NothingLost
  <2>3. CASE LogPush(t) \/ LogResume(t)
    <3>1. Contents(data) \subseteq Contents(data') \cup dropped'
      BY <2>3, PushLosesNothing
    <3>2. ASSUME HeldByCaller(e), e[1] = t PROVE Accounted(e)'
      <4>1. e = Current(t) /\ Current(t)' = Current(t)
        BY <2>1, <3>2 DEF HeldByCaller, Current
      <4>2. CASE Current(t) \in Contents(data') \cup dropped'
        BY <4>1, <4>2 DEF Accounted
      <4>3. CASE pc'[t] = "pushed" /\ held'[t] # <<>>
        BY <3>2, <4>1, <4>3 DEF Accounted, HeldByCaller
      <4>4. QED
        BY <2>3, <4>2, <4>3, PushLosesNothing
    <3>3. QED
      BY <1>3, <1>4, <1>5, <2>2, <3>1, <3>2, CallerKeeps, SinksStay DEF Accounted
  <2>4. CASE ~(LogPush(t) \/ LogResume(t))
    <3>1. data' = data /\ held' = held
      BY <2>4, LocalKeepsQueue DEF ClientInQueue, LogNotify, Q!PushNotify, qvars
    <3>2. ASSUME HeldByCaller(e), e[1] = t PROVE Accounted(e)'
      <4>1. /\ e = Current(t) /\ Current(t)' = Current(t)
            /\ \/ pc[t] = "push"
               \/ pc[t] = "pushed" /\ held[t] # <<>>
               \/ pc[t] = "dispatch"
        BY <2>1, <3>2 DEF HeldByCaller, Current
      <4>2. CASE pc'[t] = pc[t]
        BY <3>1, <3>2, <4>1, <4>2 DEF Accounted, HeldByCaller
      <4>3. CASE pc'[t] # pc[t]
        <5>1. ~LogReturn(t)
          BY <1>1, <4>1 DEF LogReturn
        <5>2. SyncReturn(t)
          BY <1>7, <2>4, <4>1, <4>3, <5>1
          DEF ClientInQueue, LogNotify, ClientLocal, LogAnnounce, Flush, FlushStep,
              FlushCheck, FlushSleep, FlushSink, SinksDone, SinkStep, WriteSink,
              FlushSpuriousWake
        <5>3. todo[t] = {} /\ pc[t] = "dispatch" /\ Handling(t) = e
          BY <4>1, <5>2 DEF SyncReturn, Barrier, Handling
        <5>4. InSinks(e)
          BY <5>3 DEF AllProgress, Progress, Dispatchers, InSinks
        <5>5. QED
          BY <5>4, SinksStay DEF Accounted
      <4>4. QED
        BY <4>2, <4>3
    <3>3. QED
      BY <1>3, <1>4, <1>5, <2>2, <3>1, <3>2, CallerKeeps, SinksStay DEF Accounted
  <2>5. QED
    BY <2>3, <2>4
<1>8. QED
  BY <1>6, <1>7

LEMMA WorkerLosesNothing ==
  ASSUME Held, AllProgress, NothingLost, WorkerInQueue \/ WorkerLocal, Grows
  PROVE  NothingLost'
<1> USE Roles DEF Goto, Runs, At
<1>1. /\ out \in [{Worker} -> Seq(Entry)] /\ data \in Seq(Entry)
      /\ WorkerControl
  BY DEF Held, Base, Control, Q!TypeOK
<1>2. calls' = calls
  BY DEF WorkerInQueue, WorkerLocal, WorkerDrain, WorkerInDrain, WorkerCount,
         WorkerDrained, WorkerFinal, WorkerAnnounce, WakeFlushers, SinkStep, WriteSink
<1> SUFFICES ASSUME NEW e \in Entry, e[2] <= calls[e[1]], Accounted(e)
             PROVE  Accounted(e)'
  BY <1>2 DEF NothingLost
<1>3. HeldByCaller(e) => HeldByCaller(e)'
  <2>1. e[1] \in Actors /\ e[1] # Worker
    BY DEF Entry
  <2>2. QED
    BY <2>1, WorkerSparesOthers, CallerKeeps
<1>4. dropped \subseteq dropped'
  BY DEF Grows
<1>5. Contents(data) \subseteq Contents(data') \cup Contents(out'[Worker])
  <2>1. CASE WorkerDrain \/ WorkerInDrain
    BY <1>1, <2>1 DEF WorkerDrain, WorkerInDrain, Q!Drain, Q!DrainNotify
  <2>2. CASE WorkerCount \/ WorkerLocal
    BY <2>2, LocalKeepsQueue DEF WorkerCount, Q!Consume, qvars
  <2>3. QED
    BY <2>1, <2>2 DEF WorkerInQueue
<1>6. e \in Contents(out[Worker]) => InSinks(e) \/ e \in Contents(out'[Worker])
  <2>1. CASE WorkerDrain \/ WorkerInDrain
    <3>1. out[Worker] = <<>> \/ out' = out
      BY <1>1, <2>1
      DEF WorkerDrain, WorkerInDrain, WorkerControl, Q!Drain, Q!DrainNotify
    <3>2. QED
      BY <3>1, EmptyContents
  <2>2. CASE WorkerCount
    <3>1. /\ out[Worker] # <<>> /\ out'[Worker] = Tail(out[Worker])
          /\ pc[Worker] = "dispatch" /\ todo[Worker] = {}
      BY <1>1, <2>2 DEF WorkerCount, Q!Consume, Barrier
    <3>2. Contents(out[Worker]) = Contents(out'[Worker]) \cup {Head(out[Worker])}
      BY <1>1, <3>1, HeadContents
    <3>3. InSinks(Head(out[Worker]))
      BY <3>1 DEF AllProgress, Progress, Dispatchers, InSinks, Handling
    <3>4. QED
      BY <3>2, <3>3
  <2>3. CASE WorkerLocal
    BY <2>3, LocalKeepsQueue DEF qvars
  <2>4. QED
    BY <2>1, <2>2, <2>3 DEF WorkerInQueue
<1>7. QED
  BY <1>3, <1>4, <1>5, <1>6, SinksStay DEF Accounted

LEMMA OwnerLosesNothing ==
  ASSUME Held, NothingLost, Grows,
         \/ Destroy \/ OwnerInStop \/ OwnerLocal \/ UNCHANGED vars
         \/ \E t \in Actors : QueueSpuriousWake(t)
  PROVE  NothingLost'
<1> USE Roles
<1>1. calls' = calls /\ data' = data /\ out' = out
  BY OwnerKeepsQueue
<1> SUFFICES ASSUME NEW e \in Entry, e[2] <= calls[e[1]], Accounted(e)
             PROVE  Accounted(e)'
  BY <1>1 DEF NothingLost
<1>2. HeldByCaller(e) => HeldByCaller(e)'
  <2>1. e[1] \in Actors /\ e[1] # Owner
    BY DEF Entry
  <2>2. QED
    BY <2>1, OwnerSparesOthers, CallerKeeps
<1>3. dropped \subseteq dropped'
  BY DEF Grows
<1>4. QED
  BY <1>1, <1>2, <1>3, SinksStay DEF Accounted

LEMMA LosesNothingStep ==
  ASSUME Held, AllProgress, NothingLost, [Next]_vars
  PROVE  NothingLost'
BY EverythingGrows, ClientLosesNothing, WorkerLosesNothing, OwnerLosesNothing, StepCases

LEMMA HeldHolds == SafetySpec => []Held
<1>1. Init => HoldsInBlock /\ SinkTypes /\ HistoryTypes
  BY TypesInit
<1>2. Base /\ HoldsInBlock /\ SinkTypes /\ HistoryTypes /\ [Next]_vars
      => (HoldsInBlock /\ SinkTypes /\ HistoryTypes)'
  BY HoldsStep, SinkTypesStep, HistoryTypesStep
<1>3. QED
  BY <1>1, <1>2, BaseHolds, PTL DEF SafetySpec, Held

(* No entry is lost without being reported: at every step of every thread   *)
(* an entry that log() has taken is with its caller, in the queue, in the   *)
(* worker's batch, reported undelivered by a push(), or in every sink.      *)
LEMMA NothingIsLost == SafetySpec => [](Held /\ AllProgress /\ NothingLost)
<1>1. Init => AllProgress /\ NothingLost
  <2> SUFFICES ASSUME Init PROVE AllProgress /\ NothingLost
    OBVIOUS
  <2>1. /\ \A t \in Actors : todo[t] = Sinks /\ pc[t] \notin {"dispatch", "sinks", "pushed"}
        /\ \A t \in Clients : calls[t] = 0
    BY Roles DEF Init
  <2>2. AllProgress
    BY <2>1, Roles DEF AllProgress, Progress
  <2>3. \A e \in Entry : ~(e[2] <= calls[e[1]])
    <3>1. \A e \in Entry : e[1] \in Clients /\ e[2] \in 1..MaxLogs
      BY DEF Entry
    <3>2. QED
      BY <2>1, <3>1, LoggerAssumption
  <2>4. QED
    BY <2>2, <2>3 DEF NothingLost
<1>2. Held /\ AllProgress /\ NothingLost /\ [Next]_vars => AllProgress' /\ NothingLost'
  BY ProgressStep, LosesNothingStep
<1>3. QED
  BY <1>1, <1>2, HeldHolds, PTL DEF SafetySpec

-----------------------------------------------------------------------------
(* A synchronous logger queues nothing, and nobody waits for its queue.     *)
SyncQueue ==
  ~Async =>
    /\ data = <<>> /\ out[Worker] = <<>>
    /\ \A t \in Clients : pc[t] \notin {"flush", "decided", "asleep"}

LEMMA SyncQueueStep ==
  ASSUME Held, SyncQueue, [Next]_vars
  PROVE  SyncQueue'
<1> SUFFICES ASSUME ~Async PROVE SyncQueue'
  BY DEF SyncQueue
<1> USE Roles DEF Goto, Runs, At
<1>1. /\ data = <<>> /\ out[Worker] = <<>> /\ pc[Worker] = "exited"
      /\ pc \in [Actors -> Phases]
      /\ \A t \in Clients : pc[t] \notin {"push", "pushed", "announce"}
      /\ \A t \in Clients : pc[t] \notin {"flush", "decided", "asleep"}
  BY DEF Held, Base, Control, PcControl, SyncControl, SyncQueue
<1>2. ASSUME NEW t \in Clients, ClientInQueue(t) \/ ClientLocal(t) PROVE SyncQueue'
  <2>1. ~ClientInQueue(t)
    BY <1>1 DEF ClientInQueue, LogPush, LogResume, LogNotify
  <2>2. data' = data /\ out' = out
    BY <1>2, <2>1, LocalKeepsQueue DEF qvars
  <2>3. pc'[t] \notin {"flush", "decided", "asleep"}
    BY <1>1, <1>2, <2>1
    DEF ClientLocal, Log, LogReturn, LogAnnounce, SyncReturn, Flush, FlushStep,
        FlushCheck, FlushSleep, FlushSink, SinksDone, FlushSpuriousWake, SinkStep,
        WriteSink
  <2>4. QED
    BY <1>1, <1>2, <2>2, <2>3, ClientsSpareOthers DEF SyncQueue, Undisturbed
<1>3. ASSUME WorkerInQueue \/ WorkerLocal PROVE SyncQueue'
  BY <1>1, <1>3
  DEF WorkerInQueue, WorkerLocal, WorkerDrain, WorkerInDrain, WorkerDrained,
      WorkerFinal, WorkerCount, WorkerAnnounce, SinkStep, WriteSink
<1>4. ASSUME \/ Destroy \/ OwnerInStop \/ OwnerLocal \/ UNCHANGED vars
             \/ \E t \in Actors : QueueSpuriousWake(t)
      PROVE  SyncQueue'
  <2>1. data' = data /\ out' = out
    BY <1>4, OwnerKeepsQueue
  <2>2. QED
    BY <1>1, <1>4, <2>1, OwnerSparesOthers DEF SyncQueue, Undisturbed
<1>5. QED
  BY <1>2, <1>3, <1>4, StepCases

-----------------------------------------------------------------------------
(* The call that logged the entry has given it away.                        *)
Left(e) == e[2] <= calls[e[1]] /\ ~HeldByCaller(e)

LEMMA ReturnedLeft ==
  ASSUME Held, NEW e \in Returned
  PROVE  Left(e)
<1>1. /\ e \in Entry /\ e[1] \in Clients /\ e[2] \in Nat
      /\ calls[e[1]] \in Nat
      /\ e[2] <= calls[e[1]] - (IF InLog(e[1]) THEN 1 ELSE 0)
  BY LoggerAssumption DEF Returned, Entry, Held, Base, Control, CallControl
<1>2. HeldByCaller(e) => InLog(e[1]) /\ e[2] = calls[e[1]]
  BY DEF HeldByCaller, InLog, At, Current
<1>3. QED
  BY <1>1, <1>2 DEF Left

LEMMA LeftStays ==
  ASSUME Held, NEW e \in Entry, Left(e), [Next]_vars
  PROVE  Left(e)'
<1> USE Roles DEF Goto, Runs, At
<1>1. /\ pc \in [Actors -> Phases] /\ calls \in [Clients -> 0..MaxLogs]
      /\ \A t \in Clients : held[t] # <<>> <=> qpc[t] \in {"not_full", "re_not_full"}
  BY DEF Held, Base, Control, PcControl, CallControl, Q!TypeOK
<1>2. e[1] \in Clients /\ e[1] \in Actors /\ e[2] \in 1..MaxLogs /\ e = <<e[1], e[2]>>
  BY DEF Entry
<1>3. Undisturbed(e[1]) => Left(e)'
  BY <1>2 DEF Undisturbed, Left, HeldByCaller, Current
<1>4. ASSUME NEW t \in Clients, ClientInQueue(t) \/ ClientLocal(t), e[1] = t
      PROVE  Left(e)'
  <2>1. CASE Log(t)
    <3>1. calls'[t] = calls[t] + 1 /\ e[2] <= calls[t]
      BY <1>1, <1>4, <2>1 DEF Log, Left
    <3>2. e # Current(t)' /\ e[2] <= calls'[t]
      BY <1>1, <1>2, <3>1, LoggerAssumption DEF Current
    <3>3. QED
      BY <1>4, <3>2 DEF Left, HeldByCaller
  <2>2. CASE LogPush(t) \/ LogResume(t)
    <3>1. calls' = calls /\ (pc[t] = "push" \/ (pc[t] = "pushed" /\ held[t] # <<>>))
      BY <1>1, <2>2 DEF LogPush, LogResume, Q!PushResume
    <3>2. e # Current(t) /\ Current(t)' = Current(t)
      BY <1>4, <3>1 DEF Left, HeldByCaller, Current
    <3>3. QED
      BY <1>4, <3>1, <3>2 DEF Left, HeldByCaller
  <2>3. CASE LogNotify(t) \/ SinkStep(t)
    <3>1. calls' = calls /\ held' = held /\ pc' = pc
      BY <2>3 DEF LogNotify, Q!PushNotify, SinkStep, WriteSink, qvars
    <3>2. QED
      BY <3>1 DEF Left, HeldByCaller, Current
  <2>4. CASE LogReturn(t) \/ LogAnnounce(t) \/ SyncReturn(t) \/ Flush(t) \/ FlushStep(t)
             \/ FlushSpuriousWake(t)
    <3>1. calls' = calls /\ pc'[t] \notin {"push", "pushed", "dispatch"}
      BY <1>1, <2>4
      DEF LogReturn, CountDown, LogAnnounce, WakeFlushers, SyncReturn, Flush, FlushStep,
          FlushCheck, FlushSleep, FlushSink, SinksDone, FlushSpuriousWake
    <3>2. QED
      BY <1>4, <3>1 DEF Left, HeldByCaller
  <2>5. QED
    BY <1>4, <2>1, <2>2, <2>3, <2>4 DEF ClientInQueue, ClientLocal
<1>5. ASSUME NEW t \in Clients, ClientInQueue(t) \/ ClientLocal(t) PROVE Left(e)'
  BY <1>2, <1>3, <1>4, <1>5, ClientsSpareOthers
<1>6. ASSUME WorkerInQueue \/ WorkerLocal PROVE Left(e)'
  BY <1>2, <1>3, <1>6, WorkerSparesOthers
<1>7. ASSUME \/ Destroy \/ OwnerInStop \/ OwnerLocal \/ UNCHANGED vars
             \/ \E t \in Actors : QueueSpuriousWake(t)
      PROVE  Left(e)'
  BY <1>2, <1>3, <1>7, OwnerSparesOthers
<1>8. QED
  BY <1>5, <1>6, <1>7, StepCases

-----------------------------------------------------------------------------
(* A sink's last flush() covered no more than the sink has.                 *)
FlushedWithin == \A i \in Sinks : flushed[i] <= Len(written[i])

(* A flush() of a sink covers all of it, and is the only change of that.    *)
FlushesAll ==
  \A i \in Sinks :
    \/ flushed'[i] = flushed[i]
    \/ flushed'[i] = Len(written[i]) /\ written'[i] = written[i]

LEMMA FlushesAllStep ==
  ASSUME Held, [Next]_vars
  PROVE  FlushesAll
<1> USE Roles
<1>1. flushed \in [Sinks -> Nat] /\ todo \in [Actors -> SUBSET Sinks]
  BY DEF Held, SinkTypes
<1>2. ASSUME UNCHANGED flushed PROVE FlushesAll
  BY <1>2 DEF FlushesAll
<1>3. ASSUME NEW t \in Actors, FlushSink(t) PROVE FlushesAll
  <2>1. PICK i \in todo[t] : flushed' = [flushed EXCEPT ![i] = Len(written[i])]
    BY <1>3 DEF FlushSink
  <2>2. written' = written
    BY <1>3 DEF FlushSink
  <2>3. QED
    BY <1>1, <2>1, <2>2 DEF FlushesAll
<1>4. ASSUME NEW t \in Clients, ClientInQueue(t) \/ ClientLocal(t), ~FlushSink(t)
      PROVE  UNCHANGED flushed
  BY <1>4
  DEF ClientInQueue, ClientLocal, LogPush, LogResume, LogNotify, Log, LogReturn,
      LogAnnounce, WakeFlushers, SyncReturn, Flush, FlushStep, FlushCheck, FlushSleep,
      SinksDone, FlushSpuriousWake, SinkStep, WriteSink
<1>5. ASSUME WorkerInQueue \/ WorkerLocal PROVE UNCHANGED flushed
  BY <1>5
  DEF WorkerInQueue, WorkerLocal, WorkerDrain, WorkerInDrain, WorkerCount, WorkerDrained,
      WorkerFinal, WorkerAnnounce, WakeFlushers, SinkStep, WriteSink
<1>6. ASSUME \/ Destroy \/ OwnerInStop \/ OwnerLocal \/ UNCHANGED vars
             \/ \E t \in Actors : QueueSpuriousWake(t),
             ~FlushSink(Owner)
      PROVE  UNCHANGED flushed
  BY <1>6 DEF Destroy, OwnerInStop, OwnerLocal, Join, SinksDone, QueueSpuriousWake, vars
<1>7. QED
  BY <1>2, <1>3, <1>4, <1>5, <1>6, StepCases

(* What is durable stays so.                                                *)
LEMMA DurableStays ==
  ASSUME Held, FlushedWithin, Grows, FlushesAll
  PROVE  /\ FlushedWithin'
         /\ \A i \in Sinks : Durable(i) \subseteq Durable(i)'
<1> SUFFICES ASSUME NEW i \in Sinks
             PROVE  flushed'[i] <= Len(written'[i]) /\ Durable(i) \subseteq Durable(i)'
  BY DEF FlushedWithin
<1>1. /\ written[i] \in Seq(Entry) /\ flushed[i] \in Nat /\ Len(written[i]) \in Nat
      /\ flushed[i] <= Len(written[i])
  BY DEF Held, SinkTypes, FlushedWithin
<1>2. /\ Len(written'[i]) \in Nat /\ Len(written[i]) <= Len(written'[i])
      /\ \A k \in 1..Len(written[i]) : written'[i][k] = written[i][k]
  <2>1. CASE written'[i] = written[i]
    BY <1>1, <2>1
  <2>2. ASSUME NEW x \in Entry, written'[i] = Append(written[i], x)
        PROVE  /\ Len(written'[i]) \in Nat /\ Len(written[i]) <= Len(written'[i])
               /\ \A k \in 1..Len(written[i]) : written'[i][k] = written[i][k]
    BY <1>1, <2>2
  <2>3. QED
    BY <2>1, <2>2 DEF Grows
<1>3. flushed'[i] \in Nat /\ flushed[i] <= flushed'[i] /\ flushed'[i] <= Len(written'[i])
  BY <1>1, <1>2 DEF FlushesAll
<1>4. ASSUME NEW k \in 1..flushed[i] PROVE written[i][k] \in Durable(i)'
  <2>1. k \in 1..Len(written[i]) /\ k \in 1..flushed'[i]
    BY <1>1, <1>3
  <2>2. QED
    BY <1>2, <2>1 DEF Durable
<1>5. QED
  BY <1>3, <1>4 DEF Durable

LEMMA FlushMakesDurable ==
  ASSUME Held, NEW i \in Sinks, flushed'[i] = Len(written[i]), written'[i] = written[i]
  PROVE  Contents(written[i]) \subseteq Durable(i)'
<1>1. DOMAIN written[i] = 1..Len(written[i])
  BY DEF Held, SinkTypes
<1>2. QED
  BY <1>1 DEF Contents, Durable

-----------------------------------------------------------------------------
(* The loop over the sinks that t is in makes e durable.                    *)
Covers(t, e) ==
  e \in dropped \/ \A i \in Sinks :
    /\ e \in Contents(written[i])
    /\ i \notin todo[t] => e \in Durable(i)

LEMMA CoversStays ==
  ASSUME Held, FlushedWithin, Grows, FlushesAll, NEW t \in Actors, NEW e \in Entry,
         Covers(t, e), todo'[t] = todo[t]
  PROVE  Covers(t, e)'
<1>1. dropped \subseteq dropped'
  BY DEF Grows
<1>2. ASSUME NEW i \in Sinks, e \in Contents(written[i]), i \notin todo[t] => e \in Durable(i)
      PROVE  e \in Contents(written'[i]) /\ (i \notin todo'[t] => e \in Durable(i)')
  BY <1>2, SinksKeep, DurableStays
<1>3. QED
  BY <1>1, <1>2 DEF Covers

LEMMA CoversFlush ==
  ASSUME Held, FlushedWithin, Grows, FlushesAll, NEW t \in Actors, NEW e \in Entry,
         Covers(t, e), FlushSink(t)
  PROVE  Covers(t, e)'
<1>1. /\ todo \in [Actors -> SUBSET Sinks] /\ flushed \in [Sinks -> Nat]
      /\ dropped \subseteq dropped'
  BY DEF Held, SinkTypes, Grows
<1>2. PICK i \in todo[t] :
        /\ flushed' = [flushed EXCEPT ![i] = Len(written[i])]
        /\ todo' = [todo EXCEPT ![t] = @ \ {i}]
  BY DEF FlushSink
<1>3. /\ i \in Sinks /\ flushed'[i] = Len(written[i]) /\ written' = written
      /\ todo'[t] = todo[t] \ {i}
  BY <1>1, <1>2 DEF FlushSink
<1>4. ASSUME NEW j \in Sinks, e \in Contents(written[j]), j \notin todo[t] => e \in Durable(j)
      PROVE  e \in Contents(written'[j]) /\ (j \notin todo'[t] => e \in Durable(j)')
  <2>1. CASE j = i
    BY <1>3, <1>4, <2>1, FlushMakesDurable
  <2>2. CASE j # i
    BY <1>3, <1>4, <2>2, DurableStays
  <2>3. QED
    BY <2>1, <2>2
<1>5. QED
  BY <1>1, <1>4 DEF Covers

(* With nothing on its way, a loop that begins covers what has been logged. *)
LEMMA CoversBegins ==
  ASSUME NothingLost, data = <<>>, out[Worker] = <<>>, NEW t \in Actors,
         todo[t] = Sinks, NEW e \in Entry, Left(e)
  PROVE  Covers(t, e)
BY EmptyContents DEF NothingLost, Accounted, Left, InSinks, Covers

-----------------------------------------------------------------------------
(* flush() owes what had been logged, and waits for all of it.              *)
OwedLeft == \A t \in Clients : \A e \in owed[t] : Left(e)

FlushCovers == \A t \in Clients : pc[t] = "sinks" => \A e \in owed[t] : Covers(t, e)

FlushInv == SyncQueue /\ OwedLeft /\ FlushedWithin /\ FlushCovers

LEMMA OwedStays ==
  ASSUME Held, [Next]_vars, NEW t \in Clients
  PROVE  \/ owed'[t] = owed[t]
         \/ Flush(t) /\ owed'[t] = Returned
         \/ SinksDone(t) /\ owed'[t] = {}
<1> USE Roles
<1>1. owed \in [Clients -> SUBSET Entry]
  BY DEF Held, HistoryTypes
<1>2. ASSUME NEW u \in Clients, Flush(u)
      PROVE  owed'[t] = owed[t] \/ (Flush(t) /\ owed'[t] = Returned)
  BY <1>1, <1>2 DEF Flush
<1>3. ASSUME NEW u \in Actors, SinksDone(u)
      PROVE  owed'[t] = owed[t] \/ (SinksDone(t) /\ owed'[t] = {})
  BY <1>1, <1>3 DEF SinksDone
<1>4. ASSUME NEW u \in Clients, ClientInQueue(u) \/ ClientLocal(u), ~Flush(u), ~SinksDone(u)
      PROVE  owed' = owed
  BY <1>4
  DEF ClientInQueue, ClientLocal, LogPush, LogResume, RecordPush, LogNotify, Log, LogReturn,
      LogAnnounce, WakeFlushers, SyncReturn, FlushStep, FlushCheck, FlushSleep,
      FlushSink, FlushSpuriousWake, SinkStep, WriteSink, hist
<1>5. ASSUME WorkerInQueue \/ WorkerLocal PROVE owed' = owed
  BY <1>5
  DEF WorkerInQueue, WorkerLocal, WorkerDrain, WorkerInDrain, WorkerCount, WorkerDrained,
      WorkerFinal, WorkerAnnounce, WakeFlushers, SinkStep, WriteSink, hist
<1>6. ASSUME \/ Destroy \/ OwnerInStop \/ OwnerLocal \/ UNCHANGED vars
             \/ \E u \in Actors : QueueSpuriousWake(u),
             ~SinksDone(Owner)
      PROVE  owed' = owed
  BY <1>6
  DEF Destroy, OwnerInStop, OwnerLocal, Join, FlushSink, QueueSpuriousWake, vars, hist
<1>7. QED
  BY <1>2, <1>3, <1>4, <1>5, <1>6, StepCases

LEMMA OwedLeftStep ==
  ASSUME Held, OwedLeft, [Next]_vars
  PROVE  OwedLeft'
<1> SUFFICES ASSUME NEW t \in Clients, NEW e \in owed'[t] PROVE Left(e)'
  BY DEF OwedLeft
<1>1. e \in Entry /\ Left(e)
  <2>1. CASE e \in owed[t]
    BY <2>1 DEF OwedLeft, Held, HistoryTypes
  <2>2. CASE e \in Returned
    BY <2>2, ReturnedLeft DEF Returned
  <2>3. QED
    BY <2>1, <2>2, OwedStays
<1>2. QED
  BY <1>1, LeftStays

(* pending_ is zero only when nothing is on its way.                        *)
LEMMA DrainedIsEmpty ==
  ASSUME Held, PendingAccounting, Async, pending = 0
  PROVE  data = <<>> /\ out[Worker] = <<>>
<1>1. data \in Seq(Entry) /\ out[Worker] \in Seq(Entry)
  BY DEF Held, Base, Q!TypeOK
<1>2. pending = Cardinality(Owing) + Len(data) + Len(out[Worker])
  BY DEF PendingAccounting
<1>3. Len(data) = 0 /\ Len(out[Worker]) = 0
  BY <1>1, <1>2, OwingFinite
<1>4. QED
  BY <1>1, <1>3

LEMMA FlushCoversStep ==
  ASSUME Held, AllProgress, NothingLost, FlushInv, PendingAccounting, [Next]_vars
  PROVE  FlushCovers'
<1> USE Roles DEF Goto, Runs, At
<1>1. /\ pc \in [Actors -> Phases] /\ owed \in [Clients -> SUBSET Entry]
      /\ Async \in BOOLEAN
  BY LoggerAssumption DEF Held, Base, Control, PcControl, HistoryTypes
<1>2. Grows /\ FlushesAll /\ FlushedWithin
  BY EverythingGrows, FlushesAllStep DEF FlushInv
<1> SUFFICES ASSUME NEW t \in Clients, pc'[t] = "sinks", NEW e \in owed'[t]
             PROVE  Covers(t, e)'
  BY DEF FlushCovers
<1>3. ASSUME Undisturbed(t) PROVE Covers(t, e)'
  <2>1. pc[t] = "sinks" /\ todo'[t] = todo[t]
    BY <1>3 DEF Undisturbed
  <2>2. owed'[t] = owed[t]
    BY <2>1, OwedStays, <1>1 DEF Flush, SinksDone
  <2>3. QED
    BY <1>1, <1>2, <2>1, <2>2, CoversStays DEF FlushInv, FlushCovers
<1>4. ASSUME ClientInQueue(t) \/ ClientLocal(t) PROVE Covers(t, e)'
  <2>1. CASE Flush(t) \/ FlushCheck(t)
    <3>1. todo[t] = Sinks /\ todo' = todo
      BY <2>1 DEF Flush, FlushCheck, AllProgress, Progress
    <3>2. data = <<>> /\ out[Worker] = <<>>
      <4>1. CASE Flush(t)
        BY <1>1, <4>1 DEF Flush, FlushInv, SyncQueue
      <4>2. CASE FlushCheck(t)
        <5>1. Async /\ pending = 0
          BY <1>1, <4>2 DEF FlushCheck, Drained, FlushInv, SyncQueue
        <5>2. QED
          BY <5>1, DrainedIsEmpty
      <4>3. QED
        BY <2>1, <4>1, <4>2
    <3>3. e \in Entry /\ Left(e)
      <4>1. CASE e \in owed[t]
        BY <1>1, <4>1 DEF FlushInv, OwedLeft
      <4>2. CASE e \in Returned
        BY <4>2, ReturnedLeft DEF Returned
      <4>3. QED
        BY <4>1, <4>2, OwedStays
    <3>4. QED
      BY <1>2, <3>1, <3>2, <3>3, CoversBegins, CoversStays
  <2>2. CASE FlushSink(t)
    <3>1. owed'[t] = owed[t] /\ pc[t] = "sinks"
      BY <2>2 DEF FlushSink, hist
    <3>2. e \in Entry /\ Covers(t, e)
      BY <1>1, <3>1 DEF FlushInv, FlushCovers
    <3>3. QED
      BY <1>2, <2>2, <3>2, CoversFlush
  <2>3. CASE ~(Flush(t) \/ FlushCheck(t) \/ FlushSink(t))
    <3>1. pc'[t] # "sinks"
      BY <1>1, <1>4, <2>3
      DEF ClientInQueue, ClientLocal, LogPush, LogResume, LogNotify, Log, LogReturn,
          CountDown, LogAnnounce, WakeFlushers, SyncReturn, FlushStep, FlushSleep,
          SinksDone, FlushSpuriousWake, SinkStep, WriteSink
    <3>2. QED
      BY <3>1
  <2>4. QED
    BY <2>1, <2>2, <2>3
<1>5. QED
  BY <1>3, <1>4, StepCases, ClientsSpareOthers, WorkerSparesOthers, OwnerSparesOthers

LEMMA FlushInvHolds == SafetySpec => []FlushInv
<1>1. Init => FlushInv
  <2> SUFFICES ASSUME Init PROVE FlushInv
    OBVIOUS
  <2>1. /\ data = <<>> /\ out[Worker] = <<>>
        /\ \A t \in Clients : pc[t] = "idle" /\ owed[t] = {}
        /\ \A i \in Sinks : flushed[i] = 0 /\ written[i] = <<>>
    BY Roles DEF Init, Q!Init
  <2>2. QED
    BY <2>1 DEF FlushInv, SyncQueue, OwedLeft, FlushedWithin, FlushCovers
<1>2. Held /\ AllProgress /\ NothingLost /\ PendingAccounting /\ FlushInv /\ [Next]_vars
      => FlushInv'
  BY SyncQueueStep, OwedLeftStep, FlushCoversStep, EverythingGrows, FlushesAllStep,
     DurableStays
  DEF FlushInv
<1>3. QED
  BY <1>1, <1>2, NothingIsLost, PendingIsExact, PTL DEF SafetySpec

(* flush() is a barrier for any clients, sinks and policy: once its wait is *)
(* over, what had been logged before it is in every sink or was reported    *)
(* dropped, and is durable in the sinks that it has flushed.                *)
THEOREM FlushCoversTheLogged == SafetySpec => []FlushIsBarrier
<1>1. FlushInv => FlushIsBarrier
  BY DEF FlushInv, FlushCovers, Covers, FlushIsBarrier, At
<1>2. QED
  BY <1>1, FlushInvHolds, PTL

-----------------------------------------------------------------------------
(* The destructor runs when the callers are gone, joins the worker when it  *)
(* is through its last pass, and flushes what the sinks have.               *)
CallersGone == pc[Owner] # "idle" => \A t \in Clients : pc[t] = "idle"

WorkerEnds ==
  /\ Async /\ pc[Worker] \in {"final", "exited"} => lastPass
  /\ Async /\ pc[Owner] \in {"sinks", "destroyed"} => pc[Worker] = "exited"

OwnerCovers ==
  /\ pc[Owner] = "sinks" => \A e \in Entry : e[2] <= calls[e[1]] => Covers(Owner, e)
  /\ ShutdownDelivers

ShutdownInv == CallersGone /\ WorkerEnds /\ OwnerCovers

LEMMA CallersGoneStep ==
  ASSUME Held, CallersGone, OwnerWaits, [Next]_vars
  PROVE  CallersGone'
<1> USE Roles DEF Goto, Runs, At
<1>1. pc \in [Actors -> Phases]
  BY DEF Held, Base, Control, PcControl
<1>2. ASSUME NEW t \in Clients, ClientInQueue(t) \/ ClientLocal(t)
      PROVE  pc[Owner] = "idle" /\ pc'[Owner] = "idle"
  <2>1. pc[t] # "idle" \/ pc[Owner] = "idle"
    BY <1>2
    DEF ClientInQueue, ClientLocal, LogPush, LogResume, LogNotify, Log, LogReturn,
        LogAnnounce, SyncReturn, Flush, FlushStep, FlushCheck, FlushSleep, FlushSink,
        SinksDone, FlushSpuriousWake, SinkStep, WriteSink
  <2>2. pc[Owner] = "idle"
    BY <2>1 DEF CallersGone
  <2>3. QED
    BY <1>2, <2>2, ClientsSpareOthers DEF Undisturbed
<1>3. ASSUME WorkerInQueue \/ WorkerLocal PROVE CallersGone'
  BY <1>3, WorkerSparesOthers DEF Undisturbed, CallersGone
<1>4. CASE Destroy
  BY <1>1, <1>4 DEF Destroy, CallersGone
<1>5. ASSUME \/ OwnerInStop \/ OwnerLocal \/ UNCHANGED vars
             \/ \E u \in Actors : QueueSpuriousWake(u)
      PROVE  CallersGone'
  <2>1. pc'[Owner] # "idle" => pc[Owner] # "idle"
    BY <1>1, <1>5 DEF OwnerInStop, OwnerLocal, Join, FlushSink, SinksDone, QueueSpuriousWake, vars
  <2>2. \A t \in Clients : pc[t] = "idle" => pc'[t] = "idle"
    BY <1>5, OwnerSparesOthers DEF Undisturbed
  <2>3. QED
    BY <2>1, <2>2 DEF CallersGone
<1>6. QED
  BY <1>2, <1>3, <1>4, <1>5, StepCases DEF CallersGone

LEMMA WorkerEndsStep ==
  ASSUME Held, WorkerEnds, [Next]_vars
  PROVE  WorkerEnds'
<1> USE Roles DEF Goto, Runs, At
<1>1. pc \in [Actors -> Phases] /\ pc[Worker] # "asleep" /\ pc[Owner] # "asleep"
  BY DEF Held, Base, Control, PcControl, PcOf
<1>2. ASSUME NEW t \in Clients, ClientInQueue(t) \/ ClientLocal(t) PROVE WorkerEnds'
  <2>1. pc'[Worker] = pc[Worker] /\ lastPass' = lastPass
    BY <1>2, ClientsSpareWorker DEF Held
  <2>2. pc'[Owner] = pc[Owner]
    BY <1>1, <1>2, ClientsSpareOthers DEF Undisturbed
  <2>3. QED
    BY <2>1, <2>2 DEF WorkerEnds
<1>3. ASSUME WorkerInQueue \/ WorkerLocal PROVE WorkerEnds'
  <2>1. pc'[Owner] = pc[Owner]
    BY <1>1, <1>3, WorkerSparesOthers DEF Undisturbed
  <2>2. pc[Worker] # "exited"
    BY <1>3
    DEF WorkerInQueue, WorkerLocal, WorkerDrain, WorkerInDrain, WorkerCount, WorkerDrained,
        WorkerFinal, WorkerAnnounce, SinkStep, WriteSink
  <2>3. Async /\ pc'[Worker] \in {"final", "exited"} => lastPass'
    <3>1. CASE WorkerDrain \/ WorkerInDrain \/ WorkerFinal \/ SinkStep(Worker)
      BY <1>1, <3>1
      DEF WorkerDrain, WorkerInDrain, WorkerFinal, SinkStep, WriteSink, WorkerEnds
    <3>2. CASE WorkerCount
      BY <1>1, <3>2 DEF WorkerCount, CountDown, NextEntry
    <3>3. CASE WorkerAnnounce
      BY <1>1, <3>3 DEF WorkerAnnounce, WakeFlushers, NextEntry
    <3>4. CASE WorkerDrained
      BY <1>1, <3>4 DEF WorkerDrained
    <3>5. QED
      BY <1>3, <3>1, <3>2, <3>3, <3>4 DEF WorkerInQueue, WorkerLocal
  <2>4. QED
    BY <2>1, <2>2, <2>3 DEF WorkerEnds
<1>4. ASSUME \/ Destroy \/ OwnerInStop \/ OwnerLocal \/ UNCHANGED vars
             \/ \E u \in Actors : QueueSpuriousWake(u)
      PROVE  WorkerEnds'
  <2>1. pc'[Worker] = pc[Worker]
    BY <1>1, <1>4, OwnerSparesOthers DEF Undisturbed
  <2>2. lastPass' = lastPass
    BY <1>4
    DEF Destroy, OwnerInStop, OwnerLocal, Join, FlushSink, SinksDone, QueueSpuriousWake, vars
  <2>3. Async /\ pc'[Owner] \in {"sinks", "destroyed"} =>
          pc[Owner] \in {"sinks", "destroyed"} \/ pc[Worker] = "exited"
    BY <1>1, <1>4
    DEF Destroy, OwnerInStop, OwnerLocal, Join, Exited, FlushSink, SinksDone,
        QueueSpuriousWake, vars
  <2>4. QED
    BY <2>1, <2>2, <2>3 DEF WorkerEnds
<1>5. QED
  BY <1>2, <1>3, <1>4, StepCases

LEMMA CallsStay ==
  ASSUME Held, [Next]_vars, pc[Owner] # "idle"
  PROVE  calls' = calls
<1>1. ASSUME NEW t \in Clients, ClientInQueue(t) \/ ClientLocal(t) PROVE calls' = calls
  BY <1>1
  DEF ClientInQueue, ClientLocal, LogPush, LogResume, LogNotify, Log, Runs, At, LogReturn,
      LogAnnounce, WakeFlushers, SyncReturn, Flush, FlushStep, FlushCheck, FlushSleep,
      FlushSink, SinksDone, FlushSpuriousWake, SinkStep, WriteSink
<1>2. ASSUME WorkerInQueue \/ WorkerLocal PROVE calls' = calls
  BY <1>2
  DEF WorkerInQueue, WorkerLocal, WorkerDrain, WorkerInDrain, WorkerCount, WorkerDrained,
      WorkerFinal, WorkerAnnounce, WakeFlushers, SinkStep, WriteSink
<1>3. QED
  BY <1>1, <1>2, OwnerKeepsQueue, StepCases

LEMMA OwnerCoversStep ==
  ASSUME Held, AllProgress, NothingLost, SyncQueue, FlushedWithin, LastPassIsEmpty,
         ShutdownInv, OwnerWaits, [Next]_vars
  PROVE  OwnerCovers'
<1> USE Roles DEF Goto, Runs, At
<1>1. /\ pc \in [Actors -> Phases] /\ Async \in BOOLEAN
      /\ todo \in [Actors -> SUBSET Sinks]
  BY LoggerAssumption DEF Held, Base, Control, PcControl, SinkTypes
<1>2. Grows /\ FlushesAll
  BY EverythingGrows, FlushesAllStep
<1>3. dropped \subseteq dropped' /\ \A i \in Sinks : Durable(i) \subseteq Durable(i)'
  BY <1>2, DurableStays DEF Grows
<1>4. pc[Owner] # "idle" => calls' = calls
  BY CallsStay
<1>5. ASSUME pc'[Owner] = pc[Owner], todo'[Owner] = todo[Owner] PROVE OwnerCovers'
  <2>1. pc'[Owner] = "sinks" =>
          \A e \in Entry : e[2] <= calls'[e[1]] => Covers(Owner, e)'
    BY <1>2, <1>4, <1>5, CoversStays DEF ShutdownInv, OwnerCovers
  <2>2. ShutdownDelivers'
    BY <1>3, <1>4, <1>5 DEF ShutdownInv, OwnerCovers, ShutdownDelivers
  <2>3. QED
    BY <2>1, <2>2 DEF OwnerCovers
<1>6. CASE (Destroy /\ ~Async) \/ Join
  <2>1. /\ todo' = todo /\ pc'[Owner] = "sinks" /\ calls' = calls
        /\ pc[Owner] \in {"idle", "stopping"}
    BY <1>1, <1>6 DEF Destroy, Join
  <2>2. \A t \in Clients : pc[t] = "idle"
    BY <1>6, <2>1 DEF Destroy, Join, ShutdownInv, CallersGone
  <2>3. data = <<>> /\ out[Worker] = <<>>
    <3>1. CASE Async
      <4>1. lastPass
        BY <1>6, <3>1 DEF Join, Exited, ShutdownInv, WorkerEnds
      <4>2. QED
        BY <4>1 DEF LastPassIsEmpty
    <3>2. CASE ~Async
      BY <3>2 DEF SyncQueue
    <3>3. QED
      BY <3>1, <3>2
  <2>4. ASSUME NEW e \in Entry, e[2] <= calls[e[1]] PROVE Covers(Owner, e)'
    <3>1. ~HeldByCaller(e)
      BY <2>2 DEF HeldByCaller, Entry
    <3>2. todo[Owner] = Sinks
      BY <2>1 DEF AllProgress, Progress
    <3>3. Covers(Owner, e)
      BY <2>3, <2>4, <3>1, <3>2, CoversBegins DEF Left
    <3>4. QED
      BY <1>2, <2>1, <3>3, CoversStays
  <2>5. QED
    BY <2>1, <2>4 DEF OwnerCovers, ShutdownDelivers
<1>7. CASE Destroy /\ Async
  BY <1>1, <1>7 DEF Destroy, OwnerCovers, ShutdownDelivers
<1>8. CASE FlushSink(Owner)
  <2>1. pc[Owner] = "sinks" /\ pc'[Owner] = "sinks" /\ calls' = calls
    BY <1>8 DEF FlushSink
  <2>2. \A e \in Entry : e[2] <= calls'[e[1]] => Covers(Owner, e)'
    BY <1>2, <1>8, <2>1, CoversFlush DEF ShutdownInv, OwnerCovers
  <2>3. QED
    BY <2>1, <2>2 DEF OwnerCovers, ShutdownDelivers
<1>9. CASE SinksDone(Owner)
  <2>1. /\ pc[Owner] = "sinks" /\ pc'[Owner] = "destroyed" /\ calls' = calls
        /\ todo[Owner] = {}
    BY <1>1, <1>9 DEF SinksDone
  <2>2. \A e \in Entry : e[2] <= calls[e[1]] =>
          e \in dropped \/ \A i \in Sinks : e \in Durable(i)
    BY <2>1 DEF ShutdownInv, OwnerCovers, Covers
  <2>3. ShutdownDelivers'
    BY <1>3, <2>1, <2>2 DEF ShutdownDelivers
  <2>4. QED
    BY <2>1, <2>3 DEF OwnerCovers
<1>10. ASSUME OwnerInStop \/ UNCHANGED vars \/ \E u \in Actors : QueueSpuriousWake(u)
       PROVE  OwnerCovers'
  BY <1>5, <1>10 DEF OwnerInStop, QueueSpuriousWake, vars
<1>11. ASSUME NEW t \in Clients, ClientInQueue(t) \/ ClientLocal(t) PROVE OwnerCovers'
  <2>1. pc[Owner] # "asleep" /\ Undisturbed(Owner)
    BY <1>11, ClientsSpareOthers DEF Held, Base, Control, PcControl, PcOf
  <2>2. QED
    BY <1>5, <2>1 DEF Undisturbed
<1>12. ASSUME WorkerInQueue \/ WorkerLocal PROVE OwnerCovers'
  <2>1. pc[Owner] # "asleep" /\ Undisturbed(Owner)
    BY <1>12, WorkerSparesOthers DEF Held, Base, Control, PcControl, PcOf
  <2>2. QED
    BY <1>5, <2>1 DEF Undisturbed
<1>13. QED
  BY <1>1, <1>6, <1>7, <1>8, <1>9, <1>10, <1>11, <1>12, StepCases DEF OwnerLocal

(* If the owner waits for the callers, the destructor leaves every entry    *)
(* durable in every sink, or reported dropped: stop() cuts nothing off.     *)
THEOREM DestructorDelivers ==
  ASSUME OwnerWaits
  PROVE  SafetySpec => []ShutdownDelivers
<1>1. Init => ShutdownInv
  BY Roles DEF Init, ShutdownInv, CallersGone, WorkerEnds, OwnerCovers, ShutdownDelivers, At
<1>2. Held /\ AllProgress /\ NothingLost /\ FlushInv /\ LastPassIsEmpty /\ ShutdownInv
      /\ [Next]_vars => ShutdownInv'
  BY CallersGoneStep, WorkerEndsStep, OwnerCoversStep DEF ShutdownInv, FlushInv
<1>3. ShutdownInv => ShutdownDelivers
  BY DEF ShutdownInv, OwnerCovers
<1>4. SafetySpec => []LastPassIsEmpty
  BY LastPassFindsNothing
<1>5. QED
  BY <1>1, <1>2, <1>3, <1>4, NothingIsLost, FlushInvHolds, PTL DEF SafetySpec

-----------------------------------------------------------------------------
(* Places and order.                                                        *)

(* The sinks of an asynchronous logger differ by the entry in dispatch.     *)
InStep ==
  Async => \A i, j \in Sinks :
    /\ (i \in todo[Worker] <=> j \in todo[Worker]) => written[i] = written[j]
    /\ i \notin todo[Worker] /\ j \in todo[Worker] =>
         written[i] = Append(written[j], Handling(Worker))

(* The step moves no entry.                                                 *)
Rests ==
  /\ UNCHANGED <<data, out, written, dropped>>
  /\ todo'[Worker] = todo[Worker]

(* The caller t pushes its entry.                                           *)
Pushes(t) ==
  /\ HeldByCaller(Current(t)) /\ Left(Current(t))' /\ pc[t] # "dispatch"
  /\ Current(t)' = Current(t)
  /\ \/ data' = Append(data, Current(t)) /\ dropped' = dropped
     \/ /\ data # <<>> /\ data' = Append(Tail(data), Current(t))
        /\ dropped' = dropped \cup {Head(data)}
     \/ data' = data /\ dropped' = dropped \cup {Current(t)}
  /\ UNCHANGED <<out, written>>
  /\ todo'[Worker] = todo[Worker]

(* The worker takes all that is queued.                                     *)
Takes ==
  /\ out[Worker] = <<>> /\ todo[Worker] = Sinks
  /\ data' = <<>> /\ out'[Worker] = data
  /\ UNCHANGED <<written, dropped>>
  /\ todo'[Worker] = todo[Worker]

(* The worker writes the first entry of its batch to sink i.                *)
Writes(i) ==
  /\ out[Worker] # <<>> /\ i \in todo[Worker]
  /\ written' = [written EXCEPT ![i] = Append(@, Head(out[Worker]))]
  /\ todo'[Worker] = todo[Worker] \ {i}
  /\ UNCHANGED <<data, out, dropped>>

(* The worker is done with it.                                              *)
Counts ==
  /\ out[Worker] # <<>> /\ todo[Worker] = {}
  /\ out'[Worker] = Tail(out[Worker]) /\ todo'[Worker] = Sinks
  /\ UNCHANGED <<data, written, dropped>>

(* The caller t of a synchronous logger writes its entry to sink i.         *)
WritesItself(t, i) ==
  /\ ~Async /\ pc[t] = "dispatch" /\ i \in todo[t] /\ i \notin todo'[t]
  /\ pc'[t] = "dispatch" /\ Current(t)' = Current(t)
  /\ written' = [written EXCEPT ![i] = Append(@, Current(t))]
  /\ UNCHANGED <<data, out, dropped>>
  /\ todo'[Worker] = todo[Worker]

Flow ==
  \/ Rests
  \/ \E t \in Clients : Pushes(t)
  \/ Takes
  \/ \E i \in Sinks : Writes(i)
  \/ Counts
  \/ \E t \in Clients, i \in Sinks : WritesItself(t, i)

LEMMA ClientFlow ==
  ASSUME Held, AllProgress, NEW t \in Clients, ClientInQueue(t) \/ ClientLocal(t)
  PROVE  Rests \/ Pushes(t) \/ \E i \in Sinks : WritesItself(t, i)
<1> USE Roles DEF Goto, Runs, At
<1>1. /\ pc \in [Actors -> Phases] /\ todo \in [Actors -> SUBSET Sinks]
      /\ calls \in [Clients -> 0..MaxLogs]
      /\ held[t] # <<>> <=> qpc[t] \in {"not_full", "re_not_full"}
  BY DEF Held, Base, Control, PcControl, CallControl, SinkTypes, Q!TypeOK
<1>2. out' = out
  BY LocalKeepsQueue, OthersInQueue DEF Held, Base, WorkerUndisturbed, qvars
<1>3. todo'[Worker] = todo[Worker]
  BY ClientsSpareOthers DEF Undisturbed
<1>4. CASE LogPush(t) \/ LogResume(t)
  <2>1. /\ written' = written /\ calls' = calls /\ pc'[t] = "pushed"
        /\ pc[t] = "push" \/ (pc[t] = "pushed" /\ held[t] # <<>>)
    BY <1>1, <1>4 DEF LogPush, LogResume, Q!PushResume
  <2>2. HeldByCaller(Current(t)) /\ Current(t)' = Current(t) /\ pc[t] # "dispatch"
    BY <2>1 DEF HeldByCaller, Current
  <2>3. held'[t] = <<>> => Left(Current(t))'
    <3>1. /\ Current(t)[1] = t /\ Current(t)[2] = calls[t] /\ calls[t] <= calls'[t]
      BY <1>1, <2>1, LoggerAssumption DEF Current
    <3>2. held'[t] = <<>> => ~HeldByCaller(Current(t))'
      BY <2>1, <2>2, <3>1 DEF HeldByCaller
    <3>3. QED
      BY <2>2, <3>1, <3>2 DEF Left
  <2>4. PushEffect(t)
    BY <1>4, PushHasEffect
  <2>5. QED
    BY <1>2, <1>3, <2>1, <2>2, <2>3, <2>4 DEF PushEffect, Pushes, Rests
<1>5. ASSUME NEW i \in Sinks, WriteSink(t, i) PROVE WritesItself(t, i)
  <2>1. /\ pc[t] = "dispatch" /\ pc'[t] = "dispatch" /\ calls' = calls
        /\ i \in todo[t] /\ i \notin todo'[t] /\ data' = data /\ dropped' = dropped
        /\ written' = [written EXCEPT ![i] = Append(@, Handling(t))]
    BY <1>1, <1>5 DEF WriteSink, qvars, hist
  <2>2. ~Async /\ Handling(t) = Current(t) /\ Current(t)' = Current(t)
    BY <2>1 DEF AllProgress, Progress, Handling, Current
  <2>3. QED
    BY <1>2, <1>3, <2>1, <2>2 DEF WritesItself
<1>6. CASE ~(LogPush(t) \/ LogResume(t)) /\ ~SinkStep(t)
  <2>1. data' = data
    BY <1>6, LocalKeepsQueue DEF ClientInQueue, LogNotify, Q!PushNotify, qvars
  <2>2. UNCHANGED <<written, dropped>>
    BY <1>6
    DEF ClientInQueue, ClientLocal, LogNotify, Log, LogReturn, LogAnnounce, WakeFlushers,
        SyncReturn, Flush, FlushStep, FlushCheck, FlushSleep, FlushSink, SinksDone,
        FlushSpuriousWake, hist
  <2>3. QED
    BY <1>2, <1>3, <2>1, <2>2 DEF Rests
<1>7. QED
  BY <1>4, <1>5, <1>6 DEF SinkStep

LEMMA WorkerFlow ==
  ASSUME Held, AllProgress, WorkerInQueue \/ WorkerLocal
  PROVE  Rests \/ Takes \/ Counts \/ \E i \in Sinks : Writes(i)
<1> USE Roles DEF Goto, Runs, At
<1>1. /\ out \in [{Worker} -> Seq(Entry)] /\ data \in Seq(Entry)
      /\ pc \in [Actors -> Phases] /\ todo \in [Actors -> SUBSET Sinks]
      /\ WorkerControl
  BY DEF Held, Base, Control, PcControl, SinkTypes, Q!TypeOK
<1>2. CASE WorkerDrain \/ WorkerInDrain
  <2>1. UNCHANGED <<written, dropped, todo>> /\ pc[Worker] \in {"drain", "drained"}
    BY <1>2 DEF WorkerDrain, WorkerInDrain, hist
  <2>2. todo[Worker] = Sinks
    BY <2>1 DEF AllProgress, Progress
  <2>3. \/ data' = data /\ out' = out
        \/ out[Worker] = <<>> /\ data' = out[Worker] /\ out'[Worker] = data
    BY <1>1, <1>2 DEF WorkerDrain, WorkerInDrain, WorkerControl, Q!Drain, Q!DrainNotify
  <2>4. QED
    BY <2>1, <2>2, <2>3 DEF Rests, Takes
<1>3. CASE WorkerCount
  BY <1>1, <1>3 DEF WorkerCount, Q!Consume, Barrier, Counts, hist
<1>4. ASSUME NEW i \in Sinks, WriteSink(Worker, i) PROVE Writes(i)
  BY <1>1, <1>4 DEF WriteSink, Handling, WorkerControl, Writes, qvars, hist
<1>5. CASE WorkerDrained \/ WorkerFinal \/ WorkerAnnounce
  BY <1>5 DEF WorkerDrained, WorkerFinal, WorkerAnnounce, WakeFlushers, Rests, qvars, hist
<1>6. QED
  BY <1>2, <1>3, <1>4, <1>5 DEF WorkerInQueue, WorkerLocal, SinkStep

LEMMA EntriesFlow ==
  ASSUME Held, AllProgress, [Next]_vars
  PROVE  Flow
<1> USE Roles
<1>1. ASSUME \/ Destroy \/ OwnerInStop \/ OwnerLocal \/ UNCHANGED vars
             \/ \E t \in Actors : QueueSpuriousWake(t)
      PROVE  Rests
  <2>1. data' = data /\ out' = out
    BY <1>1, OwnerKeepsQueue
  <2>2. todo'[Worker] = todo[Worker]
    BY <1>1, OwnerSparesOthers DEF Undisturbed
  <2>3. UNCHANGED <<written, dropped>>
    BY <1>1
    DEF Destroy, OwnerInStop, OwnerLocal, Join, FlushSink, SinksDone, QueueSpuriousWake,
        vars, hist
  <2>4. QED
    BY <2>1, <2>2, <2>3 DEF Rests
<1>2. QED
  BY <1>1, ClientFlow, WorkerFlow, StepCases DEF Flow

-----------------------------------------------------------------------------
LEMMA InStepStep ==
  ASSUME Held, AllProgress, InStep, Flow
  PROVE  InStep'
<1> SUFFICES ASSUME Async, NEW i \in Sinks, NEW j \in Sinks
             PROVE  /\ (i \in todo'[Worker] <=> j \in todo'[Worker]) =>
                         written'[i] = written'[j]
                    /\ i \notin todo'[Worker] /\ j \in todo'[Worker] =>
                         written'[i] = Append(written'[j], Handling(Worker)')
  BY DEF InStep
<1>1. written \in [Sinks -> Seq(Entry)] /\ todo[Worker] \subseteq Sinks
  BY Roles DEF Held, SinkTypes
<1>2. CASE Rests
  BY <1>2 DEF Rests, InStep, Handling
<1>3. ASSUME NEW t \in Clients, Pushes(t) PROVE InStep'
  BY <1>3 DEF Pushes, InStep, Handling
<1>4. CASE Takes \/ Counts
  BY <1>4 DEF Takes, Counts, InStep
<1>5. ASSUME NEW k \in Sinks, Writes(k) PROVE InStep'
  <2>1. /\ Handling(Worker) = Head(out[Worker]) /\ Handling(Worker)' = Handling(Worker)
        /\ k \in todo[Worker] /\ todo'[Worker] = todo[Worker] \ {k}
    BY <1>5 DEF Writes, Handling
  <2>2. /\ written'[k] = Append(written[k], Handling(Worker))
        /\ \A l \in Sinks : l # k => written'[l] = written[l]
    BY <1>1, <1>5, <2>1 DEF Writes
  <2>3. QED
    BY <2>1, <2>2 DEF InStep
<1>6. QED
  BY <1>2, <1>3, <1>4, <1>5 DEF Flow, WritesItself, InStep

(* All sinks of an asynchronous logger have the same entries in the same    *)
(* order, but for the entry being dispatched.                               *)
THEOREM SinksInStep == SafetySpec => []SinksAgree
<1>1. Init => InStep
  BY Roles DEF Init, InStep
<1>2. Held /\ AllProgress /\ InStep /\ [Next]_vars => InStep'
  BY InStepStep, EntriesFlow
<1>3. Held /\ InStep => SinksAgree
  <2> SUFFICES ASSUME Held, InStep, Async, NEW i \in Sinks, NEW j \in Sinks,
                      Len(written[i]) <= Len(written[j])
               PROVE  /\ Len(written[j]) <= Len(written[i]) + 1
                      /\ written[i] = SubSeq(written[j], 1, Len(written[i]))
    BY DEF SinksAgree
  <2>1. /\ written[i] \in Seq(Entry) /\ written[j] \in Seq(Entry)
        /\ Len(written[i]) \in Nat /\ Len(written[j]) \in Nat
    BY DEF Held, SinkTypes
  <2>2. CASE written[i] = written[j]
    BY <2>1, <2>2
  <2>3. ASSUME NEW x, written[j] = Append(written[i], x)
        PROVE  /\ Len(written[j]) <= Len(written[i]) + 1
               /\ written[i] = SubSeq(written[j], 1, Len(written[i]))
    BY <2>1, <2>3
  <2>4. ASSUME NEW x, written[i] = Append(written[j], x) PROVE FALSE
    BY <2>1, <2>4
  <2>5. QED
    BY <2>2, <2>3, <2>4 DEF InStep
<1>4. QED
  BY <1>1, <1>2, <1>3, NothingIsLost, PTL DEF SafetySpec

-----------------------------------------------------------------------------
Precede(S, T) == \A e \in S, f \in T : e[1] = f[1] => e[2] < f[2]

(* The entries of each thread stand in the order they were logged.          *)
Ordered(s) ==
  \A j, k \in DOMAIN s : j < k /\ s[j][1] = s[k][1] => s[j][2] < s[k][2]

(* What sink i has still to get of the worker's batch.                      *)
Batch(i) == Contents(IF i \in todo[Worker] THEN out[Worker] ELSE Tail(out[Worker]))

(* The queue is behind the batch, and both are behind what the sinks have.  *)
InOrder ==
  /\ Ordered(data) /\ Ordered(out[Worker])
  /\ Precede(Contents(out[Worker]), Contents(data))
  /\ \A i \in Sinks :
       /\ Ordered(written[i])
       /\ Precede(Contents(written[i]), Contents(data))
       /\ Precede(Contents(written[i]), Batch(i))

(* What is queued, taken or dropped has left its caller.                    *)
Passed == Contents(data) \cup Contents(out[Worker]) \cup dropped

PassedLeft == \A e \in Passed : Left(e)

(* A sink has only what was logged; its caller may still be writing it to   *)
(* the other sinks.                                                         *)
WrittenBy(i, e) ==
  \/ Left(e)
  \/ ~Async /\ e = Current(e[1]) /\ pc[e[1]] = "dispatch" /\ i \notin todo[e[1]]

WrittenLeft == \A i \in Sinks : \A e \in Contents(written[i]) : WrittenBy(i, e)

(* What was reported dropped is nowhere else.                               *)
DroppedOnly ==
  \A e \in dropped :
    /\ e \notin Contents(data) /\ e \notin Contents(out[Worker])
    /\ \A i \in Sinks : e \notin Contents(written[i])

Places == InOrder /\ PassedLeft /\ WrittenLeft /\ DroppedOnly

-----------------------------------------------------------------------------
LEMMA OrderedAppend ==
  ASSUME NEW s \in Seq(Entry), NEW x \in Entry, Ordered(s), Precede(Contents(s), {x})
  PROVE  Ordered(Append(s, x))
<1>1. /\ Len(s) \in Nat /\ DOMAIN s = 1..Len(s) /\ DOMAIN Append(s, x) = 1..(Len(s) + 1)
      /\ \A k \in 1..Len(s) : Append(s, x)[k] = s[k]
      /\ Append(s, x)[Len(s) + 1] = x
  OBVIOUS
<1>2. \A k \in 1..Len(s) : s[k] \in Contents(s)
  BY <1>1 DEF Contents
<1>3. SUFFICES ASSUME NEW j \in 1..(Len(s) + 1), NEW k \in 1..(Len(s) + 1), j < k,
                      Append(s, x)[j][1] = Append(s, x)[k][1]
               PROVE  Append(s, x)[j][2] < Append(s, x)[k][2]
  BY <1>1 DEF Ordered
<1>4. j \in 1..Len(s) /\ Append(s, x)[j] = s[j]
  BY <1>1, <1>3
<1>5. CASE k = Len(s) + 1
  BY <1>1, <1>2, <1>3, <1>4, <1>5 DEF Precede
<1>6. CASE k # Len(s) + 1
  <2>1. k \in 1..Len(s) /\ Append(s, x)[k] = s[k]
    BY <1>1, <1>3, <1>6
  <2>2. QED
    BY <1>1, <1>3, <1>4, <2>1 DEF Ordered
<1>7. QED
  BY <1>5, <1>6

LEMMA OrderedTail ==
  ASSUME NEW s \in Seq(Entry), s # <<>>, Ordered(s)
  PROVE  Ordered(Tail(s)) /\ Precede({Head(s)}, Contents(Tail(s)))
<1>1. /\ Len(s) \in Nat /\ Len(s) > 0 /\ DOMAIN s = 1..Len(s)
      /\ DOMAIN Tail(s) = 1..(Len(s) - 1) /\ Head(s) = s[1]
      /\ \A k \in 1..(Len(s) - 1) : Tail(s)[k] = s[k + 1] /\ k + 1 \in 1..Len(s)
  OBVIOUS
<1>2. Ordered(Tail(s))
  <2>1. SUFFICES ASSUME NEW j \in 1..(Len(s) - 1), NEW k \in 1..(Len(s) - 1), j < k,
                        Tail(s)[j][1] = Tail(s)[k][1]
                 PROVE  Tail(s)[j][2] < Tail(s)[k][2]
    BY <1>1 DEF Ordered
  <2>2. j + 1 < k + 1 /\ Tail(s)[j] = s[j + 1] /\ Tail(s)[k] = s[k + 1]
    BY <1>1, <2>1
  <2>3. QED
    BY <1>1, <2>1, <2>2 DEF Ordered
<1>3. ASSUME NEW f \in Contents(Tail(s)), Head(s)[1] = f[1] PROVE Head(s)[2] < f[2]
  <2>1. PICK k \in 1..(Len(s) - 1) : f = s[k + 1]
    BY <1>1, <1>3 DEF Contents
  <2>2. 1 \in 1..Len(s) /\ k + 1 \in 1..Len(s) /\ 1 < k + 1
    BY <1>1, <2>1
  <2>3. QED
    BY <1>1, <1>3, <2>1, <2>2 DEF Ordered
<1>4. QED
  BY <1>2, <1>3 DEF Precede

(* An entry that its caller still has comes after all that has left.        *)
LEMMA HeldComesLast ==
  ASSUME Held, NEW t \in Clients, InLog(t), HeldByCaller(Current(t)), NEW e \in Entry, Left(e)
  PROVE  Precede({e}, {Current(t)}) /\ e # Current(t)
<1>1. /\ calls[t] \in Nat /\ e[2] \in Nat /\ e = <<e[1], e[2]>>
      /\ Current(t)[1] = t /\ Current(t)[2] = calls[t]
  BY LoggerAssumption DEF Held, Base, Control, CallControl, Entry, Current
<1>2. e # Current(t)
  BY DEF Left
<1>3. e[1] = t => e[2] <= calls[t] /\ e[2] # calls[t]
  BY <1>1, <1>2 DEF Left, Current
<1>4. QED
  BY <1>1, <1>2, <1>3 DEF Precede

LEMMA PrecedeExcludes ==
  ASSUME NEW S, NEW T, Precede(S, T), NEW e \in Entry, e \in S, e \in T
  PROVE  FALSE
<1>1. e[2] \in Nat
  BY LoggerAssumption DEF Entry
<1>2. QED
  BY <1>1 DEF Precede

LEMMA ContentsAreEntries ==
  ASSUME NEW s \in Seq(Entry)
  PROVE  Contents(s) \subseteq Entry
BY DEF Contents

LEMMA EntriesTypes ==
  ASSUME Held
  PROVE  /\ data \in Seq(Entry) /\ out[Worker] \in Seq(Entry)
         /\ written \in [Sinks -> Seq(Entry)]
         /\ Passed \subseteq Entry
         /\ \A i \in Sinks : Contents(written[i]) \subseteq Entry
BY ContentsAreEntries DEF Held, Base, Q!TypeOK, SinkTypes, HistoryTypes, Passed

LEMMA WrittenByStays ==
  ASSUME Held, [Next]_vars, NEW i \in Sinks, NEW e \in Entry, WrittenBy(i, e)
  PROVE  WrittenBy(i, e)'
<1> USE Roles DEF Goto, Runs, At
<1>1. CASE Left(e)
  BY <1>1, LeftStays DEF WrittenBy
<1>2. CASE ~Left(e)
  <2>1. /\ ~Async /\ e = Current(e[1]) /\ pc[e[1]] = "dispatch" /\ i \notin todo[e[1]]
        /\ e[1] \in Clients /\ e[1] \in Actors
    BY <1>2 DEF WrittenBy, Entry
  <2>2. /\ pc \in [Actors -> Phases] /\ todo \in [Actors -> SUBSET Sinks]
        /\ calls \in [Clients -> 0..MaxLogs] /\ e[2] = calls[e[1]]
    BY <2>1 DEF Held, Base, Control, PcControl, CallControl, SinkTypes, Current
  <2>3. Undisturbed(e[1]) => WrittenBy(i, e)'
    BY <2>1 DEF Undisturbed, WrittenBy, Current
  <2>4. ASSUME NEW t \in Clients, ClientInQueue(t) \/ ClientLocal(t), e[1] = t
        PROVE  WrittenBy(i, e)'
    <3>1. CASE SyncReturn(t)
      <4>1. pc'[t] = "idle" /\ calls' = calls
        BY <2>2, <3>1 DEF SyncReturn
      <4>2. Left(e)'
        BY <2>2, <2>4, <4>1, LoggerAssumption DEF Left, HeldByCaller
      <4>3. QED
        BY <4>2 DEF WrittenBy
    <3>2. CASE SinkStep(t)
      <4>1. pc' = pc /\ calls' = calls /\ todo'[t] \subseteq todo[t]
        BY <2>2, <3>2 DEF SinkStep, WriteSink
      <4>2. QED
        BY <2>1, <2>4, <4>1 DEF WrittenBy, Current
    <3>3. QED
      BY <2>1, <2>4, <3>1, <3>2
      DEF ClientInQueue, ClientLocal, LogPush, LogResume, LogNotify, Log, LogReturn,
          LogAnnounce, Flush, FlushStep, FlushCheck, FlushSleep, FlushSink, SinksDone,
          FlushSpuriousWake
  <2>5. QED
    BY <2>1, <2>3, <2>4, StepCases, ClientsSpareOthers, WorkerSparesOthers,
       OwnerSparesOthers
<1>3. QED
  BY <1>1, <1>2

-----------------------------------------------------------------------------
LEMMA PushKeepsPlaces ==
  ASSUME Held, Places, [Next]_vars, NEW t \in Clients, Pushes(t)
  PROVE  Places'
<1> DEFINE x == Current(t)
<1>1. /\ pc[t] \in {"push", "pushed"} /\ HeldByCaller(x)
      /\ out' = out /\ written' = written /\ todo'[Worker] = todo[Worker]
  BY DEF Pushes, HeldByCaller, Current, At
<1>2. ASSUME NEW e \in Entry, e = x PROVE Left(e)'
  BY <1>2 DEF Pushes, Left, HeldByCaller
<1>3. InLog(t) /\ Async /\ x \in Entry
  BY <1>1, CurrentIsEntry, LoggerAssumption DEF InLog, Held, Base, Control, SyncControl
<1>4. /\ data \in Seq(Entry) /\ out[Worker] \in Seq(Entry)
      /\ Passed \subseteq Entry /\ \A i \in Sinks : Contents(written[i]) \subseteq Entry
  BY EntriesTypes
<1>5. ASSUME NEW e \in Passed PROVE Left(e)' /\ e # x /\ Precede({e}, {x})
  BY <1>1, <1>3, <1>4, HeldComesLast, LeftStays DEF Places, PassedLeft
<1>6. ASSUME NEW i \in Sinks, NEW e \in Contents(written[i])
      PROVE  e # x /\ Precede({e}, {x})
  BY <1>1, <1>3, <1>4, HeldComesLast DEF Places, WrittenLeft, WrittenBy
<1>7. WrittenLeft'
  BY <1>1, <1>4, WrittenByStays DEF Places, WrittenLeft
<1>8. \A i \in Sinks : Batch(i)' = Batch(i)
  BY <1>1 DEF Batch
<1>9. /\ Contents(data) \subseteq Passed /\ Contents(out[Worker]) \subseteq Passed
      /\ dropped \subseteq Passed
  BY DEF Passed
<1> HIDE DEF x
<1>10. ASSUME NEW q \in Seq(Entry), Ordered(q), Contents(q) \subseteq Contents(data),
             data' = Append(q, x), dropped' \subseteq Passed
      PROVE  InOrder' /\ PassedLeft'
  <2>1. Contents(data') = Contents(q) \cup {x}
    BY <1>3, <1>10, AppendContents
  <2>2. Precede(Contents(q), {x})
    BY <1>5, <1>9, <1>10 DEF Precede
  <2>3. Ordered(data')
    BY <1>3, <1>10, <2>2, OrderedAppend
  <2>4. Precede(Contents(out[Worker]), Contents(data'))
    BY <1>5, <1>9, <1>10, <2>1 DEF Precede, Places, InOrder
  <2>5. ASSUME NEW i \in Sinks PROVE Precede(Contents(written[i]), Contents(data'))
    BY <1>6, <1>10, <2>1 DEF Precede, Places, InOrder
  <2>6. InOrder'
    BY <1>1, <1>8, <2>3, <2>4, <2>5 DEF Places, InOrder
  <2>7. Passed' \subseteq Passed \cup {x}
    BY <1>1, <1>9, <1>10, <2>1 DEF Passed
  <2>8. QED
    BY <1>3, <1>5, <1>2, <2>6, <2>7 DEF PassedLeft
<1>11. CASE data' = Append(data, x) /\ dropped' = dropped
  <2>1. InOrder' /\ PassedLeft'
    BY <1>4, <1>9, <1>10, <1>11 DEF Places, InOrder
  <2>2. Contents(data') = Contents(data) \cup {x}
    BY <1>3, <1>4, <1>11, AppendContents
  <2>3. DroppedOnly'
    BY <1>1, <1>5, <1>9, <1>11, <2>2 DEF Places, DroppedOnly
  <2>4. QED
    BY <1>7, <2>1, <2>3 DEF Places
<1>12. CASE data # <<>> /\ data' = Append(Tail(data), x) /\ dropped' = dropped \cup {Head(data)}
  <2> DEFINE rest == Tail(data)
             h == Head(data)
  <2>1. /\ rest \in Seq(Entry) /\ h \in Entry /\ Contents(data) = Contents(rest) \cup {h}
    BY <1>4, <1>12, HeadContents
  <2>2. Ordered(rest) /\ Precede({h}, Contents(rest))
    BY <1>4, <1>12, OrderedTail DEF Places, InOrder
  <2>3. data' = Append(rest, x) /\ dropped' = dropped \cup {h}
    BY <1>12
  <2> HIDE DEF rest, h
  <2>4. h \in Passed
    BY <1>9, <2>1
  <2>5. InOrder' /\ PassedLeft'
    BY <1>9, <1>10, <2>1, <2>2, <2>3, <2>4
  <2>6. Contents(data') = Contents(rest) \cup {x}
    BY <1>3, <2>1, <2>3, AppendContents
  <2>7. h \notin Contents(rest)
    BY <2>1, <2>2, PrecedeExcludes
  <2>8. h \notin Contents(out[Worker])
    BY <2>1, PrecedeExcludes DEF Places, InOrder
  <2>9. \A i \in Sinks : h \notin Contents(written[i])
    BY <2>1, PrecedeExcludes DEF Places, InOrder
  <2>10. ASSUME NEW e \in dropped'
         PROVE  /\ e \notin Contents(data') /\ e \notin Contents(out[Worker])
                /\ \A i \in Sinks : e \notin Contents(written[i])
    <3>1. e # x
      BY <1>5, <1>9, <2>3, <2>4
    <3>2. CASE e = h
      BY <2>6, <2>7, <2>8, <2>9, <3>1, <3>2
    <3>3. CASE e \in dropped
      BY <2>1, <2>6, <3>1, <3>3 DEF Places, DroppedOnly
    <3>4. QED
      BY <2>3, <3>2, <3>3
  <2>11. DroppedOnly'
    BY <1>1, <2>10 DEF DroppedOnly
  <2>12. QED
    BY <1>7, <2>5, <2>11 DEF Places
<1>13. CASE data' = data /\ dropped' = dropped \cup {x}
  <2>1. InOrder'
    BY <1>1, <1>8, <1>13 DEF Places, InOrder
  <2>2. Passed' = Passed \cup {x}
    BY <1>1, <1>13 DEF Passed
  <2>3. PassedLeft'
    BY <1>3, <1>5, <1>2, <2>2 DEF PassedLeft
  <2>4. DroppedOnly'
    BY <1>1, <1>5, <1>6, <1>9, <1>13 DEF Places, DroppedOnly
  <2>5. QED
    BY <1>7, <2>1, <2>3, <2>4 DEF Places
<1>14. QED
  BY <1>11, <1>12, <1>13 DEF Pushes, x

LEMMA TakeKeepsPlaces ==
  ASSUME Held, Places, [Next]_vars, Takes
  PROVE  Places'
<1>1. /\ data' = <<>> /\ out'[Worker] = data /\ out[Worker] = <<>>
      /\ written' = written /\ dropped' = dropped
      /\ todo[Worker] = Sinks /\ todo'[Worker] = Sinks
  BY DEF Takes
<1>2. Passed' = Passed
  BY <1>1, EmptyContents DEF Passed
<1>3. PassedLeft'
  BY <1>2, EntriesTypes, LeftStays DEF Places, PassedLeft
<1>4. WrittenLeft'
  BY <1>1, EntriesTypes, WrittenByStays DEF Places, WrittenLeft
<1>5. DroppedOnly'
  BY <1>1, EmptyContents DEF Places, DroppedOnly
<1>6. InOrder'
  <2>1. Ordered(data') /\ Precede(Contents(out'[Worker]), Contents(data'))
    BY <1>1, EmptyContents DEF Ordered, Precede
  <2>2. ASSUME NEW i \in Sinks
        PROVE  /\ Precede(Contents(written'[i]), Contents(data'))
               /\ Precede(Contents(written'[i]), Batch(i)')
    <3>1. Batch(i)' = Contents(data) /\ Contents(data') = {}
      BY <1>1, EmptyContents DEF Batch
    <3>2. QED
      BY <1>1, <3>1 DEF Places, InOrder, Precede
  <2>3. QED
    BY <1>1, <2>1, <2>2 DEF Places, InOrder
<1>7. QED
  BY <1>3, <1>4, <1>5, <1>6 DEF Places

LEMMA WriteKeepsPlaces ==
  ASSUME Held, Places, [Next]_vars, NEW i \in Sinks, Writes(i)
  PROVE  Places'
<1> DEFINE batch == out[Worker]
           x == Head(batch)
           rest == Tail(batch)
<1>1. /\ data \in Seq(Entry) /\ batch \in Seq(Entry) /\ written \in [Sinks -> Seq(Entry)]
      /\ Passed \subseteq Entry /\ \A j \in Sinks : Contents(written[j]) \subseteq Entry
  BY EntriesTypes
<1>2. /\ batch # <<>> /\ i \in todo[Worker] /\ todo'[Worker] = todo[Worker] \ {i}
      /\ data' = data /\ out' = out /\ dropped' = dropped
      /\ written' = [written EXCEPT ![i] = Append(@, x)]
  BY DEF Writes
<1>3. x \in Entry /\ Contents(batch) = Contents(rest) \cup {x}
  BY <1>1, <1>2, HeadContents
<1>4. Ordered(batch) /\ Precede({x}, Contents(rest))
  BY <1>1, <1>2, OrderedTail DEF Places, InOrder
<1>5. /\ Batch(i) = Contents(batch) /\ Batch(i)' = Contents(rest)
      /\ \A j \in Sinks : j # i => Batch(j)' = Batch(j)
  BY <1>2 DEF Batch
<1>6. Contents(batch) \subseteq Passed /\ Passed' = Passed
  BY <1>2 DEF Passed
<1>7. Precede(Contents(batch), Contents(data)) /\ Precede(Contents(written[i]), Contents(batch))
  BY <1>5 DEF Places, InOrder
<1> HIDE DEF rest, x, batch
<1>8. /\ written'[i] = Append(written[i], x) /\ written[i] \in Seq(Entry)
      /\ \A j \in Sinks : j # i => written'[j] = written[j]
  BY <1>1, <1>2
<1>9. Contents(written'[i]) = Contents(written[i]) \cup {x}
  BY <1>3, <1>8, AppendContents
<1>10. PassedLeft'
  BY <1>1, <1>6, LeftStays DEF Places, PassedLeft
<1>11. WrittenLeft'
  <2>1. WrittenBy(i, x)
    BY <1>3, <1>6 DEF Places, PassedLeft, WrittenBy
  <2>2. ASSUME NEW j \in Sinks, NEW e \in Contents(written'[j])
        PROVE  e \in Entry /\ WrittenBy(j, e)
    BY <1>1, <1>3, <1>8, <1>9, <2>1 DEF Places, WrittenLeft
  <2>3. QED
    BY <2>2, WrittenByStays DEF WrittenLeft
<1>12. DroppedOnly'
  <2>1. x \notin dropped
    BY <1>3 DEF Places, DroppedOnly, batch
  <2>2. QED
    BY <1>2, <1>8, <1>9, <2>1 DEF Places, DroppedOnly
<1>13. InOrder'
  <2>1. Ordered(written'[i])
    <3>1. Precede(Contents(written[i]), {x})
      BY <1>3, <1>7 DEF Precede
    <3>2. QED
      BY <1>3, <1>8, <3>1, OrderedAppend DEF Places, InOrder
  <2>2. Precede(Contents(written'[i]), Contents(data))
    BY <1>3, <1>7, <1>9 DEF Places, InOrder, Precede
  <2>3. Precede(Contents(written'[i]), Batch(i)')
    BY <1>3, <1>4, <1>5, <1>7, <1>9 DEF Precede
  <2>4. QED
    BY <1>2, <1>5, <1>8, <2>1, <2>2, <2>3 DEF Places, InOrder
<1>14. QED
  BY <1>10, <1>11, <1>12, <1>13 DEF Places

LEMMA CountKeepsPlaces ==
  ASSUME Held, Places, [Next]_vars, Counts
  PROVE  Places'
<1> DEFINE batch == out[Worker]
           rest == Tail(batch)
<1>1. /\ batch \in Seq(Entry) /\ Passed \subseteq Entry
      /\ \A j \in Sinks : Contents(written[j]) \subseteq Entry
  BY EntriesTypes
<1>2. /\ batch # <<>> /\ todo[Worker] = {} /\ todo'[Worker] = Sinks
      /\ out'[Worker] = rest
      /\ data' = data /\ written' = written /\ dropped' = dropped
  BY DEF Counts
<1>3. Contents(rest) \subseteq Contents(batch)
  BY <1>1, <1>2, HeadContents
<1>4. Ordered(rest)
  BY <1>1, <1>2, OrderedTail DEF Places, InOrder
<1>5. \A i \in Sinks : Batch(i) = Contents(rest) /\ Batch(i)' = Contents(rest)
  BY <1>2 DEF Batch
<1>6. Passed' \subseteq Passed
  BY <1>2, <1>3 DEF Passed
<1>7. PassedLeft'
  BY <1>1, <1>6, LeftStays DEF Places, PassedLeft
<1>8. WrittenLeft'
  BY <1>1, <1>2, WrittenByStays DEF Places, WrittenLeft
<1>9. DroppedOnly'
  BY <1>2, <1>3 DEF Places, DroppedOnly
<1>10. Precede(Contents(batch), Contents(data))
  BY DEF Places, InOrder
<1> HIDE DEF rest, batch
<1>11. Precede(Contents(out'[Worker]), Contents(data'))
  BY <1>2, <1>3, <1>10 DEF Precede
<1>12. InOrder'
  BY <1>2, <1>4, <1>5, <1>11 DEF Places, InOrder
<1>13. QED
  BY <1>7, <1>8, <1>9, <1>12 DEF Places

LEMMA CallerKeepsPlaces ==
  ASSUME Held, AllProgress, SyncQueue, Places, [Next]_vars,
         NEW t \in Clients, NEW i \in Sinks, WritesItself(t, i)
  PROVE  Places'
<1> DEFINE x == Current(t)
<1>1. /\ written \in [Sinks -> Seq(Entry)]
      /\ Passed \subseteq Entry /\ \A j \in Sinks : Contents(written[j]) \subseteq Entry
  BY EntriesTypes
<1>2. /\ ~Async /\ pc[t] = "dispatch" /\ pc'[t] = "dispatch"
      /\ i \in todo[t] /\ i \notin todo'[t] /\ Current(t)' = x
      /\ data' = data /\ out' = out /\ dropped' = dropped
      /\ written' = [written EXCEPT ![i] = Append(@, x)]
      /\ todo'[Worker] = todo[Worker]
  BY DEF WritesItself
<1>3. InLog(t) /\ HeldByCaller(x) /\ x \in Entry /\ x[1] = t
  BY <1>2, CurrentIsEntry DEF InLog, HeldByCaller, Current, At, Held, Base, Control
<1>4. data = <<>> /\ out[Worker] = <<>> /\ todo[Worker] = Sinks
  BY <1>2, Roles DEF SyncQueue, AllProgress, Progress, Held, Base, Control, SyncControl
<1>5. \A j \in Sinks : Batch(j) = {} /\ Batch(j)' = {}
  BY <1>2, <1>4, EmptyContents DEF Batch
<1>6. Passed' = Passed
  BY <1>2 DEF Passed
<1>7. PassedLeft'
  BY <1>1, <1>6, LeftStays DEF Places, PassedLeft
<1>8. x \notin dropped
  BY <1>3 DEF Places, PassedLeft, Passed, Left
<1>9. ASSUME NEW e \in Contents(written[i]) PROVE Precede({e}, {x})
  <2>1. WrittenBy(i, e) /\ e \in Entry
    BY <1>1 DEF Places, WrittenLeft
  <2>2. CASE Left(e)
    BY <1>3, <2>1, <2>2, HeldComesLast
  <2>3. CASE ~Left(e)
    <3>1. e[1] # t
      BY <1>2, <2>1, <2>3 DEF WrittenBy
    <3>2. QED
      BY <1>3, <3>1 DEF Precede
  <2>4. QED
    BY <2>2, <2>3
<1>10. ASSUME NEW e \in Entry, e = x PROVE WrittenBy(i, e)'
  BY <1>2, <1>3, <1>10 DEF WrittenBy
<1> HIDE DEF x
<1>11. /\ written'[i] = Append(written[i], x) /\ written[i] \in Seq(Entry)
       /\ \A j \in Sinks : j # i => written'[j] = written[j]
  BY <1>1, <1>2
<1>12. Contents(written'[i]) = Contents(written[i]) \cup {x}
  BY <1>3, <1>11, AppendContents
<1>13. WrittenLeft'
  <2>1. ASSUME NEW j \in Sinks, NEW e \in Contents(written'[j]) PROVE WrittenBy(j, e)'
    <3>1. CASE e \in Contents(written[j])
      BY <1>1, <3>1, WrittenByStays DEF Places, WrittenLeft
    <3>2. CASE e \notin Contents(written[j])
      <4>1. j = i /\ e = x
        BY <1>11, <1>12, <2>1, <3>2
      <4>2. QED
        BY <1>3, <1>10, <4>1
    <3>3. QED
      BY <3>1, <3>2
  <2>2. QED
    BY <2>1 DEF WrittenLeft
<1>14. DroppedOnly'
  BY <1>2, <1>8, <1>11, <1>12 DEF Places, DroppedOnly
<1>15. Ordered(written'[i])
  <2>1. Precede(Contents(written[i]), {x})
    BY <1>9 DEF Precede
  <2>2. QED
    BY <1>3, <1>11, <2>1, OrderedAppend DEF Places, InOrder
<1>16. InOrder'
  BY <1>2, <1>4, <1>5, <1>11, <1>15, EmptyContents DEF Places, InOrder, Precede
<1>17. QED
  BY <1>7, <1>13, <1>14, <1>16 DEF Places

LEMMA RestKeepsPlaces ==
  ASSUME Held, Places, [Next]_vars, Rests
  PROVE  Places'
<1>1. UNCHANGED <<data, out, written, dropped>> /\ todo'[Worker] = todo[Worker]
  BY DEF Rests
<1>2. Passed' = Passed /\ \A i \in Sinks : Batch(i)' = Batch(i)
  BY <1>1 DEF Passed, Batch
<1>3. PassedLeft'
  BY <1>2, EntriesTypes, LeftStays DEF Places, PassedLeft
<1>4. WrittenLeft'
  BY <1>1, EntriesTypes, WrittenByStays DEF Places, WrittenLeft
<1>5. InOrder' /\ DroppedOnly'
  BY <1>1, <1>2 DEF Places, InOrder, DroppedOnly
<1>6. QED
  BY <1>3, <1>4, <1>5 DEF Places

LEMMA PlacesHold == SafetySpec => []Places
<1>1. Init => Places
  <2> SUFFICES ASSUME Init PROVE Places
    OBVIOUS
  <2>1. /\ data = <<>> /\ out[Worker] = <<>> /\ dropped = {} /\ todo[Worker] = Sinks
        /\ \A i \in Sinks : written[i] = <<>>
    BY Roles DEF Init, Q!Init
  <2>2. QED
    BY <2>1, EmptyContents
    DEF Places, InOrder, Ordered, Precede, Batch, PassedLeft, Passed, WrittenLeft, DroppedOnly
<1>2. Held /\ AllProgress /\ FlushInv /\ Places /\ [Next]_vars => Places'
  BY EntriesFlow, PushKeepsPlaces, TakeKeepsPlaces, WriteKeepsPlaces, CountKeepsPlaces,
     CallerKeepsPlaces, RestKeepsPlaces
  DEF Flow, FlushInv
<1>3. QED
  BY <1>1, <1>2, NothingIsLost, FlushInvHolds, PTL DEF SafetySpec

(* Each sink has the entries of one thread in the order they were logged,   *)
(* whatever policy, and whoever dispatches.                                 *)
THEOREM SinksInProgramOrder == SafetySpec => []ProgramOrder
<1>1. Places => ProgramOrder
  BY DEF Places, InOrder, Ordered, ProgramOrder
<1>2. QED
  BY <1>1, PlacesHold, PTL

(* Every logged entry is in exactly one place: with its caller, queued, in  *)
(* the batch, dropped, or delivered.  (Without sinks an entry is delivered  *)
(* everywhere at once.)                                                     *)
THEOREM EntriesInOnePlace ==
  ASSUME NumSinks > 0
  PROVE  SafetySpec => []ExactlyOnePlace
<1>1. Held /\ NothingLost /\ Places => ExactlyOnePlace
  <2> SUFFICES ASSUME Held, NothingLost, Places, NEW e \in Entry, e[2] <= calls[e[1]]
               PROVE  Cardinality({place \in 1..5 :
                        CASE place = 1 -> HeldByCaller(e)
                          [] place = 2 -> e \in Contents(data)
                          [] place = 3 -> e \in Contents(out[Worker])
                          [] place = 4 -> e \in dropped
                          [] place = 5 -> Delivered(e)}) = 1
    BY DEF ExactlyOnePlace
  <2> DEFINE H == HeldByCaller(e)
             Qd == e \in Contents(data)
             B == e \in Contents(out[Worker])
             L == e \in dropped
             D == Delivered(e)
             In(place) == CASE place = 1 -> H [] place = 2 -> Qd [] place = 3 -> B
                            [] place = 4 -> L [] place = 5 -> D
  <2>1. H => ~Qd /\ ~B /\ ~L /\ ~D
    BY DEF Places, PassedLeft, Passed, Left, Delivered
  <2>2. 1 \in Sinks
    BY LoggerAssumption DEF Sinks
  <2>3. Qd => ~B /\ ~D
    BY <2>2, PrecedeExcludes DEF Places, InOrder, Delivered
  <2>4. B => ~D
    BY DEF Delivered
  <2>5. L => ~Qd /\ ~B /\ ~D
    BY <2>2 DEF Places, DroppedOnly, Delivered
  <2>6. H \/ Qd \/ B \/ L \/ D
    BY DEF NothingLost, Accounted, InSinks, Delivered
  <2> HIDE DEF H, Qd, B, L, D
  <2>7. PICK k \in 1..5 : {place \in 1..5 : In(place)} = {k}
    <3>1. 1..5 = {1, 2, 3, 4, 5}
      OBVIOUS
    <3>2. (In(1) <=> H) /\ (In(2) <=> Qd) /\ (In(3) <=> B) /\ (In(4) <=> L) /\ (In(5) <=> D)
      OBVIOUS
    <3> HIDE DEF In
    <3>3. CASE H
      BY <2>1, <3>1, <3>2, <3>3
    <3>4. CASE Qd
      BY <2>1, <2>3, <2>5, <3>1, <3>2, <3>4
    <3>5. CASE B
      BY <2>1, <2>3, <2>4, <2>5, <3>1, <3>2, <3>5
    <3>6. CASE L
      BY <2>1, <2>5, <3>1, <3>2, <3>6
    <3>7. CASE D
      BY <2>1, <2>3, <2>4, <2>5, <3>1, <3>2, <3>7
    <3>8. QED
      BY <2>6, <3>3, <3>4, <3>5, <3>6, <3>7
  <2>8. Cardinality({k}) = 1
    BY FS_Singleton
  <2>9. QED
    BY <2>7, <2>8 DEF H, Qd, B, L, D
<1>2. QED
  BY <1>1, NothingIsLost, PlacesHold, PTL

-----------------------------------------------------------------------------
(* The Logger as its callers see it: the values LogService's variables      *)
(* have.                                                                    *)
Calling == {t \in Clients : InLog(t)}

Line == out[Worker] \o data

Phase == IF At(Owner, "idle") THEN "open"
         ELSE IF At(Owner, "destroyed") THEN "closed" ELSE "closing"

Seen == <<calls, Calling, Line, dropped, written, flushed, owed, Phase>>

LEMMA SeenIsService == Service!vars = Seen /\ (UNCHANGED Service!vars <=> UNCHANGED Seen)
BY DEF Service!vars, Seen, Calling, Line, Phase

-----------------------------------------------------------------------------
(* The batch and the queue as one sequence.                                 *)
LEMMA RangeIsContents == \A s : Service!Range(s) = Contents(s)
BY DEF Service!Range, Contents

LEMMA LineContents ==
  ASSUME NEW o \in Seq(Entry), NEW d \in Seq(Entry)
  PROVE  o \o d \in Seq(Entry) /\ Contents(o \o d) = Contents(o) \cup Contents(d)
<1>1. /\ o \o d \in Seq(Entry) /\ Len(o) \in Nat /\ Len(d) \in Nat
      /\ Len(o \o d) = Len(o) + Len(d)
      /\ \A k \in 1..Len(o) : (o \o d)[k] = o[k]
      /\ \A k \in 1..Len(d) : (o \o d)[Len(o) + k] = d[k]
      /\ DOMAIN o = 1..Len(o) /\ DOMAIN d = 1..Len(d)
      /\ DOMAIN (o \o d) = 1..(Len(o) + Len(d))
  OBVIOUS
<1>2. ASSUME NEW x \in Contents(o \o d) PROVE x \in Contents(o) \cup Contents(d)
  <2>1. PICK k \in 1..(Len(o) + Len(d)) : x = (o \o d)[k]
    BY <1>1 DEF Contents
  <2>2. CASE k \in 1..Len(o)
    BY <1>1, <2>1, <2>2 DEF Contents
  <2>3. CASE k \notin 1..Len(o)
    <3>1. k - Len(o) \in 1..Len(d) /\ Len(o) + (k - Len(o)) = k
      BY <1>1, <2>1, <2>3
    <3>2. x = d[k - Len(o)]
      BY <1>1, <2>1, <3>1
    <3>3. QED
      BY <1>1, <3>1, <3>2 DEF Contents
  <2>4. QED
    BY <2>2, <2>3
<1>3. ASSUME NEW x \in Contents(o) PROVE x \in Contents(o \o d)
  <2>1. PICK k \in 1..Len(o) : x = o[k]
    BY <1>1, <1>3 DEF Contents
  <2>2. k \in 1..(Len(o) + Len(d)) /\ x = (o \o d)[k]
    BY <1>1, <2>1
  <2>3. QED
    BY <1>1, <2>2 DEF Contents
<1>4. ASSUME NEW x \in Contents(d) PROVE x \in Contents(o \o d)
  <2>1. PICK k \in 1..Len(d) : x = d[k]
    BY <1>1, <1>4 DEF Contents
  <2>2. Len(o) + k \in 1..(Len(o) + Len(d)) /\ x = (o \o d)[Len(o) + k]
    BY <1>1, <2>1
  <2>3. QED
    BY <1>1, <2>2 DEF Contents
<1>5. QED
  BY <1>1, <1>2, <1>3, <1>4

LEMMA LineAppends ==
  ASSUME NEW o \in Seq(Entry), NEW d \in Seq(Entry), NEW x \in Entry
  PROVE  o \o Append(d, x) = Append(o \o d, x)
OBVIOUS

LEMMA LineHead ==
  ASSUME NEW o \in Seq(Entry), NEW d \in Seq(Entry), o # <<>>
  PROVE  /\ o \o d # <<>> /\ Head(o \o d) = Head(o)
         /\ Tail(o \o d) = Tail(o) \o d
OBVIOUS

LEMMA LineEmpty ==
  ASSUME NEW d \in Seq(Entry)
  PROVE  <<>> \o d = d /\ d \o <<>> = d
OBVIOUS

(* The queue's first entry taken out of the line.                           *)
LEMMA LineWithout ==
  ASSUME NEW o \in Seq(Entry), NEW d \in Seq(Entry), d # <<>>
  PROVE  \E k \in DOMAIN (o \o d) :
           /\ (o \o d)[k] = Head(d)
           /\ SubSeq(o \o d, 1, k - 1) \o SubSeq(o \o d, k + 1, Len(o \o d)) = o \o Tail(d)
<1> DEFINE k == Len(o) + 1
           s == o \o d
<1>1. /\ Len(o) \in Nat /\ Len(d) \in Nat /\ Len(d) > 0 /\ s \in Seq(Entry)
      /\ Len(s) = Len(o) + Len(d) /\ DOMAIN s = 1..Len(s)
  OBVIOUS
<1>2. k \in 1..Len(s) /\ s[k] = Head(d)
  BY <1>1
<1>3. SubSeq(s, 1, k - 1) = o
  BY <1>1
<1>4. SubSeq(s, k + 1, Len(s)) = Tail(d)
  BY <1>1
<1>5. QED
  BY <1>1, <1>2, <1>3, <1>4

-----------------------------------------------------------------------------
(* Only ~Logger() stops the queue, and a flush() in progress alone owes.    *)
StoppedByOwner == stopped => pc[Owner] # "idle"

InFlush(t) == pc[t] \in {"flush", "decided", "asleep", "sinks"}

OwedInFlush == \A t \in Clients : owed[t] # {} => InFlush(t)

LEMMA OwnerMoves ==
  ASSUME Held, [Next]_vars, ~Destroy, ~Join, ~SinksDone(Owner)
  PROVE  pc'[Owner] = pc[Owner]
<1> USE Roles
<1>1. pc[Owner] # "asleep"
  BY DEF Held, Base, Control, PcControl, PcOf
<1>2. ASSUME Undisturbed(Owner) PROVE pc'[Owner] = pc[Owner]
  BY <1>1, <1>2 DEF Undisturbed
<1>3. ASSUME OwnerInStop \/ FlushSink(Owner) \/ UNCHANGED vars
             \/ \E t \in Actors : QueueSpuriousWake(t)
      PROVE  pc'[Owner] = pc[Owner]
  BY <1>3 DEF OwnerInStop, FlushSink, QueueSpuriousWake, vars
<1>4. QED
  BY <1>2, <1>3, ClientsSpareOthers, WorkerSparesOthers, StepCases DEF OwnerLocal

LEMMA OnlyDestroyStops ==
  ASSUME [Next]_vars, ~Destroy
  PROVE  stopped' = stopped
<1>1. ASSUME NEW t \in Clients, ClientInQueue(t) PROVE stopped' = stopped
  BY <1>1 DEF ClientInQueue, LogPush, LogResume, LogNotify, Q!Push, Q!PushResume,
              Q!PushNotify, Q!Enqueue, Q!Refuse, Q!Block
<1>2. ASSUME WorkerInQueue \/ OwnerInStop \/ UNCHANGED vars
             \/ \E t \in Actors : QueueSpuriousWake(t)
      PROVE  stopped' = stopped
  BY <1>2
  DEF WorkerInQueue, WorkerDrain, WorkerInDrain, WorkerCount, Q!Drain,
      Q!DrainNotify, Q!Consume, OwnerInStop, Q!StopNotify,
      QueueSpuriousWake, Q!SpuriousWake, vars, qvars
<1>3. QED
  BY <1>1, <1>2, StepCases, LocalKeepsQueue DEF qvars

LEMMA StoppedByOwnerStep ==
  ASSUME Held, StoppedByOwner, [Next]_vars
  PROVE  StoppedByOwner'
<1> USE Roles DEF Goto, Runs, At
<1>1. pc \in [Actors -> Phases]
  BY DEF Held, Base, Control, PcControl
<1>2. CASE Destroy \/ Join \/ SinksDone(Owner)
  <2>1. pc'[Owner] # "idle"
    BY <1>1, <1>2 DEF Destroy, Join, SinksDone
  <2>2. QED
    BY <2>1 DEF StoppedByOwner
<1>3. CASE ~Destroy /\ ~Join /\ ~SinksDone(Owner)
  BY <1>3, OwnerMoves, OnlyDestroyStops DEF StoppedByOwner
<1>4. QED
  BY <1>2, <1>3

LEMMA OwedInFlushStep ==
  ASSUME Held, OwedInFlush, [Next]_vars
  PROVE  OwedInFlush'
<1> USE Roles DEF Goto, Runs, At
<1>1. pc \in [Actors -> Phases]
  BY DEF Held, Base, Control, PcControl
<1> SUFFICES ASSUME NEW t \in Clients, owed'[t] # {} PROVE InFlush(t)'
  BY DEF OwedInFlush
<1>2. CASE Flush(t)
  BY <1>1, <1>2 DEF Flush, InFlush
<1>3. ASSUME ~Flush(t), ~SinksDone(t) PROVE InFlush(t)'
  <2>1. InFlush(t)
    BY <1>3, OwedStays DEF OwedInFlush
  <2>2. ASSUME Undisturbed(t) PROVE InFlush(t)'
    BY <2>1, <2>2 DEF Undisturbed, InFlush
  <2>3. ASSUME ClientInQueue(t) \/ ClientLocal(t) PROVE InFlush(t)'
    BY <1>1, <1>3, <2>1, <2>3
    DEF InFlush, ClientInQueue, LogPush, LogResume, LogNotify, ClientLocal, Log,
        LogReturn, LogAnnounce, SyncReturn, FlushStep, FlushCheck, FlushSleep,
        FlushSink, SinkStep, WriteSink, FlushSpuriousWake
  <2>4. QED
    BY <2>2, <2>3, ClientsSpareOthers, WorkerSparesOthers, OwnerSparesOthers, StepCases
<1>4. ASSUME SinksDone(t) PROVE FALSE
  BY <1>4 DEF SinksDone
<1>5. QED
  BY <1>2, <1>3, <1>4

LEMMA SeenInvHolds == SafetySpec => [](StoppedByOwner /\ OwedInFlush)
<1>1. Init => StoppedByOwner /\ OwedInFlush
  BY Roles DEF Init, Q!Init, StoppedByOwner, OwedInFlush
<1>2. Held /\ StoppedByOwner /\ OwedInFlush /\ [Next]_vars
        => (StoppedByOwner /\ OwedInFlush)'
  BY StoppedByOwnerStep, OwedInFlushStep
<1>3. QED
  BY <1>1, <1>2, HeldHolds, PTL DEF SafetySpec

-----------------------------------------------------------------------------
(* Each step of the Logger is one of LogService's or changes nothing seen.  *)
LEMMA PushIsSeen ==
  ASSUME Held, AllProgress, Places, StoppedByOwner,
         NEW t \in Clients, LogPush(t) \/ LogResume(t)
  PROVE  Service!Accept(t) \/ Service!Replace(t) \/ Service!Refuse(t) \/ UNCHANGED Seen
<1> USE Roles DEF Goto, Runs, At
<1> DEFINE x == Current(t)
<1>1. /\ pc \in [Actors -> Phases]
      /\ data \in Seq(Entry) /\ out[Worker] \in Seq(Entry)
      /\ \A i \in Sinks : Contents(written[i]) \subseteq Entry
      /\ held[t] # <<>> <=> qpc[t] \in {"not_full", "re_not_full"}
  BY EntriesTypes DEF Held, Base, Control, PcControl, Q!TypeOK
<1>2. /\ UNCHANGED <<calls, written, flushed, owed, out>>
      /\ pc[t] = "push" \/ (pc[t] = "pushed" /\ held[t] # <<>>)
      /\ \A u \in Actors : pc'[u] = pc[u] \/ (u = t /\ pc'[u] = "pushed")
  BY <1>1
  DEF LogPush, LogResume, RecordPush, Q!Push, Q!PushResume, Q!Enqueue, Q!Refuse, Q!Block
<1>3. Calling' = Calling /\ Phase' = Phase /\ t \in Calling
  BY <1>2 DEF Calling, Phase, InLog
<1>4. Async /\ Service!Last(t) = x /\ x \in Entry /\ HeldByCaller(x) /\ x[1] = t
  <2>1. Async
    BY <1>2 DEF Held, Base, Control, SyncControl
  <2>2. Service!Last(t) = x /\ x[1] = t
    BY DEF Service!Last, Current
  <2>3. x \in Entry
    BY <1>2, CurrentIsEntry DEF InLog, Held, Base, Control
  <2>4. QED
    BY <1>2, <2>1, <2>2, <2>3 DEF HeldByCaller
<1>5. x \notin Passed /\ \A i \in Sinks : x \notin Contents(written[i])
  <2>1. ~Left(x)
    BY <1>4 DEF Left
  <2>2. \A i \in Sinks : ~WrittenBy(i, x)
    BY <1>2, <1>4, <2>1 DEF WrittenBy
  <2>3. QED
    BY <2>1, <2>2 DEF Places, PassedLeft, WrittenLeft
<1>6. Contents(Line) = Contents(out[Worker]) \cup Contents(data)
  BY <1>1, LineContents DEF Line
<1>7. Service!Fresh(x)
  BY <1>5, <1>6, RangeIsContents DEF Service!Fresh, Passed, Line
<1>8. dropped' # dropped => Service!MayLose
  <2>1. dropped' # dropped => OverflowPolicy # "BLOCK" \/ stopped
    BY BlockLosesNothing DEF Held
  <2>2. stopped => Phase # "open"
    BY DEF StoppedByOwner, Phase
  <2>3. QED
    BY <1>4, <2>1, <2>2 DEF Service!MayLose, Phase
<1>9. PushEffect(t)
  BY PushHasEffect
<1> HIDE DEF x
<1>10. CASE data' = Append(data, x) /\ dropped' = dropped
  <2>1. Line' = Append(Line, x)
    BY <1>1, <1>2, <1>4, <1>10, LineAppends DEF Line
  <2>2. Service!Accept(t)
    BY <1>2, <1>3, <1>4, <1>7, <1>10, <2>1 DEF Service!Accept, Calling, Line, Phase
  <2>3. QED
    BY <2>2
<1>11. CASE data # <<>> /\ data' = Append(Tail(data), x) /\ dropped' = dropped \cup {Head(data)}
  <2>1. /\ Tail(data) \in Seq(Entry) /\ Head(data) \in Entry /\ Head(data) \in Contents(data)
    BY <1>1, <1>11, HeadContents
  <2>2. Head(data) \notin dropped /\ \A i \in Sinks : Head(data) \notin Contents(written[i])
    BY <2>1, PrecedeExcludes DEF Places, InOrder, DroppedOnly
  <2>3. Service!MayLose
    BY <1>8, <1>11, <2>2
  <2>4. PICK k \in DOMAIN Line :
          /\ Line[k] = Head(data)
          /\ SubSeq(Line, 1, k - 1) \o SubSeq(Line, k + 1, Len(Line)) = out[Worker] \o Tail(data)
    BY <1>1, <1>11, LineWithout DEF Line
  <2>5. Line' = Append(out[Worker] \o Tail(data), x)
    BY <1>1, <1>2, <1>4, <1>11, <2>1, LineAppends DEF Line
  <2>6. /\ \A i \in Sinks : Line[k] \notin Contents(written[i])
        /\ Line' = Append(SubSeq(Line, 1, k - 1) \o SubSeq(Line, k + 1, Len(Line)), x)
        /\ dropped' = dropped \cup {Line[k]}
    BY <1>11, <2>2, <2>4, <2>5
  <2>7. Service!Replace(t)
    BY <1>2, <1>3, <1>4, <1>7, <2>3, <2>6, RangeIsContents
    DEF Service!Replace, Calling, Line, Phase
  <2>8. QED
    BY <2>7
<1>12. CASE data' = data /\ dropped' = dropped \cup {x}
  <2>1. Service!MayLose
    BY <1>5, <1>8, <1>12 DEF Passed
  <2>2. Line' = Line
    BY <1>2, <1>12 DEF Line
  <2>3. Service!Refuse(t)
    BY <1>2, <1>3, <1>4, <1>7, <1>12, <2>1, <2>2 DEF Service!Refuse, Calling, Line, Phase
  <2>4. QED
    BY <2>3
<1>13. CASE data' = data /\ dropped' = dropped
  BY <1>2, <1>3, <1>13 DEF Seen, Line
<1>14. QED
  BY <1>9, <1>10, <1>11, <1>12, <1>13 DEF PushEffect, x

LEMMA CallIsSeen ==
  ASSUME Held, NEW t \in Clients, Log(t)
  PROVE  Service!Call(t)
<1> USE Roles DEF Goto, Runs, At
<1>1. /\ pc \in [Actors -> Phases] /\ pc[t] = "idle" /\ pc[Owner] = "idle"
      /\ calls' = [calls EXCEPT ![t] = @ + 1]
      /\ UNCHANGED <<data, out, dropped, written, flushed, owed>>
      /\ \A u \in Actors : IF u = t THEN pc'[u] \in {"push", "dispatch"} ELSE pc'[u] = pc[u]
  BY DEF Held, Base, Control, PcControl, Log, qvars, hist
<1>2. t \notin Calling /\ Calling' = Calling \cup {t}
  BY <1>1 DEF Calling, InLog
<1>3. Phase = "open" /\ Phase' = Phase /\ Line' = Line
  BY <1>1 DEF Phase, Line
<1>4. QED
  BY <1>1, <1>2, <1>3 DEF Service!Call, Calling, Line, Phase

LEMMA ReturnIsSeen ==
  ASSUME Held, AllProgress, NothingLost, NEW t \in Clients,
         LogReturn(t) \/ LogAnnounce(t) \/ SyncReturn(t)
  PROVE  Service!Return(t) \/ UNCHANGED Seen
<1> USE Roles DEF Goto, Runs, At
<1> DEFINE x == Current(t)
<1>1. /\ pc \in [Actors -> Phases]
      /\ data \in Seq(Entry) /\ out[Worker] \in Seq(Entry)
      /\ held[t] # <<>> <=> qpc[t] \in {"not_full", "re_not_full"}
      /\ calls \in [Clients -> 0..MaxLogs]
  BY EntriesTypes DEF Held, Base, Control, PcControl, CallControl, Q!TypeOK
<1>2. /\ UNCHANGED <<calls, data, out, dropped, written, flushed, owed>>
      /\ pc[t] \in {"pushed", "announce", "dispatch"}
      /\ pc'[t] \in {"announce", "idle"}
      /\ \A u \in Actors \ {t} : pc'[u] = pc[u] \/ (pc[u] = "asleep" /\ pc'[u] = "flush")
  BY <1>1
  DEF LogReturn, CountDown, LogAnnounce, WakeFlushers, SyncReturn, qvars, hist
<1>3. pc[Owner] # "asleep"
  BY DEF Held, Base, Control, PcControl, PcOf
<1>4. Phase' = Phase /\ Line' = Line
  BY <1>2, <1>3 DEF Phase, Line
<1>5. Service!Last(t) = x /\ x \in Entry /\ x[2] <= calls[x[1]] /\ t \in Calling
  <2>1. x \in Entry /\ t \in Calling
    BY <1>2, CurrentIsEntry DEF InLog, Calling, Held, Base, Control
  <2>2. calls[t] \in Nat
    BY <1>1, LoggerAssumption
  <2>3. QED
    BY <2>1, <2>2 DEF Service!Last, Current
<1>6. CASE pc'[t] = "announce"
  <2>1. Calling' = Calling
    BY <1>2, <1>6 DEF Calling, InLog
  <2>2. QED
    BY <1>2, <1>4, <2>1 DEF Seen
<1>7. CASE pc'[t] = "idle"
  <2>1. Calling' = Calling \ {t}
    BY <1>2, <1>7 DEF Calling, InLog
  <2>2. (Async /\ x \in Contents(Line) \cup dropped) \/ InSinks(x)
    <3>1. CASE SyncReturn(t)
      BY <3>1 DEF SyncReturn, Barrier, AllProgress, Progress, Dispatchers, Handling, InSinks
    <3>2. CASE LogReturn(t) \/ LogAnnounce(t)
      <4>1. Async /\ ~HeldByCaller(x)
        BY <1>1, <3>2
        DEF LogReturn, LogAnnounce, HeldByCaller, Current, Held, Base, Control, SyncControl
      <4>2. Contents(Line) = Contents(out[Worker]) \cup Contents(data)
        BY <1>1, LineContents DEF Line
      <4>3. QED
        BY <1>5, <4>1, <4>2 DEF NothingLost, Accounted
    <3>3. QED
      BY <3>1, <3>2
  <2> HIDE DEF x
  <2>3. Service!Return(t)
    BY <1>2, <1>4, <1>5, <2>1, <2>2, RangeIsContents
    DEF Service!Return, Service!Everywhere, InSinks, Calling, Line, Phase
  <2>4. QED
    BY <2>3
<1>8. QED
  BY <1>2, <1>6, <1>7

LEMMA ReturnedIsSeen ==
  ASSUME Held
  PROVE  Returned = Service!Returned
<1>1. calls \in [Clients -> 0..MaxLogs] /\ MaxLogs \in Nat
  BY LoggerAssumption DEF Held, Base, Control, CallControl
<1> DEFINE n(c) == calls[c] - IF InLog(c) THEN 1 ELSE 0
<1>2. \A c \in Clients : n(c) \in Int /\ n(c) <= MaxLogs
  BY <1>1
<1>3. \A c \in Clients :
        (calls[c] - IF c \in {t \in Clients : InLog(t)} THEN 1 ELSE 0) = n(c)
  OBVIOUS
<1>4. Service!Returned = UNION {{c} \X (1..n(c)) : c \in Clients}
  BY <1>3 DEF Service!Returned
<1>5. Returned = {e \in Entry : e[2] <= n(e[1])}
  BY DEF Returned
<1> HIDE DEF n
<1>6. ASSUME NEW e \in Entry, e[2] <= n(e[1])
      PROVE  e \in UNION {{c} \X (1..n(c)) : c \in Clients}
  <2>1. PICK c \in Clients, k \in 1..MaxLogs : e = <<c, k>>
    BY DEF Entry
  <2>2. k \in 1..n(c)
    BY <1>2, <1>6, <2>1
  <2>3. QED
    BY <2>1, <2>2
<1>7. ASSUME NEW c \in Clients, NEW e \in {c} \X (1..n(c))
      PROVE  e \in Entry /\ e[2] <= n(e[1])
  <2>1. PICK k \in 1..n(c) : e = <<c, k>>
    OBVIOUS
  <2>2. k \in 1..MaxLogs /\ k <= n(c)
    BY <1>1, <1>2, <2>1
  <2>3. QED
    BY <2>1, <2>2 DEF Entry
<1>8. QED
  BY <1>4, <1>5, <1>6, <1>7

LEMMA FlushIsSeen ==
  ASSUME Held, OwedInFlush, NEW t \in Clients, Flush(t)
  PROVE  Service!Flush(t)
<1> USE Roles DEF Goto, Runs, At
<1>1. /\ pc \in [Actors -> Phases] /\ pc[t] = "idle" /\ pc[Owner] = "idle"
      /\ owed' = [owed EXCEPT ![t] = Returned]
      /\ UNCHANGED <<calls, data, out, dropped, written, flushed>>
      /\ \A u \in Actors : IF u = t THEN pc'[u] \in {"flush", "sinks"} ELSE pc'[u] = pc[u]
  BY DEF Held, Base, Control, PcControl, Flush, qvars
<1>2. t \notin Calling /\ Calling' = Calling
  BY <1>1 DEF Calling, InLog
<1>3. Phase = "open" /\ Phase' = Phase /\ Line' = Line
  BY <1>1 DEF Phase, Line
<1>4. owed[t] = {}
  BY <1>1 DEF OwedInFlush, InFlush
<1>5. QED
  BY <1>1, <1>2, <1>3, <1>4, ReturnedIsSeen DEF Service!Flush, Calling, Line, Phase

(* The sinks get the front of the line from the worker, and the entry of a  *)
(* synchronous call from its caller.                                        *)
LEMMA WriteIsSeen ==
  ASSUME Held, AllProgress, Places, NEW t \in Dispatchers, NEW i \in Sinks, WriteSink(t, i)
  PROVE  IF t = Worker THEN Service!Show(i) ELSE Service!ShowOwn(t, i)
<1> USE Roles DEF Runs, At
<1>1. /\ data \in Seq(Entry) /\ out[Worker] \in Seq(Entry)
      /\ \A j \in Sinks : Contents(written[j]) \subseteq Entry
  BY EntriesTypes
<1>2. /\ pc[t] = "dispatch" /\ i \in todo[t]
      /\ written' = [written EXCEPT ![i] = Append(@, Handling(t))]
      /\ UNCHANGED <<calls, pc, data, out, dropped, flushed, owed>>
  BY DEF WriteSink, qvars, hist
<1>3. Calling' = Calling /\ Phase' = Phase /\ Line' = Line
  BY <1>2 DEF Calling, InLog, Phase, Line
<1>4. CASE t = Worker
  <2>1. out[Worker] # <<>>
    BY <1>2, <1>4 DEF Held, Base, Control, WorkerControl
  <2>2. Line # <<>> /\ Head(Line) = Head(out[Worker])
    BY <1>1, <2>1, LineHead DEF Line
  <2>3. Head(Line) \in Entry /\ Head(Line) \in Batch(i)
    BY <1>1, <1>2, <1>4, <2>1, <2>2, HeadContents DEF Batch
  <2>4. Head(Line) \notin Contents(written[i])
    BY <2>3, PrecedeExcludes DEF Places, InOrder
  <2>5. written' = [written EXCEPT ![i] = Append(@, Head(Line))]
    BY <1>2, <1>4, <2>2 DEF Handling
  <2>6. Service!Show(i)
    BY <1>2, <1>3, <2>2, <2>4, <2>5, RangeIsContents DEF Service!Show, Calling, Line, Phase
  <2>7. QED
    BY <1>4, <2>6
<1>5. CASE t # Worker
  <2> DEFINE x == Current(t)
  <2>1. t \in Clients /\ t \in Calling /\ ~Async
    BY <1>2, <1>5 DEF Dispatchers, Calling, InLog, AllProgress, Progress
  <2>2. x = Service!Last(t) /\ x = Handling(t) /\ x[1] = t
    BY <1>5 DEF Service!Last, Current, Handling
  <2>3. HeldByCaller(x)
    BY <1>2, <2>2 DEF HeldByCaller
  <2>4. ~WrittenBy(i, x)
    BY <1>2, <2>2, <2>3 DEF WrittenBy, Left
  <2>5. x \notin Contents(written[i])
    BY <2>4 DEF Places, WrittenLeft
  <2>6. Service!ShowOwn(t, i)
    BY <1>2, <1>3, <2>1, <2>2, <2>5, RangeIsContents
    DEF Service!ShowOwn, Calling, Line, Phase
  <2>7. QED
    BY <1>5, <2>6
<1>6. QED
  BY <1>4, <1>5

(* The worker is done with an entry when every sink has it.                 *)
LEMMA CountIsSeen ==
  ASSUME Held, AllProgress, WorkerCount
  PROVE  Service!Done
<1> USE Roles DEF Goto, Runs, At
<1>1. /\ pc \in [Actors -> Phases] /\ out \in [{Worker} -> Seq(Entry)]
      /\ data \in Seq(Entry) /\ out[Worker] \in Seq(Entry)
  BY EntriesTypes DEF Held, Base, Control, PcControl, Q!TypeOK
<1>2. /\ out[Worker] # <<>> /\ out'[Worker] = Tail(out[Worker])
      /\ UNCHANGED <<calls, data, dropped, written, flushed, owed>>
      /\ \A u \in Actors \ {Worker} : pc'[u] = pc[u]
      /\ pc[Worker] = "dispatch" /\ todo[Worker] = {}
  BY <1>1 DEF WorkerCount, Q!Consume, CountDown, Barrier, hist
<1>3. Calling' = Calling /\ Phase' = Phase
  BY <1>2 DEF Calling, InLog, Phase
<1>4. /\ Line # <<>> /\ Head(Line) = Head(out[Worker])
      /\ Line' = Tail(Line)
  BY <1>1, <1>2, LineHead DEF Line
<1>5. InSinks(Head(Line))
  BY <1>2, <1>4 DEF AllProgress, Progress, Dispatchers, Handling, InSinks
<1>6. QED
  BY <1>2, <1>3, <1>4, <1>5, RangeIsContents
  DEF Service!Done, Service!Everywhere, InSinks, Calling, Line, Phase

LEMMA SaveIsSeen ==
  ASSUME Held, NEW t \in Actors, FlushSink(t)
  PROVE  \E i \in Sinks : Service!Save(i)
<1> USE DEF Runs, At
<1>1. PICK i \in todo[t] : flushed' = [flushed EXCEPT ![i] = Len(written[i])]
  BY DEF FlushSink
<1>2. i \in Sinks
  BY DEF Held, SinkTypes
<1>3. UNCHANGED <<calls, pc, data, out, dropped, written, owed>>
  BY DEF FlushSink, qvars, hist
<1>4. Calling' = Calling /\ Phase' = Phase /\ Line' = Line
  BY <1>3 DEF Calling, InLog, Phase, Line
<1>5. Service!Save(i)
  BY <1>1, <1>2, <1>3, <1>4 DEF Service!Save, Calling, Line, Phase
<1>6. QED
  BY <1>2, <1>5

LEMMA FlushReturnIsSeen ==
  ASSUME Held, FlushInv, NEW t \in Clients, SinksDone(t)
  PROVE  Service!FlushReturn(t)
<1> USE Roles DEF Goto, Runs, At
<1>1. /\ pc \in [Actors -> Phases] /\ owed \in [Clients -> SUBSET Entry]
      /\ pc[t] = "sinks" /\ todo[t] = {}
      /\ owed' = [u \in Clients |-> IF u = t THEN {} ELSE owed[u]]
      /\ UNCHANGED <<calls, data, out, dropped, written, flushed>>
      /\ \A u \in Actors : IF u = t THEN pc'[u] = "idle" ELSE pc'[u] = pc[u]
  BY DEF Held, Base, Control, PcControl, HistoryTypes, SinksDone, qvars
<1>2. Calling' = Calling /\ Phase' = Phase /\ Line' = Line
  BY <1>1 DEF Calling, InLog, Phase, Line
<1>3. owed' = [owed EXCEPT ![t] = {}]
  BY <1>1
<1>4. ASSUME NEW e \in owed[t] PROVE Service!Safe(e)
  <2>1. Covers(t, e)
    BY <1>1 DEF FlushInv, FlushCovers
  <2>2. QED
    BY <1>1, <2>1 DEF Covers, Durable, Service!Safe
<1>5. QED
  BY <1>1, <1>2, <1>3, <1>4 DEF Service!FlushReturn, Calling, Line, Phase

LEMMA DestroyIsSeen ==
  ASSUME Held, OwedInFlush, Destroy
  PROVE  Service!Close
<1> USE Roles DEF Goto, Runs, At
<1>1. /\ pc \in [Actors -> Phases] /\ pc[Owner] = "idle"
      /\ OwnerWaits => \A t \in Clients : pc[t] = "idle"
      /\ pc'[Owner] \in {"stopping", "sinks"}
      /\ \A u \in Actors \ {Owner} : pc'[u] = pc[u]
      /\ UNCHANGED <<calls, dropped, written, flushed, owed>>
  BY DEF Held, Base, Control, PcControl, Destroy, hist
<1>2. data' = data /\ out' = out
  BY OwnerKeepsQueue
<1>3. /\ Calling' = Calling /\ Line' = Line
      /\ Phase = "open" /\ Phase' = "closing"
  BY <1>1, <1>2 DEF Calling, InLog, Phase, Line
<1>4. OwnerWaits => Calling = {} /\ \A t \in Clients : owed[t] = {}
  BY <1>1 DEF OwedInFlush, InFlush, Calling, InLog
<1>5. QED
  BY <1>1, <1>3, <1>4 DEF Service!Close, Calling, Line, Phase

LEMMA DestroyedIsSeen ==
  ASSUME Held, SinksDone(Owner), OwnerWaits => ShutdownDelivers'
  PROVE  Service!Closed
<1> USE Roles DEF Goto, Runs, At
<1>1. /\ pc \in [Actors -> Phases] /\ owed \in [Clients -> SUBSET Entry]
      /\ calls \in [Clients -> 0..MaxLogs] /\ MaxLogs \in Nat
      /\ pc[Owner] = "sinks" /\ pc'[Owner] = "destroyed"
      /\ owed' = [u \in Clients |-> IF u = Owner THEN {} ELSE owed[u]]
      /\ UNCHANGED <<calls, data, out, dropped, written, flushed>>
      /\ \A u \in Actors \ {Owner} : pc'[u] = pc[u]
  BY LoggerAssumption
  DEF Held, Base, Control, PcControl, CallControl, HistoryTypes, SinksDone, qvars
<1>2. owed' = owed
  BY <1>1
<1>3. /\ Calling' = Calling /\ Line' = Line
      /\ Phase = "closing" /\ Phase' = "closed"
  BY <1>1 DEF Calling, InLog, Phase, Line
<1>4. ASSUME OwnerWaits, NEW c \in Clients, NEW n \in 1..calls[c]
      PROVE  Service!Safe(<<c, n>>)
  <2>1. <<c, n>> \in Entry
    BY <1>1 DEF Entry
  <2>2. <<c, n>> \in dropped' \/ \A i \in Sinks : <<c, n>> \in Durable(i)'
    BY <1>1, <1>4, <2>1 DEF ShutdownDelivers
  <2>3. QED
    BY <1>1, <2>2 DEF Durable, Service!Safe
<1>5. QED
  BY <1>1, <1>2, <1>3, <1>4 DEF Service!Closed, Calling, Line, Phase

(* What is left concerns the threads and the queue only.                    *)
LEMMA ClientRestIsUnseen ==
  ASSUME Held, NEW t \in Clients,
         LogNotify(t) \/ FlushCheck(t) \/ FlushSleep(t) \/ FlushSpuriousWake(t)
  PROVE  UNCHANGED Seen
<1> USE Roles DEF Goto, Runs, At
<1>1. /\ pc \in [Actors -> Phases]
      /\ UNCHANGED <<calls, data, out, dropped, written, flushed, owed>>
      /\ \A u \in Actors : pc'[u] = pc[u] \/ (InFlush(u) /\ InFlush(u)')
  BY DEF Held, Base, Control, PcControl, LogNotify, Q!PushNotify, FlushCheck, FlushSleep,
         FlushSpuriousWake, InFlush, qvars, hist
<1>2. ~InFlush(Owner) \/ pc[Owner] = "sinks"
  BY DEF Held, Base, Control, PcControl, PcOf, InFlush
<1>3. pc'[Owner] = pc[Owner]
  BY ClientsSpareOthers, <1>2
  DEF ClientInQueue, ClientLocal, FlushStep, Undisturbed, InFlush
<1>4. QED
  BY <1>1, <1>3 DEF Seen, Calling, InLog, InFlush, Line, Phase

LEMMA WorkerRestIsUnseen ==
  ASSUME Held,
         \/ WorkerDrain \/ WorkerInDrain
         \/ WorkerDrained \/ WorkerFinal \/ WorkerAnnounce
  PROVE  UNCHANGED Seen
<1> USE Roles DEF Goto, Runs, At
<1>1. /\ out \in [{Worker} -> Seq(Entry)] /\ data \in Seq(Entry)
      /\ pc \in [Actors -> Phases] /\ WorkerControl /\ pc[Owner] # "asleep"
  BY DEF Held, Base, Control, PcControl, PcOf, Q!TypeOK
<1>2. /\ UNCHANGED <<calls, dropped, written, flushed, owed>>
      /\ \A u \in Actors \ {Worker} : pc'[u] = pc[u] \/ (pc[u] = "asleep" /\ pc'[u] = "flush")
  BY <1>1
  DEF WorkerDrain, WorkerInDrain, WorkerDrained, WorkerFinal, WorkerAnnounce, WakeFlushers,
      hist
<1>3. \/ data' = data /\ out' = out
      \/ out[Worker] = <<>> /\ data' = out[Worker] /\ out'[Worker] = data
  BY <1>1
  DEF WorkerDrain, WorkerInDrain, WorkerDrained, WorkerFinal, WorkerAnnounce, WakeFlushers,
      WorkerControl, Q!Drain, Q!DrainNotify, qvars
<1>4. Line' = Line
  BY <1>1, <1>3, LineEmpty DEF Line
<1>5. Calling' = Calling /\ Phase' = Phase
  BY <1>1, <1>2 DEF Calling, InLog, Phase
<1>6. QED
  BY <1>2, <1>4, <1>5 DEF Seen

LEMMA OwnerRestIsUnseen ==
  ASSUME Held,
         \/ OwnerInStop \/ Join \/ UNCHANGED vars
         \/ \E t \in Actors : QueueSpuriousWake(t)
  PROVE  UNCHANGED Seen
<1> USE Roles DEF Goto, Runs, At
<1>1. data' = data /\ out' = out
  BY OwnerKeepsQueue DEF OwnerLocal
<1>2. /\ pc \in [Actors -> Phases]
      /\ UNCHANGED <<calls, dropped, written, flushed, owed>>
      /\ \/ pc' = pc
         \/ pc' = [pc EXCEPT ![Owner] = "sinks"] /\ pc[Owner] = "stopping"
  BY DEF Held, Base, Control, PcControl, OwnerInStop, Join, QueueSpuriousWake, vars, hist
<1>3. Calling' = Calling /\ Phase' = Phase
  BY <1>2 DEF Calling, InLog, Phase
<1>4. QED
  BY <1>1, <1>2, <1>3 DEF Seen, Line

-----------------------------------------------------------------------------
SeenInv ==
  /\ Held /\ AllProgress /\ NothingLost /\ FlushInv /\ Places
  /\ StoppedByOwner /\ OwedInFlush

LEMMA StepIsSeen ==
  ASSUME SeenInv, OwnerWaits => ShutdownDelivers', [Next]_vars
  PROVE  [Service!Next]_(Service!vars)
<1> USE Roles DEF SeenInv
<1>1. ASSUME Phase # "closed",
             \/ \E t \in Clients :
                  \/ Service!Call(t) \/ Service!Accept(t) \/ Service!Replace(t)
                  \/ Service!Refuse(t) \/ Service!Return(t)
                  \/ Service!Flush(t) \/ Service!FlushReturn(t)
                  \/ \E i \in Sinks : Service!ShowOwn(t, i)
             \/ \E i \in Sinks : Service!Show(i) \/ Service!Save(i)
             \/ Service!Done \/ Service!Close \/ Service!Closed
      PROVE  Service!Next
  BY <1>1 DEF Service!Next, Phase
<1>2. UNCHANGED Seen => UNCHANGED Service!vars
  BY SeenIsService
<1>3. ASSUME NEW t \in Clients, ClientInQueue(t) \/ ClientLocal(t)
      PROVE  Service!Next \/ UNCHANGED Seen
  <2>1. CASE LogNotify(t) \/ FlushCheck(t) \/ FlushSleep(t) \/ FlushSpuriousWake(t)
    BY <2>1, ClientRestIsUnseen
  <2>2. CASE LogPush(t) \/ LogResume(t)
    <3>1. Phase # "closed"
      BY <2>2 DEF LogPush, LogResume, Runs, Phase, At
    <3>2. QED
      BY <1>1, <2>2, <3>1, PushIsSeen
  <2>3. CASE Log(t) \/ Flush(t)
    <3>1. Phase # "closed"
      BY <2>3 DEF Log, Flush, Runs, Phase, At
    <3>2. QED
      BY <1>1, <2>3, <3>1, CallIsSeen, FlushIsSeen
  <2>4. CASE LogReturn(t) \/ LogAnnounce(t) \/ SyncReturn(t)
    <3>1. Phase # "closed"
      BY <2>4 DEF LogReturn, LogAnnounce, SyncReturn, Runs, Phase, At
    <3>2. QED
      BY <1>1, <2>4, <3>1, ReturnIsSeen
  <2>5. CASE FlushSink(t) \/ SinksDone(t)
    <3>1. Phase # "closed"
      BY <2>5 DEF FlushSink, SinksDone, Runs, Phase, At
    <3>2. QED
      BY <1>1, <2>5, <3>1, SaveIsSeen, FlushReturnIsSeen
  <2>6. ASSUME NEW i \in Sinks, WriteSink(t, i) PROVE Service!Next
    <3>1. Phase # "closed"
      BY <2>6 DEF WriteSink, Runs, Phase, At
    <3>2. Service!ShowOwn(t, i)
      BY <2>6, WriteIsSeen DEF Dispatchers
    <3>3. QED
      BY <1>1, <3>1, <3>2
  <2>7. QED
    BY <1>3, <2>1, <2>2, <2>3, <2>4, <2>5, <2>6
    DEF ClientInQueue, ClientLocal, FlushStep, SinkStep
<1>4. ASSUME WorkerInQueue \/ WorkerLocal
      PROVE  Service!Next \/ UNCHANGED Seen
  <2>1. CASE WorkerCount
    <3>1. Phase # "closed"
      BY <2>1 DEF WorkerCount, Runs, Phase, At
    <3>2. QED
      BY <1>1, <2>1, <3>1, CountIsSeen
  <2>2. ASSUME NEW i \in Sinks, WriteSink(Worker, i) PROVE Service!Next
    <3>1. Phase # "closed"
      BY <2>2 DEF WriteSink, Runs, Phase, At
    <3>2. Service!Show(i)
      BY <2>2, WriteIsSeen DEF Dispatchers
    <3>3. QED
      BY <1>1, <3>1, <3>2
  <2>3. CASE WorkerDrain \/ WorkerInDrain \/ WorkerDrained \/ WorkerFinal \/ WorkerAnnounce
    BY <2>3, WorkerRestIsUnseen
  <2>4. QED
    BY <1>4, <2>1, <2>2, <2>3 DEF WorkerInQueue, WorkerLocal, SinkStep
<1>5. ASSUME Destroy \/ OwnerInStop \/ OwnerLocal \/ UNCHANGED vars
             \/ \E t \in Actors : QueueSpuriousWake(t)
      PROVE  Service!Next \/ UNCHANGED Seen
  <2>1. CASE OwnerInStop \/ Join \/ UNCHANGED vars \/ \E t \in Actors : QueueSpuriousWake(t)
    BY <2>1, OwnerRestIsUnseen
  <2>2. CASE Destroy \/ FlushSink(Owner) \/ SinksDone(Owner)
    <3>1. Phase # "closed"
      BY <2>2 DEF Destroy, FlushSink, SinksDone, Runs, Phase, At
    <3>2. QED
      BY <1>1, <2>2, <3>1, DestroyIsSeen, SaveIsSeen, DestroyedIsSeen
  <2>3. QED
    BY <1>5, <2>1, <2>2 DEF OwnerLocal
<1>6. QED
  BY <1>2, <1>3, <1>4, <1>5, StepCases

LEMMA ShutdownDeliversIfAwaited == SafetySpec => [](OwnerWaits => ShutdownDelivers)
<1>1. CASE OwnerWaits
  <2>1. SafetySpec => []ShutdownDelivers
    BY <1>1, DestructorDelivers
  <2>2. QED
    BY <2>1, PTL
<1>2. CASE ~OwnerWaits
  <2>1. OwnerWaits => ShutdownDelivers
    BY <1>2
  <2>2. QED
    BY <2>1, PTL
<1>3. QED
  BY <1>1, <1>2

(* The Logger implements LogService, for any clients, sinks, capacity and   *)
(* policy: whatever its threads do, a caller sees one line of entries that  *)
(* reaches every sink from the front, loses an entry only before any sink   *)
(* has it, and is flushed and closed as promised.                           *)
THEOREM LoggerKeepsPromise == SafetySpec => KeepsPromise
<1>1. Init => Service!Init
  <2> SUFFICES ASSUME Init PROVE Service!Init
    OBVIOUS
  <2>1. /\ data = <<>> /\ out[Worker] = <<>> /\ dropped = {}
        /\ calls = [t \in Clients |-> 0] /\ owed = [t \in Clients |-> {}]
        /\ written = [i \in Sinks |-> <<>>] /\ flushed = [i \in Sinks |-> 0]
        /\ pc[Owner] = "idle" /\ \A t \in Clients : pc[t] = "idle"
    BY Roles DEF Init, Q!Init
  <2>2. out[Worker] \o data = <<>> /\ {t \in Clients : InLog(t)} = {}
    BY <2>1 DEF InLog
  <2>3. QED
    BY <2>1, <2>2 DEF Service!Init, At
<1>2. SeenInv /\ (OwnerWaits => ShutdownDelivers)' /\ [Next]_vars
        => [Service!Next]_(Service!vars)
  BY StepIsSeen
<1>3. SafetySpec => []SeenInv
  BY NothingIsLost, FlushInvHolds, PlacesHold, SeenInvHolds, PTL DEF SeenInv
<1>4. QED
  BY <1>1, <1>2, <1>3, ShutdownDeliversIfAwaited, PTL
  DEF SafetySpec, KeepsPromise, Service!Spec

=============================================================================
