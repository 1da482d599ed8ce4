--------------------------- MODULE AsyncPoolProofs ---------------------------
(***************************************************************************)
(* What the thread pool guarantees for any clients, threads, queue sizes   *)
(* and overflow policies.                                                  *)
(***************************************************************************)
EXTENDS AsyncPool, FiniteSetTheorems, TLAPS

LEMMA RingSize ==
  ASSUME NEW r, Ring!IsRing(r), r.max > 0
  PROVE  /\ Ring!Size(r) \in Nat /\ Ring!Room(r) \in Nat
         /\ Ring!Size(r) <= Ring!Room(r)
         /\ Len(Ring!Contents(r)) = Ring!Size(r)
         /\ Ring!Empty(r) <=> Ring!Size(r) = 0
         /\ Ring!Full(r) <=> Ring!Size(r) = Ring!Room(r)
<1>1. /\ Ring!Size(r) \in 0 .. r.max - 1
      /\ Ring!Empty(r) <=> Ring!Size(r) = 0
      /\ Ring!Full(r) <=> Ring!Size(r) = Ring!Room(r)
  BY Ring!SizeAndTests
<1>2. Len(Ring!Contents(r)) = Ring!Size(r)
  BY Ring!ContentsIsSeq
<1>3. r.max \in Nat /\ Ring!Room(r) = r.max - 1
  BY DEF Ring!IsRing, Ring!Room
<1> QED BY <1>1, <1>2, <1>3

LEMMA RingPush ==
  ASSUME NEW r, Ring!IsRing(r), r.max > 0, NEW x \in Ring!Slot
  PROVE  /\ Ring!IsRing(Ring!PushBack(r, x))
         /\ Ring!PushBack(r, x).max = r.max
         /\ Ring!Room(Ring!PushBack(r, x)) = Ring!Room(r)
         /\ ~Ring!Full(r) =>
              /\ Ring!PushBack(r, x).overrun = r.overrun
              /\ Ring!Size(Ring!PushBack(r, x)) = Ring!Size(r) + 1
              /\ Ring!Contents(Ring!PushBack(r, x)) = Append(Ring!Contents(r), x)
         /\ Ring!Full(r) =>
              /\ Ring!PushBack(r, x).overrun = r.overrun + 1
              /\ Ring!Size(Ring!PushBack(r, x)) = Ring!Size(r)
              /\ Ring!Contents(Ring!PushBack(r, x)) = Tail(Append(Ring!Contents(r), x))
<1>1. CASE ~Ring!Full(r)
  BY <1>1, Ring!PushAppends DEF Ring!Room
<1>2. CASE Ring!Full(r)
  BY <1>2, Ring!PushOverruns DEF Ring!Room
<1> QED BY <1>1, <1>2

-----------------------------------------------------------------------------
LEMMA MessageKinds ==
  /\ \A m \in Message : m.kind \in {"log", "urgent", "flush", "terminate"}
  /\ \A t \in Callers : Terminate(t) \in Message /\ Terminate(t).kind = "terminate"
  /\ NoMessage \notin Message
BY ConstantsAssumption DEF Message, Terminate

LEMMA TypeInit == Init => TypeOK
<1> SUFFICES ASSUME Init PROVE TypeOK
  OBVIOUS
<1>1. PICK n \in QueueSizes : q = Ring!New(n)
  BY DEF Init
<1>2. n \in Nat
  BY ConstantsAssumption
<1>3. Ring!IsRing(q) /\ q.max > 0 /\ Ring!Contents(q) = <<>>
  BY <1>1, <1>2, Ring!NewIsEmpty
<1> QED
  BY <1>3, ThreadsAssumption, ConstantsAssumption
  DEF Init, TypeOK, Threads, Callers, CallerPhase, WorkerPhase

(* A push leaves a ring of messages. *)
LEMMA PushTypes ==
  ASSUME TypeOK, NEW t \in Callers, pc[t] # "idle", q' = Ring!PushBack(q, call[t])
  PROVE  Ring!IsRing(q') /\ q'.max > 0 /\ Ring!Contents(q') \in Seq(Message)
<1>1. call[t] \in Message /\ call[t] \in Ring!Slot
  BY DEF TypeOK, Ring!Slot
<1>2. Ring!IsRing(q) /\ q.max > 0 /\ Ring!Contents(q) \in Seq(Message)
  BY DEF TypeOK
<1>3. /\ Ring!IsRing(q') /\ q'.max = q.max
      /\ \/ Ring!Contents(q') = Append(Ring!Contents(q), call[t])
         \/ Ring!Contents(q') = Tail(Append(Ring!Contents(q), call[t]))
  BY <1>1, <1>2, RingPush
<1>4. /\ Append(Ring!Contents(q), call[t]) \in Seq(Message)
      /\ Append(Ring!Contents(q), call[t]) # <<>>
  BY <1>1, <1>2
<1>5. Tail(Append(Ring!Contents(q), call[t])) \in Seq(Message)
  BY <1>4
<1> QED BY <1>2, <1>3, <1>4, <1>5

(* So does a take, and what is taken is a message. *)
LEMMA TakeTypes ==
  ASSUME TypeOK, ~Ring!Empty(q), q' = Ring!PopFront(Ring!MoveFront(q))
  PROVE  /\ Ring!IsRing(q') /\ q'.max > 0 /\ Ring!Contents(q') \in Seq(Message)
         /\ Ring!Front(q) \in Message
<1>1. Ring!IsRing(q) /\ q.max > 0 /\ Ring!Contents(q) \in Seq(Message)
  BY DEF TypeOK
<1>2. /\ Ring!IsRing(q') /\ q'.max = q.max
      /\ Ring!Contents(q) # <<>>
      /\ Ring!Front(q) = Head(Ring!Contents(q))
      /\ Ring!Contents(q') = Tail(Ring!Contents(q))
  BY <1>1, Ring!PopTakes
<1>3. /\ Tail(Ring!Contents(q)) \in Seq(Message)
      /\ Head(Ring!Contents(q)) \in Message
  BY <1>1, <1>2
<1> QED BY <1>1, <1>2, <1>3

LEMMA NotifyTypes ==
  ASSUME TypeOK, NEW t \in Threads, NEW where, NEW to,
         where \in {"push_cv", "pop_cv"}, NotifyOne(t, where, to),
         t \in Callers => to \in CallerPhase, t \in Workers => to \in WorkerPhase
  PROVE  /\ pc' \in [Threads -> CallerPhase \cup WorkerPhase]
         /\ pc'[t] \in {to, "woken"} /\ (pc[t] # where => pc'[t] = to)
         /\ \A u \in Threads \ {t} :
              pc'[u] = pc[u] \/ (pc[u] = where /\ pc'[u] = "woken")
<1>1. pc \in [Threads -> CallerPhase \cup WorkerPhase] /\ t \in Callers \cup Workers
  BY DEF TypeOK, Threads
<1>2. to \in CallerPhase \cup WorkerPhase /\ "woken" \in CallerPhase
  BY <1>1 DEF CallerPhase
<1> QED BY <1>1, <1>2 DEF NotifyOne, Goto

(* A step in which at most t moves, to a place of its own. *)
LEMMA GotoTypes ==
  ASSUME TypeOK, NEW t \in Threads, NEW to, Goto(t, to),
         t \in Callers => to \in CallerPhase, t \in Workers => to \in WorkerPhase
  PROVE  /\ pc' \in [Threads -> CallerPhase \cup WorkerPhase]
         /\ \A u \in Callers : pc'[u] \in CallerPhase
         /\ \A w \in Workers : pc'[w] \in WorkerPhase
         /\ pc'[t] = to /\ \A u \in Threads \ {t} : pc'[u] = pc[u]
<1>1. pc \in [Threads -> CallerPhase \cup WorkerPhase] /\ to \in CallerPhase \cup WorkerPhase
  BY DEF TypeOK, Threads
<1>2. /\ pc' \in [Threads -> CallerPhase \cup WorkerPhase]
      /\ pc'[t] = to /\ \A u \in Threads \ {t} : pc'[u] = pc[u]
  BY <1>1 DEF Goto
<1> QED BY <1>2 DEF TypeOK, Threads

(* A worker that is done with its message. *)
LEMMA FinishTypes ==
  ASSUME TypeOK, NEW w \in Workers, Finish(w)
  PROVE  /\ w \in Threads /\ w \notin Callers
         /\ pc' \in [Threads -> CallerPhase \cup WorkerPhase]
         /\ \A u \in Callers : pc'[u] \in CallerPhase
         /\ \A u \in Workers : pc'[u] \in WorkerPhase
         /\ pc'[w] = "idle" /\ \A u \in Threads \ {w} : pc'[u] = pc[u]
         /\ job' \in [Workers -> Message \cup {NoMessage}] /\ handled' \in Nat
         /\ job'[w] = NoMessage /\ \A u \in Workers \ {w} : job'[u] = job[u]
<1>1. w \in Threads /\ w \notin Callers /\ Goto(w, "idle") /\ "idle" \in WorkerPhase
  BY ThreadsAssumption DEF Finish, Threads, Callers, WorkerPhase
<1>2. /\ job \in [Workers -> Message \cup {NoMessage}] /\ handled \in Nat
      /\ job' = [job EXCEPT ![w] = NoMessage] /\ handled' = handled + 1
  BY DEF Finish, TypeOK
<1>3. /\ job' \in [Workers -> Message \cup {NoMessage}] /\ handled' \in Nat
      /\ job'[w] = NoMessage /\ \A u \in Workers \ {w} : job'[u] = job[u]
  BY <1>2
<1> QED BY <1>1, <1>3, GotoTypes

LEMMA TypeStep == TypeOK /\ [Next]_vars => TypeOK'
<1> SUFFICES ASSUME TypeOK, [Next]_vars PROVE TypeOK'
  OBVIOUS
<1> USE DEF pool, history
<1>1. ASSUME NEW c \in Clients, NEW kind \in Kinds, Call(c, kind) PROVE TypeOK'
  <2>1. [by |-> c, n |-> calls', kind |-> kind] \in Message /\ calls' \in 0 .. MaxCalls
    BY <1>1, ConstantsAssumption DEF Call, TypeOK, Message
  <2>2. /\ call' \in [Callers -> Message \cup {NoMessage}]
        /\ call'[c] \in Message /\ \A t \in Callers \ {c} : call'[t] = call[t]
    BY <1>1, <2>1 DEF Call, TypeOK, Callers
  <2>3. c \in Threads /\ c \in Callers /\ c \notin Workers
    BY ThreadsAssumption DEF Threads, Callers
  <2>4. /\ pc' \in [Threads -> CallerPhase \cup WorkerPhase]
        /\ \A t \in Callers : pc'[t] \in CallerPhase
        /\ \A w \in Workers : pc'[w] \in WorkerPhase
        /\ \A t \in Threads \ {c} : pc'[t] = pc[t]
    <3>1. CASE refs = {}
      BY <1>1, <3>1 DEF Call, TypeOK
    <3>2. CASE refs # {}
      BY <1>1, <2>3, <3>2, GotoTypes DEF Call, CallerPhase
    <3> QED BY <3>1, <3>2
  <2>5. refs' \subseteq Callers /\ rejected' \in Nat
    BY <1>1, <2>3 DEF Call, TypeOK
  <2> QED
    BY <1>1, <2>1, <2>2, <2>3, <2>4, <2>5 DEF Call, TypeOK, Threads
<1>2. ASSUME NEW t \in Callers, Post(t) PROVE TypeOK'
  <2>1. Ring!IsRing(q') /\ q'.max > 0 /\ Ring!Contents(q') \in Seq(Message)
    <3>1. CASE q' = q
      BY <3>1 DEF TypeOK
    <3>2. CASE q' = Ring!PushBack(q, call[t])
      BY <1>2, <3>2, PushTypes DEF Post
    <3> QED BY <1>2, <3>1, <3>2 DEF Post
  <2>2. PICK to \in {"notify", "pop_cv", "discard"} : Goto(t, to)
    BY <1>2 DEF Post
  <2>3. t \in Threads /\ t \notin Workers /\ to \in CallerPhase /\ pc[t] # "idle"
    BY <1>2, ThreadsAssumption DEF Post, Threads, Callers, CallerPhase
  <2>4. /\ pc' \in [Threads -> CallerPhase \cup WorkerPhase]
        /\ \A u \in Callers : pc'[u] \in CallerPhase
        /\ \A w \in Workers : pc'[w] \in WorkerPhase
        /\ \A u \in Threads \ {t} : pc'[u] = pc[u]
    BY <2>2, <2>3, GotoTypes
  <2> QED
    BY <1>2, <2>1, <2>3, <2>4 DEF Post, TypeOK, Threads
<1>3. ASSUME NEW t \in Callers, Discard(t) PROVE TypeOK'
  <2>1. Goto(t, "release") /\ t \in Threads /\ t \notin Workers /\ "release" \in CallerPhase
    BY <1>3, ThreadsAssumption DEF Discard, Threads, Callers, CallerPhase
  <2>2. /\ pc' \in [Threads -> CallerPhase \cup WorkerPhase]
        /\ \A u \in Callers : pc'[u] \in CallerPhase
        /\ \A w \in Workers : pc'[w] \in WorkerPhase
        /\ pc'[t] = "release" /\ \A u \in Threads \ {t} : pc'[u] = pc[u]
    BY <2>1, GotoTypes
  <2>3. discarded' \in Nat
    BY <1>3 DEF Discard, TypeOK
  <2> QED BY <1>3, <2>1, <2>2, <2>3 DEF Discard, TypeOK, Threads
<1>4. ASSUME NEW t \in Callers, Notify(t) PROVE TypeOK'
  <2>1. PICK to \in {"post", "join", "release"} : NotifyOne(t, "push_cv", to)
    BY <1>4 DEF Notify
  <2>2. t \in Threads /\ t \notin Workers /\ pc[t] # "push_cv" /\ pc[t] # "idle"
    BY <1>4, ThreadsAssumption DEF Notify, Threads, Callers
  <2>3. to \in CallerPhase
    BY DEF CallerPhase
  <2>4. /\ pc' \in [Threads -> CallerPhase \cup WorkerPhase]
        /\ pc'[t] = to
        /\ \A u \in Threads \ {t} :
             pc'[u] = pc[u] \/ (pc[u] = "push_cv" /\ pc'[u] = "woken")
    BY <2>1, <2>2, <2>3, NotifyTypes
  <2>5. sent' \in Nat
    BY <1>4 DEF Notify, TypeOK
  <2> QED
    BY <1>4, <2>2, <2>3, <2>4, <2>5, ThreadsAssumption
    DEF Notify, TypeOK, Threads, Callers, CallerPhase, WorkerPhase
<1>5. ASSUME NEW t \in Callers, Release(t) PROVE TypeOK'
  <2>1. PICK to \in {"post", "idle"} : Goto(t, to) /\ (to = "idle" => call' = call)
    BY <1>5 DEF Release
  <2>2. t \in Threads /\ t \notin Workers /\ to \in CallerPhase
    BY ThreadsAssumption DEF Threads, Callers, CallerPhase
  <2>3. /\ pc' \in [Threads -> CallerPhase \cup WorkerPhase]
        /\ \A u \in Callers : pc'[u] \in CallerPhase
        /\ \A w \in Workers : pc'[w] \in WorkerPhase
        /\ pc'[t] = to /\ \A u \in Threads \ {t} : pc'[u] = pc[u]
    BY <2>1, <2>2, GotoTypes
  <2>4. /\ call' \in [Callers -> Message \cup {NoMessage}]
        /\ \A u \in Callers \ {t} : call'[u] = call[u]
        /\ pc'[t] # "idle" => call'[t] \in Message
    <3>1. CASE refs' = {}
      BY <1>5, <3>1, MessageKinds DEF Release, TypeOK
    <3>2. CASE refs' # {}
      BY <1>5, <2>3, <2>2, <3>2 DEF Release, TypeOK, Goto
    <3> QED BY <3>1, <3>2
  <2>5. refs' \subseteq Callers
    BY <1>5 DEF Release, TypeOK
  <2> QED
    BY <1>5, <2>2, <2>3, <2>4, <2>5 DEF Release, TypeOK, Threads
<1>6. ASSUME NEW t \in Callers, Join(t) PROVE TypeOK'
  <2>1. Goto(t, "idle") /\ t \in Threads /\ t \notin Workers /\ "idle" \in CallerPhase
    BY <1>6, ThreadsAssumption DEF Join, Threads, Callers, CallerPhase
  <2>2. /\ pc' \in [Threads -> CallerPhase \cup WorkerPhase]
        /\ \A u \in Callers : pc'[u] \in CallerPhase
        /\ \A w \in Workers : pc'[w] \in WorkerPhase
        /\ pc'[t] = "idle" /\ \A u \in Threads \ {t} : pc'[u] = pc[u]
    BY <2>1, GotoTypes
  <2> QED BY <1>6, <2>1, <2>2 DEF Join, TypeOK, Threads
<1>7. ASSUME NEW w \in Workers, Dequeue(w) PROVE TypeOK'
  <2>1. CASE Ring!Empty(q)
    <3>1. w \in Threads /\ w \notin Callers /\ Goto(w, "push_cv") /\ "push_cv" \in WorkerPhase
      BY <1>7, <2>1, ThreadsAssumption DEF Dequeue, Threads, Callers, WorkerPhase
    <3>2. /\ pc' \in [Threads -> CallerPhase \cup WorkerPhase]
          /\ \A u \in Callers : pc'[u] \in CallerPhase
          /\ \A u \in Workers : pc'[u] \in WorkerPhase
          /\ pc'[w] = "push_cv" /\ \A u \in Threads \ {w} : pc'[u] = pc[u]
      BY <3>1, GotoTypes
    <3> QED BY <1>7, <2>1, <3>1, <3>2 DEF Dequeue, TypeOK, Threads
  <2>2. CASE ~Ring!Empty(q)
    <3>1. /\ Ring!IsRing(q') /\ q'.max > 0 /\ Ring!Contents(q') \in Seq(Message)
          /\ Ring!Front(q) \in Message
      BY <1>7, <2>2, TakeTypes DEF Dequeue
    <3>2. w \in Threads /\ w \notin Callers /\ Goto(w, "notify") /\ "notify" \in WorkerPhase
      BY <1>7, <2>2, ThreadsAssumption DEF Dequeue, Threads, Callers, WorkerPhase
    <3>3. /\ pc' \in [Threads -> CallerPhase \cup WorkerPhase]
          /\ \A u \in Callers : pc'[u] \in CallerPhase
          /\ \A u \in Workers : pc'[u] \in WorkerPhase
          /\ pc'[w] = "notify" /\ \A u \in Threads \ {w} : pc'[u] = pc[u]
      BY <3>2, GotoTypes
    <3>4. /\ job' \in [Workers -> Message \cup {NoMessage}]
          /\ job'[w] \in Message /\ \A u \in Workers \ {w} : job'[u] = job[u]
      BY <1>7, <2>2, <3>1 DEF Dequeue, TypeOK
    <3> QED
      BY <1>7, <2>2, <3>1, <3>2, <3>3, <3>4, MessageKinds DEF Dequeue, TypeOK, Threads
  <2> QED BY <2>1, <2>2
<1>8. ASSUME NEW w \in Workers, NotifyRoom(w) PROVE TypeOK'
  <2> DEFINE to == IF job[w].kind = "terminate" THEN "exited" ELSE job[w].kind
  <2>1. job[w] \in Message /\ pc[w] = "notify" /\ NotifyOne(w, "pop_cv", to)
    BY <1>8 DEF NotifyRoom, TypeOK, WorkerPhase
  <2>2. to \in {"log", "urgent", "flush", "exited"}
    BY <2>1, MessageKinds
  <2>3. w \in Threads /\ w \notin Callers /\ to \in WorkerPhase
    BY <2>2, ThreadsAssumption DEF Threads, Callers, WorkerPhase
  <2> HIDE DEF to
  <2>4. /\ pc' \in [Threads -> CallerPhase \cup WorkerPhase]
        /\ pc'[w] = to
        /\ \A u \in Threads \ {w} :
             pc'[u] = pc[u] \/ (pc[u] = "pop_cv" /\ pc'[u] = "woken")
    BY <2>1, <2>3, NotifyTypes
  <2> QED
    BY <1>8, <2>1, <2>2, <2>3, <2>4, ThreadsAssumption
    DEF NotifyRoom, TypeOK, Threads, Callers, CallerPhase, WorkerPhase
<1>9. ASSUME NEW w \in Workers, Write(w) PROVE TypeOK'
  <2>1. job[w] \in Message
    BY <1>9 DEF Write, TypeOK
  <2>2. written' \in Seq(Message) /\ Len(written') = Len(written) + 1
    BY <1>9, <2>1 DEF Write, TypeOK
  <2>3. flushed' \in 0 .. Len(written')
    BY <1>9, <2>2 DEF Write, TypeOK
  <2>4. CASE pc[w] = "urgent"
    <3>1. w \in Threads /\ w \notin Callers /\ Goto(w, "flush") /\ "flush" \in WorkerPhase
      BY <1>9, <2>4, ThreadsAssumption DEF Write, Threads, Callers, WorkerPhase
    <3>2. /\ pc' \in [Threads -> CallerPhase \cup WorkerPhase]
          /\ \A u \in Callers : pc'[u] \in CallerPhase
          /\ \A u \in Workers : pc'[u] \in WorkerPhase
          /\ pc'[w] = "flush" /\ \A u \in Threads \ {w} : pc'[u] = pc[u]
      BY <3>1, GotoTypes
    <3> QED
      BY <1>9, <2>2, <2>3, <2>4, <3>1, <3>2 DEF Write, TypeOK, Threads
  <2>5. CASE pc[w] = "log"
    <3>1. Finish(w)
      BY <1>9, <2>5 DEF Write
    <3> QED
      BY <1>9, <2>2, <2>3, <3>1, FinishTypes DEF Write, TypeOK, Threads
  <2> QED BY <1>9, <2>4, <2>5 DEF Write
<1>10. ASSUME NEW w \in Workers, Flush(w) PROVE TypeOK'
  <2>1. Finish(w) /\ flushed' \in 0 .. Len(written')
    BY <1>10 DEF Flush, TypeOK
  <2> QED BY <1>10, <2>1, FinishTypes DEF Flush, TypeOK, Threads
<1>11. ASSUME NEW t \in Threads, SpuriousWake(t) PROVE TypeOK'
  <2>1. Goto(t, "woken") /\ "woken" \in CallerPhase /\ "woken" \in WorkerPhase
    BY <1>11 DEF SpuriousWake, CallerPhase, WorkerPhase
  <2>2. /\ pc' \in [Threads -> CallerPhase \cup WorkerPhase]
        /\ \A u \in Callers : pc'[u] \in CallerPhase
        /\ \A w \in Workers : pc'[w] \in WorkerPhase
        /\ pc'[t] = "woken" /\ \A u \in Threads \ {t} : pc'[u] = pc[u]
    BY <2>1, GotoTypes
  <2>3. \A u \in Callers : pc'[u] # "idle" => pc[u] # "idle"
    BY <1>11, <2>2 DEF SpuriousWake, Threads
  <2>4. \A w \in Workers :
          pc'[w] \in {"notify", "log", "urgent", "flush", "exited"}
            <=> pc[w] \in {"notify", "log", "urgent", "flush", "exited"}
    BY <1>11, <2>2 DEF SpuriousWake, Threads
  <2> QED BY <1>11, <2>2, <2>3, <2>4 DEF SpuriousWake, TypeOK
<1>12. CASE UNCHANGED vars
  BY <1>12 DEF TypeOK, vars
<1>13. threads \subseteq Workers
  BY DEF TypeOK
<1> QED
  BY <1>1, <1>2, <1>3, <1>4, <1>5, <1>6, <1>7, <1>8, <1>9, <1>10, <1>11, <1>12, <1>13
  DEF Next, CallerStep, WorkerStep

(* Type correctness: no message is lost from the window of the ring, no    *)
(* worker forgets the message it deals with.                               *)
THEOREM TypeCorrect == SafetySpec => []TypeOK
<1> QED BY TypeInit, TypeStep, PTL DEF SafetySpec

-----------------------------------------------------------------------------
LEMMA FifoInit == Init => Fifo!Init
<1> SUFFICES ASSUME Init PROVE Fifo!Init
  OBVIOUS
<1>1. PICK n \in QueueSizes : q = Ring!New(n)
  BY DEF Init
<1>2. Ring!Contents(q) = <<>> /\ q.overrun = 0
  BY <1>1, ConstantsAssumption, Ring!NewIsEmpty
<1> QED BY <1>2 DEF Init, Fifo!Init

(* Each step of the pool is a step of the abstract queue: a post is a put  *)
(* or a put over the oldest, a dequeue a take, the rest leaves it alone.   *)
LEMMA FifoStep ==
  TypeOK /\ [Next]_vars
    => [Fifo!Next]_<<Ring!Contents(q), Ring!Room(q), q.overrun, job>>
<1> SUFFICES ASSUME TypeOK, [Next]_vars
             PROVE  [Fifo!Next]_<<Ring!Contents(q), Ring!Room(q), q.overrun, job>>
  OBVIOUS
<1> USE DEF pool, history
<1>1. Ring!IsRing(q) /\ q.max > 0 /\ Ring!Contents(q) \in Seq(Message)
  BY DEF TypeOK
<1>2. /\ Len(Ring!Contents(q)) = Ring!Size(q)
      /\ Ring!Size(q) \in Nat /\ Ring!Room(q) \in Nat /\ Ring!Size(q) <= Ring!Room(q)
      /\ Ring!Full(q) <=> Ring!Size(q) = Ring!Room(q)
  BY <1>1, RingSize
<1>3. CASE UNCHANGED <<q, job>>
  BY <1>3
<1>4. ASSUME NEW t \in Callers, Post(t), q' = Ring!PushBack(q, call[t])
      PROVE  Fifo!Next
  <2>1. call[t] \in Message /\ call[t] \in Ring!Slot /\ job' = job
    BY <1>4 DEF Post, TypeOK, Ring!Slot
  <2>2. Ring!Room(q') = Ring!Room(q)
    BY <1>1, <1>4, <2>1, RingPush
  <2>3. CASE ~Ring!Full(q)
    <3>1. /\ Ring!Contents(q') = Append(Ring!Contents(q), call[t])
          /\ q'.overrun = q.overrun
      BY <1>1, <1>4, <2>1, <2>3, RingPush
    <3>2. Len(Ring!Contents(q)) < Ring!Room(q)
      BY <1>2, <2>3
    <3>3. Fifo!Put(call[t])
      BY <2>1, <2>2, <3>1, <3>2 DEF Fifo!Put
    <3> QED BY <2>1, <3>3 DEF Fifo!Next
  <2>4. CASE Ring!Full(q)
    <3>1. /\ Ring!Contents(q') = Tail(Append(Ring!Contents(q), call[t]))
          /\ q'.overrun = q.overrun + 1
      BY <1>1, <1>4, <2>1, <2>4, RingPush
    <3>2. Len(Ring!Contents(q)) = Ring!Room(q)
      BY <1>2, <2>4
    <3>3. Fifo!PutOver(call[t])
      BY <2>1, <2>2, <3>1, <3>2 DEF Fifo!PutOver
    <3> QED BY <2>1, <3>3 DEF Fifo!Next
  <2> QED BY <2>3, <2>4
<1>5. ASSUME NEW w \in Workers, Dequeue(w), ~Ring!Empty(q) PROVE Fifo!Next
  <2>1. /\ q' = Ring!PopFront(Ring!MoveFront(q))
        /\ job' = [job EXCEPT ![w] = Ring!Front(q)]
        /\ pc[w] \in {"idle", "woken"}
    BY <1>5 DEF Dequeue
  <2>2. /\ q'.max = q.max /\ q'.overrun = q.overrun
        /\ Ring!Contents(q) # <<>>
        /\ Ring!Front(q) = Head(Ring!Contents(q))
        /\ Ring!Contents(q') = Tail(Ring!Contents(q))
    BY <1>1, <1>5, <2>1, Ring!PopTakes
  <2>3. Ring!Room(q') = Ring!Room(q)
    BY <2>2 DEF Ring!Room
  <2>4. job[w] = NoMessage
    BY <2>1 DEF TypeOK
  <2>5. Fifo!Take(w)
    BY <2>1, <2>2, <2>3, <2>4 DEF Fifo!Take
  <2> QED BY <2>5 DEF Fifo!Next
<1>6. ASSUME NEW w \in Workers, job' = [job EXCEPT ![w] = NoMessage], UNCHANGED q
      PROVE  Fifo!Next
  <2>1. Fifo!Done(w)
    BY <1>6 DEF Fifo!Done
  <2> QED BY <2>1 DEF Fifo!Next
<1>7. threads \subseteq Workers
  BY DEF TypeOK
<1>8. ASSUME NEW t \in Callers, CallerStep(t)
      PROVE  UNCHANGED <<q, job>> \/ (Post(t) /\ q' = Ring!PushBack(q, call[t]))
  BY <1>8 DEF CallerStep, Post, Discard, Notify, Release, Join
<1>9. ASSUME NEW w \in Workers, WorkerStep(w)
      PROVE  \/ UNCHANGED <<q, job>>
             \/ Dequeue(w) /\ ~Ring!Empty(q)
             \/ job' = [job EXCEPT ![w] = NoMessage] /\ UNCHANGED q
  BY <1>9 DEF WorkerStep, Dequeue, NotifyRoom, Write, Flush, Finish
<1>10. CASE \E t \in Callers : CallerStep(t)
  BY <1>3, <1>4, <1>8, <1>10
<1>11. CASE \E w \in threads : WorkerStep(w)
  BY <1>3, <1>5, <1>6, <1>7, <1>9, <1>11
<1>12. CASE \/ \E c \in Clients, kind \in Kinds : Call(c, kind)
            \/ \E t \in Threads : SpuriousWake(t)
            \/ UNCHANGED vars
  BY <1>3, <1>12 DEF Call, SpuriousWake, vars
<1> QED BY <1>10, <1>11, <1>12 DEF Next

(* The pool's queue implements the abstract lossy FIFO, for every size of  *)
(* the ring and every mix of policies.                                     *)
THEOREM PoolImplementsFifo == SafetySpec => RingIsFifo
<1>1. SafetySpec => []TypeOK
  BY TypeCorrect
<1> QED BY <1>1, FifoInit, FifoStep, PTL DEF SafetySpec, RingIsFifo, Fifo!Spec

-----------------------------------------------------------------------------
LEMMA WakeupsFinite ==
  ASSUME TypeOK
  PROVE  /\ IsFiniteSet(PushWakeups) /\ IsFiniteSet(PushWakeups')
         /\ IsFiniteSet(PopWakeups) /\ IsFiniteSet(PopWakeups')
<1>1. IsFiniteSet(Callers \cup Workers)
  <2>1. IsFiniteSet({Owner})
    BY FS_Singleton
  <2> QED BY <2>1, FS_Union, ThreadsAssumption DEF Callers
<1>2. /\ PushWakeups \subseteq Callers \cup Workers
      /\ PushWakeups' \subseteq Callers \cup Workers
      /\ PopWakeups \subseteq Callers \cup Workers
      /\ PopWakeups' \subseteq Callers \cup Workers
  BY DEF PushWakeups, PopWakeups
<1> QED BY <1>1, <1>2, FS_Subset

(* Sizes of finite sets that differ in one element, or in two swapped.     *)
LEMMA OneMore ==
  ASSUME NEW S, NEW T, IsFiniteSet(S), IsFiniteSet(T)
  PROVE  /\ Cardinality(S) \in Nat /\ Cardinality(T) \in Nat
         /\ S \subseteq T => Cardinality(S) <= Cardinality(T)
         /\ \A x : x \notin S /\ T = S \cup {x} => Cardinality(T) = Cardinality(S) + 1
         /\ \A x : S \ {x} \subseteq T => Cardinality(T) >= Cardinality(S) - 1
         /\ \A x, y : x \in S /\ y \notin S /\ T = (S \ {x}) \cup {y}
              => Cardinality(T) = Cardinality(S)
<1>1. Cardinality(S) \in Nat /\ Cardinality(T) \in Nat
  BY FS_CardinalityType
<1>2. ASSUME NEW x, x \notin S, T = S \cup {x} PROVE Cardinality(T) = Cardinality(S) + 1
  BY <1>2, FS_AddElement
<1>3. ASSUME NEW x PROVE /\ IsFiniteSet(S \ {x})
                         /\ Cardinality(S \ {x}) = IF x \in S THEN Cardinality(S) - 1
                                                  ELSE Cardinality(S)
  BY FS_RemoveElement
<1>4. ASSUME NEW x, S \ {x} \subseteq T PROVE Cardinality(T) >= Cardinality(S) - 1
  <2>1. Cardinality(S \ {x}) <= Cardinality(T) /\ Cardinality(S \ {x}) \in Nat
    BY <1>3, <1>4, FS_Subset, FS_CardinalityType
  <2>2. Cardinality(S \ {x}) >= Cardinality(S) - 1
    BY <1>1, <1>3
  <2> QED BY <1>1, <2>1, <2>2
<1>5. ASSUME NEW x, NEW y, x \in S, y \notin S, T = (S \ {x}) \cup {y}
      PROVE  Cardinality(T) = Cardinality(S)
  <2>1. Cardinality((S \ {x}) \cup {y}) = Cardinality(S \ {x}) + 1
    BY <1>3, <1>5, FS_AddElement
  <2> QED BY <1>1, <1>3, <1>5, <2>1
<1>6. S \subseteq T => Cardinality(S) <= Cardinality(T)
  BY FS_Subset
<1> QED BY <1>1, <1>2, <1>4, <1>5, <1>6

(* What each kind of step does to the size of the ring and to the threads  *)
(* the two invariants are about.                                           *)
LEMMA RingStep ==
  ASSUME TypeOK
  PROVE  /\ Ring!Size(q) \in Nat /\ Ring!Room(q) \in Nat
         /\ Ring!Size(q) <= Ring!Room(q)
         /\ Ring!Empty(q) <=> Ring!Size(q) = 0
         /\ Ring!Full(q) <=> Ring!Size(q) = Ring!Room(q)
         /\ \A t \in Callers : pc[t] # "idle" /\ q' = Ring!PushBack(q, call[t]) =>
              /\ Ring!Room(q') = Ring!Room(q)
              /\ Ring!Size(q') = IF Ring!Full(q) THEN Ring!Size(q) ELSE Ring!Size(q) + 1
         /\ ~Ring!Empty(q) /\ q' = Ring!PopFront(Ring!MoveFront(q)) =>
              /\ Ring!Room(q') = Ring!Room(q)
              /\ Ring!Size(q') = Ring!Size(q) - 1
<1>1. Ring!IsRing(q) /\ q.max > 0 /\ Ring!Contents(q) \in Seq(Message)
  BY DEF TypeOK
<1>2. /\ Ring!Size(q) \in Nat /\ Ring!Room(q) \in Nat
      /\ Ring!Size(q) <= Ring!Room(q)
      /\ Len(Ring!Contents(q)) = Ring!Size(q)
      /\ Ring!Empty(q) <=> Ring!Size(q) = 0
      /\ Ring!Full(q) <=> Ring!Size(q) = Ring!Room(q)
  BY <1>1, RingSize
<1>3. ASSUME NEW t \in Callers, pc[t] # "idle", q' = Ring!PushBack(q, call[t])
      PROVE  /\ Ring!Room(q') = Ring!Room(q)
             /\ Ring!Size(q') = IF Ring!Full(q) THEN Ring!Size(q) ELSE Ring!Size(q) + 1
  <2>1. call[t] \in Ring!Slot
    BY <1>3 DEF TypeOK, Ring!Slot
  <2> QED BY <1>1, <1>3, <2>1, RingPush
<1>4. ASSUME ~Ring!Empty(q), q' = Ring!PopFront(Ring!MoveFront(q))
      PROVE  /\ Ring!Room(q') = Ring!Room(q)
             /\ Ring!Size(q') = Ring!Size(q) - 1
  <2>1. /\ Ring!IsRing(q') /\ q'.max = q.max /\ Ring!Contents(q) # <<>>
        /\ Ring!Contents(q') = Tail(Ring!Contents(q))
    BY <1>1, <1>4, Ring!PopTakes
  <2>2. Len(Ring!Contents(q')) = Ring!Size(q')
    BY <1>1, <2>1, RingSize
  <2>3. Len(Tail(Ring!Contents(q))) = Len(Ring!Contents(q)) - 1
    BY <1>1, <2>1
  <2> QED BY <1>2, <2>1, <2>2, <2>3 DEF Ring!Room
<1> QED BY <1>2, <1>3, <1>4

(* A step in which only t moves, and one in which t notifies, seen from    *)
(* the threads asleep and the wake-ups on their way.                       *)
LEMMA MoveOne ==
  ASSUME TypeOK, NEW t \in Threads, NEW to, Goto(t, to)
  PROVE  /\ \A where : Asleep(where)' \ {t} = Asleep(where) \ {t}
         /\ \A where : t \in Asleep(where)' <=> to = where
         /\ PushWakeups' \ {t} = PushWakeups \ {t}
         /\ PopWakeups' \ {t} = PopWakeups \ {t}
         /\ t \in PushWakeups' <=> \/ t \in Callers /\ to = "notify"
                                   \/ t \in Workers /\ to = "woken"
         /\ t \in PopWakeups' <=> \/ t \in Workers /\ to = "notify"
                                  \/ t \in Callers /\ to = "woken"
<1>1. pc \in [Threads -> CallerPhase \cup WorkerPhase] /\ Threads = Callers \cup Workers
  BY DEF TypeOK, Threads
<1>2. pc'[t] = to /\ \A u \in Threads \ {t} : pc'[u] = pc[u]
  BY <1>1 DEF Goto
<1>3. ASSUME NEW where PROVE /\ Asleep(where)' \ {t} = Asleep(where) \ {t}
                             /\ t \in Asleep(where)' <=> to = where
  BY <1>2 DEF Asleep
<1>4. /\ PushWakeups' \ {t} = PushWakeups \ {t}
      /\ t \in PushWakeups' <=> \/ t \in Callers /\ to = "notify"
                                \/ t \in Workers /\ to = "woken"
  <2>1. ASSUME NEW u \in Threads \ {t} PROVE u \in PushWakeups' <=> u \in PushWakeups
    BY <1>2, <2>1 DEF PushWakeups
  <2>2. PushWakeups \subseteq Threads /\ PushWakeups' \subseteq Threads
    BY <1>1 DEF PushWakeups
  <2>3. t \in PushWakeups' <=> \/ t \in Callers /\ to = "notify"
                               \/ t \in Workers /\ to = "woken"
    <3>1. t \in PushWakeups' <=> \/ t \in Callers /\ pc'[t] = "notify"
                                 \/ t \in Workers /\ pc'[t] = "woken"
      BY DEF PushWakeups
    <3> QED BY <1>2, <3>1
  <2> QED BY <2>1, <2>2, <2>3
<1>5. /\ PopWakeups' \ {t} = PopWakeups \ {t}
      /\ t \in PopWakeups' <=> \/ t \in Workers /\ to = "notify"
                               \/ t \in Callers /\ to = "woken"
  <2>1. ASSUME NEW u \in Threads \ {t} PROVE u \in PopWakeups' <=> u \in PopWakeups
    BY <1>2, <2>1 DEF PopWakeups
  <2>2. PopWakeups \subseteq Threads /\ PopWakeups' \subseteq Threads
    BY <1>1 DEF PopWakeups
  <2>3. t \in PopWakeups' <=> \/ t \in Workers /\ to = "notify"
                              \/ t \in Callers /\ to = "woken"
    <3>1. t \in PopWakeups' <=> \/ t \in Workers /\ pc'[t] = "notify"
                                \/ t \in Callers /\ pc'[t] = "woken"
      BY DEF PopWakeups
    <3> QED BY <1>2, <3>1
  <2> QED BY <2>1, <2>2, <2>3
<1> QED BY <1>3, <1>4, <1>5

LEMMA MoveTwo ==
  ASSUME TypeOK, NEW t \in Threads, NEW where, NEW to, pc[t] = "notify",
         where \in {"push_cv", "pop_cv"}, NotifyOne(t, where, to),
         to \notin {"push_cv", "pop_cv", "woken", "notify"},
         t \in Callers <=> where = "push_cv", t \in Workers <=> where = "pop_cv"
  PROVE  /\ \A cv \in {"push_cv", "pop_cv"} : Asleep(cv)' \subseteq Asleep(cv)
         /\ where = "push_cv" => PopWakeups' = PopWakeups
         /\ where = "pop_cv" => PushWakeups' = PushWakeups
         /\ \/ Asleep(where)' = {}
            \/ \E u \in Threads :
                 /\ where = "push_cv" =>
                      /\ t \in PushWakeups /\ u \notin PushWakeups
                      /\ PushWakeups' = (PushWakeups \ {t}) \cup {u}
                 /\ where = "pop_cv" =>
                      /\ t \in PopWakeups /\ u \notin PopWakeups
                      /\ PopWakeups' = (PopWakeups \ {t}) \cup {u}
<1>1. /\ pc \in [Threads -> CallerPhase \cup WorkerPhase] /\ Threads = Callers \cup Workers
      /\ Callers \cap Workers = {}
  BY ThreadsAssumption DEF TypeOK, Threads, Callers
<1>2. CASE Asleep(where) = {}
  <2>1. Goto(t, to)
    BY <1>2 DEF NotifyOne, Asleep
  <2>2. pc'[t] = to /\ \A u \in Threads \ {t} : pc'[u] = pc[u]
    BY <1>1, <2>1 DEF Goto
  <2> QED BY <1>1, <1>2, <2>2 DEF Asleep, PushWakeups, PopWakeups
<1>3. CASE Asleep(where) # {}
  <2>1. PICK u \in Asleep(where) : pc' = [pc EXCEPT ![t] = to, ![u] = "woken"]
    BY <1>3 DEF NotifyOne, Asleep
  <2>2. u \in Threads /\ pc[u] = where /\ u # t
    BY DEF Asleep
  <2>3. /\ pc'[t] = to /\ pc'[u] = "woken"
        /\ \A s \in Threads \ {t, u} : pc'[s] = pc[s]
    BY <1>1, <2>1, <2>2
  <2>4. (where = "push_cv" => u \in Workers) /\ (where = "pop_cv" => u \in Callers)
    BY <1>1, <2>2 DEF TypeOK, CallerPhase, WorkerPhase
  <2>5. \A cv \in {"push_cv", "pop_cv"} : Asleep(cv)' \subseteq Asleep(cv)
    BY <1>1, <2>2, <2>3 DEF Asleep
  <2>6. CASE where = "push_cv"
    <3>1. t \in PushWakeups /\ u \notin PushWakeups
      BY <1>1, <2>2, <2>4, <2>6 DEF PushWakeups
    <3>2. PushWakeups' = (PushWakeups \ {t}) \cup {u}
      BY <1>1, <2>2, <2>3, <2>4, <2>6 DEF PushWakeups
    <3>3. PopWakeups' = PopWakeups
      BY <1>1, <2>2, <2>3, <2>4, <2>6 DEF PopWakeups
    <3> QED BY <2>2, <2>5, <2>6, <3>1, <3>2, <3>3
  <2>7. CASE where = "pop_cv"
    <3>1. t \in PopWakeups /\ u \notin PopWakeups
      BY <1>1, <2>2, <2>4, <2>7 DEF PopWakeups
    <3>2. PopWakeups' = (PopWakeups \ {t}) \cup {u}
      BY <1>1, <2>2, <2>3, <2>4, <2>7 DEF PopWakeups
    <3>3. PushWakeups' = PushWakeups
      BY <1>1, <2>2, <2>3, <2>4, <2>7 DEF PushWakeups
    <3> QED BY <2>2, <2>5, <2>7, <3>1, <3>2, <3>3
  <2> QED BY <2>6, <2>7
<1> QED BY <1>2, <1>3

NoLostWakeup == NoIdleWorker /\ NoBlockedCaller

(* A step that leaves the ring and the wake-ups alone and puts nobody to   *)
(* sleep.                                                                  *)
LEMMA QuietStep ==
  ASSUME TypeOK, NoLostWakeup, UNCHANGED q,
         PushWakeups \subseteq PushWakeups', PopWakeups \subseteq PopWakeups',
         Asleep("push_cv")' \subseteq Asleep("push_cv"),
         Asleep("pop_cv")' \subseteq Asleep("pop_cv")
  PROVE  NoLostWakeup'
<1>1. /\ Cardinality(PushWakeups) <= Cardinality(PushWakeups')
      /\ Cardinality(PopWakeups) <= Cardinality(PopWakeups')
      /\ Cardinality(PushWakeups) \in Nat /\ Cardinality(PushWakeups') \in Nat
      /\ Cardinality(PopWakeups) \in Nat /\ Cardinality(PopWakeups') \in Nat
  BY WakeupsFinite, OneMore
<1>2. Ring!Size(q) \in Nat /\ Ring!Room(q) \in Nat /\ Ring!Size(q') = Ring!Size(q)
        /\ Ring!Room(q') = Ring!Room(q)
  BY RingStep
<1> QED BY <1>1, <1>2 DEF NoLostWakeup, NoIdleWorker, NoBlockedCaller

LEMMA WakeupStep == TypeOK /\ NoLostWakeup /\ [Next]_vars => NoLostWakeup'
<1> SUFFICES ASSUME TypeOK, NoLostWakeup, [Next]_vars PROVE NoLostWakeup'
  OBVIOUS
<1> USE DEF pool, history
<1> DEFINE size == Ring!Size(q)
           room == Ring!Room(q)
           push == Cardinality(PushWakeups)
           pop == Cardinality(PopWakeups)
<1>1. /\ size \in Nat /\ room \in Nat /\ size <= room
      /\ Ring!Empty(q) <=> size = 0
      /\ Ring!Full(q) <=> size = room
  BY RingStep
<1>2. push \in Nat /\ push' \in Nat /\ pop \in Nat /\ pop' \in Nat
  BY WakeupsFinite, OneMore
<1>3. /\ Asleep("push_cv") # {} => size <= push
      /\ Asleep("pop_cv") # {} => room - size <= pop
  BY DEF NoLostWakeup, NoIdleWorker, NoBlockedCaller
<1>4. /\ Asleep("push_cv")' # {} => size' <= push'
      /\ Asleep("pop_cv")' # {} => room' - size' <= pop'
      => NoLostWakeup'
  BY DEF NoLostWakeup, NoIdleWorker, NoBlockedCaller
<1>5. /\ Callers \cap Workers = {} /\ Threads = Callers \cup Workers
      /\ threads \subseteq Workers
  BY ThreadsAssumption DEF Threads, Callers, TypeOK
<1>6. ASSUME NEW t \in Threads, NEW to, Goto(t, to), UNCHANGED q,
             to \notin {"push_cv", "pop_cv"},
             t \in Callers => pc[t] \notin {"notify", "woken"},
             t \in Workers => pc[t] \notin {"notify", "woken"}
      PROVE  NoLostWakeup'
  <2>1. t \notin PushWakeups /\ t \notin PopWakeups
    BY <1>5, <1>6 DEF PushWakeups, PopWakeups
  <2>2. /\ Asleep("push_cv")' \subseteq Asleep("push_cv")
        /\ Asleep("pop_cv")' \subseteq Asleep("pop_cv")
        /\ PushWakeups \subseteq PushWakeups' /\ PopWakeups \subseteq PopWakeups'
    BY <1>6, <2>1, MoveOne
  <2> QED BY <1>6, <2>2, QuietStep
<1>7. ASSUME NEW t \in Callers, Post(t) PROVE NoLostWakeup'
  <2>1. t \in Threads /\ t \notin Workers /\ t \notin PushWakeups /\ pc[t] # "idle"
    BY <1>5, <1>7 DEF Post, PushWakeups
  <2>2. CASE ~Ring!Full(q) \/ PolicyOf(t) = "overrun_oldest"
    <3>1. Goto(t, "notify") /\ q' = Ring!PushBack(q, call[t])
      BY <1>7, <2>2 DEF Post
    <3>2. /\ room' = room
          /\ size' = IF Ring!Full(q) THEN size ELSE size + 1
      BY <2>1, <3>1, RingStep
    <3>3. /\ Asleep("push_cv")' \subseteq Asleep("push_cv")
          /\ Asleep("pop_cv")' \subseteq Asleep("pop_cv")
          /\ PushWakeups' = PushWakeups \cup {t}
          /\ PopWakeups \ {t} \subseteq PopWakeups'
      BY <2>1, <3>1, MoveOne
    <3>4. push' = push + 1 /\ pop' >= pop - 1
      BY <2>1, <3>3, WakeupsFinite, OneMore
    <3>5. CASE Ring!Full(q)
      <4>1. size' = size /\ size = room
        BY <1>1, <3>2, <3>5
      <4>2. Asleep("push_cv")' # {} => size' <= push'
        <5> HIDE DEF size, room, push, pop
        <5> QED BY <1>1, <1>2, <1>3, <3>3, <3>4, <4>1
      <4>3. room' - size' <= pop'
        <5> HIDE DEF size, room, push, pop
        <5> QED BY <1>1, <1>2, <3>2, <4>1
      <4> QED BY <1>4, <4>2, <4>3
    <3>6. CASE ~Ring!Full(q)
      <4>1. size' = size + 1
        BY <3>2, <3>6
      <4>2. Asleep("push_cv")' # {} => size' <= push'
        <5> HIDE DEF size, room, push, pop
        <5> QED BY <1>1, <1>2, <1>3, <3>3, <3>4, <4>1
      <4>3. Asleep("pop_cv")' # {} => room' - size' <= pop'
        <5> HIDE DEF size, room, push, pop
        <5> QED BY <1>1, <1>2, <1>3, <3>2, <3>3, <3>4, <4>1
      <4> QED BY <1>4, <4>2, <4>3
    <3> QED BY <3>5, <3>6
  <2>3. CASE ~(~Ring!Full(q) \/ PolicyOf(t) = "overrun_oldest")
    <3>1. PICK to \in {"pop_cv", "discard"} : Goto(t, to)
      BY <1>7, <2>3 DEF Post
    <3>2. q' = q /\ Ring!Full(q)
      BY <1>7, <2>3 DEF Post
    <3>3. /\ Asleep("push_cv")' \subseteq Asleep("push_cv")
          /\ PushWakeups \subseteq PushWakeups'
      BY <2>1, <3>1, MoveOne
    <3>4. push <= push'
      BY <3>3, WakeupsFinite, OneMore
    <3>5. size' = size /\ room' = room /\ size = room
      BY <1>1, <3>2
    <3>6. Asleep("push_cv")' # {} => size' <= push'
      <4> HIDE DEF size, room, push, pop
      <4> QED BY <1>1, <1>2, <1>3, <3>3, <3>4, <3>5
    <3>7. room' - size' <= pop'
      <4> HIDE DEF size, room, push, pop
      <4> QED BY <1>1, <1>2, <3>5
    <3> QED BY <1>4, <3>6, <3>7
  <2> QED BY <2>2, <2>3
<1>8. ASSUME NEW w \in Workers, Dequeue(w) PROVE NoLostWakeup'
  <2>1. /\ w \in Threads /\ w \notin Callers /\ pc[w] \in {"idle", "woken"}
        /\ w \notin PopWakeups
    BY <1>5, <1>8 DEF Dequeue, PopWakeups
  <2>2. CASE Ring!Empty(q)
    <3>1. Goto(w, "push_cv") /\ q' = q
      BY <1>8, <2>2 DEF Dequeue
    <3>2. /\ Asleep("pop_cv")' \subseteq Asleep("pop_cv")
          /\ PopWakeups \subseteq PopWakeups'
      BY <2>1, <3>1, MoveOne
    <3>3. pop <= pop'
      BY <3>2, WakeupsFinite, OneMore
    <3>4. size' = size /\ room' = room /\ size = 0
      BY <1>1, <2>2, <3>1
    <3>5. size' <= push'
      <4> HIDE DEF size, room, push, pop
      <4> QED BY <1>2, <3>4
    <3>6. Asleep("pop_cv")' # {} => room' - size' <= pop'
      <4> HIDE DEF size, room, push, pop
      <4> QED BY <1>1, <1>2, <1>3, <3>2, <3>3, <3>4
    <3> QED BY <1>4, <3>5, <3>6
  <2>3. CASE ~Ring!Empty(q)
    <3>1. Goto(w, "notify") /\ q' = Ring!PopFront(Ring!MoveFront(q))
      BY <1>8, <2>3 DEF Dequeue
    <3>2. /\ Asleep("push_cv")' \subseteq Asleep("push_cv")
          /\ Asleep("pop_cv")' \subseteq Asleep("pop_cv")
          /\ PopWakeups' = PopWakeups \cup {w}
          /\ PushWakeups \ {w} \subseteq PushWakeups'
      BY <2>1, <3>1, MoveOne
    <3>3. pop' = pop + 1 /\ push' >= push - 1
      BY <2>1, <3>2, WakeupsFinite, OneMore
    <3>4. size' = size - 1 /\ room' = room
      BY <2>3, <3>1, RingStep
    <3>5. Asleep("push_cv")' # {} => size' <= push'
      <4> HIDE DEF size, room, push, pop
      <4> QED BY <1>1, <1>2, <1>3, <3>2, <3>3, <3>4
    <3>6. Asleep("pop_cv")' # {} => room' - size' <= pop'
      <4> HIDE DEF size, room, push, pop
      <4> QED BY <1>1, <1>2, <1>3, <3>2, <3>3, <3>4
    <3> QED BY <1>4, <3>5, <3>6
  <2> QED BY <2>2, <2>3
<1>9. ASSUME NEW t \in Callers, Notify(t) PROVE NoLostWakeup'
  <2>1. PICK to \in {"post", "join", "release"} : NotifyOne(t, "push_cv", to)
    BY <1>9 DEF Notify
  <2>2. t \in Threads /\ t \notin Workers /\ pc[t] = "notify" /\ q' = q
    BY <1>5, <1>9 DEF Notify
  <2>3. /\ Asleep("push_cv")' \subseteq Asleep("push_cv")
        /\ Asleep("pop_cv")' \subseteq Asleep("pop_cv")
        /\ PopWakeups' = PopWakeups
        /\ \/ Asleep("push_cv")' = {}
           \/ \E u \in Threads :
                /\ t \in PushWakeups /\ u \notin PushWakeups
                /\ PushWakeups' = (PushWakeups \ {t}) \cup {u}
    BY <2>1, <2>2, MoveTwo
  <2>4. Asleep("push_cv")' = {} \/ push' = push
    BY <2>3, WakeupsFinite, OneMore
  <2>5. pop' = pop /\ size' = size /\ room' = room
    BY <2>2, <2>3
  <2> QED
    <3> HIDE DEF size, room, push, pop
    <3> QED BY <1>1, <1>2, <1>3, <1>4, <2>3, <2>4, <2>5
<1>10. ASSUME NEW w \in Workers, NotifyRoom(w) PROVE NoLostWakeup'
  <2>1. job[w] \in Message /\ pc[w] = "notify" /\ q' = q
    BY <1>10 DEF NotifyRoom, TypeOK
  <2>2. PICK to \in {"log", "urgent", "flush", "exited"} : NotifyOne(w, "pop_cv", to)
    BY <1>10, <2>1, MessageKinds DEF NotifyRoom
  <2>3. w \in Threads /\ w \notin Callers
    BY <1>5
  <2>4. /\ Asleep("push_cv")' \subseteq Asleep("push_cv")
        /\ Asleep("pop_cv")' \subseteq Asleep("pop_cv")
        /\ PushWakeups' = PushWakeups
        /\ \/ Asleep("pop_cv")' = {}
           \/ \E u \in Threads :
                /\ w \in PopWakeups /\ u \notin PopWakeups
                /\ PopWakeups' = (PopWakeups \ {w}) \cup {u}
    BY <2>1, <2>2, <2>3, MoveTwo
  <2>5. Asleep("pop_cv")' = {} \/ pop' = pop
    BY <2>4, WakeupsFinite, OneMore
  <2>6. push' = push /\ size' = size /\ room' = room
    BY <2>1, <2>4
  <2> QED
    <3> HIDE DEF size, room, push, pop
    <3> QED BY <1>1, <1>2, <1>3, <1>4, <2>4, <2>5, <2>6
<1>11. ASSUME NEW t \in Threads, SpuriousWake(t) PROVE NoLostWakeup'
  <2>1. Goto(t, "woken") /\ q' = q /\ pc[t] \notin {"notify", "woken"}
    BY <1>11 DEF SpuriousWake
  <2> QED BY <1>6, <2>1
<1>12. ASSUME NEW c \in Clients, NEW kind \in Kinds, Call(c, kind) PROVE NoLostWakeup'
  <2>1. q' = q /\ pc[c] = "idle" /\ c \in Threads
    BY <1>12 DEF Call, Threads, Callers
  <2>2. CASE pc' = pc
    BY <2>1, <2>2, QuietStep DEF PushWakeups, PopWakeups, Asleep
  <2>3. CASE Goto(c, "post")
    BY <1>6, <2>1, <2>3
  <2> QED BY <1>12, <2>2, <2>3 DEF Call
<1>13. ASSUME NEW t \in Callers, Discard(t) \/ Release(t) \/ Join(t) PROVE NoLostWakeup'
  <2>1. PICK to \in {"release", "post", "idle"} : Goto(t, to)
    BY <1>13 DEF Discard, Release, Join
  <2>2. q' = q /\ pc[t] \notin {"notify", "woken"} /\ t \in Threads
    BY <1>5, <1>13 DEF Discard, Release, Join
  <2> QED BY <1>6, <2>1, <2>2
<1>14. ASSUME NEW w \in Workers, Write(w) \/ Flush(w) PROVE NoLostWakeup'
  <2>1. PICK to \in {"flush", "idle"} : Goto(w, to)
    BY <1>14 DEF Write, Flush, Finish
  <2>2. q' = q /\ pc[w] \notin {"notify", "woken"} /\ w \in Threads
    BY <1>5, <1>14 DEF Write, Flush
  <2> QED BY <1>6, <2>1, <2>2
<1>15. CASE UNCHANGED vars
  BY <1>15, QuietStep DEF vars, PushWakeups, PopWakeups, Asleep
<1> QED
  BY <1>5, <1>7, <1>8, <1>9, <1>10, <1>11, <1>12, <1>13, <1>14, <1>15
  DEF Next, CallerStep, WorkerStep

LEMMA WakeupInit == Init => NoLostWakeup
<1> SUFFICES ASSUME Init PROVE NoLostWakeup
  OBVIOUS
<1>1. \A t \in Threads : pc[t] = "idle"
  BY DEF Init
<1>2. Asleep("push_cv") = {} /\ Asleep("pop_cv") = {}
  BY <1>1 DEF Asleep
<1> QED BY <1>2 DEF NoLostWakeup, NoIdleWorker, NoBlockedCaller

(* No worker sleeps on messages, and no caller on room, that nobody was    *)
(* woken for or is about to be: notify_one after the unlock is enough for  *)
(* any number of threads on both sides of the queue.                       *)
THEOREM NobodyOversleeps == SafetySpec => [](NoIdleWorker /\ NoBlockedCaller)
<1>1. SafetySpec => []TypeOK
  BY TypeCorrect
<1>2. SafetySpec => []NoLostWakeup
  BY <1>1, WakeupInit, WakeupStep, PTL DEF SafetySpec
<1> QED BY <1>2, PTL DEF NoLostWakeup

-----------------------------------------------------------------------------
(* The steps once more, with the ring as the sequence of what it holds and  *)
(* with a notification as the move of one thread that may wake another: all *)
(* that the invariants below need of them.                                  *)
Items == Ring!Contents(q)

Stays(u) ==
  \/ pc'[u] = pc[u]
  \/ pc[u] \in {"push_cv", "pop_cv"} /\ pc'[u] = "woken"

Moves(t, to) == pc'[t] = to /\ \A u \in Threads \ {t} : Stays(u)

RingKept == Items' = Items /\ q'.overrun = q.overrun

WorkKept == UNCHANGED <<threads, job, written, flushed, handled>>

CallsKept == UNCHANGED <<threads, policy, refs, call, sent, calls, rejected, discarded>>

Calls(c) ==
  /\ pc[c] = "idle" /\ calls' = calls + 1
  /\ call'[c].by = c /\ call'[c].n = calls' /\ call'[c].kind # "terminate"
  /\ \A t \in Callers \ {c} : call'[t] = call[t]
  /\ \/ refs = {} /\ refs' = {} /\ rejected' = rejected + 1 /\ pc' = pc
     \/ refs # {} /\ refs' = refs \cup {c} /\ rejected' = rejected /\ Moves(c, "post")
  /\ RingKept /\ WorkKept /\ UNCHANGED <<policy, sent, discarded>>

Puts(t) ==
  /\ pc[t] \in {"post", "woken"} /\ Moves(t, "notify")
  /\ \/ Items' = Append(Items, call[t]) /\ q'.overrun = q.overrun
     \/ /\ PolicyOf(t) = "overrun_oldest"
        /\ Items' = Tail(Append(Items, call[t])) /\ q'.overrun = q.overrun + 1
  /\ WorkKept /\ CallsKept

Refused(t) ==
  /\ pc[t] \in {"post", "woken"}
  /\ \/ Moves(t, "pop_cv")
     \/ PolicyOf(t) # "block" /\ Moves(t, "discard")
  /\ RingKept /\ WorkKept /\ CallsKept

Discards(t) ==
  /\ pc[t] = "discard" /\ Moves(t, "release") /\ discarded' = discarded + 1
  /\ RingKept /\ WorkKept
  /\ UNCHANGED <<policy, refs, call, sent, calls, rejected>>

Notifies(t) ==
  /\ pc[t] = "notify"
  /\ \/ call[t].kind # "terminate" /\ Moves(t, "release") /\ sent' = sent
     \/ /\ call[t].kind = "terminate" /\ sent' = sent + 1
        /\ Moves(t, IF sent' < Cardinality(threads) THEN "post" ELSE "join")
  /\ RingKept /\ WorkKept /\ UNCHANGED <<policy, refs, call, calls, rejected, discarded>>

Releases(t) ==
  /\ pc[t] = "release" \/ (t = Owner /\ pc[t] = "idle" /\ t \in refs)
  /\ refs' = refs \ {t}
  /\ \/ refs' # {} /\ Moves(t, "idle") /\ call' = call
     \/ /\ refs' = {} /\ Moves(t, "post") /\ call'[t] = Terminate(t)
        /\ \A u \in Callers \ {t} : call'[u] = call[u]
  /\ RingKept /\ WorkKept /\ UNCHANGED <<policy, sent, calls, rejected, discarded>>

Joins(t) ==
  /\ pc[t] = "join" /\ Moves(t, "idle")
  /\ RingKept /\ WorkKept /\ CallsKept

Sleeps(w) ==
  /\ pc[w] \in {"idle", "woken"} /\ Moves(w, "push_cv")
  /\ RingKept /\ WorkKept /\ CallsKept

Takes(w) ==
  /\ pc[w] \in {"idle", "woken"} /\ Moves(w, "notify")
  /\ Items # <<>> /\ Items' = Tail(Items) /\ q'.overrun = q.overrun
  /\ job' = [job EXCEPT ![w] = Head(Items)]
  /\ CallsKept /\ UNCHANGED <<written, flushed, handled>>

Begins(w) ==
  /\ pc[w] = "notify"
  /\ Moves(w, IF job[w].kind = "terminate" THEN "exited" ELSE job[w].kind)
  /\ RingKept /\ WorkKept /\ CallsKept

Done(w) ==
  /\ Moves(w, "idle") /\ handled' = handled + 1
  /\ job' = [job EXCEPT ![w] = NoMessage]

Writes(w) ==
  /\ pc[w] \in {"log", "urgent"} /\ written' = Append(written, job[w])
  /\ \/ pc[w] = "urgent" /\ Moves(w, "flush") /\ UNCHANGED <<job, handled>>
     \/ pc[w] = "log" /\ Done(w)
  /\ RingKept /\ CallsKept /\ UNCHANGED flushed

Flushes(w) ==
  /\ pc[w] = "flush" /\ Done(w) /\ flushed' = Len(written)
  /\ RingKept /\ CallsKept /\ UNCHANGED written

Idles == (\A u \in Threads : Stays(u)) /\ RingKept /\ WorkKept /\ CallsKept

CallerFlow(t) ==
  Puts(t) \/ Refused(t) \/ Discards(t) \/ Notifies(t) \/ Releases(t) \/ Joins(t)

WorkerFlow(w) == Sleeps(w) \/ Takes(w) \/ Begins(w) \/ Writes(w) \/ Flushes(w)

Flow ==
  \/ \E c \in Clients : Calls(c)
  \/ \E t \in Callers : CallerFlow(t)
  \/ \E w \in threads : WorkerFlow(w)
  \/ Idles

LEMMA GotoMoves ==
  ASSUME TypeOK, NEW t \in Threads, NEW to, Goto(t, to)
  PROVE  Moves(t, to)
<1>1. pc \in [Threads -> CallerPhase \cup WorkerPhase]
  BY DEF TypeOK
<1> QED BY <1>1 DEF Goto, Moves, Stays

LEMMA NotifyMoves ==
  ASSUME TypeOK, NEW t \in Threads, NEW where \in {"push_cv", "pop_cv"}, NEW to,
         pc[t] = "notify", NotifyOne(t, where, to)
  PROVE  Moves(t, to)
<1>1. pc \in [Threads -> CallerPhase \cup WorkerPhase]
  BY DEF TypeOK
<1> QED BY <1>1 DEF NotifyOne, Goto, Moves, Stays

LEMMA CallerFlows ==
  ASSUME TypeOK, NEW t \in Callers, CallerStep(t)
  PROVE  CallerFlow(t)
<1> USE DEF pool, history
<1>1. t \in Threads
  BY DEF Threads
<1>2. ASSUME UNCHANGED q PROVE RingKept
  BY <1>2 DEF RingKept, Items
<1>3. CASE Post(t)
  <2>1. CASE ~Ring!Full(q) \/ PolicyOf(t) = "overrun_oldest"
    <3>1. q' = Ring!PushBack(q, call[t]) /\ Moves(t, "notify")
      BY <1>1, <1>3, <2>1, GotoMoves DEF Post
    <3>2. Ring!IsRing(q) /\ q.max > 0 /\ call[t] \in Ring!Slot
      BY <1>3 DEF Post, TypeOK, Ring!Slot
    <3>3. \/ Items' = Append(Items, call[t]) /\ q'.overrun = q.overrun
          \/ /\ PolicyOf(t) = "overrun_oldest"
             /\ Items' = Tail(Append(Items, call[t])) /\ q'.overrun = q.overrun + 1
      BY <2>1, <3>1, <3>2, RingPush DEF Items
    <3>4. Puts(t)
      BY <1>3, <3>1, <3>3 DEF Post, Puts, WorkKept, CallsKept
    <3> QED BY <3>4 DEF CallerFlow
  <2>2. CASE ~(~Ring!Full(q) \/ PolicyOf(t) = "overrun_oldest")
    <3>1. q' = q /\ Goto(t, IF PolicyOf(t) = "block" THEN "pop_cv" ELSE "discard")
      BY <1>3, <2>2 DEF Post
    <3>2. Moves(t, IF PolicyOf(t) = "block" THEN "pop_cv" ELSE "discard")
      BY <1>1, <3>1, GotoMoves
    <3>3. Refused(t)
      BY <1>2, <1>3, <3>1, <3>2 DEF Post, Refused, WorkKept, CallsKept
    <3> QED BY <3>3 DEF CallerFlow
  <2> QED BY <2>1, <2>2
<1>4. CASE Discard(t)
  <2>1. Discards(t)
    BY <1>1, <1>2, <1>4, GotoMoves DEF Discard, Discards, WorkKept
  <2> QED BY <2>1 DEF CallerFlow
<1>5. CASE Notify(t)
  <2>1. pc[t] = "notify" /\ q' = q
    BY <1>5 DEF Notify
  <2>2. CASE call[t].kind = "terminate"
    <3>1. Moves(t, IF sent' < Cardinality(threads) THEN "post" ELSE "join")
      BY <1>1, <1>5, <2>1, <2>2, NotifyMoves DEF Notify
    <3>2. Notifies(t)
      BY <1>2, <1>5, <2>1, <2>2, <3>1 DEF Notify, Notifies, WorkKept
    <3> QED BY <3>2 DEF CallerFlow
  <2>3. CASE call[t].kind # "terminate"
    <3>1. Moves(t, "release")
      BY <1>1, <1>5, <2>1, <2>3, NotifyMoves DEF Notify
    <3>2. Notifies(t)
      BY <1>2, <1>5, <2>1, <2>3, <3>1 DEF Notify, Notifies, WorkKept
    <3> QED BY <3>2 DEF CallerFlow
  <2> QED BY <2>2, <2>3
<1>6. CASE Release(t)
  <2>1. /\ refs' = {} => /\ Moves(t, "post") /\ call'[t] = Terminate(t)
                         /\ \A u \in Callers \ {t} : call'[u] = call[u]
        /\ refs' # {} => Moves(t, "idle") /\ call' = call
    BY <1>1, <1>6, GotoMoves DEF Release, TypeOK
  <2>2. Releases(t)
    BY <1>2, <1>6, <2>1 DEF Release, Releases, WorkKept
  <2> QED BY <2>2 DEF CallerFlow
<1>7. CASE Join(t)
  <2>1. Joins(t)
    BY <1>1, <1>2, <1>7, GotoMoves DEF Join, Joins, WorkKept, CallsKept
  <2> QED BY <2>1 DEF CallerFlow
<1> QED BY <1>3, <1>4, <1>5, <1>6, <1>7 DEF CallerStep

LEMMA WorkerFlows ==
  ASSUME TypeOK, NEW w \in Workers, WorkerStep(w)
  PROVE  WorkerFlow(w)
<1> USE DEF pool, history
<1>1. w \in Threads
  BY DEF Threads
<1>2. ASSUME UNCHANGED q PROVE RingKept
  BY <1>2 DEF RingKept, Items
<1>3. CASE Dequeue(w) /\ Ring!Empty(q)
  <2>1. Sleeps(w)
    BY <1>1, <1>2, <1>3, GotoMoves DEF Dequeue, Sleeps, WorkKept, CallsKept
  <2> QED BY <2>1 DEF WorkerFlow
<1>4. CASE Dequeue(w) /\ ~Ring!Empty(q)
  <2>1. /\ q' = Ring!PopFront(Ring!MoveFront(q)) /\ Moves(w, "notify")
        /\ job' = [job EXCEPT ![w] = Ring!Front(q)]
    BY <1>1, <1>4, GotoMoves DEF Dequeue
  <2>2. Ring!IsRing(q) /\ q.max > 0
    BY DEF TypeOK
  <2>3. /\ Items # <<>> /\ Items' = Tail(Items) /\ q'.overrun = q.overrun
        /\ Ring!Front(q) = Head(Items)
    BY <1>4, <2>1, <2>2, Ring!PopTakes DEF Items
  <2>4. Takes(w)
    BY <1>4, <2>1, <2>3 DEF Dequeue, Takes, CallsKept
  <2> QED BY <2>4 DEF WorkerFlow
<1>5. CASE NotifyRoom(w)
  <2>1. Begins(w)
    BY <1>1, <1>2, <1>5, NotifyMoves DEF NotifyRoom, Begins, WorkKept, CallsKept
  <2> QED BY <2>1 DEF WorkerFlow
<1>6. CASE Write(w)
  <2>1. Writes(w)
    BY <1>1, <1>2, <1>6, GotoMoves DEF Write, Finish, Writes, Done, CallsKept
  <2> QED BY <2>1 DEF WorkerFlow
<1>7. CASE Flush(w)
  <2>1. Flushes(w)
    BY <1>1, <1>2, <1>7, GotoMoves DEF Flush, Finish, Flushes, Done, CallsKept
  <2> QED BY <2>1 DEF WorkerFlow
<1> QED BY <1>3, <1>4, <1>5, <1>6, <1>7 DEF WorkerStep

(* Every step of the pool is one of those. *)
LEMMA StepFlows == TypeOK /\ [Next]_vars => Flow
<1> SUFFICES ASSUME TypeOK, [Next]_vars PROVE Flow
  OBVIOUS
<1> USE DEF pool, history
<1>1. threads \subseteq Workers
  BY DEF TypeOK
<1>2. ASSUME UNCHANGED q PROVE RingKept
  BY <1>2 DEF RingKept, Items
<1>3. ASSUME NEW c \in Clients, NEW kind \in Kinds, Call(c, kind) PROVE Flow
  <2>1. c \in Callers /\ c \in Threads /\ kind # "terminate"
    BY ConstantsAssumption DEF Callers, Threads
  <2>2. call' = [call EXCEPT ![c] = [by |-> c, n |-> calls', kind |-> kind]]
    BY <1>3 DEF Call
  <2>3. /\ call'[c].by = c /\ call'[c].n = calls' /\ call'[c].kind # "terminate"
        /\ \A t \in Callers \ {c} : call'[t] = call[t]
    BY <2>1, <2>2 DEF TypeOK
  <2>4. \/ refs = {} /\ refs' = {} /\ rejected' = rejected + 1 /\ pc' = pc
        \/ /\ refs # {} /\ refs' = refs \cup {c} /\ rejected' = rejected
           /\ Moves(c, "post")
    BY <1>3, <2>1, GotoMoves DEF Call
  <2>5. Calls(c)
    BY <1>2, <1>3, <2>3, <2>4 DEF Call, Calls, WorkKept
  <2> QED BY <2>5 DEF Flow
<1>4. ASSUME NEW t \in Threads, SpuriousWake(t) PROVE Flow
  <2>1. Moves(t, "woken") /\ pc[t] \in {"pop_cv", "push_cv"}
    BY <1>4, GotoMoves DEF SpuriousWake
  <2>2. Idles
    BY <1>2, <1>4, <2>1
    DEF SpuriousWake, Idles, Moves, Stays, WorkKept, CallsKept
  <2> QED BY <2>2 DEF Flow
<1>5. CASE UNCHANGED vars
  <2>1. Idles
    BY <1>2, <1>5 DEF vars, Idles, Stays, WorkKept, CallsKept
  <2> QED BY <2>1 DEF Flow
<1>6. ASSUME NEW t \in Callers, CallerStep(t) PROVE Flow
  BY <1>6, CallerFlows DEF Flow
<1>7. ASSUME NEW w \in threads, WorkerStep(w) PROVE Flow
  BY <1>1, <1>7, WorkerFlows DEF Flow
<1> QED BY <1>3, <1>4, <1>5, <1>6, <1>7 DEF Next

-----------------------------------------------------------------------------
(* The messages of a sequence, and sequences sorted by a relation.          *)
Among(s) == {s[i] : i \in DOMAIN s}

Sorted(s, R) == \A i, j \in DOMAIN s : i < j => <<s[i], s[j]>> \in R

LEMMA AppendAmong ==
  ASSUME NEW s \in Seq(Message), NEW x \in Message
  PROVE  Among(Append(s, x)) = Among(s) \cup {x}
<1>1. /\ DOMAIN s = 1 .. Len(s) /\ DOMAIN Append(s, x) = 1 .. Len(s) + 1 /\ Len(s) \in Nat
      /\ \A i \in 1 .. Len(s) : Append(s, x)[i] = s[i]
      /\ Append(s, x)[Len(s) + 1] = x
  OBVIOUS
<1>2. ASSUME NEW i \in DOMAIN Append(s, x) PROVE Append(s, x)[i] \in Among(s) \cup {x}
  <2>1. i \in 1 .. Len(s) \/ i = Len(s) + 1
    BY <1>1
  <2> QED BY <1>1, <2>1 DEF Among
<1>3. ASSUME NEW i \in DOMAIN s PROVE s[i] \in Among(Append(s, x))
  <2>1. i \in DOMAIN Append(s, x) /\ Append(s, x)[i] = s[i]
    BY <1>1
  <2> QED BY <2>1 DEF Among
<1>4. x \in Among(Append(s, x))
  <2>1. Len(s) + 1 \in DOMAIN Append(s, x)
    BY <1>1
  <2> QED BY <1>1, <2>1 DEF Among
<1> QED BY <1>2, <1>3, <1>4 DEF Among

LEMMA TailAmong ==
  ASSUME NEW s \in Seq(Message), s # <<>>
  PROVE  /\ Among(s) = Among(Tail(s)) \cup {Head(s)}
         /\ Tail(s) \in Seq(Message) /\ Head(s) \in Message
<1>1. /\ DOMAIN s = 1 .. Len(s) /\ DOMAIN Tail(s) = 1 .. Len(s) - 1 /\ Len(s) \in Nat \ {0}
      /\ \A i \in 1 .. Len(s) - 1 : Tail(s)[i] = s[i + 1]
      /\ Head(s) = s[1]
      /\ Tail(s) \in Seq(Message) /\ Head(s) \in Message
  OBVIOUS
<1>2. ASSUME NEW i \in DOMAIN Tail(s) PROVE Tail(s)[i] \in Among(s)
  <2>1. i + 1 \in DOMAIN s /\ Tail(s)[i] = s[i + 1]
    BY <1>1
  <2> QED BY <2>1 DEF Among
<1>3. ASSUME NEW i \in DOMAIN s PROVE s[i] \in Among(Tail(s)) \cup {Head(s)}
  <2>1. CASE i = 1
    BY <1>1, <2>1
  <2>2. CASE i # 1
    <3>1. i - 1 \in DOMAIN Tail(s) /\ Tail(s)[i - 1] = s[(i - 1) + 1] /\ (i - 1) + 1 = i
      BY <1>1, <2>2
    <3> QED BY <3>1 DEF Among
  <2> QED BY <2>1, <2>2
<1>4. Head(s) \in Among(s)
  <2>1. 1 \in DOMAIN s
    BY <1>1
  <2> QED BY <1>1, <2>1 DEF Among
<1> QED BY <1>1, <1>2, <1>3, <1>4 DEF Among

LEMMA AppendSorted ==
  ASSUME NEW R, NEW s \in Seq(Message), NEW x \in Message,
         Sorted(s, R), \A m \in Among(s) : <<m, x>> \in R
  PROVE  Sorted(Append(s, x), R)
<1>1. /\ DOMAIN s = 1 .. Len(s) /\ DOMAIN Append(s, x) = 1 .. Len(s) + 1 /\ Len(s) \in Nat
      /\ \A i \in 1 .. Len(s) : Append(s, x)[i] = s[i]
      /\ Append(s, x)[Len(s) + 1] = x
  OBVIOUS
<1>2. \A i \in 1 .. Len(s) : <<s[i], x>> \in R
  BY <1>1 DEF Among
<1>3. ASSUME NEW i \in DOMAIN Append(s, x), NEW j \in DOMAIN Append(s, x), i < j
      PROVE  <<Append(s, x)[i], Append(s, x)[j]>> \in R
  <2>1. i \in 1 .. Len(s) /\ (j \in 1 .. Len(s) \/ j = Len(s) + 1)
    BY <1>1, <1>3
  <2>2. Append(s, x)[i] = s[i]
    BY <1>1, <2>1
  <2>3. CASE j \in 1 .. Len(s)
    BY <1>1, <1>3, <2>1, <2>2, <2>3 DEF Sorted
  <2>4. CASE j = Len(s) + 1
    BY <1>1, <1>2, <2>1, <2>2, <2>4
  <2> QED BY <2>1, <2>3, <2>4
<1> QED BY <1>3 DEF Sorted

LEMMA TailSorted ==
  ASSUME NEW R, NEW s \in Seq(Message), s # <<>>, Sorted(s, R)
  PROVE  Sorted(Tail(s), R) /\ \A m \in Among(Tail(s)) : <<Head(s), m>> \in R
<1>1. /\ DOMAIN s = 1 .. Len(s) /\ DOMAIN Tail(s) = 1 .. Len(s) - 1 /\ Len(s) \in Nat \ {0}
      /\ \A i \in 1 .. Len(s) - 1 : Tail(s)[i] = s[i + 1]
      /\ Head(s) = s[1]
  OBVIOUS
<1>2. ASSUME NEW i \in DOMAIN Tail(s), NEW j \in DOMAIN Tail(s), i < j
      PROVE  <<Tail(s)[i], Tail(s)[j]>> \in R
  <2>1. i + 1 \in DOMAIN s /\ j + 1 \in DOMAIN s /\ i + 1 < j + 1
    BY <1>1, <1>2
  <2> QED BY <1>1, <2>1 DEF Sorted
<1>3. ASSUME NEW i \in DOMAIN Tail(s) PROVE <<Head(s), Tail(s)[i]>> \in R
  <2>1. 1 \in DOMAIN s /\ i + 1 \in DOMAIN s /\ 1 < i + 1
    BY <1>1
  <2> QED BY <1>1, <2>1 DEF Sorted
<1> QED BY <1>2, <1>3 DEF Sorted, Among

(* A push leaves the queued messages and perhaps the new one, in that order. *)
LEMMA PutItems ==
  ASSUME TypeOK, NEW t \in Callers, Puts(t)
  PROVE  /\ call[t] \in Message /\ Items \in Seq(Message)
         /\ Among(Items') \subseteq Among(Items) \cup {call[t]}
         /\ \A R : /\ Sorted(Items, R)
                   /\ \A m \in Among(Items) : <<m, call[t]>> \in R
                   => Sorted(Items', R)
<1>1. call[t] \in Message /\ Items \in Seq(Message)
  BY DEF TypeOK, Puts, Items
<1> DEFINE s == Append(Items, call[t])
<1>2. s \in Seq(Message) /\ s # <<>> /\ Among(s) = Among(Items) \cup {call[t]}
  BY <1>1, AppendAmong
<1>3. Items' = s \/ Items' = Tail(s)
  BY DEF Puts
<1>4. \A R : /\ Sorted(Items, R)
             /\ \A m \in Among(Items) : <<m, call[t]>> \in R
             => Sorted(s, R)
  BY <1>1, AppendSorted
<1> HIDE DEF s
<1>5. \A R : Sorted(s, R) => Sorted(Tail(s), R)
  BY <1>2, TailSorted
<1>6. Among(Tail(s)) \subseteq Among(s)
  BY <1>2, TailAmong
<1> QED BY <1>1, <1>2, <1>3, <1>4, <1>5, <1>6

LEMMA TakeItems ==
  ASSUME TypeOK, NEW w, Takes(w)
  PROVE  /\ Among(Items) = Among(Items') \cup {Head(Items)}
         /\ Head(Items) \in Message /\ Items \in Seq(Message)
         /\ \A R : Sorted(Items, R) =>
              /\ Sorted(Items', R)
              /\ \A m \in Among(Items') : <<Head(Items), m>> \in R
<1>1. Items \in Seq(Message) /\ Items # <<>> /\ Items' = Tail(Items)
  BY DEF TypeOK, Takes, Items
<1> QED BY <1>1, TailAmong, TailSorted

(* The only steps that change what is queued. *)
LEMMA ItemsFlow ==
  Flow => \/ Items' = Items
          \/ \E t \in Callers : Puts(t)
          \/ \E w \in threads : Takes(w)
BY DEF Flow, CallerFlow, WorkerFlow, Calls, Refused, Discards, Notifies, Releases, Joins,
       Sleeps, Begins, Writes, Flushes, Idles, RingKept

(* A worker holds what it held, or nothing, or what it takes. *)
LEMMA JobsFlow ==
  ASSUME TypeOK, Flow, NEW w \in Workers
  PROVE  job'[w] = job[w] \/ job'[w] = NoMessage \/ (Takes(w) /\ job'[w] = Head(Items))
<1>1. job \in [Workers -> Message \cup {NoMessage}] /\ threads \subseteq Workers
  BY DEF TypeOK
<1>2. \/ job' = job
      \/ \E u \in threads : job' = [job EXCEPT ![u] = NoMessage]
      \/ \E u \in threads : Takes(u)
  BY DEF Flow, CallerFlow, WorkerFlow, Calls, Puts, Refused, Discards, Notifies, Releases,
         Joins, Sleeps, Begins, Writes, Flushes, Idles, Done, WorkKept
<1>3. ASSUME NEW u \in threads, Takes(u)
      PROVE  job'[w] = job[w] \/ (Takes(w) /\ job'[w] = Head(Items))
  <2>1. job' = [job EXCEPT ![u] = Head(Items)]
    BY <1>3 DEF Takes
  <2> QED BY <1>1, <1>3, <2>1
<1> QED BY <1>1, <1>2, <1>3

Pending(t) == pc[t] \in {"post", "woken", "pop_cv"}

(* The queue is sorted by R and behind what the workers hold. *)
Line(R) ==
  /\ Sorted(Items, R)
  /\ \A w \in Workers : job[w] # NoMessage => \A m \in Among(Items) : <<job[w], m>> \in R

LEMMA LineStep ==
  ASSUME TypeOK, Flow, NEW R, Line(R),
         ASSUME NEW t \in Callers, Pending(t)
         PROVE  /\ \A m \in Among(Items) : <<m, call[t]>> \in R
                /\ \A w \in Workers : job[w] # NoMessage => <<job[w], call[t]>> \in R
  PROVE  Line(R)'
<1>1. threads \subseteq Workers
  BY DEF TypeOK
<1>2. CASE Items' = Items
  <2>1. \A w \in Workers : job'[w] = job[w] \/ job'[w] = NoMessage \/ Takes(w)
    BY JobsFlow
  <2>2. ASSUME NEW w \in Workers, Takes(w) PROVE FALSE
    <3>1. Items \in Seq(Message) /\ Items # <<>> /\ Items' = Tail(Items)
      BY <2>2 DEF TypeOK, Takes, Items
    <3>2. Len(Tail(Items)) # Len(Items)
      BY <3>1
    <3> QED BY <1>2, <3>1, <3>2
  <2> QED BY <1>2, <2>1, <2>2 DEF Line
<1>3. ASSUME NEW t \in Callers, Puts(t) PROVE Line(R)'
  <2>1. Pending(t) /\ job' = job
    BY <1>3 DEF Puts, Pending, WorkKept
  <2>2. /\ Among(Items') \subseteq Among(Items) \cup {call[t]}
        /\ Sorted(Items', R)
    BY <1>3, <2>1, PutItems DEF Line
  <2> QED BY <2>1, <2>2 DEF Line
<1>4. ASSUME NEW u \in threads, Takes(u) PROVE Line(R)'
  <2>1. /\ Among(Items) = Among(Items') \cup {Head(Items)}
        /\ Sorted(Items', R)
        /\ \A m \in Among(Items') : <<Head(Items), m>> \in R
    BY <1>1, <1>4, TakeItems DEF Line
  <2>2. ASSUME NEW w \in Workers, job'[w] # NoMessage, NEW m \in Among(Items')
        PROVE  <<job'[w], m>> \in R
    <3>1. job'[w] = job[w] \/ job'[w] = Head(Items)
      BY <2>2, JobsFlow
    <3> QED BY <2>1, <2>2, <3>1 DEF Line
  <2> QED BY <2>1, <2>2 DEF Line
<1> QED BY <1>2, <1>3, <1>4, ItemsFlow

-----------------------------------------------------------------------------
(* The thread in ~thread_pool(), and the pool's life around it: while       *)
(* somebody owns the pool nobody is in there and no terminate message       *)
(* exists; afterwards nobody is in a call, and one thread at most is in it. *)
Rites == {t \in Callers : pc[t] # "idle" /\ call[t].kind = "terminate"}

Owned ==
  /\ \A c \in Clients : pc[c] # "idle" /\ call[c].kind # "terminate" => c \in refs
  /\ pc[Owner] # "idle" => call[Owner].kind = "terminate"

LastOwner ==
  /\ \A t, u \in Rites : t = u
  /\ \A t \in Rites : /\ refs = {}
                      /\ pc[t] \in {"post", "woken", "pop_cv", "notify", "join"}
                      /\ pc[t] # "join" => sent < Cardinality(threads)
  /\ sent <= Cardinality(threads)

Terminating(m) == m # NoMessage /\ m.kind = "terminate"

AliveTillThen ==
  refs # {} => /\ sent = 0
               /\ \A m \in Among(Items) : m.kind # "terminate"
               /\ \A w \in Workers : ~Terminating(job[w])

Lifetime == Owned /\ LastOwner /\ AliveTillThen

LEMMA Crew ==
  ASSUME TypeOK
  PROVE  /\ threads \subseteq Workers /\ Cardinality(threads) \in Nat \ {0}
         /\ Clients \subseteq Callers /\ Owner \in Callers /\ Callers = Clients \cup {Owner}
         /\ Callers \subseteq Threads /\ Workers \subseteq Threads
         /\ Callers \cap Workers = {} /\ Owner \notin Clients
<1>1. threads \subseteq Workers /\ threads # {}
  BY DEF TypeOK
<1>2. IsFiniteSet(threads)
  BY <1>1, FS_Subset, ThreadsAssumption
<1>3. Cardinality(threads) \in Nat /\ Cardinality(threads) # 0
  BY <1>1, <1>2, FS_CardinalityType, FS_EmptySet
<1> QED BY <1>1, <1>3, ThreadsAssumption DEF Callers, Threads

(* Nobody in a call: the callers that are not idle are in ~thread_pool(). *)
LEMMA CallersDone ==
  ASSUME TypeOK, Owned, refs = {}, NEW t \in Callers, pc[t] # "idle"
  PROVE  t \in Rites
<1>1. t \in Clients \/ t = Owner
  BY Crew
<1> QED BY <1>1 DEF Owned, Rites

LEMMA WorkerSparesCallers ==
  ASSUME TypeOK, NEW w \in threads, WorkerFlow(w)
  PROVE  /\ \A t \in Callers : Stays(t)
         /\ CallsKept
<1>1. w \notin Callers
  BY Crew
<1>2. \E to : Moves(w, to)
  BY DEF WorkerFlow, Sleeps, Takes, Begins, Writes, Flushes, Done
<1>3. \A t \in Callers : Stays(t)
  BY <1>1, <1>2, Crew DEF Moves
<1>4. CallsKept
  BY DEF WorkerFlow, Sleeps, Takes, Begins, Writes, Flushes
<1> QED BY <1>3, <1>4

(* Callers that only stay keep what is said of them. *)
LEMMA StaysOwned ==
  ASSUME TypeOK, Owned, LastOwner, \A t \in Callers : Stays(t), CallsKept
  PROVE  Owned' /\ LastOwner'
<1>1. Clients \subseteq Callers /\ Owner \in Callers
  BY Crew
<1>2. \A t \in Callers : pc'[t] # "idle" => pc[t] # "idle"
  BY DEF Stays
<1>3. Owned'
  BY <1>1, <1>2 DEF Owned, CallsKept
<1>4. Rites' \subseteq Rites
  BY <1>2 DEF Rites, CallsKept
<1>5. \A t \in Rites : pc'[t] = pc[t] \/ (pc[t] # "join" /\ pc'[t] = "woken")
  BY DEF Stays, Rites
<1>6. LastOwner'
  BY <1>4, <1>5 DEF LastOwner, CallsKept
<1> QED BY <1>3, <1>6

LEMMA OwnedStep ==
  ASSUME TypeOK, Lifetime, Flow
  PROVE  Owned'
<1> USE Crew DEF Lifetime
<1>1. ASSUME NEW c \in Clients, Calls(c) PROVE Owned'
  <2>1. CASE pc' = pc /\ refs' = refs
    BY <1>1, <2>1 DEF Calls, Owned
  <2>2. CASE Moves(c, "post") /\ refs' = refs \cup {c}
    BY <1>1, <2>2 DEF Calls, Owned, Moves, Stays
  <2> QED BY <1>1, <2>1, <2>2 DEF Calls
<1>2. ASSUME NEW t \in Callers, CallerFlow(t) PROVE Owned'
  <2>1. PICK to : Moves(t, to)
    BY <1>2 DEF CallerFlow, Puts, Refused, Discards, Notifies, Releases, Joins
  <2>2. \A u \in Callers \ {t} : pc'[u] # "idle" => pc[u] # "idle"
    BY <2>1 DEF Moves, Stays
  <2>3. CASE Releases(t)
    <3>1. refs' = refs \ {t} /\ \A u \in Callers \ {t} : call'[u] = call[u]
      BY <2>3 DEF Releases
    <3>2. pc'[t] # "idle" => call'[t].kind = "terminate"
      BY <2>3, MessageKinds DEF Releases, Moves
    <3> QED BY <2>2, <3>1, <3>2 DEF Owned
  <2>4. CASE ~Releases(t)
    <3>1. refs' = refs /\ call' = call /\ pc[t] # "idle"
      BY <1>2, <2>4 DEF CallerFlow, Puts, Refused, Discards, Notifies, Joins, CallsKept
    <3> QED BY <2>2, <3>1 DEF Owned
  <2> QED BY <2>3, <2>4
<1>3. ASSUME NEW w \in threads, WorkerFlow(w) PROVE Owned'
  BY <1>3, WorkerSparesCallers, StaysOwned
<1>4. CASE Idles
  BY <1>4, StaysOwned DEF Idles
<1> QED BY <1>1, <1>2, <1>3, <1>4 DEF Flow

LEMMA LastOwnerStep ==
  ASSUME TypeOK, Lifetime, Flow
  PROVE  LastOwner'
<1> USE Crew DEF Lifetime
<1>0. sent \in Nat
  BY DEF TypeOK
<1>1. ASSUME NEW c \in Clients, Calls(c) PROVE LastOwner'
  <2>1. Rites' \subseteq Rites /\ sent' = sent /\ threads' = threads
    <3>1. CASE pc' = pc
      BY <1>1, <3>1 DEF Calls, Rites, WorkKept
    <3>2. CASE Moves(c, "post")
      BY <1>1, <3>2 DEF Calls, Rites, WorkKept, Moves, Stays
    <3> QED BY <1>1, <3>1, <3>2 DEF Calls
  <2>2. CASE refs # {}
    BY <2>1, <2>2 DEF LastOwner
  <2>3. CASE refs = {}
    BY <1>1, <2>1, <2>3 DEF LastOwner, Calls, Moves, Stays
  <2> QED BY <2>2, <2>3
<1>2. ASSUME NEW t \in Callers, CallerFlow(t) PROVE LastOwner'
  <2>1. PICK to : Moves(t, to)
    BY <1>2 DEF CallerFlow, Puts, Refused, Discards, Notifies, Releases, Joins
  <2>2. \A u \in Callers \ {t} : pc'[u] # "idle" => pc[u] # "idle"
    BY <2>1 DEF Moves, Stays
  <2>3. threads' = threads
    BY <1>2 DEF CallerFlow, Puts, Refused, Discards, Notifies, Releases, Joins, WorkKept
  <2>4. CASE Releases(t)
    <3>1. /\ sent' = sent /\ refs' = refs \ {t}
          /\ \A u \in Callers \ {t} : call'[u] = call[u]
      BY <2>4 DEF Releases
    <3>2. t \in refs
      <4>1. t = Owner \/ t \in Clients
        OBVIOUS
      <4>2. CASE pc[t] = "release"
        <5>1. t \notin Rites
          BY <4>2 DEF LastOwner
        <5> QED BY <4>1, <4>2, <5>1 DEF Owned, Rites
      <4> QED BY <2>4, <4>2 DEF Releases
    <3>3. Rites = {} /\ sent = 0
      BY <3>2 DEF LastOwner, AliveTillThen
    <3>4. Rites' \subseteq {t}
      BY <2>2, <3>1, <3>3 DEF Rites
    <3>5. t \in Rites' => refs' = {} /\ pc'[t] = "post"
      <4>1. CASE refs' # {}
        BY <2>4, <4>1 DEF Releases, Moves, Rites
      <4>2. CASE refs' = {}
        BY <2>4, <4>2 DEF Releases, Moves
      <4> QED BY <4>1, <4>2
    <3> QED BY <2>3, <3>1, <3>3, <3>4, <3>5 DEF LastOwner
  <2>5. CASE ~Releases(t)
    <3>1. refs' = refs /\ call' = call /\ pc[t] # "idle"
      BY <1>2, <2>5 DEF CallerFlow, Puts, Refused, Discards, Notifies, Joins, CallsKept
    <3>2. Rites' \subseteq Rites /\ (t \in Rites' => t \in Rites)
      BY <2>2, <3>1 DEF Rites
    <3>3. \A u \in Rites \ {t} : pc'[u] = pc[u] \/ (pc[u] # "join" /\ pc'[u] = "woken")
      BY <2>1 DEF Moves, Stays, Rites
    <3>4. CASE t \notin Rites
      <4>1. sent' = sent
        BY <1>2, <2>5, <3>1, <3>4
        DEF CallerFlow, Puts, Refused, Discards, Notifies, Joins, CallsKept, Rites
      <4> QED BY <2>3, <3>1, <3>2, <3>3, <3>4, <4>1 DEF LastOwner
    <3>5. CASE t \in Rites
      <4>1. Rites = {t} /\ refs = {} /\ call[t].kind = "terminate"
        BY <3>5 DEF LastOwner, Rites
      <4>2. PolicyOf(t) = "block"
        BY <4>1 DEF PolicyOf
      <4>3. CASE Notifies(t)
        <5>1. sent' = sent + 1 /\ sent < Cardinality(threads)
          BY <3>5, <4>1, <4>3 DEF Notifies, LastOwner
        <5>2. pc'[t] = IF sent' < Cardinality(threads) THEN "post" ELSE "join"
          BY <4>1, <4>3 DEF Notifies, Moves
        <5> QED BY <1>0, <2>3, <3>1, <3>2, <4>1, <5>1, <5>2 DEF LastOwner
      <4>4. CASE ~Notifies(t)
        <5>1. sent' = sent
          BY <1>2, <2>5, <4>4
          DEF CallerFlow, Puts, Refused, Discards, Joins, CallsKept
        <5>2. pc'[t] \in {"idle", "notify", "pop_cv"} /\ (pc'[t] # "idle" => pc[t] # "join")
          BY <1>2, <2>5, <3>5, <4>2, <4>4
          DEF CallerFlow, Puts, Refused, Discards, Joins, Moves, LastOwner
        <5>3. pc'[t] = "idle" => Rites' = {}
          BY <3>2, <4>1 DEF Rites
        <5> QED BY <2>3, <3>1, <3>2, <3>5, <4>1, <5>1, <5>2, <5>3 DEF LastOwner
      <4> QED BY <4>3, <4>4
    <3> QED BY <3>4, <3>5
  <2> QED BY <2>4, <2>5
<1>3. ASSUME NEW w \in threads, WorkerFlow(w) PROVE LastOwner'
  BY <1>3, WorkerSparesCallers, StaysOwned
<1>4. CASE Idles
  BY <1>4, StaysOwned DEF Idles
<1> QED BY <1>1, <1>2, <1>3, <1>4 DEF Flow

LEMMA AliveStep ==
  ASSUME TypeOK, Lifetime, Flow
  PROVE  AliveTillThen'
<1> USE Crew DEF Lifetime
<1> SUFFICES ASSUME refs' # {}
             PROVE  /\ sent' = 0
                    /\ \A m \in Among(Items') : m.kind # "terminate"
                    /\ \A w \in Workers : ~Terminating(job'[w])
  BY DEF AliveTillThen
<1>1. refs # {}
  BY DEF Flow, CallerFlow, WorkerFlow, Calls, Puts, Refused, Discards, Notifies, Releases,
         Joins, Sleeps, Takes, Begins, Writes, Flushes, Idles, CallsKept
<1>2. /\ sent = 0 /\ \A m \in Among(Items) : m.kind # "terminate"
      /\ \A w \in Workers : ~Terminating(job[w])
      /\ Rites = {}
  BY <1>1 DEF AliveTillThen, LastOwner
<1>3. sent' = 0
  <2>1. ASSUME NEW t \in Callers, Notifies(t) PROVE sent' = sent
    BY <1>2, <2>1 DEF Notifies, Rites
  <2> QED
    BY <1>2, <2>1
    DEF Flow, CallerFlow, WorkerFlow, Calls, Puts, Refused, Discards, Releases,
        Joins, Sleeps, Takes, Begins, Writes, Flushes, Idles, CallsKept
<1>4. \A m \in Among(Items') : m.kind # "terminate"
  <2>1. ASSUME NEW t \in Callers, Puts(t) PROVE \A m \in Among(Items') : m.kind # "terminate"
    <3>1. call[t].kind # "terminate"
      BY <1>2, <2>1 DEF Puts, Rites
    <3> QED BY <1>2, <2>1, <3>1, PutItems
  <2>2. ASSUME NEW w \in threads, Takes(w)
        PROVE  \A m \in Among(Items') : m.kind # "terminate"
    BY <1>2, <2>2, TakeItems
  <2> QED BY <1>2, <2>1, <2>2, ItemsFlow
<1>5. ASSUME NEW w \in Workers PROVE ~Terminating(job'[w])
  <2>1. Takes(w) => Head(Items).kind # "terminate"
    BY <1>2, TakeItems
  <2> QED BY <1>2, <2>1, JobsFlow DEF Terminating
<1> QED BY <1>3, <1>4, <1>5

(* What a worker does is what its message asks for; those not hired rest. *)
Employment ==
  /\ \A w \in Workers \ threads : pc[w] = "idle"
  /\ \A w \in Workers :
       /\ pc[w] \in {"log", "urgent"} => job[w].kind = pc[w]
       /\ pc[w] = "flush" => job[w].kind \in {"urgent", "flush"}
       /\ pc[w] = "exited" => job[w].kind = "terminate"

LEMMA StaysEmployed ==
  ASSUME TypeOK, Employment, NEW w \in Workers, Stays(w), job'[w] = job[w]
  PROVE  /\ pc[w] = "idle" => pc'[w] = "idle"
         /\ pc'[w] \in {"log", "urgent"} => job'[w].kind = pc'[w]
         /\ pc'[w] = "flush" => job'[w].kind \in {"urgent", "flush"}
         /\ pc'[w] = "exited" => job'[w].kind = "terminate"
BY DEF Employment, Stays

LEMMA EmploymentStep ==
  ASSUME TypeOK, Employment, Flow
  PROVE  Employment'
<1> USE Crew
<1>1. threads' = threads
  BY DEF Flow, CallerFlow, WorkerFlow, Calls, Puts, Refused, Discards, Notifies, Releases,
         Joins, Sleeps, Takes, Begins, Writes, Flushes, Idles, WorkKept, CallsKept
<1>2. CASE job' = job /\ \A w \in Workers : Stays(w)
  BY <1>1, <1>2, StaysEmployed DEF Employment
<1>3. ASSUME NEW c \in Clients, Calls(c) PROVE Employment'
  <2>1. job' = job /\ \A w \in Workers : Stays(w)
    BY <1>3 DEF Calls, WorkKept, Moves, Stays
  <2> QED BY <1>2, <2>1
<1>4. ASSUME NEW t \in Callers, CallerFlow(t) PROVE Employment'
  <2>1. job' = job /\ \E to : Moves(t, to)
    BY <1>4 DEF CallerFlow, Puts, Refused, Discards, Notifies, Releases, Joins, WorkKept
  <2>2. \A w \in Workers : Stays(w)
    BY <2>1 DEF Moves
  <2> QED BY <1>2, <2>1, <2>2
<1>5. ASSUME NEW w \in threads, WorkerFlow(w) PROVE Employment'
  <2>1. PICK to : Moves(w, to)
    BY <1>5 DEF WorkerFlow, Sleeps, Takes, Begins, Writes, Flushes, Done
  <2>2. job \in [Workers -> Message \cup {NoMessage}]
    BY DEF TypeOK
  <2>3. \A u \in Workers \ {w} : Stays(u) /\ job'[u] = job[u]
    BY <1>5, <2>1, <2>2
    DEF WorkerFlow, Sleeps, Takes, Begins, Writes, Flushes, Done, WorkKept, Moves
  <2>4. /\ pc'[w] \in {"log", "urgent"} => job'[w].kind = pc'[w]
        /\ pc'[w] = "flush" => job'[w].kind \in {"urgent", "flush"}
        /\ pc'[w] = "exited" => job'[w].kind = "terminate"
    <3>1. CASE Sleeps(w) \/ Takes(w) \/ Flushes(w)
      BY <3>1 DEF Sleeps, Takes, Flushes, Done, Moves
    <3>2. CASE Begins(w)
      <4>1. job' = job /\ job[w] \in Message
        BY <3>2 DEF Begins, WorkKept, TypeOK
      <4>2. job[w].kind \in {"log", "urgent", "flush", "terminate"}
        BY <4>1, MessageKinds
      <4> QED BY <3>2, <4>1, <4>2 DEF Begins, Moves
    <3>3. CASE Writes(w)
      BY <3>3 DEF Writes, Done, Moves, Employment
    <3> QED BY <1>5, <3>1, <3>2, <3>3 DEF WorkerFlow
  <2>5. ASSUME NEW u \in Workers \ {w}
        PROVE  /\ pc[u] = "idle" => pc'[u] = "idle"
               /\ pc'[u] \in {"log", "urgent"} => job'[u].kind = pc'[u]
               /\ pc'[u] = "flush" => job'[u].kind \in {"urgent", "flush"}
               /\ pc'[u] = "exited" => job'[u].kind = "terminate"
    BY <2>3, StaysEmployed
  <2> QED BY <1>1, <2>4, <2>5 DEF Employment
<1>6. CASE Idles
  BY <1>2, <1>6 DEF Idles, WorkKept
<1> QED BY <1>3, <1>4, <1>5, <1>6 DEF Flow

LEMMA LifetimeInit == Init => Lifetime /\ Employment
<1> SUFFICES ASSUME Init PROVE Lifetime /\ Employment
  OBVIOUS
<1>1. TypeOK
  BY TypeInit
<1>2. /\ \A t \in Threads : pc[t] = "idle"
      /\ sent = 0 /\ \A w \in Workers : job[w] = NoMessage
  BY DEF Init
<1>3. Items = <<>>
  <2>1. PICK n \in QueueSizes : q = Ring!New(n)
    BY DEF Init
  <2> QED BY <2>1, ConstantsAssumption, Ring!NewIsEmpty DEF Items
<1>4. Among(Items) = {}
  BY <1>3 DEF Among
<1>5. Rites = {}
  BY <1>1, <1>2, Crew DEF Rites
<1> QED
  BY <1>1, <1>2, <1>4, <1>5, Crew
  DEF Lifetime, Owned, LastOwner, AliveTillThen, Terminating, Employment

LEMMA LifetimeHolds == SafetySpec => [](TypeOK /\ Lifetime /\ Employment)
<1>1. TypeOK /\ Lifetime /\ Employment /\ [Next]_vars => Lifetime' /\ Employment'
  BY StepFlows, OwnedStep, LastOwnerStep, AliveStep, EmploymentStep DEF Lifetime
<1> QED BY <1>1, LifetimeInit, TypeCorrect, PTL DEF SafetySpec

-----------------------------------------------------------------------------
(* How many messages of a sequence are in a set.                            *)
Positions(s, K) == {i \in DOMAIN s : s[i] \in K}

Count(s, K) == Cardinality(Positions(s, K))

LEMMA Shifted ==
  ASSUME NEW S, NEW T, S \subseteq Int, T \subseteq Int, IsFiniteSet(S),
         \A i \in Int : i \in T <=> i + 1 \in S
  PROVE  IsFiniteSet(T) /\ Cardinality(T) = Cardinality(S)
<1> DEFINE f == [i \in S |-> i - 1]
<1>1. f \in [S -> T]
  OBVIOUS
<1>2. \A i, j \in S : f[i] = f[j] => i = j
  OBVIOUS
<1>3. \A j \in T : \E i \in S : f[i] = j
  <2>1. TAKE j \in T
  <2>2. j + 1 \in S /\ f[j + 1] = j
    OBVIOUS
  <2> QED BY <2>2
<1>4. DOMAIN f = S
  OBVIOUS
<1> HIDE DEF f
<1>5. f \in Bijection(S, T)
  BY <1>1, <1>2, <1>3, <1>4 DEF Bijection, Injection, Surjection, IsInjective
<1>6. ExistsBijection(S, T)
  BY <1>5 DEF ExistsBijection
<1> QED BY <1>6, FS_Bijection

LEMMA CountType ==
  ASSUME NEW s \in Seq(Message), NEW K
  PROVE  /\ IsFiniteSet(Positions(s, K)) /\ Count(s, K) \in Nat
         /\ Positions(s, K) \subseteq 1 .. Len(s)
         /\ Count(s, K) = 0 <=> \A m \in Among(s) : m \notin K
<1>1. DOMAIN s = 1 .. Len(s) /\ Len(s) \in Nat
  OBVIOUS
<1>2. IsFiniteSet(1 .. Len(s))
  BY <1>1, FS_Interval
<1>3. Positions(s, K) \subseteq 1 .. Len(s)
  BY <1>1 DEF Positions
<1>4. IsFiniteSet(Positions(s, K))
  BY <1>2, <1>3, FS_Subset
<1>5. Count(s, K) \in Nat /\ (Count(s, K) = 0 <=> Positions(s, K) = {})
  BY <1>4, FS_CardinalityType, FS_EmptySet DEF Count
<1>6. Positions(s, K) = {} <=> \A m \in Among(s) : m \notin K
  BY DEF Positions, Among
<1> QED BY <1>3, <1>4, <1>5, <1>6

LEMMA AppendCount ==
  ASSUME NEW s \in Seq(Message), NEW x \in Message, NEW K
  PROVE  Count(Append(s, x), K) = Count(s, K) + IF x \in K THEN 1 ELSE 0
<1> DEFINE t == Append(s, x)
<1>1. /\ t \in Seq(Message) /\ DOMAIN s = 1 .. Len(s) /\ DOMAIN t = 1 .. Len(s) + 1
      /\ Len(s) \in Nat /\ t[Len(s) + 1] = x
      /\ \A i \in 1 .. Len(s) : t[i] = s[i]
  OBVIOUS
<1> HIDE DEF t
<1>2. /\ IsFiniteSet(Positions(s, K)) /\ Count(s, K) \in Nat
      /\ Len(s) + 1 \notin Positions(s, K)
  BY <1>1, CountType
<1>3. CASE x \in K
  <2>1. Positions(t, K) = Positions(s, K) \cup {Len(s) + 1}
    BY <1>1, <1>3 DEF Positions
  <2>2. Cardinality(Positions(t, K)) = Cardinality(Positions(s, K)) + 1
    BY <1>2, <2>1, FS_AddElement
  <2> QED BY <1>3, <2>2 DEF Count, t
<1>4. CASE x \notin K
  <2>1. Positions(t, K) = Positions(s, K)
    BY <1>1, <1>4 DEF Positions
  <2> QED BY <1>2, <1>4, <2>1 DEF Count, t
<1> QED BY <1>3, <1>4

LEMMA TailCount ==
  ASSUME NEW s \in Seq(Message), s # <<>>, NEW K
  PROVE  Count(s, K) = Count(Tail(s), K) + IF Head(s) \in K THEN 1 ELSE 0
<1> DEFINE t == Tail(s)
           P == Positions(s, K) \ {1}
<1>1. /\ t \in Seq(Message) /\ DOMAIN s = 1 .. Len(s) /\ DOMAIN t = 1 .. Len(s) - 1
      /\ Len(s) \in Nat \ {0} /\ Head(s) = s[1]
      /\ \A i \in 1 .. Len(s) - 1 : t[i] = s[i + 1]
  OBVIOUS
<1> HIDE DEF t
<1>2. IsFiniteSet(Positions(s, K)) /\ Positions(s, K) \subseteq Int
  BY <1>1, CountType
<1>3. /\ IsFiniteSet(P)
      /\ Cardinality(Positions(s, K)) = Cardinality(P) + IF Head(s) \in K THEN 1 ELSE 0
  <2>1. 1 \in Positions(s, K) <=> Head(s) \in K
    BY <1>1 DEF Positions
  <2>2. Cardinality(Positions(s, K)) \in Nat
    BY <1>2, FS_CardinalityType
  <2>3. /\ IsFiniteSet(P)
        /\ Cardinality(P) = IF 1 \in Positions(s, K) THEN Cardinality(Positions(s, K)) - 1
                            ELSE Cardinality(Positions(s, K))
    BY <1>2, FS_RemoveElement
  <2> QED BY <2>1, <2>2, <2>3
<1>4. \A i \in Int : i \in Positions(t, K) <=> i + 1 \in P
  <2>1. ASSUME NEW i \in Int PROVE i \in Positions(t, K) <=> i + 1 \in P
    <3>1. /\ i + 1 \in Int
          /\ i \in DOMAIN t <=> i + 1 \in DOMAIN s /\ i + 1 # 1
      BY <1>1
    <3>2. i \in DOMAIN t => t[i] = s[i + 1]
      BY <1>1
    <3> QED BY <3>1, <3>2 DEF Positions
  <2> QED BY <2>1
<1>5. Positions(t, K) \subseteq Int /\ P \subseteq Int
  BY <1>1, <1>2, CountType
<1>6. Cardinality(Positions(t, K)) = Cardinality(P)
  <2> HIDE DEF P
  <2> QED BY <1>3, <1>4, <1>5, Shifted
<1> QED BY <1>3, <1>6 DEF Count, t

Last == {m \in Message : m.kind = "terminate"}
Rest == {m \in Message : m.kind # "terminate"}

(* The positions of the ring counted from 0 are those of its contents. *)
LEMMA RingCount ==
  ASSUME TypeOK
  PROVE  /\ Cardinality(Queued) = Count(Items, Rest)
         /\ Cardinality({i \in 0 .. Ring!Size(q) - 1 : Ring!At(q, i).kind = "terminate"})
              = Count(Items, Last)
         /\ \A i \in 0 .. Ring!Size(q) - 1 : Ring!At(q, i) = Items[i + 1]
         /\ DOMAIN Items = 1 .. Ring!Size(q) /\ Ring!Size(q) \in Nat
<1>1. Items \in Seq(Message) /\ Ring!Size(q) \in Nat
  BY RingSize DEF TypeOK, Items
<1>2. Items = [i \in 1 .. Ring!Size(q) |-> Ring!At(q, i - 1)]
  BY DEF Items, Ring!Contents
<1>3. DOMAIN Items = 1 .. Ring!Size(q) /\ \A i \in DOMAIN Items : Items[i] \in Message
  BY <1>1, <1>2
<1>4. \A i \in 0 .. Ring!Size(q) - 1 : Ring!At(q, i) = Items[i + 1]
  <2>1. ASSUME NEW i \in 0 .. Ring!Size(q) - 1 PROVE Ring!At(q, i) = Items[i + 1]
    <3>1. i + 1 \in 1 .. Ring!Size(q) /\ (i + 1) - 1 = i
      BY <1>1
    <3> QED BY <1>2, <3>1
  <2> QED BY <2>1
<1>5. /\ \A i \in Int : i \in Queued <=> i + 1 \in Positions(Items, Rest)
      /\ \A i \in Int :
           i \in {j \in 0 .. Ring!Size(q) - 1 : Ring!At(q, j).kind = "terminate"}
             <=> i + 1 \in Positions(Items, Last)
  <2>1. \A i \in Int : /\ i + 1 \in Int
                       /\ i + 1 \in DOMAIN Items <=> i \in 0 .. Ring!Size(q) - 1
    BY <1>1, <1>3
  <2>2. \A i \in 0 .. Ring!Size(q) - 1 :
          /\ Ring!At(q, i).kind # "terminate" <=> Items[i + 1] \in Rest
          /\ Ring!At(q, i).kind = "terminate" <=> Items[i + 1] \in Last
    BY <1>3, <1>4, <2>1 DEF Rest, Last
  <2> QED BY <2>1, <2>2 DEF Queued, Positions
<1>6. /\ IsFiniteSet(Positions(Items, Rest)) /\ Positions(Items, Rest) \subseteq Int
      /\ IsFiniteSet(Positions(Items, Last)) /\ Positions(Items, Last) \subseteq Int
  BY <1>1, CountType
<1>7. /\ Queued \subseteq Int
      /\ {i \in 0 .. Ring!Size(q) - 1 : Ring!At(q, i).kind = "terminate"} \subseteq Int
  BY DEF Queued
<1> QED BY <1>1, <1>3, <1>4, <1>5, <1>6, <1>7, Shifted DEF Count

-----------------------------------------------------------------------------
(* The messages of K that are in the pool: queued, or held by a worker.     *)
Held(K) == {w \in Workers : job[w] \in K}

Stock(K) == Count(Items, K) + Cardinality(Held(K))

LEMMA StockType ==
  ASSUME TypeOK, NEW K
  PROVE  /\ Items \in Seq(Message) /\ Count(Items, K) \in Nat
         /\ IsFiniteSet(Held(K)) /\ Cardinality(Held(K)) \in Nat /\ Stock(K) \in Nat
<1>1. Items \in Seq(Message) /\ Count(Items, K) \in Nat
  BY CountType DEF TypeOK, Items
<1>2. IsFiniteSet(Held(K))
  BY FS_Subset, ThreadsAssumption DEF Held
<1> QED BY <1>1, <1>2, FS_CardinalityType DEF Stock

LEMMA StockStays ==
  ASSUME NEW K, Items' = Items, job' = job
  PROVE  Stock(K)' = Stock(K)
<1>1. Held(K)' = Held(K)
  BY DEF Held
<1> QED BY <1>1 DEF Stock

LEMMA StockPut ==
  ASSUME TypeOK, NEW K, NEW t \in Callers, Puts(t)
  PROVE  LET gained == IF call[t] \in K THEN 1 ELSE 0 IN
         \/ /\ q'.overrun = q.overrun
            /\ Stock(K)' = Stock(K) + gained
         \/ /\ PolicyOf(t) = "overrun_oldest" /\ q'.overrun = q.overrun + 1
            /\ \E m \in Among(Items) \cup {call[t]} :
                 Stock(K)' = Stock(K) + gained - (IF m \in K THEN 1 ELSE 0)
<1> DEFINE s == Append(Items, call[t])
           gained == IF call[t] \in K THEN 1 ELSE 0
<1>1. call[t] \in Message /\ Items \in Seq(Message) /\ Stock(K) \in Nat
  BY PutItems, StockType
<1>2. s \in Seq(Message) /\ s # <<>> /\ Among(s) = Among(Items) \cup {call[t]}
  BY <1>1, AppendAmong
<1>3. Count(s, K) = Count(Items, K) + gained
  BY <1>1, AppendCount
<1>4. /\ Count(s, K) = Count(Tail(s), K) + IF Head(s) \in K THEN 1 ELSE 0
      /\ Head(s) \in Among(Items) \cup {call[t]}
      /\ Count(Tail(s), K) \in Nat
  <2> HIDE DEF s, gained
  <2>1. /\ Among(s) = Among(Tail(s)) \cup {Head(s)}
        /\ Tail(s) \in Seq(Message) /\ Head(s) \in Message
    BY <1>2, TailAmong
  <2>2. Count(s, K) = Count(Tail(s), K) + IF Head(s) \in K THEN 1 ELSE 0
    BY <1>2, TailCount
  <2>3. Count(Tail(s), K) \in Nat
    BY <2>1, CountType
  <2> QED BY <1>2, <2>1, <2>2, <2>3
<1>5. Held(K)' = Held(K) /\ Cardinality(Held(K)) \in Nat /\ Count(Items, K) \in Nat
  BY StockType DEF Puts, WorkKept, Held
<1>6. gained \in Nat
  OBVIOUS
<1>7. \/ Items' = s /\ q'.overrun = q.overrun
      \/ /\ PolicyOf(t) = "overrun_oldest"
         /\ Items' = Tail(s) /\ q'.overrun = q.overrun + 1
  BY DEF Puts
<1> HIDE DEF s, gained
<1>8. CASE Items' = s /\ q'.overrun = q.overrun
  <2>1. Stock(K)' = Stock(K) + gained
    BY <1>3, <1>5, <1>6, <1>8 DEF Stock
  <2> QED BY <1>8, <2>1 DEF gained
<1>9. CASE /\ PolicyOf(t) = "overrun_oldest"
           /\ Items' = Tail(s) /\ q'.overrun = q.overrun + 1
  <2>1. Stock(K)' = Stock(K) + gained - (IF Head(s) \in K THEN 1 ELSE 0)
    BY <1>3, <1>4, <1>5, <1>6, <1>9 DEF Stock
  <2> QED BY <1>4, <1>9, <2>1 DEF gained
<1> QED BY <1>7, <1>8, <1>9

LEMMA StockTake ==
  ASSUME TypeOK, NEW K \in SUBSET Message, NEW w \in threads, Takes(w)
  PROVE  Stock(K)' = Stock(K)
<1>1. w \in Workers /\ job[w] = NoMessage
  BY Crew DEF TypeOK, Takes
<1>2. /\ job \in [Workers -> Message \cup {NoMessage}]
      /\ job' = [job EXCEPT ![w] = Head(Items)] /\ Items' = Tail(Items) /\ Items # <<>>
  BY DEF TypeOK, Takes
<1>3. /\ Items \in Seq(Message) /\ Count(Items, K) \in Nat
      /\ IsFiniteSet(Held(K)) /\ Cardinality(Held(K)) \in Nat
  BY StockType
<1>4. /\ Count(Items, K) = Count(Items', K) + IF Head(Items) \in K THEN 1 ELSE 0
      /\ Count(Items', K) \in Nat
  BY <1>2, <1>3, TailCount, TailAmong, CountType
<1>5. w \notin Held(K)
  BY <1>1, MessageKinds DEF Held
<1>6. CASE Head(Items) \in K
  <2>1. Held(K)' = Held(K) \cup {w}
    BY <1>1, <1>2, <1>6 DEF Held
  <2>2. Cardinality(Held(K)') = Cardinality(Held(K)) + 1
    BY <1>3, <1>5, <2>1, FS_AddElement
  <2> QED BY <1>3, <1>4, <1>6, <2>2 DEF Stock
<1>7. CASE Head(Items) \notin K
  <2>1. Held(K)' = Held(K)
    BY <1>1, <1>2, <1>5, <1>7 DEF Held
  <2> QED BY <1>3, <1>4, <1>7, <2>1 DEF Stock
<1> QED BY <1>6, <1>7

LEMMA StockDone ==
  ASSUME TypeOK, NEW K \in SUBSET Message, NEW w \in threads, Done(w), Items' = Items
  PROVE  Stock(K)' = Stock(K) - IF job[w] \in K THEN 1 ELSE 0
<1>1. /\ w \in Workers /\ job \in [Workers -> Message \cup {NoMessage}]
      /\ job' = [job EXCEPT ![w] = NoMessage]
  BY Crew DEF TypeOK, Done
<1>2. /\ Count(Items, K) \in Nat
      /\ IsFiniteSet(Held(K)) /\ Cardinality(Held(K)) \in Nat
  BY StockType
<1>3. Held(K)' = Held(K) \ {w}
  BY <1>1, MessageKinds DEF Held
<1>4. w \in Held(K) <=> job[w] \in K
  BY <1>1 DEF Held
<1>5. Cardinality(Held(K)') = Cardinality(Held(K)) - IF job[w] \in K THEN 1 ELSE 0
  <2>1. Cardinality(Held(K) \ {w}) = IF w \in Held(K) THEN Cardinality(Held(K)) - 1
                                     ELSE Cardinality(Held(K))
    BY <1>2, FS_RemoveElement
  <2> QED BY <1>2, <1>3, <1>4, <2>1
<1> QED BY <1>2, <1>5 DEF Stock

-----------------------------------------------------------------------------
(* Terminate messages are behind all others.                                *)
Final == {p \in Message \X Message : p[1].kind = "terminate" => p[2].kind = "terminate"}

LEMMA FinalStep ==
  ASSUME TypeOK, Lifetime, Flow, Line(Final)
  PROVE  Line(Final)'
<1>1. /\ Items \in Seq(Message)
      /\ \A m \in Among(Items) : m \in Message
  BY StockType DEF Among
<1>2. ASSUME NEW t \in Callers, Pending(t), NEW m \in Message,
             m.kind = "terminate" => refs = {}
      PROVE  <<m, call[t]>> \in Final
  <2>1. pc[t] # "idle" /\ call[t] \in Message
    BY <1>2 DEF Pending, TypeOK
  <2>2. m.kind = "terminate" => call[t].kind = "terminate"
    BY <1>2, <2>1, CallersDone DEF Rites, Lifetime
  <2> QED BY <2>1, <2>2 DEF Final
<1>3. /\ \A m \in Among(Items) : m.kind = "terminate" => refs = {}
      /\ \A w \in Workers : job[w] # NoMessage =>
           job[w] \in Message /\ (job[w].kind = "terminate" => refs = {})
  BY DEF Lifetime, AliveTillThen, Terminating, TypeOK
<1>4. ASSUME NEW t \in Callers, Pending(t)
      PROVE  /\ \A m \in Among(Items) : <<m, call[t]>> \in Final
             /\ \A w \in Workers : job[w] # NoMessage => <<job[w], call[t]>> \in Final
  BY <1>1, <1>2, <1>3, <1>4
<1> QED BY <1>4, LineStep

(* Each terminate message that was posted is queued or with a worker.       *)
Posted == {t \in Callers : pc[t] = "notify" /\ call[t].kind = "terminate"}

Balance == sent + Cardinality(Posted) = Stock(Last)

LEMMA PostedFinite ==
  ASSUME TypeOK
  PROVE  IsFiniteSet(Callers) /\ IsFiniteSet(Posted) /\ Cardinality(Posted) \in Nat
<1>1. IsFiniteSet({Owner}) /\ IsFiniteSet(Clients)
  BY FS_Singleton, ThreadsAssumption
<1>2. IsFiniteSet(Callers)
  BY <1>1, FS_Union DEF Callers
<1>3. IsFiniteSet(Posted)
  BY <1>2, FS_Subset DEF Posted
<1> QED BY <1>2, <1>3, FS_CardinalityType

(* A step in which no caller with a terminate message comes to or leaves    *)
(* its notify_one(), and no message comes or goes.                          *)
LEMMA BalanceStays ==
  ASSUME Balance, Posted' = Posted, sent' = sent, Stock(Last)' = Stock(Last)
  PROVE  Balance'
BY DEF Balance

LEMMA BalanceStep ==
  ASSUME TypeOK, Lifetime, Employment, Flow, Balance
  PROVE  Balance'
<1> USE Crew DEF Lifetime
<1>0. sent \in Nat /\ Stock(Last) \in Nat
  BY StockType DEF TypeOK
<1>1. ASSUME NEW c \in Clients, Calls(c) PROVE Balance'
  <2>1. Posted' = Posted
    BY <1>1 DEF Posted, Calls, Moves, Stays
  <2>2. Stock(Last)' = Stock(Last) /\ sent' = sent
    BY <1>1, StockStays DEF Calls, RingKept, WorkKept
  <2> QED BY <2>1, <2>2, BalanceStays
<1>2. ASSUME NEW t \in Callers, Puts(t) PROVE Balance'
  <2>1. /\ Moves(t, "notify") /\ pc[t] # "notify" /\ pc[t] # "idle"
        /\ call' = call /\ sent' = sent /\ call[t] \in Message
    BY <1>2, PutItems DEF Puts, CallsKept
  <2>2. CASE call[t].kind = "terminate"
    <3>1. Posted' = Posted \cup {t} /\ t \notin Posted
      BY <2>1, <2>2 DEF Posted, Moves, Stays
    <3>2. Cardinality(Posted') = Cardinality(Posted) + 1 /\ Cardinality(Posted) \in Nat
      BY <3>1, PostedFinite, FS_AddElement
    <3>3. Stock(Last)' = Stock(Last) + 1
      <4>1. PolicyOf(t) # "overrun_oldest" /\ call[t] \in Last
        BY <2>1, <2>2 DEF PolicyOf, Last
      <4> QED BY <1>2, <4>1, StockPut
    <3> QED BY <1>0, <2>1, <3>2, <3>3 DEF Balance
  <2>3. CASE call[t].kind # "terminate"
    <3>1. Posted' = Posted
      BY <2>1, <2>3 DEF Posted, Moves, Stays
    <3>2. refs # {}
      BY <2>1, <2>3, CallersDone DEF Rites
    <3>3. \A m \in Among(Items) \cup {call[t]} : m \notin Last
      BY <2>3, <3>2 DEF AliveTillThen, Last
    <3>4. Stock(Last)' = Stock(Last)
      <4>1. PICK gained, lost \in {0, 1} :
               /\ gained = IF call[t] \in Last THEN 1 ELSE 0
               /\ Stock(Last)' = Stock(Last) + gained - lost
               /\ lost = 0 \/ \E m \in Among(Items) \cup {call[t]} : m \in Last
        BY <1>0, <1>2, StockPut
      <4>2. gained = 0 /\ lost = 0
        BY <3>3, <4>1
      <4> QED BY <1>0, <4>1, <4>2
    <3> QED BY <2>1, <3>1, <3>4, BalanceStays
  <2> QED BY <2>2, <2>3
<1>3. ASSUME NEW t \in Callers, Notifies(t) PROVE Balance'
  <2>1. Stock(Last)' = Stock(Last) /\ call' = call /\ pc[t] = "notify"
    BY <1>3, StockStays DEF Notifies, RingKept, WorkKept
  <2>2. CASE call[t].kind = "terminate"
    <3>1. sent' = sent + 1 /\ pc'[t] # "notify" /\ \A u \in Callers \ {t} : Stays(u)
      BY <1>3, <2>2 DEF Notifies, Moves
    <3>2. Posted' = Posted \ {t} /\ t \in Posted
      BY <2>1, <2>2, <3>1 DEF Posted, Stays
    <3>3. Cardinality(Posted') = Cardinality(Posted) - 1 /\ Cardinality(Posted) \in Nat
      BY <3>2, PostedFinite, FS_RemoveElement
    <3> QED BY <1>0, <2>1, <3>1, <3>3 DEF Balance
  <2>3. CASE call[t].kind # "terminate"
    <3>1. Posted' = Posted /\ sent' = sent
      BY <1>3, <2>1, <2>3 DEF Notifies, Posted, Moves, Stays
    <3> QED BY <2>1, <3>1, BalanceStays
  <2> QED BY <2>2, <2>3
<1>4. ASSUME NEW t \in Callers, Refused(t) \/ Discards(t) \/ Releases(t) \/ Joins(t)
      PROVE  Balance'
  <2>1. \E to \in {"pop_cv", "discard", "release", "idle", "post"} : Moves(t, to)
    BY <1>4 DEF Refused, Discards, Releases, Joins
  <2>2. /\ pc[t] # "notify" /\ sent' = sent /\ RingKept /\ WorkKept
        /\ \A u \in Callers \ {t} : call'[u] = call[u]
    BY <1>4 DEF Refused, Discards, Releases, Joins, CallsKept
  <2>3. Posted' = Posted
    BY <2>1, <2>2 DEF Posted, Moves, Stays
  <2>4. Stock(Last)' = Stock(Last)
    BY <2>2, StockStays DEF RingKept, WorkKept
  <2> QED BY <2>2, <2>3, <2>4, BalanceStays
<1>5. ASSUME \A t \in Callers : Stays(t), CallsKept, Stock(Last)' = Stock(Last)
      PROVE  Balance'
  <2>1. Posted' = Posted /\ sent' = sent
    BY <1>5 DEF Posted, Stays, CallsKept
  <2> QED BY <1>5, <2>1, BalanceStays
<1>6. ASSUME NEW w \in threads, WorkerFlow(w) PROVE Balance'
  <2>1. Stock(Last)' = Stock(Last)
    <3>1. CASE Takes(w)
      BY <3>1, StockTake DEF Last
    <3>2. CASE Done(w) /\ pc[w] \in {"log", "flush"} /\ Items' = Items
      <4>1. job[w] \notin Last
        BY <3>2 DEF Employment, Last
      <4>2. Last \in SUBSET Message
        BY DEF Last
      <4> QED BY <1>0, <3>2, <4>1, <4>2, StockDone
    <3>3. CASE job' = job /\ Items' = Items
      BY <3>3, StockStays
    <3> QED
      BY <1>6, <3>1, <3>2, <3>3
      DEF WorkerFlow, Sleeps, Begins, Writes, Flushes, RingKept, WorkKept
  <2> QED BY <1>5, <1>6, <2>1, WorkerSparesCallers
<1>7. CASE Idles
  <2>1. Stock(Last)' = Stock(Last)
    BY <1>7, StockStays DEF Idles, RingKept, WorkKept
  <2> QED BY <1>5, <1>7, <2>1 DEF Idles
<1> QED BY <1>1, <1>2, <1>3, <1>4, <1>6, <1>7 DEF Flow, CallerFlow

-----------------------------------------------------------------------------
(* Every message is accounted for: LossesAreCounted in terms of the stock.  *)
Accounts ==
  calls = rejected + Cardinality(Undecided) + Stock(Rest) + handled + q.overrun + discarded

LEMMA UndecidedFinite ==
  ASSUME TypeOK
  PROVE  /\ IsFiniteSet(Undecided) /\ Cardinality(Undecided) \in Nat
         /\ calls \in Nat /\ rejected \in Nat /\ handled \in Nat /\ discarded \in Nat
         /\ q.overrun \in Nat /\ Stock(Rest) \in Nat
<1>1. IsFiniteSet(Undecided)
  BY PostedFinite, FS_Subset DEF Undecided
<1>2. q.overrun \in Nat
  BY DEF TypeOK, Ring!IsRing
<1> QED
  BY <1>1, <1>2, FS_CardinalityType, StockType, ConstantsAssumption DEF TypeOK

(* A caller whose message is undecided is in a call, with the pool alive.   *)
LEMMA UndecidedAlive ==
  ASSUME TypeOK, Lifetime, NEW t \in Undecided
  PROVE  refs # {} /\ \A m \in Among(Items) : m \notin Last
<1>1. t \in Callers /\ pc[t] # "idle" /\ t \notin Rites
  BY DEF Undecided, Rites
<1>2. refs # {}
  BY <1>1, CallersDone DEF Lifetime
<1> QED BY <1>2 DEF Lifetime, AliveTillThen, Last

LEMMA OthersUndecided ==
  ASSUME TypeOK, NEW t, \A u \in Callers \ {t} : Stays(u) /\ call'[u] = call[u]
  PROVE  Undecided' \ {t} = Undecided \ {t}
<1>1. ASSUME NEW u \in Callers \ {t} PROVE u \in Undecided' <=> u \in Undecided
  <2>1. pc[u] # "push_cv"
    BY DEF TypeOK, CallerPhase
  <2> QED BY <2>1 DEF Undecided, Stays
<1>2. Undecided \subseteq Callers /\ Undecided' \subseteq Callers
  BY DEF Undecided
<1> QED BY <1>1, <1>2

LEMMA AccountsStay ==
  ASSUME Accounts, Undecided' = Undecided, Stock(Rest)' = Stock(Rest),
         UNCHANGED <<calls, rejected, handled, discarded>>, q'.overrun = q.overrun
  PROVE  Accounts'
BY DEF Accounts

LEMMA AccountsStep ==
  ASSUME TypeOK, Lifetime, Employment, Flow, Accounts
  PROVE  Accounts'
<1> USE Crew
<1>0. /\ IsFiniteSet(Undecided) /\ Cardinality(Undecided) \in Nat
      /\ calls \in Nat /\ rejected \in Nat /\ handled \in Nat /\ discarded \in Nat
      /\ q.overrun \in Nat /\ Stock(Rest) \in Nat
  BY UndecidedFinite
<1>1. ASSUME NEW c \in Clients, Calls(c) PROVE Accounts'
  <2>1. /\ Stock(Rest)' = Stock(Rest) /\ calls' = calls + 1
        /\ UNCHANGED <<handled, discarded>> /\ q'.overrun = q.overrun
    BY <1>1, StockStays DEF Calls, RingKept, WorkKept
  <2>2. CASE pc' = pc /\ rejected' = rejected + 1
    <3>1. Undecided' = Undecided
      BY <1>1, <2>2 DEF Undecided, Calls
    <3> QED BY <1>0, <2>1, <2>2, <3>1 DEF Accounts
  <2>3. CASE Moves(c, "post") /\ rejected' = rejected
    <3>0. Undecided' \ {c} = Undecided \ {c}
      BY <1>1, <2>3, OthersUndecided DEF Calls, Moves
    <3>1. Undecided' = Undecided \cup {c} /\ c \notin Undecided
      <4>1. c \in Undecided' /\ c \notin Undecided
        BY <1>1, <2>3 DEF Undecided, Calls, Moves
      <4> QED BY <3>0, <4>1
    <3>2. Cardinality(Undecided') = Cardinality(Undecided) + 1
      BY <1>0, <3>1, FS_AddElement
    <3> QED BY <1>0, <2>1, <2>3, <3>2 DEF Accounts
  <2> QED BY <1>1, <2>2, <2>3 DEF Calls
<1>2. ASSUME NEW t \in Callers, Puts(t) PROVE Accounts'
  <2>1. /\ Moves(t, "notify") /\ pc[t] \in {"post", "woken"} /\ call' = call
        /\ UNCHANGED <<calls, rejected, handled, discarded>> /\ call[t] \in Message
    BY <1>2, PutItems DEF Puts, CallsKept, WorkKept
  <2>0. Undecided' \ {t} = Undecided \ {t} /\ t \notin Undecided'
    BY <2>1, OthersUndecided DEF Moves, Undecided
  <2>2. CASE call[t].kind = "terminate"
    <3>1. Undecided' = Undecided
      <4>1. t \notin Undecided
        BY <2>2 DEF Undecided
      <4> QED BY <2>0, <4>1
    <3>2. PolicyOf(t) # "overrun_oldest" /\ call[t] \notin Rest
      BY <2>2 DEF PolicyOf, Rest
    <3>3. Stock(Rest)' = Stock(Rest) /\ q'.overrun = q.overrun
      BY <1>0, <1>2, <3>2, StockPut
    <3> QED BY <2>1, <3>1, <3>3, AccountsStay
  <2>3. CASE call[t].kind # "terminate"
    <3>1. Undecided' = Undecided \ {t} /\ t \in Undecided
      <4>1. t \in Undecided
        BY <2>1, <2>3 DEF Undecided
      <4> QED BY <2>0, <4>1
    <3>2. Cardinality(Undecided') = Cardinality(Undecided) - 1
      BY <1>0, <3>1, FS_RemoveElement
    <3>3. call[t] \in Rest /\ \A m \in Among(Items) \cup {call[t]} : m \in Rest
      <4>1. Items \in Seq(Message)
        BY StockType
      <4>2. \A m \in Among(Items) : m \in Message
        BY <4>1 DEF Among
      <4> QED BY <2>1, <2>3, <3>1, <4>2, UndecidedAlive DEF Rest, Last
    <3>4. \/ Stock(Rest)' = Stock(Rest) + 1 /\ q'.overrun = q.overrun
          \/ Stock(Rest)' = Stock(Rest) + 1 - 1 /\ q'.overrun = q.overrun + 1
      BY <1>2, <3>3, StockPut
    <3> QED BY <1>0, <2>1, <3>2, <3>4 DEF Accounts
  <2> QED BY <2>2, <2>3
<1>3. ASSUME NEW t \in Callers, Discards(t) PROVE Accounts'
  <2>1. /\ pc[t] = "discard" /\ Moves(t, "release") /\ call' = call
        /\ UNCHANGED <<calls, rejected, handled>> /\ q'.overrun = q.overrun
        /\ discarded' = discarded + 1 /\ Stock(Rest)' = Stock(Rest)
    BY <1>3, StockStays DEF Discards, RingKept, WorkKept
  <2>2. call[t].kind # "terminate"
    BY <2>1 DEF Lifetime, LastOwner, Rites
  <2>3. Undecided' = Undecided \ {t} /\ t \in Undecided
    <3>1. Undecided' \ {t} = Undecided \ {t}
      BY <2>1, OthersUndecided DEF Moves
    <3>2. t \in Undecided /\ t \notin Undecided'
      BY <2>1, <2>2 DEF Undecided, Moves
    <3> QED BY <3>1, <3>2
  <2>4. Cardinality(Undecided') = Cardinality(Undecided) - 1
    BY <1>0, <2>3, FS_RemoveElement
  <2> QED BY <1>0, <2>1, <2>4 DEF Accounts
<1>4. ASSUME NEW t \in Callers, Refused(t) \/ Notifies(t) \/ Releases(t) \/ Joins(t)
      PROVE  Accounts'
  <2>1. /\ RingKept /\ WorkKept /\ UNCHANGED <<calls, rejected, discarded>>
        /\ \A u \in Callers \ {t} : call'[u] = call[u]
    BY <1>4 DEF Refused, Notifies, Releases, Joins, CallsKept
  <2>2. /\ \A u \in Callers \ {t} : Stays(u)
        /\ t \in Undecided' <=> t \in Undecided
    <3>1. CASE Refused(t)
      <4>1. PICK to \in {"pop_cv", "discard"} : Moves(t, to)
        BY <3>1 DEF Refused
      <4> QED BY <3>1, <4>1 DEF Undecided, Refused, Moves, CallsKept
    <3>2. CASE Notifies(t)
      <4>1. CASE call[t].kind = "terminate"
        BY <3>2, <4>1 DEF Undecided, Notifies, Moves
      <4>2. CASE call[t].kind # "terminate"
        BY <3>2, <4>2 DEF Undecided, Notifies, Moves
      <4> QED BY <4>1, <4>2
    <3>3. CASE Releases(t)
      BY <3>3, MessageKinds DEF Undecided, Releases, Moves
    <3>4. CASE Joins(t)
      BY <3>4 DEF Undecided, Joins, Moves
    <3> QED BY <1>4, <3>1, <3>2, <3>3, <3>4
  <2>3. Undecided' = Undecided
    <3>1. Undecided' \ {t} = Undecided \ {t}
      BY <2>1, <2>2, OthersUndecided
    <3> QED BY <2>2, <3>1
  <2>4. Stock(Rest)' = Stock(Rest)
    BY <2>1, StockStays DEF RingKept, WorkKept
  <2> QED BY <2>1, <2>3, <2>4, AccountsStay DEF RingKept, WorkKept
<1>5. ASSUME \A t \in Callers : Stays(t), CallsKept
      PROVE  Undecided' = Undecided /\ UNCHANGED <<calls, rejected, discarded>>
  <2>1. Owner \notin Undecided' <=> Owner \notin Undecided
    <3>1. pc[Owner] # "push_cv"
      BY DEF TypeOK, CallerPhase
    <3> QED BY <1>5, <3>1 DEF Undecided, Stays, CallsKept
  <2>2. Undecided' \ {Owner} = Undecided \ {Owner}
    BY <1>5, OthersUndecided DEF CallsKept
  <2> QED BY <1>5, <2>1, <2>2 DEF CallsKept
<1>6. ASSUME NEW w \in threads, WorkerFlow(w) PROVE Accounts'
  <2>1. Undecided' = Undecided /\ UNCHANGED <<calls, rejected, discarded>>
    BY <1>5, <1>6, WorkerSparesCallers
  <2>2. q'.overrun = q.overrun
    BY <1>6 DEF WorkerFlow, Sleeps, Takes, Begins, Writes, Flushes, RingKept
  <2>3. CASE Takes(w)
    <3>1. Stock(Rest)' = Stock(Rest) /\ handled' = handled
      BY <2>3, StockTake DEF Rest, Takes
    <3> QED BY <2>1, <2>2, <3>1, AccountsStay
  <2>4. CASE Done(w) /\ pc[w] \in {"log", "flush"} /\ Items' = Items
    <3>1. job[w] \in Rest
      BY <2>4 DEF Employment, Rest, TypeOK
    <3>2. Rest \in SUBSET Message
      BY DEF Rest
    <3>3. Stock(Rest)' = Stock(Rest) - 1 /\ handled' = handled + 1
      BY <2>4, <3>1, <3>2, StockDone DEF Done
    <3> QED BY <1>0, <2>1, <2>2, <3>3 DEF Accounts
  <2>5. CASE UNCHANGED <<job, handled>> /\ Items' = Items
    BY <2>1, <2>2, <2>5, StockStays, AccountsStay
  <2> QED
    BY <1>6, <2>3, <2>4, <2>5
    DEF WorkerFlow, Sleeps, Begins, Writes, Flushes, RingKept, WorkKept
<1>7. CASE Idles
  BY <1>5, <1>7, StockStays, AccountsStay DEF Idles, RingKept, WorkKept
<1> QED BY <1>1, <1>2, <1>3, <1>4, <1>6, <1>7 DEF Flow, CallerFlow

(* Urgent messages that nobody flushed yet: some worker is about to.        *)
Flushing ==
  \A i \in DOMAIN written : written[i].kind = "urgent" =>
    i <= flushed \/ \E w \in threads : pc[w] = "flush"

LEMMA FlushingStep ==
  ASSUME TypeOK, Employment, Flow, Flushing
  PROVE  Flushing'
<1> USE Crew
<1>1. ASSUME UNCHANGED <<written, flushed, threads>>,
             \A w \in threads : pc[w] = "flush" => pc'[w] = "flush"
      PROVE  Flushing'
  BY <1>1 DEF Flushing
<1>2. ASSUME NEW c \in Clients, Calls(c) PROVE Flushing'
  BY <1>1, <1>2 DEF Calls, WorkKept, Moves, Stays
<1>3. ASSUME NEW t \in Callers, CallerFlow(t) PROVE Flushing'
  <2>1. WorkKept /\ \E to : Moves(t, to)
    BY <1>3 DEF CallerFlow, Puts, Refused, Discards, Notifies, Releases, Joins
  <2> QED BY <1>1, <2>1 DEF WorkKept, Moves, Stays
<1>4. CASE Idles
  BY <1>1, <1>4 DEF Idles, WorkKept, Stays
<1>5. ASSUME NEW w \in threads, Writes(w) PROVE Flushing'
  <2>1. /\ written \in Seq(Message) /\ job[w] \in Message
        /\ written' = Append(written, job[w]) /\ UNCHANGED <<flushed, threads>>
        /\ \A u \in Workers \ {w} : Stays(u)
    BY <1>5 DEF Writes, TypeOK, Done, Moves, CallsKept
  <2>2. CASE pc[w] = "urgent"
    <3>1. pc'[w] = "flush"
      BY <1>5, <2>2 DEF Writes, Moves
    <3> QED BY <2>1, <3>1 DEF Flushing
  <2>3. CASE pc[w] = "log"
    <3>1. job[w].kind # "urgent"
      BY <2>3 DEF Employment
    <3>2. /\ DOMAIN written' = 1 .. Len(written) + 1 /\ DOMAIN written = 1 .. Len(written)
          /\ \A i \in 1 .. Len(written) : written'[i] = written[i]
          /\ written'[Len(written) + 1] = job[w] /\ Len(written) \in Nat
      BY <2>1
    <3>3. ASSUME NEW i \in DOMAIN written', written'[i].kind = "urgent"
          PROVE  i \in DOMAIN written /\ written[i].kind = "urgent"
      BY <3>1, <3>2, <3>3
    <3>4. \A u \in threads : pc[u] = "flush" => pc'[u] = "flush"
      BY <2>1, <2>3 DEF Stays
    <3> QED BY <2>1, <3>3, <3>4 DEF Flushing
  <2> QED BY <1>5, <2>2, <2>3 DEF Writes
<1>6. ASSUME NEW w \in threads, Flushes(w) PROVE Flushing'
  <2>1. flushed' = Len(written') /\ written' \in Seq(Message)
    BY <1>6 DEF Flushes, TypeOK
  <2> QED BY <2>1 DEF Flushing
<1>7. ASSUME NEW w \in threads, Sleeps(w) \/ Takes(w) \/ Begins(w) PROVE Flushing'
  <2>1. UNCHANGED <<written, flushed, threads>> /\ pc[w] # "flush" /\ \E to : Moves(w, to)
    BY <1>7 DEF Sleeps, Takes, Begins, WorkKept, CallsKept
  <2> QED BY <1>1, <2>1 DEF Moves, Stays
<1> QED BY <1>2, <1>3, <1>4, <1>5, <1>6, <1>7 DEF Flow, WorkerFlow

(* The books of the pool. *)
Books == TypeOK /\ Lifetime /\ Employment /\ Line(Final) /\ Balance /\ Accounts /\ Flushing

LEMMA BooksHold == SafetySpec => []Books
<1>1. Init => Line(Final) /\ Balance /\ Accounts /\ Flushing
  <2> SUFFICES ASSUME Init PROVE Line(Final) /\ Balance /\ Accounts /\ Flushing
    OBVIOUS
  <2>1. TypeOK
    BY TypeInit
  <2>2. PICK n \in QueueSizes : q = Ring!New(n)
    BY DEF Init
  <2>3. Items = <<>> /\ q.overrun = 0
    BY <2>2, ConstantsAssumption, Ring!NewIsEmpty DEF Items, Ring!New
  <2>4. /\ \A t \in Threads : pc[t] = "idle"
        /\ \A w \in Workers : job[w] = NoMessage
        /\ sent = 0 /\ calls = 0 /\ rejected = 0 /\ handled = 0 /\ discarded = 0
        /\ written = <<>>
    BY DEF Init
  <2>5. Among(Items) = {} /\ Sorted(Items, Final)
    BY <2>3 DEF Among, Sorted
  <2>6. Posted = {} /\ Undecided = {}
    BY <2>1, <2>4, Crew DEF Posted, Undecided
  <2>7. ASSUME NEW K \in SUBSET Message PROVE Stock(K) = 0
    <3>1. Held(K) = {}
      BY <2>4, MessageKinds DEF Held
    <3>2. Positions(Items, K) = {}
      BY <2>3 DEF Positions
    <3> QED BY <3>1, <3>2, FS_EmptySet DEF Stock, Count
  <2>8. Stock(Last) = 0 /\ Stock(Rest) = 0
    BY <2>7 DEF Last, Rest
  <2> QED
    BY <2>3, <2>4, <2>5, <2>6, <2>8, FS_EmptySet DEF Line, Balance, Accounts, Flushing
<1>2. Books /\ [Next]_vars => Line(Final)' /\ Balance' /\ Accounts' /\ Flushing'
  BY StepFlows, FinalStep, BalanceStep, AccountsStep, FlushingStep DEF Books
<1>3. SafetySpec => []Line(Final) /\ []Balance /\ []Accounts /\ []Flushing
  BY <1>1, <1>2, LifetimeHolds, PTL DEF SafetySpec, Books
<1> QED BY <1>3, LifetimeHolds, PTL DEF Books

LEMMA HeldIsHandling ==
  ASSUME TypeOK, Employment
  PROVE  /\ Held(Rest) = Handling
         /\ Held(Last) = {w \in Workers : /\ pc[w] \in {"notify", "exited"}
                                          /\ job[w].kind = "terminate"}
<1>1. ASSUME NEW w \in Workers
      PROVE  /\ w \in Held(Rest) <=> w \in Handling
             /\ w \in Held(Last) <=> pc[w] \in {"notify", "exited"} /\ job[w].kind = "terminate"
  <2>1. /\ job[w] \in Message \cup {NoMessage} /\ NoMessage \notin Message
        /\ job[w] # NoMessage <=> pc[w] \in {"notify", "log", "urgent", "flush", "exited"}
    BY MessageKinds DEF TypeOK
  <2> QED BY <1>1, <2>1 DEF Employment, Held, Handling, Rest, Last
<1> QED BY <1>1 DEF Held, Handling

(* Whatever mix of overflow policies the loggers have and whoever gives the *)
(* pool up last, the two counters account for every message that did not   *)
(* reach the sinks.                                                         *)
THEOREM NothingUncounted == SafetySpec => []LossesAreCounted
<1>1. Books => LossesAreCounted
  <2> SUFFICES ASSUME Books PROVE LossesAreCounted
    OBVIOUS
  <2>1. Stock(Rest) = Cardinality(Queued) + Cardinality(Handling)
    BY RingCount, HeldIsHandling DEF Books, Stock
  <2>2. Cardinality(Queued) \in Nat /\ Cardinality(Handling) \in Nat
    BY RingCount, HeldIsHandling, StockType DEF Books
  <2> QED BY <2>1, <2>2, UndecidedFinite DEF Books, Accounts, LossesAreCounted
<1> QED BY <1>1, BooksHold, PTL

(* ~thread_pool() posts its terminate messages when nobody else can post,   *)
(* and none of them is lost before a worker took it.                        *)
THEOREM TerminatesClosePool == SafetySpec => []TerminatesAreLast
<1>1. Books => TerminatesAreLast
  <2> SUFFICES ASSUME Books PROVE TerminatesAreLast
    OBVIOUS
  <2> USE DEF Books
  <2>1. sent > 0 => refs = {}
    BY DEF Lifetime, AliveTillThen
  <2>2. refs = {} => \A c \in Clients : pc[c] # "idle" => call[c].kind = "terminate"
    BY Crew, CallersDone DEF Lifetime, Rites
  <2>3. ASSUME NEW i \in 0 .. Ring!Size(q) - 1, NEW j \in 0 .. Ring!Size(q) - 1,
               i < j, Ring!At(q, i).kind = "terminate"
        PROVE  Ring!At(q, j).kind = "terminate"
    <3>1. /\ i + 1 \in DOMAIN Items /\ j + 1 \in DOMAIN Items /\ i + 1 < j + 1
          /\ Ring!At(q, i) = Items[i + 1] /\ Ring!At(q, j) = Items[j + 1]
      BY <2>3, RingCount
    <3>2. <<Items[i + 1], Items[j + 1]>> \in Final
      BY <3>1 DEF Line, Sorted
    <3> QED BY <2>3, <3>1, <3>2 DEF Final
  <2>4. Stock(Last) = Cardinality({i \in 0 .. Ring!Size(q) - 1 : Ring!At(q, i).kind = "terminate"})
         + Cardinality({w \in Workers : /\ pc[w] \in {"notify", "exited"}
                                        /\ job[w].kind = "terminate"})
    BY RingCount, HeldIsHandling DEF Stock
  <2> QED BY <2>1, <2>2, <2>3, <2>4 DEF TerminatesAreLast, Balance, Posted
<1> QED BY <1>1, BooksHold, PTL

(* The workers stop at their terminate messages, not at an empty queue, and *)
(* still leave nothing behind, in the queue or unflushed.                   *)
THEOREM NothingLeftBehind == SafetySpec => []ShutdownDrains
<1>1. Books => ShutdownDrains
  <2> SUFFICES ASSUME Books, \A w \in threads : pc[w] = "exited"
               PROVE  /\ Ring!Empty(q) /\ Undecided = {}
                      /\ \A i \in DOMAIN written : written[i].kind = "urgent" => i <= flushed
    BY DEF ShutdownDrains
  <2> USE DEF Books
  <2>1. threads \subseteq Held(Last) /\ \A w \in threads : job[w] \in Message
    BY Crew, HeldIsHandling DEF Employment, TypeOK
  <2>2. PICK w \in threads : TRUE
    BY DEF TypeOK
  <2>3. refs = {}
    BY <2>1, <2>2, Crew, MessageKinds DEF Lifetime, AliveTillThen, Terminating, Held, Last
  <2>4. Cardinality(threads) <= Cardinality(Held(Last))
    BY <2>1, StockType, FS_Subset
  <2>5. sent + Cardinality(Posted) <= Cardinality(threads)
    <3>1. Posted \subseteq Rites /\ \A t \in Posted : pc[t] # "join"
      BY DEF Posted, Rites
    <3>2. CASE Posted = {}
      BY <3>2, Crew, FS_EmptySet DEF Lifetime, LastOwner, TypeOK
    <3>3. CASE Posted # {}
      <4>1. PICK t \in Posted : TRUE
        BY <3>3
      <4>2. Posted = {t} /\ sent < Cardinality(threads)
        BY <3>1, <4>1 DEF Lifetime, LastOwner
      <4>3. Cardinality({t}) = 1
        BY FS_Singleton
      <4> QED BY <4>2, <4>3, Crew DEF TypeOK
    <3> QED BY <3>2, <3>3
  <2>6. Count(Items, Last) = 0
    <3>1. /\ sent \in Nat /\ Cardinality(Posted) \in Nat /\ Cardinality(Held(Last)) \in Nat
          /\ Count(Items, Last) \in Nat /\ Cardinality(threads) \in Nat
      BY PostedFinite, StockType, Crew DEF TypeOK
    <3> QED BY <2>4, <2>5, <3>1 DEF Balance, Stock
  <2>7. Items \in Seq(Message)
    BY StockType
  <2>8. Among(Items) = {}
    <3>1. ASSUME NEW m \in Among(Items) PROVE FALSE
      <4>1. <<job[w], m>> \in Final /\ job[w].kind = "terminate"
        BY <2>1, <2>2, Crew, MessageKinds DEF Line, Held, Last
      <4>2. m \in Last
        BY <4>1 DEF Final, Last
      <4> QED BY <2>6, <2>7, <4>2, CountType
    <3> QED BY <3>1
  <2>9. Ring!Empty(q)
    <3>1. DOMAIN Items = {}
      BY <2>8 DEF Among
    <3>2. Ring!Size(q) = 0
      BY <3>1, RingCount
    <3> QED BY <3>2, RingSize DEF TypeOK
  <2>10. Undecided = {}
    BY <2>3, UndecidedAlive
  <2>11. \A i \in DOMAIN written : written[i].kind = "urgent" => i <= flushed
    BY DEF Flushing
  <2> QED BY <2>9, <2>10, <2>11
<1> QED BY <1>1, BooksHold, PTL

-----------------------------------------------------------------------------
(* The messages of a client pass the pool in the order of their numbers:    *)
(* what was written is before what the workers hold, that before what is    *)
(* queued, and that before what the client is about to post.                *)
Before ==
  {p \in Message \X Message :
     p[1].by = p[2].by /\ p[2].kind # "terminate" => p[1].n < p[2].n}

Passed ==
  Among(written) \cup Among(Items) \cup {job[w] : w \in {u \in Workers : job[u] # NoMessage}}

Newest ==
  /\ \A m \in Passed : m.n <= calls
  /\ \A t \in Callers : pc[t] # "idle" => call[t].by = t /\ call[t].n <= calls
  /\ \A t \in Callers : Pending(t) => \A m \in Passed : <<m, call[t]>> \in Before

WrittenFirst ==
  \A m \in Among(written) : m.kind # "terminate" /\ \A k \in Among(Items) : <<m, k>> \in Before

Single ==
  Cardinality(threads) = 1 =>
    /\ Sorted(written, Before)
    /\ \A w \in Workers : pc[w] \in {"notify", "log", "urgent"} =>
         \A m \in Among(written) : <<m, job[w]>> \in Before

LEMMA PassedType ==
  ASSUME TypeOK
  PROVE  /\ Items \in Seq(Message) /\ written \in Seq(Message) /\ Passed \subseteq Message
         /\ \A m \in Message : m.n \in Nat
         /\ calls \in Nat
<1>1. Items \in Seq(Message) /\ written \in Seq(Message)
  BY StockType DEF TypeOK
<1>2. Among(Items) \subseteq Message /\ Among(written) \subseteq Message
  BY <1>1 DEF Among
<1> QED BY <1>1, <1>2, ConstantsAssumption DEF Passed, TypeOK, Message

LEMMA WrittenFlow ==
  ASSUME TypeOK, Flow
  PROVE  written' = written \/ \E w \in threads : Writes(w)
BY DEF Flow, CallerFlow, WorkerFlow, Calls, Puts, Refused, Discards, Notifies, Releases,
       Joins, Sleeps, Takes, Begins, Flushes, Idles, WorkKept

(* Only a push adds to the messages that passed. *)
LEMMA PassedFlow ==
  ASSUME TypeOK, Flow
  PROVE  \/ Passed' \subseteq Passed
         \/ \E t \in Callers : Puts(t) /\ Passed' \subseteq Passed \cup {call[t]}
<1> USE PassedType
<1>1. \A w \in Workers : job'[w] = job[w] \/ job'[w] = NoMessage \/ job'[w] \in Among(Items)
  <2>1. ASSUME NEW w \in Workers, Takes(w) PROVE Head(Items) \in Among(Items)
    BY <2>1, TakeItems
  <2> QED BY <2>1, JobsFlow
<1>2. {job'[w] : w \in {u \in Workers : job'[u] # NoMessage}} \subseteq Passed
  BY <1>1 DEF Passed
<1>3. Among(written') \subseteq Passed
  <2>1. ASSUME NEW w \in threads, Writes(w) PROVE Among(written') \subseteq Passed
    <3>1. w \in Workers /\ job[w] \in Message /\ job[w] # NoMessage
      BY <2>1, Crew DEF Writes, TypeOK
    <3>2. Among(written') = Among(written) \cup {job[w]}
      BY <2>1, <3>1, AppendAmong DEF Writes
    <3> QED BY <3>1, <3>2 DEF Passed
  <2> QED BY <2>1, WrittenFlow DEF Passed
<1>4. CASE Among(Items') \subseteq Among(Items)
  BY <1>2, <1>3, <1>4 DEF Passed
<1>5. ASSUME NEW t \in Callers, Puts(t) PROVE Passed' \subseteq Passed \cup {call[t]}
  BY <1>2, <1>3, <1>5, PutItems DEF Passed
<1>6. ASSUME NEW w \in threads, Takes(w) PROVE Among(Items') \subseteq Among(Items)
  BY <1>6, TakeItems
<1> QED BY <1>4, <1>5, <1>6, ItemsFlow

(* A caller in a call after a step was in it before, or begins it.          *)
LEMMA CallFlow ==
  ASSUME TypeOK, Flow, NEW t \in Callers, pc'[t] # "idle"
  PROVE  \/ /\ pc[t] # "idle" /\ call'[t] = call[t]
            /\ Pending(t)' => Pending(t) \/ call[t].kind = "terminate"
         \/ call'[t].by = t /\ call'[t].n = calls + 1 /\ calls' = calls + 1
         \/ call'[t] = Terminate(t)
<1> DEFINE Same == /\ pc[t] # "idle" /\ call'[t] = call[t]
                   /\ Pending(t)' => Pending(t) \/ call[t].kind = "terminate"
           New == call'[t].by = t /\ call'[t].n = calls + 1 /\ calls' = calls + 1
<1> USE Crew
<1>1. ASSUME Stays(t), call'[t] = call[t] PROVE Same
  <2>1. pc[t] # "push_cv"
    BY DEF TypeOK, CallerPhase
  <2> QED BY <1>1, <2>1 DEF Stays, Pending
<1>2. ASSUME NEW c \in Clients, Calls(c) PROVE Same \/ New
  <2>1. CASE t = c
    BY <1>2, <2>1 DEF Calls
  <2>2. CASE t # c
    <3>1. Stays(t) /\ call'[t] = call[t]
      BY <1>2, <2>2 DEF Calls, Moves, Stays
    <3> QED BY <1>1, <3>1
  <2> QED BY <2>1, <2>2
<1>3. ASSUME NEW u \in Callers, CallerFlow(u), u # t PROVE Same
  <2>1. Stays(t) /\ call'[t] = call[t]
    BY <1>3
    DEF CallerFlow, Puts, Refused, Discards, Notifies, Releases, Joins, Moves, CallsKept
  <2> QED BY <1>1, <2>1
<1>4. CASE CallerFlow(t)
  <2>1. CASE Puts(t)
    BY <2>1 DEF Puts, Pending, Moves, CallsKept
  <2>2. CASE Refused(t)
    BY <2>2 DEF Refused, Pending, CallsKept
  <2>3. CASE Discards(t)
    BY <2>3 DEF Discards, Pending, Moves
  <2>4. CASE Notifies(t)
    BY <2>4 DEF Notifies, Pending, Moves
  <2>5. CASE Releases(t)
    BY <2>5 DEF Releases, Moves
  <2>6. CASE Joins(t)
    BY <2>6 DEF Joins, Moves
  <2> QED BY <1>4, <2>1, <2>2, <2>3, <2>4, <2>5, <2>6 DEF CallerFlow
<1>5. ASSUME NEW w \in threads, WorkerFlow(w) PROVE Same
  <2>1. Stays(t) /\ call' = call
    BY <1>5, WorkerSparesCallers DEF CallsKept
  <2> QED BY <1>1, <2>1
<1>6. CASE Idles
  BY <1>1, <1>6 DEF Idles, CallsKept
<1> QED BY <1>2, <1>3, <1>4, <1>5, <1>6 DEF Flow

LEMMA NewestStep ==
  ASSUME TypeOK, TypeOK', Flow, Newest
  PROVE  Newest'
<1> USE PassedType
<1>1. calls' = calls \/ calls' = calls + 1
  BY DEF Flow, CallerFlow, WorkerFlow, Calls, Puts, Refused, Discards, Notifies, Releases,
         Joins, Sleeps, Takes, Begins, Writes, Flushes, Idles, CallsKept
<1>2. ASSUME NEW m \in Passed'
      PROVE  /\ m \in Message /\ m.n <= calls
             /\ m \in Passed \/ \E u \in Callers : Puts(u) /\ m = call[u]
  <2>1. m \in Passed \/ \E u \in Callers : Puts(u) /\ m = call[u]
    BY <1>2, PassedFlow
  <2>2. ASSUME NEW u \in Callers, Puts(u) PROVE call[u] \in Message /\ call[u].n <= calls
    BY <2>2, PutItems DEF Puts, Newest
  <2> QED BY <2>1, <2>2 DEF Newest
<1>3. \A m \in Passed' : m.n <= calls'
  <2> TAKE m \in Passed'
  <2>1. m \in Message /\ m.n <= calls /\ m.n \in Nat
    BY <1>2
  <2> QED BY <1>1, <2>1
<1>4. ASSUME NEW t \in Callers, pc'[t] # "idle"
      PROVE  call'[t].by = t /\ call'[t].n <= calls'
  <2>1. Terminate(t).by = t /\ Terminate(t).n = 0
    BY DEF Terminate
  <2>2. pc[t] # "idle" => call[t].by = t /\ call[t].n <= calls /\ call[t] \in Message
    BY DEF Newest, TypeOK
  <2>3. call[t] \in Message => call[t].n \in Nat
    OBVIOUS
  <2> QED BY <1>1, <1>4, <2>1, <2>2, <2>3, CallFlow
<1>5. ASSUME NEW t \in Callers, Pending(t)', NEW m \in Passed'
      PROVE  <<m, call'[t]>> \in Before
  <2>1. pc'[t] # "idle" /\ call'[t] \in Message /\ m \in Message
    BY <1>2, <1>5 DEF Pending, TypeOK
  <2>2. CASE call'[t].kind = "terminate"
    BY <2>1, <2>2 DEF Before
  <2>3. CASE call'[t].n = calls + 1
    <3>1. m.n < call'[t].n
      BY <1>2, <2>1, <2>3
    <3> QED BY <2>1, <3>1 DEF Before
  <2>4. CASE /\ pc[t] # "idle" /\ call'[t] = call[t]
             /\ Pending(t) /\ call[t].kind # "terminate"
    <3>1. CASE m \in Passed
      BY <2>4, <3>1 DEF Newest
    <3>2. ASSUME NEW u \in Callers, Puts(u), m = call[u] PROVE <<m, call'[t]>> \in Before
      <4>1. u # t
        BY <1>5, <3>2 DEF Puts, Moves, Pending
      <4>2. call[u].by = u /\ call[t].by = t
        BY <2>4, <3>2 DEF Newest, Puts
      <4> QED BY <2>1, <2>4, <3>2, <4>1, <4>2 DEF Before
    <3> QED BY <1>2, <3>1, <3>2
  <2>5. Terminate(t).kind = "terminate"
    BY DEF Terminate
  <2> QED BY <1>5, <2>1, <2>2, <2>3, <2>4, <2>5, CallFlow
<1> QED BY <1>3, <1>4, <1>5 DEF Newest

LEMMA BeforeStep ==
  ASSUME TypeOK, Flow, Newest, Line(Before)
  PROVE  Line(Before)'
<1>1. ASSUME NEW t \in Callers, Pending(t)
      PROVE  /\ \A m \in Among(Items) : <<m, call[t]>> \in Before
             /\ \A w \in Workers : job[w] # NoMessage => <<job[w], call[t]>> \in Before
  BY <1>1 DEF Newest, Passed
<1> QED BY <1>1, LineStep

LEMMA WrittenFirstStep ==
  ASSUME TypeOK, Employment, Flow, Newest, Line(Before), WrittenFirst
  PROVE  WrittenFirst'
<1> USE PassedType
<1>1. ASSUME NEW w \in threads, Writes(w) PROVE WrittenFirst'
  <2>1. w \in Workers /\ job[w] \in Message /\ job[w] # NoMessage /\ job[w].kind # "terminate"
    BY <1>1, Crew DEF Writes, TypeOK, Employment
  <2>2. Among(written') = Among(written) \cup {job[w]}
    BY <1>1, <2>1, AppendAmong DEF Writes
  <2>3. Items' = Items
    BY <1>1 DEF Writes, RingKept
  <2> QED BY <2>1, <2>2, <2>3 DEF WrittenFirst, Line
<1>2. CASE written' = written
  <2>1. ASSUME NEW t \in Callers, Puts(t) PROVE WrittenFirst'
    <3>1. Among(Items') \subseteq Among(Items) \cup {call[t]}
      BY <2>1, PutItems
    <3>2. \A m \in Among(written) : <<m, call[t]>> \in Before
      BY <2>1 DEF Newest, Passed, Puts, Pending
    <3> QED BY <1>2, <3>1, <3>2 DEF WrittenFirst
  <2>2. ASSUME NEW w \in threads, Takes(w) PROVE Among(Items') \subseteq Among(Items)
    BY <2>2, TakeItems
  <2> QED BY <1>2, <2>1, <2>2, ItemsFlow DEF WrittenFirst
<1> QED BY <1>1, <1>2, WrittenFlow

LEMMA SingleStep ==
  ASSUME TypeOK, Employment, Flow, WrittenFirst, Single
  PROVE  Single'
<1> USE PassedType, Crew
<1>1. threads' = threads
  BY DEF Flow, CallerFlow, WorkerFlow, Calls, Puts, Refused, Discards, Notifies, Releases,
         Joins, Sleeps, Takes, Begins, Writes, Flushes, Idles, WorkKept, CallsKept
<1> SUFFICES ASSUME Cardinality(threads) = 1
             PROVE  /\ Sorted(written', Before)
                    /\ \A w \in Workers : pc'[w] \in {"notify", "log", "urgent"} =>
                         \A m \in Among(written') : <<m, job'[w]>> \in Before
  BY <1>1 DEF Single
<1>2. PICK w : threads = {w}
  BY FS_Subset, FS_Singleton, ThreadsAssumption
<1>3. /\ Sorted(written, Before)
      /\ pc[w] \in {"notify", "log", "urgent"} =>
           \A m \in Among(written) : <<m, job[w]>> \in Before
  BY <1>2 DEF Single
<1>4. \A u \in Workers \ {w} : pc'[u] = "idle"
  BY <1>1, <1>2, EmploymentStep DEF Employment
<1> SUFFICES /\ Sorted(written', Before)
             /\ pc'[w] \in {"notify", "log", "urgent"} =>
                  \A m \in Among(written') : <<m, job'[w]>> \in Before
  BY <1>4
<1>5. CASE Writes(w)
  <2>1. job[w] \in Message /\ written' = Append(written, job[w]) /\ pc'[w] \in {"flush", "idle"}
    BY <1>2, <1>5 DEF Writes, TypeOK, Done, Moves
  <2>2. Sorted(written', Before)
    BY <1>3, <1>5, <2>1, AppendSorted DEF Writes
  <2> QED BY <2>1, <2>2
<1>6. CASE Takes(w)
  <2>1. written' = written /\ job'[w] = Head(Items)
    BY <1>2, <1>6 DEF Takes, TypeOK
  <2>2. Head(Items) \in Among(Items)
    BY <1>6, TakeItems
  <2> QED BY <1>3, <2>1, <2>2 DEF WrittenFirst
<1>7. CASE Sleeps(w) \/ Begins(w) \/ Flushes(w)
  <2>1. /\ written' = written
        /\ pc'[w] \in {"notify", "log", "urgent"} => pc[w] = "notify" /\ job'[w] = job[w]
    BY <1>7 DEF Sleeps, Begins, Flushes, Done, WorkKept, Moves
  <2> QED BY <1>3, <2>1
<1>8. CASE written' = written /\ job' = job /\ Stays(w)
  BY <1>3, <1>8 DEF Stays
<1>9. ASSUME NEW c \in Clients, Calls(c) PROVE written' = written /\ job' = job /\ Stays(w)
  BY <1>2, <1>9 DEF Calls, WorkKept, Moves, Stays
<1>10. ASSUME NEW t \in Callers, CallerFlow(t)
       PROVE  written' = written /\ job' = job /\ Stays(w)
  BY <1>2, <1>10
  DEF CallerFlow, Puts, Refused, Discards, Notifies, Releases, Joins, WorkKept, Moves
<1>11. Idles => written' = written /\ job' = job /\ Stays(w)
  BY <1>2 DEF Idles, WorkKept
<1> QED BY <1>2, <1>5, <1>6, <1>7, <1>8, <1>9, <1>10, <1>11 DEF Flow, WorkerFlow

(* A pool of one thread keeps the order of each client's messages, and a    *)
(* flush finds none of the client's earlier ones in the queue.              *)
THEOREM OneThreadInOrder == SafetySpec => []OneThreadKeepsOrder
<1> DEFINE Order == Newest /\ Line(Before) /\ WrittenFirst /\ Single
           Base == TypeOK /\ Lifetime /\ Employment
<1>1. Init => Order
  <2> SUFFICES ASSUME Init PROVE Order
    OBVIOUS
  <2>1. PICK n \in QueueSizes : q = Ring!New(n)
    BY DEF Init
  <2>2. Items = <<>> /\ written = <<>>
    BY <2>1, ConstantsAssumption, Ring!NewIsEmpty DEF Items, Init
  <2>3. /\ \A t \in Threads : pc[t] = "idle"
        /\ \A w \in Workers : job[w] = NoMessage
    BY DEF Init
  <2>4. Among(Items) = {} /\ Among(written) = {}
    BY <2>2 DEF Among
  <2>5. Passed = {} /\ \A t \in Callers : pc[t] = "idle"
    BY <2>3, <2>4 DEF Passed, Threads
  <2>6. \A w \in Workers : pc[w] = "idle"
    BY <2>3 DEF Threads
  <2>7. Newest
    BY <2>5 DEF Newest, Pending
  <2>8. Line(Before) /\ WrittenFirst /\ Single
    BY <2>2, <2>3, <2>4, <2>6 DEF Line, Sorted, WrittenFirst, Single
  <2> QED BY <2>7, <2>8
<1>2. Base /\ Base' /\ Order /\ [Next]_vars => Order'
  BY StepFlows, NewestStep, BeforeStep, WrittenFirstStep, SingleStep
<1>3. Base /\ Order => OneThreadKeepsOrder
  <2> SUFFICES ASSUME Base, Order, Cardinality(threads) = 1
               PROVE  OneThreadKeepsOrder
    BY DEF OneThreadKeepsOrder
  <2> USE PassedType
  <2>1. ASSUME NEW i \in DOMAIN written, NEW j \in DOMAIN written,
               i < j, written[i].by = written[j].by
        PROVE  written[i].n < written[j].n
    <3>1. <<written[i], written[j]>> \in Before
      BY <2>1 DEF Single, Sorted
    <3>2. written[j] \in Among(written)
      BY DEF Among
    <3>3. written[j].kind # "terminate"
      BY <3>2 DEF WrittenFirst
    <3> QED BY <2>1, <3>1, <3>3 DEF Before
  <2>2. ASSUME NEW w \in Workers, pc[w] = "flush", NEW i \in Queued,
               Ring!At(q, i).by = job[w].by
        PROVE  Ring!At(q, i).n > job[w].n
    <3>1. /\ i \in 0 .. Ring!Size(q) - 1 /\ Ring!At(q, i).kind # "terminate"
          /\ Ring!At(q, i) = Items[i + 1] /\ i + 1 \in DOMAIN Items
      BY RingCount DEF Queued
    <3>2. Ring!At(q, i) \in Among(Items) /\ Ring!At(q, i) \in Message
      BY <3>1 DEF Among
    <3>3. job[w] # NoMessage /\ job[w] \in Message
      BY <2>2 DEF TypeOK
    <3>4. <<job[w], Ring!At(q, i)>> \in Before
      BY <3>2, <3>3 DEF Line
    <3>5. job[w].n < Ring!At(q, i).n
      BY <2>2, <3>1, <3>4 DEF Before
    <3> QED BY <3>2, <3>3, <3>5
  <2> QED BY <2>1, <2>2 DEF OneThreadKeepsOrder
<1> HIDE DEF Order, Base
<1>4. SafetySpec => []Base
  BY LifetimeHolds DEF Base
<1> QED BY <1>1, <1>2, <1>3, <1>4, PTL DEF SafetySpec

=============================================================================
