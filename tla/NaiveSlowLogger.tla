-------------------------- MODULE NaiveSlowLogger --------------------------
(***************************************************************************)
(* NaiveSlowLogger of benchmarks/bench_throughput.cpp, the logger with one *)
(* mutex that the benchmark compares Logger with, and the threads that     *)
(* call it.  The entry it hands to its sink is a member, scratch, that     *)
(* log() fills before it takes the mutex: threads that fill it at the same *)
(* time leave it garbled.                                                  *)
(***************************************************************************)
EXTENDS Naturals

CONSTANTS
  Threads,  \* threads of the benchmark
  NumMsgs,  \* messages each of them logs
  Nobody,   \* no thread: not one of Threads
  Garbled   \* what two overlapping assignments leave

VARIABLES
  scratch,  \* scratch.message
  mu,       \* who holds mu
  pc,       \* where each thread stands in log()
  sent      \* messages each thread has logged, with the one in progress

vars == <<scratch, mu, pc, sent>>

-----------------------------------------------------------------------------
Goto(t, where) == pc' = [pc EXCEPT ![t] = where]

Assigning == {t \in Threads : pc[t] \in {"assign", "overlapped"}}

(* log(msg) begins to assign its message to scratch ...                    *)
Log(t) ==
  /\ pc[t] = "idle"
  /\ sent[t] < NumMsgs
  /\ sent' = [sent EXCEPT ![t] = @ + 1]
  /\ scratch' = Garbled
  /\ IF Assigning = {}
       THEN Goto(t, "assign")
       ELSE pc' = [u \in Threads |-> IF u \in Assigning \cup {t} THEN "overlapped" ELSE pc[u]]
  /\ UNCHANGED mu

(* ... and ends it.                                                        *)
Assigned(t) ==
  /\ t \in Assigning
  /\ scratch' \in {<<t, sent[t]>>} \cup (IF pc[t] = "overlapped" THEN {Garbled} ELSE {})
  /\ Goto(t, "lock")
  /\ UNCHANGED <<mu, sent>>

Lock(t) ==
  /\ pc[t] = "lock"
  /\ mu = Nobody
  /\ mu' = t
  /\ Goto(t, "write")
  /\ UNCHANGED <<scratch, sent>>

(* sink.write(scratch) returns.                                            *)
Written(t) ==
  /\ pc[t] = "write"
  /\ mu' = Nobody
  /\ Goto(t, "idle")
  /\ UNCHANGED <<scratch, sent>>

Init ==
  /\ scratch = <<>>
  /\ mu = Nobody
  /\ pc = [t \in Threads |-> "idle"]
  /\ sent = [t \in Threads |-> 0]

Next == \E t \in Threads : Log(t) \/ Assigned(t) \/ Lock(t) \/ Written(t)

Spec == Init /\ [][Next]_vars

-----------------------------------------------------------------------------
(* bench_throughput.cpp:213: "one global mutex held for the *entire* write - *)
(* every thread serialises on both formatting and I/O latency".  Filling the *)
(* entry and writing it would then be one: what sink.write() reads is what   *)
(* its caller logged.                                                        *)
WritesOwnMessage == \A t \in Threads : pc[t] = "write" => scratch = <<t, sent[t]>>

=============================================================================
