-------------------------- MODULE MCLoggerPolicies --------------------------
(***************************************************************************)
(* The Logger under the policies that differ in what its threads do, one   *)
(* instance of Logger for each, in one run of TLC: "setup" says which of   *)
(* them a behaviour belongs to and never changes.  The instances are of    *)
(* LoggerProofs, Logger with its theorems, so that PoliciesProofs can cite *)
(* these for each of them.                                                 *)
(***************************************************************************)
EXTENDS Integers, Sequences, FiniteSets

CONSTANTS c1, c2, c3, worker, owner

ASSUME ThreadsAssumption ==
  worker \notin {c1, c2, c3} /\ owner \notin {c1, c2, c3} /\ worker # owner

VARIABLES
  setup,
  data, stopped, qpc, held, undelivered, out,
  pending, pc, calls, todo, written, flushed, lastPass,
  dropped, owed, missed

vars == <<data, stopped, qpc, held, undelivered, out, pending, pc, calls, todo,
          written, flushed, lastPass, dropped, owed, missed>>

(* Three clients, one of which flushes, and two sinks; the calls return    *)
(* before the logger is destroyed.                                         *)
Block ==
  INSTANCE LoggerProofs WITH
    Clients <- {c1, c2, c3}, Flushers <- {c1}, Worker <- worker, Owner <- owner,
    NumSinks <- 2, Async <- TRUE, OverflowPolicy <- "BLOCK", Capacity <- 1,
    OwnerWaits <- TRUE, MaxLogs <- 1

(* More entries than fit, and evictions of other clients' entries.         *)
DropOldest ==
  INSTANCE LoggerProofs WITH
    Clients <- {c1, c2}, Flushers <- {c1}, Worker <- worker, Owner <- owner,
    NumSinks <- 1, Async <- TRUE, OverflowPolicy <- "DROP_OLDEST", Capacity <- 2,
    OwnerWaits <- TRUE, MaxLogs <- 2

(* Producers, too, take pending_ to zero.                                  *)
DropNewest ==
  INSTANCE LoggerProofs WITH
    Clients <- {c1, c2}, Flushers <- {c1, c2}, Worker <- worker, Owner <- owner,
    NumSinks <- 1, Async <- TRUE, OverflowPolicy <- "DROP_NEWEST", Capacity <- 1,
    OwnerWaits <- TRUE, MaxLogs <- 2

(* The destructor does not wait for the calls.                             *)
Overlap ==
  INSTANCE LoggerProofs WITH
    Clients <- {c1, c2}, Flushers <- {c1}, Worker <- worker, Owner <- owner,
    NumSinks <- 1, Async <- TRUE, OverflowPolicy <- "BLOCK", Capacity <- 2,
    OwnerWaits <- FALSE, MaxLogs <- 2

(* The callers dispatch, and concurrently.                                 *)
Sync ==
  INSTANCE LoggerProofs WITH
    Clients <- {c1, c2}, Flushers <- {c1}, Worker <- worker, Owner <- owner,
    NumSinks <- 2, Async <- FALSE, OverflowPolicy <- "BLOCK", Capacity <- 1,
    OwnerWaits <- TRUE, MaxLogs <- 2

Init ==
  \/ setup = "block" /\ Block!Init
  \/ setup = "drop oldest" /\ DropOldest!Init
  \/ setup = "drop newest" /\ DropNewest!Init
  \/ setup = "overlap" /\ Overlap!Init
  \/ setup = "sync" /\ Sync!Init

Next ==
  /\ \/ setup = "block" /\ Block!Next
     \/ setup = "drop oldest" /\ DropOldest!Next
     \/ setup = "drop newest" /\ DropNewest!Next
     \/ setup = "overlap" /\ Overlap!Next
     \/ setup = "sync" /\ Sync!Next
  /\ UNCHANGED setup

SafetySpec == Init /\ [][Next]_<<setup, vars>>

-----------------------------------------------------------------------------
(* Logger's ExactlyOnePlace under each of the policies.                    *)
ExactlyOnePlace ==
  /\ setup = "block" => Block!ExactlyOnePlace
  /\ setup = "drop oldest" => DropOldest!ExactlyOnePlace
  /\ setup = "drop newest" => DropNewest!ExactlyOnePlace
  /\ setup = "overlap" => Overlap!ExactlyOnePlace
  /\ setup = "sync" => Sync!ExactlyOnePlace

(* Logger's PendingAccounting where the logger is asynchronous.            *)
PendingAccounting ==
  /\ setup = "block" => Block!PendingAccounting
  /\ setup = "drop oldest" => DropOldest!PendingAccounting
  /\ setup = "drop newest" => DropNewest!PendingAccounting
  /\ setup = "overlap" => Overlap!PendingAccounting

(* Logger's NoStrandedFlusher where a client waits in flush().             *)
NoStrandedFlusher ==
  /\ setup = "block" => Block!NoStrandedFlusher
  /\ setup = "drop oldest" => DropOldest!NoStrandedFlusher
  /\ setup = "drop newest" => DropNewest!NoStrandedFlusher
  /\ setup = "overlap" => Overlap!NoStrandedFlusher

(* Logger's ProgramOrder where clients log more than once.                 *)
ProgramOrder ==
  /\ setup = "drop oldest" => DropOldest!ProgramOrder
  /\ setup = "drop newest" => DropNewest!ProgramOrder
  /\ setup = "overlap" => Overlap!ProgramOrder
  /\ setup = "sync" => Sync!ProgramOrder

(* Logger's FlushIsBarrier where a client flushes.                         *)
FlushIsBarrier ==
  /\ setup = "block" => Block!FlushIsBarrier
  /\ setup = "drop oldest" => DropOldest!FlushIsBarrier
  /\ setup = "drop newest" => DropNewest!FlushIsBarrier
  /\ setup = "overlap" => Overlap!FlushIsBarrier
  /\ setup = "sync" => Sync!FlushIsBarrier

(* Logger's ShutdownDelivers where the owner waits for the callers.        *)
ShutdownDelivers ==
  /\ setup = "block" => Block!ShutdownDelivers
  /\ setup = "drop oldest" => DropOldest!ShutdownDelivers
  /\ setup = "drop newest" => DropNewest!ShutdownDelivers
  /\ setup = "sync" => Sync!ShutdownDelivers

(* Logger's KeepsPromise under each of the policies.                       *)
KeepsPromise ==
  /\ setup = "block" => Block!Service!Init
  /\ setup = "drop oldest" => DropOldest!Service!Init
  /\ setup = "drop newest" => DropNewest!Service!Init
  /\ setup = "overlap" => Overlap!Service!Init
  /\ setup = "sync" => Sync!Service!Init
  /\ [][
       /\ setup = "block" => [Block!Service!Next]_(Block!Service!vars)
       /\ setup = "drop oldest" => [DropOldest!Service!Next]_(DropOldest!Service!vars)
       /\ setup = "drop newest" => [DropNewest!Service!Next]_(DropNewest!Service!vars)
       /\ setup = "overlap" => [Overlap!Service!Next]_(Overlap!Service!vars)
       /\ setup = "sync" => [Sync!Service!Next]_(Sync!Service!vars)
     ]_<<setup, vars>>

=============================================================================
