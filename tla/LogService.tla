----------------------------- MODULE LogService -----------------------------
(***************************************************************************)
(* What the Logger promises its callers: a line of accepted entries that   *)
(* reach every sink from the front, one at a time, from which an entry may *)
(* be lost only before a sink has it; a flush() that is a barrier; and a   *)
(* destructor that delivers everything.  There is no capacity, no batch,   *)
(* no count of pending entries, no worker and no waiting.                  *)
(***************************************************************************)
EXTENDS Integers, Sequences, Functions

CONSTANTS
  Clients, Sinks,
  Buffered,  \* may log() return before its entry is in the sinks?
  Lossless,  \* is nothing lost before the logger is being destroyed?
  Orderly    \* does the owner let every call return first?

VARIABLES
  logged,  \* how many entries each client has logged
  inCall,  \* clients whose last log() has not returned
  line,    \* accepted entries that are not in every sink yet
  lost,    \* entries given up
  shown,   \* what each sink has, in order
  saved,   \* how much of it is durable
  owed,    \* per client: what its flush() in progress has to cover
  phase    \* "open", "closing", "closed"

Last(c) == <<c, logged[c]>>

Everywhere(e) == \A i \in Sinks : e \in Range(shown[i])

Fresh(e) ==
  e \notin lost /\ e \notin Range(line) /\ \A i \in Sinks : e \notin Range(shown[i])

MayLose == Buffered /\ (Lossless => phase # "open")

(* Entries whose log() has returned.                                       *)
Returned ==
  UNION {{c} \X (1..(logged[c] - IF c \in inCall THEN 1 ELSE 0)) : c \in Clients}

(* Lost, or durable in every sink.                                         *)
Safe(e) == e \in lost \/ \A i \in Sinks : \E k \in 1..saved[i] : shown[i][k] = e

Call(c) ==
  /\ phase = "open" /\ c \notin inCall
  /\ logged' = [logged EXCEPT ![c] = @ + 1]
  /\ inCall' = inCall \cup {c}
  /\ UNCHANGED <<line, lost, shown, saved, owed, phase>>

Accept(c) ==
  /\ Buffered /\ c \in inCall /\ Fresh(Last(c))
  /\ line' = Append(line, Last(c))
  /\ UNCHANGED <<logged, inCall, lost, shown, saved, owed, phase>>

(* An entry that no sink has makes room for a new one.                     *)
Replace(c) ==
  /\ MayLose /\ c \in inCall /\ Fresh(Last(c))
  /\ \E k \in DOMAIN line :
       /\ \A i \in Sinks : line[k] \notin Range(shown[i])
       /\ line' = Append(SubSeq(line, 1, k - 1) \o SubSeq(line, k + 1, Len(line)), Last(c))
       /\ lost' = lost \cup {line[k]}
  /\ UNCHANGED <<logged, inCall, shown, saved, owed, phase>>

Refuse(c) ==
  /\ MayLose /\ c \in inCall /\ Fresh(Last(c))
  /\ lost' = lost \cup {Last(c)}
  /\ UNCHANGED <<logged, inCall, line, shown, saved, owed, phase>>

Return(c) ==
  /\ c \in inCall
  /\ \/ Buffered /\ Last(c) \in Range(line) \cup lost
     \/ Everywhere(Last(c))
  /\ inCall' = inCall \ {c}
  /\ UNCHANGED <<logged, line, lost, shown, saved, owed, phase>>

Show(i) ==
  /\ line # <<>> /\ Head(line) \notin Range(shown[i])
  /\ shown' = [shown EXCEPT ![i] = Append(@, Head(line))]
  /\ UNCHANGED <<logged, inCall, line, lost, saved, owed, phase>>

Done ==
  /\ line # <<>> /\ Everywhere(Head(line))
  /\ line' = Tail(line)
  /\ UNCHANGED <<logged, inCall, lost, shown, saved, owed, phase>>

(* Unbuffered, a caller brings its entry to the sinks itself.              *)
ShowOwn(c, i) ==
  /\ ~Buffered /\ c \in inCall /\ Last(c) \notin Range(shown[i])
  /\ shown' = [shown EXCEPT ![i] = Append(@, Last(c))]
  /\ UNCHANGED <<logged, inCall, line, lost, saved, owed, phase>>

Flush(c) ==
  /\ phase = "open" /\ c \notin inCall /\ owed[c] = {}
  /\ owed' = [owed EXCEPT ![c] = Returned]
  /\ UNCHANGED <<logged, inCall, line, lost, shown, saved, phase>>

Save(i) ==
  /\ saved' = [saved EXCEPT ![i] = Len(shown[i])]
  /\ UNCHANGED <<logged, inCall, line, lost, shown, owed, phase>>

FlushReturn(c) ==
  /\ \A e \in owed[c] : Safe(e)
  /\ owed' = [owed EXCEPT ![c] = {}]
  /\ UNCHANGED <<logged, inCall, line, lost, shown, saved, phase>>

Close ==
  /\ phase = "open" /\ phase' = "closing"
  /\ Orderly => inCall = {} /\ \A c \in Clients : owed[c] = {}
  /\ UNCHANGED <<logged, inCall, line, lost, shown, saved, owed>>

Closed ==
  /\ phase = "closing" /\ phase' = "closed"
  /\ Orderly => \A c \in Clients : \A n \in 1..logged[c] : Safe(<<c, n>>)
  /\ UNCHANGED <<logged, inCall, line, lost, shown, saved, owed>>

Init ==
  /\ logged = [c \in Clients |-> 0] /\ inCall = {}
  /\ line = <<>> /\ lost = {}
  /\ shown = [i \in Sinks |-> <<>>] /\ saved = [i \in Sinks |-> 0]
  /\ owed = [c \in Clients |-> {}] /\ phase = "open"

(* Once it is closed nothing happens any more.                             *)
Next ==
  /\ phase # "closed"
  /\ \/ \E c \in Clients :
          \/ Call(c) \/ Accept(c) \/ Replace(c) \/ Refuse(c) \/ Return(c)
          \/ Flush(c) \/ FlushReturn(c)
          \/ \E i \in Sinks : ShowOwn(c, i)
     \/ \E i \in Sinks : Show(i) \/ Save(i)
     \/ Done \/ Close \/ Closed

vars == <<logged, inCall, line, lost, shown, saved, owed, phase>>

Spec == Init /\ [][Next]_vars

=============================================================================
