------------------------------ MODULE LossyFifo ------------------------------
(***************************************************************************)
(* What spdlog's blocking queue promises the thread pool: a FIFO of at     *)
(* most "room" items in which a put to a full queue may drop the oldest    *)
(* item, counting it, and every take hands the oldest item to one taker,   *)
(* which has one item at a time.                                           *)
(***************************************************************************)
EXTENDS Naturals, Sequences

CONSTANTS Item, Takers, NoItem

VARIABLES
  items,    \* the queue, oldest first
  room,     \* its capacity, fixed when it is created
  evicted,  \* how many items were dropped to make room
  got       \* what each taker took and is not done with

Put(x) ==
  /\ Len(items) < room
  /\ items' = Append(items, x)
  /\ UNCHANGED <<room, evicted, got>>

PutOver(x) ==
  /\ Len(items) = room
  /\ items' = Tail(Append(items, x))
  /\ evicted' = evicted + 1
  /\ UNCHANGED <<room, got>>

Take(t) ==
  /\ items # <<>>
  /\ got[t] = NoItem
  /\ got' = [got EXCEPT ![t] = Head(items)]
  /\ items' = Tail(items)
  /\ UNCHANGED <<room, evicted>>

Done(t) ==
  /\ got' = [got EXCEPT ![t] = NoItem]
  /\ UNCHANGED <<items, room, evicted>>

Init == items = <<>> /\ evicted = 0 /\ got = [t \in Takers |-> NoItem]

Next ==
  \/ \E x \in Item : Put(x) \/ PutOver(x)
  \/ \E t \in Takers : Take(t) \/ Done(t)

Spec == Init /\ [][Next]_<<items, room, evicted, got>>

=============================================================================
