---------------------------- MODULE CircularQueue ----------------------------
(***************************************************************************)
(* circular_q<T> of spdlog/details/circular_q.h: the ring buffer behind    *)
(* spdlog's blocking queue, as operators on its members.  One slot always  *)
(* stays free, to tell a full ring from an empty one.  max = 0 is a        *)
(* disabled ring, the result of the default constructor and of a move.     *)
(*                                                                         *)
(* A definition that no other uses is a plausible fault of the one that    *)
(* follows it; a check that replaces the latter by it must fail.           *)
(***************************************************************************)
EXTENDS Integers, Sequences

CONSTANTS
  Item,   \* the values pushed
  Blank   \* a default-constructed T, also what a move leaves in a slot

Slot == Item \cup {Blank}

(* The rings the constructors and the operations below produce. *)
IsRing(q) ==
  /\ q = [max |-> q.max, head |-> q.head, tail |-> q.tail,
          overrun |-> q.overrun, v |-> q.v]
  /\ q.max \in Nat /\ q.head \in Nat /\ q.tail \in Nat /\ q.overrun \in Nat
  /\ q.v \in [0 .. q.max - 1 -> Slot]
  /\ IF q.max = 0 THEN q.head = 0 /\ q.tail = 0
                  ELSE q.head < q.max /\ q.tail < q.max

New(n) == [max |-> n + 1, head |-> 0, tail |-> 0, overrun |-> 0,
           v |-> [i \in 0 .. n |-> Blank]]

-----------------------------------------------------------------------------
Next(q, i) == (i + 1) % q.max

PushBackForgetsHead(q, x) ==
  IF q.max = 0 THEN q
  ELSE [max |-> q.max, head |-> q.head, tail |-> Next(q, q.tail),
        overrun |-> IF Next(q, q.tail) = q.head THEN q.overrun + 1 ELSE q.overrun,
        v |-> [q.v EXCEPT ![q.tail] = x]]

(* Overruns the oldest item if no room is left; a disabled ring ignores x. *)
PushBack(q, x) ==
  IF q.max = 0 THEN q
  ELSE LET over == Next(q, q.tail) = q.head IN
    [max |-> q.max,
     head |-> IF over THEN Next(q, q.head) ELSE q.head,
     tail |-> Next(q, q.tail),
     overrun |-> IF over THEN q.overrun + 1 ELSE q.overrun,
     v |-> [q.v EXCEPT ![q.tail] = x]]

FrontIsBack(q) == q.v[(q.tail + q.max - 1) % q.max]

Front(q) == q.v[q.head]

Size(q) == IF q.tail >= q.head THEN q.tail - q.head
                               ELSE q.max - (q.head - q.tail)

At(q, i) == q.v[(q.head + i) % q.max]

(* std::move(q.front()): the slot keeps a moved-from value. *)
MoveFront(q) == [q EXCEPT !.v = [q.v EXCEPT ![q.head] = Blank]]

PopFrontNoWrap(q) == [q EXCEPT !.head = q.head + 1]

PopFront(q) == [q EXCEPT !.head = Next(q, q.head)]

Empty(q) == q.tail = q.head

Full(q) == q.max > 0 /\ Next(q, q.tail) = q.head

(* What a reader of the class thinks of: the items, oldest first, and the  *)
(* number of items there is room for.                                      *)
Contents(q) == [i \in 1 .. Size(q) |-> At(q, i - 1)]

Room(q) == IF q.max = 0 THEN 0 ELSE q.max - 1

=============================================================================
