------------------------ MODULE CircularQueueProofs ------------------------
(***************************************************************************)
(* What the operations of circular_q do to the sequence it holds, for      *)
(* every capacity and every position of head and tail.                     *)
(***************************************************************************)
EXTENDS CircularQueue, TLAPS

(* Reducing a sum of two indices of the ring: at most one wrap-around.     *)
LEMMA Wrap ==
  ASSUME NEW m \in Nat \ {0}, NEW i \in 0 .. m - 1, NEW k \in 0 .. m
  PROVE  (i + k) % m = IF i + k < m THEN i + k ELSE i + k - m
<1>1. CASE i + k < m
  BY <1>1, SMT
<1>2. CASE i + k >= m
  <2>1. i + k - m \in 0 .. m - 1
    BY <1>2
  <2>2. (i + k) % m = i + k - m
    BY <2>1, SMT
  <2> QED BY <1>2, <2>2
<1> QED BY <1>1, <1>2

LEMMA NextIndex ==
  ASSUME NEW q, IsRing(q), q.max > 0, NEW i \in 0 .. q.max - 1
  PROVE  /\ Next(q, i) = IF i + 1 = q.max THEN 0 ELSE i + 1
         /\ Next(q, i) \in 0 .. q.max - 1
<1>1. q.max \in Nat \ {0} /\ 1 \in 0 .. q.max
  BY DEF IsRing
<1>2. (i + 1) % q.max = IF i + 1 < q.max THEN i + 1 ELSE i + 1 - q.max
  BY <1>1, Wrap
<1> QED BY <1>1, <1>2 DEF Next

(* The number of items and the two tests, in terms of each other. *)
LEMMA SizeAndTests ==
  ASSUME NEW q, IsRing(q), q.max > 0
  PROVE  /\ Size(q) \in 0 .. q.max - 1
         /\ Empty(q) <=> Size(q) = 0
         /\ Full(q) <=> Size(q) = Room(q)
         /\ q.tail = IF q.head + Size(q) < q.max THEN q.head + Size(q)
                     ELSE q.head + Size(q) - q.max
<1>1. /\ q.max \in Nat /\ q.head \in 0 .. q.max - 1 /\ q.tail \in 0 .. q.max - 1
  BY DEF IsRing
<1>2. Size(q) \in 0 .. q.max - 1 /\ (Empty(q) <=> Size(q) = 0)
  BY <1>1 DEF Size, Empty
<1>3. Full(q) <=> Size(q) = Room(q)
  <2>1. Next(q, q.tail) = IF q.tail + 1 = q.max THEN 0 ELSE q.tail + 1
    BY <1>1, NextIndex
  <2> QED BY <1>1, <2>1 DEF Full, Size, Room
<1>4. q.tail = IF q.head + Size(q) < q.max THEN q.head + Size(q)
               ELSE q.head + Size(q) - q.max
  BY <1>1 DEF Size
<1> QED BY <1>2, <1>3, <1>4

(* Item i of the ring, with the reduction of the index made explicit. *)
LEMMA AtIndex ==
  ASSUME NEW q, IsRing(q), q.max > 0, NEW i \in 0 .. q.max
  PROVE  At(q, i) = q.v[IF q.head + i < q.max THEN q.head + i ELSE q.head + i - q.max]
<1>1. q.max \in Nat \ {0} /\ q.head \in 0 .. q.max - 1
  BY DEF IsRing
<1>2. (q.head + i) % q.max = IF q.head + i < q.max THEN q.head + i ELSE q.head + i - q.max
  BY <1>1, Wrap
<1> QED BY <1>2 DEF At

(* The contents are a sequence as long as size() says. *)
LEMMA ContentsIsSeq ==
  ASSUME NEW q, IsRing(q), q.max > 0
  PROVE  /\ Contents(q) \in Seq(Slot)
         /\ Len(Contents(q)) = Size(q)
         /\ \A i \in 1 .. Size(q) : Contents(q)[i] = At(q, i - 1)
<1>1. Size(q) \in 0 .. q.max - 1 /\ q.max \in Nat /\ q.head \in 0 .. q.max - 1
  BY SizeAndTests DEF IsRing
<1>2. q.v \in [0 .. q.max - 1 -> Slot]
  BY DEF IsRing
<1>3. ASSUME NEW i \in 1 .. Size(q) PROVE At(q, i - 1) \in Slot
  <2>1. i - 1 \in 0 .. q.max
    BY <1>1
  <2>2. At(q, i - 1) = q.v[IF q.head + (i - 1) < q.max THEN q.head + (i - 1)
                           ELSE q.head + (i - 1) - q.max]
    BY <2>1, AtIndex
  <2>3. (IF q.head + (i - 1) < q.max THEN q.head + (i - 1)
         ELSE q.head + (i - 1) - q.max) \in 0 .. q.max - 1
    BY <1>1
  <2> QED BY <1>2, <2>2, <2>3
<1>4. Contents(q) \in [1 .. Size(q) -> Slot]
  BY <1>3 DEF Contents
<1>5. Contents(q) \in Seq(Slot) /\ Len(Contents(q)) = Size(q)
  BY <1>1, <1>4
<1> QED BY <1>5 DEF Contents

LEMMA NewIsEmpty ==
  ASSUME NEW n \in Nat
  PROVE  /\ IsRing(New(n)) /\ New(n).max = n + 1 /\ New(n).overrun = 0
         /\ Contents(New(n)) = <<>> /\ Room(New(n)) = n
<1>1. IsRing(New(n)) /\ New(n).max = n + 1 /\ New(n).overrun = 0 /\ Room(New(n)) = n
  BY DEF New, IsRing, Slot, Room
<1>2. Size(New(n)) = 0
  BY DEF New, Size
<1>3. Contents(New(n)) \in Seq(Slot) /\ Len(Contents(New(n))) = 0
  BY <1>1, <1>2, ContentsIsSeq
<1> QED BY <1>1, <1>3

-----------------------------------------------------------------------------
(* push_back with room appends. *)
LEMMA PushAppends ==
  ASSUME NEW q, IsRing(q), q.max > 0, ~Full(q), NEW x \in Slot
  PROVE  /\ IsRing(PushBack(q, x))
         /\ PushBack(q, x).max = q.max
         /\ PushBack(q, x).overrun = q.overrun
         /\ Size(PushBack(q, x)) = Size(q) + 1
         /\ Contents(PushBack(q, x)) = Append(Contents(q), x)
<1> DEFINE r == PushBack(q, x)
<1>1. /\ q.max \in Nat /\ q.head \in 0 .. q.max - 1 /\ q.tail \in 0 .. q.max - 1
      /\ q.v \in [0 .. q.max - 1 -> Slot] /\ q.overrun \in Nat
  BY DEF IsRing
<1>2. /\ Next(q, q.tail) = IF q.tail + 1 = q.max THEN 0 ELSE q.tail + 1
      /\ Next(q, q.tail) \in 0 .. q.max - 1 /\ Next(q, q.tail) # q.head
  BY <1>1, NextIndex DEF Full
<1>3. r = [max |-> q.max, head |-> q.head, tail |-> Next(q, q.tail),
           overrun |-> q.overrun, v |-> [q.v EXCEPT ![q.tail] = x]]
  BY <1>1, <1>2 DEF PushBack
<1>4. /\ r.max = q.max /\ r.head = q.head /\ r.tail = Next(q, q.tail)
      /\ r.overrun = q.overrun /\ r.v = [q.v EXCEPT ![q.tail] = x]
  BY <1>3
<1>5. r.v \in [0 .. r.max - 1 -> Slot]
  BY <1>1, <1>4
<1>6. IsRing(r)
  <2>1. r = [max |-> r.max, head |-> r.head, tail |-> r.tail,
             overrun |-> r.overrun, v |-> r.v]
    BY <1>3, <1>4
  <2>2. r.head < r.max /\ r.tail < r.max
    BY <1>1, <1>2, <1>4
  <2> HIDE DEF r
  <2> QED BY <1>1, <1>2, <1>4, <1>5, <2>1, <2>2 DEF IsRing
<1>7. Size(q) \in 0 .. q.max - 2
  BY <1>1, SizeAndTests DEF Room
<1>11. Size(q) \in Nat /\ Size(q) <= q.max - 2
  BY <1>1, <1>7
<1>8. Size(r) = Size(q) + 1
  <2> HIDE DEF r
  <2>1. Size(r) = IF Next(q, q.tail) >= q.head THEN Next(q, q.tail) - q.head
                  ELSE q.max - (q.head - Next(q, q.tail))
    BY <1>4 DEF Size
  <2> QED BY <1>1, <1>2, <2>1 DEF Size
<1>9. \A i \in 0 .. Size(q) : At(r, i) = IF i = Size(q) THEN x ELSE At(q, i)
  <2> SUFFICES ASSUME NEW i \in 0 .. Size(q)
               PROVE  At(r, i) = IF i = Size(q) THEN x ELSE At(q, i)
    OBVIOUS
  <2> DEFINE k == IF q.head + i < q.max THEN q.head + i ELSE q.head + i - q.max
  <2>1. i \in 0 .. q.max
    BY <1>1, <1>7
  <2>2. At(q, i) = q.v[k]
    BY <2>1, AtIndex
  <2>3. At(r, i) = r.v[k]
    <3> HIDE DEF r
    <3>1. At(r, i) = r.v[IF r.head + i < r.max THEN r.head + i ELSE r.head + i - r.max]
      BY <1>1, <1>4, <1>6, <2>1, AtIndex
    <3> QED BY <1>4, <3>1
  <2>4. k \in 0 .. q.max - 1
    BY <1>1, <1>11
  <2>5. k = q.tail <=> i = Size(q)
    <3> DEFINE n == Size(q) h == q.head m == q.max
    <3>1. q.tail = IF h + n < m THEN h + n ELSE h + n - m
      BY SizeAndTests
    <3>2. m \in Nat /\ h \in 0 .. m - 1 /\ n \in Nat /\ n <= m - 2 /\ i \in 0 .. n
      BY <1>1, <1>11
    <3> HIDE DEF n, h, m
    <3>3. (IF h + i < m THEN h + i ELSE h + i - m) = (IF h + n < m THEN h + n ELSE h + n - m)
            <=> i = n
      BY <3>2
    <3> QED BY <3>1, <3>3 DEF n, h, m
  <2> QED
    <3> HIDE DEF k, r
    <3> QED BY <1>1, <1>4, <2>2, <2>3, <2>4, <2>5
<1>10. Contents(r) = Append(Contents(q), x)
  <2> HIDE DEF r
  <2>1. /\ Contents(q) \in Seq(Slot) /\ Len(Contents(q)) = Size(q)
        /\ \A i \in 1 .. Size(q) : Contents(q)[i] = At(q, i - 1)
    BY ContentsIsSeq
  <2>2. /\ Contents(r) \in Seq(Slot) /\ Len(Contents(r)) = Size(r)
        /\ \A i \in 1 .. Size(r) : Contents(r)[i] = At(r, i - 1)
    BY <1>1, <1>4, <1>6, ContentsIsSeq
  <2>3. Append(Contents(q), x) \in Seq(Slot) /\ Len(Append(Contents(q), x)) = Size(q) + 1
    BY <2>1
  <2>4. ASSUME NEW i \in 1 .. Size(q) + 1
        PROVE  Contents(r)[i] = Append(Contents(q), x)[i]
    <3>1. i - 1 \in 0 .. Size(q) /\ i \in 1 .. Size(r)
      BY <1>7, <1>8
    <3>2. Contents(r)[i] = IF i - 1 = Size(q) THEN x ELSE At(q, i - 1)
      BY <1>9, <2>2, <3>1
    <3>3. CASE i = Size(q) + 1
      BY <1>7, <2>1, <3>2, <3>3
    <3>4. CASE i \in 1 .. Size(q)
      BY <1>7, <2>1, <3>2, <3>4
    <3>5. i = Size(q) + 1 \/ i \in 1 .. Size(q)
      BY <1>11
    <3> QED BY <3>3, <3>4, <3>5
  <2>5. Len(Contents(r)) = Len(Append(Contents(q), x))
    BY <1>8, <2>2, <2>3
  <2> QED BY <1>8, <2>2, <2>3, <2>4, <2>5
<1> QED BY <1>4, <1>6, <1>8, <1>10

(* push_back without room drops the oldest item and counts it. *)
LEMMA PushOverruns ==
  ASSUME NEW q, IsRing(q), q.max > 0, Full(q), NEW x \in Slot
  PROVE  /\ IsRing(PushBack(q, x))
         /\ PushBack(q, x).max = q.max
         /\ PushBack(q, x).overrun = q.overrun + 1
         /\ Size(PushBack(q, x)) = Size(q)
         /\ Contents(PushBack(q, x)) = Tail(Append(Contents(q), x))
<1> DEFINE r == PushBack(q, x)
           n == Size(q)
           h == q.head
           m == q.max
<1>1. /\ m \in Nat \ {0} /\ h \in 0 .. m - 1 /\ q.tail \in 0 .. m - 1
      /\ q.v \in [0 .. m - 1 -> Slot] /\ q.overrun \in Nat
  BY DEF IsRing
<1>2. Next(q, q.tail) = h
  BY DEF Full
<1>3. /\ Next(q, h) = IF h + 1 = m THEN 0 ELSE h + 1
      /\ Next(q, h) \in 0 .. m - 1
  BY <1>1, NextIndex
<1>4. r = [max |-> m, head |-> Next(q, h), tail |-> h,
           overrun |-> q.overrun + 1, v |-> [q.v EXCEPT ![q.tail] = x]]
  BY <1>1, <1>2 DEF PushBack
<1>5. /\ r.max = m /\ r.head = Next(q, h) /\ r.tail = h
      /\ r.overrun = q.overrun + 1 /\ r.v = [q.v EXCEPT ![q.tail] = x]
  BY <1>4
<1>6. IsRing(r)
  <2>1. r = [max |-> r.max, head |-> r.head, tail |-> r.tail,
             overrun |-> r.overrun, v |-> r.v]
    BY <1>4, <1>5
  <2>2. r.v \in [0 .. r.max - 1 -> Slot]
    BY <1>1, <1>5
  <2>3. /\ r.head < r.max /\ r.tail < r.max
        /\ r.max \in Nat /\ r.max # 0 /\ r.head \in Nat /\ r.tail \in Nat
        /\ r.overrun \in Nat
    BY <1>1, <1>3, <1>5
  <2> HIDE DEF r
  <2> QED BY <2>1, <2>2, <2>3 DEF IsRing
<1>7. n = m - 1
  BY SizeAndTests DEF Room
<1>8. q.tail = IF h + n < m THEN h + n ELSE h + n - m
  BY SizeAndTests
<1>9. Size(r) = n
  <2>1. Size(r) = IF h >= Next(q, h) THEN h - Next(q, h) ELSE m - (Next(q, h) - h)
    <3> HIDE DEF r
    <3> QED BY <1>5 DEF Size
  <2> HIDE DEF n, h, m, r
  <2> QED BY <1>1, <1>3, <1>7, <2>1
<1>10. ASSUME NEW i \in 0 .. n - 1
       PROVE  At(r, i) = IF i = n - 1 THEN x ELSE At(q, i + 1)
  <2> DEFINE k == IF h + (i + 1) < m THEN h + (i + 1) ELSE h + (i + 1) - m
  <2>1. i \in 0 .. m /\ i + 1 \in 0 .. m
    BY <1>1, <1>7
  <2>2. At(q, i + 1) = q.v[k]
    BY <2>1, AtIndex
  <2>3. At(r, i) = r.v[k]
    <3>1. At(r, i) = r.v[IF r.head + i < r.max THEN r.head + i ELSE r.head + i - r.max]
      <4> HIDE DEF r
      <4> QED BY <1>1, <1>5, <1>6, <2>1, AtIndex
    <3>2. (IF r.head + i < r.max THEN r.head + i ELSE r.head + i - r.max) = k
      <4> HIDE DEF r, n, h, m
      <4> QED BY <1>1, <1>3, <1>5, <1>7 DEF k
    <3> QED BY <3>1, <3>2
  <2>4. k \in 0 .. m - 1 /\ (k = q.tail <=> i = n - 1)
    <3> HIDE DEF n, h, m
    <3> QED BY <1>1, <1>7, <1>8
  <2> HIDE DEF r, n, h, m, k
  <2> QED BY <1>1, <1>5, <2>2, <2>3, <2>4
<1>11. Contents(r) = Tail(Append(Contents(q), x))
  <2> HIDE DEF r
  <2>1. /\ Contents(q) \in Seq(Slot) /\ Len(Contents(q)) = n
        /\ \A i \in 1 .. n : Contents(q)[i] = At(q, i - 1)
    BY ContentsIsSeq
  <2>2. /\ Contents(r) \in Seq(Slot) /\ Len(Contents(r)) = n
        /\ \A i \in 1 .. n : Contents(r)[i] = At(r, i - 1)
    BY <1>1, <1>5, <1>6, <1>9, ContentsIsSeq
  <2> DEFINE a == Append(Contents(q), x)
  <2>3. a \in Seq(Slot) /\ Len(a) = n + 1
    BY <2>1
  <2>4. Tail(a) \in Seq(Slot) /\ Len(Tail(a)) = n
    <3> HIDE DEF a
    <3> QED BY <1>1, <1>7, <2>3
  <2>5. ASSUME NEW i \in 1 .. n PROVE Contents(r)[i] = Tail(a)[i]
    <3>1. i - 1 \in 0 .. n - 1 /\ n \in Nat
      BY <1>1, <1>7
    <3>2. Contents(r)[i] = IF i - 1 = n - 1 THEN x ELSE At(q, (i - 1) + 1)
      BY <1>10, <2>2, <3>1
    <3>3. Tail(a)[i] = a[i + 1]
      <4> HIDE DEF a
      <4> QED BY <2>3, <3>1
    <3>4. CASE i = n
      <4>1. a[i + 1] = x
        BY <2>1, <3>4
      <4> QED BY <3>1, <3>2, <3>3, <3>4, <4>1
    <3>5. CASE i # n
      <4>1. i + 1 \in 1 .. n /\ (i - 1) + 1 = (i + 1) - 1
        BY <3>1, <3>5
      <4>2. a[i + 1] = At(q, (i + 1) - 1)
        BY <2>1, <4>1
      <4>3. i - 1 # n - 1
        BY <3>1, <3>5
      <4>4. Contents(r)[i] = At(q, (i - 1) + 1)
        BY <3>2, <4>3
      <4> QED BY <3>3, <4>1, <4>2, <4>4
    <3> QED BY <3>4, <3>5
  <2> HIDE DEF a
  <2> QED BY <2>2, <2>4, <2>5 DEF a
<1> QED BY <1>5, <1>6, <1>9, <1>11

(* Moving the front item out and popping it removes the oldest item. *)
LEMMA PopTakes ==
  ASSUME NEW q, IsRing(q), q.max > 0, ~Empty(q)
  PROVE  /\ IsRing(PopFront(MoveFront(q)))
         /\ PopFront(MoveFront(q)).max = q.max
         /\ PopFront(MoveFront(q)).overrun = q.overrun
         /\ Contents(q) # <<>>
         /\ Front(q) = Head(Contents(q))
         /\ Contents(PopFront(MoveFront(q))) = Tail(Contents(q))
<1> DEFINE r == PopFront(MoveFront(q))
           n == Size(q)
           h == q.head
           m == q.max
<1>1. /\ m \in Nat \ {0} /\ h \in 0 .. m - 1 /\ q.tail \in 0 .. m - 1
      /\ q.v \in [0 .. m - 1 -> Slot] /\ q.overrun \in Nat
      /\ q = [max |-> m, head |-> h, tail |-> q.tail, overrun |-> q.overrun, v |-> q.v]
  BY DEF IsRing
<1>2. /\ Next(q, h) = IF h + 1 = m THEN 0 ELSE h + 1
      /\ Next(q, h) \in 0 .. m - 1
  BY <1>1, NextIndex
<1>3. r = [max |-> m, head |-> Next(q, h), tail |-> q.tail,
           overrun |-> q.overrun, v |-> [q.v EXCEPT ![h] = Blank]]
  <2>1. MoveFront(q) = [max |-> m, head |-> h, tail |-> q.tail,
                        overrun |-> q.overrun, v |-> [q.v EXCEPT ![h] = Blank]]
    <3> DEFINE v == [q.v EXCEPT ![h] = Blank]
    <3>1. [[max |-> m, head |-> h, tail |-> q.tail, overrun |-> q.overrun, v |-> q.v]
             EXCEPT !.v = v]
            = [max |-> m, head |-> h, tail |-> q.tail, overrun |-> q.overrun, v |-> v]
      OBVIOUS
    <3>2. MoveFront(q) = [q EXCEPT !.v = v]
      BY DEF MoveFront
    <3> QED BY <1>1, <3>1, <3>2
  <2> QED BY <2>1 DEF PopFront, Next
<1>4. /\ r.max = m /\ r.head = Next(q, h) /\ r.tail = q.tail
      /\ r.overrun = q.overrun /\ r.v = [q.v EXCEPT ![h] = Blank]
  BY <1>3
<1>5. IsRing(r)
  <2>1. r = [max |-> r.max, head |-> r.head, tail |-> r.tail,
             overrun |-> r.overrun, v |-> r.v]
    BY <1>3, <1>4
  <2>2. r.v \in [0 .. r.max - 1 -> Slot]
    BY <1>1, <1>4 DEF Slot
  <2>3. /\ r.head < r.max /\ r.tail < r.max
        /\ r.max \in Nat /\ r.max # 0 /\ r.head \in Nat /\ r.tail \in Nat
        /\ r.overrun \in Nat
    BY <1>1, <1>2, <1>4
  <2> HIDE DEF r
  <2> QED BY <2>1, <2>2, <2>3 DEF IsRing
<1>6. n \in 1 .. m - 1
  BY <1>1, SizeAndTests
<1>7. Size(r) = n - 1
  <2>1. Size(r) = IF q.tail >= Next(q, h) THEN q.tail - Next(q, h)
                  ELSE m - (Next(q, h) - q.tail)
    <3> HIDE DEF r
    <3> QED BY <1>4 DEF Size
  <2>2. n = IF q.tail >= h THEN q.tail - h ELSE m - (h - q.tail)
    BY DEF Size
  <2> HIDE DEF n, h, m, r
  <2> QED BY <1>1, <1>2, <1>6, <2>1, <2>2
<1>8. ASSUME NEW i \in 0 .. n - 2
      PROVE  At(r, i) = At(q, i + 1)
  <2> DEFINE k == IF h + (i + 1) < m THEN h + (i + 1) ELSE h + (i + 1) - m
  <2>1. i \in 0 .. m /\ i + 1 \in 0 .. m
    BY <1>1, <1>6
  <2>2. At(q, i + 1) = q.v[k]
    BY <2>1, AtIndex
  <2>3. At(r, i) = r.v[k]
    <3>1. At(r, i) = r.v[IF r.head + i < r.max THEN r.head + i ELSE r.head + i - r.max]
      <4> HIDE DEF r
      <4> QED BY <1>1, <1>4, <1>5, <2>1, AtIndex
    <3>2. (IF r.head + i < r.max THEN r.head + i ELSE r.head + i - r.max) = k
      <4> HIDE DEF r, n, h, m
      <4>1. r.head = IF h + 1 = m THEN 0 ELSE h + 1
        BY <1>2, <1>4
      <4>2. CASE h + 1 = m
        BY <1>1, <1>4, <1>6, <4>1, <4>2 DEF k
      <4>3. CASE h + 1 # m
        BY <1>1, <1>4, <1>6, <4>1, <4>3 DEF k
      <4> QED BY <4>2, <4>3
    <3> QED BY <3>1, <3>2
  <2>4. k \in 0 .. m - 1 /\ k # h
    <3> HIDE DEF n, h, m
    <3> QED BY <1>1, <1>6
  <2> HIDE DEF r, n, h, m, k
  <2> QED BY <1>1, <1>4, <2>2, <2>3, <2>4
<1>9. /\ Contents(q) \in Seq(Slot) /\ Len(Contents(q)) = n
      /\ \A i \in 1 .. n : Contents(q)[i] = At(q, i - 1)
  BY ContentsIsSeq
<1>10. Front(q) = Head(Contents(q)) /\ Contents(q) # <<>>
  <2>1. At(q, 0) = q.v[IF h + 0 < m THEN h + 0 ELSE h + 0 - m]
    BY <1>1, AtIndex
  <2>2. Front(q) = At(q, 0)
    BY <1>1, <2>1 DEF Front
  <2>3. Contents(q)[1] = At(q, 0)
    BY <1>6, <1>9
  <2> HIDE DEF n
  <2> QED BY <1>1, <1>6, <1>9, <2>2, <2>3
<1>11. Contents(r) = Tail(Contents(q))
  <2> HIDE DEF r
  <2>1. /\ Contents(r) \in Seq(Slot) /\ Len(Contents(r)) = n - 1
        /\ \A i \in 1 .. n - 1 : Contents(r)[i] = At(r, i - 1)
    BY <1>1, <1>4, <1>5, <1>7, ContentsIsSeq
  <2>2. /\ Tail(Contents(q)) \in Seq(Slot) /\ Len(Tail(Contents(q))) = n - 1
        /\ \A i \in 1 .. n - 1 : Tail(Contents(q))[i] = Contents(q)[i + 1]
    <3> HIDE DEF n
    <3> QED BY <1>1, <1>6, <1>9, <1>10
  <2>3. ASSUME NEW i \in 1 .. n - 1 PROVE Contents(r)[i] = Tail(Contents(q))[i]
    <3>1. /\ i - 1 \in 0 .. n - 2 /\ i + 1 \in 1 .. n
          /\ (i - 1) + 1 = (i + 1) - 1
      BY <1>1, <1>6
    <3>2. Contents(r)[i] = At(q, (i - 1) + 1)
      BY <1>8, <2>1, <3>1
    <3>3. Tail(Contents(q))[i] = At(q, (i + 1) - 1)
      BY <1>9, <2>2, <3>1
    <3> QED BY <3>1, <3>2, <3>3
  <2> QED BY <2>1, <2>2, <2>3
<1> QED BY <1>4, <1>5, <1>10, <1>11

=============================================================================
