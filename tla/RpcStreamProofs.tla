-------------------------- MODULE RpcStreamProofs --------------------------
(***************************************************************************)
(* Proofs about the stream: for any sizes of the ring buffer, the segments *)
(* and the batches and any readers, the stream holds the newest items, and *)
(* a reader is given them in order.  The first part is about the ring      *)
(* buffer of queue.go alone: Add, Remove, TailP and the resizes do to its  *)
(* elements what they do to a list, for any length of the buffer and       *)
(* wherever its head is.                                                   *)
(***************************************************************************)
EXTENDS RpcStream, SequenceTheorems, SumProofs, TLAPS

-----------------------------------------------------------------------------
(* The ring buffer.                                                        *)

Queues == [buf : Seq(Seq(Int)), head : Nat, tail : Nat, count : Nat]

\* The representation invariant of queue.go, but for the powers of two.
Ring(q) ==
    /\ q \in Queues
    /\ Len(q.buf) >= 1 /\ q.head < Len(q.buf) /\ q.count <= Len(q.buf)
    /\ q.tail = (q.head + q.count) % Len(q.buf)

\* The position of the element j after head h, in a buffer of n elements.
Pos(h, j, n) == IF h + j < n THEN h + j ELSE h + j - n

\* A position is reduced at most once.
LEMMA Reduced ==
    ASSUME NEW n \in Nat, n >= 1, NEW h \in Nat, NEW j \in Nat, h < n, j <= n
    PROVE  (h + j) % n = Pos(h, j, n) /\ Pos(h, j, n) \in Nat /\ Pos(h, j, n) < n
  <1>1. ASSUME NEW x \in Nat, x < n PROVE x % n = x
    BY <1>1
  <1>2. ASSUME NEW x \in Nat, n <= x, x < 2 * n PROVE x % n = x - n
    BY <1>2
  <1> QED
    BY <1>1, <1>2 DEF Pos

\* Two elements have two positions.
LEMMA PosInjective ==
    ASSUME NEW n \in Nat, NEW h \in Nat, NEW j \in Nat, NEW k \in Nat, h < n, j < n, k < n,
           Pos(h, j, n) = Pos(h, k, n)
    PROVE  j = k
  BY DEF Pos

\* The position after the one of element j is that of element j + 1.
LEMMA PosNext ==
    ASSUME NEW n \in Nat, NEW h \in Nat, NEW j \in Nat, h < n, j < n
    PROVE  /\ Pos(Pos(h, j, n), 1, n) = Pos(h, j + 1, n)
           /\ Pos(Pos(h, 1, n), j, n) = Pos(h, j + 1, n)
  BY DEF Pos

\* What a ring's fields are, and where its elements are.
LEMMA RingFacts ==
    ASSUME NEW q, Ring(q)
    PROVE  /\ q.buf \in Seq(Seq(Int)) /\ q.head \in Nat /\ q.tail \in Nat /\ q.count \in Nat
           /\ Len(q.buf) \in Nat /\ Len(q.buf) >= 1
           /\ q.head < Len(q.buf) /\ q.count <= Len(q.buf)
           /\ q.tail = Pos(q.head, q.count, Len(q.buf)) /\ q.tail < Len(q.buf)
           /\ \A j \in Nat : j < q.count =>
                 /\ Get(q, j) = q.buf[Pos(q.head, j, Len(q.buf)) + 1]
                 /\ Pos(q.head, j, Len(q.buf)) + 1 \in 1 .. Len(q.buf)
                 /\ Get(q, j) \in Seq(Int)
  <1>1. /\ q.buf \in Seq(Seq(Int)) /\ q.head \in Nat /\ q.tail \in Nat /\ q.count \in Nat
        /\ Len(q.buf) \in Nat /\ Len(q.buf) >= 1
        /\ q.head < Len(q.buf) /\ q.count <= Len(q.buf)
        /\ q.tail = (q.head + q.count) % Len(q.buf)
    BY DEF Ring, Queues
  <1>2. q.tail = Pos(q.head, q.count, Len(q.buf)) /\ q.tail < Len(q.buf)
    <2>1. /\ (q.head + q.count) % Len(q.buf) = Pos(q.head, q.count, Len(q.buf))
          /\ Pos(q.head, q.count, Len(q.buf)) < Len(q.buf)
      BY <1>1, Reduced, Zenon
    <2> QED
      BY <1>1, <2>1, Zenon
  <1>3. ASSUME NEW j \in Nat, j < q.count
        PROVE  /\ Get(q, j) = q.buf[Pos(q.head, j, Len(q.buf)) + 1]
               /\ Pos(q.head, j, Len(q.buf)) + 1 \in 1 .. Len(q.buf)
               /\ Get(q, j) \in Seq(Int)
    <2>0. j <= Len(q.buf)
      BY <1>1, <1>3
    <2>1. /\ (q.head + j) % Len(q.buf) = Pos(q.head, j, Len(q.buf))
          /\ Pos(q.head, j, Len(q.buf)) \in Nat /\ Pos(q.head, j, Len(q.buf)) < Len(q.buf)
      BY <1>1, <2>0, Reduced, Zenon
    <2>2. Get(q, j) = q.buf[Pos(q.head, j, Len(q.buf)) + 1]
      <3>1. ~(j < 0)
        OBVIOUS
      <3>2. GetP(q, j) = ((q.head + j) % Len(q.buf)) + 1
        BY <3>1, Zenon DEF GetP
      <3> QED
        BY <2>1, <3>2, Zenon DEF Get
    <2>3. Pos(q.head, j, Len(q.buf)) + 1 \in 1 .. Len(q.buf)
      <3>1. ASSUME NEW x \in Nat, NEW n \in Nat, x < n PROVE x + 1 \in 1 .. n
        BY <3>1
      <3> QED
        BY <1>1, <2>1, <3>1, Zenon
    <2> QED
      BY <1>1, <2>2, <2>3
  <1> QED
    BY <1>1, <1>2, <1>3

\* The sequence that resize copies: the elements from head to tail.
LEMMA LiveFacts ==
    ASSUME NEW q, Ring(q), q.count >= 1, NEW live,
           live = IF q.tail > q.head
                  THEN SubSeq(q.buf, q.head + 1, q.tail)
                  ELSE SubSeq(q.buf, q.head + 1, Len(q.buf)) \o SubSeq(q.buf, 1, q.tail)
    PROVE  /\ live \in Seq(Seq(Int)) /\ Len(live) = q.count
           /\ \A p \in 1 .. q.count : live[p] = Get(q, p - 1)
  <1> DEFINE b == q.buf
             n == Len(q.buf)
             h == q.head
             c == q.count
             t == q.tail
  <1>1. /\ b \in Seq(Seq(Int)) /\ h \in Nat /\ t \in Nat /\ c \in Nat
        /\ n \in Nat /\ n >= 1 /\ h < n /\ c <= n /\ t = Pos(h, c, n) /\ t < n /\ c >= 1
        /\ n = Len(b)
    BY RingFacts
  <1>2. \A j \in Nat : j < c => Get(q, j) = b[Pos(h, j, n) + 1]
    BY RingFacts
  <1>3. live = IF t > h THEN SubSeq(b, h + 1, t) ELSE SubSeq(b, h + 1, n) \o SubSeq(b, 1, t)
    OBVIOUS
  <1> HIDE DEF b, n, h, c, t
  <1>4. /\ live \in Seq(Seq(Int)) /\ Len(live) = c
        /\ \A p \in 1 .. c : live[p] = b[Pos(h, p - 1, n) + 1]
    <2>1. CASE t > h
      <3>1. t = h + c
        BY <1>1, <2>1 DEF Pos
      <3>2. /\ live \in Seq(Seq(Int)) /\ Len(live) = c
            /\ \A p \in 1 .. c : live[p] = b[h + p]
        <4>1. live = SubSeq(b, h + 1, h + c)
          BY <1>3, <2>1, <3>1
        <4>2. h + c <= n
          BY <1>1, <3>1
        <4>3. /\ SubSeq(b, h + 1, h + c) \in Seq(Seq(Int))
              /\ Len(SubSeq(b, h + 1, h + c)) = c
              /\ \A p \in 1 .. c : SubSeq(b, h + 1, h + c)[p] = b[h + p]
          BY <1>1, <4>2
        <4> QED
          BY <4>1, <4>3, Zenon
      <3>3. \A p \in 1 .. c : Pos(h, p - 1, n) + 1 = h + p
        BY <1>1, <3>1 DEF Pos
      <3> QED
        BY <3>2, <3>3
    <2>2. CASE ~(t > h)
      <3> DEFINE u == SubSeq(b, h + 1, n)
                 v == SubSeq(b, 1, t)
      <3>1. t = h + c - n
        BY <1>1, <2>2 DEF Pos
      <3>2. /\ u \in Seq(Seq(Int)) /\ Len(u) = n - h
            /\ \A p \in 1 .. n - h : u[p] = b[h + p]
        BY <1>1
      <3>3. /\ v \in Seq(Seq(Int)) /\ Len(v) = t
            /\ \A p \in 1 .. t : v[p] = b[p]
        BY <1>1
      <3>4. live = u \o v
        BY <1>3, <2>2
      <3> HIDE DEF u, v
      <3>l. Len(u) = n - h /\ Len(v) = t /\ Len(u) + Len(v) = c
        <4>1. Len(u) = n - h /\ Len(v) = t
          BY <3>2, <3>3
        <4> QED
          BY <1>1, <3>1, <4>1
      <3>c. /\ u \o v \in Seq(Seq(Int)) /\ Len(u \o v) = Len(u) + Len(v)
            /\ \A p \in 1 .. Len(u) + Len(v) :
                  (u \o v)[p] = IF p <= Len(u) THEN u[p] ELSE v[p - Len(u)]
        <4>1. u \in Seq(Seq(Int)) /\ v \in Seq(Seq(Int))
          BY <3>2, <3>3
        <4> QED
          BY <4>1, ConcatProperties
      <3>5. live \in Seq(Seq(Int)) /\ Len(live) = c
        BY <3>4, <3>c, <3>l, Zenon
      <3>6. ASSUME NEW p \in 1 .. c PROVE live[p] = b[Pos(h, p - 1, n) + 1]
        <4>0. live[p] = IF p <= n - h THEN u[p] ELSE v[p - (n - h)]
          BY <3>4, <3>c, <3>l, Zenon
        <4>1. CASE p <= n - h
          <5>1. Pos(h, p - 1, n) + 1 = h + p /\ p \in 1 .. n - h
            BY <1>1, <4>1 DEF Pos
          <5> QED
            BY <3>2, <4>0, <4>1, <5>1, Zenon
        <4>2. CASE ~(p <= n - h)
          <5>1. /\ h \in Nat /\ n \in Nat /\ c \in Nat /\ t \in Nat /\ h < n
                /\ p \in Nat /\ p <= c /\ p > n - h
            BY <1>1, <4>2
          <5>2. Pos(h, p - 1, n) + 1 = p - (n - h)
            BY <5>1 DEF Pos
          <5>3. p - (n - h) \in 1 .. t
            BY <3>1, <5>1
          <5> QED
            BY <3>3, <4>0, <4>2, <5>2, <5>3, Zenon
        <4> QED
          BY <4>1, <4>2
      <3> QED
        BY <3>5, <3>6
    <2> QED
      BY <2>1, <2>2
  <1>5. \A p \in 1 .. c : Get(q, p - 1) = b[Pos(h, p - 1, n) + 1]
    BY <1>1, <1>2
  <1> QED
    BY <1>4, <1>5 DEF c

\* A resized ring has the same elements.
LEMMA Resized ==
    ASSUME NEW q, Ring(q), q.count >= 1
    PROVE  LET r == resize(q)
           IN  /\ Ring(r) /\ r.count = q.count /\ Len(r.buf) = 2 * q.count
               /\ \A j \in Nat : j < q.count => Get(r, j) = Get(q, j)
  <1> DEFINE r == resize(q)
             c == q.count
             live == IF q.tail > q.head
                     THEN SubSeq(q.buf, q.head + 1, q.tail)
                     ELSE SubSeq(q.buf, q.head + 1, Len(q.buf)) \o SubSeq(q.buf, 1, q.tail)
             b == copy(make(2 * c), live)
  <1>1. q \in Queues /\ c \in Nat /\ c >= 1
    BY RingFacts DEF Ring
  <1>2. /\ live \in Seq(Seq(Int)) /\ Len(live) = c
        /\ \A p \in 1 .. c : live[p] = Get(q, p - 1)
    BY LiveFacts
  <1>3. r = [q EXCEPT !.buf = b, !.head = 0, !.tail = c]
    BY DEF resize
  <1> HIDE DEF live
  <1>4. b = [p \in 1 .. 2 * c |-> IF p <= c THEN live[p] ELSE <<>>]
    BY <1>1, <1>2 DEF copy, make
  <1>5. b \in Seq(Seq(Int)) /\ Len(b) = 2 * c
    <2>1. \A p \in 1 .. 2 * c : (IF p <= c THEN live[p] ELSE <<>>) \in Seq(Int)
      BY <1>1, <1>2
    <2>2. b \in [1 .. 2 * c -> Seq(Int)] /\ 2 * c \in Nat
      <3>1. 2 * c \in Nat
        BY <1>1
      <3> HIDE DEF b
      <3> QED
        BY <1>4, <2>1, <3>1
    <2> HIDE DEF b
    <2> QED
      BY <2>2
  <1>6. \A j \in Nat : j < c => b[j + 1] = Get(q, j)
    <2> HIDE DEF b
    <2> QED
      BY <1>1, <1>2, <1>4
  <1> HIDE DEF r, b
  <1>7. r.buf = b /\ r.head = 0 /\ r.tail = c /\ r.count = c /\ r \in Queues
    BY <1>1, <1>3, <1>5 DEF Queues
  <1>8. Pos(0, c, 2 * c) = c /\ \A j \in Nat : j < c => Pos(0, j, 2 * c) = j
    BY <1>1 DEF Pos
  <1>9. (0 + c) % (2 * c) = Pos(0, c, 2 * c)
    <2>1. 2 * c \in Nat /\ 2 * c >= 1 /\ 0 < 2 * c /\ c <= 2 * c /\ 0 \in Nat
      BY <1>1
    <2> QED
      BY <1>1, <2>1, Reduced, Zenon
  <1>10. Ring(r)
    <2>1. r \in Queues /\ Len(r.buf) = 2 * c /\ r.head = 0 /\ r.count = c
      BY <1>5, <1>7
    <2>2. r.tail = (r.head + r.count) % Len(r.buf)
      BY <1>7, <1>8, <1>9, <2>1, Zenon
    <2> QED
      BY <1>1, <2>1, <2>2 DEF Ring
  <1>11. ASSUME NEW j \in Nat, j < c PROVE Get(r, j) = Get(q, j)
    <2>1. Get(r, j) = r.buf[Pos(r.head, j, Len(r.buf)) + 1]
      BY <1>7, <1>10, <1>11, RingFacts
    <2> QED
      BY <1>5, <1>6, <1>7, <1>8, <1>11, <2>1
  <1> QED
    BY <1>5, <1>7, <1>10, <1>11 DEF r

\* Add appends an element.
LEMMA Added ==
    ASSUME NEW q, Ring(q), NEW elem \in Seq(Int)
    PROVE  LET r == AddTo(q, elem)
           IN  /\ Ring(r) /\ r.count = q.count + 1
               /\ \A j \in Nat : j < q.count => Get(r, j) = Get(q, j)
               /\ Get(r, q.count) = elem
  <1> DEFINE s == IF q.count = Len(q.buf) THEN resize(q) ELSE q
             r == AddTo(q, elem)
             n == Len(s.buf)
             h == s.head
             c == s.count
  <1>1. /\ Ring(s) /\ s.count = q.count /\ s.count < Len(s.buf)
        /\ \A j \in Nat : j < q.count => Get(s, j) = Get(q, j)
    <2>1. /\ q.count \in Nat /\ Len(q.buf) \in Nat /\ q.count <= Len(q.buf)
          /\ Len(q.buf) >= 1
      BY RingFacts
    <2>2. CASE q.count = Len(q.buf)
      <3>1. q.count >= 1
        BY <2>1, <2>2
      <3>2. /\ Ring(s) /\ s.count = q.count /\ Len(s.buf) = 2 * q.count
            /\ \A j \in Nat : j < q.count => Get(s, j) = Get(q, j)
        BY <2>2, <3>1, Resized
      <3> QED
        BY <2>1, <3>1, <3>2
    <2>3. CASE q.count # Len(q.buf)
      BY <2>1, <2>3
    <2> QED
      BY <2>2, <2>3
  <1>2. r = [s EXCEPT !.buf = [@ EXCEPT ![s.tail + 1] = elem],
                      !.tail = (@ + 1) % Len(s.buf), !.count = @ + 1]
    BY DEF AddTo
  <1> HIDE DEF s, r
  <1>3. /\ s \in Queues /\ s.buf \in Seq(Seq(Int)) /\ h \in Nat /\ s.tail \in Nat /\ c \in Nat
        /\ n \in Nat /\ n >= 1 /\ h < n /\ c < n /\ s.tail = Pos(h, c, n) /\ s.tail < n
    BY <1>1, RingFacts DEF Ring
  <1>4. /\ \A j \in Nat : j < c => /\ Get(s, j) = s.buf[Pos(h, j, n) + 1]
                                   /\ Pos(h, j, n) + 1 \in 1 .. n
    BY <1>1, RingFacts
  <1> DEFINE b == [s.buf EXCEPT ![s.tail + 1] = elem]
  <1>5. /\ b \in Seq(Seq(Int)) /\ Len(b) = n /\ b[s.tail + 1] = elem
        /\ \A p \in 1 .. n : p # s.tail + 1 => b[p] = s.buf[p]
    BY <1>3
  <1>6. r.buf = b /\ r.head = h /\ r.tail = (s.tail + 1) % n /\ r.count = c + 1
    BY <1>2, <1>3 DEF Queues
  <1>7. (s.tail + 1) % n = (h + (c + 1)) % n /\ (s.tail + 1) % n \in Nat
    <2>1. (s.tail + 1) % n = Pos(s.tail, 1, n) /\ Pos(s.tail, 1, n) \in Nat
      BY <1>3, Reduced
    <2>2. (h + (c + 1)) % n = Pos(h, c + 1, n)
      <3>1. c + 1 \in Nat /\ c + 1 <= n
        BY <1>3
      <3> QED
        BY <1>3, <3>1, Reduced, Zenon
    <2>3. Pos(s.tail, 1, n) = Pos(h, c + 1, n)
      <3>1. Pos(Pos(h, c, n), 1, n) = Pos(h, c + 1, n)
        BY <1>3, PosNext, Zenon
      <3>2. s.tail = Pos(h, c, n)
        BY <1>3
      <3> QED
        BY <3>1, <3>2, Zenon
    <2> QED
      BY <2>1, <2>2, <2>3, Zenon
  <1> HIDE DEF b, n, h, c
  <1>8. Ring(r)
    <2>1. r \in Queues
      <3>1. r = [buf |-> b, head |-> h, tail |-> (s.tail + 1) % n, count |-> c + 1]
        BY <1>2, <1>3 DEF Queues, b, h, n, c
      <3>2. c + 1 \in Nat
        BY <1>3
      <3> QED
        BY <1>3, <1>5, <1>7, <3>1, <3>2, Zenon DEF Queues
    <2> QED
      <3>1. Len(r.buf) = n /\ r.tail = (r.head + r.count) % Len(r.buf)
        BY <1>5, <1>6, <1>7, Zenon
      <3>2. n >= 1 /\ h < n /\ c + 1 <= n
        BY <1>3
      <3>3. Len(r.buf) >= 1 /\ r.head < Len(r.buf) /\ r.count <= Len(r.buf)
        BY <1>6, <3>1, <3>2, Zenon
      <3> QED
        BY <2>1, <3>1, <3>3, Zenon DEF Ring
  <1>9. \A j \in Nat : j < c + 1 => Get(r, j) = b[Pos(h, j, n) + 1]
    BY <1>5, <1>6, <1>8, RingFacts
  <1>10. Get(r, c) = elem
    <2>1. Get(r, c) = b[Pos(h, c, n) + 1]
      BY <1>3, <1>9
    <2> QED
      BY <1>3, <1>5, <2>1, Zenon
  <1>11. ASSUME NEW j \in Nat, j < c PROVE Get(r, j) = Get(s, j)
    <2>1. Pos(h, j, n) # s.tail /\ j < c + 1
      BY <1>3, <1>11, PosInjective
    <2>2. Pos(h, j, n) + 1 \in 1 .. n /\ Get(s, j) = s.buf[Pos(h, j, n) + 1]
      BY <1>4, <1>11
    <2>3. Pos(h, j, n) + 1 # s.tail + 1
      BY <1>3, <2>1 DEF Pos
    <2> QED
      BY <1>5, <1>9, <2>1, <2>2, <2>3
  <1> QED
    BY <1>1, <1>6, <1>8, <1>10, <1>11 DEF r, c

\* Remove takes the first element away.
LEMMA Removed ==
    ASSUME NEW q, Ring(q), q.count >= 1
    PROVE  LET r == RemoveHead(q)
           IN  /\ Ring(r) /\ r.count = q.count - 1
               /\ \A j \in Nat : j < q.count - 1 => Get(r, j) = Get(q, j + 1)
  <1> DEFINE s == [q EXCEPT !.head = (@ + 1) % Len(q.buf), !.count = @ - 1]
             n == Len(q.buf)
             h == q.head
             c == q.count
  <1>1. /\ q \in Queues /\ q.buf \in Seq(Seq(Int)) /\ h \in Nat /\ q.tail \in Nat /\ c \in Nat
        /\ n \in Nat /\ n >= 1 /\ h < n /\ c <= n /\ c >= 1
        /\ q.tail = Pos(h, c, n)
    BY RingFacts DEF Ring
  <1>2. \A j \in Nat : j < c => Get(q, j) = q.buf[Pos(h, j, n) + 1]
    BY RingFacts
  <1>3. s = [buf |-> q.buf, head |-> (h + 1) % n, tail |-> q.tail, count |-> c - 1]
    <2> DEFINE m == (h + 1) % n
    <2>1. s = [q EXCEPT !.head = m, !.count = c - 1]
      BY Zenon
    <2> HIDE DEF m, n, h, c, s
    <2>2. s = [buf |-> q.buf, head |-> m, tail |-> q.tail, count |-> c - 1]
      BY <1>1, <2>1 DEF Queues
    <2> QED
      BY <2>2 DEF m
  <1>4. RemoveHead(q) = IF n > MinQueueLen /\ 4 * s.count = n THEN resize(s) ELSE s
    BY <1>3 DEF RemoveHead
  <1> HIDE DEF s, n, h, c
  <1>5. (h + 1) % n = Pos(h, 1, n) /\ Pos(h, 1, n) \in Nat /\ Pos(h, 1, n) < n
    BY <1>1, Reduced
  <1>6. /\ s.buf = q.buf /\ s.head = Pos(h, 1, n) /\ s.tail = q.tail /\ s.count = c - 1
        /\ s \in Queues /\ c - 1 \in Nat
    <2>1. c - 1 \in Nat
      BY <1>1
    <2> QED
      BY <1>1, <1>3, <1>5, <2>1 DEF Queues
  <1>7. \A j \in Nat : j < c => Pos(Pos(h, 1, n), j, n) = Pos(h, j + 1, n)
    <2> SUFFICES ASSUME NEW j \in Nat, j < c
                 PROVE  Pos(Pos(h, 1, n), j, n) = Pos(h, j + 1, n)
      OBVIOUS
    <2>1. j < n
      BY <1>1
    <2> QED
      BY <1>1, <2>1, PosNext
  <1>8. Ring(s)
    <2>1. (s.head + (c - 1)) % n = Pos(s.head, c - 1, n)
      <3>1. c - 1 <= n
        BY <1>1
      <3> QED
        BY <1>1, <1>5, <1>6, <3>1, Reduced
    <2>2. Pos(Pos(h, 1, n), c - 1, n) = Pos(h, c, n)
      <3>1. c - 1 < c /\ c - 1 + 1 = c
        BY <1>1
      <3> QED
        BY <1>6, <1>7, <3>1
    <2>3. s.tail = (s.head + s.count) % Len(s.buf)
      BY <1>1, <1>6, <2>1, <2>2 DEF n
    <2> QED
      BY <1>1, <1>5, <1>6, <2>3 DEF Ring, n
  <1>9. ASSUME NEW j \in Nat, j < c - 1 PROVE Get(s, j) = Get(q, j + 1)
    <2>1. Get(s, j) = s.buf[Pos(s.head, j, Len(s.buf)) + 1]
      BY <1>6, <1>8, <1>9, RingFacts
    <2>2. Get(s, j) = q.buf[Pos(Pos(h, 1, n), j, n) + 1]
      BY <1>6, <2>1 DEF n
    <2>3. j < c /\ j + 1 < c /\ j + 1 \in Nat
      BY <1>1, <1>9
    <2> QED
      BY <1>2, <1>7, <2>2, <2>3
  <1>10. CASE n > MinQueueLen /\ 4 * s.count = n
    <2>1. s.count >= 1
      BY <1>1, <1>6, <1>10
    <2>2. /\ Ring(resize(s)) /\ resize(s).count = s.count
          /\ \A j \in Nat : j < s.count => Get(resize(s), j) = Get(s, j)
      BY <1>8, <2>1, Resized
    <2>3. RemoveHead(q) = resize(s)
      BY <1>4, <1>10
    <2> QED
      BY <1>6, <1>9, <2>2, <2>3 DEF c
  <1>11. CASE ~(n > MinQueueLen /\ 4 * s.count = n)
    BY <1>4, <1>6, <1>8, <1>9, <1>11 DEF c
  <1> QED
    BY <1>10, <1>11

\* Tail and TailP are the last element and its place.
LEMMA TailPlace ==
    ASSUME NEW q, Ring(q), q.count >= 1
    PROVE  /\ TailOf(q) = Get(q, q.count - 1)
           /\ GetP(q, -1) = Pos(q.head, q.count - 1, Len(q.buf)) + 1
  <1>1. q.count \in Nat /\ q.count - 1 \in Nat /\ -1 + q.count = q.count - 1
    BY RingFacts
  <1>2. GetP(q, -1) = GetP(q, q.count - 1)
    BY <1>1 DEF GetP
  <1>3. (q.head + (q.count - 1)) % Len(q.buf) = Pos(q.head, q.count - 1, Len(q.buf))
    <2>1. /\ q.head \in Nat /\ Len(q.buf) \in Nat /\ Len(q.buf) >= 1 /\ q.head < Len(q.buf)
          /\ q.count - 1 <= Len(q.buf)
      BY RingFacts
    <2> QED
      BY <1>1, <2>1, Reduced, Zenon
  <1>4. GetP(q, q.count - 1) = Pos(q.head, q.count - 1, Len(q.buf)) + 1
    BY <1>1, <1>3 DEF GetP
  <1> QED
    BY <1>2, <1>4 DEF TailOf, Get

\* An assignment through TailP changes the last element.
LEMMA TailSet ==
    ASSUME NEW q, Ring(q), q.count >= 1, NEW elem \in Seq(Int)
    PROVE  LET r == SetTail(q, elem)
           IN  /\ Ring(r) /\ r.count = q.count
               /\ \A j \in Nat : j < q.count - 1 => Get(r, j) = Get(q, j)
               /\ Get(r, q.count - 1) = elem
  <1> DEFINE n == Len(q.buf)
             h == q.head
             c == q.count
             l == Pos(h, c - 1, n)
             r == SetTail(q, elem)
             b == [q.buf EXCEPT ![l + 1] = elem]
  <1>1. /\ q \in Queues /\ q.buf \in Seq(Seq(Int)) /\ h \in Nat /\ q.tail \in Nat /\ c \in Nat
        /\ n \in Nat /\ n >= 1 /\ h < n /\ c <= n /\ c >= 1 /\ c - 1 \in Nat
    BY RingFacts DEF Ring
  <1>2. \A j \in Nat : j < c => /\ Get(q, j) = q.buf[Pos(h, j, n) + 1]
                                /\ Pos(h, j, n) + 1 \in 1 .. n
    BY RingFacts
  <1>3. r = [q EXCEPT !.buf = b]
    BY TailPlace DEF SetTail
  <1> HIDE DEF n, h, c, l
  <1>4. l + 1 \in 1 .. n
    <2>1. c - 1 \in Nat /\ c - 1 < c
      BY <1>1
    <2> QED
      BY <1>2, <2>1, Zenon DEF l
  <1>5. /\ b \in Seq(Seq(Int)) /\ Len(b) = n /\ b[l + 1] = elem
        /\ \A p \in 1 .. n : p # l + 1 => b[p] = q.buf[p]
    BY <1>1, <1>4 DEF n
  <1> HIDE DEF b, r
  <1>6. r.buf = b /\ r.head = h /\ r.tail = q.tail /\ r.count = c /\ r \in Queues
    BY <1>1, <1>3, <1>5 DEF Queues, h, c
  <1>7. Ring(r)
    BY <1>5, <1>6 DEF Ring, n, h, c
  <1>8. \A j \in Nat : j < c => Get(r, j) = b[Pos(h, j, n) + 1]
    BY <1>5, <1>6, <1>7, RingFacts
  <1>9. Get(r, c - 1) = elem
    BY <1>1, <1>5, <1>8 DEF l
  <1>10. ASSUME NEW j \in Nat, j < c - 1 PROVE Get(r, j) = Get(q, j)
    <2>1. j < c /\ j < n /\ c - 1 < n /\ j # c - 1
      BY <1>1, <1>10
    <2>2. Pos(h, j, n) # l
      BY <1>1, <2>1, PosInjective DEF l
    <2>3. Pos(h, j, n) + 1 \in 1 .. n /\ Get(q, j) = q.buf[Pos(h, j, n) + 1]
      BY <1>2, <2>1
    <2>4. Pos(h, j, n) + 1 # l + 1
      BY <1>1, <2>2 DEF Pos, l
    <2> QED
      BY <1>5, <1>8, <2>1, <2>3, <2>4
  <1> QED
    BY <1>6, <1>7, <1>9, <1>10 DEF r, c

\* A new ring is empty.
LEMMA NewRing == Ring(New) /\ New.count = 0
  <1>1. MinQueueLen \in Nat /\ MinQueueLen >= 1
    BY MinQueueLenAssumption
  <1>2. make(MinQueueLen) \in Seq(Seq(Int)) /\ Len(make(MinQueueLen)) = MinQueueLen
    BY <1>1 DEF make
  <1>3. (0 + 0) % MinQueueLen = 0
    BY <1>1
  <1> QED
    BY <1>1, <1>2, <1>3 DEF New, Ring, Queues

-----------------------------------------------------------------------------
(* Segments.                                                               *)

\* The items before segment i.
Base(i) == i * SegmentSize

\* The first size items of segment i.
Segment(i, size) == [k \in 1 .. size |-> Base(i) + k]

\* The sizes.
LEMMA Sizes ==
    /\ SegmentSize \in Nat /\ SegmentSize >= 1
    /\ maxSegments \in Nat /\ maxSegments >= 1
    /\ Capacity \in Int /\ Capacity <= Base(maxSegments)
  <1>1. SegmentSize \in Nat /\ SegmentSize >= 1 /\ Capacity \in Int /\ maxSegments >= 1
    BY SizesAssumption
  <1>2. ASSUME NEW x \in Int, NEW n \in Nat, n >= 1
        PROVE  /\ x \div n \in Int
               /\ x = (x \div n) * n + (x % n) /\ x % n \in Int /\ x % n <= n - 1
    BY <1>2
  <1>3. Capacity + SegmentSize - 1 \in Int
    BY <1>1
  <1>4. /\ maxSegments \in Int
        /\ Capacity + SegmentSize - 1 <= maxSegments * SegmentSize + (SegmentSize - 1)
    <2> DEFINE x == Capacity + SegmentSize - 1
    <2>1. /\ x \div SegmentSize \in Int
          /\ x = (x \div SegmentSize) * SegmentSize + (x % SegmentSize)
          /\ x % SegmentSize \in Int /\ x % SegmentSize <= SegmentSize - 1
      BY <1>1, <1>2, <1>3
    <2> QED
      BY <1>1, <2>1 DEF maxSegments
  <1>5. maxSegments * SegmentSize \in Int
    BY <1>1, <1>4
  <1> QED
    BY <1>1, <1>4, <1>5 DEF Base

\* Where segments begin.
LEMMA BaseFacts ==
    /\ Base(0) = 0
    /\ \A i \in Nat : /\ Base(i) \in Nat
                      /\ Base(i + 1) = Base(i) + SegmentSize
    /\ \A i, j \in Nat : i <= j => Base(i) <= Base(j)
    /\ \A i, j \in Nat : i < j => Base(i) < Base(j)
    /\ \A i, j \in Nat : Base(i + j) = Base(i) + Base(j)
  BY Sizes DEF Base

\* Segments are sequences of numbers.
LEMMA SegmentFacts ==
    ASSUME NEW i \in Nat, NEW size \in Nat
    PROVE  /\ Segment(i, size) \in Seq(Int) /\ Len(Segment(i, size)) = size
           /\ Append(Segment(i, size), Base(i) + size + 1) = Segment(i, size + 1)
           /\ Segment(i, 0) = <<>>
  <1>1. Base(i) \in Nat
    BY BaseFacts
  <1>2. Segment(i, size) \in Seq(Int) /\ Len(Segment(i, size)) = size
    BY <1>1 DEF Segment
  <1>3. Append(Segment(i, size), Base(i) + size + 1) = Segment(i, size + 1)
    BY <1>1 DEF Segment
  <1>4. Segment(i, 0) = <<>>
    BY DEF Segment
  <1> QED
    BY <1>2, <1>3, <1>4

\* The number of items in element j of a ring of c segments, the first being
\* segment o, when n items were added.
SizeAt(o, c, j, n) == IF j < c - 1 THEN SegmentSize ELSE n - Base(o + c - 1)

\* The ring q, whose first segment is o, holds the newest of n items: all of
\* its segments but the last are full, and once segments are pruned it has one
\* more than maxSegments.
Holds(q, o, n) ==
    /\ Ring(q) /\ o \in Nat /\ n \in Nat
    /\ q.count = 0 => n = 0 /\ o = 0
    /\ q.count > 0 => Base(o + q.count - 1) < n /\ n <= Base(o + q.count)
    /\ \A j \in Nat : j < q.count => Get(q, j) = Segment(o + j, SizeAt(o, q.count, j, n))
    /\ q.count <= maxSegments + 1
    /\ o > 0 => q.count = maxSegments + 1

\* The last segment.
LEMMA LastSegment ==
    ASSUME NEW q, NEW o, NEW n, Holds(q, o, n), q.count > 0
    PROVE  /\ n - Base(o + q.count - 1) \in Nat /\ n - Base(o + q.count - 1) <= SegmentSize
           /\ TailOf(q) = Segment(o + q.count - 1, n - Base(o + q.count - 1))
           /\ Len(TailOf(q)) = n - Base(o + q.count - 1)
           /\ n = Base(o + q.count) <=> Len(TailOf(q)) = SegmentSize
           /\ o + q.count - 1 \in Nat
  <1> DEFINE c == q.count
             l == o + c - 1
             size == n - Base(l)
  <1>1. /\ Ring(q) /\ o \in Nat /\ n \in Nat /\ c > 0
        /\ Base(l) < n /\ n <= Base(o + c)
        /\ \A j \in Nat : j < c => Get(q, j) = Segment(o + j, SizeAt(o, c, j, n))
    BY DEF Holds
  <1>2. c \in Nat /\ c >= 1 /\ c - 1 \in Nat /\ c - 1 < c /\ l \in Nat /\ o + (c - 1) = l
        /\ o + c = l + 1 /\ o + c \in Nat
    <2>1. c \in Nat
      BY <1>1, RingFacts, Zenon
    <2> HIDE DEF c
    <2> QED
      BY <1>1, <2>1
  <1>3. Base(l) \in Nat /\ Base(o + c) = Base(l) + SegmentSize
    BY <1>2, BaseFacts
  <1>4. size \in Nat /\ size <= SegmentSize /\ (n = Base(o + c) <=> size = SegmentSize)
    BY <1>1, <1>3, Sizes
  <1>5. TailOf(q) = Get(q, c - 1)
    BY <1>1, <1>2, TailPlace
  <1>6. SizeAt(o, c, c - 1, n) = size
    BY <1>2 DEF SizeAt
  <1>7. TailOf(q) = Segment(l, size)
    <2>1. Get(q, c - 1) = Segment(o + (c - 1), SizeAt(o, c, c - 1, n))
      BY <1>1, <1>2
    <2> QED
      BY <1>2, <1>5, <1>6, <2>1
  <1>8. Len(TailOf(q)) = size
    <2>1. Len(Segment(l, size)) = size
      BY <1>2, <1>4, SegmentFacts
    <2> QED
      BY <1>7, <2>1
  <1> QED
    BY <1>2, <1>4, <1>7, <1>8

\* An item for a segment that is not full.
LEMMA ItemFits ==
    ASSUME NEW q, NEW o, NEW n, Holds(q, o, n), q.count > 0, n # Base(o + q.count)
    PROVE  Holds(SetTail(q, Append(TailOf(q), n + 1)), o, n + 1)
  <1> DEFINE c == q.count
             l == o + c - 1
             size == n - Base(l)
             r == SetTail(q, Append(TailOf(q), n + 1))
  <1>1. /\ Ring(q) /\ o \in Nat /\ n \in Nat /\ c \in Nat /\ c >= 1 /\ c - 1 \in Nat
        /\ Base(l) < n /\ n <= Base(o + c) /\ n # Base(o + c)
        /\ c <= maxSegments + 1 /\ (o > 0 => c = maxSegments + 1)
    BY RingFacts DEF Holds
  <1>2. \A j \in Nat : j < c => Get(q, j) = Segment(o + j, SizeAt(o, c, j, n))
    BY DEF Holds
  <1>3. /\ size \in Nat /\ TailOf(q) = Segment(l, size) /\ l \in Nat
    BY LastSegment
  <1>4. /\ Base(l) \in Nat /\ o + (c - 1) = l /\ o + c \in Nat
        /\ Base(o + c) \in Nat
    <2>1. o + (c - 1) = l /\ o + c \in Nat
      BY <1>1
    <2> QED
      BY <1>3, <2>1, BaseFacts
  <1>5. Append(TailOf(q), n + 1) = Segment(l, size + 1) /\ Segment(l, size + 1) \in Seq(Int)
    <2>1. n + 1 = Base(l) + size + 1 /\ size + 1 \in Nat
      BY <1>1, <1>3, <1>4
    <2> QED
      BY <1>3, <2>1, SegmentFacts
  <1>6. /\ Ring(r) /\ r.count = c
        /\ \A j \in Nat : j < c - 1 => Get(r, j) = Get(q, j)
        /\ Get(r, c - 1) = Segment(l, size + 1)
    <2> DEFINE elem == Segment(l, size + 1)
    <2>1. r = SetTail(q, elem) /\ elem \in Seq(Int) /\ Ring(q) /\ q.count >= 1
      BY <1>1, <1>5
    <2> HIDE DEF elem, r
    <2>2. /\ Ring(r) /\ r.count = q.count
          /\ \A j \in Nat : j < q.count - 1 => Get(r, j) = Get(q, j)
          /\ Get(r, q.count - 1) = elem
      BY <2>1, TailSet
    <2> QED
      BY <2>2 DEF elem
  <1> HIDE DEF r, l, size, c
  <1>7. size + 1 = (n + 1) - Base(l)
    BY <1>1, <1>4 DEF size
  <1>8. ASSUME NEW j \in Nat, j < c
        PROVE  Get(r, j) = Segment(o + j, SizeAt(o, c, j, n + 1))
    <2>1. CASE j < c - 1
      <3>1. Get(r, j) = Get(q, j) /\ Get(q, j) = Segment(o + j, SizeAt(o, c, j, n))
        BY <1>2, <1>6, <1>8, <2>1
      <3>2. SizeAt(o, c, j, n) = SizeAt(o, c, j, n + 1)
        BY <2>1 DEF SizeAt
      <3> QED
        BY <3>1, <3>2
    <2>2. CASE ~(j < c - 1)
      <3>1. j = c - 1
        BY <1>1, <1>8, <2>2
      <3>2. SizeAt(o, c, j, n + 1) = size + 1
        <4>1. SizeAt(o, c, j, n + 1) = (n + 1) - Base(l)
          BY <2>2 DEF SizeAt, l
        <4> QED
          BY <1>7, <4>1
      <3> QED
        BY <1>4, <1>6, <3>1, <3>2
    <2> QED
      BY <2>1, <2>2
  <1>9. Base(l) < n + 1 /\ n + 1 <= Base(o + c) /\ n + 1 \in Nat
    BY <1>1, <1>4
  <1> QED
    BY <1>1, <1>6, <1>8, <1>9 DEF Holds, r, l, c

\* An item for a new segment, behind a ring p whose segments are full.
LEMMA ItemOpens ==
    ASSUME NEW p, NEW o \in Nat, NEW n \in Nat, Ring(p), n = Base(o + p.count),
           \A j \in Nat : j < p.count => Get(p, j) = Segment(o + j, SegmentSize),
           p.count <= maxSegments, o > 0 => p.count = maxSegments,
           NEW q, q = AddTo(p, <<>>)
    PROVE  Holds(SetTail(q, Append(TailOf(q), n + 1)), o, n + 1)
  <1> DEFINE c == p.count
             r == SetTail(q, Append(TailOf(q), n + 1))
             one == Segment(o + c, 1)
  <1>1. c \in Nat /\ o + c \in Nat /\ c + 1 \in Nat /\ (c + 1) - 1 = c
        /\ o + (c + 1) = (o + c) + 1 /\ c + 1 >= 1 /\ o + (c + 1) - 1 = o + c
    <2>1. c \in Nat
      BY RingFacts
    <2> HIDE DEF c
    <2> QED
      BY <2>1
  <1>2. /\ Ring(q) /\ q.count = c + 1
        /\ \A j \in Nat : j < c => Get(q, j) = Get(p, j)
        /\ Get(q, c) = <<>>
    <2>1. <<>> \in Seq(Int)
      OBVIOUS
    <2> QED
      BY <2>1, Added
  <1>3. TailOf(q) = <<>>
    <2>1. TailOf(q) = Get(q, q.count - 1)
      BY <1>1, <1>2, TailPlace
    <2> QED
      BY <1>1, <1>2, <2>1
  <1>4. Append(TailOf(q), n + 1) = one /\ one \in Seq(Int)
    <2>1. Append(Segment(o + c, 0), Base(o + c) + 0 + 1) = Segment(o + c, 0 + 1)
          /\ Segment(o + c, 0) = <<>>
      BY <1>1, SegmentFacts
    <2>2. Base(o + c) + 0 + 1 = n + 1 /\ 0 + 1 = 1
      OBVIOUS
    <2> QED
      BY <1>1, <1>3, <2>1, <2>2, SegmentFacts
  <1>5. /\ Ring(r) /\ r.count = c + 1
        /\ \A j \in Nat : j < c => Get(r, j) = Get(q, j)
        /\ Get(r, c) = one
    <2>1. r = SetTail(q, one) /\ one \in Seq(Int) /\ Ring(q) /\ q.count >= 1
      BY <1>1, <1>2, <1>4
    <2> HIDE DEF one, r
    <2>2. /\ Ring(r) /\ r.count = q.count
          /\ \A j \in Nat : j < q.count - 1 => Get(r, j) = Get(q, j)
          /\ Get(r, q.count - 1) = one
      BY <2>1, TailSet
    <2> QED
      BY <1>1, <1>2, <2>2
  <1> HIDE DEF r
  <1>6. ASSUME NEW j \in Nat, j < c + 1
        PROVE  Get(r, j) = Segment(o + j, SizeAt(o, c + 1, j, n + 1))
    <2>1. CASE j < c
      <3>1. Get(r, j) = Segment(o + j, SegmentSize)
        BY <1>2, <1>5, <2>1
      <3>2. SizeAt(o, c + 1, j, n + 1) = SegmentSize
        BY <1>1, <2>1 DEF SizeAt
      <3> QED
        BY <3>1, <3>2
    <2>2. CASE ~(j < c)
      <3>1. j = c
        <4>1. ASSUME NEW x \in Nat, NEW y \in Nat, x < y + 1, ~(x < y) PROVE x = y
          BY <4>1
        <4> QED
          BY <1>1, <1>6, <2>2, <4>1, Zenon
      <3>2. SizeAt(o, c + 1, j, n + 1) = (n + 1) - Base(o + c)
        BY <1>1, <3>1 DEF SizeAt
      <3>3. (n + 1) - Base(o + c) = 1
        OBVIOUS
      <3> QED
        BY <1>5, <3>1, <3>2, <3>3
    <2> QED
      BY <2>1, <2>2
  <1>7. /\ Base(o + (c + 1) - 1) < n + 1 /\ n + 1 <= Base(o + (c + 1)) /\ n + 1 \in Nat
    <2>1. Base(o + (c + 1)) = n + SegmentSize
      BY <1>1, BaseFacts
    <2>2. Base(o + (c + 1) - 1) = n
      BY <1>1
    <2>3. n < n + 1 /\ n + 1 <= n + SegmentSize /\ n + 1 \in Nat
      <3>1. ASSUME NEW k \in Nat, NEW x \in Nat, x >= 1
            PROVE  k < k + 1 /\ k + 1 <= k + x /\ k + 1 \in Nat
        BY <3>1
      <3> QED
        BY <3>1, Sizes, Zenon
    <2> QED
      BY <2>1, <2>2, <2>3, Zenon
  <1>8. c + 1 <= maxSegments + 1 /\ (o > 0 => c + 1 = maxSegments + 1)
    <2>1. ASSUME NEW x \in Nat, NEW y \in Nat
          PROVE  (x <= y => x + 1 <= y + 1) /\ (x = y => x + 1 = y + 1)
      BY <2>1
    <2> QED
      BY <1>1, <2>1, Sizes, Zenon
  <1>9. c + 1 # 0
    BY <1>1
  <1> HIDE DEF c
  <1>10. Holds(r, o, n + 1)
    BY <1>1, <1>5, <1>6, <1>7, <1>8, <1>9, SMTT(30) DEF Holds
  <1> QED
    BY <1>10 DEF r

\* Add of one item: the ring holds the newest items as before.
LEMMA ItemAdded ==
    ASSUME NEW s, NEW n, Holds(s.segments, s.segmentOffset, n)
    PROVE  LET r == appendItem(s, n + 1)
           IN  Holds(r.segments, r.segmentOffset, n + 1)
  <1> DEFINE q == s.segments
             o == s.segmentOffset
             c == q.count
             r == appendItem(s, n + 1)
             full == Length(q) = 0 \/ Len(TailOf(q)) = SegmentSize
             pruned == full /\ FreeSegment(s)
             kept == IF pruned THEN RemoveHead(q) ELSE q
             ring == IF full THEN AddTo(kept, <<>>) ELSE kept
  <1>1. /\ r.segments = SetTail(ring, Append(TailOf(ring), n + 1))
        /\ r.segmentOffset = o + (IF pruned THEN 1 ELSE 0)
    BY DEF appendItem
  <1>2. /\ Holds(q, o, n) /\ Ring(q) /\ o \in Nat /\ n \in Nat /\ c \in Nat
        /\ c <= maxSegments + 1 /\ (o > 0 => c = maxSegments + 1)
        /\ (c = 0 => n = 0 /\ o = 0)
    BY RingFacts DEF Holds
  <1>3. \A j \in Nat : j < c => Get(q, j) = Segment(o + j, SizeAt(o, c, j, n))
    BY DEF Holds
  <1>4. full <=> c = 0 \/ n = Base(o + c)
    BY <1>2, LastSegment DEF Length
  <1>5. FreeSegment(s) <=> c > maxSegments
    BY DEF FreeSegment, Length
  <1> HIDE DEF full, pruned, kept, ring, r, q, o, c
  <1>6. CASE ~full
    <2>1. ring = q /\ r.segmentOffset = o
      BY <1>1, <1>2, <1>6 DEF ring, kept, pruned
    <2>2. q.count > 0 /\ n # Base(o + q.count)
      BY <1>2, <1>4, <1>6 DEF c
    <2> QED
      BY <1>1, <1>2, <2>1, <2>2, ItemFits DEF r
  <1>7. CASE full
    <2>1. n = Base(o + c) /\ ring = AddTo(kept, <<>>)
      <3>1. c = 0 => o + c = 0 /\ n = 0
        BY <1>2
      <3> QED
        BY <1>4, <1>7, <3>1, BaseFacts DEF ring
    <2>2. ASSUME NEW j \in Nat, j < c
          PROVE  Get(q, j) = Segment(o + j, SegmentSize)
      <3>1. SizeAt(o, c, j, n) = SegmentSize
        <4>1. o + c - 1 \in Nat /\ (o + c - 1) + 1 = o + c
          BY <1>2, <2>2
        <4>2. Base(o + c) = Base(o + c - 1) + SegmentSize /\ Base(o + c - 1) \in Nat
          BY <4>1, BaseFacts
        <4>3. n - Base(o + c - 1) = SegmentSize
          BY <2>1, <4>2, Sizes
        <4> QED
          BY <4>3 DEF SizeAt
      <3> QED
        BY <1>3, <2>2, <3>1
    <2>3. CASE c > maxSegments
      <3>1. pruned /\ kept = RemoveHead(q) /\ r.segmentOffset = o + 1
        BY <1>1, <1>2, <1>5, <1>7, <2>3 DEF pruned, kept
      <3>2. c >= 1 /\ c = maxSegments + 1 /\ c - 1 = maxSegments /\ c - 1 \in Nat
            /\ (o + 1) + (c - 1) = o + c /\ o + 1 \in Nat
        BY <1>2, <2>3, Sizes
      <3>3. /\ Ring(kept) /\ kept.count = c - 1
            /\ \A j \in Nat : j < c - 1 => Get(kept, j) = Get(q, j + 1)
        BY <1>2, <3>1, <3>2, Removed DEF c
      <3>4. ASSUME NEW j \in Nat, j < kept.count
            PROVE  Get(kept, j) = Segment((o + 1) + j, SegmentSize)
        <4>1. j + 1 \in Nat /\ j + 1 < c /\ j < c - 1 /\ o + (j + 1) = (o + 1) + j
          BY <1>2, <3>3, <3>4
        <4> QED
          BY <2>2, <3>3, <4>1
      <3>5. n = Base((o + 1) + kept.count) /\ kept.count <= maxSegments
            /\ (o + 1 > 0 => kept.count = maxSegments)
        BY <2>1, <3>2, <3>3, Sizes
      <3>6. Holds(SetTail(ring, Append(TailOf(ring), n + 1)), o + 1, n + 1)
        BY <1>2, <2>1, <3>2, <3>3, <3>4, <3>5, ItemOpens
      <3> QED
        BY <1>1, <3>1, <3>6 DEF r
    <2>4. CASE ~(c > maxSegments)
      <3>1. ~pruned /\ kept = q /\ r.segmentOffset = o
        BY <1>1, <1>2, <1>5, <2>4 DEF pruned, kept
      <3>2. c <= maxSegments /\ (o > 0 => c = maxSegments)
        BY <1>2, <2>4, Sizes
      <3>3. Holds(SetTail(ring, Append(TailOf(ring), n + 1)), o, n + 1)
        BY <1>2, <2>1, <2>2, <3>1, <3>2, ItemOpens DEF c
      <3> QED
        BY <1>1, <3>1, <3>3 DEF r
    <2> QED
      BY <2>3, <2>4
  <1> QED
    BY <1>6, <1>7

-----------------------------------------------------------------------------
(* Batches.                                                                *)

\* f has the streams after each of n items are added to s, which has a.
IsBatch(f, s, a, n) ==
    f = [i \in 0 .. n |-> IF i = 0 THEN s ELSE appendItem(f[i - 1], a + i)]

\* There is one for every n: the least n without would have one, one item
\* beyond that of n - 1.
LEMMA BatchExists ==
    ASSUME NEW s, NEW a, NEW n \in Nat
    PROVE  \E f : IsBatch(f, s, a, n)
  <1> DEFINE Missing == {k \in Nat : ~ \E f : IsBatch(f, s, a, k)}
  <1>1. SUFFICES ASSUME Missing # {} PROVE FALSE
    BY <1>1
  <1>2. PICK m \in Missing : \A k \in Missing : m <= k
    <2>1. Missing \subseteq Nat
      OBVIOUS
    <2> HIDE DEF Missing
    <2> QED
      BY <1>1, <2>1, LeastNatural, Zenon
  <1>3. m # 0
    <2>1. IsBatch([i \in 0 .. 0 |-> s], s, a, 0)
      BY DEF IsBatch
    <2> QED
      BY <2>1
  <1>4. PICK g : IsBatch(g, s, a, m - 1)
    <2>1. m - 1 \in Nat /\ m - 1 \notin Missing
      BY <1>2, <1>3
    <2> QED
      BY <2>1
  <1> DEFINE f == [i \in 0 .. m |-> IF i = m THEN appendItem(g[m - 1], a + m) ELSE g[i]]
  <1>5. IsBatch(f, s, a, m)
    <2>1. m \in Nat /\ m >= 1
      BY <1>3
    <2>2. ASSUME NEW i \in 0 .. m
          PROVE  f[i] = IF i = 0 THEN s ELSE appendItem(f[i - 1], a + i)
      <3>1. CASE i = m
        <4>1. i # 0 /\ i - 1 \in 0 .. m /\ i - 1 # m
          BY <2>1, <3>1
        <4> QED
          BY <3>1, <4>1
      <3>2. CASE i # m
        <4>1. i \in 0 .. m - 1 /\ (i # 0 => i - 1 \in 0 .. m /\ i - 1 # m)
          BY <2>1, <3>2
        <4>2. g[i] = IF i = 0 THEN s ELSE appendItem(g[i - 1], a + i)
          BY <1>4, <4>1 DEF IsBatch
        <4> QED
          BY <3>2, <4>1, <4>2
      <3> QED
        BY <3>1, <3>2
    <2> HIDE DEF f
    <2>3. f = [i \in 0 .. m |-> f[i]]
      BY DEF f
    <2> QED
      BY <2>2, <2>3 DEF IsBatch
  <1> QED
    BY <1>5

\* A batch keeps the newest items.
LEMMA BatchHolds ==
    ASSUME NEW s, NEW a \in Nat, NEW n \in Nat, NEW f, IsBatch(f, s, a, n),
           Holds(s.segments, s.segmentOffset, a)
    PROVE  Holds(f[n].segments, f[n].segmentOffset, a + n)
  <1> DEFINE Good(k) == Holds(f[k].segments, f[k].segmentOffset, a + k)
             Bad == {k \in Nat : k <= n /\ ~Good(k)}
  <1>1. SUFFICES ASSUME Bad # {} PROVE FALSE
    BY <1>1
  <1>2. PICK m \in Bad : \A k \in Bad : m <= k
    <2>1. Bad \subseteq Nat
      OBVIOUS
    <2> HIDE DEF Bad
    <2> QED
      BY <1>1, <2>1, LeastNatural, Zenon
  <1>3. m \in 0 .. n /\ ~Good(m) /\ f[m] = IF m = 0 THEN s ELSE appendItem(f[m - 1], a + m)
    BY DEF IsBatch
  <1>4. m # 0
    <2>1. a + 0 = a
      OBVIOUS
    <2> QED
      BY <1>3, <2>1
  <1>5. Good(m - 1)
    <2>1. m - 1 \in Nat /\ m - 1 <= n /\ m - 1 \notin Bad
      BY <1>2, <1>3, <1>4
    <2> QED
      BY <2>1
  <1>6. a + m = (a + (m - 1)) + 1 /\ f[m] = appendItem(f[m - 1], a + m)
    BY <1>3, <1>4
  <1>7. Good(m)
    BY <1>5, <1>6, ItemAdded
  <1> QED
    BY <1>3, <1>7

-----------------------------------------------------------------------------
(* The stream holds the newest items.                                      *)

\* Add keeps the newest items.
LEMMA AddHolds ==
    ASSUME Holds(segments, segmentOffset, added), NEW n \in Nat, Add(n)
    PROVE  Holds(segments', segmentOffset', added')
  <1> DEFINE s == [segments |-> segments, segmentOffset |-> segmentOffset]
             after == CHOOSE f : IsBatch(f, s, added, n)
  <1>1. IsBatch(after, s, added, n)
    BY BatchExists
  <1>2. /\ segments' = after[n].segments /\ segmentOffset' = after[n].segmentOffset
        /\ added' = added + n
    BY DEF Add, IsBatch
  <1>3. added \in Nat /\ Holds(s.segments, s.segmentOffset, added)
    BY DEF Holds
  <1> HIDE DEF after, s
  <1>4. Holds(after[n].segments, after[n].segmentOffset, added + n)
    BY <1>1, <1>3, BatchHolds
  <1> QED
    BY <1>2, <1>4

\* The id that Add returns.
LEMMA LastIsAdded ==
    ASSUME Holds(segments, segmentOffset, added)
    PROVE  lastID = added
  <1> DEFINE c == segments.count
             l == segmentOffset + c - 1
  <1>1. c \in Nat /\ added \in Nat /\ segmentOffset \in Nat
    BY RingFacts DEF Holds
  <1>2. CASE c = 0
    BY <1>2 DEF Holds, lastID, Length
  <1>3. CASE c > 0
    <2>1. Len(TailOf(segments)) = added - Base(l) /\ l \in Nat
      BY <1>3, LastSegment
    <2>2. Base(l) \in Nat
      BY <2>1, BaseFacts
    <2>3. lastID = Base(l) + Len(TailOf(segments))
      BY <1>3 DEF lastID, Length, Base
    <2> QED
      BY <1>1, <2>1, <2>2, <2>3
  <1> QED
    BY <1>1, <1>2, <1>3

\* Every item of the stream is where its id says.
LEMMA HoldsGivesNewest ==
    ASSUME Holds(segments, segmentOffset, added)
    PROVE  HoldsNewest
  <1> DEFINE c == segments.count
             o == segmentOffset
  <1>1. c \in Nat /\ added \in Nat /\ o \in Nat
    BY RingFacts DEF Holds
  <1>2. lastID = added
    BY LastIsAdded
  <1>3. ASSUME NEW i \in 1 .. Length(segments)
        PROVE  LET first == (segmentOffset + i - 1) * SegmentSize
                   size  == IF i < Length(segments) THEN SegmentSize ELSE added - first
               IN  Elements(segments)[i] = [j \in 1 .. size |-> first + j]
    <2>1. i \in 1 .. c /\ i - 1 \in Nat /\ i - 1 < c /\ o + (i - 1) = o + i - 1
      BY <1>1 DEF Length
    <2>2. Elements(segments)[i] = Get(segments, i - 1)
      BY <2>1 DEF Elements
    <2>3. Get(segments, i - 1) = Segment(o + (i - 1), SizeAt(o, c, i - 1, added))
      BY <2>1 DEF Holds
    <2>4. SizeAt(o, c, i - 1, added) = IF i < c THEN SegmentSize ELSE added - Base(o + i - 1)
      <3>1. i < c <=> i - 1 < c - 1
        BY <1>1, <2>1
      <3>2. ~(i < c) => o + c - 1 = o + i - 1
        BY <1>1, <2>1
      <3> QED
        BY <3>1, <3>2 DEF SizeAt
    <2> QED
      BY <2>1, <2>2, <2>3, <2>4 DEF Segment, Base, Length
  <1> QED
    BY <1>2, <1>3 DEF HoldsNewest

\* Pruning keeps the Capacity newest items.
LEMMA HoldsGivesCapacity ==
    ASSUME Holds(segments, segmentOffset, added)
    PROVE  CapacityKept
  <1> DEFINE c == segments.count
             o == segmentOffset
  <1>1. /\ c \in Nat /\ added \in Nat /\ o \in Nat /\ c <= maxSegments + 1
        /\ (o > 0 => c = maxSegments + 1) /\ (c = 0 => added = 0 /\ o = 0)
        /\ (c > 0 => Base(o + c - 1) < added /\ added <= Base(o + c))
    BY RingFacts DEF Holds
  <1>2. RetainedCount = added - Base(o) /\ Base(o) \in Nat
    BY <1>1, BaseFacts DEF RetainedCount, Base
  <1>3. RetainedCount <= Base(maxSegments + 1)
    <2>1. Base(maxSegments + 1) \in Nat
      BY Sizes, BaseFacts
    <2>2. CASE c = 0
      BY <1>1, <1>2, <2>1, <2>2
    <2>3. CASE c > 0
      <3>1. Base(o + c) = Base(o) + Base(c) /\ Base(c) \in Nat
        BY <1>1, BaseFacts
      <3>2. Base(c) <= Base(maxSegments + 1)
        <4>1. maxSegments + 1 \in Nat /\ c \in Nat /\ c <= maxSegments + 1
          BY <1>1, Sizes
        <4>2. \A i, j \in Nat : i <= j => Base(i) <= Base(j)
          BY BaseFacts
        <4> HIDE DEF c
        <4> QED
          BY <4>1, <4>2, Zenon
      <3> QED
        BY <1>1, <1>2, <2>1, <2>3, <3>1, <3>2
    <2> QED
      BY <1>1, <2>2, <2>3
  <1>4. o > 0 => RetainedCount > Base(maxSegments) /\ Base(maxSegments) \in Nat
    <2>1. ASSUME o > 0
          PROVE  RetainedCount > Base(maxSegments) /\ Base(maxSegments) \in Nat
      <3>1. o + c - 1 = o + maxSegments /\ c > 0
        BY <1>1, <2>1, Sizes
      <3>2. Base(o + maxSegments) = Base(o) + Base(maxSegments) /\ Base(maxSegments) \in Nat
        BY <1>1, Sizes, BaseFacts
      <3>3. Base(o + maxSegments) < added
        BY <1>1, <3>1
      <3> QED
        BY <1>1, <1>2, <3>2, <3>3
    <2> QED
      BY <2>1
  <1>5. o = 0 => RetainedCount = added
    BY <1>1, <1>2, BaseFacts
  <1> QED
    BY <1>1, <1>2, <1>3, <1>4, <1>5, Sizes DEF CapacityKept, Base

-----------------------------------------------------------------------------
(* Reads.                                                                  *)

\* The items after start up to the last.
Items(start, last) == [i \in 1 .. last - start |-> start + i]

\* d is what a read from an offset gives: nothing, and the newest id, when
\* there is nothing after the offset; or the items that follow it, those of
\* pruned segments left out.
ReadFrom(d, from) ==
    \/ /\ d.items = <<>> /\ d.offset = added
       /\ from < 0 \/ from >= added
    \/ \E start \in Nat :
        /\ from >= 0 /\ start >= from
        /\ from >= Base(segmentOffset) => start = from
        /\ d.offset \in Nat /\ start < d.offset
        /\ Base(segmentOffset) <= d.offset /\ d.offset <= added
        /\ d.items = Items(start, d.offset)

\* The rest of a segment.
LEMMA RestOfSegment ==
    ASSUME NEW i \in Nat, NEW size \in Nat, NEW p \in Nat
    PROVE  /\ p >= size => SubSeq(Segment(i, size), p + 1, Len(Segment(i, size))) = <<>>
           /\ p < size => /\ SubSeq(Segment(i, size), p + 1, Len(Segment(i, size)))
                               = Items(Base(i) + p, Base(i) + size)
                          /\ SubSeq(Segment(i, size), p + 1, Len(Segment(i, size))) # <<>>
  <1> DEFINE g == Segment(i, size)
             t == SubSeq(g, p + 1, size)
  <1>1. Base(i) \in Nat /\ g \in Seq(Int) /\ Len(g) = size
    BY BaseFacts, SegmentFacts
  <1>2. ASSUME p >= size PROVE t = <<>>
    BY <1>1, <1>2
  <1>3. ASSUME p < size PROVE t = Items(Base(i) + p, Base(i) + size) /\ t # <<>>
    <2>1. t = [k \in 1 .. size - p |-> g[k + p]]
      BY <1>1, <1>3
    <2>2. ASSUME NEW k \in 1 .. size - p PROVE g[k + p] = Base(i) + p + k
      BY <1>1, <1>3 DEF Segment
    <2>3. (Base(i) + size) - (Base(i) + p) = size - p
      BY <1>1
    <2>4. t = Items(Base(i) + p, Base(i) + size)
      BY <2>1, <2>2, <2>3 DEF Items
    <2>5. t # <<>>
      <3>1. DOMAIN t = 1 .. size - p
        BY <2>1
      <3>2. 1 \in 1 .. size - p
        BY <1>3
      <3> HIDE DEF t
      <3> QED
        BY <3>1, <3>2
    <2> QED
      BY <2>4, <2>5
  <1> QED
    BY <1>1, <1>2, <1>3

\* Where an offset is.
LEMMA OffsetPlace ==
    ASSUME NEW from \in Nat
    PROVE  /\ from \div SegmentSize \in Nat /\ from % SegmentSize \in Nat
           /\ from % SegmentSize < SegmentSize
           /\ from = Base(from \div SegmentSize) + (from % SegmentSize)
  <1>1. ASSUME NEW n \in Nat, n >= 1
        PROVE  /\ from \div n \in Nat /\ from % n \in Nat /\ from % n < n
               /\ from = (from \div n) * n + (from % n)
    BY <1>1
  <1> QED
    BY <1>1, Sizes DEF Base

\* The segment that a read looks at.
LEMMA SegmentRead ==
    ASSUME Holds(segments, segmentOffset, added), NEW x \in Nat, x < segments.count
    PROVE  \E size \in Nat :
              /\ Get(segments, x) = Segment(segmentOffset + x, size)
              /\ segmentOffset + x \in Nat /\ Base(segmentOffset + x) \in Nat
              /\ Base(segmentOffset + x) + size <= added
              /\ x < segments.count - 1 => size = SegmentSize
              /\ x = segments.count - 1 => size = added - Base(segmentOffset + x)
  <1> DEFINE c == segments.count
             o == segmentOffset
             size == SizeAt(o, c, x, added)
  <1>1. /\ c \in Nat /\ added \in Nat /\ o \in Nat /\ c > 0
        /\ Base(o + c - 1) < added
        /\ Get(segments, x) = Segment(o + x, size)
    BY RingFacts DEF Holds
  <1>2. o + x \in Nat /\ Base(o + x) \in Nat
    BY <1>1, BaseFacts
  <1>3. CASE x < c - 1
    <2>1. size = SegmentSize
      BY <1>3 DEF SizeAt
    <2>2. /\ Base((o + x) + 1) = Base(o + x) + SegmentSize
          /\ Base((o + x) + 1) <= Base(o + c - 1) /\ Base(o + c - 1) \in Nat
      <3>1. (o + x) + 1 \in Nat /\ o + c - 1 \in Nat /\ (o + x) + 1 <= o + c - 1
        BY <1>1, <1>3
      <3> QED
        BY <1>2, <3>1, BaseFacts
    <2>3. Base(o + x) + SegmentSize <= added
      BY <1>1, <1>2, <2>2, Sizes
    <2> HIDE DEF size
    <2> QED
      BY <1>1, <1>2, <1>3, <2>1, <2>3, Sizes
  <1>4. CASE x = c - 1
    <2>1. size = added - Base(o + x) /\ o + x = o + c - 1
      BY <1>1, <1>4 DEF SizeAt
    <2>2. size \in Nat /\ Base(o + x) + size = added
      BY <1>1, <1>2, <2>1
    <2> HIDE DEF size
    <2> QED
      BY <1>1, <1>2, <1>4, <2>1, <2>2
  <1> QED
    BY <1>1, <1>3, <1>4

\* doRead gives the items that follow the offset, within a segment.
LEMMA DoReads ==
    ASSUME Holds(segments, segmentOffset, added), NEW from \in Int
    PROVE  ReadFrom(doRead(from), from)
  <1> DEFINE c == segments.count
             o == segmentOffset
             D == from \div SegmentSize
             P == from % SegmentSize
             index == IF D - o >= 0 THEN D - o ELSE 0
             seg == Get(segments, index)
             rest == SubSeq(seg, P + 1, Len(seg))
  <1>1. /\ c \in Nat /\ added \in Nat /\ o \in Nat
        /\ (c = 0 => added = 0) /\ (c > 0 => added <= Base(o + c))
        /\ (o > 0 => c = maxSegments + 1)
    BY RingFacts DEF Holds
  <1>2. Nothing = [items |-> <<>>, offset |-> added]
    BY LastIsAdded DEF Nothing
  <1>3. doRead(from) = IF c = 0 \/ from < 0 \/ index >= c
                       THEN Nothing
                       ELSE IF rest = <<>> THEN Nothing
                       ELSE [items |-> rest, offset |-> Base(o + index) + Len(seg)]
    BY DEF doRead, Length, Base
  <1>4. ASSUME doRead(from) = Nothing, from < 0 \/ from >= added
        PROVE  ReadFrom(doRead(from), from)
    BY <1>2, <1>4 DEF ReadFrom
  <1>5. CASE c = 0 \/ from < 0
    <2>1. doRead(from) = Nothing
      BY <1>3, <1>5
    <2>2. from < 0 \/ from >= added
      BY <1>1, <1>5
    <2> QED
      BY <1>4, <2>1, <2>2
  <1>6. CASE c > 0 /\ from >= 0
    <2>1. /\ D \in Nat /\ P \in Nat /\ P < SegmentSize /\ from = Base(D) + P
          /\ Base(D) \in Nat
      <3>1. from \in Nat
        BY <1>6
      <3>2. D \in Nat /\ P \in Nat /\ P < SegmentSize /\ from = Base(D) + P
        BY <3>1, OffsetPlace, Zenon
      <3> HIDE DEF D, P
      <3> QED
        BY <3>2, BaseFacts
    <2> HIDE DEF D, P
    <2>2. index \in Nat /\ (D >= o => o + index = D) /\ (D < o => index = 0)
          /\ (index # 0 => D >= o)
      BY <1>1, <2>1
    <2> HIDE DEF index
    <2>3. CASE index >= c
      <3>1. D >= o + c /\ o + c \in Nat
        BY <1>1, <1>6, <2>1, <2>2, <2>3
      <3>2. Base(o + c) <= Base(D) /\ Base(o + c) \in Nat
        BY <2>1, <3>1, BaseFacts
      <3>3. from >= added
        BY <1>1, <1>6, <2>1, <3>2
      <3>4. doRead(from) = Nothing
        BY <1>3, <2>3
      <3> QED
        BY <1>4, <3>3, <3>4
    <2>4. CASE index < c
      <3>1. PICK size \in Nat :
              /\ seg = Segment(o + index, size)
              /\ o + index \in Nat /\ Base(o + index) \in Nat
              /\ Base(o + index) + size <= added
              /\ index < c - 1 => size = SegmentSize
              /\ index = c - 1 => size = added - Base(o + index)
        BY <2>2, <2>4, SegmentRead
      <3>2. Len(seg) = size
        <4>1. Len(Segment(o + index, size)) = size
          BY <3>1, SegmentFacts, Zenon
        <4> QED
          BY <3>1, <4>1, Zenon
      <3>3. /\ D >= o => o + index = D
            /\ D < o => index = 0 /\ index < c - 1
        BY <1>1, <2>1, <2>2, Sizes
      <3>4. /\ P >= size => rest = <<>>
            /\ P < size => rest # <<>>
                           /\ rest = Items(Base(o + index) + P, Base(o + index) + size)
        <4> DEFINE g == Segment(o + index, size)
                   t == SubSeq(g, P + 1, Len(g))
        <4>1. rest = t
          BY <3>1, Zenon
        <4>2. /\ P >= size => t = <<>>
              /\ P < size => t = Items(Base(o + index) + P, Base(o + index) + size) /\ t # <<>>
          BY <2>1, <3>1, RestOfSegment, Zenon
        <4> HIDE DEF t, rest
        <4> QED
          BY <4>1, <4>2, Zenon
      <3> HIDE DEF rest, seg
      <3>5. CASE P >= size
        <4>1. index = c - 1 /\ D >= o
          BY <1>1, <2>1, <2>2, <2>4, <3>1, <3>3, <3>5, Sizes
        <4>2. o + index = D /\ from >= added
          BY <1>1, <2>1, <3>1, <3>3, <3>5, <4>1
        <4>3. doRead(from) = Nothing
          BY <1>3, <3>4, <3>5
        <4> QED
          BY <1>4, <4>2, <4>3
      <3>6. CASE P < size
        <4> DEFINE start == Base(o + index) + P
                   last == Base(o + index) + size
        <4>1. doRead(from) = [items |-> Items(start, last), offset |-> last]
          <5>1. ~(c = 0 \/ from < 0 \/ index >= c)
            BY <1>1, <1>6, <2>2, <2>4
          <5>2. doRead(from) = [items |-> rest, offset |-> Base(o + index) + Len(seg)]
            BY <1>3, <3>4, <3>6, <5>1, Zenon
          <5>3. rest = Items(start, last) /\ Base(o + index) + Len(seg) = last
            BY <3>2, <3>4, <3>6, Zenon
          <5> QED
            BY <5>2, <5>3, Zenon
        <4>2. Base(o) <= Base(o + index) /\ Base(o) \in Nat
          BY <1>1, <2>2, <3>1, BaseFacts
        <4>3. start >= from /\ (from >= Base(o) => start = from)
          <5>1. CASE D >= o
            BY <2>1, <3>3, <5>1
          <5>2. CASE D < o
            <6>1. Base(D + 1) = Base(D) + SegmentSize /\ Base(D + 1) <= Base(o)
              BY <1>1, <2>1, <5>2, BaseFacts
            <6>2. o + index = o
              BY <1>1, <3>3, <5>2
            <6> QED
              BY <2>1, <4>2, <6>1, <6>2, Sizes
          <5> QED
            BY <1>1, <2>1, <5>1, <5>2
        <4>4. /\ start \in Nat /\ last \in Nat /\ start < last /\ Base(o) <= last
              /\ last <= added
          BY <1>1, <2>1, <3>1, <3>6, <4>2
        <4> HIDE DEF start, last
        <4> QED
          BY <1>6, <4>1, <4>3, <4>4 DEF ReadFrom
      <3> QED
        BY <2>1, <3>5, <3>6
    <2> QED
      BY <1>1, <2>2, <2>3, <2>4
  <1> QED
    BY <1>1, <1>5, <1>6

\* Two runs of items, the second from the end of the first.
LEMMA ItemsJoin ==
    ASSUME NEW start \in Nat, NEW middle \in Nat, NEW last \in Nat,
           start <= middle, middle <= last
    PROVE  Items(start, middle) \o Items(middle, last) = Items(start, last)
  <1> DEFINE u == Items(start, middle)
             v == Items(middle, last)
             w == Items(start, last)
  <1>1. /\ u \in Seq(Int) /\ Len(u) = middle - start
        /\ v \in Seq(Int) /\ Len(v) = last - middle
        /\ w \in Seq(Int) /\ Len(w) = last - start
    BY DEF Items
  <1>2. /\ \A i \in 1 .. middle - start : u[i] = start + i
        /\ \A i \in 1 .. last - middle : v[i] = middle + i
        /\ \A i \in 1 .. last - start : w[i] = start + i
    BY DEF Items
  <1> HIDE DEF u, v, w
  <1>3. /\ u \o v \in Seq(Int) /\ Len(u \o v) = last - start
        /\ \A i \in 1 .. last - start :
             (u \o v)[i] = IF i <= middle - start THEN u[i] ELSE v[i - (middle - start)]
    <2>1. /\ u \o v \in Seq(Int) /\ Len(u \o v) = Len(u) + Len(v)
          /\ \A i \in 1 .. Len(u) + Len(v) :
               (u \o v)[i] = IF i <= Len(u) THEN u[i] ELSE v[i - Len(u)]
      BY <1>1, ConcatProperties, Zenon
    <2>2. Len(u) + Len(v) = last - start
      BY <1>1
    <2> QED
      BY <1>1, <2>1, <2>2, Zenon
  <1>4. ASSUME NEW i \in 1 .. last - start PROVE (u \o v)[i] = w[i]
    <2>1. CASE i <= middle - start
      <3>1. i \in 1 .. middle - start
        BY <2>1
      <3> QED
        BY <1>2, <1>3, <2>1, <3>1, Zenon
    <2>2. CASE ~(i <= middle - start)
      <3>1. i - (middle - start) \in 1 .. last - middle
            /\ middle + (i - (middle - start)) = start + i
        BY <2>2
      <3> QED
        BY <1>2, <1>3, <2>2, <3>1, Zenon
    <2> QED
      BY <2>1, <2>2
  <1>5. u \o v = w
    BY <1>1, <1>3, <1>4, SeqEqual
  <1> QED
    BY <1>5 DEF u, v, w

\* Reading on from where a read ended is one read.
LEMMA ReadOn ==
    ASSUME Holds(segments, segmentOffset, added), NEW from \in Int,
           NEW d, ReadFrom(d, from), NEW e, ReadFrom(e, d.offset)
    PROVE  ReadFrom([items |-> d.items \o e.items, offset |-> e.offset], from)
  <1> DEFINE b == Base(segmentOffset)
             both == [items |-> d.items \o e.items, offset |-> e.offset]
  <1>1. added \in Nat /\ b \in Nat
    BY BaseFacts DEF Holds
  <1> HIDE DEF b
  <1>2. CASE d.items = <<>> /\ d.offset = added /\ (from < 0 \/ from >= added)
    <2>1. e.items = <<>> /\ e.offset = added
      BY <1>1, <1>2 DEF ReadFrom
    <2>2. both.items = <<>> /\ both.offset = added
      BY <1>2, <2>1
    <2> HIDE DEF both
    <2> QED
      BY <1>2, <2>2 DEF ReadFrom, both
  <1>3. ASSUME NEW start \in Nat,
               from >= 0, start >= from, from >= b => start = from,
               d.offset \in Nat, start < d.offset, b <= d.offset, d.offset <= added,
               d.items = Items(start, d.offset)
        PROVE  ReadFrom(both, from)
    <2>1. CASE e.items = <<>> /\ e.offset = added /\ (d.offset < 0 \/ d.offset >= added)
      <3>1. e.offset = d.offset
        BY <1>1, <1>3, <2>1
      <3>2. Items(start, d.offset) \in Seq(Int)
        BY <1>3 DEF Items
      <3>3. both.items = Items(start, d.offset) /\ both.offset = d.offset
        BY <1>3, <2>1, <3>1, <3>2
      <3> HIDE DEF both
      <3> QED
        BY <1>3, <3>3 DEF ReadFrom, b
    <2>2. ASSUME NEW middle \in Nat, middle = d.offset,
                 e.offset \in Nat, middle < e.offset, e.offset <= added,
                 e.items = Items(middle, e.offset)
          PROVE  ReadFrom(both, from)
      <3>1. start <= middle /\ middle <= e.offset /\ start < e.offset /\ b <= e.offset
        BY <1>1, <1>3, <2>2
      <3>2. Items(start, middle) \o Items(middle, e.offset) = Items(start, e.offset)
        BY <2>2, <3>1, ItemsJoin
      <3>3. both.items = Items(start, e.offset) /\ both.offset = e.offset
        BY <1>3, <2>2, <3>2
      <3> HIDE DEF both
      <3> QED
        BY <1>3, <2>2, <3>1, <3>3 DEF ReadFrom, b
    <2> QED
      BY <1>3, <2>1, <2>2 DEF ReadFrom, b
  <1> QED
    BY <1>2, <1>3 DEF ReadFrom, b

\* Before the first read, and after one more.
FirstRead(from) == [items |-> <<>>, offset |-> from]

NextRead(d) == [items |-> d.items \o doRead(d.offset).items, offset |-> doRead(d.offset).offset]

\* f has what n reads in turn from an offset give.
IsReads(f, from, n) ==
    f = [k \in 0 .. n |-> IF k = 0 THEN FirstRead(from) ELSE NextRead(f[k - 1])]

\* There is one for every n.
LEMMA ReadsExist ==
    ASSUME NEW from, NEW n \in Nat
    PROVE  \E f : IsReads(f, from, n)
  <1> DEFINE Missing == {k \in Nat : ~ \E f : IsReads(f, from, k)}
  <1>1. SUFFICES ASSUME Missing # {} PROVE FALSE
    BY <1>1
  <1>2. PICK m \in Missing : \A k \in Missing : m <= k
    <2>1. Missing \subseteq Nat
      OBVIOUS
    <2> HIDE DEF Missing
    <2> QED
      BY <1>1, <2>1, LeastNatural, Zenon
  <1>3. m # 0
    <2>1. IsReads([i \in 0 .. 0 |-> FirstRead(from)], from, 0)
      BY DEF IsReads
    <2> QED
      BY <2>1
  <1>4. PICK g : IsReads(g, from, m - 1)
    <2>1. m - 1 \in Nat /\ m - 1 \notin Missing
      BY <1>2, <1>3
    <2> QED
      BY <2>1
  <1> DEFINE f == [i \in 0 .. m |-> IF i = m THEN NextRead(g[m - 1]) ELSE g[i]]
  <1>5. IsReads(f, from, m)
    <2>1. m \in Nat /\ m >= 1
      BY <1>3
    <2>2. ASSUME NEW i \in 0 .. m
          PROVE  f[i] = IF i = 0 THEN FirstRead(from) ELSE NextRead(f[i - 1])
      <3>1. CASE i = m
        <4>1. i # 0 /\ i - 1 \in 0 .. m /\ i - 1 # m
          BY <2>1, <3>1
        <4> QED
          BY <3>1, <4>1
      <3>2. CASE i # m
        <4>1. i \in 0 .. m - 1 /\ (i # 0 => i - 1 \in 0 .. m /\ i - 1 # m)
          BY <2>1, <3>2
        <4>2. g[i] = IF i = 0 THEN FirstRead(from) ELSE NextRead(g[i - 1])
          BY <1>4, <4>1 DEF IsReads
        <4> QED
          BY <3>2, <4>1, <4>2
      <3> QED
        BY <3>1, <3>2
    <2> HIDE DEF f
    <2>3. f = [i \in 0 .. m |-> f[i]]
      BY DEF f
    <2> QED
      BY <2>2, <2>3 DEF IsReads
  <1> QED
    BY <1>5

\* A read gives a chunk of numbers and a number.
LEMMA ReadTypes ==
    ASSUME Holds(segments, segmentOffset, added), NEW from, NEW d, ReadFrom(d, from)
    PROVE  d.items \in Seq(Int) /\ d.offset \in Int
  <1>1. added \in Nat
    BY DEF Holds
  <1>2. ASSUME NEW start \in Nat, d.offset \in Nat, start < d.offset
        PROVE  Items(start, d.offset) \in Seq(Int)
    BY <1>2 DEF Items
  <1>3. CASE d.items = <<>> /\ d.offset = added
    BY <1>1, <1>3
  <1>4. ASSUME NEW start \in Nat, d.offset \in Nat, start < d.offset,
               d.items = Items(start, d.offset)
        PROVE  d.items \in Seq(Int) /\ d.offset \in Int
    <2>1. d.items \in Seq(Int)
      BY <1>2, <1>4, Zenon
    <2> QED
      BY <1>4, <2>1
  <1> QED
    BY <1>3, <1>4, Zenon DEF ReadFrom

\* ReadAllNonBlocking gives the items that follow the offset.
LEMMA ReadsAll ==
    ASSUME Holds(segments, segmentOffset, added), NEW from \in Int
    PROVE  ReadFrom(readAll(from), from)
  <1> DEFINE n == Length(segments) + 1
             f == CHOOSE g : IsReads(g, from, n)
             Bad == {k \in Nat : 1 <= k /\ k <= n /\ ~ReadFrom(f[k], from)}
  <1>1. n \in Nat /\ n >= 1
    <2>1. Ring(segments)
      BY DEF Holds
    <2>2. segments.count \in Nat
      BY <2>1, RingFacts
    <2> QED
      BY <2>2 DEF Length
  <1>2. readAll(from) = f[n]
    BY DEF readAll, IsReads, FirstRead, NextRead
  <1>3. IsReads(f, from, n)
    <2> HIDE DEF n
    <2> QED
      BY <1>1, ReadsExist
  <1> HIDE DEF n, f
  <1>4. /\ f[0] = [items |-> <<>>, offset |-> from]
        /\ \A k \in 1 .. n : f[k] = [items |-> f[k - 1].items \o doRead(f[k - 1].offset).items,
                                     offset |-> doRead(f[k - 1].offset).offset]
    <2>1. f[0] = FirstRead(from) /\ \A k \in 1 .. n : f[k] = NextRead(f[k - 1])
      BY <1>1, <1>3 DEF IsReads
    <2> QED
      BY <2>1, Zenon DEF FirstRead, NextRead
  <1>5. SUFFICES ASSUME Bad # {} PROVE FALSE
    BY <1>1, <1>2, <1>5
  <1>6. PICK m \in Bad : \A k \in Bad : m <= k
    <2>1. Bad \subseteq Nat
      OBVIOUS
    <2> HIDE DEF Bad
    <2> QED
      BY <1>5, <2>1, LeastNatural, Zenon
  <1>7. m \in 1 .. n /\ m - 1 \in Nat /\ m - 1 <= n /\ ~ReadFrom(f[m], from)
    BY <1>1, <1>6
  <1> DEFINE d == f[m - 1]
             e == doRead(d.offset)
  <1>8. f[m] = [items |-> d.items \o e.items, offset |-> e.offset]
    BY <1>4, <1>7
  <1>9. CASE m = 1
    <2>1. d = [items |-> <<>>, offset |-> from]
      <3>1. m - 1 = 0
        BY <1>9
      <3> QED
        BY <1>4, <3>1, Zenon
    <2>2. ReadFrom(e, from)
      BY <2>1, DoReads
    <2> HIDE DEF e
    <2>3. e.items \in Seq(Int)
      BY <2>2, ReadTypes
    <2>4. f[m].items = e.items /\ f[m].offset = e.offset
      BY <1>8, <2>1, <2>3
    <2> QED
      BY <1>7, <2>2, <2>4 DEF ReadFrom
  <1>10. CASE m # 1
    <2>1. ReadFrom(d, from)
      <3>1. m - 1 >= 1 /\ ~(m <= m - 1)
        BY <1>7, <1>10
      <3>2. m - 1 \notin Bad
        BY <1>6, <3>1, Zenon
      <3> QED
        BY <1>7, <3>1, <3>2
    <2> HIDE DEF d
    <2>2. d.offset \in Int
      BY <2>1, ReadTypes
    <2>3. ReadFrom(e, d.offset)
      BY <2>2, DoReads
    <2> HIDE DEF e
    <2>4. ReadFrom([items |-> d.items \o e.items, offset |-> e.offset], from)
      BY <2>1, <2>3, ReadOn, Zenon
    <2> QED
      BY <1>7, <1>8, <2>4, Zenon
  <1> QED
    BY <1>9, <1>10

-----------------------------------------------------------------------------
(* The specification.                                                      *)

\* What a new stream and every step of the specification keep.
StreamInv ==
    /\ Holds(segments, segmentOffset, added)
    /\ offset \in [Readers -> Int]
    /\ items \in [Readers -> Seq(Int)]

\* r is given, in this step, the items that follow an offset: its own, or a
\* negative one, which gives it nothing.
Reads(r) ==
    \E from, chunk :
        /\ from \in Int
        /\ from = offset[r] \/ from < 0
        /\ ReadFrom(chunk, from)
        /\ Give(r, chunk)
        /\ UNCHANGED <<stream, added>>

\* A step that changes the items adds to the stream, reads, or takes items
\* away.
LEMMA Steps ==
    ASSUME StreamInv, [Next]_vars
    PROVE  \/ Publish
           \/ \E r \in Readers : Reads(r)
           \/ \E r \in Readers :
                /\ items' = items \/ items' = [items EXCEPT ![r] = <<>>]
                /\ offset' = offset \/ offset' = [offset EXCEPT ![r] = 0]
                /\ UNCHANGED <<stream, added>>
           \/ UNCHANGED vars
  <1>1. /\ Holds(segments, segmentOffset, added) /\ offset \in [Readers -> Int]
    BY DEF StreamInv
  <1>2. ASSUME NEW r \in Readers
        PROVE  /\ offset[r] \in Int /\ ReadFrom(doRead(offset[r]), offset[r])
               /\ ReadFrom(readAll(offset[r]), offset[r]) /\ ReadFrom(doRead(-1), -1)
    <2>1. offset[r] \in Int /\ -1 \in Int
      BY <1>1
    <2> QED
      BY <1>1, <2>1, DoReads, ReadsAll
  <1>3. ASSUME NEW r \in Subscribers, ReadBlocking(r) PROVE Reads(r) /\ r \in Readers
    BY <1>2, <1>3 DEF ReadBlocking, Reads, Readers
  <1>4. ASSUME NEW f \in Filters, NewFilter(f) PROVE Reads(f) /\ f \in Readers
    <2>1. -1 \in Int /\ -1 < 0
      OBVIOUS
    <2> QED
      BY <1>2, <1>4, <2>1 DEF NewFilter, Reads, Readers
  <1>5. ASSUME NEW f \in Filters, PollHashes(f) PROVE Reads(f) /\ f \in Readers
    BY <1>2, <1>5 DEF PollHashes, Reads, Readers
  <1>6. ASSUME NEW f \in Filters, PollLogs(f) PROVE Reads(f) /\ f \in Readers
    BY <1>2, <1>6 DEF PollLogs, Reads, Readers
  <1> DEFINE Drops(r) == /\ items' = items \/ items' = [items EXCEPT ![r] = <<>>]
                         /\ offset' = offset \/ offset' = [offset EXCEPT ![r] = 0]
                         /\ UNCHANGED <<stream, added>>
  <1>7. ASSUME NEW r \in Subscribers,
               Subscribe(r) \/ TakeChannel(r) \/ Signalled(r) \/ ContextDone(r)
               \/ CallbackSucceeds(r) \/ CallbackFails(r) \/ Cancel(r)
        PROVE  Drops(r) /\ r \in Readers
    BY <1>7 DEF Subscribe, TakeChannel, Signalled, ContextDone, CallbackSucceeds,
                CallbackFails, Cancel, Readers
  <1>8. ASSUME NEW f \in Filters, UninstallFilter(f) PROVE Drops(f) /\ f \in Readers
    BY <1>8 DEF UninstallFilter, Readers
  <1> HIDE DEF Drops
  <1>9. \/ Publish \/ (\E r \in Readers : Reads(r)) \/ (\E r \in Readers : Drops(r))
        \/ UNCHANGED vars
    BY <1>3, <1>4, <1>5, <1>6, <1>7, <1>8, Zenon DEF Next, Subscriber
  <1> QED
    BY <1>9 DEF Drops

\* A new stream is empty and has given nothing.
LEMMA InitInv == Init => StreamInv
  <1> SUFFICES ASSUME Init PROVE StreamInv
    OBVIOUS
  <1>1. segments = New /\ segmentOffset = 0 /\ added = 0
    BY DEF Init, NewStream
  <1>2. Holds(segments, segmentOffset, added)
    <2>1. Ring(segments) /\ segments.count = 0
      BY <1>1, NewRing
    <2> QED
      BY <1>1, <2>1, Sizes DEF Holds
  <1>3. offset \in [Readers -> Int] /\ items \in [Readers -> Seq(Int)]
    BY DEF Init
  <1> QED
    BY <1>2, <1>3 DEF StreamInv

\* Every step keeps the invariant.
LEMMA NextInv ==
    ASSUME StreamInv, [Next]_vars
    PROVE  StreamInv'
  <1>1. /\ Holds(segments, segmentOffset, added)
        /\ offset \in [Readers -> Int] /\ items \in [Readers -> Seq(Int)]
    BY DEF StreamInv
  <1>2. CASE Publish
    <2>1. PICK n \in 1 .. MaxBatch : Add(n)
      BY <1>2 DEF Publish
    <2>2. n \in Nat
      BY BoundsAssumption
    <2>3. Holds(segments', segmentOffset', added')
      BY <1>1, <2>1, <2>2, AddHolds
    <2>4. offset' = offset /\ items' = items
      BY <2>1 DEF Add
    <2> QED
      BY <1>1, <2>3, <2>4 DEF StreamInv, Holds
  <1>3. ASSUME UNCHANGED <<stream, added>>,
               offset' \in [Readers -> Int], items' \in [Readers -> Seq(Int)]
        PROVE  StreamInv'
    <2>1. segments' = segments /\ segmentOffset' = segmentOffset /\ added' = added
      BY <1>3 DEF stream
    <2> QED
      BY <1>1, <1>3, <2>1 DEF StreamInv, Holds
  <1>4. ASSUME NEW r \in Readers, Reads(r) PROVE StreamInv'
    <2>1. PICK from, chunk : ReadFrom(chunk, from) /\ Give(r, chunk)
                             /\ UNCHANGED <<stream, added>>
      BY <1>4 DEF Reads
    <2>2. chunk.items \in Seq(Int) /\ chunk.offset \in Int
      BY <1>1, <2>1, ReadTypes
    <2>3. /\ items' = [items EXCEPT ![r] = chunk.items]
          /\ offset' = [offset EXCEPT ![r] = chunk.offset]
      BY <2>1 DEF Give
    <2>4. offset' \in [Readers -> Int] /\ items' \in [Readers -> Seq(Int)]
      BY <1>1, <2>2, <2>3
    <2> QED
      BY <1>3, <2>1, <2>4
  <1>5. ASSUME NEW r \in Readers,
               items' = items \/ items' = [items EXCEPT ![r] = <<>>],
               offset' = offset \/ offset' = [offset EXCEPT ![r] = 0],
               UNCHANGED <<stream, added>>
        PROVE  StreamInv'
    <2>1. offset' \in [Readers -> Int]
      BY <1>1, <1>5
    <2>2. <<>> \in Seq(Int)
      OBVIOUS
    <2>3. items' \in [Readers -> Seq(Int)]
      BY <1>1, <1>5, <2>2
    <2> QED
      BY <1>3, <1>5, <2>1, <2>3
  <1>6. CASE UNCHANGED vars
    BY <1>1, <1>3, <1>6 DEF vars, stream
  <1> QED
    BY <1>2, <1>4, <1>5, <1>6, Steps

\* What a reader is given in a step follows its offset.
LEMMA GivenFollows ==
    ASSUME StreamInv, [Next]_vars, NEW r \in Readers, Given(r)
    PROVE  \E start \in Nat :
              /\ start >= offset[r]
              /\ offset[r] >= Base(segmentOffset) => start = offset[r]
              /\ offset'[r] \in Nat /\ start < offset'[r]
              /\ items'[r] = Items(start, offset'[r])
  <1>1. offset \in [Readers -> Int] /\ items \in [Readers -> Seq(Int)]
    BY DEF StreamInv
  <1>2. items'[r] # items[r] /\ items'[r] # <<>>
    BY DEF Given
  <1>3. ~Publish /\ ~UNCHANGED vars
    BY <1>2 DEF Publish, Add, vars
  <1>4. ASSUME NEW q \in Readers, items' = items \/ items' = [items EXCEPT ![q] = <<>>]
        PROVE  FALSE
    BY <1>1, <1>2, <1>4
  <1>5. PICK q \in Readers : Reads(q)
    BY <1>3, <1>4, Steps
  <1>6. PICK from, chunk : /\ from \in Int
                           /\ from = offset[q] \/ from < 0
                           /\ ReadFrom(chunk, from) /\ Give(q, chunk)
    BY <1>5 DEF Reads
  <1>7. /\ items' = [items EXCEPT ![q] = chunk.items]
        /\ offset' = [offset EXCEPT ![q] = chunk.offset]
    BY <1>6 DEF Give
  <1>8. r = q
    BY <1>1, <1>2, <1>7
  <1>9. items'[r] = chunk.items /\ offset'[r] = chunk.offset
    BY <1>1, <1>7, <1>8
  <1>10. PICK start \in Nat :
            /\ from >= 0 /\ start >= from
            /\ from >= Base(segmentOffset) => start = from
            /\ chunk.offset \in Nat /\ start < chunk.offset
            /\ chunk.items = Items(start, chunk.offset)
    BY <1>2, <1>6, <1>9 DEF ReadFrom
  <1>11. from = offset[r]
    BY <1>6, <1>8, <1>10
  <1> QED
    BY <1>9, <1>10, <1>11

\* However often the ring is resized, wraps around and is pruned, it holds the
\* newest items, each where its id says (Stream.Add).
THEOREM StreamHoldsNewest == Spec => []HoldsNewest
  <1>1. Init => StreamInv
    BY InitInv
  <1>2. StreamInv /\ [Next]_vars => StreamInv'
    BY NextInv
  <1>3. StreamInv => HoldsNewest
    BY HoldsGivesNewest DEF StreamInv
  <1> QED
    BY <1>1, <1>2, <1>3, PTL DEF Spec

\* Add never prunes one of the Capacity newest items, and keeps at most one
\* segment more than they need.
THEOREM StreamKeepsCapacity == Spec => []CapacityKept
  <1>1. Init => StreamInv
    BY InitInv
  <1>2. StreamInv /\ [Next]_vars => StreamInv'
    BY NextInv
  <1>3. StreamInv => CapacityKept
    BY HoldsGivesCapacity DEF StreamInv
  <1> QED
    BY <1>1, <1>2, <1>3, PTL DEF Spec

\* Subscribers and filters are given items in order and none twice (doRead,
\* ReadAllNonBlocking).
THEOREM ReadersInOrder == Spec => InOrder
  <1>1. Init => StreamInv
    BY InitInv
  <1>2. StreamInv /\ [Next]_vars => StreamInv'
    BY NextInv
  <1>3. ASSUME StreamInv, [Next]_vars, NEW r \in Readers, Given(r)
        PROVE  LET got == items'[r]
               IN  /\ got[1] > offset[r]
                   /\ \A i \in 1 .. Len(got) - 1 : got[i + 1] > got[i]
                   /\ got[Len(got)] = offset'[r]
    <2> DEFINE got == items'[r]
    <2>1. PICK start \in Nat : /\ start >= offset[r] /\ offset'[r] \in Nat
                               /\ start < offset'[r] /\ got = Items(start, offset'[r])
      BY <1>3, GivenFollows
    <2>2. offset[r] \in Int
      BY <1>3 DEF StreamInv
    <2> DEFINE n == offset'[r] - start
    <2>3. /\ n \in Nat /\ n >= 1 /\ Len(got) = n
          /\ \A i \in 1 .. n : got[i] = start + i
      BY <2>1 DEF Items
    <2>4. start + n = offset'[r]
      BY <2>1
    <2> HIDE DEF got, n
    <2>5. got[1] > offset[r] /\ got[Len(got)] = offset'[r]
      BY <2>1, <2>2, <2>3, <2>4
    <2>6. \A i \in 1 .. Len(got) - 1 : got[i + 1] > got[i]
      BY <2>3
    <2> QED
      BY <2>5, <2>6 DEF got
  <1>4. StreamInv /\ [Next]_vars =>
          [\A r \in Readers : Given(r) =>
             LET got == items'[r]
             IN  /\ got[1] > offset[r]
                 /\ \A i \in 1 .. Len(got) - 1 : got[i + 1] > got[i]
                 /\ got[Len(got)] = offset'[r]]_vars
    BY <1>3
  <1> QED
    BY <1>1, <1>2, <1>4, PTL DEF Spec, InOrder

\* A reader whose segment is retained is given every item (doRead,
\* ReadAllNonBlocking).
THEOREM ReadersMissNothing == Spec => NoGapWithinCapacity
  <1>1. Init => StreamInv
    BY InitInv
  <1>2. StreamInv /\ [Next]_vars => StreamInv'
    BY NextInv
  <1>3. StreamInv /\ [Next]_vars =>
          [\A r \in Readers :
             Given(r) /\ offset[r] >= segmentOffset * SegmentSize
             => items'[r] = [i \in 1 .. offset'[r] - offset[r] |-> offset[r] + i]]_vars
    BY GivenFollows DEF Items, Base
  <1> QED
    BY <1>1, <1>2, <1>3, PTL DEF Spec, NoGapWithinCapacity
=============================================================================
