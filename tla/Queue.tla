------------------------------- MODULE Queue -------------------------------
(***************************************************************************)
(* The ring buffer of rpc/stream/queue.go, as operators on its record      *)
(*                                                                         *)
(*     [buf, head, tail, count]                                            *)
(*                                                                         *)
(* buf holds position p of the array at buf[p + 1].  The code reduces      *)
(* positions with `& (len(buf) - 1)', which is `% len(buf)' while the      *)
(* length is a power of two.                                               *)
(***************************************************************************)
EXTENDS Integers, Sequences

CONSTANT MinQueueLen   \* minQueueLen, 16 in the code

PowersOfTwo == {2 ^ n : n \in 0..20}

ASSUME MinQueueLenAssumption == MinQueueLen \in Nat \ {0} /\ MinQueueLen \in PowersOfTwo

\* make([]V, n) for segments: n nil slices.
make(n) == [p \in 1..n |-> <<>>]

New == [buf |-> make(MinQueueLen), head |-> 0, tail |-> 0, count |-> 0]

Length(q) == q.count

\* copy(dst, src): as many elements as both have.
copy(dst, src) ==
    [p \in DOMAIN dst |-> IF p \in DOMAIN src THEN src[p] ELSE dst[p]]

\* Mutant: the tail is not reset.
resizeKeepsTail(q) ==
    LET live == IF q.tail > q.head
                THEN SubSeq(q.buf, q.head + 1, q.tail)
                ELSE SubSeq(q.buf, q.head + 1, Len(q.buf)) \o SubSeq(q.buf, 1, q.tail)
    IN  [q EXCEPT !.buf  = copy(make(2 * q.count), live),
                  !.head = 0]

resize(q) ==
    LET live == IF q.tail > q.head
                THEN SubSeq(q.buf, q.head + 1, q.tail)
                ELSE SubSeq(q.buf, q.head + 1, Len(q.buf)) \o SubSeq(q.buf, 1, q.tail)
    IN  [q EXCEPT !.buf  = copy(make(2 * q.count), live),
                  !.head = 0,
                  !.tail = q.count]

\* Mutant: the tail is not masked.
AddToUnmasked(q, elem) ==
    LET r == IF q.count = Len(q.buf) THEN resize(q) ELSE q
    IN  [r EXCEPT !.buf   = [@ EXCEPT ![r.tail + 1] = elem],
                  !.tail  = @ + 1,
                  !.count = @ + 1]

AddTo(q, elem) ==
    LET r == IF q.count = Len(q.buf) THEN resize(q) ELSE q
    IN  [r EXCEPT !.buf   = [@ EXCEPT ![r.tail + 1] = elem],
                  !.tail  = (@ + 1) % Len(r.buf),
                  !.count = @ + 1]

\* GetP: the position of element i, counted from the end when negative.
GetP(q, i) ==
    LET j == IF i < 0 THEN i + q.count ELSE i
    IN  ((q.head + j) % Len(q.buf)) + 1

Get(q, i) == q.buf[GetP(q, i)]

TailOf(q) == Get(q, -1)

\* *q.TailP() = elem
SetTail(q, elem) == [q EXCEPT !.buf = [@ EXCEPT ![GetP(q, -1)] = elem]]

\* Remove: the queue that is left; the element removed is Get(q, 0).
RemoveHead(q) ==
    LET r == [q EXCEPT !.head  = (@ + 1) % Len(q.buf),
                       !.count = @ - 1]
    IN  IF Len(q.buf) > MinQueueLen /\ 4 * r.count = Len(q.buf) THEN resize(r) ELSE r

\* The elements from head to tail.
Elements(q) == [i \in 1..q.count |-> Get(q, i - 1)]
=============================================================================
