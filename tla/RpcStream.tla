----------------------------- MODULE RpcStream -----------------------------
(***************************************************************************)
(* rpc/stream: the stream behind the JSON-RPC subscriptions (headers, logs *)
(* and pending transactions).  A publisher appends items to a ring of      *)
(* segments; websocket subscribers read it in a loop and block on a        *)
(* condition variable made of channels (cond.go); polled filters read it   *)
(* from the offset they stored (eth/filters/api.go).                       *)
(*                                                                         *)
(* The n-th item added is the number n, which is also its id.  Add, and a  *)
(* read under the read lock, are one step each; what happens between       *)
(* RUnlock and the select of Cond.Wait is a step of its own.               *)
(***************************************************************************)
EXTENDS Queue, FiniteSets

CONSTANTS
    Subscribers,  \* websocket subscriptions
    Filters,      \* polled filters
    SegmentSize,
    Capacity,
    FilterCap,    \* filters installed at a time
    MaxBatch,     \* bound: items of one Add
    MaxItems      \* bound: items ever added

Readers     == Subscribers \cup Filters
maxSegments == (Capacity + SegmentSize - 1) \div SegmentSize

ASSUME SizesAssumption   == /\ SegmentSize \in Nat \ {0} /\ Capacity \in Int
                            /\ maxSegments >= 1
ASSUME BoundsAssumption  == MaxBatch \in Nat /\ MaxItems \in Nat
ASSUME ReadersAssumption == Subscribers \cap Filters = {}

VARIABLES
    segments,       \* the ring of segments
    segmentOffset,  \* segments pruned
    added,          \* items ever added
    ch,             \* the condition variable's channel; lower ones are closed
    pc,             \* where a reader is
    offset,         \* the id it reads from; negative: from the end
    waitCh,         \* the channel it took in Cond.Wait
    items,          \* the chunk of items it was given last
    cancelled       \* the subscribers whose context is done

stream == <<segments, segmentOffset>>
vars   == <<segments, segmentOffset, added, ch, pc, offset, waitCh, items, cancelled>>

NewStream ==
    /\ segments = New
    /\ segmentOffset = 0
    /\ added = 0
    /\ ch = 0

lastID ==
    IF Length(segments) = 0
    THEN 0
    ELSE (segmentOffset + Length(segments) - 1) * SegmentSize + Len(TailOf(segments))

Nothing == [items |-> <<>>, offset |-> lastID]

(***************************************************************************)
(* doRead: the rest of one segment after the given offset.                 *)
(***************************************************************************)
\* Mutant: the offset returned forgets the pruned segments.
doReadRelative(from) ==
    LET segment == (from \div SegmentSize) - segmentOffset
        index   == IF segment >= 0 THEN segment ELSE 0
        seg     == Get(segments, index)
        rest    == SubSeq(seg, (from % SegmentSize) + 1, Len(seg))
    IN  IF Length(segments) = 0 \/ from < 0 \/ index >= Length(segments)
        THEN Nothing
        ELSE IF rest = <<>> THEN Nothing
        ELSE [items  |-> rest,
              offset |-> index * SegmentSize + Len(seg)]


\* Mutant: the offset returned is the last id, not the end of the segment.
doReadToLast(from) ==
    LET segment == (from \div SegmentSize) - segmentOffset
        index   == IF segment >= 0 THEN segment ELSE 0
        seg     == Get(segments, index)
        rest    == SubSeq(seg, (from % SegmentSize) + 1, Len(seg))
    IN  IF Length(segments) = 0 \/ from < 0 \/ index >= Length(segments)
        THEN Nothing
        ELSE IF rest = <<>> THEN Nothing
        ELSE [items  |-> rest,
              offset |-> lastID]

doRead(from) ==
    LET segment == (from \div SegmentSize) - segmentOffset
        index   == IF segment >= 0 THEN segment ELSE 0
        seg     == Get(segments, index)
        rest    == SubSeq(seg, (from % SegmentSize) + 1, Len(seg))
    IN  IF Length(segments) = 0 \/ from < 0 \/ index >= Length(segments)
        THEN Nothing
        ELSE IF rest = <<>> THEN Nothing
        ELSE [items  |-> rest,
              offset |-> (segmentOffset + index) * SegmentSize + Len(seg)]

\* ReadAllNonBlocking: doRead until it gives nothing.  A read that gives
\* nothing leaves the offset where the next one gives nothing too, so the loop
\* is over after one read per segment and one more.
readAll(from) ==
    LET read[k \in 0..Length(segments) + 1] ==
            IF k = 0
            THEN [items |-> <<>>, offset |-> from]
            ELSE LET next == doRead(read[k - 1].offset)
                 IN  [items |-> read[k - 1].items \o next.items, offset |-> next.offset]
    IN  read[Length(segments) + 1]

Give(r, chunk) ==
    /\ items' = [items EXCEPT ![r] = chunk.items]
    /\ offset' = [offset EXCEPT ![r] = chunk.offset]

GoTo(r, label) == pc' = [pc EXCEPT ![r] = label]

Init ==
    /\ NewStream
    /\ pc = [r \in Readers |-> "new"]
    /\ offset = [r \in Readers |-> -1]
    /\ waitCh = [r \in Readers |-> 0]
    /\ items = [r \in Readers |-> <<>>]
    /\ cancelled = {}

(***************************************************************************)
(* Add: a batch of items, under the write lock, then Broadcast.            *)
(***************************************************************************)
\* Mutant: the ring keeps one segment less.
FreeSegmentEarly(s) == Length(s.segments) >= maxSegments

FreeSegment(s) == Length(s.segments) > maxSegments

appendItem(s, v) ==
    LET full    == Length(s.segments) = 0 \/ Len(TailOf(s.segments)) = SegmentSize
        pruned  == full /\ FreeSegment(s)
        kept    == IF pruned THEN RemoveHead(s.segments) ELSE s.segments
        ring    == IF full THEN AddTo(kept, <<>>) ELSE kept
    IN  [segments      |-> SetTail(ring, Append(TailOf(ring), v)),
         segmentOffset |-> s.segmentOffset + (IF pruned THEN 1 ELSE 0)]

Broadcast == ch' = ch + 1

Add(n) ==
    LET after[i \in 0..n] ==
            IF i = 0
            THEN [segments |-> segments, segmentOffset |-> segmentOffset]
            ELSE appendItem(after[i - 1], added + i)
    IN  /\ added + n <= MaxItems
        /\ segments' = after[n].segments
        /\ segmentOffset' = after[n].segmentOffset
        /\ added' = added + n
        /\ Broadcast
        /\ UNCHANGED <<pc, offset, waitCh, items, cancelled>>

Publish == \E n \in 1..MaxBatch : Add(n)

(***************************************************************************)
(* Subscribe: ReadBlocking in a loop, the chunk it returns passed to a     *)
(* callback.  ReadBlocking reads under the read lock; when there is        *)
(* nothing, it unlocks, takes the channel of the condition variable, and   *)
(* waits for the channel to be closed or for the context to be done.       *)
(***************************************************************************)
Subscribe(r) ==
    /\ pc[r] = "new"
    /\ GoTo(r, "read")
    /\ UNCHANGED <<stream, added, ch, offset, waitCh, items, cancelled>>

ReadBlocking(r) ==
    /\ pc[r] = "read"
    /\ LET chunk == doRead(offset[r])
       IN  /\ Give(r, chunk)
           /\ GoTo(r, IF chunk.items = <<>> THEN "unlocked" ELSE "callback")
    /\ UNCHANGED <<stream, added, ch, waitCh, cancelled>>

\* Cond.Wait, up to the select.
TakeChannel(r) ==
    /\ pc[r] = "unlocked"
    /\ waitCh' = [waitCh EXCEPT ![r] = ch]
    /\ GoTo(r, "waiting")
    /\ UNCHANGED <<stream, added, ch, offset, items, cancelled>>

Signalled(r) ==
    /\ pc[r] = "waiting"
    /\ waitCh[r] < ch
    /\ GoTo(r, "read")
    /\ UNCHANGED <<stream, added, ch, offset, waitCh, items, cancelled>>

\* Mutant: the result of Wait is not looked at.
ContextDoneIgnored(r) ==
    /\ pc[r] = "waiting"
    /\ r \in cancelled
    /\ GoTo(r, "read")
    /\ UNCHANGED <<stream, added, ch, offset, waitCh, items, cancelled>>

ContextDone(r) ==
    /\ pc[r] = "waiting"
    /\ r \in cancelled
    /\ GoTo(r, "done")
    /\ offset' = [offset EXCEPT ![r] = 0]
    /\ UNCHANGED <<stream, added, ch, waitCh, items, cancelled>>

\* Mutant: the subscriber waits after every chunk.
CallbackWaits(r) ==
    /\ pc[r] = "callback"
    /\ GoTo(r, "unlocked")
    /\ items' = [items EXCEPT ![r] = <<>>]
    /\ UNCHANGED <<stream, added, ch, offset, waitCh, cancelled>>

\* The callback returns nil: the loop goes on.
CallbackSucceeds(r) ==
    /\ pc[r] = "callback"
    /\ GoTo(r, "read")
    /\ items' = [items EXCEPT ![r] = <<>>]
    /\ UNCHANGED <<stream, added, ch, offset, waitCh, cancelled>>

CallbackFails(r) ==
    /\ pc[r] = "callback"
    /\ GoTo(r, "done")
    /\ UNCHANGED <<stream, added, ch, offset, waitCh, items, cancelled>>

\* The subscription's context is cancelled.
Cancel(r) ==
    /\ r \notin cancelled
    /\ cancelled' = cancelled \cup {r}
    /\ UNCHANGED <<stream, added, ch, pc, offset, waitCh, items>>

(***************************************************************************)
(* Filters.  filtersMu is held during a whole call, also between the       *)
(* chunks of a poll of logs, so at most one filter is "polling"; items may *)
(* be added between two chunks.                                            *)
(***************************************************************************)
Installed == {f \in Filters : pc[f] \in {"installed", "polling"}}

filtersMu == \A f \in Filters : pc[f] # "polling"

NewFilter(f) ==
    /\ pc[f] = "new"
    /\ filtersMu
    /\ Cardinality(Installed) < FilterCap
    /\ Give(f, doRead(-1))
    /\ GoTo(f, "installed")
    /\ UNCHANGED <<stream, added, ch, waitCh, cancelled>>

\* GetFilterChanges of a filter of pending transactions or blocks.
PollHashes(f) ==
    /\ pc[f] = "installed"
    /\ filtersMu
    /\ Give(f, readAll(offset[f]))
    /\ UNCHANGED <<stream, added, ch, pc, waitCh, cancelled>>

\* GetFilterChanges of a filter of logs: one ReadNonBlocking after the other.
PollLogs(f) ==
    /\ \/ pc[f] = "installed" /\ filtersMu
       \/ pc[f] = "polling"
    /\ LET chunk == doRead(offset[f])
       IN  /\ Give(f, chunk)
           /\ GoTo(f, IF chunk.items = <<>> THEN "installed" ELSE "polling")
    /\ UNCHANGED <<stream, added, ch, waitCh, cancelled>>

\* UninstallFilter, or timeoutLoop after the filter's deadline.
UninstallFilter(f) ==
    /\ pc[f] = "installed"
    /\ filtersMu
    /\ GoTo(f, "done")
    /\ UNCHANGED <<stream, added, ch, offset, waitCh, items, cancelled>>

Subscriber(r) ==
    \/ ReadBlocking(r)
    \/ TakeChannel(r)
    \/ Signalled(r)
    \/ ContextDone(r)
    \/ CallbackSucceeds(r)

Next ==
    \/ Publish
    \/ \E r \in Subscribers :
        \/ Subscribe(r)
        \/ Subscriber(r)
        \/ CallbackFails(r)
        \/ Cancel(r)
    \/ \E f \in Filters :
        \/ NewFilter(f)
        \/ PollHashes(f)
        \/ PollLogs(f)
        \/ UninstallFilter(f)

\* A goroutine that can take a step takes one: the mutexes are never held over
\* a wait and callbacks return.  Nothing is assumed of the publisher.
Fairness == \A r \in Subscribers : WF_vars(Subscriber(r))

Spec == Init /\ [][Next]_vars /\ Fairness

-----------------------------------------------------------------------------

Labels == {"new", "read", "unlocked", "waiting", "callback", "installed", "polling", "done"}

\* The variables have their types, and the ring buffer is one: its length is a
\* power of two, which the bit masks of queue.go take for granted, its tail is
\* count positions after its head, and it is never shorter than its minimum.
TypeOK ==
    /\ Len(segments.buf) \in PowersOfTwo /\ Len(segments.buf) >= MinQueueLen
    /\ segments.head \in 0..Len(segments.buf) - 1
    /\ segments.count \in 0..Len(segments.buf)
    /\ segments.tail = (segments.head + segments.count) % Len(segments.buf)
    /\ segments.buf \in Seq(Seq(1..MaxItems))
    /\ segmentOffset \in Nat
    /\ added \in 0..MaxItems
    /\ ch \in Nat
    /\ pc \in [Readers -> Labels]
    /\ offset \in [Readers -> -1..MaxItems]
    /\ waitCh \in [Readers -> 0..ch]
    /\ items \in [Readers -> Seq(1..MaxItems)]
    /\ cancelled \subseteq Subscribers

RetainedCount == added - segmentOffset * SegmentSize

\* What the ring holds, over its resizes, wrap-arounds and pruned segments, is
\* a contiguous end of what was added, every segment but the last full; so the
\* id that Add returns (lastID) is the number of items added.
HoldsNewest ==
    /\ lastID = added
    /\ \A i \in 1..Length(segments) :
        LET first == (segmentOffset + i - 1) * SegmentSize
            size  == IF i < Length(segments) THEN SegmentSize ELSE added - first
        IN  Elements(segments)[i] = [j \in 1..size |-> first + j]

\* Pruning drops whole segments, never one of the Capacity newest items, and
\* it keeps the memory bounded: one segment more than Capacity asks for.
CapacityKept ==
    /\ RetainedCount <= (maxSegments + 1) * SegmentSize
    /\ (added >= Capacity => RetainedCount >= Capacity)
    /\ (added < Capacity => segmentOffset = 0)

\* r is given items in this step.
Given(r) == items'[r] \notin {<<>>, items[r]}

\* A reader is given items in the order of their ids and none twice, whatever
\* was pruned or added between its reads: a chunk starts after the offset, goes
\* up one by one within a segment, and ends at the new offset.
InOrder ==
    [][\A r \in Readers : Given(r) =>
        LET got == items'[r]
        IN  /\ got[1] > offset[r]
            /\ \A i \in 1..Len(got) - 1 : got[i + 1] > got[i]
            /\ got[Len(got)] = offset'[r]]_vars

\* A read skips items only if the segment of its offset was pruned: a reader
\* that is less than Capacity items behind is given every item.
NoGapWithinCapacity ==
    [][\A r \in Readers :
        Given(r) /\ offset[r] >= segmentOffset * SegmentSize
        => items'[r] = [i \in 1..offset'[r] - offset[r] |-> offset[r] + i]]_vars


\* A subscriber whose channel an Add has closed comes to hold the id of the
\* newest item, several segments and further Adds later if need be, unless it
\* ends (its context is done, or its callback fails).
SignalledCatchesUp ==
    \A r \in Subscribers :
        (pc[r] = "waiting" /\ waitCh[r] < ch) ~> (offset[r] = added \/ pc[r] = "done")

\* A cancelled subscription ends, once no more items come.
CancelEnds ==
    \A r \in Subscribers :
        (r \in cancelled /\ pc[r] # "new") ~> (pc[r] = "done")

-----------------------------------------------------------------------------
(***************************************************************************)
(* A statement of a comment that the code does not keep.                   *)
(***************************************************************************)
\* ReadBlocking returns when there are items with an id greater than the
\* reader's: a subscriber does not stay behind, with its offset below the
\* newest id, for good.  Violated: an Add between RUnlock and Cond.Wait closes
\* a channel that nobody holds, and the subscriber then waits on the new one.
NoLostWakeup ==
    \A r \in Subscribers :
        (pc[r] = "unlocked" /\ offset[r] < added) ~> (offset[r] = added \/ pc[r] = "done")

=============================================================================
