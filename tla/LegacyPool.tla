----------------------------- MODULE LegacyPool -----------------------------
(***************************************************************************)
(* The EVM transaction pool of mempool/txpool/legacypool: pending lists,   *)
(* queues, the price heaps, heartbeats, reservations, and the background   *)
(* loop that resets, promotes, demotes and truncates.                      *)
(*                                                                         *)
(* The pool is one record.  What its mutex protects is a function from     *)
(* such records to such records; what runs outside the mutex is an action  *)
(* of its own.  A list that the code deletes when it is empty is here the  *)
(* set of the account's transactions in pending or queue.                  *)
(***************************************************************************)
EXTENDS NonceList, Sequences, SequencesExt, BagsExt

CONSTANTS
  Txs,           \* transactions: [from, nonce, price, cost, slots]
  AccountSlots,  \* pending transactions an account keeps when truncating
  GlobalSlots,   \* pending transactions of the pool
  AccountQueue,  \* queued transactions of an account
  GlobalQueue,   \* queued transactions of the pool
  PriceBump,     \* percent that a replacement has to add
  NilState       \* the state that StateAt returns for the zero header

Accounts == {t.from : t \in Txs}

ASSUME LimitsAssumption ==
  {AccountSlots, GlobalSlots, AccountQueue, GlobalQueue, PriceBump} \subseteq Nat

\* The heaps order by price and then by nonce; ties beyond that are broken by
\* the layout of the heap, which is not modelled.
ASSUME NoTies ==
  \A t, u \in Txs : t.price = u.price /\ t.nonce = u.nonce => t = u

VARIABLES
  pool,       \* the fields of LegacyPool that its mutex protects
  run,        \* the background run: Idle, or the request it works on
  next,       \* what scheduleReorgLoop has gathered for the next run
  announced,  \* history: pooled transactions broadcast since they came in
  unsent      \* history: pooled ones that only failed broadcasts have held

poolVars == <<pool, run, next, announced, unsent>>

Of(S, a) == {t \in S : t.from = a}

Senders(S) == {t.from : t \in S}

Slots(S) == MapThenSumSet(LAMBDA t : t.slots, S)

Cost(S) == MapThenSumSet(LAMBDA t : t.cost, S)

Ascending(S) == SetToSortSeq(S, LAMBDA t, u : t.nonce < u.nonce)

-----------------------------------------------------------------------------
(* The price heaps: a bag of entries each, some of them stale.             *)

Cheaper(t, u) == t.price < u.price \/ (t.price = u.price /\ t.nonce > u.nonce)

Cheapest(h) ==
  CHOOSE t \in BagToSet(h) : \A u \in BagToSet(h) : t = u \/ Cheaper(t, u)

Put(p, t) == [p EXCEPT !.urgent = BagAdd(@, t)]

Reheap(p) ==
  LET n == Cardinality(p.all) \div 5
      worst == {t \in p.all : Cardinality({u \in p.all : Cheaper(u, t)}) < n}
  IN [p EXCEPT !.stales = 0, !.floating = SetToBag(worst),
               !.urgent = SetToBag(p.all \ worst)]

\* The heaps are rebuilt when a quarter of their entries is stale.
ReheapIfStale(p) ==
  IF p.stales <= (BagCardinality(p.urgent) + BagCardinality(p.floating)) \div 4
  THEN p ELSE Reheap(p)

Removed(p, n) == ReheapIfStale([p EXCEPT !.stales = @ + n])

\* underpricedFor first pops the stale entries at the head of the heap.
StaleHead(p, h) ==
  {t \in BagToSet(h) \ p.all : \A u \in BagToSet(h) \cap p.all : Cheaper(t, u)}

Without(h, S) == [t \in DOMAIN h \ S |-> h[t]]

CleanUrgent(p) ==
  LET s == StaleHead(p, p.urgent)
  IN [p EXCEPT !.urgent = Without(@, s),
               !.stales = @ - MapThenSumSet(LAMBDA t : p.urgent[t], s)]

CleanFloating(p) ==
  LET s == StaleHead(p, p.floating)
  IN [p EXCEPT !.floating = Without(@, s),
               !.stales = @ - MapThenSumSet(LAMBDA t : p.floating[t], s)]

NoBetter(h, t) == h = EmptyBag \/ Cheapest(h).price >= t.price

\* Underpriced: the verdict, and the pool with the heads that were cleaned.
UnderpricedFor(p, t) ==
  [pool |-> p,
   verdict |-> /\ NoBetter(p.floating, t)
               /\ p.urgent # EmptyBag \/ p.floating # EmptyBag]

UnderpricedForUrgent(p, t) ==
  IF ~NoBetter(p.urgent, t) THEN [pool |-> p, verdict |-> FALSE]
  ELSE UnderpricedFor(CleanFloating(p), t)

Underpriced(p, t) == UnderpricedForUrgent(CleanUrgent(p), t)

\* One round of the loop of Discard; s holds the pool, the slots still needed
\* and the transactions dropped so far.
DiscardStep(s) ==
  LET p == s.pool
      u == Cheapest(p.urgent)
      f == Cheapest(p.floating)
      Stale(q) == [s EXCEPT !.pool = [q EXCEPT !.stales = @ - 1]]
      popU == [p EXCEPT !.urgent = BagRemove(@, u)]
      popF == [p EXCEPT !.floating = BagRemove(@, f)]
  IN IF s.need <= 0 THEN s
     ELSE IF BagCardinality(p.urgent) > 4 * BagCardinality(p.floating)
     THEN IF u \notin p.all THEN Stale(popU)
          ELSE [s EXCEPT !.pool = [popU EXCEPT !.floating = BagAdd(@, u)]]
     ELSE IF p.floating = EmptyBag THEN s
     ELSE IF f \notin p.all THEN Stale(popF)
     ELSE [s EXCEPT !.pool = popF, !.need = @ - f.slots, !.drop = Append(@, f)]

\* Each entry is popped from each heap at most once.
DiscardLoop(p, slots) ==
  FoldLeft(LAMBDA r, i : DiscardStep(r),
           [pool |-> p, need |-> slots, drop |-> <<>>],
           [i \in 1 .. 2 * (BagCardinality(p.urgent) + BagCardinality(p.floating)) |-> i])

\* Without enough to discard, everything goes back into the heap.
AllOrNothing(s) ==
  IF s.need <= 0 THEN s
  ELSE [s EXCEPT !.pool = FoldLeft(Put, @, s.drop), !.drop = <<>>]

Discard(p, slots) == AllOrNothing(DiscardLoop(p, slots))

-----------------------------------------------------------------------------
(* The lists of an account.  beats lists accounts by heartbeat, oldest     *)
(* first.                                                                  *)

Beat(p, a) == [p EXCEPT !.beats = Append(SelectSeq(@, LAMBDA b : b # a), a)]

FirstBeat(p, a) == IF a \in ToSet(p.beats) THEN p ELSE Beat(p, a)

Forget(p, a) == [p EXCEPT !.beats = SelectSeq(@, LAMBDA b : b # a)]

\* reserver.Release, on the code paths that find the account without a list.
ReleaseIfGone(p, a) ==
  IF Of(p.pending \cup p.queue, a) = {}
  THEN [p EXCEPT !.reserved = @ \ {a}] ELSE p

\* An old transaction that the new one replaced leaves the lookup.
DropReplaced(p, old) ==
  IF old = {} THEN p ELSE Removed([p EXCEPT !.all = @ \ old], 1)

AddToAll(p, t, addAll) ==
  IF addAll THEN Put([p EXCEPT !.all = @ \cup {t}], t) ELSE p

enqueueTx(p, t, addAll) ==
  LET old == AtNonce(Of(p.queue, t.from), t.nonce)
  IN IF ~Accepts(Of(p.queue, t.from), t, PriceBump) THEN p
     ELSE FirstBeat(AddToAll(DropReplaced([p EXCEPT !.queue = (@ \ old) \cup {t}], old),
                             t, addAll),
                    t.from)

\* The postponed transactions stay in the lookup.
Postpone(p, S) == FoldLeft(LAMBDA q, t : enqueueTx(q, t, FALSE), p, Ascending(S))

promoteTx(p, t) ==
  LET old == AtNonce(Of(p.pending, t.from), t.nonce)
      q == [p EXCEPT !.pending = (@ \ old) \cup {t}, !.nonces[t.from] = t.nonce + 1]
  IN IF Accepts(Of(p.pending, t.from), t, PriceBump)
     THEN Beat(DropReplaced(q, old), t.from)
     ELSE Removed([p EXCEPT !.all = @ \ {t}], 1)

\* Mutant of LowerNonce: setIfLower keeps the nonce.
KeepNonce(p, a, n) == p

\* Mutant of LowerNonce: the nonce before that of the removed transaction.
LowerTooFar(p, a, n) == [p EXCEPT !.nonces[a] = n - 1]

LowerNonce(p, a, n) == [p EXCEPT !.nonces[a] = IF @ <= n THEN @ ELSE n]

\* Mutant of RemovePending: the invalidated transactions are dropped.
RemoveWithoutPostponing(p, t) ==
  LowerNonce([p EXCEPT !.pending = @ \ (AtNonce(Of(@, t.from), t.nonce)
                                       \cup Above(Of(@, t.from), t.nonce))],
             t.from, t.nonce)

\* The branch of removeTx for a pending transaction.  The heartbeat stays.
RemovePending(p, t) ==
  LET mine == Of(p.pending, t.from)
      invalids == Above(mine, t.nonce)
      q == [p EXCEPT !.pending = @ \ (AtNonce(mine, t.nonce) \cup invalids)]
  IN LowerNonce(Postpone(q, invalids), t.from, t.nonce)

\* Mutant of RemoveQueued: the heartbeat goes with any queued transaction.
RemoveAndForget(p, t) ==
  Forget([p EXCEPT !.queue = @ \ AtNonce(Of(@, t.from), t.nonce)], t.from)

ForgetIfEmpty(p, a) == IF Of(p.queue, a) = {} THEN Forget(p, a) ELSE p

RemoveQueued(p, t) ==
  ForgetIfEmpty([p EXCEPT !.queue = @ \ AtNonce(Of(@, t.from), t.nonce)], t.from)

RemoveFromLists(p, t) ==
  IF AtNonce(Of(p.pending, t.from), t.nonce) # {}
  THEN RemovePending(p, t) ELSE RemoveQueued(p, t)

\* Only an outofbound removal is counted as a stale entry of the heaps, and
\* only one that unreserves releases the account.
RemoveFromLookup(p, t, outofbound) ==
  IF outofbound THEN Removed([p EXCEPT !.all = @ \ {t}], 1)
  ELSE [p EXCEPT !.all = @ \ {t}]

Unreserve(p, a, unreserve) == IF unreserve THEN ReleaseIfGone(p, a) ELSE p

removeTx(p, t, outofbound, unreserve) ==
  IF t \notin p.all THEN p
  ELSE Unreserve(RemoveFromLists(RemoveFromLookup(p, t, outofbound), t), t.from, unreserve)

removeAll(p, txs) == FoldLeft(LAMBDA q, t : removeTx(q, t, TRUE, TRUE), p, txs)

-----------------------------------------------------------------------------
(* add: the transaction is validated, room is made for it, and it replaces *)
(* a pending transaction or goes to the queue.                             *)

\* ValidateTransactionWithState: nonce, balance, and the balance against all
\* that the account has pending.
Valid(p, t) ==
  LET mine == Of(p.pending, t.from)
      others == mine \ AtNonce(mine, t.nonce)
  IN /\ p.state.nonce[t.from] <= t.nonce
     /\ t.cost + Cost(others) <= p.state.balance[t.from]

isGapped(p, t) ==
  \E n \in p.nonces[t.from] .. (t.nonce - 1) : AtNonce(Of(p.queue, t.from), n) = {}

\* The transactions that leave pending when t is removed.
Churned(p, t) ==
  IF t \in p.all /\ AtNonce(Of(p.pending, t.from), t.nonce) # {}
  THEN Cardinality(AtNonce(Of(p.pending, t.from), t.nonce) \cup Above(Of(p.pending, t.from), t.nonce))
  ELSE 0

CountChanges(p, n) == [p EXCEPT !.changes = @ + n]

\* Mutant of Evict: the sender of the added transaction is released too.
EvictReleasing(p, from, t) ==
  CountChanges(removeTx(p, t, FALSE, TRUE), Churned(p, t))

Evict(p, from, t) ==
  CountChanges(removeTx(p, t, FALSE, t.from # from), Churned(p, t))

\* Mutant of Full: the new transaction is not counted.
FullWithoutNew(p, t) == Slots(p.all) > GlobalSlots + GlobalQueue

Full(p, t) == Slots(p.all) + t.slots > GlobalSlots + GlobalQueue

\* Mutant of PutBack: the discarded transactions stay out of the heaps.
LeaveOut(p, drop) == p

PutBack(p, drop) == FoldLeft(Put, p, drop)

\* A transaction with a nonce gap never evicts a pending one.
EvictDiscarded(d, t) ==
  IF d.need > 0 THEN [pool |-> d.pool, ok |-> FALSE]
  ELSE IF /\ isGapped(d.pool, t)
          /\ \E u \in ToSet(d.drop) : AtNonce(Of(d.pool.pending, u.from), u.nonce) # {}
  THEN [pool |-> PutBack(d.pool, d.drop), ok |-> FALSE]
  ELSE [pool |-> FoldLeft(LAMBDA r, u : Evict(r, t.from, u), d.pool, d.drop),
        ok |-> TRUE]

DiscardFor(underpriced, p, t) ==
  IF underpriced \/ p.changes > GlobalSlots \div 4
  THEN [pool |-> p, ok |-> FALSE]
  ELSE EvictDiscarded(Discard(p, Slots(p.all) - (GlobalSlots + GlobalQueue) + t.slots), t)

MakeRoom(p, t) ==
  LET u == Underpriced(p, t)
  IN IF Full(p, t) THEN DiscardFor(u.verdict, u.pool, t) ELSE [pool |-> p, ok |-> TRUE]

ReplacePending(p, t) ==
  LET old == AtNonce(Of(p.pending, t.from), t.nonce)
      q == [p EXCEPT !.pending = (@ \ old) \cup {t}]
  IN Beat(AddToAll(DropReplaced(q, old), t, TRUE), t.from)

\* The result of inserting a transaction that found room: the pool and what
\* became of it.
Insert(p, t) ==
  LET mine == Of(p.pending, t.from)
      queued == Of(p.queue, t.from)
  IN IF AtNonce(mine, t.nonce) # {}
     THEN IF Accepts(mine, t, PriceBump)
          THEN [pool |-> ReplacePending(p, t), res |-> "replacedPending"]
          ELSE [pool |-> p, res |-> "err"]
     ELSE IF ~Accepts(queued, t, PriceBump) THEN [pool |-> p, res |-> "err"]
     ELSE [pool |-> enqueueTx(p, t, TRUE),
           res |-> IF AtNonce(queued, t.nonce) = {} THEN "queued" ELSE "replacedQueued"]

\* A reservation made for a transaction that is not added is undone.
ReleaseOnError(r, t, fresh) ==
  IF r.res = "err" /\ fresh THEN [r EXCEPT !.pool.reserved = @ \ {t.from}] ELSE r

InsertIfRoom(room, t) ==
  IF room.ok THEN Insert(room.pool, t) ELSE [pool |-> room.pool, res |-> "err"]

\* Hold fails only for an address of another subpool, and there is none.
add(p, t) ==
  LET fresh == Of(p.pending \cup p.queue, t.from) = {}
      q == [p EXCEPT !.reserved = IF fresh THEN @ \cup {t.from} ELSE @]
  IN IF t \in p.all \/ ~Valid(p, t) THEN [pool |-> p, res |-> "err"]
     ELSE ReleaseOnError(InsertIfRoom(MakeRoom(q, t), t), t, fresh)

-----------------------------------------------------------------------------
(* The parts of a background run.  Go iterates over its maps in any order: *)
(* an order is a sequence of all accounts.                                 *)

CapQueue(p, a, gone) ==
  LET caps == Excess(Of(p.queue, a), AccountQueue)
  IN Removed([p EXCEPT !.queue = @ \ caps, !.all = @ \ caps],
             Cardinality(gone \cup caps))

DeleteIfEmpty(p, a) ==
  IF Of(p.queue, a) = {} THEN ReleaseIfGone(Forget(p, a), a) ELSE p

AfterPromotion(p, promoted, ready) ==
  [pool |-> p, promoted |-> promoted \cup (ready \cap p.pending)]

\* s is the pool and the transactions promoted so far.
PromoteAccount(s, a) ==
  LET p == s.pool
      list == Of(p.queue, a)
      olds == Below(list, p.state.nonce[a])
      gone == olds \cup Unpayable(list \ olds, p.state.balance[a])
      ready == ReadyFrom(list \ gone, p.nonces[a])
      q == [p EXCEPT !.queue = @ \ (gone \cup ready), !.all = @ \ gone]
  IN IF list = {} THEN s
     ELSE AfterPromotion(
            DeleteIfEmpty(CapQueue(FoldLeft(promoteTx, q, Ascending(ready)), a, gone), a),
            s.promoted, ready)

promoteExecutables(p, accounts) ==
  FoldLeft(PromoteAccount, [pool |-> p, promoted |-> {}], accounts)

DemoteAccount(p, a) ==
  LET list == Of(p.pending, a)
      nonce == p.state.nonce[a]
      olds == Below(list, nonce)
      drops == Unpayable(list \ olds, p.state.balance[a])
      invalids == Invalidated(list \ olds, drops)
      kept == list \ (olds \cup drops \cup invalids)
      gapped == IF AtNonce(kept, nonce) = {} THEN kept ELSE {}
      q == [p EXCEPT !.pending = (@ \ list) \cup (kept \ gapped),
                     !.all = @ \ (olds \cup drops)]
  IN IF list = {} THEN p ELSE ReleaseIfGone(Postpone(q, invalids \cup gapped), a)

demoteUnexecutables(p, accounts) == FoldLeft(DemoteAccount, p, accounts)

\* setAll: the nonce after the last pending one, or that of the state.
SetAllNonces(p) ==
  [p EXCEPT !.nonces = [a \in Accounts |->
     IF Of(p.pending, a) = {} THEN p.state.nonce[a]
     ELSE 1 + Max({t.nonce : t \in Of(p.pending, a)})]]

Length(p, a) == Cardinality(Of(p.pending, a))

\* Cap(Len - 1) on the pending list of an account.
DropLast(p, a) ==
  LET last == Excess(Of(p.pending, a), Length(p, a) - 1)
      n == Max({t.nonce : t \in last})
  IN Removed(LowerNonce([p EXCEPT !.pending = @ \ last, !.all = @ \ last], a, n), 1)

\* All the offenders lose a transaction a round until the pool is within its
\* limit or the last offender is down to the floor.
Equalize(p, offenders, floor) ==
  LET Round(q, i) == IF /\ Cardinality(q.pending) > GlobalSlots
                        /\ Length(q, Last(offenders)) > floor
                     THEN FoldLeft(DropLast, q, offenders) ELSE q
  IN IF offenders = <<>> THEN p
     ELSE FoldLeft(Round, p, [i \in 1 .. Cardinality(p.pending) |-> i])

truncatePending(p) ==
  LET spammers == SetToSortSeq({a \in Accounts : Length(p, a) > AccountSlots},
                               LAMBDA a, b : Length(p, a) > Length(p, b))
      Offend(s, a) ==
        IF Cardinality(s.pool.pending) <= GlobalSlots THEN s
        ELSE [pool |-> Equalize(s.pool, s.offenders, Length(s.pool, a)),
              offenders |-> Append(s.offenders, a)]
      s == FoldLeft(Offend, [pool |-> p, offenders |-> <<>>], spammers)
  IN Equalize(s.pool, s.offenders, AccountSlots)

\* The accounts with the oldest heartbeats lose their queues first.
truncateQueue(p) ==
  LET Shorten(s, a) ==
        LET list == Ascending(Of(s.pool.queue, a))
            txs == IF Len(list) <= s.drop THEN list
                   ELSE SubSeq(Reverse(list), 1, s.drop)
        IN [pool |-> removeAll(s.pool, txs), drop |-> s.drop - Len(txs)]
      over == Cardinality(p.queue) - GlobalQueue
  IN IF over <= 0 THEN p
     ELSE FoldLeft(Shorten, [pool |-> p, drop |-> over],
                   SelectSeq(p.beats, LAMBDA a : Of(p.queue, a) # {})).pool

\* resetInternalState: a reset to the zero header leaves the pool without a
\* state, any other one takes the state of the latest context.
ResetState(p, reset, latest) ==
  IF reset = "zero"
  THEN [p EXCEPT !.state = NilState, !.nonces = [a \in Accounts |-> 0]]
  ELSE [p EXCEPT !.state = latest, !.nonces = latest.nonce]

\* A sorted map of events keeps the last transaction put at a nonce.
PutEvents(events, S) ==
  S \cup {e \in events : \A t \in S : t.from # e.from \/ t.nonce # e.nonce}

\* Mutant of LiveEvents: an event at the next nonce counts as stale.
LaterEvents(r, nonces) ==
  {t \in r.events : r.reset = "none" \/ t.nonce > nonces[t.from]}

\* A reset discards the events it made stale.
LiveEvents(r, nonces) ==
  {t \in r.events : r.reset = "none" \/ t.nonce >= nonces[t.from]}

\* Mutant of ToPromote: a reset promotes the dirty accounts only.
DirtyOnly(r, order) == SelectSeq(order, LAMBDA a : a \in r.dirty)

\* A reset works on all accounts, a promotion on the dirty ones.
ToPromote(r, order) ==
  SelectSeq(order, LAMBDA a : r.reset # "none" \/ a \in r.dirty)

DemoteOnReset(p, r, order) ==
  IF r.reset = "none" THEN p
  ELSE SetAllNonces(Reheap(demoteUnexecutables(p, order)))

Truncate(p) == [truncateQueue(truncatePending(p)) EXCEPT !.changes = 0]

ReorgPromoted(prom, r, events, demoteOrder) ==
  [pool |-> Truncate(DemoteOnReset(prom.pool, r, demoteOrder)),
   events |-> PutEvents(events, prom.promoted)]

ReorgState(p, r, promoteOrder, demoteOrder) ==
  ReorgPromoted(promoteExecutables(p, ToPromote(r, promoteOrder)), r,
                LiveEvents(r, p.nonces), demoteOrder)

\* The part of runReorg under the mutex: the pool, and the transactions to
\* announce.
Reorg(p, r, latest, promoteOrder, demoteOrder) ==
  ReorgState(IF r.reset = "none" THEN p ELSE ResetState(p, r.reset, latest),
             r, promoteOrder, demoteOrder)

-----------------------------------------------------------------------------
(* The pool's steps.                                                       *)

Idle == [phase |-> "idle", reset |-> "none", dirty |-> {}, events |-> {}]

NoRequest == [launch |-> FALSE, reset |-> "none", dirty |-> {}, events |-> {}]

EmptyPool(state) ==
  [state |-> state,
   nonces |-> IF state = NilState THEN [a \in Accounts |-> 0] ELSE state.nonce,
   pending |-> {}, queue |-> {}, all |-> {}, beats |-> <<>>, reserved |-> {},
   urgent |-> EmptyBag, floating |-> EmptyBag, stales |-> 0, changes |-> 0]

PoolInit(state) ==
  /\ pool = EmptyPool(state)
  /\ run = Idle
  /\ next = NoRequest
  /\ announced = {} /\ unsent = {}

SetPool(p) ==
  /\ pool' = p
  /\ announced' = announced \cap p.all
  /\ unsent' = unsent \cap p.all

\* Add, up to the release of the mutex.  The zero header has no gas limit, so
\* ValidateTxBasics lets nothing through before the first real one.
addTxsLocked(t, res) ==
  /\ pool.state # NilState
  /\ \E r \in {add(pool, t)} : res = r.res /\ SetPool(r.pool)
  /\ next' = IF res = "replacedPending"
             THEN [next EXCEPT !.events = PutEvents(@, {t})] ELSE next
  /\ UNCHANGED run

requestPromoteExecutables(dirty) ==
  /\ next' = [next EXCEPT !.launch = TRUE, !.dirty = @ \cup dirty]
  /\ UNCHANGED <<pool, run, announced, unsent>>

requestReset(head) ==
  /\ next' = [next EXCEPT !.launch = TRUE, !.reset = head]
  /\ UNCHANGED <<pool, run, announced, unsent>>

\* scheduleReorgLoop starts the gathered run once the previous one is done.
LaunchRun ==
  /\ run = Idle /\ next.launch
  /\ run' = [phase |-> "launched", reset |-> next.reset, dirty |-> next.dirty,
             events |-> next.events]
  /\ next' = NoRequest
  /\ UNCHANGED <<pool, announced, unsent>>

runReorg(latest) ==
  /\ run.phase = "launched"
  /\ \E promoteOrder, demoteOrder \in SetToSeqs(Accounts) :
       \E r \in {Reorg(pool, run, latest, promoteOrder, demoteOrder)} :
         /\ SetPool(r.pool)
         /\ run' = [run EXCEPT !.phase = "announce", !.events = r.events]
  /\ UNCHANGED next

\* What a broadcast of the transactions E has sent when it stops at t: the
\* accounts come in any order, and the transactions of each by nonce.
SentBefore(E, t) ==
  {Below(Of(E, t.from), t.nonce) \cup {u \in E : u.from \in done} :
     done \in SUBSET (Senders(E) \ {t.from})}

\* What it may send.  It returns at the first transaction that fails, and
\* sends none of those after it.
broadcastEVMTransactions(E) == {E} \cup UNION {SentBefore(E, t) : t \in E}

\* The broadcast is outside the mutex.  An error of it is only logged.
Announce(sent) ==
  /\ run.phase = "announce"
  /\ announced' = (announced \cup sent) \cap pool.all
  /\ unsent' = ((unsent \cup run.events) \ announced') \cap pool.all
  /\ run' = Idle
  /\ UNCHANGED <<pool, next>>

RemoveTx(t) ==
  /\ t \in pool.all
  /\ SetPool(removeTx(pool, t, FALSE, TRUE))
  /\ UNCHANGED <<run, next>>

\* The eviction tick removes the queues whose heartbeat is older than the
\* lifetime: those up to some position in the order of heartbeats.
EvictOld ==
  /\ \E i \in DOMAIN pool.beats :
       \E order \in SetToSeqs(ToSet(SubSeq(pool.beats, 1, i)) \cap Senders(pool.queue)) :
         /\ order # <<>>
         /\ SetPool(FoldLeft(LAMBDA p, a : removeAll(p, Ascending(Of(p.queue, a))),
                             pool, order))
  /\ UNCHANGED <<run, next>>
=============================================================================
