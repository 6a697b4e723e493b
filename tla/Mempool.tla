------------------------------- MODULE Mempool -------------------------------
(***************************************************************************)
(* The EVM side of the application mempool: the pool of LegacyPool behind  *)
(* mempool/mempool.go, the chain as mempool/blockchain.go shows it, and    *)
(* the loop of mempool/txpool/txpool.go that turns chain heads into resets *)
(* of the pool.                                                            *)
(*                                                                         *)
(* Blocks are announced by EndBlock, before they are committed, until the  *)
(* mempool gets CometBFT's event bus, and by its header events afterwards. *)
(* The mempool is built before the application loads its state, so its     *)
(* first header is the zero header whatever the height of the chain is.    *)
(***************************************************************************)
EXTENDS LegacyPool

CONSTANTS
  Balances,  \* balances of an account
  Loads      \* workloads: the transactions sent, the height of the chain at
             \* the start, and bounds on the blocks committed after that, on
             \* the callers between their insertion and their request for a
             \* promotion, and on the transactions that Remove removes;
             \* and whether broadcasts fail

ASSUME MempoolAssumption ==
  /\ Balances \subseteq Nat
  /\ Loads \subseteq [txs : SUBSET Txs, height : Nat, blocks : Nat,
                     callers : Nat, removals : Nat, failures : BOOLEAN]

VARIABLES
  load,      \* the workload of this behaviour
  chain,     \* the committed state: height, and nonce and balance by account
  blocks,    \* blocks committed since the start
  bus,       \* the event bus is set
  unseen,    \* header events not yet received
  notifier,  \* where NotifyNewBlock, or the EndBlock that called it, stands
  ctx,       \* Blockchain.latestCtx: a committed state or NoContext
  prev,      \* previousHeaderHash is set
  heads,     \* the heads of TxPool.loop: 0 is the zero header
  callers,   \* bag of dirty accounts that callers of Add have yet to request
  removals   \* transactions removed by Remove so far

chainVars == <<load, chain, blocks, bus, unseen, notifier, ctx, prev>>
vars == <<poolVars, chainVars, heads, callers, removals>>

NoContext == NilState

MaxNonce == Max({t.nonce : t \in load.txs})

Init ==
  /\ load \in Loads
  /\ chain = [height |-> load.height, nonce |-> [a \in Accounts |-> 0],
              balance |-> [a \in Accounts |-> Max(Balances)]]
  /\ blocks = 0
  /\ bus = FALSE /\ unseen = 0 /\ notifier = "open"
  /\ ctx = NoContext /\ prev = FALSE
  /\ heads = [old |-> 0, new |-> 0, sent |-> 0, busy |-> FALSE, target |-> 0]
  /\ callers = EmptyBag /\ removals = 0
  /\ PoolInit(NilState)

-----------------------------------------------------------------------------
(* The chain and its notifications.                                        *)

SetEventBus ==
  /\ ~bus /\ notifier = "open"
  /\ bus' = TRUE
  /\ UNCHANGED <<poolVars, load, chain, blocks, unseen, notifier, ctx, prev, heads, callers, removals>>

\* A block executes transactions of at most one account, some of which the
\* pool may not have seen, and pays to or from its balance.  Before the pool
\* has its first header, and looks at the state, blocks are empty.
NextStates ==
  {chain} \cup
  {[chain EXCEPT !.nonce[a] = n, !.balance[a] = b] :
     a \in {t.from : t \in {u \in load.txs : heads.new # 0}}, n \in 0 .. MaxNonce + 1, b \in Balances}

\* Of the height, only 0, 1 and more are told apart.
Commit ==
  /\ blocks < load.blocks
  /\ IF bus THEN unseen' = unseen + 1 /\ UNCHANGED notifier
     ELSE notifier = "commit" /\ notifier' = "open" /\ UNCHANGED unseen
  /\ \E c \in NextStates :
       /\ \A a \in Accounts : c.nonce[a] >= chain.nonce[a]
       /\ chain' = [c EXCEPT !.height = IF @ < 2 THEN @ + 1 ELSE @]
  /\ blocks' = blocks + 1
  /\ UNCHANGED <<poolVars, load, bus, ctx, prev, heads, callers, removals>>

\* The first half of NotifyNewBlock, called by EndBlock while there is no
\* event bus and for each header event afterwards.  There is no context
\* before the first commit.
SetLatestContext ==
  /\ notifier = "open"
  /\ IF bus THEN unseen > 0 /\ unseen' = unseen - 1
     ELSE blocks < load.blocks /\ UNCHANGED unseen
  /\ ctx' = IF chain.height = 0 THEN NoContext ELSE chain
  /\ notifier' = "send"
  /\ UNCHANGED <<poolVars, load, chain, blocks, bus, prev, heads, callers, removals>>

\* CurrentBlock gives the zero header without a context, and for the first
\* block after a restart.
IsZeroHeader == ctx = NoContext \/ (ctx.height > 1 /\ ~prev)

\* The second half: the header goes to TxPool.loop, which always receives it.
SendHead ==
  /\ notifier = "send"
  /\ heads' = IF IsZeroHeader THEN [heads EXCEPT !.new = 0]
              ELSE [heads EXCEPT !.sent = @ + 1, !.new = heads.sent + 1]
  /\ prev' = TRUE
  /\ notifier' = IF bus THEN "open" ELSE "commit"
  /\ UNCHANGED <<poolVars, load, chain, blocks, bus, unseen, ctx, callers, removals>>

\* TxPool.loop starts a reset when the head moved and none is running.
StartReset ==
  /\ heads.new # heads.old /\ ~heads.busy
  /\ heads' = [heads EXCEPT !.busy = TRUE, !.target = heads.new]
  /\ requestReset(IF heads.new = 0 THEN "zero" ELSE "real")
  /\ UNCHANGED <<chainVars, callers, removals>>

-----------------------------------------------------------------------------
(* Callers of the mempool, and the background goroutines of the pool.      *)

\* Insert and InsertInvalidNonce: the transaction is added under the pool's
\* mutex, and the promotion is requested after its release.  A transaction
\* that is known when the mutex is taken was not known to the check before it.
InsertTx(t) ==
  /\ BagCardinality(callers) < load.callers
  /\ \E res \in {"queued", "replacedQueued", "replacedPending", "err"} :
       /\ addTxsLocked(t, res)
       /\ callers' = BagAdd(callers, IF res = "queued" THEN {t.from} ELSE {})
  /\ UNCHANGED <<chainVars, heads, removals>>

RequestPromotion ==
  /\ \E dirty \in BagToSet(callers) :
       /\ requestPromoteExecutables(dirty)
       /\ callers' = BagRemove(callers, dirty)
  /\ UNCHANGED <<chainVars, heads, removals>>

\* Remove, for a transaction that the ante handler rejects for another reason
\* than its nonce.
RemoveInvalid(t) ==
  /\ ctx # NoContext /\ removals < load.removals
  /\ RemoveTx(t)
  /\ removals' = removals + 1
  /\ UNCHANGED <<chainVars, heads, callers>>

StartRun ==
  /\ LaunchRun
  /\ UNCHANGED <<chainVars, heads, callers, removals>>

EvictQueues ==
  /\ EvictOld
  /\ UNCHANGED <<chainVars, heads, callers, removals>>

RunReorg ==
  /\ runReorg(IF ctx = NoContext THEN chain ELSE ctx)
  /\ UNCHANGED <<chainVars, heads, callers, removals>>

\* Mutant of EndReset: the reset counts for the newest head.
EndResetAtNewest(h) == [h EXCEPT !.old = h.new, !.busy = FALSE]

\* TxPool.loop takes the head that was reset to as the old one.
EndReset(h) == [h EXCEPT !.old = h.target, !.busy = FALSE]

\* A broadcast fails when CheckTx rejects a transaction, or CometBFT does.
Broadcasts ==
  IF load.failures THEN broadcastEVMTransactions(run.events) ELSE {run.events}

FinishRun ==
  /\ \E sent \in Broadcasts : Announce(sent)
  /\ heads' = IF run.reset = "none" THEN heads ELSE EndReset(heads)
  /\ UNCHANGED <<chainVars, callers, removals>>

Next ==
  \/ SetEventBus \/ Commit \/ SetLatestContext \/ SendHead \/ StartReset
  \/ \E t \in load.txs : InsertTx(t) \/ RemoveInvalid(t)
  \/ RequestPromotion \/ StartRun \/ EvictQueues \/ RunReorg \/ FinishRun

\* The goroutines of the node are scheduled; nobody has to send transactions
\* or to produce blocks.  A launched run can always do its locked part, so
\* the last conjunct is the weak fairness of RunReorg.
Fairness ==
  /\ WF_vars(SetLatestContext) /\ WF_vars(SendHead)
  /\ WF_vars(StartReset) /\ WF_vars(RequestPromotion)
  /\ WF_vars(StartRun)
  /\ WF_vars(FinishRun)
  /\ []<>(run.phase # "launched")

Spec == Init /\ [][Next]_vars /\ Fairness
-----------------------------------------------------------------------------
(* Properties.                                                             *)

States ==
  [height : Nat, nonce : [Accounts -> Nat], balance : [Accounts -> Balances]]

\* The pool and the chain keep the types of their fields.
TypeOK ==
  /\ {chain} \subseteq States /\ {ctx, pool.state} \subseteq States \cup {NilState}
  /\ pool.nonces \in [Accounts -> Nat]
  /\ pool.pending \cup pool.queue \cup pool.all \subseteq Txs
  /\ pool.reserved \cup ToSet(pool.beats) \subseteq Accounts
  /\ BagToSet(pool.urgent) \cup BagToSet(pool.floating) \subseteq Txs
  /\ pool.changes \in Nat /\ pool.stales \in Int
  /\ run.phase \in {"idle", "launched", "announce"}

\* The lookup and the lists hold the same transactions, and an account has
\* one transaction per nonce over both lists (removeTx and the cost of a list
\* look transactions up by nonce alone).
ListsMatchLookup ==
  /\ pool.all = pool.pending \cup pool.queue
  /\ pool.pending \cap pool.queue = {}
  /\ \A t, u \in pool.all : t.from = u.from /\ t.nonce = u.nonce => t = u

\* Between two steps under the mutex, the pending transactions of an account
\* are executable one after the other from the nonce of the pool's state on,
\* and the virtual nonce of the account is the one after them.
PendingExecutable ==
  pool.state # NilState =>
    \A a \in Accounts :
      {t.nonce : t \in Of(pool.pending, a)} =
        pool.state.nonce[a] .. pool.nonces[a] - 1

\* An account is reserved exactly as long as the pool has a transaction of
\* it, on every path of add, removeTx, promoteExecutables and
\* demoteUnexecutables.  Hold and Release of an address the pool already has,
\* or no longer has, are only logged: a reservation that is left over keeps
\* the account from every other subpool for good, and one that is missing
\* lets another subpool take the account while this one has transactions.
ReservedExactly == pool.reserved = Senders(pool.all)

\* Each account with a queue has a heartbeat; without one, the next eviction
\* tick and the next truncation take the queue for the oldest.
QueuesHaveHeartbeat == Senders(pool.queue) \subseteq ToSet(pool.beats)

\* Each pooled transaction has an entry in a price heap, or it could never be
\* discarded from a full pool.
PricedCoversAll ==
  pool.all \subseteq BagToSet(pool.urgent) \cup BagToSet(pool.floating)

\* The pool never holds more slots than its two limits together.
PoolWithinLimit == Slots(pool.all) <= GlobalSlots + GlobalQueue

\* No run is active or asked for, and no caller is about to ask.
Quiet == run = Idle /\ ~next.launch /\ callers = EmptyBag

\* When the pool is quiet, each pending transaction has been handed to a
\* broadcast since it entered the pool, be it promoted or the replacement of
\* a pending one; and it was sent, unless the broadcast failed at it or at one
\* before it.  What a failed broadcast leaves out is not sent again before a
\* demotion and a promotion: runReorg only logs the error.
PendingAnnounced == Quiet => pool.pending \subseteq announced \cup unsent

\* When the pool is quiet, no transaction that the next block could execute
\* is left in a queue.
NextNotLeftQueued ==
  Quiet /\ pool.state # NilState =>
    \A t \in pool.queue : t.nonce # pool.state.nonce[t.from]

\* Whatever heads arrive while a reset is running, the pool ends up with the
\* state of the last context it was notified of.
CatchesUp == <>[](heads.new # 0 => pool.state = ctx)
=============================================================================
