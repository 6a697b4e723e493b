----------------------------- MODULE MCMempool -----------------------------
EXTENDS Mempool

Transfer(from, nonce, price, cost) ==
  [from |-> from, nonce |-> nonce, price |-> price, cost |-> cost, slots |-> 1]

a0 == Transfer("a", 0, 2, 2)
a1 == Transfer("a", 1, 4, 1)
a2 == Transfer("a", 2, 3, 1)
b0 == Transfer("b", 0, 3, 1)
b1 == Transfer("b", 1, 5, 1)
a0bumped == Transfer("a", 0, 6, 1)

MCTxs == {a0, a1, a2, a0bumped, b0, b1}

Load(txs, h, bs, cs, rs) ==
  [txs |-> txs, height |-> h, blocks |-> bs, callers |-> cs, removals |-> rs,
   failures |-> FALSE]

\* Six transactions of two accounts against a pool of three.
Traffic == Load(MCTxs, 0, 1, 1, 0)

\* Two callers at a time, and a transaction that is removed.
Races == Load({a0, a1, b0}, 0, 1, 2, 1)

\* A block that changes an account under the pool.
Blocks == Load({a0, a1, a2, a0bumped}, 0, 2, 1, 0)

\* A node that restarts, and two such blocks.
Restart == Load({a0, a1}, 2, 3, 1, 0)

\* Broadcasts that stop at a transaction, with two accounts in a batch.
Failures == [Load({a0, a1, b0}, 0, 1, 2, 0) EXCEPT !.failures = TRUE]

MCLoads == {Traffic, Races, Blocks, Restart, Failures}
=============================================================================
