------------------------------ MODULE NonceList ------------------------------
(***************************************************************************)
(* What a transaction list of mempool/txpool/legacypool/list.go promises   *)
(* to the pool.  A list is the set of its transactions, records with a     *)
(* nonce, a price and a cost, with at most one transaction per nonce; each *)
(* operation is the set of transactions it takes out.                      *)
(***************************************************************************)
EXTENDS Integers, FiniteSets

\* The transaction with nonce n, as a set: empty or a singleton.
AtNonce(S, n) == {t \in S : t.nonce = n}

\* Forward(n): the transactions below the threshold.
Below(S, n) == {t \in S : t.nonce < n}

\* Remove of a strict list invalidates what comes after the removed nonce.
Above(S, n) == {t \in S : t.nonce > n}

\* Filter: the transactions the balance does not cover, and those that need
\* more gas than a block has.
Unpayable(S, costLimit) == {t \in S : t.cost > costLimit}
OutOfGas(S, gasLimit) == {t \in S : t.gas > gasLimit}

\* Filter of a strict list invalidates what comes after the first one removed.
Invalidated(S, removed) ==
  {t \in S \ removed : \E r \in removed : r.nonce < t.nonce}

\* Ready(start): the gapless run from the lowest nonce, if that is not beyond
\* start.
ReadyFrom(S, start) ==
  {t \in S : /\ \E u \in S : u.nonce <= start
             /\ \A u \in S : \A n \in u.nonce .. t.nonce : AtNonce(S, n) # {}}

\* Cap(k): all but the k lowest nonces.
Excess(S, k) == {t \in S : Cardinality(Below(S, t.nonce)) >= k}

\* A replacement has to raise the price, and by at least bump percent.
Outbids(t, old, bump) ==
  /\ t.price > old.price
  /\ t.price >= (old.price * (100 + bump)) \div 100

\* Add(t): accepted unless an older transaction with its nonce is not outbid.
Accepts(S, t, bump) == \A old \in AtNonce(S, t.nonce) : Outbids(t, old, bump)
=============================================================================
