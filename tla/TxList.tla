------------------------------- MODULE TxList -------------------------------
(***************************************************************************)
(* The transaction list of mempool/txpool/legacypool/list.go: a map from   *)
(* nonces to transactions, a heap of the nonces, a cache of the sorted     *)
(* transactions, the running total of the costs and the two caps that let  *)
(* Filter return early.                                                    *)
(*                                                                         *)
(* Nonces are counted from 1.  The heap is a set of nonces, of which the   *)
(* code only reads the least.                                              *)
(***************************************************************************)
EXTENDS NonceList, Sequences, FunctionSums

CONSTANTS
  Txs,        \* transactions of one account: [nonce, price, cost, gas]
  MaxNonce,   \* bound: the nonces are 1..MaxNonce
  PriceBump,  \* percent that a replacement has to add
  Limits,     \* nonces, costs, gas limits and lengths that callers pass
  NoTx,       \* the entry of a nonce without a transaction
  NoCache     \* the nil cache

Nonces == 1 .. MaxNonce

ASSUME TxListAssumption ==
  /\ MaxNonce \in Nat /\ PriceBump \in Nat /\ Limits \subseteq Nat
  /\ Txs \subseteq [nonce : Nonces, price : Nat, cost : Nat, gas : Nat]
  /\ NoTx \notin Txs

VARIABLES
  strict,     \* the list has no gaps: a pending list
  items,      \* transaction by nonce
  index,      \* the heap of nonces
  cache,      \* NoCache or the transactions sorted by nonce
  totalcost,  \* the costs of all transactions
  costcap,    \* no transaction costs more
  gascap,     \* no transaction needs more gas
  call,       \* the last operation and its argument
  out         \* what it returned

vars == <<strict, items, index, cache, totalcost, costcap, gascap, call, out>>

Out(gone, invalid) == [gone |-> gone, invalid |-> invalid]

Keys == {n \in Nonces : items[n] # NoTx}

Content == {t \in Txs : items[t.nonce] = t}

Init ==
  /\ strict \in BOOLEAN
  /\ items = [n \in Nonces |-> NoTx]
  /\ index = {} /\ cache = NoCache
  /\ totalcost = 0 /\ costcap = 0 /\ gascap = 0
  /\ call = <<"newList", {}>> /\ out = Out({}, {})

-----------------------------------------------------------------------------
(* Helpers: the transactions of a set of nonces, deleting them, and        *)
(* subTotalCost, which panics below zero.                                  *)

At(N) == {t \in Txs : t.nonce \in N /\ items[t.nonce] = t}

Deleted(N) == [n \in Nonces |-> IF n \in N THEN NoTx ELSE items[n]]

CostAt(f, n) == IF f[n] = NoTx THEN 0 ELSE f[n].cost

Total(f) == SumTo([n \in Nonces |-> CostAt(f, n)], MaxNonce)

SubTotalCost(N) ==
  totalcost - SumTo([n \in Nonces |-> IF n \in N THEN CostAt(items, n) ELSE 0],
                    MaxNonce)

\* Mutant: the cost of a replaced transaction stays in the total.
KeepOldCost(old) == totalcost

\* The total when a transaction makes way for its replacement.
LessOldCost(old) == IF old = NoTx THEN totalcost ELSE totalcost - old.cost

\* The rank of a nonce in the sorted index.
Rank(n) == Cardinality({m \in index : m < n})

\* Forward and Cap keep the cache and cut as many transactions off it as they
\* removed.
CutFront(N) ==
  IF cache = NoCache THEN NoCache
  ELSE SubSeq(cache, Cardinality(N) + 1, Len(cache))

\* Mutant: Cap leaves the cache alone.
KeepCache(N) == cache

CutBack(N) ==
  IF cache = NoCache THEN NoCache
  ELSE SubSeq(cache, 1, Len(cache) - Cardinality(N))

NoChange ==
  /\ out' = Out({}, {})
  /\ UNCHANGED <<strict, items, index, cache, totalcost, costcap, gascap>>

-----------------------------------------------------------------------------
(* The operations.                                                         *)

Add(t) ==
  LET old == items[t.nonce]
  IN IF old # NoTx /\ ~Outbids(t, old, PriceBump) THEN NoChange
     ELSE /\ totalcost' = LessOldCost(old) + t.cost
          /\ items' = [items EXCEPT ![t.nonce] = t]
          /\ index' = IF old = NoTx THEN index \cup {t.nonce} ELSE index
          /\ cache' = NoCache
          /\ costcap' = IF costcap < t.cost THEN t.cost ELSE costcap
          /\ gascap' = IF gascap < t.gas THEN t.gas ELSE gascap
          /\ out' = Out(IF old = NoTx THEN {} ELSE {old}, {})
          /\ UNCHANGED strict

Forward(threshold) ==
  LET removed == {n \in index : n < threshold}
  IN /\ index' = index \ removed
     /\ items' = Deleted(removed)
     /\ cache' = CutFront(removed)
     /\ totalcost' = SubTotalCost(removed)
     /\ out' = Out(At(removed), {})
     /\ UNCHANGED <<strict, costcap, gascap>>

\* The nonces that Filter takes out for their costs or their gas.
Unaffordable(c, g) ==
  {n \in Keys : items[n].cost > c \/ items[n].gas > g}

\* Mutant: one of the caps is taken to be enough.
WithinEitherCap(c, g) == costcap <= c \/ gascap <= g

\* Nothing can be above the limits if the caps are not.
WithinCaps(c, g) == costcap <= c /\ gascap <= g

\* The caps go down to the limits even if no transaction has to go.
FilterOut(c, g) ==
  LET removed == Unaffordable(c, g)
      invalids == IF strict
                  THEN {n \in Keys \ removed : \E m \in removed : m < n} ELSE {}
  IN /\ costcap' = c /\ gascap' = g
     /\ IF removed = {}
        THEN out' = Out({}, {}) /\ UNCHANGED <<items, index, cache, totalcost>>
        ELSE /\ items' = Deleted(removed \cup invalids)
             /\ index' = Keys \ (removed \cup invalids)
             /\ cache' = NoCache
             /\ totalcost' = SubTotalCost(removed \cup invalids)
             /\ out' = Out(At(removed), At(invalids))
     /\ UNCHANGED strict

Filter(c, g) == IF WithinCaps(c, g) THEN NoChange ELSE FilterOut(c, g)

Cap(threshold) ==
  LET size == Cardinality(Keys)
      drops == {n \in index : Rank(n) >= threshold /\ Rank(n) < size}
  IN IF size <= threshold THEN NoChange
     ELSE /\ items' = Deleted(drops)
          /\ index' = {n \in index : Rank(n) < threshold}
          /\ cache' = CutBack(drops)
          /\ totalcost' = SubTotalCost(drops)
          /\ out' = Out(At(drops), {})
          /\ UNCHANGED <<strict, costcap, gascap>>

\* The pool removes by nonce and passes a transaction that, if its nonce is
\* taken, is the one in the list.
Remove(t) ==
  LET invalids == IF strict THEN {n \in Keys : n > t.nonce} ELSE {}
  IN /\ items[t.nonce] \in {t, NoTx}
     /\ IF items[t.nonce] = NoTx THEN NoChange
        ELSE /\ items' = Deleted({t.nonce} \cup invalids)
             /\ index' = IF invalids = {} THEN index \ {t.nonce}
                         ELSE Keys \ ({t.nonce} \cup invalids)
             /\ cache' = NoCache
             /\ totalcost' = SubTotalCost(invalids) - t.cost
             /\ out' = Out({t}, At(invalids))
             /\ UNCHANGED <<strict, costcap, gascap>>

\* The run is read off the heap: every nonce from its head on.
Ready(start) ==
  LET ready == {n \in index : \A m \in index : m .. n \subseteq index}
  IN IF ~ \E n \in index : n <= start THEN NoChange
     ELSE /\ items' = Deleted(ready)
          /\ index' = index \ ready
          /\ cache' = NoCache
          /\ totalcost' = SubTotalCost(ready)
          /\ out' = Out(At(ready), {})
          /\ UNCHANGED <<strict, costcap, gascap>>

\* The sequence of the transactions in the order of their nonces.
Sorted == [i \in 1 .. Cardinality(Keys) |->
             items[CHOOSE n \in Keys : Cardinality({m \in Keys : m < n}) = i - 1]]

Flatten ==
  /\ cache' = IF cache = NoCache THEN Sorted ELSE cache
  /\ out' = Out({}, {})
  /\ UNCHANGED <<strict, items, index, totalcost, costcap, gascap>>

Called(op, arg) == call' = <<op, arg>>

Next ==
  \/ \E t \in Txs : \/ Add(t) /\ Called("Add", t)
                    \/ Remove(t) /\ Called("Remove", t)
  \/ \E n \in Limits : \/ Forward(n) /\ Called("Forward", n)
                       \/ Cap(n) /\ Called("Cap", n)
                       \/ Ready(n) /\ Called("Ready", n)
  \/ \E c, g \in Limits : Filter(c, g) /\ Called("Filter", <<c, g>>)
  \/ Flatten /\ Called("Flatten", {})

Spec == Init /\ [][Next]_vars

-----------------------------------------------------------------------------
(* Properties.                                                             *)

\* The heap has exactly the nonces of the map, and each entry is under its
\* own nonce.
IndexMatchesItems ==
  /\ items \in [Nonces -> Txs \cup {NoTx}]
  /\ \A n \in Keys : items[n].nonce = n
  /\ index = Keys

\* The running total is the cost of the transactions in the list, so that
\* subTotalCost never panics.
TotalExact == totalcost = Total(items)

\* The caps bound every transaction: Filter may return early on them.
CapsBound ==
  /\ costcap \in Nat /\ gascap \in Nat
  /\ \A n \in Keys : items[n].cost <= costcap /\ items[n].gas <= gascap

\* Whatever the calls before, the derived state of a list (heap, running total
\* and caps) agrees with its map: subTotalCost never panics, and an early
\* return of Filter never leaves a transaction that should go.
ListConsistent ==
  strict \in BOOLEAN /\ IndexMatchesItems /\ TotalExact /\ CapsBound

\* A cache that was cut at its ends, and never rebuilt, is still the list of
\* all transactions in the order of their nonces.
CacheSorted == cache = NoCache \/ cache = Sorted

\* The list implements the set of transactions that the pool takes it for.
List == INSTANCE AccountList WITH list <- Content

ImplementsAccountList == List!Spec
=============================================================================
