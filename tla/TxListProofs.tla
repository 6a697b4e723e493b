---------------------------- MODULE TxListProofs ----------------------------
(***************************************************************************)
(* Proofs that the derived state of a transaction list always agrees with  *)
(* its map, and that the list implements AccountList, for every set of     *)
(* transactions and every limit its callers pass.                          *)
(***************************************************************************)
EXTENDS TxList, SumProofs, FiniteSetTheorems, TLAPS

-----------------------------------------------------------------------------
(* The map and the set of its transactions.                                *)

\* Each key holds a transaction of the content, under its own nonce.
LEMMA KeysAndContent ==
    ASSUME IndexMatchesItems
    PROVE  /\ \A n \in Keys : n \in Nonces /\ items[n] \in Content /\ items[n].nonce = n
           /\ \A t \in Content : t \in Txs /\ t.nonce \in Keys /\ items[t.nonce] = t
           /\ \A t \in Txs : t.nonce \in Nonces
           /\ \A t \in Txs : t.cost \in Nat /\ t.gas \in Nat /\ t.price \in Nat
  <1>1. \A t \in Txs : /\ t.nonce \in Nonces /\ t # NoTx
                       /\ t.cost \in Nat /\ t.gas \in Nat /\ t.price \in Nat
    BY TxListAssumption
  <1> QED
    BY <1>1 DEF IndexMatchesItems, Keys, Content

\* Deleting nonces from the map takes their transactions out of the list.
LEMMA DeletedFacts ==
    ASSUME IndexMatchesItems, NEW N \in SUBSET Nonces, items' = Deleted(N)
    PROVE  /\ items' \in [Nonces -> Txs \cup {NoTx}]
           /\ Keys' = Keys \ N
           /\ \A n \in Keys' : items'[n] = items[n]
           /\ Content' = Content \ At(N)
  <1>1. \A n \in Nonces : items'[n] = IF n \in N THEN NoTx ELSE items[n]
    BY DEF Deleted
  <1>2. items' \in [Nonces -> Txs \cup {NoTx}]
    BY DEF Deleted, IndexMatchesItems
  <1>3. Keys' = Keys \ N /\ \A n \in Keys' : items'[n] = items[n]
    BY <1>1 DEF Keys
  <1>4. \A t \in Txs : t.nonce \in Nonces /\ t # NoTx
    BY TxListAssumption
  <1>5. \A t \in Txs : items'[t.nonce] = t <=> items[t.nonce] = t /\ t.nonce \notin N
    BY <1>1, <1>4
  <1>6. Content' = Content \ At(N)
    BY <1>5 DEF Content, At
  <1> QED
    BY <1>2, <1>3, <1>6

\* The costs are natural numbers, so that sums of them are.
LEMMA CostType ==
    ASSUME IndexMatchesItems, NEW n \in Nonces
    PROVE  CostAt(items, n) \in Nat
  BY TxListAssumption DEF IndexMatchesItems, CostAt

\* subTotalCost leaves the total of what is left.
LEMMA SubTotalCostExact ==
    ASSUME IndexMatchesItems, TotalExact, NEW N \in SUBSET Nonces, items' = Deleted(N)
    PROVE  SubTotalCost(N) = Total(items')
  <1> DEFINE f == [n \in Nonces |-> IF n \in N THEN CostAt(items, n) ELSE 0]
             g == [n \in Nonces |-> CostAt(items', n)]
             h == [n \in Nonces |-> CostAt(items, n)]
  <1>1. \A n \in 1 .. MaxNonce : CostAt(items, n) \in Int
    BY CostType DEF Nonces
  <1>2. \A n \in Nonces : CostAt(items', n) = IF n \in N THEN 0 ELSE CostAt(items, n)
    BY DEF Deleted, CostAt
  <1>3. \A n \in 1 .. MaxNonce : f[n] \in Int /\ g[n] \in Int /\ h[n] \in Int
    BY <1>1, <1>2 DEF Nonces
  <1>4. \A n \in 1 .. MaxNonce : h[n] = f[n] * 1 + g[n]
    BY <1>1, <1>2 DEF Nonces
  <1> HIDE DEF f, g, h
  <1>5. MaxNonce \in Nat /\ 1 \in Int
    BY TxListAssumption
  <1>6. SumTo(h, MaxNonce) = SumTo(f, MaxNonce) * 1 + SumTo(g, MaxNonce)
    BY <1>3, <1>4, <1>5, SumLinear
  <1>7. SumTo(f, MaxNonce) \in Int /\ SumTo(g, MaxNonce) \in Int
    BY <1>3, <1>5, SumType
  <1>8. SubTotalCost(N) = totalcost - SumTo(f, MaxNonce)
    BY DEF SubTotalCost, f
  <1>9. totalcost = SumTo(h, MaxNonce) /\ Total(items') = SumTo(g, MaxNonce)
    BY DEF TotalExact, Total, g, h
  <1> QED
    BY <1>6, <1>7, <1>8, <1>9

\* What every removing operation does to the map, the heap and the total,
\* given the nonces it removes.
LEMMA RemovalFacts ==
    ASSUME IndexMatchesItems, TotalExact, NEW N \in SUBSET Nonces,
           items' = Deleted(N), index' = Keys \ N, totalcost' = SubTotalCost(N)
    PROVE  /\ IndexMatchesItems' /\ TotalExact'
           /\ Keys' = Keys \ N
           /\ \A n \in Keys' : items'[n] = items[n]
           /\ Content' = Content \ At(N)
  <1>1. /\ items' \in [Nonces -> Txs \cup {NoTx}]
        /\ Keys' = Keys \ N
        /\ \A n \in Keys' : items'[n] = items[n]
        /\ Content' = Content \ At(N)
    BY DeletedFacts
  <1>2. IndexMatchesItems'
    BY <1>1 DEF IndexMatchesItems
  <1>3. TotalExact'
    BY SubTotalCostExact DEF TotalExact
  <1> QED
    BY <1>1, <1>2, <1>3

\* Removals that leave the caps alone keep the list consistent.
LEMMA RemovalConsistent ==
    ASSUME ListConsistent, NEW N \in SUBSET Nonces,
           items' = Deleted(N), index' = Keys \ N, totalcost' = SubTotalCost(N),
           strict' = strict, costcap' = costcap, gascap' = gascap
    PROVE  ListConsistent' /\ Content' = Content \ At(N)
  <1>1. IndexMatchesItems /\ TotalExact /\ CapsBound
    BY DEF ListConsistent
  <1>2. /\ IndexMatchesItems' /\ TotalExact'
        /\ Keys' = Keys \ N
        /\ \A n \in Keys' : items'[n] = items[n]
        /\ Content' = Content \ At(N)
    BY <1>1, RemovalFacts
  <1>3. CapsBound'
    BY <1>1, <1>2 DEF CapsBound
  <1> QED
    BY <1>2, <1>3 DEF ListConsistent

\* The transactions that are returned for removed keys are those of the list
\* with these nonces.
LEMMA AtFacts ==
    ASSUME NEW N
    PROVE  At(N) = {t \in Content : t.nonce \in N}
  BY DEF At, Content

\* The operators of the abstract list are those of NonceList.
LEMMA ListOperators ==
    /\ \A S, n : List!AtNonce(S, n) = AtNonce(S, n)
    /\ \A S, n : List!Below(S, n) = Below(S, n)
    /\ \A S, n : List!Above(S, n) = Above(S, n)
    /\ \A S, n : List!Unpayable(S, n) = Unpayable(S, n)
    /\ \A S, n : List!OutOfGas(S, n) = OutOfGas(S, n)
    /\ \A S, R : List!Invalidated(S, R) = Invalidated(S, R)
    /\ \A S, n : List!ReadyFrom(S, n) = ReadyFrom(S, n)
    /\ \A S, n : List!Excess(S, n) = Excess(S, n)
    /\ \A S, t, b : List!Accepts(S, t, b) <=> Accepts(S, t, b)
    /\ \A S, R : List!Out(S, R) = Out(S, R)
  <1>1. \A S, n : List!AtNonce(S, n) = AtNonce(S, n)
    BY DEF List!AtNonce, AtNonce
  <1>2. \A S, n : List!Below(S, n) = Below(S, n)
    BY DEF List!Below, Below
  <1>3. \A S, n : List!Above(S, n) = Above(S, n)
    BY DEF List!Above, Above
  <1>4. \A S, n : List!Unpayable(S, n) = Unpayable(S, n)
    BY DEF List!Unpayable, Unpayable
  <1>5. \A S, n : List!OutOfGas(S, n) = OutOfGas(S, n)
    BY DEF List!OutOfGas, OutOfGas
  <1>6. \A S, R : List!Invalidated(S, R) = Invalidated(S, R)
    BY DEF List!Invalidated, Invalidated
  <1>7. \A S, n : List!ReadyFrom(S, n) = ReadyFrom(S, n)
    BY <1>1 DEF List!ReadyFrom, ReadyFrom
  <1>8. \A S, n : List!Excess(S, n) = Excess(S, n)
    <2>1. \A S : List!Cardinality(S) = Cardinality(S)
      BY Zenon DEF List!Cardinality, Cardinality
    <2>2. \A S, n : List!Cardinality(List!Below(S, n)) = Cardinality(Below(S, n))
      BY <1>2, <2>1, Zenon
    <2> QED
      BY <2>2, Zenon DEF List!Excess, Excess
  <1>9. \A S, t, b : List!Accepts(S, t, b) <=> Accepts(S, t, b)
    BY <1>1 DEF List!Accepts, Accepts, List!Outbids, Outbids
  <1>10. \A S, R : List!Out(S, R) = Out(S, R)
    BY DEF List!Out, Out
  <1> QED
    BY <1>1, <1>2, <1>3, <1>4, <1>5, <1>6, <1>7, <1>8, <1>9, <1>10

-----------------------------------------------------------------------------
(* One lemma per operation: it keeps the list consistent, and takes out    *)
(* what AccountList says.                                                  *)

\* An operation that changes nothing.
LEMMA NoChangeStep ==
    ASSUME ListConsistent, NoChange
    PROVE  ListConsistent' /\ Content' = Content
  <1>1. UNCHANGED <<strict, items, index, totalcost, costcap, gascap>>
    BY DEF NoChange
  <1>2. Keys' = Keys /\ Content' = Content /\ Total(items') = Total(items)
    BY <1>1 DEF Keys, Content
  <1> QED
    BY <1>1, <1>2 DEF ListConsistent, IndexMatchesItems, TotalExact, CapsBound

\* Add keeps the list consistent and is Add of the set: the total loses the
\* replaced transaction, and the caps go up to the new one.
LEMMA AddStep ==
    ASSUME ListConsistent, NEW t \in Txs, Add(t)
    PROVE  ListConsistent' /\ List!Add(t)
  <1> DEFINE old == items[t.nonce]
  <1>1. IndexMatchesItems /\ TotalExact /\ CapsBound /\ strict \in BOOLEAN
    BY DEF ListConsistent
  <1>2. /\ t.nonce \in Nonces /\ t # NoTx /\ t.cost \in Nat /\ t.gas \in Nat
        /\ items \in [Nonces -> Txs \cup {NoTx}]
    BY <1>1, TxListAssumption DEF IndexMatchesItems
  <1>3. AtNonce(Content, t.nonce) = IF old = NoTx THEN {} ELSE {old}
    <2>1. old = NoTx => AtNonce(Content, t.nonce) = {}
      BY TxListAssumption DEF AtNonce, Content
    <2>2. old # NoTx => old \in Content /\ old.nonce = t.nonce
      BY <1>1, <1>2, KeysAndContent DEF Keys
    <2>3. \A u \in Content : u.nonce = t.nonce => u = old
      BY DEF Content
    <2> QED
      BY <2>1, <2>2, <2>3 DEF AtNonce
  <1>4. Accepts(Content, t, PriceBump) <=> (old = NoTx \/ Outbids(t, old, PriceBump))
    BY <1>3 DEF Accepts
  <1>5. CASE old # NoTx /\ ~Outbids(t, old, PriceBump)
    <2>1. NoChange
      BY <1>5 DEF Add
    <2>2. ListConsistent' /\ Content' = Content
      BY <2>1, NoChangeStep
    <2> QED
      BY <1>4, <1>5, <2>1, <2>2, ListOperators DEF List!Add, List!TakeOut, NoChange
  <1>6. CASE old = NoTx \/ Outbids(t, old, PriceBump)
    <2>1. /\ totalcost' = LessOldCost(old) + t.cost
          /\ items' = [items EXCEPT ![t.nonce] = t]
          /\ index' = IF old = NoTx THEN index \cup {t.nonce} ELSE index
          /\ costcap' = IF costcap < t.cost THEN t.cost ELSE costcap
          /\ gascap' = IF gascap < t.gas THEN t.gas ELSE gascap
          /\ out' = Out(IF old = NoTx THEN {} ELSE {old}, {})
          /\ strict' = strict
      BY <1>6 DEF Add
    <2>2. Keys' = Keys \cup {t.nonce}
      BY <1>2, <2>1 DEF Keys
    <2>3. \A u \in Txs : u.nonce \in Nonces
      BY TxListAssumption
    <2>4. Content' = {u \in Txs : (u.nonce # t.nonce /\ items[u.nonce] = u) \/ u = t}
      BY <1>2, <2>1, <2>3 DEF Content
    <2>5. Content' = (Content \ AtNonce(Content, t.nonce)) \cup {t}
      BY <2>4 DEF Content, AtNonce
    <2>6. IndexMatchesItems'
      BY <1>1, <1>2, <2>1, <2>2 DEF IndexMatchesItems, Keys
    <2>7. CapsBound'
      <3>1. costcap' \in Nat /\ gascap' \in Nat /\ costcap <= costcap' /\ gascap <= gascap'
        BY <1>1, <1>2, <2>1 DEF CapsBound
      <3>2. t.cost <= costcap' /\ t.gas <= gascap'
        BY <1>1, <1>2, <2>1 DEF CapsBound
      <3>3. \A n \in Keys' : n = t.nonce \/ (n \in Keys /\ items'[n] = items[n])
        BY <1>2, <2>1, <2>2 DEF Keys
      <3>4. \A n \in Keys : items[n].cost \in Nat /\ items[n].gas \in Nat
        BY <1>1, KeysAndContent
      <3>5. items'[t.nonce] = t
        BY <1>2, <2>1
      <3>6. costcap \in Nat /\ gascap \in Nat
            /\ \A n \in Keys : items[n].cost <= costcap /\ items[n].gas <= gascap
        BY <1>1 DEF CapsBound
      <3>7. ASSUME NEW n \in Keys'
            PROVE  items'[n].cost <= costcap' /\ items'[n].gas <= gascap'
        <4>1. CASE n = t.nonce
          BY <4>1, <3>2, <3>5
        <4>2. CASE n \in Keys /\ items'[n] = items[n]
          BY <4>2, <3>1, <3>4, <3>6
        <4> QED
          BY <3>3, <4>1, <4>2
      <3> QED
        BY <3>1, <3>7 DEF CapsBound
    <2>8. TotalExact'
      <3> DEFINE f == [n \in Nonces |-> CostAt(items, n)]
                 g == [n \in Nonces |-> CostAt(items', n)]
      <3>1. \A n \in 1 .. MaxNonce : f[n] \in Int
        BY <1>1, CostType DEF Nonces
      <3>2. \A n \in Nonces : items'[n] = IF n = t.nonce THEN t ELSE items[n]
        BY <1>2, <2>1
      <3>3. g[t.nonce] = t.cost /\ \A n \in 1 .. MaxNonce : n # t.nonce => g[n] = f[n]
        BY <1>2, <3>2 DEF CostAt, Nonces
      <3>5. LessOldCost(old) = totalcost - f[t.nonce] /\ f[t.nonce] \in Int
        <4>1. totalcost \in Int
          BY <1>1, <3>1, TxListAssumption, SumType DEF TotalExact, Total
        <4> QED
          BY <1>2, <3>1, <4>1 DEF LessOldCost, CostAt, Nonces
      <3> HIDE DEF f, g
      <3>4. \A n \in 1 .. MaxNonce : g[n] \in Int
        BY <1>2, <3>1, <3>3
      <3>10. t.nonce \in 1 .. MaxNonce /\ MaxNonce \in Nat
        BY <1>2, TxListAssumption DEF Nonces
      <3>11. \A n \in 1 .. MaxNonce : n # t.nonce => g[n] = f[n]
        BY <3>3
      <3>6. SumTo(g, MaxNonce) = SumTo(f, MaxNonce) + (g[t.nonce] - f[t.nonce])
        BY <3>1, <3>4, <3>10, <3>11, SumUpdate
      <3>7. SumTo(f, MaxNonce) \in Int
        BY <3>1, TxListAssumption, SumType
      <3>8. totalcost = SumTo(f, MaxNonce) /\ Total(items') = SumTo(g, MaxNonce)
        BY <1>1 DEF TotalExact, Total, f, g
      <3>9. totalcost' = Total(items')
        BY <1>2, <2>1, <3>3, <3>5, <3>6, <3>7, <3>8
      <3> QED
        BY <3>9 DEF TotalExact
    <2>9. List!Add(t)
      BY <1>3, <1>4, <1>6, <2>1, <2>5, ListOperators DEF List!Add
    <2> QED
      BY <1>1, <2>1, <2>6, <2>7, <2>8, <2>9 DEF ListConsistent
  <1> QED
    BY <1>5, <1>6

\* Forward removes exactly the nonces below the threshold.
LEMMA ForwardStep ==
    ASSUME ListConsistent, NEW k \in Limits, Forward(k)
    PROVE  ListConsistent' /\ List!Forward(k)
  <1> DEFINE removed == {n \in index : n < k}
  <1>1. index = Keys /\ Keys \subseteq Nonces /\ IndexMatchesItems
    BY DEF ListConsistent, IndexMatchesItems, Keys
  <1>2. /\ items' = Deleted(removed) /\ index' = Keys \ removed
        /\ totalcost' = SubTotalCost(removed) /\ removed \in SUBSET Nonces
        /\ strict' = strict /\ costcap' = costcap /\ gascap' = gascap
        /\ out' = Out(At(removed), {})
    BY <1>1 DEF Forward
  <1>3. At(removed) = Below(Content, k)
    BY <1>1, KeysAndContent, AtFacts DEF Below
  <1> HIDE DEF removed
  <1>4. ListConsistent' /\ Content' = Content \ At(removed)
    BY <1>2, RemovalConsistent
  <1> QED
    BY <1>2, <1>3, <1>4, ListOperators DEF List!Forward, List!TakeOut

\* Filter removes what the limits do not cover and, in a strict list, what comes
\* after; its early return is right because the caps bound the list.
LEMMA FilterStep ==
    ASSUME ListConsistent, NEW c \in Limits, NEW g \in Limits, Filter(c, g)
    PROVE  ListConsistent' /\ List!Filter(c, g)
  <1> DEFINE removed == Unaffordable(c, g)
             invalids == IF strict
                         THEN {n \in Keys \ removed : \E m \in removed : m < n} ELSE {}
             gone == Unpayable(Content, c) \cup OutOfGas(Content, g)
  <1>1. IndexMatchesItems /\ TotalExact /\ CapsBound /\ strict \in BOOLEAN
    BY DEF ListConsistent
  <1>2. /\ \A n \in Keys : n \in Nonces /\ items[n] \in Content /\ items[n].nonce = n
        /\ \A t \in Content : t \in Txs /\ t.nonce \in Keys /\ items[t.nonce] = t
        /\ \A t \in Txs : t.cost \in Nat /\ t.gas \in Nat
    BY <1>1, KeysAndContent
  <1>3. c \in Nat /\ g \in Nat
    BY TxListAssumption
  <1>4. At(removed) = gone
    BY <1>2, AtFacts DEF Unaffordable, Unpayable, OutOfGas
  <1>5. At(invalids) = IF strict THEN Invalidated(Content, gone) ELSE {}
    <2>1. \A n \in Keys : n \in removed <=> items[n] \in gone
      BY <1>2 DEF Unaffordable, Unpayable, OutOfGas
    <2>2. \A m \in removed : m \in Keys
      BY DEF Unaffordable
    <2>3. \A t \in gone : t \in Content
      BY DEF Unpayable, OutOfGas
    <2> HIDE DEF removed, gone
    <2>4. \A t \in Content : t \notin gone /\ (\E r \in gone : r.nonce < t.nonce)
            <=> t.nonce \in Keys \ removed /\ (\E m \in removed : m < t.nonce)
      <3> TAKE t \in Content
      <3>1. t \in gone <=> t.nonce \in removed
        BY <1>2, <2>1
      <3>2. ASSUME NEW r \in gone, r.nonce < t.nonce
            PROVE  \E m \in removed : m < t.nonce
        BY <1>2, <2>1, <2>3, <3>2
      <3>3. ASSUME NEW m \in removed, m < t.nonce
            PROVE  \E r \in gone : r.nonce < t.nonce
        BY <1>2, <2>1, <2>2, <3>3
      <3> QED
        BY <1>2, <3>1, <3>2, <3>3
    <2>5. CASE strict
      BY <2>4, <2>5, AtFacts DEF Invalidated
    <2>6. CASE ~strict
      BY <2>6, AtFacts
    <2> QED
      BY <2>5, <2>6
  <1>6. CASE WithinCaps(c, g)
    <2>1. NoChange
      BY <1>6 DEF Filter
    <2>2. ListConsistent' /\ Content' = Content
      BY <2>1, NoChangeStep
    <2>3. gone = {}
      <3>1. \A n \in Keys : items[n].cost <= c /\ items[n].gas <= g
        BY <1>1, <1>2, <1>3, <1>6 DEF CapsBound, WithinCaps
      <3> QED
        BY <1>2, <1>3, <3>1 DEF Unpayable, OutOfGas
    <2> HIDE DEF gone
    <2>4. Invalidated(Content, gone) = {}
      BY <2>3 DEF Invalidated
    <2>5. List!TakeOut(gone, IF strict THEN Invalidated(Content, gone) ELSE {})
      BY <2>1, <2>2, <2>3, <2>4, ListOperators DEF List!TakeOut, NoChange
    <2> QED
      BY <2>2, <2>5, ListOperators DEF List!Filter, gone
  <1>7. CASE ~WithinCaps(c, g)
    <2>1. FilterOut(c, g)
      BY <1>7 DEF Filter
    <2>2. costcap' = c /\ gascap' = g /\ strict' = strict
      BY <2>1 DEF FilterOut
    <2>3. \A n \in Keys \ removed : items[n].cost <= c /\ items[n].gas <= g
      BY <1>2, <1>3 DEF Unaffordable
    <2>4. CASE removed = {}
      <3>1. out' = Out({}, {}) /\ UNCHANGED <<items, index, totalcost>>
        BY <2>1, <2>4 DEF FilterOut
      <3>2. Keys' = Keys /\ Content' = Content /\ Total(items') = Total(items)
        BY <3>1 DEF Keys, Content
      <3>3. ListConsistent'
        BY <1>1, <1>3, <2>2, <2>3, <2>4, <3>1, <3>2
           DEF ListConsistent, IndexMatchesItems, TotalExact, CapsBound
      <3>4. gone = {}
        BY <1>4, <2>4 DEF At
      <3> HIDE DEF gone
      <3>5. Invalidated(Content, gone) = {}
        BY <3>4 DEF Invalidated
      <3>6. List!TakeOut(gone, IF strict THEN Invalidated(Content, gone) ELSE {})
        BY <2>2, <3>1, <3>2, <3>4, <3>5, ListOperators DEF List!TakeOut
      <3> QED
        BY <3>3, <3>6, ListOperators DEF List!Filter, gone
    <2>5. CASE removed # {}
      <3> DEFINE N == removed \cup invalids
      <3>1. /\ items' = Deleted(N) /\ index' = Keys \ N
            /\ totalcost' = SubTotalCost(N)
            /\ out' = Out(At(removed), At(invalids))
        BY <2>1, <2>5 DEF FilterOut
      <3>2. N \in SUBSET Nonces /\ At(N) = At(removed) \cup At(invalids)
        BY DEF Unaffordable, Keys, At
      <3>3. removed \subseteq N
        OBVIOUS
      <3> HIDE DEF N
      <3>4. /\ IndexMatchesItems' /\ TotalExact'
            /\ Keys' = Keys \ N
            /\ \A n \in Keys' : items'[n] = items[n]
            /\ Content' = Content \ At(N)
        BY <1>1, <3>1, <3>2, RemovalFacts
      <3>5. CapsBound'
        <4> HIDE DEF removed
        <4> QED
          BY <1>3, <2>2, <2>3, <3>3, <3>4 DEF CapsBound
      <3>6. ListConsistent'
        BY <1>1, <2>2, <3>4, <3>5 DEF ListConsistent
      <3> HIDE DEF gone, removed, invalids
      <3>7. List!TakeOut(gone, IF strict THEN Invalidated(Content, gone) ELSE {})
        BY <1>4, <1>5, <2>2, <3>1, <3>2, <3>4, ListOperators DEF List!TakeOut
      <3> QED
        BY <3>6, <3>7, ListOperators DEF List!Filter, gone
    <2> QED
      BY <2>4, <2>5
  <1> QED
    BY <1>6, <1>7

\* Fewer nonces are below one of the heap than are in the heap.
LEMMA RankBelowSize ==
    ASSUME IndexMatchesItems, NEW n \in index
    PROVE  Rank(n) \in Nat /\ Cardinality(Keys) \in Nat /\ Rank(n) < Cardinality(Keys)
  <1> DEFINE low == {m \in index : m < n}
  <1>1. index = Keys /\ Keys \subseteq 1 .. MaxNonce /\ MaxNonce \in Nat
    BY TxListAssumption DEF IndexMatchesItems, Keys, Nonces
  <1>2. IsFiniteSet(index)
    <2>1. IsFiniteSet(1 .. MaxNonce) /\ index \in SUBSET (1 .. MaxNonce)
      BY <1>1, FS_Interval
    <2> QED
      BY <2>1, FS_Subset
  <1>3. low \subseteq index /\ n \in index /\ n \notin low
    BY <1>1
  <1> HIDE DEF low
  <1>4. /\ IsFiniteSet(low) /\ Cardinality(low) <= Cardinality(index)
        /\ Cardinality(index) = Cardinality(low) => index = low
    <2>1. low \in SUBSET index
      BY <1>3
    <2> QED
      BY <1>2, <2>1, FS_Subset
  <1>5. Cardinality(low) \in Nat /\ Cardinality(index) \in Nat
    BY <1>2, <1>4, FS_CardinalityType
  <1>6. Rank(n) = Cardinality(low)
    BY DEF Rank, low
  <1> QED
    BY <1>1, <1>3, <1>4, <1>5, <1>6

\* The rank of a transaction's nonce counts the transactions below it.
LEMMA RankCounts ==
    ASSUME IndexMatchesItems, NEW n \in Nonces
    PROVE  Cardinality(Below(Content, n)) = Rank(n)
  <1> DEFINE low == {m \in index : m < n}
             f == [m \in low |-> items[m]]
  <1>1. index = Keys /\ Keys \subseteq 1 .. MaxNonce /\ MaxNonce \in Nat
    BY TxListAssumption DEF IndexMatchesItems, Keys, Nonces
  <1>2. IsFiniteSet(low)
    <2>1. IsFiniteSet(1 .. MaxNonce)
      BY <1>1, FS_Interval
    <2>2. low \in SUBSET (1 .. MaxNonce)
      BY <1>1
    <2> HIDE DEF low
    <2> QED
      BY <2>1, <2>2, FS_Subset
  <1>3. \A m \in low : items[m] \in Below(Content, n) /\ items[m].nonce = m
    BY <1>1, KeysAndContent DEF Below
  <1>4. \A t \in Below(Content, n) : t.nonce \in low /\ f[t.nonce] = t
    BY <1>1, KeysAndContent DEF Below
  <1>5. f \in [low -> Below(Content, n)]
    BY <1>3
  <1>6. \A a, b \in low : f[a] = f[b] => a = b
    BY <1>3
  <1> HIDE DEF low, f
  <1>7. f \in Bijection(low, Below(Content, n))
    BY <1>4, <1>5, <1>6 DEF Bijection, Injection, Surjection, IsInjective
  <1>8. Cardinality(Below(Content, n)) = Cardinality(low)
    BY <1>2, <1>7, FS_Bijection DEF ExistsBijection
  <1> QED
    BY <1>8 DEF Rank, low

\* Cap keeps the lowest nonces: a nonce's rank in the sorted heap counts the
\* transactions below it.
LEMMA CapStep ==
    ASSUME ListConsistent, NEW k \in Limits, Cap(k)
    PROVE  ListConsistent' /\ List!Cap(k)
  <1> DEFINE size == Cardinality(Keys)
             drops == {n \in index : Rank(n) >= k /\ Rank(n) < size}
  <1>1. IndexMatchesItems /\ index = Keys /\ Keys \subseteq Nonces /\ k \in Nat
    BY TxListAssumption DEF ListConsistent, IndexMatchesItems, Keys
  <1>2. \A n \in Keys : Rank(n) \in Nat /\ size \in Nat /\ Rank(n) < size
    BY <1>1, RankBelowSize
  <1>3. \A t \in Content : t.nonce \in Keys /\ t.nonce \in Nonces
    BY <1>1, KeysAndContent
  <1>4. \A t \in Content : Cardinality(Below(Content, t.nonce)) = Rank(t.nonce)
    BY <1>1, <1>3, RankCounts
  <1>5. Excess(Content, k) = {t \in Content : Rank(t.nonce) >= k}
    BY <1>4 DEF Excess
  <1>6. CASE size <= k
    <2>1. NoChange
      BY <1>6 DEF Cap
    <2>2. ListConsistent' /\ Content' = Content
      BY <2>1, NoChangeStep
    <2>3. Excess(Content, k) = {}
      BY <1>1, <1>2, <1>3, <1>5, <1>6
    <2> QED
      BY <2>1, <2>2, <2>3, ListOperators DEF List!Cap, List!TakeOut, NoChange
  <1>7. CASE ~(size <= k)
    <2>1. /\ items' = Deleted(drops) /\ index' = {n \in index : Rank(n) < k}
          /\ totalcost' = SubTotalCost(drops) /\ out' = Out(At(drops), {})
          /\ strict' = strict /\ costcap' = costcap /\ gascap' = gascap
      BY <1>7 DEF Cap
    <2>2. index' = Keys \ drops /\ drops \in SUBSET Nonces
      BY <1>1, <1>2, <2>1
    <2>3. At(drops) = Excess(Content, k)
      BY <1>1, <1>2, <1>3, <1>5, AtFacts
    <2> HIDE DEF drops
    <2>4. ListConsistent' /\ Content' = Content \ At(drops)
      BY <2>1, <2>2, RemovalConsistent
    <2> QED
      BY <2>1, <2>3, <2>4, ListOperators DEF List!Cap, List!TakeOut
  <1> QED
    BY <1>6, <1>7

\* Ready takes the gapless run at the head of the heap.
LEMMA ReadyStep ==
    ASSUME ListConsistent, NEW k \in Limits, Ready(k)
    PROVE  ListConsistent' /\ List!Ready(k)
  <1> DEFINE ready == {n \in index : \A m \in index : m .. n \subseteq index}
  <1>1. IndexMatchesItems /\ index = Keys /\ Keys \subseteq Nonces /\ k \in Nat
    BY TxListAssumption DEF ListConsistent, IndexMatchesItems, Keys
  <1>2. /\ \A n \in Keys : n \in Nonces /\ items[n] \in Content /\ items[n].nonce = n
        /\ \A t \in Content : t \in Txs /\ t.nonce \in Keys /\ items[t.nonce] = t
    BY <1>1, KeysAndContent
  <1>3. \A n : AtNonce(Content, n) # {} <=> n \in Keys
    BY <1>2 DEF AtNonce
  <1>4. (\E u \in Content : u.nonce <= k) <=> (\E n \in index : n <= k)
    BY <1>1, <1>2
  <1>5. \A t \in Content :
           (\A u \in Content : \A n \in u.nonce .. t.nonce : AtNonce(Content, n) # {})
           <=> t.nonce \in ready
    <2> TAKE t \in Content
    <2>1. (\A u \in Content : \A n \in u.nonce .. t.nonce : AtNonce(Content, n) # {})
          <=> (\A m \in index : \A n \in m .. t.nonce : n \in index)
      BY <1>1, <1>2, <1>3
    <2> QED
      BY <1>1, <1>2, <2>1
  <1> HIDE DEF ready
  <1>6. CASE ~ \E n \in index : n <= k
    <2>1. NoChange
      BY <1>6 DEF Ready
    <2>2. ListConsistent' /\ Content' = Content
      BY <2>1, NoChangeStep
    <2>3. ReadyFrom(Content, k) = {}
      BY <1>4, <1>6 DEF ReadyFrom
    <2> QED
      BY <2>1, <2>2, <2>3, ListOperators DEF List!Ready, List!TakeOut, NoChange
  <1>7. CASE \E n \in index : n <= k
    <2>1. /\ items' = Deleted(ready) /\ index' = Keys \ ready
          /\ totalcost' = SubTotalCost(ready) /\ out' = Out(At(ready), {})
          /\ strict' = strict /\ costcap' = costcap /\ gascap' = gascap
      BY <1>1, <1>7 DEF Ready, ready
    <2>2. ready \in SUBSET Nonces
      BY <1>1 DEF ready
    <2>3. At(ready) = ReadyFrom(Content, k)
      BY <1>4, <1>5, <1>7, AtFacts DEF ReadyFrom
    <2>4. ListConsistent' /\ Content' = Content \ At(ready)
      BY <2>1, <2>2, RemovalConsistent
    <2> QED
      BY <2>1, <2>3, <2>4, ListOperators DEF List!Ready, List!TakeOut
  <1> QED
    BY <1>6, <1>7

\* Remove takes out one nonce and, in a strict list, everything above it.
LEMMA RemoveStep ==
    ASSUME ListConsistent, NEW t \in Txs, Remove(t)
    PROVE  ListConsistent' /\ List!Remove(t)
  <1> DEFINE invalids == IF strict THEN {n \in Keys : n > t.nonce} ELSE {}
             N == {t.nonce} \cup invalids
  <1>1. /\ IndexMatchesItems /\ TotalExact /\ index = Keys /\ Keys \subseteq Nonces
        /\ strict \in BOOLEAN
    BY DEF ListConsistent, IndexMatchesItems, Keys
  <1>2. /\ \A n \in Keys : n \in Nonces /\ items[n] \in Content /\ items[n].nonce = n
        /\ \A u \in Content : u \in Txs /\ u.nonce \in Keys /\ items[u.nonce] = u
        /\ t.nonce \in Nonces /\ t # NoTx /\ t.cost \in Nat
    BY <1>1, KeysAndContent, TxListAssumption
  <1>3. CASE items[t.nonce] = NoTx
    <2>1. NoChange
      BY <1>3 DEF Remove
    <2>2. ListConsistent' /\ Content' = Content
      BY <2>1, NoChangeStep
    <2>3. AtNonce(Content, t.nonce) = {}
      BY <1>2, <1>3 DEF AtNonce, Keys
    <2> QED
      BY <2>1, <2>2, <2>3, ListOperators DEF List!Remove, List!TakeOut, NoChange
  <1>4. CASE items[t.nonce] # NoTx
    <2>1. items[t.nonce] = t
      BY <1>4 DEF Remove
    <2>2. /\ items' = Deleted(N)
          /\ index' = IF invalids = {} THEN index \ {t.nonce} ELSE Keys \ N
          /\ totalcost' = SubTotalCost(invalids) - t.cost
          /\ out' = Out({t}, At(invalids))
          /\ strict' = strict /\ costcap' = costcap /\ gascap' = gascap
      BY <1>4 DEF Remove
    <2>3. index' = Keys \ N /\ N \in SUBSET Nonces /\ t.nonce \notin invalids
      <3>1. t.nonce \notin invalids
        BY <1>2 DEF Nonces
      <3>2. N \in SUBSET Nonces
        BY <1>1, <1>2
      <3>3. index' = Keys \ N
        BY <1>1, <2>2
      <3> QED
        BY <3>1, <3>2, <3>3
    <2>4. SubTotalCost(invalids) - t.cost = SubTotalCost(N)
      <3> DEFINE f == [n \in Nonces |-> IF n \in invalids THEN CostAt(items, n) ELSE 0]
                 g == [n \in Nonces |-> IF n \in N THEN CostAt(items, n) ELSE 0]
                 h == [n \in Nonces |-> CostAt(items, n)]
      <3>1. \A n \in 1 .. MaxNonce : CostAt(items, n) \in Int
        BY <1>1, CostType DEF Nonces
      <3>2. \A n \in 1 .. MaxNonce : n # t.nonce => (n \in N <=> n \in invalids)
        OBVIOUS
      <3>3. t.nonce \in N /\ CostAt(items, t.nonce) = t.cost
        BY <1>2, <2>1 DEF CostAt
      <3>4. t.nonce \in 1 .. MaxNonce /\ MaxNonce \in Nat
        BY <1>2, TxListAssumption DEF Nonces
      <3> HIDE DEF N, invalids
      <3>5. f[t.nonce] = 0 /\ g[t.nonce] = t.cost
        BY <1>2, <2>3, <3>3
      <3>6. \A n \in 1 .. MaxNonce : n # t.nonce => g[n] = f[n]
        BY <3>2 DEF Nonces
      <3>7. \A n \in 1 .. MaxNonce : f[n] \in Int /\ g[n] \in Int /\ h[n] \in Int
        BY <3>1 DEF Nonces
      <3>8. /\ SubTotalCost(invalids) = totalcost - SumTo(f, MaxNonce)
            /\ SubTotalCost(N) = totalcost - SumTo(g, MaxNonce)
            /\ totalcost = SumTo(h, MaxNonce)
        BY <1>1 DEF SubTotalCost, TotalExact, Total
      <3> HIDE DEF f, g, h
      <3>9. SumTo(g, MaxNonce) = SumTo(f, MaxNonce) + (g[t.nonce] - f[t.nonce])
        <4>1. \A n \in 1 .. MaxNonce : f[n] \in Int
          BY <3>7
        <4>2. \A n \in 1 .. MaxNonce : g[n] \in Int
          BY <3>7
        <4> QED
          BY <3>4, <3>6, <4>1, <4>2, SumUpdate, SMTT(60)
      <3>10. /\ SumTo(f, MaxNonce) \in Int /\ SumTo(g, MaxNonce) \in Int
             /\ SumTo(h, MaxNonce) \in Int
        BY <3>4, <3>7, SumType
      <3> QED
        BY <1>2, <3>5, <3>8, <3>9, <3>10
    <2>5. AtNonce(Content, t.nonce) = {t} /\ At({t.nonce}) = {t}
      BY <1>2, <2>1 DEF AtNonce, Content, At
    <2>6. At(N) = {t} \cup At(invalids)
      BY <2>5 DEF At
    <2>7. At(invalids) = IF strict THEN Above(Content, t.nonce) ELSE {}
      BY <1>2, AtFacts DEF Above
    <2> HIDE DEF N, invalids
    <2>8. ListConsistent' /\ Content' = Content \ At(N)
      BY <2>2, <2>3, <2>4, RemovalConsistent
    <2> QED
      BY <2>2, <2>5, <2>6, <2>7, <2>8, ListOperators DEF List!Remove, List!TakeOut
  <1> QED
    BY <1>3, <1>4

\* Flatten only touches the cache.
LEMMA FlattenStep ==
    ASSUME ListConsistent, Flatten
    PROVE  ListConsistent' /\ List!Flatten
  <1>1. out' = Out({}, {}) /\ UNCHANGED <<strict, items, index, totalcost, costcap, gascap>>
    BY DEF Flatten
  <1>2. Keys' = Keys /\ Content' = Content /\ Total(items') = Total(items)
    BY <1>1 DEF Keys, Content
  <1>3. ListConsistent'
    BY <1>1, <1>2 DEF ListConsistent, IndexMatchesItems, TotalExact, CapsBound
  <1> QED
    BY <1>1, <1>2, <1>3, ListOperators DEF List!Flatten, List!TakeOut

-----------------------------------------------------------------------------
(* The theorems.                                                           *)

\* A new list is consistent and empty.
LEMMA InitConsistent ==
    ASSUME Init
    PROVE  ListConsistent /\ List!Init
  <1>1. \A t \in Txs : t.nonce \in Nonces /\ t # NoTx
    BY TxListAssumption
  <1>2. Keys = {} /\ Content = {}
    BY <1>1 DEF Init, Keys, Content
  <1>3. IndexMatchesItems
    BY <1>2 DEF Init, IndexMatchesItems
  <1>4. \A n \in 1 .. MaxNonce : [m \in Nonces |-> CostAt(items, m)][n] = 0
    BY DEF Init, CostAt, Nonces
  <1>5. TotalExact
    BY <1>4, TxListAssumption, SumZero DEF Init, TotalExact, Total
  <1>6. CapsBound
    BY <1>2 DEF Init, CapsBound
  <1>7. List!Init
    BY <1>2, ListOperators DEF Init, List!Init
  <1> QED
    BY <1>3, <1>5, <1>6, <1>7 DEF Init, ListConsistent

\* Every call keeps the derived state consistent, and is the call of the same
\* name on the abstract list.
LEMMA NextConsistent ==
    ASSUME ListConsistent, [Next]_vars
    PROVE  ListConsistent' /\ [List!Next]_(List!vars)
  <1>1. ASSUME NEW t \in Txs, Add(t), Called("Add", t)
        PROVE  ListConsistent' /\ List!Next
    BY <1>1, AddStep DEF Called, List!Called, List!Next
  <1>2. ASSUME NEW t \in Txs, Remove(t), Called("Remove", t)
        PROVE  ListConsistent' /\ List!Next
    BY <1>2, RemoveStep DEF Called, List!Called, List!Next
  <1>3. ASSUME NEW n \in Limits, Forward(n), Called("Forward", n)
        PROVE  ListConsistent' /\ List!Next
    BY <1>3, ForwardStep DEF Called, List!Called, List!Next
  <1>4. ASSUME NEW n \in Limits, Cap(n), Called("Cap", n)
        PROVE  ListConsistent' /\ List!Next
    BY <1>4, CapStep DEF Called, List!Called, List!Next
  <1>5. ASSUME NEW n \in Limits, Ready(n), Called("Ready", n)
        PROVE  ListConsistent' /\ List!Next
    BY <1>5, ReadyStep DEF Called, List!Called, List!Next
  <1>6. ASSUME NEW c \in Limits, NEW g \in Limits, Filter(c, g), Called("Filter", <<c, g>>)
        PROVE  ListConsistent' /\ List!Next
    BY <1>6, FilterStep DEF Called, List!Called, List!Next
  <1>7. ASSUME Flatten, Called("Flatten", {}) PROVE ListConsistent' /\ List!Next
    BY <1>7, FlattenStep DEF Called, List!Called, List!Next
  <1>8. ASSUME UNCHANGED vars PROVE ListConsistent' /\ UNCHANGED List!vars
    <2>1. /\ UNCHANGED <<strict, items, index, totalcost, costcap, gascap, call, out>>
          /\ Keys' = Keys /\ Content' = Content /\ Total(items') = Total(items)
      BY <1>8 DEF vars, Keys, Content
    <2> QED
      BY <2>1 DEF ListConsistent, IndexMatchesItems, TotalExact, CapsBound, List!vars
  <1> QED
    BY <1>1, <1>2, <1>3, <1>4, <1>5, <1>6, <1>7, <1>8 DEF Next

\* For every set of transactions and limits, the heap, the running total and
\* the caps of a list agree with its map after any sequence of calls.
THEOREM ListAlwaysConsistent == Spec => []ListConsistent
  <1>1. Init => ListConsistent
    BY InitConsistent
  <1>2. ListConsistent /\ [Next]_vars => ListConsistent'
    BY NextConsistent
  <1> QED
    BY <1>1, <1>2, PTL DEF Spec

\* The list implements the set of transactions that the pool takes it for:
\* every call takes out and returns exactly what AccountList says.
THEOREM ListImplementsAccountList == Spec => ImplementsAccountList
  <1>1. Init => List!Init
    BY InitConsistent
  <1>2. ListConsistent /\ [Next]_vars => [List!Next]_(List!vars)
    BY NextConsistent
  <1> QED
    BY <1>1, <1>2, ListAlwaysConsistent, PTL DEF Spec, ImplementsAccountList, List!Spec
=============================================================================
