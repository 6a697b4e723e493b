---------------------------- MODULE StateDBProofs ----------------------------
(***************************************************************************)
(* The theorems about StateDB.  Their invariant, StateOK, says that the    *)
(* journal has a history: a state for each of its prefixes, the last one   *)
(* what the EVM and the next precompile see now, each one what undoing the *)
(* entry after it leaves, and at the place of each valid revision the view *)
(* its snapshot saw (DbOK).  Between two steps of the EVM the stores agree *)
(* with the objects that no entry dirtied, and the coins that count add up *)
(* to those of the store (Ready).                                          *)
(***************************************************************************)
EXTENDS StateDBLemmas

(***************************************************************************)
(* What is used of cardinalities: a number that is one more after each     *)
(* place of a set, and the same after every other, counts its places.      *)
(***************************************************************************)
UpTo(S, k) == {i \in S : i <= k}

Grows(f, S, n) == \A k \in 1..n : f[k] = IF k \in S THEN f[k - 1] + 1 ELSE f[k - 1]

Counts(n, S) ==
    /\ Cardinality(S) \in Nat /\ (S = {} => Cardinality(S) = 0)
    /\ \A k \in 0..n : Cardinality(UpTo(S, k)) \in Nat
    /\ \A f \in [0..n -> Nat] :
          Grows(f, S, n) => \A k \in 0..n : f[k] = f[0] + Cardinality(UpTo(S, k))

CountFacts == \A n \in Nat : \A S \in SUBSET (1..n) : Counts(n, S)

\* The entries that count as changes of account a.
ChangesOf(d, a) == {i \in 1..Len(d.journal) : d.journal[i].kind \in Dirtying /\ d.journal[i].acct = a}

\* The count of changes of an account is that of its entries, and an account
\* that was changed has an object.
LEMMA DirtiesCounted ==
    ASSUME CountFacts, NEW d, NEW m, DbOK(d, m), NEW a \in Accounts
    PROVE  d.dirties[a] = Cardinality(ChangesOf(d, a)) /\ (d.dirties[a] # 0 => a \in d.live)
<1>1. d \in DBType /\ ObjectsLive(d) /\ \E h : Traces(h, d, m)
  BY Zenon DEF DbOK
<1>2. PICK h : Traces(h, d, m)
  BY <1>1
<1> DEFINE n == Len(d.journal)
           S == ChangesOf(d, a)
           f == [k \in 0..n |-> h[k].dirties[a]]
<1>3. n \in Nat
  BY <1>1, DBFields
<1>4. /\ h \in [0..n -> States] /\ Clean(h[0]) = Accounts /\ h[n] = Abs(d)
      /\ \A k \in 1..n : Undoes(h[k - 1], h[k], d.journal[k], d.ctx)
  BY <1>2, Zenon DEF Traces
<1>5. \A x \in States : x.dirties \in [Accounts -> Nat]
  BY StateFields, Zenon
<1>6. S \subseteq 1..n
  BY DEF ChangesOf
<1>7. \A k \in 0..n : h[k].dirties \in [Accounts -> Nat] /\ f[k] = h[k].dirties[a] /\ f[k] \in Nat
  BY <1>4, <1>5, SMTT(20)
<1>8. ASSUME NEW k \in 1..n
      PROVE  f[k] = IF k \in S THEN f[k - 1] + 1 ELSE f[k - 1]
  <2>1. k \in 0..n /\ k - 1 \in 0..n
    BY <1>3
  <2> DEFINE en == d.journal[k]
             x  == h[k].dirties
             y  == h[k - 1].dirties
  <2>2. y = IF en.kind \in Dirtying THEN [x EXCEPT ![en.acct] = x[en.acct] - 1] ELSE x
    BY <1>4, Zenon DEF Undoes
  <2>3. k \in S <=> en.kind \in Dirtying /\ en.acct = a
    BY DEF ChangesOf
  <2>4. x \in [Accounts -> Nat] /\ f[k] = x[a] /\ f[k - 1] = y[a] /\ f[k] \in Nat /\ f[k - 1] \in Nat
    BY <1>7, <2>1, Zenon
  <2> HIDE DEF f, S, x, y, en
  <2>5. y[a] = IF k \in S THEN x[a] - 1 ELSE x[a]
    BY <2>2, <2>3, <2>4
  <2> QED BY <2>4, <2>5
<1>9. f \in [0..n -> Nat] /\ Grows(f, S, n)
  BY <1>7, <1>8, Zenon DEF Grows
<1> HIDE DEF f, S, n
<1>10. Counts(n, S)
  BY <1>3, <1>6, Zenon DEF CountFacts
<1>11. f[0] = 0
  <2>1. 0 \in 0..n
    BY <1>3
  <2>2. h[0].dirties[a] = 0
    BY <1>4, Zenon DEF Clean
  <2> QED BY <1>7, <2>1, <2>2, Zenon
<1>12. UpTo(S, n) = S
  <2>1. \A i \in 1..n : i <= n
    BY <1>3
  <2> QED BY <1>6, <2>1, Zenon DEF UpTo
<1>13. Abs(d).dirties = d.dirties
  BY AbsFields, Zenon
<1>14. n \in 0..n
  BY <1>3
<1>15. f[n] = d.dirties[a]
  BY <1>4, <1>7, <1>13, <1>14, Zenon
<1>16. f[n] = 0 + Cardinality(S)
  BY <1>9, <1>10, <1>11, <1>12, <1>14, Zenon DEF Counts
<1>17. Cardinality(S) \in Nat
  BY <1>10, Zenon DEF Counts
<1>18. d.dirties[a] = Cardinality(S)
  BY <1>15, <1>16, <1>17
<1>19. ASSUME d.dirties[a] # 0 PROVE a \in d.live
  <2>1. S # {}
    <3>1. Cardinality(S) # 0
      BY <1>18, <1>19, Zenon
    <3>2. S = {} => Cardinality(S) = 0
      BY <1>10, Zenon DEF Counts
    <3> QED BY <3>1, <3>2, Zenon
  <2>2. PICK i \in 1..Len(d.journal) : d.journal[i].kind \in Dirtying /\ d.journal[i].acct = a
    BY <2>1, Zenon DEF S, ChangesOf
  <2>3. d.journal[i].kind \in ObjectKinds
    BY <2>2 DEF Dirtying, ObjectKinds
  <2> QED BY <1>1, <2>2, <2>3, Zenon DEF ObjectsLive
<1> QED BY <1>18, <1>19, Zenon DEF S

(***************************************************************************)
(* The layers.  A state of the history has more of them than the one       *)
(* before it when the entry between is a call's, and as many otherwise.    *)
(***************************************************************************)
\* What does not fall from one place to the next does not fall.
RisingFacts ==
    \A n \in Nat : \A f \in [0..n -> Nat] :
        (\A k \in 1..n : f[k - 1] <= f[k]) => \A i \in 0..n : \A j \in i..n : f[i] <= f[j]

\* The snapshots of the calls are in bounds of the layers, and in order.
LayersInOrder(d) ==
    \A i \in 1..Len(d.journal) : d.journal[i].kind = "precompile" =>
        /\ d.journal[i].snapshot \in Nat /\ d.journal[i].snapshot + 2 <= Len(d.cache)
        /\ \A j \in i + 1..Len(d.journal) :
              d.journal[j].kind = "precompile" => d.journal[i].snapshot < d.journal[j].snapshot

\* This follows from the history.
LEMMA LayersOrdered ==
    ASSUME RisingFacts, NEW d, NEW m, DbOK(d, m)
    PROVE  LayersInOrder(d)
<1>1. d \in DBType /\ Branched(d) /\ \E h : Traces(h, d, m)
  BY Zenon DEF DbOK
<1>2. PICK h : Traces(h, d, m)
  BY <1>1
<1> DEFINE n == Len(d.journal)
           call(k) == d.journal[k].kind = "precompile"
           f == [k \in 0..n |-> Len(h[k].layers)]
<1>3. n \in Nat /\ \A k \in 1..n : d.journal[k] \in JournalEntries
  BY <1>1, DBFields
<1>4. /\ h \in [0..n -> States] /\ h[n] = Abs(d)
      /\ \A k \in 1..n : Undoes(h[k - 1], h[k], d.journal[k], d.ctx)
  BY <1>2, Zenon DEF Traces
<1>5. \A x \in States : x.layers \in Seq(StoreType)
  BY StateFields, Zenon
<1>6. \A k \in 0..n : h[k].layers \in Seq(StoreType) /\ f[k] = Len(h[k].layers) /\ f[k] \in Nat
  BY <1>4, <1>5
<1> HIDE DEF f
<1>7. ASSUME NEW k \in 1..n
      PROVE  /\ f[k - 1] <= f[k]
             /\ call(k) => /\ d.journal[k].snapshot \in Nat
                           /\ f[k - 1] = d.journal[k].snapshot + 1 /\ f[k - 1] + 1 <= f[k]
  <2>1. k \in 0..n /\ k - 1 \in 0..n
    BY <1>3
  <2> DEFINE en == d.journal[k]
             x  == h[k].layers
             y  == h[k - 1].layers
  <2>2. /\ y = IF en.kind = "precompile" THEN SubSeq(x, 1, en.snapshot + 1) ELSE x
        /\ en.kind = "precompile" => en.snapshot + 2 <= Len(x)
    BY <1>4, Zenon DEF Undoes
  <2>3. /\ x \in Seq(StoreType) /\ f[k] = Len(x) /\ f[k - 1] = Len(y)
        /\ f[k] \in Nat /\ f[k - 1] \in Nat
    BY <1>6, <2>1, Zenon
  <2>4. en.kind = "precompile" => en.snapshot \in Nat
    BY <1>3, EntryFacts, Zenon
  <2> HIDE DEF x, y, en
  <2>5. CASE en.kind = "precompile"
    <3>1. en.snapshot \in Nat /\ en.snapshot + 2 <= Len(x) /\ y = SubSeq(x, 1, en.snapshot + 1)
      BY <2>2, <2>4, <2>5, Zenon
    <3>2. Len(y) = en.snapshot + 1
      BY <2>3, <3>1
    <3>3. f[k - 1] = en.snapshot + 1 /\ f[k - 1] + 1 <= f[k] /\ f[k - 1] <= f[k]
      BY <2>3, <3>1, <3>2
    <3> QED BY <3>1, <3>3, Zenon DEF en
  <2>6. CASE en.kind # "precompile"
    <3>1. f[k - 1] = f[k]
      BY <2>2, <2>3, <2>6, Zenon
    <3>2. f[k - 1] <= f[k]
      BY <2>3, <3>1
    <3> QED BY <2>6, <3>2, Zenon DEF en
  <2> QED BY <2>5, <2>6
<1>8. \A i \in 0..n : \A j \in i..n : f[i] <= f[j]
  <2>1. \A k \in 1..n : f[k - 1] <= f[k]
    BY <1>7, Zenon
  <2>2. f \in [0..n -> Nat]
    BY <1>6, Zenon DEF f
  <2> QED BY <1>3, <2>1, <2>2, Zenon DEF RisingFacts
<1>9. ASSUME NEW i \in 1..n, call(i) PROVE f[n] = Len(d.cache)
  <2>1. n \in 0..n
    BY <1>3
  <2>2. Abs(d).layers = Layers(d) /\ d.cache # << >>
    BY <1>1, <1>9, AbsFields, Zenon DEF Branched
  <2> QED BY <1>4, <1>6, <2>1, <2>2, Zenon DEF Layers
<1>10. SUFFICES ASSUME NEW i \in 1..n, call(i)
                PROVE  /\ d.journal[i].snapshot \in Nat /\ d.journal[i].snapshot + 2 <= Len(d.cache)
                       /\ \A j \in i + 1..n : call(j) => d.journal[i].snapshot < d.journal[j].snapshot
  BY <1>10, Zenon DEF LayersInOrder
<1>11. /\ d.journal[i].snapshot \in Nat /\ f[i - 1] = d.journal[i].snapshot + 1
       /\ f[i - 1] + 1 <= f[i]
  BY <1>7, <1>10, Zenon
<1>12. /\ \A j \in i..n : f[i] <= f[j] /\ f[j] \in Nat
       /\ f[i] \in Nat
  <2>1. \A j \in i..n : j \in 0..n
    BY <1>3
  <2>2. i \in 0..n
    BY <1>3
  <2> QED BY <1>6, <1>8, <2>1, <2>2, Zenon
<1>13. d.journal[i].snapshot + 2 <= Len(d.cache)
  <2>1. f[n] = Len(d.cache)
    BY <1>9, <1>10, Zenon
  <2>2. n \in i..n
    BY <1>3
  <2>3. f[i] <= f[n] /\ f[n] \in Nat
    BY <1>12, <2>2, Zenon
  <2> QED BY <1>11, <1>12, <2>1, <2>3
<1>14. ASSUME NEW j \in i + 1..n, call(j) PROVE d.journal[i].snapshot < d.journal[j].snapshot
  <2>1. j \in 1..n /\ j - 1 \in i..n
    BY <1>3
  <2>2. d.journal[j].snapshot \in Nat /\ f[j - 1] = d.journal[j].snapshot + 1
    BY <1>7, <1>14, <2>1, Zenon
  <2>3. f[i] <= f[j - 1]
    BY <1>12, <2>1, Zenon
  <2>4. f[i] \in Nat
    BY <1>12, Zenon
  <2> HIDE DEF n, call
  <2> QED BY <1>11, <2>2, <2>3, <2>4
<1> QED BY <1>11, <1>13, <1>14, Zenon

(***************************************************************************)
(* What is used of sums over the accounts.                                 *)
(***************************************************************************)
SumFacts ==
    /\ \A f \in [Accounts -> Nat] : SumTo(f, N) \in Nat
    /\ \A f, g \in [Accounts -> Nat] : \A a \in Accounts :
          (\A i \in Accounts : i # a => g[i] = f[i]) =>
             SumTo(g, N) = SumTo(f, N) + (g[a] - f[a])
    /\ \A f, g \in [Accounts -> Nat] :
          (\A i \in Accounts : f[i] <= g[i]) => SumTo(f, N) <= SumTo(g, N)

(***************************************************************************)
(* What holds between two operations, of the StateDB itself.               *)
(***************************************************************************)
\* The balances that count: those of blocked addresses are the bank's.
Worth(d) == [a \in Accounts |-> IF a \in Blocked THEN Current(d).acct[a].bal ELSE Seen(d, a).bal]

\* The store st has account a as the EVM sees it.
Matches(d, st, a) ==
    /\ ~Seen(d, a).destructed
    /\ st.acct[a].exists = Seen(d, a).exists /\ st.acct[a].bal = Seen(d, a).bal
    /\ st.acct[a].nonce = Seen(d, a).nonce /\ st.acct[a].code = Seen(d, a).code

Calm(d) ==
    /\ \A a \in Clean(d) \ Blocked : Matches(d, Current(d), a)
    /\ \A a \in Accounts \ d.flushed :
          ~Seen(d, a).destructed => Current(d).acct[a].slot = d.ctx.acct[a].slot
    /\ \A a \in Clean(d) \ d.flushed : GetState(d, a) = d.ctx.acct[a].slot

NoLoss(d) == Blocked \subseteq Clean(d) /\ \A a \in Accounts : ~Seen(d, a).destructed

Solvent(d) ==
    /\ SumTo(Worth(d), N) <= Total(d.ctx)
    /\ NoLoss(d) => SumTo(Worth(d), N) = Total(d.ctx)

\* So a StateDB is ready when its invariant holds and it is settled.
LEMMA ReadyWhen ==
    ASSUME NEW d
    PROVE  Ready(d) <=> DbOK(d, Len(d.revisions)) /\ Calm(d) /\ Solvent(d)
\* Settled says this of the view of a StateDB.
<1>1. ASSUME NEW d0 \in DBType, Accessible(d0)
      PROVE  Settled(View(d0), d0.ctx, d0.flushed, Clean(d0)) <=> Calm(d0) /\ Solvent(d0)
  <2> DEFINE v == View(d0)
  <2>1. /\ v.stores = Current(d0)
        /\ \A a \in Accounts :
              /\ v.acct[a].exists = Seen(d0, a).exists /\ v.acct[a].bal = Seen(d0, a).bal
              /\ v.acct[a].nonce = Seen(d0, a).nonce /\ v.acct[a].code = Seen(d0, a).code
              /\ v.acct[a].destructed = Seen(d0, a).destructed /\ v.acct[a].slot = GetState(d0, a)
    <3>1. /\ Shows(View(d0), Abs(d0)) /\ View(d0).stores = Current(d0)
          /\ \A a \in Accounts : View(d0).acct[a].slot = GetState(d0, a)
      BY <1>1, ViewShows, Zenon
    <3>2. \A a \in Accounts : Abs(d0).acct[a] = Seen(d0, a)
      BY AbsFields, Zenon
    <3>3. \A a \in Accounts :
              /\ v.acct[a].exists = Abs(d0).acct[a].exists /\ v.acct[a].bal = Abs(d0).acct[a].bal
              /\ v.acct[a].nonce = Abs(d0).acct[a].nonce /\ v.acct[a].code = Abs(d0).acct[a].code
              /\ v.acct[a].destructed = Abs(d0).acct[a].destructed
      BY <3>1, Zenon DEF Shows
    <3> HIDE DEF v
    <3> QED BY <3>1, <3>2, <3>3 DEF v
  <2>2. Clean(d0) \subseteq Accounts
    BY Zenon DEF Clean
  <2> HIDE DEF v
  <2>3. Fair(v) = Worth(d0)
    BY <2>1 DEF Fair, Worth
  <2>4. (\A a \in Clean(d0) \ Blocked :
            /\ ~v.acct[a].destructed
            /\ v.stores.acct[a].exists = v.acct[a].exists
            /\ v.stores.acct[a].bal = v.acct[a].bal
            /\ v.stores.acct[a].nonce = v.acct[a].nonce
            /\ v.stores.acct[a].code = v.acct[a].code)
        <=> \A a \in Clean(d0) \ Blocked : Matches(d0, Current(d0), a)
    <3>1. \A a \in Accounts :
            (/\ ~v.acct[a].destructed
             /\ v.stores.acct[a].exists = v.acct[a].exists
             /\ v.stores.acct[a].bal = v.acct[a].bal
             /\ v.stores.acct[a].nonce = v.acct[a].nonce
             /\ v.stores.acct[a].code = v.acct[a].code) <=> Matches(d0, Current(d0), a)
      BY <2>1 DEF Matches
    <3> QED BY <2>2, <3>1, Zenon
  <2>5. /\ (\A a \in Accounts \ d0.flushed : ~v.acct[a].destructed => v.stores.acct[a].slot = d0.ctx.acct[a].slot)
           <=> \A a \in Accounts \ d0.flushed :
                  ~Seen(d0, a).destructed => Current(d0).acct[a].slot = d0.ctx.acct[a].slot
        /\ (\A a \in Clean(d0) \ d0.flushed : v.acct[a].slot = d0.ctx.acct[a].slot)
           <=> \A a \in Clean(d0) \ d0.flushed : GetState(d0, a) = d0.ctx.acct[a].slot
        /\ (\A a \in Accounts : ~v.acct[a].destructed) <=> \A a \in Accounts : ~Seen(d0, a).destructed
    BY <2>1, <2>2
  <2> QED BY <2>3, <2>4, <2>5, Zenon DEF Settled, Calm, Solvent, NoLoss, v
<1>2. CASE DbOK(d, Len(d.revisions))
  <2>1. d \in DBType /\ Accessible(d)
    BY <1>2, Zenon DEF DbOK
  <2>2. Settled(View(d), d.ctx, d.flushed, Clean(d)) <=> Calm(d) /\ Solvent(d)
    BY <2>1, <1>1, Zenon
  <2> QED BY <1>2, <2>2, Zenon DEF Ready
<1>3. CASE ~DbOK(d, Len(d.revisions))
  BY <1>3, Zenon DEF Ready
<1> QED BY <1>2, <1>3

\* The balances that count are numbers, and so is their sum.
LEMMA WorthType ==
    ASSUME NEW d \in DBType
    PROVE  /\ Worth(d) \in [Accounts -> Nat]
           /\ [a \in Accounts |-> d.ctx.acct[a].bal] \in [Accounts -> Nat]
<1>1. \A st \in StoreType : \A a \in Accounts : st.acct[a].bal \in Nat
  BY StoreFields, newObjectType, Zenon
<1>2. Current(d) \in StoreType /\ d.ctx \in StoreType
  BY LayersType, DBFields, Zenon
<1>3. \A a \in Accounts : Seen(d, a).bal \in Nat
  BY SeenBal, Zenon
<1> QED BY <1>1, <1>2, <1>3 DEF Worth

\* And so are their sums.
LEMMA SumsType ==
    ASSUME SumFacts, NEW d \in DBType
    PROVE  SumTo(Worth(d), N) \in Nat /\ Total(d.ctx) \in Nat
BY WorthType, Zenon DEF SumFacts, Total

(***************************************************************************)
(* The operations of the EVM.                                              *)
(***************************************************************************)
\* An operation that keeps what the stores have keeps a StateDB ready when it
\* makes no coins, and loses some only with an account or to a blocked one.
LEMMA KeepsReady ==
    ASSUME SumFacts, NEW d, Ready(d), NEW e, DbOK(e, Len(d.revisions)), Keeps(d, e),
           SumTo(Worth(e), N) <= SumTo(Worth(d), N),
           NoLoss(e) => SumTo(Worth(e), N) = SumTo(Worth(d), N)
    PROVE  Ready(e)
<1>1. DbOK(d, Len(d.revisions)) /\ Calm(d) /\ Solvent(d)
  BY ReadyWhen, Zenon
<1>2. d \in DBType /\ e \in DBType
  BY <1>1, Zenon DEF DbOK
<1>3. KeepsStores(d, e) /\ KeepsRevisions(d, e)
  BY Zenon DEF Keeps
<1>4. /\ e.ctx = d.ctx /\ e.flushed = d.flushed /\ Current(e) = Current(d)
      /\ Len(e.revisions) = Len(d.revisions)
  BY <1>3, Zenon DEF KeepsStores, KeepsRevisions, Current
<1>5. \A a \in Clean(e) : a \in Clean(d) /\ a \in Accounts /\ SameAccount(d, e, a)
  BY Zenon DEF Keeps, Clean
<1>6. \A a \in Accounts : ~Seen(e, a).destructed => ~Seen(d, a).destructed
  BY Zenon DEF Keeps
<1>7. Calm(e)
  <2>1. \A a \in Clean(e) \ Blocked : Matches(e, Current(e), a)
    <3>1. SUFFICES ASSUME NEW a \in Clean(e) \ Blocked PROVE Matches(e, Current(e), a)
      BY <3>1, Zenon
    <3>2. Matches(d, Current(d), a) /\ SameAccount(d, e, a)
      BY <1>1, <1>5, Zenon DEF Calm
    <3> QED BY <1>4, <3>2, Zenon DEF Matches, SameAccount
  <2>2. \A a \in Accounts \ e.flushed :
          ~Seen(e, a).destructed => Current(e).acct[a].slot = e.ctx.acct[a].slot
    BY <1>1, <1>4, <1>6, Zenon DEF Calm
  <2>3. \A a \in Clean(e) \ e.flushed : GetState(e, a) = e.ctx.acct[a].slot
    <3>1. SUFFICES ASSUME NEW a \in Clean(e) \ e.flushed
                   PROVE  GetState(e, a) = e.ctx.acct[a].slot
      BY <3>1, Zenon
    <3>2. GetState(d, a) = d.ctx.acct[a].slot /\ SameAccount(d, e, a)
      BY <1>1, <1>4, <1>5, Zenon DEF Calm
    <3> QED BY <1>4, <3>2, Zenon DEF SameAccount
  <2> QED BY <2>1, <2>2, <2>3, Zenon DEF Calm
<1>8. Solvent(e)
  <2>1. NoLoss(e) => NoLoss(d)
    BY <1>5, <1>6, Zenon DEF NoLoss
  <2>2. /\ SumTo(Worth(d), N) <= Total(d.ctx)
        /\ NoLoss(d) => SumTo(Worth(d), N) = Total(d.ctx)
    BY <1>1, Zenon DEF Solvent
  <2>3. SumTo(Worth(d), N) \in Nat /\ SumTo(Worth(e), N) \in Nat /\ Total(d.ctx) \in Nat
    BY <1>2, SumsType, Zenon
  <2>4. SumTo(Worth(e), N) <= Total(e.ctx)
    BY <1>4, <2>2, <2>3
  <2>5. NoLoss(e) => SumTo(Worth(e), N) = Total(e.ctx)
    BY <1>4, <2>1, <2>2, Zenon
  <2> QED BY <2>4, <2>5, Zenon DEF Solvent
<1> QED BY <1>4, <1>7, <1>8, ReadyWhen, Zenon

\* The balances that count are those that are seen.
LEMMA WorthSame ==
    ASSUME NEW d, NEW e, Keeps(d, e), \A a \in Accounts : Seen(e, a).bal = Seen(d, a).bal
    PROVE  Worth(e) = Worth(d)
<1>1. Current(e) = Current(d)
  BY Zenon DEF Keeps, KeepsStores, Current
<1> QED BY <1>1 DEF Worth

\* A setter of registers keeps a StateDB ready, and so does a setter of an
\* account that leaves its balance.
LEMMA SetterReady ==
    ASSUME SumFacts, NEW d, Ready(d), NEW e,
           \/ RegisterOK(d, e, Len(d.revisions))
           \/ \E a \in Accounts : SetterOnly(d, e, Len(d.revisions), a)
    PROVE  Ready(e)
<1>1. /\ DbOK(e, Len(d.revisions)) /\ Keeps(d, e)
      /\ \A x \in Accounts : Seen(e, x).bal = Seen(d, x).bal
  <2>1. CASE RegisterOK(d, e, Len(d.revisions))
    BY <2>1, Zenon DEF RegisterOK
  <2>2. CASE \E a \in Accounts : SetterOnly(d, e, Len(d.revisions), a)
    <3>1. PICK a \in Accounts : SetterOnly(d, e, Len(d.revisions), a)
      BY <2>2
    <3>2. /\ DbOK(e, Len(d.revisions)) /\ Keeps(d, e) /\ SameElsewhere(d, e, a)
          /\ Seen(e, a).bal = Seen(d, a).bal
      BY <3>1, Zenon DEF SetterOnly, SetterOK
    <3> QED BY <3>2, Zenon DEF SameElsewhere
  <2> QED BY <2>1, <2>2
<1>2. Worth(e) = Worth(d)
  BY <1>1, WorthSame, Zenon
<1>3. e \in DBType
  BY <1>1, Zenon DEF DbOK
<1>4. SumTo(Worth(e), N) \in Nat
  BY <1>3, SumsType, Zenon
<1>5. SumTo(Worth(e), N) <= SumTo(Worth(d), N)
  BY <1>2, <1>4
<1> QED BY <1>1, <1>2, <1>5, KeepsReady, Zenon

\* A new balance changes the sum by as much, unless the address is blocked.
BalanceMoved(d, e, a, b) ==
    /\ SumTo(Worth(e), N) \in Nat /\ SumTo(Worth(d), N) \in Nat /\ Seen(d, a).bal \in Nat
    /\ SumTo(Worth(e), N) =
          SumTo(Worth(d), N) + (IF a \in Blocked THEN 0 ELSE b - Seen(d, a).bal)

\* This is so of every setter of a balance.
LEMMA BalanceSum ==
    ASSUME SumFacts, NEW d \in DBType, NEW e \in DBType, NEW a \in Accounts, NEW b, Keeps(d, e),
           SameElsewhere(d, e, a), Seen(e, a).bal = b
    PROVE  BalanceMoved(d, e, a, b)
<1>1. Current(e) = Current(d)
  BY Zenon DEF Keeps, KeepsStores, Current
<1> DEFINE f == Worth(d)
           g == Worth(e)
<1>2. /\ f \in [Accounts -> Nat] /\ g \in [Accounts -> Nat]
      /\ SumTo(f, N) \in Nat /\ SumTo(g, N) \in Nat
  BY WorthType, SumsType, Zenon
<1>3. \A x \in Accounts :
         /\ f[x] = IF x \in Blocked THEN Current(d).acct[x].bal ELSE Seen(d, x).bal
         /\ g[x] = IF x \in Blocked THEN Current(d).acct[x].bal ELSE Seen(e, x).bal
  BY <1>1 DEF Worth
<1> HIDE DEF f, g
<1>4. \A x \in Accounts : x # a => g[x] = f[x]
  BY <1>3, Zenon DEF SameElsewhere
<1>5. SumTo(g, N) = SumTo(f, N) + (g[a] - f[a])
  BY <1>2, <1>4, Zenon DEF SumFacts
<1>6. Seen(d, a).bal \in Nat
  BY SeenBal, Zenon
<1>7. g[a] - f[a] = IF a \in Blocked THEN 0 ELSE b - Seen(d, a).bal
  BY <1>2, <1>3
<1> QED BY <1>2, <1>5, <1>6, <1>7, Zenon DEF BalanceMoved, f, g

\* Coins moved from one account to another: none are made, and some are lost
\* only to a blocked address.
Moved(d, e, m) ==
    /\ DbOK(e, m) /\ Keeps(d, e)
    /\ SumTo(Worth(e), N) <= SumTo(Worth(d), N)
    /\ NoLoss(e) => SumTo(Worth(e), N) = SumTo(Worth(d), N)

\* This is what a transfer does.
LEMMA TransferMoves ==
    ASSUME SumFacts, NEW d, NEW m, DbOK(d, m), NEW from \in Accounts \ Blocked, NEW to \in Accounts,
           NEW amount \in Nat, Seen(d, from).bal >= amount, NEW e,
           e = AddBalance(SubBalance(d, from, amount), to, amount)
    PROVE  Moved(d, e, m)
<1> DEFINE s == SubBalance(d, from, amount)
<1>1. BalanceSet(d, s, m, from, Seen(d, from).bal - amount)
  BY SubBalanceOK, Zenon
<1>2. DbOK(s, m) /\ Keeps(d, s) /\ SameElsewhere(d, s, from)
      /\ Seen(s, from).bal = Seen(d, from).bal - amount
  BY <1>1, Zenon DEF BalanceSet, SetterOK
<1> HIDE DEF s
<1>3. BalanceSet(s, e, m, to, Seen(s, to).bal + amount)
  BY <1>2, AddBalanceOK, Zenon DEF s
<1>4. /\ DbOK(e, m) /\ Keeps(s, e) /\ SameElsewhere(s, e, to)
      /\ Seen(e, to).bal = Seen(s, to).bal + amount
      /\ Seen(s, to).bal + amount # Seen(s, to).bal => e.dirties[to] # 0
  BY <1>3, Zenon DEF BalanceSet, SetterOK
<1>5. d \in DBType /\ s \in DBType /\ e \in DBType
  BY <1>2, <1>4, Zenon DEF DbOK
<1>6. /\ BalanceMoved(d, s, from, Seen(d, from).bal - amount)
      /\ BalanceMoved(s, e, to, Seen(s, to).bal + amount)
  BY <1>2, <1>4, <1>5, BalanceSum, Zenon
<1>7. /\ SumTo(Worth(d), N) \in Nat /\ SumTo(Worth(s), N) \in Nat /\ SumTo(Worth(e), N) \in Nat
      /\ Seen(d, from).bal \in Nat /\ Seen(s, to).bal \in Nat
      /\ SumTo(Worth(s), N) = SumTo(Worth(d), N) + (IF from \in Blocked THEN 0 ELSE
                                 (Seen(d, from).bal - amount) - Seen(d, from).bal)
      /\ SumTo(Worth(e), N) = SumTo(Worth(s), N) + (IF to \in Blocked THEN 0 ELSE
                                 (Seen(s, to).bal + amount) - Seen(s, to).bal)
  BY <1>6, Zenon DEF BalanceMoved
<1>8. /\ SumTo(Worth(s), N) = SumTo(Worth(d), N) - amount
      /\ SumTo(Worth(e), N) = SumTo(Worth(s), N) + (IF to \in Blocked THEN 0 ELSE amount)
  BY <1>7
<1>9. SumTo(Worth(e), N) <= SumTo(Worth(d), N)
  BY <1>7, <1>8
<1>10. ASSUME NoLoss(e) PROVE SumTo(Worth(e), N) = SumTo(Worth(d), N)
  <2>1. CASE to \in Blocked
    <3>1. to \in Clean(e)
      BY <1>10, <2>1, Zenon DEF NoLoss
    <3>2. e.dirties[to] = 0
      BY <3>1, Zenon DEF Clean
    <3>3. amount = 0
      BY <1>4, <1>7, <3>2
    <3> QED BY <1>7, <1>8, <2>1, <3>3
  <2>2. CASE to \notin Blocked
    BY <1>7, <1>8, <2>2
  <2> QED BY <2>1, <2>2
<1>11. Keeps(d, e)
  BY <1>2, <1>4, KeepsBoth, Zenon
<1> QED BY <1>4, <1>9, <1>10, <1>11, Zenon DEF Moved

\* Coins are moved, and an account is destructed with what it has left.
LEMMA DestructMoves ==
    ASSUME SumFacts, NEW d, NEW m, DbOK(d, m), NEW a \in Accounts \ Blocked, NEW e,
           e = SelfDestruct6780(d, a)
    PROVE  Moved(d, e, m)
<1> DEFINE g == getStateObject(d, a)
<1>1. Loaded(d, g, m, a)
  BY LoadOK, Zenon
<1>2. /\ DbOK(g, m) /\ \A x \in Accounts : GetState(g, x) = GetState(d, x) /\ Seen(g, x) = Seen(d, x)
      /\ KeepsStores(d, g) /\ KeepsRevisions(d, g) /\ g.dirties = d.dirties
  BY <1>1, Zenon DEF Loaded, KeepsJournal
<1>3. Keeps(d, g)
  BY <1>2, LoadKeeps, Zenon
<1>4. d \in DBType /\ g \in DBType
  BY <1>2, Zenon DEF DbOK
<1>5. Worth(g) = Worth(d)
  BY <1>2, <1>3, WorthSame, Zenon
<1>6. SumTo(Worth(d), N) \in Nat
  BY <1>4, SumsType, Zenon
<1>7. e = IF a \in g.live /\ g.obj[a].new THEN SelfDestruct(g, a) ELSE g
  BY Zenon DEF SelfDestruct6780
<1> HIDE DEF g
<1>8. CASE e = g
  <2>1. SumTo(Worth(g), N) <= SumTo(Worth(d), N)
    BY <1>5, <1>6
  <2> QED BY <1>2, <1>3, <1>5, <1>8, <2>1, Zenon DEF Moved
<1>9. CASE e # g
  <2>1. a \in g.live /\ e = SelfDestruct6780(g, a)
    BY <1>7, <1>9, Zenon DEF SelfDestruct6780, getStateObject
  <2>2. DestructOnly(g, e, m, a)
    BY <1>2, <2>1, SelfDestruct6780OK, Zenon
  <2>3. /\ DbOK(e, m) /\ Keeps(g, e) /\ SameElsewhere(g, e, a)
        /\ Seen(e, a).bal = Seen(g, a).bal \/ (Seen(e, a).bal = 0 /\ Seen(e, a).destructed)
    BY <2>2, Zenon DEF DestructOnly, SetterOK
  <2>4. e \in DBType
    BY <2>3, Zenon DEF DbOK
  <2>5. BalanceMoved(g, e, a, Seen(e, a).bal)
    BY <1>4, <2>3, <2>4, BalanceSum, Zenon
  <2>6. /\ SumTo(Worth(e), N) \in Nat /\ Seen(g, a).bal \in Nat
        /\ SumTo(Worth(e), N) = SumTo(Worth(d), N) + (Seen(e, a).bal - Seen(g, a).bal)
    BY <1>5, <2>5, Zenon DEF BalanceMoved
  <2>7. SumTo(Worth(e), N) <= SumTo(Worth(d), N)
    BY <1>6, <2>3, <2>6
  <2>8. ASSUME NoLoss(e) PROVE SumTo(Worth(e), N) = SumTo(Worth(d), N)
    <3>1. ~Seen(e, a).destructed
      BY <2>8, Zenon DEF NoLoss
    <3>2. Seen(e, a).bal = Seen(g, a).bal
      BY <2>3, <3>1, Zenon
    <3> QED BY <1>6, <2>6, <3>2
  <2>9. Keeps(d, e)
    BY <1>3, <2>3, KeepsBoth, Zenon
  <2> QED BY <2>3, <2>7, <2>8, <2>9, Zenon DEF Moved
<1> QED BY <1>8, <1>9

\* Two of them.
LEMMA MovedBoth ==
    ASSUME SumFacts, NEW d \in DBType, NEW g, NEW e, NEW m, Moved(d, g, m), Moved(g, e, m)
    PROVE  Moved(d, e, m)
<1>1. g \in DBType /\ e \in DBType
  BY Zenon DEF Moved, DbOK
<1>2. SumTo(Worth(d), N) \in Nat /\ SumTo(Worth(g), N) \in Nat /\ SumTo(Worth(e), N) \in Nat
  BY <1>1, SumsType, Zenon
<1>3. /\ SumTo(Worth(g), N) <= SumTo(Worth(d), N) /\ SumTo(Worth(e), N) <= SumTo(Worth(g), N)
      /\ Keeps(d, g) /\ Keeps(g, e) /\ DbOK(e, m)
      /\ NoLoss(g) => SumTo(Worth(g), N) = SumTo(Worth(d), N)
      /\ NoLoss(e) => SumTo(Worth(e), N) = SumTo(Worth(g), N)
  BY Zenon DEF Moved
<1>4. SumTo(Worth(e), N) <= SumTo(Worth(d), N)
  BY <1>2, <1>3
<1>5. NoLoss(e) => NoLoss(g)
  <2>1. Clean(e) \subseteq Clean(g) /\ \A a \in Accounts : ~Seen(e, a).destructed => ~Seen(g, a).destructed
    BY <1>3, Zenon DEF Keeps, Clean
  <2> QED BY <2>1, Zenon DEF NoLoss
<1>6. NoLoss(e) => SumTo(Worth(e), N) = SumTo(Worth(d), N)
  BY <1>3, <1>5, Zenon
<1>7. Keeps(d, e)
  BY <1>3, KeepsBoth, Zenon
<1> QED BY <1>3, <1>4, <1>6, <1>7, Zenon DEF Moved

\* Such an operation keeps a StateDB ready.
LEMMA MovedReady ==
    ASSUME SumFacts, NEW d, Ready(d), NEW e, Moved(d, e, Len(d.revisions))
    PROVE  Ready(e)
BY KeepsReady, Zenon DEF Moved

\* evm.create.
LEMMA CreateMoves ==
    ASSUME NEW d, NEW m, DbOK(d, m), NEW a \in Accounts, NEW e,
           e = SetNonce(CreateContract(getOrNewStateObject(d, a), a), a, 1)
    PROVE  SetterOnly(d, e, m, a)
<1> DEFINE g == getOrNewStateObject(d, a)
           c == CreateContract(g, a)
<1>1. SetterOK(d, g, m, a) /\ DbOK(g, m) /\ a \in g.live /\ Seen(g, a).bal = Seen(d, a).bal
  BY GetOrNewFields, Zenon
<1> HIDE DEF g
<1>2. SetterOnly(g, c, m, a)
  BY <1>1, CreateContractOK, Zenon
<1>3. SetterOK(g, c, m, a) /\ DbOK(c, m) /\ Seen(c, a).bal = Seen(g, a).bal
  BY <1>2, Zenon DEF SetterOnly, SetterOK
<1> HIDE DEF c
<1>4. 1 \in Nat
  OBVIOUS
<1>5. e = SetNonce(c, a, 1)
  BY Zenon DEF c, g
<1>6. SetterOnly(c, e, m, a)
  BY <1>3, <1>4, <1>5, SetNonceOK, Zenon
<1>7. SetterOK(d, e, m, a)
  BY <1>1, <1>3, <1>6, SetterBoth, Zenon DEF SetterOnly
<1> QED BY <1>1, <1>3, <1>6, <1>7, Zenon DEF SetterOnly

(***************************************************************************)
(* Writing the dirty objects.                                              *)
(***************************************************************************)
\* What a write that does not fail makes of account a of store st.
AccountWritten(d, st, a) ==
    LET w == WriteDirty(d, st).acct[a]
    IN  /\ a \in Clean(d) => w = st.acct[a]
        /\ a \notin Clean(d) /\ Seen(d, a).destructed => w = Absent
        /\ a \notin Clean(d) /\ ~Seen(d, a).destructed =>
              /\ w = [exists |-> TRUE, bal |-> Seen(d, a).bal, nonce |-> Seen(d, a).nonce,
                      code |-> Seen(d, a).code,
                      slot |-> IF d.obj[a].dirty = NoValue THEN st.acct[a].slot ELSE d.obj[a].dirty]
              /\ Seen(d, a).exists = TRUE
              /\ a \in Blocked => Seen(d, a).bal <= st.acct[a].bal
        /\ a \in SlotsWritten(d, st) <=>
              a \notin Clean(d) /\ ~Seen(d, a).destructed /\ d.obj[a].dirty # NoValue
        /\ a \notin Clean(d) => a \in d.live

\* This is so when no write fails.
LEMMA WriteWrites ==
    ASSUME CountFacts, NEW d, NEW m, DbOK(d, m), NEW st \in StoreType, ~CommitFails(d, st), NEW a \in Accounts
    PROVE  AccountWritten(d, st, a)
<1>1. d \in DBType
  BY Zenon DEF DbOK
<1>2. d.dirties[a] # 0 => a \in d.live
  BY DirtiesCounted, Zenon
<1>3. d.dirties[a] \in Nat
  BY <1>1, DBFields
<1>4. a \in Clean(d) <=> d.dirties[a] = 0
  BY Zenon DEF Clean
<1>5. a \in Dirty(d) <=> d.dirties[a] # 0
  BY <1>3 DEF Dirty
<1>6. Written(d, st) = Dirty(d)
  BY Zenon DEF CommitFails, Written
<1>7. WriteDirty(d, st).acct[a] =
         IF a \in Written(d, st) THEN WriteAccount(d, st, a) ELSE st.acct[a]
  BY <1>1, WriteDirtyType, Zenon
<1>8. a \in SlotsWritten(d, st) <=>
         a \in Written(d, st) /\ ~d.obj[a].destructed /\ d.obj[a].dirty # NoValue
  BY Zenon DEF SlotsWritten
<1>9. CASE a \in Clean(d)
  BY <1>4, <1>5, <1>6, <1>7, <1>8, <1>9, Zenon DEF AccountWritten
<1>10. CASE a \notin Clean(d)
  <2>1. a \in d.live /\ a \in Written(d, st) /\ a \in Dirty(d)
    BY <1>2, <1>4, <1>5, <1>6, <1>10, Zenon
  <2>2. /\ Seen(d, a).exists = TRUE /\ Seen(d, a).bal = d.obj[a].bal
        /\ Seen(d, a).nonce = d.obj[a].nonce /\ Seen(d, a).code = d.obj[a].code
        /\ Seen(d, a).destructed = d.obj[a].destructed
    BY <2>1, LiveFields, Zenon
  <2>3. WriteDirty(d, st).acct[a] = WriteAccount(d, st, a)
    BY <1>7, <2>1, Zenon
  <2>4. ~WriteFails(d, st, a)
    BY <2>1, Zenon DEF CommitFails
  <2>5. CASE d.obj[a].destructed
    <3>1. WriteAccount(d, st, a) = Absent
      BY <2>5, Zenon DEF WriteAccount
    <3> QED BY <1>8, <1>10, <2>1, <2>2, <2>3, <2>5, <3>1, Zenon DEF AccountWritten
  <2>6. CASE ~d.obj[a].destructed
    <3>1. WriteAccount(d, st, a) =
             [exists |-> TRUE, bal |-> d.obj[a].bal, nonce |-> d.obj[a].nonce,
              code |-> d.obj[a].code,
              slot |-> IF d.obj[a].dirty = NoValue THEN st.acct[a].slot ELSE d.obj[a].dirty]
      BY <2>6, Zenon DEF WriteAccount
    <3>2. ASSUME a \in Blocked PROVE Seen(d, a).bal <= st.acct[a].bal
      <4>1. ~(d.obj[a].bal > st.acct[a].bal)
        BY <2>4, <2>6, <3>2, Zenon DEF WriteFails
      <4>2. st.acct[a].bal \in Nat
        BY StoreFields, newObjectType, Zenon
      <4>3. Seen(d, a).bal \in Nat
        BY <1>1, SeenBal, Zenon
      <4> QED BY <2>2, <4>1, <4>2, <4>3
    <3> QED BY <1>8, <1>10, <2>1, <2>2, <2>3, <2>6, <3>1, <3>2, Zenon DEF AccountWritten
  <2> QED BY <2>5, <2>6
<1> QED BY <1>9, <1>10

\* What is written of an account is no more than what counts of it, and it is
\* as much when nothing is lost.
WrittenFairly(d, a) ==
    LET w == WriteDirty(d, Current(d)).acct[a].bal
    IN  /\ w \in Nat /\ Worth(d)[a] \in Nat /\ w <= Worth(d)[a]
        /\ NoLoss(d) => w = Worth(d)[a]

\* This is so when no write fails.
LEMMA WrittenWorth ==
    ASSUME CountFacts, NEW d, NEW m, DbOK(d, m), Calm(d), ~CommitFails(d, Current(d)), NEW a \in Accounts
    PROVE  WrittenFairly(d, a)
<1> DEFINE st == Current(d)
           w  == WriteDirty(d, st).acct[a]
<1>1. d \in DBType
  BY Zenon DEF DbOK
<1>2. st \in StoreType
  BY <1>1, LayersType, Zenon
<1>3. AccountWritten(d, st, a)
  BY <1>2, WriteWrites, Zenon
<1>4. WriteDirty(d, st) \in StoreType
  BY <1>1, <1>2, WriteDirtyType, Zenon
<1>5. w.bal \in Nat
  BY <1>4, StoreFields, newObjectType, Zenon
<1>6. Worth(d)[a] = IF a \in Blocked THEN st.acct[a].bal ELSE Seen(d, a).bal
  BY DEF Worth
<1>7. Worth(d)[a] \in Nat
  BY <1>1, WorthType
<1>8. CASE a \in Clean(d)
  <2>1. w = st.acct[a]
    BY <1>3, <1>8, Zenon DEF AccountWritten
  <2>2. a \notin Blocked => st.acct[a].bal = Seen(d, a).bal
    BY <1>8, Zenon DEF Calm, Matches
  <2>3. w.bal = Worth(d)[a]
    BY <1>6, <2>1, <2>2, Zenon
  <2> QED BY <1>5, <2>3 DEF WrittenFairly
<1>9. CASE a \notin Clean(d) /\ Seen(d, a).destructed
  <2>1. w = Absent
    BY <1>3, <1>9, Zenon DEF AccountWritten
  <2>2. w.bal = 0
    BY <2>1 DEF Absent
  <2>3. ~NoLoss(d)
    BY <1>9, Zenon DEF NoLoss
  <2> QED BY <1>5, <1>7, <2>2, <2>3 DEF WrittenFairly
<1>10. CASE a \notin Clean(d) /\ ~Seen(d, a).destructed
  <2>1. /\ w = [exists |-> TRUE, bal |-> Seen(d, a).bal, nonce |-> Seen(d, a).nonce,
                code |-> Seen(d, a).code,
                slot |-> IF d.obj[a].dirty = NoValue THEN st.acct[a].slot ELSE d.obj[a].dirty]
        /\ a \in Blocked => Seen(d, a).bal <= st.acct[a].bal
    BY <1>3, <1>10, Zenon DEF AccountWritten
  <2>2. w.bal = Seen(d, a).bal
    BY <2>1
  <2> HIDE DEF w, st
  <2>3. CASE a \in Blocked
    <3>1. ~NoLoss(d)
      BY <1>10, <2>3, Zenon DEF NoLoss
    <3> QED BY <1>5, <1>6, <1>7, <2>1, <2>2, <2>3, <3>1 DEF w, st, WrittenFairly
  <2>4. CASE a \notin Blocked
    <3>1. w.bal = Worth(d)[a]
      BY <1>6, <2>2, <2>4, Zenon
    <3> QED BY <1>5, <3>1 DEF w, st, WrittenFairly
  <2> QED BY <2>3, <2>4
<1> QED BY <1>8, <1>9, <1>10

\* The state d of a call whose flush has succeeded: what the EVM sees of an
\* account is in the stores, unless it is blocked or destructed.
Flushed(d) ==
    /\ \A a \in Accounts \ Blocked :
          IF Seen(d, a).destructed THEN Current(d).acct[a].bal = 0 ELSE Matches(d, Current(d), a)
    /\ \A a \in Accounts \ d.flushed :
          ~Seen(d, a).destructed => Current(d).acct[a].slot = d.ctx.acct[a].slot
    /\ \A a \in Clean(d) \ d.flushed : GetState(d, a) = d.ctx.acct[a].slot
    /\ \A a \in Clean(d) \ Blocked : ~Seen(d, a).destructed
    /\ Solvent(d)

\* A flush that succeeds leaves the stores as the EVM sees them.
LEMMA FlushSettles ==
    ASSUME SumFacts, CountFacts, NEW d, NEW m, DbOK(d, m), Calm(d), Solvent(d), ~CommitFails(d, Current(d)), NEW e,
           FlushDone(d, e, m)
    PROVE  Flushed(e)
<1> DEFINE st == Current(d)
<1>1. d \in DBType /\ e \in DBType
  BY Zenon DEF DbOK, FlushDone
<1>2. st \in StoreType
  BY <1>1, LayersType, Zenon
<1>3. /\ Current(e) = WriteDirty(d, st) /\ e.ctx = d.ctx /\ e.dirties = d.dirties
      /\ e.flushed = d.flushed \union SlotsWritten(d, st)
      /\ \A a \in Accounts : Seen(e, a) = Seen(d, a) /\ GetState(e, a) = GetState(d, a)
  BY Zenon DEF FlushDone, KeepsJournal
<1>4. Clean(e) = Clean(d) /\ Clean(d) \subseteq Accounts
  BY <1>3, Zenon DEF Clean
<1>5. \A a \in Accounts : AccountWritten(d, st, a)
  BY <1>2, WriteWrites, Zenon
<1> HIDE DEF st
<1>6. ASSUME NEW a \in Accounts \ Blocked
      PROVE  IF Seen(e, a).destructed THEN Current(e).acct[a].bal = 0 ELSE Matches(e, Current(e), a)
  <2>1. CASE a \in Clean(d)
    <3>1. Matches(d, st, a)
      BY <2>1, Zenon DEF Calm, st
    <3>2. Current(e).acct[a] = st.acct[a]
      BY <1>3, <1>5, <2>1, Zenon DEF AccountWritten
    <3> QED BY <1>3, <3>1, <3>2, Zenon DEF Matches
  <2>2. CASE a \notin Clean(d) /\ Seen(d, a).destructed
    <3>1. Current(e).acct[a] = Absent
      BY <1>3, <1>5, <2>2, Zenon DEF AccountWritten
    <3>2. Current(e).acct[a].bal = 0
      BY <3>1 DEF Absent
    <3> QED BY <1>3, <2>2, <3>2, Zenon
  <2>3. CASE a \notin Clean(d) /\ ~Seen(d, a).destructed
    <3> DEFINE s == Seen(d, a)
               v == IF d.obj[a].dirty = NoValue THEN st.acct[a].slot ELSE d.obj[a].dirty
               r == [exists |-> TRUE, bal |-> s.bal, nonce |-> s.nonce, code |-> s.code, slot |-> v]
    <3>1. Current(e).acct[a] = r /\ s.exists = TRUE
      BY <1>3, <1>5, <2>3, Zenon DEF AccountWritten
    <3> HIDE DEF v, s
    <3>2. r.exists = TRUE /\ r.bal = s.bal /\ r.nonce = s.nonce /\ r.code = s.code
      BY Zenon
    <3> HIDE DEF r
    <3>3. Matches(e, Current(e), a)
      BY <1>3, <2>3, <3>1, <3>2, Zenon DEF Matches, s
    <3> QED BY <1>3, <2>3, <3>3, Zenon
  <2> QED BY <2>1, <2>2, <2>3, Zenon
<1>7. ASSUME NEW a \in Accounts \ e.flushed, ~Seen(e, a).destructed
      PROVE  Current(e).acct[a].slot = e.ctx.acct[a].slot
  <2>1. st.acct[a].slot = d.ctx.acct[a].slot
    BY <1>3, <1>7, Zenon DEF Calm, st
  <2>2. CASE a \in Clean(d)
    <3>1. Current(e).acct[a] = st.acct[a]
      BY <1>3, <1>5, <2>2, Zenon DEF AccountWritten
    <3> QED BY <1>3, <2>1, <3>1, Zenon
  <2>3. CASE a \notin Clean(d)
    <3> DEFINE s == Seen(d, a)
               v == IF d.obj[a].dirty = NoValue THEN st.acct[a].slot ELSE d.obj[a].dirty
               r == [exists |-> TRUE, bal |-> s.bal, nonce |-> s.nonce, code |-> s.code, slot |-> v]
    <3>1. ~s.destructed
      BY <1>3, <1>7, Zenon
    <3>2. Current(e).acct[a] = r
      BY <1>3, <1>5, <2>3, <3>1, Zenon DEF AccountWritten
    <3>3. a \notin SlotsWritten(d, st)
      BY <1>3, Zenon
    <3>4. d.obj[a].dirty = NoValue
      BY <1>5, <2>3, <3>1, <3>3, Zenon DEF AccountWritten
    <3>5. v = st.acct[a].slot
      BY <3>4, Zenon
    <3> HIDE DEF v, s
    <3>6. r.slot = v
      BY Zenon
    <3> HIDE DEF r
    <3> QED BY <1>3, <2>1, <3>2, <3>5, <3>6, Zenon
  <2> QED BY <2>2, <2>3
<1>8. \A a \in Clean(e) \ e.flushed : GetState(e, a) = e.ctx.acct[a].slot
  BY <1>3, <1>4, Zenon DEF Calm
<1>9. \A a \in Clean(e) \ Blocked : ~Seen(e, a).destructed
  BY <1>3, <1>4, Zenon DEF Calm, Matches
<1>10. Solvent(e)
  <2> DEFINE f == Worth(e)
             g == Worth(d)
  <2>1. /\ f \in [Accounts -> Nat] /\ g \in [Accounts -> Nat]
        /\ SumTo(f, N) \in Nat /\ SumTo(g, N) \in Nat /\ Total(d.ctx) \in Nat
    BY <1>1, WorthType, SumsType, Zenon
  <2>2. \A a \in Accounts : f[a] = IF a \in Blocked THEN WriteDirty(d, st).acct[a].bal ELSE g[a]
    BY <1>3 DEF Worth
  <2>3. \A a \in Accounts : WrittenFairly(d, a)
    BY WrittenWorth, Zenon
  <2> HIDE DEF f, g
  <2>4. \A a \in Accounts : f[a] <= g[a] /\ (NoLoss(d) => f[a] = g[a])
    BY <2>1, <2>2, <2>3 DEF WrittenFairly, st, g
  <2>5. SumTo(f, N) <= SumTo(g, N)
    BY <2>1, <2>4, Zenon DEF SumFacts
  <2>6. NoLoss(d) => f = g
    BY <2>1, <2>4
  <2>7. NoLoss(e) <=> NoLoss(d)
    BY <1>3, <1>4, Zenon DEF NoLoss
  <2>8. SumTo(g, N) <= Total(d.ctx) /\ (NoLoss(d) => SumTo(g, N) = Total(d.ctx))
    BY Zenon DEF Solvent, g
  <2>9. SumTo(f, N) <= Total(d.ctx)
    BY <2>1, <2>5, <2>8
  <2> QED BY <1>3, <2>6, <2>7, <2>8, <2>9, Zenon DEF Solvent, f
<1> QED BY <1>6, <1>7, <1>8, <1>9, <1>10, Zenon DEF Flushed

(***************************************************************************)
(* The balances after a precompile's send.                                 *)
(***************************************************************************)
\* State t differs from d in that the precompile has worked on the branch,
\* which is now st.
Paid(d, t, m, st) ==
    /\ DbOK(t, m) /\ Current(t) = st /\ t.ctx = d.ctx /\ t.flushed = d.flushed
    /\ t.dirties = d.dirties
    /\ \A a \in Accounts : Seen(t, a) = Seen(d, a) /\ GetState(t, a) = GetState(d, a)

\* Of the coins that count, those of blocked addresses have moved.
PaidSum(d, t, from, to, amount) ==
    /\ SumTo(Worth(d), N) \in Nat /\ SumTo(Worth(t), N) \in Nat
    /\ SumTo(Worth(t), N) =
          (SumTo(Worth(d), N) - (IF from \in Blocked THEN amount ELSE 0))
             + (IF to \in Blocked THEN amount ELSE 0)

\* This is so when the spender has them.
LEMMA PaidWorth ==
    ASSUME SumFacts, NEW d \in DBType, NEW m, NEW from \in Accounts, NEW to \in Accounts, from # to,
           NEW amount \in Nat \ {0}, CanSend(Current(d), from, amount), NEW t,
           Paid(d, t, m, BankSend(Current(d), from, to, amount))
    PROVE  PaidSum(d, t, from, to, amount)
<1> DEFINE c == Current(d)
           s == BankSend(c, from, to, amount)
           f == Worth(d)
           h == Worth(t)
           g == [f EXCEPT ![from] = h[from]]
<1>1. t \in DBType /\ Current(t) = s /\ \A a \in Accounts : Seen(t, a) = Seen(d, a)
  BY Zenon DEF Paid, DbOK
<1>2. c \in StoreType /\ \A a \in Accounts : c.acct[a].bal \in Nat
  BY LayersType, StoreFields, newObjectType, Zenon
<1>3. /\ s.acct[from].bal = c.acct[from].bal - amount /\ s.acct[to].bal = c.acct[to].bal + amount
      /\ \A a \in Accounts : a # from /\ a # to => s.acct[a] = c.acct[a]
  <2>1. Sent(c, s, from, to, amount)
    BY <1>2, BankSendType, Zenon
  <2> QED BY <2>1, Zenon DEF Sent
<1> HIDE DEF s
<1>4. \A a \in Accounts :
         /\ f[a] = IF a \in Blocked THEN c.acct[a].bal ELSE Seen(d, a).bal
         /\ h[a] = IF a \in Blocked THEN s.acct[a].bal ELSE Seen(d, a).bal
  BY <1>1 DEF Worth
<1>5. f \in [Accounts -> Nat] /\ h \in [Accounts -> Nat]
  BY <1>1, WorthType, Zenon
<1>6. SumTo(f, N) \in Nat /\ SumTo(h, N) \in Nat
  BY <1>1, SumsType, Zenon
<1> HIDE DEF f, h, c
<1>7. /\ h[from] - f[from] = 0 - (IF from \in Blocked THEN amount ELSE 0)
      /\ h[to] - f[to] = IF to \in Blocked THEN amount ELSE 0
      /\ \A a \in Accounts : a # from /\ a # to => h[a] = f[a]
  BY <1>2, <1>3, <1>4, <1>5
<1>8. /\ g \in [Accounts -> Nat] /\ g[from] = h[from] /\ g[to] = f[to]
      /\ \A a \in Accounts : a # from => g[a] = f[a]
      /\ \A a \in Accounts : a # to => h[a] = g[a]
  BY <1>5, <1>7
<1> HIDE DEF g
<1>9. /\ SumTo(g, N) = SumTo(f, N) + (g[from] - f[from])
      /\ SumTo(h, N) = SumTo(g, N) + (h[to] - g[to])
  BY <1>5, <1>8, Zenon DEF SumFacts
<1>10. SumTo(h, N) = (SumTo(f, N) - (IF from \in Blocked THEN amount ELSE 0))
                        + (IF to \in Blocked THEN amount ELSE 0)
  BY <1>6, <1>7, <1>8, <1>9
<1> QED BY <1>6, <1>10, Zenon DEF PaidSum, f, h

\* A bank event applied to account a: a balance that is not blocked changes by
\* delta, and the account becomes dirty.
Applied(d, e, m, a, delta) ==
    /\ DbOK(e, m) /\ Keeps(d, e) /\ SameElsewhere(d, e, a)
    /\ a \notin Blocked => e.dirties[a] # 0
    /\ SumTo(Worth(e), N) \in Nat /\ SumTo(Worth(d), N) \in Nat
    /\ SumTo(Worth(e), N) = SumTo(Worth(d), N) + (IF a \in Blocked THEN 0 ELSE delta)

\* A blocked address is passed over.
LEMMA SkipApplied ==
    ASSUME SumFacts, NEW d, NEW m, DbOK(d, m), NEW a \in Blocked, NEW delta
    PROVE  Applied(d, d, m, a, delta)
<1>1. d \in DBType
  BY Zenon DEF DbOK
<1>2. SumTo(Worth(d), N) \in Nat
  BY <1>1, SumsType, Zenon
<1>3. SumTo(Worth(d), N) = SumTo(Worth(d), N) + (IF a \in Blocked THEN 0 ELSE delta)
  BY <1>2
<1>4. Keeps(d, d) /\ SameElsewhere(d, d, a)
  BY Zenon DEF Keeps, KeepsStores, KeepsRevisions, SameAccount, SameElsewhere
<1> QED BY <1>2, <1>3, <1>4, Zenon DEF Applied

\* Another is debited or credited.
LEMMA SetApplied ==
    ASSUME SumFacts, NEW d, NEW m, DbOK(d, m), NEW a \in Accounts \ Blocked, NEW delta \in Int \ {0},
           NEW e, BalanceSet(d, e, m, a, Seen(d, a).bal + delta)
    PROVE  Applied(d, e, m, a, delta)
<1>1. /\ DbOK(e, m) /\ Keeps(d, e) /\ SameElsewhere(d, e, a)
      /\ Seen(e, a).bal = Seen(d, a).bal + delta
      /\ Seen(d, a).bal + delta # Seen(d, a).bal => e.dirties[a] # 0
  BY Zenon DEF BalanceSet, SetterOK
<1>2. d \in DBType /\ e \in DBType
  BY <1>1, Zenon DEF DbOK
<1>3. BalanceMoved(d, e, a, Seen(d, a).bal + delta)
  BY <1>1, <1>2, BalanceSum, Zenon
<1>4. /\ SumTo(Worth(e), N) \in Nat /\ SumTo(Worth(d), N) \in Nat /\ Seen(d, a).bal \in Nat
      /\ SumTo(Worth(e), N) = SumTo(Worth(d), N) + ((Seen(d, a).bal + delta) - Seen(d, a).bal)
  BY <1>3, Zenon DEF BalanceMoved
<1>5. SumTo(Worth(e), N) = SumTo(Worth(d), N) + delta /\ Seen(d, a).bal + delta # Seen(d, a).bal
  BY <1>4
<1> QED BY <1>1, <1>4, <1>5, Zenon DEF Applied

\* After a precompile call that succeeds the balances of the objects are again
\* those of the stores.
LEMMA CallSettles ==
    ASSUME SumFacts, NEW d, NEW m, DbOK(d, m), Flushed(d),
           NEW from \in Accounts, NEW to \in Accounts, from # to,
           NEW amount \in Nat \ {0}, CanSend(Current(d), from, amount), NEW t,
           Paid(d, t, m, BankSend(Current(d), from, to, amount)),
           NEW e, e = AfterBalanceChange(t, from, to, amount)
    PROVE  DbOK(e, m) /\ Keeps(t, e) /\ Calm(e) /\ Solvent(e)
<1> DEFINE c == Current(d)
           p == IF from \in Blocked THEN t ELSE SubBalance(t, from, amount)
<1>1. d \in DBType
  BY Zenon DEF DbOK
<1>2. /\ DbOK(t, m) /\ t.ctx = d.ctx /\ t.flushed = d.flushed /\ t.dirties = d.dirties
      /\ Current(t) = BankSend(c, from, to, amount)
      /\ \A a \in Accounts : Seen(t, a) = Seen(d, a) /\ GetState(t, a) = GetState(d, a)
  BY Zenon DEF Paid
<1>3. PaidSum(d, t, from, to, amount)
  BY <1>1, PaidWorth, Zenon
<1>4. Sent(c, Current(t), from, to, amount)
  <2>1. c \in StoreType
    BY <1>1, LayersType, Zenon
  <2>2. Sent(c, BankSend(c, from, to, amount), from, to, amount)
    BY <2>1, BankSendType, Zenon
  <2> QED BY <1>2, <2>2, Zenon
<1>5. Applied(t, p, m, from, 0 - amount)
  <2>1. CASE from \in Blocked
    BY <1>2, <2>1, SkipApplied, Zenon
  <2>2. CASE from \notin Blocked
    <3>1. IF Seen(d, from).destructed THEN c.acct[from].bal = 0 ELSE Matches(d, c, from)
      BY <2>2, Zenon DEF Flushed
    <3>2. c.acct[from].bal >= amount
      BY Zenon DEF CanSend
    <3>3. c.acct[from].bal = 0 \/ c.acct[from].bal = Seen(t, from).bal
      BY <1>2, <3>1, Zenon DEF Matches
    <3>4. Seen(t, from).bal >= amount
      BY <3>2, <3>3
    <3>5. amount \in Nat /\ 0 - amount \in Int \ {0}
      OBVIOUS
    <3>6. BalanceSet(t, p, m, from, Seen(t, from).bal - amount)
      BY <1>2, <2>2, <3>4, <3>5, SubBalanceOK, Zenon
    <3>7. Seen(t, from).bal - amount = Seen(t, from).bal + (0 - amount)
      <4>1. t \in DBType
        BY <1>2, Zenon DEF DbOK
      <4>2. Seen(t, from).bal \in Nat
        BY <4>1, SeenBal, Zenon
      <4> QED BY <4>2
    <3>8. BalanceSet(t, p, m, from, Seen(t, from).bal + (0 - amount))
      BY <3>6, <3>7, Zenon
    <3>9. from \in Accounts \ Blocked
      BY <2>2, Zenon
    <3> HIDE DEF p
    <3> QED BY <1>2, <3>5, <3>8, <3>9, SetApplied, Zenon
  <2> QED BY <2>1, <2>2
<1>6. e = IF to \in Blocked THEN p ELSE AddBalance(p, to, amount)
  BY Zenon DEF AfterBalanceChange
<1> HIDE DEF p, c
<1>7. DbOK(p, m) /\ Keeps(t, p)
  BY <1>5, Zenon DEF Applied
<1>8. Applied(p, e, m, to, amount)
  <2>1. CASE to \in Blocked
    BY <1>6, <1>7, <2>1, SkipApplied, Zenon
  <2>2. CASE to \notin Blocked
    <3>1. amount \in Nat /\ amount \in Int \ {0}
      OBVIOUS
    <3>2. BalanceSet(p, e, m, to, Seen(p, to).bal + amount)
      BY <1>6, <1>7, <2>2, <3>1, AddBalanceOK, Zenon
    <3> QED BY <1>7, <2>2, <3>1, <3>2, SetApplied, Zenon
  <2> QED BY <2>1, <2>2
<1>9. DbOK(e, m) /\ Keeps(p, e) /\ Keeps(t, e)
  BY <1>7, <1>8, KeepsBoth, Zenon DEF Applied
<1>10. e.ctx = d.ctx /\ e.flushed = d.flushed /\ Current(e) = Current(t)
  <2>1. KeepsStores(t, e)
    BY <1>9, Zenon DEF Keeps
  <2> QED BY <1>2, <2>1, Zenon DEF KeepsStores, Current
<1>11. \A a \in Clean(e) : a \in Clean(d) /\ a \in Accounts /\ SameAccount(t, e, a)
  BY <1>2, <1>9, Zenon DEF Keeps, Clean
<1>12. \A a \in Accounts : ~Seen(e, a).destructed => ~Seen(d, a).destructed
  BY <1>2, <1>9, Zenon DEF Keeps
<1>13. \A a \in Clean(e) \ Blocked : a # from /\ a # to
  <2>1. from \notin Blocked => p.dirties[from] # 0
    BY <1>5, Zenon DEF Applied
  <2>2. to \notin Blocked => e.dirties[to] # 0
    BY <1>8, Zenon DEF Applied
  <2>3. from \notin Blocked => e.dirties[from] # 0
    BY <1>9, <2>1, Zenon DEF Keeps
  <2> QED BY <2>2, <2>3, Zenon DEF Clean
<1>14. Calm(e)
  <2>1. ASSUME NEW a \in Clean(e) \ Blocked PROVE Matches(e, Current(e), a)
    <3>1. a \in Accounts /\ a \in Clean(d) /\ a # from /\ a # to /\ SameAccount(t, e, a)
      BY <1>11, <1>13, Zenon
    <3>2. Current(t).acct[a] = c.acct[a]
      BY <1>4, <3>1, Zenon DEF Sent
    <3>3. Matches(d, c, a)
      BY <3>1, Zenon DEF Flushed, c
    <3> QED BY <1>2, <1>10, <3>1, <3>2, <3>3, Zenon DEF Matches, SameAccount
  <2>2. ASSUME NEW a \in Accounts \ e.flushed, ~Seen(e, a).destructed
        PROVE  Current(e).acct[a].slot = e.ctx.acct[a].slot
    <3>1. Current(t).acct[a].slot = c.acct[a].slot
      BY <1>4, Zenon DEF Sent
    <3>2. c.acct[a].slot = d.ctx.acct[a].slot
      BY <1>10, <1>12, <2>2, Zenon DEF Flushed, c
    <3> QED BY <1>10, <3>1, <3>2, Zenon
  <2>3. ASSUME NEW a \in Clean(e) \ e.flushed PROVE GetState(e, a) = e.ctx.acct[a].slot
    <3>1. a \in Accounts /\ a \in Clean(d) /\ SameAccount(t, e, a)
      BY <1>11, Zenon
    <3>2. GetState(d, a) = d.ctx.acct[a].slot
      BY <1>10, <3>1, Zenon DEF Flushed
    <3> QED BY <1>2, <1>10, <3>1, <3>2, Zenon DEF SameAccount
  <2> QED BY <2>1, <2>2, <2>3, Zenon DEF Calm
<1>15. Solvent(e)
  <2>1. NoLoss(e) => NoLoss(d)
    BY <1>11, <1>12, Zenon DEF NoLoss
  <2>2. /\ SumTo(Worth(d), N) <= Total(d.ctx)
        /\ NoLoss(d) => SumTo(Worth(d), N) = Total(d.ctx)
    BY Zenon DEF Flushed, Solvent
  <2>3. SumTo(Worth(e), N) = SumTo(Worth(d), N)
    <3>1. /\ SumTo(Worth(d), N) \in Nat /\ SumTo(Worth(t), N) \in Nat
          /\ SumTo(Worth(t), N) =
                (SumTo(Worth(d), N) - (IF from \in Blocked THEN amount ELSE 0))
                   + (IF to \in Blocked THEN amount ELSE 0)
      BY <1>3, Zenon DEF PaidSum
    <3>2. /\ SumTo(Worth(p), N) \in Nat
          /\ SumTo(Worth(p), N) =
                SumTo(Worth(t), N) + (IF from \in Blocked THEN 0 ELSE 0 - amount)
      BY <1>5, Zenon DEF Applied
    <3>3. /\ SumTo(Worth(e), N) \in Nat
          /\ SumTo(Worth(e), N) = SumTo(Worth(p), N) + (IF to \in Blocked THEN 0 ELSE amount)
      BY <1>8, Zenon DEF Applied
    <3> QED BY <3>1, <3>2, <3>3
  <2> QED BY <1>10, <2>1, <2>2, <2>3, Zenon DEF Solvent
<1> QED BY <1>9, <1>14, <1>15, Zenon

(***************************************************************************)
(* Commit.                                                                 *)
(***************************************************************************)
\* The view's fields of an account are what is seen of it.
Displays(d, v, a) ==
    /\ v.exists = Seen(d, a).exists /\ v.bal = Seen(d, a).bal /\ v.nonce = Seen(d, a).nonce
    /\ v.code = Seen(d, a).code /\ v.destructed = Seen(d, a).destructed
    /\ v.slot = GetState(d, a)

\* This is so of View.
LEMMA ViewDisplays ==
    ASSUME NEW d \in DBType, Accessible(d), NEW a \in Accounts
    PROVE  Displays(d, View(d).acct[a], a)
<1>1. /\ Shows(View(d), Abs(d))
      /\ View(d).acct[a].slot = GetState(d, a)
  BY ViewShows, Zenon
<1>2. Abs(d).acct[a] = Seen(d, a)
  BY AbsFields, Zenon
<1> QED BY <1>1, <1>2, Zenon DEF Shows, Displays

\* An account that the stores have is a record of five fields.
LEMMA StoredRecord ==
    ASSUME NEW s \in StoredAccounts
    PROVE  s = [exists |-> s.exists, bal |-> s.bal, nonce |-> s.nonce, code |-> s.code,
                slot |-> s.slot]
BY DEF StoredAccounts, Absent

\* The store w has account a as the view v of it, or for its slot.
Persists(w, v, a, flushed) ==
    w.acct[a] = IF a \in flushed THEN [Persisted(v) EXCEPT !.slot = w.acct[a].slot]
                ELSE Persisted(v)

\* A store persists an account when its fields are those of the view.
LEMMA PersistsWhen ==
    ASSUME NEW w \in StoreType, NEW a \in Accounts, NEW v, NEW F,
           IF v.destructed THEN w.acct[a] = Absent
           ELSE /\ w.acct[a].exists = v.exists /\ w.acct[a].bal = v.bal
                /\ w.acct[a].nonce = v.nonce /\ w.acct[a].code = v.code
                /\ a \notin F => w.acct[a].slot = v.slot
    PROVE  Persists(w, v, a, F)
<1> DEFINE s == w.acct[a]
<1>1. s \in StoredAccounts
  BY StoreFields, Zenon
<1> HIDE DEF s
<1>2. s = [exists |-> s.exists, bal |-> s.bal, nonce |-> s.nonce, code |-> s.code,
           slot |-> s.slot]
  BY <1>1, StoredRecord, Zenon
<1>3. CASE v.destructed
  <2>1. s = Absent /\ Persisted(v) = Absent
    BY <1>3, Zenon DEF s, Persisted
  <2>2. [Absent EXCEPT !.slot = Absent.slot] = Absent
    BY DEF Absent
  <2> QED BY <2>1, <2>2, Zenon DEF Persists, s
<1>4. CASE ~v.destructed
  <2>1. /\ s.exists = v.exists /\ s.bal = v.bal /\ s.nonce = v.nonce /\ s.code = v.code
        /\ a \notin F => s.slot = v.slot
    BY <1>4, Zenon DEF s
  <2> DEFINE p == [exists |-> s.exists, bal |-> s.bal, nonce |-> s.nonce, code |-> s.code,
                   slot |-> v.slot]
  <2>2. Persisted(v) = p
    BY <1>4, <2>1, Zenon DEF Persisted
  <2>3. [p EXCEPT !.slot = s.slot] = s
    BY <1>2, SMT
  <2>4. v.slot = s.slot => p = s
    BY <1>2, Zenon
  <2> HIDE DEF p
  <2>5. CASE a \in F
    BY <2>2, <2>3, <2>5, Zenon DEF Persists, s
  <2>6. CASE a \notin F
    BY <2>1, <2>2, <2>4, <2>6, Zenon DEF Persists, s
  <2> QED BY <2>5, <2>6
<1> QED BY <1>3, <1>4

\* What Commit writes of an account that is not blocked is what the EVM saw.
LEMMA CommitPersists ==
    ASSUME CountFacts, NEW d, Ready(d), ~CommitFails(d, Current(d)),
           NEW a \in Accounts \ Blocked
    PROVE  Persists(WriteDirty(d, Current(d)), View(d).acct[a], a, d.flushed)
<1> DEFINE st == Current(d)
           w  == WriteDirty(d, st)
           v  == View(d).acct[a]
           m  == Len(d.revisions)
<1>1. DbOK(d, m) /\ Calm(d)
  BY ReadyWhen, Zenon
<1>2. d \in DBType /\ Accessible(d) /\ Unflushed(d)
  BY <1>1, Zenon DEF DbOK
<1>3. st \in StoreType
  BY <1>2, LayersType, Zenon
<1>4. w \in StoreType
  BY <1>2, <1>3, WriteDirtyType, Zenon
<1>5. AccountWritten(d, st, a)
  BY <1>1, <1>3, WriteWrites, Zenon
<1>6. Displays(d, v, a)
  BY <1>2, ViewDisplays, Zenon
<1>7. a \notin d.flushed /\ ~Seen(d, a).destructed => st.acct[a].slot = d.ctx.acct[a].slot
  BY <1>1, Zenon DEF Calm
<1> HIDE DEF v, w, st
<1>8. CASE a \in Clean(d)
  <2>1. w.acct[a] = st.acct[a]
    BY <1>5, <1>8, Zenon DEF AccountWritten, w
  <2>2. Matches(d, st, a)
    BY <1>1, <1>8, Zenon DEF Calm, st
  <2>3. a \notin d.flushed => GetState(d, a) = d.ctx.acct[a].slot
    BY <1>1, <1>8, Zenon DEF Calm
  <2>4. /\ ~v.destructed /\ w.acct[a].exists = v.exists /\ w.acct[a].bal = v.bal
        /\ w.acct[a].nonce = v.nonce /\ w.acct[a].code = v.code
        /\ a \notin d.flushed => w.acct[a].slot = v.slot
    BY <1>6, <1>7, <2>1, <2>2, <2>3, Zenon DEF Matches, Displays
  <2>5. Persists(w, v, a, d.flushed)
    BY <1>4, <2>4, PersistsWhen, Zenon
  <2> QED BY <2>5, Zenon DEF w, v, st
<1>9. CASE a \notin Clean(d) /\ Seen(d, a).destructed
  <2>1. w.acct[a] = Absent /\ v.destructed
    BY <1>5, <1>6, <1>9, Zenon DEF AccountWritten, Displays, w
  <2>2. Persists(w, v, a, d.flushed)
    BY <1>4, <2>1, PersistsWhen, Zenon
  <2> QED BY <2>2, Zenon DEF w, v, st
<1>10. CASE a \notin Clean(d) /\ ~Seen(d, a).destructed
  <2> DEFINE s == Seen(d, a)
             x == IF d.obj[a].dirty = NoValue THEN st.acct[a].slot ELSE d.obj[a].dirty
             r == [exists |-> TRUE, bal |-> s.bal, nonce |-> s.nonce, code |-> s.code, slot |-> x]
  <2>1. w.acct[a] = r /\ s.exists = TRUE /\ a \in d.live
    BY <1>5, <1>10, Zenon DEF AccountWritten, w
  <2>2. a \notin d.flushed => x = GetState(d, a)
    <3>1. a \notin d.flushed => d.obj[a].origin = NoValue
      BY <1>2, <2>1, Zenon DEF Unflushed
    <3> QED BY <1>7, <1>10, <2>1, <3>1, Zenon DEF GetState, GetCommittedState
  <2> HIDE DEF s, x
  <2>3. r.exists = TRUE /\ r.bal = s.bal /\ r.nonce = s.nonce /\ r.code = s.code /\ r.slot = x
    BY Zenon
  <2> HIDE DEF r
  <2>4. /\ ~v.destructed /\ w.acct[a].exists = v.exists /\ w.acct[a].bal = v.bal
        /\ w.acct[a].nonce = v.nonce /\ w.acct[a].code = v.code
        /\ a \notin d.flushed => w.acct[a].slot = v.slot
    BY <1>6, <1>10, <2>1, <2>2, <2>3, Zenon DEF Displays, s
  <2>5. Persists(w, v, a, d.flushed)
    BY <1>4, <2>4, PersistsWhen, Zenon
  <2> QED BY <2>5, Zenon DEF w, v, st
<1> QED BY <1>8, <1>9, <1>10, Zenon

\* What Commit writes of a blocked account that is clean is what the stores had.
LEMMA CommitKeeps ==
    ASSUME CountFacts, NEW d, Ready(d), ~CommitFails(d, Current(d)),
           NEW a \in Accounts, d.dirties[a] = 0
    PROVE  /\ WriteDirty(d, Current(d)).acct[a] = Current(d).acct[a]
           /\ [Current(d).acct[a] EXCEPT !.slot = Current(d).acct[a].slot] = Current(d).acct[a]
<1> DEFINE s == Current(d).acct[a]
<1>1. DbOK(d, Len(d.revisions))
  BY Zenon DEF Ready
<1>2. Current(d) \in StoreType
  BY <1>1, LayersType, Zenon DEF DbOK
<1>3. AccountWritten(d, Current(d), a) /\ a \in Clean(d)
  BY <1>1, <1>2, WriteWrites, Zenon DEF Clean
<1>4. s \in StoredAccounts
  BY <1>2, StoreFields, Zenon
<1> HIDE DEF s
<1>5. [s EXCEPT !.slot = s.slot] = s
  BY <1>4, StoredRecord
<1> QED BY <1>3, <1>5, Zenon DEF AccountWritten, s

\* The coins after Commit.
LEMMA CommitTotal ==
    ASSUME SumFacts, CountFacts, NEW d, Ready(d), ~CommitFails(d, Current(d))
    PROVE  /\ Total(WriteDirty(d, Current(d))) <= Total(d.ctx)
           /\ NoLoss(d) => Total(WriteDirty(d, Current(d))) = Total(d.ctx)
<1> DEFINE w == WriteDirty(d, Current(d))
           f == [a \in Accounts |-> w.acct[a].bal]
           g == Worth(d)
<1>1. DbOK(d, Len(d.revisions)) /\ Calm(d) /\ Solvent(d)
  BY ReadyWhen, Zenon
<1>2. d \in DBType
  BY <1>1, Zenon DEF DbOK
<1>3. g \in [Accounts -> Nat] /\ SumTo(g, N) \in Nat /\ Total(d.ctx) \in Nat
  BY <1>2, WorthType, SumsType, Zenon
<1>4. \A a \in Accounts : WrittenFairly(d, a)
  BY <1>1, WrittenWorth, Zenon
<1>5. \A a \in Accounts : w.acct[a].bal \in Nat /\ w.acct[a].bal <= g[a] /\ (NoLoss(d) => w.acct[a].bal = g[a])
  BY <1>4, Zenon DEF WrittenFairly
<1> HIDE DEF g, w
<1>6. f \in [Accounts -> Nat] /\ \A a \in Accounts : f[a] <= g[a] /\ (NoLoss(d) => f[a] = g[a])
  BY <1>5
<1>7. Total(w) = SumTo(f, N)
  BY Zenon DEF Total
<1> HIDE DEF f
<1>8. SumTo(f, N) <= SumTo(g, N) /\ SumTo(f, N) \in Nat
  BY <1>3, <1>6, Zenon DEF SumFacts
<1>9. NoLoss(d) => f = g
  BY <1>3, <1>6
<1>10. SumTo(g, N) <= Total(d.ctx) /\ (NoLoss(d) => SumTo(g, N) = Total(d.ctx))
  BY <1>1, Zenon DEF Solvent, g
<1>11. Total(w) <= Total(d.ctx)
  BY <1>3, <1>7, <1>8, <1>10
<1>12. NoLoss(d) => Total(w) = Total(d.ctx)
  BY <1>7, <1>9, <1>10, Zenon
<1> QED BY <1>11, <1>12, Zenon DEF w

(***************************************************************************)
(* The start of a transaction, a precompile call, and the end.             *)
(***************************************************************************)
\* A new StateDB is ready.
LEMMA NewReady ==
    ASSUME SumFacts, NEW s \in StoreType
    PROVE  Ready(New(s)) /\ New(s).revisions = << >>
<1> DEFINE d == New(s)
<1>1. /\ d.ctx = s /\ d.cache = << >> /\ d.live = {} /\ d.journal = << >>
      /\ d.revisions = << >> /\ d.flushed = {}
      /\ d.dirties = [a \in Accounts |-> 0] /\ d.addresses = [a \in Accounts |-> NotListed]
  BY Zenon DEF New
<1>2. d \in DBType
  <2>1. [a \in Accounts |-> newObject(Absent)] \in [Accounts -> Objects]
    BY AbsentType, newObjectType
  <2>2. /\ [a \in Accounts |-> 0] \in [Accounts -> Values]
        /\ [a \in Accounts |-> 0] \in [Accounts -> Nat]
        /\ [a \in Accounts |-> NotListed] \in [Accounts -> Int] /\ 0 \in Nat
    BY ValuesAssumption DEF NotListed
  <2>3. /\ << >> \in Seq(StoreType) /\ << >> \in Seq(JournalEntries)
        /\ << >> \in Seq(Revisions) /\ << >> \in Seq(SlotLists)
    OBVIOUS
  <2> QED BY <2>1, <2>2, <2>3, Zenon DEF New, DBType
<1>3. Accessible(d)
  BY <1>1 DEF Accessible
<1> HIDE DEF d
<1>4. ASSUME NEW a \in Accounts
      PROVE  /\ s.acct[a] \in StoredAccounts /\ Obj(d, a) = newObject(s.acct[a])
             /\ Exist(d, a) <=> s.acct[a].exists
             /\ GetState(d, a) = s.acct[a].slot /\ a \in Clean(d)
  <2>1. s.acct[a] \in StoredAccounts
    BY StoreFields, Zenon
  <2>2. d.dirties[a] = 0
    BY <1>1
  <2> QED BY <1>1, <2>1, <2>2, Zenon DEF Obj, Exist, GetState, GetCommittedState, Clean
<1>5. Current(d) = s /\ Layers(d) = <<s>> /\ Clean(d) = Accounts
  <2>1. Clean(d) = Accounts
    BY <1>4, Zenon DEF Clean
  <2> QED BY <1>1, <2>1, Zenon DEF Current, Layers
<1>6. ASSUME NEW a \in Accounts
      PROVE  Matches(d, s, a) /\ Seen(d, a).bal = s.acct[a].bal
  <2>1. /\ newObject(s.acct[a]).bal = s.acct[a].bal /\ newObject(s.acct[a]).nonce = s.acct[a].nonce
        /\ newObject(s.acct[a]).code = s.acct[a].code
        /\ newObject(s.acct[a]).destructed = FALSE /\ s.acct[a].exists \in BOOLEAN
    BY <1>4, newObjectType, Zenon
  <2>2. Exist(d, a) = s.acct[a].exists
    BY <1>4, <2>1, Zenon DEF Exist
  <2>3. Obj(d, a) = newObject(s.acct[a])
    BY <1>4
  <2>4. /\ Seen(d, a).exists = s.acct[a].exists /\ Seen(d, a).bal = s.acct[a].bal
        /\ Seen(d, a).nonce = s.acct[a].nonce /\ Seen(d, a).code = s.acct[a].code
        /\ Seen(d, a).destructed = FALSE
    BY <2>1, <2>2, <2>3, SeenFields, ZenonT(30)
  <2> QED BY <2>4, Zenon DEF Matches
<1>7. Calm(d)
  BY <1>1, <1>4, <1>5, <1>6, Zenon DEF Calm
<1>8. Solvent(d)
  <2>1. Worth(d) = [a \in Accounts |-> s.acct[a].bal]
    BY <1>5, <1>6 DEF Worth
  <2>2. SumTo(Worth(d), N) = Total(d.ctx)
    BY <1>1, <2>1, Zenon DEF Total
  <2>3. Total(d.ctx) \in Nat
    BY <1>2, SumsType, Zenon
  <2> QED BY <2>2, <2>3 DEF Solvent
<1>9. DbOK(d, 0)
  <2>1. Len(d.journal) = 0 /\ Len(d.revisions) = 0 /\ 1..0 = {} /\ 0..0 = {0} /\ 0 \in 0..0
    BY <1>1
  <2>2. ObjectsLive(d) /\ Unflushed(d) /\ Branched(d) /\ RevisionsInOrder(d, 0)
    BY <1>1, <2>1, Zenon DEF ObjectsLive, Unflushed, Branched, RevisionsInOrder
  <2>3. Abs(d) \in States
    BY <1>2, <1>3, AbsType, Zenon
  <2>4. Len(Abs(d).layers) = 1 /\ Clean(Abs(d)) = Accounts
    <3>1. Abs(d).layers = <<s>> /\ Abs(d).dirties = d.dirties
      BY <1>5, AbsFields, Zenon
    <3>2. Clean(Abs(d)) = Clean(d)
      BY <3>1, Zenon DEF Clean
    <3> QED BY <1>5, <3>1, <3>2
  <2>5. Traces([k \in 0..0 |-> Abs(d)], d, 0)
    BY <2>1, <2>3, <2>4, Zenon DEF Traces
  <2>6. ASSUME NEW a \in Accounts PROVE SlotTraces([k \in 0..0 |-> GetState(d, a)], d, 0, a)
    <3>1. GetState(d, a) \in Values
      BY <1>2, ObjType, Zenon
    <3> QED BY <2>1, <3>1, Zenon DEF SlotTraces
  <2> QED BY <1>2, <1>3, <2>2, <2>5, <2>6, Zenon DEF DbOK
<1>10. DbOK(d, Len(d.revisions))
  <2>1. Len(d.revisions) = 0
    BY <1>1
  <2> QED BY <1>9, <2>1, Zenon
<1>11. Ready(d)
  BY <1>7, <1>8, <1>10, ReadyWhen, Zenon
<1> QED BY <1>1, <1>11, Zenon DEF d

\* A call prepared for keeps what the EVM sees of a StateDB.
LEMMA PreparedCalm ==
    ASSUME NEW d, NEW e, NEW m, PreparedDone(d, e, m), Calm(d), Solvent(d)
    PROVE  Calm(e) /\ Solvent(e)
<1>1. /\ e.ctx = d.ctx /\ e.flushed = d.flushed /\ e.dirties = d.dirties /\ Current(e) = Current(d)
      /\ \A a \in Accounts : Seen(e, a) = Seen(d, a) /\ GetState(e, a) = GetState(d, a)
  BY Zenon DEF PreparedDone
<1>2. Clean(e) = Clean(d) /\ Clean(d) \subseteq Accounts
  BY <1>1, Zenon DEF Clean
<1>3. Calm(e)
  BY <1>1, <1>2, Zenon DEF Calm, Matches
<1>4. Worth(e) = Worth(d)
  BY <1>1 DEF Worth
<1>5. NoLoss(e) <=> NoLoss(d)
  BY <1>1, <1>2, Zenon DEF NoLoss
<1> QED BY <1>1, <1>3, <1>4, <1>5, Zenon DEF Solvent

\* The states of a precompile call: prepared for, flushed, branched, paid, and
\* done.
CallSteps(d1, d2, b, d3, e, from, amount) ==
    /\ Len(d1.revisions) \in Nat \ {0} /\ DbOK(d1, Len(d1.revisions))
    /\ DbOK(d2, Len(d1.revisions)) /\ d2.revisions = d1.revisions
    /\ DbOK(b, Len(d1.revisions)) /\ b.revisions = d1.revisions
    /\ CanSend(Current(b), from, amount) =>
          DbOK(d3, Len(d1.revisions)) /\ d3.revisions = d1.revisions
    /\ ~CommitFails(d1, Current(d1)) /\ CanSend(Current(b), from, amount) => Ready(e)

\* Each keeps the revisions valid, and the last is ready.
LEMMA CallOK ==
    ASSUME SumFacts, CountFacts, NEW d, Ready(d), NEW from \in Accounts, NEW to \in Accounts,
           from # to, NEW amount \in Nat \ {0}, NEW d1, d1 = Prepared(Snapshot(d)),
           NEW d2, d2 = CommitWithCacheCtx(d1), NEW n \in Nat, NEW b, b = CacheMultiStore(d2, n),
           NEW d3, d3 = SetTop(b, BankSend(Current(b), from, to, amount)),
           NEW e, e = AfterBalanceChange(d3, from, to, amount)
    PROVE  CallSteps(d1, d2, b, d3, e, from, amount)
<1> DEFINE s == Snapshot(d)
           m == Len(s.revisions)
<1>1. Ready(s)
  BY SnapshotOK, Zenon
<1>2. m \in Nat \ {0}
  <2>1. d.revisions \in Seq(Revisions)
    BY DBFields, Zenon DEF Ready, DbOK
  <2>2. s.revisions = Append(d.revisions, [id |-> d.next, index |-> Len(d.journal), view |-> View(d)])
    BY <1>1, Zenon DEF Snapshot, Ready, DbOK, DBType
  <2> HIDE DEF s
  <2> QED BY <2>1, <2>2
<1> HIDE DEF s
<1>3. DbOK(s, m) /\ Calm(s) /\ Solvent(s)
  BY <1>1, ReadyWhen, Zenon
<1>4. d1 = Prepared(s)
  BY Zenon DEF s
<1>5. PreparedDone(s, d1, m)
  BY <1>3, <1>4, PreparedOK, Zenon
<1>6. DbOK(d1, m) /\ InCall(d1, m) /\ d1.cache # << >> /\ d1.revisions = s.revisions
  BY <1>5, Zenon DEF PreparedDone, KeepsRevisions
<1>7. Calm(d1) /\ Solvent(d1)
  BY <1>3, <1>5, PreparedCalm, Zenon
<1>8. FlushDone(d1, d2, m)
  BY <1>6, FlushOK, Zenon
<1>9. DbOK(d2, m) /\ InCall(d2, m) /\ d2.cache # << >> /\ d2.revisions = d1.revisions
  BY <1>8, Zenon DEF FlushDone, KeepsRevisions
<1>10. Len(d1.revisions) = m
  BY <1>6, Zenon
<1> HIDE DEF m
\* The branch shows what the flush has left.
<1>11. /\ DbOK(b, m) /\ InCall(b, m) /\ b.cache # << >> /\ b.revisions = d1.revisions
       /\ Current(b) = Current(d2) /\ b.ctx = d2.ctx /\ b.flushed = d2.flushed
       /\ b.dirties = d2.dirties
       /\ \A a \in Accounts : Seen(b, a) = Seen(d2, a) /\ GetState(b, a) = GetState(d2, a)
  <2>1. /\ TopWrite(d2, b, Current(d2)) /\ b.flushed = d2.flushed
        /\ KeepsRevisions(d2, b) /\ KeepsJournal(d2, b)
    BY <1>9, BranchOK, Zenon
  <2>2. DbOK(b, m) /\ InCall(b, m) /\ Current(b) = Current(d2) /\ b.cache # << >>
    BY <1>9, <2>1, TopOK, Zenon
  <2> QED BY <1>9, <2>1, <2>2, Zenon DEF TopWrite, KeepsJournal, KeepsRevisions
<1> DEFINE st == BankSend(Current(d2), from, to, amount)
<1>12. ASSUME CanSend(Current(b), from, amount)
       PROVE  Paid(d2, d3, m, st) /\ d3.revisions = d1.revisions
  <2>1. b \in DBType
    BY <1>11, Zenon DEF DbOK
  <2>2. Current(b) \in StoreType
    BY <2>1, LayersType, Zenon
  <2>3. Sent(Current(b), BankSend(Current(b), from, to, amount), from, to, amount)
    BY <1>12, <2>2, BankSendType, Zenon
  <2>4. st \in StoreType
    BY <1>11, <2>3, Zenon DEF Sent
  <2>5. d3 = SetTop(b, st)
    BY <1>11, Zenon
  <2> HIDE DEF st
  <2>6. /\ TopWrite(b, d3, st) /\ d3.flushed = b.flushed
        /\ KeepsRevisions(b, d3) /\ KeepsJournal(b, d3)
    BY <1>11, <2>4, <2>5, SetTopOK, Zenon
  <2>7. DbOK(d3, m) /\ Current(d3) = st
    <3>1. DbOK(b, m) /\ InCall(b, m) /\ TopWrite(b, d3, st)
      BY <1>11, <2>6, Zenon
    <3> QED BY <3>1, TopOK, Zenon
  <2>8. /\ d3.ctx = b.ctx /\ d3.dirties = b.dirties /\ d3.revisions = b.revisions
        /\ \A a \in Accounts : Seen(d3, a) = Seen(b, a) /\ GetState(d3, a) = GetState(b, a)
    BY <2>6, Zenon DEF TopWrite, KeepsJournal, KeepsRevisions
  <2> QED BY <1>11, <2>6, <2>7, <2>8, Zenon DEF Paid
<1>13. ASSUME ~CommitFails(d1, Current(d1)), CanSend(Current(b), from, amount)
       PROVE  Ready(e)
  <2>1. Flushed(d2)
    BY <1>6, <1>7, <1>8, <1>13, FlushSettles, Zenon
  <2>2. Paid(d2, d3, m, st) /\ d3.revisions = d1.revisions
    BY <1>12, <1>13
  <2>3. DbOK(e, m) /\ Keeps(d3, e) /\ Calm(e) /\ Solvent(e)
    BY <1>9, <1>11, <1>13, <2>1, <2>2, CallSettles, Zenon
  <2>4. e.revisions = d1.revisions
    BY <2>2, <2>3, Zenon DEF Keeps, KeepsRevisions
  <2>5. DbOK(e, Len(e.revisions))
    BY <1>10, <2>3, <2>4, Zenon
  <2> QED BY <2>3, <2>5, ReadyWhen, Zenon
<1>14. CanSend(Current(b), from, amount) => DbOK(d3, m) /\ d3.revisions = d1.revisions
  BY <1>12, Zenon DEF Paid
<1>15. Len(d1.revisions) \in Nat \ {0}
  BY <1>2, <1>10, Zenon
<1> QED BY <1>6, <1>9, <1>10, <1>11, <1>13, <1>14, <1>15, Zenon DEF CallSteps

\* What Commit leaves: the stores written, the journal as it was.
CommitDone(d, e) ==
    /\ e \in DBType /\ Accessible(e)
    /\ KeepsJournal(d, e) /\ e.live = d.live /\ e.revisions = d.revisions
    /\ e.ctx = WriteDirty(d, Current(d))

\* This is so of Commit when it does not fail.
LEMMA CommitOK ==
    ASSUME NEW d \in DBType, Accessible(d), NEW e,
           e = [SyncOrigin(d, Current(d), FALSE) EXCEPT
                   !.ctx = WriteDirty(d, Current(d)), !.cache = << >>]
    PROVE  CommitDone(d, e)
<1> DEFINE st == Current(d)
           w  == WriteDirty(d, st)
           sw == SlotsWritten(d, st)
           os == [a \in Accounts |->
                     IF a \in sw
                     THEN [d.obj[a] EXCEPT !.origin = d.obj[a].dirty,
                                           !.dirty = IF FALSE THEN @ ELSE NoValue]
                     ELSE d.obj[a]]
           fl == d.flushed \union sw
<1>1. w \in StoreType
  BY LayersType, WriteDirtyType, Zenon
<1>2. os \in [Accounts -> Objects]
  <2>1. SUFFICES ASSUME NEW a \in Accounts
                 PROVE  [d.obj[a] EXCEPT !.origin = d.obj[a].dirty,
                                         !.dirty = IF FALSE THEN @ ELSE NoValue] \in Objects
    <3>1. \A a \in Accounts : d.obj[a] \in Objects
      BY DBFields
    <3> HIDE DEF sw
    <3> QED BY <2>1, <3>1
  <2>2. d.obj[a] \in Objects
    BY DBFields
  <2> QED BY <2>2, ZenonT(30) DEF Objects
<1>3. fl \in SUBSET Accounts
  <2>1. d.flushed \subseteq Accounts /\ sw \subseteq Accounts
    BY DBFields DEF SlotsWritten, Written, Dirty
  <2> HIDE DEF sw
  <2> QED BY <2>1
<1>4. SyncOrigin(d, st, FALSE) = [d EXCEPT !.obj = os, !.flushed = fl]
  BY Zenon DEF SyncOrigin, SlotsWritten
<1> HIDE DEF w, os, fl
<1>5. e = [[d EXCEPT !.obj = os, !.flushed = fl] EXCEPT !.ctx = w, !.cache = << >>]
  BY <1>4, Zenon DEF w
<1>6. << >> \in Seq(StoreType)
  OBVIOUS
<1>7. /\ e \in DBType /\ e.journal = d.journal /\ e.dirties = d.dirties /\ e.live = d.live
      /\ e.revisions = d.revisions /\ e.ctx = w /\ e.addresses = d.addresses /\ e.slots = d.slots
  <2> DEFINE f == [d EXCEPT !.obj = os, !.flushed = fl]
  <2>1. /\ f \in DBType /\ f.journal = d.journal /\ f.dirties = d.dirties /\ f.live = d.live
        /\ f.revisions = d.revisions /\ f.addresses = d.addresses /\ f.slots = d.slots
    BY <1>2, <1>3, Zenon DEF DBType
  <2>2. e = [f EXCEPT !.ctx = w, !.cache = << >>]
    BY <1>5, Zenon
  <2> HIDE DEF f
  <2>3. /\ e \in DBType /\ e.journal = f.journal /\ e.dirties = f.dirties /\ e.live = f.live
        /\ e.revisions = f.revisions /\ e.ctx = w /\ e.addresses = f.addresses
        /\ e.slots = f.slots
    BY <1>1, <1>6, <2>1, <2>2, Zenon DEF DBType
  <2> QED BY <2>1, <2>3, Zenon
<1>8. Accessible(e)
  BY <1>7, Zenon DEF Accessible
<1> QED BY <1>7, <1>8, Zenon DEF CommitDone, KeepsJournal, w

\* Two views that show the same differ at most in the storage.
LEMMA ShownAlike ==
    ASSUME NEW v \in Views, NEW w \in Views, NEW x, Shows(v, x), Shows(w, x)
    PROVE  SlotOff(v) = SlotOff(w)
<1> DEFINE off(u) == [a \in Accounts |-> [u.acct[a] EXCEPT !.slot = 0]]
<1>1. ASSUME NEW a \in Accounts
      PROVE  [v.acct[a] EXCEPT !.slot = 0] = [w.acct[a] EXCEPT !.slot = 0]
  <2>1. v.acct[a] \in SeenAccounts /\ w.acct[a] \in SeenAccounts
    BY DEF Views
  <2> DEFINE like(u) ==
        /\ u.acct[a].exists = x.acct[a].exists /\ u.acct[a].bal = x.acct[a].bal
        /\ u.acct[a].nonce = x.acct[a].nonce /\ u.acct[a].code = x.acct[a].code
        /\ u.acct[a].destructed = x.acct[a].destructed /\ u.acct[a].new = x.acct[a].new
  <2>2. ASSUME NEW u, Shows(u, x) PROVE like(u)
    BY <2>2, Zenon DEF Shows
  <2>3. like(v) /\ like(w)
    <3> HIDE DEF like
    <3> QED BY <2>2, Zenon
  <2> QED BY <2>1, <2>3 DEF SeenAccounts
<1>2. off(v) = off(w)
  BY <1>1
<1>3. /\ v.refund = w.refund /\ v.logs = w.logs /\ v.transient = w.transient
      /\ v.warm = w.warm /\ v.warmSlots = w.warmSlots /\ v.stores = w.stores
  BY Zenon DEF Shows
<1> HIDE DEF off
<1>4. ASSUME NEW f PROVE [v EXCEPT !.acct = f] = [w EXCEPT !.acct = f]
  BY <1>3 DEF Views
<1>5. SlotOff(v) = [v EXCEPT !.acct = off(v)] /\ SlotOff(w) = [w EXCEPT !.acct = off(w)]
  BY Zenon DEF SlotOff, off
<1> QED BY <1>2, <1>4, <1>5, Zenon

(***************************************************************************)
(* The inductive invariant.                                                *)
(***************************************************************************)
\* The journal counts each account's changes, and a changed account has an
\* object.
ChangesCounted(d) ==
    \A a \in Accounts : /\ d.dirties[a] = Cardinality(ChangesOf(d, a))
                        /\ d.dirties[a] # 0 => a \in d.live

\* A state of StateDB: while the transaction runs, the revision that is
\* reverted to and those before it can be met, and between two steps of the
\* EVM all of them.
Sound(d, rev, ph) ==
    /\ d \in DBType /\ Accessible(d) /\ ChangesCounted(d)
    /\ rev \in 0..Len(d.revisions)
    /\ ph = "run" /\ rev = 0 => Ready(d)
    /\ ph = "run" /\ rev # 0 => DbOK(d, rev)
    /\ ph # "run" => rev = 0

StateOK ==
    /\ Sound(db, reverting, phase)
    /\ phase \in {"run", "committed", "failed"} /\ program \in Programs

\* A ready StateDB is a state between two steps of the EVM, and one with
\* valid revisions up to the m-th is a state of a revert to it.
LEMMA SoundWhen ==
    ASSUME CountFacts, NEW d
    PROVE  /\ Ready(d) => Sound(d, 0, "run")
           /\ \A m \in Nat \ {0} : DbOK(d, m) => Sound(d, m, "run")
<1>1. ASSUME NEW m, DbOK(d, m)
      PROVE  d \in DBType /\ Accessible(d) /\ ChangesCounted(d) /\ m \in 0..Len(d.revisions)
  <2>1. d \in DBType /\ Accessible(d) /\ m \in 0..Len(d.revisions)
    BY <1>1, Zenon DEF DbOK, RevisionsInOrder
  <2>2. ChangesCounted(d)
    BY <1>1, DirtiesCounted, Zenon DEF ChangesCounted
  <2> QED BY <2>1, <2>2
<1>2. ASSUME Ready(d) PROVE Sound(d, 0, "run")
  <2>1. DbOK(d, Len(d.revisions))
    BY <1>2, Zenon DEF Ready
  <2>2. d \in DBType /\ Accessible(d) /\ ChangesCounted(d)
    BY <1>1, <2>1, Zenon
  <2>3. Len(d.revisions) \in Nat
    BY <2>2, DBFields
  <2>4. 0 \in 0..Len(d.revisions)
    BY <2>3
  <2> QED BY <1>2, <2>2, <2>4, Zenon DEF Sound
<1>3. ASSUME NEW m \in Nat \ {0}, DbOK(d, m) PROVE Sound(d, m, "run")
  <2>1. m # 0
    BY <1>3
  <2> QED BY <1>1, <1>3, <2>1, Zenon DEF Sound
<1> QED BY <1>2, <1>3, Zenon

\* What a run of the EVM's setters leaves is ready again.
LEMMA SetReady ==
    ASSUME SumFacts, Ready(db), NEW a \in Accounts, NEW v \in Values,
           \/ Create(a) \/ EvmSetCode(a, v) \/ EvmSetState(a, v) \/ EvmSetNonce(a, v)
           \/ EvmSetTransient(a, v) \/ EvmAddRefund(v) \/ EvmSubRefund(v) \/ EvmAddLog
           \/ EvmAddAddress(a) \/ \E k \in Keys : EvmAddSlot(a, k)
    PROVE  Ready(db')
<1> DEFINE m == Len(db.revisions)
<1>1. DbOK(db, m)
  BY Zenon DEF Ready
<1>2. v \in Nat /\ db.refund \in Nat
  <2>1. db.refund \in Nat
    BY <1>1, DBFields, Zenon DEF DbOK
  <2> QED BY <2>1, ValuesAssumption
<1> HIDE DEF m
<1>3. \/ RegisterOK(db, db', m) \/ \E x \in Accounts : SetterOnly(db, db', m, x)
  <2>1. CASE Create(a)
    BY <1>1, <2>1, CreateMoves, Zenon DEF Create, Set
  <2>2. CASE EvmSetCode(a, v)
    BY <1>1, <2>2, SetCodeOK, Zenon DEF EvmSetCode, Set
  <2>3. CASE EvmSetState(a, v)
    BY <1>1, <2>3, SetStateOK, Zenon DEF EvmSetState, Set
  <2>4. CASE EvmSetNonce(a, v)
    BY <1>1, <1>2, <2>4, SetNonceOK, Zenon DEF EvmSetNonce, Set
  <2>5. CASE EvmSetTransient(a, v)
    BY <1>1, <2>5, SetTransientOK, Zenon DEF EvmSetTransient, Set
  <2>6. CASE EvmAddRefund(v)
    <3>1. db.refund + v \in Nat /\ db' = SetRefund(db, db.refund + v)
      BY <1>2, <2>6 DEF EvmAddRefund, Set
    <3> QED BY <1>1, <3>1, SetRefundOK, Zenon
  <2>7. CASE EvmSubRefund(v)
    <3>1. db.refund - v \in Nat /\ db' = SetRefund(db, db.refund - v)
      BY <1>2, <2>7 DEF EvmSubRefund, Set
    <3> QED BY <1>1, <3>1, SetRefundOK, Zenon
  <2>8. CASE EvmAddLog
    BY <1>1, <2>8, AddLogOK, Zenon DEF EvmAddLog, Set
  <2>9. CASE EvmAddAddress(a)
    BY <1>1, <2>9, AddAddressOK, Zenon DEF EvmAddAddress, Set
  <2>10. ASSUME NEW k \in Keys, EvmAddSlot(a, k) PROVE RegisterOK(db, db', m)
    BY <1>1, <2>10, AddSlotOK, Zenon DEF EvmAddSlot, Set
  <2> QED BY <2>1, <2>2, <2>3, <2>4, <2>5, <2>6, <2>7, <2>8, <2>9, <2>10, Zenon
<1> QED BY <1>3, SetterReady, Zenon DEF m

\* So is what a transfer and a destruction of a contract leave.
LEMMA MoveReady ==
    ASSUME SumFacts, Ready(db), NEW from \in Accounts \ Blocked, NEW to \in Accounts,
           NEW amount \in Nat, Transfer(from, to, amount) \/ Destruct(from, to)
    PROVE  Ready(db')
<1> DEFINE m == Len(db.revisions)
<1>1. DbOK(db, m) /\ db \in DBType /\ Accessible(db)
  BY Zenon DEF Ready, DbOK
<1>2. Bal(from) = Seen(db, from).bal
  BY <1>1, ViewDisplays, Zenon DEF Bal, Displays
<1>3. Bal(from) \in Nat /\ Bal(from) >= Bal(from)
  <2>1. Bal(from) \in Nat
    BY <1>1, <1>2, SeenBal, Zenon
  <2> QED BY <2>1
<1> HIDE DEF m, Bal
<1>4. Moved(db, db', m)
  <2>1. CASE Transfer(from, to, amount)
    <3>1. Bal(from) >= amount /\ db' = AddBalance(SubBalance(db, from, amount), to, amount)
      BY <2>1, Zenon DEF Transfer, Set
    <3>2. Seen(db, from).bal >= amount
      BY <1>2, <3>1
    <3> QED BY <1>1, <3>1, <3>2, TransferMoves, Zenon
  <2>2. CASE Destruct(from, to)
    <3> DEFINE g == AddBalance(SubBalance(db, from, Bal(from)), to, Bal(from))
    <3>1. db' = SelfDestruct6780(g, from)
      BY <2>2, Zenon DEF Destruct, Set
    <3>2. Seen(db, from).bal >= Bal(from)
      BY <1>2, <1>3
    <3>3. Moved(db, g, m)
      BY <1>1, <1>3, <3>2, TransferMoves, Zenon
    <3> HIDE DEF g
    <3>4. DbOK(g, m)
      BY <3>3, Zenon DEF Moved
    <3>5. Moved(g, db', m)
      BY <3>1, <3>4, DestructMoves, Zenon
    <3> QED BY <1>1, <3>3, <3>5, MovedBoth, Zenon
  <2> QED BY <2>1, <2>2, Zenon
<1> QED BY <1>4, MovedReady, Zenon DEF m

\* A precompile call ends ready, or is being reverted.
LEMMA CallStep ==
    ASSUME SumFacts, CountFacts, Ready(db), NEW from \in Accounts, NEW to \in Accounts, from # to,
           NEW amount \in Nat \ {0}, NEW n \in Nat, NEW ok, CallPrecompile(from, to, amount, n, ok)
    PROVE  \/ Ready(db') /\ reverting' = 0
           \/ reverting' \in Nat \ {0} /\ DbOK(db', reverting')
<1> DEFINE d1 == Prepared(Snapshot(db))
           d2 == CommitWithCacheCtx(d1)
           b  == CacheMultiStore(d2, n)
           d3 == SetTop(b, BankSend(Current(b), from, to, amount))
           e  == AfterBalanceChange(d3, from, to, amount)
<1>1. \/ db' = d1 /\ reverting' = Len(d1.revisions)
      \/ db' = d2 /\ reverting' = Len(d1.revisions)
      \/ db' = b /\ reverting' = Len(d1.revisions)
      \/ /\ ~CommitFails(d1, Current(d1)) /\ CanSend(Current(b), from, amount)
         /\ \/ db' = d3 /\ reverting' = Len(d1.revisions)
            \/ db' = e /\ reverting' = 0
  BY Zenon DEF CallPrecompile
<1>2. CallSteps(d1, d2, b, d3, e, from, amount)
  BY CallOK, Zenon
<1> HIDE DEF d1, d2, b, d3, e
<1> QED BY <1>1, <1>2, Zenon DEF CallSteps

\* What each step does while the transaction runs.
LEMMA NextRuns ==
    ASSUME SumFacts, CountFacts, Next, phase = "run", reverting = 0, Ready(db)
    PROVE  \/ /\ phase' = "run" /\ program' = program
              /\ \/ Ready(db') /\ reverting' = 0
                 \/ reverting' \in Nat \ {0} /\ DbOK(db', reverting')
           \/ Commit
<1>1. ASSUME NEW from \in Accounts \ Blocked, NEW to \in Accounts, NEW amount \in 0..MaxValue,
             Transfer(from, to, amount) \/ Destruct(from, to)
      PROVE  Ready(db') /\ reverting' = reverting /\ phase' = phase /\ program' = program
  <2>1. amount \in Nat
    BY BoundsAssumption
  <2>2. Ready(db')
    BY <1>1, <2>1, MoveReady, Zenon
  <2> QED BY <1>1, <2>2, Zenon DEF Transfer, Destruct, Set
<1>2. ASSUME NEW a \in Accounts, NEW v \in Values,
             \/ Create(a) \/ EvmSetCode(a, v) \/ EvmSetState(a, v) \/ EvmSetNonce(a, v)
             \/ EvmSetTransient(a, v) \/ EvmAddRefund(v) \/ EvmSubRefund(v) \/ EvmAddLog
             \/ EvmAddAddress(a) \/ \E k \in Keys : EvmAddSlot(a, k)
      PROVE  Ready(db') /\ reverting' = reverting /\ phase' = phase /\ program' = program
  <2>1. Ready(db')
    BY <1>2, SetReady, Zenon
  <2> QED BY <1>2, <2>1, Zenon DEF Create, EvmSetCode, EvmSetState, EvmSetNonce, EvmSetTransient,
             EvmAddRefund, EvmSubRefund, EvmAddLog, EvmAddAddress, EvmAddSlot, Set

<1> DEFINE Ran == /\ phase' = "run" /\ program' = program
                  /\ \/ Ready(db') /\ reverting' = 0
                     \/ reverting' \in Nat \ {0} /\ DbOK(db', reverting')
<1>3. ASSUME NEW from \in Accounts \ Blocked, NEW to \in Accounts, NEW amount \in 0..MaxValue,
             Transfer(from, to, amount)
      PROVE  Ran
  BY <1>1, <1>3, Zenon
<1>4. ASSUME NEW a \in Accounts \ Blocked, NEW to \in Accounts, Destruct(a, to) PROVE Ran
  <2>1. 0 \in 0..MaxValue
    BY BoundsAssumption
  <2> QED BY <1>1, <1>4, <2>1, Zenon
<1>5. ASSUME NEW a \in Accounts, NEW v \in Values,
             \/ Create(a) \/ EvmSetCode(a, v) \/ EvmSetState(a, v) \/ EvmSetNonce(a, v)
             \/ EvmSetTransient(a, v) \/ EvmAddRefund(v) \/ EvmSubRefund(v) \/ EvmAddLog
             \/ EvmAddAddress(a) \/ \E k \in Keys : EvmAddSlot(a, k)
      PROVE  Ran
  BY <1>2, <1>5, Zenon
<1>6. ASSUME NEW from \in Accounts, NEW to \in Accounts, NEW amount \in 1..MaxValue,
             NEW n \in 0..MaxBranches, NEW ok \in BOOLEAN, from # to,
             CallPrecompile(from, to, amount, n, ok)
      PROVE  Ran
  <2>1. amount \in Nat \ {0} /\ n \in Nat
    BY BoundsAssumption
  <2>2. phase' = phase /\ program' = program
    BY <1>6, Zenon DEF CallPrecompile
  <2> QED BY <1>6, <2>1, <2>2, CallStep, Zenon
<1>7. CASE TakeSnapshot
  BY <1>7, SnapshotOK, Zenon DEF TakeSnapshot
<1>8. ASSUME NEW i \in 1..Len(db.revisions), RevertToSnapshot(i) PROVE Ran
  <2>1. i \in Nat \ {0} /\ i \in 0..Len(db.revisions)
    OBVIOUS
  <2>2. DbOK(db, i)
    BY <2>1, FewerOK, Zenon DEF Ready
  <2> QED BY <1>8, <2>1, <2>2, Zenon DEF RevertToSnapshot
<1>9. ~Undo /\ ~EndRevert
  BY Zenon DEF Undo, EndRevert
<1>10. 0 \in Values
  BY ValuesAssumption
<1> QED BY <1>3, <1>4, <1>5, <1>6, <1>7, <1>8, <1>9, <1>10, Zenon DEF Next

\* While a revert goes on, only its steps are taken.
LEMMA NextReverts ==
    ASSUME Next, reverting # 0
    PROVE  Undo \/ EndRevert
BY Zenon DEF Next, Running, Set, Transfer, Create, Destruct, EvmSetNonce, EvmSetCode, EvmSetState,
   EvmSetTransient, EvmAddRefund, EvmSubRefund, EvmAddLog, EvmAddAddress, EvmAddSlot,
   CallPrecompile, TakeSnapshot, RevertToSnapshot, Commit

\* Nothing is done once the transaction is over.
LEMMA NextEnds ==
    ASSUME Next, reverting = 0
    PROVE  phase = "run"
BY Zenon DEF Next, Running, Set, Transfer, Create, Destruct, EvmSetNonce, EvmSetCode, EvmSetState,
   EvmSetTransient, EvmAddRefund, EvmSubRefund, EvmAddLog, EvmAddAddress, EvmAddSlot,
   CallPrecompile, TakeSnapshot, RevertToSnapshot, Undo, EndRevert, Commit

\* Commit keeps the counts of the journal.
LEMMA CommitSound ==
    ASSUME NEW d, Sound(d, 0, "run"), NEW e, CommitDone(d, e)
    PROVE  Sound(e, 0, "committed") /\ Sound(d, 0, "failed")
<1>1. d \in DBType /\ Accessible(d) /\ ChangesCounted(d) /\ 0 \in 0..Len(d.revisions)
  BY Zenon DEF Sound
<1>2. /\ e \in DBType /\ Accessible(e) /\ e.revisions = d.revisions
      /\ e.journal = d.journal /\ e.dirties = d.dirties /\ e.live = d.live
  BY Zenon DEF CommitDone, KeepsJournal
<1>3. \A a : ChangesOf(e, a) = ChangesOf(d, a)
  BY <1>2, Zenon DEF ChangesOf
<1>4. ChangesCounted(e)
  BY <1>1, <1>2, <1>3, Zenon DEF ChangesCounted
<1>5. "committed" # "run" /\ "failed" # "run"
  OBVIOUS
<1> QED BY <1>1, <1>2, <1>4, <1>5, Zenon DEF Sound

\* The invariant is inductive.
LEMMA StateStep ==
    ASSUME SumFacts, CountFacts, StateOK, [Next]_vars
    PROVE  StateOK'
<1>1. CASE UNCHANGED vars
  BY <1>1, Zenon DEF StateOK, vars
<1>2. ASSUME Next, reverting = 0 PROVE StateOK'
  <2>1. phase = "run"
    BY <1>2, NextEnds, Zenon
  <2>2. Ready(db) /\ db \in DBType /\ Accessible(db) /\ Sound(db, 0, "run")
    BY <1>2, <2>1, Zenon DEF StateOK, Sound
  <2>3. CASE /\ phase' = "run" /\ program' = program
             /\ \/ Ready(db') /\ reverting' = 0
                \/ reverting' \in Nat \ {0} /\ DbOK(db', reverting')
    <3>1. Sound(db', reverting', "run")
      BY <2>3, SoundWhen, Zenon
    <3> QED BY <2>3, <3>1, Zenon DEF StateOK
  <2>4. CASE Commit
    <3> DEFINE e == [SyncOrigin(db, Current(db), FALSE) EXCEPT
                        !.ctx = WriteDirty(db, Current(db)), !.cache = << >>]
    <3>1. \/ phase' = "failed" /\ db' = db
          \/ phase' = "committed" /\ db' = e
      BY <2>4, Zenon DEF Commit
    <3>2. reverting' = 0 /\ program' = program
      BY <1>2, <2>4, Zenon DEF Commit
    <3>3. CommitDone(db, e)
      BY <2>2, CommitOK, Zenon
    <3> HIDE DEF e
    <3>4. Sound(e, 0, "committed") /\ Sound(db, 0, "failed")
      BY <2>2, <3>3, CommitSound, Zenon
    <3> QED BY <3>1, <3>2, <3>4, Zenon DEF StateOK
  <2> QED BY <1>2, <2>1, <2>2, <2>3, <2>4, NextRuns, Zenon
<1>3. ASSUME Next, reverting # 0 PROVE StateOK'
  <2>1. Undo \/ EndRevert
    BY <1>3, NextReverts, Zenon
  <2>2. phase = "run" /\ DbOK(db, reverting) /\ reverting \in 0..Len(db.revisions) /\ db \in DBType
    BY <1>3, Zenon DEF StateOK, Sound
  <2>3. reverting \in Nat \ {0}
    BY <1>3, <2>2
  <2>4. CASE Undo
    <3>1. /\ Len(db.journal) > db.revisions[reverting].index /\ db' = UndoLast(db)
          /\ reverting' = reverting /\ phase' = phase /\ program' = program
      BY <2>4, Zenon DEF Undo
    <3>2. DbOK(db', reverting)
      BY <2>2, <2>3, <3>1, UndoOK, Zenon
    <3>3. Sound(db', reverting, "run")
      BY <2>3, <3>2, SoundWhen, Zenon
    <3> QED BY <2>2, <3>1, <3>3, Zenon DEF StateOK
  <2>5. CASE EndRevert
    <3>1. /\ Len(db.journal) = db.revisions[reverting].index
          /\ db' = [db EXCEPT !.revisions = SubSeq(@, 1, reverting - 1)]
          /\ reverting' = 0 /\ phase' = phase /\ program' = program
      BY <2>5, Zenon DEF EndRevert
    <3>2. Ready(db')
      BY <2>2, <2>3, <3>1, EndRevertOK, Zenon
    <3>3. Sound(db', 0, "run")
      BY <3>2, SoundWhen, Zenon
    <3> QED BY <2>2, <3>1, <3>3, Zenon DEF StateOK
  <2> QED BY <2>1, <2>4, <2>5, Zenon
<1> QED BY <1>1, <1>2, <1>3, Zenon DEF vars

\* It holds of a new StateDB.
LEMMA StateInit ==
    ASSUME SumFacts, CountFacts, Init
    PROVE  StateOK
<1>1. PICK s \in Stores : db = New(s)
  BY Zenon DEF Init
<1>2. Ready(New(s))
  BY StoresAssumption, NewReady, Zenon
<1>3. Sound(db, 0, "run")
  BY <1>1, <1>2, SoundWhen, Zenon
<1> QED BY <1>3, Zenon DEF Init, StateOK

(***************************************************************************)
(* What the invariant shows.                                               *)
(***************************************************************************)
\* The types and the counts of changes.
LEMMA StateShows ==
    ASSUME CountFacts, StateOK
    PROVE  TypeOK /\ DirtiesMatchJournal
<1>1. db \in DBType /\ Accessible(db) /\ ChangesCounted(db) /\ reverting \in 0..Len(db.revisions)
  BY Zenon DEF StateOK, Sound
<1>2. TypeOK
  <2>1. /\ db.ctx \in StoreType /\ db.cache \in Seq(StoreType) /\ db.live \in SUBSET Accounts
        /\ db.obj \in [Accounts -> Objects] /\ db.dirties \in [Accounts -> Nat]
        /\ db.refund \in Nat /\ db.logs \in Nat /\ db.addresses \in [Accounts -> Int]
    BY <1>1, DBFields, Zenon
  <2>2. \A i \in 1..Len(db.cache) : db.cache[i] \in StoreType
    BY <2>1
  <2>3. db.addresses \in [Accounts -> {NotListed} \union 0..Len(db.slots)]
    <3>1. \A a \in Accounts : db.addresses[a] \in {NotListed} \union 0..Len(db.slots)
      BY <1>1, Zenon DEF Accessible
    <3> QED BY <2>1, <3>1, Zenon
  <2> QED BY <1>1, <2>1, <2>2, <2>3, Zenon DEF TypeOK, StateOK
<1>3. DirtiesMatchJournal
  <2>1. SUFFICES ASSUME NEW a \in Accounts
                 PROVE  /\ db.dirties[a] =
                             Cardinality({i \in Entries(Dirtying) : db.journal[i].acct = a})
                        /\ db.dirties[a] > 0 => a \in db.live
    BY Zenon DEF DirtiesMatchJournal
  <2>2. {i \in Entries(Dirtying) : db.journal[i].acct = a} = ChangesOf(db, a)
    BY Zenon DEF Entries, ChangesOf
  <2>3. /\ db.dirties[a] = Cardinality(ChangesOf(db, a))
        /\ db.dirties[a] # 0 => a \in db.live
    BY <1>1, Zenon DEF ChangesCounted
  <2>4. db.dirties[a] > 0 => db.dirties[a] # 0
    OBVIOUS
  <2> QED BY <2>2, <2>3, <2>4, Zenon
<1> QED BY <1>2, <1>3

\* The end of a revert.
Restores ==
    reverting # 0 /\ reverting' = 0 =>
        LET then == db.revisions[reverting].view
            now  == View(db')
        IN  /\ SlotOff(now) = SlotOff(then)
            /\ \A a \in Accounts \ db.flushed : now.acct[a].slot = then.acct[a].slot

\* The end of a revert meets the revision.
LEMMA StepRestores ==
    ASSUME StateOK, Next
    PROVE  Restores
<1> DEFINE then == db.revisions[reverting].view
           now  == View(db')
<1>1. SUFFICES ASSUME reverting # 0, reverting' = 0
               PROVE  /\ SlotOff(now) = SlotOff(then)
                      /\ \A a \in Accounts \ db.flushed : now.acct[a].slot = then.acct[a].slot
  BY <1>1, Zenon DEF Restores
<1>2. /\ DbOK(db, reverting) /\ reverting \in 0..Len(db.revisions)
      /\ db \in DBType /\ Accessible(db) /\ RevisionsInOrder(db, reverting)
  BY <1>1, Zenon DEF StateOK, Sound, DbOK
<1>3. reverting \in Nat \ {0} /\ reverting \in 1..reverting
  BY <1>1, <1>2
<1>4. EndRevert
  BY <1>1, NextReverts, Zenon DEF Undo
<1>5. /\ Len(db.journal) = db.revisions[reverting].index
      /\ db' = [db EXCEPT !.revisions = SubSeq(@, 1, reverting - 1)]
  BY <1>4, Zenon DEF EndRevert
<1>6. now = View(db)
  BY <1>2, <1>3, <1>5, EndRevertOK, Zenon
<1>7. RevisionMet(db, db.revisions[reverting])
  BY <1>2, <1>3, <1>5, RevisionReached, Zenon
<1>8. then \in Views
  BY <1>2, <1>3, RevisionFacts, Zenon
<1>9. Shows(then, Abs(db)) /\ \A a \in Accounts \ db.flushed : then.acct[a].slot = GetState(db, a)
  BY <1>7, Zenon DEF RevisionMet
<1>10. /\ View(db) \in Views /\ Shows(View(db), Abs(db))
       /\ \A a \in Accounts : View(db).acct[a].slot = GetState(db, a)
  BY <1>2, ViewShows, Zenon
<1> HIDE DEF then, now
<1>11. SlotOff(View(db)) = SlotOff(then)
  BY <1>8, <1>9, <1>10, ShownAlike, Zenon
<1> QED BY <1>6, <1>9, <1>10, <1>11, Zenon

\* What Commit does, if it does not fail.
LEMMA StepCommits ==
    ASSUME StateOK, Next, phase' = "committed"
    PROVE  /\ Ready(db) /\ db \in DBType /\ Accessible(db)
           /\ ~CommitFails(db, Current(db)) /\ db'.ctx = WriteDirty(db, Current(db))
<1>1. reverting = 0 /\ phase = "run"
  <2>1. reverting # 0 => phase = "run" /\ phase' = phase
    <3>1. reverting # 0 => Undo \/ EndRevert
      BY NextReverts, Zenon
    <3> QED BY <3>1, Zenon DEF StateOK, Sound, Undo, EndRevert
  <2>2. "committed" # "run"
    OBVIOUS
  <2> QED BY <2>1, <2>2, NextEnds, Zenon
<1>2. Ready(db) /\ db \in DBType /\ Accessible(db)
  BY <1>1, Zenon DEF StateOK, Sound
<1>3. Commit
  <2>1. phase' # phase
    BY <1>1
  <2> QED BY <2>1, Zenon DEF Next, Set, Transfer, Create, Destruct, EvmSetNonce, EvmSetCode,
             EvmSetState, EvmSetTransient, EvmAddRefund, EvmSubRefund, EvmAddLog, EvmAddAddress,
             EvmAddSlot, CallPrecompile, TakeSnapshot, RevertToSnapshot, Undo, EndRevert
<1> DEFINE e == [SyncOrigin(db, Current(db), FALSE) EXCEPT
                    !.ctx = WriteDirty(db, Current(db)), !.cache = << >>]
<1>4. ~CommitFails(db, Current(db)) /\ db' = e
  <2>1. "failed" # "committed"
    OBVIOUS
  <2> QED BY <1>3, <2>1, Zenon DEF Commit
<1>5. CommitDone(db, e)
  BY <1>2, CommitOK, Zenon
<1> HIDE DEF e
<1> QED BY <1>2, <1>4, <1>5, Zenon DEF CommitDone

\* A Commit, of the stores it leaves.
Exact ==
    phase' = "committed" /\ Dirty(db) \intersect Blocked = {} =>
        LET seen == View(db)
        IN  /\ db'.ctx.calls = seen.stores.calls
            /\ \A a \in Accounts :
                  LET want == IF a \in Blocked THEN seen.stores.acct[a]
                              ELSE Persisted(seen.acct[a])
                  IN  db'.ctx.acct[a] =
                        IF a \in db.flushed
                        THEN [want EXCEPT !.slot = db'.ctx.acct[a].slot] ELSE want

\* They are those the EVM saw.
LEMMA StepExact ==
    ASSUME CountFacts, StateOK, Next
    PROVE  Exact
<1> DEFINE w == WriteDirty(db, Current(db))
<1>1. ASSUME phase' = "committed", Dirty(db) \intersect Blocked = {}
      PROVE  /\ db'.ctx.calls = View(db).stores.calls
             /\ \A a \in Accounts :
                   IF a \in Blocked
                   THEN db'.ctx.acct[a] = IF a \in db.flushed
                                          THEN [View(db).stores.acct[a] EXCEPT
                                                   !.slot = db'.ctx.acct[a].slot]
                                          ELSE View(db).stores.acct[a]
                   ELSE Persists(db'.ctx, View(db).acct[a], a, db.flushed)
  <2>1. /\ Ready(db) /\ db \in DBType /\ Accessible(db)
        /\ ~CommitFails(db, Current(db)) /\ db'.ctx = w
    BY <1>1, StepCommits, Zenon
  <2>2. View(db).stores = Current(db)
    BY <2>1, ViewShows, Zenon
  <2>3. w.calls = Current(db).calls
    BY <2>1, LayersType, WriteDirtyType, Zenon
  <2>4. ASSUME NEW a \in Accounts, a \in Blocked
        PROVE  /\ w.acct[a] = Current(db).acct[a]
               /\ [Current(db).acct[a] EXCEPT !.slot = Current(db).acct[a].slot]
                     = Current(db).acct[a]
    <3>1. db.dirties[a] \in Nat
      BY <2>1, DBFields
    <3>2. ~(db.dirties[a] > 0)
      BY <1>1, <2>4, Zenon DEF Dirty
    <3>3. db.dirties[a] = 0
      BY <3>1, <3>2
    <3> QED BY <2>1, <3>3, CommitKeeps, Zenon
  <2>5. ASSUME NEW a \in Accounts, a \notin Blocked
        PROVE  Persists(w, View(db).acct[a], a, db.flushed)
    BY <2>1, <2>5, CommitPersists, Zenon
  <2> HIDE DEF w
  <2> QED BY <2>1, <2>2, <2>3, <2>4, <2>5, Zenon
<1> QED BY <1>1, Zenon DEF Exact, Persists

\* A Commit, of the coins it leaves.
Keeping ==
    phase' = "committed" =>
        /\ Total(db'.ctx) <= Total(db.ctx)
        /\ NoneDestructed /\ Dirty(db) \intersect Blocked = {} =>
              Total(db'.ctx) = Total(db.ctx)

\* They are those there were, but for what destructed contracts held.
LEMMA StepKeeps ==
    ASSUME SumFacts, CountFacts, StateOK, Next
    PROVE  Keeping
<1>1. SUFFICES ASSUME phase' = "committed"
               PROVE  /\ Total(db'.ctx) <= Total(db.ctx)
                      /\ NoneDestructed /\ Dirty(db) \intersect Blocked = {} =>
                            Total(db'.ctx) = Total(db.ctx)
  BY <1>1, Zenon DEF Keeping
<1>2. /\ Ready(db) /\ db \in DBType /\ Accessible(db)
      /\ ~CommitFails(db, Current(db)) /\ db'.ctx = WriteDirty(db, Current(db))
  BY <1>1, StepCommits, Zenon
<1>3. /\ Total(WriteDirty(db, Current(db))) <= Total(db.ctx)
      /\ NoLoss(db) => Total(WriteDirty(db, Current(db))) = Total(db.ctx)
  BY <1>2, CommitTotal, Zenon
<1>4. ASSUME NoneDestructed, Dirty(db) \intersect Blocked = {} PROVE NoLoss(db)
  <2>1. ASSUME NEW a \in Accounts PROVE ~Seen(db, a).destructed
    <3>1. Displays(db, View(db).acct[a], a)
      BY <1>2, ViewDisplays, Zenon
    <3> QED BY <1>4, <3>1, Zenon DEF Displays, NoneDestructed
  <2>2. ASSUME NEW a \in Blocked PROVE a \in Clean(db)
    <3>1. a \in Accounts
      BY AccountsAssumption
    <3>2. db.dirties[a] \in Nat
      BY <1>2, <3>1, DBFields
    <3>3. ~(db.dirties[a] > 0)
      BY <1>4, <3>1, Zenon DEF Dirty
    <3>4. db.dirties[a] = 0
      BY <3>2, <3>3
    <3> QED BY <3>1, <3>4, Zenon DEF Clean
  <2> QED BY <2>1, <2>2, Zenon DEF NoLoss
<1> QED BY <1>2, <1>3, <1>4, Zenon

\* So the snapshots match the layers while the transaction runs.
LEMMA LayersShown ==
    ASSUME RisingFacts, StateOK
    PROVE  LayersMatchJournal
<1>1. SUFFICES ASSUME phase = "run"
               PROVE  LET calls == Entries({"precompile"})
                      IN  /\ \A i \in calls : db.journal[i].snapshot \in 0..Len(db.cache) - 2
                          /\ \A i, j \in calls :
                                i < j => db.journal[i].snapshot < db.journal[j].snapshot
  BY <1>1, Zenon DEF LayersMatchJournal
<1>2. db \in DBType /\ \E m : DbOK(db, m)
  BY <1>1, Zenon DEF StateOK, Sound, Ready
<1>3. LayersInOrder(db)
  BY <1>2, LayersOrdered, Zenon
<1>4. Len(db.journal) \in Nat /\ Len(db.cache) \in Nat
  <2>1. db.journal \in Seq(JournalEntries) /\ db.cache \in Seq(StoreType)
    BY <1>2, DBFields, Zenon
  <2> QED BY <2>1
<1>5. ASSUME NEW i \in Entries({"precompile"})
      PROVE  /\ db.journal[i].snapshot \in 0..Len(db.cache) - 2
             /\ \A j \in Entries({"precompile"}) :
                   i < j => db.journal[i].snapshot < db.journal[j].snapshot
  <2>1. /\ i \in 1..Len(db.journal) /\ db.journal[i].kind = "precompile"
        /\ \A j \in Entries({"precompile"}) :
              j \in 1..Len(db.journal) /\ db.journal[j].kind = "precompile"
    BY Zenon DEF Entries
  <2>2. /\ db.journal[i].snapshot \in Nat /\ db.journal[i].snapshot + 2 <= Len(db.cache)
        /\ \A j \in i + 1..Len(db.journal) :
              db.journal[j].kind = "precompile" => db.journal[i].snapshot < db.journal[j].snapshot
    BY <1>3, <2>1, Zenon DEF LayersInOrder
  <2>3. \A j \in 1..Len(db.journal) : i < j => j \in i + 1..Len(db.journal)
    BY <1>4, <2>1
  <2>4. db.journal[i].snapshot \in 0..Len(db.cache) - 2
    BY <1>4, <2>2
  <2> QED BY <2>1, <2>2, <2>3, <2>4, Zenon
<1> QED BY <1>5, Zenon

INSTANCE SumProofs

(***************************************************************************)
(* The facts about sums and cardinalities.                                 *)
(***************************************************************************)
\* Sums over the accounts.
LEMMA SumsHold == SumFacts
<1>1. N \in Nat
  BY AccountsAssumption, Zenon
<1> QED BY <1>1, SumsOfNaturals, Zenon DEF SumFacts, Accounts

\* Numbers that do not fall are in order.
LEMMA RisingHolds == RisingFacts
  BY Rising, Zenon DEF RisingFacts

INSTANCE FiniteSetTheorems

\* Entries of the journal are counted.
LEMMA CountsHold == CountFacts
<1> SUFFICES ASSUME NEW n \in Nat, NEW S \in SUBSET (1..n)
             PROVE  Counts(n, S)
  BY Zenon DEF CountFacts
<1>1. CardinalityFacts(n)
  <2>1. IsFiniteSet(1..n)
    BY FS_Interval
  <2>2. \A T \in SUBSET (1..n) : IsFiniteSet(T)
    BY <2>1, FS_Subset, Zenon
  <2> QED BY <2>2, FS_EmptySet, FS_AddElement, FS_CardinalityType, Zenon DEF CardinalityFacts
<1>2. ASSUME NEW f \in [0..n -> Nat], Grows(f, S, n)
      PROVE  \A k \in 0..n : f[k] = f[0] + Cardinality(UpTo(S, k))
  BY <1>1, <1>2, Counting, Zenon DEF Grows, UpTo
<1> QED BY <1>1, <1>2, CountTypes, Zenon DEF Counts, UpTo

(***************************************************************************)
(* The theorems.                                                           *)
(***************************************************************************)
\* The inductive invariant holds.
THEOREM StateInvariant == Spec => []StateOK
<1>1. Init => StateOK
  BY StateInit, SumsHold, CountsHold, Zenon
<1>2. StateOK /\ [Next]_vars => StateOK'
  BY StateStep, SumsHold, CountsHold, Zenon
<1> QED BY <1>1, <1>2, PTL DEF Spec

\* Types of the StateDB.
THEOREM StateDBTypes == Spec => []TypeOK
<1>1. StateOK => TypeOK
  BY StateShows, CountsHold, Zenon
<1> QED BY <1>1, StateInvariant, PTL

\* append and Revert keep the count of changes of every account equal to its
\* entries in the journal, and commitWithCtx finds an object for each dirty
\* account.
THEOREM DirtiesAlwaysMatch == Spec => []DirtiesMatchJournal
<1>1. StateOK => DirtiesMatchJournal
  BY StateShows, CountsHold, Zenon
<1> QED BY <1>1, StateInvariant, PTL

\* RevertToSnapshot of the store never panics, and drops the layers of the calls
\* that are reverted and no others, whatever branches the calls made and whatever
\* was reverted before.
THEOREM LayersAlwaysMatch == Spec => []LayersMatchJournal
<1>1. StateOK => LayersMatchJournal
  BY LayersShown, RisingHolds, Zenon
<1> QED BY <1>1, StateInvariant, PTL

\* RevertToSnapshot restores what the EVM saw at the snapshot, and what the
\* precompiles would have seen.
THEOREM RevertAlwaysRestores == Spec => RevertRestores
<1>1. StateOK /\ [Next]_vars => [Restores]_vars
  BY StepRestores, Zenon DEF vars
<1>2. Spec => [][Restores]_vars
  BY <1>1, StateInvariant, PTL DEF Spec
<1> QED BY <1>2 DEF RevertRestores, Restores

\* Commit leaves the stores as the EVM last saw them.
THEOREM CommitAlwaysExact == Spec => CommitExact
<1>1. StateOK /\ [Next]_vars => [Exact]_vars
  BY StepExact, CountsHold, Zenon DEF vars
<1>2. Spec => [][Exact]_vars
  BY <1>1, StateInvariant, PTL DEF Spec
<1> QED BY <1>2 DEF CommitExact, Exact

\* A transaction makes no coins, and loses some only with a destructed
\* contract.
THEOREM SupplyAlwaysKept == Spec => SupplyKept
<1>1. StateOK /\ [Next]_vars => [Keeping]_vars
  BY StepKeeps, SumsHold, CountsHold, Zenon DEF vars
<1>2. Spec => [][Keeping]_vars
  BY <1>1, StateInvariant, PTL DEF Spec
<1> QED BY <1>2 DEF SupplyKept, Keeping
=============================================================================
