------------------------------ MODULE SumProofs ------------------------------
(***************************************************************************)
(* Facts about sums of functions over 1..n: the defining equations hold,   *)
(* a change of one term changes the sum by as much, and a sum of naturals  *)
(* is at least any two of its terms.  The last lemmas are about functions  *)
(* on 0..n that grow from one place to the next.                           *)
(***************************************************************************)
EXTENDS FunctionSums, FiniteSets, WellFoundedInduction, TLAPS

\* Every non-empty set of naturals has a least element.
LEMMA LeastNatural ==
    ASSUME NEW T, T \subseteq Nat, T # {}
    PROVE  \E m \in T : \A k \in T : m <= k
<1> DEFINE Less == {ss \in Nat \X Nat : ss[1] < ss[2]}
<1>1. IsWellFoundedOn(Less, Nat)
  BY NatLessThanWellFounded, Zenon DEF OpToRel
<1>2. \E m \in T : \A k \in T : ~ (<<k, m>> \in Less)
  <2> HIDE DEF Less
  <2> QED BY <1>1, WFMin, Zenon
<1>3. ASSUME NEW m \in T, NEW k \in T, <<k, m>> \notin Less
      PROVE  m <= k
  BY <1>3
<1> QED BY <1>2, <1>3, Zenon

\* p holds the partial sums of f up to n.
IsPartialSums(p, f, n) ==
    /\ p \in [0..n -> Int]
    /\ p[0] = 0
    /\ \A i \in 1..n : p[i] = p[i - 1] + f[i]

\* Every integer-valued f has partial sums: the least n without would have
\* some, one step beyond those of n - 1.
LEMMA PartialSumsExist ==
    ASSUME NEW n \in Nat, NEW f, \A i \in 1..n : f[i] \in Int
    PROVE  \E p : IsPartialSums(p, f, n)
<1> DEFINE Missing == {k \in Nat : k <= n /\ ~ \E p : IsPartialSums(p, f, k)}
<1>1. SUFFICES ASSUME Missing # {} PROVE FALSE
  BY <1>1
<1>2. PICK m \in Missing : \A k \in Missing : m <= k
  <2>1. Missing \subseteq Nat
    OBVIOUS
  <2> HIDE DEF Missing
  <2> QED BY <2>1, <1>1, LeastNatural, Zenon
<1>3. m # 0
  <2>1. IsPartialSums([i \in 0..0 |-> 0], f, 0)
    BY DEF IsPartialSums
  <2> QED BY <2>1
<1>4. PICK p : IsPartialSums(p, f, m - 1)
  <2>1. m - 1 \in Nat /\ m - 1 <= n /\ m - 1 \notin Missing
    BY <1>2, <1>3
  <2> QED BY <2>1
<1>5. m \in 1..n
  BY <1>3
<1> DEFINE q == [i \in 0..m |-> IF i = m THEN p[m - 1] + f[m] ELSE p[i]]
<1>6. IsPartialSums(q, f, m)
  <2>1. p[m - 1] \in Int /\ f[m] \in Int
    BY <1>4, <1>5 DEF IsPartialSums
  <2>2. q \in [0..m -> Int]
    BY <2>1, <1>4, <1>5 DEF IsPartialSums
  <2>3. q[0] = 0
    BY <1>4, <1>5 DEF IsPartialSums
  <2>4. ASSUME NEW i \in 1..m PROVE q[i] = q[i - 1] + f[i]
    BY <1>4, <1>5 DEF IsPartialSums
  <2> QED BY <2>2, <2>3, <2>4, Zenon DEF IsPartialSums
<1> QED BY <1>6

\* The partial sums of f are determined by f.
LEMMA PartialSumsUnique ==
    ASSUME NEW n \in Nat, NEW f, NEW p, NEW q,
           IsPartialSums(p, f, n), IsPartialSums(q, f, n)
    PROVE  p[n] = q[n]
<1> DEFINE Differ == {k \in Nat : k <= n /\ p[k] # q[k]}
<1>1. SUFFICES ASSUME Differ # {} PROVE FALSE
  BY <1>1
<1>2. PICK m \in Differ : \A k \in Differ : m <= k
  <2>1. Differ \subseteq Nat
    OBVIOUS
  <2> HIDE DEF Differ
  <2> QED BY <2>1, <1>1, LeastNatural, Zenon
<1>3. m # 0
  BY DEF IsPartialSums
<1>4. m - 1 \in Nat /\ m - 1 \notin Differ
  BY <1>2, <1>3
<1>5. p[m - 1] = q[m - 1] /\ m \in 1..n
  BY <1>3, <1>4
<1> QED BY <1>5 DEF IsPartialSums

\* The recursive definition computes the partial sums.
LEMMA PartialSumsCorrect ==
    ASSUME NEW n \in Nat, NEW f, \A i \in 1..n : f[i] \in Int
    PROVE  IsPartialSums(PartialSums(f, n), f, n)
<1> DEFINE Fits(p) == p = [i \in 0..n |-> IF i = 0 THEN 0 ELSE p[i - 1] + f[i]]
<1>1. PICK w : IsPartialSums(w, f, n)
  BY PartialSumsExist
<1>2. Fits(w)
  BY <1>1 DEF IsPartialSums
<1>3. Fits(PartialSums(f, n))
  <2>1. PartialSums(f, n) = CHOOSE p : Fits(p)
    BY Zenon DEF PartialSums
  <2> HIDE DEF Fits
  <2> QED BY <2>1, <1>2, Zenon
<1> DEFINE P == PartialSums(f, n)
           Differ == {k \in Nat : k <= n /\ P[k] # w[k]}
<1>4. Differ = {}
  <2>1. SUFFICES ASSUME Differ # {} PROVE FALSE
    BY <2>1
  <2>2. PICK m \in Differ : \A k \in Differ : m <= k
    <3>1. Differ \subseteq Nat
      OBVIOUS
    <3> HIDE DEF Differ
    <3> QED BY <3>1, <2>1, LeastNatural, Zenon
  <2>3. m # 0
    BY <1>1, <1>3 DEF IsPartialSums
  <2>4. m - 1 \in Nat /\ m - 1 \notin Differ
    BY <2>2, <2>3
  <2>5. P[m - 1] = w[m - 1] /\ m \in 1..n
    BY <2>3, <2>4
  <2> QED BY <2>5, <1>1, <1>3 DEF IsPartialSums
<1>5. \A k \in 0..n : P[k] = w[k]
  BY <1>4
<1>6. P = w
  <2>1. P = [i \in 0..n |-> P[i]]
    BY <1>3
  <2>2. w = [i \in 0..n |-> w[i]]
    BY <1>1 DEF IsPartialSums
  <2> HIDE DEF P
  <2> QED BY <2>1, <2>2, <1>5
<1> QED BY <1>1, <1>6

\* A sum can be computed from any partial sums of its terms.
LEMMA SumFromPartialSums ==
    ASSUME NEW n \in Nat, NEW f, \A i \in 1..n : f[i] \in Int,
           NEW p, IsPartialSums(p, f, n)
    PROVE  SumTo(f, n) = p[n]
<1>1. IsPartialSums(PartialSums(f, n), f, n)
  BY PartialSumsCorrect
<1>2. PartialSums(f, n)[n] = p[n]
  BY <1>1, PartialSumsUnique
<1> QED BY <1>2 DEF SumTo

\* A sum of integers is an integer.
LEMMA SumType ==
    ASSUME NEW n \in Nat, NEW f, \A i \in 1..n : f[i] \in Int
    PROVE  SumTo(f, n) \in Int
<1>1. IsPartialSums(PartialSums(f, n), f, n)
  BY PartialSumsCorrect
<1> QED BY <1>1 DEF IsPartialSums, SumTo

\* Changing one term changes the sum by as much.
LEMMA SumUpdate ==
    ASSUME NEW n \in Nat, NEW f, NEW g, NEW a \in 1..n,
           \A i \in 1..n : f[i] \in Int, \A i \in 1..n : g[i] \in Int,
           \A i \in 1..n : i # a => g[i] = f[i]
    PROVE  SumTo(g, n) = SumTo(f, n) + (g[a] - f[a])
<1>1. PICK p : IsPartialSums(p, f, n)
  BY PartialSumsExist
<1> DEFINE q == [i \in 0..n |-> IF i < a THEN p[i] ELSE p[i] + (g[a] - f[a])]
<1>2. IsPartialSums(q, g, n)
  <2>1. q \in [0..n -> Int]
    BY <1>1, SMTT(30) DEF IsPartialSums
  <2>2. q[0] = 0
    BY <1>1 DEF IsPartialSums
  <2>3. ASSUME NEW i \in 1..n PROVE q[i] = q[i - 1] + g[i]
    <3>1. p[i] = p[i - 1] + f[i] /\ p[i] \in Int /\ p[i - 1] \in Int
      BY <1>1 DEF IsPartialSums
    <3>2. q[i] = IF i < a THEN p[i] ELSE p[i] + (g[a] - f[a])
      OBVIOUS
    <3>3. q[i - 1] = IF i - 1 < a THEN p[i - 1] ELSE p[i - 1] + (g[a] - f[a])
      OBVIOUS
    <3> HIDE DEF q
    <3>4. CASE i < a
      BY <3>1, <3>2, <3>3, <3>4
    <3>5. CASE i = a
      BY <3>1, <3>2, <3>3, <3>5
    <3>6. CASE i > a
      BY <3>1, <3>2, <3>3, <3>6
    <3> QED BY <3>4, <3>5, <3>6
  <2> QED BY <2>1, <2>2, <2>3, Zenon DEF IsPartialSums
<1>3. SumTo(f, n) = p[n] /\ p[n] \in Int
  <2>1. SumTo(f, n) = p[n]
    BY <1>1, SumFromPartialSums
  <2>2. p[n] \in Int
    BY <1>1 DEF IsPartialSums
  <2> QED BY <2>1, <2>2
<1>4. SumTo(g, n) = q[n]
  <2> HIDE DEF q
  <2> QED BY <1>2, SumFromPartialSums
<1> QED BY <1>3, <1>4

\* Equal terms, equal sums.
LEMMA SumSame ==
    ASSUME NEW n \in Nat, NEW f, NEW g, \A i \in 1..n : f[i] \in Int,
           \A i \in 1..n : g[i] = f[i]
    PROVE  SumTo(g, n) = SumTo(f, n)
<1>1. PICK p : IsPartialSums(p, f, n)
  BY PartialSumsExist
<1>2. IsPartialSums(p, g, n)
  BY <1>1 DEF IsPartialSums
<1> QED BY <1>1, <1>2, SumFromPartialSums

\* A sum of naturals is a natural: the least negative partial sum would come
\* after a smaller one.
LEMMA SumNat ==
    ASSUME NEW n \in Nat, NEW f, \A i \in 1..n : f[i] \in Nat
    PROVE  SumTo(f, n) \in Nat
<1>1. PICK p : IsPartialSums(p, f, n)
  BY PartialSumsExist
<1> DEFINE Negative == {k \in Nat : k <= n /\ p[k] < 0}
<1>2. Negative = {}
  <2>1. SUFFICES ASSUME Negative # {} PROVE FALSE
    BY <2>1
  <2>2. PICK m \in Negative : \A k \in Negative : m <= k
    <3>1. Negative \subseteq Nat
      OBVIOUS
    <3> HIDE DEF Negative
    <3> QED BY <3>1, <2>1, LeastNatural, Zenon
  <2>3. m # 0
    BY <1>1 DEF IsPartialSums
  <2>4. m - 1 \in Nat /\ m - 1 \notin Negative /\ m \in 1..n
    BY <2>2, <2>3
  <2>5. p[m - 1] >= 0 /\ p[m] < 0 /\ p[m] \in Int
    BY <2>4, <1>1 DEF IsPartialSums
  <2>6. p[m] = p[m - 1] + f[m] /\ f[m] \in Nat /\ p[m - 1] \in Int
    BY <2>4, <1>1 DEF IsPartialSums
  <2> QED BY <2>5, <2>6
<1>3. p[n] \in Nat
  BY <1>1, <1>2 DEF IsPartialSums
<1> QED BY <1>1, <1>3, SumFromPartialSums

\* A sum of naturals is at least any two of its terms.
LEMMA SumAtLeastTwo ==
    ASSUME NEW n \in Nat, NEW f \in [1..n -> Nat],
           NEW a \in 1..n, NEW b \in 1..n, a # b
    PROVE  SumTo(f, n) >= f[a] + f[b]
<1> DEFINE g == [f EXCEPT ![a] = 0]
           h == [g EXCEPT ![b] = 0]
<1>1. g \in [1..n -> Nat] /\ h \in [1..n -> Nat]
  OBVIOUS
<1>2. /\ \A i \in 1..n : i # a => g[i] = f[i]
      /\ \A i \in 1..n : i # b => h[i] = g[i]
      /\ g[a] = 0 /\ h[b] = 0 /\ g[b] = f[b]
  OBVIOUS
<1> HIDE DEF g, h
<1>3. /\ \A i \in 1..n : f[i] \in Int
      /\ \A i \in 1..n : g[i] \in Int
      /\ \A i \in 1..n : h[i] \in Int
  BY <1>1
<1>4. SumTo(g, n) = SumTo(f, n) + (g[a] - f[a])
  BY SumUpdate, <1>2, <1>3, Zenon
<1>5. SumTo(h, n) = SumTo(g, n) + (h[b] - g[b])
  BY SumUpdate, <1>2, <1>3, Zenon
<1>6. SumTo(h, n) \in Nat /\ SumTo(f, n) \in Nat /\ SumTo(g, n) \in Nat
  BY SumNat, <1>1
<1> QED BY <1>2, <1>4, <1>5, <1>6, SMTT(30)

\* One term of a sum of naturals changes.
LEMMA SumNatUpdate ==
    ASSUME NEW n \in Nat, NEW f \in [1..n -> Nat], NEW g \in [1..n -> Nat], NEW a \in 1..n,
           \A i \in 1..n : i # a => g[i] = f[i]
    PROVE  /\ SumTo(g, n) = SumTo(f, n) + (g[a] - f[a])
           /\ SumTo(f, n) \in Nat /\ SumTo(g, n) \in Nat
           /\ SumTo(f, n) >= f[a]
<1> DEFINE z == [f EXCEPT ![a] = 0]
<1>1. z \in [1..n -> Nat] /\ z[a] = 0 /\ \A i \in 1..n : i # a => z[i] = f[i]
  OBVIOUS
<1> HIDE DEF z
<1>2. /\ \A i \in 1..n : f[i] \in Int
      /\ \A i \in 1..n : g[i] \in Int
      /\ \A i \in 1..n : z[i] \in Int
  BY <1>1
<1>3. SumTo(g, n) = SumTo(f, n) + (g[a] - f[a])
  BY <1>2, SumUpdate, Zenon
<1>4. SumTo(z, n) = SumTo(f, n) + (z[a] - f[a])
  BY <1>1, <1>2, SumUpdate, ZenonT(30)
<1>5. SumTo(f, n) \in Nat /\ SumTo(g, n) \in Nat /\ SumTo(z, n) \in Nat
  BY <1>1, SumNat
<1>6. f[a] \in Nat
  OBVIOUS
<1> QED BY <1>1, <1>3, <1>4, <1>5, <1>6

\* A sum of zeros.
LEMMA SumZero ==
    ASSUME NEW n \in Nat, NEW f, \A i \in 1..n : f[i] = 0
    PROVE  SumTo(f, n) = 0
<1> DEFINE p == [i \in 0..n |-> 0]
<1>1. IsPartialSums(p, f, n) /\ p[n] = 0
  BY DEF IsPartialSums
<1> HIDE DEF p
<1>2. \A i \in 1..n : f[i] \in Int
  OBVIOUS
<1> QED BY <1>1, <1>2, SumFromPartialSums

\* The sum of a linear combination.
LEMMA SumLinear ==
    ASSUME NEW n \in Nat, NEW f, NEW g, NEW h, NEW c \in Int,
           \A i \in 1..n : f[i] \in Int /\ g[i] \in Int,
           \A i \in 1..n : h[i] = f[i] * c + g[i]
    PROVE  SumTo(h, n) = SumTo(f, n) * c + SumTo(g, n)
<1>1. (\A i \in 1..n : f[i] \in Int) /\ (\A i \in 1..n : g[i] \in Int)
  OBVIOUS
<1>2. PICK p : IsPartialSums(p, f, n)
  BY <1>1, PartialSumsExist, Zenon
<1>3. PICK q : IsPartialSums(q, g, n)
  BY <1>1, PartialSumsExist, Zenon
<1> DEFINE s == [i \in 0..n |-> p[i] * c + q[i]]
<1>4. /\ \A i \in 0..n : p[i] \in Int /\ q[i] \in Int
      /\ p[0] = 0 /\ q[0] = 0
      /\ \A i \in 1..n : p[i] = p[i - 1] + f[i] /\ q[i] = q[i - 1] + g[i]
  BY <1>2, <1>3 DEF IsPartialSums
<1>5. \A x, y \in Int : x * c + y \in Int
  OBVIOUS
<1>6. (\A i \in 1..n : h[i] \in Int)
  BY <1>1, <1>5
<1>7. IsPartialSums(s, h, n)
  <2>1. s \in [0..n -> Int]
    BY <1>4, <1>5
  <2>2. s[0] = 0
    BY <1>4
  <2>3. ASSUME NEW i \in 1..n PROVE s[i] = s[i - 1] + h[i]
    <3>1. i \in 0..n /\ i - 1 \in 0..n
      OBVIOUS
    <3>2. /\ s[i] = p[i] * c + q[i] /\ s[i - 1] = p[i - 1] * c + q[i - 1]
          /\ h[i] = f[i] * c + g[i]
          /\ p[i] = p[i - 1] + f[i] /\ q[i] = q[i - 1] + g[i]
      BY <3>1, <1>4
    <3>3. \A x, y, u, v \in Int : (x + y) * c + (u + v) = (x * c + u) + (y * c + v)
      OBVIOUS
    <3>4. p[i - 1] \in Int /\ f[i] \in Int /\ q[i - 1] \in Int /\ g[i] \in Int
      BY <3>1, <1>1, <1>4
    <3> QED BY <3>2, <3>3, <3>4, SMTT(30)
  <2> HIDE DEF s
  <2> QED BY <2>1, <2>2, <2>3 DEF IsPartialSums
<1>8. n \in 0..n /\ s[n] = p[n] * c + q[n]
  OBVIOUS
<1> HIDE DEF s
<1>9. SumTo(f, n) = p[n] /\ SumTo(g, n) = q[n] /\ SumTo(h, n) = s[n]
  BY <1>1, <1>2, <1>3, <1>6, <1>7, SumFromPartialSums, Zenon
<1> QED BY <1>8, <1>9

\* A sum of smaller terms is smaller.
LEMMA SumMonotone ==
    ASSUME NEW n \in Nat, NEW f, NEW g, \A i \in 1..n : f[i] \in Nat /\ g[i] \in Nat,
           \A i \in 1..n : f[i] <= g[i]
    PROVE  SumTo(f, n) <= SumTo(g, n)
<1> DEFINE k == [i \in 1..n |-> g[i] - f[i]]
<1>1. \A i \in 1..n : k[i] \in Nat /\ f[i] \in Int /\ k[i] \in Int /\ g[i] = f[i] * 1 + k[i]
  OBVIOUS
<1>2. \A i \in 1..n : f[i] \in Nat
  OBVIOUS
<1> HIDE DEF k
<1>3. SumTo(g, n) = SumTo(f, n) * 1 + SumTo(k, n)
  <2>1. 1 \in Int /\ \A i \in 1..n : f[i] \in Int /\ k[i] \in Int
    BY <1>1
  <2>2. \A i \in 1..n : g[i] = f[i] * 1 + k[i]
    BY <1>1
  <2> QED BY <2>1, <2>2, SumLinear, Zenon
<1>4. SumTo(k, n) \in Nat
  BY <1>1, SumNat
<1>5. SumTo(f, n) \in Nat
  BY <1>2, SumNat
<1> QED BY <1>3, <1>4, <1>5

\* Sums of naturals: their type, a change of one term, and smaller terms.
LEMMA SumsOfNaturals ==
    ASSUME NEW n \in Nat
    PROVE  /\ \A f \in [1..n -> Nat] : SumTo(f, n) \in Nat
           /\ \A f, g \in [1..n -> Nat] : \A a \in 1..n :
                 (\A i \in 1..n : i # a => g[i] = f[i]) =>
                    SumTo(g, n) = SumTo(f, n) + (g[a] - f[a])
           /\ \A f, g \in [1..n -> Nat] :
                 (\A i \in 1..n : f[i] <= g[i]) => SumTo(f, n) <= SumTo(g, n)
<1>1. ASSUME NEW f \in [1..n -> Nat]
      PROVE  SumTo(f, n) \in Nat /\ \A i \in 1..n : f[i] \in Nat
  <2>1. \A i \in 1..n : f[i] \in Nat
    OBVIOUS
  <2> QED BY <2>1, SumNat, Zenon
<1>2. ASSUME NEW f \in [1..n -> Nat], NEW g \in [1..n -> Nat], NEW a \in 1..n,
             \A i \in 1..n : i # a => g[i] = f[i]
      PROVE  SumTo(g, n) = SumTo(f, n) + (g[a] - f[a])
  BY <1>2, SumNatUpdate, Zenon
<1>3. ASSUME NEW f \in [1..n -> Nat], NEW g \in [1..n -> Nat],
             \A i \in 1..n : f[i] <= g[i]
      PROVE  SumTo(f, n) <= SumTo(g, n)
  <2>1. \A i \in 1..n : f[i] \in Nat /\ g[i] \in Nat
    OBVIOUS
  <2> QED BY <1>3, <2>1, SumMonotone, Zenon
<1> QED BY <1>1, <1>2, <1>3, Zenon

\* What does not fall from one place to the next does not fall.
LEMMA Rising ==
    ASSUME NEW n \in Nat, NEW f \in [0..n -> Nat],
           \A k \in 1..n : f[k - 1] <= f[k], NEW i \in 0..n
    PROVE  \A j \in i..n : f[i] <= f[j]
<1> DEFINE Wrong == {k \in i..n : ~(f[i] <= f[k])}
<1>1. SUFFICES ASSUME Wrong # {} PROVE FALSE
  BY Zenon
<1>2. PICK k : k \in Wrong /\ \A j \in Wrong : k <= j
  <2>1. Wrong \subseteq Nat
    OBVIOUS
  <2> HIDE DEF Wrong
  <2> QED BY <1>1, <2>1, LeastNatural, Zenon
<1>3. k \in i..n /\ ~(f[i] <= f[k])
  BY <1>2
<1>4. k # i
  BY <1>3
<1>5. k \in 1..n /\ k - 1 \in i..n /\ k - 1 \notin Wrong
  BY <1>2, <1>3, <1>4
<1>6. f[i] <= f[k - 1]
  BY <1>5
<1>7. f[k - 1] <= f[k] /\ f[i] \in Nat /\ f[k] \in Nat /\ f[k - 1] \in Nat
  BY <1>5
<1> QED BY <1>3, <1>6, <1>7

\* What counting needs of the cardinalities of sets of places.
CardinalityFacts(n) ==
    /\ Cardinality({}) = 0
    /\ \A T \in SUBSET (1..n) :
          /\ Cardinality(T) \in Nat
          /\ \A k \in (1..n) \ T : Cardinality(T \union {k}) = Cardinality(T) + 1

Places(S, k) == {i \in S : i <= k}

Counted(S, k) ==
    Cardinality(Places(S, k)) = IF k \in S THEN Cardinality(Places(S, k - 1)) + 1
                                ELSE Cardinality(Places(S, k - 1))

\* One more place counts one more if it is in the set.
LEMMA CountStep ==
    ASSUME NEW n \in Nat, NEW S \in SUBSET (1..n), CardinalityFacts(n), NEW k \in 1..n
    PROVE  Counted(S, k)
<1> DEFINE T == Places(S, k - 1)
<1>1. T \in SUBSET (1..n) /\ k \notin T
  <2>1. ~(k <= k - 1)
    OBVIOUS
  <2> QED BY <2>1, Zenon DEF Places
<1>2. Places(S, k) = IF k \in S THEN T \union {k} ELSE T
  <2>1. \A i \in 1..n : i <= k <=> (i = k \/ i <= k - 1)
    OBVIOUS
  <2>2. CASE k \in S
    BY <2>1, <2>2, Zenon DEF Places
  <2>3. CASE k \notin S
    BY <2>1, <2>3, Zenon DEF Places
  <2> QED BY <2>2, <2>3, Zenon
<1> HIDE DEF T
<1>3. Cardinality(T \union {k}) = Cardinality(T) + 1
  BY <1>1, Zenon DEF CardinalityFacts
<1> QED BY <1>2, <1>3, Zenon DEF T, Counted

\* The number of places, all of them or up to one, is a natural.
LEMMA CountTypes ==
    ASSUME NEW n \in Nat, NEW S \in SUBSET (1..n), CardinalityFacts(n)
    PROVE  /\ Cardinality(S) \in Nat /\ (S = {} => Cardinality(S) = 0)
           /\ \A k \in 0..n : Cardinality({i \in S : i <= k}) \in Nat
<1>1. Cardinality(S) \in Nat /\ (S = {} => Cardinality(S) = 0)
  BY Zenon DEF CardinalityFacts
<1>2. \A k \in 0..n : {i \in S : i <= k} \in SUBSET (1..n)
  BY Zenon
<1> QED BY <1>1, <1>2, Zenon DEF CardinalityFacts

\* Places of a set are counted by a number that is one more after each of
\* them, and the same after every other place.
LEMMA Counting ==
    ASSUME NEW n \in Nat, NEW S \in SUBSET (1..n), CardinalityFacts(n), NEW f \in [0..n -> Nat],
           \A k \in 1..n : f[k] = IF k \in S THEN f[k - 1] + 1 ELSE f[k - 1]
    PROVE  \A k \in 0..n : f[k] = f[0] + Cardinality({i \in S : i <= k})
<1> DEFINE Wrong == {k \in 0..n : f[k] # f[0] + Cardinality(Places(S, k))}
<1>1. SUFFICES ASSUME Wrong # {} PROVE FALSE
  BY Zenon DEF Places
<1>2. PICK k : k \in Wrong /\ \A i \in Wrong : k <= i
  <2>1. Wrong \subseteq Nat
    OBVIOUS
  <2> HIDE DEF Wrong
  <2> QED BY <1>1, <2>1, LeastNatural, Zenon
<1>3. k \in 0..n /\ f[k] # f[0] + Cardinality(Places(S, k))
  BY <1>2
<1>4. k # 0
  <2>1. Places(S, 0) = {}
    <3>1. \A i \in 1..n : ~(i <= 0)
      OBVIOUS
    <3> QED BY <3>1, Zenon DEF Places
  <2>2. Cardinality(Places(S, 0)) = 0
    BY <2>1, Zenon DEF CardinalityFacts
  <2> QED BY <1>3, <2>2
<1>5. k \in 1..n /\ k - 1 \in 0..n /\ k - 1 \notin Wrong
  BY <1>2, <1>3, <1>4
<1>6. f[k - 1] = f[0] + Cardinality(Places(S, k - 1))
  BY <1>5
<1>7. /\ f[k] = IF k \in S THEN f[k - 1] + 1 ELSE f[k - 1]
      /\ Counted(S, k)
      /\ Cardinality(Places(S, k - 1)) \in Nat
  <2> HIDE DEF Wrong
  <2>1. k \in 1..n /\ k - 1 \in 0..n
    BY <1>5, Zenon
  <2>2. f[k] = IF k \in S THEN f[k - 1] + 1 ELSE f[k - 1]
    BY <2>1
  <2>3. Counted(S, k)
    BY <2>1, CountStep, Zenon
  <2>4. Cardinality(Places(S, k - 1)) \in Nat
    BY <2>1, CountTypes, Zenon DEF Places
  <2> QED BY <2>2, <2>3, <2>4, Zenon
<1>8. f[0] \in Nat
  OBVIOUS
<1> HIDE DEF Wrong
<1> QED BY <1>3, <1>6, <1>7, <1>8 DEF Counted
=============================================================================
