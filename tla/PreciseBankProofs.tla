-------------------------- MODULE PreciseBankProofs --------------------------
(***************************************************************************)
(* Theorems about x/precisebank, for every set of accounts and modules,    *)
(* every conversion factor, and transactions of any length.                *)
(***************************************************************************)
EXTENDS PreciseBank, SumProofs

(***************************************************************************)
(* Arithmetic of the conversion factor.                                    *)
(***************************************************************************)

\* An amount is its whole coins and a fraction of one.
LEMMA DivMod ==
    ASSUME NEW amt \in Nat
    PROVE  /\ amt \div ConversionFactor \in Nat
           /\ amt % ConversionFactor \in Fractions
           /\ amt = ConversionFactor * (amt \div ConversionFactor)
                   + (amt % ConversionFactor)
BY FactorAssumption DEF Fractions

\* One coin more or less.
LEMMA OneCoin ==
    ASSUME NEW b \in Int
    PROVE  /\ ConversionFactor * (b + 1) = ConversionFactor * b + ConversionFactor
           /\ ConversionFactor * (b - 1) = ConversionFactor * b - ConversionFactor
           /\ ConversionFactor * b \in Int
BY FactorAssumption

\* A coin's worth of fractions needs a coin.
LEMMA AtLeastOneCoin ==
    ASSUME NEW b \in Nat, ConversionFactor * b >= ConversionFactor
    PROVE  b >= 1
BY FactorAssumption
(***************************************************************************)
(* x/bank's books: the integer coins of all accounts are the supply.       *)
(***************************************************************************)
Total(b) == SumTo(b, N) + b[Reserve]

Books == {s \in Ledgers : s.supply = Total(s.bank)}

\* One account changes.
LEMMA TotalUpdate ==
    ASSUME NEW b \in [Accounts -> Nat], NEW c \in [Accounts -> Nat], NEW m \in Accounts,
           \A a \in Accounts \ {m} : c[a] = b[a]
    PROVE  Total(c) = Total(b) + (c[m] - b[m])
<1>1. N \in Nat /\ Reserve \in Accounts /\ 1..N \subseteq Accounts
  BY NAssumption DEF Accounts, Reserve
<1>2. (\A i \in 1..N : b[i] \in Int) /\ (\A i \in 1..N : c[i] \in Int)
  BY <1>1
<1>3. SumTo(b, N) \in Int /\ SumTo(c, N) \in Int
  BY SumType, <1>1, <1>2, Zenon
<1>4. CASE m = Reserve
  <2>1. \A i \in 1..N : c[i] = b[i]
    BY <1>1, <1>4 DEF Reserve
  <2>2. SumTo(c, N) = SumTo(b, N)
    BY SumSame, <1>1, <1>2, <2>1, Zenon
  <2> QED BY <1>1, <1>3, <1>4, <2>2 DEF Total
<1>5. CASE m # Reserve
  <2>1. m \in 1..N /\ c[Reserve] = b[Reserve]
    BY <1>1, <1>5 DEF Accounts, Reserve
  <2>2. \A i \in 1..N : i # m => c[i] = b[i]
    BY <1>1
  <2>3. SumTo(c, N) = SumTo(b, N) + (c[m] - b[m])
    BY SumUpdate, <1>1, <1>2, <2>1, <2>2, Zenon
  <2> QED BY <1>1, <1>3, <2>1, <2>3 DEF Total
<1> QED BY <1>4, <1>5

\* No account holds more than there is.
LEMMA TotalAtLeast ==
    ASSUME NEW b \in [Accounts -> Nat], NEW m \in Accounts
    PROVE  Total(b) \in Nat /\ Total(b) >= b[m]
<1> DEFINE c == [b EXCEPT ![m] = 0]
<1>1. c \in [Accounts -> Nat] /\ c[m] = 0 /\ \A a \in Accounts \ {m} : c[a] = b[a]
  OBVIOUS
<1> HIDE DEF c
<1>2. Total(c) = Total(b) + (c[m] - b[m])
  BY <1>1, TotalUpdate
<1>3. ASSUME NEW f \in [Accounts -> Nat] PROVE Total(f) \in Nat
  <2> DEFINE g == [i \in 1..N |-> f[i]]
  <2>1. N \in Nat /\ Reserve \in Accounts /\ 1..N \subseteq Accounts
    BY NAssumption DEF Accounts, Reserve
  <2>2. g \in [1..N -> Nat] /\ \A i \in 1..N : g[i] = f[i]
    BY <2>1
  <2> HIDE DEF g
  <2>3. (\A i \in 1..N : f[i] \in Int) /\ (\A i \in 1..N : g[i] \in Int)
    BY <2>1, <2>2
  <2>4. SumTo(g, N) = SumTo(f, N)
    BY SumSame, <2>1, <2>2, <2>3, Zenon
  <2>5. SumTo(g, N) \in Nat
    BY SumNat, <2>1, <2>2
  <2> QED BY <2>1, <2>4, <2>5 DEF Total
<1> QED BY <1>1, <1>2, <1>3

\* A move between two accounts leaves the total alone.
LEMMA TotalMove ==
    ASSUME NEW b \in [Accounts -> Nat], NEW c \in [Accounts -> Nat],
           NEW from \in Accounts, NEW to \in Accounts, from # to, NEW n \in Nat,
           c[from] = b[from] - n, c[to] = b[to] + n,
           \A a \in Accounts \ {from, to} : c[a] = b[a]
    PROVE  Total(c) = Total(b)
<1> DEFINE d == [b EXCEPT ![to] = @ + n]
<1>1. /\ d \in [Accounts -> Nat] /\ d[to] = b[to] + n
      /\ \A a \in Accounts \ {to} : d[a] = b[a]
  OBVIOUS
<1> HIDE DEF d
<1>2. Total(d) = Total(b) + (d[to] - b[to])
  BY <1>1, TotalUpdate
<1>3. (\A a \in Accounts \ {from} : c[a] = d[a]) /\ d[from] = b[from]
  BY <1>1
<1>4. Total(c) = Total(d) + (c[from] - d[from])
  BY <1>1, <1>3, TotalUpdate
<1>5. Total(b) \in Nat /\ b[from] \in Nat /\ b[to] \in Nat
  BY TotalAtLeast
<1> QED BY <1>1, <1>2, <1>3, <1>4, <1>5

(***************************************************************************)
(* What the primitive updates of a ledger do.  Step(s, r) says that r has  *)
(* balanced books and the history field of s, and succeeded only if s had. *)
(***************************************************************************)
Step(s, r) ==
    /\ r \in Books
    /\ r.donated = s.donated
    /\ r.status = "ok" => s.status = "ok"

SameFractions(s, r) == r.frac = s.frac /\ r.rem = s.rem

\* x/bank's transfer.
LEMMA BankSendEffect ==
    ASSUME NEW s \in Books, NEW from \in Accounts, NEW to \in Accounts, from # to,
           NEW n \in Nat
    PROVE  LET r == BankSend(s, from, to, n)
           IN  /\ Step(s, r)
               /\ SameFractions(s, r)
               /\ r.supply = s.supply
               /\ r.status = "ok" <=> s.status = "ok" /\ s.bank[from] >= n
               /\ r.status = "panic" => s.status = "panic"
               /\ r.status = "ok" => /\ r.bank[from] = s.bank[from] - n
                                     /\ r.bank[to] = s.bank[to] + n
                                     /\ \A a \in Accounts \ {from, to} : r.bank[a] = s.bank[a]
<1> DEFINE r == BankSend(s, from, to, n)
           b == [s.bank EXCEPT ![from] = @ - n, ![to] = @ + n]
<1> USE DEF Books
<1>1. CASE s.status # "ok"
  BY <1>1 DEF BankSend, Step, SameFractions
<1>2. CASE s.status = "ok" /\ s.bank[from] < n
  BY <1>2 DEF BankSend, Fail, Step, SameFractions, Ledgers, Statuses
<1>3. CASE s.status = "ok" /\ s.bank[from] >= n
  <2>1. /\ b \in [Accounts -> Nat]
        /\ b[from] = s.bank[from] - n /\ b[to] = s.bank[to] + n
        /\ \A a \in Accounts \ {from, to} : b[a] = s.bank[a]
        /\ s.bank \in [Accounts -> Nat]
    BY <1>3 DEF Ledgers
  <2>2. r = [s EXCEPT !.bank = b]
    BY <1>3 DEF BankSend, Ledgers
  <2> HIDE DEF b, r
  <2>3. /\ r \in Ledgers /\ r.bank = b
        /\ r.frac = s.frac /\ r.rem = s.rem /\ r.donated = s.donated
        /\ r.supply = s.supply /\ r.status = s.status
    BY <2>1, <2>2 DEF Ledgers
  <2>4. Total(b) = Total(s.bank)
    BY <2>1, TotalMove
  <2> QED BY <1>3, <2>1, <2>3, <2>4 DEF Step, SameFractions, r
<1> QED BY <1>1, <1>2, <1>3 DEF Ledgers

\* x/bank's mint.
LEMMA BankMintEffect ==
    ASSUME NEW s \in Books, NEW m \in Accounts, NEW n \in Nat
    PROVE  LET r == BankMint(s, m, n)
           IN  /\ Step(s, r)
               /\ SameFractions(s, r)
               /\ r.status = s.status
               /\ r.status = "ok" => /\ r.bank[m] = s.bank[m] + n
                                     /\ \A a \in Accounts \ {m} : r.bank[a] = s.bank[a]
<1> DEFINE r == BankMint(s, m, n)
           b == [s.bank EXCEPT ![m] = @ + n]
<1> USE DEF Books
<1>1. CASE s.status # "ok"
  BY <1>1 DEF BankMint, Step, SameFractions
<1>2. CASE s.status = "ok"
  <2>1. /\ b \in [Accounts -> Nat] /\ b[m] = s.bank[m] + n
        /\ \A a \in Accounts \ {m} : b[a] = s.bank[a]
        /\ s.bank \in [Accounts -> Nat]
    BY DEF Ledgers
  <2>2. r = [s EXCEPT !.bank = b, !.supply = s.supply + n] /\ s.supply + n \in Nat
    BY <1>2 DEF BankMint, Ledgers
  <2> HIDE DEF b, r
  <2>3. /\ r \in Ledgers /\ r.bank = b
        /\ r.frac = s.frac /\ r.rem = s.rem /\ r.donated = s.donated
        /\ r.supply = s.supply + n /\ r.status = s.status
    BY <2>1, <2>2, Zenon DEF Ledgers
  <2>4. Total(b) = Total(s.bank) + n
    <3>1. Total(b) = Total(s.bank) + (b[m] - s.bank[m])
      BY <2>1, TotalUpdate, Zenon
    <3> QED BY <2>1, <3>1
  <2> QED BY <1>2, <2>1, <2>3, <2>4 DEF Step, SameFractions, r
<1> QED BY <1>1, <1>2

\* x/bank's burn.
LEMMA BankBurnEffect ==
    ASSUME NEW s \in Books, NEW m \in Accounts, NEW n \in Nat
    PROVE  LET r == BankBurn(s, m, n)
           IN  /\ Step(s, r)
               /\ SameFractions(s, r)
               /\ r.status = "ok" <=> s.status = "ok" /\ s.bank[m] >= n
               /\ r.status = "panic" => s.status = "panic"
               /\ r.status = "ok" => /\ r.bank[m] = s.bank[m] - n
                                     /\ \A a \in Accounts \ {m} : r.bank[a] = s.bank[a]
<1> DEFINE r == BankBurn(s, m, n)
           b == [s.bank EXCEPT ![m] = @ - n]
<1> USE DEF Books
<1>1. CASE s.status # "ok"
  BY <1>1 DEF BankBurn, Step, SameFractions
<1>2. CASE s.status = "ok" /\ s.bank[m] < n
  BY <1>2 DEF BankBurn, Fail, Step, SameFractions, Ledgers, Statuses
<1>3. CASE s.status = "ok" /\ s.bank[m] >= n
  <2>1. /\ b \in [Accounts -> Nat] /\ b[m] = s.bank[m] - n
        /\ \A a \in Accounts \ {m} : b[a] = s.bank[a]
        /\ s.bank \in [Accounts -> Nat]
    BY <1>3 DEF Ledgers
  <2>2. Total(s.bank) >= s.bank[m] /\ Total(s.bank) \in Nat
    BY <2>1, TotalAtLeast
  <2>3. r = [s EXCEPT !.bank = b, !.supply = s.supply - n] /\ s.supply - n \in Nat
    BY <1>3, <2>1, <2>2 DEF BankBurn, Ledgers
  <2> HIDE DEF b, r
  <2>4. /\ r \in Ledgers /\ r.bank = b
        /\ r.frac = s.frac /\ r.rem = s.rem /\ r.donated = s.donated
        /\ r.supply = s.supply - n /\ r.status = s.status
    BY <2>1, <2>3, Zenon DEF Ledgers
  <2>5. Total(b) = Total(s.bank) - n
    <3>1. Total(b) = Total(s.bank) + (b[m] - s.bank[m])
      BY <2>1, TotalUpdate, Zenon
    <3> QED BY <2>1, <2>2, <3>1
  <2> QED BY <1>3, <2>1, <2>4, <2>5 DEF Step, SameFractions, r
<1> QED BY <1>1, <1>2, <1>3 DEF Ledgers

\* The setters of the module's store, within their range.
LEMMA SetFractionEffect ==
    ASSUME NEW s \in Books, NEW m \in Holders, NEW v \in Fractions
    PROVE  LET r == SetFractionalBalance(s, m, v)
           IN  /\ Step(s, r)
               /\ r.bank = s.bank /\ r.supply = s.supply /\ r.rem = s.rem
               /\ r.status = s.status
               /\ r.status = "ok" => /\ r.frac[m] = v
                                     /\ \A a \in Holders \ {m} : r.frac[a] = s.frac[a]
BY DEF SetFractionalBalance, Step, Books, Ledgers, Statuses

\* And of the remainder.
LEMMA SetRemainderEffect ==
    ASSUME NEW s \in Books, NEW v \in Fractions
    PROVE  LET r == SetRemainderAmount(s, v)
           IN  /\ Step(s, r)
               /\ r.bank = s.bank /\ r.supply = s.supply /\ r.frac = s.frac
               /\ r.status = s.status
               /\ r.status = "ok" => r.rem = v
BY DEF SetRemainderAmount, Step, Books, Ledgers, Statuses

(***************************************************************************)
(* Sums of fractional balances.                                            *)
(***************************************************************************)

\* One fractional balance changes.
LEMMA FractionsUpdate ==
    ASSUME NEW s \in Ledgers, NEW r \in Ledgers, NEW m \in Holders,
           \A a \in Holders \ {m} : r.frac[a] = s.frac[a]
    PROVE  /\ SumFractions(r) = SumFractions(s) + (r.frac[m] - s.frac[m])
           /\ SumFractions(s) \in Nat /\ SumFractions(r) \in Nat
           /\ SumFractions(s) >= s.frac[m]
<1>1. /\ N \in Nat /\ m \in 1..N
      /\ s.frac \in [1..N -> Nat] /\ r.frac \in [1..N -> Nat]
      /\ \A i \in 1..N : i # m => r.frac[i] = s.frac[i]
  BY NAssumption, FactorAssumption DEF Holders, Fractions, Ledgers
<1> QED BY <1>1, SumNatUpdate, Zenon DEF SumFractions

\* Two fractional balances change.
LEMMA FractionsMove ==
    ASSUME NEW s \in Ledgers, NEW r \in Ledgers,
           NEW from \in Holders, NEW to \in Holders, from # to,
           \A a \in Holders \ {from, to} : r.frac[a] = s.frac[a]
    PROVE  /\ SumFractions(r) = SumFractions(s) + (r.frac[from] - s.frac[from])
                                                + (r.frac[to] - s.frac[to])
           /\ SumFractions(s) \in Nat /\ SumFractions(r) \in Nat
           /\ SumFractions(s) >= s.frac[from] + s.frac[to]
<1> DEFINE d == [s EXCEPT !.frac = [s.frac EXCEPT ![from] = r.frac[from]]]
<1>1. /\ d \in Ledgers /\ d.frac[from] = r.frac[from]
      /\ \A a \in Holders \ {from} : d.frac[a] = s.frac[a]
  BY DEF Ledgers
<1> HIDE DEF d
<1>2. (\A a \in Holders \ {to} : r.frac[a] = d.frac[a]) /\ d.frac[to] = s.frac[to]
  BY <1>1
<1>3. /\ SumFractions(d) = SumFractions(s) + (d.frac[from] - s.frac[from])
      /\ SumFractions(s) \in Nat /\ SumFractions(d) \in Nat
  BY <1>1, FractionsUpdate
<1>4. /\ SumFractions(r) = SumFractions(d) + (r.frac[to] - d.frac[to])
      /\ SumFractions(r) \in Nat
  BY <1>1, <1>2, FractionsUpdate
<1>5. /\ s.frac[from] \in Int /\ s.frac[to] \in Int
      /\ r.frac[from] \in Int /\ r.frac[to] \in Int
  BY FactorAssumption DEF Ledgers, Fractions
<1>6. SumFractions(s) >= s.frac[from] + s.frac[to]
  <2>1. N \in Nat /\ s.frac \in [1..N -> Nat] /\ from \in 1..N /\ to \in 1..N
    BY NAssumption, FactorAssumption DEF Holders, Fractions, Ledgers
  <2>2. SumTo(s.frac, N) >= s.frac[from] + s.frac[to]
    BY <2>1, SumAtLeastTwo
  <2> QED BY <2>2 DEF SumFractions
<1> QED BY <1>1, <1>2, <1>3, <1>4, <1>5, <1>6

\* Extended amounts compare like whole coins, after a borrow.
LEMMA Compare ==
    ASSUME NEW b \in Nat, NEW w \in Nat, NEW f \in Fractions, NEW p \in Fractions
    PROVE  (b * ConversionFactor + f >= ConversionFactor * w + p)
              <=> (IF f >= p THEN b >= w ELSE b >= w + 1)
<1>1. f \in Int /\ p \in Int /\ f - p < ConversionFactor /\ p - f < ConversionFactor
  BY FactorAssumption DEF Fractions
<1>2. CASE b >= w + 1
  <2>1. b * ConversionFactor >= ConversionFactor * (w + 1)
    BY <1>2, FactorAssumption
  <2>2. ConversionFactor * (w + 1) = ConversionFactor * w + ConversionFactor
    BY OneCoin
  <2> QED BY <1>1, <1>2, <2>1, <2>2, FactorAssumption
<1>3. CASE b = w
  BY <1>1, <1>3, FactorAssumption
<1>4. CASE b + 1 <= w
  <2>1. ConversionFactor * w >= ConversionFactor * (b + 1)
    BY <1>4, FactorAssumption
  <2>2. ConversionFactor * (b + 1) = ConversionFactor * b + ConversionFactor
    BY OneCoin
  <2>3. b * ConversionFactor = ConversionFactor * b /\ ConversionFactor * w \in Int
    BY FactorAssumption
  <2> QED BY <1>1, <1>4, <2>1, <2>2, <2>3, FactorAssumption
<1> QED BY <1>2, <1>3, <1>4

(***************************************************************************)
(* The operations.  A good ledger is one a successful call leaves behind.  *)
(***************************************************************************)
Good == {s \in Books : s.status = "ok" /\ Backed(s)}

\* The reserve can pay whenever the fractions and the remainder reach a coin.
LEMMA ReservePays ==
    ASSUME NEW s \in Good, SumFractions(s) \in Nat,
           SumFractions(s) + s.rem >= ConversionFactor
    PROVE  s.bank[Reserve] >= 1
<1>1. /\ s.bank[Reserve] \in Nat /\ s.donated \in Nat /\ s.rem \in Nat
  BY NAssumption, FactorAssumption DEF Good, Books, Ledgers, Accounts, Reserve, Fractions
<1>2. ConversionFactor * s.donated \in Nat
  BY <1>1, FactorAssumption
<1>3. ConversionFactor * s.bank[Reserve] >= ConversionFactor
  BY <1>1, <1>2, FactorAssumption DEF Good, Backed
<1> QED BY <1>1, <1>3, AtLeastOneCoin

\* The bookkeeping of a successful call: if the fractions and the remainder
\* changed by a number of whole coins, and the reserve by the same number,
\* the reserve still backs them.
LEMMA StillBacked ==
    ASSUME NEW s \in Good, NEW r \in Books, r.donated = s.donated,
           NEW k \in {-1, 0, 1},
           SumFractions(s) \in Nat, SumFractions(r) \in Nat,
           SumFractions(r) + r.rem = SumFractions(s) + s.rem + k * ConversionFactor,
           r.bank[Reserve] = s.bank[Reserve] + k
    PROVE  Backed(r)
<1>1. /\ s.bank[Reserve] \in Nat /\ s.donated \in Nat /\ s.rem \in Nat /\ r.rem \in Nat
  BY NAssumption, FactorAssumption DEF Good, Books, Ledgers, Accounts, Reserve, Fractions
<1>2. ConversionFactor * s.donated \in Nat /\ ConversionFactor * s.bank[Reserve] \in Nat
  BY <1>1, FactorAssumption
<1>3. ConversionFactor * (s.bank[Reserve] + k)
        = ConversionFactor * s.bank[Reserve] + k * ConversionFactor
  BY <1>1, FactorAssumption
<1>4. k * ConversionFactor \in Int
  BY FactorAssumption
<1> QED BY <1>1, <1>2, <1>3, <1>4 DEF Good, Backed

\* Whole coins in a balance, one more or less than w.
LEMMA Times ==
    ASSUME NEW b \in Int, NEW w \in Int
    PROVE  /\ (b + w) * ConversionFactor = b * ConversionFactor + ConversionFactor * w
           /\ (b - w) * ConversionFactor = b * ConversionFactor - ConversionFactor * w
           /\ b * ConversionFactor \in Int /\ ConversionFactor * w \in Int
           /\ ConversionFactor * (w + 1) = ConversionFactor * w + ConversionFactor
BY FactorAssumption

\* Subtracting from a fractional balance borrows a coin when it is too small.
LEMMA SubFraction ==
    ASSUME NEW f \in Fractions, NEW p \in Fractions
    PROVE  LET sub == subFromFractionalBalance(f, p)
           IN  /\ sub.borrow \in BOOLEAN /\ sub.bal \in Fractions
               /\ sub.borrow <=> f < p
               /\ sub.borrow => sub.bal = f - p + ConversionFactor
               /\ ~sub.borrow => sub.bal = f - p
<1>1. /\ f \in Int /\ p \in Int /\ ConversionFactor \in Int
      /\ 0 <= f /\ f < ConversionFactor /\ 0 <= p /\ p < ConversionFactor
  BY FactorAssumption DEF Fractions
<1>2. CASE f < p
  <2>1. (f - p < 0) = TRUE
    BY <1>1, <1>2
  <2>2. subFromFractionalBalance(f, p) = [bal |-> f - p + ConversionFactor, borrow |-> TRUE]
    BY <2>1, Zenon DEF subFromFractionalBalance
  <2>3. f - p + ConversionFactor \in Fractions
    BY <1>1, <1>2 DEF Fractions
  <2> QED BY <1>2, <2>2, <2>3
<1>3. CASE ~(f < p)
  <2>1. (f - p < 0) = FALSE
    BY <1>1, <1>3
  <2>2. subFromFractionalBalance(f, p) = [bal |-> f - p, borrow |-> FALSE]
    BY <2>1, Zenon DEF subFromFractionalBalance
  <2>3. f - p \in Fractions
    BY <1>1, <1>3 DEF Fractions
  <2> QED BY <1>3, <2>2, <2>3
<1> QED BY <1>2, <1>3

\* Adding to a fractional balance carries a coin when it reaches one.
LEMMA AddFraction ==
    ASSUME NEW f \in Fractions, NEW p \in Fractions
    PROVE  LET add == addToFractionalBalance(f, p)
           IN  /\ add.carry \in BOOLEAN /\ add.bal \in Fractions
               /\ add.carry <=> f + p >= ConversionFactor
               /\ add.carry => add.bal = (f + p) - ConversionFactor
               /\ ~add.carry => add.bal = f + p
<1>1. /\ f \in Int /\ p \in Int /\ ConversionFactor \in Int
      /\ 0 <= f /\ f < ConversionFactor /\ 0 <= p /\ p < ConversionFactor
  BY FactorAssumption DEF Fractions
<1>2. CASE f + p >= ConversionFactor
  <2>1. (f + p >= ConversionFactor) = TRUE
    BY <1>1, <1>2
  <2>2. addToFractionalBalance(f, p) = [bal |-> (f + p) - ConversionFactor, carry |-> TRUE]
    BY <2>1, Zenon DEF addToFractionalBalance
  <2>3. (f + p) - ConversionFactor \in Fractions
    BY <1>1, <1>2 DEF Fractions
  <2> QED BY <1>2, <2>2, <2>3
<1>3. CASE ~(f + p >= ConversionFactor)
  <2>1. (f + p >= ConversionFactor) = FALSE
    BY <1>1, <1>3
  <2>2. addToFractionalBalance(f, p) = [bal |-> f + p, carry |-> FALSE]
    BY <2>1, Zenon DEF addToFractionalBalance
  <2>3. f + p \in Fractions
    BY <1>1, <1>3 DEF Fractions
  <2> QED BY <1>3, <2>2, <2>3
<1> QED BY <1>2, <1>3

\* The transfer of an extended amount.
LEMMA TransferSound ==
    ASSUME NEW s \in Good, NEW from \in Holders, NEW to \in Holders, from # to,
           NEW amt \in Nat
    PROVE  LET r == TransferExtended(s, from, to, amt)
           IN  /\ Step(s, r)
               /\ r.status # "panic"
               /\ r.status = "ok" <=> Balance(s, from) >= amt
               /\ r.status = "ok" =>
                     /\ Backed(r)
                     /\ Balance(r, from) = Balance(s, from) - amt
                     /\ Balance(r, to) = Balance(s, to) + amt
                     /\ \A a \in Holders \ {from, to} : Balance(r, a) = Balance(s, a)
<1> DEFINE whole == amt \div ConversionFactor
           part  == amt % ConversionFactor
           sub   == subFromFractionalBalance(s.frac[from], part)
           add   == addToFractionalBalance(s.frac[to], part)
           n     == IF sub.borrow /\ add.carry THEN whole + 1 ELSE whole
           s1    == BankSend(s, from, to, n)
           s2    == IF sub.borrow /\ ~add.carry THEN BankSend(s1, from, Reserve, 1) ELSE s1
           s3    == IF ~sub.borrow /\ add.carry THEN CarryFromReserve(s2, to) ELSE s2
           s4    == SetFractionalBalance(s3, from, sub.bal)
           r     == SetFractionalBalance(s4, to, add.bal)
<1>1. /\ s \in Books /\ s.status = "ok" /\ s \in Ledgers
      /\ from \in Accounts /\ to \in Accounts /\ Reserve \in Accounts
      /\ from # Reserve /\ to # Reserve
  BY NAssumption DEF Good, Books, Holders, Accounts, Reserve
<1>2. /\ whole \in Nat /\ part \in Fractions
      /\ amt = ConversionFactor * whole + part
  BY DivMod
<1>3. r = TransferExtended(s, from, to, amt)
  BY DEF TransferExtended
<1>4. /\ s.frac[from] \in Fractions /\ s.frac[to] \in Fractions
      /\ s.bank[from] \in Nat /\ s.bank[to] \in Nat /\ s.bank[Reserve] \in Nat
  BY <1>1 DEF Ledgers
<1> HIDE DEF whole, part
<1>5. /\ sub.borrow \in BOOLEAN /\ add.carry \in BOOLEAN
      /\ sub.borrow <=> s.frac[from] < part
      /\ add.carry <=> s.frac[to] + part >= ConversionFactor
      /\ sub.bal \in Fractions /\ add.bal \in Fractions
      /\ sub.borrow => sub.bal = s.frac[from] - part + ConversionFactor
      /\ ~sub.borrow => sub.bal = s.frac[from] - part
      /\ add.carry => add.bal = (s.frac[to] + part) - ConversionFactor
      /\ ~add.carry => add.bal = s.frac[to] + part
  BY <1>2, <1>4, SubFraction, AddFraction
<1> HIDE DEF sub, add
<1>6. n \in Nat /\ 1 \in Nat
  BY <1>2
<1> HIDE DEF n
<1>7. /\ Step(s, s1) /\ SameFractions(s, s1) /\ s1.status # "panic"
      /\ s1.status = "ok" <=> s.bank[from] >= n
      /\ s1.status = "ok" => /\ s1.bank[from] = s.bank[from] - n
                             /\ s1.bank[to] = s.bank[to] + n
                             /\ \A a \in Accounts \ {from, to} : s1.bank[a] = s.bank[a]
  BY <1>1, <1>6, BankSendEffect
<1> HIDE DEF s1
<1>s1. s1 \in Books
  BY <1>7, SMTT(30) DEF Step
<1>8. /\ Step(s, s3) /\ SameFractions(s, s3) /\ s3.status # "panic"
      /\ s3.status = "ok" <=>
            s.bank[from] >= IF sub.borrow /\ ~add.carry THEN n + 1 ELSE n
      /\ s3.status = "ok" =>
            /\ s3.bank[from] = s.bank[from] - (IF sub.borrow /\ ~add.carry THEN n + 1 ELSE n)
            /\ s3.bank[to] = s.bank[to] + (IF ~sub.borrow /\ add.carry THEN n + 1 ELSE n)
            /\ s3.bank[Reserve] = s.bank[Reserve] + (IF sub.borrow /\ ~add.carry THEN 1 ELSE 0)
                                                  - (IF ~sub.borrow /\ add.carry THEN 1 ELSE 0)
            /\ \A a \in Accounts \ {from, to, Reserve} : s3.bank[a] = s.bank[a]
  <2>1. CASE sub.borrow /\ ~add.carry
    <3>1. s3 = BankSend(s1, from, Reserve, 1)
      BY <2>1, SMTT(30)
    <3> HIDE DEF s3
    <3>2. /\ Step(s1, s3) /\ SameFractions(s1, s3)
          /\ s3.status = "ok" <=> s1.status = "ok" /\ s1.bank[from] >= 1
          /\ s3.status = "panic" => s1.status = "panic"
          /\ s3.status = "ok" => /\ s3.bank[from] = s1.bank[from] - 1
                                 /\ s3.bank[Reserve] = s1.bank[Reserve] + 1
                                 /\ \A a \in Accounts \ {from, Reserve} : s3.bank[a] = s1.bank[a]
      BY <3>1, <1>1, <1>6, <1>s1, BankSendEffect, SMTT(30)
    <3> QED BY <2>1, <3>2, <1>1, <1>4, <1>6, <1>7 DEF Step, SameFractions
  <2>2. CASE ~sub.borrow /\ add.carry
    <3>1. s.bank[Reserve] >= 1
      <4>1. /\ SumFractions(s) \in Nat
            /\ SumFractions(s) >= s.frac[from] + s.frac[to]
        BY <1>1, FractionsMove
      <4>2. SumFractions(s) + s.rem >= ConversionFactor
        BY <4>1, <2>2, <1>1, <1>2, <1>4, <1>5, FactorAssumption DEF Ledgers, Fractions
      <4> QED BY <4>1, <4>2, ReservePays
    <3>2. s3 = CarryFromReserve(s1, to)
      BY <2>2, SMTT(30)
    <3>3. s3 = BankSend(s1, Reserve, to, 1)
      BY <3>1, <3>2, <1>1, <1>4, <1>7, SMTT(30) DEF CarryFromReserve
    <3> HIDE DEF s3
    <3>4. /\ Step(s1, s3) /\ SameFractions(s1, s3)
          /\ s3.status = "ok" <=> s1.status = "ok" /\ s1.bank[Reserve] >= 1
          /\ s3.status = "panic" => s1.status = "panic"
          /\ s3.status = "ok" => /\ s3.bank[Reserve] = s1.bank[Reserve] - 1
                                 /\ s3.bank[to] = s1.bank[to] + 1
                                 /\ \A a \in Accounts \ {Reserve, to} : s3.bank[a] = s1.bank[a]
      BY <3>3, <1>1, <1>6, <1>s1, BankSendEffect, SMTT(30)
    <3> QED BY <2>2, <3>1, <3>4, <1>1, <1>4, <1>6, <1>7 DEF Step, SameFractions
  <2>3. CASE sub.borrow = add.carry
    <3>1. s3 = s1
      BY <2>3, <1>5
    <3> HIDE DEF s3
    <3> QED BY <2>3, <3>1, <1>1, <1>4, <1>5, <1>6, <1>7, SMTT(30)
  <2> QED BY <2>1, <2>2, <2>3, <1>5, ZenonT(30)
<1> HIDE DEF s3
<1>s3. s3 \in Books
  BY <1>8, SMTT(30) DEF Step
<1>9. /\ Step(s3, s4) /\ s4.bank = s3.bank /\ s4.rem = s3.rem /\ s4.status = s3.status
      /\ s4.status = "ok" => /\ s4.frac[from] = sub.bal
                             /\ \A a \in Holders \ {from} : s4.frac[a] = s3.frac[a]
  BY <1>5, <1>s3, SetFractionEffect
<1> HIDE DEF s4
<1>s4. s4 \in Books
  BY <1>9, SMTT(30) DEF Step
<1>10. /\ Step(s4, r) /\ r.bank = s4.bank /\ r.rem = s4.rem /\ r.status = s4.status
       /\ r.status = "ok" => /\ r.frac[to] = add.bal
                             /\ \A a \in Holders \ {to} : r.frac[a] = s4.frac[a]
  BY <1>5, <1>s4, SetFractionEffect, SMTT(30)
<1> HIDE DEF r
<1>11. /\ Step(s, r) /\ r.status # "panic" /\ r.status = s3.status /\ r.bank = s3.bank
       /\ r.rem = s.rem /\ r.donated = s.donated /\ r \in Books /\ r \in Ledgers
       /\ r.status = "ok" => /\ r.frac[from] = sub.bal
                             /\ r.frac[to] = add.bal
                             /\ \A a \in Holders \ {from, to} : r.frac[a] = s.frac[a]
  BY <1>8, <1>9, <1>10, SMTT(30) DEF Step, SameFractions, Books
<1>12. r.status = "ok" <=> Balance(s, from) >= amt
  <2>1. Balance(s, from) >= amt
           <=> (IF s.frac[from] >= part THEN s.bank[from] >= whole
                                        ELSE s.bank[from] >= whole + 1)
    BY <1>2, <1>4, Compare, SMTT(30) DEF Balance
  <2> QED BY <2>1, <1>2, <1>4, <1>5, <1>8, <1>11, FactorAssumption, SMTT(30) DEF n, Fractions
<1>13. ASSUME r.status = "ok" PROVE Backed(r)
  <2> DEFINE k == (IF sub.borrow /\ ~add.carry THEN 1 ELSE 0)
                  - (IF ~sub.borrow /\ add.carry THEN 1 ELSE 0)
  <2>1. k \in {-1, 0, 1} /\ r.bank[Reserve] = s.bank[Reserve] + k
    BY <1>4, <1>5, <1>8, <1>11, <1>13, SMTT(30)
  <2>2. /\ SumFractions(r) = SumFractions(s) + (r.frac[from] - s.frac[from])
                                             + (r.frac[to] - s.frac[to])
        /\ SumFractions(s) \in Nat /\ SumFractions(r) \in Nat
    BY <1>1, <1>11, <1>13, FractionsMove, SMTT(30)
  <2>3. (r.frac[from] - s.frac[from]) + (r.frac[to] - s.frac[to]) = k * ConversionFactor
    <3>1. /\ s.frac[from] \in Int /\ s.frac[to] \in Int /\ part \in Int
          /\ ConversionFactor \in Int
      BY <1>2, <1>4, FactorAssumption DEF Fractions
    <3>2. /\ r.frac[from] = sub.bal /\ r.frac[to] = add.bal
      BY <1>11, <1>13
    <3>3. CASE sub.borrow /\ add.carry
      BY <3>1, <3>2, <3>3, <1>5, SMTT(30)
    <3>4. CASE sub.borrow /\ ~add.carry
      BY <3>1, <3>2, <3>4, <1>5, SMTT(30)
    <3>5. CASE ~sub.borrow /\ add.carry
      BY <3>1, <3>2, <3>5, <1>5
    <3>6. CASE ~sub.borrow /\ ~add.carry
      BY <3>1, <3>2, <3>6, <1>5, SMTT(30)
    <3> QED BY <3>3, <3>4, <3>5, <3>6, <1>5
  <2>4. /\ r.frac[from] \in Int /\ r.frac[to] \in Int /\ s.rem \in Int
        /\ s.frac[from] \in Int /\ s.frac[to] \in Int /\ k * ConversionFactor \in Int
    BY <1>1, <1>11, <2>1, FactorAssumption, SMTT(30) DEF Ledgers, Fractions
  <2> HIDE DEF k
  <2>5. SumFractions(r) + r.rem = SumFractions(s) + s.rem + k * ConversionFactor
    BY <2>2, <2>3, <2>4, <1>11, SMTT(30)
  <2> QED BY <2>1, <2>2, <2>5, <1>11, StillBacked, SMTT(30)
<1>14. ASSUME r.status = "ok"
       PROVE  /\ Balance(r, from) = Balance(s, from) - amt
              /\ Balance(r, to) = Balance(s, to) + amt
  <2>1. /\ ConversionFactor \in Nat /\ part \in Int /\ sub.bal \in Int /\ add.bal \in Int
        /\ s.frac[from] \in Int /\ s.frac[to] \in Int
    BY <1>2, <1>4, <1>5, FactorAssumption, SMTT(30) DEF Fractions
  <2>2. /\ (s.bank[from] - whole) * ConversionFactor
              = s.bank[from] * ConversionFactor - ConversionFactor * whole
        /\ (s.bank[from] - (whole + 1)) * ConversionFactor
              = s.bank[from] * ConversionFactor - (ConversionFactor * whole + ConversionFactor)
        /\ (s.bank[to] + whole) * ConversionFactor
              = s.bank[to] * ConversionFactor + ConversionFactor * whole
        /\ (s.bank[to] + (whole + 1)) * ConversionFactor
              = s.bank[to] * ConversionFactor + (ConversionFactor * whole + ConversionFactor)
        /\ s.bank[from] * ConversionFactor \in Int
        /\ s.bank[to] * ConversionFactor \in Int
        /\ ConversionFactor * whole \in Int
    BY <1>2, <1>4, FactorAssumption, SMTT(30)
  <2>3. r.bank = s3.bank /\ r.frac[from] = sub.bal /\ r.frac[to] = add.bal /\ s3.status = "ok"
    BY <1>11, <1>14, SMTT(30)
  <2>4. CASE sub.borrow /\ add.carry
    BY <2>1, <2>2, <2>3, <2>4, <1>2, <1>5, <1>8, SMTT(30) DEF Balance, n
  <2>5. CASE sub.borrow /\ ~add.carry
    BY <2>1, <2>2, <2>3, <2>5, <1>2, <1>5, <1>8, SMTT(30) DEF Balance, n
  <2>6. CASE ~sub.borrow /\ add.carry
    BY <2>1, <2>2, <2>3, <2>6, <1>2, <1>5, <1>8, SMTT(30) DEF Balance, n
  <2>7. CASE ~sub.borrow /\ ~add.carry
    BY <2>1, <2>2, <2>3, <2>7, <1>2, <1>5, <1>8, SMTT(30) DEF Balance, n
  <2> QED BY <2>4, <2>5, <2>6, <2>7, <1>5, SMTT(30)
<1>15. ASSUME r.status = "ok"
       PROVE  \A a \in Holders \ {from, to} : Balance(r, a) = Balance(s, a)
  BY <1>8, <1>11, <1>15 DEF Balance, Holders, Accounts, Reserve
<1> QED BY <1>3, <1>11, <1>12, <1>13, <1>14, <1>15

\* The amounts of an account are naturals.
LEMMA LedgerTypes ==
    ASSUME NEW s \in Ledgers, NEW m \in Holders
    PROVE  /\ s.bank[m] \in Nat /\ s.frac[m] \in Fractions /\ s.frac[m] \in Nat
           /\ Balance(s, m) \in Nat
<1>1. s.bank[m] \in Nat /\ s.frac[m] \in Fractions /\ s.frac[m] \in Nat
  BY NAssumption, FactorAssumption, SMTT(30) DEF Ledgers, Holders, Accounts, Fractions
<1> QED BY <1>1, FactorAssumption DEF Balance

\* A balance whose whole coins and fraction both changed.
LEMMA BalanceAfter ==
    ASSUME NEW s \in Ledgers, NEW r \in Ledgers, NEW m \in Holders, NEW amt \in Nat,
           NEW w \in Int, NEW p \in Int, NEW j \in {0, 1}, NEW sign \in {-1, 1},
           amt = ConversionFactor * w + p,
           r.bank[m] = s.bank[m] + sign * (w + j),
           r.frac[m] = s.frac[m] + sign * (p - j * ConversionFactor)
    PROVE  Balance(r, m) = Balance(s, m) + sign * amt
<1>1. /\ s.bank[m] \in Int /\ s.frac[m] \in Int /\ ConversionFactor \in Int
      /\ ConversionFactor * w \in Int
  <2>1. s.bank[m] \in Int /\ s.frac[m] \in Int
    BY LedgerTypes
  <2> QED BY <2>1, FactorAssumption
<1>2. /\ (s.bank[m] + (w + j)) * ConversionFactor
           = s.bank[m] * ConversionFactor + ConversionFactor * w + j * ConversionFactor
      /\ (s.bank[m] - (w + j)) * ConversionFactor
           = s.bank[m] * ConversionFactor - (ConversionFactor * w + j * ConversionFactor)
      /\ s.bank[m] * ConversionFactor \in Int /\ j * ConversionFactor \in Int
  <2>1. ASSUME NEW b \in Int, NEW c \in Int
        PROVE  /\ (b + (w + j)) * c = b * c + c * w + j * c
               /\ (b - (w + j)) * c = b * c - (c * w + j * c)
               /\ b * c \in Int /\ j * c \in Int
    OBVIOUS
  <2> QED BY <2>1, <1>1, Zenon
<1>3. CASE sign = 1
  BY <1>1, <1>2, <1>3 DEF Balance
<1>4. CASE sign = -1
  BY <1>1, <1>2, <1>4 DEF Balance
<1> QED BY <1>3, <1>4

\* The mint of an extended amount.
LEMMA MintSound ==
    ASSUME NEW s \in Good, NEW m \in Holders, NEW amt \in Nat
    PROVE  LET r == mintExtendedCoin(s, m, amt)
           IN  /\ Step(s, r)
               /\ r.status = "ok"
               /\ Backed(r)
               /\ Balance(r, m) = Balance(s, m) + amt
               /\ \A a \in Holders \ {m} : Balance(r, a) = Balance(s, a)
<1> DEFINE whole    == amt \div ConversionFactor
           part     == amt % ConversionFactor
           newFrac  == s.frac[m] + part
           newRem   == s.rem - part
           carry    == newFrac >= ConversionFactor
           negative == newRem < 0
           n        == IF carry /\ negative THEN whole + 1 ELSE whole
           f        == IF carry THEN newFrac - ConversionFactor ELSE newFrac
           v        == IF negative THEN newRem + ConversionFactor ELSE newRem
           s1 == IF carry /\ ~negative THEN CarryFromReserve(s, m) ELSE s
           s2 == BankMint(s1, m, n)
           s3 == SetFractionalBalance(s2, m, f)
           s4 == IF negative /\ ~carry THEN BankMint(s3, Reserve, 1) ELSE s3
           r  == SetRemainderAmount(s4, v)
           j  == IF carry THEN 1 ELSE 0
           k  == (IF negative /\ ~carry THEN 1 ELSE 0) - (IF carry /\ ~negative THEN 1 ELSE 0)
<1>1. /\ s \in Books /\ s.status = "ok" /\ s \in Ledgers
      /\ m \in Accounts /\ Reserve \in Accounts /\ m # Reserve
  BY NAssumption DEF Good, Books, Holders, Accounts, Reserve
<1>2. /\ whole \in Nat /\ part \in Fractions
      /\ amt = ConversionFactor * whole + part
  BY DivMod
<1>3. r = mintExtendedCoin(s, m, amt)
  BY DEF mintExtendedCoin
<1>4. /\ s.frac[m] \in Fractions /\ s.rem \in Fractions
      /\ s.bank[m] \in Nat /\ s.bank[Reserve] \in Nat
  BY <1>1, SMTT(30) DEF Ledgers
<1> HIDE DEF whole, part
<1>5. /\ n \in Nat /\ f \in Fractions /\ v \in Fractions /\ 1 \in Nat
      /\ f = s.frac[m] + 1 * (part - j * ConversionFactor) /\ j \in {0, 1}
      /\ f + v = s.frac[m] + s.rem + k * ConversionFactor /\ k \in {-1, 0, 1}
  BY <1>2, <1>4, FactorAssumption DEF Fractions
<1>c. carry \in BOOLEAN /\ negative \in BOOLEAN
  OBVIOUS
<1>d. carry /\ ~negative => SumFractions(s) \in Nat /\ SumFractions(s) + s.rem >= ConversionFactor
  <2>1. SumFractions(s) \in Nat /\ SumFractions(s) >= s.frac[m]
    BY <1>1, FractionsUpdate, SMTT(30)
  <2> QED BY <2>1, <1>2, <1>4, FactorAssumption DEF Fractions
<1> HIDE DEF newFrac, newRem, carry, negative, f, v
<1>6. /\ Step(s, s1) /\ SameFractions(s, s1) /\ s1.status = "ok"
      /\ s1.bank[m] = s.bank[m] + (IF carry /\ ~negative THEN 1 ELSE 0)
      /\ s1.bank[Reserve] = s.bank[Reserve] - (IF carry /\ ~negative THEN 1 ELSE 0)
      /\ \A a \in Accounts \ {m, Reserve} : s1.bank[a] = s.bank[a]
  <2>1. CASE carry /\ ~negative
    <3>1. s.bank[Reserve] >= 1
      BY <2>1, <1>d, ReservePays
    <3>2. s1 = BankSend(s, Reserve, m, 1)
      BY <2>1, <3>1, <1>4, SMTT(30) DEF CarryFromReserve
    <3> HIDE DEF s1
    <3>3. /\ Step(s, s1) /\ SameFractions(s, s1) /\ s1.status = "ok"
          /\ s1.bank[Reserve] = s.bank[Reserve] - 1 /\ s1.bank[m] = s.bank[m] + 1
          /\ \A a \in Accounts \ {Reserve, m} : s1.bank[a] = s.bank[a]
      BY <3>1, <3>2, <1>1, <1>5, BankSendEffect, SMTT(30)
    <3> QED BY <2>1, <3>3
  <2>2. CASE ~(carry /\ ~negative)
    BY <2>2, <1>1, <1>4 DEF Step, SameFractions
  <2> QED BY <2>1, <2>2, <1>c, SMTT(30)
<1> HIDE DEF s1, n, j, k
<1>s1. s1 \in Books
  BY <1>6, SMTT(30) DEF Step
<1>7. /\ Step(s1, s2) /\ SameFractions(s1, s2) /\ s2.status = "ok"
      /\ s2.bank[m] = s1.bank[m] + n
      /\ \A a \in Accounts \ {m} : s2.bank[a] = s1.bank[a]
  BY <1>1, <1>5, <1>6, <1>s1, BankMintEffect
<1> HIDE DEF s2
<1>s2. s2 \in Books
  BY <1>7, SMTT(30) DEF Step
<1>8. /\ Step(s2, s3) /\ s3.bank = s2.bank /\ s3.rem = s2.rem /\ s3.status = "ok"
      /\ s3.frac[m] = f /\ \A a \in Holders \ {m} : s3.frac[a] = s2.frac[a]
  BY <1>5, <1>7, <1>s2, SetFractionEffect
<1> HIDE DEF s3
<1>s3. s3 \in Books
  BY <1>8, SMTT(30) DEF Step
<1>9. /\ Step(s3, s4) /\ SameFractions(s3, s4) /\ s4.status = "ok"
      /\ s4.bank[Reserve] = s3.bank[Reserve] + (IF negative /\ ~carry THEN 1 ELSE 0)
      /\ \A a \in Accounts \ {Reserve} : s4.bank[a] = s3.bank[a]
  <2>1. CASE negative /\ ~carry
    BY <2>1, <1>1, <1>5, <1>8, <1>s3, BankMintEffect, SMTT(30)
  <2>2. CASE ~(negative /\ ~carry)
    <3>1. s4 = s3 /\ s3.bank[Reserve] \in Nat
      BY <2>2, <1>1, <1>s3 DEF Books, Ledgers
    <3> QED BY <2>2, <3>1, <1>8, <1>s3 DEF Step, SameFractions
  <2> QED BY <2>1, <2>2, <1>c, SMTT(30)
<1> HIDE DEF s4
<1>s4. s4 \in Books
  BY <1>9, SMTT(30) DEF Step
<1>10. /\ Step(s4, r) /\ r.bank = s4.bank /\ r.frac = s4.frac /\ r.status = "ok" /\ r.rem = v
  BY <1>5, <1>9, <1>s4, SetRemainderEffect, SMTT(30)
<1> HIDE DEF r
<1>11. /\ Step(s, r) /\ r \in Books /\ r \in Ledgers /\ r.status = "ok" /\ r.donated = s.donated
       /\ r.rem = v /\ r.frac[m] = f /\ \A a \in Holders \ {m} : r.frac[a] = s.frac[a]
  BY <1>1, <1>6, <1>7, <1>8, <1>9, <1>10, SMTT(30) DEF Step, SameFractions, Books
<1>12. /\ r.bank[m] = s.bank[m] + 1 * (whole + j)
       /\ r.bank[Reserve] = s.bank[Reserve] + k
       /\ \A a \in Accounts \ {m, Reserve} : r.bank[a] = s.bank[a]
  <2>1. /\ r.bank[m] = s.bank[m] + (IF carry /\ ~negative THEN 1 ELSE 0) + n
        /\ r.bank[Reserve] = s.bank[Reserve] - (IF carry /\ ~negative THEN 1 ELSE 0)
                                             + (IF negative /\ ~carry THEN 1 ELSE 0)
        /\ \A a \in Accounts \ {m, Reserve} : r.bank[a] = s.bank[a]
    BY <1>1, <1>6, <1>7, <1>8, <1>9, <1>10, SMTT(30)
  <2> QED BY <2>1, <1>2, <1>4, <1>c, SMTT(30) DEF n, j, k
<1>13. Backed(r)
  <2>1. /\ SumFractions(r) = SumFractions(s) + (r.frac[m] - s.frac[m])
        /\ SumFractions(s) \in Nat /\ SumFractions(r) \in Nat
    BY <1>1, <1>11, FractionsUpdate
  <2>2. /\ f \in Int /\ v \in Int /\ s.frac[m] \in Int /\ s.rem \in Int
        /\ k * ConversionFactor \in Int
        /\ f + v = s.frac[m] + s.rem + k * ConversionFactor
    <3>1. f \in Fractions /\ v \in Fractions /\ k \in Int
      BY <1>5
    <3>2. f + v = s.frac[m] + s.rem + k * ConversionFactor
      BY <1>5
    <3> QED BY <3>1, <3>2, <1>4, FactorAssumption DEF Fractions
  <2>3. SumFractions(r) + r.rem = SumFractions(s) + s.rem + k * ConversionFactor
    BY <2>1, <2>2, <1>11
  <2> QED BY <2>1, <2>3, <1>5, <1>11, <1>12, StillBacked, SMTT(30)
<1>14. Balance(r, m) = Balance(s, m) + amt
  <2>1. /\ whole \in Int /\ part \in Int /\ 1 \in {-1, 1}
        /\ r.frac[m] = s.frac[m] + 1 * (part - j * ConversionFactor)
    BY <1>2, <1>5, <1>11, FactorAssumption, SMTT(30) DEF Fractions
  <2>2. Balance(r, m) = Balance(s, m) + 1 * amt
    BY <2>1, <1>1, <1>2, <1>5, <1>11, <1>12, BalanceAfter, SMTT(30)
  <2> QED BY <2>2
<1>15. \A a \in Holders \ {m} : Balance(r, a) = Balance(s, a)
  BY <1>11, <1>12 DEF Balance, Holders, Accounts, Reserve
<1> QED BY <1>3, <1>11, <1>13, <1>14, <1>15

\* The burn of an extended amount.
LEMMA BurnSound ==
    ASSUME NEW s \in Good, NEW m \in Holders, NEW amt \in Nat
    PROVE  LET r == burnExtendedCoin(s, m, amt)
           IN  /\ Step(s, r)
               /\ r.status # "panic"
               /\ r.status = "ok" <=> Balance(s, m) >= amt
               /\ r.status = "ok" =>
                     /\ Backed(r)
                     /\ Balance(r, m) = Balance(s, m) - amt
                     /\ \A a \in Holders \ {m} : Balance(r, a) = Balance(s, a)
<1> DEFINE whole    == amt \div ConversionFactor
           part     == amt % ConversionFactor
           newFrac  == s.frac[m] - part
           newRem   == s.rem + part
           borrow   == newFrac < 0
           overflow == newRem >= ConversionFactor
           n        == IF borrow /\ overflow THEN whole + 1 ELSE whole
           f        == IF borrow THEN newFrac + ConversionFactor ELSE newFrac
           v        == IF overflow THEN newRem - ConversionFactor ELSE newRem
           s1 == IF borrow /\ ~overflow THEN BankSend(s, m, Reserve, 1) ELSE s
           s2 == IF ~borrow /\ overflow THEN BurnFromReserve(s1) ELSE s1
           s3 == BankBurn(s2, m, n)
           s4 == SetFractionalBalance(s3, m, f)
           r  == SetRemainderAmount(s4, v)
           j  == IF borrow THEN 1 ELSE 0
           k  == (IF borrow /\ ~overflow THEN 1 ELSE 0) - (IF ~borrow /\ overflow THEN 1 ELSE 0)
<1>1. /\ s \in Books /\ s.status = "ok" /\ s \in Ledgers
      /\ m \in Accounts /\ Reserve \in Accounts /\ m # Reserve
  BY NAssumption DEF Good, Books, Holders, Accounts, Reserve
<1>2. /\ whole \in Nat /\ part \in Fractions
      /\ amt = ConversionFactor * whole + part
  BY DivMod
<1>3. r = burnExtendedCoin(s, m, amt)
  BY SMTT(30) DEF burnExtendedCoin
<1>4. /\ s.frac[m] \in Fractions /\ s.rem \in Fractions
      /\ s.bank[m] \in Nat /\ s.bank[Reserve] \in Nat
  BY <1>1 DEF Ledgers
<1> HIDE DEF whole, part
<1>5. /\ n \in Nat /\ f \in Fractions /\ v \in Fractions /\ 1 \in Nat
      /\ f = s.frac[m] + (-1) * (part - j * ConversionFactor) /\ j \in {0, 1}
      /\ f + v = s.frac[m] + s.rem + k * ConversionFactor /\ k \in {-1, 0, 1}
  BY <1>2, <1>4, FactorAssumption DEF Fractions
<1>c. borrow \in BOOLEAN /\ overflow \in BOOLEAN /\ (s.frac[m] >= part <=> ~borrow)
  BY <1>2, <1>4, FactorAssumption DEF Fractions
<1>d. ~borrow /\ overflow => SumFractions(s) \in Nat /\ SumFractions(s) + s.rem >= ConversionFactor
  <2>1. SumFractions(s) \in Nat /\ SumFractions(s) >= s.frac[m]
    BY <1>1, FractionsUpdate
  <2> QED BY <2>1, <1>2, <1>4, FactorAssumption, SMTT(30) DEF Fractions
<1> HIDE DEF newFrac, newRem, borrow, overflow, f, v
<1>6. /\ Step(s, s2) /\ SameFractions(s, s2) /\ s2.status # "panic"
      /\ s2.status = "ok" <=> (borrow /\ ~overflow => s.bank[m] >= 1)
      /\ s2.status = "ok" => /\ s2.bank[m] = s.bank[m] - (IF borrow /\ ~overflow THEN 1 ELSE 0)
                             /\ s2.bank[Reserve] = s.bank[Reserve] + k
                             /\ \A a \in Accounts \ {m, Reserve} : s2.bank[a] = s.bank[a]
  <2>1. CASE borrow /\ ~overflow
    <3>1. s2 = BankSend(s, m, Reserve, 1)
      BY <2>1
    <3> HIDE DEF s2
    <3>2. k = 1
      BY <2>1, SMTT(30)
    <3>3. /\ Step(s, s2) /\ SameFractions(s, s2) /\ s2.status # "panic"
          /\ s2.status = "ok" <=> s.bank[m] >= 1
          /\ s2.status = "ok" => /\ s2.bank[m] = s.bank[m] - 1
                                 /\ s2.bank[Reserve] = s.bank[Reserve] + 1
                                 /\ \A a \in Accounts \ {m, Reserve} : s2.bank[a] = s.bank[a]
      BY <3>1, <1>1, <1>5, BankSendEffect, SMTT(90)
    <3> QED BY <2>1, <3>2, <3>3
  <2>2. CASE ~borrow /\ overflow
    <3>1. s.bank[Reserve] >= 1
      BY <2>2, <1>d, ReservePays, SMTT(30)
    <3>2. s2 = BankBurn(s, Reserve, 1)
      BY <2>2, <3>1, <1>4 DEF BurnFromReserve
    <3> HIDE DEF s2
    <3>3. k = -1
      BY <2>2, SMTT(30)
    <3>4. /\ Step(s, s2) /\ SameFractions(s, s2) /\ s2.status = "ok"
          /\ s2.bank[Reserve] = s.bank[Reserve] - 1
          /\ \A a \in Accounts \ {Reserve} : s2.bank[a] = s.bank[a]
      BY <3>1, <3>2, <1>1, <1>5, BankBurnEffect, SMTT(30)
    <3> HIDE DEF k
    <3> QED BY <2>2, <3>3, <3>4, <1>1, <1>4, SMTT(30)
  <2>3. CASE borrow <=> overflow
    <3>1. s2 = s /\ k = 0
      BY <2>3, <1>c
    <3> HIDE DEF s2, k
    <3> QED BY <2>3, <3>1, <1>1, <1>4, SMTT(30) DEF Step, SameFractions
  <2> QED BY <2>1, <2>2, <2>3, <1>c, ZenonT(30)
<1> HIDE DEF s2, n, j, k
<1>s2. s2 \in Books
  BY <1>6, SMTT(30) DEF Step
<1>7. /\ Step(s2, s3) /\ SameFractions(s2, s3)
      /\ s3.status = "ok" <=> s2.status = "ok" /\ s2.bank[m] >= n
      /\ s3.status = "panic" => s2.status = "panic"
      /\ s3.status = "ok" => /\ s3.bank[m] = s2.bank[m] - n
                             /\ \A a \in Accounts \ {m} : s3.bank[a] = s2.bank[a]
  BY <1>1, <1>5, <1>s2, BankBurnEffect, SMTT(30)
<1> HIDE DEF s3
<1>s3. s3 \in Books
  BY <1>7, SMTT(30) DEF Step
<1>8. /\ Step(s3, s4) /\ s4.bank = s3.bank /\ s4.rem = s3.rem /\ s4.status = s3.status
      /\ s4.status = "ok" => /\ s4.frac[m] = f
                             /\ \A a \in Holders \ {m} : s4.frac[a] = s3.frac[a]
  BY <1>5, <1>s3, SetFractionEffect
<1> HIDE DEF s4
<1>s4. s4 \in Books
  BY <1>8, SMTT(30) DEF Step
<1>9. /\ Step(s4, r) /\ r.bank = s4.bank /\ r.frac = s4.frac /\ r.status = s4.status
      /\ r.status = "ok" => r.rem = v
  BY <1>5, <1>s4, SetRemainderEffect, SMTT(30)
<1> HIDE DEF r
<1>10. /\ Step(s, r) /\ r \in Books /\ r \in Ledgers /\ r.donated = s.donated
       /\ r.status # "panic" /\ r.status = s3.status
       /\ r.status = "ok" => /\ r.rem = v /\ r.frac[m] = f
                             /\ \A a \in Holders \ {m} : r.frac[a] = s.frac[a]
  BY <1>1, <1>6, <1>7, <1>8, <1>9, SMTT(30) DEF Step, SameFractions, Books
<1>11. r.status = "ok" <=> Balance(s, m) >= amt
  <2>1. Balance(s, m) >= amt
           <=> (IF s.frac[m] >= part THEN s.bank[m] >= whole ELSE s.bank[m] >= whole + 1)
    BY <1>2, <1>4, Compare DEF Balance
  <2> QED BY <2>1, <1>2, <1>4, <1>6, <1>7, <1>10, <1>c, SMTT(30) DEF n
<1>12. ASSUME r.status = "ok"
       PROVE  /\ r.bank[m] = s.bank[m] + (-1) * (whole + j)
              /\ r.bank[Reserve] = s.bank[Reserve] + k
              /\ \A a \in Accounts \ {m, Reserve} : r.bank[a] = s.bank[a]
  <2>1. /\ r.bank[m] = s.bank[m] - (IF borrow /\ ~overflow THEN 1 ELSE 0) - n
        /\ r.bank[Reserve] = s.bank[Reserve] + k
        /\ \A a \in Accounts \ {m, Reserve} : r.bank[a] = s.bank[a]
    BY <1>1, <1>6, <1>7, <1>8, <1>9, <1>10, <1>12, SMTT(30)
  <2> QED BY <2>1, <1>2, <1>4, <1>c, SMTT(30) DEF n, j
<1>13. ASSUME r.status = "ok" PROVE Backed(r)
  <2>1. /\ SumFractions(r) = SumFractions(s) + (r.frac[m] - s.frac[m])
        /\ SumFractions(s) \in Nat /\ SumFractions(r) \in Nat
    BY <1>1, <1>10, <1>13, FractionsUpdate
  <2>2. /\ f \in Int /\ v \in Int /\ s.frac[m] \in Int /\ s.rem \in Int
        /\ k * ConversionFactor \in Int
        /\ f + v = s.frac[m] + s.rem + k * ConversionFactor
    <3>1. f \in Fractions /\ v \in Fractions /\ k \in Int
      BY <1>5
    <3>2. f + v = s.frac[m] + s.rem + k * ConversionFactor
      BY <1>5, SMTT(30)
    <3> QED BY <3>1, <3>2, <1>4, FactorAssumption DEF Fractions
  <2>3. SumFractions(r) + r.rem = SumFractions(s) + s.rem + k * ConversionFactor
    BY <2>1, <2>2, <1>10, <1>13
  <2> QED BY <2>1, <2>3, <1>5, <1>10, <1>12, <1>13, StillBacked, SMTT(30)
<1>14. ASSUME r.status = "ok" PROVE Balance(r, m) = Balance(s, m) - amt
  <2>1. /\ whole \in Int /\ part \in Int /\ -1 \in {-1, 1}
        /\ r.frac[m] = s.frac[m] + (-1) * (part - j * ConversionFactor)
    BY <1>2, <1>5, <1>10, <1>14, FactorAssumption DEF Fractions
  <2>2. Balance(s, m) \in Nat
    BY <1>1, LedgerTypes, SMTT(30)
  <2>3. Balance(r, m) = Balance(s, m) + (-1) * amt
    BY <2>1, <1>1, <1>2, <1>5, <1>10, <1>12, <1>14, BalanceAfter, SMTT(30)
  <2> QED BY <2>2, <2>3, SMTT(30)
<1>15. ASSUME r.status = "ok" PROVE \A a \in Holders \ {m} : Balance(r, a) = Balance(s, a)
  BY <1>10, <1>12, <1>15 DEF Balance, Holders, Accounts, Reserve
<1> QED BY <1>3, <1>10, <1>11, <1>13, <1>14, <1>15, SMTT(30)

(***************************************************************************)
(* The calls.  Sound(r) is what every call's result satisfies.             *)
(***************************************************************************)
Sound(r) ==
    /\ r \in Books
    /\ r.status # "panic"
    /\ r.status = "ok" => r \in Good

\* After an error the rest of a call does nothing.
LEMMA FailedStays ==
    ASSUME NEW s \in Books, s.status # "ok", NEW from \in Accounts, NEW to \in Accounts,
           NEW amt \in Nat
    PROVE  /\ TransferExtended(s, from, to, amt) = s
           /\ burnExtendedCoin(s, from, amt) = s
           /\ sendExtendedCoins(s, from, to, amt) = s
<1>1. /\ \A a, b, n : BankSend(s, a, b, n) = s
      /\ \A a, n : BankBurn(s, a, n) = s
      /\ \A a : CarryFromReserve(s, a) = s
      /\ BurnFromReserve(s) = s
      /\ \A a, v : SetFractionalBalance(s, a, v) = s
      /\ \A v : SetRemainderAmount(s, v) = s
  BY DEF BankSend, BankBurn, CarryFromReserve, BurnFromReserve, SetFractionalBalance,
         SetRemainderAmount
<1>2. TransferExtended(s, from, to, amt) = s
  BY <1>1, Zenon DEF TransferExtended
<1>3. burnExtendedCoin(s, from, amt) = s
  BY <1>1, Zenon DEF burnExtendedCoin
<1> QED BY <1>1, <1>2, <1>3, SMTT(30) DEF sendExtendedCoins

\* Whole coins move between two accounts.
LEMMA SendWholeSound ==
    ASSUME NEW s \in Good, NEW from \in Holders, NEW to \in Holders, from # to, NEW n \in Nat
    PROVE  LET r == BankSend(s, from, to, n)
           IN  /\ Sound(r)
               /\ r.status = "ok" <=> Balance(s, from) >= n * ConversionFactor
               /\ r.status = "ok" =>
                     /\ Balance(r, from) = Balance(s, from) - n * ConversionFactor
                     /\ Balance(r, to) = Balance(s, to) + n * ConversionFactor
                     /\ \A a \in Holders \ {from, to} : Balance(r, a) = Balance(s, a)
<1> DEFINE r == BankSend(s, from, to, n)
<1>1. /\ s \in Books /\ s.status = "ok" /\ s \in Ledgers /\ Backed(s)
      /\ from \in Accounts /\ to \in Accounts /\ Reserve \in Accounts
      /\ from # Reserve /\ to # Reserve
  BY NAssumption, SMTT(30) DEF Good, Books, Holders, Accounts, Reserve
<1>2. /\ Step(s, r) /\ SameFractions(s, r)
      /\ r.status = "ok" <=> s.status = "ok" /\ s.bank[from] >= n
      /\ r.status = "panic" => s.status = "panic"
      /\ r.status = "ok" => /\ r.bank[from] = s.bank[from] - n
                            /\ r.bank[to] = s.bank[to] + n
                            /\ \A a \in Accounts \ {from, to} : r.bank[a] = s.bank[a]
  BY <1>1, BankSendEffect, SMTT(90)
<1> HIDE DEF r
<1>3. /\ s.bank[from] \in Nat /\ s.frac[from] \in Fractions /\ s.frac[from] \in Nat
      /\ s.bank[to] \in Nat /\ s.frac[to] \in Nat
  BY <1>1, LedgerTypes, SMTT(30)
<1>4. Sound(r)
  BY <1>1, <1>2, SMTT(30) DEF Sound, Step, SameFractions, Good, Backed, SumFractions
<1>5. r.status = "ok" <=> Balance(s, from) >= n * ConversionFactor
  <2>1. 0 \in Fractions
    BY FactorAssumption DEF Fractions
  <2>2. s.bank[from] * ConversionFactor + s.frac[from] >= ConversionFactor * n + 0
           <=> (IF s.frac[from] >= 0 THEN s.bank[from] >= n ELSE s.bank[from] >= n + 1)
    BY <2>1, <1>3, Compare
  <2>3. ConversionFactor * n + 0 = n * ConversionFactor
    BY FactorAssumption, SMTT(30)
  <2> QED BY <2>2, <2>3, <1>1, <1>2, <1>3 DEF Balance
<1>6. ASSUME r.status = "ok"
      PROVE  /\ Balance(r, from) = Balance(s, from) - n * ConversionFactor
             /\ Balance(r, to) = Balance(s, to) + n * ConversionFactor
             /\ \A a \in Holders \ {from, to} : Balance(r, a) = Balance(s, a)
  <2>1. /\ (s.bank[from] - n) * ConversionFactor
             = s.bank[from] * ConversionFactor - n * ConversionFactor
        /\ (s.bank[to] + n) * ConversionFactor
             = s.bank[to] * ConversionFactor + n * ConversionFactor
        /\ s.bank[from] * ConversionFactor \in Int /\ s.bank[to] * ConversionFactor \in Int
        /\ n * ConversionFactor \in Int
    BY <1>3, FactorAssumption, SMTT(30)
  <2>2. \A a \in Holders \ {from, to} : Balance(r, a) = Balance(s, a)
    BY <1>2, <1>6, SMTT(30) DEF Balance, SameFractions, Holders, Accounts
  <2> QED BY <2>1, <2>2, <1>2, <1>3, <1>6, SMTT(30) DEF Balance, SameFractions
<1> QED BY <1>4, <1>5, <1>6 DEF r

\* SendCoins between two accounts.
LEMMA SendCoinsBetween ==
    ASSUME NEW s \in Good, NEW from \in Holders, NEW to \in Holders, from # to,
           NEW c, c.int \in Nat, c.ext \in Nat
    PROVE  LET r   == SendCoins(s, from, to, c)
               amt == c.int * ConversionFactor + c.ext
           IN  /\ Sound(r)
               /\ r.status = "ok" <=> Balance(s, from) >= amt
               /\ r.status = "ok" =>
                     /\ Balance(r, from) = Balance(s, from) - amt
                     /\ Balance(r, to) = Balance(s, to) + amt
                     /\ \A a \in Holders \ {from, to} : Balance(r, a) = Balance(s, a)
<1> DEFINE q == BankSend(s, from, to, c.int)
           r == TransferExtended(q, from, to, c.ext)
           x == c.int * ConversionFactor
<1>1. /\ s \in Ledgers /\ from \in Accounts /\ to \in Accounts
      /\ from # Reserve /\ to # Reserve
  BY NAssumption DEF Good, Books, Holders, Accounts, Reserve
<1>2. SendCoins(s, from, to, c) = r
  BY <1>1 DEF SendCoins, sendExtendedCoins
<1>3. x \in Nat /\ Balance(s, from) \in Nat /\ Balance(s, to) \in Nat
  BY <1>1, LedgerTypes, FactorAssumption
<1>4. /\ Sound(q)
      /\ q.status = "ok" <=> Balance(s, from) >= x
      /\ q.status = "ok" => /\ Balance(q, from) = Balance(s, from) - x
                            /\ Balance(q, to) = Balance(s, to) + x
                            /\ \A a \in Holders \ {from, to} : Balance(q, a) = Balance(s, a)
  BY SendWholeSound
<1> HIDE DEF q, x
<1>5. CASE q.status # "ok"
  <2>1. q \in Books
    BY <1>4 DEF Sound
  <2>2. r = q
    BY <2>1, <1>1, <1>5, FailedStays
  <2> HIDE DEF r
  <2>3. Sound(r) /\ r.status # "ok" /\ ~(Balance(s, from) >= x + c.ext)
    BY <2>2, <1>3, <1>4, <1>5, SMTT(30)
  <2> QED BY <2>3, <1>2 DEF x
<1>6. CASE q.status = "ok"
  <2>1. q \in Good
    BY <1>4, <1>6, SMTT(30) DEF Sound
  <2>2. /\ Step(q, r) /\ r.status # "panic"
        /\ r.status = "ok" <=> Balance(q, from) >= c.ext
        /\ r.status = "ok" => /\ Backed(r)
                              /\ Balance(r, from) = Balance(q, from) - c.ext
                              /\ Balance(r, to) = Balance(q, to) + c.ext
                              /\ \A a \in Holders \ {from, to} : Balance(r, a) = Balance(q, a)
    BY <2>1, TransferSound
  <2> HIDE DEF r
  <2>3. Sound(r)
    BY <2>2, SMTT(30) DEF Sound, Step, Good
  <2>4. /\ r.status = "ok" <=> Balance(s, from) >= x + c.ext
        /\ r.status = "ok" => /\ Balance(r, from) = Balance(s, from) - (x + c.ext)
                              /\ Balance(r, to) = Balance(s, to) + (x + c.ext)
                              /\ \A a \in Holders \ {from, to} : Balance(r, a) = Balance(s, a)
    BY <2>2, <1>3, <1>4, <1>6, SMTT(30)
  <2> QED BY <2>3, <2>4, <1>2 DEF x
<1> QED BY <1>5, <1>6

\* SendCoins of an account to itself.
LEMMA SendCoinsSelf ==
    ASSUME NEW s \in Good, NEW m \in Holders, NEW c, c.int \in Nat, c.ext \in Nat
    PROVE  LET r == SendCoins(s, m, m, c)
           IN  /\ Sound(r)
               /\ r.status = "ok" => r = s
               /\ c.int = 0 => r.status = "ok"
<1>1. /\ s \in Books /\ s.status = "ok" /\ s \in Ledgers /\ m \in Accounts /\ m # Reserve
      /\ s.bank \in [Accounts -> Nat]
  BY NAssumption, SMTT(30) DEF Good, Books, Ledgers, Holders, Accounts, Reserve
<1>2. SendCoins(s, m, m, c) = BankSend(s, m, m, c.int)
  BY <1>1 DEF SendCoins, sendExtendedCoins
<1>3. CASE s.bank[m] < c.int
  <2>1. BankSend(s, m, m, c.int) = Fail(s)
    BY <1>1, <1>3 DEF BankSend
  <2>2. Fail(s) \in Books /\ Fail(s).status = "error"
    BY <1>1, SMTT(30) DEF Fail, Books, Ledgers, Statuses
  <2> QED BY <2>1, <2>2, <1>1, <1>2, <1>3 DEF Sound
<1>4. CASE ~(s.bank[m] < c.int)
  <2>1. [s.bank EXCEPT ![m] = @ - c.int, ![m] = @ + c.int] = s.bank
    BY <1>1
  <2>2. [s EXCEPT !.bank = s.bank] = s
    BY <1>1 DEF Ledgers
  <2>3. BankSend(s, m, m, c.int) = s
    BY <1>1, <1>4, <2>1, <2>2, SMTT(30) DEF BankSend
  <2> QED BY <2>3, <1>1, <1>2 DEF Sound
<1> QED BY <1>3, <1>4

\* SendCoins to the reserve: only whole coins move, and none of them backs
\* a fraction.
LEMMA SendCoinsReserve ==
    ASSUME NEW s \in Good, NEW from \in Holders, NEW c, c.int \in Nat, c.ext \in Nat
    PROVE  LET r == SendCoins(s, from, Reserve, c)
               n == c.int + c.ext \div ConversionFactor
           IN  /\ Sound(r)
               /\ r.status = "ok" =>
                     /\ Balance(s, from) >= n * ConversionFactor
                     /\ Balance(r, from) = Balance(s, from) - n * ConversionFactor
                     /\ \A a \in Holders \ {from} : Balance(r, a) = Balance(s, a)
<1> DEFINE w == c.ext \div ConversionFactor
           q == BankSend(s, from, Reserve, c.int)
           p == BankSend(q, from, Reserve, w)
           r == SendCoins(s, from, Reserve, c)
           n == c.int + w
           d == p.bank[Reserve] - s.bank[Reserve]
<1>1. /\ s \in Books /\ s.status = "ok" /\ s \in Ledgers /\ Backed(s)
      /\ from \in Accounts /\ Reserve \in Accounts /\ from # Reserve
      /\ s.bank[Reserve] \in Nat /\ s.donated \in Nat /\ s.rem \in Int
  <2>1. /\ s \in Books /\ s.status = "ok" /\ s \in Ledgers /\ Backed(s)
    BY DEF Good, Books
  <2>2. from \in Accounts /\ Reserve \in Accounts /\ from # Reserve
    BY NAssumption DEF Holders, Accounts, Reserve
  <2>3. s.bank[Reserve] \in Nat /\ s.donated \in Nat /\ s.rem \in Fractions
    BY <2>1, <2>2 DEF Ledgers
  <2> QED BY <2>1, <2>2, <2>3, FactorAssumption DEF Fractions
<1>2. w \in Nat
  BY DivMod
<1>3. r = IF p.status = "ok" THEN [p EXCEPT !.donated = @ + d] ELSE p
  BY ZenonT(30) DEF SendCoins, sendExtendedCoins
<1> HIDE DEF w
<1>4. /\ Step(s, q) /\ SameFractions(s, q)
      /\ q.status = "ok" <=> s.status = "ok" /\ s.bank[from] >= c.int
      /\ q.status = "panic" => s.status = "panic"
      /\ q.status = "ok" => /\ q.bank[from] = s.bank[from] - c.int
                            /\ q.bank[Reserve] = s.bank[Reserve] + c.int
                            /\ \A a \in Accounts \ {from, Reserve} : q.bank[a] = s.bank[a]
  <2>1. s \in Books /\ c.int \in Nat
    BY <1>1
  <2> QED BY <1>1, <2>1, BankSendEffect, ZenonT(60)
<1> HIDE DEF q
<1>q. q \in Books /\ from \in Accounts /\ Reserve \in Accounts /\ from # Reserve
  BY <1>1, <1>4, SMTT(90) DEF Step
<1>5. /\ Step(q, p) /\ SameFractions(q, p)
      /\ p.status = "ok" <=> q.status = "ok" /\ q.bank[from] >= w
      /\ p.status = "panic" => q.status = "panic"
      /\ p.status = "ok" => /\ p.bank[from] = q.bank[from] - w
                            /\ p.bank[Reserve] = q.bank[Reserve] + w
                            /\ \A a \in Accounts \ {from, Reserve} : p.bank[a] = q.bank[a]
  BY <1>2, <1>q, BankSendEffect, SMTT(60)
<1> HIDE DEF p, r
<1>6. CASE p.status # "ok"
  BY <1>1, <1>3, <1>4, <1>5, <1>6, SMTT(30) DEF Sound, Step, r
<1>7. CASE p.status = "ok"
  <2>1. s.bank[from] \in Nat /\ s.frac[from] \in Nat
    BY <1>1, LedgerTypes, SMTT(30)
  <2>2. /\ p.bank[from] = s.bank[from] - n
        /\ p.bank[Reserve] = s.bank[Reserve] + n
        /\ \A a \in Accounts \ {from, Reserve} : p.bank[a] = s.bank[a]
        /\ s.bank[from] >= n
    BY <2>1, <1>1, <1>2, <1>4, <1>5, <1>7, SMTT(90)
  <2>3. /\ p \in Books /\ p \in Ledgers /\ p.frac = s.frac /\ p.rem = s.rem
        /\ p.donated = s.donated
    BY <1>4, <1>5, SMTT(30) DEF Step, SameFractions, Books
  <2>4. n \in Nat /\ d = n
    BY <2>2, <1>1, <1>2
  <2> HIDE DEF n, d
  <2>5. /\ r \in Books /\ r.bank = p.bank /\ r.frac = s.frac /\ r.rem = s.rem
        /\ r.donated = s.donated + n /\ r.status = "ok"
    BY <2>3, <2>4, <1>1, <1>3, <1>7, SMTT(30) DEF Books, Ledgers
  <2>6. Backed(r)
    <3>1. /\ ConversionFactor * (s.donated + n)
               = ConversionFactor * s.donated + ConversionFactor * n
          /\ ConversionFactor * (s.bank[Reserve] + n)
               = ConversionFactor * s.bank[Reserve] + ConversionFactor * n
          /\ ConversionFactor * s.donated \in Int /\ ConversionFactor * n \in Int
          /\ ConversionFactor * s.bank[Reserve] \in Int
      BY <2>4, <1>1, FactorAssumption
    <3>2. SumFractions(s) \in Int /\ SumFractions(r) = SumFractions(s)
      <4>1. SumFractions(s) \in Nat
        BY <1>1, FractionsUpdate
      <4> QED BY <4>1, <2>5 DEF SumFractions
    <3> QED BY <3>1, <3>2, <2>2, <2>5, <1>1, SMTT(30) DEF Backed
  <2>7. Sound(r)
    BY <2>5, <2>6, SMTT(30) DEF Sound, Good
  <2>8. /\ Balance(s, from) >= n * ConversionFactor
        /\ Balance(r, from) = Balance(s, from) - n * ConversionFactor
    <3>1. /\ (s.bank[from] - n) * ConversionFactor
               = s.bank[from] * ConversionFactor - n * ConversionFactor
          /\ s.bank[from] * ConversionFactor \in Int /\ n * ConversionFactor \in Int
          /\ s.bank[from] * ConversionFactor >= n * ConversionFactor
      BY <2>1, <2>2, <2>4, FactorAssumption
    <3> QED BY <3>1, <2>1, <2>2, <2>5, SMTT(30) DEF Balance
  <2>9. \A a \in Holders \ {from} : Balance(r, a) = Balance(s, a)
    BY <2>2, <2>5 DEF Balance, Holders, Accounts, Reserve
  <2> QED BY <2>7, <2>8, <2>9, SMTT(30) DEF n, w, r
<1> QED BY <1>6, <1>7, SMTT(30)

\* MintCoins to an account.
LEMMA MintCoinsSound ==
    ASSUME NEW s \in Good, NEW m \in Holders, NEW c, c.int \in Nat, c.ext \in Nat
    PROVE  LET r == MintCoins(s, m, c)
           IN  /\ r \in Good
               /\ Balance(r, m) = Balance(s, m) + (c.int * ConversionFactor + c.ext)
               /\ \A a \in Holders \ {m} : Balance(r, a) = Balance(s, a)
<1> DEFINE q == BankMint(s, m, c.int)
           r == mintExtendedCoin(q, m, c.ext)
           x == c.int * ConversionFactor
<1>1. /\ s \in Books /\ s.status = "ok" /\ s \in Ledgers /\ Backed(s)
      /\ m \in Accounts /\ Reserve \in Accounts /\ m # Reserve
  BY NAssumption DEF Good, Books, Holders, Accounts, Reserve
<1>2. MintCoins(s, m, c) = r
  BY <1>1, SMTT(30) DEF MintCoins
<1>3. /\ Step(s, q) /\ SameFractions(s, q) /\ q.status = "ok"
      /\ q.bank[m] = s.bank[m] + c.int
      /\ \A a \in Accounts \ {m} : q.bank[a] = s.bank[a]
  BY <1>1, BankMintEffect, SMTT(30)
<1> HIDE DEF q
<1>4. q \in Good
  BY <1>1, <1>3, SMTT(30) DEF Step, SameFractions, Good, Backed, SumFractions
<1>5. Balance(q, m) = Balance(s, m) + x
  <2>1. s.bank[m] \in Nat /\ s.frac[m] \in Nat
    BY <1>1, LedgerTypes
  <2>2. /\ (s.bank[m] + c.int) * ConversionFactor = s.bank[m] * ConversionFactor + x
        /\ s.bank[m] * ConversionFactor \in Int /\ x \in Int
    BY <2>1, FactorAssumption
  <2> HIDE DEF x
  <2> QED BY <2>1, <2>2, <1>3 DEF Balance, SameFractions
<1>6. \A a \in Holders \ {m} : Balance(q, a) = Balance(s, a)
  BY <1>3, SMTT(30) DEF Balance, SameFractions, Holders, Accounts
<1>7. /\ Step(q, r) /\ r.status = "ok" /\ Backed(r)
      /\ Balance(r, m) = Balance(q, m) + c.ext
      /\ \A a \in Holders \ {m} : Balance(r, a) = Balance(q, a)
  BY <1>4, MintSound
<1> HIDE DEF r
<1>8. r \in Good
  BY <1>7 DEF Step, Good
<1>9. Balance(s, m) \in Nat /\ x \in Nat
  BY <1>1, LedgerTypes, FactorAssumption
<1> HIDE DEF x
<1>10. Balance(r, m) = Balance(s, m) + (x + c.ext)
  BY <1>5, <1>7, <1>9, SMTT(30)
<1> QED BY <1>2, <1>6, <1>7, <1>8, <1>10 DEF x

\* BurnCoins of an account.
LEMMA BurnCoinsSound ==
    ASSUME NEW s \in Good, NEW m \in Holders, NEW c, c.int \in Nat, c.ext \in Nat
    PROVE  LET r   == BurnCoins(s, m, c)
               amt == c.int * ConversionFactor + c.ext
           IN  /\ Sound(r)
               /\ r.status = "ok" <=> Balance(s, m) >= amt
               /\ r.status = "ok" =>
                     /\ Balance(r, m) = Balance(s, m) - amt
                     /\ \A a \in Holders \ {m} : Balance(r, a) = Balance(s, a)
<1> DEFINE q == BankBurn(s, m, c.int)
           r == burnExtendedCoin(q, m, c.ext)
           x == c.int * ConversionFactor
<1>1. /\ s \in Books /\ s.status = "ok" /\ s \in Ledgers /\ Backed(s)
      /\ m \in Accounts /\ Reserve \in Accounts /\ m # Reserve
  BY NAssumption DEF Good, Books, Holders, Accounts, Reserve
<1>2. BurnCoins(s, m, c) = r
  BY <1>1 DEF BurnCoins
<1>3. /\ Step(s, q) /\ SameFractions(s, q)
      /\ q.status = "ok" <=> s.status = "ok" /\ s.bank[m] >= c.int
      /\ q.status = "panic" => s.status = "panic"
      /\ q.status = "ok" => /\ q.bank[m] = s.bank[m] - c.int
                            /\ \A a \in Accounts \ {m} : q.bank[a] = s.bank[a]
  <2>1. s \in Books /\ m \in Accounts /\ c.int \in Nat
    BY <1>1
  <2> QED BY <2>1, BankBurnEffect, ZenonT(60)
<1> HIDE DEF q
<1>4. Sound(q)
  BY <1>1, <1>3 DEF Sound, Step, SameFractions, Good, Backed, SumFractions
<1>5. s.bank[m] \in Nat /\ s.frac[m] \in Nat /\ s.frac[m] \in Fractions
  BY <1>1, LedgerTypes, SMTT(30)
<1>6. Balance(s, m) \in Nat /\ x \in Nat
  BY <1>1, LedgerTypes, FactorAssumption
<1>7. q.status = "ok" <=> Balance(s, m) >= x
  <2>1. 0 \in Fractions
    BY FactorAssumption DEF Fractions
  <2>2. s.bank[m] * ConversionFactor + s.frac[m] >= ConversionFactor * c.int + 0
           <=> (IF s.frac[m] >= 0 THEN s.bank[m] >= c.int ELSE s.bank[m] >= c.int + 1)
    BY <2>1, <1>5, Compare
  <2>3. ConversionFactor * c.int + 0 = c.int * ConversionFactor
    BY FactorAssumption, SMTT(30)
  <2> QED BY <2>2, <2>3, <1>1, <1>3, <1>5 DEF Balance
<1>8. q.status = "ok" => /\ Balance(q, m) = Balance(s, m) - x
                         /\ \A a \in Holders \ {m} : Balance(q, a) = Balance(s, a)
  <2>1. /\ (s.bank[m] - c.int) * ConversionFactor = s.bank[m] * ConversionFactor - x
        /\ s.bank[m] * ConversionFactor \in Int
    BY <1>5, FactorAssumption, SMTT(30)
  <2>2. q.status = "ok" => \A a \in Holders \ {m} : Balance(q, a) = Balance(s, a)
    BY <1>3 DEF Balance, SameFractions, Holders, Accounts
  <2> HIDE DEF x
  <2> QED BY <2>1, <2>2, <1>3, <1>5, <1>6, SMTT(90) DEF Balance, SameFractions
<1> HIDE DEF x
<1>9. CASE q.status # "ok"
  <2>1. q \in Books
    BY <1>4 DEF Sound
  <2>2. r = q
    BY <2>1, <1>1, <1>9, FailedStays
  <2> HIDE DEF r
  <2>3. Sound(r) /\ r.status # "ok" /\ ~(Balance(s, m) >= x + c.ext)
    BY <2>2, <1>4, <1>6, <1>7, <1>9, SMTT(30)
  <2> QED BY <2>3, <1>2 DEF x
<1>10. CASE q.status = "ok"
  <2>1. q \in Good
    BY <1>4, <1>10, SMTT(30) DEF Sound
  <2>2. /\ Step(q, r) /\ r.status # "panic"
        /\ r.status = "ok" <=> Balance(q, m) >= c.ext
        /\ r.status = "ok" => /\ Backed(r)
                              /\ Balance(r, m) = Balance(q, m) - c.ext
                              /\ \A a \in Holders \ {m} : Balance(r, a) = Balance(q, a)
    BY <2>1, BurnSound
  <2> HIDE DEF r
  <2>3. Sound(r)
    BY <2>2, SMTT(30) DEF Sound, Step, Good
  <2>4. /\ r.status = "ok" <=> Balance(s, m) >= x + c.ext
        /\ r.status = "ok" => /\ Balance(r, m) = Balance(s, m) - (x + c.ext)
                              /\ \A a \in Holders \ {m} : Balance(r, a) = Balance(s, a)
    BY <2>2, <1>6, <1>7, <1>8, <1>10
  <2> QED BY <2>3, <2>4, <1>2 DEF x
<1> QED BY <1>9, <1>10, SMTT(30)

\* A rejected call.
LEMMA FailSound ==
    ASSUME NEW s \in Good
    PROVE  Sound(Fail(s)) /\ Fail(s).status = "error"
BY DEF Good, Books, Ledgers, Statuses, Fail, Sound

\* SendCoins to anyone.
LEMMA SendCoinsSound ==
    ASSUME NEW s \in Good, NEW from \in Holders, NEW to \in Accounts,
           NEW c, c.int \in Nat, c.ext \in Nat
    PROVE  Sound(SendCoins(s, from, to, c))
<1>1. CASE to = Reserve
  BY <1>1, SendCoinsReserve
<1>2. CASE to = from
  BY <1>2, SendCoinsSelf
<1>3. CASE to # Reserve /\ to # from
  <2>1. to \in Holders
    BY <1>3, NAssumption, SMTT(30) DEF Accounts, Holders, Reserve
  <2> QED BY <2>1, <1>3, SendCoinsBetween
<1> QED BY <1>1, <1>2, <1>3

\* The EVM's mint to an account.
LEMMA MintToAccountSound ==
    ASSUME NEW s \in Good, NEW a \in Accounts, NEW amt \in Nat
    PROVE  LET r == MintAmountToAccount(s, a, amt)
               m == IF a = Reserve THEN EvmModule ELSE a
               x == IF a = Reserve THEN amt % ConversionFactor ELSE amt
           IN  /\ Sound(r)
               /\ a \in Holders /\ a \notin Blocked => r.status = "ok"
               /\ r.status = "ok" =>
                     /\ Balance(r, m) = Balance(s, m) + x
                     /\ \A b \in Holders \ {m} : Balance(r, b) = Balance(s, b)
<1> DEFINE c == Extended(amt)
           q == MintCoins(s, EvmModule, c)
           r == MintAmountToAccount(s, a, amt)
<1>1. /\ EvmModule \in Holders /\ EvmModule # Reserve /\ Reserve \notin Holders
      /\ c.int = 0 /\ c.ext = amt /\ c.int \in Nat /\ c.ext \in Nat
      /\ c.int * ConversionFactor + c.ext = amt
  BY ModulesAssumption, NAssumption, FactorAssumption DEF Extended, Holders, Reserve
<1>2. s \in Ledgers /\ \A b \in Holders : Balance(s, b) \in Nat
  BY LedgerTypes DEF Good, Books
<1> HIDE DEF c
<1>3. /\ q \in Good
      /\ Balance(q, EvmModule) = Balance(s, EvmModule) + (c.int * ConversionFactor + c.ext)
      /\ \A b \in Holders \ {EvmModule} : Balance(q, b) = Balance(s, b)
  BY <1>1, MintCoinsSound, SMTT(30)
<1> HIDE DEF q
<1>4. r = IF a \in Blocked THEN Fail(q) ELSE SendCoins(q, EvmModule, a, c)
  BY <1>1, <1>3 DEF MintAmountToAccount, SendCoinsFromModuleToAccount, Good, q, c
<1> HIDE DEF r
<1>5. CASE a \in Blocked
  BY <1>3, <1>4, <1>5, FailSound, SMTT(30) DEF r
<1>6. CASE a \notin Blocked /\ a = Reserve
  <2> DEFINE w == amt \div ConversionFactor
             n == c.int + c.ext \div ConversionFactor
  <2>1. /\ Sound(r)
        /\ r.status = "ok" =>
              /\ Balance(r, EvmModule) = Balance(q, EvmModule) - n * ConversionFactor
              /\ \A b \in Holders \ {EvmModule} : Balance(r, b) = Balance(q, b)
    BY <1>1, <1>3, <1>4, <1>6, SendCoinsReserve
  <2>2. /\ w \in Nat /\ amt % ConversionFactor \in Fractions
        /\ amt = ConversionFactor * w + (amt % ConversionFactor)
    BY DivMod
  <2>3. n = w
    BY <2>2, <1>1
  <2> HIDE DEF w, n
  <2>4. /\ w * ConversionFactor = ConversionFactor * w /\ ConversionFactor * w \in Int
        /\ amt % ConversionFactor \in Int
    BY <2>2, FactorAssumption DEF Fractions
  <2>5. r.status = "ok" =>
           Balance(r, EvmModule) = Balance(s, EvmModule) + (amt % ConversionFactor)
    BY <2>1, <2>2, <2>3, <2>4, <1>1, <1>2, <1>3, SMTT(30)
  <2> QED BY <2>1, <2>5, <1>1, <1>3, <1>6, SMTT(30) DEF r
<1>7. CASE a \notin Blocked /\ a # Reserve /\ a # EvmModule
  <2>1. a \in Holders
    BY <1>7, NAssumption, SMTT(30) DEF Accounts, Holders, Reserve
  <2>2. /\ Sound(r)
        /\ r.status = "ok" <=> Balance(q, EvmModule) >= c.int * ConversionFactor + c.ext
        /\ r.status = "ok" =>
             /\ Balance(r, EvmModule) = Balance(q, EvmModule) - (c.int * ConversionFactor + c.ext)
             /\ Balance(r, a) = Balance(q, a) + (c.int * ConversionFactor + c.ext)
             /\ \A b \in Holders \ {EvmModule, a} : Balance(r, b) = Balance(q, b)
    BY <2>1, <1>1, <1>3, <1>4, <1>7, SendCoinsBetween, SMTT(30)
  <2>3. r.status = "ok" =>
           /\ Balance(r, a) = Balance(s, a) + amt
           /\ \A b \in Holders \ {a} : Balance(r, b) = Balance(s, b)
    BY <2>1, <2>2, <1>1, <1>2, <1>3, <1>7, SMTT(30)
  <2>4. r.status = "ok"
    BY <2>2, <1>1, <1>2, <1>3, SMTT(30)
  <2> QED BY <2>2, <2>3, <2>4, <1>7 DEF r
<1>8. CASE a \notin Blocked /\ a = EvmModule
  <2>1. Sound(r) /\ r.status = "ok" /\ r = q
    BY <1>1, <1>3, <1>4, <1>8, SendCoinsSelf, SMTT(30)
  <2> QED BY <2>1, <1>1, <1>3, <1>8, SMTT(30) DEF r
<1> QED BY <1>5, <1>6, <1>7, <1>8

\* The EVM's burn of an account's coins.
LEMMA BurnFromAccountSound ==
    ASSUME NEW s \in Good, NEW a \in Holders, NEW amt \in Nat
    PROVE  LET r == BurnAmountFromAccount(s, a, amt)
           IN  /\ Sound(r)
               /\ r.status = "ok" <=> Balance(s, a) >= amt
               /\ r.status = "ok" =>
                     /\ Balance(r, a) = Balance(s, a) - amt
                     /\ \A b \in Holders \ {a} : Balance(r, b) = Balance(s, b)
<1> DEFINE c == Extended(amt)
           q == SendCoins(s, a, EvmModule, c)
           t == BurnCoins(q, EvmModule, c)
           r == BurnAmountFromAccount(s, a, amt)
<1>1. /\ EvmModule \in Holders /\ EvmModule # Reserve /\ Reserve \notin Holders
      /\ c.int = 0 /\ c.ext = amt /\ c.int \in Nat /\ c.ext \in Nat
      /\ c.int * ConversionFactor + c.ext = amt
  BY ModulesAssumption, NAssumption, FactorAssumption, SMTT(30) DEF Extended, Holders, Reserve
<1>2. s \in Ledgers /\ \A b \in Holders : Balance(s, b) \in Nat
  BY LedgerTypes, Zenon DEF Good, Books
<1>3. r = IF q.status # "ok" THEN q ELSE t
  BY <1>1 DEF BurnAmountFromAccount, SendCoinsFromAccountToModule
<1>4. Sound(q)
  <2>1. EvmModule \in Accounts
    BY <1>1, NAssumption, SMTT(30) DEF Holders, Accounts
  <2> HIDE DEF c
  <2> QED BY <2>1, <1>1, SendCoinsSound
<1>5. CASE q.status # "ok"
  <2> HIDE DEF c, r
  <2>1. a # EvmModule
    BY <1>1, <1>5, SendCoinsSelf, SMTT(30)
  <2>2. ~(Balance(s, a) >= c.int * ConversionFactor + c.ext)
    BY <2>1, <1>1, <1>5, SendCoinsBetween, SMTT(30)
  <2> QED BY <2>2, <1>1, <1>3, <1>4, <1>5, SMTT(30) DEF r
<1>6. CASE q.status = "ok" /\ a = EvmModule
  <2> HIDE DEF c, r
  <2>1. q = s
    BY <1>1, <1>6, SendCoinsSelf, SMTT(30)
  <2>2. /\ Sound(t)
        /\ t.status = "ok" <=> Balance(s, EvmModule) >= c.int * ConversionFactor + c.ext
        /\ t.status = "ok" =>
             /\ Balance(t, EvmModule) = Balance(s, EvmModule) - (c.int * ConversionFactor + c.ext)
             /\ \A b \in Holders \ {EvmModule} : Balance(t, b) = Balance(s, b)
    BY <2>1, <1>1, BurnCoinsSound, SMTT(30)
  <2> QED BY <2>2, <1>1, <1>3, <1>6, SMTT(30) DEF r
<1>7. CASE q.status = "ok" /\ a # EvmModule
  <2> HIDE DEF c, r
  <2>1. /\ Balance(s, a) >= c.int * ConversionFactor + c.ext
        /\ Balance(q, a) = Balance(s, a) - (c.int * ConversionFactor + c.ext)
        /\ Balance(q, EvmModule) = Balance(s, EvmModule) + (c.int * ConversionFactor + c.ext)
        /\ \A b \in Holders \ {a, EvmModule} : Balance(q, b) = Balance(s, b)
    BY <1>1, <1>7, SendCoinsBetween
  <2>2. q \in Good
    BY <1>4, <1>7, SMTT(30) DEF Sound
  <2> HIDE DEF q
  <2>3. /\ Sound(t)
        /\ t.status = "ok" <=> Balance(q, EvmModule) >= c.int * ConversionFactor + c.ext
        /\ t.status = "ok" =>
             /\ Balance(t, EvmModule) = Balance(q, EvmModule) - (c.int * ConversionFactor + c.ext)
             /\ \A b \in Holders \ {EvmModule} : Balance(t, b) = Balance(q, b)
    BY <2>2, <1>1, BurnCoinsSound, SMTT(30)
  <2> HIDE DEF t
  <2>4. t.status = "ok" =>
           /\ Balance(t, a) = Balance(s, a) - amt
           /\ \A b \in Holders \ {a} : Balance(t, b) = Balance(s, b)
    BY <2>1, <2>3, <1>1, <1>2, <1>7, SMTT(30)
  <2>5. t.status = "ok"
    BY <2>1, <2>3, <1>1, <1>2
  <2> QED BY <2>1, <2>3, <2>4, <2>5, <1>1, <1>3, <1>7, SMTT(30) DEF r
<1> QED BY <1>5, <1>6, <1>7

(***************************************************************************)
(* The inductive invariant.  ReserveBacksFractions is not inductive alone: *)
(* the reserve's ability to pay rests on the range of the fractions, and   *)
(* the range of the supply rests on x/bank's books being balanced.         *)
(***************************************************************************)
Inv ==
    /\ Sound(ledger)
    /\ committed \in Good
    /\ calls \in 0..MaxCalls

\* The coins of a call are naturals.
LEMMA CoinTypes ==
    ASSUME NEW c \in Coins
    PROVE  c.int \in Nat /\ c.ext \in Nat
BY BoundsAssumption DEF Coins

\* A genesis that InitGenesis accepts is a good ledger.
LEMMA GenesisGood ==
    ASSUME NEW s \in Genesis
    PROVE  s \in Good
<1>1. /\ s.bank \in [Accounts -> 0..MaxGenesis] /\ s.supply \in 0..MaxSupply
      /\ s.frac \in [Holders -> Fractions] /\ s.rem \in Fractions
      /\ s.donated \in 0..MaxGenesis /\ s.status = "ok"
      /\ s = [bank |-> s.bank, supply |-> s.supply, frac |-> s.frac, rem |-> s.rem,
              donated |-> s.donated, status |-> s.status]
  BY DEF Genesis
<1>2. MaxGenesis \in Nat /\ MaxSupply \in Nat
  BY BoundsAssumption
<1>3. s \in Ledgers
  BY <1>1, <1>2 DEF Ledgers, Statuses
<1>4. s \in Books
  BY <1>3 DEF Genesis, Books, Total
<1>5. s.bank[Reserve] \in Nat /\ s.rem \in Nat
  BY <1>3, NAssumption, FactorAssumption DEF Ledgers, Accounts, Reserve, Fractions
<1>6. CASE EmptyGenesis(s)
  <2>1. N \in Nat /\ \A i \in 1..N : s.frac[i] = 0
    BY <1>6, NAssumption DEF EmptyGenesis, Holders
  <2>2. SumFractions(s) = 0
    BY <2>1, SumZero DEF SumFractions
  <2>3. s.rem = 0 /\ s.donated = s.bank[Reserve]
    BY <1>6 DEF EmptyGenesis, Genesis
  <2>4. ConversionFactor * s.bank[Reserve] \in Int
    BY <1>5, FactorAssumption
  <2>5. Backed(s)
    BY <2>2, <2>3, <2>4 DEF Backed
  <2> QED BY <2>5, <1>1, <1>4 DEF Good
<1>7. CASE ~EmptyGenesis(s)
  <2>1. s.donated = 0 /\ SumFractions(s) + s.rem = s.bank[Reserve] * ConversionFactor
    BY <1>7 DEF Genesis, InitGenesisAccepts, TotalAmountWithRemainder
  <2>2. s.bank[Reserve] * ConversionFactor \in Int /\ ConversionFactor * 0 = 0
        /\ s.bank[Reserve] * ConversionFactor = ConversionFactor * s.bank[Reserve]
    BY <1>5, FactorAssumption
  <2>3. Backed(s)
    BY <2>1, <2>2 DEF Backed
  <2> QED BY <2>3, <1>1, <1>4 DEF Good
<1> QED BY <1>6, <1>7

\* The result of a call is sound.
LEMMA CallsSound ==
    ASSUME NEW s \in Good, NEW c \in Coins
    PROVE  /\ \A from \in Holders, to \in Accounts :
                 Sound(SendCoins(s, from, to, c)) /\ Sound(Send(s, from, to, c))
           /\ \A from \in Holders, m \in Modules \union {Reserve} :
                 Sound(SendCoinsFromAccountToModule(s, from, m, c))
           /\ \A m \in Modules \union {Reserve}, to \in Accounts :
                 Sound(SendCoinsFromModuleToAccount(s, m, to, c))
           /\ \A m \in Modules, to \in Modules \union {Reserve} :
                 Sound(SendCoinsFromModuleToModule(s, m, to, c))
           /\ \A m \in Modules \union {Reserve} :
                 Sound(MintCoins(s, m, c)) /\ Sound(BurnCoins(s, m, c))
<1>1. c.int \in Nat /\ c.ext \in Nat
  BY CoinTypes
<1>2. Sound(Fail(s))
  BY FailSound
<1>3. /\ Modules \subseteq Holders /\ Holders \subseteq Accounts
      /\ Reserve \in Accounts /\ Reserve \notin Holders
  BY ModulesAssumption, NAssumption DEF Holders, Accounts, Reserve
<1>4. \A from \in Holders, to \in Accounts : Sound(SendCoins(s, from, to, c))
  BY <1>1, SendCoinsSound
<1>5. \A m \in Holders : Sound(MintCoins(s, m, c))
  BY <1>1, MintCoinsSound DEF Sound, Good
<1>6. \A m \in Holders : Sound(BurnCoins(s, m, c))
  BY <1>1, BurnCoinsSound
<1>7. Sound(MintCoins(s, Reserve, c)) /\ Sound(BurnCoins(s, Reserve, c))
  BY <1>2 DEF MintCoins, BurnCoins
<1>8. \A from \in Holders, to \in Accounts : Sound(Send(s, from, to, c))
  BY <1>2, <1>4 DEF Send
<1>9. \A from \in Holders, m \in Modules \union {Reserve} :
         Sound(SendCoinsFromAccountToModule(s, from, m, c))
  BY <1>2, <1>3, <1>4 DEF SendCoinsFromAccountToModule
<1>10. \A m \in Modules \union {Reserve}, to \in Accounts :
         Sound(SendCoinsFromModuleToAccount(s, m, to, c))
  BY <1>2, <1>3, <1>4 DEF SendCoinsFromModuleToAccount
<1>11. \A m \in Modules, to \in Modules \union {Reserve} :
         Sound(SendCoinsFromModuleToModule(s, m, to, c))
  BY <1>2, <1>3, <1>4 DEF SendCoinsFromModuleToModule
<1> QED BY <1>3, <1>4, <1>5, <1>6, <1>7, <1>8, <1>9, <1>10, <1>11

\* Every step keeps the invariant.
LEMMA InvStep ==
    ASSUME Inv, [Next]_vars
    PROVE  Inv'
<1>1. ASSUME NEW r, Call(r), Sound(r) PROVE Inv'
  BY <1>1, BoundsAssumption DEF Call, Inv
<1>2. ASSUME ledger.status = "ok" PROVE ledger \in Good
  BY <1>2 DEF Inv, Sound
<1>3. \A r : Call(r) => ledger.status = "ok"
  BY DEF Call
<1>4. ASSUME NEW from \in Holders, NEW to \in Accounts, NEW c \in Coins,
             CallSendCoins(from, to, c) \/ CallSend(from, to, c)
      PROVE  Inv'
  BY <1>1, <1>2, <1>3, <1>4, CallsSound DEF CallSendCoins, CallSend
<1>5. ASSUME NEW from \in Holders, NEW m \in Modules \union {Reserve}, NEW c \in Coins,
             CallSendToModule(from, m, c)
      PROVE  Inv'
  BY <1>1, <1>2, <1>3, <1>5, CallsSound DEF CallSendToModule
<1>6. ASSUME NEW m \in Modules \union {Reserve}, NEW to \in Accounts, NEW c \in Coins,
             CallSendFromModule(m, to, c)
      PROVE  Inv'
  BY <1>1, <1>2, <1>3, <1>6, CallsSound DEF CallSendFromModule
<1>7. ASSUME NEW m \in Modules, NEW to \in Modules \union {Reserve}, NEW c \in Coins,
             CallSendBetweenModules(m, to, c)
      PROVE  Inv'
  BY <1>1, <1>2, <1>3, <1>7, CallsSound DEF CallSendBetweenModules
<1>8. ASSUME NEW m \in Modules \union {Reserve}, NEW c \in Coins,
             CallMintCoins(m, c) \/ CallBurnCoins(m, c)
      PROVE  Inv'
  BY <1>1, <1>2, <1>3, <1>8, CallsSound DEF CallMintCoins, CallBurnCoins
<1>9. ASSUME NEW a \in Accounts, NEW amt \in 1..MaxExtended, CallMintToAccount(a, amt)
      PROVE  Inv'
  <2>1. ledger \in Good /\ amt \in Nat
    BY <1>2, <1>3, <1>9, BoundsAssumption DEF CallMintToAccount
  <2>2. Sound(MintAmountToAccount(ledger, a, amt))
    BY <2>1, MintToAccountSound
  <2> QED BY <2>2, <1>1, <1>9 DEF CallMintToAccount
<1>10. ASSUME NEW a \in Holders, NEW amt \in 1..MaxExtended, CallBurnFromAccount(a, amt)
       PROVE  Inv'
  <2>1. ledger \in Good /\ amt \in Nat
    BY <1>2, <1>3, <1>10, BoundsAssumption DEF CallBurnFromAccount
  <2>2. Sound(BurnAmountFromAccount(ledger, a, amt))
    BY <2>1, BurnFromAccountSound
  <2> QED BY <2>2, <1>1, <1>10 DEF CallBurnFromAccount
<1>11. CASE Commit
  BY <1>2, <1>11, BoundsAssumption DEF Commit, Inv
<1>12. CASE Rollback
  BY <1>12, BoundsAssumption DEF Rollback, Inv, Sound, Good
<1>13. CASE UNCHANGED vars
  BY <1>13 DEF vars, Inv
<1> QED BY <1>4, <1>5, <1>6, <1>7, <1>8, <1>9, <1>10, <1>11, <1>12, <1>13, SMTT(30) DEF Next

\* The invariant holds in every reachable state.
THEOREM Invariance == Spec => []Inv
<1>1. Init => Inv
  BY GenesisGood, BoundsAssumption DEF Init, Inv, Sound, Good
<1>2. Inv /\ [Next]_vars => Inv'
  BY InvStep
<1> QED BY <1>1, <1>2, PTL DEF Spec

\* TypeOK: balances are naturals, fractions and the remainder stay below one
\* coin, and only a successful branch is written back.
THEOREM TypeCorrect == Spec => []TypeOK
<1>1. Inv => TypeOK
  BY DEF Inv, Sound, Good, Books, TypeOK
<1> QED BY <1>1, Invariance, PTL

\* ReserveBacksFractions: after every successful keeper call, and in every
\* committed store, the reserve holds exactly what the fractional balances,
\* the remainder and the coins given to it amount to.
THEOREM ReserveBacked == Spec => []ReserveBacksFractions
<1>1. Inv => ReserveBacksFractions
  BY DEF Inv, Sound, Good, ReserveBacksFractions
<1> QED BY <1>1, Invariance, PTL

\* ReserveNeverShort: sendExtendedCoins never panics on its reserve, and no
\* mint, burn or setter finds corrupted state.
THEOREM NeverShort == Spec => []ReserveNeverShort
<1>1. Inv => ReserveNeverShort
  BY DEF Inv, Sound, ReserveNeverShort
<1> QED BY <1>1, Invariance, PTL

\* A good ledger accounts for the whole supply.
LEMMA GoodSupply ==
    ASSUME NEW s \in Good
    PROVE  SupplyAccounted(s)
<1> DEFINE A == SumTo(s.bank, N)
           F == SumTo(s.frac, N)
           B == SumTo(Balances(s), N)
           R == s.bank[Reserve]
<1>1. /\ N \in Nat /\ ConversionFactor \in Int /\ Reserve \in Accounts
      /\ 1..N = Holders /\ Holders \subseteq Accounts
  BY NAssumption, FactorAssumption DEF Holders, Accounts, Reserve
<1>2. s \in Books /\ s \in Ledgers /\ Backed(s) /\ s.supply = A + R
  BY DEF Good, Books, Total
<1>3. \A i \in 1..N : s.bank[i] \in Int /\ s.frac[i] \in Int
  BY <1>1, <1>2, LedgerTypes
<1>4. \A i \in 1..N : Balances(s)[i] = s.bank[i] * ConversionFactor + s.frac[i]
  BY <1>1 DEF Balances, Balance
<1>5. B = A * ConversionFactor + F
  <2> DEFINE b == s.bank
             f == s.frac
             h == Balances(s)
  <2>1. /\ \A i \in 1..N : b[i] \in Int /\ f[i] \in Int
        /\ \A i \in 1..N : h[i] = b[i] * ConversionFactor + f[i]
    BY <1>3, <1>4
  <2> HIDE DEF b, f, h
  <2>2. SumTo(h, N) = SumTo(b, N) * ConversionFactor + SumTo(f, N)
    BY <2>1, <1>1, SumLinear, ZenonT(30)
  <2> QED BY <2>2 DEF b, f, h
<1>6. A \in Int /\ F \in Int
  BY <1>1, <1>3, SumType
<1>7. R \in Int /\ s.rem \in Int /\ s.donated \in Int
  BY <1>1, <1>2, FactorAssumption DEF Ledgers, Fractions
<1>8. F + s.rem + ConversionFactor * s.donated = ConversionFactor * R
  BY <1>2 DEF Backed, SumFractions
<1>9. B + s.rem + ConversionFactor * s.donated = ConversionFactor * s.supply
  <2> HIDE DEF A, F, B, R
  <2>1. ConversionFactor * (A + R) = A * ConversionFactor + ConversionFactor * R
    BY <1>1, <1>6, <1>7
  <2>2. /\ A * ConversionFactor \in Int /\ ConversionFactor * R \in Int
        /\ ConversionFactor * s.donated \in Int
    BY <1>1, <1>6, <1>7
  <2> QED BY <2>1, <2>2, <1>2, <1>5, <1>6, <1>7, <1>8
<1> QED BY <1>9 DEF SupplyAccounted

\* SupplyExact: no call creates or loses a unit of the extended coin.
THEOREM SupplyIsExact == Spec => []SupplyExact
<1>1. Inv => SupplyExact
  BY GoodSupply DEF Inv, Sound, SupplyExact
<1> QED BY <1>1, Invariance, PTL

\* ExportReimports: what ExportGenesis writes, InitGenesis accepts.
THEOREM Reimports == Spec => []ExportReimports
<1>1. ASSUME Inv, committed.donated = 0 PROVE InitGenesisAccepts(committed)
  <2> DEFINE R == committed.bank[Reserve]
  <2>1. R \in Nat /\ committed.rem \in Int /\ SumFractions(committed) \in Nat
    <3>1. committed \in Ledgers /\ 1 \in Holders /\ Reserve \in Accounts
      BY <1>1, NAssumption DEF Inv, Good, Books, Holders, Accounts, Reserve
    <3>2. SumFractions(committed) \in Nat
      BY <3>1, FractionsUpdate
    <3> QED BY <3>1, <3>2, FactorAssumption DEF Ledgers, Fractions
  <2>2. SumFractions(committed) + committed.rem + ConversionFactor * 0 = ConversionFactor * R
    BY <1>1 DEF Inv, Good, Backed
  <2> HIDE DEF R
  <2>3. ConversionFactor * 0 = 0 /\ ConversionFactor * R = R * ConversionFactor
    BY <2>1, FactorAssumption
  <2>4. TotalAmountWithRemainder(committed) = R * ConversionFactor
    BY <2>1, <2>2, <2>3 DEF TotalAmountWithRemainder
  <2>5. (R * ConversionFactor) % ConversionFactor = 0
    BY <2>1, FactorAssumption
  <2> QED BY <2>4, <2>5 DEF InitGenesisAccepts, R
<1>2. Inv => ExportReimports
  BY <1>1 DEF ExportReimports
<1> QED BY <1>2, Invariance, PTL

\* The balances of a ledger are a function of naturals.
LEMMA BalancesType ==
    ASSUME NEW s \in Ledgers
    PROVE  /\ Balances(s) \in [Holders -> Nat]
           /\ \A a \in Holders : Balances(s)[a] = Balance(s, a)
BY LedgerTypes DEF Balances

\* Balances that differ in one account or in two.
LEMMA MoveBalances ==
    ASSUME NEW s \in Ledgers, NEW r \in Ledgers, NEW a \in Holders, NEW b \in Holders, a # b,
           NEW amt \in Nat,
           Balance(r, a) = Balance(s, a) - amt, Balance(r, b) = Balance(s, b) + amt,
           \A x \in Holders \ {a, b} : Balance(r, x) = Balance(s, x)
    PROVE  Balances(r) = [Balances(s) EXCEPT ![a] = @ - amt, ![b] = @ + amt]
<1> DEFINE x == Balances(s)
           y == Balances(r)
<1>1. /\ x \in [Holders -> Nat] /\ y \in [Holders -> Nat]
      /\ \A h \in Holders : x[h] = Balance(s, h) /\ y[h] = Balance(r, h)
  BY BalancesType
<1> HIDE DEF x, y
<1>2. y = [x EXCEPT ![a] = @ - amt, ![b] = @ + amt]
  BY <1>1
<1> QED BY <1>2 DEF x, y

\* The same for a balance that grows or shrinks.
LEMMA ChangeBalances ==
    ASSUME NEW s \in Ledgers, NEW r \in Ledgers, NEW a \in Holders, NEW amt \in Nat,
           \A x \in Holders \ {a} : Balance(r, x) = Balance(s, x)
    PROVE  /\ Balance(r, a) = Balance(s, a) + amt =>
                 Balances(r) = [Balances(s) EXCEPT ![a] = @ + amt]
           /\ Balance(r, a) = Balance(s, a) - amt =>
                 Balances(r) = [Balances(s) EXCEPT ![a] = @ - amt]
<1> DEFINE x == Balances(s)
           y == Balances(r)
<1>1. /\ x \in [Holders -> Nat] /\ y \in [Holders -> Nat]
      /\ \A h \in Holders : x[h] = Balance(s, h) /\ y[h] = Balance(r, h)
  BY BalancesType
<1> HIDE DEF x, y
<1>2. /\ Balance(r, a) = Balance(s, a) + amt => y = [x EXCEPT ![a] = @ + amt]
      /\ Balance(r, a) = Balance(s, a) - amt => y = [x EXCEPT ![a] = @ - amt]
  BY <1>1
<1> QED BY <1>2 DEF x, y

\* A result that is sound is in range, and is an error when it is no success.
LEMMA SoundResult ==
    ASSUME NEW r, Sound(r)
    PROVE  r \in Ledgers /\ (r.status # "ok" => r.status = "error")
BY DEF Sound, Books, Ledgers, Statuses

\* TransferExact: SendCoins between two accounts moves exactly its amount and
\* fails exactly when the sender's extended balance is below it.
THEOREM TransfersAreExact == Spec => TransferExact
<1> DEFINE Exact(from, to, c) ==
               Takes(from, Amount(c), [Balances(ledger) EXCEPT ![from] = @ - Amount(c),
                                                               ![to] = @ + Amount(c)])
<1>1. ASSUME Inv, NEW from \in Holders, NEW to \in Holders, NEW c \in Coins,
             from # to, CallSendCoins(from, to, c)
      PROVE  Exact(from, to, c)
  <2> DEFINE r == SendCoins(ledger, from, to, c)
             amt == c.int * ConversionFactor + c.ext
  <2>1. ledger \in Good /\ ledger' = r
    BY <1>1 DEF CallSendCoins, Call, Inv, Sound
  <2>2. c.int \in Nat /\ c.ext \in Nat
    BY CoinTypes
  <2>3. /\ Sound(r)
        /\ r.status = "ok" <=> Balance(ledger, from) >= amt
        /\ r.status = "ok" =>
              /\ Balance(r, from) = Balance(ledger, from) - amt
              /\ Balance(r, to) = Balance(ledger, to) + amt
              /\ \A a \in Holders \ {from, to} : Balance(r, a) = Balance(ledger, a)
    BY <2>1, <2>2, <1>1, SendCoinsBetween
  <2>4. amt \in Nat
    BY <2>2, FactorAssumption
  <2> HIDE DEF r, amt
  <2>5. ledger \in Ledgers /\ r \in Ledgers /\ (r.status # "ok" => r.status = "error")
    BY <2>1, <2>3, SoundResult DEF Good, Books
  <2>6. r.status = "ok" =>
           Balances(r) = [Balances(ledger) EXCEPT ![from] = @ - amt, ![to] = @ + amt]
    BY <2>3, <2>4, <2>5, <1>1, MoveBalances
  <2>7. Amount(c) = amt
    BY DEF Amount, amt
  <2> QED BY <2>1, <2>3, <2>5, <2>6, <2>7 DEF Takes
<1>2. Inv => [\A from, to \in Holders, c \in Coins :
                 from # to /\ CallSendCoins(from, to, c) => Exact(from, to, c)]_vars
  BY <1>1
<1> QED BY <1>2, Invariance, PTL DEF TransferExact

\* MintBurnExact: mints and burns, the keeper's and the EVM's, change one
\* balance by exactly their amount.
THEOREM MintsAndBurnsAreExact == Spec => MintBurnExact
<1>1. ASSUME Inv, NEW m \in Modules, NEW c \in Coins, CallMintCoins(m, c)
      PROVE  /\ ledger'.status = "ok"
             /\ Balances(ledger') = [Balances(ledger) EXCEPT ![m] = @ + Amount(c)]
  <2> DEFINE r == MintCoins(ledger, m, c)
             amt == c.int * ConversionFactor + c.ext
  <2>1. ledger \in Good /\ ledger' = r /\ m \in Holders
    BY <1>1, ModulesAssumption DEF CallMintCoins, Call, Inv, Sound
  <2>2. c.int \in Nat /\ c.ext \in Nat
    BY CoinTypes
  <2>3. /\ r \in Good /\ Balance(r, m) = Balance(ledger, m) + amt
        /\ \A a \in Holders \ {m} : Balance(r, a) = Balance(ledger, a)
    BY <2>1, <2>2, MintCoinsSound
  <2>4. amt \in Nat
    BY <2>2, FactorAssumption
  <2> HIDE DEF r, amt
  <2>5. ledger \in Ledgers /\ r \in Ledgers /\ r.status = "ok"
    BY <2>1, <2>3 DEF Good, Books
  <2>6. Balances(r) = [Balances(ledger) EXCEPT ![m] = @ + amt]
    BY <2>1, <2>3, <2>4, <2>5, ChangeBalances
  <2>7. Amount(c) = amt
    BY DEF Amount, amt
  <2> QED BY <2>1, <2>5, <2>6, <2>7
<1>2. ASSUME Inv, NEW m \in Modules, NEW c \in Coins, CallBurnCoins(m, c)
      PROVE  Takes(m, Amount(c), [Balances(ledger) EXCEPT ![m] = @ - Amount(c)])
  <2> DEFINE r == BurnCoins(ledger, m, c)
             amt == c.int * ConversionFactor + c.ext
  <2>1. ledger \in Good /\ ledger' = r /\ m \in Holders
    BY <1>2, ModulesAssumption DEF CallBurnCoins, Call, Inv, Sound
  <2>2. c.int \in Nat /\ c.ext \in Nat
    BY CoinTypes
  <2>3. /\ Sound(r) /\ (r.status = "ok" <=> Balance(ledger, m) >= amt)
        /\ r.status = "ok" => /\ Balance(r, m) = Balance(ledger, m) - amt
                              /\ \A a \in Holders \ {m} : Balance(r, a) = Balance(ledger, a)
    BY <2>1, <2>2, BurnCoinsSound
  <2>4. amt \in Nat
    BY <2>2, FactorAssumption
  <2> HIDE DEF r, amt
  <2>5. ledger \in Ledgers /\ r \in Ledgers /\ (r.status # "ok" => r.status = "error")
    BY <2>1, <2>3, SoundResult DEF Good, Books
  <2>6. r.status = "ok" => Balances(r) = [Balances(ledger) EXCEPT ![m] = @ - amt]
    BY <2>1, <2>3, <2>4, <2>5, ChangeBalances
  <2>7. Amount(c) = amt
    BY DEF Amount, amt
  <2> QED BY <2>1, <2>3, <2>5, <2>6, <2>7 DEF Takes
<1>3. ASSUME Inv, NEW a \in Holders, NEW amt \in 1..MaxExtended, CallMintToAccount(a, amt),
             a \notin Blocked
      PROVE  /\ ledger'.status = "ok"
             /\ Balances(ledger') = [Balances(ledger) EXCEPT ![a] = @ + amt]
  <2> DEFINE r == MintAmountToAccount(ledger, a, amt)
  <2>1. ledger \in Good /\ ledger' = r /\ a \in Accounts /\ a # Reserve /\ amt \in Nat
    BY <1>3, NAssumption, BoundsAssumption
       DEF CallMintToAccount, Call, Inv, Sound, Holders, Accounts, Reserve
  <2>2. /\ Sound(r) /\ r.status = "ok" /\ Balance(r, a) = Balance(ledger, a) + amt
        /\ \A b \in Holders \ {a} : Balance(r, b) = Balance(ledger, b)
    BY <2>1, <1>3, MintToAccountSound
  <2> HIDE DEF r
  <2>3. ledger \in Ledgers /\ r \in Ledgers
    BY <2>1, <2>2, SoundResult DEF Good, Books
  <2>4. Balances(r) = [Balances(ledger) EXCEPT ![a] = @ + amt]
    BY <2>1, <2>2, <2>3, ChangeBalances
  <2> QED BY <2>1, <2>2, <2>4
<1>4. ASSUME Inv, NEW a \in Holders, NEW amt \in 1..MaxExtended, CallBurnFromAccount(a, amt)
      PROVE  Takes(a, amt, [Balances(ledger) EXCEPT ![a] = @ - amt])
  <2> DEFINE r == BurnAmountFromAccount(ledger, a, amt)
  <2>1. ledger \in Good /\ ledger' = r /\ amt \in Nat
    BY <1>4, BoundsAssumption DEF CallBurnFromAccount, Call, Inv, Sound
  <2>2. /\ Sound(r) /\ (r.status = "ok" <=> Balance(ledger, a) >= amt)
        /\ r.status = "ok" => /\ Balance(r, a) = Balance(ledger, a) - amt
                              /\ \A b \in Holders \ {a} : Balance(r, b) = Balance(ledger, b)
    BY <2>1, BurnFromAccountSound
  <2> HIDE DEF r
  <2>3. ledger \in Ledgers /\ r \in Ledgers /\ (r.status # "ok" => r.status = "error")
    BY <2>1, <2>2, SoundResult DEF Good, Books
  <2>4. r.status = "ok" => Balances(r) = [Balances(ledger) EXCEPT ![a] = @ - amt]
    BY <2>1, <2>2, <2>3, ChangeBalances
  <2> QED BY <2>1, <2>2, <2>3, <2>4 DEF Takes
<1>5. Inv => [/\ \A m \in Modules, c \in Coins :
                    /\ CallMintCoins(m, c) =>
                          /\ ledger'.status = "ok"
                          /\ Balances(ledger') = [Balances(ledger) EXCEPT ![m] = @ + Amount(c)]
                    /\ CallBurnCoins(m, c) =>
                          Takes(m, Amount(c), [Balances(ledger) EXCEPT ![m] = @ - Amount(c)])
              /\ \A a \in Holders, amt \in 1..MaxExtended :
                    /\ CallMintToAccount(a, amt) /\ a \notin Blocked =>
                          /\ ledger'.status = "ok"
                          /\ Balances(ledger') = [Balances(ledger) EXCEPT ![a] = @ + amt]
                    /\ CallBurnFromAccount(a, amt) =>
                          Takes(a, amt, [Balances(ledger) EXCEPT ![a] = @ - amt])]_vars
  BY <1>1, <1>2, <1>3, <1>4
<1> QED BY <1>5, Invariance, PTL DEF MintBurnExact

(***************************************************************************)
(* The keeper implements ExtendedLedger.  LedgerStep(x, y) is one of its   *)
(* operations, or none, from the balances x to the balances y.             *)
(***************************************************************************)
Amts == 0..(MaxInteger * ConversionFactor + MaxExtended)

LedgerStep(x, y) ==
    \/ y = x
    \/ \E a, b \in Holders, amt \in Amts :
          x[a] >= amt /\ y = [x EXCEPT ![a] = @ - amt, ![b] = @ + amt]
    \/ \E a \in Holders, amt \in Amts :
          \/ y = [x EXCEPT ![a] = @ + amt]
          \/ x[a] >= amt /\ y = [x EXCEPT ![a] = @ - amt]

\* The amounts of one call.
LEMMA AmountsBound ==
    ASSUME NEW c \in Coins
    PROVE  /\ c.int * ConversionFactor + c.ext \in Amts
           /\ (c.int + c.ext \div ConversionFactor) * ConversionFactor \in Amts
<1>1. /\ c.int \in Nat /\ c.ext \in Nat /\ c.int <= MaxInteger /\ c.ext <= MaxExtended
      /\ MaxInteger \in Nat /\ MaxExtended \in Nat /\ ConversionFactor \in Nat
  BY BoundsAssumption, FactorAssumption DEF Coins
<1>2. /\ c.int * ConversionFactor <= MaxInteger * ConversionFactor
      /\ c.int * ConversionFactor \in Nat /\ MaxInteger * ConversionFactor \in Nat
  BY <1>1
<1> DEFINE w == c.ext \div ConversionFactor
           p == c.ext % ConversionFactor
<1>3. w \in Nat /\ p \in Fractions /\ c.ext = ConversionFactor * w + p
  BY <1>1, DivMod, Zenon
<1> HIDE DEF w, p
<1>4. /\ ConversionFactor * w \in Nat /\ ConversionFactor * w <= c.ext
      /\ (c.int + w) * ConversionFactor = c.int * ConversionFactor + ConversionFactor * w
  BY <1>1, <1>3 DEF Fractions
<1>5. c.int * ConversionFactor + c.ext \in Amts
  BY <1>1, <1>2 DEF Amts
<1>6. (c.int + w) * ConversionFactor \in Amts
  BY <1>1, <1>2, <1>4 DEF Amts
<1> QED BY <1>5, <1>6 DEF w

\* A transfer is a step of the abstract ledger.
LEMMA MoveStep ==
    ASSUME NEW s \in Ledgers, NEW r \in Ledgers, NEW a \in Holders, NEW b \in Holders, a # b,
           NEW amt \in Amts, Balance(s, a) >= amt,
           Balance(r, a) = Balance(s, a) - amt, Balance(r, b) = Balance(s, b) + amt,
           \A x \in Holders \ {a, b} : Balance(r, x) = Balance(s, x)
    PROVE  LedgerStep(Balances(s), Balances(r))
<1>1. amt \in Nat
  BY DEF Amts
<1>2. Balances(r) = [Balances(s) EXCEPT ![a] = @ - amt, ![b] = @ + amt]
  BY <1>1, MoveBalances
<1>3. Balances(s)[a] >= amt
  BY BalancesType
<1> QED BY <1>2, <1>3, ZenonT(30) DEF LedgerStep

\* So is a change of one balance.
LEMMA ChangeStep ==
    ASSUME NEW s \in Ledgers, NEW r \in Ledgers, NEW a \in Holders, NEW amt \in Amts,
           \/ Balance(r, a) = Balance(s, a) + amt
           \/ Balance(s, a) >= amt /\ Balance(r, a) = Balance(s, a) - amt,
           \A x \in Holders \ {a} : Balance(r, x) = Balance(s, x)
    PROVE  LedgerStep(Balances(s), Balances(r))
<1>1. amt \in Nat
  BY DEF Amts
<1>2. \/ Balances(r) = [Balances(s) EXCEPT ![a] = @ + amt]
      \/ Balance(s, a) >= amt /\ Balances(r) = [Balances(s) EXCEPT ![a] = @ - amt]
  BY <1>1, ChangeBalances
<1>3. Balances(s)[a] = Balance(s, a)
  BY BalancesType
<1> QED BY <1>2, <1>3 DEF LedgerStep

\* A successful SendCoins is an operation of the abstract ledger.
LEMMA SendCoinsStep ==
    ASSUME NEW s \in Good, NEW from \in Holders, NEW to \in Accounts, NEW c \in Coins,
           SendCoins(s, from, to, c).status = "ok"
    PROVE  LedgerStep(Balances(s), Balances(SendCoins(s, from, to, c)))
<1> DEFINE r == SendCoins(s, from, to, c)
           amt == c.int * ConversionFactor + c.ext
           n == c.int + c.ext \div ConversionFactor
<1>1. c.int \in Nat /\ c.ext \in Nat
  BY CoinTypes
<1>2. Sound(r)
  BY <1>1, SendCoinsSound
<1>3. s \in Ledgers /\ r \in Ledgers
  BY <1>2 DEF Sound, Good, Books
<1>4. amt \in Amts /\ n * ConversionFactor \in Amts
  BY AmountsBound
<1>5. CASE to = Reserve
  <2>1. /\ Balance(s, from) >= n * ConversionFactor
        /\ Balance(r, from) = Balance(s, from) - n * ConversionFactor
        /\ \A a \in Holders \ {from} : Balance(r, a) = Balance(s, a)
    BY <1>1, <1>5, SendCoinsReserve
  <2> HIDE DEF r, n
  <2> QED BY <2>1, <1>3, <1>4, ChangeStep DEF r
<1>6. CASE to = from
  <2>1. r = s
    BY <1>1, <1>6, SendCoinsSelf
  <2> QED BY <2>1 DEF LedgerStep
<1>7. CASE to # Reserve /\ to # from
  <2>1. to \in Holders
    BY <1>7, NAssumption DEF Accounts, Holders, Reserve
  <2>2. /\ Balance(s, from) >= amt
        /\ Balance(r, from) = Balance(s, from) - amt
        /\ Balance(r, to) = Balance(s, to) + amt
        /\ \A a \in Holders \ {from, to} : Balance(r, a) = Balance(s, a)
    BY <2>1, <1>1, <1>7, SendCoinsBetween
  <2> HIDE DEF r, amt
  <2> QED BY <2>1, <2>2, <1>3, <1>4, <1>7, MoveStep DEF r
<1> QED BY <1>5, <1>6, <1>7

\* Minting and burning are operations of the abstract ledger.
LEMMA MintBurnStep ==
    ASSUME NEW s \in Good, NEW m \in Holders, NEW c \in Coins
    PROVE  /\ LedgerStep(Balances(s), Balances(MintCoins(s, m, c)))
           /\ BurnCoins(s, m, c).status = "ok" =>
                 LedgerStep(Balances(s), Balances(BurnCoins(s, m, c)))
<1> DEFINE amt == c.int * ConversionFactor + c.ext
           q == MintCoins(s, m, c)
           r == BurnCoins(s, m, c)
<1>1. c.int \in Nat /\ c.ext \in Nat
  BY CoinTypes
<1>2. amt \in Amts
  BY AmountsBound
<1>3. /\ q \in Good
      /\ Balance(q, m) = Balance(s, m) + amt
      /\ \A a \in Holders \ {m} : Balance(q, a) = Balance(s, a)
  BY <1>1, MintCoinsSound
<1>4. /\ Sound(r)
      /\ r.status = "ok" <=> Balance(s, m) >= amt
      /\ r.status = "ok" => /\ Balance(r, m) = Balance(s, m) - amt
                            /\ \A a \in Holders \ {m} : Balance(r, a) = Balance(s, a)
  BY <1>1, BurnCoinsSound
<1>5. s \in Ledgers /\ q \in Ledgers /\ r \in Ledgers
  BY <1>3, <1>4 DEF Sound, Good, Books
<1> HIDE DEF amt, q, r
<1>6. LedgerStep(Balances(s), Balances(q))
  BY <1>2, <1>3, <1>5, ChangeStep
<1>7. r.status = "ok" => LedgerStep(Balances(s), Balances(r))
  BY <1>2, <1>4, <1>5, ChangeStep
<1> QED BY <1>6, <1>7 DEF q, r

\* So are the EVM's mint to an account and its burn from one.
LEMMA EvmStep ==
    ASSUME NEW s \in Good, NEW amt \in 1..MaxExtended
    PROVE  /\ \A a \in Accounts : MintAmountToAccount(s, a, amt).status = "ok" =>
                 LedgerStep(Balances(s), Balances(MintAmountToAccount(s, a, amt)))
           /\ \A a \in Holders : BurnAmountFromAccount(s, a, amt).status = "ok" =>
                 LedgerStep(Balances(s), Balances(BurnAmountFromAccount(s, a, amt)))
<1>1. amt \in Nat /\ amt \in Amts /\ amt % ConversionFactor \in Amts
  <2>1. /\ amt \in Nat /\ amt <= MaxExtended /\ MaxInteger \in Nat /\ MaxExtended \in Nat
    BY BoundsAssumption
  <2>2. MaxInteger * ConversionFactor \in Nat
    BY <2>1, FactorAssumption
  <2> DEFINE w == amt \div ConversionFactor
             p == amt % ConversionFactor
  <2>3. w \in Nat /\ p \in Fractions /\ amt = ConversionFactor * w + p
    BY <2>1, DivMod
  <2> HIDE DEF w, p
  <2>4. p \in Nat /\ p <= amt
    <3>1. ConversionFactor * w \in Nat /\ p \in Nat
      BY <2>3, FactorAssumption DEF Fractions
    <3> QED BY <2>3, <3>1
  <2>5. p \in Amts /\ amt \in Amts
    BY <2>1, <2>2, <2>4 DEF Amts
  <2> QED BY <2>1, <2>5 DEF p
<1>2. ASSUME NEW a \in Accounts, MintAmountToAccount(s, a, amt).status = "ok"
      PROVE  LedgerStep(Balances(s), Balances(MintAmountToAccount(s, a, amt)))
  <2> DEFINE r == MintAmountToAccount(s, a, amt)
             m == IF a = Reserve THEN EvmModule ELSE a
             x == IF a = Reserve THEN amt % ConversionFactor ELSE amt
  <2>1. /\ Sound(r)
        /\ Balance(r, m) = Balance(s, m) + x
        /\ \A b \in Holders \ {m} : Balance(r, b) = Balance(s, b)
    BY <1>1, <1>2, MintToAccountSound
  <2>2. m \in Holders /\ x \in Amts
    BY <1>1, ModulesAssumption, NAssumption DEF Accounts, Holders, Reserve
  <2>3. s \in Ledgers /\ r \in Ledgers
    BY <2>1 DEF Sound, Good, Books
  <2> HIDE DEF r, m, x
  <2> QED BY <2>1, <2>2, <2>3, ChangeStep DEF r
<1>3. ASSUME NEW a \in Holders, BurnAmountFromAccount(s, a, amt).status = "ok"
      PROVE  LedgerStep(Balances(s), Balances(BurnAmountFromAccount(s, a, amt)))
  <2> DEFINE r == BurnAmountFromAccount(s, a, amt)
  <2>1. /\ Sound(r)
        /\ Balance(s, a) >= amt
        /\ Balance(r, a) = Balance(s, a) - amt
        /\ \A b \in Holders \ {a} : Balance(r, b) = Balance(s, b)
    BY <1>1, <1>3, BurnFromAccountSound
  <2>2. s \in Ledgers /\ r \in Ledgers
    BY <2>1 DEF Sound, Good, Books
  <2> HIDE DEF r
  <2> QED BY <2>1, <2>2, <1>1, ChangeStep DEF r
<1> QED BY <1>2, <1>3

Current == IF ledger.status = "ok" THEN ledger ELSE committed

\* A keeper call is an operation of the abstract ledger, or its rollback.
LEMMA CallRefines ==
    ASSUME Inv, NEW r, Call(r),
           r.status = "ok" => LedgerStep(Balances(ledger), Balances(r))
    PROVE  [Promise!Next]_(Promise!vars)
<1>1. /\ Balances(Current) = Balances(ledger)
      /\ committed' = committed /\ ledger' = r
  BY DEF Call, Current
<1>2. CASE r.status # "ok"
  <2>1. Balances(Current)' = Balances(committed) /\ Balances(committed)' = Balances(committed)
    BY <1>1, <1>2 DEF Current, Balances, Balance
  <2> QED BY <2>1 DEF Promise!Next, Promise!Rollback, Current
<1>3. CASE r.status = "ok"
  <2> DEFINE x == Balances(ledger)
             y == Balances(r)
  <2>1. Balances(Current)' = y /\ Balances(committed)' = Balances(committed)
    BY <1>1, <1>3 DEF Current, Balances, Balance
  <2>2. LedgerStep(x, y)
    BY <1>3
  <2> HIDE DEF x, y
  <2>3. Balances(Current) = x
    BY <1>1 DEF x
  <2>4. CASE y = x
    BY <2>1, <2>3, <2>4 DEF Promise!vars, Current
  <2>5. CASE \E a, b \in Holders, amt \in Amts :
                x[a] >= amt /\ y = [x EXCEPT ![a] = @ - amt, ![b] = @ + amt]
    <3>1. \E a, b \in Holders, amt \in Amts : Promise!Transfer(a, b, amt)
      BY <2>1, <2>3, <2>5, Zenon DEF Promise!Transfer, Current
    <3> QED BY <3>1 DEF Promise!Next, Amts
  <2>6. CASE \E a \in Holders, amt \in Amts : y = [x EXCEPT ![a] = @ + amt]
    <3>1. \E a \in Holders, amt \in Amts : Promise!Mint(a, amt)
      BY <2>1, <2>3, <2>6, Zenon DEF Promise!Mint, Current
    <3> QED BY <3>1 DEF Promise!Next, Amts
  <2>7. CASE \E a \in Holders, amt \in Amts : x[a] >= amt /\ y = [x EXCEPT ![a] = @ - amt]
    <3>1. \E a \in Holders, amt \in Amts : Promise!Remove(a, amt)
      BY <2>1, <2>3, <2>7, Zenon DEF Promise!Remove, Current
    <3> QED BY <3>1 DEF Promise!Next, Amts
  <2> QED BY <2>2, <2>4, <2>5, <2>6, <2>7 DEF LedgerStep
<1> QED BY <1>2, <1>3

\* Every step of the keeper is one of the abstract ledger, or none.
LEMMA StepRefines ==
    ASSUME Inv, Inv', [Next]_vars
    PROVE  [Promise!Next]_(Promise!vars)
<1>1. ASSUME NEW r, Call(r) PROVE ledger \in Good
  BY <1>1 DEF Call, Inv, Sound
<1>2. Fail(ledger).status # "ok" \/ ledger \notin Good
  BY FailSound
<1>3. /\ Modules \subseteq Holders /\ Holders \subseteq Accounts /\ Reserve \in Accounts
  BY ModulesAssumption, NAssumption DEF Holders, Accounts, Reserve
<1>4. ASSUME NEW from \in Holders, NEW to \in Accounts, NEW c \in Coins,
             CallSendCoins(from, to, c) \/ CallSend(from, to, c)
      PROVE  [Promise!Next]_(Promise!vars)
  <2>1. ledger \in Good
    BY <1>1, <1>4 DEF CallSendCoins, CallSend
  <2>2. SendCoins(ledger, from, to, c).status = "ok" =>
           LedgerStep(Balances(ledger), Balances(SendCoins(ledger, from, to, c)))
    BY <2>1, SendCoinsStep
  <2>3. Send(ledger, from, to, c).status = "ok" =>
           LedgerStep(Balances(ledger), Balances(Send(ledger, from, to, c)))
    BY <2>1, <2>2, <1>2 DEF Send
  <2> QED BY <2>2, <2>3, <1>4, CallRefines DEF CallSendCoins, CallSend
<1>5. ASSUME NEW from \in Holders, NEW m \in Modules \union {Reserve}, NEW c \in Coins,
             CallSendToModule(from, m, c)
      PROVE  [Promise!Next]_(Promise!vars)
  <2> DEFINE r == SendCoinsFromAccountToModule(ledger, from, m, c)
  <2>1. ledger \in Good /\ Call(r) /\ m \in Accounts
    BY <1>1, <1>3, <1>5 DEF CallSendToModule
  <2>2. SendCoins(ledger, from, m, c).status = "ok" =>
           LedgerStep(Balances(ledger), Balances(SendCoins(ledger, from, m, c)))
    BY <2>1, SendCoinsStep
  <2>3. r.status = "ok" => LedgerStep(Balances(ledger), Balances(r))
    BY <2>1, <2>2, <1>2 DEF SendCoinsFromAccountToModule
  <2> HIDE DEF r
  <2> QED BY <2>1, <2>3, CallRefines
<1>6. ASSUME NEW m \in Modules \union {Reserve}, NEW to \in Accounts, NEW c \in Coins,
             CallSendFromModule(m, to, c)
      PROVE  [Promise!Next]_(Promise!vars)
  <2> DEFINE r == SendCoinsFromModuleToAccount(ledger, m, to, c)
  <2>1. ledger \in Good /\ Call(r)
    BY <1>1, <1>6 DEF CallSendFromModule
  <2>2. m # Reserve /\ SendCoins(ledger, m, to, c).status = "ok" =>
           LedgerStep(Balances(ledger), Balances(SendCoins(ledger, m, to, c)))
    BY <2>1, <1>3, SendCoinsStep
  <2>3. r.status = "ok" => LedgerStep(Balances(ledger), Balances(r))
    BY <2>1, <2>2, <1>2 DEF SendCoinsFromModuleToAccount
  <2> HIDE DEF r
  <2> QED BY <2>1, <2>3, CallRefines
<1>7. ASSUME NEW m \in Modules, NEW to \in Modules \union {Reserve}, NEW c \in Coins,
             CallSendBetweenModules(m, to, c)
      PROVE  [Promise!Next]_(Promise!vars)
  <2> DEFINE r == SendCoinsFromModuleToModule(ledger, m, to, c)
  <2>1. ledger \in Good /\ Call(r) /\ to \in Accounts /\ m \in Holders
    BY <1>1, <1>3, <1>7 DEF CallSendBetweenModules
  <2>2. SendCoins(ledger, m, to, c).status = "ok" =>
           LedgerStep(Balances(ledger), Balances(SendCoins(ledger, m, to, c)))
    BY <2>1, SendCoinsStep
  <2>3. r.status = "ok" => LedgerStep(Balances(ledger), Balances(r))
    BY <2>1, <2>2, <1>2 DEF SendCoinsFromModuleToModule
  <2> HIDE DEF r
  <2> QED BY <2>1, <2>3, CallRefines
<1>8. ASSUME NEW m \in Modules \union {Reserve}, NEW c \in Coins, CallMintCoins(m, c)
      PROVE  [Promise!Next]_(Promise!vars)
  <2> DEFINE r == MintCoins(ledger, m, c)
  <2>1. ledger \in Good /\ Call(r)
    BY <1>1, <1>8 DEF CallMintCoins
  <2>2. m \in Holders => LedgerStep(Balances(ledger), Balances(r))
    BY <2>1, MintBurnStep
  <2>3. m = Reserve => r.status # "ok"
    BY <2>1, <1>2 DEF MintCoins
  <2> HIDE DEF r
  <2>4. r.status = "ok" => LedgerStep(Balances(ledger), Balances(r))
    BY <2>2, <2>3, <1>3, SMTT(30)
  <2> QED BY <2>1, <2>4, CallRefines
<1>9. ASSUME NEW m \in Modules \union {Reserve}, NEW c \in Coins, CallBurnCoins(m, c)
      PROVE  [Promise!Next]_(Promise!vars)
  <2> DEFINE r == BurnCoins(ledger, m, c)
  <2>1. ledger \in Good /\ Call(r)
    BY <1>1, <1>9 DEF CallBurnCoins
  <2>2. m \in Holders /\ r.status = "ok" => LedgerStep(Balances(ledger), Balances(r))
    BY <2>1, MintBurnStep
  <2>3. m = Reserve => r.status # "ok"
    BY <2>1, <1>2 DEF BurnCoins
  <2> HIDE DEF r
  <2>4. r.status = "ok" => LedgerStep(Balances(ledger), Balances(r))
    BY <2>2, <2>3, <1>3
  <2> QED BY <2>1, <2>4, CallRefines
<1>10. ASSUME NEW a \in Accounts, NEW amt \in 1..MaxExtended, CallMintToAccount(a, amt)
       PROVE  [Promise!Next]_(Promise!vars)
  <2> DEFINE r == MintAmountToAccount(ledger, a, amt)
  <2>1. ledger \in Good /\ Call(r)
    BY <1>1, <1>10 DEF CallMintToAccount
  <2>2. r.status = "ok" => LedgerStep(Balances(ledger), Balances(r))
    BY <2>1, EvmStep
  <2> HIDE DEF r
  <2> QED BY <2>1, <2>2, CallRefines
<1>11. ASSUME NEW a \in Holders, NEW amt \in 1..MaxExtended, CallBurnFromAccount(a, amt)
       PROVE  [Promise!Next]_(Promise!vars)
  <2> DEFINE r == BurnAmountFromAccount(ledger, a, amt)
  <2>1. ledger \in Good /\ Call(r)
    BY <1>1, <1>11 DEF CallBurnFromAccount
  <2>2. r.status = "ok" => LedgerStep(Balances(ledger), Balances(r))
    BY <2>1, EvmStep
  <2> HIDE DEF r
  <2> QED BY <2>1, <2>2, CallRefines
<1>12. CASE Commit
  <2>1. /\ Balances(Current) = Balances(ledger) /\ Balances(Current)' = Balances(ledger)
        /\ Balances(committed)' = Balances(ledger)
    BY <1>12 DEF Commit, Current, Balances, Balance
  <2> QED BY <2>1 DEF Promise!Next, Promise!Commit, Current
<1>13. CASE Rollback
  <2>1. Balances(Current)' = Balances(committed) /\ Balances(committed)' = Balances(committed)
    BY <1>13 DEF Rollback, Current, Balances, Balance
  <2> QED BY <2>1 DEF Promise!Next, Promise!Rollback, Current
<1>14. CASE UNCHANGED vars
  <2>1. /\ Balances(Current)' = Balances(Current)
        /\ Balances(committed)' = Balances(committed)
    BY <1>14 DEF vars, Current, Balances, Balance
  <2> QED BY <2>1 DEF Promise!vars, Current
<1> QED BY <1>4, <1>5, <1>6, <1>7, <1>8, <1>9, <1>10, <1>11, <1>12, <1>13, <1>14 DEF Next

\* ImplementsLedger: to its callers the keeper is a ledger of extended
\* balances in which every transfer, mint and burn is exact and a failed
\* transaction leaves nothing behind.
THEOREM Implementation == Spec => ImplementsLedger
<1>1. Init => Promise!Init
  <2> SUFFICES ASSUME Init PROVE Promise!Init
    OBVIOUS
  <2>1. ledger \in Good /\ committed = ledger
    BY GenesisGood DEF Init
  <2>2. Balances(ledger) \in [Holders -> Nat]
    BY <2>1, BalancesType DEF Good, Books
  <2> QED BY <2>1, <2>2 DEF Promise!Init
<1>2. Inv /\ Inv' /\ [Next]_vars => [Promise!Next]_(Promise!vars)
  BY StepRefines
<1> QED BY <1>1, <1>2, Invariance, PTL DEF Spec, ImplementsLedger, Promise!Spec
=============================================================================
