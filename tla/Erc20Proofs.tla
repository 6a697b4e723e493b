---------------------------- MODULE Erc20Proofs ----------------------------
(***************************************************************************)
(* Proofs that the coins of a contract stay backed by escrowed tokens and  *)
(* that the registry stays consistent, for any number of contracts,        *)
(* vouchers, users, tokens and packets.                                    *)
(***************************************************************************)
EXTENDS Erc20, SequenceTheorems, TLAPS

Balances == [Contracts -> [Holders -> Int]]

Banks == [token : Balances, coin : Balances, supply : [Contracts -> Int]]

Positive == Nat \ {0}

Packets ==
  [asset : Contracts, sender : Users, amount : Amounts,
   status : {"sent", "delivered", "refunded"}]

\* The types that the other invariants rest on.
TypeInv ==
  /\ bank \in Banks
  /\ packets \in Seq(Packets)

\* How much more than the circulating coins of c the module account has.
Backing(b, c) == b.token[c][Module] + b.coin[c][Module] - b.supply[c]

\* The balances d are at least as well backed as b.
NoLess(b, d) == \A c \in Contracts : Backing(d, c) >= Backing(b, c)

-----------------------------------------------------------------------------
(* The operations on balances.                                             *)

\* What sending coins, moving tokens, changing the supply and a call of transfer
\* do to the balances b, giving d.
CoinsSent(b, d, c, from, to, n) ==
  /\ d \in Banks /\ d.token = b.token /\ d.supply = b.supply
  /\ d.coin[c][from] = b.coin[c][from] - n
  /\ d.coin[c][to] = b.coin[c][to] + n
  /\ \A h \in Holders \ {from, to} : d.coin[c][h] = b.coin[c][h]
  /\ \A e \in Contracts \ {c} : d.coin[e] = b.coin[e]

TokensMoved(b, d, c, from, to, n, m) ==
  /\ d \in Banks /\ d.coin = b.coin /\ d.supply = b.supply
  /\ d.token[c][from] = b.token[c][from] - n
  /\ d.token[c][to] = b.token[c][to] + m
  /\ \A h \in Holders \ {from, to} : d.token[c][h] = b.token[c][h]
  /\ \A e \in Contracts \ {c} : d.token[e] = b.token[e]

SupplyChanged(b, d, c, h, n) ==
  /\ d \in Banks /\ d.token = b.token
  /\ d.supply[c] = b.supply[c] + n
  /\ \A e \in Contracts \ {c} : d.supply[e] = b.supply[e]
  /\ d.coin[c][h] = b.coin[c][h] + n
  /\ \A g \in Holders \ {h} : d.coin[c][g] = b.coin[c][g]
  /\ \A e \in Contracts \ {c} : d.coin[e] = b.coin[e]

Called(b, d, c, from, to, n) ==
  /\ d \in Banks /\ d.coin = b.coin /\ d.supply = b.supply
  /\ d.token[c][from] \in {b.token[c][from], b.token[c][from] - n}
  /\ d.token[c][to] \in {b.token[c][to], b.token[c][to] + n,
                         b.token[c][to] + n - 1}
  /\ d.token[c][to] # b.token[c][to] => d.token[c][from] = b.token[c][from] - n
  /\ \A h \in Holders \ {from, to} : d.token[c][h] = b.token[c][h]
  /\ \A e \in Contracts \ {c} : d.token[e] = b.token[e]

\* Every amount is positive, and the two module accounts are no users.
LEMMA Constants ==
    /\ \A n \in Amounts : n \in Positive
    /\ \A n \in Positive : n \in Int /\ n >= 1
    /\ Module \in Holders /\ Channel \in Holders /\ Module # Channel
    /\ \A u \in Users : u \in Holders /\ u # Module /\ u # Channel
  BY Erc20Assumption DEF Amounts, Positive, Holders

\* Sending coins changes two balances.
LEMMA SendCoinsFacts ==
    ASSUME NEW b \in Banks, NEW c \in Contracts, NEW n \in Int,
           NEW from \in Holders, NEW to \in Holders, from # to
    PROVE  CoinsSent(b, SendCoins(b, c, from, to, n), c, from, to, n)
  <1> DEFINE f == Moved(b.coin[c], from, to, n, n)
             d == SendCoins(b, c, from, to, n)
  <1>1. b.coin \in Balances /\ b.coin[c] \in [Holders -> Int]
    BY DEF Banks, Balances
  <1>2. /\ f \in [Holders -> Int]
        /\ f[from] = b.coin[c][from] - n /\ f[to] = b.coin[c][to] + n
        /\ \A h \in Holders \ {from, to} : f[h] = b.coin[c][h]
    BY <1>1 DEF Moved
  <1>3. d = [b EXCEPT !.coin = [b.coin EXCEPT ![c] = f]]
    BY DEF SendCoins, Banks, Balances
  <1> HIDE DEF f, d
  <1>4. /\ d \in Banks /\ d.token = b.token /\ d.supply = b.supply
        /\ d.coin = [b.coin EXCEPT ![c] = f]
    BY <1>1, <1>2, <1>3 DEF Banks, Balances
  <1>5. d.coin[c] = f /\ \A e \in Contracts \ {c} : d.coin[e] = b.coin[e]
    BY <1>1, <1>4 DEF Balances
  <1> QED
    BY <1>2, <1>4, <1>5 DEF d, CoinsSent

\* Moving tokens changes two balances.
LEMMA MoveTokensFacts ==
    ASSUME NEW b \in Banks, NEW c \in Contracts, NEW n \in Int, NEW m \in Int,
           NEW from \in Holders, NEW to \in Holders, from # to
    PROVE  TokensMoved(b, MoveTokens(b, c, from, to, n, m), c, from, to, n, m)
  <1> DEFINE f == Moved(b.token[c], from, to, n, m)
             d == MoveTokens(b, c, from, to, n, m)
  <1>1. b.token \in Balances /\ b.token[c] \in [Holders -> Int]
    BY DEF Banks, Balances
  <1>2. /\ f \in [Holders -> Int]
        /\ f[from] = b.token[c][from] - n /\ f[to] = b.token[c][to] + m
        /\ \A h \in Holders \ {from, to} : f[h] = b.token[c][h]
    BY <1>1 DEF Moved
  <1>3. d = [b EXCEPT !.token = [b.token EXCEPT ![c] = f]]
    BY DEF MoveTokens, Banks, Balances
  <1> HIDE DEF f, d
  <1>4. /\ d \in Banks /\ d.coin = b.coin /\ d.supply = b.supply
        /\ d.token = [b.token EXCEPT ![c] = f]
    BY <1>1, <1>2, <1>3 DEF Banks, Balances
  <1>5. d.token[c] = f /\ \A e \in Contracts \ {c} : d.token[e] = b.token[e]
    BY <1>1, <1>4 DEF Balances
  <1> QED
    BY <1>2, <1>4, <1>5 DEF d, TokensMoved

\* Minting and burning change the supply and one balance alike.
LEMMA SupplyFacts ==
    ASSUME NEW b \in Banks, NEW c \in Contracts, NEW n \in Int, NEW h \in Holders
    PROVE  SupplyChanged(b, ChangeSupply(b, c, h, n), c, h, n)
  <1> DEFINE d == ChangeSupply(b, c, h, n)
             f == [b.coin[c] EXCEPT ![h] = @ + n]
  <1>1. /\ b.token \in Balances /\ b.coin \in Balances
        /\ b.coin[c] \in [Holders -> Int] /\ b.supply \in [Contracts -> Int]
    BY DEF Banks, Balances
  <1>2. /\ f \in [Holders -> Int] /\ f[h] = b.coin[c][h] + n
        /\ \A g \in Holders \ {h} : f[g] = b.coin[c][g]
    BY <1>1
  <1>3. d = [token |-> b.token, coin |-> [b.coin EXCEPT ![c] = f],
             supply |-> [b.supply EXCEPT ![c] = @ + n]]
    BY DEF ChangeSupply
  <1> HIDE DEF d, f
  <1>4. /\ d \in Banks /\ d.token = b.token
        /\ d.coin[c] = f /\ \A e \in Contracts \ {c} : d.coin[e] = b.coin[e]
        /\ d.supply[c] = b.supply[c] + n
        /\ \A e \in Contracts \ {c} : d.supply[e] = b.supply[e]
    BY <1>1, <1>2, <1>3 DEF Banks, Balances
  <1> QED
    BY <1>2, <1>4 DEF d, SupplyChanged

\* A call of transfer moves nothing, or takes n and gives at least n - 1.
LEMMA TransferFacts ==
    ASSUME NEW b \in Banks, NEW c \in Contracts, NEW n \in Positive,
           NEW from \in Holders, NEW to \in Holders, from # to
    PROVE  Called(b, transfer(b, c, from, to, n).bank, c, from, to, n)
  <1> DEFINE d == transfer(b, c, from, to, n).bank
             m == IF behaviour[c] = "fee" THEN n - 1 ELSE n
  <1>1. n \in Int /\ m \in {n, n - 1} /\ m \in Int
    BY Constants
  <1>2. d = b \/ d = MoveTokens(b, c, from, to, n, m)
    BY DEF transfer, Fail
  <1> HIDE DEF d, m
  <1>3. TokensMoved(b, MoveTokens(b, c, from, to, n, m), c, from, to, n, m)
    BY <1>1, MoveTokensFacts
  <1>4. d = b \/ TokensMoved(b, d, c, from, to, n, m)
    BY <1>2, <1>3
  <1>5. b.token[c][to] \in Int /\ b.token[c][from] \in Int
    BY DEF Banks, Balances
  <1>6. CASE TokensMoved(b, d, c, from, to, n, m)
    <2>1. d.token[c][to] \in {b.token[c][to] + n, b.token[c][to] + n - 1}
      BY <1>1, <1>5, <1>6 DEF TokensMoved
    <2> QED
      BY <1>6, <2>1 DEF TokensMoved, Called, d
  <1>7. CASE d = b
    BY <1>7 DEF Called, d
  <1> QED
    BY <1>4, <1>6, <1>7

\* The backing is a number.
LEMMA BackingInt ==
    ASSUME NEW b \in Banks, NEW c \in Contracts
    PROVE  Backing(b, c) \in Int
  <1>1. b.token[c][Module] \in Int /\ b.coin[c][Module] \in Int /\ b.supply[c] \in Int
    BY Constants DEF Banks, Balances
  <1> QED
    BY <1>1 DEF Backing

\* Escrowing the tokens of a user and minting coins for them keeps the backing,
\* whatever the contract does.
LEMMA MintStep ==
    ASSUME NEW b \in Banks, NEW c \in Contracts, NEW n \in Positive,
           NEW receiver \in Users, NEW sender \in Users
    PROVE  LET r == convertERC20IntoCoinsForNativeToken(b, c, n, receiver, sender)
           IN r.ok => r.bank \in Banks /\ NoLess(b, r.bank)
  <1> DEFINE t == transfer(b, c, sender, Module, n)
             r == convertERC20IntoCoinsForNativeToken(b, c, n, receiver, sender)
  <1> SUFFICES ASSUME r.ok PROVE r.bank \in Banks /\ NoLess(b, r.bank)
    OBVIOUS
  <1>1. /\ sender \in Holders /\ receiver \in Holders /\ Module \in Holders
        /\ sender # Module /\ receiver # Module /\ n \in Int
    BY Constants
  <1>2. /\ t.bank \in Banks /\ t.bank.coin = b.coin /\ t.bank.supply = b.supply
        /\ \A e \in Contracts \ {c} : t.bank.token[e] = b.token[e]
    <2>1. Called(b, t.bank, c, sender, Module, n)
      BY <1>1, TransferFacts
    <2> QED
      BY <2>1 DEF Called
  <1>3. /\ t.bank.token[c][Module] = b.token[c][Module] + n
        /\ r.bank = MintTo(t.bank, c, receiver, n)
    BY DEF convertERC20IntoCoinsForNativeToken, MintIfEscrowed, ReceivedInFull, Ok, Fail
  <1> HIDE DEF t, r
  <1>4. /\ r.bank \in Banks /\ r.bank.token = t.bank.token
        /\ r.bank.supply[c] = b.supply[c] + n
        /\ \A e \in Contracts \ {c} : r.bank.supply[e] = b.supply[e]
        /\ \A e \in Contracts : r.bank.coin[e][Module] = b.coin[e][Module]
    BY <1>1, <1>2, <1>3, SupplyFacts DEF MintTo, SupplyChanged
  <1>5. \A e \in Contracts : /\ b.token[e][Module] \in Int /\ b.coin[e][Module] \in Int
                             /\ b.supply[e] \in Int
    BY <1>1 DEF Banks, Balances
  <1>6. ASSUME NEW e \in Contracts PROVE Backing(r.bank, e) = Backing(b, e)
    BY <1>1, <1>2, <1>3, <1>4, <1>5 DEF Backing
  <1>7. \A e \in Contracts : Backing(b, e) \in Int
    BY BackingInt
  <1> QED
    BY <1>4, <1>6, <1>7 DEF NoLess

\* The coins are where they were, burned for tokens, or with the module account.
Redeemed(b, d, c, n, receiver, sender) ==
  \/ d = b
  \/ /\ d.coin[c][sender] = b.coin[c][sender] - n
     /\ d.token[c][receiver] = b.token[c][receiver] + n
     /\ d.supply[c] = b.supply[c] - n
  \/ /\ d.coin[c][sender] = b.coin[c][sender] - n
     /\ d.coin[c][Module] = b.coin[c][Module] + n
     /\ d.supply[c] = b.supply[c]

\* Redeeming coins keeps the backing even if it fails half-way, and leaves
\* the coins with their sender, burned for tokens, or with the module account.
LEMMA RedeemStep ==
    ASSUME NEW b \in Banks, NEW c \in Contracts, NEW n \in Positive,
           NEW receiver \in Users, NEW sender \in Users
    PROVE  LET d == ConvertCoinNativeERC20(b, c, n, receiver, sender).bank
           IN d \in Banks /\ NoLess(b, d) /\ Redeemed(b, d, c, n, receiver, sender)
  <1> DEFINE s == Escrow(b, c, sender, n)
             t == transfer(s, c, Module, receiver, n)
             r == ConvertCoinNativeERC20(b, c, n, receiver, sender)
  <1>1. /\ sender \in Holders /\ receiver \in Holders /\ Module \in Holders
        /\ sender # Module /\ receiver # Module /\ n \in Int /\ n >= 1
    BY Constants
  <1>2. \A e \in Contracts : /\ b.token[e][Module] \in Int /\ b.coin[e][Module] \in Int
                             /\ b.supply[e] \in Int
    BY <1>1 DEF Banks, Balances
  <1>3. \A e \in Contracts : Backing(b, e) \in Int
    BY BackingInt
  <1>4. CASE c \notin code \/ b.coin[c][sender] < n
    <2>1. r.bank = b
      BY <1>4 DEF ConvertCoinNativeERC20, Fail
    <2> QED
      BY <1>3, <2>1 DEF NoLess, Redeemed
  <1>5. CASE ~(c \notin code \/ b.coin[c][sender] < n)
    <2>1. r = BurnIfReceived(b, t, c, n, receiver)
      BY <1>5 DEF ConvertCoinNativeERC20
    <2>2. /\ s \in Banks /\ s.token = b.token /\ s.supply = b.supply
          /\ s.coin[c][sender] = b.coin[c][sender] - n
          /\ s.coin[c][Module] = b.coin[c][Module] + n
          /\ \A e \in Contracts \ {c} : s.coin[e] = b.coin[e]
      BY <1>1, SendCoinsFacts DEF Escrow, CoinsSent
    <2> HIDE DEF s, r
    <2>3. /\ t.bank \in Banks /\ t.bank.coin = s.coin /\ t.bank.supply = b.supply
          /\ t.bank.token[c][Module] \in {b.token[c][Module], b.token[c][Module] - n}
          /\ t.bank.token[c][receiver] # b.token[c][receiver] =>
               t.bank.token[c][Module] = b.token[c][Module] - n
          /\ \A e \in Contracts \ {c} : t.bank.token[e] = b.token[e]
      <3>1. Called(s, t.bank, c, Module, receiver, n)
        BY <1>1, <2>2, TransferFacts
      <3> QED
        BY <1>1, <2>2, <3>1 DEF Called
    <2> HIDE DEF t
    <2>4. CASE t.ok /\ ReceivedInFull(b.token[c][receiver], t.bank.token[c][receiver], n)
      <3>1. r.bank = BurnCoins(t.bank, c, n)
        BY <2>1, <2>4 DEF BurnIfReceived, Ok
      <3>2. t.bank.token[c][receiver] = b.token[c][receiver] + n
        BY <2>4 DEF ReceivedInFull
      <3>3. -n \in Int /\ \A x \in Int : x + (-n) = x - n
        BY <1>1
      <3>4. SupplyChanged(t.bank, r.bank, c, Module, -n)
        BY <1>1, <2>3, <3>1, <3>3, SupplyFacts DEF BurnCoins
      <3>5. t.bank.supply[c] \in Int /\ t.bank.coin[c][Module] \in Int
        BY <1>1, <2>3 DEF Banks, Balances
      <3>6. /\ r.bank \in Banks /\ r.bank.token = t.bank.token
            /\ r.bank.supply[c] = b.supply[c] - n
            /\ r.bank.coin[c][Module] = s.coin[c][Module] - n
            /\ r.bank.coin[c][sender] = s.coin[c][sender]
            /\ \A e \in Contracts \ {c} : r.bank.supply[e] = b.supply[e]
            /\ \A e \in Contracts \ {c} : r.bank.coin[e] = s.coin[e]
        BY <1>1, <2>3, <3>1, <3>3, <3>4, <3>5 DEF SupplyChanged
      <3>7. b.token[c][receiver] \in Int
        BY <1>1 DEF Banks, Balances
      <3>8. t.bank.token[c][Module] = b.token[c][Module] - n
        BY <1>1, <2>3, <3>2, <3>7
      <3>9. ASSUME NEW e \in Contracts PROVE Backing(r.bank, e) = Backing(b, e)
        BY <1>1, <1>2, <2>2, <2>3, <3>6, <3>8 DEF Backing
      <3> QED
        BY <1>3, <2>2, <3>2, <3>6, <3>9 DEF NoLess, Redeemed, r
    <2>5. CASE ~(t.ok /\ ReceivedInFull(b.token[c][receiver], t.bank.token[c][receiver], n))
      <3>1. r.bank = t.bank
        BY <2>1, <2>5 DEF BurnIfReceived, Fail
      <3>2. ASSUME NEW e \in Contracts PROVE Backing(r.bank, e) >= Backing(b, e)
        BY <1>1, <1>2, <2>2, <2>3, <3>1 DEF Backing
      <3> QED
        BY <2>2, <2>3, <3>1, <3>2 DEF NoLess, Redeemed, r
    <2> QED
      BY <2>4, <2>5
  <1> QED
    BY <1>4, <1>5

-----------------------------------------------------------------------------
(* Coins stay backed.                                                      *)

\* A step that does not worsen the backing, nor revive a contract, keeps the
\* coins backed.
LEMMA BackedStep ==
    ASSUME bank \in Banks, bank' \in Banks, NoLess(bank, bank'), CirculatingBacked,
           Contracts \cap code' \subseteq code
    PROVE  CirculatingBacked'
  <1> SUFFICES ASSUME NEW c \in Contracts \cap code'
               PROVE  bank'.supply[c] <= bank'.token[c][Module] + bank'.coin[c][Module]
    BY DEF CirculatingBacked
  <1>1. bank.supply[c] <= bank.token[c][Module] + bank.coin[c][Module]
    BY DEF CirculatingBacked
  <1>2. Backing(bank', c) >= Backing(bank, c)
    BY DEF NoLess
  <1>3. \A b \in Banks : /\ b.token[c][Module] \in Int /\ b.coin[c][Module] \in Int
                         /\ b.supply[c] \in Int
    BY Constants DEF Banks, Balances
  <1> QED
    BY <1>1, <1>2, <1>3 DEF Backing

\* Unchanged balances are as well backed as before.
LEMMA SameBacking ==
    ASSUME NEW b \in Banks
    PROVE  NoLess(b, b)
  BY BackingInt DEF NoLess

\* The backing is no worse after two steps if it is no worse after each.
LEMMA BackingTransitive ==
    ASSUME NEW a \in Banks, NEW b \in Banks, NEW d \in Banks,
           NoLess(a, b), NoLess(b, d)
    PROVE  NoLess(a, d)
  <1> SUFFICES ASSUME NEW c \in Contracts PROVE Backing(d, c) >= Backing(a, c)
    BY DEF NoLess
  <1>1. Backing(b, c) >= Backing(a, c) /\ Backing(d, c) >= Backing(b, c)
    BY DEF NoLess
  <1>2. Backing(a, c) \in Int /\ Backing(b, c) \in Int /\ Backing(d, c) \in Int
    BY BackingInt
  <1> QED
    BY <1>1, <1>2

\* Coins that change hands between other accounts do not matter.
LEMMA SendBacking ==
    ASSUME NEW b \in Banks, NEW c \in Contracts, NEW n \in Int,
           NEW from \in Holders \ {Module}, NEW to \in Holders \ {Module}, from # to
    PROVE  /\ SendCoins(b, c, from, to, n) \in Banks
           /\ NoLess(b, SendCoins(b, c, from, to, n))
  <1> DEFINE d == SendCoins(b, c, from, to, n)
  <1>1. CoinsSent(b, d, c, from, to, n)
    BY SendCoinsFacts
  <1> HIDE DEF d
  <1>2. Module \in Holders \ {from, to}
    BY Constants
  <1>3. d \in Banks /\ d.token = b.token /\ d.supply = b.supply
    BY <1>1 DEF CoinsSent
  <1>4. \A e \in Contracts : d.coin[e][Module] = b.coin[e][Module]
    BY <1>1, <1>2 DEF CoinsSent
  <1>5. \A e \in Contracts : Backing(d, e) = Backing(b, e)
    BY <1>3, <1>4 DEF Backing
  <1>6. NoLess(b, b)
    BY SameBacking
  <1> QED
    BY <1>3, <1>5, <1>6 DEF NoLess, d

\* A user who calls transfer cannot worsen the backing.
LEMMA CallBacking ==
    ASSUME NEW b \in Banks, NEW c \in Contracts, NEW n \in Positive,
           NEW from \in Users, NEW to \in Users \cup {Module}, from # to
    PROVE  /\ transfer(b, c, from, to, n).bank \in Banks
           /\ NoLess(b, transfer(b, c, from, to, n).bank)
  <1> DEFINE d == transfer(b, c, from, to, n).bank
  <1>1. from \in Holders /\ to \in Holders /\ from # Module /\ n \in Int /\ n >= 1
    BY Constants
  <1>2. Called(b, d, c, from, to, n)
    BY <1>1, TransferFacts
  <1> HIDE DEF d
  <1>3. d \in Banks /\ d.coin = b.coin /\ d.supply = b.supply
    BY <1>2 DEF Called
  <1>4. \A e \in Contracts : /\ b.token[e][Module] \in Int /\ b.coin[e][Module] \in Int
                             /\ b.supply[e] \in Int
    BY Constants DEF Banks, Balances
  <1>5. d.token[c][Module] \in {b.token[c][Module], b.token[c][Module] + n,
                                b.token[c][Module] + n - 1}
    BY <1>1, <1>2, Constants DEF Called
  <1>6. \A e \in Contracts \ {c} : d.token[e] = b.token[e]
    BY <1>2 DEF Called
  <1>7. ASSUME NEW e \in Contracts PROVE Backing(d, e) >= Backing(b, e)
    BY <1>1, <1>3, <1>4, <1>5, <1>6 DEF Backing
  <1> QED
    BY <1>3, <1>7 DEF NoLess, d

-----------------------------------------------------------------------------
(* The inductive invariant.                                                *)

\* At the start there are no coins.
LEMMA InitInv ==
    ASSUME Init
    PROVE  TypeInv /\ CirculatingBacked
  <1> PICK u \in Users :
        bank = [token |-> [c \in Contracts |-> [Zero EXCEPT ![u] = Tokens]],
                coin |-> [c \in Contracts |-> Zero],
                supply |-> [c \in Contracts |-> 0]]
    BY DEF Init
  <1>1. Zero \in [Holders -> Int] /\ [Zero EXCEPT ![u] = Tokens] \in [Holders -> Int]
    <2>1. Tokens \in Int
      BY Erc20Assumption
    <2>2. Zero \in [Holders -> Int]
      BY DEF Zero
    <2> QED
      BY <2>1, <2>2
  <1>2. bank \in Banks
    BY <1>1 DEF Banks, Balances
  <1>3. packets \in Seq(Packets)
    BY DEF Init
  <1>4. Zero[Module] = 0 /\ [Zero EXCEPT ![u] = Tokens][Module] = 0
    <2>1. Module \in Holders /\ u # Module
      BY Constants
    <2> QED
      BY <2>1 DEF Zero
  <1>5. ASSUME NEW c \in Contracts
        PROVE  bank.supply[c] <= bank.token[c][Module] + bank.coin[c][Module]
    <2>1. bank.supply[c] = 0 /\ bank.token[c][Module] = 0 /\ bank.coin[c][Module] = 0
      BY <1>4
    <2> QED
      BY <2>1
  <1>6. CirculatingBacked
    BY <1>5, Zenon DEF CirculatingBacked
  <1> QED
    BY <1>2, <1>3, <1>6 DEF TypeInv

\* The messages and packets keep the types and do not worsen the backing.
LEMMA MessageStep ==
    ASSUME TypeInv, NEW c \in Contracts, NEW n \in Amounts, NEW u \in Users,
           Messages(c, n, u)
    PROVE  TypeInv' /\ NoLess(bank, bank') /\ UNCHANGED code
  <1>1. bank \in Banks /\ packets \in Seq(Packets) /\ NoLess(bank, bank)
    BY SameBacking DEF TypeInv
  <1>2. /\ u \in Holders \ {Module} /\ Channel \in Holders \ {Module} /\ u # Channel
        /\ n \in Positive /\ n \in Int
    BY Constants
  <1>3. CASE Transfer(c, n, u)
    <2> DEFINE short == n - bank.coin[c][u]
               conv == convertERC20IntoCoinsForNativeToken(bank, c, short, u, u)
               f == IF short <= 0 THEN Ok(bank)
                    ELSE IF MintingEnabled(c, reg.erc20Map) /\ c \in code
                    THEN conv ELSE Fail(bank)
    <2>1. /\ f.ok /\ bank' = SendCoins(f.bank, c, u, Channel, n)
          /\ packets' = Append(packets, [asset |-> c, sender |-> u, amount |-> n,
                                         status |-> "sent"])
          /\ UNCHANGED code
      BY <1>3 DEF Transfer
    <2>2. f.bank \in Banks /\ NoLess(bank, f.bank)
      <3>1. bank.coin[c][u] \in Int
        BY <1>1, <1>2 DEF Banks, Balances
      <3>2. CASE short <= 0
        BY <1>1, <3>2 DEF Ok
      <3>3. CASE ~(short <= 0)
        <4>1. short \in Positive
          BY <1>2, <3>1, <3>3 DEF Positive
        <4>2. f = conv
          BY <2>1, <3>3 DEF Fail
        <4> QED
          BY <1>1, <2>1, <4>1, <4>2, MintStep
      <3> QED
        BY <3>2, <3>3
    <2> HIDE DEF f
    <2>3. bank' \in Banks /\ NoLess(f.bank, bank')
      BY <1>2, <2>1, <2>2, SendBacking
    <2>4. packets' \in Seq(Packets)
      BY <1>1, <2>1 DEF Packets
    <2> QED
      BY <1>1, <2>1, <2>2, <2>3, <2>4, BackingTransitive DEF TypeInv
  <1>4. ASSUME bank' = Received(c, n, u).bank, UNCHANGED <<packets, code>>
        PROVE  TypeInv' /\ NoLess(bank, bank') /\ UNCHANGED code
    <2> DEFINE b == SendCoins(bank, c, Channel, u, n)
    <2>1. b \in Banks /\ NoLess(bank, b)
      BY <1>1, <1>2, SendBacking
    <2>2. bank' = b \/ bank' = ConvertCoinNativeERC20(b, c, n, u, u).bank
      BY <1>4 DEF Received, OnRecvPacket, Ok
    <2> HIDE DEF b
    <2>3. bank' \in Banks /\ NoLess(b, bank')
      BY <1>2, <2>1, <2>2, SameBacking, RedeemStep
    <2> QED
      BY <1>1, <1>4, <2>1, <2>3, BackingTransitive DEF TypeInv
  <1>5. CASE Receive(c, n, u)
    BY <1>4, <1>5 DEF Receive, Commit
  <1>6. CASE ReceiveV2(c, n, u)
    BY <1>4, <1>6 DEF ReceiveV2
  <1>7. ASSUME NEW v \in Users, ConvertERC20(c, n, v, u)
        PROVE  TypeInv' /\ NoLess(bank, bank') /\ UNCHANGED code
    <2>1. CASE DeleteSelfdestructed(c)
      BY <1>1, <2>1 DEF DeleteSelfdestructed, TypeInv
    <2>2. CASE ~DeleteSelfdestructed(c)
      <3> DEFINE r == convertERC20IntoCoinsForNativeToken(bank, c, n, v, u)
      <3>1. r.ok /\ bank' = r.bank /\ UNCHANGED <<packets, code>>
        BY <1>7, <2>2 DEF ConvertERC20, Commit
      <3>2. bank' \in Banks /\ NoLess(bank, bank')
        BY <1>1, <1>2, <3>1, MintStep
      <3> QED
        BY <1>1, <3>1, <3>2 DEF TypeInv
    <2> QED
      BY <2>1, <2>2
  <1>8. ASSUME NEW v \in Users, ConvertCoin(c, n, v, u)
        PROVE  TypeInv' /\ NoLess(bank, bank') /\ UNCHANGED code
    <2>1. CASE DeleteSelfdestructed(c)
      BY <1>1, <2>1 DEF DeleteSelfdestructed, TypeInv
    <2>2. CASE ~DeleteSelfdestructed(c)
      <3>1. /\ bank' = ConvertCoinNativeERC20(bank, c, n, v, u).bank
            /\ UNCHANGED <<packets, code>>
        BY <1>8, <2>2 DEF ConvertCoin, Commit
      <3>2. bank' \in Banks /\ NoLess(bank, bank')
        BY <1>1, <1>2, <3>1, RedeemStep
      <3> QED
        BY <1>1, <3>1, <3>2 DEF TypeInv
    <2> QED
      BY <2>1, <2>2
  <1>9. ASSUME NEW h \in Users \cup {Module}, CallTransfer(c, u, h, n)
        PROVE  TypeInv' /\ NoLess(bank, bank') /\ UNCHANGED code
    <2>1. u # h /\ bank' = transfer(bank, c, u, h, n).bank /\ UNCHANGED <<packets, code>>
      BY <1>9 DEF CallTransfer
    <2>2. bank' \in Banks /\ NoLess(bank, bank')
      BY <1>1, <1>2, <2>1, CallBacking
    <2> QED
      BY <1>1, <2>1, <2>2 DEF TypeInv
  <1> QED
    BY <1>3, <1>5, <1>6, <1>7, <1>8, <1>9 DEF Messages

\* So do the acknowledgements, timeouts and all other steps.
LEMMA NextInv ==
    ASSUME TypeInv, CirculatingBacked, [Next]_vars
    PROVE  TypeInv' /\ CirculatingBacked'
  <1>1. bank \in Banks /\ packets \in Seq(Packets) /\ NoLess(bank, bank)
    BY SameBacking DEF TypeInv
  <1>2. ASSUME UNCHANGED <<bank, packets>>, Contracts \cap code' \subseteq code
        PROVE  TypeInv' /\ CirculatingBacked'
    BY <1>1, <1>2, BackedStep DEF TypeInv
  <1>3. ASSUME NEW c \in Contracts, NEW n \in Amounts, NEW u \in Users, Messages(c, n, u)
        PROVE  TypeInv' /\ CirculatingBacked'
    BY <1>1, <1>3, MessageStep, BackedStep DEF TypeInv
  <1>4. ASSUME NEW i \in DOMAIN packets
        PROVE  /\ packets[i] \in Packets
               /\ [packets EXCEPT ![i].status = "delivered"] \in Seq(Packets)
               /\ [packets EXCEPT ![i].status = "refunded"] \in Seq(Packets)
    <2>1. packets[i] \in Packets
      BY <1>1
    <2>2. ASSUME NEW st \in {"delivered", "refunded"}
          PROVE  [packets EXCEPT ![i].status = st] \in Seq(Packets)
      <3>1. [packets[i] EXCEPT !.status = st] \in Packets
        BY <2>1 DEF Packets
      <3> QED
        BY <1>1, <3>1, ExceptSeq
    <2> QED
      BY <2>1, <2>2
  <1>5. ASSUME NEW i \in DOMAIN packets, Delivered(i)
        PROVE  TypeInv' /\ CirculatingBacked'
    <2>1. UNCHANGED <<bank, code>> /\ packets' \in Seq(Packets)
      BY <1>4, <1>5 DEF Delivered
    <2> QED
      BY <1>1, <2>1, BackedStep DEF TypeInv
  <1>6. ASSUME NEW i \in DOMAIN packets, Refund(i)
        PROVE  TypeInv' /\ CirculatingBacked'
    <2> DEFINE p == packets[i]
               b == SendCoins(bank, p.asset, Channel, p.sender, p.amount)
    <2>1. UNCHANGED code /\ packets' \in Seq(Packets)
      BY <1>4, <1>6 DEF Refund
    <2>2. /\ p.asset \in Contracts /\ p.sender \in Users /\ p.amount \in Positive
          /\ p.amount \in Int /\ p.sender \in Holders \ {Module}
          /\ Channel \in Holders \ {Module} /\ p.sender # Channel
      BY <1>4, Constants DEF Packets
    <2>3. b \in Banks /\ NoLess(bank, b)
      BY <1>1, <2>2, SendBacking
    <2>4. \/ bank' = b
          \/ bank' = ConvertCoinNativeERC20(b, p.asset, p.amount, p.sender, p.sender).bank
      BY <1>6 DEF Refund, ConvertCoinToERC20FromPacket
    <2> HIDE DEF b, p
    <2>5. bank' \in Banks /\ NoLess(b, bank')
      <3>1. CASE bank' = b
        BY <2>3, <3>1, SameBacking
      <3>2. CASE bank' = ConvertCoinNativeERC20(b, p.asset, p.amount, p.sender, p.sender).bank
        BY <2>2, <2>3, <3>2, RedeemStep, SMTT(60)
      <3> QED
        BY <2>4, <3>1, <3>2
    <2>6. NoLess(bank, bank')
      BY <1>1, <2>3, <2>5, BackingTransitive
    <2> QED
      BY <1>1, <2>1, <2>5, <2>6, BackedStep DEF TypeInv
  <1>7. CASE \E c \in Contracts : RegisterERC20(c) \/ Upgrade(c) \/ Selfdestruct(c)
    BY <1>2, <1>7 DEF RegisterERC20, Upgrade, Selfdestruct
  <1>8. CASE \E v \in Vouchers : RegisterERC20Extension(v)
    BY <1>2, <1>8, Erc20Assumption DEF RegisterERC20Extension
  <1>9. CASE (\E a \in Assets : ToggleConversion(a)) \/ UpdateParams
    BY <1>2, <1>9 DEF ToggleConversion, UpdateParams
  <1>10. CASE UNCHANGED vars
    BY <1>2, <1>10 DEF vars
  <1> QED
    BY <1>3, <1>5, <1>6, <1>7, <1>8, <1>9, <1>10 DEF Next

\* For any contracts, users and amounts, and whatever the contracts do within
\* the modelled behaviours, all circulating coins of a contract can be redeemed
\* from the tokens of the module account.
THEOREM CoinsAlwaysBacked == Spec => []CirculatingBacked
  <1>1. Init => TypeInv /\ CirculatingBacked
    BY InitInv
  <1>2. TypeInv /\ CirculatingBacked /\ [Next]_vars => TypeInv' /\ CirculatingBacked'
    BY NextInv
  <1> QED
    BY <1>1, <1>2, PTL DEF Spec

-----------------------------------------------------------------------------
(* The registry stays consistent.                                          *)

\* PairsConsistent, and what makes it inductive: contracts have pairs of their
\* own, vouchers pairs of the module.
RegInv ==
  /\ PairsConsistent
  /\ DOMAIN reg.pair \subseteq Assets
  /\ reg.pair \in [DOMAIN reg.pair -> [enabled : BOOLEAN, owner : {"external", "module"}]]
  /\ \A a \in DOMAIN reg.pair : reg.pair[a].owner = "external" <=> a \in Contracts
  /\ reg = [pair |-> reg.pair, erc20Map |-> reg.erc20Map, denomMap |-> reg.denomMap]

\* Registering an asset that has no pair.
LEMMA SetTokenInv ==
    ASSUME RegInv, NEW a \in Assets, a \notin DOMAIN reg.pair,
           NEW owner \in {"external", "module"}, owner = "external" <=> a \in Contracts,
           reg' = SetToken(reg, a, owner),
           precompiles' = IF owner = "module" THEN precompiles \cup {a} ELSE precompiles,
           metadata \subseteq metadata', owner = "external" => a \in metadata'
    PROVE  RegInv'
  <1>1. /\ DOMAIN reg'.pair = DOMAIN reg.pair \cup {a}
        /\ reg'.erc20Map = reg.erc20Map \cup {a} /\ reg'.denomMap = reg.denomMap \cup {a}
        /\ reg'.pair[a] = [enabled |-> TRUE, owner |-> owner]
        /\ \A i \in DOMAIN reg.pair : reg'.pair[i] = reg.pair[i]
        /\ reg' = [pair |-> reg'.pair, erc20Map |-> reg'.erc20Map, denomMap |-> reg'.denomMap]
        /\ reg'.pair = [i \in DOMAIN reg'.pair |-> reg'.pair[i]]
    BY DEF SetToken, NewTokenPair
  <1>2. reg'.pair \in [DOMAIN reg'.pair -> [enabled : BOOLEAN, owner : {"external", "module"}]]
    <2>1. \A i \in DOMAIN reg.pair :
            reg.pair[i] \in [enabled : BOOLEAN, owner : {"external", "module"}]
      BY DEF RegInv
    <2>2. reg'.pair[a] \in [enabled : BOOLEAN, owner : {"external", "module"}]
      BY <1>1
    <2>3. \A i \in DOMAIN reg'.pair :
            reg'.pair[i] \in [enabled : BOOLEAN, owner : {"external", "module"}]
      BY <1>1, <2>1, <2>2
    <2> QED
      BY <1>1, <2>3
  <1>3. PairsConsistent'
    BY <1>1 DEF RegInv, PairsConsistent
  <1> QED
    BY <1>1, <1>2, <1>3 DEF RegInv

\* Deleting the pair of a contract.
LEMMA DeleteInv ==
    ASSUME RegInv, NEW c \in Contracts, reg' = DeleteTokenPair(reg, c),
           UNCHANGED <<metadata, precompiles>>
    PROVE  RegInv'
  <1>1. /\ DOMAIN reg'.pair = DOMAIN reg.pair \ {c}
        /\ reg'.erc20Map = reg.erc20Map \ {c} /\ reg'.denomMap = reg.denomMap \ {c}
        /\ \A i \in DOMAIN reg'.pair : reg'.pair[i] = reg.pair[i]
        /\ reg' = [pair |-> reg'.pair, erc20Map |-> reg'.erc20Map, denomMap |-> reg'.denomMap]
        /\ reg'.pair = [i \in DOMAIN reg'.pair |-> reg'.pair[i]]
    BY DEF DeleteTokenPair
  <1>2. reg'.pair \in [DOMAIN reg'.pair -> [enabled : BOOLEAN, owner : {"external", "module"}]]
    BY <1>1 DEF RegInv
  <1>3. c \notin {a \in DOMAIN reg.pair : reg.pair[a].owner = "module"}
    BY DEF RegInv
  <1>4. PairsConsistent'
    BY <1>1, <1>3 DEF RegInv, PairsConsistent
  <1> QED
    BY <1>1, <1>2, <1>4 DEF RegInv

\* Toggling a pair changes neither the maps nor the owners.
LEMMA ToggleInv ==
    ASSUME RegInv, NEW a \in DOMAIN reg.pair, ToggleConversion(a)
    PROVE  RegInv'
  <1> DEFINE q == [reg.pair[a] EXCEPT !.enabled = ~@]
             f == [reg.pair EXCEPT ![a] = q]
  <1>1. q \in [enabled : BOOLEAN, owner : {"external", "module"}] /\ q.owner = reg.pair[a].owner
    BY DEF RegInv
  <1>2. /\ DOMAIN f = DOMAIN reg.pair
        /\ f \in [DOMAIN f -> [enabled : BOOLEAN, owner : {"external", "module"}]]
        /\ \A i \in DOMAIN reg.pair : f[i].owner = reg.pair[i].owner
    BY <1>1 DEF RegInv
  <1>3. reg' = [reg EXCEPT !.pair = f] /\ UNCHANGED <<metadata, precompiles>>
    BY DEF ToggleConversion
  <1> HIDE DEF q, f
  <1>4. /\ reg'.pair = f /\ reg'.erc20Map = reg.erc20Map /\ reg'.denomMap = reg.denomMap
        /\ reg' = [pair |-> reg'.pair, erc20Map |-> reg'.erc20Map, denomMap |-> reg'.denomMap]
    BY <1>3 DEF RegInv
  <1>5. PairsConsistent'
    BY <1>2, <1>3, <1>4 DEF RegInv, PairsConsistent
  <1> QED
    BY <1>2, <1>4, <1>5 DEF RegInv

\* Every step keeps the registry consistent.
LEMMA RegNext ==
    ASSUME RegInv, [Next]_vars
    PROVE  RegInv'
  <1>1. CASE UNCHANGED registryVars
    BY <1>1 DEF registryVars, RegInv, PairsConsistent
  <1>2. ASSUME NEW c \in Contracts, RegisterERC20(c) PROVE RegInv'
    BY <1>2, SetTokenInv DEF RegisterERC20, RegInv, PairsConsistent, Registered, Assets
  <1>3. ASSUME NEW v \in Vouchers, RegisterERC20Extension(v) PROVE RegInv'
    <2>1. v \in Assets /\ v \notin Contracts /\ v \notin DOMAIN reg.pair
      BY <1>3, Erc20Assumption DEF RegisterERC20Extension, RegInv, PairsConsistent, Assets
    <2> QED
      BY <1>3, <2>1, SetTokenInv DEF RegisterERC20Extension
  <1>4. ASSUME NEW a \in Assets, ToggleConversion(a) PROVE RegInv'
    BY <1>4, ToggleInv DEF ToggleConversion
  <1>5. CASE UpdateParams
    BY <1>5 DEF UpdateParams, RegInv, PairsConsistent
  <1>6. ASSUME NEW c \in Contracts, Upgrade(c) \/ Selfdestruct(c) PROVE UNCHANGED registryVars
    BY <1>6 DEF Upgrade, Selfdestruct
  <1>7. ASSUME NEW i \in DOMAIN packets, Delivered(i) \/ Refund(i) PROVE UNCHANGED registryVars
    BY <1>7 DEF Delivered, Refund
  <1>8. ASSUME NEW c \in Contracts, DeleteSelfdestructed(c) PROVE RegInv'
    BY <1>8, DeleteInv DEF DeleteSelfdestructed
  <1>9. ASSUME NEW c \in Contracts, NEW n \in Amounts, NEW u \in Users, Messages(c, n, u)
        PROVE  DeleteSelfdestructed(c) \/ UNCHANGED registryVars
    BY <1>9 DEF Messages, Transfer, Receive, ReceiveV2, ConvertERC20, ConvertCoin, CallTransfer
  <1>10. UNCHANGED vars => UNCHANGED registryVars
    BY DEF vars
  <1> QED
    BY <1>1, <1>2, <1>3, <1>4, <1>5, <1>6, <1>7, <1>8, <1>9, <1>10 DEF Next

\* The import of a genesis leaves the registry consistent.
LEMMA RegInit ==
    ASSUME Init
    PROVE  RegInv
  <1>0. PICK S \in SUBSET Assets : \E on \in SUBSET S : Imported(S, on)
    BY Zenon DEF Init
  <1>1. PICK on \in SUBSET S : Imported(S, on)
    BY <1>0, Zenon
  <1> DEFINE owner(a) == IF a \in Contracts THEN "external" ELSE "module"
             pair == [a \in S |-> [enabled |-> a \in on, owner |-> owner(a)]]
  <1>2. /\ reg = [pair |-> pair, erc20Map |-> S, denomMap |-> S]
        /\ metadata = S \cap Contracts /\ precompiles = S \cap Vouchers
    BY <1>1, Zenon DEF Imported
  <1>3. reg.pair = pair /\ reg.erc20Map = S /\ reg.denomMap = S /\ DOMAIN pair = S
    BY <1>2
  <1>4. pair \in [S -> [enabled : BOOLEAN, owner : {"external", "module"}]]
    OBVIOUS
  <1>5. \A a \in S : pair[a].owner = owner(a)
    OBVIOUS
  <1> HIDE DEF pair
  <1>6. \A a \in S : /\ pair[a].owner = "external" <=> a \in Contracts
                     /\ pair[a].owner = "module" <=> a \in Vouchers
    BY <1>5, Erc20Assumption DEF Assets
  <1>7. /\ S \cap Vouchers = {a \in S : pair[a].owner = "module"}
        /\ {a \in S : pair[a].owner = "external"} \subseteq S \cap Contracts
    BY <1>6, Zenon
  <1>8. PairsConsistent
    BY <1>2, <1>3, <1>7, Zenon DEF PairsConsistent
  <1> QED
    BY <1>2, <1>3, <1>4, <1>6, <1>8, Zenon DEF RegInv

\* SetToken, DeleteTokenPair and toggleConversion keep the pairs, the two maps,
\* the precompiles and the metadata consistent, for any number of assets.
THEOREM PairsAlwaysConsistent == Spec => []PairsConsistent
  <1>1. Init => RegInv
    BY RegInit
  <1>2. RegInv /\ [Next]_vars => RegInv'
    BY RegNext
  <1>3. RegInv => PairsConsistent
    BY DEF RegInv
  <1> QED
    BY <1>1, <1>2, <1>3, PTL DEF Spec
=============================================================================
