----------------------------- MODULE PreciseBank -----------------------------
(***************************************************************************)
(* x/precisebank: an 18-decimal "extended" coin on top of an x/bank coin   *)
(* with fewer decimals.  An account's extended balance is                  *)
(*     bank balance * ConversionFactor + fractional balance.               *)
(* Fractional balances are kept in the module's own store and are backed   *)
(* by whole coins in the module account, the reserve; the part of the      *)
(* reserve that backs nothing yet is the remainder.                        *)
(*                                                                         *)
(* A keeper call works on the branched store of the running transaction    *)
(* ("ledger").  An error in the middle of a call leaves the branch as it   *)
(* is, half-written: it is the enclosing transaction that discards it.     *)
(***************************************************************************)
EXTENDS Integers, FunctionSums

CONSTANTS
    N,                 \* accounts are 1..N, the reserve is account 0
    Modules,           \* module accounts that may mint and burn
    EvmModule,         \* the x/vm module account
    Blocked,           \* x/bank's blocked addresses
    ConversionFactor,  \* extended units of one integer coin
    MaxGenesis,        \* bound: integer coins per account at genesis
    MaxSupply,         \* bound: integer coins in existence
    MaxInteger,        \* bound: integer-denom coins of one call
    MaxExtended,       \* bound: extended-denom coins of one call
    MaxCalls           \* bound: keeper calls of one transaction

Reserve  == 0
Holders  == 1..N
Accounts == 0..N

ASSUME NAssumption       == N \in Nat \ {0}
ASSUME FactorAssumption  == ConversionFactor \in Nat \ {0}
ASSUME ModulesAssumption == Modules \subseteq Holders /\ EvmModule \in Modules
ASSUME BlockedAssumption == Blocked \subseteq Accounts
ASSUME BoundsAssumption  ==
    {MaxGenesis, MaxSupply, MaxInteger, MaxExtended, MaxCalls} \subseteq Nat

VARIABLES
    ledger,     \* the store branch of the running transaction
    committed,  \* the store the transaction started from
    calls       \* keeper calls the transaction has made

vars == <<ledger, committed, calls>>

(***************************************************************************)
(* The ledger: x/bank's balances and supply of the integer coin, the       *)
(* fractional balances and the remainder, and how the last call ended.     *)
(* "panic" stands for the outcomes the code takes for corrupted state: a   *)
(* reserve that cannot pay (in a mint or a burn the code returns x/bank's  *)
(* error there; the model keeps it apart), a fractional amount out of      *)
(* range.  "donated" is a history field: whole coins that were sent to the *)
(* reserve outright.                                                       *)
(***************************************************************************)
Statuses == {"ok", "error", "panic"}

Fractions == 0..(ConversionFactor - 1)

Ledgers == [bank: [Accounts -> Nat], supply: Nat, frac: [Holders -> Fractions],
            rem: Fractions, donated: Nat, status: Statuses]

Coins == {c \in [int: 0..MaxInteger, ext: 0..MaxExtended] : c.int + c.ext > 0}

Fail(s)  == [s EXCEPT !.status = "error"]
Panic(s) == [s EXCEPT !.status = "panic"]

(***************************************************************************)
(* x/bank on the integer denomination.                                     *)
(***************************************************************************)
BankSend(s, from, to, n) ==
    IF s.status # "ok" THEN s
    ELSE IF s.bank[from] < n THEN Fail(s)
    ELSE [s EXCEPT !.bank = [s.bank EXCEPT ![from] = @ - n, ![to] = @ + n]]

BankMint(s, a, n) ==
    IF s.status # "ok" THEN s
    ELSE [s EXCEPT !.bank = [s.bank EXCEPT ![a] = @ + n], !.supply = @ + n]

BankBurn(s, a, n) ==
    IF s.status # "ok" THEN s
    ELSE IF s.bank[a] < n THEN Fail(s)
    ELSE [s EXCEPT !.bank = [s.bank EXCEPT ![a] = @ - n], !.supply = @ - n]

(***************************************************************************)
(* The module's own store.  A zero balance is a deleted entry.             *)
(***************************************************************************)
SetFractionalBalance(s, a, v) ==
    IF s.status # "ok" THEN s
    ELSE IF v \notin Fractions THEN Panic(s)
    ELSE [s EXCEPT !.frac[a] = v]

SetRemainderAmount(s, v) ==
    IF s.status # "ok" THEN s
    ELSE IF v \notin Fractions THEN Panic(s)
    ELSE [s EXCEPT !.rem = v]

\* Mutant: the carry is minted although the reserve already holds the coin.
CarryByMinting(s, to) == BankMint(s, to, 1)

\* Takes one whole coin out of the reserve; a reserve that is short is
\* "invalid state or logic".
CarryFromReserve(s, to) ==
    IF s.status = "ok" /\ s.bank[Reserve] < 1 THEN Panic(s)
    ELSE BankSend(s, Reserve, to, 1)

\* Mutant: a remainder that overflows burns nothing.
KeepReserve(s) == s

BurnFromReserve(s) ==
    IF s.status = "ok" /\ s.bank[Reserve] < 1 THEN Panic(s)
    ELSE BankBurn(s, Reserve, 1)

(***************************************************************************)
(* Transfers.                                                              *)
(***************************************************************************)
\* Mutant: the fraction is borrowed for when it is exactly used up.
BorrowAtZero(current, amt) ==
    LET new == current - amt
    IN  [bal |-> IF new <= 0 THEN new + ConversionFactor ELSE new,
         borrow |-> new <= 0]

subFromFractionalBalance(current, amt) ==
    LET new == current - amt
    IN  [bal |-> IF new < 0 THEN new + ConversionFactor ELSE new,
         borrow |-> new < 0]

\* Mutant: a fraction of exactly one coin is not carried.
CarryAboveFactor(current, amt) ==
    LET new == current + amt
    IN  [bal |-> IF new > ConversionFactor THEN new - ConversionFactor ELSE new,
         carry |-> new > ConversionFactor]

addToFractionalBalance(current, amt) ==
    LET new == current + amt
    IN  [bal |-> IF new >= ConversionFactor THEN new - ConversionFactor ELSE new,
         carry |-> new >= ConversionFactor]

\* Two distinct accounts, neither of them the reserve.
TransferExtended(s, from, to, amt) ==
    LET whole == amt \div ConversionFactor
        part  == amt % ConversionFactor
        sub   == subFromFractionalBalance(s.frac[from], part)
        add   == addToFractionalBalance(s.frac[to], part)
        s1    == BankSend(s, from, to,
                          IF sub.borrow /\ add.carry THEN whole + 1 ELSE whole)
        s2    == IF sub.borrow /\ ~add.carry THEN BankSend(s1, from, Reserve, 1) ELSE s1
        s3    == IF ~sub.borrow /\ add.carry THEN CarryFromReserve(s2, to) ELSE s2
        s4    == SetFractionalBalance(s3, from, sub.bal)
    IN  SetFractionalBalance(s4, to, add.bal)

\* Mutant: no early return for a transfer to oneself.
SendToSelf(s, from, to, amt) ==
    IF Reserve \in {from, to}
    THEN BankSend(s, from, to, amt \div ConversionFactor)
    ELSE TransferExtended(s, from, to, amt)

sendExtendedCoins(s, from, to, amt) ==
    IF Reserve \in {from, to}
    THEN BankSend(s, from, to, amt \div ConversionFactor)
    ELSE IF from = to THEN s
    ELSE TransferExtended(s, from, to, amt)

\* Coins of the integer denomination pass through to x/bank first.
SendCoins(s, from, to, c) ==
    LET r == sendExtendedCoins(BankSend(s, from, to, c.int), from, to, c.ext)
    IN  IF to = Reserve /\ r.status = "ok"
        THEN [r EXCEPT !.donated = @ + (r.bank[Reserve] - s.bank[Reserve])]
        ELSE r

SendCoinsFromAccountToModule(s, from, m, c) ==
    IF m = Reserve THEN Fail(s) ELSE SendCoins(s, from, m, c)

SendCoinsFromModuleToAccount(s, m, to, c) ==
    IF m = Reserve \/ to \in Blocked THEN Fail(s) ELSE SendCoins(s, m, to, c)

SendCoinsFromModuleToModule(s, m, to, c) ==
    IF to = Reserve THEN Fail(s) ELSE SendCoins(s, m, to, c)

\* The handler of MsgSend, with sending enabled for both denominations.
Send(s, from, to, c) ==
    IF to \in Blocked THEN Fail(s) ELSE SendCoins(s, from, to, c)

(***************************************************************************)
(* Minting and burning.                                                    *)
(***************************************************************************)
mintExtendedCoin(s, m, amt) ==
    LET whole    == amt \div ConversionFactor
        part     == amt % ConversionFactor
        newFrac  == s.frac[m] + part
        newRem   == s.rem - part
        carry    == newFrac >= ConversionFactor
        negative == newRem < 0
        s1 == IF carry /\ ~negative THEN CarryFromReserve(s, m) ELSE s
        s2 == BankMint(s1, m, IF carry /\ negative THEN whole + 1 ELSE whole)
        s3 == SetFractionalBalance(s2, m,
                  IF carry THEN newFrac - ConversionFactor ELSE newFrac)
        s4 == IF negative /\ ~carry THEN BankMint(s3, Reserve, 1) ELSE s3
    IN  SetRemainderAmount(s4, IF negative THEN newRem + ConversionFactor ELSE newRem)

\* Mutant: the coins that should pass through to x/bank are forgotten.
MintExtendedOnly(s, m, c) ==
    IF m = Reserve THEN Fail(s) ELSE mintExtendedCoin(s, m, c.ext)

MintCoins(s, m, c) ==
    IF m = Reserve THEN Fail(s)
    ELSE mintExtendedCoin(BankMint(s, m, c.int), m, c.ext)

burnExtendedCoin(s, m, amt) ==
    LET whole    == amt \div ConversionFactor
        part     == amt % ConversionFactor
        newFrac  == s.frac[m] - part
        newRem   == s.rem + part
        borrow   == newFrac < 0
        overflow == newRem >= ConversionFactor
        s1 == IF borrow /\ ~overflow THEN BankSend(s, m, Reserve, 1) ELSE s
        s2 == IF ~borrow /\ overflow THEN BurnFromReserve(s1) ELSE s1
        s3 == BankBurn(s2, m, IF borrow /\ overflow THEN whole + 1 ELSE whole)
        s4 == SetFractionalBalance(s3, m,
                  IF borrow THEN newFrac + ConversionFactor ELSE newFrac)
    IN  SetRemainderAmount(s4, IF overflow THEN newRem - ConversionFactor ELSE newRem)

BurnCoins(s, m, c) ==
    IF m = Reserve THEN Fail(s)
    ELSE burnExtendedCoin(BankBurn(s, m, c.int), m, c.ext)

(***************************************************************************)
(* x/vm's bank wrapper: how the EVM changes an account's balance, always   *)
(* through its own module account.                                         *)
(***************************************************************************)
Extended(amt) == [int |-> 0, ext |-> amt]

MintAmountToAccount(s, a, amt) ==
    LET r == MintCoins(s, EvmModule, Extended(amt))
    IN  IF r.status # "ok" THEN r
        ELSE SendCoinsFromModuleToAccount(r, EvmModule, a, Extended(amt))

BurnAmountFromAccount(s, a, amt) ==
    LET r == SendCoinsFromAccountToModule(s, a, EvmModule, Extended(amt))
    IN  IF r.status # "ok" THEN r
        ELSE BurnCoins(r, EvmModule, Extended(amt))

(***************************************************************************)
(* Genesis.  Validate wants the fractions and the remainder to make whole  *)
(* coins; InitGenesis wants exactly those coins in the reserve, except for *)
(* the default (empty) genesis, where any reserve is let through.          *)
(***************************************************************************)
SumFractions(s) == SumTo(s.frac, N)

EmptyGenesis(s) == s.rem = 0 /\ \A a \in Holders : s.frac[a] = 0

TotalAmountWithRemainder(s) == SumFractions(s) + s.rem

InitGenesisAccepts(s) ==
    /\ TotalAmountWithRemainder(s) % ConversionFactor = 0
    /\ \/ TotalAmountWithRemainder(s) = s.bank[Reserve] * ConversionFactor
       \/ EmptyGenesis(s)

Genesis ==
    {s \in [bank: [Accounts -> 0..MaxGenesis], supply: 0..MaxSupply,
            frac: [Holders -> Fractions], rem: Fractions,
            donated: 0..MaxGenesis, status: {"ok"}] :
        /\ s.supply = SumTo(s.bank, N) + s.bank[Reserve]
        /\ InitGenesisAccepts(s)
        /\ s.donated = IF EmptyGenesis(s) THEN s.bank[Reserve] ELSE 0}

(***************************************************************************)
(* The specification: transactions of keeper calls.                        *)
(***************************************************************************)
Init ==
    /\ ledger \in Genesis
    /\ committed = ledger
    /\ calls = 0

Call(r) ==
    /\ ledger.status = "ok"
    /\ calls < MaxCalls
    /\ ledger' = r
    /\ calls' = calls + 1
    /\ UNCHANGED committed

CallSendCoins(from, to, c) == Call(SendCoins(ledger, from, to, c))

CallSendToModule(from, m, c) == Call(SendCoinsFromAccountToModule(ledger, from, m, c))

CallSendFromModule(m, to, c) == Call(SendCoinsFromModuleToAccount(ledger, m, to, c))

CallSendBetweenModules(m, to, c) == Call(SendCoinsFromModuleToModule(ledger, m, to, c))

CallSend(from, to, c) == Call(Send(ledger, from, to, c))

\* The supply bound stops only the model: x/bank mints without limit.
Mintable(c) == ledger.supply + c.int + c.ext \div ConversionFactor < MaxSupply

CallMintCoins(m, c) == Mintable(c) /\ Call(MintCoins(ledger, m, c))

CallBurnCoins(m, c) == Call(BurnCoins(ledger, m, c))

CallMintToAccount(a, amt) ==
    Mintable(Extended(amt)) /\ Call(MintAmountToAccount(ledger, a, amt))

CallBurnFromAccount(a, amt) == Call(BurnAmountFromAccount(ledger, a, amt))

\* Mutant: the branch is written back whatever the calls returned.
CommitAnyway ==
    /\ committed' = ledger
    /\ calls' = 0
    /\ UNCHANGED ledger

\* The transaction succeeds: its branch is written back.
Commit ==
    /\ ledger.status = "ok"
    /\ committed' = ledger
    /\ calls' = 0
    /\ UNCHANGED ledger

\* Mutant: the error is dropped and the half-written branch kept.
KeepBranch ==
    /\ ledger' = [ledger EXCEPT !.status = "ok"]
    /\ calls' = 0
    /\ UNCHANGED committed

\* The transaction fails, or its caller reverts it: its branch is dropped.
Rollback ==
    /\ ledger' = committed
    /\ calls' = 0
    /\ UNCHANGED committed

Next ==
    \/ \E from \in Holders, to \in Accounts, c \in Coins :
          CallSendCoins(from, to, c) \/ CallSend(from, to, c)
    \/ \E from \in Holders, m \in Modules \union {Reserve}, c \in Coins :
          CallSendToModule(from, m, c)
    \/ \E m \in Modules \union {Reserve}, to \in Accounts, c \in Coins :
          CallSendFromModule(m, to, c)
    \/ \E m \in Modules, to \in Modules \union {Reserve}, c \in Coins :
          CallSendBetweenModules(m, to, c)
    \/ \E m \in Modules \union {Reserve}, c \in Coins :
          CallMintCoins(m, c) \/ CallBurnCoins(m, c)
    \/ \E a \in Accounts, amt \in 1..MaxExtended : CallMintToAccount(a, amt)
    \/ \E a \in Holders, amt \in 1..MaxExtended : CallBurnFromAccount(a, amt)
    \/ Commit
    \/ Rollback

Spec == Init /\ [][Next]_vars

(***************************************************************************)
(* Properties.                                                             *)
(***************************************************************************)

\* Type invariant: balances are naturals, fractions and the remainder stay
\* below one coin, and only a successful branch is ever written back.
TypeOK ==
    /\ ledger \in Ledgers
    /\ committed \in Ledgers
    /\ committed.status = "ok"
    /\ calls \in 0..MaxCalls

Backed(s) ==
    SumFractions(s) + s.rem + ConversionFactor * s.donated
        = ConversionFactor * s.bank[Reserve]

\* The reserve holds exactly the coins that the fractional balances and the
\* remainder amount to, plus what was sent to it outright.  It holds after
\* every successful keeper call of a transaction; a call that failed halfway
\* (a burn that moved its borrowed coin and then found no balance) breaks it,
\* and that branch is never written back.
ReserveBacksFractions ==
    /\ Backed(committed)
    /\ ledger.status = "ok" => Backed(ledger)

\* No sequence of calls reaches the panic of sendExtendedCoins ("Reserve
\* should always have sufficient balance to carry fractional coins"), a
\* reserve that cannot pay in a mint or a burn, or a fractional amount that
\* the setters reject.
ReserveNeverShort == ledger.status # "panic"

Balance(s, a) == s.bank[a] * ConversionFactor + s.frac[a]

Balances(s) == [a \in Holders |-> Balance(s, a)]

Amount(c) == c.int * ConversionFactor + c.ext

\* Every integer coin in existence is accounted for: the extended balances,
\* the remainder and the coins given to the reserve add up to the supply.
SupplyAccounted(s) ==
    SumTo(Balances(s), N) + s.rem + ConversionFactor * s.donated
        = ConversionFactor * s.supply

\* SupplyAccounted of the store, and of the branch after successful calls.
SupplyExact ==
    /\ SupplyAccounted(committed)
    /\ ledger.status = "ok" => SupplyAccounted(ledger)

\* A chain can be restarted from its exported state: ExportGenesis writes the
\* fractions and the remainder, and InitGenesis accepts them unless whole
\* coins were given to the reserve.
ExportReimports == committed.donated = 0 => InitGenesisAccepts(committed)

\* The result of a call that takes x, and only fails for want of coins.
Takes(a, x, balances) ==
    IF Balance(ledger, a) >= x
    THEN ledger'.status = "ok" /\ Balances(ledger') = balances
    ELSE ledger'.status = "error"

\* A transfer between two accounts moves exactly its amount, and fails exactly
\* when the sender's extended balance is below it, whichever of the borrow
\* and carry cases it takes and however the coins are split between the two
\* denominations.
TransferExact ==
    [][\A from, to \in Holders, c \in Coins :
          from # to /\ CallSendCoins(from, to, c) =>
             Takes(from, Amount(c), [Balances(ledger) EXCEPT ![from] = @ - Amount(c),
                                                             ![to] = @ + Amount(c)])]_vars

\* So do the burns; the mints never fail and add exactly their amount: the
\* keeper's own, and those the EVM uses to set an account's balance, which go
\* through its module account and leave it as it was.
MintBurnExact ==
    [][/\ \A m \in Modules, c \in Coins :
             /\ CallMintCoins(m, c) =>
                   /\ ledger'.status = "ok"
                   /\ Balances(ledger') = [Balances(ledger) EXCEPT ![m] = @ + Amount(c)]
             /\ CallBurnCoins(m, c) =>
                   Takes(m, Amount(c), [Balances(ledger) EXCEPT ![m] = @ - Amount(c)])
       /\ \A a \in Holders, amt \in 1..MaxExtended :
             /\ CallMintToAccount(a, amt) /\ a \notin Blocked =>
                   /\ ledger'.status = "ok"
                   /\ Balances(ledger') = [Balances(ledger) EXCEPT ![a] = @ + amt]
             /\ CallBurnFromAccount(a, amt) =>
                   Takes(a, amt, [Balances(ledger) EXCEPT ![a] = @ - amt])]_vars

\* The ledger of extended balances, seen by the callers of the keeper.  A
\* call that failed counts as rolled back from the moment it fails.
Promise == INSTANCE ExtendedLedger WITH
    Amounts <- 0..(MaxInteger * ConversionFactor + MaxExtended),
    bal     <- Balances(IF ledger.status = "ok" THEN ledger ELSE committed),
    saved   <- Balances(committed)

\* The keeper implements the ledger of extended balances.
ImplementsLedger == Promise!Spec
=============================================================================
