-------------------------------- MODULE Erc20 --------------------------------
(***************************************************************************)
(* The x/erc20 module: the registry of token pairs, the conversions        *)
(* between an ERC-20 contract and its coin, and what the IBC callbacks and *)
(* the overridden ICS-20 transfer of x/ibc/transfer do with them.          *)
(*                                                                         *)
(* A message that fails leaves no trace, so a failing message is no step.  *)
(* The callbacks that swallow the error of a conversion are different:     *)
(* what the conversion did before it failed stays.                         *)
(*                                                                         *)
(* The denom of a contract and the address of a voucher follow from the    *)
(* other (CreateDenom, GetIBCDenomAddress), so an asset stands for both    *)
(* and for the id of its pair.                                             *)
(***************************************************************************)
EXTENDS Integers, Sequences

CONSTANTS
  Contracts,   \* ERC-20 contracts deployed by users
  Vouchers,    \* IBC vouchers, to be served by a dynamic precompile
  Users,
  Module,      \* the account of x/erc20
  Channel,     \* the escrow account of the ICS-20 channel
  Tokens,      \* bound: the tokens that the first user of a contract has
  MaxPackets   \* bound: packets sent

Holders == Users \cup {Module, Channel}
Assets == Contracts \cup Vouchers
Amounts == 1 .. Tokens

\* How transfer of a contract may act: as it should; by reverting or returning
\* false; by giving the receiver less than it takes; or by moving the tokens
\* without a return value or an event.
Behaviours == {"honest", "fails", "fee", "mute"}

ASSUME Erc20Assumption ==
  /\ Contracts \cap Vouchers = {} /\ Module \notin Users /\ Channel \notin Users
  /\ Module # Channel /\ Tokens \in Nat /\ MaxPackets \in Nat

VARIABLES
  reg,          \* the pairs by id, and the addresses and denoms in the two maps
  metadata,     \* denoms with bank metadata
  enabled,      \* params.EnableErc20
  precompiles,  \* dynamic precompiles
  code,         \* addresses with a code hash
  behaviour,    \* of each contract
  bank,         \* token and coin balances, and the supply of the coins
  packets,      \* sent ICS-20 packets: the sender, the amount and the status
  abroad        \* coins that the other chain may send back

registryVars == <<reg, metadata, enabled, precompiles>>
vars == <<registryVars, code, behaviour, bank, packets, abroad>>

Zero == [h \in Holders |-> 0]

\* What InitGenesis leaves of a genesis with the pairs S, of which those in
\* "on" are enabled.  SetToken refuses an asset that has a pair, and the import
\* then ends without an error, but Validate has made sure that each asset
\* comes once and that a precompile's pair is enabled.  The metadata is in the
\* genesis of x/bank.
Imported(S, on) ==
  /\ reg = [pair |-> [a \in S |-> [enabled |-> a \in on,
                                  owner |-> IF a \in Contracts THEN "external" ELSE "module"]],
            erc20Map |-> S, denomMap |-> S]
  /\ metadata = S \cap Contracts
  /\ precompiles = S \cap Vouchers
  /\ code = Contracts \cup (S \cap Vouchers)

Init ==
  /\ \E S \in SUBSET Assets : \E on \in SUBSET S :
       S \cap Vouchers \subseteq on /\ Imported(S, on)
  /\ enabled \in BOOLEAN
  /\ behaviour = [c \in Contracts |-> "honest"]
  /\ \E u \in Users :
       bank = [token |-> [c \in Contracts |-> [Zero EXCEPT ![u] = Tokens]],
               coin |-> [c \in Contracts |-> Zero],
               supply |-> [c \in Contracts |-> 0]]
  /\ packets = <<>>
  /\ abroad = [c \in Contracts |-> 0]

-----------------------------------------------------------------------------
(* The registry.                                                           *)

NewTokenPair(owner) == [enabled |-> TRUE, owner |-> owner]

Registered(a) == a \in reg.erc20Map \/ a \in reg.denomMap

SetToken(r, a, owner) ==
  [pair |-> [i \in DOMAIN r.pair \cup {a} |->
               IF i = a THEN NewTokenPair(owner) ELSE r.pair[i]],
   erc20Map |-> r.erc20Map \cup {a}, denomMap |-> r.denomMap \cup {a}]

\* Mutant of DeleteTokenPair: the entry of the denom stays.
DeleteWithoutDenom(r, a) ==
  [pair |-> [i \in DOMAIN r.pair \ {a} |-> r.pair[i]],
   erc20Map |-> r.erc20Map \ {a}, denomMap |-> r.denomMap]

DeleteTokenPair(r, a) ==
  [pair |-> [i \in DOMAIN r.pair \ {a} |-> r.pair[i]],
   erc20Map |-> r.erc20Map \ {a}, denomMap |-> r.denomMap \ {a}]

\* RegisterERC20 by anyone, or by the authority, of a contract whose metadata
\* can be queried.  The metadata of a deleted pair stays and is in the way of
\* a new one.
RegisterERC20(c) ==
  /\ enabled /\ c \in code /\ c \notin metadata
  /\ ~Registered(c)
  /\ metadata' = metadata \cup {c}
  /\ reg' = SetToken(reg, c, "external")
  /\ UNCHANGED <<enabled, precompiles, code, behaviour, bank, packets, abroad>>

ToggleConversion(a) ==
  /\ enabled /\ Registered(a) /\ a \in DOMAIN reg.pair
  /\ reg' = [reg EXCEPT !.pair[a].enabled = ~@]
  /\ UNCHANGED <<metadata, enabled, precompiles, code, behaviour, bank, packets, abroad>>

UpdateParams ==
  /\ enabled' \in BOOLEAN
  /\ UNCHANGED <<reg, metadata, precompiles, code, behaviour, bank, packets, abroad>>

\* A voucher that arrives for the first time: RegisterERC20Extension.
RegisterERC20Extension(v) ==
  /\ enabled /\ v \notin reg.denomMap
  /\ v \notin code /\ ~Registered(v)
  /\ reg' = SetToken(reg, v, "module")
  /\ precompiles' = precompiles \cup {v}
  /\ code' = code \cup {v}
  /\ UNCHANGED <<metadata, enabled, behaviour, bank, packets, abroad>>

-----------------------------------------------------------------------------
(* Conversions: functions of the balances b that return the balances and   *)
(* whether they succeeded.  A failed one returns what it has done so far.  *)

Ok(b) == [ok |-> TRUE, bank |-> b]
Fail(b) == [ok |-> FALSE, bank |-> b]

Moved(f, from, to, taken, given) ==
  [f EXCEPT ![from] = @ - taken, ![to] = @ + given]

SendCoins(b, c, from, to, n) ==
  [b EXCEPT !.coin[c] = Moved(@, from, to, n, n)]

MoveTokens(b, c, from, to, taken, given) ==
  [b EXCEPT !.token[c] = Moved(@, from, to, taken, given)]

\* A call of transfer, between two accounts: the balances, and whether
\* the caller takes it for a success.
transfer(b, c, from, to, n) ==
  IF b.token[c][from] < n \/ behaviour[c] = "fails" THEN Fail(b)
  ELSE [ok |-> behaviour[c] # "mute",
        bank |-> MoveTokens(b, c, from, to, n,
                            IF behaviour[c] = "fee" THEN n - 1 ELSE n)]

\* Mutant of ReceivedInFull: the balance after the transfer is not compared.
NotCompared(before, after, n) == TRUE

ReceivedInFull(before, after, n) == after = before + n

ChangeSupply(b, c, holder, n) ==
  [token |-> b.token,
   coin |-> [b.coin EXCEPT ![c] = [b.coin[c] EXCEPT ![holder] = @ + n]],
   supply |-> [b.supply EXCEPT ![c] = @ + n]]

\* MintCoins and SendCoinsFromModuleToAccount.
MintTo(b, c, to, n) == ChangeSupply(b, c, to, n)

BurnCoins(b, c, n) == ChangeSupply(b, c, Module, -n)

MintIfEscrowed(b, t, c, n, receiver) ==
  IF /\ t.ok
     /\ ReceivedInFull(b.token[c][Module], t.bank.token[c][Module], n)
  THEN Ok(MintTo(t.bank, c, receiver, n)) ELSE Fail(t.bank)

convertERC20IntoCoinsForNativeToken(b, c, n, receiver, sender) ==
  MintIfEscrowed(b, transfer(b, c, sender, Module, n), c, n, receiver)

BurnIfReceived(b, t, c, n, receiver) ==
  IF /\ t.ok
     /\ ReceivedInFull(b.token[c][receiver], t.bank.token[c][receiver], n)
  THEN Ok(BurnCoins(t.bank, c, n)) ELSE Fail(t.bank)

Escrow(b, c, sender, n) == SendCoins(b, c, sender, Module, n)

\* A contract without code has no balance to query, and fails before the
\* coins are in escrow.
ConvertCoinNativeERC20(b, c, n, receiver, sender) ==
  IF c \notin code \/ b.coin[c][sender] < n THEN Fail(b)
  ELSE BurnIfReceived(b, transfer(Escrow(b, c, sender, n), c, Module, receiver, n),
                      c, n, receiver)

\* The receiver is a user, whom the bank does not block.
MintingEnabled(c, map) ==
  enabled /\ c \in map /\ c \in DOMAIN reg.pair /\ reg.pair[c].enabled

\* The pair of a contract without code is deleted, and the message succeeds.
DeleteSelfdestructed(c) ==
  /\ c \notin code
  /\ reg' = DeleteTokenPair(reg, c)
  /\ UNCHANGED <<metadata, enabled, precompiles, code, behaviour, bank, packets, abroad>>

Commit(r) ==
  /\ r.ok
  /\ bank' = r.bank

ConvertERC20(c, n, receiver, sender) ==
  /\ MintingEnabled(c, reg.erc20Map)
  /\ \/ DeleteSelfdestructed(c)
     \/ /\ c \in code
        /\ Commit(convertERC20IntoCoinsForNativeToken(bank, c, n, receiver, sender))
        /\ UNCHANGED <<registryVars, code, behaviour, packets, abroad>>

ConvertCoin(c, n, receiver, sender) ==
  /\ MintingEnabled(c, reg.denomMap)
  /\ \/ DeleteSelfdestructed(c)
     \/ /\ c \in code
        /\ Commit(ConvertCoinNativeERC20(bank, c, n, receiver, sender))
        /\ UNCHANGED <<registryVars, code, behaviour, packets, abroad>>

-----------------------------------------------------------------------------
(* ICS-20.  Relayers deliver acknowledgements, timeouts and packets in any *)
(* order.                                                                  *)

\* Transfer converts what the sender lacks in coins, and only that.  If the
\* contract has no code, the coins stay short and the message fails.
Transfer(c, n, sender) ==
  LET short == n - bank.coin[c][sender]
      funded == IF short <= 0 THEN Ok(bank)
                ELSE IF MintingEnabled(c, reg.erc20Map) /\ c \in code
                THEN convertERC20IntoCoinsForNativeToken(bank, c, short, sender, sender)
                ELSE Fail(bank)
  IN /\ Len(packets) < MaxPackets
     /\ funded.ok
     /\ bank' = SendCoins(funded.bank, c, sender, Channel, n)
     /\ packets' = Append(packets, [asset |-> c, sender |-> sender, amount |-> n,
                                     status |-> "sent"])
     /\ UNCHANGED <<registryVars, code, behaviour, abroad>>

\* A successful acknowledgement.
Delivered(i) ==
  /\ packets[i].status = "sent"
  /\ packets' = [packets EXCEPT ![i].status = "delivered"]
  /\ abroad' = [abroad EXCEPT ![packets[i].asset] = @ + packets[i].amount]
  /\ UNCHANGED <<registryVars, code, behaviour, bank>>

\* ConvertCoinToERC20FromPacket: also for a pair that is disabled, and with
\* the error of the conversion swallowed.
ConvertCoinToERC20FromPacket(b, c, n, sender) ==
  IF enabled /\ c \in reg.denomMap /\ c \in DOMAIN reg.pair
  THEN ConvertCoinNativeERC20(b, c, n, sender, sender).bank ELSE b

\* An error acknowledgement or a timeout: ICS-20 gives the coins back to the
\* sender, and OnAcknowledgementPacket or OnTimeoutPacket converts them.
Refund(i) ==
  LET p == packets[i]
  IN /\ p.status = "sent"
     /\ packets' = [packets EXCEPT ![i].status = "refunded"]
     /\ bank' = ConvertCoinToERC20FromPacket(
                  SendCoins(bank, p.asset, Channel, p.sender, p.amount),
                  p.asset, p.amount, p.sender)
     /\ UNCHANGED <<registryVars, code, behaviour, abroad>>

\* OnRecvPacket of the keeper, after ICS-20 gave the coins to the receiver.
OnRecvPacket(b, c, n, receiver) ==
  IF /\ enabled /\ c \in reg.denomMap /\ c \in DOMAIN reg.pair
     /\ reg.pair[c].enabled
  THEN ConvertCoinNativeERC20(b, c, n, receiver, receiver) ELSE Ok(b)

Received(c, n, receiver) ==
  OnRecvPacket(SendCoins(bank, c, Channel, receiver, n), c, n, receiver)

\* IBC v1 writes the keeper's acknowledgement; an error undoes the packet,
\* and the other chain keeps the coins.
Receive(c, n, receiver) ==
  /\ n <= abroad[c]
  /\ Commit(Received(c, n, receiver))
  /\ abroad' = [abroad EXCEPT ![c] = @ - n]
  /\ UNCHANGED <<registryVars, code, behaviour, packets>>

\* IBC v2 drops the keeper's acknowledgement, so the packet always succeeds.
ReceiveV2(c, n, receiver) ==
  /\ n <= abroad[c]
  /\ bank' = Received(c, n, receiver).bank
  /\ abroad' = [abroad EXCEPT ![c] = @ - n]
  /\ UNCHANGED <<registryVars, code, behaviour, packets>>

-----------------------------------------------------------------------------
(* The contracts: calls of transfer by users, an implementation that       *)
(* changes, and self-destruction.                                          *)

CallTransfer(c, from, to, n) ==
  /\ c \in code /\ from # to /\ bank.token[c][from] >= n
  /\ bank' = transfer(bank, c, from, to, n).bank
  /\ UNCHANGED <<registryVars, code, behaviour, packets, abroad>>

Upgrade(c) ==
  /\ c \in code
  /\ \E b \in Behaviours : behaviour' = [behaviour EXCEPT ![c] = b]
  /\ UNCHANGED <<registryVars, code, bank, packets, abroad>>

Selfdestruct(c) ==
  /\ c \in code
  /\ code' = code \ {c}
  /\ UNCHANGED <<registryVars, behaviour, bank, packets, abroad>>

Messages(c, n, u) ==
  \/ Transfer(c, n, u) \/ Receive(c, n, u) \/ ReceiveV2(c, n, u)
  \/ \E v \in Users : ConvertERC20(c, n, v, u) \/ ConvertCoin(c, n, v, u)
  \/ \E h \in Users \cup {Module} : CallTransfer(c, u, h, n)

Next ==
  \/ \E c \in Contracts : RegisterERC20(c) \/ Upgrade(c) \/ Selfdestruct(c)
  \/ \E v \in Vouchers : RegisterERC20Extension(v)
  \/ \E a \in Assets : ToggleConversion(a)
  \/ UpdateParams
  \/ \E c \in Contracts, n \in Amounts, u \in Users : Messages(c, n, u)
  \/ \E i \in DOMAIN packets : Delivered(i) \/ Refund(i)

Spec == Init /\ [][Next]_vars

-----------------------------------------------------------------------------
(* Properties.                                                             *)

\* All coins of a contract that are not stuck in the module account can be
\* redeemed: the module account has at least as many tokens.  The check of the
\* receiver's balance, the escrow before the transfer and the burn after it
\* keep this on all paths, those of the callbacks that swallow the error of a
\* conversion half-way included.
CirculatingBacked ==
  \A c \in Contracts \cap code :
    bank.supply[c] <= bank.token[c][Module] + bank.coin[c][Module]

\* The two maps and the pairs agree: each pair can be found by its address and
\* by its denom, no entry dangles after a deletion, only vouchers are served
\* by precompiles, and the metadata of a pair of a contract exists.
PairsConsistent ==
  /\ reg.erc20Map = DOMAIN reg.pair /\ reg.denomMap = DOMAIN reg.pair
  /\ precompiles = {a \in DOMAIN reg.pair : reg.pair[a].owner = "module"}
  /\ {a \in DOMAIN reg.pair : reg.pair[a].owner = "external"} \subseteq metadata

Refunded(i) == packets[i].status = "sent" /\ packets'[i].status = "refunded"

\* User u has n coins c more, or as many tokens, when the balances change
\* from b to d.
Returned(c, u, n, b, d) ==
  d.coin[c][u] = b.coin[c][u] + n \/ d.token[c][u] = b.token[c][u] + n

\* The comments of OnAcknowledgementPacket and OnTimeoutPacket: the coins of a
\* packet that comes back are converted, and if the conversion "fails for
\* whatever reason [...] the user receives the corresponding bank token from
\* the TokenPair instead. A user may then manually re-attempt the conversion".
RefundReturned ==
  [][\A i \in DOMAIN packets :
       Refunded(i) => Returned(packets[i].asset, packets[i].sender, packets[i].amount,
                               bank, bank')]_vars
=============================================================================
