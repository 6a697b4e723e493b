--------------------------- MODULE ExtendedLedger ---------------------------
(***************************************************************************)
(* What x/precisebank promises its callers: a ledger of extended balances  *)
(* in which a transfer moves exactly its amount, a mint or a burn changes  *)
(* exactly one balance by exactly its amount, and nothing a failed         *)
(* transaction did is left behind.                                         *)
(***************************************************************************)
EXTENDS Integers

CONSTANTS
    Holders,  \* the accounts
    Amounts   \* the amounts of one operation

VARIABLES
    bal,      \* extended balance of every account in the running transaction
    saved     \* the balances the transaction started from

vars == <<bal, saved>>

Init == bal \in [Holders -> Nat] /\ saved = bal

Transfer(a, b, amt) ==
    /\ bal[a] >= amt
    /\ bal' = [bal EXCEPT ![a] = @ - amt, ![b] = @ + amt]
    /\ UNCHANGED saved

Mint(a, amt) ==
    /\ bal' = [bal EXCEPT ![a] = @ + amt]
    /\ UNCHANGED saved

\* Coins that are burned, or given away to the reserve, leave the ledger.
Remove(a, amt) ==
    /\ bal[a] >= amt
    /\ bal' = [bal EXCEPT ![a] = @ - amt]
    /\ UNCHANGED saved

Commit == saved' = bal /\ UNCHANGED bal

Rollback == bal' = saved /\ UNCHANGED saved

Next ==
    \/ \E a, b \in Holders, amt \in Amounts : Transfer(a, b, amt)
    \/ \E a \in Holders, amt \in Amounts : Mint(a, amt) \/ Remove(a, amt)
    \/ Commit
    \/ Rollback

Spec == Init /\ [][Next]_vars
=============================================================================
