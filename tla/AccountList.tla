---------------------------- MODULE AccountList ----------------------------
(***************************************************************************)
(* The list of an account as the pool sees it: a set of transactions, each *)
(* operation taking out exactly the transactions that NonceList names.     *)
(***************************************************************************)
EXTENDS NonceList

CONSTANTS
  Txs,        \* transactions of one account: [nonce, price, cost, gas]
  PriceBump,  \* percent that a replacement has to add
  Limits      \* nonces, costs, gas limits and lengths that callers pass

VARIABLES
  strict,  \* the list has no gaps: a pending list
  list,    \* its transactions
  call,    \* the last operation and its argument
  out      \* what it returned: transactions that are gone, and those that it
           \* invalidated

vars == <<strict, list, call, out>>

Out(gone, invalid) == [gone |-> gone, invalid |-> invalid]

TakeOut(gone, invalid) ==
  /\ list' = list \ (gone \cup invalid)
  /\ out' = Out(gone, invalid)
  /\ UNCHANGED strict

Init ==
  /\ strict \in BOOLEAN
  /\ list = {}
  /\ call = <<"newList", {}>> /\ out = Out({}, {})

Add(t) ==
  LET old == AtNonce(list, t.nonce)
  IN IF Accepts(list, t, PriceBump)
     THEN /\ list' = (list \ old) \cup {t}
          /\ out' = Out(old, {})
          /\ UNCHANGED strict
     ELSE TakeOut({}, {})

Forward(n) == TakeOut(Below(list, n), {})

Filter(c, g) ==
  LET gone == Unpayable(list, c) \cup OutOfGas(list, g)
  IN TakeOut(gone, IF strict THEN Invalidated(list, gone) ELSE {})

Cap(k) == TakeOut(Excess(list, k), {})

Remove(t) ==
  LET gone == AtNonce(list, t.nonce)
  IN TakeOut(gone, IF strict /\ gone # {} THEN Above(list, t.nonce) ELSE {})

Ready(start) == TakeOut(ReadyFrom(list, start), {})

Flatten == TakeOut({}, {})

Called(op, arg) == call' = <<op, arg>>

Next ==
  \/ \E t \in Txs : \/ Add(t) /\ Called("Add", t)
                    \/ Remove(t) /\ Called("Remove", t)
  \/ \E n \in Limits : \/ Forward(n) /\ Called("Forward", n)
                       \/ Cap(n) /\ Called("Cap", n)
                       \/ Ready(n) /\ Called("Ready", n)
  \/ \E c, g \in Limits : Filter(c, g) /\ Called("Filter", <<c, g>>)
  \/ Flatten /\ Called("Flatten", {})

Spec == Init /\ [][Next]_vars
=============================================================================
