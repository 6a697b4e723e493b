------------------------------ MODULE StateDB ------------------------------
(***************************************************************************)
(* x/vm/statedb: the state of one EVM transaction.  Accounts are cached as *)
(* objects, every change is journaled, and a call frame that fails is      *)
(* undone by replaying the journal backwards.  A stateful precompile works *)
(* on the Cosmos stores instead: before it runs, the dirty objects are     *)
(* flushed to a branch of the stores ("cacheCtx"), which is a stack of     *)
(* layers so that it can be reverted together with the journal; after it,  *)
(* the balance changes it made are read off its bank events and applied to *)
(* the objects.  At the end the branch is written and the dirty objects    *)
(* are written over it.                                                    *)
(*                                                                         *)
(* What a precompile does may itself branch its context (a call of the EVM *)
(* by a keeper opens a StateDB of its own there).  snapshotmulti.Store     *)
(* then pushes a layer that no journal entry names and returns itself.     *)
(* Its Write, which merges all layers, is called by Commit alone: no       *)
(* handler of this repository that a precompile reaches writes a branch of *)
(* the context it is given.                                                *)
(***************************************************************************)
EXTENDS Integers, Sequences, FiniteSets, FunctionSums

CONSTANTS
    N,                   \* addresses are 1..N; the storage of each is one slot
    Blocked,             \* x/bank's blocked addresses: module accounts
    Stores,              \* the stores a transaction may start from
    Values,              \* values of a slot or a register; 0 is the default
    Keys,                \* slots named in the access list
    Programs,            \* what the EVM may run: the operations it uses, with
                         \* bounds on journal entries and on snapshots
    MaxPrecompileCalls,  \* limit on precompile calls of a transaction
    MaxBranches,         \* bound: branches that one call makes of its context
    MaxValue             \* bound: coins of one transfer

Accounts  == 1..N
NoValue   == -1          \* a slot that is not in the map
NotListed == -1          \* an address that is not in the access list
NoSlots   == 0           \* a listed address without slots

ASSUME ValuesAssumption   == 0 \in Values /\ Values \subseteq Nat
ASSUME AccountsAssumption == N \in Nat /\ Blocked \subseteq Accounts
ASSUME BoundsAssumption   == {MaxPrecompileCalls, MaxBranches, MaxValue} \subseteq Nat

(***************************************************************************)
(* The keeper's stores: the accounts, and in "calls" what precompiles      *)
(* write elsewhere (one unit per call).                                    *)
(***************************************************************************)
Absent == [exists |-> FALSE, bal |-> 0, nonce |-> 0, code |-> 0, slot |-> 0]

\* x/bank makes an account for whoever receives coins, and DeleteAccount leaves
\* nothing behind: what does not exist is empty.
StoredAccounts ==
    {Absent} \union [exists: {TRUE}, bal: Nat, nonce: Nat, code: Values, slot: Values]

StoreType == [acct: [Accounts -> StoredAccounts], calls: Nat]

ASSUME StoresAssumption == Stores \subseteq StoreType

VARIABLES
    db,         \* the StateDB
    reverting,  \* position of the revision being reverted to, or 0
    phase,      \* "run", "committed" or "failed"
    program     \* the program of this transaction

vars == <<db, reverting, phase, program>>

(***************************************************************************)
(* db: the stores at the start (ctx) and the branch for precompiles        *)
(* (cache, the layers as the contents seen through each; empty until the   *)
(* first call); live objects; the journal with its count of changes per    *)
(* account; the revisions; the registers; the counter of precompile calls. *)
(* "flushed" is a history field: accounts whose slot a flush has written.  *)
(***************************************************************************)
Objects == [bal: Nat, nonce: Nat, code: Values,
            origin: Values \union {NoValue}, dirty: Values \union {NoValue},
            destructed: BOOLEAN, new: BOOLEAN]

newObject(s) ==
    [bal |-> s.bal, nonce |-> s.nonce, code |-> s.code, origin |-> NoValue,
     dirty |-> NoValue, destructed |-> FALSE, new |-> FALSE]

New(s) ==
    [ctx |-> s, cache |-> << >>, live |-> {},
     obj |-> [a \in Accounts |-> newObject(Absent)],
     journal |-> << >>, dirties |-> [a \in Accounts |-> 0],
     revisions |-> << >>, next |-> 0,
     refund |-> 0, logs |-> 0, transient |-> [a \in Accounts |-> 0],
     addresses |-> [a \in Accounts |-> NotListed], slots |-> << >>,
     calls |-> 0, flushed |-> {}]

Current(d) == IF d.cache = << >> THEN d.ctx ELSE d.cache[Len(d.cache)]

Exist(d, a) == a \in d.live \/ d.ctx.acct[a].exists

GetCommittedState(d, a) ==
    IF a \in d.live /\ d.obj[a].origin # NoValue THEN d.obj[a].origin
    ELSE d.ctx.acct[a].slot

GetState(d, a) ==
    IF a \in d.live /\ d.obj[a].dirty # NoValue THEN d.obj[a].dirty
    ELSE GetCommittedState(d, a)

\* getStateObject: an account that has no object yet is loaded from the store.
getStateObject(d, a) ==
    IF a \notin d.live /\ d.ctx.acct[a].exists
    THEN [d EXCEPT !.live = @ \union {a}, !.obj[a] = newObject(d.ctx.acct[a])]
    ELSE d

\* What the EVM can see of the state, and the branch that a precompile would.
View(d) ==
    [acct |-> [a \in Accounts |->
         LET o == IF a \in d.live THEN d.obj[a] ELSE newObject(d.ctx.acct[a])
         IN  [exists |-> Exist(d, a), bal |-> o.bal, nonce |-> o.nonce, code |-> o.code,
              slot |-> GetState(d, a), destructed |-> o.destructed, new |-> o.new]],
     refund |-> d.refund, logs |-> d.logs, transient |-> d.transient,
     warm |-> {a \in Accounts : d.addresses[a] # NotListed},
     warmSlots |-> {p \in Accounts \X Keys :
                       d.addresses[p[1]] > 0 /\ p[2] \in d.slots[d.addresses[p[1]]]},
     stores |-> Current(d)]

(***************************************************************************)
(* The journal.                                                            *)
(***************************************************************************)
Dirtying == {"createObject", "selfDestruct", "balance", "nonce", "code", "storage"}

append(d, e) ==
    [d EXCEPT !.journal = Append(@, e),
              !.dirties = IF e.kind \in Dirtying
                          THEN [d.dirties EXCEPT ![e.acct] = d.dirties[e.acct] + 1] ELSE @]

setState(d, a, value, origin) ==
    [d EXCEPT !.obj[a].dirty = IF value = origin THEN NoValue ELSE value]

\* Mutant: the layer of the reverted call itself is kept.
KeepLayer(d, snapshot) == [d EXCEPT !.cache = SubSeq(@, 1, snapshot + 2)]

RevertMultiStore(d, snapshot) == [d EXCEPT !.cache = SubSeq(@, 1, snapshot + 1)]

\* The last slot of an address goes with the list that held it.
DeleteSlot(d, a, k) ==
    LET i    == d.addresses[a]
        left == d.slots[i] \ {k}
    IN  IF left # {} THEN [d EXCEPT !.slots[i] = left]
        ELSE [d EXCEPT !.slots = SubSeq(@, 1, i - 1), !.addresses[a] = NoSlots]

\* JournalEntry.Revert, for each kind of entry.
Revert(d, e) ==
    CASE e.kind = "createObject"   -> [d EXCEPT !.live = @ \ {e.acct}]
      [] e.kind = "createContract" -> [d EXCEPT !.obj[e.acct].new = FALSE]
      [] e.kind = "selfDestruct"   -> [d EXCEPT !.obj[e.acct] =
                                          [d.obj[e.acct] EXCEPT !.destructed = e.flag, !.bal = e.prev]]
      [] e.kind = "balance"        -> [d EXCEPT !.obj[e.acct].bal = e.prev]
      [] e.kind = "nonce"          -> [d EXCEPT !.obj[e.acct].nonce = e.prev]
      [] e.kind = "code"           -> [d EXCEPT !.obj[e.acct].code = e.prev]
      [] e.kind = "storage"        -> setState(d, e.acct, e.prev, e.orig)
      [] e.kind = "refund"         -> [d EXCEPT !.refund = e.prev]
      [] e.kind = "log"            -> [d EXCEPT !.logs = @ - 1]
      [] e.kind = "transient"      -> [d EXCEPT !.transient[e.acct] = e.prev]
      [] e.kind = "address"        -> [d EXCEPT !.addresses[e.acct] = NotListed]
      [] e.kind = "slot"           -> DeleteSlot(d, e.acct, e.key)
      [] e.kind = "precompile"     -> RevertMultiStore(d, e.snapshot)

\* Mutant: the count of changes is not taken back.
UndoKeepsCount(d) ==
    LET e == d.journal[Len(d.journal)]
    IN  [Revert(d, e) EXCEPT !.journal = SubSeq(@, 1, Len(@) - 1)]

\* One iteration of the loop of journal.Revert.
UndoLast(d) ==
    LET e == d.journal[Len(d.journal)]
        r == Revert(d, e)
    IN  [r EXCEPT !.journal = SubSeq(@, 1, Len(@) - 1),
                  !.dirties = IF e.kind \in Dirtying
                              THEN [d.dirties EXCEPT ![e.acct] = d.dirties[e.acct] - 1] ELSE @]

(***************************************************************************)
(* Setters.                                                                *)
(***************************************************************************)
\* The change is journaled on a new object; one that exists is replaced only
\* by CreateAccount, which the EVM calls for accounts that do not exist.
createObject(d, a) ==
    [append(d, [kind |-> "createObject", acct |-> a]) EXCEPT
        !.live = @ \union {a}, !.obj[a] = newObject(Absent)]

getOrNewStateObject(d, a) ==
    IF Exist(d, a) THEN getStateObject(d, a) ELSE createObject(d, a)

SetBalance(d, a, amount) ==
    [append(d, [kind |-> "balance", acct |-> a, prev |-> d.obj[a].bal]) EXCEPT
        !.obj[a].bal = amount]

AddBalance(d, a, amount) ==
    LET g == getOrNewStateObject(d, a)
    IN  IF amount = 0 THEN g ELSE SetBalance(g, a, g.obj[a].bal + amount)

SubBalance(d, a, amount) ==
    LET g == getOrNewStateObject(d, a)
    IN  IF amount = 0 THEN g ELSE SetBalance(g, a, g.obj[a].bal - amount)

SetNonce(d, a, nonce) ==
    LET g == getOrNewStateObject(d, a)
    IN  [append(g, [kind |-> "nonce", acct |-> a, prev |-> g.obj[a].nonce]) EXCEPT
            !.obj[a].nonce = nonce]

SetCode(d, a, code) ==
    LET g == getOrNewStateObject(d, a)
    IN  [append(g, [kind |-> "code", acct |-> a, prev |-> g.obj[a].code]) EXCEPT
            !.obj[a].code = code]

SetState(d, a, value) ==
    LET g      == getOrNewStateObject(d, a)
        prev   == GetState(g, a)
        origin == GetCommittedState(g, a)
    IN  IF prev = value THEN g
        ELSE setState(append(g, [kind |-> "storage", acct |-> a,
                                 prev |-> prev, orig |-> origin]), a, value, origin)

CreateContract(d, a) ==
    LET g == getStateObject(d, a)
    IN  IF g.obj[a].new THEN g
        ELSE [append(g, [kind |-> "createContract", acct |-> a]) EXCEPT !.obj[a].new = TRUE]

SelfDestruct(d, a) ==
    [append(d, [kind |-> "selfDestruct", acct |-> a, flag |-> d.obj[a].destructed,
                prev |-> d.obj[a].bal]) EXCEPT
        !.obj[a] = [d.obj[a] EXCEPT !.destructed = TRUE, !.bal = 0]]

SelfDestruct6780(d, a) ==
    LET g == getStateObject(d, a)
    IN  IF a \in g.live /\ g.obj[a].new THEN SelfDestruct(g, a) ELSE g

SetRefund(d, gas) == [append(d, [kind |-> "refund", prev |-> d.refund]) EXCEPT !.refund = gas]

AddLog(d) == [append(d, [kind |-> "log"]) EXCEPT !.logs = @ + 1]

SetTransientState(d, a, value) ==
    IF d.transient[a] = value THEN d
    ELSE [append(d, [kind |-> "transient", acct |-> a, prev |-> d.transient[a]]) EXCEPT
             !.transient[a] = value]

AddAddressToAccessList(d, a) ==
    IF d.addresses[a] # NotListed THEN d
    ELSE [append(d, [kind |-> "address", acct |-> a]) EXCEPT !.addresses[a] = NoSlots]

AddSlotToAccessList(d, a, k) ==
    LET g   == AddAddressToAccessList(d, a)
        i   == g.addresses[a]
        new == append(g, [kind |-> "slot", acct |-> a, key |-> k])
    IN  IF i = NoSlots
        THEN [new EXCEPT !.slots = Append(@, {k}), !.addresses[a] = Len(g.slots) + 1]
        ELSE IF k \in g.slots[i] THEN g
        ELSE [new EXCEPT !.slots[i] = @ \union {k}]

(***************************************************************************)
(* Writing the dirty objects to a store.                                   *)
(***************************************************************************)
Dirty(d) == {a \in Accounts : d.dirties[a] > 0}

\* An account without code is never deleted, and the coins that a blocked
\* address gained cannot be sent to it.
WriteFails(d, st, a) ==
    IF d.obj[a].destructed THEN st.acct[a].exists /\ st.acct[a].code = 0
    ELSE a \in Blocked /\ d.obj[a].bal > st.acct[a].bal

WriteAccount(d, st, a) ==
    LET o == d.obj[a]
    IN  IF o.destructed THEN Absent
        ELSE [exists |-> TRUE, bal |-> o.bal, nonce |-> o.nonce, code |-> o.code,
              slot |-> IF o.dirty = NoValue THEN st.acct[a].slot ELSE o.dirty]

CommitFails(d, st) == \E a \in Dirty(d) : WriteFails(d, st, a)

\* The accounts are written in order, up to the first that fails.
Written(d, st) ==
    {a \in Dirty(d) : \A b \in Dirty(d) : b <= a => ~WriteFails(d, st, b)}

WriteDirty(d, st) ==
    [st EXCEPT !.acct = [a \in Accounts |->
        IF a \in Written(d, st) THEN WriteAccount(d, st, a) ELSE st.acct[a]]]

\* The slots written to a store become the baseline of later writes.
SyncOrigin(d, st, keepDirty) ==
    LET written == {a \in Written(d, st) : ~d.obj[a].destructed /\ d.obj[a].dirty # NoValue}
    IN  [d EXCEPT
           !.obj = [a \in Accounts |->
               IF a \in written
               THEN [d.obj[a] EXCEPT !.origin = d.obj[a].dirty,
                                     !.dirty = IF keepDirty THEN @ ELSE NoValue]
               ELSE d.obj[a]],
           !.flushed = @ \union written]

SetTop(d, st) == [d EXCEPT !.cache[Len(d.cache)] = st]

CommitWithCacheCtx(d) == SyncOrigin(SetTop(d, WriteDirty(d, Current(d))), Current(d), TRUE)

(***************************************************************************)
(* A precompile call.  It sends coins in x/bank and writes to another      *)
(* store; its balance handler applies the bank's events to the objects,    *)
(* except those of blocked addresses.                                      *)
(***************************************************************************)
GetCacheContext(d) == IF d.cache = << >> THEN [d EXCEPT !.cache = <<d.ctx>>] ELSE d

MultiStoreSnapshot(d) == [d EXCEPT !.cache = Append(@, Current(d))]

\* A precompile's action branches its context n times: a layer each, and the
\* same store.  The action goes on in the last one, also where its code drops
\* the branch or a nested StateDB writes it to the layer below, which nobody
\* reads again.
CacheMultiStore(d, n) == [d EXCEPT !.cache = @ \o [i \in 1..n |-> Current(d)]]

AddPrecompileFn(d, snapshot) ==
    [append(d, [kind |-> "precompile", snapshot |-> snapshot]) EXCEPT !.calls = @ + 1]

CanSend(st, from, amount) == st.acct[from].bal >= amount

BankSend(st, from, to, amount) ==
    [st EXCEPT !.acct[from].bal = @ - amount, !.acct[to].bal = @ + amount,
               !.acct[to].exists = TRUE, !.calls = @ + 1]

\* Mutant: the bank's events are not looked at.
IgnoreEvents(d, from, to, amount) == d

\* Mutant: the spender is credited and the receiver debited.
SwapEvents(d, from, to, amount) ==
    LET s == IF from \in Blocked THEN d ELSE AddBalance(d, from, amount)
    IN  IF to \in Blocked THEN s ELSE SubBalance(s, to, amount)

AfterBalanceChange(d, from, to, amount) ==
    LET s == IF from \in Blocked THEN d ELSE SubBalance(d, from, amount)
    IN  IF to \in Blocked THEN s ELSE AddBalance(s, to, amount)

\* Mutant: the journal names the layer after the snapshot.
PreparedOffByOne(d) ==
    LET c == GetCacheContext(d)
    IN  AddPrecompileFn(MultiStoreSnapshot(c), Len(c.cache))

\* The state after the steps that come before the precompile's own action.
Prepared(d) ==
    LET c == GetCacheContext(d)
    IN  AddPrecompileFn(MultiStoreSnapshot(c), Len(c.cache) - 1)

(***************************************************************************)
(* The specification.                                                      *)
(***************************************************************************)
Snapshot(d) ==
    [d EXCEPT !.revisions = Append(@, [id |-> d.next, index |-> Len(d.journal),
                                       view |-> View(d)]),
              !.next = @ + 1]

Init ==
    /\ \E s \in Stores : db = New(s)
    /\ reverting = 0
    /\ phase = "run"
    /\ program \in Programs

Running == phase = "run" /\ reverting = 0

\* A setter called by the EVM.
Set(d) ==
    /\ Running
    /\ Len(d.journal) <= program.journal
    /\ db' = d
    /\ UNCHANGED <<reverting, phase, program>>

Bal(a) == View(db).acct[a].bal

IsContract(a) == View(db).acct[a].code # 0 \/ View(db).acct[a].new

Transfer(from, to, amount) ==
    /\ Bal(from) >= amount
    /\ Set(AddBalance(SubBalance(db, from, amount), to, amount))

\* evm.create: the account is created if it has none, and marked.
Create(a) ==
    /\ View(db).acct[a].nonce = 0 /\ ~IsContract(a)
    /\ Set(SetNonce(CreateContract(getOrNewStateObject(db, a), a), a, 1))

\* The balance goes to the beneficiary first.
Destruct(a, to) ==
    /\ IsContract(a)
    /\ Set(SelfDestruct6780(AddBalance(SubBalance(db, a, Bal(a)), to, Bal(a)), a))

EvmSetNonce(a, v) == Exist(db, a) /\ Set(SetNonce(db, a, v))
EvmSetCode(a, v)  == Exist(db, a) /\ Set(SetCode(db, a, v))
EvmSetState(a, v) == IsContract(a) /\ Set(SetState(db, a, v))
EvmSetTransient(a, v) == IsContract(a) /\ Set(SetTransientState(db, a, v))
EvmAddRefund(v)   == db.refund + v \in Values /\ Set(SetRefund(db, db.refund + v))
EvmSubRefund(v)   == v <= db.refund /\ Set(SetRefund(db, db.refund - v))
EvmAddLog         == Set(AddLog(db))
EvmAddAddress(a)  == Set(AddAddressToAccessList(db, a))
EvmAddSlot(a, k)  == Set(AddSlotToAccessList(db, a, k))

TakeSnapshot ==
    /\ Running
    /\ db.next < program.revisions
    /\ db' = Snapshot(db)
    /\ UNCHANGED <<reverting, phase, program>>

\* Starts the revert to the revision at position i of the valid ones.
RevertToSnapshot(i) ==
    /\ Running
    /\ reverting' = i
    /\ UNCHANGED <<db, phase, program>>

\* journal.Revert undoes entry by entry; nothing else runs until it is done.
Undo ==
    /\ reverting # 0
    /\ Len(db.journal) > db.revisions[reverting].index
    /\ db' = UndoLast(db)
    /\ UNCHANGED <<reverting, phase, program>>

EndRevert ==
    /\ reverting # 0
    /\ Len(db.journal) = db.revisions[reverting].index
    /\ db' = [db EXCEPT !.revisions = SubSeq(@, 1, reverting - 1)]
    /\ reverting' = 0
    /\ UNCHANGED <<phase, program>>

\* evm.Call of a precompile takes a snapshot, and reverts to it when the call
\* fails: too many calls, a flush that fails, or the action itself, which may
\* fail after it has written.
CallPrecompile(from, to, amount, n, ok) ==
    LET d1 == Prepared(Snapshot(db))
        d2 == CommitWithCacheCtx(d1)
        b  == CacheMultiStore(d2, n)
        d3 == SetTop(b, BankSend(Current(b), from, to, amount))
    IN  /\ Running
        /\ db.next < program.revisions
        /\ Len(db.journal) < program.journal
        /\ UNCHANGED <<phase, program>>
        /\ IF d1.calls > MaxPrecompileCalls
           THEN db' = d1 /\ reverting' = Len(d1.revisions)
           ELSE IF CommitFails(d1, Current(d1))
           THEN db' = d2 /\ reverting' = Len(d1.revisions)
           ELSE IF ~CanSend(Current(b), from, amount)
           THEN db' = b /\ reverting' = Len(d1.revisions)
           ELSE IF ~ok
           THEN db' = d3 /\ reverting' = Len(d1.revisions)
           ELSE db' = AfterBalanceChange(d3, from, to, amount) /\ reverting' = 0

\* Mutant: the branch with the precompiles' changes is not written.
CommitObjectsOnly ==
    /\ Running
    /\ UNCHANGED <<reverting, program>>
    /\ IF CommitFails(db, db.ctx)
       THEN phase' = "failed" /\ UNCHANGED db
       ELSE /\ phase' = "committed"
            /\ db' = [SyncOrigin(db, db.ctx, FALSE) EXCEPT
                         !.ctx = WriteDirty(db, db.ctx), !.cache = << >>]

Commit ==
    /\ Running
    /\ UNCHANGED <<reverting, program>>
    /\ IF CommitFails(db, Current(db))
       THEN phase' = "failed" /\ UNCHANGED db
       ELSE /\ phase' = "committed"
            /\ db' = [SyncOrigin(db, Current(db), FALSE) EXCEPT
                         !.ctx = WriteDirty(db, Current(db)), !.cache = << >>]

Next ==
    \/ /\ "transfer" \in program.uses
       /\ \E from \in Accounts \ Blocked, to \in Accounts, amount \in 0..MaxValue :
             Transfer(from, to, amount)
    \/ /\ "create" \in program.uses
       /\ \E a \in Accounts \ Blocked, v \in Values : Create(a) \/ EvmSetCode(a, v)
    \/ /\ "destruct" \in program.uses
       /\ \E a \in Accounts \ Blocked, to \in Accounts : Destruct(a, to)
    \/ /\ "storage" \in program.uses
       /\ \E a \in Accounts, v \in Values : EvmSetState(a, v)
    \/ /\ "registers" \in program.uses
       /\ \E a \in Accounts, v \in Values :
             \/ EvmSetNonce(a, v) \/ EvmSetTransient(a, v)
             \/ EvmAddRefund(v) \/ EvmSubRefund(v) \/ EvmAddLog
    \/ /\ "accesses" \in program.uses
       /\ \E a \in Accounts, k \in Keys : EvmAddAddress(a) \/ EvmAddSlot(a, k)
    \/ /\ "precompile" \in program.uses
       /\ \E from, to \in Accounts, amount \in 1..MaxValue,
             n \in 0..MaxBranches, ok \in BOOLEAN :
             from # to /\ CallPrecompile(from, to, amount, n, ok)
    \/ TakeSnapshot
    \/ \E i \in 1..Len(db.revisions) : RevertToSnapshot(i)
    \/ Undo
    \/ EndRevert
    \/ Commit

Spec == Init /\ [][Next]_vars

(***************************************************************************)
(* Properties.                                                             *)
(***************************************************************************)

\* Type invariant.
TypeOK ==
    /\ db.ctx \in StoreType
    /\ \A i \in 1..Len(db.cache) : db.cache[i] \in StoreType
    /\ db.live \subseteq Accounts
    /\ db.obj \in [Accounts -> Objects]
    /\ db.dirties \in [Accounts -> Nat]
    /\ db.refund \in Nat /\ db.logs \in Nat
    /\ db.addresses \in [Accounts -> {NotListed} \union 0..Len(db.slots)]
    /\ reverting \in 0..Len(db.revisions)
    /\ phase \in {"run", "committed", "failed"}
    /\ program \in Programs

Entries(kinds) == {i \in 1..Len(db.journal) : db.journal[i].kind \in kinds}

\* The count of changes per account, kept by append and by Revert, is that of
\* the journal's entries, and a dirty account has an object: the loop of
\* commitWithCtx reads the object of each without a check.
DirtiesMatchJournal ==
    \A a \in Accounts :
        /\ db.dirties[a] = Cardinality({i \in Entries(Dirtying) : db.journal[i].acct = a})
        /\ db.dirties[a] > 0 => a \in db.live

\* Every precompile call of the journal can be reverted: its snapshot is in
\* bounds of the stack of layers (RevertToSnapshot of snapshotkv panics when it
\* is not), above the stores of the start and above the layers of the calls
\* before it.  So its revert drops its own layers, those that its action pushed
\* by branching included, and no layer that an earlier call wrote to.
LayersMatchJournal ==
    LET calls == Entries({"precompile"})
    IN  phase = "run" =>
          /\ \A i \in calls : db.journal[i].snapshot \in 0..Len(db.cache) - 2
          /\ \A i, j \in calls : i < j => db.journal[i].snapshot < db.journal[j].snapshot

SlotOff(v) == [v EXCEPT !.acct = [a \in Accounts |-> [v.acct[a] EXCEPT !.slot = 0]]]

\* RevertToSnapshot "reverts all state changes made since the given
\* revision": whatever ran in between, precompile calls included, the EVM
\* sees the accounts, the registers and the access list it saw when the
\* snapshot was taken, and the next precompile sees the stores it would have
\* seen.  Of the storage this holds for the slots no precompile call flushed.
RevertRestores ==
    [][reverting # 0 /\ reverting' = 0 =>
         LET then == db.revisions[reverting].view
             now  == View(db')
         IN  /\ SlotOff(now) = SlotOff(then)
             /\ \A a \in Accounts \ db.flushed : now.acct[a].slot = then.acct[a].slot]_vars

\* What Commit persists of an account: nothing if it was destructed.
Persisted(v) ==
    IF v.destructed THEN Absent
    ELSE [exists |-> v.exists, bal |-> v.bal, nonce |-> v.nonce, code |-> v.code,
          slot |-> v.slot]

\* Commit leaves the stores as the EVM last saw them, although it writes two
\* things over each other: the branch with the changes of the precompiles,
\* then the dirty objects.  Blocked addresses are the precompiles' alone (the
\* EVM has not sent coins to one), and of the storage this is about the slots
\* no precompile call flushed.
CommitExact ==
    [][phase' = "committed" /\ Dirty(db) \intersect Blocked = {} =>
         LET seen == View(db)
         IN  /\ db'.ctx.calls = seen.stores.calls
             /\ \A a \in Accounts :
                   LET want == IF a \in Blocked THEN seen.stores.acct[a]
                               ELSE Persisted(seen.acct[a])
                   IN  db'.ctx.acct[a] =
                         IF a \in db.flushed
                         THEN [want EXCEPT !.slot = db'.ctx.acct[a].slot] ELSE want]_vars

Total(st) == SumTo([a \in Accounts |-> st.acct[a].bal], N)

NoneDestructed == \A a \in Accounts : ~View(db).acct[a].destructed

\* A transaction makes no coins, and loses some only by destructing a
\* contract: the mints and burns by which flushes and Commit set balances in
\* x/bank, and the sends of the precompiles, cancel out.
SupplyKept ==
    [][phase' = "committed" =>
         /\ Total(db'.ctx) <= Total(db.ctx)
         /\ NoneDestructed /\ Dirty(db) \intersect Blocked = {} =>
               Total(db'.ctx) = Total(db.ctx)]_vars

\* The same when the EVM did send coins to a blocked address.  The comment of
\* AfterBalanceChange says that balances are handled so as "to prevent cases
\* where a bank coin transfer initiated by a precompile is unintentionally
\* overwritten by balance changes from within a contract".
TransferNotOverwritten ==
    [][phase' = "committed" /\ NoneDestructed => Total(db'.ctx) = Total(db.ctx)]_vars

\* As RevertRestores, of every slot.  The comment of commitWithCtx has it that
\* syncing originStorage in a flush "is safe even if a precompile
\* subsequently reverts".
StorageRestored ==
    [][reverting # 0 /\ reverting' = 0 =>
         \A a \in Accounts :
            View(db').acct[a].slot = db.revisions[reverting].view.acct[a].slot]_vars
=============================================================================
