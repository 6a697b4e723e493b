---------------------------- MODULE StateDBLemmas ----------------------------
(***************************************************************************)
(* What the operations of x/vm/statedb do to the journal, for any          *)
(* accounts, stores and programs: undoing it backwards restores every      *)
(* state the transaction went through.  This is a fact about histories:    *)
(* some sequence of states leads to the present one such that each is what *)
(* undoing the next entry makes of its successor, and the revisions show   *)
(* the states at their indices.                                            *)
(***************************************************************************)
EXTENDS StateDB, TLAPS

(***************************************************************************)
(* Types of the journal, of the revisions and of the StateDB.              *)
(***************************************************************************)
AccountEntries  == [kind: {"createObject", "createContract", "address"}, acct: Accounts]
DestructEntries == [kind: {"selfDestruct"}, acct: Accounts, flag: BOOLEAN, prev: Nat]
NumberEntries   == [kind: {"balance", "nonce"}, acct: Accounts, prev: Nat]
ValueEntries    == [kind: {"code", "transient"}, acct: Accounts, prev: Values]
StorageEntries  == [kind: {"storage"}, acct: Accounts, prev: Values, orig: Values]
RefundEntries   == [kind: {"refund"}, prev: Nat]
LogEntries      == [kind: {"log"}]
SlotEntries     == [kind: {"slot"}, acct: Accounts, key: Keys]
CallEntries     == [kind: {"precompile"}, snapshot: Nat]

JournalEntries ==
    AccountEntries \union DestructEntries \union NumberEntries \union ValueEntries
        \union StorageEntries \union RefundEntries \union LogEntries
        \union SlotEntries \union CallEntries

ObjectKinds ==
    {"createObject", "createContract", "selfDestruct", "balance", "nonce", "code", "storage"}

SlotLists == (SUBSET Keys) \ {{}}

SeenAccounts ==
    [exists: BOOLEAN, bal: Nat, nonce: Nat, code: Values, slot: Values,
     destructed: BOOLEAN, new: BOOLEAN]

Views ==
    [acct: [Accounts -> SeenAccounts], refund: Nat, logs: Nat,
     transient: [Accounts -> Values], warm: SUBSET Accounts,
     warmSlots: SUBSET (Accounts \X Keys), stores: StoreType]

Revisions == [id: Nat, index: Nat, view: Views]

DBType ==
    [ctx: StoreType, cache: Seq(StoreType), live: SUBSET Accounts,
     obj: [Accounts -> Objects], journal: Seq(JournalEntries),
     dirties: [Accounts -> Nat], revisions: Seq(Revisions), next: Nat,
     refund: Nat, logs: Nat, transient: [Accounts -> Values],
     addresses: [Accounts -> Int], slots: Seq(SlotLists),
     calls: Nat, flushed: SUBSET Accounts]

(***************************************************************************)
(* What an operation leaves alone.                                         *)
(***************************************************************************)
KeepsRegisters(d, e) ==
    /\ e.refund = d.refund /\ e.logs = d.logs /\ e.transient = d.transient
    /\ e.addresses = d.addresses /\ e.slots = d.slots

KeepsStores(d, e) ==
    /\ e.ctx = d.ctx /\ e.cache = d.cache /\ e.calls = d.calls /\ e.flushed = d.flushed

KeepsRevisions(d, e) == e.revisions = d.revisions /\ e.next = d.next

KeepsObjects(d, e) == e.live = d.live /\ e.obj = d.obj

KeepsJournal(d, e) == e.journal = d.journal /\ e.dirties = d.dirties

Journals(d, e, en) ==
    /\ e.journal = Append(d.journal, en)
    /\ e.dirties = IF en.kind \in Dirtying THEN [d.dirties EXCEPT ![en.acct] = d.dirties[en.acct] + 1]
                   ELSE d.dirties

(***************************************************************************)
(* Effects of the operations on the fields.                                *)
(***************************************************************************)
\* What JournalEntries says of each kind of entry.
LEMMA EntryFacts ==
    ASSUME NEW e \in JournalEntries
    PROVE  /\ e.kind \in ObjectKinds \union {"refund", "log", "transient", "address", "slot",
                                             "precompile"}
           /\ e.kind \in ObjectKinds \union {"transient", "address", "slot"} => e.acct \in Accounts
           /\ e.kind \in {"selfDestruct", "balance", "nonce", "refund"} => e.prev \in Nat
           /\ e.kind = "selfDestruct" => e.flag \in BOOLEAN
           /\ e.kind \in {"code", "transient", "storage"} => e.prev \in Values
           /\ e.kind = "storage" => e.orig \in Values
           /\ e.kind = "slot" => e.key \in Keys
           /\ e.kind = "precompile" => e.snapshot \in Nat
<1>1. CASE e \in AccountEntries
  BY <1>1 DEF AccountEntries, ObjectKinds
<1>2. CASE e \in DestructEntries
  BY <1>2 DEF DestructEntries, ObjectKinds
<1>3. CASE e \in NumberEntries
  BY <1>3 DEF NumberEntries, ObjectKinds
<1>4. CASE e \in ValueEntries
  BY <1>4 DEF ValueEntries, ObjectKinds
<1>5. CASE e \in StorageEntries
  BY <1>5 DEF StorageEntries, ObjectKinds
<1>6. CASE e \in RefundEntries
  BY <1>6 DEF RefundEntries, ObjectKinds
<1>7. CASE e \in LogEntries
  BY <1>7 DEF LogEntries, ObjectKinds
<1>8. CASE e \in SlotEntries
  BY <1>8 DEF SlotEntries, ObjectKinds
<1>9. CASE e \in CallEntries
  BY <1>9 DEF CallEntries, ObjectKinds
<1> QED
  BY <1>1, <1>2, <1>3, <1>4, <1>5, <1>6, <1>7, <1>8, <1>9 DEF JournalEntries

\* The stored account of an address, seen as an object.
LEMMA newObjectType ==
    ASSUME NEW s \in StoredAccounts
    PROVE  /\ newObject(s) \in Objects
           /\ newObject(s).bal = s.bal /\ newObject(s).nonce = s.nonce
           /\ newObject(s).code = s.code
           /\ newObject(s).origin = NoValue /\ newObject(s).dirty = NoValue
           /\ newObject(s).destructed = FALSE /\ newObject(s).new = FALSE
           /\ s.exists \in BOOLEAN /\ s.bal \in Nat /\ s.nonce \in Nat
           /\ s.code \in Values /\ s.slot \in Values
           /\ ~s.exists => s = Absent
<1>1. /\ s.exists \in BOOLEAN /\ s.bal \in Nat /\ s.nonce \in Nat
      /\ s.code \in Values /\ s.slot \in Values
      /\ ~s.exists => s = Absent
  <2>1. CASE s = Absent
    BY <2>1, ValuesAssumption DEF Absent
  <2>2. CASE s \in [exists: {TRUE}, bal: Nat, nonce: Nat, code: Values, slot: Values]
    BY <2>2, Zenon
  <2> QED BY <2>1, <2>2, Zenon DEF StoredAccounts
<1>2. newObject(s) \in Objects
  BY <1>1 DEF newObject, Objects
<1> QED BY <1>1, <1>2 DEF newObject

\* What does not exist is a stored account, too.
LEMMA AbsentType ==
    /\ Absent \in StoredAccounts
    /\ Absent.exists = FALSE /\ Absent.bal = 0 /\ Absent.nonce = 0 /\ Absent.code = 0
    /\ Absent.slot = 0
BY DEF StoredAccounts, Absent

\* Operation e of d journals entry en and replaces the object of a by o.
ObjectWritten(d, e, en, a, o) ==
    /\ e \in DBType /\ en \in JournalEntries /\ o \in Objects
    /\ KeepsRegisters(d, e) /\ KeepsStores(d, e) /\ KeepsRevisions(d, e)
    /\ Journals(d, e, en)
    /\ e.live = d.live \union {a}
    /\ e.obj = [d.obj EXCEPT ![a] = o]

\* append journals the entry and counts it.
LEMMA AppendEffects ==
    ASSUME NEW d \in DBType, NEW en \in JournalEntries
    PROVE  LET e == append(d, en)
           IN  /\ e \in DBType
               /\ KeepsRegisters(d, e) /\ KeepsStores(d, e) /\ KeepsRevisions(d, e)
               /\ KeepsObjects(d, e) /\ Journals(d, e, en)
<1> DEFINE js == Append(d.journal, en)
           ds == IF en.kind \in Dirtying THEN [d.dirties EXCEPT ![en.acct] = d.dirties[en.acct] + 1]
                 ELSE d.dirties
<1>1. js \in Seq(JournalEntries)
  BY DEF DBType
<1>2. ds \in [Accounts -> Nat]
  BY EntryFacts DEF DBType, Dirtying, ObjectKinds
<1>3. append(d, en) = [d EXCEPT !.journal = js, !.dirties = ds]
  BY DEF append, DBType
<1> HIDE DEF js, ds
<1>4. append(d, en) \in DBType /\ append(d, en).journal = js /\ append(d, en).dirties = ds
  BY <1>1, <1>2, <1>3, Zenon DEF DBType
<1>5. /\ KeepsRegisters(d, append(d, en)) /\ KeepsStores(d, append(d, en))
      /\ KeepsRevisions(d, append(d, en)) /\ KeepsObjects(d, append(d, en))
  BY <1>3 DEF DBType, KeepsRegisters, KeepsStores, KeepsRevisions, KeepsObjects
<1> QED BY <1>4, <1>5 DEF Journals, js, ds

\* Replacing the object of a live account, or of a new one.
LEMMA PutEffects ==
    ASSUME NEW d \in DBType, NEW en \in JournalEntries, NEW a \in Accounts,
           NEW o \in Objects, NEW e,
           \/ e = [append(d, en) EXCEPT !.live = @ \union {a}, !.obj[a] = o]
           \/ a \in d.live /\ e = [append(d, en) EXCEPT !.obj[a] = o]
    PROVE  ObjectWritten(d, e, en, a, o)
<1> DEFINE p == append(d, en)
<1>1. /\ p \in DBType
      /\ KeepsRegisters(d, p) /\ KeepsStores(d, p) /\ KeepsRevisions(d, p)
      /\ KeepsObjects(d, p) /\ Journals(d, p, en)
  BY AppendEffects
<1>2. \/ e = [p EXCEPT !.live = @ \union {a}, !.obj[a] = o]
      \/ a \in p.live /\ e = [p EXCEPT !.obj[a] = o]
  BY <1>1 DEF KeepsObjects
<1> DEFINE ls == p.live \union {a}
           os == [p.obj EXCEPT ![a] = o]
<1> HIDE DEF p
<1>3. ls \in SUBSET Accounts /\ os \in [Accounts -> Objects]
  BY <1>1, Zenon DEF DBType
<1>4. \/ e = [p EXCEPT !.live = ls, !.obj = os]
      \/ a \in p.live /\ e = [p EXCEPT !.obj = os]
  BY <1>1, <1>2, Zenon DEF DBType
<1>5. /\ e \in DBType
      /\ KeepsRegisters(p, e) /\ KeepsStores(p, e) /\ KeepsRevisions(p, e)
      /\ KeepsJournal(p, e) /\ e.live = ls /\ e.obj = os
  <2>1. CASE e = [p EXCEPT !.live = ls, !.obj = os]
    <3> HIDE DEF ls, os
    <3> QED BY <1>1, <1>3, <2>1, Zenon DEF DBType, KeepsRegisters, KeepsStores, KeepsRevisions,
            KeepsJournal
  <2>2. CASE a \in p.live /\ e = [p EXCEPT !.obj = os]
    <3>1. ls = p.live
      BY <2>2
    <3> HIDE DEF ls, os
    <3> QED BY <1>1, <1>3, <2>2, <3>1, Zenon DEF DBType, KeepsRegisters, KeepsStores, KeepsRevisions,
            KeepsJournal
  <2> QED BY <1>4, <2>1, <2>2
<1> QED
  BY <1>1, <1>5 DEF ObjectWritten, KeepsRegisters, KeepsStores, KeepsRevisions,
     KeepsObjects, KeepsJournal, Journals

\* The writes of SetNonce, SetCode, CreateContract and SetState.
WriteNonce(d, a, v) ==
    [append(d, [kind |-> "nonce", acct |-> a, prev |-> d.obj[a].nonce]) EXCEPT !.obj[a].nonce = v]

WriteCode(d, a, v) ==
    [append(d, [kind |-> "code", acct |-> a, prev |-> d.obj[a].code]) EXCEPT !.obj[a].code = v]

WriteNew(d, a) ==
    [append(d, [kind |-> "createContract", acct |-> a]) EXCEPT !.obj[a].new = TRUE]

WriteState(d, a, v, prev, orig) ==
    setState(append(d, [kind |-> "storage", acct |-> a, prev |-> prev, orig |-> orig]), a, v, orig)

(***************************************************************************)
(* States of a history.  A state is what the journal can restore: of each  *)
(* account what the EVM sees but the slot, the registers, the access list, *)
(* the count of changes and the layers of the stores.                      *)
(***************************************************************************)
Obj(d, a) == IF a \in d.live THEN d.obj[a] ELSE newObject(d.ctx.acct[a])

\* What is seen of one account.
Row(exists, bal, nonce, code, destructed, new) ==
    [exists |-> exists, bal |-> bal, nonce |-> nonce, code |-> code,
     destructed |-> destructed, new |-> new]

Seen(d, a) ==
    Row(Exist(d, a), Obj(d, a).bal, Obj(d, a).nonce, Obj(d, a).code, Obj(d, a).destructed,
        Obj(d, a).new)

Layers(d) == IF d.cache = << >> THEN <<d.ctx>> ELSE d.cache

Abs(d) ==
    [acct |-> [a \in Accounts |-> Seen(d, a)], refund |-> d.refund, logs |-> d.logs,
     transient |-> d.transient, addresses |-> d.addresses, slots |-> d.slots,
     dirties |-> d.dirties, layers |-> Layers(d)]

Accessible(x) ==
    \A a \in Accounts : x.addresses[a] = NotListed \/ x.addresses[a] \in 0..Len(x.slots)

SeenTypes ==
    [exists: BOOLEAN, bal: Nat, nonce: Nat, code: Values, destructed: BOOLEAN, new: BOOLEAN]

StateRecords ==
    [acct: [Accounts -> SeenTypes], refund: Nat, logs: Nat, transient: [Accounts -> Values],
     addresses: [Accounts -> Int], slots: Seq(SlotLists), dirties: [Accounts -> Nat],
     layers: Seq(StoreType)]

States == {x \in StateRecords : Accessible(x) /\ x.layers # << >>}

Top(x) == x.layers[Len(x.layers)]

(***************************************************************************)
(* Undoing an entry of the journal, on states; c is the store at the start.*)
(***************************************************************************)
Stored(r) == Row(r.exists, r.bal, r.nonce, r.code, FALSE, FALSE)

UndoneAcct(s, en, c) ==
    IF en.kind = "createObject" THEN Stored(c.acct[en.acct])
    ELSE Row(s.exists,
             IF en.kind \in {"selfDestruct", "balance"} THEN en.prev ELSE s.bal,
             IF en.kind = "nonce" THEN en.prev ELSE s.nonce,
             IF en.kind = "code" THEN en.prev ELSE s.code,
             IF en.kind = "selfDestruct" THEN en.flag ELSE s.destructed,
             IF en.kind = "createContract" THEN FALSE ELSE s.new)

UndoneAddresses(x, en) ==
    IF en.kind = "address" THEN [x.addresses EXCEPT ![en.acct] = NotListed]
    ELSE IF en.kind = "slot" THEN DeleteSlot(x, en.acct, en.key).addresses
    ELSE x.addresses

UndoneSlots(x, en) ==
    IF en.kind = "slot" THEN DeleteSlot(x, en.acct, en.key).slots ELSE x.slots

\* y is what undoing entry en makes of x.
Undoes(y, x, en, c) ==
    /\ \A a \in Accounts :
          y.acct[a] = IF en.kind \in ObjectKinds /\ en.acct = a
                      THEN UndoneAcct(x.acct[a], en, c) ELSE x.acct[a]
    /\ y.refund = IF en.kind = "refund" THEN en.prev ELSE x.refund
    /\ y.logs = IF en.kind = "log" THEN x.logs - 1 ELSE x.logs
    /\ y.transient = IF en.kind = "transient" THEN [x.transient EXCEPT ![en.acct] = en.prev]
                     ELSE x.transient
    /\ y.addresses = UndoneAddresses(x, en)
    /\ y.slots = UndoneSlots(x, en)
    /\ y.dirties = IF en.kind \in Dirtying
                   THEN [x.dirties EXCEPT ![en.acct] = x.dirties[en.acct] - 1] ELSE x.dirties
    /\ y.layers = IF en.kind = "precompile" THEN SubSeq(x.layers, 1, en.snapshot + 1)
                  ELSE x.layers
    /\ en.kind = "precompile" => en.snapshot + 2 <= Len(x.layers)

UndoneSlot(v, en, a, c) ==
    IF en.kind = "storage" /\ en.acct = a THEN en.prev
    ELSE IF en.kind = "createObject" /\ en.acct = a THEN c.acct[a].slot
    ELSE v

(***************************************************************************)
(* The view that a revision records of a state, and what holds of a state  *)
(* between two operations: accounts that are not dirty are in the stores   *)
(* as the EVM sees them, and no coins were made.  F are the accounts whose *)
(* slot a flush has written, C those that are clean.                       *)
(***************************************************************************)
Shows(v, x) ==
    /\ \A a \in Accounts :
          /\ v.acct[a].exists = x.acct[a].exists /\ v.acct[a].bal = x.acct[a].bal
          /\ v.acct[a].nonce = x.acct[a].nonce /\ v.acct[a].code = x.acct[a].code
          /\ v.acct[a].destructed = x.acct[a].destructed /\ v.acct[a].new = x.acct[a].new
    /\ v.refund = x.refund /\ v.logs = x.logs /\ v.transient = x.transient
    /\ v.warm = {a \in Accounts : x.addresses[a] # NotListed}
    /\ v.warmSlots = {p \in Accounts \X Keys :
                         x.addresses[p[1]] > 0 /\ p[2] \in x.slots[x.addresses[p[1]]]}
    /\ v.stores = Top(x)

Fair(v) ==
    [a \in Accounts |-> IF a \in Blocked THEN v.stores.acct[a].bal ELSE v.acct[a].bal]

Settled(v, c, F, C) ==
    /\ \A a \in C \ Blocked :
          /\ ~v.acct[a].destructed
          /\ v.stores.acct[a].exists = v.acct[a].exists
          /\ v.stores.acct[a].bal = v.acct[a].bal
          /\ v.stores.acct[a].nonce = v.acct[a].nonce
          /\ v.stores.acct[a].code = v.acct[a].code
    /\ \A a \in Accounts \ F : ~v.acct[a].destructed => v.stores.acct[a].slot = c.acct[a].slot
    /\ \A a \in C \ F : v.acct[a].slot = c.acct[a].slot
    /\ SumTo(Fair(v), N) <= Total(c)
    /\ Blocked \subseteq C /\ (\A a \in Accounts : ~v.acct[a].destructed) =>
          SumTo(Fair(v), N) = Total(c)

Clean(x) == {a \in Accounts : x.dirties[a] = 0}

(***************************************************************************)
(* The invariant of a StateDB whose first m revisions are still valid.     *)
(***************************************************************************)
Traces(h, d, m) ==
    /\ h \in [0..Len(d.journal) -> States]
    /\ Len(h[0].layers) = 1 /\ Clean(h[0]) = Accounts
    /\ h[Len(d.journal)] = Abs(d)
    /\ \A k \in 1..Len(d.journal) : Undoes(h[k - 1], h[k], d.journal[k], d.ctx)
    /\ \A i \in 1..m :
          /\ Shows(d.revisions[i].view, h[d.revisions[i].index])
          /\ Settled(d.revisions[i].view, d.ctx, d.flushed, Clean(h[d.revisions[i].index]))

SlotTraces(g, d, m, a) ==
    /\ g \in [0..Len(d.journal) -> Values]
    /\ g[Len(d.journal)] = GetState(d, a)
    /\ \A k \in 1..Len(d.journal) : g[k - 1] = UndoneSlot(g[k], d.journal[k], a, d.ctx)
    /\ \A i \in 1..m : d.revisions[i].view.acct[a].slot = g[d.revisions[i].index]

\* Every change of an object is of a live one, and none precedes its creation.
ObjectsLive(d) ==
    \A i \in 1..Len(d.journal) : d.journal[i].kind \in ObjectKinds =>
        /\ d.journal[i].acct \in d.live
        /\ d.journal[i].kind = "createObject" =>
              \A j \in 1..(i - 1) :
                 d.journal[j].kind \in ObjectKinds => d.journal[j].acct # d.journal[i].acct

\* An account that was not flushed has the slot of the start as baseline.
Unflushed(d) ==
    /\ \A a \in d.live \ d.flushed : d.obj[a].origin = NoValue
    /\ \A i \in 1..Len(d.journal) :
          d.journal[i].kind = "storage" /\ d.journal[i].acct \notin d.flushed =>
             d.journal[i].orig = d.ctx.acct[d.journal[i].acct].slot

Branched(d) ==
    \A i \in 1..Len(d.journal) : d.journal[i].kind = "precompile" => d.cache # << >>

RevisionsInOrder(d, m) ==
    /\ m \in 0..Len(d.revisions)
    /\ \A i \in 1..m : d.revisions[i].index <= Len(d.journal)
    /\ \A i, j \in 1..m : i <= j => d.revisions[i].index <= d.revisions[j].index

DbOK(d, m) ==
    /\ d \in DBType /\ Accessible(d)
    /\ ObjectsLive(d) /\ Unflushed(d) /\ Branched(d) /\ RevisionsInOrder(d, m)
    /\ \E h : Traces(h, d, m)
    /\ \A a \in Accounts \ d.flushed : \E g : SlotTraces(g, d, m, a)

(***************************************************************************)
(* Types of what is seen.                                                  *)
(***************************************************************************)
\* The fields of a StateDB have the types of DBType.
LEMMA DBFields ==
    ASSUME NEW d \in DBType
    PROVE  /\ d.ctx \in StoreType /\ d.cache \in Seq(StoreType) /\ d.live \in SUBSET Accounts
           /\ d.obj \in [Accounts -> Objects] /\ d.journal \in Seq(JournalEntries)
           /\ d.dirties \in [Accounts -> Nat] /\ d.revisions \in Seq(Revisions)
           /\ d.next \in Nat /\ d.refund \in Nat /\ d.logs \in Nat
           /\ d.transient \in [Accounts -> Values] /\ d.addresses \in [Accounts -> Int]
           /\ d.slots \in Seq(SlotLists) /\ d.calls \in Nat /\ d.flushed \in SUBSET Accounts
BY Zenon DEF DBType

\* The fields of a stored account, and of an object.
LEMMA StoreFields ==
    ASSUME NEW c \in StoreType
    PROVE  /\ c.acct \in [Accounts -> StoredAccounts] /\ c.calls \in Nat
           /\ \A a \in Accounts : c.acct[a] \in StoredAccounts
BY DEF StoreType

\* The object that stands for an account.
LEMMA ObjType ==
    ASSUME NEW d \in DBType, NEW a \in Accounts
    PROVE  /\ Obj(d, a) \in Objects /\ d.ctx.acct[a] \in StoredAccounts
           /\ Exist(d, a) \in BOOLEAN /\ GetCommittedState(d, a) \in Values
           /\ GetState(d, a) \in Values
<1>1. d.ctx.acct[a] \in StoredAccounts /\ d.obj[a] \in Objects
  BY DBFields, StoreFields
<1>2. newObject(d.ctx.acct[a]) \in Objects /\ d.ctx.acct[a].exists \in BOOLEAN
      /\ d.ctx.acct[a].slot \in Values
  BY <1>1, newObjectType, Zenon
<1>3. d.obj[a].origin \in Values \union {NoValue} /\ d.obj[a].dirty \in Values \union {NoValue}
  BY <1>1 DEF Objects
<1> QED BY <1>1, <1>2, <1>3, Zenon DEF Obj, Exist, GetCommittedState, GetState

\* What is seen of an account, field by field.
LEMMA SeenFields ==
    ASSUME NEW d, NEW a
    PROVE  /\ Seen(d, a).exists = Exist(d, a) /\ Seen(d, a).bal = Obj(d, a).bal
           /\ Seen(d, a).nonce = Obj(d, a).nonce /\ Seen(d, a).code = Obj(d, a).code
           /\ Seen(d, a).destructed = Obj(d, a).destructed /\ Seen(d, a).new = Obj(d, a).new
BY Zenon DEF Seen, Row

\* What is seen of an account.
LEMMA SeenType ==
    ASSUME NEW d \in DBType, NEW a \in Accounts
    PROVE  Seen(d, a) \in SeenTypes
<1>1. Obj(d, a) \in Objects /\ Exist(d, a) \in BOOLEAN
  BY ObjType, Zenon
<1>2. /\ Obj(d, a).bal \in Nat /\ Obj(d, a).nonce \in Nat /\ Obj(d, a).code \in Values
      /\ Obj(d, a).destructed \in BOOLEAN /\ Obj(d, a).new \in BOOLEAN
  BY <1>1 DEF Objects
<1> QED BY <1>1, <1>2, Zenon DEF Seen, SeenTypes, Row

\* The layers of the stores: there is at least one, and the last is current.
LEMMA LayersType ==
    ASSUME NEW d \in DBType
    PROVE  /\ Layers(d) \in Seq(StoreType) /\ Layers(d) # << >>
           /\ Len(Layers(d)) \in Nat /\ Len(Layers(d)) > 0
           /\ Current(d) = Layers(d)[Len(Layers(d))] /\ Current(d) \in StoreType
<1>1. d.ctx \in StoreType /\ d.cache \in Seq(StoreType)
  BY DBFields
<1>2. CASE d.cache = << >>
  BY <1>1, <1>2 DEF Layers, Current
<1>3. CASE d.cache # << >>
  BY <1>1, <1>3 DEF Layers, Current
<1> QED BY <1>2, <1>3

\* The fields of the state of a StateDB.
LEMMA AbsFields ==
    ASSUME NEW d
    PROVE  /\ \A a \in Accounts : Abs(d).acct[a] = Seen(d, a)
           /\ Abs(d).refund = d.refund /\ Abs(d).logs = d.logs /\ Abs(d).transient = d.transient
           /\ Abs(d).addresses = d.addresses /\ Abs(d).slots = d.slots
           /\ Abs(d).dirties = d.dirties /\ Abs(d).layers = Layers(d)
BY Zenon DEF Abs

\* The state of a StateDB is one.
LEMMA AbsType ==
    ASSUME NEW d \in DBType, Accessible(d)
    PROVE  Abs(d) \in States
<1> DEFINE acc == [a \in Accounts |-> Seen(d, a)]
<1>1. acc \in [Accounts -> SeenTypes]
  BY SeenType
<1>2. Layers(d) \in Seq(StoreType) /\ Layers(d) # << >>
  BY LayersType, Zenon
<1>3. /\ d.dirties \in [Accounts -> Nat] /\ d.refund \in Nat /\ d.logs \in Nat
      /\ d.transient \in [Accounts -> Values] /\ d.addresses \in [Accounts -> Int]
      /\ d.slots \in Seq(SlotLists)
  BY DBFields, Zenon
<1> HIDE DEF acc
<1>4. Abs(d) = [acct |-> acc, refund |-> d.refund, logs |-> d.logs,
                transient |-> d.transient, addresses |-> d.addresses, slots |-> d.slots,
                dirties |-> d.dirties, layers |-> Layers(d)]
  BY Zenon DEF Abs, acc
<1>5. Abs(d) \in StateRecords
  BY <1>1, <1>2, <1>3, <1>4 DEF StateRecords
<1>6. Accessible(Abs(d)) /\ Abs(d).layers # << >>
  <2>1. Abs(d).addresses = d.addresses /\ Abs(d).slots = d.slots /\ Abs(d).layers = Layers(d)
    BY AbsFields, Zenon
  <2> QED BY <1>2, <2>1 DEF Accessible
<1> QED BY <1>5, <1>6, Zenon DEF States

\* The fields of a state.
LEMMA StateFields ==
    ASSUME NEW x \in States
    PROVE  /\ x.acct \in [Accounts -> SeenTypes] /\ x.refund \in Nat /\ x.logs \in Nat
           /\ x.transient \in [Accounts -> Values] /\ x.addresses \in [Accounts -> Int]
           /\ x.slots \in Seq(SlotLists) /\ x.dirties \in [Accounts -> Nat]
           /\ x.layers \in Seq(StoreType) /\ x.layers # << >> /\ Accessible(x)
BY Zenon DEF States, StateRecords

\* The view of a StateDB, as Snapshot records it, shows its state.
LEMMA ViewShows ==
    ASSUME NEW d \in DBType, Accessible(d)
    PROVE  /\ View(d) \in Views /\ Shows(View(d), Abs(d))
           /\ \A a \in Accounts : View(d).acct[a].slot = GetState(d, a)
           /\ View(d).stores = Current(d)
<1> DEFINE row(a) == [exists |-> Exist(d, a), bal |-> Obj(d, a).bal, nonce |-> Obj(d, a).nonce,
                      code |-> Obj(d, a).code, slot |-> GetState(d, a),
                      destructed |-> Obj(d, a).destructed, new |-> Obj(d, a).new]
           rows  == [a \in Accounts |-> row(a)]
           warm  == {a \in Accounts : d.addresses[a] # NotListed}
           pairs == {p \in Accounts \X Keys :
                        d.addresses[p[1]] > 0 /\ p[2] \in d.slots[d.addresses[p[1]]]}
<1>1. View(d) = [acct |-> rows, refund |-> d.refund, logs |-> d.logs, transient |-> d.transient,
                 warm |-> warm, warmSlots |-> pairs, stores |-> Current(d)]
  BY Zenon DEF View, Obj
<1>2. \A a \in Accounts : row(a) \in SeenAccounts
  <2>1. SUFFICES ASSUME NEW a \in Accounts PROVE row(a) \in SeenAccounts
    BY <2>1, Zenon
  <2>2. Obj(d, a) \in Objects /\ Exist(d, a) \in BOOLEAN /\ GetState(d, a) \in Values
    BY ObjType, Zenon
  <2>3. /\ Obj(d, a).bal \in Nat /\ Obj(d, a).nonce \in Nat /\ Obj(d, a).code \in Values
        /\ Obj(d, a).destructed \in BOOLEAN /\ Obj(d, a).new \in BOOLEAN
    BY <2>2 DEF Objects
  <2> QED BY <2>2, <2>3 DEF SeenAccounts
<1>3. \A a \in Accounts :
         /\ rows[a].exists = Seen(d, a).exists /\ rows[a].bal = Seen(d, a).bal
         /\ rows[a].nonce = Seen(d, a).nonce /\ rows[a].code = Seen(d, a).code
         /\ rows[a].destructed = Seen(d, a).destructed /\ rows[a].new = Seen(d, a).new
         /\ rows[a].slot = GetState(d, a)
  BY SeenFields, Zenon
<1>4. warm \in SUBSET Accounts /\ pairs \in SUBSET (Accounts \X Keys)
  BY Zenon
<1>5. rows \in [Accounts -> SeenAccounts]
  <2> HIDE DEF row
  <2> QED BY <1>2
<1>6. /\ Current(d) \in StoreType /\ d.refund \in Nat /\ d.logs \in Nat
      /\ d.transient \in [Accounts -> Values] /\ Current(d) = Layers(d)[Len(Layers(d))]
  BY LayersType, DBFields, Zenon
<1>7. Abs(d).addresses = d.addresses /\ Abs(d).slots = d.slots /\ Abs(d).layers = Layers(d)
      /\ Abs(d).refund = d.refund /\ Abs(d).logs = d.logs /\ Abs(d).transient = d.transient
      /\ \A a \in Accounts : Abs(d).acct[a] = Seen(d, a)
  BY AbsFields, Zenon
<1>8. /\ warm = {a \in Accounts : Abs(d).addresses[a] # NotListed}
      /\ pairs = {p \in Accounts \X Keys :
                    Abs(d).addresses[p[1]] > 0 /\ p[2] \in Abs(d).slots[Abs(d).addresses[p[1]]]}
  BY <1>7, Zenon
<1> HIDE DEF rows, warm, pairs
<1>9. View(d) \in Views
  BY <1>1, <1>4, <1>5, <1>6 DEF Views
<1>10. /\ View(d).acct = rows /\ View(d).refund = d.refund /\ View(d).logs = d.logs
       /\ View(d).transient = d.transient /\ View(d).warm = warm /\ View(d).warmSlots = pairs
       /\ View(d).stores = Current(d)
  BY <1>1
<1>11. Shows(View(d), Abs(d))
  <2>1. Top(Abs(d)) = Current(d)
    BY <1>6, <1>7, Zenon DEF Top
  <2>2. \A a \in Accounts :
           /\ View(d).acct[a].exists = Abs(d).acct[a].exists
           /\ View(d).acct[a].bal = Abs(d).acct[a].bal
           /\ View(d).acct[a].nonce = Abs(d).acct[a].nonce
           /\ View(d).acct[a].code = Abs(d).acct[a].code
           /\ View(d).acct[a].destructed = Abs(d).acct[a].destructed
           /\ View(d).acct[a].new = Abs(d).acct[a].new
    BY <1>3, <1>7, <1>10
  <2> QED BY <1>7, <1>8, <1>10, <2>1, <2>2, Zenon DEF Shows
<1> QED BY <1>3, <1>9, <1>10, <1>11, Zenon

\* Operation e of d journals entry en, and undoing the entry restores d.
Pushes(d, e, en) ==
    /\ e \in DBType /\ Accessible(e) /\ en \in JournalEntries
    /\ e.ctx = d.ctx /\ e.flushed = d.flushed /\ KeepsRevisions(d, e)
    /\ e.journal = Append(d.journal, en)
    /\ d.live \subseteq e.live
    /\ en.kind \in ObjectKinds => en.acct \in e.live
    /\ en.kind = "createObject" => en.acct \notin d.live
    /\ en.kind = "storage" /\ en.acct \notin d.flushed => en.orig = d.ctx.acct[en.acct].slot
    /\ en.kind = "precompile" \/ d.cache # << >> => e.cache # << >>
    /\ \A a \in e.live \ e.flushed : e.obj[a].origin = NoValue
    /\ Undoes(Abs(d), Abs(e), en, d.ctx)
    /\ \A a \in Accounts \ d.flushed : GetState(d, a) = UndoneSlot(GetState(e, a), en, a, d.ctx)

\* The valid revisions have views, and indices within the journal.
LEMMA RevisionFacts ==
    ASSUME NEW d \in DBType, NEW m, RevisionsInOrder(d, m)
    PROVE  \A i \in 1..m :
              /\ i \in 1..Len(d.revisions) /\ d.revisions[i].index \in 0..Len(d.journal)
              /\ d.revisions[i].view \in Views
<1>1. d.revisions \in Seq(Revisions) /\ d.journal \in Seq(JournalEntries)
  BY DBFields, Zenon
<1>2. /\ m \in 0..Len(d.revisions) /\ Len(d.revisions) \in Nat /\ Len(d.journal) \in Nat
      /\ \A i \in 1..m : d.revisions[i].index <= Len(d.journal)
  BY <1>1 DEF RevisionsInOrder
<1>3. \A i \in 1..m : i \in 1..Len(d.revisions)
  BY <1>2
<1>4. \A i \in 1..Len(d.revisions) : d.revisions[i] \in Revisions
  BY <1>1
<1>5. \A r \in Revisions : r.index \in Nat /\ r.view \in Views
  BY DEF Revisions
<1>6. \A i \in 1..m : d.revisions[i].index \in Nat /\ d.revisions[i].view \in Views
  BY <1>3, <1>4, <1>5, Zenon
<1> QED BY <1>2, <1>3, <1>6

\* An operation that journals what undoes it keeps the invariant.
LEMMA PushOK ==
    ASSUME NEW d, NEW e, NEW en, NEW m, DbOK(d, m), Pushes(d, e, en)
    PROVE  DbOK(e, m)
\* The entries of a journal, with one more at the end.
<1>1. ASSUME NEW j \in Seq(JournalEntries), NEW en0 \in JournalEntries
      PROVE  /\ Append(j, en0) \in Seq(JournalEntries)
             /\ Len(j) \in Nat /\ Len(Append(j, en0)) = Len(j) + 1
             /\ \A i \in 1..Len(j) : Append(j, en0)[i] = j[i] /\ j[i] \in JournalEntries
             /\ Append(j, en0)[Len(j) + 1] = en0
  OBVIOUS
\* An operation that journals what undoes it keeps the history of accounts.
<1>2. ASSUME NEW d0 \in DBType, NEW e0, NEW en0, NEW m0, Pushes(d0, e0, en0), RevisionsInOrder(d0, m0),
             NEW h, Traces(h, d0, m0)
      PROVE  \E h2 : Traces(h2, e0, m0)
  <2> DEFINE n  == Len(d0.journal)
             h2 == [k \in 0..(n + 1) |-> IF k = n + 1 THEN Abs(e0) ELSE h[k]]
  <2>1. /\ d0.journal \in Seq(JournalEntries) /\ en0 \in JournalEntries
        /\ e0.journal = Append(d0.journal, en0) /\ e0.ctx = d0.ctx /\ e0.flushed = d0.flushed
        /\ e0.revisions = d0.revisions
    BY <1>2, DBFields, Zenon DEF Pushes, KeepsRevisions
  <2>2. /\ n \in Nat /\ Len(e0.journal) = n + 1 /\ e0.journal[n + 1] = en0
        /\ \A i \in 1..n : e0.journal[i] = d0.journal[i]
    BY <2>1, <1>1
  <2>3. Abs(e0) \in States /\ Undoes(Abs(d0), Abs(e0), en0, d0.ctx)
    BY <1>2, AbsType, Zenon DEF Pushes
  <2>4. /\ h \in [0..n -> States] /\ Len(h[0].layers) = 1 /\ Clean(h[0]) = Accounts /\ h[n] = Abs(d0)
        /\ \A k \in 1..n : Undoes(h[k - 1], h[k], d0.journal[k], d0.ctx)
        /\ \A i \in 1..m0 :
              /\ Shows(d0.revisions[i].view, h[d0.revisions[i].index])
              /\ Settled(d0.revisions[i].view, d0.ctx, d0.flushed, Clean(h[d0.revisions[i].index]))
    BY <1>2, Zenon DEF Traces
  <2>5. \A i \in 1..m0 : d0.revisions[i].index \in 0..n
    BY <1>2, RevisionFacts, Zenon
  <2> HIDE DEF n
  <2>6. h2 \in [0..(n + 1) -> States] /\ h2[n + 1] = Abs(e0) /\ \A k \in 0..n : h2[k] = h[k]
    BY <2>2, <2>3, <2>4
  <2> HIDE DEF h2
  <2>7. \A k \in 1..(n + 1) : Undoes(h2[k - 1], h2[k], e0.journal[k], e0.ctx)
    <3>1. SUFFICES ASSUME NEW k \in 1..(n + 1) PROVE Undoes(h2[k - 1], h2[k], e0.journal[k], e0.ctx)
      BY <3>1, Zenon
    <3>2. CASE k = n + 1
      <4>1. h2[k - 1] = Abs(d0) /\ h2[k] = Abs(e0) /\ e0.journal[k] = en0
        BY <2>2, <2>4, <2>6, <3>2
      <4> QED BY <2>1, <2>3, <4>1, Zenon
    <3>3. CASE k \in 1..n
      <4>1. h2[k - 1] = h[k - 1] /\ h2[k] = h[k] /\ e0.journal[k] = d0.journal[k]
        BY <2>2, <2>6, <3>3
      <4> QED BY <2>1, <2>4, <3>3, <4>1, Zenon
    <3> QED BY <2>2, <3>2, <3>3
  <2>8. Len(h2[0].layers) = 1 /\ Clean(h2[0]) = Accounts
    BY <2>2, <2>4, <2>6
  <2>9. \A i \in 1..m0 :
           /\ Shows(e0.revisions[i].view, h2[e0.revisions[i].index])
           /\ Settled(e0.revisions[i].view, e0.ctx, e0.flushed, Clean(h2[e0.revisions[i].index]))
    BY <2>1, <2>4, <2>5, <2>6, Zenon
  <2>10. Traces(h2, e0, m0)
    BY <1>2, <2>2, <2>6, <2>7, <2>8, <2>9, Zenon DEF Traces
  <2> QED BY <2>10, Zenon
\* The same for the history of a slot.
<1>3. ASSUME NEW d0 \in DBType, NEW e0, NEW en0, NEW m0, Pushes(d0, e0, en0), RevisionsInOrder(d0, m0),
             NEW a \in Accounts \ d0.flushed, NEW g, SlotTraces(g, d0, m0, a)
      PROVE  \E g2 : SlotTraces(g2, e0, m0, a)
  <2> DEFINE n  == Len(d0.journal)
             g2 == [k \in 0..(n + 1) |-> IF k = n + 1 THEN GetState(e0, a) ELSE g[k]]
  <2>1. /\ d0.journal \in Seq(JournalEntries) /\ en0 \in JournalEntries
        /\ e0.journal = Append(d0.journal, en0) /\ e0.ctx = d0.ctx /\ e0.revisions = d0.revisions
    BY <1>3, DBFields, Zenon DEF Pushes, KeepsRevisions
  <2>2. /\ n \in Nat /\ Len(e0.journal) = n + 1 /\ e0.journal[n + 1] = en0
        /\ \A i \in 1..n : e0.journal[i] = d0.journal[i]
    BY <2>1, <1>1
  <2>3. GetState(e0, a) \in Values /\ GetState(d0, a) = UndoneSlot(GetState(e0, a), en0, a, d0.ctx)
    <3>1. e0 \in DBType /\ GetState(d0, a) = UndoneSlot(GetState(e0, a), en0, a, d0.ctx)
      BY <1>3, Zenon DEF Pushes
    <3>2. a \in Accounts
      OBVIOUS
    <3> QED BY <3>1, <3>2, ObjType, Zenon
  <2>4. /\ g \in [0..n -> Values] /\ g[n] = GetState(d0, a)
        /\ \A k \in 1..n : g[k - 1] = UndoneSlot(g[k], d0.journal[k], a, d0.ctx)
        /\ \A i \in 1..m0 : d0.revisions[i].view.acct[a].slot = g[d0.revisions[i].index]
    BY <1>3, Zenon DEF SlotTraces
  <2>5. \A i \in 1..m0 : d0.revisions[i].index \in 0..n
    BY <1>3, RevisionFacts, Zenon
  <2> HIDE DEF n
  <2>6. g2 \in [0..(n + 1) -> Values] /\ g2[n + 1] = GetState(e0, a) /\ \A k \in 0..n : g2[k] = g[k]
    BY <2>2, <2>3, <2>4
  <2> HIDE DEF g2
  <2>7. \A k \in 1..(n + 1) : g2[k - 1] = UndoneSlot(g2[k], e0.journal[k], a, e0.ctx)
    <3>1. SUFFICES ASSUME NEW k \in 1..(n + 1)
                   PROVE  g2[k - 1] = UndoneSlot(g2[k], e0.journal[k], a, e0.ctx)
      BY <3>1, Zenon
    <3>2. CASE k = n + 1
      <4>1. g2[k - 1] = GetState(d0, a) /\ g2[k] = GetState(e0, a) /\ e0.journal[k] = en0
        BY <2>2, <2>4, <2>6, <3>2
      <4> QED BY <2>1, <2>3, <4>1, Zenon
    <3>3. CASE k \in 1..n
      <4>1. g2[k - 1] = g[k - 1] /\ g2[k] = g[k] /\ e0.journal[k] = d0.journal[k]
        BY <2>2, <2>6, <3>3
      <4> QED BY <2>1, <2>4, <3>3, <4>1, Zenon
    <3> QED BY <2>2, <3>2, <3>3
  <2>8. \A i \in 1..m0 : e0.revisions[i].view.acct[a].slot = g2[e0.revisions[i].index]
    <3>1. \A i \in 1..m0 : g2[d0.revisions[i].index] = g[d0.revisions[i].index]
      BY <2>5, <2>6, Zenon
    <3>2. \A i \in 1..m0 : d0.revisions[i].view.acct[a].slot = g2[d0.revisions[i].index]
      BY <2>4, <3>1
    <3>3. e0.revisions = d0.revisions
      BY <2>1, Zenon
    <3> QED BY <3>2, <3>3
  <2>9. SlotTraces(g2, e0, m0, a)
    BY <1>3, <2>2, <2>6, <2>7, <2>8, Zenon DEF SlotTraces
  <2> QED BY <2>9, Zenon
<1>4. /\ d \in DBType /\ ObjectsLive(d) /\ Unflushed(d) /\ Branched(d) /\ RevisionsInOrder(d, m)
      /\ \E h : Traces(h, d, m)
      /\ \A a \in Accounts \ d.flushed : \E g : SlotTraces(g, d, m, a)
  BY Zenon DEF DbOK
<1>5. /\ e \in DBType /\ Accessible(e) /\ e.ctx = d.ctx /\ e.flushed = d.flushed
      /\ e.revisions = d.revisions /\ en \in JournalEntries /\ e.journal = Append(d.journal, en)
      /\ d.live \subseteq e.live
      /\ en.kind \in ObjectKinds => en.acct \in e.live
      /\ en.kind = "createObject" => en.acct \notin d.live
      /\ en.kind = "storage" /\ en.acct \notin d.flushed => en.orig = d.ctx.acct[en.acct].slot
      /\ en.kind = "precompile" \/ d.cache # << >> => e.cache # << >>
      /\ \A a \in e.live \ e.flushed : e.obj[a].origin = NoValue
  BY Zenon DEF Pushes, KeepsRevisions
<1> DEFINE n == Len(d.journal)
<1>6. /\ n \in Nat /\ Len(e.journal) = n + 1 /\ e.journal[n + 1] = en
      /\ \A i \in 1..n : e.journal[i] = d.journal[i]
  <2>1. d.journal \in Seq(JournalEntries)
    BY <1>4, DBFields, Zenon
  <2> QED BY <1>5, <2>1, <1>1
<1> HIDE DEF n
<1>7. ObjectsLive(e)
  <2>1. SUFFICES ASSUME NEW i \in 1..(n + 1), e.journal[i].kind \in ObjectKinds
                 PROVE  /\ e.journal[i].acct \in e.live
                        /\ e.journal[i].kind = "createObject" =>
                              \A j \in 1..(i - 1) :
                                 e.journal[j].kind \in ObjectKinds => e.journal[j].acct # e.journal[i].acct
    BY <1>6, <2>1, Zenon DEF ObjectsLive
  <2>2. \A j \in 1..n : d.journal[j].kind \in ObjectKinds => d.journal[j].acct \in d.live
    BY <1>4, Zenon DEF ObjectsLive, n
  <2>3. CASE i = n + 1
    <3>1. e.journal[i] = en /\ \A j \in 1..(i - 1) : j \in 1..n /\ e.journal[j] = d.journal[j]
      BY <1>6, <2>3
    <3> QED BY <1>5, <2>1, <2>2, <3>1, Zenon
  <2>4. CASE i \in 1..n
    <3>1. e.journal[i] = d.journal[i] /\ \A j \in 1..(i - 1) : e.journal[j] = d.journal[j]
      BY <1>6, <2>4
    <3>2. d.journal[i].kind = "createObject" =>
             \A j \in 1..(i - 1) :
                d.journal[j].kind \in ObjectKinds => d.journal[j].acct # d.journal[i].acct
      BY <1>4, <2>1, <2>4, <3>1, Zenon DEF ObjectsLive, n
    <3> QED BY <1>5, <2>1, <2>2, <2>4, <3>1, <3>2, Zenon
  <2> QED BY <1>6, <2>3, <2>4
<1>8. Unflushed(e)
  <2>1. \A i \in 1..n :
           d.journal[i].kind = "storage" /\ d.journal[i].acct \notin d.flushed =>
              d.journal[i].orig = d.ctx.acct[d.journal[i].acct].slot
    BY <1>4, Zenon DEF Unflushed, n
  <2>2. \A i \in 1..(n + 1) : i = n + 1 \/ i \in 1..n
    BY <1>6
  <2>3. \A i \in 1..(n + 1) :
           e.journal[i].kind = "storage" /\ e.journal[i].acct \notin e.flushed =>
              e.journal[i].orig = e.ctx.acct[e.journal[i].acct].slot
    BY <1>5, <1>6, <2>1, <2>2, Zenon
  <2> QED BY <1>5, <1>6, <2>3, Zenon DEF Unflushed
<1>9. Branched(e)
  <2>1. \A i \in 1..n : d.journal[i].kind = "precompile" => d.cache # << >>
    BY <1>4, Zenon DEF Branched, n
  <2>2. \A i \in 1..(n + 1) : i = n + 1 \/ i \in 1..n
    BY <1>6
  <2> QED BY <1>5, <1>6, <2>1, <2>2, Zenon DEF Branched
<1>10. RevisionsInOrder(e, m)
  <2>1. \A i \in 1..m : d.revisions[i].index \in 0..n
    BY <1>4, RevisionFacts, Zenon DEF n
  <2>2. \A i \in 1..m : d.revisions[i].index <= n + 1
    BY <1>6, <2>1
  <2> QED BY <1>4, <1>5, <1>6, <2>2, Zenon DEF RevisionsInOrder
<1>11. \E h : Traces(h, e, m)
  BY <1>4, <1>2, Zenon
<1>12. \A a \in Accounts \ e.flushed : \E g : SlotTraces(g, e, m, a)
  BY <1>4, <1>5, <1>3, Zenon
<1> QED BY <1>5, <1>7, <1>8, <1>9, <1>10, <1>11, <1>12, Zenon DEF DbOK

\* Undoing an entry looks at no other part of the access list.
LEMMA UndoneSame ==
    ASSUME NEW d \in DBType, NEW en
    PROVE  /\ UndoneAddresses(Abs(d), en) = UndoneAddresses(d, en)
           /\ UndoneSlots(Abs(d), en) = UndoneSlots(d, en)
<1> DEFINE x == Abs(d)
           i == d.addresses[en.acct]
           left == d.slots[i] \ {en.key}
<1>1. x.addresses = d.addresses /\ x.slots = d.slots
  BY AbsFields, Zenon
<1>2. DeleteSlot(x, en.acct, en.key).addresses = DeleteSlot(d, en.acct, en.key).addresses
      /\ DeleteSlot(x, en.acct, en.key).slots = DeleteSlot(d, en.acct, en.key).slots
  <2>1. x = [acct |-> [a \in Accounts |-> Seen(d, a)], refund |-> d.refund, logs |-> d.logs,
             transient |-> d.transient, addresses |-> d.addresses, slots |-> d.slots,
             dirties |-> d.dirties, layers |-> Layers(d)]
    BY Zenon DEF Abs
  <2>2. CASE left # {}
    <3>1. DeleteSlot(d, en.acct, en.key) = [d EXCEPT !.slots = [d.slots EXCEPT ![i] = left]]
      BY <2>2, Zenon DEF DeleteSlot
    <3>2. DeleteSlot(x, en.acct, en.key) = [x EXCEPT !.slots = [d.slots EXCEPT ![i] = left]]
      BY <1>1, <2>2, Zenon DEF DeleteSlot
    <3> DEFINE ss == [d.slots EXCEPT ![i] = left]
    <3>3. DeleteSlot(d, en.acct, en.key).slots = ss
          /\ DeleteSlot(d, en.acct, en.key).addresses = d.addresses
      <4> HIDE DEF ss
      <4> QED BY <3>1, Zenon DEF DBType, ss
    <3>4. DeleteSlot(x, en.acct, en.key).slots = ss
          /\ DeleteSlot(x, en.acct, en.key).addresses = d.addresses
      <4> HIDE DEF ss, x
      <4> QED BY <2>1, <3>2, Zenon DEF ss
    <3> QED BY <3>3, <3>4, Zenon
  <2>3. CASE left = {}
    <3>1. DeleteSlot(d, en.acct, en.key) =
            [d EXCEPT !.slots = SubSeq(d.slots, 1, i - 1),
                      !.addresses = [d.addresses EXCEPT ![en.acct] = NoSlots]]
      BY <2>3, Zenon DEF DeleteSlot
    <3>2. DeleteSlot(x, en.acct, en.key) =
            [x EXCEPT !.slots = SubSeq(d.slots, 1, i - 1),
                      !.addresses = [d.addresses EXCEPT ![en.acct] = NoSlots]]
      BY <1>1, <2>3, Zenon DEF DeleteSlot
    <3> DEFINE ss == SubSeq(d.slots, 1, i - 1)
               as == [d.addresses EXCEPT ![en.acct] = NoSlots]
    <3>3. DeleteSlot(d, en.acct, en.key).slots = ss
          /\ DeleteSlot(d, en.acct, en.key).addresses = as
      <4> HIDE DEF ss, as
      <4> QED BY <3>1, Zenon DEF DBType, ss, as
    <3>4. DeleteSlot(x, en.acct, en.key).slots = ss
          /\ DeleteSlot(x, en.acct, en.key).addresses = as
      <4> HIDE DEF ss, as, x
      <4> QED BY <2>1, <3>2, Zenon DEF ss, as
    <3> QED BY <3>3, <3>4, Zenon
  <2> QED BY <2>2, <2>3, Zenon
<1> QED BY <1>1, <1>2, Zenon DEF UndoneAddresses, UndoneSlots

(***************************************************************************)
(* Undoing the last entry of the journal.                                  *)
(***************************************************************************)
\* The object that undoing a change of a live one leaves.
UndoneObj(o, en) ==
    CASE en.kind = "createContract" -> [o EXCEPT !.new = FALSE]
      [] en.kind = "selfDestruct"   -> [o EXCEPT !.destructed = en.flag, !.bal = en.prev]
      [] en.kind = "balance"        -> [o EXCEPT !.bal = en.prev]
      [] en.kind = "nonce"          -> [o EXCEPT !.nonce = en.prev]
      [] en.kind = "code"           -> [o EXCEPT !.code = en.prev]
      [] en.kind = "storage"        -> [o EXCEPT !.dirty = IF en.prev = en.orig THEN NoValue
                                                           ELSE en.prev]

\* r differs from d as undoing entry en makes it, but for the journal.
Reverted(d, r, en) ==
    /\ r.ctx = d.ctx /\ r.flushed = d.flushed /\ r.calls = d.calls /\ KeepsRevisions(d, r)
    /\ r.live = IF en.kind = "createObject" THEN d.live \ {en.acct} ELSE d.live
    /\ r.obj = IF en.kind \in ObjectKinds \ {"createObject"}
               THEN [d.obj EXCEPT ![en.acct] = UndoneObj(d.obj[en.acct], en)] ELSE d.obj
    /\ r.refund = IF en.kind = "refund" THEN en.prev ELSE d.refund
    /\ r.logs = IF en.kind = "log" THEN d.logs - 1 ELSE d.logs
    /\ r.transient = IF en.kind = "transient" THEN [d.transient EXCEPT ![en.acct] = en.prev]
                     ELSE d.transient
    /\ r.addresses = UndoneAddresses(d, en) /\ r.slots = UndoneSlots(d, en)
    /\ r.cache = IF en.kind = "precompile" THEN SubSeq(d.cache, 1, en.snapshot + 1) ELSE d.cache

\* d and r agree on the fields that undoing an entry never touches.
SameBase(d, r) ==
    /\ r.ctx = d.ctx /\ r.flushed = d.flushed /\ r.calls = d.calls /\ KeepsRevisions(d, r)
    /\ KeepsJournal(d, r)

\* The fields that undoing an entry may change have the types of DBType.
ChangesTyped(r) ==
    /\ r.live \in SUBSET Accounts /\ r.obj \in [Accounts -> Objects] /\ r.cache \in Seq(StoreType)
    /\ r.refund \in Nat /\ r.logs \in Nat /\ r.transient \in [Accounts -> Values]
    /\ r.addresses \in [Accounts -> Int] /\ r.slots \in Seq(SlotLists)

\* u is d without its last entry, which was undone; y is the state before it.
Undone(d, u, en, y) ==
    /\ u \in DBType /\ Accessible(u) /\ Abs(u) = y
    /\ Reverted(d, u, en)
    /\ u.journal = SubSeq(d.journal, 1, Len(d.journal) - 1)

\* What must hold for it.
Undoable(d, en, y) ==
    /\ d \in DBType /\ Accessible(d) /\ d.journal # << >> /\ en = d.journal[Len(d.journal)]
    /\ ObjectsLive(d) /\ Branched(d)
    /\ y \in States /\ Undoes(y, Abs(d), en, d.ctx)

\* The registers and the layers are those of y, and so are the accounts.
SameRegisters(r, y) ==
    /\ r.refund = y.refund /\ r.logs = y.logs /\ r.transient = y.transient
    /\ r.addresses = y.addresses /\ r.slots = y.slots /\ Layers(r) = y.layers

SameAccounts(r, y) == \A a \in Accounts : Seen(r, a) = y.acct[a]

\* What is left of the object of a after undoing entry en.
UndoneObject(d, u, en, a) ==
    /\ en \in JournalEntries /\ u.ctx = d.ctx
    /\ a \in u.live <=> a \in d.live /\ ~(en.kind = "createObject" /\ en.acct = a)
    /\ en.kind \in ObjectKinds /\ en.acct = a => a \in d.live
    /\ u.obj[a].origin = d.obj[a].origin
    /\ u.obj[a].dirty = IF en.kind = "storage" /\ en.acct = a
                        THEN IF en.prev = en.orig THEN NoValue ELSE en.prev
                        ELSE d.obj[a].dirty

\* What undoing the last entry is to keep of the parts of DbOK.
UndoneParts(u, m) ==
    /\ ObjectsLive(u) /\ Unflushed(u) /\ Branched(u) /\ RevisionsInOrder(u, m)

\* One iteration of the loop of journal.Revert keeps the invariant.
LEMMA UndoOK ==
    ASSUME NEW d, NEW m \in Nat \ {0}, DbOK(d, m), Len(d.journal) > d.revisions[m].index,
           NEW u, u = UndoLast(d)
    PROVE  DbOK(u, m) /\ u.ctx = d.ctx /\ u.flushed = d.flushed /\ u.revisions = d.revisions
\* States with the same fields are the same.
<1>1. ASSUME NEW x \in States, NEW y \in States,
             \A a \in Accounts : x.acct[a] = y.acct[a],
             x.refund = y.refund, x.logs = y.logs, x.transient = y.transient,
             x.addresses = y.addresses, x.slots = y.slots, x.dirties = y.dirties,
             x.layers = y.layers
      PROVE  x = y
  <2>1. x.acct = y.acct
    BY <1>1, StateFields
  <2>2. x \in StateRecords /\ y \in StateRecords
    BY DEF States
  <2> DEFINE Rec(z) == [acct |-> z.acct, refund |-> z.refund, logs |-> z.logs,
                        transient |-> z.transient, addresses |-> z.addresses,
                        slots |-> z.slots, dirties |-> z.dirties, layers |-> z.layers]
  <2>3. x = Rec(x) /\ y = Rec(y)
    BY <2>2 DEF StateRecords
  <2>4. Rec(x) = Rec(y)
    BY <1>1, <2>1
  <2> QED BY <2>3, <2>4, Zenon
\* Undoing a change of an object replaces the object.
<1>2. ASSUME NEW d0 \in DBType, NEW en, en.kind \in ObjectKinds \ {"createObject"}, en.acct \in Accounts
      PROVE  Revert(d0, en) = [d0 EXCEPT !.obj = [d0.obj EXCEPT ![en.acct] = UndoneObj(d0.obj[en.acct], en)]]
  <2> DEFINE a == en.acct
             o == d0.obj[a]
  <2>1. d0.obj[a] \in Objects /\ d0.obj \in [Accounts -> Objects]
    BY <1>2, DBFields
  <2>2. CASE en.kind = "createContract"
    <3>1. Revert(d0, en) = [d0 EXCEPT !.obj[a].new = FALSE] /\ UndoneObj(o, en) = [o EXCEPT !.new = FALSE]
      BY <2>2, Zenon DEF Revert, UndoneObj
    <3> QED BY <3>1, Zenon DEF DBType
  <2>3. CASE en.kind = "selfDestruct"
    <3>1. /\ Revert(d0, en) = [d0 EXCEPT !.obj[a] = [d0.obj[a] EXCEPT !.destructed = en.flag, !.bal = en.prev]]
          /\ UndoneObj(o, en) = [o EXCEPT !.destructed = en.flag, !.bal = en.prev]
      BY <2>3, Zenon DEF Revert, UndoneObj
    <3> QED BY <3>1, Zenon DEF DBType
  <2>4. CASE en.kind = "balance"
    <3>1. Revert(d0, en) = [d0 EXCEPT !.obj[a].bal = en.prev] /\ UndoneObj(o, en) = [o EXCEPT !.bal = en.prev]
      BY <2>4, Zenon DEF Revert, UndoneObj
    <3> QED BY <3>1, Zenon DEF DBType
  <2>5. CASE en.kind = "nonce"
    <3>1. Revert(d0, en) = [d0 EXCEPT !.obj[a].nonce = en.prev] /\ UndoneObj(o, en) = [o EXCEPT !.nonce = en.prev]
      BY <2>5, Zenon DEF Revert, UndoneObj
    <3> QED BY <3>1, Zenon DEF DBType
  <2>6. CASE en.kind = "code"
    <3>1. Revert(d0, en) = [d0 EXCEPT !.obj[a].code = en.prev] /\ UndoneObj(o, en) = [o EXCEPT !.code = en.prev]
      BY <2>6, Zenon DEF Revert, UndoneObj
    <3> QED BY <3>1, Zenon DEF DBType
  <2>7. CASE en.kind = "storage"
    <3> DEFINE v == IF en.prev = en.orig THEN NoValue ELSE en.prev
    <3>1. Revert(d0, en) = [d0 EXCEPT !.obj[a].dirty = v] /\ UndoneObj(o, en) = [o EXCEPT !.dirty = v]
      BY <2>7, Zenon DEF Revert, UndoneObj, setState
    <3> HIDE DEF v
    <3> QED BY <3>1, Zenon DEF DBType
  <2> QED BY <1>2, <2>2, <2>3, <2>4, <2>5, <2>6, <2>7, Zenon DEF ObjectKinds
\* Revert does what Reverted says, for every kind of entry.
<1>3. ASSUME NEW d0 \in DBType, NEW en \in JournalEntries
      PROVE  /\ Reverted(d0, Revert(d0, en), en) /\ KeepsJournal(d0, Revert(d0, en))
             /\ ChangesTyped(Revert(d0, en)) => Revert(d0, en) \in DBType
  <2> DEFINE r == Revert(d0, en)
  <2> SUFFICES Reverted(d0, r, en) /\ KeepsJournal(d0, r) /\ (ChangesTyped(r) => r \in DBType)
    OBVIOUS
  <2>1. /\ en.kind \in ObjectKinds \union {"refund", "log", "transient", "address", "slot", "precompile"}
        /\ en.kind \in ObjectKinds \union {"transient", "address", "slot"} => en.acct \in Accounts
    BY EntryFacts, Zenon
  <2>2. CASE en.kind = "createObject"
    <3>1. r = [d0 EXCEPT !.live = d0.live \ {en.acct}]
      BY <2>2, Zenon DEF Revert, DBType
    <3> HIDE DEF r
    <3>2. /\ r.live = d0.live \ {en.acct} /\ r.obj = d0.obj /\ r.cache = d0.cache /\ KeepsRegisters(d0, r)
          /\ SameBase(d0, r)
      BY <3>1, Zenon DEF DBType, SameBase,
          KeepsObjects, KeepsRegisters, KeepsRevisions, KeepsJournal
    <3>3. ChangesTyped(r) => r \in DBType
      BY <3>1, <3>2, Zenon DEF ChangesTyped, DBType
    <3> QED BY <2>2, <3>2, <3>3 DEF Reverted, SameBase, KeepsRegisters, UndoneAddresses, UndoneSlots
  <2>3. CASE en.kind \in ObjectKinds \ {"createObject"}
    <3> DEFINE os == [d0.obj EXCEPT ![en.acct] = UndoneObj(d0.obj[en.acct], en)]
    <3>1. r = [d0 EXCEPT !.obj = os]
      BY <2>1, <2>3, <1>2, Zenon
    <3> HIDE DEF r
    <3>2. r.obj = os /\ r.live = d0.live /\ r.cache = d0.cache /\ KeepsRegisters(d0, r) /\ SameBase(d0, r)
      <4> HIDE DEF os
      <4> QED BY <3>1, Zenon DEF DBType, SameBase,
          KeepsObjects, KeepsRegisters, KeepsRevisions, KeepsJournal
    <3>3. ChangesTyped(r) => r \in DBType
      <4> HIDE DEF os
      <4> QED BY <3>1, <3>2, Zenon DEF ChangesTyped, DBType
    <3> QED BY <2>3, <3>2, <3>3 DEF Reverted, SameBase, KeepsRegisters, UndoneAddresses,
        UndoneSlots, ObjectKinds
  <2>4. CASE en.kind = "refund"
    <3>1. r = [d0 EXCEPT !.refund = en.prev]
      BY <2>4, Zenon DEF Revert, DBType
    <3> HIDE DEF r
    <3>2. /\ r.refund = en.prev /\ r.logs = d0.logs /\ r.transient = d0.transient
          /\ r.addresses = d0.addresses /\ r.slots = d0.slots
          /\ KeepsObjects(d0, r) /\ r.cache = d0.cache /\ SameBase(d0, r)
      BY <3>1, Zenon DEF DBType, SameBase,
          KeepsObjects, KeepsRegisters, KeepsRevisions, KeepsJournal
    <3>3. ChangesTyped(r) => r \in DBType
      BY <3>1, <3>2, Zenon DEF ChangesTyped, DBType
    <3> QED BY <2>4, <3>2, <3>3 DEF Reverted, SameBase, KeepsObjects, UndoneAddresses,
        UndoneSlots, ObjectKinds
  <2>5. CASE en.kind = "log"
    <3>1. r = [d0 EXCEPT !.logs = d0.logs - 1]
      BY <2>5, Zenon DEF Revert, DBType
    <3> HIDE DEF r
    <3>2. /\ r.logs = d0.logs - 1 /\ r.refund = d0.refund /\ r.transient = d0.transient
          /\ r.addresses = d0.addresses /\ r.slots = d0.slots
          /\ KeepsObjects(d0, r) /\ r.cache = d0.cache /\ SameBase(d0, r)
      BY <3>1, Zenon DEF DBType, SameBase,
          KeepsObjects, KeepsRegisters, KeepsRevisions, KeepsJournal
    <3>3. ChangesTyped(r) => r \in DBType
      BY <3>1, <3>2, Zenon DEF ChangesTyped, DBType
    <3> QED BY <2>5, <3>2, <3>3 DEF Reverted, SameBase, KeepsObjects, UndoneAddresses,
        UndoneSlots, ObjectKinds
  <2>6. CASE en.kind = "transient"
    <3> DEFINE ts == [d0.transient EXCEPT ![en.acct] = en.prev]
    <3>1. r = [d0 EXCEPT !.transient = ts]
      BY <2>6, Zenon DEF Revert, DBType
    <3> HIDE DEF r
    <3>2. /\ r.transient = ts /\ r.refund = d0.refund /\ r.logs = d0.logs
          /\ r.addresses = d0.addresses /\ r.slots = d0.slots
          /\ KeepsObjects(d0, r) /\ r.cache = d0.cache /\ SameBase(d0, r)
      <4> HIDE DEF ts
      <4> QED BY <3>1, Zenon DEF DBType, SameBase,
          KeepsObjects, KeepsRegisters, KeepsRevisions, KeepsJournal
    <3>3. ChangesTyped(r) => r \in DBType
      <4> HIDE DEF ts
      <4> QED BY <3>1, <3>2, Zenon DEF ChangesTyped, DBType
    <3> QED BY <2>6, <3>2, <3>3 DEF Reverted, SameBase, KeepsObjects, UndoneAddresses,
        UndoneSlots, ObjectKinds
  <2>7. CASE en.kind = "address"
    <3> DEFINE as == [d0.addresses EXCEPT ![en.acct] = NotListed]
    <3>1. r = [d0 EXCEPT !.addresses = as]
      BY <2>7, Zenon DEF Revert, DBType
    <3> HIDE DEF r
    <3>2. /\ r.addresses = as /\ r.refund = d0.refund /\ r.logs = d0.logs
          /\ r.transient = d0.transient /\ r.slots = d0.slots
          /\ KeepsObjects(d0, r) /\ r.cache = d0.cache /\ SameBase(d0, r)
      <4> HIDE DEF as
      <4> QED BY <3>1, Zenon DEF DBType, SameBase,
          KeepsObjects, KeepsRegisters, KeepsRevisions, KeepsJournal
    <3>3. ChangesTyped(r) => r \in DBType
      <4> HIDE DEF as
      <4> QED BY <3>1, <3>2, Zenon DEF ChangesTyped, DBType
    <3> QED BY <2>7, <3>2, <3>3 DEF Reverted, SameBase, KeepsObjects, UndoneAddresses,
        UndoneSlots, ObjectKinds
  <2>8. CASE en.kind = "slot"
    <3> DEFINE i    == d0.addresses[en.acct]
               left == d0.slots[i] \ {en.key}
               vs   == IF left # {} THEN [d0.slots EXCEPT ![i] = left] ELSE SubSeq(d0.slots, 1, i - 1)
               ws   == IF left # {} THEN d0.addresses ELSE [d0.addresses EXCEPT ![en.acct] = NoSlots]
    <3>1. r = DeleteSlot(d0, en.acct, en.key)
      BY <2>8, Zenon DEF Revert
    <3>2. \/ r = [d0 EXCEPT !.slots = vs, !.addresses = ws]
          \/ ws = d0.addresses /\ r = [d0 EXCEPT !.slots = vs]
      <4>1. CASE left # {}
        BY <3>1, <4>1, Zenon DEF DeleteSlot, DBType
      <4>2. CASE ~(left # {})
        <5>1. r = [d0 EXCEPT !.slots = SubSeq(d0.slots, 1, i - 1), !.addresses[en.acct] = NoSlots]
          BY <3>1, <4>2, Zenon DEF DeleteSlot, DBType
        <5>2. vs = SubSeq(d0.slots, 1, i - 1) /\ ws = [d0.addresses EXCEPT ![en.acct] = NoSlots]
          BY <4>2, Zenon
        <5> HIDE DEF vs, ws, i, r
        <5> QED BY <5>1, <5>2, Zenon DEF DBType
      <4> QED BY <4>1, <4>2
    <3>3. /\ r.refund = d0.refund /\ r.logs = d0.logs /\ r.transient = d0.transient
          /\ KeepsObjects(d0, r) /\ r.cache = d0.cache /\ SameBase(d0, r)
      <4> HIDE DEF vs, ws, r
      <4> QED BY <3>2, Zenon DEF DBType, SameBase,
          KeepsObjects, KeepsRegisters, KeepsRevisions, KeepsJournal
    <3>4. r.addresses = UndoneAddresses(d0, en) /\ r.slots = UndoneSlots(d0, en)
      BY <2>8, <3>1, Zenon DEF UndoneAddresses, UndoneSlots
    <3> HIDE DEF r, vs, ws, left, i
    <3>5. ChangesTyped(r) => r \in DBType
      <4>1. CASE r = [d0 EXCEPT !.slots = vs, !.addresses = ws]
        BY <4>1, Zenon DEF ChangesTyped, DBType
      <4>2. CASE r = [d0 EXCEPT !.slots = vs]
        BY <4>2, Zenon DEF ChangesTyped, DBType
      <4> QED BY <3>2, <4>1, <4>2, Zenon
    <3> QED BY <2>8, <3>3, <3>4, <3>5 DEF Reverted, SameBase, KeepsObjects, ObjectKinds
  <2>9. CASE en.kind = "precompile"
    <3> DEFINE ls == SubSeq(d0.cache, 1, en.snapshot + 1)
    <3>1. r = [d0 EXCEPT !.cache = ls]
      BY <2>9, Zenon DEF Revert, RevertMultiStore, DBType
    <3> HIDE DEF r
    <3>2. r.cache = ls /\ KeepsObjects(d0, r) /\ KeepsRegisters(d0, r) /\ SameBase(d0, r)
      <4> HIDE DEF ls
      <4> QED BY <3>1, Zenon DEF DBType, SameBase,
          KeepsObjects, KeepsRegisters, KeepsRevisions, KeepsJournal
    <3>3. ChangesTyped(r) => r \in DBType
      <4> HIDE DEF ls
      <4> QED BY <3>1, <3>2, Zenon DEF ChangesTyped, DBType
    <3> QED BY <2>9, <3>2, <3>3 DEF Reverted, SameBase, KeepsObjects, KeepsRegisters, UndoneAddresses,
        UndoneSlots, ObjectKinds
  <2> QED BY <2>1, <2>2, <2>3, <2>4, <2>5, <2>6, <2>7, <2>8, <2>9, Zenon
\* The fields of the object that undoing a change leaves.
<1>4. ASSUME NEW o \in Objects, NEW en \in JournalEntries,
             en.kind \in ObjectKinds \ {"createObject"}
      PROVE  LET p == UndoneObj(o, en)
             IN  /\ p \in Objects
                 /\ p.bal = IF en.kind \in {"selfDestruct", "balance"} THEN en.prev ELSE o.bal
                 /\ p.nonce = IF en.kind = "nonce" THEN en.prev ELSE o.nonce
                 /\ p.code = IF en.kind = "code" THEN en.prev ELSE o.code
                 /\ p.destructed = IF en.kind = "selfDestruct" THEN en.flag ELSE o.destructed
                 /\ p.new = IF en.kind = "createContract" THEN FALSE ELSE o.new
                 /\ p.origin = o.origin
                 /\ p.dirty = IF en.kind = "storage"
                              THEN IF en.prev = en.orig THEN NoValue ELSE en.prev ELSE o.dirty
  <2> DEFINE p == UndoneObj(o, en)
  <2>1. /\ en.kind \in {"selfDestruct", "balance", "nonce"} => en.prev \in Nat
        /\ en.kind = "selfDestruct" => en.flag \in BOOLEAN
        /\ en.kind \in {"code", "storage"} => en.prev \in Values
    BY EntryFacts, Zenon
  <2>2. CASE en.kind = "createContract"
    <3>1. p = [o EXCEPT !.new = FALSE]
      BY <2>2, Zenon DEF UndoneObj
    <3> QED BY <2>2, <3>1, Zenon DEF Objects
  <2>3. CASE en.kind = "selfDestruct"
    <3>1. p = [o EXCEPT !.destructed = en.flag, !.bal = en.prev]
      BY <2>3, Zenon DEF UndoneObj
    <3> QED BY <2>1, <2>3, <3>1, Zenon DEF Objects
  <2>4. CASE en.kind = "balance"
    <3>1. p = [o EXCEPT !.bal = en.prev]
      BY <2>4, Zenon DEF UndoneObj
    <3> QED BY <2>1, <2>4, <3>1, Zenon DEF Objects
  <2>5. CASE en.kind = "nonce"
    <3>1. p = [o EXCEPT !.nonce = en.prev]
      BY <2>5, Zenon DEF UndoneObj
    <3> QED BY <2>1, <2>5, <3>1, Zenon DEF Objects
  <2>6. CASE en.kind = "code"
    <3>1. p = [o EXCEPT !.code = en.prev]
      BY <2>6, Zenon DEF UndoneObj
    <3> QED BY <2>1, <2>6, <3>1, Zenon DEF Objects
  <2>7. CASE en.kind = "storage"
    <3> DEFINE v == IF en.prev = en.orig THEN NoValue ELSE en.prev
    <3>1. p = [o EXCEPT !.dirty = v]
      BY <2>7, Zenon DEF UndoneObj
    <3>2. v \in Values \union {NoValue}
      BY <2>1, <2>7, Zenon
    <3> HIDE DEF v
    <3>3. /\ p \in Objects /\ p.dirty = v /\ p.bal = o.bal /\ p.nonce = o.nonce /\ p.code = o.code
          /\ p.destructed = o.destructed /\ p.new = o.new /\ p.origin = o.origin
      BY <3>1, <3>2, Zenon DEF Objects
    <3> QED BY <2>7, <3>3, Zenon DEF v
  <2> QED BY <1>4, <2>2, <2>3, <2>4, <2>5, <2>6, <2>7, Zenon DEF ObjectKinds
\* The fields after undoing have their types, and are those of y.
<1>5. ASSUME NEW d0, NEW en, NEW y, Undoable(d0, en, y), NEW r, Reverted(d0, r, en)
      PROVE  ChangesTyped(r) /\ SameRegisters(r, y)
  <2>1. /\ d0 \in DBType /\ d0.journal # << >> /\ en = d0.journal[Len(d0.journal)]
        /\ ObjectsLive(d0) /\ Branched(d0) /\ y \in States /\ Undoes(y, Abs(d0), en, d0.ctx)
    BY <1>5, Zenon DEF Undoable
  <2>2. /\ d0.live \in SUBSET Accounts /\ d0.obj \in [Accounts -> Objects] /\ d0.ctx \in StoreType
        /\ d0.cache \in Seq(StoreType) /\ d0.journal \in Seq(JournalEntries)
    BY <2>1, DBFields, Zenon
  <2>3. Len(d0.journal) \in 1..Len(d0.journal) /\ en \in JournalEntries
    BY <2>1, <2>2
  <2>4. /\ y.refund \in Nat /\ y.logs \in Nat
        /\ y.transient \in [Accounts -> Values] /\ y.addresses \in [Accounts -> Int]
        /\ y.slots \in Seq(SlotLists) /\ y.layers \in Seq(StoreType) /\ y.layers # << >>
    BY <2>1, StateFields, Zenon
  <2>5. r.refund = y.refund /\ r.logs = y.logs /\ r.transient = y.transient
    <3>1. Abs(d0).refund = d0.refund /\ Abs(d0).logs = d0.logs /\ Abs(d0).transient = d0.transient
      BY AbsFields, Zenon
    <3>2. /\ y.refund = IF en.kind = "refund" THEN en.prev ELSE Abs(d0).refund
          /\ y.logs = IF en.kind = "log" THEN Abs(d0).logs - 1 ELSE Abs(d0).logs
          /\ y.transient = IF en.kind = "transient" THEN [Abs(d0).transient EXCEPT ![en.acct] = en.prev]
                           ELSE Abs(d0).transient
      BY <2>1, Zenon DEF Undoes
    <3>3. /\ r.refund = IF en.kind = "refund" THEN en.prev ELSE d0.refund
          /\ r.logs = IF en.kind = "log" THEN d0.logs - 1 ELSE d0.logs
          /\ r.transient = IF en.kind = "transient" THEN [d0.transient EXCEPT ![en.acct] = en.prev]
                           ELSE d0.transient
      BY <1>5, Zenon DEF Reverted
    <3> QED BY <3>1, <3>2, <3>3
  <2>6. r.addresses = y.addresses /\ r.slots = y.slots
    <3>1. y.addresses = UndoneAddresses(Abs(d0), en) /\ y.slots = UndoneSlots(Abs(d0), en)
      BY <2>1, Zenon DEF Undoes
    <3>2. r.addresses = UndoneAddresses(d0, en) /\ r.slots = UndoneSlots(d0, en)
      BY <1>5, Zenon DEF Reverted
    <3> QED BY <2>1, <3>1, <3>2, UndoneSame, Zenon
  <2>7. r.cache \in Seq(StoreType) /\ Layers(r) = y.layers
    <3>1. /\ y.layers = IF en.kind = "precompile" THEN SubSeq(Layers(d0), 1, en.snapshot + 1)
                        ELSE Layers(d0)
      BY <2>1, AbsFields, Zenon DEF Undoes
    <3>2. /\ r.cache = IF en.kind = "precompile" THEN SubSeq(d0.cache, 1, en.snapshot + 1) ELSE d0.cache
          /\ r.ctx = d0.ctx
      BY <1>5, Zenon DEF Reverted
    <3>3. CASE en.kind = "precompile"
      <4>1. Layers(d0) = d0.cache
        BY <2>1, <2>3, <3>3, Zenon DEF Branched, Layers
      <4>2. r.cache = y.layers
        BY <3>1, <3>2, <3>3, <4>1, Zenon
      <4> QED BY <2>4, <4>2, Zenon DEF Layers
    <3>4. CASE en.kind # "precompile"
      BY <2>2, <3>1, <3>2, <3>4, Zenon DEF Layers
    <3> QED BY <3>3, <3>4, Zenon
  <2>8. r.live \in SUBSET Accounts
    <3>1. r.live = IF en.kind = "createObject" THEN d0.live \ {en.acct} ELSE d0.live
      BY <1>5, Zenon DEF Reverted
    <3> QED BY <2>2, <3>1
  <2>9. r.obj \in [Accounts -> Objects]
    <3>1. r.obj = IF en.kind \in ObjectKinds \ {"createObject"}
                  THEN [d0.obj EXCEPT ![en.acct] = UndoneObj(d0.obj[en.acct], en)] ELSE d0.obj
      BY <1>5, Zenon DEF Reverted
    <3>2. CASE en.kind \in ObjectKinds \ {"createObject"}
      <4>1. en.acct \in Accounts
        BY <2>3, <3>2, EntryFacts, Zenon
      <4>2. d0.obj[en.acct] \in Objects
        BY <2>2, <4>1, Zenon
      <4>3. UndoneObj(d0.obj[en.acct], en) \in Objects
        BY <2>3, <3>2, <4>2, <1>4, Zenon
      <4> QED BY <2>2, <3>1, <3>2, <4>1, <4>3
    <3>3. CASE ~(en.kind \in ObjectKinds \ {"createObject"})
      BY <2>2, <3>1, <3>3, Zenon
    <3> QED BY <3>2, <3>3, Zenon
  <2> QED BY <2>3, <2>4, <2>5, <2>6, <2>7, <2>8, <2>9, Zenon DEF ChangesTyped, SameRegisters
\* What is seen of an account after undoing.
<1>6. ASSUME NEW d0, NEW en, NEW y, Undoable(d0, en, y), NEW r, Reverted(d0, r, en)
      PROVE  SameAccounts(r, y)
  <2> SUFFICES ASSUME NEW a \in Accounts PROVE Seen(r, a) = y.acct[a]
    BY Zenon DEF SameAccounts
  <2>1. /\ d0 \in DBType /\ d0.journal # << >> /\ en = d0.journal[Len(d0.journal)]
        /\ ObjectsLive(d0) /\ Undoes(y, Abs(d0), en, d0.ctx)
    BY <1>6, Zenon DEF Undoable
  <2>2. /\ d0.live \in SUBSET Accounts /\ d0.obj \in [Accounts -> Objects] /\ d0.ctx \in StoreType
        /\ d0.journal \in Seq(JournalEntries)
    BY <2>1, DBFields, Zenon
  <2>3. Len(d0.journal) \in 1..Len(d0.journal) /\ en \in JournalEntries
    BY <2>1, <2>2
  <2>4. y.acct[a] = IF en.kind \in ObjectKinds /\ en.acct = a
                    THEN UndoneAcct(Seen(d0, a), en, d0.ctx) ELSE Seen(d0, a)
    BY <2>1, AbsFields, Zenon DEF Undoes
  <2>5. /\ r.ctx = d0.ctx
        /\ r.live = IF en.kind = "createObject" THEN d0.live \ {en.acct} ELSE d0.live
        /\ r.obj = IF en.kind \in ObjectKinds \ {"createObject"}
                   THEN [d0.obj EXCEPT ![en.acct] = UndoneObj(d0.obj[en.acct], en)] ELSE d0.obj
    BY <1>6, Zenon DEF Reverted
  <2>6. CASE en.kind = "createObject" /\ en.acct = a
    <3>1. a \notin r.live
      BY <2>5, <2>6
    <3>2. d0.ctx.acct[a] \in StoredAccounts
      BY <2>2, StoreFields, Zenon
    <3>3. /\ newObject(d0.ctx.acct[a]).bal = d0.ctx.acct[a].bal
          /\ newObject(d0.ctx.acct[a]).nonce = d0.ctx.acct[a].nonce
          /\ newObject(d0.ctx.acct[a]).code = d0.ctx.acct[a].code
          /\ newObject(d0.ctx.acct[a]).destructed = FALSE /\ newObject(d0.ctx.acct[a]).new = FALSE
          /\ d0.ctx.acct[a].exists \in BOOLEAN
      BY <3>2, newObjectType, Zenon
    <3>4. Exist(r, a) = d0.ctx.acct[a].exists
      BY <2>5, <3>1, <3>3, Zenon DEF Exist
    <3>5. Obj(r, a) = newObject(d0.ctx.acct[a])
      BY <2>5, <3>1, Zenon DEF Obj
    <3>6. Seen(r, a) = Stored(d0.ctx.acct[a])
      BY <3>3, <3>4, <3>5, Zenon DEF Seen, Stored
    <3>7. y.acct[a] = Stored(d0.ctx.acct[a])
      BY <2>4, <2>6, Zenon DEF UndoneAcct, ObjectKinds
    <3> QED BY <3>6, <3>7, Zenon
  <2>7. CASE en.kind \in ObjectKinds \ {"createObject"} /\ en.acct = a
    <3>1. a \in d0.live /\ a \in r.live
      BY <2>1, <2>3, <2>5, <2>7, Zenon DEF ObjectsLive
    <3> DEFINE o == d0.obj[a]
               p == UndoneObj(o, en)
    <3>2. r.obj[a] = p /\ o \in Objects
      BY <2>2, <2>5, <2>7
    <3>3. /\ p.bal = IF en.kind \in {"selfDestruct", "balance"} THEN en.prev ELSE o.bal
          /\ p.nonce = IF en.kind = "nonce" THEN en.prev ELSE o.nonce
          /\ p.code = IF en.kind = "code" THEN en.prev ELSE o.code
          /\ p.destructed = IF en.kind = "selfDestruct" THEN en.flag ELSE o.destructed
          /\ p.new = IF en.kind = "createContract" THEN FALSE ELSE o.new
      BY <2>3, <2>7, <3>2, <1>4, Zenon
    <3>4. Obj(r, a) = p /\ Obj(d0, a) = o /\ Exist(r, a) = TRUE /\ Exist(d0, a) = TRUE
      BY <3>1, <3>2, Zenon DEF Obj, Exist
    <3> HIDE DEF p, o
    <3>5. /\ Seen(d0, a).exists = TRUE /\ Seen(d0, a).bal = o.bal /\ Seen(d0, a).nonce = o.nonce
          /\ Seen(d0, a).code = o.code /\ Seen(d0, a).destructed = o.destructed /\ Seen(d0, a).new = o.new
      BY <3>4, SeenFields, Zenon
    <3>6. Seen(r, a) = Row(TRUE, p.bal, p.nonce, p.code, p.destructed, p.new)
      BY <3>4, Zenon DEF Seen
    <3>7. y.acct[a] = Row(TRUE,
               IF en.kind \in {"selfDestruct", "balance"} THEN en.prev ELSE o.bal,
               IF en.kind = "nonce" THEN en.prev ELSE o.nonce,
               IF en.kind = "code" THEN en.prev ELSE o.code,
               IF en.kind = "selfDestruct" THEN en.flag ELSE o.destructed,
               IF en.kind = "createContract" THEN FALSE ELSE o.new)
      BY <2>4, <2>7, <3>5, Zenon DEF UndoneAcct
    <3> QED BY <3>3, <3>6, <3>7, Zenon
  <2>8. CASE ~(en.kind \in ObjectKinds /\ en.acct = a)
    <3>1. a \in r.live <=> a \in d0.live
      <4>1. CASE en.kind = "createObject"
        <5>1. en.acct # a
          BY <2>8, <4>1, Zenon DEF ObjectKinds
        <5> QED BY <2>5, <4>1, <5>1
      <4>2. CASE en.kind # "createObject"
        BY <2>5, <4>2, Zenon
      <4> QED BY <4>1, <4>2, Zenon
    <3>2. r.obj[a] = d0.obj[a]
      <4>1. CASE en.kind \in ObjectKinds \ {"createObject"}
        BY <2>2, <2>5, <2>8, <4>1
      <4>2. CASE ~(en.kind \in ObjectKinds \ {"createObject"})
        BY <2>5, <4>2, Zenon
      <4> QED BY <4>1, <4>2, Zenon
    <3>3. Exist(r, a) = Exist(d0, a) /\ Obj(r, a) = Obj(d0, a)
      BY <2>5, <3>1, <3>2, Zenon DEF Exist, Obj
    <3>4. Seen(r, a) = Seen(d0, a)
      BY <3>3, Zenon DEF Seen
    <3> QED BY <2>4, <2>8, <3>4, Zenon
  <2>9. en.kind \in ObjectKinds /\ en.acct = a =>
          \/ en.kind = "createObject" /\ en.acct = a
          \/ en.kind \in ObjectKinds \ {"createObject"} /\ en.acct = a
    BY Zenon
  <2> QED BY <2>6, <2>7, <2>8, <2>9, Zenon
\* So the state is that before the entry.
<1>7. ASSUME NEW d0, NEW en, NEW y, Undoable(d0, en, y), NEW u0 \in DBType, Reverted(d0, u0, en),
             u0.journal = SubSeq(d0.journal, 1, Len(d0.journal) - 1), u0.dirties = y.dirties
      PROVE  Undone(d0, u0, en, y)
  <2>1. y \in States
    BY <1>7, Zenon DEF Undoable
  <2>2. SameRegisters(u0, y) /\ SameAccounts(u0, y)
    BY <1>7, <1>5, <1>6, Zenon
  <2>3. /\ u0.refund = y.refund /\ u0.logs = y.logs /\ u0.transient = y.transient
        /\ u0.addresses = y.addresses /\ u0.slots = y.slots /\ Layers(u0) = y.layers
    BY <2>2, Zenon DEF SameRegisters
  <2>4. \A a \in Accounts : Seen(u0, a) = y.acct[a]
    BY <2>2, Zenon DEF SameAccounts
  <2>5. Accessible(u0)
    <3>1. Accessible(y)
      BY <2>1, StateFields, Zenon
    <3> QED BY <2>3, <3>1 DEF Accessible
  <2>6. Abs(u0) = y
    <3>1. Abs(u0) \in States
      BY <2>5, AbsType, Zenon
    <3>2. /\ \A a \in Accounts : Abs(u0).acct[a] = y.acct[a]
          /\ Abs(u0).refund = y.refund /\ Abs(u0).logs = y.logs /\ Abs(u0).transient = y.transient
          /\ Abs(u0).addresses = y.addresses /\ Abs(u0).slots = y.slots
          /\ Abs(u0).dirties = y.dirties /\ Abs(u0).layers = y.layers
      BY <1>7, <2>3, <2>4, AbsFields, Zenon
    <3> QED BY <2>1, <3>1, <3>2, <1>1, Zenon
  <2> QED BY <1>7, <2>5, <2>6, Zenon DEF Undone
\* One iteration of the loop of journal.Revert.
<1>8. ASSUME NEW d0, NEW en, NEW y, Undoable(d0, en, y)
      PROVE  Undone(d0, UndoLast(d0), en, y)
  <2> DEFINE r  == Revert(d0, en)
             u0  == UndoLast(d0)
             js == SubSeq(d0.journal, 1, Len(d0.journal) - 1)
             ds == IF en.kind \in Dirtying
                   THEN [d0.dirties EXCEPT ![en.acct] = d0.dirties[en.acct] - 1] ELSE d0.dirties
  <2> SUFFICES Undone(d0, u0, en, y)
    OBVIOUS
  <2>1. /\ d0 \in DBType /\ d0.journal # << >> /\ en = d0.journal[Len(d0.journal)]
        /\ y \in States /\ Undoes(y, Abs(d0), en, d0.ctx)
    BY <1>8, Zenon DEF Undoable
  <2>2. d0.journal \in Seq(JournalEntries)
    BY <2>1, DBFields, Zenon
  <2>3. en \in JournalEntries /\ js \in Seq(JournalEntries)
    BY <2>1, <2>2
  <2>4. Reverted(d0, r, en) /\ KeepsJournal(d0, r) /\ (ChangesTyped(r) => r \in DBType)
    BY <2>1, <2>3, <1>3, Zenon
  <2>5. ChangesTyped(r) /\ r \in DBType
    BY <1>8, <2>4, <1>5, Zenon
  <2>6. ds = y.dirties /\ y.dirties \in [Accounts -> Nat]
    BY <2>1, AbsFields, StateFields, ZenonT(30) DEF Undoes
  <2>7. u0 = [r EXCEPT !.journal = js, !.dirties = ds]
    <3>1. u0 = [r EXCEPT !.journal = SubSeq(r.journal, 1, Len(r.journal) - 1),
                        !.dirties = IF en.kind \in Dirtying
                                    THEN [d0.dirties EXCEPT ![en.acct] = d0.dirties[en.acct] - 1]
                                    ELSE r.dirties]
      BY <2>1, Zenon DEF UndoLast
    <3>2. r.journal = d0.journal /\ r.dirties = d0.dirties
      BY <2>4, Zenon DEF KeepsJournal
    <3> HIDE DEF r, u0
    <3> QED BY <3>1, <3>2, Zenon
  <2> HIDE DEF r, u0, js, ds
  <2>8. /\ u0 \in DBType /\ u0.journal = js /\ u0.dirties = ds
        /\ KeepsRegisters(r, u0) /\ KeepsObjects(r, u0) /\ KeepsStores(r, u0) /\ KeepsRevisions(r, u0)
    BY <2>3, <2>5, <2>6, <2>7, Zenon DEF DBType, KeepsRegisters, KeepsObjects, KeepsStores, KeepsRevisions
  <2>9. Reverted(d0, u0, en)
    BY <2>4, <2>8, Zenon DEF Reverted, KeepsRegisters, KeepsObjects, KeepsStores, KeepsRevisions
  <2> QED BY <1>8, <2>6, <2>8, <2>9, <1>7, Zenon DEF js
\* This is what undoing leaves.
<1>9. ASSUME NEW d0, NEW en, NEW y, Undoable(d0, en, y), NEW u0, Undone(d0, u0, en, y), NEW a \in Accounts
      PROVE  UndoneObject(d0, u0, en, a)
  <2>1. /\ d0 \in DBType /\ d0.journal # << >> /\ en = d0.journal[Len(d0.journal)] /\ ObjectsLive(d0)
    BY <1>9, Zenon DEF Undoable
  <2>2. d0.obj \in [Accounts -> Objects] /\ d0.journal \in Seq(JournalEntries)
    BY <2>1, DBFields, Zenon
  <2>3. Len(d0.journal) \in 1..Len(d0.journal) /\ en \in JournalEntries
    BY <2>1, <2>2
  <2>4. /\ u0.ctx = d0.ctx
        /\ u0.live = IF en.kind = "createObject" THEN d0.live \ {en.acct} ELSE d0.live
        /\ u0.obj = IF en.kind \in ObjectKinds \ {"createObject"}
                   THEN [d0.obj EXCEPT ![en.acct] = UndoneObj(d0.obj[en.acct], en)] ELSE d0.obj
    BY <1>9, Zenon DEF Undone, Reverted
  <2>5. a \in u0.live <=> a \in d0.live /\ ~(en.kind = "createObject" /\ en.acct = a)
    <3>1. CASE en.kind = "createObject"
      BY <2>4, <3>1
    <3>2. CASE en.kind # "createObject"
      BY <2>4, <3>2, Zenon
    <3> QED BY <3>1, <3>2, Zenon
  <2>6. en.kind \in ObjectKinds /\ en.acct = a => a \in d0.live
    BY <2>1, <2>3, Zenon DEF ObjectsLive
  <2>7. /\ u0.obj[a].origin = d0.obj[a].origin
        /\ u0.obj[a].dirty = IF en.kind = "storage" /\ en.acct = a
                            THEN IF en.prev = en.orig THEN NoValue ELSE en.prev
                            ELSE d0.obj[a].dirty
    <3>1. CASE en.kind \in ObjectKinds \ {"createObject"} /\ en.acct = a
      <4>1. u0.obj[a] = UndoneObj(d0.obj[a], en) /\ d0.obj[a] \in Objects
        BY <2>2, <2>4, <3>1
      <4>2. /\ UndoneObj(d0.obj[a], en).origin = d0.obj[a].origin
            /\ UndoneObj(d0.obj[a], en).dirty = IF en.kind = "storage"
                              THEN IF en.prev = en.orig THEN NoValue ELSE en.prev ELSE d0.obj[a].dirty
        BY <2>3, <3>1, <4>1, <1>4, Zenon
      <4> QED BY <3>1, <4>1, <4>2, Zenon
    <3>2. CASE ~(en.kind \in ObjectKinds \ {"createObject"} /\ en.acct = a)
      <4>1. u0.obj[a] = d0.obj[a]
        <5>1. CASE en.kind \in ObjectKinds \ {"createObject"}
          BY <2>2, <2>4, <3>2, <5>1
        <5>2. CASE ~(en.kind \in ObjectKinds \ {"createObject"})
          BY <2>4, <5>2, Zenon
        <5> QED BY <5>1, <5>2, Zenon
      <4>2. ~(en.kind = "storage" /\ en.acct = a)
        BY <3>2, Zenon DEF ObjectKinds
      <4> QED BY <4>1, <4>2, Zenon
    <3> QED BY <3>1, <3>2, Zenon
  <2> QED BY <2>3, <2>4, <2>5, <2>6, <2>7, Zenon DEF UndoneObject
\* The slot of an account that was not flushed is undone like the rest.
<1>10. ASSUME NEW d0, NEW en, NEW y, Undoable(d0, en, y), NEW u0, Undone(d0, u0, en, y), Unflushed(d0),
              NEW a \in Accounts \ d0.flushed
       PROVE  GetState(u0, a) = UndoneSlot(GetState(d0, a), en, a, d0.ctx)
  <2>1. /\ en \in JournalEntries /\ u0.ctx = d0.ctx
        /\ a \in u0.live <=> a \in d0.live /\ ~(en.kind = "createObject" /\ en.acct = a)
        /\ en.kind \in ObjectKinds /\ en.acct = a => a \in d0.live
        /\ u0.obj[a].origin = d0.obj[a].origin
        /\ u0.obj[a].dirty = IF en.kind = "storage" /\ en.acct = a
                            THEN IF en.prev = en.orig THEN NoValue ELSE en.prev
                            ELSE d0.obj[a].dirty
    <3>1. a \in Accounts
      OBVIOUS
    <3>2. UndoneObject(d0, u0, en, a)
      BY <1>10, <3>1, <1>9, Zenon
    <3> QED BY <3>2, Zenon DEF UndoneObject
  <2>2. a \in d0.live => d0.obj[a].origin = NoValue
    BY <1>10, Zenon DEF Unflushed
  <2>3. CASE en.kind = "storage" /\ en.acct = a
    <3>1. en.orig = d0.ctx.acct[a].slot
      <4>1. /\ d0 \in DBType /\ d0.journal # << >> /\ en = d0.journal[Len(d0.journal)]
        BY <1>10, Zenon DEF Undoable
      <4>2. d0.journal \in Seq(JournalEntries)
        BY <4>1, DBFields, Zenon
      <4>3. Len(d0.journal) \in 1..Len(d0.journal)
        BY <4>1, <4>2
      <4> QED BY <1>10, <2>3, <4>1, <4>3, Zenon DEF Unflushed
    <3>2. a \in d0.live /\ a \in u0.live
      BY <2>1, <2>3, Zenon DEF ObjectKinds
    <3>3. en.prev # NoValue
      <4>1. en.prev \in Values
        BY <2>1, <2>3, EntryFacts, Zenon
      <4> QED BY <4>1, ValuesAssumption DEF NoValue
    <3>4. /\ u0.obj[a].dirty = IF en.prev = en.orig THEN NoValue ELSE en.prev
          /\ u0.obj[a].origin = NoValue
      BY <2>1, <2>2, <2>3, <3>2, Zenon
    <3>5. GetState(u0, a) = IF u0.obj[a].dirty # NoValue THEN u0.obj[a].dirty ELSE u0.ctx.acct[a].slot
      BY <3>2, <3>4, Zenon DEF GetState, GetCommittedState
    <3>6. GetState(u0, a) = en.prev
      BY <2>1, <3>1, <3>3, <3>4, <3>5, Zenon
    <3> QED BY <2>3, <3>6, Zenon DEF UndoneSlot
  <2>4. CASE en.kind = "createObject" /\ en.acct = a
    <3>1. a \notin u0.live
      BY <2>1, <2>4, Zenon
    <3>2. GetState(u0, a) = d0.ctx.acct[a].slot
      BY <2>1, <3>1, Zenon DEF GetState, GetCommittedState
    <3>3. en.kind # "storage"
      BY <2>4, Zenon
    <3> QED BY <2>4, <3>2, <3>3, Zenon DEF UndoneSlot
  <2>5. CASE ~(en.kind = "storage" /\ en.acct = a) /\ ~(en.kind = "createObject" /\ en.acct = a)
    <3>1. (a \in u0.live <=> a \in d0.live) /\ u0.obj[a].dirty = d0.obj[a].dirty
      BY <2>1, <2>5, Zenon
    <3>2. GetState(u0, a) = GetState(d0, a)
      BY <2>1, <3>1, Zenon DEF GetState, GetCommittedState
    <3> QED BY <2>5, <3>2, Zenon DEF UndoneSlot
  <2> QED BY <2>3, <2>4, <2>5, Zenon
\* The journal without its last entry.
<1>11. ASSUME NEW d0 \in DBType, d0.journal # << >>, NEW j, j = SubSeq(d0.journal, 1, Len(d0.journal) - 1)
       PROVE  /\ Len(d0.journal) \in Nat \ {0} /\ Len(j) = Len(d0.journal) - 1
              /\ \A i \in 1..(Len(d0.journal) - 1) : j[i] = d0.journal[i] /\ i \in 1..Len(d0.journal)
  <2>1. d0.journal \in Seq(JournalEntries)
    BY DBFields, Zenon
  <2> QED BY <1>11, <2>1
\* Undoing keeps these parts.
<1>12. ASSUME NEW d0, NEW en, NEW y, Undoable(d0, en, y), NEW u0, Undone(d0, u0, en, y), Unflushed(d0),
              NEW m0 \in Nat \ {0}, RevisionsInOrder(d0, m0), Len(d0.journal) > d0.revisions[m0].index
       PROVE  UndoneParts(u0, m0)
  <2> DEFINE n == Len(d0.journal)
  <2>1. /\ d0 \in DBType /\ d0.journal # << >> /\ en = d0.journal[n] /\ ObjectsLive(d0) /\ Branched(d0)
        /\ Undoes(y, Abs(d0), en, d0.ctx)
    BY <1>12, Zenon DEF Undoable
  <2>2. /\ u0.ctx = d0.ctx /\ u0.flushed = d0.flushed /\ u0.revisions = d0.revisions
        /\ u0.journal = SubSeq(d0.journal, 1, n - 1)
        /\ u0.cache = IF en.kind = "precompile" THEN SubSeq(d0.cache, 1, en.snapshot + 1) ELSE d0.cache
        /\ u0 \in DBType
    BY <1>12, Zenon DEF Undone, Reverted, KeepsRevisions
  <2>3. /\ n \in Nat \ {0} /\ Len(u0.journal) = n - 1 /\ n \in 1..n
        /\ \A i \in 1..(n - 1) : u0.journal[i] = d0.journal[i] /\ i \in 1..n
    <3>1. /\ n \in Nat \ {0} /\ Len(u0.journal) = n - 1
          /\ \A i \in 1..(n - 1) : u0.journal[i] = d0.journal[i] /\ i \in 1..n
      BY <2>1, <2>2, <1>11, Zenon
    <3> QED BY <3>1
  <2>4. \A a \in Accounts :
           /\ a \in u0.live <=> a \in d0.live /\ ~(en.kind = "createObject" /\ en.acct = a)
           /\ u0.obj[a].origin = d0.obj[a].origin
    <3>1. \A a \in Accounts : UndoneObject(d0, u0, en, a)
      BY <1>12, <1>9, Zenon
    <3> QED BY <3>1, Zenon DEF UndoneObject
  <2>5. d0.live \subseteq Accounts /\ u0.live \subseteq Accounts
    BY <2>1, <2>2, DBFields, Zenon
  <2> HIDE DEF n
  <2>6. ObjectsLive(u0)
    <3>1. SUFFICES ASSUME NEW i \in 1..(n - 1), u0.journal[i].kind \in ObjectKinds
                   PROVE  /\ u0.journal[i].acct \in u0.live
                          /\ u0.journal[i].kind = "createObject" =>
                                \A j \in 1..(i - 1) :
                                   u0.journal[j].kind \in ObjectKinds => u0.journal[j].acct # u0.journal[i].acct
      BY <2>3, <3>1, Zenon DEF ObjectsLive
    <3>2. u0.journal[i] = d0.journal[i] /\ i \in 1..n
      BY <2>3, Zenon
    <3>3. /\ d0.journal[i].acct \in d0.live
          /\ d0.journal[i].kind = "createObject" =>
                \A j \in 1..(i - 1) :
                   d0.journal[j].kind \in ObjectKinds => d0.journal[j].acct # d0.journal[i].acct
      BY <2>1, <3>1, <3>2, Zenon DEF ObjectsLive, n
    <3>4. en.kind = "createObject" => d0.journal[i].acct # en.acct
      <4>1. en.kind = "createObject" =>
                \A j \in 1..(n - 1) : d0.journal[j].kind \in ObjectKinds => d0.journal[j].acct # en.acct
        BY <2>1, <2>3, Zenon DEF ObjectsLive, n, ObjectKinds
      <4> QED BY <3>1, <3>2, <4>1, Zenon
    <3>5. d0.journal[i].acct \in u0.live
      BY <2>4, <2>5, <3>3, <3>4, Zenon
    <3>6. \A j \in 1..(i - 1) : u0.journal[j] = d0.journal[j]
      <4>1. \A j \in 1..(i - 1) : j \in 1..(n - 1)
        BY <2>3
      <4> QED BY <2>3, <4>1, Zenon
    <3> QED BY <3>2, <3>3, <3>5, <3>6, Zenon
  <2>7. Unflushed(u0)
    <3>1. \A a \in u0.live \ u0.flushed : u0.obj[a].origin = NoValue
      BY <1>12, <2>2, <2>4, <2>5, Zenon DEF Unflushed
    <3>2. \A i \in 1..(n - 1) :
            u0.journal[i].kind = "storage" /\ u0.journal[i].acct \notin u0.flushed =>
               u0.journal[i].orig = u0.ctx.acct[u0.journal[i].acct].slot
      <4>1. \A i \in 1..n :
               d0.journal[i].kind = "storage" /\ d0.journal[i].acct \notin d0.flushed =>
                  d0.journal[i].orig = d0.ctx.acct[d0.journal[i].acct].slot
        BY <1>12, Zenon DEF Unflushed, n
      <4> QED BY <2>2, <2>3, <4>1, Zenon
    <3> QED BY <2>3, <3>1, <3>2, Zenon DEF Unflushed
  <2>8. Branched(u0)
    <3>1. SUFFICES ASSUME NEW i \in 1..(n - 1), u0.journal[i].kind = "precompile"
                   PROVE  u0.cache # << >>
      BY <2>3, <3>1, Zenon DEF Branched
    <3>2. d0.cache # << >>
      BY <2>1, <2>3, <3>1, Zenon DEF Branched, n
    <3>3. CASE en.kind = "precompile"
      <4>1. Layers(d0) = d0.cache /\ Abs(d0).layers = Layers(d0)
        BY <3>2, AbsFields, Zenon DEF Layers
      <4>2. en.snapshot + 2 <= Len(d0.cache)
        BY <2>1, <3>3, <4>1, Zenon DEF Undoes
      <4>3. d0.cache \in Seq(StoreType) /\ en.snapshot \in Nat
        <5>1. en \in JournalEntries
          <6>1. d0.journal \in Seq(JournalEntries)
            BY <2>1, DBFields, Zenon
          <6> QED BY <2>1, <2>3, <6>1 DEF n
        <5> QED BY <2>1, <3>3, <5>1, DBFields, EntryFacts, Zenon
      <4>4. Len(SubSeq(d0.cache, 1, en.snapshot + 1)) = en.snapshot + 1
        BY <4>2, <4>3
      <4>5. u0.cache = SubSeq(d0.cache, 1, en.snapshot + 1)
        BY <2>2, <3>3, Zenon
      <4>6. Len(u0.cache) = en.snapshot + 1 /\ en.snapshot + 1 # 0
        BY <4>3, <4>4, <4>5
      <4> QED BY <4>6
    <3>4. CASE en.kind # "precompile"
      BY <2>2, <3>2, <3>4, Zenon
    <3> QED BY <3>3, <3>4, Zenon
  <2>9. RevisionsInOrder(u0, m0)
    <3>1. /\ m0 \in 0..Len(d0.revisions)
          /\ \A i, j \in 1..m0 : i <= j => d0.revisions[i].index <= d0.revisions[j].index
      BY <1>12, Zenon DEF RevisionsInOrder
    <3>2. \A i \in 1..m0 : d0.revisions[i].index \in Nat
      <4>1. \A i \in 1..m0 : d0.revisions[i].index \in 0..Len(d0.journal)
        BY <1>12, <2>1, RevisionFacts, Zenon
      <4> QED BY <4>1
    <3>3. \A i \in 1..m0 : d0.revisions[i].index <= n - 1
      <4>1. SUFFICES ASSUME NEW i \in 1..m0 PROVE d0.revisions[i].index <= n - 1
        BY <4>1, Zenon
      <4>2. m0 \in 1..m0 /\ i <= m0
        BY <1>12, <4>1
      <4>3. d0.revisions[i].index <= d0.revisions[m0].index /\ d0.revisions[m0].index \in Nat
            /\ d0.revisions[i].index \in Nat
        BY <3>1, <3>2, <4>2, Zenon
      <4> QED BY <1>12, <2>3, <4>3 DEF n
    <3> QED BY <1>12, <2>2, <2>3, <3>1, <3>3, Zenon DEF RevisionsInOrder
  <2> QED BY <2>6, <2>7, <2>8, <2>9, Zenon DEF UndoneParts
\* The indices of the revisions that stay are within the journal that stays.
<1>13. ASSUME NEW u0 \in DBType, NEW m0, RevisionsInOrder(u0, m0)
       PROVE  Len(u0.journal) \in Nat /\ \A i \in 1..m0 : u0.revisions[i].index \in 0..Len(u0.journal)
  <2>1. u0.journal \in Seq(JournalEntries)
    BY DBFields, Zenon
  <2>2. \A i \in 1..m0 : u0.revisions[i].index \in 0..Len(u0.journal)
    BY <1>13, RevisionFacts, Zenon
  <2> QED BY <2>1, <2>2
\* The history of accounts without its last state.
<1>14. ASSUME NEW d0, NEW m0, NEW h, Traces(h, d0, m0), NEW n, n = Len(d0.journal), n \in Nat \ {0},
              NEW u0 \in DBType, RevisionsInOrder(u0, m0), Len(u0.journal) = n - 1, Abs(u0) = h[n - 1],
              \A i \in 1..(n - 1) : u0.journal[i] = d0.journal[i],
              u0.ctx = d0.ctx, u0.flushed = d0.flushed, u0.revisions = d0.revisions
       PROVE  \E h2 : Traces(h2, u0, m0)
  <2>1. /\ h \in [0..n -> States] /\ Len(h[0].layers) = 1 /\ Clean(h[0]) = Accounts
        /\ \A k \in 1..n : Undoes(h[k - 1], h[k], d0.journal[k], d0.ctx)
        /\ \A i \in 1..m0 :
              /\ Shows(d0.revisions[i].view, h[d0.revisions[i].index])
              /\ Settled(d0.revisions[i].view, d0.ctx, d0.flushed, Clean(h[d0.revisions[i].index]))
    BY <1>14, Zenon DEF Traces
  <2>2. \A i \in 1..m0 : d0.revisions[i].index \in 0..(n - 1)
    BY <1>14, <1>13, Zenon
  <2> DEFINE h2 == [k \in 0..(n - 1) |-> h[k]]
  <2>3. h2 \in [0..(n - 1) -> States] /\ \A k \in 0..(n - 1) : h2[k] = h[k]
    BY <1>14, <2>1
  <2> HIDE DEF h2
  <2>4. h2[0] = h[0] /\ h2[n - 1] = h[n - 1]
    <3>1. 0 \in 0..(n - 1) /\ n - 1 \in 0..(n - 1)
      BY <1>14
    <3> QED BY <2>3, <3>1, Zenon
  <2>5. \A k \in 1..(n - 1) : Undoes(h2[k - 1], h2[k], u0.journal[k], u0.ctx)
    <3>1. \A k \in 1..(n - 1) : k \in 1..n /\ k \in 0..(n - 1) /\ k - 1 \in 0..(n - 1)
      BY <1>14
    <3> QED BY <1>14, <2>1, <2>3, <3>1, Zenon
  <2>6. \A i \in 1..m0 :
           /\ Shows(u0.revisions[i].view, h2[u0.revisions[i].index])
           /\ Settled(u0.revisions[i].view, u0.ctx, u0.flushed, Clean(h2[u0.revisions[i].index]))
    <3>1. \A i \in 1..m0 : h2[d0.revisions[i].index] = h[d0.revisions[i].index]
      BY <2>2, <2>3, Zenon
    <3> QED BY <1>14, <2>1, <3>1, Zenon
  <2>7. Traces(h2, u0, m0)
    BY <1>14, <2>1, <2>3, <2>4, <2>5, <2>6, Zenon DEF Traces
  <2> QED BY <2>7, Zenon
\* The same for the history of a slot.
<1>15. ASSUME NEW d0, NEW m0, NEW a, NEW g, SlotTraces(g, d0, m0, a), NEW n, n = Len(d0.journal),
              n \in Nat \ {0}, NEW u0 \in DBType, RevisionsInOrder(u0, m0), Len(u0.journal) = n - 1,
              GetState(u0, a) = UndoneSlot(GetState(d0, a), d0.journal[n], a, d0.ctx),
              \A i \in 1..(n - 1) : u0.journal[i] = d0.journal[i],
              u0.ctx = d0.ctx, u0.revisions = d0.revisions
       PROVE  \E g2 : SlotTraces(g2, u0, m0, a)
  <2>1. /\ g \in [0..n -> Values] /\ g[n] = GetState(d0, a)
        /\ \A k \in 1..n : g[k - 1] = UndoneSlot(g[k], d0.journal[k], a, d0.ctx)
        /\ \A i \in 1..m0 : d0.revisions[i].view.acct[a].slot = g[d0.revisions[i].index]
    BY <1>15, Zenon DEF SlotTraces
  <2>2. \A i \in 1..m0 : u0.revisions[i].index \in 0..(n - 1)
    BY <1>15, <1>13, Zenon
  <2> DEFINE g2 == [k \in 0..(n - 1) |-> g[k]]
  <2>3. g2 \in [0..(n - 1) -> Values] /\ \A k \in 0..(n - 1) : g2[k] = g[k]
    BY <1>15, <2>1
  <2> HIDE DEF g2
  <2>4. g2[n - 1] = GetState(u0, a)
    <3>1. n \in 1..n /\ n - 1 \in 0..(n - 1)
      BY <1>15
    <3> QED BY <1>15, <2>1, <2>3, <3>1, Zenon
  <2>5. \A k \in 1..(n - 1) : g2[k - 1] = UndoneSlot(g2[k], u0.journal[k], a, u0.ctx)
    <3>1. \A k \in 1..(n - 1) : k \in 1..n /\ k \in 0..(n - 1) /\ k - 1 \in 0..(n - 1)
      BY <1>15
    <3>2. SUFFICES ASSUME NEW k \in 1..(n - 1)
                   PROVE  g2[k - 1] = UndoneSlot(g2[k], u0.journal[k], a, u0.ctx)
      BY <3>2, Zenon
    <3>3. g2[k - 1] = g[k - 1] /\ g2[k] = g[k] /\ u0.journal[k] = d0.journal[k] /\ k \in 1..n
      BY <1>15, <2>3, <3>1, Zenon
    <3> QED BY <1>15, <2>1, <3>3, Zenon
  <2>6. \A i \in 1..m0 : u0.revisions[i].view.acct[a].slot = g2[u0.revisions[i].index]
    <3>1. \A i \in 1..m0 : g2[u0.revisions[i].index] = g[u0.revisions[i].index]
      BY <2>2, <2>3, Zenon
    <3>2. \A i \in 1..m0 : u0.revisions[i].view.acct[a].slot = g[u0.revisions[i].index]
      BY <1>15, <2>1, Zenon
    <3> QED BY <3>1, <3>2
  <2>7. SlotTraces(g2, u0, m0, a)
    BY <1>15, <2>3, <2>4, <2>5, <2>6, Zenon DEF SlotTraces
  <2> QED BY <2>7, Zenon
<1> DEFINE n  == Len(d.journal)
           en == d.journal[n]
<1>16. /\ d \in DBType /\ Accessible(d) /\ ObjectsLive(d) /\ Unflushed(d) /\ Branched(d)
      /\ RevisionsInOrder(d, m)
      /\ \A a \in Accounts \ d.flushed : \E g : SlotTraces(g, d, m, a)
  BY Zenon DEF DbOK
<1>17. n \in Nat \ {0} /\ d.journal # << >>
  <2>1. d.journal \in Seq(JournalEntries) /\ m \in 1..m
    BY <1>16, DBFields
  <2>2. d.revisions[m].index \in 0..n
    BY <1>16, <2>1, RevisionFacts, Zenon
  <2> QED BY <2>1, <2>2
<1>18. PICK h : Traces(h, d, m)
  BY Zenon DEF DbOK
<1> HIDE DEF n, en
<1>19. /\ h \in [0..n -> States] /\ h[n] = Abs(d)
      /\ \A k \in 1..n : Undoes(h[k - 1], h[k], d.journal[k], d.ctx)
  BY <1>18, Zenon DEF Traces, n
<1>20. Undoable(d, en, h[n - 1])
  <2>1. n - 1 \in 0..n /\ n \in 1..n
    BY <1>17
  <2>2. h[n - 1] \in States
    BY <1>19, <2>1, Zenon
  <2>3. Undoes(h[n - 1], Abs(d), en, d.ctx)
    BY <1>19, <2>1, Zenon DEF en
  <2> QED BY <1>16, <1>17, <2>2, <2>3, Zenon DEF Undoable, en, n
<1>21. Undone(d, u, en, h[n - 1])
  BY <1>20, <1>8, Zenon
<1>22. UndoneParts(u, m)
  <2>1. Len(d.journal) > d.revisions[m].index /\ m \in Nat \ {0}
    OBVIOUS
  <2> QED BY <1>16, <1>20, <1>21, <2>1, <1>12, Zenon
<1>23. /\ u \in DBType /\ Accessible(u) /\ Abs(u) = h[n - 1] /\ u.ctx = d.ctx /\ u.flushed = d.flushed
      /\ u.revisions = d.revisions /\ u.journal = SubSeq(d.journal, 1, n - 1)
  BY <1>21, Zenon DEF Undone, Reverted, KeepsRevisions, n
<1>24. Len(u.journal) = n - 1 /\ \A i \in 1..(n - 1) : u.journal[i] = d.journal[i]
  BY <1>16, <1>17, <1>23, <1>11, Zenon DEF n
<1>25. ObjectsLive(u) /\ Unflushed(u) /\ Branched(u) /\ RevisionsInOrder(u, m)
  BY <1>22, Zenon DEF UndoneParts
<1>26. \E h2 : Traces(h2, u, m)
  BY <1>17, <1>18, <1>23, <1>24, <1>25, <1>14, Zenon DEF n
<1>27. \A a \in Accounts \ u.flushed : \E g : SlotTraces(g, u, m, a)
  <2>1. SUFFICES ASSUME NEW a \in Accounts \ u.flushed PROVE \E g : SlotTraces(g, u, m, a)
    BY <2>1, Zenon
  <2>2. a \in Accounts \ d.flushed
    BY <1>23, <2>1
  <2>3. PICK g : SlotTraces(g, d, m, a)
    BY <1>16, <2>2, Zenon
  <2>4. GetState(u, a) = UndoneSlot(GetState(d, a), en, a, d.ctx)
    BY <1>16, <1>20, <1>21, <2>2, <1>10, Zenon
  <2> QED BY <1>17, <1>23, <1>24, <1>25, <2>3, <2>4, <1>15, Zenon DEF n, en
<1> QED BY <1>23, <1>25, <1>26, <1>27, Zenon DEF DbOK

(***************************************************************************)
(* Snapshots.                                                              *)
(***************************************************************************)
\* The state between two operations of the EVM.
Ready(d) ==
    /\ DbOK(d, Len(d.revisions))
    /\ Settled(View(d), d.ctx, d.flushed, Clean(d))

(***************************************************************************)
(* Snapshots.                                                              *)
(***************************************************************************)
\* The accounts that are clean, of a StateDB and of its state.
LEMMA CleanAbs ==
    ASSUME NEW d
    PROVE  Clean(Abs(d)) = Clean(d) /\ Clean(d) \subseteq Accounts
BY AbsFields, Zenon DEF Clean

\* The state that is shown depends on neither revisions nor counters.
LEMMA AbsSame ==
    ASSUME NEW d, NEW e, KeepsRegisters(d, e), KeepsObjects(d, e), KeepsJournal(d, e),
           e.ctx = d.ctx, e.cache = d.cache
    PROVE  /\ Abs(e) = Abs(d) /\ Current(e) = Current(d)
           /\ \A a : Seen(e, a) = Seen(d, a) /\ GetState(e, a) = GetState(d, a)
<1>1. /\ e.live = d.live /\ e.obj = d.obj /\ e.refund = d.refund /\ e.logs = d.logs
      /\ e.transient = d.transient /\ e.addresses = d.addresses /\ e.slots = d.slots
      /\ e.dirties = d.dirties
  BY Zenon DEF KeepsRegisters, KeepsObjects, KeepsJournal
<1>2. \A a : Seen(e, a) = Seen(d, a) /\ GetState(e, a) = GetState(d, a)
  BY <1>1, Zenon DEF Seen, Obj, Exist, GetState, GetCommittedState
<1>3. Layers(e) = Layers(d) /\ Current(e) = Current(d)
  BY Zenon DEF Layers, Current
<1>4. [a \in Accounts |-> Seen(e, a)] = [a \in Accounts |-> Seen(d, a)]
  BY <1>2
<1>5. Abs(e) = Abs(d)
  BY <1>1, <1>3, <1>4, Zenon DEF Abs
<1> QED BY <1>2, <1>3, <1>5, Zenon

\* The view is that of the state.
LEMMA ViewSame ==
    ASSUME NEW d, NEW e, KeepsRegisters(d, e), KeepsObjects(d, e),
           e.ctx = d.ctx, e.cache = d.cache
    PROVE  View(e) = View(d)
<1>1. /\ e.live = d.live /\ e.obj = d.obj /\ e.refund = d.refund /\ e.logs = d.logs
      /\ e.transient = d.transient /\ e.addresses = d.addresses /\ e.slots = d.slots
  BY Zenon DEF KeepsRegisters, KeepsObjects
<1>2. \A a : Exist(e, a) = Exist(d, a) /\ GetState(e, a) = GetState(d, a)
  BY <1>1, Zenon DEF Exist, GetState, GetCommittedState
<1>3. Current(e) = Current(d)
  BY Zenon DEF Current
<1> QED BY <1>1, <1>2, <1>3, Zenon DEF View

\* Snapshot records the state there is.
LEMMA SnapshotOK ==
    ASSUME NEW d, Ready(d), NEW e, e = Snapshot(d)
    PROVE  Ready(e)
\* What Snapshot changes.
<1>1. ASSUME NEW d0 \in DBType, Accessible(d0), NEW e0, e0 = Snapshot(d0)
      PROVE  /\ e0 \in DBType
             /\ KeepsRegisters(d0, e0) /\ KeepsStores(d0, e0) /\ KeepsObjects(d0, e0) /\ KeepsJournal(d0, e0)
             /\ Len(e0.revisions) = Len(d0.revisions) + 1 /\ Len(d0.revisions) \in Nat
             /\ \A i \in 1..Len(d0.revisions) : e0.revisions[i] = d0.revisions[i]
             /\ e0.revisions[Len(d0.revisions) + 1].index = Len(d0.journal)
             /\ e0.revisions[Len(d0.revisions) + 1].view = View(d0)
  <2> DEFINE r  == [id |-> d0.next, index |-> Len(d0.journal), view |-> View(d0)]
             rs == Append(d0.revisions, r)
             nx == d0.next + 1
  <2>1. d0.next \in Nat /\ d0.journal \in Seq(JournalEntries) /\ d0.revisions \in Seq(Revisions)
    BY DBFields, Zenon
  <2>2. View(d0) \in Views
    BY <1>1, ViewShows, Zenon
  <2>3. r \in Revisions /\ r.index = Len(d0.journal) /\ r.view = View(d0)
    BY <2>1, <2>2 DEF Revisions
  <2>4. e0 = [d0 EXCEPT !.revisions = rs, !.next = nx]
    BY <1>1, Zenon DEF Snapshot
  <2> HIDE DEF r
  <2>5. /\ rs \in Seq(Revisions) /\ Len(rs) = Len(d0.revisions) + 1 /\ nx \in Nat
        /\ \A i \in 1..Len(d0.revisions) : rs[i] = d0.revisions[i]
        /\ rs[Len(d0.revisions) + 1] = r /\ Len(d0.revisions) \in Nat
    BY <2>1, <2>3
  <2> HIDE DEF rs, nx
  <2>6. e0 \in DBType /\ e0.revisions = rs
    BY <2>4, <2>5, Zenon DEF DBType
  <2>7. KeepsRegisters(d0, e0) /\ KeepsStores(d0, e0) /\ KeepsObjects(d0, e0) /\ KeepsJournal(d0, e0)
    BY <2>4, Zenon DEF DBType, KeepsRegisters, KeepsStores, KeepsObjects, KeepsJournal
  <2> QED BY <2>3, <2>5, <2>6, <2>7, Zenon
<1> DEFINE m == Len(d.revisions)
           n == Len(d.journal)
<1>2. /\ d \in DBType /\ Accessible(d) /\ ObjectsLive(d) /\ Unflushed(d) /\ Branched(d)
      /\ RevisionsInOrder(d, m)
  BY Zenon DEF Ready, DbOK
<1>3. /\ e \in DBType
      /\ KeepsRegisters(d, e) /\ KeepsStores(d, e) /\ KeepsObjects(d, e) /\ KeepsJournal(d, e)
      /\ Len(e.revisions) = m + 1 /\ m \in Nat
      /\ \A i \in 1..m : e.revisions[i] = d.revisions[i]
      /\ e.revisions[m + 1].index = n /\ e.revisions[m + 1].view = View(d)
  BY <1>2, <1>1, Zenon
<1>4. /\ e.addresses = d.addresses /\ e.slots = d.slots /\ e.ctx = d.ctx /\ e.cache = d.cache
      /\ e.flushed = d.flushed /\ e.journal = d.journal /\ e.live = d.live /\ e.obj = d.obj
      /\ e.dirties = d.dirties
  BY <1>3, Zenon DEF KeepsRegisters, KeepsStores, KeepsObjects, KeepsJournal
<1>5. /\ Abs(e) = Abs(d)
      /\ \A a : Seen(e, a) = Seen(d, a) /\ GetState(e, a) = GetState(d, a)
  BY <1>3, <1>4, AbsSame, Zenon
<1>6. View(e) = View(d) /\ Shows(View(d), Abs(d)) /\ Clean(Abs(d)) = Clean(d)
      /\ \A a \in Accounts : View(d).acct[a].slot = GetState(d, a)
  BY <1>2, <1>3, <1>4, ViewSame, ViewShows, CleanAbs, Zenon
<1>7. Clean(e) = Clean(d)
  BY <1>4, Zenon DEF Clean
<1>8. Settled(View(d), d.ctx, d.flushed, Clean(d))
  BY Zenon DEF Ready
<1>9. \A i \in 1..m : d.revisions[i].index \in 0..n
  BY <1>2, RevisionFacts, Zenon
<1>10. n \in Nat /\ \A i \in 1..(m + 1) : i = m + 1 \/ i \in 1..m
  <2>1. d.journal \in Seq(JournalEntries)
    BY <1>2, DBFields, Zenon
  <2> QED BY <1>3, <2>1
<1> HIDE DEF m, n
<1>11. RevisionsInOrder(e, m + 1)
  <2>1. \A i \in 1..(m + 1) : e.revisions[i].index \in 0..n
    BY <1>3, <1>9, <1>10
  <2>2. \A i, j \in 1..(m + 1) : i <= j => e.revisions[i].index <= e.revisions[j].index
    <3>1. SUFFICES ASSUME NEW i \in 1..(m + 1), NEW j \in 1..(m + 1), i <= j
                   PROVE  e.revisions[i].index <= e.revisions[j].index
      BY <3>1, Zenon
    <3>2. CASE j = m + 1
      BY <1>3, <1>10, <2>1, <3>2
    <3>3. CASE j \in 1..m
      <4>1. i \in 1..m
        BY <1>3, <3>1, <3>3
      <4> QED BY <1>2, <1>3, <3>1, <3>3, <4>1, Zenon DEF RevisionsInOrder
    <3> QED BY <1>10, <3>2, <3>3, Zenon
  <2>3. \A i \in 1..(m + 1) : e.revisions[i].index <= Len(e.journal)
    BY <1>4, <1>10, <2>1 DEF n
  <2>4. m + 1 \in 0..Len(e.revisions)
    BY <1>3
  <2> QED BY <2>2, <2>3, <2>4, Zenon DEF RevisionsInOrder
<1>12. Accessible(e) /\ ObjectsLive(e) /\ Unflushed(e) /\ Branched(e)
  <2>1. Accessible(e)
    BY <1>2, <1>4 DEF Accessible
  <2>2. ObjectsLive(e)
    BY <1>2, <1>4 DEF ObjectsLive
  <2>3. Unflushed(e)
    BY <1>2, <1>4, Zenon DEF Unflushed
  <2>4. Branched(e)
    BY <1>2, <1>4, Zenon DEF Branched
  <2> QED BY <2>1, <2>2, <2>3, <2>4, Zenon
<1>13. \E h : Traces(h, e, m + 1)
  <2>1. PICK h : Traces(h, d, m)
    BY Zenon DEF Ready, DbOK, m
  <2>2. \A i \in 1..m :
           /\ Shows(d.revisions[i].view, h[d.revisions[i].index])
           /\ Settled(d.revisions[i].view, d.ctx, d.flushed, Clean(h[d.revisions[i].index]))
    BY <2>1, Zenon DEF Traces
  <2>3. h[n] = Abs(d)
    BY <2>1, Zenon DEF Traces, n
  <2>4. \A i \in 1..(m + 1) :
           /\ Shows(e.revisions[i].view, h[e.revisions[i].index])
           /\ Settled(e.revisions[i].view, e.ctx, e.flushed, Clean(h[e.revisions[i].index]))
    <3>1. SUFFICES ASSUME NEW i \in 1..(m + 1)
                   PROVE  /\ Shows(e.revisions[i].view, h[e.revisions[i].index])
                          /\ Settled(e.revisions[i].view, d.ctx, d.flushed,
                                     Clean(h[e.revisions[i].index]))
      BY <1>4, <3>1, Zenon
    <3>2. CASE i = m + 1
      <4>1. e.revisions[i].view = View(d) /\ h[e.revisions[i].index] = Abs(d)
        BY <1>3, <2>3, <3>2, Zenon
      <4> QED BY <1>6, <1>8, <4>1, Zenon
    <3>3. CASE i \in 1..m
      <4>1. e.revisions[i] = d.revisions[i]
        BY <1>3, <3>3, Zenon
      <4> QED BY <2>2, <3>3, <4>1, Zenon
    <3> QED BY <1>10, <3>2, <3>3, Zenon
  <2>5. Traces(h, e, m + 1)
    BY <1>4, <1>5, <2>1, <2>4, Zenon DEF Traces
  <2> QED BY <2>5, Zenon
<1>14. \A a \in Accounts \ e.flushed : \E g : SlotTraces(g, e, m + 1, a)
  <2>1. SUFFICES ASSUME NEW a \in Accounts \ e.flushed PROVE \E g : SlotTraces(g, e, m + 1, a)
    BY <2>1, Zenon
  <2>2. PICK g : SlotTraces(g, d, m, a)
    BY <1>4, Zenon DEF Ready, DbOK, m
  <2>3. g[n] = GetState(d, a) /\ View(d).acct[a].slot = GetState(d, a)
    BY <1>6, <2>2, Zenon DEF SlotTraces, n
  <2>4. \A i \in 1..(m + 1) : e.revisions[i].view.acct[a].slot = g[e.revisions[i].index]
    BY <1>3, <1>10, <2>2, <2>3, Zenon DEF SlotTraces
  <2>5. SlotTraces(g, e, m + 1, a)
    BY <1>4, <1>5, <2>2, <2>4, Zenon DEF SlotTraces
  <2> QED BY <2>5, Zenon
<1>15. DbOK(e, m + 1)
  BY <1>3, <1>11, <1>12, <1>13, <1>14, Zenon DEF DbOK
<1> QED BY <1>3, <1>4, <1>6, <1>7, <1>8, <1>15, Zenon DEF Ready

\* Fewer revisions may be asked for.
LEMMA FewerOK ==
    ASSUME NEW d, NEW m, DbOK(d, m), NEW i \in 0..m
    PROVE  DbOK(d, i)
<1>1. d \in DBType /\ RevisionsInOrder(d, m)
  BY Zenon DEF DbOK
<1>2. m \in Nat /\ m \in 0..Len(d.revisions) /\ Len(d.revisions) \in Nat
  <2>1. d.revisions \in Seq(Revisions)
    BY <1>1, DBFields, Zenon
  <2> QED BY <1>1, <2>1 DEF RevisionsInOrder
<1>3. i \in 0..Len(d.revisions) /\ \A j \in 1..i : j \in 1..m
  BY <1>2
<1>4. RevisionsInOrder(d, i)
  BY <1>1, <1>3, Zenon DEF RevisionsInOrder
<1>5. \E h : Traces(h, d, i)
  BY <1>3, Zenon DEF DbOK, Traces
<1>6. \A a \in Accounts \ d.flushed : \E g : SlotTraces(g, d, i, a)
  <2>1. SUFFICES ASSUME NEW a \in Accounts \ d.flushed PROVE \E g : SlotTraces(g, d, i, a)
    BY <2>1, Zenon
  <2>2. PICK g : SlotTraces(g, d, m, a)
    BY Zenon DEF DbOK
  <2>3. SlotTraces(g, d, i, a)
    BY <1>3, <2>2, Zenon DEF SlotTraces
  <2> QED BY <2>3, Zenon
<1> QED BY <1>4, <1>5, <1>6, Zenon DEF DbOK

\* The StateDB is again as it was when the revision was recorded.
RevisionMet(d, r) ==
    /\ Shows(r.view, Abs(d))
    /\ \A a \in Accounts \ d.flushed : r.view.acct[a].slot = GetState(d, a)
    /\ Settled(r.view, d.ctx, d.flushed, Clean(d))

\* This is so when the journal is as long as it was then.
LEMMA RevisionReached ==
    ASSUME NEW d, NEW m \in Nat \ {0}, DbOK(d, m), Len(d.journal) = d.revisions[m].index
    PROVE  RevisionMet(d, d.revisions[m])
<1>1. m \in 1..m
  OBVIOUS
<1>2. PICK h : Traces(h, d, m)
  BY Zenon DEF DbOK
<1>3. h[d.revisions[m].index] = Abs(d)
  BY <1>2, Zenon DEF Traces
<1>4. Shows(d.revisions[m].view, Abs(d)) /\ Settled(d.revisions[m].view, d.ctx, d.flushed, Clean(d))
  BY <1>1, <1>2, <1>3, CleanAbs, Zenon DEF Traces
<1>5. \A a \in Accounts \ d.flushed : d.revisions[m].view.acct[a].slot = GetState(d, a)
  <2>1. SUFFICES ASSUME NEW a \in Accounts \ d.flushed
                 PROVE  d.revisions[m].view.acct[a].slot = GetState(d, a)
    BY <2>1, Zenon
  <2>2. PICK g : SlotTraces(g, d, m, a)
    BY Zenon DEF DbOK
  <2> QED BY <1>1, <2>2, Zenon DEF SlotTraces
<1> QED BY <1>4, <1>5, Zenon DEF RevisionMet

\* The end of journal.Revert.
LEMMA EndRevertOK ==
    ASSUME NEW d, NEW m \in Nat \ {0}, DbOK(d, m), Len(d.journal) = d.revisions[m].index,
           NEW e, e = [d EXCEPT !.revisions = SubSeq(@, 1, m - 1)]
    PROVE  Ready(e) /\ View(e) = View(d)
\* Settled looks at what Shows compares, and at the slots.
<1>1. ASSUME NEW x, NEW v, NEW w, Shows(v, x), Shows(w, x), NEW c, NEW F, NEW C,
             C \subseteq Accounts,
             \A a \in Accounts \ F : v.acct[a].slot = w.acct[a].slot,
             Settled(v, c, F, C)
      PROVE  Settled(w, c, F, C)
  <2>1. /\ v.stores = w.stores
        /\ \A a \in Accounts :
              /\ v.acct[a].exists = w.acct[a].exists /\ v.acct[a].bal = w.acct[a].bal
              /\ v.acct[a].nonce = w.acct[a].nonce /\ v.acct[a].code = w.acct[a].code
              /\ v.acct[a].destructed = w.acct[a].destructed
    <3>1. \A a \in Accounts :
              /\ v.acct[a].exists = x.acct[a].exists /\ v.acct[a].bal = x.acct[a].bal
              /\ v.acct[a].nonce = x.acct[a].nonce /\ v.acct[a].code = x.acct[a].code
              /\ v.acct[a].destructed = x.acct[a].destructed
      BY <1>1, Zenon DEF Shows
    <3>2. \A a \in Accounts :
              /\ w.acct[a].exists = x.acct[a].exists /\ w.acct[a].bal = x.acct[a].bal
              /\ w.acct[a].nonce = x.acct[a].nonce /\ w.acct[a].code = x.acct[a].code
              /\ w.acct[a].destructed = x.acct[a].destructed
      BY <1>1, Zenon DEF Shows
    <3>3. v.stores = w.stores
      BY <1>1, Zenon DEF Shows
    <3> QED BY <3>1, <3>2, <3>3
  <2>2. Fair(v) = Fair(w)
    BY <2>1 DEF Fair
  <2>3. \A a \in C \ Blocked :
            /\ ~w.acct[a].destructed
            /\ w.stores.acct[a].exists = w.acct[a].exists
            /\ w.stores.acct[a].bal = w.acct[a].bal
            /\ w.stores.acct[a].nonce = w.acct[a].nonce
            /\ w.stores.acct[a].code = w.acct[a].code
    <3>1. \A a \in C \ Blocked :
            /\ ~v.acct[a].destructed
            /\ v.stores.acct[a].exists = v.acct[a].exists
            /\ v.stores.acct[a].bal = v.acct[a].bal
            /\ v.stores.acct[a].nonce = v.acct[a].nonce
            /\ v.stores.acct[a].code = v.acct[a].code
      BY <1>1, Zenon DEF Settled
    <3> QED BY <1>1, <2>1, <3>1
  <2>4. \A a \in Accounts \ F : ~w.acct[a].destructed => w.stores.acct[a].slot = c.acct[a].slot
    <3>1. \A a \in Accounts \ F : ~v.acct[a].destructed => v.stores.acct[a].slot = c.acct[a].slot
      BY <1>1, Zenon DEF Settled
    <3> QED BY <2>1, <3>1
  <2>5. \A a \in C \ F : w.acct[a].slot = c.acct[a].slot
    <3>1. \A a \in C \ F : v.acct[a].slot = c.acct[a].slot
      BY <1>1, Zenon DEF Settled
    <3> QED BY <1>1, <3>1
  <2>6. SumTo(Fair(w), N) <= Total(c)
    BY <1>1, <2>2, Zenon DEF Settled
  <2>7. Blocked \subseteq C /\ (\A a \in Accounts : ~w.acct[a].destructed) =>
            SumTo(Fair(w), N) = Total(c)
    BY <1>1, <2>1, <2>2, Zenon DEF Settled
  <2> QED BY <2>3, <2>4, <2>5, <2>6, <2>7, Zenon DEF Settled
\* Dropping the last of the valid revisions and those after it.
<1>2. ASSUME NEW d0, NEW m0 \in Nat, DbOK(d0, m0 + 1), NEW e0,
             e0 = [d0 EXCEPT !.revisions = SubSeq(@, 1, m0)]
      PROVE  /\ DbOK(e0, m0) /\ Len(e0.revisions) = m0
             /\ KeepsRegisters(d0, e0) /\ KeepsStores(d0, e0) /\ KeepsObjects(d0, e0) /\ KeepsJournal(d0, e0)
  <2> DEFINE rs == SubSeq(d0.revisions, 1, m0)
  <2>1. d0 \in DBType /\ d0.revisions \in Seq(Revisions) /\ m0 + 1 \in 0..Len(d0.revisions)
    BY <1>2, DBFields, Zenon DEF DbOK, RevisionsInOrder
  <2>2. DbOK(d0, m0)
    <3>1. m0 \in 0..(m0 + 1)
      OBVIOUS
    <3> QED BY <1>2, <3>1, FewerOK, Zenon
  <2>3. /\ d0 \in DBType /\ Accessible(d0) /\ ObjectsLive(d0) /\ Unflushed(d0) /\ Branched(d0)
        /\ RevisionsInOrder(d0, m0)
    BY <2>2, Zenon DEF DbOK
  <2>4. e0 = [d0 EXCEPT !.revisions = rs]
    BY <1>2, Zenon
  <2>5. rs \in Seq(Revisions) /\ Len(rs) = m0 /\ \A i \in 1..m0 : rs[i] = d0.revisions[i]
    BY <1>2, <2>1
  <2> HIDE DEF rs
  <2>6. e0 \in DBType /\ e0.revisions = rs
    BY <2>1, <2>4, <2>5, Zenon DEF DBType
  <2>7. KeepsRegisters(d0, e0) /\ KeepsStores(d0, e0) /\ KeepsObjects(d0, e0) /\ KeepsJournal(d0, e0)
    BY <2>1, <2>4, Zenon DEF DBType, KeepsRegisters, KeepsStores, KeepsObjects, KeepsJournal
  <2>8. /\ e0.addresses = d0.addresses /\ e0.slots = d0.slots /\ e0.ctx = d0.ctx /\ e0.cache = d0.cache
        /\ e0.flushed = d0.flushed /\ e0.journal = d0.journal /\ e0.live = d0.live /\ e0.obj = d0.obj
    BY <2>7, Zenon DEF KeepsRegisters, KeepsStores, KeepsObjects, KeepsJournal
  <2>9. Abs(e0) = Abs(d0) /\ \A a : GetState(e0, a) = GetState(d0, a)
    BY <2>7, <2>8, AbsSame, Zenon
  <2> HIDE DEF rs
  <2>10. RevisionsInOrder(e0, m0)
    <3>1. m0 \in 0..Len(e0.revisions)
      BY <2>5, <2>6
    <3>2. \A i \in 1..m0 : e0.revisions[i] = d0.revisions[i]
      BY <2>5, <2>6, Zenon
    <3>3. /\ \A i \in 1..m0 : d0.revisions[i].index <= Len(d0.journal)
          /\ \A i, j \in 1..m0 : i <= j => d0.revisions[i].index <= d0.revisions[j].index
      BY <1>2, <2>3, Zenon DEF RevisionsInOrder
    <3>4. \A i \in 1..m0 : e0.revisions[i].index <= Len(e0.journal)
      BY <2>8, <3>2, <3>3, Zenon
    <3>5. \A i, j \in 1..m0 : i <= j => e0.revisions[i].index <= e0.revisions[j].index
      BY <3>2, <3>3, Zenon
    <3> QED BY <1>2, <3>1, <3>4, <3>5, Zenon DEF RevisionsInOrder
  <2>11. Accessible(e0) /\ ObjectsLive(e0) /\ Unflushed(e0) /\ Branched(e0)
    <3>1. Accessible(e0)
      BY <2>3, <2>8 DEF Accessible
    <3>2. ObjectsLive(e0)
      BY <2>3, <2>8 DEF ObjectsLive
    <3>3. Unflushed(e0)
      BY <2>3, <2>8, Zenon DEF Unflushed
    <3>4. Branched(e0)
      BY <2>3, <2>8, Zenon DEF Branched
    <3> QED BY <3>1, <3>2, <3>3, <3>4, Zenon
  <2>12. \E h : Traces(h, e0, m0)
    <3>1. PICK h : Traces(h, d0, m0)
      BY <2>2, Zenon DEF DbOK
    <3>2. \A i \in 1..m0 :
             /\ Shows(e0.revisions[i].view, h[e0.revisions[i].index])
             /\ Settled(e0.revisions[i].view, e0.ctx, e0.flushed, Clean(h[e0.revisions[i].index]))
      <4>1. \A i \in 1..m0 :
               /\ Shows(d0.revisions[i].view, h[d0.revisions[i].index])
               /\ Settled(d0.revisions[i].view, d0.ctx, d0.flushed, Clean(h[d0.revisions[i].index]))
        BY <1>2, <3>1, Zenon DEF Traces
      <4> QED BY <2>5, <2>6, <2>8, <4>1, Zenon
    <3>3. Traces(h, e0, m0)
      BY <1>2, <2>8, <2>9, <3>1, <3>2, Zenon DEF Traces
    <3> QED BY <3>3, Zenon
  <2>13. \A a \in Accounts \ e0.flushed : \E g : SlotTraces(g, e0, m0, a)
    <3>1. SUFFICES ASSUME NEW a \in Accounts \ e0.flushed PROVE \E g : SlotTraces(g, e0, m0, a)
      BY <3>1, Zenon
    <3>2. PICK g : SlotTraces(g, d0, m0, a)
      BY <2>2, <2>8, Zenon DEF DbOK
    <3>3. \A i \in 1..m0 : e0.revisions[i].view.acct[a].slot = g[e0.revisions[i].index]
      <4>1. \A i \in 1..m0 : d0.revisions[i].view.acct[a].slot = g[d0.revisions[i].index]
        BY <1>2, <3>2, Zenon DEF SlotTraces
      <4>2. \A i \in 1..m0 : e0.revisions[i] = d0.revisions[i]
        BY <2>5, <2>6, Zenon
      <4> QED BY <4>1, <4>2
    <3>4. SlotTraces(g, e0, m0, a)
      BY <1>2, <2>8, <2>9, <3>2, <3>3, Zenon DEF SlotTraces
    <3> QED BY <3>4, Zenon
  <2> QED BY <2>5, <2>6, <2>7, <2>10, <2>11, <2>12, <2>13, Zenon DEF DbOK
<1> DEFINE k == m - 1
<1>3. k \in Nat /\ m = k + 1
  OBVIOUS
<1>4. RevisionMet(d, d.revisions[m])
  BY RevisionReached
<1>5. d \in DBType /\ Accessible(d)
  BY Zenon DEF DbOK
<1> HIDE DEF k
<1>6. DbOK(d, k + 1) /\ e = [d EXCEPT !.revisions = SubSeq(@, 1, k)]
  BY <1>3, Zenon DEF k
<1>7. /\ DbOK(e, k) /\ Len(e.revisions) = k
      /\ KeepsRegisters(d, e) /\ KeepsStores(d, e) /\ KeepsObjects(d, e) /\ KeepsJournal(d, e)
  BY <1>3, <1>6, <1>2, Zenon
<1>8. e.ctx = d.ctx /\ e.cache = d.cache /\ e.flushed = d.flushed /\ e.dirties = d.dirties
  BY <1>7, Zenon DEF KeepsStores, KeepsJournal
<1>9. View(e) = View(d)
  BY <1>7, <1>8, ViewSame, Zenon
<1>10. Shows(View(d), Abs(d)) /\ \A a \in Accounts : View(d).acct[a].slot = GetState(d, a)
  BY <1>5, ViewShows, Zenon
<1>11. Settled(View(d), d.ctx, d.flushed, Clean(d))
  <2> DEFINE v == d.revisions[m].view
  <2>1. /\ Shows(v, Abs(d)) /\ Settled(v, d.ctx, d.flushed, Clean(d))
        /\ \A a \in Accounts \ d.flushed : v.acct[a].slot = GetState(d, a)
    BY <1>4, Zenon DEF RevisionMet
  <2>2. \A a \in Accounts \ d.flushed : v.acct[a].slot = View(d).acct[a].slot
    BY <1>10, <2>1, Zenon
  <2>3. Clean(d) \subseteq Accounts
    BY CleanAbs, Zenon
  <2> HIDE DEF v
  <2> QED BY <1>10, <2>1, <2>2, <2>3, <1>1, Zenon
<1>12. Clean(e) = Clean(d)
  BY <1>8, Zenon DEF Clean
<1> QED BY <1>7, <1>8, <1>9, <1>11, <1>12, Zenon DEF Ready

(***************************************************************************)
(* Precompile calls.                                                       *)
(***************************************************************************)
\* The last entry of the journal is a call's, and no revision is after it.
InCall(d, m) ==
    /\ d.journal # << >> /\ d.journal[Len(d.journal)].kind = "precompile"
    /\ \A i \in 1..m : d.revisions[i].index <= Len(d.journal) - 1

\* What a call does before the precompile's own action.
PreparedDone(d, e, m) ==
    /\ DbOK(e, m) /\ InCall(e, m) /\ e.cache # << >>
    /\ KeepsObjects(d, e) /\ KeepsRegisters(d, e) /\ KeepsRevisions(d, e)
    /\ e.ctx = d.ctx /\ e.flushed = d.flushed /\ e.dirties = d.dirties
    /\ Current(e) = Current(d)
    /\ \A a \in Accounts : Seen(e, a) = Seen(d, a) /\ GetState(e, a) = GetState(d, a)

\* Prepared journals a call that undoes it.
LEMMA PreparedOK ==
    ASSUME NEW d, NEW m, DbOK(d, m), NEW e, e = Prepared(d)
    PROVE  PreparedDone(d, e, m)
\* One more layer, and the layers without it.
<1>1. ASSUME NEW ls \in Seq(StoreType), NEW x \in StoreType
      PROVE  /\ Append(ls, x) # << >> /\ Len(Append(ls, x)) = Len(ls) + 1
             /\ Append(ls, x)[Len(Append(ls, x))] = x
             /\ SubSeq(Append(ls, x), 1, Len(ls)) = ls
  OBVIOUS
\* What Prepared changes.
<1>2. ASSUME NEW d0 \in DBType, NEW en,
             en = [kind |-> "precompile", snapshot |-> Len(Layers(d0)) - 1],
             NEW e0, e0 = Prepared(d0)
      PROVE  /\ e0 \in DBType /\ en \in JournalEntries
             /\ KeepsObjects(d0, e0) /\ KeepsRegisters(d0, e0) /\ KeepsRevisions(d0, e0)
             /\ e0.ctx = d0.ctx /\ e0.flushed = d0.flushed /\ e0.dirties = d0.dirties
             /\ e0.journal = Append(d0.journal, en)
             /\ e0.cache = Append(Layers(d0), Current(d0))
  <2> DEFINE ls == Layers(d0)
             c  == GetCacheContext(d0)
             s  == MultiStoreSnapshot(c)
             p  == append(s, en)
             cs == Append(ls, Current(d0))
  <2>1. ls \in Seq(StoreType) /\ Len(ls) \in Nat /\ Len(ls) > 0 /\ Current(d0) \in StoreType
        /\ Current(d0) = ls[Len(ls)] /\ ls # << >>
    BY LayersType, Zenon
  <2>2. en \in JournalEntries /\ en.kind \notin Dirtying
    BY <1>2, <2>1 DEF JournalEntries, CallEntries, Dirtying
  <2>3. c = [d0 EXCEPT !.cache = ls]
    <3>1. CASE d0.cache = << >>
      BY <3>1, Zenon DEF GetCacheContext, Layers
    <3>2. CASE d0.cache # << >>
      <4>1. c = d0 /\ ls = d0.cache
        BY <3>2, Zenon DEF GetCacheContext, Layers
      <4> QED BY <4>1 DEF DBType
    <3> QED BY <3>1, <3>2, Zenon
  <2>4. cs \in Seq(StoreType)
    BY <2>1
  <2>5. e0 = [p EXCEPT !.calls = @ + 1]
    <3>1. c.cache = ls
      BY <2>3, Zenon DEF DBType
    <3>2. en = [kind |-> "precompile", snapshot |-> Len(c.cache) - 1]
      BY <1>2, <3>1, Zenon
    <3> QED BY <1>2, <3>2, Zenon DEF Prepared, AddPrecompileFn
  <2> HIDE DEF ls
  <2>6. s = [d0 EXCEPT !.cache = cs]
    <3>1. c.cache = ls /\ c.ctx = d0.ctx
      BY <2>3, Zenon DEF DBType
    <3>2. Current(c) = Current(d0)
      BY <2>1, <3>1, Zenon DEF Current
    <3>3. s = [c EXCEPT !.cache = cs]
      BY <3>1, <3>2, Zenon DEF MultiStoreSnapshot
    <3> HIDE DEF c, s, cs
    <3> QED BY <2>3, <3>3 DEF DBType
  <2> HIDE DEF s, cs
  <2>7. /\ s \in DBType /\ s.cache = cs /\ s.ctx = d0.ctx /\ s.flushed = d0.flushed
        /\ s.journal = d0.journal /\ s.dirties = d0.dirties /\ s.calls = d0.calls
        /\ KeepsObjects(d0, s) /\ KeepsRegisters(d0, s) /\ KeepsRevisions(d0, s)
    BY <2>4, <2>6, Zenon DEF DBType, KeepsObjects, KeepsRegisters, KeepsRevisions
  <2>8. /\ p \in DBType
        /\ KeepsRegisters(s, p) /\ KeepsStores(s, p) /\ KeepsRevisions(s, p)
        /\ KeepsObjects(s, p) /\ Journals(s, p, en)
    BY <2>2, <2>7, AppendEffects, Zenon
  <2> HIDE DEF p
  <2> DEFINE q == p.calls + 1
  <2>9. e0 = [p EXCEPT !.calls = q] /\ q \in Nat
    <3>1. p.calls \in Nat
      BY <2>8, DBFields, Zenon
    <3> QED BY <2>5, <3>1
  <2> HIDE DEF q
  <2>10. /\ e0 \in DBType /\ e0.ctx = p.ctx /\ e0.cache = p.cache /\ e0.flushed = p.flushed
        /\ KeepsRegisters(p, e0) /\ KeepsRevisions(p, e0) /\ KeepsObjects(p, e0) /\ KeepsJournal(p, e0)
    BY <2>8, <2>9, Zenon DEF DBType, KeepsObjects, KeepsRegisters, KeepsRevisions, KeepsJournal
  <2>11. KeepsObjects(d0, e0)
    BY <2>7, <2>8, <2>10, Zenon DEF KeepsObjects
  <2>12. KeepsRegisters(d0, e0)
    BY <2>7, <2>8, <2>10, Zenon DEF KeepsRegisters
  <2>13. KeepsRevisions(d0, e0)
    BY <2>7, <2>8, <2>10, Zenon DEF KeepsRevisions
  <2>14. e0.ctx = d0.ctx /\ e0.flushed = d0.flushed /\ e0.cache = cs
    BY <2>7, <2>8, <2>10, Zenon DEF KeepsStores
  <2>15. e0.journal = Append(d0.journal, en) /\ e0.dirties = d0.dirties
    BY <2>2, <2>7, <2>8, <2>10, Zenon DEF Journals, KeepsJournal
  <2> QED BY <2>2, <2>10, <2>11, <2>12, <2>13, <2>14, <2>15, Zenon DEF cs, ls
<1>3. d \in DBType /\ Accessible(d) /\ Unflushed(d) /\ RevisionsInOrder(d, m)
  BY Zenon DEF DbOK
<1> DEFINE ls == Layers(d)
           en == [kind |-> "precompile", snapshot |-> Len(ls) - 1]
<1>4. /\ e \in DBType /\ en \in JournalEntries
      /\ KeepsObjects(d, e) /\ KeepsRegisters(d, e) /\ KeepsRevisions(d, e)
      /\ e.ctx = d.ctx /\ e.flushed = d.flushed /\ e.dirties = d.dirties
      /\ e.journal = Append(d.journal, en)
      /\ e.cache = Append(ls, Current(d))
  BY <1>3, <1>2, Zenon
<1>5. ls \in Seq(StoreType) /\ Len(ls) \in Nat /\ Len(ls) > 0 /\ Current(d) \in StoreType
  BY <1>3, LayersType, Zenon
<1>6. en.kind = "precompile" /\ en.snapshot = Len(ls) - 1
  OBVIOUS
<1> HIDE DEF en, ls
<1>7. /\ e.cache # << >> /\ Len(e.cache) = Len(ls) + 1 /\ e.cache[Len(e.cache)] = Current(d)
      /\ SubSeq(e.cache, 1, Len(ls)) = ls
  <2>1. e.cache = Append(ls, Current(d))
    BY <1>4, Zenon
  <2> QED BY <1>5, <2>1, <1>1, Zenon
<1>8. /\ e.live = d.live /\ e.obj = d.obj /\ e.addresses = d.addresses /\ e.slots = d.slots
      /\ e.refund = d.refund /\ e.logs = d.logs /\ e.transient = d.transient
  BY <1>4, Zenon DEF KeepsObjects, KeepsRegisters
<1>9. \A a \in Accounts : Seen(e, a) = Seen(d, a) /\ GetState(e, a) = GetState(d, a)
  BY <1>4, <1>8, Zenon DEF Seen, Obj, Exist, GetState, GetCommittedState
<1>10. Current(e) = Current(d) /\ Layers(e) = e.cache
  BY <1>7, Zenon DEF Current, Layers
<1>11. Accessible(e)
  BY <1>3, <1>8 DEF Accessible
<1>12. en.kind \notin ObjectKinds /\ en.kind \notin Dirtying
       /\ en.kind \notin {"refund", "log", "transient", "address", "slot"}
  BY <1>6 DEF ObjectKinds, Dirtying
<1>13. Undoes(Abs(d), Abs(e), en, d.ctx)
  <2>1. /\ \A x \in Accounts : Abs(d).acct[x] = Seen(d, x) /\ Abs(e).acct[x] = Seen(e, x)
        /\ Abs(d).refund = d.refund /\ Abs(d).logs = d.logs /\ Abs(d).transient = d.transient
        /\ Abs(d).addresses = d.addresses /\ Abs(d).slots = d.slots
        /\ Abs(d).dirties = d.dirties /\ Abs(d).layers = Layers(d)
        /\ Abs(e).refund = e.refund /\ Abs(e).logs = e.logs /\ Abs(e).transient = e.transient
        /\ Abs(e).addresses = e.addresses /\ Abs(e).slots = e.slots
        /\ Abs(e).dirties = e.dirties /\ Abs(e).layers = Layers(e)
    BY AbsFields, Zenon
  <2>2. UndoneAddresses(Abs(e), en) = d.addresses /\ UndoneSlots(Abs(e), en) = d.slots
    BY <1>8, <1>12, <2>1, Zenon DEF UndoneAddresses, UndoneSlots
  <2>3. /\ en.snapshot + 1 = Len(ls) /\ en.snapshot + 2 <= Len(Abs(e).layers)
    BY <1>5, <1>6, <1>7, <1>10, <2>1
  <2>4. Abs(d).layers = SubSeq(Abs(e).layers, 1, en.snapshot + 1)
    BY <1>7, <1>10, <2>1, <2>3, Zenon DEF ls
  <2> QED BY <1>4, <1>6, <1>8, <1>9, <1>12, <2>1, <2>2, <2>3, <2>4, Zenon DEF Undoes
<1>14. \A a \in Accounts \ d.flushed : GetState(d, a) = UndoneSlot(GetState(e, a), en, a, d.ctx)
  <2>1. en.kind # "storage" /\ en.kind # "createObject"
    BY <1>6
  <2> QED BY <1>9, <2>1, Zenon DEF UndoneSlot
<1>15. \A a \in e.live \ e.flushed : e.obj[a].origin = NoValue
  BY <1>3, <1>4, <1>8, Zenon DEF Unflushed
<1>16. Pushes(d, e, en)
  <2>1. en.kind # "storage" /\ en.kind # "createObject" /\ d.live \subseteq e.live
    BY <1>6, <1>8
  <2> QED BY <1>4, <1>7, <1>11, <1>12, <1>13, <1>14, <1>15, <2>1, Zenon DEF Pushes
<1>17. DbOK(e, m)
  BY <1>16, PushOK, Zenon
<1>18. InCall(e, m)
  <2>1. d.journal \in Seq(JournalEntries)
    BY <1>3, DBFields, Zenon
  <2>2. Len(e.journal) = Len(d.journal) + 1 /\ e.journal[Len(e.journal)] = en /\ e.journal # << >>
        /\ Len(d.journal) \in Nat
    BY <1>4, <2>1
  <2>3. \A i \in 1..m : e.revisions[i].index \in 0..Len(d.journal)
    BY <1>3, <1>4, RevisionFacts, Zenon DEF KeepsRevisions
  <2>4. \A i \in 1..m : e.revisions[i].index <= Len(e.journal) - 1
    BY <2>2, <2>3
  <2> QED BY <1>6, <2>2, <2>4, Zenon DEF InCall
<1> QED BY <1>4, <1>7, <1>9, <1>10, <1>17, <1>18, Zenon DEF PreparedDone

\* The layers below the last are the same; there may be more above them.
SameBelow(cs, ds) ==
    \A n \in Nat : n + 2 <= Len(cs) =>
        n + 2 <= Len(ds) /\ SubSeq(ds, 1, n + 1) = SubSeq(cs, 1, n + 1)

\* The last layer becomes st, over what may be new layers, and nothing else that
\* the journal could restore changes.
TopWrite(d, e, st) ==
    /\ e \in DBType /\ st \in StoreType /\ d.cache # << >>
    /\ KeepsRegisters(d, e) /\ KeepsRevisions(d, e) /\ KeepsJournal(d, e)
    /\ e.ctx = d.ctx /\ e.live = d.live
    /\ e.cache # << >> /\ e.cache[Len(e.cache)] = st /\ SameBelow(d.cache, e.cache)
    /\ d.flushed \subseteq e.flushed
    /\ \A a \in Accounts : Seen(e, a) = Seen(d, a) /\ GetState(e, a) = GetState(d, a)
    /\ \A a \in e.live \ e.flushed : e.obj[a].origin = NoValue

\* Replacing the last layer.
Topped(cs, st) == [cs EXCEPT ![Len(cs)] = st]

\* It is the last one then, and those below it are the same.
LEMMA TopLayer ==
    ASSUME NEW cs \in Seq(StoreType), cs # << >>, NEW st \in StoreType
    PROVE  /\ Topped(cs, st) \in Seq(StoreType) /\ Topped(cs, st) # << >>
           /\ Topped(cs, st)[Len(Topped(cs, st))] = st
           /\ SameBelow(cs, Topped(cs, st))
BY DEF SameBelow, Topped

\* Two states of a call that differ in the last layer.
SameButTop(d, e) ==
    /\ KeepsRegisters(d, e) /\ e.dirties = d.dirties
    /\ \A a \in Accounts : Seen(e, a) = Seen(d, a)
    /\ Layers(e) = e.cache /\ Layers(d) = d.cache /\ SameBelow(d.cache, e.cache)

\* During a call the last layer may be replaced: reverting the call drops it.
LEMMA TopOK ==
    ASSUME NEW d, NEW m, DbOK(d, m), InCall(d, m), NEW e, NEW st, TopWrite(d, e, st)
    PROVE  DbOK(e, m) /\ InCall(e, m) /\ Current(e) = st /\ e.cache # << >>
\* What holds when an account's slot was not flushed holds of fewer accounts.
<1>1. ASSUME NEW v, NEW c, NEW F, NEW G, F \subseteq G, NEW C, Settled(v, c, F, C)
      PROVE  Settled(v, c, G, C)
  <2>1. \A a \in Accounts \ G : a \in Accounts \ F
    BY <1>1
  <2>2. \A a \in C \ G : a \in C \ F
    BY <1>1
  <2> QED BY <1>1, <2>1, <2>2, Zenon DEF Settled
\* ObjectsLive looks at the journal and at the live objects.
<1>2. ASSUME NEW d0, NEW e0, ObjectsLive(d0), e0.journal = d0.journal, e0.live = d0.live
      PROVE  ObjectsLive(e0)
  BY <1>2 DEF ObjectsLive
\* Undoing a call does not look at the last layer.
<1>3. ASSUME NEW d0, NEW e0, NEW h, NEW en, NEW c, en.kind = "precompile", en.snapshot \in Nat,
             SameButTop(d0, e0), Undoes(h, Abs(d0), en, c)
      PROVE  Undoes(h, Abs(e0), en, c)
  <2>1. /\ \A a \in Accounts : Abs(e0).acct[a] = Abs(d0).acct[a]
        /\ Abs(e0).refund = Abs(d0).refund /\ Abs(e0).logs = Abs(d0).logs
        /\ Abs(e0).transient = Abs(d0).transient /\ Abs(e0).addresses = Abs(d0).addresses
        /\ Abs(e0).slots = Abs(d0).slots /\ Abs(e0).dirties = Abs(d0).dirties
        /\ Abs(e0).layers = e0.cache /\ Abs(d0).layers = d0.cache
    BY <1>3, AbsFields, Zenon DEF KeepsRegisters, SameButTop
  <2>2. UndoneAddresses(Abs(e0), en) = Abs(e0).addresses /\ UndoneAddresses(Abs(d0), en) = Abs(d0).addresses
        /\ UndoneSlots(Abs(e0), en) = Abs(e0).slots /\ UndoneSlots(Abs(d0), en) = Abs(d0).slots
    BY <1>3 DEF UndoneAddresses, UndoneSlots
  <2>3. en.kind \notin ObjectKinds /\ en.kind \notin Dirtying
        /\ en.kind \notin {"refund", "log", "transient"}
    BY <1>3 DEF ObjectKinds, Dirtying
  <2>4. /\ en.snapshot + 2 <= Len(Abs(d0).layers)
        /\ h.layers = SubSeq(d0.cache, 1, en.snapshot + 1)
    BY <1>3, <2>1, Zenon DEF Undoes
  <2>5. /\ en.snapshot + 2 <= Len(Abs(e0).layers)
        /\ h.layers = SubSeq(Abs(e0).layers, 1, en.snapshot + 1)
    BY <1>3, <2>1, <2>4, Zenon DEF SameBelow, SameButTop
  <2> QED BY <1>3, <2>1, <2>2, <2>3, <2>5, Zenon DEF Undoes
<1>4. /\ d \in DBType /\ Accessible(d) /\ ObjectsLive(d) /\ Unflushed(d) /\ Branched(d)
      /\ RevisionsInOrder(d, m)
  BY Zenon DEF DbOK
<1>5. /\ e \in DBType /\ st \in StoreType /\ d.cache # << >>
      /\ KeepsRegisters(d, e) /\ KeepsRevisions(d, e) /\ KeepsJournal(d, e)
      /\ e.ctx = d.ctx /\ e.live = d.live
      /\ e.cache # << >> /\ e.cache[Len(e.cache)] = st /\ SameBelow(d.cache, e.cache)
      /\ d.flushed \subseteq e.flushed
      /\ \A a \in Accounts : Seen(e, a) = Seen(d, a) /\ GetState(e, a) = GetState(d, a)
      /\ \A a \in e.live \ e.flushed : e.obj[a].origin = NoValue
  BY Zenon DEF TopWrite
<1>6. /\ e.addresses = d.addresses /\ e.slots = d.slots /\ e.revisions = d.revisions
      /\ e.journal = d.journal /\ e.dirties = d.dirties /\ e.refund = d.refund
      /\ e.logs = d.logs /\ e.transient = d.transient
  BY <1>5, Zenon DEF KeepsRegisters, KeepsRevisions, KeepsJournal
<1>7. /\ d.cache \in Seq(StoreType) /\ d.journal \in Seq(JournalEntries) /\ d.dirties \in [Accounts -> Nat]
  BY <1>4, DBFields, Zenon
<1>8. e.cache # << >> /\ e.cache[Len(e.cache)] = st /\ SameBelow(d.cache, e.cache)
  BY <1>5, Zenon
<1>9. Current(e) = st /\ Layers(e) = e.cache /\ Layers(d) = d.cache
  BY <1>5, <1>8, Zenon DEF Current, Layers
<1> DEFINE n  == Len(d.journal)
           en == d.journal[n]
<1>10. /\ n \in Nat \ {0} /\ n \in 1..n /\ en.kind = "precompile" /\ en \in JournalEntries
      /\ \A i \in 1..m : d.revisions[i].index <= n - 1
  <2>1. d.journal # << >> /\ d.journal[Len(d.journal)].kind = "precompile"
        /\ \A i \in 1..m : d.revisions[i].index <= n - 1
    BY Zenon DEF InCall
  <2>2. n \in Nat \ {0} /\ n \in 1..n /\ en \in JournalEntries
    BY <1>7, <2>1
  <2> QED BY <2>1, <2>2, Zenon
<1>11. en.snapshot \in Nat
  BY <1>10, EntryFacts, Zenon
<1>12. \A i \in 1..m : d.revisions[i].index \in 0..n
  BY <1>4, RevisionFacts, Zenon
<1>13. \A i \in 1..m : d.revisions[i].index \in 0..(n - 1)
  BY <1>10, <1>12
<1>14. Accessible(e) /\ ObjectsLive(e) /\ Unflushed(e) /\ Branched(e) /\ RevisionsInOrder(e, m)
       /\ InCall(e, m)
  <2>1. Accessible(e)
    BY <1>4, <1>6 DEF Accessible
  <2>2. ObjectsLive(e)
    BY <1>4, <1>5, <1>6, <1>2, Zenon
  <2>3. Unflushed(e)
    <3>1. \A i \in 1..n :
             d.journal[i].kind = "storage" /\ d.journal[i].acct \notin d.flushed =>
                d.journal[i].orig = d.ctx.acct[d.journal[i].acct].slot
      BY <1>4, Zenon DEF Unflushed
    <3>2. \A x : x \notin e.flushed => x \notin d.flushed
      BY <1>5
    <3> QED BY <1>5, <1>6, <3>1, <3>2, Zenon DEF Unflushed
  <2>4. Branched(e)
    BY <1>8, Zenon DEF Branched
  <2>5. RevisionsInOrder(e, m)
    BY <1>4, <1>6, Zenon DEF RevisionsInOrder
  <2>6. InCall(e, m)
    BY <1>6, Zenon DEF InCall
  <2> QED BY <2>1, <2>2, <2>3, <2>4, <2>5, <2>6, Zenon
<1>15. Abs(e) \in States
  BY <1>5, <1>14, AbsType, Zenon
<1>16. \E h : Traces(h, e, m)
  <2>1. PICK h : Traces(h, d, m)
    BY Zenon DEF DbOK
  <2>2. /\ h \in [0..n -> States] /\ Len(h[0].layers) = 1 /\ Clean(h[0]) = Accounts /\ h[n] = Abs(d)
        /\ \A k \in 1..n : Undoes(h[k - 1], h[k], d.journal[k], d.ctx)
        /\ \A i \in 1..m :
              /\ Shows(d.revisions[i].view, h[d.revisions[i].index])
              /\ Settled(d.revisions[i].view, d.ctx, d.flushed, Clean(h[d.revisions[i].index]))
    BY <2>1, Zenon DEF Traces
  <2> HIDE DEF n, en
  <2> DEFINE h2 == [k \in 0..n |-> IF k = n THEN Abs(e) ELSE h[k]]
  <2>3. /\ h2 \in [0..n -> States] /\ h2[n] = Abs(e) /\ h2[0] = h[0]
        /\ \A k \in 0..(n - 1) : h2[k] = h[k]
    BY <1>10, <1>15, <2>2
  <2> HIDE DEF h2
  <2>4. Undoes(h[n - 1], Abs(e), en, d.ctx)
    <3>1. Undoes(h[n - 1], Abs(d), en, d.ctx)
      BY <1>10, <2>2, Zenon DEF en
    <3>2. SameButTop(d, e)
      BY <1>5, <1>6, <1>8, <1>9, Zenon DEF SameButTop
    <3> QED BY <1>10, <1>11, <3>1, <3>2, <1>3, Zenon
  <2>5. \A k \in 1..n : Undoes(h2[k - 1], h2[k], e.journal[k], e.ctx)
    <3>1. SUFFICES ASSUME NEW k \in 1..n PROVE Undoes(h2[k - 1], h2[k], e.journal[k], e.ctx)
      BY <3>1, Zenon
    <3>2. CASE k = n
      <4>1. h2[k - 1] = h[n - 1] /\ h2[k] = Abs(e) /\ e.journal[k] = en
        BY <1>6, <1>10, <2>3, <3>2 DEF en
      <4> QED BY <1>5, <2>4, <4>1, Zenon
    <3>3. CASE k # n
      <4>1. h2[k - 1] = h[k - 1] /\ h2[k] = h[k]
        BY <1>10, <2>3, <3>3
      <4> QED BY <1>5, <1>6, <2>2, <4>1, Zenon
    <3> QED BY <3>2, <3>3, Zenon
  <2>6. \A i \in 1..m :
           /\ Shows(e.revisions[i].view, h2[e.revisions[i].index])
           /\ Settled(e.revisions[i].view, e.ctx, e.flushed, Clean(h2[e.revisions[i].index]))
    <3>1. \A i \in 1..m : h2[d.revisions[i].index] = h[d.revisions[i].index]
      BY <1>13, <2>3, Zenon
    <3>2. \A i \in 1..m :
             /\ Shows(d.revisions[i].view, h2[d.revisions[i].index])
             /\ Settled(d.revisions[i].view, d.ctx, e.flushed, Clean(h2[d.revisions[i].index]))
      BY <1>5, <2>2, <3>1, <1>1, Zenon
    <3> QED BY <1>5, <1>6, <3>2, Zenon
  <2>7. Traces(h2, e, m)
    BY <1>6, <2>2, <2>3, <2>5, <2>6, Zenon DEF Traces, n
  <2> QED BY <2>7, Zenon
<1>17. \A a \in Accounts \ e.flushed : \E g : SlotTraces(g, e, m, a)
  <2>1. SUFFICES ASSUME NEW a \in Accounts \ e.flushed PROVE \E g : SlotTraces(g, e, m, a)
    BY <2>1, Zenon
  <2>2. a \in Accounts \ d.flushed /\ GetState(e, a) = GetState(d, a)
    BY <1>5
  <2>3. PICK g : SlotTraces(g, d, m, a)
    BY <2>2, Zenon DEF DbOK
  <2>4. SlotTraces(g, e, m, a)
    BY <1>5, <1>6, <2>2, <2>3, Zenon DEF SlotTraces
  <2> QED BY <2>4, Zenon
<1> QED BY <1>5, <1>8, <1>9, <1>14, <1>16, <1>17, Zenon DEF DbOK

(***************************************************************************)
(* Writing the dirty objects to a store.                                   *)
(***************************************************************************)
\* The store after the dirty objects were written to it.
LEMMA WriteDirtyType ==
    ASSUME NEW d \in DBType, NEW st \in StoreType
    PROVE  /\ WriteDirty(d, st) \in StoreType /\ WriteDirty(d, st).calls = st.calls
           /\ \A a \in Accounts :
                 WriteDirty(d, st).acct[a] =
                    IF a \in Written(d, st) THEN WriteAccount(d, st, a) ELSE st.acct[a]
\* What is written of an account is an account.
<1>1. ASSUME NEW d0 \in DBType, NEW st0 \in StoreType, NEW a \in Accounts
      PROVE  WriteAccount(d0, st0, a) \in StoredAccounts
  <2>1. d0.obj[a] \in Objects /\ st0.acct[a] \in StoredAccounts
    BY DBFields, StoreFields
  <2>2. st0.acct[a].slot \in Values
    BY <2>1, newObjectType, Zenon
  <2>3. /\ d0.obj[a].bal \in Nat /\ d0.obj[a].nonce \in Nat /\ d0.obj[a].code \in Values
        /\ d0.obj[a].dirty \in Values \union {NoValue}
    BY <2>1 DEF Objects
  <2> DEFINE s == IF d0.obj[a].dirty = NoValue THEN st0.acct[a].slot ELSE d0.obj[a].dirty
             r == [exists |-> TRUE, bal |-> d0.obj[a].bal, nonce |-> d0.obj[a].nonce,
                   code |-> d0.obj[a].code, slot |-> s]
  <2>4. s \in Values
    BY <2>2, <2>3
  <2>5. WriteAccount(d0, st0, a) = IF d0.obj[a].destructed THEN Absent ELSE r
    BY Zenon DEF WriteAccount
  <2> HIDE DEF s
  <2>6. r \in [exists: {TRUE}, bal: Nat, nonce: Nat, code: Values, slot: Values]
    BY <2>3, <2>4
  <2> HIDE DEF r
  <2> QED BY <2>5, <2>6, Zenon DEF StoredAccounts
<1> DEFINE w == [a \in Accounts |->
                   IF a \in Written(d, st) THEN WriteAccount(d, st, a) ELSE st.acct[a]]
<1>2. WriteDirty(d, st) = [st EXCEPT !.acct = w]
  BY Zenon DEF WriteDirty
<1>3. w \in [Accounts -> StoredAccounts]
  BY <1>1, StoreFields
<1> HIDE DEF w
<1>4. /\ WriteDirty(d, st) \in StoreType /\ WriteDirty(d, st).acct = w
      /\ WriteDirty(d, st).calls = st.calls
  BY <1>2, <1>3, Zenon DEF StoreType
<1> QED BY <1>4 DEF w

\* The bank's send leaves st as s.
Sent(st, s, from, to, amount) ==
    /\ s \in StoreType
    /\ s.acct[from].bal = st.acct[from].bal - amount
    /\ s.acct[to].bal = st.acct[to].bal + amount
    /\ \A a \in Accounts : s.acct[a].slot = st.acct[a].slot
    /\ \A a \in Accounts : a # from /\ a # to => s.acct[a] = st.acct[a]

\* A store after a send of coins.
LEMMA BankSendType ==
    ASSUME NEW st \in StoreType, NEW from \in Accounts, NEW to \in Accounts, from # to,
           NEW amount \in Nat \ {0}, CanSend(st, from, amount)
    PROVE  Sent(st, BankSend(st, from, to, amount), from, to, amount)
\* The account of a sender and that of a receiver.
<1>1. ASSUME NEW b \in Nat
      PROVE  /\ \A s \in [exists: {TRUE}, bal: Nat, nonce: Nat, code: Values, slot: Values] :
                   LET r == [s EXCEPT !.bal = b]
                   IN  r \in StoredAccounts /\ r.bal = b /\ r.slot = s.slot
             /\ \A s \in StoredAccounts :
                   LET r == [s EXCEPT !.bal = b, !.exists = TRUE]
                   IN  r \in StoredAccounts /\ r.bal = b /\ r.slot = s.slot
  <2> DEFINE Some == [exists: BOOLEAN, bal: Nat, nonce: Nat, code: Values, slot: Values]
             Full == [exists: {TRUE}, bal: Nat, nonce: Nat, code: Values, slot: Values]
  <2>1. \A s \in Full : [s EXCEPT !.bal = b] \in Full /\ [s EXCEPT !.bal = b].bal = b
                        /\ [s EXCEPT !.bal = b].slot = s.slot
    BY Zenon
  <2>2. \A s \in StoredAccounts : s \in Some
    <3>1. Absent \in Some
      BY ValuesAssumption DEF Absent
    <3>2. \A s \in Full : s \in Some
      OBVIOUS
    <3> QED BY <3>1, <3>2, Zenon DEF StoredAccounts
  <2>3. \A s \in Some : LET r == [s EXCEPT !.bal = b, !.exists = TRUE]
                        IN  r \in Full /\ r.bal = b /\ r.slot = s.slot
    BY Zenon
  <2>4. Full \subseteq StoredAccounts
    BY Zenon DEF StoredAccounts
  <2> QED BY <2>1, <2>2, <2>3, <2>4, Zenon
<1> DEFINE f  == st.acct[from]
           t  == st.acct[to]
           f2 == [f EXCEPT !.bal = f.bal - amount]
           t2 == [t EXCEPT !.bal = t.bal + amount, !.exists = TRUE]
           w  == [st.acct EXCEPT ![from] = f2, ![to] = t2]
           n  == st.calls + 1
<1>2. f \in StoredAccounts /\ t \in StoredAccounts /\ f.bal >= amount
      /\ st.acct \in [Accounts -> StoredAccounts] /\ n \in Nat
  BY StoreFields DEF CanSend
<1>3. f \in [exists: {TRUE}, bal: Nat, nonce: Nat, code: Values, slot: Values]
  <2>1. f # Absent
    BY <1>2, AbsentType
  <2> QED BY <1>2, <2>1, Zenon DEF StoredAccounts
<1>4. f2 \in StoredAccounts /\ f2.bal = f.bal - amount /\ f2.slot = f.slot
  <2>1. f.bal - amount \in Nat
    <3>1. f.bal \in Nat /\ f.bal >= amount
      BY <1>2, newObjectType, Zenon
    <3> QED BY <3>1
  <2> QED BY <1>3, <2>1, <1>1, Zenon
<1>5. t2 \in StoredAccounts /\ t2.bal = t.bal + amount /\ t2.slot = t.slot
  <2>1. t.bal + amount \in Nat
    <3>1. t.bal \in Nat
      BY <1>2, newObjectType, Zenon
    <3> QED BY <3>1
  <2> HIDE DEF t
  <2> QED BY <1>2, <2>1, <1>1, Zenon
<1>6. BankSend(st, from, to, amount) = [st EXCEPT !.acct = w, !.calls = n]
  <2>1. st.acct[to] = t /\ st.acct[from] = f
    OBVIOUS
  <2> DEFINE w1 == [st.acct EXCEPT ![from].bal = @ - amount]
             w2 == [w1 EXCEPT ![to].bal = @ + amount]
             w3 == [w2 EXCEPT ![to].exists = TRUE]
  <2>2. BankSend(st, from, to, amount) = [st EXCEPT !.acct = w3, !.calls = n]
    BY DEF BankSend, StoreType
  <2>3. w1 = [st.acct EXCEPT ![from] = f2] /\ w1[to] = t
    BY <1>2
  <2>4. w2 = [w1 EXCEPT ![to] = [t EXCEPT !.bal = t.bal + amount]]
    BY <2>3
  <2>5. w3 = w
    <3> HIDE DEF f2, t
    <3>1. w1 \in [Accounts -> StoredAccounts]
      BY <1>2, <1>4, <2>3 DEF f2
    <3> QED BY <1>2, <2>3, <2>4, <3>1
  <2> QED BY <2>2, <2>5, Zenon
<1> HIDE DEF f2, t2, n
<1>7. /\ w \in [Accounts -> StoredAccounts] /\ w[from] = f2 /\ w[to] = t2
      /\ \A a \in Accounts : a # from /\ a # to => w[a] = st.acct[a]
  BY <1>2, <1>4, <1>5
<1> HIDE DEF w, f, t
<1>8. BankSend(st, from, to, amount) \in StoreType /\ BankSend(st, from, to, amount).acct = w
  BY <1>2, <1>6, <1>7, Zenon DEF StoreType
<1>9. \A a \in Accounts : w[a].slot = st.acct[a].slot
  <2>1. SUFFICES ASSUME NEW a \in Accounts PROVE w[a].slot = st.acct[a].slot
    BY <2>1, Zenon
  <2>2. CASE a = from
    BY <1>4, <1>7, <2>2, Zenon DEF f
  <2>3. CASE a = to
    BY <1>5, <1>7, <2>3, Zenon DEF t
  <2>4. CASE a # from /\ a # to
    BY <1>7, <2>4, Zenon
  <2> QED BY <2>2, <2>3, <2>4, Zenon
<1> QED BY <1>4, <1>5, <1>7, <1>8, <1>9, Zenon DEF f, t, Sent

(***************************************************************************)
(* What a precompile call writes to its layer.                             *)
(***************************************************************************)
\* SetTop is a write of the last layer.
LEMMA SetTopOK ==
    ASSUME NEW d, NEW m, DbOK(d, m), d.cache # << >>, NEW st \in StoreType, NEW e,
           e = SetTop(d, st)
    PROVE  /\ TopWrite(d, e, st) /\ KeepsObjects(d, e) /\ e.flushed = d.flushed
           /\ KeepsRegisters(d, e) /\ KeepsRevisions(d, e) /\ KeepsJournal(d, e)
<1>1. d \in DBType /\ Unflushed(d)
  BY Zenon DEF DbOK
<1> DEFINE cs == Topped(d.cache, st)
<1>2. cs \in Seq(StoreType) /\ cs # << >> /\ cs[Len(cs)] = st /\ SameBelow(d.cache, cs)
  <2>1. d.cache \in Seq(StoreType)
    BY <1>1, DBFields, Zenon
  <2> QED BY <2>1, TopLayer, Zenon
<1>3. e = [d EXCEPT !.cache = cs]
  BY Zenon DEF SetTop, Topped
<1> HIDE DEF cs
<1>4. /\ e \in DBType /\ e.cache = cs /\ e.ctx = d.ctx /\ e.flushed = d.flushed
      /\ KeepsObjects(d, e) /\ KeepsRegisters(d, e) /\ KeepsRevisions(d, e)
      /\ KeepsJournal(d, e)
  BY <1>1, <1>2, <1>3, Zenon DEF DBType, KeepsObjects, KeepsRegisters, KeepsRevisions, KeepsJournal
<1>5. e.live = d.live /\ e.obj = d.obj
  BY <1>4, Zenon DEF KeepsObjects
<1>6. \A a \in Accounts : Seen(e, a) = Seen(d, a) /\ GetState(e, a) = GetState(d, a)
  BY <1>4, <1>5, Zenon DEF Seen, Obj, Exist, GetState, GetCommittedState
<1>7. \A a \in e.live \ e.flushed : e.obj[a].origin = NoValue
  BY <1>1, <1>4, <1>5, Zenon DEF Unflushed
<1>8. d.flushed \subseteq e.flushed
  BY <1>4
<1> QED BY <1>2, <1>4, <1>5, <1>6, <1>7, <1>8, Zenon DEF TopWrite

\* Layers pushed on a stack.
LEMMA MoreLayers ==
    ASSUME NEW cs \in Seq(StoreType), cs # << >>, NEW n \in Nat, NEW ds,
           ds = cs \o [i \in 1..n |-> cs[Len(cs)]]
    PROVE  /\ ds \in Seq(StoreType) /\ ds # << >> /\ ds[Len(ds)] = cs[Len(cs)]
           /\ SameBelow(cs, ds)
<1> DEFINE ms == [i \in 1..n |-> cs[Len(cs)]]
<1>1. cs[Len(cs)] \in StoreType /\ Len(cs) \in Nat \ {0}
  OBVIOUS
<1>2. ms \in Seq(StoreType) /\ Len(ms) = n /\ \A i \in 1..n : ms[i] = cs[Len(cs)]
  BY <1>1
<1> HIDE DEF ms
<1>3. ds = cs \o ms
  BY DEF ms
<1>4. /\ ds \in Seq(StoreType) /\ Len(ds) = Len(cs) + n
      /\ \A i \in 1..Len(cs) : ds[i] = cs[i]
      /\ \A i \in Len(cs) + 1..Len(cs) + n : ds[i] = ms[i - Len(cs)]
  BY <1>2, <1>3
<1>5. ds[Len(ds)] = cs[Len(cs)]
  <2>1. CASE n = 0
    BY <1>1, <1>4, <2>1
  <2>2. CASE n # 0
    BY <1>1, <1>2, <1>4, <2>2
  <2> QED BY <2>1, <2>2
<1>6. SameBelow(cs, ds)
  <2>1. SUFFICES ASSUME NEW k \in Nat, k + 2 <= Len(cs)
                 PROVE  k + 2 <= Len(ds) /\ SubSeq(ds, 1, k + 1) = SubSeq(cs, 1, k + 1)
    BY <2>1, Zenon DEF SameBelow
  <2>2. SubSeq(ds, 1, k + 1) = SubSeq(cs, 1, k + 1)
    BY <1>1, <1>4, <2>1
  <2> QED BY <1>1, <1>4, <2>1, <2>2
<1> QED BY <1>1, <1>4, <1>5, <1>6

\* A precompile that branches its context pushes layers.
LEMMA BranchOK ==
    ASSUME NEW d, NEW m, DbOK(d, m), d.cache # << >>, NEW n \in Nat, NEW e,
           e = CacheMultiStore(d, n)
    PROVE  /\ TopWrite(d, e, Current(d)) /\ KeepsObjects(d, e) /\ e.flushed = d.flushed
           /\ KeepsRegisters(d, e) /\ KeepsRevisions(d, e) /\ KeepsJournal(d, e)
<1>1. d \in DBType /\ Unflushed(d)
  BY Zenon DEF DbOK
<1> DEFINE st == d.cache[Len(d.cache)]
           cs == d.cache \o [i \in 1..n |-> st]
<1>2. Current(d) = st /\ Current(d) \in StoreType
  BY <1>1, LayersType, Zenon DEF Current
<1>3. cs \in Seq(StoreType) /\ cs # << >> /\ cs[Len(cs)] = st /\ SameBelow(d.cache, cs)
  <2>1. d.cache \in Seq(StoreType)
    BY <1>1, DBFields, Zenon
  <2> QED BY <2>1, MoreLayers, Zenon
<1>4. e = [d EXCEPT !.cache = cs]
  BY <1>2, Zenon DEF CacheMultiStore
<1> HIDE DEF cs
<1>5. /\ e \in DBType /\ e.cache = cs /\ e.ctx = d.ctx /\ e.flushed = d.flushed
      /\ KeepsObjects(d, e) /\ KeepsRegisters(d, e) /\ KeepsRevisions(d, e)
      /\ KeepsJournal(d, e)
  BY <1>1, <1>3, <1>4, Zenon DEF DBType, KeepsObjects, KeepsRegisters, KeepsRevisions, KeepsJournal
<1>6. e.live = d.live /\ e.obj = d.obj
  BY <1>5, Zenon DEF KeepsObjects
<1>7. \A a \in Accounts : Seen(e, a) = Seen(d, a) /\ GetState(e, a) = GetState(d, a)
  BY <1>5, <1>6, Zenon DEF Seen, Obj, Exist, GetState, GetCommittedState
<1>8. \A a \in e.live \ e.flushed : e.obj[a].origin = NoValue
  BY <1>1, <1>5, <1>6, Zenon DEF Unflushed
<1>9. d.flushed \subseteq e.flushed
  BY <1>5
<1> HIDE DEF st
<1> QED BY <1>2, <1>3, <1>5, <1>6, <1>7, <1>8, <1>9, Zenon DEF TopWrite

\* The object of an account whose slot was written.
Synced(o) == [o EXCEPT !.origin = o.dirty]

\* The accounts whose slots are written.
SlotsWritten(d, st) ==
    {a \in Written(d, st) : ~d.obj[a].destructed /\ d.obj[a].dirty # NoValue}

\* A flush writes the dirty objects to the last layer.
FlushDone(d, e, m) ==
    /\ DbOK(e, m) /\ InCall(e, m) /\ e.cache # << >>
    /\ Current(e) = WriteDirty(d, Current(d))
    /\ KeepsRegisters(d, e) /\ KeepsRevisions(d, e) /\ KeepsJournal(d, e)
    /\ e.ctx = d.ctx /\ e.live = d.live
    /\ \A a \in Accounts : Seen(e, a) = Seen(d, a) /\ GetState(e, a) = GetState(d, a)
    /\ e.flushed = d.flushed \union SlotsWritten(d, Current(d))

\* This is what CommitWithCacheCtx does.
LEMMA FlushOK ==
    ASSUME NEW d, NEW m, DbOK(d, m), InCall(d, m), d.cache # << >>, NEW e,
           e = CommitWithCacheCtx(d)
    PROVE  FlushDone(d, e, m)
<1>1. ASSUME NEW o \in Objects
      PROVE  /\ Synced(o) \in Objects /\ Synced(o).bal = o.bal /\ Synced(o).nonce = o.nonce
             /\ Synced(o).code = o.code /\ Synced(o).destructed = o.destructed
             /\ Synced(o).new = o.new /\ Synced(o).dirty = o.dirty
  BY Zenon DEF Synced, Objects
\* Writing depends on the objects and on the count of changes.
<1>2. ASSUME NEW d0, NEW e0, e0.obj = d0.obj, e0.dirties = d0.dirties, NEW st
      PROVE  Written(e0, st) = Written(d0, st) /\ SlotsWritten(e0, st) = SlotsWritten(d0, st)
  <2>1. Dirty(e0) = Dirty(d0)
    BY <1>2, Zenon DEF Dirty
  <2>2. \A a : WriteFails(e0, st, a) = WriteFails(d0, st, a)
    BY <1>2, Zenon DEF WriteFails
  <2>3. Written(e0, st) = Written(d0, st)
    BY <2>1, <2>2, Zenon DEF Written
  <2> QED BY <1>2, <2>3, Zenon DEF SlotsWritten
<1> DEFINE st == Current(d)
           w  == WriteDirty(d, st)
           p  == SetTop(d, w)
           sw == SlotsWritten(d, st)
           os == [a \in Accounts |-> IF a \in sw THEN Synced(d.obj[a]) ELSE d.obj[a]]
           fl == d.flushed \union sw
<1>3. d \in DBType /\ Unflushed(d)
  BY Zenon DEF DbOK
<1>4. w \in StoreType
  BY <1>3, LayersType, WriteDirtyType, Zenon
<1> HIDE DEF w
<1>5. /\ TopWrite(d, p, w) /\ KeepsObjects(d, p) /\ p.flushed = d.flushed
      /\ KeepsRegisters(d, p) /\ KeepsRevisions(d, p) /\ KeepsJournal(d, p)
  BY <1>4, SetTopOK, Zenon
<1>6. p.obj = d.obj /\ p.live = d.live /\ p.dirties = d.dirties /\ p.ctx = d.ctx /\ p \in DBType
      /\ p.cache # << >> /\ p.cache[Len(p.cache)] = w /\ SameBelow(d.cache, p.cache)
  BY <1>5, Zenon DEF TopWrite, KeepsObjects, KeepsJournal
<1>7. e = SyncOrigin(p, st, TRUE)
  BY Zenon DEF CommitWithCacheCtx, w
<1> HIDE DEF p, st
<1>8. SlotsWritten(p, st) = sw
  BY <1>6, <1>2, Zenon
<1>9. sw \subseteq Accounts
  BY DEF SlotsWritten, Written, Dirty
<1>10. e = [p EXCEPT !.obj = os, !.flushed = fl]
  <2>1. e = [p EXCEPT !.obj = [a \in Accounts |->
                         IF a \in sw
                         THEN [p.obj[a] EXCEPT !.origin = p.obj[a].dirty,
                                               !.dirty = IF TRUE THEN @ ELSE NoValue]
                         ELSE p.obj[a]],
                      !.flushed = @ \union sw]
    BY <1>7, <1>8, Zenon DEF SyncOrigin, SlotsWritten
  <2>2. \A a \in Accounts : [d.obj[a] EXCEPT !.origin = d.obj[a].dirty,
                                             !.dirty = IF TRUE THEN @ ELSE NoValue]
                            = Synced(d.obj[a])
    <3>1. SUFFICES ASSUME NEW a \in Accounts
                   PROVE  [d.obj[a] EXCEPT !.origin = d.obj[a].dirty,
                                           !.dirty = IF TRUE THEN @ ELSE NoValue]
                            = Synced(d.obj[a])
      BY <3>1, Zenon
    <3>2. d.obj[a] \in Objects
      BY <1>3, DBFields
    <3> QED BY <3>2 DEF Synced, Objects
  <2>3. [a \in Accounts |->
            IF a \in sw
            THEN [p.obj[a] EXCEPT !.origin = p.obj[a].dirty, !.dirty = IF TRUE THEN @ ELSE NoValue]
            ELSE p.obj[a]] = os
    BY <1>6, <2>2
  <2> HIDE DEF os, sw
  <2> QED BY <1>5, <2>1, <2>3, Zenon
<1>11. \A a \in Accounts : d.obj[a] \in Objects
  BY <1>3, DBFields
<1>12. os \in [Accounts -> Objects] /\ fl \in SUBSET Accounts
  <2>1. d.flushed \subseteq Accounts
    BY <1>3, DBFields, Zenon
  <2> HIDE DEF sw
  <2> QED BY <1>9, <1>11, <2>1, <1>1
<1>13. \A a \in Accounts : os[a] = IF a \in sw THEN Synced(d.obj[a]) ELSE d.obj[a]
  BY Zenon
<1> HIDE DEF os, fl, sw
<1>14. /\ e \in DBType /\ e.obj = os /\ e.flushed = fl /\ e.live = p.live /\ e.cache = p.cache
       /\ e.ctx = p.ctx
       /\ KeepsRegisters(p, e) /\ KeepsRevisions(p, e) /\ KeepsJournal(p, e)
  BY <1>6, <1>10, <1>12, Zenon DEF DBType, KeepsRegisters, KeepsRevisions, KeepsJournal
<1>15. KeepsRegisters(d, e) /\ KeepsRevisions(d, e) /\ KeepsJournal(d, e)
  BY <1>5, <1>14, Zenon DEF KeepsRegisters, KeepsRevisions, KeepsJournal
<1>16. e.ctx = d.ctx /\ e.live = d.live /\ d.live \subseteq Accounts
  BY <1>3, <1>6, <1>14, DBFields, Zenon
<1>17. \A a \in Accounts :
          /\ e.obj[a].bal = d.obj[a].bal /\ e.obj[a].nonce = d.obj[a].nonce
          /\ e.obj[a].code = d.obj[a].code /\ e.obj[a].destructed = d.obj[a].destructed
          /\ e.obj[a].new = d.obj[a].new /\ e.obj[a].dirty = d.obj[a].dirty
  <2>1. SUFFICES ASSUME NEW a \in Accounts
                 PROVE  /\ e.obj[a].bal = d.obj[a].bal /\ e.obj[a].nonce = d.obj[a].nonce
                        /\ e.obj[a].code = d.obj[a].code
                        /\ e.obj[a].destructed = d.obj[a].destructed
                        /\ e.obj[a].new = d.obj[a].new /\ e.obj[a].dirty = d.obj[a].dirty
    BY <2>1, Zenon
  <2>2. e.obj[a] = IF a \in sw THEN Synced(d.obj[a]) ELSE d.obj[a]
    BY <1>13, <1>14, Zenon
  <2>3. CASE a \in sw
    <3>1. d.obj[a] \in Objects /\ e.obj[a] = Synced(d.obj[a])
      BY <1>11, <2>2, <2>3, Zenon
    <3> QED BY <3>1, <1>1
  <2>4. CASE a \notin sw
    BY <2>2, <2>4, Zenon
  <2> QED BY <2>3, <2>4, Zenon
<1>18. \A a \in Accounts : Seen(e, a) = Seen(d, a)
  BY <1>16, <1>17, Zenon DEF Seen, Obj, Exist
<1>19. \A a \in Accounts : a \notin sw => e.obj[a] = d.obj[a]
  BY <1>13, <1>14, Zenon
<1>20. \A a \in Accounts : a \in sw => d.obj[a].dirty # NoValue
  BY Zenon DEF sw, SlotsWritten
<1>21. \A a \in Accounts : GetState(e, a) = GetState(d, a)
  BY <1>16, <1>17, <1>19, <1>20 DEF GetState, GetCommittedState
<1>22. \A a \in e.live \ e.flushed : e.obj[a].origin = NoValue
  <2>1. SUFFICES ASSUME NEW a \in e.live, a \notin e.flushed PROVE e.obj[a].origin = NoValue
    BY <2>1
  <2>2. a \notin d.flushed /\ a \notin sw
    BY <1>14, <2>1 DEF fl
  <2>3. a \in Accounts /\ a \in d.live
    BY <1>16, <2>1
  <2> QED BY <1>3, <1>19, <2>2, <2>3 DEF Unflushed
<1>23. d.flushed \subseteq e.flushed
  BY <1>14 DEF fl
<1>24. TopWrite(d, e, w)
  BY <1>4, <1>6, <1>14, <1>15, <1>16, <1>18, <1>21, <1>22, <1>23, Zenon DEF TopWrite
<1>25. DbOK(e, m) /\ InCall(e, m) /\ Current(e) = w /\ e.cache # << >>
  BY <1>24, TopOK, Zenon
<1> QED BY <1>14, <1>15, <1>16, <1>18, <1>21, <1>25, Zenon DEF FlushDone, w, st, fl, sw

(***************************************************************************)
(* Setters of an account.                                                  *)
(***************************************************************************)
\* Loading an object changes nothing that is seen.
Loaded(d, e, m, a) ==
    /\ DbOK(e, m)
    /\ \A x \in Accounts : GetState(e, x) = GetState(d, x) /\ Seen(e, x) = Seen(d, x)
    /\ KeepsStores(d, e) /\ KeepsRevisions(d, e) /\ KeepsJournal(d, e)
    /\ a \in e.live <=> Exist(d, a)

\* This is so of getStateObject.
LEMMA LoadOK ==
    ASSUME NEW d, NEW m, DbOK(d, m), NEW a \in Accounts, NEW e, e = getStateObject(d, a)
    PROVE  Loaded(d, e, m, a)
\* getStateObject loads an object or does nothing.
<1>1. ASSUME NEW d0 \in DBType, NEW a0 \in Accounts
      PROVE  LET e0 == getStateObject(d0, a0)
             IN  /\ e0 \in DBType
                 /\ KeepsRegisters(d0, e0) /\ KeepsStores(d0, e0) /\ KeepsRevisions(d0, e0)
                 /\ KeepsJournal(d0, e0)
                 /\ e0.live = IF d0.ctx.acct[a0].exists THEN d0.live \union {a0} ELSE d0.live
                 /\ e0.obj = IF a0 \notin d0.live /\ d0.ctx.acct[a0].exists
                            THEN [d0.obj EXCEPT ![a0] = newObject(d0.ctx.acct[a0])] ELSE d0.obj
  <2> DEFINE e0 == getStateObject(d0, a0)
  <2>1. d0.ctx.acct[a0] \in StoredAccounts
    BY DEF DBType, StoreType
  <2>2. newObject(d0.ctx.acct[a0]) \in Objects
    BY <2>1, newObjectType, Zenon
  <2>3. CASE a0 \notin d0.live /\ d0.ctx.acct[a0].exists
    BY <2>2, <2>3, Zenon DEF getStateObject, DBType, KeepsRegisters, KeepsStores, KeepsRevisions, KeepsJournal
  <2>4. CASE ~(a0 \notin d0.live /\ d0.ctx.acct[a0].exists)
    BY <2>4, Zenon DEF getStateObject, DBType, KeepsRegisters, KeepsStores, KeepsRevisions, KeepsJournal
  <2> QED BY <2>3, <2>4
\* An operation that changes nothing that is seen keeps the invariant.
<1>2. ASSUME NEW d0, NEW e0, NEW m0, DbOK(d0, m0), e0 \in DBType,
             KeepsRegisters(d0, e0), KeepsStores(d0, e0), KeepsRevisions(d0, e0), KeepsJournal(d0, e0),
             d0.live \subseteq e0.live, Abs(e0) = Abs(d0),
             \A a0 \in Accounts : GetState(e0, a0) = GetState(d0, a0),
             \A a0 \in e0.live \ e0.flushed : e0.obj[a0].origin = NoValue
      PROVE  DbOK(e0, m0)
  <2>1. /\ e0.addresses = d0.addresses /\ e0.slots = d0.slots /\ e0.ctx = d0.ctx /\ e0.cache = d0.cache
        /\ e0.flushed = d0.flushed /\ e0.revisions = d0.revisions /\ e0.journal = d0.journal
    BY <1>2, Zenon DEF KeepsRegisters, KeepsStores, KeepsRevisions, KeepsJournal
  <2>2. /\ d0 \in DBType /\ Accessible(d0) /\ ObjectsLive(d0) /\ Unflushed(d0) /\ Branched(d0)
        /\ RevisionsInOrder(d0, m0)
    BY <1>2, Zenon DEF DbOK
  <2>3. Accessible(e0) /\ Branched(e0) /\ RevisionsInOrder(e0, m0)
    <3>1. Accessible(e0)
      BY <2>1, <2>2 DEF Accessible
    <3>2. Branched(e0)
      BY <2>1, <2>2, Zenon DEF Branched
    <3>3. RevisionsInOrder(e0, m0)
      BY <2>1, <2>2, Zenon DEF RevisionsInOrder
    <3> QED BY <3>1, <3>2, <3>3
  <2>4. ObjectsLive(e0)
    BY <1>2, <2>1, <2>2, Zenon DEF ObjectsLive
  <2>5. Unflushed(e0)
    BY <1>2, <2>1, <2>2, Zenon DEF Unflushed
  <2>6. \E h : Traces(h, e0, m0)
    <3>1. PICK h : Traces(h, d0, m0)
      BY <1>2, Zenon DEF DbOK
    <3>2. Traces(h, e0, m0)
      BY <1>2, <2>1, <3>1, Zenon DEF Traces
    <3> QED BY <3>2, Zenon
  <2>7. \A a0 \in Accounts \ e0.flushed : \E g : SlotTraces(g, e0, m0, a0)
    <3>1. SUFFICES ASSUME NEW a0 \in Accounts \ e0.flushed PROVE \E g : SlotTraces(g, e0, m0, a0)
      BY <3>1, Zenon
    <3>2. PICK g : SlotTraces(g, d0, m0, a0)
      BY <1>2, <2>1, Zenon DEF DbOK
    <3>3. GetState(e0, a0) = GetState(d0, a0)
      BY <1>2
    <3>4. SlotTraces(g, e0, m0, a0)
      BY <2>1, <3>2, <3>3, Zenon DEF SlotTraces
    <3> QED BY <3>4, Zenon
  <2> QED BY <1>2, <2>3, <2>4, <2>5, <2>6, <2>7, Zenon DEF DbOK
<1>3. d \in DBType /\ Unflushed(d)
  BY Zenon DEF DbOK
<1>4. /\ e \in DBType
      /\ KeepsRegisters(d, e) /\ KeepsStores(d, e) /\ KeepsRevisions(d, e) /\ KeepsJournal(d, e)
      /\ e.live = IF d.ctx.acct[a].exists THEN d.live \union {a} ELSE d.live
      /\ e.obj = IF a \notin d.live /\ d.ctx.acct[a].exists
                 THEN [d.obj EXCEPT ![a] = newObject(d.ctx.acct[a])] ELSE d.obj
  BY <1>3, <1>1, Zenon
<1>5. /\ d.live \subseteq Accounts /\ d.obj \in [Accounts -> Objects]
      /\ d.ctx.acct[a] \in StoredAccounts /\ e.ctx = d.ctx /\ e.cache = d.cache /\ e.flushed = d.flushed
  BY <1>3, <1>4, ObjType, DBFields, Zenon DEF KeepsStores
<1>6. newObject(d.ctx.acct[a]).origin = NoValue /\ newObject(d.ctx.acct[a]).dirty = NoValue
  BY <1>5, newObjectType, Zenon
<1>7. \A x \in Accounts : Exist(e, x) = Exist(d, x) /\ Obj(e, x) = Obj(d, x)
  BY <1>4, <1>5 DEF Exist, Obj
<1>8. \A x \in Accounts : GetState(e, x) = GetState(d, x)
  BY <1>4, <1>5, <1>6 DEF GetState, GetCommittedState
<1>9. \A x \in Accounts : Seen(e, x) = Seen(d, x)
  BY <1>7, Zenon DEF Seen
<1>10. Abs(e) = Abs(d)
  <2>1. [x \in Accounts |-> Seen(e, x)] = [x \in Accounts |-> Seen(d, x)]
    BY <1>9
  <2>2. Layers(e) = Layers(d)
    BY <1>5, Zenon DEF Layers
  <2> QED BY <1>4, <2>1, <2>2, Zenon DEF Abs, KeepsRegisters, KeepsJournal
<1>11. \A x \in e.live \ e.flushed : e.obj[x].origin = NoValue
  BY <1>3, <1>4, <1>5, <1>6 DEF Unflushed
<1>12. d.live \subseteq e.live /\ (Exist(d, a) => a \in e.live) /\ (a \in e.live => Exist(d, a))
  BY <1>4 DEF Exist
<1>13. DbOK(e, m)
  BY <1>4, <1>8, <1>10, <1>11, <1>12, <1>2, Zenon
<1> QED BY <1>4, <1>8, <1>9, <1>12, <1>13, Zenon DEF Loaded

\* What a setter leaves alone: the stores and the revisions, and of an account
\* it does not make dirty everything but the mark of a new contract.
SameAccount(d, e, a) ==
    /\ Seen(e, a).exists = Seen(d, a).exists /\ Seen(e, a).bal = Seen(d, a).bal
    /\ Seen(e, a).nonce = Seen(d, a).nonce /\ Seen(e, a).code = Seen(d, a).code
    /\ Seen(e, a).destructed = Seen(d, a).destructed /\ GetState(e, a) = GetState(d, a)

Keeps(d, e) ==
    /\ KeepsStores(d, e) /\ KeepsRevisions(d, e)
    /\ \A a \in Accounts : e.dirties[a] = 0 => d.dirties[a] = 0 /\ SameAccount(d, e, a)
    /\ \A a \in Accounts : Seen(d, a).destructed => Seen(e, a).destructed

\* Setters can be combined.
LEMMA KeepsBoth ==
    ASSUME NEW d, NEW e, NEW f, Keeps(d, e), Keeps(e, f)
    PROVE  Keeps(d, f)
<1>1. KeepsStores(d, f)
  BY Zenon DEF Keeps, KeepsStores
<1>2. KeepsRevisions(d, f)
  BY Zenon DEF Keeps, KeepsRevisions
<1>3. \A a \in Accounts : f.dirties[a] = 0 => d.dirties[a] = 0 /\ SameAccount(d, f, a)
  BY Zenon DEF Keeps, SameAccount
<1>4. \A a \in Accounts : Seen(d, a).destructed => Seen(f, a).destructed
  BY Zenon DEF Keeps
<1> QED BY <1>1, <1>2, <1>3, <1>4, Zenon DEF Keeps

\* Loading an object is one.
LEMMA LoadKeeps ==
    ASSUME NEW d, NEW e, KeepsStores(d, e), KeepsRevisions(d, e), e.dirties = d.dirties,
           \A x \in Accounts : GetState(e, x) = GetState(d, x) /\ Seen(e, x) = Seen(d, x)
    PROVE  Keeps(d, e)
BY Zenon DEF Keeps, SameAccount

\* Only account a is seen differently.
SameElsewhere(d, e, a) ==
    \A x \in Accounts : x # a => Seen(e, x) = Seen(d, x) /\ GetState(e, x) = GetState(d, x)

\* The write of an object of account a that its entry undoes.
UndoableWrite(d, e, en, a, o) ==
    /\ ObjectWritten(d, e, en, a, o) /\ en.kind \in ObjectKinds /\ en.acct = a
    /\ en.kind = "createObject" => a \notin d.live
    /\ Seen(d, a) = UndoneAcct(Seen(e, a), en, d.ctx)
    /\ a \notin d.flushed => /\ o.origin = NoValue
                             /\ en.kind = "storage" => en.orig = d.ctx.acct[a].slot
                             /\ GetState(d, a) = UndoneSlot(GetState(e, a), en, a, d.ctx)

\* It keeps the invariant.
LEMMA WrittenOK ==
    ASSUME NEW d, NEW m, DbOK(d, m), NEW a \in Accounts, NEW e, NEW en, NEW o,
           UndoableWrite(d, e, en, a, o)
    PROVE  DbOK(e, m) /\ SameElsewhere(d, e, a)
<1>1. /\ ObjectWritten(d, e, en, a, o) /\ en.kind \in ObjectKinds /\ en.acct = a
      /\ en.kind = "createObject" => a \notin d.live
      /\ Seen(d, a) = UndoneAcct(Seen(e, a), en, d.ctx)
      /\ a \notin d.flushed => /\ o.origin = NoValue
                               /\ en.kind = "storage" => en.orig = d.ctx.acct[a].slot
                               /\ GetState(d, a) = UndoneSlot(GetState(e, a), en, a, d.ctx)
  BY Zenon DEF UndoableWrite
<1>2. d \in DBType /\ Accessible(d) /\ Unflushed(d)
  BY Zenon DEF DbOK
<1>3. /\ e \in DBType /\ en \in JournalEntries /\ o \in Objects
      /\ KeepsRegisters(d, e) /\ KeepsStores(d, e) /\ KeepsRevisions(d, e)
      /\ Journals(d, e, en)
      /\ e.live = d.live \union {a} /\ e.obj = [d.obj EXCEPT ![a] = o]
  BY <1>1, Zenon DEF ObjectWritten
<1>4. /\ d.live \subseteq Accounts /\ d.obj \in [Accounts -> Objects]
      /\ e.ctx = d.ctx /\ e.cache = d.cache /\ e.flushed = d.flushed
      /\ e.addresses = d.addresses /\ e.slots = d.slots
      /\ e.refund = d.refund /\ e.logs = d.logs /\ e.transient = d.transient
      /\ e.journal = Append(d.journal, en)
      /\ d.dirties \in [Accounts -> Nat]
  BY <1>2, <1>3, DBFields, Zenon DEF KeepsStores, KeepsRegisters, Journals
<1>5. /\ \A x \in Accounts : x # a => (x \in e.live <=> x \in d.live) /\ e.obj[x] = d.obj[x]
      /\ e.obj[a] = o
  BY <1>3, <1>4
<1>6. \A x \in Accounts : x # a => Seen(e, x) = Seen(d, x) /\ GetState(e, x) = GetState(d, x)
  BY <1>4, <1>5, Zenon DEF Seen, Obj, Exist, GetState, GetCommittedState
<1>7. Accessible(e)
  BY <1>2, <1>4, SMTT(20) DEF Accessible
<1>8. \A x \in e.live \ e.flushed : e.obj[x].origin = NoValue
  <2>1. \A x \in d.live \ d.flushed : d.obj[x].origin = NoValue
    BY <1>2, Zenon DEF Unflushed
  <2> QED BY <1>1, <1>3, <1>4, <1>5, <2>1
<1>9. en.kind \notin {"refund", "log", "transient", "address", "slot", "precompile"}
  BY <1>1 DEF ObjectKinds
<1>10. Undoes(Abs(d), Abs(e), en, d.ctx)
  <2>1. /\ \A x \in Accounts : Abs(d).acct[x] = Seen(d, x) /\ Abs(e).acct[x] = Seen(e, x)
        /\ Abs(d).refund = d.refund /\ Abs(d).logs = d.logs /\ Abs(d).transient = d.transient
        /\ Abs(d).addresses = d.addresses /\ Abs(d).slots = d.slots
        /\ Abs(d).dirties = d.dirties /\ Abs(d).layers = Layers(d)
        /\ Abs(e).refund = e.refund /\ Abs(e).logs = e.logs /\ Abs(e).transient = e.transient
        /\ Abs(e).addresses = e.addresses /\ Abs(e).slots = e.slots
        /\ Abs(e).dirties = e.dirties /\ Abs(e).layers = Layers(e)
    BY AbsFields, Zenon
  <2>2. Layers(e) = Layers(d)
    BY <1>4, Zenon DEF Layers
  <2>3. \A x \in Accounts :
           Abs(d).acct[x] = IF en.kind \in ObjectKinds /\ en.acct = x
                            THEN UndoneAcct(Abs(e).acct[x], en, d.ctx) ELSE Abs(e).acct[x]
    BY <1>1, <1>6, <2>1, Zenon
  <2>4. d.dirties = IF en.kind \in Dirtying
                    THEN [e.dirties EXCEPT ![en.acct] = e.dirties[en.acct] - 1] ELSE e.dirties
    <3>1. CASE en.kind \in Dirtying
      <4>1. e.dirties = [d.dirties EXCEPT ![a] = d.dirties[a] + 1]
        BY <1>1, <1>3, <3>1, Zenon DEF Journals
      <4>2. d.dirties = [e.dirties EXCEPT ![a] = e.dirties[a] - 1]
        BY <1>4, <4>1
      <4> QED BY <1>1, <3>1, <4>2, Zenon
    <3>2. CASE en.kind \notin Dirtying
      BY <1>3, <3>2, Zenon DEF Journals
    <3> QED BY <3>1, <3>2, Zenon
  <2>5. UndoneAddresses(Abs(e), en) = d.addresses /\ UndoneSlots(Abs(e), en) = d.slots
    BY <1>4, <1>9, <2>1, Zenon DEF UndoneAddresses, UndoneSlots
  <2> QED BY <1>4, <1>9, <2>1, <2>2, <2>3, <2>4, <2>5, Zenon DEF Undoes
<1>11. \A x \in Accounts \ d.flushed : GetState(d, x) = UndoneSlot(GetState(e, x), en, x, d.ctx)
  <2>1. SUFFICES ASSUME NEW x \in Accounts, x \notin d.flushed
                 PROVE  GetState(d, x) = UndoneSlot(GetState(e, x), en, x, d.ctx)
    BY <2>1
  <2>2. CASE x = a
    BY <1>1, <2>1, <2>2, Zenon
  <2>3. CASE x # a
    BY <1>1, <1>6, <2>1, <2>3, Zenon DEF UndoneSlot
  <2> QED BY <2>2, <2>3, Zenon
<1>12. d.live \subseteq e.live /\ a \in e.live
  BY <1>3
<1>13. Pushes(d, e, en)
  BY <1>1, <1>3, <1>4, <1>7, <1>8, <1>9, <1>10, <1>11, <1>12, Zenon DEF Pushes
<1> QED BY <1>6, <1>13, PushOK, Zenon DEF SameElsewhere

\* What is seen of an account once its object is o.
SeenAs(d, e, a, o) ==
    /\ Seen(e, a) = Row(TRUE, o.bal, o.nonce, o.code, o.destructed, o.new)
    /\ GetState(e, a) = IF o.dirty # NoValue THEN o.dirty
                        ELSE IF o.origin # NoValue THEN o.origin
                        ELSE d.ctx.acct[a].slot
    /\ e.ctx = d.ctx /\ a \in e.live

\* This is so when the object was written.
LEMMA WrittenSeen ==
    ASSUME NEW d \in DBType, NEW a \in Accounts, NEW e, NEW en, NEW o,
           ObjectWritten(d, e, en, a, o)
    PROVE  SeenAs(d, e, a, o)
<1>1. d.obj \in [Accounts -> Objects]
  BY DBFields
<1>2. e.ctx = d.ctx /\ a \in e.live /\ e.obj[a] = o
  BY <1>1 DEF ObjectWritten, KeepsStores
<1> QED BY <1>2, Zenon DEF SeenAs, Seen, Obj, Exist, GetState, GetCommittedState

\* A write that journals a change of the account keeps the rest.
LEMMA WrittenKeeps ==
    ASSUME NEW d \in DBType, NEW a \in Accounts, NEW e, NEW en, NEW o,
           ObjectWritten(d, e, en, a, o), en.acct = a,
           en.kind \in Dirtying \/ SameAccount(d, e, a),
           Seen(d, a).destructed => Seen(e, a).destructed,
           SameElsewhere(d, e, a)
    PROVE  Keeps(d, e)
<1>1. /\ KeepsStores(d, e) /\ KeepsRevisions(d, e) /\ d.dirties \in [Accounts -> Nat]
      /\ e.dirties = IF en.kind \in Dirtying THEN [d.dirties EXCEPT ![a] = d.dirties[a] + 1]
                     ELSE d.dirties
  BY DBFields, Zenon DEF ObjectWritten, Journals
<1>2. /\ \A x \in Accounts : x # a => e.dirties[x] = d.dirties[x]
      /\ e.dirties[a] = IF en.kind \in Dirtying THEN d.dirties[a] + 1 ELSE d.dirties[a]
      /\ e.dirties[a] = 0 => en.kind \notin Dirtying
  BY <1>1
<1>3. \A x \in Accounts : x # a => SameAccount(d, e, x)
  BY Zenon DEF SameAccount, SameElsewhere
<1>4. \A x \in Accounts : e.dirties[x] = 0 => d.dirties[x] = 0 /\ SameAccount(d, e, x)
  BY <1>2, <1>3
<1>5. \A x \in Accounts : Seen(d, x).destructed => Seen(e, x).destructed
  BY Zenon DEF SameElsewhere
<1> QED BY <1>1, <1>4, <1>5, Zenon DEF Keeps

\* A write that leaves the storage of a live object alone.
AttributeWrite(d, e, en, a, o) ==
    /\ ObjectWritten(d, e, en, a, o) /\ en.acct = a
    /\ en.kind \in {"createContract", "selfDestruct", "balance", "nonce", "code"}
    /\ o.origin = d.obj[a].origin /\ o.dirty = d.obj[a].dirty
    /\ Seen(d, a) = UndoneAcct(Seen(e, a), en, d.ctx)
    /\ d.obj[a].destructed => o.destructed
    /\ en.kind = "createContract" => /\ o.bal = d.obj[a].bal /\ o.nonce = d.obj[a].nonce
                                     /\ o.code = d.obj[a].code
                                     /\ o.destructed = d.obj[a].destructed

\* It keeps the invariant and the other accounts.
LEMMA AttributeOK ==
    ASSUME NEW d, NEW m, DbOK(d, m), NEW a \in d.live, NEW e, NEW en, NEW o,
           AttributeWrite(d, e, en, a, o)
    PROVE  DbOK(e, m) /\ Keeps(d, e) /\ SameElsewhere(d, e, a)
<1>1. d \in DBType /\ Unflushed(d)
  BY Zenon DEF DbOK
<1>2. a \in Accounts
  BY <1>1, DBFields
<1>3. /\ ObjectWritten(d, e, en, a, o) /\ en.acct = a
      /\ en.kind \in {"createContract", "selfDestruct", "balance", "nonce", "code"}
      /\ o.origin = d.obj[a].origin /\ o.dirty = d.obj[a].dirty
      /\ Seen(d, a) = UndoneAcct(Seen(e, a), en, d.ctx)
      /\ d.obj[a].destructed => o.destructed
      /\ en.kind = "createContract" => /\ o.bal = d.obj[a].bal /\ o.nonce = d.obj[a].nonce
                                       /\ o.code = d.obj[a].code
                                       /\ o.destructed = d.obj[a].destructed
  BY Zenon DEF AttributeWrite
<1>4. SeenAs(d, e, a, o)
  BY <1>1, <1>2, <1>3, WrittenSeen, Zenon
<1>5. GetState(e, a) = GetState(d, a)
  BY <1>3, <1>4, Zenon DEF SeenAs, GetState, GetCommittedState
<1>6. en.kind \in ObjectKinds /\ en.kind \notin {"createObject", "storage"}
  BY <1>3 DEF ObjectKinds
<1>7. UndoableWrite(d, e, en, a, o)
  <2>1. a \notin d.flushed => o.origin = NoValue
    BY <1>1, <1>3 DEF Unflushed
  <2>2. UndoneSlot(GetState(e, a), en, a, d.ctx) = GetState(d, a)
    BY <1>5, <1>6 DEF UndoneSlot
  <2> QED BY <1>3, <1>6, <2>1, <2>2 DEF UndoableWrite
<1>8. DbOK(e, m) /\ SameElsewhere(d, e, a)
  BY <1>2, <1>7, WrittenOK, Zenon
<1>9. /\ Seen(d, a).exists = TRUE /\ Seen(d, a).bal = d.obj[a].bal
      /\ Seen(d, a).nonce = d.obj[a].nonce /\ Seen(d, a).code = d.obj[a].code
      /\ Seen(d, a).destructed = d.obj[a].destructed
  BY SeenFields, Zenon DEF Obj, Exist
<1>10. /\ Seen(e, a).exists = TRUE /\ Seen(e, a).bal = o.bal
       /\ Seen(e, a).nonce = o.nonce /\ Seen(e, a).code = o.code
       /\ Seen(e, a).destructed = o.destructed
  BY <1>4 DEF SeenAs, Row
<1>11. en.kind \in Dirtying \/ SameAccount(d, e, a)
  <2>1. CASE en.kind = "createContract"
    BY <1>3, <1>5, <1>9, <1>10, <2>1, Zenon DEF SameAccount
  <2>2. CASE en.kind # "createContract"
    BY <1>3, <2>2 DEF Dirtying
  <2> QED BY <2>1, <2>2, Zenon
<1>12. Seen(d, a).destructed => Seen(e, a).destructed
  BY <1>3, <1>9, <1>10, Zenon
<1>13. Keeps(d, e)
  BY <1>1, <1>2, <1>3, <1>8, <1>11, <1>12, WrittenKeeps, Zenon
<1> QED BY <1>8, <1>13, Zenon

\* What every setter of an object does.
SetterOK(d, e, m, a) ==
    DbOK(e, m) /\ Keeps(d, e) /\ SameElsewhere(d, e, a) /\ a \in e.live

\* What is seen of a live account.
LEMMA LiveSeen ==
    ASSUME NEW d \in DBType, NEW a \in d.live
    PROVE  /\ a \in Accounts /\ d.obj[a] \in Objects
           /\ Seen(d, a) = Row(TRUE, d.obj[a].bal, d.obj[a].nonce, d.obj[a].code,
                               d.obj[a].destructed, d.obj[a].new)
<1>1. a \in Accounts /\ d.obj[a] \in Objects
  BY DBFields
<1> QED BY <1>1, Zenon DEF Seen, Obj, Exist

\* A journaled change makes the account dirty.
LEMMA WrittenDirty ==
    ASSUME NEW d \in DBType, NEW a \in Accounts, NEW e, NEW en, NEW o,
           ObjectWritten(d, e, en, a, o), en.acct = a,
           en.kind \in {"createObject", "selfDestruct", "balance", "nonce", "code", "storage"}
    PROVE  e.dirties[a] # 0
<1>1. d.dirties \in [Accounts -> Nat]
  BY DBFields, Zenon
<1>2. e.dirties = [d.dirties EXCEPT ![a] = d.dirties[a] + 1]
  BY Zenon DEF ObjectWritten, Journals, Dirtying
<1> QED BY <1>1, <1>2

\* SetBalance.
LEMMA SetBalanceOK ==
    ASSUME NEW d, NEW m, DbOK(d, m), NEW a \in d.live, NEW v \in Nat, NEW e,
           e = SetBalance(d, a, v)
    PROVE  /\ SetterOK(d, e, m, a) /\ e.dirties[a] # 0
           /\ Seen(e, a) = Row(TRUE, v, d.obj[a].nonce, d.obj[a].code, d.obj[a].destructed,
                               d.obj[a].new)
\* SetBalance.
<1>1. ASSUME NEW d0 \in DBType, NEW a0 \in d0.live, NEW v0 \in Nat
      PROVE  ObjectWritten(d0, SetBalance(d0, a0, v0),
                           [kind |-> "balance", acct |-> a0, prev |-> d0.obj[a0].bal], a0,
                           [d0.obj[a0] EXCEPT !.bal = v0])
  <2> DEFINE en == [kind |-> "balance", acct |-> a0, prev |-> d0.obj[a0].bal]
             o  == [d0.obj[a0] EXCEPT !.bal = v0]
             e0  == [append(d0, en) EXCEPT !.obj[a0].bal = v0]
  <2>1. a0 \in Accounts /\ d0.obj[a0] \in Objects
    BY DEF DBType
  <2>2. en \in JournalEntries /\ en.kind \in Dirtying /\ en.acct = a0
    BY <2>1 DEF JournalEntries, NumberEntries, Dirtying, Objects
  <2>3. o \in Objects
    BY <2>1 DEF Objects
  <2>4. e0 = [append(d0, en) EXCEPT !.obj[a0] = o]
    BY <2>1, <2>2, AppendEffects DEF KeepsObjects
  <2> HIDE DEF en, o, e0
  <2>5. ObjectWritten(d0, e0, en, a0, o)
    BY <2>1, <2>2, <2>3, <2>4, PutEffects, Zenon
  <2> QED BY <2>5 DEF SetBalance, en, o, e0
<1>2. d \in DBType
  BY Zenon DEF DbOK
<1> DEFINE en == [kind |-> "balance", acct |-> a, prev |-> d.obj[a].bal]
           o  == [d.obj[a] EXCEPT !.bal = v]
<1>3. ObjectWritten(d, e, en, a, o)
  BY <1>2, <1>1, Zenon
<1>4. /\ a \in Accounts /\ d.obj[a] \in Objects
      /\ Seen(d, a) = Row(TRUE, d.obj[a].bal, d.obj[a].nonce, d.obj[a].code,
                          d.obj[a].destructed, d.obj[a].new)
  BY <1>2, LiveSeen, Zenon
<1>5. /\ o.bal = v /\ o.nonce = d.obj[a].nonce /\ o.code = d.obj[a].code
      /\ o.destructed = d.obj[a].destructed /\ o.new = d.obj[a].new
      /\ o.origin = d.obj[a].origin /\ o.dirty = d.obj[a].dirty
  BY <1>4 DEF Objects
<1>6. en.kind = "balance" /\ en.acct = a /\ en.prev = d.obj[a].bal
  OBVIOUS
<1> HIDE DEF en, o
<1>7. SeenAs(d, e, a, o)
  BY <1>2, <1>3, <1>4, WrittenSeen, Zenon
<1>8. Seen(e, a) = Row(TRUE, o.bal, o.nonce, o.code, o.destructed, o.new) /\ a \in e.live
  BY <1>7, Zenon DEF SeenAs
<1>9. /\ Seen(e, a).exists = TRUE /\ Seen(e, a).bal = o.bal /\ Seen(e, a).nonce = o.nonce
      /\ Seen(e, a).code = o.code /\ Seen(e, a).destructed = o.destructed
      /\ Seen(e, a).new = o.new
  BY <1>8 DEF Row
<1>10. Seen(d, a) = UndoneAcct(Seen(e, a), en, d.ctx)
  <2>1. /\ en.kind # "createObject" /\ Seen(e, a).exists = TRUE
        /\ (IF en.kind \in {"selfDestruct", "balance"} THEN en.prev ELSE Seen(e, a).bal)
             = d.obj[a].bal
        /\ (IF en.kind = "nonce" THEN en.prev ELSE Seen(e, a).nonce) = d.obj[a].nonce
        /\ (IF en.kind = "code" THEN en.prev ELSE Seen(e, a).code) = d.obj[a].code
        /\ (IF en.kind = "selfDestruct" THEN en.flag ELSE Seen(e, a).destructed)
             = d.obj[a].destructed
        /\ (IF en.kind = "createContract" THEN FALSE ELSE Seen(e, a).new) = d.obj[a].new
    BY <1>5, <1>6, <1>9, Zenon
  <2> QED BY <1>4, <2>1, Zenon DEF UndoneAcct
<1>11. AttributeWrite(d, e, en, a, o)
  BY <1>3, <1>5, <1>6, <1>10 DEF AttributeWrite
<1>12. DbOK(e, m) /\ Keeps(d, e) /\ SameElsewhere(d, e, a)
  BY <1>11, AttributeOK, Zenon
<1>13. e.dirties[a] # 0
  BY <1>2, <1>3, <1>4, <1>6, WrittenDirty, Zenon
<1> QED BY <1>5, <1>8, <1>12, <1>13, Zenon DEF SetterOK

\* Two setters of the same account.
LEMMA SetterBoth ==
    ASSUME NEW d, NEW g, NEW e, NEW m, NEW a, SetterOK(d, g, m, a), SetterOK(g, e, m, a)
    PROVE  SetterOK(d, e, m, a)
<1>1. Keeps(d, e)
  BY KeepsBoth, Zenon DEF SetterOK
<1>2. SameElsewhere(d, e, a)
  BY Zenon DEF SetterOK, SameElsewhere
<1> QED BY <1>1, <1>2, Zenon DEF SetterOK

\* The balance of account a becomes b, and that of no other account changes.
BalanceSet(d, e, m, a, b) ==
    /\ SetterOK(d, e, m, a) /\ Seen(e, a).bal = b
    /\ b # Seen(d, a).bal => e.dirties[a] # 0

\* What is seen of an object.
LEMMA LiveFields ==
    ASSUME NEW d, NEW a \in d.live
    PROVE  /\ Seen(d, a).exists = TRUE /\ Seen(d, a).bal = d.obj[a].bal
           /\ Seen(d, a).nonce = d.obj[a].nonce /\ Seen(d, a).code = d.obj[a].code
           /\ Seen(d, a).destructed = d.obj[a].destructed /\ Seen(d, a).new = d.obj[a].new
BY SeenFields, Zenon DEF Obj, Exist

\* The balance that is seen is a number.
LEMMA SeenBal ==
    ASSUME NEW d \in DBType, NEW a \in Accounts
    PROVE  Seen(d, a).bal \in Nat
BY SeenType DEF SeenTypes

\* getOrNewStateObject, for the setters that call it.
LEMMA GetOrNewFields ==
    ASSUME NEW d, NEW m, DbOK(d, m), NEW a \in Accounts, NEW g,
           g = getOrNewStateObject(d, a)
    PROVE  /\ SetterOK(d, g, m, a) /\ DbOK(g, m) /\ a \in g.live
           /\ g.obj[a].bal = Seen(d, a).bal /\ g.obj[a].destructed = Seen(d, a).destructed
           /\ Seen(g, a).bal = Seen(d, a).bal
\* createObject starts from an empty object.
<1>1. ASSUME NEW d0 \in DBType, NEW a0 \in Accounts
      PROVE  ObjectWritten(d0, createObject(d0, a0), [kind |-> "createObject", acct |-> a0], a0,
                           newObject(Absent))
  <2> DEFINE en == [kind |-> "createObject", acct |-> a0]
             o  == newObject(Absent)
             e  == [append(d0, en) EXCEPT !.live = @ \union {a0}, !.obj[a0] = o]
  <2>1. en \in JournalEntries /\ en.kind \in Dirtying /\ en.acct = a0
    BY DEF JournalEntries, AccountEntries, Dirtying
  <2>2. o \in Objects
    BY AbsentType, newObjectType, Zenon
  <2> HIDE DEF en, o
  <2>3. ObjectWritten(d0, e, en, a0, o)
    BY <2>1, <2>2, PutEffects, Zenon
  <2> QED BY <2>3 DEF createObject, en, o
\* createObject, of an account that does not exist.
<1>2. ASSUME NEW d0, NEW m0, DbOK(d0, m0), NEW a0 \in Accounts, ~Exist(d0, a0), NEW e,
             e = createObject(d0, a0)
      PROVE  /\ SetterOK(d0, e, m0, a0) /\ e.dirties[a0] # 0
             /\ Seen(e, a0) = Row(TRUE, 0, 0, 0, FALSE, FALSE)
             /\ Seen(d0, a0) = Row(FALSE, 0, 0, 0, FALSE, FALSE)
  <2>1. d0 \in DBType
    BY <1>2, Zenon DEF DbOK
  <2> DEFINE en == [kind |-> "createObject", acct |-> a0]
             o  == newObject(Absent)
  <2>2. ObjectWritten(d0, e, en, a0, o)
    BY <1>2, <2>1, <1>1, Zenon
  <2>3. /\ o.bal = 0 /\ o.nonce = 0 /\ o.code = 0 /\ o.destructed = FALSE /\ o.new = FALSE
        /\ o.origin = NoValue /\ o.dirty = NoValue
    BY newObjectType, AbsentType, Zenon
  <2>4. d0.ctx.acct[a0] = Absent /\ a0 \notin d0.live
    <3>1. d0.ctx.acct[a0] \in StoredAccounts /\ ~d0.ctx.acct[a0].exists /\ a0 \notin d0.live
      BY <1>2, <2>1, ObjType, Zenon DEF Exist
    <3> QED BY <3>1, newObjectType, Zenon
  <2>5. en.kind = "createObject" /\ en.acct = a0
    OBVIOUS
  <2>6. Seen(d0, a0) = Row(FALSE, 0, 0, 0, FALSE, FALSE)
    <3>1. Obj(d0, a0) = o
      BY <2>4, Zenon DEF Obj
    <3>2. Exist(d0, a0) = FALSE
      BY <2>4, AbsentType DEF Exist
    <3> QED BY <2>3, <3>1, <3>2, Zenon DEF Seen
  <2> HIDE DEF en, o
  <2>7. SeenAs(d0, e, a0, o)
    BY <2>1, <2>2, WrittenSeen, Zenon
  <2>8. Seen(e, a0) = Row(TRUE, 0, 0, 0, FALSE, FALSE) /\ a0 \in e.live
    BY <2>3, <2>7, Zenon DEF SeenAs
  <2>9. Seen(d0, a0) = UndoneAcct(Seen(e, a0), en, d0.ctx)
    BY <2>4, <2>5, <2>6, AbsentType, Zenon DEF UndoneAcct, Stored
  <2>10. GetState(d0, a0) = UndoneSlot(GetState(e, a0), en, a0, d0.ctx)
    BY <2>4, <2>5, Zenon DEF GetState, GetCommittedState, UndoneSlot
  <2>11. UndoableWrite(d0, e, en, a0, o)
    BY <2>2, <2>3, <2>4, <2>5, <2>9, <2>10 DEF UndoableWrite, ObjectKinds
  <2>12. DbOK(e, m0) /\ SameElsewhere(d0, e, a0)
    BY <1>2, <2>11, WrittenOK, Zenon
  <2>13. en.kind \in Dirtying /\ ~Seen(d0, a0).destructed
    BY <2>5, <2>6 DEF Dirtying, Row
  <2>14. Keeps(d0, e)
    BY <2>1, <2>2, <2>5, <2>12, <2>13, WrittenKeeps, Zenon
  <2>15. e.dirties[a0] # 0
    BY <2>1, <2>2, <2>5, WrittenDirty, Zenon
  <2> QED BY <2>6, <2>8, <2>12, <2>14, <2>15, Zenon DEF SetterOK
\* getOrNewStateObject makes an account exist, and changes nothing else of it.
<1>3. ASSUME NEW d0, NEW m0, DbOK(d0, m0), NEW a0 \in Accounts, NEW e,
             e = getOrNewStateObject(d0, a0)
      PROVE  /\ SetterOK(d0, e, m0, a0)
             /\ Seen(e, a0) = Row(TRUE, Seen(d0, a0).bal, Seen(d0, a0).nonce, Seen(d0, a0).code,
                                 Seen(d0, a0).destructed, Seen(d0, a0).new)
  <2>1. CASE Exist(d0, a0)
    <3>1. e = getStateObject(d0, a0)
      BY <1>3, <2>1, Zenon DEF getOrNewStateObject
    <3>2. /\ DbOK(e, m0)
          /\ \A x \in Accounts : GetState(e, x) = GetState(d0, x) /\ Seen(e, x) = Seen(d0, x)
          /\ KeepsStores(d0, e) /\ KeepsRevisions(d0, e) /\ KeepsJournal(d0, e) /\ a0 \in e.live
      <4>1. Loaded(d0, e, m0, a0)
        BY <1>3, <3>1, LoadOK, Zenon
      <4> QED BY <2>1, <4>1, Zenon DEF Loaded
    <3>3. Keeps(d0, e)
      BY <3>2, LoadKeeps, Zenon DEF KeepsJournal
    <3>4. Seen(d0, a0).exists = TRUE
      BY <2>1, SeenFields
    <3>5. Seen(d0, a0) = Row(TRUE, Seen(d0, a0).bal, Seen(d0, a0).nonce, Seen(d0, a0).code,
                           Seen(d0, a0).destructed, Seen(d0, a0).new)
      BY <2>1, <3>4, SeenFields, Zenon DEF Seen
    <3> QED BY <3>2, <3>3, <3>5, Zenon DEF SetterOK, SameElsewhere
  <2>2. CASE ~Exist(d0, a0)
    <3>1. e = createObject(d0, a0)
      BY <1>3, <2>2, Zenon DEF getOrNewStateObject
    <3>2. /\ SetterOK(d0, e, m0, a0) /\ Seen(e, a0) = Row(TRUE, 0, 0, 0, FALSE, FALSE)
          /\ Seen(d0, a0) = Row(FALSE, 0, 0, 0, FALSE, FALSE)
      BY <1>3, <2>2, <3>1, <1>2, Zenon
    <3>3. /\ Seen(d0, a0).bal = 0 /\ Seen(d0, a0).nonce = 0 /\ Seen(d0, a0).code = 0
          /\ Seen(d0, a0).destructed = FALSE /\ Seen(d0, a0).new = FALSE
      BY <3>2 DEF Row
    <3> QED BY <3>2, <3>3, Zenon
  <2> QED BY <2>1, <2>2, Zenon
<1>4. /\ SetterOK(d, g, m, a)
      /\ Seen(g, a) = Row(TRUE, Seen(d, a).bal, Seen(d, a).nonce, Seen(d, a).code,
                          Seen(d, a).destructed, Seen(d, a).new)
  BY <1>3, Zenon
<1>5. DbOK(g, m) /\ a \in g.live
  BY <1>4, Zenon DEF SetterOK
<1>6. Seen(g, a).bal = Seen(d, a).bal /\ Seen(g, a).destructed = Seen(d, a).destructed
  BY <1>4 DEF Row
<1>7. Seen(g, a).bal = g.obj[a].bal /\ Seen(g, a).destructed = g.obj[a].destructed
  BY <1>5, LiveFields, Zenon
<1> QED BY <1>4, <1>5, <1>6, <1>7, Zenon

\* AddBalance.
LEMMA AddBalanceOK ==
    ASSUME NEW d, NEW m, DbOK(d, m), NEW a \in Accounts, NEW amount \in Nat, NEW e,
           e = AddBalance(d, a, amount)
    PROVE  BalanceSet(d, e, m, a, Seen(d, a).bal + amount)
<1> DEFINE g == getOrNewStateObject(d, a)
<1>1. /\ SetterOK(d, g, m, a) /\ DbOK(g, m) /\ a \in g.live
      /\ g.obj[a].bal = Seen(d, a).bal /\ Seen(g, a).bal = Seen(d, a).bal
  BY GetOrNewFields, Zenon
<1>2. e = IF amount = 0 THEN g ELSE SetBalance(g, a, g.obj[a].bal + amount)
  BY Zenon DEF AddBalance
<1>3. Seen(d, a).bal \in Nat
  BY SeenBal, Zenon DEF DbOK
<1> HIDE DEF g
<1>4. CASE amount = 0
  <2>1. e = g /\ Seen(d, a).bal + amount = Seen(d, a).bal
    BY <1>2, <1>3, <1>4
  <2> QED BY <1>1, <2>1, Zenon DEF BalanceSet
<1>5. CASE amount # 0
  <2>1. e = SetBalance(g, a, Seen(d, a).bal + amount) /\ Seen(d, a).bal + amount \in Nat
    BY <1>1, <1>2, <1>3, <1>5
  <2>2. SetterOK(g, e, m, a) /\ e.dirties[a] # 0
        /\ Seen(e, a) = Row(TRUE, Seen(d, a).bal + amount, g.obj[a].nonce, g.obj[a].code,
                            g.obj[a].destructed, g.obj[a].new)
    BY <1>1, <2>1, SetBalanceOK, Zenon
  <2>3. Seen(e, a).bal = Seen(d, a).bal + amount
    BY <2>2 DEF Row
  <2>4. SetterOK(d, e, m, a)
    BY <1>1, <2>2, SetterBoth, Zenon
  <2> QED BY <2>2, <2>3, <2>4, Zenon DEF BalanceSet
<1> QED BY <1>4, <1>5, Zenon

\* SubBalance, of a balance that is large enough.
LEMMA SubBalanceOK ==
    ASSUME NEW d, NEW m, DbOK(d, m), NEW a \in Accounts, NEW amount \in Nat,
           Seen(d, a).bal >= amount, NEW e, e = SubBalance(d, a, amount)
    PROVE  BalanceSet(d, e, m, a, Seen(d, a).bal - amount)
<1> DEFINE g == getOrNewStateObject(d, a)
<1>1. /\ SetterOK(d, g, m, a) /\ DbOK(g, m) /\ a \in g.live
      /\ g.obj[a].bal = Seen(d, a).bal /\ Seen(g, a).bal = Seen(d, a).bal
  BY GetOrNewFields, Zenon
<1>2. e = IF amount = 0 THEN g ELSE SetBalance(g, a, g.obj[a].bal - amount)
  BY Zenon DEF SubBalance
<1>3. Seen(d, a).bal \in Nat
  BY SeenBal, Zenon DEF DbOK
<1> HIDE DEF g
<1>4. CASE amount = 0
  <2>1. e = g /\ Seen(d, a).bal - amount = Seen(d, a).bal
    BY <1>2, <1>3, <1>4
  <2> QED BY <1>1, <2>1, Zenon DEF BalanceSet
<1>5. CASE amount # 0
  <2>1. e = SetBalance(g, a, Seen(d, a).bal - amount) /\ Seen(d, a).bal - amount \in Nat
    BY <1>1, <1>2, <1>3, <1>5
  <2>2. SetterOK(g, e, m, a) /\ e.dirties[a] # 0
        /\ Seen(e, a) = Row(TRUE, Seen(d, a).bal - amount, g.obj[a].nonce, g.obj[a].code,
                            g.obj[a].destructed, g.obj[a].new)
    BY <1>1, <2>1, SetBalanceOK, Zenon
  <2>3. Seen(e, a).bal = Seen(d, a).bal - amount
    BY <2>2 DEF Row
  <2>4. SetterOK(d, e, m, a)
    BY <1>1, <2>2, SetterBoth, Zenon
  <2> QED BY <2>2, <2>3, <2>4, Zenon DEF BalanceSet
<1> QED BY <1>4, <1>5, Zenon

\* A setter that changes no balance.
SetterOnly(d, e, m, a) == SetterOK(d, e, m, a) /\ Seen(e, a).bal = Seen(d, a).bal

\* SetNonce.
LEMMA SetNonceOK ==
    ASSUME NEW d, NEW m, DbOK(d, m), NEW a \in Accounts, NEW v \in Nat, NEW e,
           e = SetNonce(d, a, v)
    PROVE  SetterOnly(d, e, m, a)
\* The write of SetNonce.
<1>1. ASSUME NEW d0 \in DBType, NEW a0 \in d0.live, NEW v0 \in Nat
      PROVE  ObjectWritten(d0, WriteNonce(d0, a0, v0),
                           [kind |-> "nonce", acct |-> a0, prev |-> d0.obj[a0].nonce], a0,
                           [d0.obj[a0] EXCEPT !.nonce = v0])
  <2> DEFINE en == [kind |-> "nonce", acct |-> a0, prev |-> d0.obj[a0].nonce]
             o  == [d0.obj[a0] EXCEPT !.nonce = v0]
             e0  == [append(d0, en) EXCEPT !.obj[a0].nonce = v0]
  <2>1. a0 \in Accounts /\ d0.obj[a0] \in Objects
    BY DEF DBType
  <2>2. en \in JournalEntries /\ en.acct = a0
    BY <2>1 DEF JournalEntries, NumberEntries, Objects
  <2>3. o \in Objects
    BY <2>1 DEF Objects
  <2>4. e0 = [append(d0, en) EXCEPT !.obj[a0] = o]
    BY <2>1, <2>2, AppendEffects DEF KeepsObjects
  <2> HIDE DEF en, o, e0
  <2>5. ObjectWritten(d0, e0, en, a0, o)
    BY <2>1, <2>2, <2>3, <2>4, PutEffects, Zenon
  <2> QED BY <2>5 DEF WriteNonce, en, o, e0
\* The write of SetNonce.
<1>2. ASSUME NEW d0, NEW m0, DbOK(d0, m0), NEW a0 \in d0.live, NEW v0 \in Nat, NEW e0,
             e0 = WriteNonce(d0, a0, v0)
      PROVE  /\ SetterOK(d0, e0, m0, a0) /\ e0.dirties[a0] # 0
             /\ Seen(e0, a0) = Row(TRUE, d0.obj[a0].bal, v0, d0.obj[a0].code, d0.obj[a0].destructed,
                                 d0.obj[a0].new)
  <2>1. d0 \in DBType
    BY <1>2, Zenon DEF DbOK
  <2> DEFINE en == [kind |-> "nonce", acct |-> a0, prev |-> d0.obj[a0].nonce]
             o  == [d0.obj[a0] EXCEPT !.nonce = v0]
  <2>2. ObjectWritten(d0, e0, en, a0, o)
    BY <1>2, <2>1, <1>1, Zenon
  <2>3. /\ a0 \in Accounts /\ d0.obj[a0] \in Objects
        /\ Seen(d0, a0) = Row(TRUE, d0.obj[a0].bal, d0.obj[a0].nonce, d0.obj[a0].code,
                            d0.obj[a0].destructed, d0.obj[a0].new)
    BY <2>1, LiveSeen, Zenon
  <2>4. /\ o.bal = d0.obj[a0].bal /\ o.nonce = v0 /\ o.code = d0.obj[a0].code
        /\ o.destructed = d0.obj[a0].destructed /\ o.new = d0.obj[a0].new
        /\ o.origin = d0.obj[a0].origin /\ o.dirty = d0.obj[a0].dirty
    BY <2>3 DEF Objects
  <2>5. en.kind = "nonce" /\ en.acct = a0 /\ en.prev = d0.obj[a0].nonce
    OBVIOUS
  <2> HIDE DEF en, o
  <2>6. SeenAs(d0, e0, a0, o)
    BY <2>1, <2>2, <2>3, WrittenSeen, Zenon
  <2>7. Seen(e0, a0) = Row(TRUE, o.bal, o.nonce, o.code, o.destructed, o.new) /\ a0 \in e0.live
    BY <2>6, Zenon DEF SeenAs
  <2>8. /\ Seen(e0, a0).exists = TRUE /\ Seen(e0, a0).bal = o.bal /\ Seen(e0, a0).nonce = o.nonce
        /\ Seen(e0, a0).code = o.code /\ Seen(e0, a0).destructed = o.destructed
        /\ Seen(e0, a0).new = o.new
    BY <2>7 DEF Row
  <2>9. Seen(d0, a0) = UndoneAcct(Seen(e0, a0), en, d0.ctx)
    <3>1. /\ en.kind # "createObject" /\ Seen(e0, a0).exists = TRUE
          /\ (IF en.kind \in {"selfDestruct", "balance"} THEN en.prev ELSE Seen(e0, a0).bal)
               = d0.obj[a0].bal
          /\ (IF en.kind = "nonce" THEN en.prev ELSE Seen(e0, a0).nonce) = d0.obj[a0].nonce
          /\ (IF en.kind = "code" THEN en.prev ELSE Seen(e0, a0).code) = d0.obj[a0].code
          /\ (IF en.kind = "selfDestruct" THEN en.flag ELSE Seen(e0, a0).destructed)
               = d0.obj[a0].destructed
          /\ (IF en.kind = "createContract" THEN FALSE ELSE Seen(e0, a0).new) = d0.obj[a0].new
      BY <2>4, <2>5, <2>8, Zenon
    <3> QED BY <2>3, <3>1, Zenon DEF UndoneAcct
  <2>10. AttributeWrite(d0, e0, en, a0, o)
    BY <2>2, <2>4, <2>5, <2>9 DEF AttributeWrite
  <2>11. DbOK(e0, m0) /\ Keeps(d0, e0) /\ SameElsewhere(d0, e0, a0)
    BY <1>2, <2>10, AttributeOK, Zenon
  <2>12. e0.dirties[a0] # 0
    BY <2>1, <2>2, <2>3, <2>5, WrittenDirty, Zenon
  <2> QED BY <2>4, <2>7, <2>11, <2>12, Zenon DEF SetterOK
<1> DEFINE g == getOrNewStateObject(d, a)
<1>3. /\ SetterOK(d, g, m, a) /\ DbOK(g, m) /\ a \in g.live /\ g.obj[a].bal = Seen(d, a).bal
  BY GetOrNewFields, Zenon
<1>4. e = WriteNonce(g, a, v)
  BY Zenon DEF SetNonce, WriteNonce
<1> HIDE DEF g
<1>5. /\ SetterOK(g, e, m, a)
      /\ Seen(e, a) = Row(TRUE, g.obj[a].bal, v, g.obj[a].code, g.obj[a].destructed, g.obj[a].new)
  BY <1>3, <1>4, <1>2, Zenon
<1>6. Seen(e, a).bal = Seen(d, a).bal
  BY <1>3, <1>5 DEF Row
<1> QED BY <1>3, <1>5, <1>6, SetterBoth, Zenon DEF SetterOnly

\* SetCode.
LEMMA SetCodeOK ==
    ASSUME NEW d, NEW m, DbOK(d, m), NEW a \in Accounts, NEW v \in Values, NEW e,
           e = SetCode(d, a, v)
    PROVE  SetterOnly(d, e, m, a)
\* The write of SetCode.
<1>1. ASSUME NEW d0 \in DBType, NEW a0 \in d0.live, NEW v0 \in Values
      PROVE  ObjectWritten(d0, WriteCode(d0, a0, v0),
                           [kind |-> "code", acct |-> a0, prev |-> d0.obj[a0].code], a0,
                           [d0.obj[a0] EXCEPT !.code = v0])
  <2> DEFINE en == [kind |-> "code", acct |-> a0, prev |-> d0.obj[a0].code]
             o  == [d0.obj[a0] EXCEPT !.code = v0]
             e0  == [append(d0, en) EXCEPT !.obj[a0].code = v0]
  <2>1. a0 \in Accounts /\ d0.obj[a0] \in Objects
    BY DEF DBType
  <2>2. en \in JournalEntries /\ en.acct = a0
    BY <2>1 DEF JournalEntries, ValueEntries, Objects
  <2>3. o \in Objects
    BY <2>1 DEF Objects
  <2>4. e0 = [append(d0, en) EXCEPT !.obj[a0] = o]
    BY <2>1, <2>2, AppendEffects DEF KeepsObjects
  <2> HIDE DEF en, o, e0
  <2>5. ObjectWritten(d0, e0, en, a0, o)
    BY <2>1, <2>2, <2>3, <2>4, PutEffects, Zenon
  <2> QED BY <2>5 DEF WriteCode, en, o, e0
\* The write of SetCode.
<1>2. ASSUME NEW d0, NEW m0, DbOK(d0, m0), NEW a0 \in d0.live, NEW v0 \in Values, NEW e0,
             e0 = WriteCode(d0, a0, v0)
      PROVE  /\ SetterOK(d0, e0, m0, a0) /\ e0.dirties[a0] # 0
             /\ Seen(e0, a0) = Row(TRUE, d0.obj[a0].bal, d0.obj[a0].nonce, v0, d0.obj[a0].destructed,
                                 d0.obj[a0].new)
  <2>1. d0 \in DBType
    BY <1>2, Zenon DEF DbOK
  <2> DEFINE en == [kind |-> "code", acct |-> a0, prev |-> d0.obj[a0].code]
             o  == [d0.obj[a0] EXCEPT !.code = v0]
  <2>2. ObjectWritten(d0, e0, en, a0, o)
    BY <1>2, <2>1, <1>1, Zenon
  <2>3. /\ a0 \in Accounts /\ d0.obj[a0] \in Objects
        /\ Seen(d0, a0) = Row(TRUE, d0.obj[a0].bal, d0.obj[a0].nonce, d0.obj[a0].code,
                            d0.obj[a0].destructed, d0.obj[a0].new)
    BY <2>1, LiveSeen, Zenon
  <2>4. /\ o.bal = d0.obj[a0].bal /\ o.nonce = d0.obj[a0].nonce /\ o.code = v0
        /\ o.destructed = d0.obj[a0].destructed /\ o.new = d0.obj[a0].new
        /\ o.origin = d0.obj[a0].origin /\ o.dirty = d0.obj[a0].dirty
    BY <2>3 DEF Objects
  <2>5. en.kind = "code" /\ en.acct = a0 /\ en.prev = d0.obj[a0].code
    OBVIOUS
  <2> HIDE DEF en, o
  <2>6. SeenAs(d0, e0, a0, o)
    BY <2>1, <2>2, <2>3, WrittenSeen, Zenon
  <2>7. Seen(e0, a0) = Row(TRUE, o.bal, o.nonce, o.code, o.destructed, o.new) /\ a0 \in e0.live
    BY <2>6, Zenon DEF SeenAs
  <2>8. /\ Seen(e0, a0).exists = TRUE /\ Seen(e0, a0).bal = o.bal /\ Seen(e0, a0).nonce = o.nonce
        /\ Seen(e0, a0).code = o.code /\ Seen(e0, a0).destructed = o.destructed
        /\ Seen(e0, a0).new = o.new
    BY <2>7 DEF Row
  <2>9. Seen(d0, a0) = UndoneAcct(Seen(e0, a0), en, d0.ctx)
    <3>1. /\ en.kind # "createObject" /\ Seen(e0, a0).exists = TRUE
          /\ (IF en.kind \in {"selfDestruct", "balance"} THEN en.prev ELSE Seen(e0, a0).bal)
               = d0.obj[a0].bal
          /\ (IF en.kind = "nonce" THEN en.prev ELSE Seen(e0, a0).nonce) = d0.obj[a0].nonce
          /\ (IF en.kind = "code" THEN en.prev ELSE Seen(e0, a0).code) = d0.obj[a0].code
          /\ (IF en.kind = "selfDestruct" THEN en.flag ELSE Seen(e0, a0).destructed)
               = d0.obj[a0].destructed
          /\ (IF en.kind = "createContract" THEN FALSE ELSE Seen(e0, a0).new) = d0.obj[a0].new
      BY <2>4, <2>5, <2>8, Zenon
    <3> QED BY <2>3, <3>1, Zenon DEF UndoneAcct
  <2>10. AttributeWrite(d0, e0, en, a0, o)
    BY <2>2, <2>4, <2>5, <2>9 DEF AttributeWrite
  <2>11. DbOK(e0, m0) /\ Keeps(d0, e0) /\ SameElsewhere(d0, e0, a0)
    BY <1>2, <2>10, AttributeOK, Zenon
  <2>12. e0.dirties[a0] # 0
    BY <2>1, <2>2, <2>3, <2>5, WrittenDirty, Zenon
  <2> QED BY <2>4, <2>7, <2>11, <2>12, Zenon DEF SetterOK
<1> DEFINE g == getOrNewStateObject(d, a)
<1>3. /\ SetterOK(d, g, m, a) /\ DbOK(g, m) /\ a \in g.live /\ g.obj[a].bal = Seen(d, a).bal
  BY GetOrNewFields, Zenon
<1>4. e = WriteCode(g, a, v)
  BY Zenon DEF SetCode, WriteCode
<1> HIDE DEF g
<1>5. /\ SetterOK(g, e, m, a)
      /\ Seen(e, a) = Row(TRUE, g.obj[a].bal, g.obj[a].nonce, v, g.obj[a].destructed, g.obj[a].new)
  BY <1>3, <1>4, <1>2, Zenon
<1>6. Seen(e, a).bal = Seen(d, a).bal
  BY <1>3, <1>5 DEF Row
<1> QED BY <1>3, <1>5, <1>6, SetterBoth, Zenon DEF SetterOnly

\* SetState.
LEMMA SetStateOK ==
    ASSUME NEW d, NEW m, DbOK(d, m), NEW a \in Accounts, NEW v \in Values, NEW e,
           e = SetState(d, a, v)
    PROVE  SetterOnly(d, e, m, a)
\* The write of SetState.
<1>1. ASSUME NEW d0 \in DBType, NEW a0 \in d0.live,
             NEW v0 \in Values, NEW prev \in Values, NEW orig \in Values
      PROVE  ObjectWritten(d0, WriteState(d0, a0, v0, prev, orig),
                           [kind |-> "storage", acct |-> a0, prev |-> prev, orig |-> orig], a0,
                           [d0.obj[a0] EXCEPT !.dirty = IF v0 = orig THEN NoValue ELSE v0])
  <2> DEFINE en == [kind |-> "storage", acct |-> a0, prev |-> prev, orig |-> orig]
             o  == [d0.obj[a0] EXCEPT !.dirty = IF v0 = orig THEN NoValue ELSE v0]
             e0  == [append(d0, en) EXCEPT !.obj[a0].dirty = IF v0 = orig THEN NoValue ELSE v0]
  <2>1. a0 \in Accounts /\ d0.obj[a0] \in Objects
    BY DEF DBType
  <2>2. en \in JournalEntries /\ en.acct = a0
    BY <2>1 DEF JournalEntries, StorageEntries, Objects
  <2>3. o \in Objects
    BY <2>1 DEF Objects
  <2>4. e0 = [append(d0, en) EXCEPT !.obj[a0] = o]
    BY <2>1, <2>2, AppendEffects DEF KeepsObjects
  <2> HIDE DEF en, o, e0
  <2>5. ObjectWritten(d0, e0, en, a0, o)
    BY <2>1, <2>2, <2>3, <2>4, PutEffects, Zenon
  <2> QED BY <2>5 DEF WriteState, setState, en, o, e0
\* The write of SetState.
<1>2. ASSUME NEW d0, NEW m0, DbOK(d0, m0), NEW a0 \in d0.live, NEW v0 \in Values, NEW e0,
             e0 = WriteState(d0, a0, v0, GetState(d0, a0), GetCommittedState(d0, a0))
      PROVE  SetterOK(d0, e0, m0, a0) /\ Seen(e0, a0) = Seen(d0, a0)
  <2>1. d0 \in DBType /\ Unflushed(d0)
    BY <1>2, Zenon DEF DbOK
  <2>2. /\ a0 \in Accounts /\ d0.obj[a0] \in Objects
        /\ Seen(d0, a0) = Row(TRUE, d0.obj[a0].bal, d0.obj[a0].nonce, d0.obj[a0].code,
                            d0.obj[a0].destructed, d0.obj[a0].new)
    BY <2>1, LiveSeen, Zenon
  <2>3. GetState(d0, a0) \in Values /\ GetCommittedState(d0, a0) \in Values
    BY <2>1, <2>2, ObjType, Zenon
  <2> DEFINE orig == GetCommittedState(d0, a0)
             en == [kind |-> "storage", acct |-> a0, prev |-> GetState(d0, a0), orig |-> orig]
             o  == [d0.obj[a0] EXCEPT !.dirty = IF v0 = orig THEN NoValue ELSE v0]
  <2>4. ObjectWritten(d0, e0, en, a0, o)
    BY <1>2, <2>1, <2>3, <1>1, Zenon
  <2>5. /\ o.bal = d0.obj[a0].bal /\ o.nonce = d0.obj[a0].nonce /\ o.code = d0.obj[a0].code
        /\ o.destructed = d0.obj[a0].destructed /\ o.new = d0.obj[a0].new
        /\ o.origin = d0.obj[a0].origin /\ o.dirty = IF v0 = orig THEN NoValue ELSE v0
    BY <2>2 DEF Objects
  <2>6. en.kind = "storage" /\ en.acct = a0 /\ en.prev = GetState(d0, a0) /\ en.orig = orig
    OBVIOUS
  <2>7. orig = IF d0.obj[a0].origin # NoValue THEN d0.obj[a0].origin ELSE d0.ctx.acct[a0].slot
    BY Zenon DEF GetCommittedState
  <2> HIDE DEF en, o, orig
  <2>8. SeenAs(d0, e0, a0, o)
    BY <2>1, <2>2, <2>4, WrittenSeen, Zenon
  <2>9. Seen(e0, a0) = Seen(d0, a0) /\ a0 \in e0.live
    BY <2>2, <2>5, <2>8, Zenon DEF SeenAs
  <2>10. Seen(d0, a0) = UndoneAcct(Seen(e0, a0), en, d0.ctx)
    <3>1. /\ en.kind \notin {"createObject", "selfDestruct", "balance", "nonce", "code", "createContract"}
          /\ Seen(d0, a0).exists = TRUE /\ Seen(d0, a0).bal = d0.obj[a0].bal
          /\ Seen(d0, a0).nonce = d0.obj[a0].nonce /\ Seen(d0, a0).code = d0.obj[a0].code
          /\ Seen(d0, a0).destructed = d0.obj[a0].destructed /\ Seen(d0, a0).new = d0.obj[a0].new
      BY <2>2, <2>6 DEF Row
    <3> QED BY <2>2, <2>9, <3>1, Zenon DEF UndoneAcct
  <2>11. UndoneSlot(GetState(e0, a0), en, a0, d0.ctx) = GetState(d0, a0)
    BY <2>6, Zenon DEF UndoneSlot
  <2>12. a0 \notin d0.flushed => o.origin = NoValue /\ orig = d0.ctx.acct[a0].slot
    BY <2>1, <2>5, <2>7 DEF Unflushed
  <2>13. UndoableWrite(d0, e0, en, a0, o)
    BY <2>4, <2>6, <2>10, <2>11, <2>12 DEF UndoableWrite, ObjectKinds
  <2>14. DbOK(e0, m0) /\ SameElsewhere(d0, e0, a0)
    BY <1>2, <2>2, <2>13, WrittenOK, Zenon
  <2>15. en.kind \in Dirtying
    BY <2>6 DEF Dirtying
  <2>16. Keeps(d0, e0)
    BY <2>1, <2>2, <2>4, <2>6, <2>9, <2>14, <2>15, WrittenKeeps, Zenon
  <2> QED BY <2>9, <2>14, <2>16, Zenon DEF SetterOK
<1> DEFINE g == getOrNewStateObject(d, a)
<1>3. SetterOK(d, g, m, a) /\ DbOK(g, m) /\ a \in g.live /\ Seen(g, a).bal = Seen(d, a).bal
  BY GetOrNewFields, Zenon
<1>4. e = IF GetState(g, a) = v THEN g
          ELSE WriteState(g, a, v, GetState(g, a), GetCommittedState(g, a))
  BY Zenon DEF SetState, WriteState
<1> HIDE DEF g
<1>5. CASE GetState(g, a) = v
  BY <1>3, <1>4, <1>5, Zenon DEF SetterOnly
<1>6. CASE GetState(g, a) # v
  <2>1. SetterOK(g, e, m, a) /\ Seen(e, a) = Seen(g, a)
    BY <1>3, <1>4, <1>6, <1>2, Zenon
  <2> QED BY <1>3, <2>1, SetterBoth, Zenon DEF SetterOnly
<1> QED BY <1>5, <1>6, Zenon

\* CreateContract, of a live account.
LEMMA CreateContractOK ==
    ASSUME NEW d, NEW m, DbOK(d, m), NEW a \in d.live, NEW e, e = CreateContract(d, a)
    PROVE  SetterOnly(d, e, m, a)
\* The write of CreateContract.
<1>1. ASSUME NEW d0 \in DBType, NEW a0 \in d0.live
      PROVE  ObjectWritten(d0, WriteNew(d0, a0),
                           [kind |-> "createContract", acct |-> a0], a0,
                           [d0.obj[a0] EXCEPT !.new = TRUE])
  <2> DEFINE en == [kind |-> "createContract", acct |-> a0]
             o  == [d0.obj[a0] EXCEPT !.new = TRUE]
             e0  == [append(d0, en) EXCEPT !.obj[a0].new = TRUE]
  <2>1. a0 \in Accounts /\ d0.obj[a0] \in Objects
    BY DEF DBType
  <2>2. en \in JournalEntries /\ en.acct = a0
    BY <2>1 DEF JournalEntries, AccountEntries, Objects
  <2>3. o \in Objects
    BY <2>1, Zenon DEF Objects
  <2>4. e0 = [append(d0, en) EXCEPT !.obj[a0] = o]
    BY <2>1, <2>2, AppendEffects, Zenon DEF KeepsObjects
  <2> HIDE DEF en, o, e0
  <2>5. ObjectWritten(d0, e0, en, a0, o)
    BY <2>1, <2>2, <2>3, <2>4, PutEffects, Zenon
  <2> QED BY <2>5 DEF WriteNew, en, o, e0
\* The write of CreateContract.
<1>2. ASSUME NEW d0, NEW m0, DbOK(d0, m0), NEW a0 \in d0.live, d0.obj[a0].new = FALSE, NEW e0,
             e0 = WriteNew(d0, a0)
      PROVE  /\ SetterOK(d0, e0, m0, a0)
             /\ Seen(e0, a0) = Row(TRUE, d0.obj[a0].bal, d0.obj[a0].nonce, d0.obj[a0].code,
                                 d0.obj[a0].destructed, TRUE)
  <2>1. d0.obj[a0].new = FALSE
    BY <1>2
  <2>2. d0 \in DBType
    BY <1>2, Zenon DEF DbOK
  <2> DEFINE en == [kind |-> "createContract", acct |-> a0]
             o  == [d0.obj[a0] EXCEPT !.new = TRUE]
  <2>3. ObjectWritten(d0, e0, en, a0, o)
    BY <1>2, <2>2, <1>1, Zenon
  <2>4. /\ a0 \in Accounts /\ d0.obj[a0] \in Objects
        /\ Seen(d0, a0) = Row(TRUE, d0.obj[a0].bal, d0.obj[a0].nonce, d0.obj[a0].code,
                            d0.obj[a0].destructed, d0.obj[a0].new)
    BY <2>2, LiveSeen, Zenon
  <2>5. /\ o.bal = d0.obj[a0].bal /\ o.nonce = d0.obj[a0].nonce /\ o.code = d0.obj[a0].code
        /\ o.destructed = d0.obj[a0].destructed /\ o.new = TRUE
        /\ o.origin = d0.obj[a0].origin /\ o.dirty = d0.obj[a0].dirty
    BY <2>4 DEF Objects
  <2>6. en.kind = "createContract" /\ en.acct = a0
    OBVIOUS
  <2> HIDE DEF en, o
  <2>7. SeenAs(d0, e0, a0, o)
    BY <2>2, <2>3, <2>4, WrittenSeen, Zenon
  <2>8. Seen(e0, a0) = Row(TRUE, o.bal, o.nonce, o.code, o.destructed, o.new) /\ a0 \in e0.live
    BY <2>7, Zenon DEF SeenAs
  <2>9. /\ Seen(e0, a0).exists = TRUE /\ Seen(e0, a0).bal = o.bal /\ Seen(e0, a0).nonce = o.nonce
        /\ Seen(e0, a0).code = o.code /\ Seen(e0, a0).destructed = o.destructed
        /\ Seen(e0, a0).new = o.new
    BY <2>8 DEF Row
  <2>10. Seen(d0, a0) = UndoneAcct(Seen(e0, a0), en, d0.ctx)
    <3>1. /\ en.kind # "createObject" /\ Seen(e0, a0).exists = TRUE
          /\ (IF en.kind \in {"selfDestruct", "balance"} THEN en.prev ELSE Seen(e0, a0).bal)
               = d0.obj[a0].bal
          /\ (IF en.kind = "nonce" THEN en.prev ELSE Seen(e0, a0).nonce) = d0.obj[a0].nonce
          /\ (IF en.kind = "code" THEN en.prev ELSE Seen(e0, a0).code) = d0.obj[a0].code
          /\ (IF en.kind = "selfDestruct" THEN en.flag ELSE Seen(e0, a0).destructed)
               = d0.obj[a0].destructed
          /\ (IF en.kind = "createContract" THEN FALSE ELSE Seen(e0, a0).new) = d0.obj[a0].new
      BY <2>1, <2>5, <2>6, <2>9, Zenon
    <3> QED BY <2>4, <3>1, Zenon DEF UndoneAcct
  <2>11. AttributeWrite(d0, e0, en, a0, o)
    BY <2>3, <2>5, <2>6, <2>10 DEF AttributeWrite
  <2>12. DbOK(e0, m0) /\ Keeps(d0, e0) /\ SameElsewhere(d0, e0, a0)
    BY <1>2, <2>11, AttributeOK, Zenon
  <2> QED BY <2>5, <2>8, <2>12, Zenon DEF SetterOK
<1>3. e = IF d.obj[a].new THEN d ELSE WriteNew(d, a)
  BY Zenon DEF CreateContract, getStateObject, WriteNew
<1>4. Seen(d, a).bal = d.obj[a].bal /\ d.obj[a].new \in BOOLEAN
  <2>1. d.obj[a] \in Objects
    BY LiveSeen, Zenon DEF DbOK
  <2> QED BY <2>1, LiveFields DEF Objects
<1>5. CASE d.obj[a].new
  <2>1. Keeps(d, d) /\ SameElsewhere(d, d, a)
    BY Zenon DEF Keeps, SameAccount, SameElsewhere, KeepsStores, KeepsRevisions
  <2> QED BY <1>3, <1>5, <2>1, Zenon DEF SetterOnly, SetterOK
<1>6. CASE d.obj[a].new = FALSE
  <2>1. /\ SetterOK(d, e, m, a)
        /\ Seen(e, a) = Row(TRUE, d.obj[a].bal, d.obj[a].nonce, d.obj[a].code,
                            d.obj[a].destructed, TRUE)
    BY <1>3, <1>6, <1>2, Zenon
  <2>2. Seen(e, a).bal = d.obj[a].bal
    BY <2>1 DEF Row
  <2> QED BY <1>4, <2>1, <2>2, Zenon DEF SetterOnly
<1> QED BY <1>4, <1>5, <1>6

\* SelfDestruct6780, of a live account: it loses what it still has.
DestructOnly(d, e, m, a) ==
    /\ SetterOK(d, e, m, a)
    /\ \/ Seen(e, a).bal = Seen(d, a).bal
       \/ Seen(e, a).bal = 0 /\ Seen(e, a).destructed

LEMMA SelfDestruct6780OK ==
    ASSUME NEW d, NEW m, DbOK(d, m), NEW a \in d.live, NEW e, e = SelfDestruct6780(d, a)
    PROVE  DestructOnly(d, e, m, a)
\* SelfDestruct.
<1>1. ASSUME NEW d0 \in DBType, NEW a0 \in d0.live
      PROVE  ObjectWritten(d0, SelfDestruct(d0, a0),
                           [kind |-> "selfDestruct", acct |-> a0, flag |-> d0.obj[a0].destructed,
                            prev |-> d0.obj[a0].bal], a0,
                           [d0.obj[a0] EXCEPT !.destructed = TRUE, !.bal = 0])
  <2> DEFINE en == [kind |-> "selfDestruct", acct |-> a0, flag |-> d0.obj[a0].destructed,
                            prev |-> d0.obj[a0].bal]
             o  == [d0.obj[a0] EXCEPT !.destructed = TRUE, !.bal = 0]
             e0  == [append(d0, en) EXCEPT !.obj[a0] = o]
  <2>1. a0 \in Accounts /\ d0.obj[a0] \in Objects
    BY DEF DBType
  <2>2. en \in JournalEntries /\ en.acct = a0
    BY <2>1 DEF JournalEntries, DestructEntries, Objects
  <2>3. o \in Objects
    BY <2>1, Zenon DEF Objects
  <2>4. e0 = [append(d0, en) EXCEPT !.obj[a0] = o]
    BY <2>1, <2>2, AppendEffects DEF KeepsObjects
  <2> HIDE DEF en, o, e0
  <2>5. ObjectWritten(d0, e0, en, a0, o)
    BY <2>1, <2>2, <2>3, <2>4, PutEffects, Zenon
  <2> QED BY <2>5 DEF SelfDestruct, en, o, e0
\* SelfDestruct.
<1>2. ASSUME NEW d0, NEW m0, DbOK(d0, m0), NEW a0 \in d0.live, NEW e0,
             e0 = SelfDestruct(d0, a0)
      PROVE  /\ SetterOK(d0, e0, m0, a0) /\ e0.dirties[a0] # 0
             /\ Seen(e0, a0) = Row(TRUE, 0, d0.obj[a0].nonce, d0.obj[a0].code, TRUE, d0.obj[a0].new)
  <2>1. d0 \in DBType
    BY <1>2, Zenon DEF DbOK
  <2> DEFINE en == [kind |-> "selfDestruct", acct |-> a0, flag |-> d0.obj[a0].destructed,
                    prev |-> d0.obj[a0].bal]
             o  == [d0.obj[a0] EXCEPT !.destructed = TRUE, !.bal = 0]
  <2>2. ObjectWritten(d0, e0, en, a0, o)
    BY <1>2, <2>1, <1>1, Zenon
  <2>3. /\ a0 \in Accounts /\ d0.obj[a0] \in Objects
        /\ Seen(d0, a0) = Row(TRUE, d0.obj[a0].bal, d0.obj[a0].nonce, d0.obj[a0].code,
                            d0.obj[a0].destructed, d0.obj[a0].new)
    BY <2>1, LiveSeen, Zenon
  <2>4. /\ o.bal = 0 /\ o.nonce = d0.obj[a0].nonce /\ o.code = d0.obj[a0].code
        /\ o.destructed = TRUE /\ o.new = d0.obj[a0].new
        /\ o.origin = d0.obj[a0].origin /\ o.dirty = d0.obj[a0].dirty
    BY <2>3 DEF Objects
  <2>5. en.kind = "selfDestruct" /\ en.acct = a0 /\ en.flag = d0.obj[a0].destructed /\ en.prev = d0.obj[a0].bal
    OBVIOUS
  <2> HIDE DEF en, o
  <2>6. SeenAs(d0, e0, a0, o)
    BY <2>1, <2>2, <2>3, WrittenSeen, Zenon
  <2>7. Seen(e0, a0) = Row(TRUE, o.bal, o.nonce, o.code, o.destructed, o.new) /\ a0 \in e0.live
    BY <2>6, Zenon DEF SeenAs
  <2>8. /\ Seen(e0, a0).exists = TRUE /\ Seen(e0, a0).bal = o.bal /\ Seen(e0, a0).nonce = o.nonce
        /\ Seen(e0, a0).code = o.code /\ Seen(e0, a0).destructed = o.destructed
        /\ Seen(e0, a0).new = o.new
    BY <2>7 DEF Row
  <2>9. Seen(d0, a0) = UndoneAcct(Seen(e0, a0), en, d0.ctx)
    <3>1. /\ en.kind # "createObject" /\ Seen(e0, a0).exists = TRUE
          /\ (IF en.kind \in {"selfDestruct", "balance"} THEN en.prev ELSE Seen(e0, a0).bal)
               = d0.obj[a0].bal
          /\ (IF en.kind = "nonce" THEN en.prev ELSE Seen(e0, a0).nonce) = d0.obj[a0].nonce
          /\ (IF en.kind = "code" THEN en.prev ELSE Seen(e0, a0).code) = d0.obj[a0].code
          /\ (IF en.kind = "selfDestruct" THEN en.flag ELSE Seen(e0, a0).destructed)
               = d0.obj[a0].destructed
          /\ (IF en.kind = "createContract" THEN FALSE ELSE Seen(e0, a0).new) = d0.obj[a0].new
      BY <2>4, <2>5, <2>8, Zenon
    <3> QED BY <2>3, <3>1, Zenon DEF UndoneAcct
  <2>10. AttributeWrite(d0, e0, en, a0, o)
    BY <2>2, <2>4, <2>5, <2>9 DEF AttributeWrite
  <2>11. DbOK(e0, m0) /\ Keeps(d0, e0) /\ SameElsewhere(d0, e0, a0)
    BY <1>2, <2>10, AttributeOK, Zenon
  <2>12. e0.dirties[a0] # 0
    BY <2>1, <2>2, <2>3, <2>5, WrittenDirty, Zenon
  <2> QED BY <2>4, <2>7, <2>11, <2>12, Zenon DEF SetterOK
<1>3. e = IF d.obj[a].new THEN SelfDestruct(d, a) ELSE d
  BY Zenon DEF SelfDestruct6780, getStateObject
<1>4. CASE d.obj[a].new
  <2>1. /\ SetterOK(d, e, m, a)
        /\ Seen(e, a) = Row(TRUE, 0, d.obj[a].nonce, d.obj[a].code, TRUE, d.obj[a].new)
    BY <1>3, <1>4, <1>2, Zenon
  <2>2. Seen(e, a).bal = 0 /\ Seen(e, a).destructed
    <3> DEFINE r == Row(TRUE, 0, d.obj[a].nonce, d.obj[a].code, TRUE, d.obj[a].new)
    <3>1. r.bal = 0 /\ r.destructed
      BY DEF Row
    <3>2. Seen(e, a) = r
      BY <2>1
    <3> HIDE DEF r
    <3> QED BY <3>1, <3>2
  <2> QED BY <2>1, <2>2, Zenon DEF DestructOnly
<1>5. CASE ~d.obj[a].new
  <2>1. Keeps(d, d) /\ SameElsewhere(d, d, a)
    BY Zenon DEF Keeps, SameAccount, SameElsewhere, KeepsStores, KeepsRevisions
  <2> QED BY <1>3, <1>5, <2>1, Zenon DEF DestructOnly, SetterOK
<1> QED BY <1>4, <1>5, Zenon

(***************************************************************************)
(* What a setter of a register, or of the access list, keeps.              *)
(***************************************************************************)
\* Operation e of d journals en and changes only registers, as en undoes.
RegisterWrite(d, e, en) ==
    /\ e \in DBType /\ Accessible(e) /\ en \in JournalEntries
    /\ en.kind \in {"refund", "log", "transient", "address", "slot"}
    /\ KeepsStores(d, e) /\ KeepsRevisions(d, e) /\ KeepsObjects(d, e) /\ Journals(d, e, en)
    /\ d.refund = IF en.kind = "refund" THEN en.prev ELSE e.refund
    /\ d.logs = IF en.kind = "log" THEN e.logs - 1 ELSE e.logs
    /\ d.transient = IF en.kind = "transient" THEN [e.transient EXCEPT ![en.acct] = en.prev]
                     ELSE e.transient
    /\ d.addresses = UndoneAddresses(e, en)
    /\ d.slots = UndoneSlots(e, en)

\* What setters of registers do.
RegisterOK(d, e, m) ==
    /\ DbOK(e, m) /\ Keeps(d, e)
    /\ \A x \in Accounts : Seen(e, x) = Seen(d, x) /\ GetState(e, x) = GetState(d, x)

\* This is so of a write that its entry undoes.
LEMMA RegisterWriteOK ==
    ASSUME NEW d, NEW m, DbOK(d, m), NEW e, NEW en, RegisterWrite(d, e, en)
    PROVE  RegisterOK(d, e, m)
<1>1. d \in DBType /\ Unflushed(d)
  BY Zenon DEF DbOK
<1>2. /\ e \in DBType /\ Accessible(e) /\ en \in JournalEntries
      /\ en.kind \in {"refund", "log", "transient", "address", "slot"}
      /\ KeepsStores(d, e) /\ KeepsRevisions(d, e) /\ KeepsObjects(d, e) /\ Journals(d, e, en)
  BY Zenon DEF RegisterWrite
<1>3. /\ e.ctx = d.ctx /\ e.cache = d.cache /\ e.flushed = d.flushed
      /\ e.live = d.live /\ e.obj = d.obj
  BY <1>2, Zenon DEF KeepsStores, KeepsObjects
<1>4. en.kind \notin ObjectKinds /\ en.kind \notin Dirtying /\ en.kind # "precompile"
  BY <1>2 DEF ObjectKinds, Dirtying
<1>5. e.journal = Append(d.journal, en) /\ e.dirties = d.dirties
  BY <1>2, <1>4, Zenon DEF Journals
<1>6. \A x \in Accounts : Seen(e, x) = Seen(d, x) /\ GetState(e, x) = GetState(d, x)
  BY <1>3, Zenon DEF Seen, Obj, Exist, GetState, GetCommittedState
<1>7. Layers(e) = Layers(d)
  BY <1>3, Zenon DEF Layers
<1>8. Undoes(Abs(d), Abs(e), en, d.ctx)
  <2>1. /\ \A x \in Accounts : Abs(d).acct[x] = Seen(d, x) /\ Abs(e).acct[x] = Seen(e, x)
        /\ Abs(d).refund = d.refund /\ Abs(d).logs = d.logs /\ Abs(d).transient = d.transient
        /\ Abs(d).addresses = d.addresses /\ Abs(d).slots = d.slots
        /\ Abs(d).dirties = d.dirties /\ Abs(d).layers = Layers(d)
        /\ Abs(e).refund = e.refund /\ Abs(e).logs = e.logs /\ Abs(e).transient = e.transient
        /\ Abs(e).addresses = e.addresses /\ Abs(e).slots = e.slots
        /\ Abs(e).dirties = e.dirties /\ Abs(e).layers = Layers(e)
    BY AbsFields, Zenon
  <2>2. UndoneAddresses(Abs(e), en) = UndoneAddresses(e, en)
        /\ UndoneSlots(Abs(e), en) = UndoneSlots(e, en)
    BY <1>2, UndoneSame
  <2>3. /\ d.refund = IF en.kind = "refund" THEN en.prev ELSE e.refund
        /\ d.logs = IF en.kind = "log" THEN e.logs - 1 ELSE e.logs
        /\ d.transient = IF en.kind = "transient" THEN [e.transient EXCEPT ![en.acct] = en.prev]
                         ELSE e.transient
        /\ d.addresses = UndoneAddresses(e, en)
        /\ d.slots = UndoneSlots(e, en)
    BY Zenon DEF RegisterWrite
  <2> QED BY <1>4, <1>5, <1>6, <1>7, <2>1, <2>2, <2>3, Zenon DEF Undoes
<1>9. \A x \in e.live \ e.flushed : e.obj[x].origin = NoValue
  BY <1>1, <1>3, Zenon DEF Unflushed
<1>10. \A x \in Accounts \ d.flushed : GetState(d, x) = UndoneSlot(GetState(e, x), en, x, d.ctx)
  <2>1. en.kind # "storage" /\ en.kind # "createObject"
    BY <1>2
  <2> QED BY <1>6, <2>1, Zenon DEF UndoneSlot
<1>11. Pushes(d, e, en)
  <2>1. en.kind # "storage" /\ en.kind # "createObject" /\ d.live \subseteq e.live
    BY <1>2, <1>3
  <2> QED BY <1>2, <1>3, <1>4, <1>5, <1>8, <1>9, <1>10, <2>1, Zenon DEF Pushes
<1>12. DbOK(e, m)
  BY <1>11, PushOK, Zenon
<1>13. Keeps(d, e)
  BY <1>2, <1>5, <1>6, LoadKeeps, Zenon
<1> QED BY <1>6, <1>12, <1>13, Zenon DEF RegisterOK

(***************************************************************************)
(* Setters of the registers and of the access list.                        *)
(***************************************************************************)
\* An operation that does nothing.
LEMMA NothingDone ==
    ASSUME NEW d, NEW m, DbOK(d, m)
    PROVE  RegisterOK(d, d, m)
BY Zenon DEF RegisterOK, Keeps, SameAccount, KeepsStores, KeepsRevisions

\* The fields that an entry of a register does not undo.
LEMMA OtherRegisters ==
    ASSUME NEW d, NEW e, NEW en, en.kind \in {"refund", "log", "transient"},
           e.addresses = d.addresses, e.slots = d.slots
    PROVE  d.addresses = UndoneAddresses(e, en) /\ d.slots = UndoneSlots(e, en)
BY DEF UndoneAddresses, UndoneSlots

\* Two operations of which the second keeps the journal.
LEMMA FramesBoth ==
    ASSUME NEW d, NEW p, NEW e, NEW en,
           KeepsStores(d, p), KeepsRevisions(d, p), KeepsObjects(d, p), Journals(d, p, en),
           KeepsStores(p, e), KeepsRevisions(p, e), KeepsObjects(p, e), KeepsJournal(p, e)
    PROVE  KeepsStores(d, e) /\ KeepsRevisions(d, e) /\ KeepsObjects(d, e) /\ Journals(d, e, en)
BY Zenon DEF KeepsStores, KeepsRevisions, KeepsObjects, KeepsJournal, Journals

\* SetRefund.
LEMMA SetRefundOK ==
    ASSUME NEW d, NEW m, DbOK(d, m), NEW v \in Nat, NEW e, e = SetRefund(d, v)
    PROVE  RegisterOK(d, e, m)
<1>1. d \in DBType /\ Accessible(d) /\ d.refund \in Nat
  BY DBFields, Zenon DEF DbOK
<1> DEFINE en == [kind |-> "refund", prev |-> d.refund]
           p  == append(d, en)
<1>2. en \in JournalEntries /\ en.kind = "refund" /\ en.prev = d.refund
  BY <1>1 DEF JournalEntries, RefundEntries
<1>3. e = [p EXCEPT !.refund = v]
  BY Zenon DEF SetRefund
<1> HIDE DEF en
<1>4. /\ p \in DBType
      /\ KeepsRegisters(d, p) /\ KeepsStores(d, p) /\ KeepsRevisions(d, p)
      /\ KeepsObjects(d, p) /\ Journals(d, p, en)
  BY <1>1, <1>2, AppendEffects, Zenon
<1> HIDE DEF p
<1>5. /\ e \in DBType /\ e.refund = v /\ e.logs = p.logs /\ e.transient = p.transient
      /\ e.addresses = p.addresses /\ e.slots = p.slots
  BY <1>3, <1>4, Zenon DEF DBType
<1>6. KeepsStores(p, e) /\ KeepsRevisions(p, e) /\ KeepsObjects(p, e) /\ KeepsJournal(p, e)
  BY <1>3, <1>4, Zenon DEF DBType, KeepsStores, KeepsRevisions, KeepsObjects, KeepsJournal
<1>7. /\ KeepsStores(d, e) /\ KeepsRevisions(d, e) /\ KeepsObjects(d, e) /\ Journals(d, e, en)
  BY <1>4, <1>6, FramesBoth, Zenon
<1>8. /\ e.logs = d.logs /\ e.transient = d.transient /\ e.addresses = d.addresses
      /\ e.slots = d.slots
  BY <1>4, <1>5, Zenon DEF KeepsRegisters
<1>9. Accessible(e)
  BY <1>1, <1>8 DEF Accessible
<1>10. d.addresses = UndoneAddresses(e, en) /\ d.slots = UndoneSlots(e, en)
  BY <1>2, <1>8, OtherRegisters
<1>11. RegisterWrite(d, e, en)
  BY <1>2, <1>5, <1>7, <1>8, <1>9, <1>10 DEF RegisterWrite
<1> QED BY <1>11, RegisterWriteOK, Zenon

\* AddLog.
LEMMA AddLogOK ==
    ASSUME NEW d, NEW m, DbOK(d, m), NEW e, e = AddLog(d)
    PROVE  RegisterOK(d, e, m)
<1>1. d \in DBType /\ Accessible(d) /\ d.logs \in Nat
  BY DBFields, Zenon DEF DbOK
<1> DEFINE en == [kind |-> "log"]
           p  == append(d, en)
<1>2. en \in JournalEntries /\ en.kind = "log"
  BY <1>1 DEF JournalEntries, LogEntries
<1> HIDE DEF en
<1>3. /\ p \in DBType
      /\ KeepsRegisters(d, p) /\ KeepsStores(d, p) /\ KeepsRevisions(d, p)
      /\ KeepsObjects(d, p) /\ Journals(d, p, en)
  BY <1>1, <1>2, AppendEffects, Zenon
<1> DEFINE v == d.logs + 1
<1>4. e = [p EXCEPT !.logs = v] /\ v \in Nat /\ d.logs = v - 1
  <2>1. e = [p EXCEPT !.logs = p.logs + 1]
    BY Zenon DEF AddLog, en
  <2>2. p.logs = d.logs
    BY <1>3, Zenon DEF KeepsRegisters
  <2> QED BY <1>1, <2>1, <2>2
<1> HIDE DEF p, v
<1>5. /\ e \in DBType /\ e.logs = v /\ e.refund = p.refund /\ e.transient = p.transient
      /\ e.addresses = p.addresses /\ e.slots = p.slots
  BY <1>4, <1>3, Zenon DEF DBType
<1>6. KeepsStores(p, e) /\ KeepsRevisions(p, e) /\ KeepsObjects(p, e) /\ KeepsJournal(p, e)
  BY <1>4, <1>3, Zenon DEF DBType, KeepsStores, KeepsRevisions, KeepsObjects, KeepsJournal
<1>7. /\ KeepsStores(d, e) /\ KeepsRevisions(d, e) /\ KeepsObjects(d, e) /\ Journals(d, e, en)
  BY <1>3, <1>6, FramesBoth, Zenon
<1>8. /\ e.refund = d.refund /\ e.transient = d.transient /\ e.addresses = d.addresses
      /\ e.slots = d.slots
  BY <1>3, <1>5, Zenon DEF KeepsRegisters
<1>9. Accessible(e)
  BY <1>1, <1>8 DEF Accessible
<1>10. d.addresses = UndoneAddresses(e, en) /\ d.slots = UndoneSlots(e, en)
  BY <1>2, <1>8, OtherRegisters
<1>11. RegisterWrite(d, e, en)
  BY <1>2, <1>4, <1>5, <1>7, <1>8, <1>9, <1>10 DEF RegisterWrite
<1> QED BY <1>11, RegisterWriteOK, Zenon

\* SetTransientState.
LEMMA SetTransientOK ==
    ASSUME NEW d, NEW m, DbOK(d, m), NEW a \in Accounts, NEW v \in Values, NEW e,
           e = SetTransientState(d, a, v)
    PROVE  RegisterOK(d, e, m)
<1>1. CASE d.transient[a] = v
  BY <1>1, NothingDone, Zenon DEF SetTransientState
<1>2. CASE d.transient[a] # v
  <2>1. d \in DBType /\ Accessible(d) /\ d.transient \in [Accounts -> Values]
    BY DBFields, Zenon DEF DbOK
  <2> DEFINE en == [kind |-> "transient", acct |-> a, prev |-> d.transient[a]]
             p  == append(d, en)
             t  == [d.transient EXCEPT ![a] = v]
  <2>2. en \in JournalEntries /\ en.kind = "transient" /\ en.acct = a /\ en.prev = d.transient[a]
    BY <2>1 DEF JournalEntries, ValueEntries
  <2>3. t \in [Accounts -> Values] /\ d.transient = [t EXCEPT ![a] = d.transient[a]]
    BY <2>1
  <2> HIDE DEF en
  <2>4. /\ p \in DBType
        /\ KeepsRegisters(d, p) /\ KeepsStores(d, p) /\ KeepsRevisions(d, p)
        /\ KeepsObjects(d, p) /\ Journals(d, p, en)
    BY <2>1, <2>2, AppendEffects, Zenon
  <2>5. e = [p EXCEPT !.transient = t]
    <3>1. e = [p EXCEPT !.transient[a] = v]
      BY <1>2, Zenon DEF SetTransientState, en
    <3>2. p.transient = d.transient
      BY <2>4, Zenon DEF KeepsRegisters
    <3> QED BY <3>1, <3>2, Zenon
  <2> HIDE DEF p, t
  <2>6. /\ e \in DBType /\ e.transient = t /\ e.refund = p.refund /\ e.logs = p.logs
        /\ e.addresses = p.addresses /\ e.slots = p.slots
    BY <2>5, <2>4, <2>3, Zenon DEF DBType
  <2>7. KeepsStores(p, e) /\ KeepsRevisions(p, e) /\ KeepsObjects(p, e) /\ KeepsJournal(p, e)
    BY <2>5, <2>4, Zenon DEF DBType, KeepsStores, KeepsRevisions, KeepsObjects, KeepsJournal
  <2>8. /\ KeepsStores(d, e) /\ KeepsRevisions(d, e) /\ KeepsObjects(d, e) /\ Journals(d, e, en)
    BY <2>4, <2>7, FramesBoth, Zenon
  <2>9. /\ e.refund = d.refund /\ e.logs = d.logs /\ e.addresses = d.addresses
        /\ e.slots = d.slots
    BY <2>4, <2>6, Zenon DEF KeepsRegisters
  <2>10. Accessible(e)
    BY <2>1, <2>9 DEF Accessible
  <2>11. d.addresses = UndoneAddresses(e, en) /\ d.slots = UndoneSlots(e, en)
    BY <2>2, <2>9, OtherRegisters, SMTT(20)
  <2>12. RegisterWrite(d, e, en)
    BY <2>2, <2>3, <2>6, <2>8, <2>9, <2>10, <2>11 DEF RegisterWrite
  <2> QED BY <2>12, RegisterWriteOK, Zenon
<1> QED BY <1>1, <1>2, Zenon

\* AddAddressToAccessList.
LEMMA AddAddressOK ==
    ASSUME NEW d, NEW m, DbOK(d, m), NEW a \in Accounts, NEW e,
           e = AddAddressToAccessList(d, a)
    PROVE  RegisterOK(d, e, m) /\ e.addresses[a] # NotListed
<1>1. CASE d.addresses[a] # NotListed
  BY <1>1, NothingDone, Zenon DEF AddAddressToAccessList
<1>2. CASE d.addresses[a] = NotListed
  <2>1. /\ d \in DBType /\ Accessible(d) /\ d.addresses \in [Accounts -> Int]
        /\ d.slots \in Seq(SlotLists)
    BY DBFields, Zenon DEF DbOK
  <2> DEFINE en == [kind |-> "address", acct |-> a]
             p  == append(d, en)
             t  == [d.addresses EXCEPT ![a] = NoSlots]
  <2>2. en \in JournalEntries /\ en.kind = "address" /\ en.acct = a
    BY <2>1 DEF JournalEntries, AccountEntries
  <2>3. /\ t \in [Accounts -> Int] /\ d.addresses = [t EXCEPT ![a] = NotListed]
        /\ t[a] = NoSlots /\ NoSlots # NotListed
        /\ \A x \in Accounts : x # a => t[x] = d.addresses[x]
    BY <2>1, <1>2 DEF NoSlots, NotListed
  <2> HIDE DEF en
  <2>4. /\ p \in DBType
        /\ KeepsRegisters(d, p) /\ KeepsStores(d, p) /\ KeepsRevisions(d, p)
        /\ KeepsObjects(d, p) /\ Journals(d, p, en)
    BY <2>1, <2>2, AppendEffects, Zenon
  <2>5. e = [p EXCEPT !.addresses = t]
    <3>1. e = [p EXCEPT !.addresses[a] = NoSlots]
      BY <1>2, Zenon DEF AddAddressToAccessList, en
    <3>2. p.addresses = d.addresses
      BY <2>4, Zenon DEF KeepsRegisters
    <3> QED BY <3>1, <3>2, Zenon
  <2> HIDE DEF p, t
  <2>6. /\ e \in DBType /\ e.addresses = t /\ e.refund = p.refund /\ e.logs = p.logs
        /\ e.transient = p.transient /\ e.slots = p.slots
    BY <2>5, <2>4, <2>3, Zenon DEF DBType
  <2>7. KeepsStores(p, e) /\ KeepsRevisions(p, e) /\ KeepsObjects(p, e) /\ KeepsJournal(p, e)
    BY <2>5, <2>4, Zenon DEF DBType, KeepsStores, KeepsRevisions, KeepsObjects, KeepsJournal
  <2>8. /\ KeepsStores(d, e) /\ KeepsRevisions(d, e) /\ KeepsObjects(d, e) /\ Journals(d, e, en)
    BY <2>4, <2>7, FramesBoth, Zenon
  <2>9. /\ e.refund = d.refund /\ e.logs = d.logs /\ e.transient = d.transient
        /\ e.slots = d.slots
    BY <2>4, <2>6, Zenon DEF KeepsRegisters
  <2>10. Accessible(e)
    BY <2>1, <2>6, <2>9, <2>3 DEF Accessible, NoSlots
  <2>11. d.addresses = UndoneAddresses(e, en) /\ d.slots = UndoneSlots(e, en)
    BY <2>2, <2>6, <2>9, <2>3, SMTT(20) DEF UndoneAddresses, UndoneSlots
  <2>12. RegisterWrite(d, e, en)
    BY <2>2, <2>6, <2>8, <2>9, <2>10, <2>11 DEF RegisterWrite
  <2> QED BY <2>6, <2>12, <2>3, RegisterWriteOK, Zenon
<1> QED BY <1>1, <1>2, Zenon

\* The two cases of DeleteSlot.
DeletedSlot(d, a, k) ==
    /\ d.slots[d.addresses[a]] \ {k} # {} =>
          /\ DeleteSlot(d, a, k).slots =
                [d.slots EXCEPT ![d.addresses[a]] = d.slots[d.addresses[a]] \ {k}]
          /\ DeleteSlot(d, a, k).addresses = d.addresses
    /\ d.slots[d.addresses[a]] \ {k} = {} =>
          /\ DeleteSlot(d, a, k).slots = SubSeq(d.slots, 1, d.addresses[a] - 1)
          /\ DeleteSlot(d, a, k).addresses = [d.addresses EXCEPT ![a] = NoSlots]

\* The access list becomes t and s, and deleting slot k of a restores it.
AccessListWrite(d, e, a, k, t, s) ==
    /\ t \in [Accounts -> Int] /\ s \in Seq(SlotLists)
    /\ e = [append(d, [kind |-> "slot", acct |-> a, key |-> k]) EXCEPT
               !.addresses = t, !.slots = s]
    /\ \A x \in Accounts : t[x] = NotListed \/ t[x] \in 0..Len(s)
    /\ d.addresses = IF s[t[a]] \ {k} # {} THEN t ELSE [t EXCEPT ![a] = NoSlots]
    /\ d.slots = IF s[t[a]] \ {k} # {} THEN [s EXCEPT ![t[a]] = s[t[a]] \ {k}]
                 ELSE SubSeq(s, 1, t[a] - 1)

\* AddSlotToAccessList.
LEMMA AddSlotOK ==
    ASSUME NEW d, NEW m, DbOK(d, m), NEW a \in Accounts, NEW k \in Keys, NEW e,
           e = AddSlotToAccessList(d, a, k)
    PROVE  RegisterOK(d, e, m)
\* Setters of registers can be combined.
<1>1. ASSUME NEW d0, NEW g, NEW e0, NEW m0, RegisterOK(d0, g, m0), RegisterOK(g, e0, m0)
      PROVE  RegisterOK(d0, e0, m0)
  <2>1. Keeps(d0, e0)
    BY <1>1, KeepsBoth, Zenon DEF RegisterOK
  <2> QED BY <1>1, <2>1, Zenon DEF RegisterOK
<1>2. ASSUME NEW d0 \in DBType, NEW a0, NEW k0
      PROVE  DeletedSlot(d0, a0, k0)
  <2> DEFINE i    == d0.addresses[a0]
             left == d0.slots[i] \ {k0}
             s1 == [d0.slots EXCEPT ![i] = left]
             s2 == SubSeq(d0.slots, 1, i - 1)
             as == [d0.addresses EXCEPT ![a0] = NoSlots]
  <2>1. left # {} => DeleteSlot(d0, a0, k0) = [d0 EXCEPT !.slots = s1]
    BY Zenon DEF DeleteSlot
  <2>2. left = {} => DeleteSlot(d0, a0, k0) = [d0 EXCEPT !.slots = s2, !.addresses = as]
    BY Zenon DEF DeleteSlot
  <2>3. /\ [d0 EXCEPT !.slots = s1].slots = s1
        /\ [d0 EXCEPT !.slots = s1].addresses = d0.addresses
    <3> HIDE DEF s1
    <3> QED BY Zenon DEF DBType
  <2>4. /\ [d0 EXCEPT !.slots = s2, !.addresses = as].slots = s2
        /\ [d0 EXCEPT !.slots = s2, !.addresses = as].addresses = as
    <3> HIDE DEF s2, as
    <3> QED BY Zenon DEF DBType
  <2> QED BY <2>1, <2>2, <2>3, <2>4, Zenon DEF DeletedSlot
\* It keeps the invariant.
<1>3. ASSUME NEW d0, NEW m0, DbOK(d0, m0), NEW a0 \in Accounts, NEW k0 \in Keys, NEW t, NEW s, NEW e0,
             AccessListWrite(d0, e0, a0, k0, t, s)
      PROVE  RegisterOK(d0, e0, m0)
  <2>1. d0 \in DBType
    BY <1>3, Zenon DEF DbOK
  <2> DEFINE en == [kind |-> "slot", acct |-> a0, key |-> k0]
             p == append(d0, en)
  <2>2. en \in JournalEntries /\ en.kind = "slot" /\ en.acct = a0 /\ en.key = k0
    BY DEF JournalEntries, SlotEntries
  <2>3. e0 = [p EXCEPT !.addresses = t, !.slots = s] /\ t \in [Accounts -> Int] /\ s \in Seq(SlotLists)
    BY <1>3, Zenon DEF AccessListWrite
  <2> HIDE DEF en
  <2>4. /\ p \in DBType
        /\ KeepsRegisters(d0, p) /\ KeepsStores(d0, p) /\ KeepsRevisions(d0, p)
        /\ KeepsObjects(d0, p) /\ Journals(d0, p, en)
    BY <2>1, <2>2, AppendEffects, Zenon
  <2> HIDE DEF p
  <2>5. /\ e0 \in DBType /\ e0.addresses = t /\ e0.refund = p.refund /\ e0.logs = p.logs
        /\ e0.transient = p.transient /\ e0.slots = s
    BY <2>3, <2>4, Zenon DEF DBType
  <2>6. KeepsStores(p, e0) /\ KeepsRevisions(p, e0) /\ KeepsObjects(p, e0) /\ KeepsJournal(p, e0)
    BY <2>3, <2>4, Zenon DEF DBType, KeepsStores, KeepsRevisions, KeepsObjects, KeepsJournal
  <2>7. /\ KeepsStores(d0, e0) /\ KeepsRevisions(d0, e0) /\ KeepsObjects(d0, e0) /\ Journals(d0, e0, en)
    BY <2>4, <2>6, FramesBoth, Zenon
  <2>8. e0.refund = d0.refund /\ e0.logs = d0.logs /\ e0.transient = d0.transient
    BY <2>4, <2>5, Zenon DEF KeepsRegisters
  <2>9. Accessible(e0)
    BY <1>3, <2>5, Zenon DEF Accessible, AccessListWrite
  <2>10. d0.addresses = UndoneAddresses(e0, en) /\ d0.slots = UndoneSlots(e0, en)
    <3>1. UndoneAddresses(e0, en) = DeleteSlot(e0, a0, k0).addresses
          /\ UndoneSlots(e0, en) = DeleteSlot(e0, a0, k0).slots
      BY <2>2 DEF UndoneAddresses, UndoneSlots
    <3>2. /\ s[t[a0]] \ {k0} # {} =>
                 /\ DeleteSlot(e0, a0, k0).slots = [s EXCEPT ![t[a0]] = s[t[a0]] \ {k0}]
                 /\ DeleteSlot(e0, a0, k0).addresses = t
          /\ s[t[a0]] \ {k0} = {} =>
                 /\ DeleteSlot(e0, a0, k0).slots = SubSeq(s, 1, t[a0] - 1)
                 /\ DeleteSlot(e0, a0, k0).addresses = [t EXCEPT ![a0] = NoSlots]
      <4>1. DeletedSlot(e0, a0, k0)
        BY <2>5, <1>2, Zenon
      <4> QED BY <2>5, <4>1, Zenon DEF DeletedSlot
    <3> QED BY <1>3, <3>1, <3>2, Zenon DEF AccessListWrite
  <2>11. RegisterWrite(d0, e0, en)
    BY <2>2, <2>5, <2>7, <2>8, <2>9, <2>10 DEF RegisterWrite
  <2> QED BY <1>3, <2>11, RegisterWriteOK, Zenon
<1> DEFINE g == AddAddressToAccessList(d, a)
           i == g.addresses[a]
           en == [kind |-> "slot", acct |-> a, key |-> k]
           new == append(g, en)
<1>4. RegisterOK(d, g, m) /\ g.addresses[a] # NotListed
  BY AddAddressOK, Zenon
<1>5. e = IF i = NoSlots
          THEN [new EXCEPT !.slots = Append(@, {k}), !.addresses[a] = Len(g.slots) + 1]
          ELSE IF k \in g.slots[i] THEN g
          ELSE [new EXCEPT !.slots[i] = @ \union {k}]
  BY Zenon DEF AddSlotToAccessList
<1> HIDE DEF g
<1>6. /\ DbOK(g, m) /\ g \in DBType /\ Accessible(g) /\ g.addresses \in [Accounts -> Int]
      /\ g.slots \in Seq(SlotLists)
  <2>1. DbOK(g, m)
    BY <1>4, Zenon DEF RegisterOK
  <2> QED BY <2>1, DBFields, Zenon DEF DbOK
<1>7. new.addresses = g.addresses /\ new.slots = g.slots /\ new \in DBType
  <2>1. en \in JournalEntries
    BY DEF JournalEntries, SlotEntries
  <2> HIDE DEF en
  <2>2. new \in DBType /\ KeepsRegisters(g, new)
    BY <1>6, <2>1, AppendEffects, Zenon
  <2> QED BY <2>2, Zenon DEF KeepsRegisters
<1>8. i \in 0..Len(g.slots) /\ {k} \in SlotLists /\ Len(g.slots) \in Nat
      /\ \A x \in Accounts : g.addresses[x] = NotListed \/ g.addresses[x] \in 0..Len(g.slots)
  BY <1>4, <1>6 DEF Accessible, SlotLists
<1>9. CASE i = NoSlots
  <2> DEFINE t == [g.addresses EXCEPT ![a] = Len(g.slots) + 1]
             s == Append(g.slots, {k})
  <2>1. e = [new EXCEPT !.addresses = t, !.slots = s]
    <3>1. e = [new EXCEPT !.slots = s, !.addresses = t]
      BY <1>5, <1>7, <1>9, Zenon
    <3> HIDE DEF t, s, new
    <3> QED BY <1>7, <3>1, Zenon DEF DBType
  <2>2. /\ t \in [Accounts -> Int] /\ s \in Seq(SlotLists) /\ t[a] = Len(g.slots) + 1
        /\ s[t[a]] = {k} /\ Len(s) = Len(g.slots) + 1
        /\ \A x \in Accounts : x # a => t[x] = g.addresses[x]
    BY <1>6, <1>8
  <2>3. \A x \in Accounts : t[x] = NotListed \/ t[x] \in 0..Len(s)
    BY <1>8, <2>2
  <2>4. g.addresses = [t EXCEPT ![a] = NoSlots]
    BY <1>6, <1>9
  <2>5. g.slots = SubSeq(s, 1, t[a] - 1)
    <3>1. SubSeq(s, 1, Len(g.slots)) = g.slots
      BY <1>6
    <3>2. t[a] - 1 = Len(g.slots)
      BY <1>8, <2>2
    <3> QED BY <3>1, <3>2
  <2>6. s[t[a]] \ {k} = {}
    BY <2>2
  <2> HIDE DEF t, s, i
  <2>7. AccessListWrite(g, e, a, k, t, s)
    BY <2>1, <2>2, <2>3, <2>4, <2>5, <2>6, Zenon DEF AccessListWrite
  <2>8. RegisterOK(g, e, m)
    BY <1>6, <2>7, <1>3, Zenon
  <2> QED BY <1>4, <2>8, <1>1, Zenon
<1>10. CASE i # NoSlots /\ k \in g.slots[i]
  BY <1>4, <1>5, <1>10, Zenon
<1>11. CASE i # NoSlots /\ k \notin g.slots[i]
  <2> DEFINE t == g.addresses
             s == [g.slots EXCEPT ![i] = g.slots[i] \union {k}]
  <2>1. e = [new EXCEPT !.addresses = t, !.slots = s]
    <3>1. e = [new EXCEPT !.slots = s]
      BY <1>5, <1>7, <1>11, Zenon
    <3>2. new.addresses = t
      BY <1>7, Zenon
    <3> HIDE DEF s, new, t
    <3> QED BY <1>7, <3>1, <3>2 DEF DBType
  <2>2. i \in 1..Len(g.slots) /\ g.slots[i] \in SlotLists
    BY <1>6, <1>8, <1>11 DEF NoSlots
  <2>3. /\ g.slots[i] \union {k} \in SlotLists /\ (g.slots[i] \union {k}) \ {k} = g.slots[i]
        /\ g.slots[i] # {}
    BY <1>11, <2>2 DEF SlotLists
  <2>4. s \in Seq(SlotLists) /\ Len(s) = Len(g.slots) /\ s[i] = g.slots[i] \union {k}
    BY <1>6, <2>2, <2>3
  <2>5. g.slots = [s EXCEPT ![i] = g.slots[i]]
    BY <1>6, <2>2
  <2>6. s[t[a]] \ {k} # {} /\ g.slots = [s EXCEPT ![t[a]] = s[t[a]] \ {k}]
    BY <2>3, <2>4, <2>5, Zenon
  <2>7. \A x \in Accounts : t[x] = NotListed \/ t[x] \in 0..Len(s)
    BY <1>8, <2>4, Zenon
  <2> HIDE DEF s, i
  <2>8. AccessListWrite(g, e, a, k, t, s)
    BY <1>6, <2>1, <2>4, <2>6, <2>7, Zenon DEF AccessListWrite
  <2>9. RegisterOK(g, e, m)
    BY <1>6, <2>8, <1>3, Zenon
  <2> QED BY <1>4, <2>9, <1>1, Zenon
<1> QED BY <1>9, <1>10, <1>11, Zenon
=============================================================================
