--------------------------- MODULE IndexerProofs ---------------------------
(***************************************************************************)
(* Proofs about the transaction indexer: for every chain, every number of  *)
(* blocks, errors and crashes, the variables stay in their types and the   *)
(* index has no gap.                                                       *)
(***************************************************************************)
EXTENDS Indexer, SumProofs, TLAPS

-----------------------------------------------------------------------------
(* The first and the last block.                                           *)

\* FirstIndexedBlock of a database with entries.
LEMMA MinFacts ==
    ASSUME NEW S \in SUBSET Nat, S # {}
    PROVE  Min(S) \in S /\ \A y \in S : Min(S) =< y
  BY LeastNatural DEF Min

\* LastIndexedBlock of a database with entries.
LEMMA MaxFacts ==
    ASSUME NEW n \in Nat, NEW S \in SUBSET (0 .. n), S # {}
    PROVE  Max(S) \in S /\ \A y \in S : Max(S) >= y
  <1> DEFINE T == {t \in Nat : \E x \in S : t = n - x}
  <1>1. \A x \in S : x \in Int /\ n - x \in Nat
    OBVIOUS
  <1>2. \A x \in S : n - x \in T
    BY <1>1
  <1>3. PICK t \in T : \A u \in T : t =< u
    BY <1>2, LeastNatural
  <1>4. PICK x \in S : t = n - x
    BY <1>3
  <1> HIDE DEF T
  <1>5. ASSUME NEW y \in S PROVE x >= y
    BY <1>1, <1>2, <1>3, <1>4
  <1> QED
    BY <1>4, <1>5 DEF Max

-----------------------------------------------------------------------------
(* Types.                                                                  *)

\* The types, and where the loop variable is when the service indexes.
Types ==
    /\ TypeOK
    /\ pc = "index" => i = lastBlock + 1

\* The numbers of TypeOK, as inequalities.
Numbers ==
    /\ height \in Int /\ saved \in Int /\ published \in Int
    /\ latestBlock \in Int /\ lastBlock \in Int
    /\ 0 <= published /\ published <= saved /\ saved <= height /\ height <= MaxHeight
    /\ 0 <= latestBlock /\ latestBlock <= MaxHeight
    /\ 0 <= lastBlock /\ lastBlock <= MaxHeight
    /\ received \in Int /\ -1 <= received /\ received <= published
    /\ i \in Int /\ -1 <= i /\ i <= MaxHeight + 1
    /\ crashes \in Int /\ 0 <= crashes /\ crashes <= MaxCrashes

\* The rest of TypeOK.
Sets ==
    /\ ethBlocks \subseteq Heights /\ db \subseteq ethBlocks
    /\ skipped \subseteq ethBlocks
    /\ pc \in Labels
    /\ blockErr \in BOOLEAN /\ newBlockSignal \in BOOLEAN

\* The bounds are natural numbers, and blocks are numbered from one.
LEMMA Bounds ==
    /\ MaxHeight \in Nat /\ MaxErrors \in Nat /\ MaxCrashes \in Nat
    /\ Heights \in SUBSET Nat /\ Heights \in SUBSET (0 .. MaxHeight)
  BY BoundsAssumption DEF Heights

\* What FirstIndexedBlock and LastIndexedBlock return.
LEMMA FirstAndLast ==
    ASSUME TypeOK
    PROVE  /\ db = {} => FirstIndexedBlock = -1 /\ LastIndexedBlock = -1
           /\ db # {} => /\ FirstIndexedBlock \in db /\ LastIndexedBlock \in db
                         /\ FirstIndexedBlock # -1 /\ LastIndexedBlock # -1
                         /\ \A h \in db : FirstIndexedBlock <= h /\ h <= LastIndexedBlock
           /\ \A h \in db : h \in 1 .. MaxHeight
  <1>1. /\ db \in SUBSET Nat /\ db \in SUBSET (0 .. MaxHeight)
        /\ \A h \in db : h \in 1 .. MaxHeight /\ h # -1
    BY Bounds DEF TypeOK, Heights
  <1>2. CASE db = {}
    BY <1>1, <1>2 DEF FirstIndexedBlock, LastIndexedBlock
  <1>3. CASE db # {}
    <2>1. Min(db) \in db /\ \A y \in db : Min(db) =< y
      BY <1>1, <1>3, MinFacts
    <2>2. Max(db) \in db /\ \A y \in db : Max(db) >= y
      BY <1>1, <1>3, Bounds, MaxFacts
    <2>3. FirstIndexedBlock = Min(db) /\ LastIndexedBlock = Max(db)
      BY <1>3 DEF FirstIndexedBlock, LastIndexedBlock
    <2> QED
      BY <1>1, <1>3, <2>1, <2>2, <2>3
  <1> QED
    BY <1>2, <1>3

\* The two halves of TypeOK.
LEMMA SplitTypes == /\ TypeOK <=> Numbers /\ Sets
                    /\ TypeOK' <=> Numbers' /\ Sets'
  BY Bounds DEF TypeOK, Numbers, Sets

\* The initial state has the types.
LEMMA InitTypes == Init => Types
  <1> SUFFICES ASSUME Init PROVE Types
    OBVIOUS
  <1>1. Numbers
    BY Bounds DEF Init, Numbers
  <1>2. Sets
    BY DEF Init, Sets, Labels, Offline
  <1>3. pc # "index"
    BY DEF Init
  <1> QED
    BY <1>1, <1>2, <1>3, SplitTypes DEF Types

\* Every step keeps the numbers in their ranges.
LEMMA NextNumbers ==
    ASSUME Types, [Next]_vars
    PROVE  Numbers' /\ (pc = "index" => i = lastBlock + 1)'
  <1>1. Numbers /\ (pc = "index" => i = lastBlock + 1)
    BY SplitTypes DEF Types
  <1> USE <1>1, Bounds DEF Numbers, GoTo
  <1>2. CASE StoreBlock \/ SaveResults \/ PublishHeader
    BY <1>2 DEF StoreBlock, SaveResults, PublishHeader, Others, header
  <1>3. CASE StartNode
    BY <1>3 DEF StartNode, header
  <1>4. CASE Crash
    BY <1>4 DEF Crash, chain
  <1>5. CASE Status \/ Subscribe \/ Wait
    <2>1. CASE Status
      BY <2>1 DEF Status, chain
    <2>2. CASE Subscribe
      BY <2>2 DEF Subscribe, chain
    <2>3. CASE Wait
      BY <2>3 DEF Wait, chain
    <2> QED
      BY <1>5, <2>1, <2>2, <2>3
  <1>6. CASE ReceiveHeader
    BY <1>6 DEF ReceiveHeader, chain
  <1>7. CASE LoadLastBlock
    <2>1. LastIndexedBlock = -1 \/ LastIndexedBlock \in 1 .. MaxHeight
      BY FirstAndLast DEF Types
    <2> QED
      BY <1>7, <2>1 DEF LoadLastBlock, chain, header
  <1>8. CASE Loop \/ InnerLoopEnds \/ FetchFails
    BY <1>8 DEF Loop, InnerLoopEnds, FetchFails, chain, header
  <1>9. CASE IndexNext
    BY <1>9 DEF IndexNext, chain, header
  <1>10. CASE StartBackward
    <2>1. FirstIndexedBlock = -1 \/ FirstIndexedBlock \in 1 .. MaxHeight
      BY FirstAndLast DEF Types
    <2> QED
      BY <1>10, <2>1 DEF StartBackward, chain, Service, header
  <1>11. CASE StartForward
    <2>1. LastIndexedBlock = -1 \/ LastIndexedBlock \in 1 .. MaxHeight
      BY FirstAndLast DEF Types
    <2> QED
      BY <1>11, <2>1 DEF StartForward, chain, Service, header
  <1>12. CASE CommandStep \/ CommandEnds
    BY <1>12 DEF CommandStep, CommandEnds, chain, Service, header
  <1>13. CASE UNCHANGED vars
    BY <1>13 DEF vars
  <1> QED
    BY <1>2, <1>3, <1>4, <1>5, <1>6, <1>7, <1>8, <1>9, <1>10, <1>11, <1>12, <1>13
       DEF Next, ServiceStep

\* Every step keeps the index inside the chain.
LEMMA NextSets ==
    ASSUME Types, [Next]_vars
    PROVE  Sets'
  <1>1. Sets /\ Numbers
    BY SplitTypes DEF Types
  <1> USE <1>1 DEF Sets, GoTo
  <1>2. CASE StoreBlock \/ SaveResults \/ PublishHeader
    BY <1>2 DEF StoreBlock, SaveResults, PublishHeader, Others, header
  <1>3. CASE StartNode \/ Crash
    BY <1>3 DEF StartNode, Crash, header, chain, Labels, Offline
  <1>4. CASE Status \/ Subscribe \/ LoadLastBlock
    BY <1>4 DEF Status, Subscribe, LoadLastBlock, chain, header, Labels
  <1>5. CASE Wait
    BY <1>5 DEF Wait, chain, Labels
  <1>6. CASE ReceiveHeader
    BY <1>6 DEF ReceiveHeader, chain
  <1>7. CASE Loop \/ InnerLoopEnds \/ FetchFails
    BY <1>7 DEF Loop, InnerLoopEnds, FetchFails, chain, header, Labels
  <1>8. CASE IndexNext
    BY <1>8 DEF IndexNext, IndexBlock, chain, header
  <1>9. CASE StartBackward \/ StartForward \/ CommandEnds
    BY <1>9 DEF StartBackward, StartForward, CommandEnds, chain, Service, header, Labels, Offline
  <1>10. CASE CommandStep
    BY <1>10 DEF CommandStep, IndexBlock, chain, Service, header
  <1>11. CASE UNCHANGED vars
    BY <1>11 DEF vars
  <1> QED
    BY <1>2, <1>3, <1>4, <1>5, <1>6, <1>7, <1>8, <1>9, <1>10, <1>11 DEF Next, ServiceStep

\* Every step keeps the types.
LEMMA NextTypes ==
    ASSUME Types, [Next]_vars
    PROVE  Types'
  BY NextNumbers, NextSets, SplitTypes DEF Types

\* The variables stay in their types, whatever the length of the chain and the
\* number of crashes: the service and the commands never look for a block
\* outside the chain.
THEOREM IndexerTypes == Spec => []TypeOK
  <1>1. Types => TypeOK
    BY DEF Types
  <1> QED
    BY <1>1, InitTypes, NextTypes, PTL DEF Spec

-----------------------------------------------------------------------------
(* The index has no gap.                                                   *)

Loops == {"loop", "wait", "index"}

\* A block that needs no entry any more.
Settled(h) == h \in ethBlocks => h \in db \cup skipped

\* NoGap, without the least and the greatest element: what lies between two
\* entries, or between an entry and the last block of the service, is settled.
Between ==
    \A a \in db, h \in ethBlocks :
        a <= h /\ (h <= lastBlock \/ \E b \in db : h <= b) => Settled(h)

\* Once the service has read its last block, it is past all entries.  It does
\* not outlive a crash.
Cursor ==
    /\ pc \in Loops => \A h \in db : h <= lastBlock
    /\ pc \notin Loops => lastBlock = 0

\* The backward command is below all entries and has settled what it passed.
Backwards ==
    pc = "backward" =>
        /\ \A h \in db : i < h
        /\ \A h \in ethBlocks, b \in db : i < h /\ h <= b => Settled(h)

\* The forward command is above all entries and has settled what it passed.
Forwards ==
    pc = "forward" =>
        /\ \A h \in db : h < i
        /\ \A h \in ethBlocks, a \in db : a <= h /\ h < i => Settled(h)

\* The inductive invariant.
IndexInv == Types /\ Between /\ Cursor /\ Backwards /\ Forwards

\* It implies NoGap.
LEMMA InvNoGap == IndexInv => NoGap
  <1> SUFFICES ASSUME IndexInv, db # {}, NEW h \in ethBlocks,
                      Min(db) <= h, h <= Max(db \cup {lastBlock})
               PROVE  h \in db \cup skipped
    BY DEF NoGap
  <1> DEFINE S == db \cup {lastBlock}
  <1>1. db \in SUBSET Nat /\ S \in SUBSET (0 .. MaxHeight) /\ S # {} /\ MaxHeight \in Nat
    BY Bounds DEF IndexInv, Types, TypeOK
  <1>2. Min(db) \in db
    BY <1>1, MinFacts
  <1>3. Max(S) \in S
    BY <1>1, MaxFacts
  <1>4. h <= lastBlock \/ \E b \in db : h <= b
    BY <1>3
  <1> QED
    BY <1>2, <1>4 DEF IndexInv, Between, Settled

\* The steps that move neither the index nor the positions in it.
LEMMA SamePositions ==
    ASSUME IndexInv, Types',
           UNCHANGED <<ethBlocks, db, skipped, lastBlock>>,
           pc \in Loops <=> pc' \in Loops,
           pc' \in {"backward", "forward"} => UNCHANGED <<pc, i>>
    PROVE  IndexInv'
  BY DEF IndexInv, Between, Cursor, Backwards, Forwards, Settled, Types, TypeOK

\* Block numbers are integers.
LEMMA BlockNumbers ==
    ASSUME Types
    PROVE  /\ \A h \in ethBlocks : h \in Int /\ 1 <= h
           /\ db \subseteq ethBlocks /\ i \in Int /\ lastBlock \in Int
  BY Bounds DEF Types, TypeOK, Heights

\* The service indexes the block after its last one, or skips it.
LEMMA IndexNextInv ==
    ASSUME IndexInv, Types', IndexNext
    PROVE  IndexInv'
  <1>1. /\ pc = "index" /\ pc' = "index" /\ i = lastBlock + 1 /\ lastBlock' = i
        /\ ethBlocks' = ethBlocks
    BY DEF IndexInv, Types, IndexNext, chain
  <1>2. /\ \A h \in ethBlocks : h \in Int /\ 1 <= h
        /\ db \subseteq ethBlocks /\ i \in Int /\ lastBlock \in Int
    BY BlockNumbers DEF IndexInv
  <1>3. /\ db \subseteq db' /\ db' \subseteq db \cup {i} /\ skipped \subseteq skipped'
        /\ i \in ethBlocks => i \in db' \cup skipped'
    BY DEF IndexNext, IndexBlock
  <1>4. \A h \in db : h <= lastBlock
    BY <1>1 DEF IndexInv, Cursor, Loops
  <1>5. Between'
    <2> SUFFICES ASSUME NEW a \in db', NEW h \in ethBlocks, a <= h,
                        h <= i \/ \E b \in db' : h <= b
                 PROVE  h \in db' \cup skipped'
      BY <1>1 DEF Between, Settled
    <2>1. h <= i
      BY <1>1, <1>2, <1>3, <1>4
    <2>2. CASE h = i
      BY <1>3, <2>2
    <2>3. CASE h # i
      <3>1. a \in db /\ h <= lastBlock
        BY <1>1, <1>2, <1>3, <2>1, <2>3
      <3> QED
        BY <1>3, <3>1 DEF IndexInv, Between, Settled
    <2> QED
      BY <2>2, <2>3
  <1>6. Cursor'
    BY <1>1, <1>2, <1>3, <1>4 DEF Cursor, Loops
  <1> QED
    BY <1>1, <1>5, <1>6 DEF IndexInv, Backwards, Forwards

\* A restarted service goes on after the last entry.
LEMMA LoadInv ==
    ASSUME IndexInv, Types', LoadLastBlock
    PROVE  IndexInv'
  <1>1. /\ pc' = "loop" /\ UNCHANGED <<ethBlocks, db, skipped>>
        /\ lastBlock' = IF LastIndexedBlock = -1 THEN latestBlock ELSE LastIndexedBlock
    BY DEF LoadLastBlock, GoTo, chain
  <1>2. /\ db # {} => lastBlock' \in db /\ \A h \in db : h <= lastBlock'
    BY <1>1, FirstAndLast DEF IndexInv, Types
  <1>3. Between'
    BY <1>1, <1>2 DEF IndexInv, Between, Settled
  <1>4. Cursor'
    BY <1>1, <1>2 DEF Cursor, Loops
  <1> QED
    BY <1>1, <1>3, <1>4 DEF IndexInv, Backwards, Forwards

\* A crash forgets the last block of the service.
LEMMA CrashInv ==
    ASSUME IndexInv, Types', Crash
    PROVE  IndexInv'
  <1>1. pc' = "down" /\ lastBlock' = 0 /\ UNCHANGED <<ethBlocks, db, skipped>>
    BY DEF Crash, GoTo, chain
  <1>2. \A h \in ethBlocks : h \in Int /\ 1 <= h
    BY BlockNumbers DEF IndexInv
  <1>3. Between'
    BY <1>1, <1>2 DEF IndexInv, Between, Settled
  <1> QED
    BY <1>1, <1>3 DEF IndexInv, Cursor, Loops, Backwards, Forwards

\* A command starts below the first entry, or above the last one.
LEMMA StartInv ==
    ASSUME IndexInv, Types', StartBackward \/ StartForward
    PROVE  IndexInv'
  <1>1. /\ UNCHANGED <<ethBlocks, db, skipped, lastBlock>> /\ pc = "down"
        /\ pc' \in {"backward", "forward"}
    BY DEF StartBackward, StartForward, GoTo, chain, Service
  <1>2. Between' /\ Cursor'
    BY <1>1 DEF IndexInv, Between, Settled, Cursor, Loops
  <1>3. /\ \A h \in ethBlocks : h \in Int /\ 1 <= h
        /\ db \subseteq ethBlocks
    BY BlockNumbers DEF IndexInv
  <1>4. Backwards'
    <2> SUFFICES ASSUME StartBackward, db # {} PROVE Backwards'
      BY <1>1 DEF StartForward, GoTo, Backwards
    <2>1. /\ FirstIndexedBlock \in db /\ \A h \in db : FirstIndexedBlock <= h
          /\ i' = FirstIndexedBlock - 1
      BY FirstAndLast DEF IndexInv, Types, StartBackward
    <2>2. \A h \in ethBlocks : i' < h => FirstIndexedBlock <= h
      BY <1>3, <2>1
    <2>3. \A h \in db : i' < h
      BY <1>3, <2>1
    <2> QED
      BY <1>1, <2>1, <2>2, <2>3 DEF IndexInv, Between, Backwards, Settled
  <1>5. Forwards'
    <2> SUFFICES ASSUME StartForward, db # {} PROVE Forwards'
      BY <1>1 DEF StartBackward, GoTo, Forwards
    <2>1. /\ LastIndexedBlock \in db /\ \A h \in db : h <= LastIndexedBlock
          /\ i' = LastIndexedBlock + 1
      BY FirstAndLast DEF IndexInv, Types, StartForward
    <2>2. \A h \in ethBlocks : h < i' => h <= LastIndexedBlock
      BY <1>3, <2>1
    <2>3. \A h \in db : h < i'
      BY <1>3, <2>1
    <2> QED
      BY <1>1, <2>1, <2>2, <2>3 DEF IndexInv, Between, Forwards, Settled
  <1> QED
    BY <1>2, <1>4, <1>5 DEF IndexInv

\* What one block of a command does to the index.
LEMMA CommandFacts ==
    ASSUME IndexInv, CommandStep
    PROVE  /\ \A h \in ethBlocks : h \in Int /\ 1 <= h
           /\ db \subseteq ethBlocks /\ i \in Int /\ lastBlock = 0
           /\ UNCHANGED <<ethBlocks, skipped, lastBlock, pc>>
           /\ db \subseteq db' /\ db' \subseteq db \cup {i} /\ db' \subseteq ethBlocks
           /\ i \in ethBlocks => i \in db'
           /\ \/ pc = "backward" /\ i' = i - 1
              \/ pc = "forward" /\ i' = i + 1
  <1>1. /\ \A h \in ethBlocks : h \in Int /\ 1 <= h
        /\ db \subseteq ethBlocks /\ i \in Int
    BY BlockNumbers DEF IndexInv
  <1>2. /\ UNCHANGED <<ethBlocks, skipped, lastBlock, pc>>
        /\ \/ pc = "backward" /\ i' = i - 1
           \/ pc = "forward" /\ i' = i + 1
    BY DEF CommandStep, chain, Service
  <1>3. lastBlock = 0
    BY <1>2 DEF IndexInv, Cursor, Loops
  <1>4. db' = db \cup ({i} \cap ethBlocks)
    BY DEF CommandStep, IndexBlock
  <1> QED
    BY <1>1, <1>2, <1>3, <1>4

\* One block of the backward command.
LEMMA BackwardInv ==
    ASSUME IndexInv, Types', CommandStep, pc = "backward"
    PROVE  IndexInv'
  <1>1. /\ \A h \in ethBlocks : h \in Int /\ 1 <= h
        /\ db \subseteq ethBlocks /\ i \in Int /\ lastBlock = 0
        /\ UNCHANGED <<ethBlocks, skipped, lastBlock, pc>>
        /\ db \subseteq db' /\ db' \subseteq db \cup {i} /\ db' \subseteq ethBlocks
        /\ i \in ethBlocks => i \in db'
        /\ i' = i - 1
    BY CommandFacts
  <1>2. /\ \A h \in db : i < h
        /\ \A h \in ethBlocks, b \in db : i < h /\ h <= b => h \in db \cup skipped
    BY DEF IndexInv, Backwards, Settled
  <1>3. ASSUME NEW h \in ethBlocks, NEW b \in db', i <= h, h <= b
        PROVE  h \in db' \cup skipped'
    <2>1. CASE h = i
      BY <1>1, <2>1
    <2>2. CASE h # i
      <3>1. i < h /\ b \in db
        BY <1>1, <1>3, <2>2
      <3> QED
        BY <1>1, <1>2, <1>3, <3>1
    <2> QED
      BY <2>1, <2>2
  <1>4. \A h \in db' : i <= h /\ i' < h
    BY <1>1, <1>2
  <1>5. \A h \in ethBlocks : i' < h => i <= h
    BY <1>1
  <1>6. Backwards'
    BY <1>1, <1>3, <1>4, <1>5 DEF Backwards, Settled
  <1>7. Between'
    <2> SUFFICES ASSUME NEW a \in db', NEW h \in ethBlocks, a <= h,
                        h <= 0 \/ \E b \in db' : h <= b
                 PROVE  h \in db' \cup skipped'
      BY <1>1 DEF Between, Settled
    <2>1. i <= h
      BY <1>1, <1>4
    <2>2. \E b \in db' : h <= b
      BY <1>1
    <2> QED
      BY <1>3, <2>1, <2>2
  <1> QED
    BY <1>1, <1>6, <1>7 DEF IndexInv, Cursor, Loops, Forwards

\* One block of the forward command.
LEMMA ForwardInv ==
    ASSUME IndexInv, Types', CommandStep, pc = "forward"
    PROVE  IndexInv'
  <1>1. /\ \A h \in ethBlocks : h \in Int /\ 1 <= h
        /\ db \subseteq ethBlocks /\ i \in Int /\ lastBlock = 0
        /\ UNCHANGED <<ethBlocks, skipped, lastBlock, pc>>
        /\ db \subseteq db' /\ db' \subseteq db \cup {i} /\ db' \subseteq ethBlocks
        /\ i \in ethBlocks => i \in db'
        /\ i' = i + 1
    BY CommandFacts
  <1>2. /\ \A h \in db : h < i
        /\ \A h \in ethBlocks, a \in db : a <= h /\ h < i => h \in db \cup skipped
    BY DEF IndexInv, Forwards, Settled
  <1>3. ASSUME NEW h \in ethBlocks, NEW a \in db', a <= h, h <= i
        PROVE  h \in db' \cup skipped'
    <2>1. CASE h = i
      BY <1>1, <2>1
    <2>2. CASE h # i
      <3>1. h < i /\ a \in db
        BY <1>1, <1>3, <2>2
      <3> QED
        BY <1>1, <1>2, <1>3, <3>1
    <2> QED
      BY <2>1, <2>2
  <1>4. \A h \in db' : h <= i /\ h < i'
    BY <1>1, <1>2
  <1>5. \A h \in ethBlocks : h < i' => h <= i
    BY <1>1
  <1>6. Forwards'
    BY <1>1, <1>3, <1>4, <1>5 DEF Forwards, Settled
  <1>7. Between'
    <2> SUFFICES ASSUME NEW a \in db', NEW h \in ethBlocks, a <= h,
                        h <= 0 \/ \E b \in db' : h <= b
                 PROVE  h \in db' \cup skipped'
      BY <1>1 DEF Between, Settled
    <2>1. h <= i
      BY <1>1, <1>4
    <2> QED
      BY <1>3, <2>1
  <1> QED
    BY <1>1, <1>6, <1>7 DEF IndexInv, Cursor, Loops, Backwards

\* Every step keeps the inductive invariant.
LEMMA NextIndexInv ==
    ASSUME IndexInv, [Next]_vars
    PROVE  IndexInv'
  <1>1. Types'
    BY NextTypes DEF IndexInv
  <1>2. CASE \/ StoreBlock \/ SaveResults \/ PublishHeader \/ ReceiveHeader
             \/ UNCHANGED vars
    BY <1>1, <1>2, SamePositions DEF StoreBlock, SaveResults, PublishHeader, ReceiveHeader,
       Others, chain, vars
  <1>3. CASE StartNode \/ Status \/ Subscribe
    BY <1>1, <1>3, SamePositions DEF StartNode, Status, Subscribe, GoTo, chain, Loops
  <1>4. CASE Loop \/ Wait \/ InnerLoopEnds \/ FetchFails
    BY <1>1, <1>4, SamePositions DEF Loop, Wait, InnerLoopEnds, FetchFails, GoTo, chain, Loops
  <1>5. CASE CommandEnds
    BY <1>1, <1>5, SamePositions DEF CommandEnds, GoTo, chain, Service, Loops
  <1>6. CASE CommandStep
    <2>1. pc \in {"backward", "forward"}
      BY <1>6 DEF CommandStep
    <2> QED
      BY <1>1, <1>6, <2>1, BackwardInv, ForwardInv
  <1> QED
    BY <1>1, <1>2, <1>3, <1>4, <1>5, <1>6, CrashInv, LoadInv, IndexNextInv, StartInv
       DEF Next, ServiceStep

\* For every chain, and wherever crashes interrupt the service and the
\* commands: the index holds all Ethereum blocks from its first block to the
\* last one that it or the service has come to, but those whose IndexBlock
\* failed.
THEOREM IndexHasNoGap == Spec => []NoGap
  <1>1. Init => IndexInv
    <2> SUFFICES ASSUME Init PROVE IndexInv
      OBVIOUS
    <2>1. db = {} /\ pc = "down" /\ lastBlock = 0
      BY DEF Init
    <2> QED
      BY <2>1, InitTypes DEF IndexInv, Between, Cursor, Loops, Backwards, Forwards
  <1> QED
    BY <1>1, InvNoGap, NextIndexInv, PTL DEF Spec
=============================================================================
