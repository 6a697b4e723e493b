------------------------------ MODULE Indexer ------------------------------
(***************************************************************************)
(* The index of Ethereum transactions by hash and by position that the     *)
(* JSON-RPC server keeps: server/indexer_service.go follows the chain      *)
(* while the node runs, server/indexer_cmd.go fills the index forwards or  *)
(* backwards while it does not, indexer/kv_indexer.go is the database.     *)
(*                                                                         *)
(* A block is its height.  One batch writes a block's transactions, so the *)
(* database is the set of heights it has entries of; a block without       *)
(* Ethereum transactions leaves none.  The node may crash at any step.     *)
(***************************************************************************)
EXTENDS Integers, FiniteSets, FiniteSetsExt

CONSTANTS
    MaxHeight,   \* bound: blocks of the chain
    MaxErrors,   \* bound: blocks the service fails to index
    MaxCrashes   \* bound: crashes of the node

ASSUME BoundsAssumption == {MaxHeight, MaxErrors, MaxCrashes} \subseteq Nat

VARIABLES
    ethBlocks,    \* the blocks with Ethereum transactions
    height,       \* blocks in CometBFT's block store
    saved,        \* blocks whose results are saved too
    published,    \* blocks whose header event is published too
    db,           \* the blocks with entries in the index
    pc,           \* where the process is
    latestBlock,
    lastBlock,
    blockErr,
    newBlockSignal,
    received,     \* headers up to this one are received; -1: no subscription
    i,            \* the loop variable
    skipped,      \* history: blocks whose IndexBlock failed in the service
    crashes

chain  == <<ethBlocks, height, saved, published>>
header == <<latestBlock, newBlockSignal, received>>
vars   == <<ethBlocks, height, saved, published, db, pc, latestBlock, lastBlock,
            blockErr, newBlockSignal, received, i, skipped, crashes>>

Heights == 1..MaxHeight
Offline == {"down", "backward", "forward"}
Labels  == Offline \cup {"status", "subscribe", "load", "loop", "wait", "index"}
Running == pc \notin Offline

LastIndexedBlock  == IF db = {} THEN -1 ELSE Max(db)
FirstIndexedBlock == IF db = {} THEN -1 ELSE Min(db)

\* Mutant: every block leaves an entry.
IndexEveryBlock(h) == db' = db \cup {h}

IndexBlock(h) == db' = db \cup ({h} \cap ethBlocks)

GoTo(label) == pc' = label

\* The indexer may be enabled on a chain that has blocks already.
Init ==
    /\ ethBlocks \in SUBSET Heights
    /\ height \in 0..MaxHeight
    /\ saved = height /\ published = height
    /\ db = {} /\ skipped = {} /\ crashes = 0
    /\ pc = "down"
    /\ latestBlock = 0 /\ lastBlock = 0 /\ blockErr = FALSE
    /\ newBlockSignal = FALSE /\ received = -1
    /\ i = 0

(***************************************************************************)
(* CometBFT: a block is stored, executed and its results saved, and then   *)
(* its header event is published.                                          *)
(***************************************************************************)
Others == <<ethBlocks, db, pc, lastBlock, blockErr, i, skipped, crashes, header>>

StoreBlock ==
    /\ Running
    /\ published = height /\ height < MaxHeight
    /\ height' = height + 1
    /\ UNCHANGED <<Others, saved, published>>

SaveResults ==
    /\ Running
    /\ saved < height
    /\ saved' = height
    /\ UNCHANGED <<Others, height, published>>

PublishHeader ==
    /\ Running
    /\ published < saved
    /\ published' = saved
    /\ UNCHANGED <<Others, height, saved>>

\* What was not executed when the node stopped is replayed before it starts.
StartNode ==
    /\ pc = "down"
    /\ saved' = height /\ published' = height
    /\ GoTo("status")
    /\ UNCHANGED <<ethBlocks, height, db, lastBlock, blockErr, i, skipped, crashes, header>>

Crash ==
    /\ Running
    /\ crashes < MaxCrashes
    /\ crashes' = crashes + 1
    /\ GoTo("down")
    /\ latestBlock' = 0 /\ lastBlock' = 0 /\ blockErr' = FALSE
    /\ newBlockSignal' = FALSE /\ received' = -1
    /\ i' = 0
    /\ UNCHANGED <<chain, db, skipped>>

(***************************************************************************)
(* EVMIndexerService.OnStart.                                              *)
(***************************************************************************)
Status ==
    /\ pc = "status"
    /\ latestBlock' = height
    /\ GoTo("subscribe")
    /\ UNCHANGED <<chain, db, lastBlock, blockErr, newBlockSignal, received, i, skipped, crashes>>

Subscribe ==
    /\ pc = "subscribe"
    /\ received' = published
    /\ GoTo("load")
    /\ UNCHANGED <<chain, db, latestBlock, lastBlock, blockErr, newBlockSignal, i, skipped, crashes>>

\* The goroutine of the header subscription.
ReceiveHeader ==
    /\ received # -1 /\ received < published
    /\ received' = received + 1
    /\ IF received' > latestBlock
       THEN latestBlock' = received' /\ newBlockSignal' = TRUE
       ELSE UNCHANGED <<latestBlock, newBlockSignal>>
    /\ UNCHANGED <<chain, db, pc, lastBlock, blockErr, i, skipped, crashes>>

LoadLastBlock ==
    /\ pc = "load"
    /\ lastBlock' = IF LastIndexedBlock = -1 THEN latestBlock ELSE LastIndexedBlock
    /\ GoTo("loop")
    /\ UNCHANGED <<chain, header, db, blockErr, i, skipped, crashes>>

Loop ==
    /\ pc = "loop"
    /\ IF latestBlock <= lastBlock \/ blockErr
       THEN GoTo("wait") /\ UNCHANGED i
       ELSE GoTo("index") /\ i' = lastBlock + 1
    /\ UNCHANGED <<chain, header, db, lastBlock, blockErr, skipped, crashes>>

\* The wait ends with a signal or after NewBlockWaitTimeout.
Wait ==
    /\ pc = "wait"
    /\ newBlockSignal' \in (IF newBlockSignal THEN BOOLEAN ELSE {FALSE})
    /\ GoTo("loop")
    /\ UNCHANGED <<chain, db, latestBlock, lastBlock, blockErr, received, i, skipped, crashes>>

\* Mutant: the loop ends one block early.
InnerLoopShort ==
    /\ pc = "index"
    /\ i >= latestBlock
    /\ GoTo("loop")
    /\ UNCHANGED <<chain, header, db, lastBlock, blockErr, i, skipped, crashes>>

InnerLoopEnds ==
    /\ pc = "index"
    /\ i > latestBlock
    /\ GoTo("loop")
    /\ UNCHANGED <<chain, header, db, lastBlock, blockErr, i, skipped, crashes>>

FetchFails ==
    /\ pc = "index"
    /\ i <= latestBlock /\ i > saved
    /\ blockErr' = TRUE
    /\ GoTo("loop")
    /\ UNCHANGED <<chain, header, db, lastBlock, i, skipped, crashes>>

\* An error of IndexBlock is logged, and the service goes on.
IndexNext ==
    /\ pc = "index"
    /\ i <= latestBlock /\ i <= saved
    /\ \/ IndexBlock(i) /\ UNCHANGED skipped
       \/ /\ i \in ethBlocks \ db /\ Cardinality(skipped) < MaxErrors
          /\ skipped' = skipped \cup {i} /\ UNCHANGED db
    /\ lastBlock' = i
    /\ i' = i + 1
    /\ blockErr' = FALSE
    /\ UNCHANGED <<chain, header, pc, crashes>>

(***************************************************************************)
(* The command index-eth-tx, block by block; an error ends it.             *)
(***************************************************************************)
Service == <<lastBlock, blockErr, header, skipped, crashes>>

\* Mutant: the missing blocks are indexed upwards.
StartBackwardAtOne ==
    /\ pc = "down"
    /\ i' = 1
    /\ GoTo("forward")
    /\ UNCHANGED <<chain, Service, db>>

StartBackward ==
    /\ pc = "down"
    /\ i' = (IF FirstIndexedBlock = -1 THEN height ELSE FirstIndexedBlock) - 1
    /\ GoTo("backward")
    /\ UNCHANGED <<chain, Service, db>>

StartForward ==
    /\ pc = "down"
    /\ i' = (IF LastIndexedBlock = -1 THEN 0 ELSE LastIndexedBlock) + 1
    /\ GoTo("forward")
    /\ UNCHANGED <<chain, Service, db>>

CommandStep ==
    /\ \/ pc = "backward" /\ i > 0 /\ i' = i - 1
       \/ pc = "forward" /\ i <= height /\ i' = i + 1
    /\ i <= saved
    /\ IndexBlock(i)
    /\ UNCHANGED <<chain, Service, pc>>

\* The loop is over, or a block cannot be loaded or indexed.
CommandEnds ==
    /\ pc \in {"backward", "forward"}
    /\ GoTo("down")
    /\ i' = 0
    /\ UNCHANGED <<chain, Service, db>>

ServiceStep ==
    \/ Status \/ Subscribe \/ LoadLastBlock \/ Loop \/ Wait
    \/ InnerLoopEnds \/ FetchFails \/ IndexNext

Next ==
    \/ StoreBlock \/ SaveResults \/ PublishHeader
    \/ StartNode \/ Crash
    \/ ServiceStep \/ ReceiveHeader
    \/ StartBackward \/ StartForward \/ CommandStep \/ CommandEnds

\* The goroutines run, and the execution of a stored block ends.
Fairness ==
    /\ WF_vars(ServiceStep)
    /\ WF_vars(ReceiveHeader)
    /\ WF_vars(SaveResults)

Spec == Init /\ [][Next]_vars /\ Fairness

-----------------------------------------------------------------------------

\* Type invariant.
TypeOK ==
    /\ ethBlocks \subseteq Heights /\ db \subseteq ethBlocks
    /\ skipped \subseteq ethBlocks
    /\ {height, saved, published, latestBlock, lastBlock} \subseteq 0..MaxHeight
    /\ published <= saved /\ saved <= height
    /\ pc \in Labels
    /\ blockErr \in BOOLEAN /\ newBlockSignal \in BOOLEAN
    /\ received \in -1..published
    /\ i \in -1..MaxHeight + 1
    /\ crashes \in 0..MaxCrashes

\* The index has no gap: from its first block to the last one that it, or the
\* running service, has come to, it holds every block with Ethereum
\* transactions, except those whose IndexBlock failed.  It holds at every step
\* of the service and of both commands, wherever a crash interrupts them; the
\* first and the last block of the index are all that a restart goes by.
NoGap ==
    db # {} => \A h \in ethBlocks :
        Min(db) <= h /\ h <= Max(db \cup {lastBlock}) => h \in db \cup skipped

\* The service comes to every block it knows of, although the header goroutine
\* moves latestBlock under its loops, unless the node stops or a block could
\* not be fetched.
CatchesUp ==
    \A h \in Heights :
        latestBlock >= h ~> (lastBlock >= h \/ blockErr \/ pc = "down")

-----------------------------------------------------------------------------
\* The comment of OnStart on a block that could not be fetched, because its
\* results are not saved yet, is that the service has to "wait before retrying
\* the data fetching".  Violated: nothing resets blockErr before the fetch that
\* it prevents.
FetchRetried == blockErr ~> ~blockErr
=============================================================================
