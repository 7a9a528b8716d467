------------------------------- MODULE ChainStore -------------------------------
(***************************************************************************)
(* The on-disk index of Storage.cpp: the header list, the per-block tx     *)
(* counts, the UTXO set, the scripthash histories and the undo records,    *)
(* all kept in one RocksDB, together with the copies Storage holds in      *)
(* memory.  The operations are addBlock, undoLatestBlock, startup (with    *)
(* its load checks), the shutdown and a crash.  The latch file of App.cpp, *)
(* by which a start learns that the last run did not close the database,   *)
(* is removed and created in steps of its own.                             *)
(*                                                                         *)
(* A block is a member of a tree; everything the index keeps about it is   *)
(* given by constant functions.  Every addBlock and undoLatestBlock is one *)
(* atomic rocksdb::WriteBatch, so the database moves from one whole state  *)
(* to the next; the states that are not yet behind a SyncWAL() may be lost *)
(* in a crash.                                                             *)
(***************************************************************************)
EXTENDS Integers, Sequences, FiniteSets

CONSTANTS
    TXOs,              \* transaction outputs
    ScriptHashes,      \* HashX values
    Blocks,            \* every block of the block tree bitcoind may serve
    NoBlock,           \* the predecessor of a genesis block
    Parent,            \* hashPrevBlock, [Blocks -> Blocks \cup {NoBlock}]
    NTx,               \* number of transactions of a block
    Spends,            \* outputs of earlier blocks a block consumes
    Creates,           \* outputs a block creates and does not itself spend
    Touch,             \* pairs <<scripthash, tx index>> a block adds to histories
    TxNum0,            \* ledger truth: TxNum of a block's first transaction
    UtxoAt,            \* ledger truth: UTXO set after a block
    HistAt,            \* ledger truth: histories (<<scripthash, TxNum>>) after a block
    UndoDepths,        \* values the option max_reorg may have at a startup
    MaxHeaders,        \* bound on the length of the header list
    InvalidUndoHeight  \* larger than any height

Tips == Blocks \cup {NoBlock}

(***************************************************************************)
(* What a valid block tree satisfies: the three "ledger truth" functions   *)
(* are what replaying a block's ancestry yields, a block spends only what  *)
(* its parent left unspent, and its outputs are new (BIP30).               *)
(***************************************************************************)
ASSUME BlockTree ==
    /\ NoBlock \notin Blocks
    /\ Parent \in [Blocks -> Tips]
    /\ NTx \in [Blocks -> Nat \ {0}]
    /\ Spends \in [Blocks -> SUBSET TXOs] /\ Creates \in [Blocks -> SUBSET TXOs]
    /\ Touch \in [Blocks -> SUBSET (ScriptHashes \X Nat)]
    /\ \A b \in Blocks : IsFiniteSet(Spends[b]) /\ IsFiniteSet(Creates[b])

ASSUME LedgerTruth ==
    /\ TxNum0 \in [Blocks -> Nat]
    /\ UtxoAt \in [Tips -> SUBSET TXOs] /\ UtxoAt[NoBlock] = {}
    /\ HistAt \in [Tips -> SUBSET (ScriptHashes \X Nat)] /\ HistAt[NoBlock] = {}
    /\ \A b \in Blocks :
         /\ TxNum0[b] = IF Parent[b] = NoBlock THEN 0
                        ELSE TxNum0[Parent[b]] + NTx[Parent[b]]
         /\ Spends[b] \subseteq UtxoAt[Parent[b]]
         /\ Creates[b] \cap UtxoAt[Parent[b]] = {}
         /\ UtxoAt[b] = (UtxoAt[Parent[b]] \ Spends[b]) \cup Creates[b]
         /\ \A e \in Touch[b] : e[2] < NTx[b]
         /\ HistAt[b] = HistAt[Parent[b]] \cup {<<e[1], TxNum0[b] + e[2]>> : e \in Touch[b]}
         /\ \A e \in HistAt[Parent[b]] : e[2] < TxNum0[b]

ASSUME Limits ==
    /\ UndoDepths \subseteq Nat \ {0} /\ UndoDepths # {}
    /\ MaxHeaders \in Nat /\ InvalidUndoHeight \in Nat
    /\ InvalidUndoHeight > MaxHeaders

VARIABLES
    db,        \* the database as the running process sees it
    durable,   \* the database states a power loss may bring back
    mem,       \* the copies kept in memory, valid while the process is up
    phase,     \* where the process is, see Phases
    latch,     \* the file datadir/latch exists
    unclean,   \* options.flags.potentiallyUncleanShutdownDetected
    announced, \* history variable: the chain when subscribers were last notified
    rewind     \* history variable: what became of the last stop with an open database

vars == <<db, durable, mem, phase, latch, unclean, announced, rewind>>

latchVars == <<latch, unclean>>

-----------------------------------------------------------------------------
(* Records *)

BlkInfo == [txNum0 : Nat, nTx : Nat]

TipOf(chain) == IF chain = <<>> THEN NoBlock ELSE chain[Len(chain)]

DropLast(s) == SubSeq(s, 1, Len(s) - 1)

EmptyDb == [chain |-> <<>>, blkInfo |-> <<>>, txCount |-> 0, utxo |-> {},
            utxoCt |-> 0, hist |-> {}, undo |-> {}]

EmptyMem == [tip |-> NoBlock, height |-> -1, blkInfos |-> <<>>, txNumNext |-> 0,
             utxoCt |-> 0, earliestUndo |-> InvalidUndoHeight, undoDepth |-> 0]

UndoHeights(undo) == {u.height : u \in undo}

-----------------------------------------------------------------------------
(* Storage::addBlock *)

(* BTC::HeaderVerifier: the header must name the last header as its parent. *)
Verifies(b) == Parent[b] = mem.tip

UndoInfo(b, height, txNum0) ==
    [height |-> height, hash |-> b, blkInfo |-> [txNum0 |-> txNum0, nTx |-> NTx[b]],
     scriptHashes |-> {e[1] : e \in Touch[b]},
     addUndos |-> Creates[b], delUndos |-> Spends[b]]

HistoryEntries(b, txNum0) == {<<e[1], txNum0 + e[2]>> : e \in Touch[b]}

(* The height whose undo record addBlock expires, or none. *)
ExpiredHeights(height, earliest) ==
    {h \in {height - mem.undoDepth} : h >= 0 /\ h >= earliest}

(* Mutant: a new record does not lower the earliest height. *)
EarliestWithForgetting(saveUndo, height) == mem.earliestUndo

EarliestWith(saveUndo, height) ==
    IF saveUndo /\ height < mem.earliestUndo THEN height ELSE mem.earliestUndo

UndosWith(b, saveUndo, height) ==
    {u \in db.undo : ~ (saveUndo /\ u.height = height)}
        \cup (IF saveUndo THEN {UndoInfo(b, height, mem.txNumNext)} ELSE {})

(* Mutant: outputs spent by the block stay in the saved counter. *)
AddedDbCountingCreatesOnly(b, saveUndo, height) ==
    [chain   |-> Append(db.chain, b),
     blkInfo |-> Append(db.blkInfo, [txNum0 |-> mem.txNumNext, nTx |-> NTx[b]]),
     txCount |-> db.txCount + NTx[b],
     utxo    |-> (db.utxo \cup Creates[b]) \ Spends[b],
     utxoCt  |-> mem.utxoCt + Cardinality(Creates[b]),
     hist    |-> db.hist \cup HistoryEntries(b, mem.txNumNext),
     undo    |-> {u \in UndosWith(b, saveUndo, height) :
                    u.height \notin ExpiredHeights(height, EarliestWith(saveUndo, height))}]

AddedDb(b, saveUndo, height) ==
    [chain   |-> Append(db.chain, b),
     blkInfo |-> Append(db.blkInfo, [txNum0 |-> mem.txNumNext, nTx |-> NTx[b]]),
     txCount |-> db.txCount + NTx[b],
     utxo    |-> (db.utxo \cup Creates[b]) \ Spends[b],
     utxoCt  |-> mem.utxoCt + Cardinality(Creates[b]) - Cardinality(Spends[b]),
     hist    |-> db.hist \cup HistoryEntries(b, mem.txNumNext),
     undo    |-> {u \in UndosWith(b, saveUndo, height) :
                    u.height \notin ExpiredHeights(height, EarliestWith(saveUndo, height))}]

AddedMem(b, saveUndo, height) ==
    LET earliest == EarliestWith(saveUndo, height)
    IN  [tip |-> b, height |-> height,
         blkInfos |-> Append(mem.blkInfos, [txNum0 |-> mem.txNumNext, nTx |-> NTx[b]]),
         txNumNext |-> mem.txNumNext + NTx[b],
         utxoCt |-> mem.utxoCt + Cardinality(Creates[b]) - Cardinality(Spends[b]),
         earliestUndo |-> IF ExpiredHeights(height, earliest) = {} THEN earliest
                          ELSE height - mem.undoDepth + 1,
         undoDepth |-> mem.undoDepth]

(***************************************************************************)
(* A block whose inputs are not all in the UTXO set, or a TxNum counter    *)
(* that disagrees with the number of records, is an InternalError: nothing *)
(* is written and the caller stops the program.                            *)
(***************************************************************************)
AddBlockChecks(b) ==
    /\ mem.txNumNext = db.txCount
    /\ Spends[b] \subseteq db.utxo

(* Mutant: a block that is announced is not synced first. *)
AddBlockUnsynced(b, saveUndo, notify) ==
    LET height == Len(db.chain)
    IN  /\ phase = "running"
        /\ height < MaxHeaders
        /\ Verifies(b)
        /\ AddBlockChecks(b)
        /\ db' = AddedDb(b, saveUndo, height)
        /\ mem' = AddedMem(b, saveUndo, height)
        /\ durable' = durable \cup {db'}
        /\ announced' = IF notify THEN db'.chain ELSE announced
        /\ UNCHANGED <<phase, latchVars, rewind>>

AddBlock(b, saveUndo, notify) ==
    LET height == Len(db.chain)
    IN  /\ phase = "running"
        /\ height < MaxHeaders
        /\ Verifies(b)
        /\ IF AddBlockChecks(b)
           THEN /\ db' = AddedDb(b, saveUndo, height)
                /\ mem' = AddedMem(b, saveUndo, height)
                /\ durable' = IF notify THEN {db'} ELSE durable \cup {db'}
                /\ announced' = IF notify THEN db'.chain ELSE announced
                /\ UNCHANGED <<phase, latchVars, rewind>>
           ELSE /\ phase' = "corrupt"
                /\ UNCHANGED <<db, durable, mem, latchVars, announced, rewind>>

-----------------------------------------------------------------------------
(* Storage::undoLatestBlock *)

UndoRecords(height) == {u \in db.undo : u.height = height}

(* UndoInfoMissing is thrown exactly when this does not hold. *)
CanUndo == mem.height > 0 /\ UndoRecords(mem.height) # {}

UndoIsSane(u) ==
    /\ u.height = mem.height
    /\ u.hash = mem.tip
    /\ mem.blkInfos # <<>>
    /\ u.height < Len(mem.blkInfos)
    /\ mem.blkInfos[Len(mem.blkInfos)] = u.blkInfo

(* Mutants of the undo batch: the spent outputs are not restored, the undo  *)
(* record is left in place, the tx counts are not truncated.                *)
UndoneDbNotRestoring(u) ==
    [chain   |-> SubSeq(db.chain, 1, u.height),
     blkInfo |-> SubSeq(db.blkInfo, 1, u.height),
     txCount |-> u.blkInfo.txNum0,
     utxo    |-> db.utxo \ u.addUndos,
     utxoCt  |-> mem.utxoCt + Cardinality(u.delUndos) - Cardinality(u.addUndos),
     hist    |-> {e \in db.hist : e[1] \in u.scriptHashes => e[2] < u.blkInfo.txNum0},
     undo    |-> {v \in db.undo : v.height # u.height}]

UndoneDbKeepingUndo(u) ==
    [chain   |-> SubSeq(db.chain, 1, u.height),
     blkInfo |-> SubSeq(db.blkInfo, 1, u.height),
     txCount |-> u.blkInfo.txNum0,
     utxo    |-> (db.utxo \cup u.delUndos) \ u.addUndos,
     utxoCt  |-> mem.utxoCt + Cardinality(u.delUndos) - Cardinality(u.addUndos),
     hist    |-> {e \in db.hist : e[1] \in u.scriptHashes => e[2] < u.blkInfo.txNum0},
     undo    |-> db.undo]

UndoneDbKeepingTxNums(u) ==
    [chain   |-> SubSeq(db.chain, 1, u.height),
     blkInfo |-> SubSeq(db.blkInfo, 1, u.height),
     txCount |-> db.txCount,
     utxo    |-> (db.utxo \cup u.delUndos) \ u.addUndos,
     utxoCt  |-> mem.utxoCt + Cardinality(u.delUndos) - Cardinality(u.addUndos),
     hist    |-> {e \in db.hist : e[1] \in u.scriptHashes => e[2] < u.blkInfo.txNum0},
     undo    |-> {v \in db.undo : v.height # u.height}]

UndoneDb(u) ==
    [chain   |-> SubSeq(db.chain, 1, u.height),
     blkInfo |-> SubSeq(db.blkInfo, 1, u.height),
     txCount |-> u.blkInfo.txNum0,
     utxo    |-> (db.utxo \cup u.delUndos) \ u.addUndos,
     utxoCt  |-> mem.utxoCt + Cardinality(u.delUndos) - Cardinality(u.addUndos),
     hist    |-> {e \in db.hist : e[1] \in u.scriptHashes => e[2] < u.blkInfo.txNum0},
     undo    |-> {v \in db.undo : v.height # u.height}]

(* Mutant: the next TxNum is not rolled back. *)
UndoneMemKeepingTxNum(u) ==
    [tip |-> db.chain[u.height], height |-> u.height - 1,
     blkInfos |-> DropLast(mem.blkInfos),
     txNumNext |-> mem.txNumNext,
     utxoCt |-> mem.utxoCt + Cardinality(u.delUndos) - Cardinality(u.addUndos),
     earliestUndo |-> IF mem.earliestUndo >= u.height THEN InvalidUndoHeight
                      ELSE mem.earliestUndo,
     undoDepth |-> mem.undoDepth]

UndoneMem(u) ==
    [tip |-> db.chain[u.height], height |-> u.height - 1,
     blkInfos |-> DropLast(mem.blkInfos),
     txNumNext |-> u.blkInfo.txNum0,
     utxoCt |-> mem.utxoCt + Cardinality(u.delUndos) - Cardinality(u.addUndos),
     earliestUndo |-> IF mem.earliestUndo >= u.height THEN InvalidUndoHeight
                      ELSE mem.earliestUndo,
     undoDepth |-> mem.undoDepth]

(* The database is always synced after an undo, whether or not it notifies. *)
UndoTip ==
    \E u \in UndoRecords(mem.height) :
        IF UndoIsSane(u)
        THEN /\ db' = UndoneDb(u)
             /\ mem' = UndoneMem(u)
             /\ durable' = {db'}
             /\ announced' = db'.chain
             /\ phase' = "running"
             /\ UNCHANGED latchVars
        ELSE /\ phase' = "corrupt"
             /\ UNCHANGED <<db, durable, mem, latchVars, announced>>

UndoLatestBlock ==
    /\ phase = "running"
    /\ CanUndo
    /\ UndoTip
    /\ UNCHANGED rewind

-----------------------------------------------------------------------------
(* Storage::startup *)

HeadersVerify(chain) ==
    \A i \in 1 .. Len(chain) :
        Parent[chain[i]] = IF i = 1 THEN NoBlock ELSE chain[i - 1]

(* loadCheckTxNumsDRAAndBlkInfo: the tx counts add up to the record count. *)
TxCountsAddUp(d) ==
    /\ Len(d.blkInfo) = Len(d.chain)
    /\ \A i \in 1 .. Len(d.blkInfo) :
         d.blkInfo[i].txNum0 = IF i = 1 THEN 0
                               ELSE d.blkInfo[i - 1].txNum0 + d.blkInfo[i - 1].nTx
    /\ d.txCount = IF d.blkInfo = <<>> THEN 0
                   ELSE d.blkInfo[Len(d.blkInfo)].txNum0 + d.blkInfo[Len(d.blkInfo)].nTx

(* loadCheckEarliestUndo: keep the newest run of consecutive heights ... *)
ContiguousUndos(undo) ==
    {u \in undo : \A v \in undo : v.height > u.height =>
        \A h \in u.height .. v.height : h \in UndoHeights(undo)}

(* ... and of those at most the newest `depth` ones. *)
TrimmedUndos(undo, depth) ==
    {u \in ContiguousUndos(undo) : \A v \in undo : v.height - u.height < depth}

(* Mutant: -1 instead of the largest value for "no undo record". *)
EarliestOfNegative(undo) ==
    IF undo = {} THEN -1
    ELSE CHOOSE h \in UndoHeights(undo) : \A k \in UndoHeights(undo) : h <= k

EarliestOf(undo) ==
    IF undo = {} THEN InvalidUndoHeight
    ELSE CHOOSE h \in UndoHeights(undo) : \A k \in UndoHeights(undo) : h <= k

LoadedMem(d, depth) ==
    [tip |-> TipOf(d.chain), height |-> Len(d.chain) - 1, blkInfos |-> d.blkInfo,
     txNumNext |-> d.txCount, utxoCt |-> d.utxoCt, earliestUndo |-> EarliestOf(d.undo),
     undoDepth |-> depth]

Startup(depth) ==
    /\ phase = "latched"
    /\ IF HeadersVerify(db.chain) /\ TxCountsAddUp(db)
       THEN /\ db' = [db EXCEPT !.undo = TrimmedUndos(db.undo, depth)]
            /\ mem' = LoadedMem(db', depth)
            /\ durable' = IF db' = db THEN durable ELSE {db'}
            /\ phase' = IF unclean THEN "unclean" ELSE "running"
       ELSE /\ phase' = "corrupt"
            /\ UNCHANGED <<db, durable, mem>>
    /\ UNCHANGED <<latchVars, announced, rewind>>

(* uncleanShutdownDetectedUndoSomeBlocks: one block, if its undo is there. *)
UncleanUndo ==
    /\ phase = "unclean"
    /\ mem.earliestUndo # InvalidUndoHeight /\ CanUndo
    /\ UndoTip
    /\ rewind' = "none"

UncleanProceed ==
    /\ phase = "unclean"
    /\ mem.earliestUndo = InvalidUndoHeight \/ ~ CanUndo
    /\ phase' = "running"
    /\ rewind' = "none"
    /\ UNCHANGED <<db, durable, mem, latchVars, announced>>

-----------------------------------------------------------------------------
(***************************************************************************)
(* App::LatchFile.  Its constructor looks for the file, removes it and     *)
(* then creates it anew; its destructor removes it, but not after a start  *)
(* that found it and did not get as far as dbSuccessfullyOpened.           *)
(***************************************************************************)

DetectLatch ==
    /\ phase = "down"
    /\ phase' = "latching"
    /\ unclean' = latch
    /\ latch' = FALSE
    /\ UNCHANGED <<db, durable, mem, announced, rewind>>

CreateLatch ==
    /\ phase = "latching"
    /\ phase' = "latched"
    /\ latch' = TRUE
    /\ UNCHANGED <<db, durable, mem, unclean, announced, rewind>>

(* Mutant: the destructor always removes the file. *)
AbortStartupForgetting ==
    /\ phase = "latched"
    /\ phase' = "down"
    /\ latch' = FALSE
    /\ UNCHANGED <<db, durable, mem, unclean, announced, rewind>>

(* Storage::startup throws before the database is open for use; the file    *)
(* stays if it was there (suppressFileDeletion).                            *)
AbortStartup ==
    /\ phase = "latched"
    /\ phase' = "down"
    /\ latch' = unclean
    /\ UNCHANGED <<db, durable, mem, unclean, announced, rewind>>

(* App::cleanup stops the Controller, whose gentlyCloseDB syncs the WAL ... *)
CloseDb ==
    /\ phase = "running"
    /\ phase' = "closed"
    /\ durable' = {db}
    /\ mem' = EmptyMem
    /\ UNCHANGED <<db, latchVars, announced, rewind>>

(* ... and destroys the LatchFile after that. *)
RemoveLatch ==
    /\ phase = "closed"
    /\ phase' = "down"
    /\ latch' = FALSE
    /\ UNCHANGED <<db, durable, mem, unclean, announced, rewind>>

(***************************************************************************)
(* A power loss or a kill, in any phase.  The database may be wound back   *)
(* to any state that is possibly durable.  A stop with the database open   *)
(* owes a rewind to the next start; if that start stops in its turn after  *)
(* it removed the file and before it created it anew (or cannot create     *)
(* it), what was owed is lost.                                             *)
(***************************************************************************)
Crash ==
    /\ phase \in {"latching", "latched", "unclean", "running", "closed"}
    /\ phase' = "down"
    /\ db' \in durable
    /\ durable' = {db'}
    /\ mem' = EmptyMem
    /\ rewind' = IF phase \in {"unclean", "running"} THEN "owed"
                 ELSE IF phase = "latching" /\ rewind = "owed" THEN "lost"
                 ELSE rewind
    /\ UNCHANGED <<latchVars, announced>>

-----------------------------------------------------------------------------

Init ==
    /\ db = EmptyDb
    /\ durable = {EmptyDb}
    /\ mem = EmptyMem
    /\ phase = "down"
    /\ latch = FALSE
    /\ unclean = FALSE
    /\ announced = <<>>
    /\ rewind = "none"

Next ==
    \/ \E b \in Blocks, saveUndo, notify \in BOOLEAN : AddBlock(b, saveUndo, notify)
    \/ UndoLatestBlock
    \/ \E depth \in UndoDepths : Startup(depth)
    \/ UncleanUndo
    \/ UncleanProceed
    \/ DetectLatch
    \/ CreateLatch
    \/ AbortStartup
    \/ CloseDb
    \/ RemoveLatch
    \/ Crash

Spec == Init /\ [][Next]_vars

-----------------------------------------------------------------------------
(* Types *)

UndoRecord ==
    [height : Nat, hash : Blocks, blkInfo : BlkInfo, scriptHashes : SUBSET ScriptHashes,
     addUndos : SUBSET TXOs, delUndos : SUBSET TXOs]

Database ==
    [chain : Seq(Blocks), blkInfo : Seq(BlkInfo), txCount : Nat, utxo : SUBSET TXOs,
     utxoCt : Int, hist : SUBSET (ScriptHashes \X Nat), undo : SUBSET UndoRecord]

Memory ==
    [tip : Tips, height : Nat \cup {-1}, blkInfos : Seq(BlkInfo), txNumNext : Nat,
     utxoCt : Int, earliestUndo : Nat, undoDepth : Nat]

Phases == {"down", "latching", "latched", "unclean", "running", "closed", "corrupt"}

DbIsOpen == phase \in {"unclean", "running"}

(* Every variable has its type: the columns of the database, every state a  *)
(* crash may bring back, and the copies in memory.                          *)
TypeOK ==
    /\ db \in Database
    /\ durable \subseteq Database
    /\ mem \in Memory
    /\ phase \in Phases
    /\ latch \in BOOLEAN /\ unclean \in BOOLEAN
    /\ announced \in Seq(Blocks)
    /\ rewind \in {"none", "owed", "lost"}

-----------------------------------------------------------------------------
(* Properties *)

ChainIsLinked(chain) == HeadersVerify(chain)

IndexIsReplayOf(d) ==
    /\ ChainIsLinked(d.chain)
    /\ Len(d.blkInfo) = Len(d.chain)
    /\ \A i \in 1 .. Len(d.chain) :
         d.blkInfo[i] = [txNum0 |-> TxNum0[d.chain[i]], nTx |-> NTx[d.chain[i]]]
    /\ d.txCount = IF d.chain = <<>> THEN 0
                   ELSE TxNum0[TipOf(d.chain)] + NTx[TipOf(d.chain)]
    /\ d.utxo = UtxoAt[TipOf(d.chain)]
    /\ d.hist = HistAt[TipOf(d.chain)]

(* Whatever sequence of addBlock, undoLatestBlock, restarts and crashes led  *)
(* to it, the database - and each state of it a crash may bring back - holds *)
(* exactly what replaying its header list from scratch would have produced.  *)
IndexIsReplay == \A d \in durable \cup {db} : IndexIsReplayOf(d)

UndoMatchesChainOf(d) ==
    /\ \A u \in d.undo :
         /\ u.height < Len(d.chain)
         /\ u = UndoInfo(d.chain[u.height + 1], u.height, TxNum0[d.chain[u.height + 1]])
    /\ \A u, v \in d.undo : u.height = v.height => u = v

(* Every undo record, the leftover ones below a gap included, describes the  *)
(* block that the header list has at that height: none survives a reorg that *)
(* replaced its block.                                                       *)
UndoMatchesChain == \A d \in durable \cup {db} : UndoMatchesChainOf(d)

(* The load checks of startup, the sanity check of undoLatestBlock and the   *)
(* internal checks of addBlock never fail on a database this code wrote.     *)
NeverCorrupt == phase # "corrupt"

(* The header verifier's tip and height, blkInfos, txNumNext and utxoCt are  *)
(* updated in place by addBlock and undoLatestBlock: they are what a restart *)
(* at this moment would load from the database.  earliestUndoHeight is not   *)
(* among them: after a gap in the undo records a restart drops the older     *)
(* ones and loads a larger value.                                            *)
CopiesMatchDatabase ==
    DbIsOpen =>
        /\ mem.tip = TipOf(db.chain)
        /\ mem.height = Len(db.chain) - 1
        /\ mem.blkInfos = db.blkInfo
        /\ mem.txNumNext = db.txCount
        /\ mem.utxoCt = db.utxoCt

(* earliestUndoHeight decides which record addBlock deletes.  No record that *)
(* is still within max_reorg of the tip lies below it, whatever blocks were  *)
(* added without a record, undone or added again: each of them is deleted    *)
(* when it leaves the window.                                                *)
EveryUndoWillExpire ==
    DbIsOpen => \A u \in db.undo :
        u.height >= Len(db.chain) - mem.undoDepth => u.height >= mem.earliestUndo

(* The counter saved with every batch (saveUtxoCt) is the number of entries  *)
(* of the UTXO set, across reorgs and crashes.                               *)
UtxoCtIsExact == \A d \in durable \cup {db} : d.utxoCt = Cardinality(d.utxo)

(* Once subscribers were notified of a block, or an undo returned, no crash  *)
(* takes the database back behind that point.                                *)
AnnouncedIsDurable ==
    \A d \in durable :
        /\ Len(announced) <= Len(d.chain)
        /\ announced = SubSeq(d.chain, 1, Len(announced))

(* A run that was stopped with the database open is followed by a run that  *)
(* finds the latch file and tries to undo a block, also when starts that did *)
(* not get that far, or were stopped themselves, lie in between.  The one    *)
(* gap is named in `rewind`: a stop between the removal of the file and its  *)
(* creation, in the constructor of LatchFile.                                *)
UncleanStopIsRewound == phase = "running" => rewind # "owed"

-----------------------------------------------------------------------------
(* Refinement *)

Abstract == INSTANCE HeaderChain WITH
    chain <- db.chain, undoHts <- UndoHeights(db.undo), earliest <- mem.earliestUndo,
    depth <- mem.undoDepth, up <- DbIsOpen

(* The database with its memory copies implements the header list that the   *)
(* Controller works with: one block more, one block less when its undo       *)
(* record exists, a crash that keeps a prefix, a startup that trims undos.   *)
ImplementsHeaderChain == Abstract!Spec
=============================================================================
