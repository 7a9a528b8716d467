------------------------------- MODULE TxHashCaches -------------------------------
(***************************************************************************)
(* The two caches of Storage that client threads fill from the file of     *)
(* transaction hashes: lruNum2Hash (a TxNum to its hash) and               *)
(* lruHeight2Hashes_BitcoindMemOrder (a height to the hashes of its        *)
(* block).  The Controller's thread adds and undoes blocks under blocksLock *)
(* and blkInfoLock; an undo recycles the TxNums of the block.              *)
(***************************************************************************)
EXTENDS Integers, Sequences, FiniteSets, Functions

CONSTANTS
    Readers,       \* client threads
    BlockSizes,    \* possible numbers of transactions of a block
    MaxHeight,     \* bound on the number of blocks in the chain
    MaxBlocks,     \* bound on the number of blocks ever added
    NumCap,        \* entries that fit into lruNum2Hash
    HeightCap      \* entries that fit into lruHeight2Hashes_BitcoindMemOrder

ASSUME CacheConstants ==
    /\ BlockSizes \subseteq Nat \ {0} /\ \E n \in BlockSizes : \A k \in BlockSizes : k <= n
    /\ MaxHeight \in Nat /\ MaxBlocks \in Nat
    /\ NumCap \in Nat \ {0} /\ HeightCap \in Nat \ {0}

VARIABLES
    made,      \* blocks added so far, of any branch
    blkInfos,  \* txNum0 and nTx by height, with the block they belong to
    txNums,    \* the transaction hashes in the database, by TxNum
    nRecs,     \* DBRecordArray::nRecs of txNums
    ctl,       \* where the Controller's thread is, with all locks unless idle
    num2Hash, height2Hashes,   \* the caches, as functions on what they hold
    rd         \* local variables of the client threads

chainVars == <<made, blkInfos, txNums, nRecs, ctl>>
cacheVars == <<num2Hash, height2Hashes>>
vars == <<chainVars, cacheVars, rd>>

TxHash(id, k) == <<id, k>>
HashesOf(bi) == [k \in 1 .. bi.nTx |-> TxHash(bi.id, k - 1)]

(* CostCache: what does not fit is purged; which entries are the least       *)
(* recently used is left open.                                               *)
Inserts(c, k, v, cap) ==
    {f \in {[x \in keep \cup {k} |-> IF x = k THEN v ELSE c[x]] : keep \in SUBSET DOMAIN c} :
        /\ Cardinality(DOMAIN f) <= cap
        /\ Cardinality(DOMAIN c \cup {k}) <= cap => DOMAIN c \subseteq DOMAIN f}

(* blocksLock and blkInfoLock are held exclusively unless ctl is idle. *)
Unlocked == ctl = "idle"

(* DBRecordArray::readRecord(s): within nRecs and in the database. *)
CanRead(n, count) == n + count <= nRecs /\ n + count <= Len(txNums)

NoInfo == [id |-> 0, txNum0 |-> 0, nTx |-> 0]
Idle == [pc |-> "idle", height |-> 0, pos |-> 0, bi |-> NoInfo, ret |-> <<>>]
Waiting(r) == rd[r].pc \in {"idle", "done"}

-----------------------------------------------------------------------------
(* hashForHeightAndPos, hashesForHeightAndPosVec, hashForTxNum: blocksLock   *)
(* is held shared until the answer.                                          *)

(* Mutant: the guard is a temporary here too. *)
HoldsNoLock(r) == FALSE

HoldsBlocksLock(r) == rd[r].pc \in {"lookup", "read", "insert"}

hashForHeightAndPos(r, height, pos) ==
    /\ Waiting(r)
    /\ Unlocked
    /\ rd' = [rd EXCEPT ![r] =
                  IF height < Len(blkInfos) /\ pos < blkInfos[height + 1].nTx
                  THEN [Idle EXCEPT !.pc = "lookup", !.height = height, !.pos = pos,
                                    !.bi = blkInfos[height + 1]]
                  ELSE Idle]
    /\ UNCHANGED <<chainVars, cacheVars>>

txNumOf(r) == rd[r].bi.txNum0 + rd[r].pos

LookupNum(r) ==
    /\ rd[r].pc = "lookup"
    /\ rd' = [rd EXCEPT ![r] = IF txNumOf(r) \in DOMAIN num2Hash
                               THEN [@ EXCEPT !.pc = "done", !.ret = num2Hash[txNumOf(r)]]
                               ELSE [@ EXCEPT !.pc = "read"]]
    /\ UNCHANGED <<chainVars, cacheVars>>

(* A record that cannot be read is an error, reported to the client. *)
ReadNum(r) ==
    /\ rd[r].pc = "read"
    /\ rd' = [rd EXCEPT ![r] = IF CanRead(txNumOf(r), 1)
                               THEN [@ EXCEPT !.pc = "insert", !.ret = txNums[txNumOf(r) + 1]]
                               ELSE Idle]
    /\ UNCHANGED <<chainVars, cacheVars>>

InsertNum(r) ==
    /\ rd[r].pc = "insert"
    /\ num2Hash' \in Inserts(num2Hash, txNumOf(r), rd[r].ret, NumCap)
    /\ rd' = [rd EXCEPT ![r].pc = "done"]
    /\ UNCHANGED <<chainVars, height2Hashes>>

-----------------------------------------------------------------------------
(* txHashesForBlockInBitcoindMemoryOrder: its guard of blocksLock is a       *)
(* temporary, gone at the end of the statement that makes it.                *)

LookupHeight(r, height) ==
    /\ Waiting(r)
    /\ Unlocked
    /\ rd' = [rd EXCEPT ![r] = IF height \in DOMAIN height2Hashes THEN Idle
                               ELSE [Idle EXCEPT !.pc = "info", !.height = height]]
    /\ UNCHANGED <<chainVars, cacheVars>>

GetBlkInfo(r) ==
    /\ rd[r].pc = "info"
    /\ Unlocked
    /\ rd' = [rd EXCEPT ![r] = IF rd[r].height < Len(blkInfos)
                               THEN [@ EXCEPT !.pc = "readblock", !.bi = blkInfos[rd[r].height + 1]]
                               ELSE Idle]
    /\ UNCHANGED <<chainVars, cacheVars>>

ReadBlock(r) ==
    LET bi == rd[r].bi
    IN  /\ rd[r].pc = "readblock"
        /\ rd' = [rd EXCEPT ![r] =
                      IF CanRead(bi.txNum0, bi.nTx)
                      THEN [@ EXCEPT !.pc = "insertblock",
                                     !.ret = SubSeq(txNums, bi.txNum0 + 1, bi.txNum0 + bi.nTx)]
                      ELSE Idle]
        /\ UNCHANGED <<chainVars, cacheVars>>

InsertHeight(r) ==
    /\ rd[r].pc = "insertblock"
    /\ height2Hashes' \in Inserts(height2Hashes, rd[r].height, rd[r].ret, HeightCap)
    /\ rd' = [rd EXCEPT ![r] = Idle]
    /\ UNCHANGED <<chainVars, num2Hash>>

-----------------------------------------------------------------------------
(* addBlock and undoLatestBlock *)

CanLock == Unlocked /\ \A r \in Readers : ~ HoldsBlocksLock(r)

(* The counts in memory are ahead of the database until the batch is written. *)
addBlock(nTx) ==
    /\ CanLock
    /\ made < MaxBlocks
    /\ Len(blkInfos) < MaxHeight
    /\ made' = made + 1
    /\ blkInfos' = Append(blkInfos, [id |-> made + 1, txNum0 |-> nRecs, nTx |-> nTx])
    /\ nRecs' = nRecs + nTx
    /\ ctl' = "add"
    /\ UNCHANGED <<txNums, cacheVars, rd>>

WriteAdd ==
    /\ ctl = "add"
    /\ txNums' = txNums \o HashesOf(blkInfos[Len(blkInfos)])
    /\ ctl' = "idle"
    /\ UNCHANGED <<made, blkInfos, nRecs, cacheVars, rd>>

(* Mutant: the TxNums are recycled but stay in the cache. *)
undoWithoutClear ==
    /\ CanLock
    /\ Len(blkInfos) > 1
    /\ blkInfos' = SubSeq(blkInfos, 1, Len(blkInfos) - 1)
    /\ height2Hashes' = Restrict(height2Hashes, DOMAIN height2Hashes \ {Len(blkInfos) - 1})
    /\ ctl' = "undo"
    /\ UNCHANGED <<made, txNums, nRecs, num2Hash, rd>>

undoLatestBlock ==
    /\ CanLock
    /\ Len(blkInfos) > 1
    /\ blkInfos' = SubSeq(blkInfos, 1, Len(blkInfos) - 1)
    /\ num2Hash' = << >>
    /\ height2Hashes' = Restrict(height2Hashes, DOMAIN height2Hashes \ {Len(blkInfos) - 1})
    /\ ctl' = "undo"
    /\ UNCHANGED <<made, txNums, nRecs, rd>>

TruncateTxNums ==
    /\ ctl = "undo"
    /\ nRecs' = blkInfos[Len(blkInfos)].txNum0 + blkInfos[Len(blkInfos)].nTx
    /\ ctl' = "truncated"
    /\ UNCHANGED <<made, blkInfos, txNums, cacheVars, rd>>

WriteUndo ==
    /\ ctl = "truncated"
    /\ txNums' = SubSeq(txNums, 1, nRecs)
    /\ ctl' = "idle"
    /\ UNCHANGED <<made, blkInfos, nRecs, cacheVars, rd>>

-----------------------------------------------------------------------------

Init ==
    /\ made = 1 /\ ctl = "idle" /\ nRecs = 1
    /\ blkInfos = <<[id |-> 1, txNum0 |-> 0, nTx |-> 1]>>
    /\ txNums = HashesOf(blkInfos[1])
    /\ num2Hash = << >> /\ height2Hashes = << >>
    /\ rd = [r \in Readers |-> Idle]

Positions == 0 .. CHOOSE n \in BlockSizes : \A k \in BlockSizes : k <= n

Next ==
    \/ \E r \in Readers :
           \/ \E height \in 0 .. MaxHeight, pos \in Positions : hashForHeightAndPos(r, height, pos)
           \/ LookupNum(r)
           \/ ReadNum(r)
           \/ InsertNum(r)
           \/ \E height \in 0 .. MaxHeight : LookupHeight(r, height)
           \/ GetBlkInfo(r)
           \/ ReadBlock(r)
           \/ InsertHeight(r)
    \/ \E nTx \in BlockSizes : addBlock(nTx)
    \/ WriteAdd
    \/ undoLatestBlock
    \/ TruncateTxNums
    \/ WriteUndo

Spec == Init /\ [][Next]_vars

-----------------------------------------------------------------------------
(* Properties *)

(* lruNum2Hash never holds a hash that the database does not have under the  *)
(* same TxNum, although an undo recycles the TxNums of its block.            *)
NumCacheIsRight ==
    \A n \in DOMAIN num2Hash : n < Len(txNums) /\ num2Hash[n] = txNums[n + 1]

(* hashForHeightAndPos returns the transaction that the block at this height *)
(* of the present chain has at this position.                                *)
PosAnswersAreRight ==
    [][\A r \in Readers : rd[r].pc \in {"lookup", "insert"} /\ rd'[r].pc = "done" =>
          /\ rd[r].height < Len(blkInfos)
          /\ rd'[r].ret = TxHash(blkInfos[rd[r].height + 1].id, rd[r].pos)]_vars

(* txHashesForBlockInBitcoindMemoryOrder on its lock: "guarantee a           *)
(* consistent view (so that data doesn't mutate from underneath us)".        *)
(* What the cache answers for a height of the present chain is its block.    *)
HeightCacheIsRight ==
    Unlocked => \A h \in DOMAIN height2Hashes :
                    h < Len(blkInfos) => height2Hashes[h] = HashesOf(blkInfos[h + 1])
=============================================================================
