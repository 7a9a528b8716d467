---------------------------- MODULE ChainStoreProofs ----------------------------
(***************************************************************************)
(* Proofs about ChainStore, for every block tree, every set of max_reorg   *)
(* values and every length of the header list.                             *)
(***************************************************************************)
EXTENDS ChainStore, FiniteSetTheorems, WellFoundedInduction, TLAPS

DbOK(d) ==
    /\ d \in Database
    /\ IndexIsReplayOf(d)
    /\ UndoMatchesChainOf(d)

(***************************************************************************)
(* The inductive invariant.  IndexIsReplay alone is not inductive: an undo *)
(* restores the previous index only if its record describes the tip block  *)
(* (UndoMatchesChain), and an addBlock assigns the right TxNums only if    *)
(* the counters in memory agree with the database.                         *)
(***************************************************************************)
IInv ==
    /\ TypeOK
    /\ \A d \in durable \cup {db} : DbOK(d)
    /\ NeverCorrupt
    /\ CopiesMatchDatabase

-----------------------------------------------------------------------------

(* The tip of a non-empty typed chain is a block, that of any chain a Tip. *)
LEMMA TipType ==
    ASSUME NEW chain \in Seq(Blocks)
    PROVE  /\ TipOf(chain) \in Tips
           /\ chain # <<>> => /\ TipOf(chain) = chain[Len(chain)]
                              /\ TipOf(chain) \in Blocks
                              /\ Len(chain) > 0
           /\ chain = <<>> => TipOf(chain) = NoBlock
BY DEF TipOf, Tips

(* What appending a block does to the list it is appended to. *)
LEMMA AppendFacts ==
    ASSUME NEW S, NEW s \in Seq(S), NEW e \in S
    PROVE  /\ Append(s, e) \in Seq(S)
           /\ Append(s, e) # <<>>
           /\ Len(Append(s, e)) = Len(s) + 1
           /\ Append(s, e)[Len(s) + 1] = e
           /\ \A i \in 1 .. Len(s) : Append(s, e)[i] = s[i]
OBVIOUS

(* What cutting a list down to its first n elements does. *)
LEMMA PrefixFacts ==
    ASSUME NEW S, NEW s \in Seq(S), NEW n \in 0 .. Len(s)
    PROVE  /\ SubSeq(s, 1, n) \in Seq(S)
           /\ Len(SubSeq(s, 1, n)) = n
           /\ \A i \in 1 .. n : SubSeq(s, 1, n)[i] = s[i]
OBVIOUS

(* The undo record of a block has the type of an undo record. *)
LEMMA UndoInfoType ==
    ASSUME NEW b \in Blocks, NEW h \in Nat, NEW n \in Nat
    PROVE  UndoInfo(b, h, n) \in UndoRecord
BY BlockTree DEF UndoInfo, UndoRecord, BlkInfo

(* The counter of unspent outputs stays an integer. *)
LEMMA CardinalityIsNat ==
    ASSUME NEW b \in Blocks
    PROVE  /\ Cardinality(Creates[b]) \in Nat
           /\ Cardinality(Spends[b]) \in Nat
BY BlockTree, FS_CardinalityType

-----------------------------------------------------------------------------
(* addBlock *)

(* addBlock takes an index that is the replay of its header list to the     *)
(* index that is the replay of the extended list, and keeps undo records    *)
(* that match it.                                                           *)
LEMMA AddPreservesDbOK ==
    ASSUME TypeOK, DbOK(db), phase = "running", CopiesMatchDatabase,
           NEW b \in Blocks, NEW saveUndo \in BOOLEAN, Verifies(b)
    PROVE  /\ DbOK(AddedDb(b, saveUndo, Len(db.chain)))
           /\ AddBlockChecks(b)
<1> DEFINE h == Len(db.chain)
           d == AddedDb(b, saveUndo, h)
<1>1. /\ db \in Database /\ mem \in Memory
      /\ db.chain \in Seq(Blocks) /\ db.blkInfo \in Seq(BlkInfo) /\ h \in Nat
      /\ mem.txNumNext = db.txCount /\ db.txCount \in Nat /\ mem.tip = TipOf(db.chain)
      /\ Parent[b] = TipOf(db.chain)
  BY DEF TypeOK, Database, Memory, CopiesMatchDatabase, DbIsOpen, Verifies
<1>2. /\ IndexIsReplayOf(db) /\ UndoMatchesChainOf(db)
  BY DEF DbOK
<1>3. mem.txNumNext = TxNum0[b]
  <2>1. CASE db.chain = <<>>
    BY <2>1, <1>1, <1>2, TipType, LedgerTruth DEF IndexIsReplayOf
  <2>2. CASE db.chain # <<>>
    <3>1. TipOf(db.chain) \in Blocks /\ TipOf(db.chain) # NoBlock
      BY <2>2, <1>1, TipType, BlockTree
    <3> QED BY <3>1, <2>2, <1>1, <1>2, LedgerTruth DEF IndexIsReplayOf
  <2> QED BY <2>1, <2>2
<1>4. AddBlockChecks(b)
  BY <1>1, <1>2, LedgerTruth DEF AddBlockChecks, IndexIsReplayOf
<1> DEFINE info == [txNum0 |-> mem.txNumNext, nTx |-> NTx[b]]
<1>5. info \in BlkInfo /\ NTx[b] \in Nat
  BY <1>1, BlockTree DEF BlkInfo
<1>6. /\ d.chain = Append(db.chain, b) /\ d.chain \in Seq(Blocks)
      /\ Len(d.chain) = h + 1 /\ d.chain # <<>>
      /\ d.chain[h + 1] = b /\ \A i \in 1 .. h : d.chain[i] = db.chain[i]
  BY <1>1, AppendFacts DEF AddedDb
<1>7. TipOf(d.chain) = b
  BY <1>6, <1>1 DEF TipOf
<1>8. /\ d.blkInfo = Append(db.blkInfo, info) /\ d.blkInfo \in Seq(BlkInfo)
      /\ Len(d.blkInfo) = Len(db.blkInfo) + 1
      /\ d.blkInfo[Len(db.blkInfo) + 1] = info
      /\ \A i \in 1 .. Len(db.blkInfo) : d.blkInfo[i] = db.blkInfo[i]
  BY <1>1, <1>5, AppendFacts DEF AddedDb
<1>9. HistoryEntries(b, mem.txNumNext) \subseteq ScriptHashes \X Nat
  BY <1>1, BlockTree DEF HistoryEntries
<1>10. UndosWith(b, saveUndo, h) \subseteq UndoRecord
  BY <1>1, UndoInfoType DEF UndosWith, Database
<1>11. d \in Database
  <2>1. d.txCount \in Nat
    BY <1>1, <1>5 DEF AddedDb
  <2>2. d.utxo \in SUBSET TXOs
    BY <1>1, BlockTree DEF AddedDb, Database
  <2>3. d.utxoCt \in Int
    BY <1>1, CardinalityIsNat DEF AddedDb, Memory
  <2>4. d.hist \in SUBSET (ScriptHashes \X Nat)
    BY <1>1, <1>9 DEF AddedDb, Database
  <2>5. d.undo \in SUBSET UndoRecord
    BY <1>10 DEF AddedDb
  <2> QED BY <1>6, <1>8, <2>1, <2>2, <2>3, <2>4, <2>5 DEF AddedDb, Database
<1>12. IndexIsReplayOf(d)
  <2>1. ChainIsLinked(d.chain)
    <3> SUFFICES ASSUME NEW i \in 1 .. Len(d.chain)
                 PROVE Parent[d.chain[i]] = IF i = 1 THEN NoBlock ELSE d.chain[i - 1]
      BY DEF ChainIsLinked, HeadersVerify
    <3>1. CASE i <= h
      BY <3>1, <1>1, <1>2, <1>6 DEF IndexIsReplayOf, ChainIsLinked, HeadersVerify
    <3>2. CASE i = h + 1
      BY <3>2, <1>1, <1>6, TipType DEF TipOf
    <3> QED BY <3>1, <3>2, <1>1, <1>6
  <2>2. Len(d.blkInfo) = Len(d.chain)
    BY <1>2, <1>6, <1>8 DEF IndexIsReplayOf
  <2>3. ASSUME NEW i \in 1 .. Len(d.chain)
        PROVE d.blkInfo[i] = [txNum0 |-> TxNum0[d.chain[i]], nTx |-> NTx[d.chain[i]]]
    <3>1. Len(db.blkInfo) = h
      BY <1>2 DEF IndexIsReplayOf
    <3>2. CASE i <= h
      BY <3>1, <3>2, <1>1, <1>2, <1>6, <1>8 DEF IndexIsReplayOf
    <3>3. CASE i = h + 1
      BY <3>1, <3>3, <1>1, <1>3, <1>6, <1>8
    <3> QED BY <3>2, <3>3, <1>1, <1>6
  <2>4. d.txCount = TxNum0[b] + NTx[b]
    BY <1>1, <1>3 DEF AddedDb
  <2>5. d.utxo = UtxoAt[b]
    <3>1. db.utxo = UtxoAt[Parent[b]]
      BY <1>1, <1>2 DEF IndexIsReplayOf
    <3>2. Creates[b] \cap Spends[b] = {}
      BY LedgerTruth
    <3> QED BY <3>1, <3>2, LedgerTruth DEF AddedDb
  <2>6. d.hist = HistAt[b]
    BY <1>1, <1>2, <1>3, LedgerTruth DEF AddedDb, IndexIsReplayOf, HistoryEntries
  <2> QED BY <1>6, <1>7, <2>1, <2>2, <2>3, <2>4, <2>5, <2>6 DEF IndexIsReplayOf
<1>13. UndoMatchesChainOf(d)
  <2>1. ASSUME NEW u \in d.undo
        PROVE  \/ u \in db.undo /\ u.height < h
               \/ u = UndoInfo(b, h, TxNum0[b])
    BY <1>2, <1>3 DEF AddedDb, UndosWith, UndoMatchesChainOf
  <2>2. UndoInfo(b, h, TxNum0[b]).height = h
    BY DEF UndoInfo
  <2>3. ASSUME NEW u \in d.undo
        PROVE  /\ u.height < Len(d.chain)
               /\ u = UndoInfo(d.chain[u.height + 1], u.height, TxNum0[d.chain[u.height + 1]])
    <3>1. CASE u \in db.undo /\ u.height < h
      <4>1. u.height \in Nat
        BY <3>1, <1>1 DEF Database, UndoRecord
      <4> QED BY <4>1, <3>1, <1>1, <1>2, <1>6 DEF UndoMatchesChainOf
    <3>2. CASE u = UndoInfo(b, h, TxNum0[b])
      BY <3>2, <2>2, <1>1, <1>6
    <3> QED BY <2>1, <3>1, <3>2
  <2>4. ASSUME NEW u \in d.undo, NEW v \in d.undo, u.height = v.height
        PROVE  u = v
    BY <2>1, <2>2, <2>4, <1>1, <1>2 DEF UndoMatchesChainOf
  <2> QED BY <2>3, <2>4 DEF UndoMatchesChainOf
<1> QED BY <1>4, <1>11, <1>12, <1>13 DEF DbOK

(* After addBlock the copies in memory have their types and agree with the  *)
(* database again.                                                          *)
LEMMA AddKeepsMemory ==
    ASSUME TypeOK, phase = "running", CopiesMatchDatabase,
           NEW b \in Blocks, NEW saveUndo \in BOOLEAN
    PROVE  LET d == AddedDb(b, saveUndo, Len(db.chain))
               m == AddedMem(b, saveUndo, Len(db.chain))
           IN  /\ m \in Memory
               /\ m.tip = TipOf(d.chain) /\ m.height = Len(d.chain) - 1
               /\ m.blkInfos = d.blkInfo /\ m.txNumNext = d.txCount
               /\ m.utxoCt = d.utxoCt
<1> DEFINE h == Len(db.chain)
           d == AddedDb(b, saveUndo, h)
           m == AddedMem(b, saveUndo, h)
           info == [txNum0 |-> mem.txNumNext, nTx |-> NTx[b]]
<1>1. /\ mem \in Memory /\ db.chain \in Seq(Blocks) /\ h \in Nat
      /\ mem.txNumNext \in Nat /\ mem.undoDepth \in Nat /\ mem.earliestUndo \in Nat
      /\ mem.blkInfos \in Seq(BlkInfo) /\ NTx[b] \in Nat
      /\ mem.blkInfos = db.blkInfo /\ mem.txNumNext = db.txCount
      /\ mem.utxoCt \in Int
  BY BlockTree DEF TypeOK, Database, Memory, CopiesMatchDatabase, DbIsOpen
<1>2. info \in BlkInfo
  BY <1>1 DEF BlkInfo
<1>3. /\ Append(mem.blkInfos, info) \in Seq(BlkInfo)
      /\ d.chain = Append(db.chain, b) /\ Len(d.chain) = h + 1 /\ d.chain # <<>>
      /\ d.chain[h + 1] = b
  BY <1>1, <1>2, AppendFacts DEF AddedDb
<1>4. TipOf(d.chain) = b
  BY <1>1, <1>3 DEF TipOf
<1>5. m.earliestUndo \in Nat
  <2>1. EarliestWith(saveUndo, h) \in Nat
    BY <1>1 DEF EarliestWith
  <2>2. ASSUME ExpiredHeights(h, EarliestWith(saveUndo, h)) # {}
        PROVE  h - mem.undoDepth + 1 \in Nat
    BY <2>2, <1>1 DEF ExpiredHeights
  <2> QED BY <2>1, <2>2, <1>1 DEF AddedMem, Memory
<1>8. m.utxoCt \in Int
  BY <1>1, CardinalityIsNat DEF AddedMem
<1>6. m \in Memory
  BY <1>1, <1>3, <1>5, <1>8, SMTT(30) DEF AddedMem, Memory, Tips
<1>7. /\ m.tip = b /\ m.height = h /\ m.blkInfos = d.blkInfo /\ m.txNumNext = d.txCount
      /\ m.utxoCt = d.utxoCt
  BY <1>1 DEF AddedMem, AddedDb, Memory
<1> QED BY <1>1, <1>3, <1>4, <1>6, <1>7

-----------------------------------------------------------------------------
(* undoLatestBlock *)

(* The undo record of the tip passes the sanity check, and applying it      *)
(* yields the index that is the replay of the shortened header list.        *)
LEMMA UndoPreservesDbOK ==
    ASSUME TypeOK, DbOK(db), phase \in {"unclean", "running"}, CopiesMatchDatabase,
           mem.height > 0, NEW u \in UndoRecords(mem.height)
    PROVE  /\ UndoIsSane(u)
           /\ DbOK(UndoneDb(u))
           /\ UndoneMem(u) \in Memory
           /\ UndoneMem(u).tip = TipOf(UndoneDb(u).chain)
           /\ UndoneMem(u).height = Len(UndoneDb(u).chain) - 1
           /\ UndoneMem(u).blkInfos = UndoneDb(u).blkInfo
           /\ UndoneMem(u).txNumNext = UndoneDb(u).txCount
           /\ UndoneMem(u).utxoCt = UndoneDb(u).utxoCt
<1> DEFINE n == u.height
           d == UndoneDb(u)
           m == UndoneMem(u)
           b == db.chain[n + 1]
<1>1. /\ db \in Database /\ mem \in Memory /\ u \in db.undo /\ u \in UndoRecord
      /\ n \in Nat /\ n = mem.height /\ n > 0
      /\ db.chain \in Seq(Blocks) /\ db.blkInfo \in Seq(BlkInfo)
      /\ mem.blkInfos \in Seq(BlkInfo) /\ db.hist \subseteq ScriptHashes \X Nat
  BY DEF TypeOK, Database, Memory, UndoRecords, UndoRecord
<1>2. /\ Len(db.chain) = n + 1 /\ mem.tip = TipOf(db.chain)
      /\ mem.blkInfos = db.blkInfo /\ mem.txNumNext = db.txCount
  BY <1>1 DEF CopiesMatchDatabase, DbIsOpen
<1>3. IndexIsReplayOf(db) /\ UndoMatchesChainOf(db)
  BY DEF DbOK
<1>4. /\ TipOf(db.chain) = b /\ b \in Blocks /\ db.chain[n] \in Blocks
      /\ Parent[b] = db.chain[n] /\ db.chain[n] # NoBlock
  <2>1. db.chain # <<>> /\ n + 1 \in 1 .. Len(db.chain) /\ n \in 1 .. Len(db.chain)
    BY <1>1, <1>2
  <2>2. TipOf(db.chain) = b
    BY <2>1, <1>2 DEF TipOf
  <2>3. b \in Blocks /\ db.chain[n] \in Blocks /\ db.chain[n] # NoBlock
    BY <2>1, <1>1, BlockTree
  <2>4. \A i \in 1 .. Len(db.chain) :
            Parent[db.chain[i]] = IF i = 1 THEN NoBlock ELSE db.chain[i - 1]
    BY <1>3 DEF IndexIsReplayOf, ChainIsLinked, HeadersVerify
  <2>5. Parent[b] = db.chain[n]
    BY <2>1, <2>4, <1>1
  <2> QED BY <2>2, <2>3, <2>5
<1>5. u = UndoInfo(b, n, TxNum0[b])
  BY <1>1, <1>3 DEF UndoMatchesChainOf
<1>6. /\ u.hash = b /\ u.blkInfo = [txNum0 |-> TxNum0[b], nTx |-> NTx[b]]
      /\ u.blkInfo.txNum0 = TxNum0[b]
      /\ u.scriptHashes = {e[1] : e \in Touch[b]}
      /\ u.addUndos = Creates[b] /\ u.delUndos = Spends[b]
  BY <1>5 DEF UndoInfo
<1>7. Len(db.blkInfo) = n + 1 /\ db.blkInfo[n + 1] = u.blkInfo
  BY <1>1, <1>2, <1>3, <1>6 DEF IndexIsReplayOf
<1>8. UndoIsSane(u)
  BY <1>1, <1>2, <1>4, <1>6, <1>7 DEF UndoIsSane
<1>9. /\ d.chain \in Seq(Blocks) /\ Len(d.chain) = n
      /\ \A i \in 1 .. n : d.chain[i] = db.chain[i]
  BY <1>1, <1>2, PrefixFacts DEF UndoneDb
<1>10. /\ d.blkInfo = SubSeq(db.blkInfo, 1, n) /\ d.blkInfo \in Seq(BlkInfo)
       /\ Len(d.blkInfo) = n /\ \A i \in 1 .. n : d.blkInfo[i] = db.blkInfo[i]
  BY <1>1, <1>7, PrefixFacts DEF UndoneDb
<1>11. d.chain # <<>> /\ TipOf(d.chain) = Parent[b] /\ TipOf(d.chain) = db.chain[n]
  <2> HIDE DEF d
  <2>1. d.chain # <<>>
    BY <1>1, <1>9
  <2>2. d.chain[Len(d.chain)] = db.chain[n]
    BY <1>1, <1>9
  <2> QED BY <2>1, <2>2, <1>4 DEF TipOf
<1>12. d.txCount = TxNum0[b] /\ TxNum0[b] \in Nat
       /\ TxNum0[b] = TxNum0[Parent[b]] + NTx[Parent[b]]
  BY <1>4, <1>6, LedgerTruth DEF UndoneDb
<1>13. d \in Database
  <2>1. d.utxo \in SUBSET TXOs
    BY <1>1 DEF UndoneDb, Database, UndoRecord
  <2>2. d.utxoCt \in Int
    <3>1. Cardinality(u.delUndos) \in Nat /\ Cardinality(u.addUndos) \in Nat
      BY <1>4, <1>6, CardinalityIsNat
    <3>2. mem.utxoCt \in Int
      BY <1>1 DEF Memory
    <3> QED BY <3>1, <3>2 DEF UndoneDb
  <2>3. d.hist \in SUBSET (ScriptHashes \X Nat) /\ d.undo \in SUBSET UndoRecord
    BY <1>1 DEF UndoneDb, Database
  <2> QED BY <1>9, <1>10, <1>12, <2>1, <2>2, <2>3 DEF UndoneDb, Database
<1>14. d.utxo = UtxoAt[Parent[b]]
  <2>1. db.utxo = UtxoAt[b]
    BY <1>3, <1>4 DEF IndexIsReplayOf
  <2> QED BY <2>1, <1>4, <1>6, LedgerTruth DEF UndoneDb
<1>15. d.hist = HistAt[Parent[b]]
  <2>1. db.hist = HistAt[Parent[b]] \cup {<<e[1], TxNum0[b] + e[2]>> : e \in Touch[b]}
    <3>1. db.hist = HistAt[b]
      BY <1>3, <1>4 DEF IndexIsReplayOf
    <3> HIDE DEF b
    <3> QED BY <3>1, <1>4, LedgerTruth
  <2>2. d.hist = {e \in db.hist : e[1] \in {t[1] : t \in Touch[b]} => e[2] < TxNum0[b]}
    BY <1>6 DEF UndoneDb
  <2>3. ASSUME NEW e \in HistAt[Parent[b]] PROVE e \in d.hist
    BY <2>1, <2>2, <1>4, LedgerTruth
  <2>4. ASSUME NEW e \in d.hist PROVE e \in HistAt[Parent[b]]
    <3> SUFFICES ASSUME NEW t \in Touch[b], e = <<t[1], TxNum0[b] + t[2]>> PROVE FALSE
      BY <2>1, <2>2
    <3>1. t[2] \in Nat
      BY <1>4, BlockTree
    <3>2. e[1] = t[1] /\ e[2] = TxNum0[b] + t[2]
      OBVIOUS
    <3>3. e[2] < TxNum0[b]
      BY <3>2, <2>2
    <3> QED BY <3>1, <3>2, <3>3, <1>12
  <2> QED BY <2>3, <2>4
<1>16. IndexIsReplayOf(d)
  <2> HIDE DEF d
  <2>1. ChainIsLinked(d.chain)
    <3> SUFFICES ASSUME NEW i \in 1 .. n
                 PROVE Parent[d.chain[i]] = IF i = 1 THEN NoBlock ELSE d.chain[i - 1]
      BY <1>9 DEF ChainIsLinked, HeadersVerify
    <3>1. i \in 1 .. Len(db.chain) /\ d.chain[i] = db.chain[i]
      BY <1>1, <1>2, <1>9
    <3>2. Parent[db.chain[i]] = IF i = 1 THEN NoBlock ELSE db.chain[i - 1]
      BY <3>1, <1>3 DEF IndexIsReplayOf, ChainIsLinked, HeadersVerify
    <3>3. ASSUME i # 1 PROVE d.chain[i - 1] = db.chain[i - 1]
      <4>1. i - 1 \in 1 .. n
        BY <3>3, <1>1
      <4> QED BY <4>1, <1>9
    <3> QED BY <3>1, <3>2, <3>3
  <2>2. \A i \in 1 .. Len(d.chain) :
            d.blkInfo[i] = [txNum0 |-> TxNum0[d.chain[i]], nTx |-> NTx[d.chain[i]]]
    BY <1>1, <1>2, <1>3, <1>9, <1>10 DEF IndexIsReplayOf
  <2> QED BY <2>1, <2>2, <1>9, <1>10, <1>11, <1>12, <1>14, <1>15 DEF IndexIsReplayOf
<1>17. UndoMatchesChainOf(d)
  <2>1. d.undo = {v \in db.undo : v.height # n}
    BY DEF UndoneDb
  <2> HIDE DEF d
  <2>2. ASSUME NEW v \in d.undo
        PROVE  /\ v.height < Len(d.chain)
               /\ v = UndoInfo(d.chain[v.height + 1], v.height, TxNum0[d.chain[v.height + 1]])
    <3>1. v.height \in Nat /\ v.height < n
      BY <2>1, <1>1, <1>2, <1>3 DEF Database, UndoRecord, UndoMatchesChainOf
    <3>2. v.height + 1 \in 1 .. n /\ d.chain[v.height + 1] = db.chain[v.height + 1]
      BY <3>1, <1>1, <1>9
    <3> QED BY <3>1, <3>2, <2>1, <1>3, <1>9 DEF UndoMatchesChainOf
  <2> QED BY <2>1, <2>2, <1>3 DEF UndoMatchesChainOf
<1>18. /\ m.tip = db.chain[n] /\ m.height = n - 1
       /\ m.blkInfos = SubSeq(db.blkInfo, 1, n) /\ m.txNumNext = TxNum0[b]
       /\ m.earliestUndo \in Nat /\ m \in Memory /\ m.utxoCt = d.utxoCt
  <2>1. DropLast(mem.blkInfos) = SubSeq(db.blkInfo, 1, n)
    BY <1>1, <1>2, <1>7 DEF DropLast
  <2>2. (IF mem.earliestUndo >= u.height THEN InvalidUndoHeight ELSE mem.earliestUndo) \in Nat
    BY <1>1, Limits DEF Memory
  <2>3. /\ m.tip = db.chain[n] /\ m.height = n - 1 /\ m.blkInfos = SubSeq(db.blkInfo, 1, n)
        /\ m.txNumNext = TxNum0[b] /\ m.utxoCt = d.utxoCt
    BY <2>1, <1>6 DEF UndoneMem, UndoneDb
  <2>4. /\ m.tip \in Tips /\ m.height \in Nat /\ m.blkInfos \in Seq(BlkInfo)
        /\ m.txNumNext \in Nat /\ m.undoDepth \in Nat /\ m.earliestUndo \in Nat
        /\ m.utxoCt \in Int
    <3>3. d.utxoCt \in Int
      BY <1>13 DEF Database
    <3>1. m.undoDepth \in Nat /\ m.earliestUndo \in Nat
      BY <2>2, <1>1 DEF UndoneMem, Memory
    <3>2. SubSeq(db.blkInfo, 1, n) \in Seq(BlkInfo)
      BY <1>10
    <3> HIDE DEF m, d
    <3> QED BY <3>1, <3>2, <3>3, <2>3, <1>1, <1>4, <1>12 DEF Tips
  <2>5. m \in Memory
    BY <2>4 DEF UndoneMem, Memory
  <2> QED BY <2>3, <2>4, <2>5
<1> QED BY <1>8, <1>9, <1>10, <1>11, <1>12, <1>13, <1>16, <1>17, <1>18 DEF DbOK

-----------------------------------------------------------------------------
(* startup *)

(* The records loadCheckEarliestUndo keeps are among those it found.        *)
LEMMA TrimKeepsDbOK ==
    ASSUME NEW d, DbOK(d), NEW depth \in UndoDepths
    PROVE  DbOK([d EXCEPT !.undo = TrimmedUndos(d.undo, depth)])
<1> DEFINE t == TrimmedUndos(d.undo, depth)
           e == [d EXCEPT !.undo = t]
<1>1. t \subseteq d.undo
  BY DEF TrimmedUndos, ContiguousUndos
<1>2. d \in Database
  BY DEF DbOK
<1>3. /\ e.chain = d.chain /\ e.blkInfo = d.blkInfo /\ e.txCount = d.txCount
      /\ e.utxo = d.utxo /\ e.hist = d.hist /\ e.undo = t
  BY <1>2 DEF Database
<1>4. e \in Database
  BY <1>1, <1>2 DEF Database
<1>5. IndexIsReplayOf(e)
  BY <1>3 DEF DbOK, IndexIsReplayOf
<1>6. UndoMatchesChainOf(e)
  BY <1>1, <1>3 DEF DbOK, UndoMatchesChainOf
<1> QED BY <1>4, <1>5, <1>6 DEF DbOK

(* A database that is the replay of its header list passes the load checks. *)
LEMMA ReplayPassesLoadChecks ==
    ASSUME NEW d, DbOK(d)
    PROVE  HeadersVerify(d.chain) /\ TxCountsAddUp(d)
<1>1. /\ d.chain \in Seq(Blocks) /\ d.blkInfo \in Seq(BlkInfo)
      /\ IndexIsReplayOf(d)
  BY DEF DbOK, Database
<1>2. HeadersVerify(d.chain)
  BY <1>1 DEF IndexIsReplayOf, ChainIsLinked
<1>0. /\ Len(d.blkInfo) = Len(d.chain)
      /\ \A i \in 1 .. Len(d.chain) :
           /\ d.chain[i] \in Blocks
           /\ d.blkInfo[i].txNum0 = TxNum0[d.chain[i]]
           /\ d.blkInfo[i].nTx = NTx[d.chain[i]]
           /\ Parent[d.chain[i]] = IF i = 1 THEN NoBlock ELSE d.chain[i - 1]
  <2>1. /\ Len(d.blkInfo) = Len(d.chain)
        /\ \A i \in 1 .. Len(d.chain) :
             d.blkInfo[i] = [txNum0 |-> TxNum0[d.chain[i]], nTx |-> NTx[d.chain[i]]]
    BY <1>1 DEF IndexIsReplayOf
  <2>2. \A i \in 1 .. Len(d.chain) : d.chain[i] \in Blocks
    BY <1>1
  <2>3. \A i \in 1 .. Len(d.chain) :
            Parent[d.chain[i]] = IF i = 1 THEN NoBlock ELSE d.chain[i - 1]
    BY <1>2 DEF HeadersVerify
  <2>4. ASSUME NEW i \in 1 .. Len(d.chain)
        PROVE  d.blkInfo[i].txNum0 = TxNum0[d.chain[i]] /\ d.blkInfo[i].nTx = NTx[d.chain[i]]
    <3> DEFINE r == [txNum0 |-> TxNum0[d.chain[i]], nTx |-> NTx[d.chain[i]]]
    <3>1. r.txNum0 = TxNum0[d.chain[i]] /\ r.nTx = NTx[d.chain[i]]
      OBVIOUS
    <3>2. d.blkInfo[i] = r
      BY <2>1
    <3> HIDE DEF r
    <3> QED BY <3>1, <3>2
  <2> QED BY <2>1, <2>2, <2>3, <2>4
<1>3. ASSUME NEW i \in 1 .. Len(d.blkInfo)
      PROVE  d.blkInfo[i].txNum0 = IF i = 1 THEN 0
                                   ELSE d.blkInfo[i - 1].txNum0 + d.blkInfo[i - 1].nTx
  <2>1. /\ i \in 1 .. Len(d.chain) /\ d.chain[i] \in Blocks
        /\ d.blkInfo[i].txNum0 = TxNum0[d.chain[i]]
        /\ Parent[d.chain[i]] = IF i = 1 THEN NoBlock ELSE d.chain[i - 1]
    BY <1>0
  <2>2. CASE i = 1
    BY <2>1, <2>2, LedgerTruth
  <2>3. CASE i # 1
    <3>1. /\ i - 1 \in 1 .. Len(d.chain) /\ d.chain[i - 1] \in Blocks
          /\ d.blkInfo[i - 1].txNum0 = TxNum0[d.chain[i - 1]]
          /\ d.blkInfo[i - 1].nTx = NTx[d.chain[i - 1]]
      <4>1. i - 1 \in 1 .. Len(d.chain)
        BY <2>1, <2>3, <1>1
      <4> QED BY <4>1, <1>0
    <3> QED BY <3>1, <2>1, <2>3, LedgerTruth, BlockTree
  <2> QED BY <2>2, <2>3
<1>4. d.txCount = IF d.blkInfo = <<>> THEN 0
                  ELSE d.blkInfo[Len(d.blkInfo)].txNum0 + d.blkInfo[Len(d.blkInfo)].nTx
  <2>1. CASE d.chain = <<>>
    BY <2>1, <1>1 DEF IndexIsReplayOf
  <2>2. CASE d.chain # <<>>
    <3>1. Len(d.chain) \in 1 .. Len(d.chain) /\ d.blkInfo # <<>> /\ Len(d.blkInfo) = Len(d.chain)
      BY <2>2, <1>1, <1>0
    <3>2. d.txCount = TxNum0[d.chain[Len(d.chain)]] + NTx[d.chain[Len(d.chain)]]
      BY <2>2, <1>1 DEF IndexIsReplayOf, TipOf
    <3> QED BY <3>1, <3>2, <1>0
  <2> QED BY <2>1, <2>2
<1>5. Len(d.blkInfo) = Len(d.chain)
  BY <1>1 DEF IndexIsReplayOf
<1> QED BY <1>2, <1>3, <1>4, <1>5 DEF TxCountsAddUp

(* A non-empty set of heights has a smallest one. *)
LEMMA SmallestHeight ==
    ASSUME NEW T, T \subseteq Nat, T # {}
    PROVE  \E x \in T : \A y \in T : x <= y
<1>1. PICK x \in T : \A y \in T : ~ (<<y, x>> \in OpToRel(<, Nat))
  BY NatLessThanWellFounded, WFMin
<1>2. \A y \in T : ~ (y < x)
  BY <1>1 DEF OpToRel
<1> QED BY <1>2

(* What startup loads into memory has the right types. *)
LEMMA LoadedMemType ==
    ASSUME NEW d, DbOK(d), NEW depth \in UndoDepths
    PROVE  LoadedMem(d, depth) \in Memory
<1>1. /\ d.chain \in Seq(Blocks) /\ d.blkInfo \in Seq(BlkInfo) /\ d.txCount \in Nat
      /\ d.undo \subseteq UndoRecord /\ d.utxoCt \in Int
  BY DEF DbOK, Database
<1>2. TipOf(d.chain) \in Tips /\ Len(d.chain) - 1 \in Nat \cup {-1}
  BY <1>1, TipType
<1>3. UndoHeights(d.undo) \subseteq Nat /\ (d.undo # {} => UndoHeights(d.undo) # {})
  BY <1>1 DEF UndoHeights, UndoRecord
<1>4. EarliestOf(d.undo) \in Nat
  <2>1. CASE d.undo = {}
    BY <2>1, Limits DEF EarliestOf
  <2>2. CASE d.undo # {}
    <3>1. PICK h \in UndoHeights(d.undo) : \A k \in UndoHeights(d.undo) : h <= k
      BY <2>2, <1>3, SmallestHeight
    <3> QED BY <3>1, <2>2, <1>3 DEF EarliestOf
  <2> QED BY <2>1, <2>2
<1> QED BY <1>1, <1>2, <1>4, Limits DEF LoadedMem, Memory

-----------------------------------------------------------------------------
(* The theorems *)

(* The empty database of a first start satisfies the invariant. *)
LEMMA InitIInv == Init => IInv
<1> SUFFICES ASSUME Init PROVE IInv
  OBVIOUS
<1>1. EmptyDb \in Database
  BY DEF EmptyDb, Database
<1>2. /\ EmptyDb.chain = <<>> /\ EmptyDb.blkInfo = <<>> /\ EmptyDb.txCount = 0
      /\ EmptyDb.utxo = {} /\ EmptyDb.hist = {} /\ EmptyDb.undo = {}
  BY DEF EmptyDb
<1>3. DbOK(EmptyDb)
  BY <1>1, <1>2, LedgerTruth
  DEF DbOK, IndexIsReplayOf, UndoMatchesChainOf, ChainIsLinked, HeadersVerify, TipOf
<1>4. EmptyMem \in Memory
  BY Limits DEF EmptyMem, Memory, Tips
<1>5. TypeOK
  <2>1. announced \in Seq(Blocks)
    BY DEF Init
  <2>2. db \in Database /\ durable \subseteq Database /\ mem \in Memory
    BY <1>1, <1>4 DEF Init
  <2> QED BY <2>1, <2>2 DEF Init, TypeOK, Phases
<1> QED BY <1>3, <1>5 DEF Init, IInv, NeverCorrupt, CopiesMatchDatabase, DbIsOpen

(* Applying the undo record of the tip keeps the invariant, in startup and  *)
(* in a reorg alike.                                                        *)
LEMMA UndoTipKeepsIInv ==
    ASSUME IInv, phase \in {"unclean", "running"}, CanUndo, UndoTip,
           rewind' \in {"none", rewind}
    PROVE  IInv'
<1>1. PICK u \in UndoRecords(mem.height) :
        IF UndoIsSane(u)
        THEN /\ db' = UndoneDb(u) /\ mem' = UndoneMem(u) /\ durable' = {db'}
             /\ announced' = db'.chain /\ phase' = "running" /\ UNCHANGED latchVars
        ELSE phase' = "corrupt" /\ UNCHANGED <<db, durable, mem, latchVars, announced>>
  BY DEF UndoTip
<1>2. /\ UndoIsSane(u) /\ DbOK(UndoneDb(u)) /\ UndoneMem(u) \in Memory
      /\ UndoneMem(u).tip = TipOf(UndoneDb(u).chain)
      /\ UndoneMem(u).height = Len(UndoneDb(u).chain) - 1
      /\ UndoneMem(u).blkInfos = UndoneDb(u).blkInfo
      /\ UndoneMem(u).txNumNext = UndoneDb(u).txCount
      /\ UndoneMem(u).utxoCt = UndoneDb(u).utxoCt
  BY UndoPreservesDbOK DEF IInv, CanUndo
<1>3. /\ db' = UndoneDb(u) /\ mem' = UndoneMem(u) /\ durable' = {db'}
      /\ announced' = db'.chain /\ phase' = "running" /\ latch' = latch /\ unclean' = unclean
  BY <1>1, <1>2 DEF latchVars
<1>4. DbOK(db') /\ db' \in Database
  BY <1>2, <1>3 DEF DbOK
<1>5. TypeOK'
  BY <1>2, <1>3, <1>4 DEF IInv, TypeOK, Database, Phases
<1>6. CopiesMatchDatabase'
  BY <1>2, <1>3 DEF CopiesMatchDatabase, DbIsOpen
<1>7. \A d \in durable' \cup {db'} : DbOK(d)
  BY <1>3, <1>4
<1> QED BY <1>3, <1>5, <1>6, <1>7 DEF IInv, NeverCorrupt, DbOK

(* Every operation keeps the invariant. *)
LEMMA NextIInv == IInv /\ [Next]_vars => IInv'
<1> SUFFICES ASSUME IInv, [Next]_vars PROVE IInv'
  OBVIOUS
<1> USE DEF IInv
<1>1. ASSUME NEW b \in Blocks, NEW saveUndo \in BOOLEAN, NEW notify \in BOOLEAN,
             AddBlock(b, saveUndo, notify)
      PROVE  IInv'
  <2> DEFINE h == Len(db.chain)
  <2>1. phase = "running" /\ Verifies(b)
    BY <1>1 DEF AddBlock
  <2>2. DbOK(AddedDb(b, saveUndo, h)) /\ AddBlockChecks(b)
    BY <2>1, AddPreservesDbOK
  <2>3. /\ db' = AddedDb(b, saveUndo, h) /\ mem' = AddedMem(b, saveUndo, h)
        /\ durable' = (IF notify THEN {db'} ELSE durable \cup {db'})
        /\ announced' = (IF notify THEN db'.chain ELSE announced)
        /\ phase' = phase /\ latch' = latch /\ unclean' = unclean /\ rewind' = rewind
    BY <1>1, <2>2 DEF AddBlock, latchVars
  <2>4. /\ mem' \in Memory
        /\ mem'.tip = TipOf(db'.chain) /\ mem'.height = Len(db'.chain) - 1
        /\ mem'.blkInfos = db'.blkInfo /\ mem'.txNumNext = db'.txCount
        /\ mem'.utxoCt = db'.utxoCt
    BY <2>1, <2>3, AddKeepsMemory
  <2>5. DbOK(db') /\ db' \in Database
    BY <2>2, <2>3 DEF DbOK
  <2>6. \A d \in durable' \cup {db'} : DbOK(d)
    BY <2>3, <2>5
  <2>7. TypeOK'
    BY <2>3, <2>4, <2>5 DEF TypeOK, Database
  <2>8. CopiesMatchDatabase' /\ NeverCorrupt'
    BY <2>1, <2>3, <2>4 DEF CopiesMatchDatabase, DbIsOpen, NeverCorrupt
  <2> QED BY <2>6, <2>7, <2>8 DEF DbOK
<1>2. CASE UndoLatestBlock
  BY <1>2, UndoTipKeepsIInv DEF UndoLatestBlock
<1>3. CASE UncleanUndo
  BY <1>3, UndoTipKeepsIInv DEF UncleanUndo
<1>4. ASSUME NEW depth \in UndoDepths, Startup(depth)
      PROVE  IInv'
  <2> DEFINE d == [db EXCEPT !.undo = TrimmedUndos(db.undo, depth)]
  <2>1. HeadersVerify(db.chain) /\ TxCountsAddUp(db)
    BY ReplayPassesLoadChecks
  <2>2. /\ db' = d /\ mem' = LoadedMem(db', depth) /\ announced' = announced
        /\ latch' = latch /\ unclean' = unclean /\ rewind' = rewind
        /\ durable' = (IF db' = db THEN durable ELSE {db'})
        /\ phase' = IF unclean THEN "unclean" ELSE "running"
    BY <1>4, <2>1 DEF Startup, latchVars
  <2>3. DbOK(db') /\ db' \in Database
    BY <2>2, TrimKeepsDbOK DEF DbOK
  <2>4. mem' \in Memory
    BY <2>2, <2>3, LoadedMemType
  <2>5. TypeOK'
    BY <2>2, <2>3, <2>4 DEF TypeOK, Phases
  <2>6. \A e \in durable' \cup {db'} : DbOK(e)
    BY <2>2, <2>3
  <2>7. CopiesMatchDatabase' /\ NeverCorrupt'
    BY <2>2 DEF CopiesMatchDatabase, NeverCorrupt, LoadedMem
  <2> QED BY <2>5, <2>6, <2>7 DEF DbOK
<1>5. CASE UncleanProceed
  <2>1. /\ phase = "unclean" /\ phase' = "running" /\ db' = db /\ durable' = durable
        /\ mem' = mem /\ latch' = latch /\ unclean' = unclean /\ announced' = announced
        /\ rewind' = "none"
    BY <1>5 DEF UncleanProceed, latchVars
  <2>2. TypeOK' /\ CopiesMatchDatabase' /\ NeverCorrupt'
    BY <2>1 DEF TypeOK, CopiesMatchDatabase, DbIsOpen, NeverCorrupt, Phases
  <2> QED BY <2>1, <2>2 DEF DbOK
<1>6. ASSUME CloseDb \/ Crash
      PROVE  IInv'
  <2>1. /\ db' \in durable \cup {db} /\ durable' = {db'} /\ mem' = EmptyMem
        /\ phase' \in {"down", "closed"} /\ latch' = latch /\ unclean' = unclean
        /\ announced' = announced /\ rewind' \in {"owed", "lost", rewind}
    BY <1>6 DEF CloseDb, Crash, latchVars
  <2>2. EmptyMem \in Memory
    BY Limits DEF EmptyMem, Memory, Tips
  <2>3. DbOK(db') /\ db' \in Database
    BY <2>1 DEF DbOK
  <2>4. TypeOK' /\ CopiesMatchDatabase' /\ NeverCorrupt'
    BY <2>1, <2>2, <2>3 DEF TypeOK, CopiesMatchDatabase, DbIsOpen, NeverCorrupt, Phases
  <2> QED BY <2>1, <2>3, <2>4 DEF DbOK
<1>8. ASSUME DetectLatch \/ CreateLatch \/ AbortStartup \/ RemoveLatch
      PROVE  IInv'
  <2>1. /\ db' = db /\ durable' = durable /\ mem' = mem /\ announced' = announced
        /\ rewind' = rewind /\ latch' \in BOOLEAN /\ unclean' \in BOOLEAN
        /\ phase' \in {"down", "latching", "latched"}
    BY <1>8 DEF DetectLatch, CreateLatch, AbortStartup, RemoveLatch, TypeOK
  <2>2. TypeOK' /\ CopiesMatchDatabase' /\ NeverCorrupt'
    BY <2>1 DEF TypeOK, CopiesMatchDatabase, DbIsOpen, NeverCorrupt, Phases
  <2> QED BY <2>1, <2>2 DEF DbOK
<1>7. CASE UNCHANGED vars
  BY <1>7 DEF vars, TypeOK, CopiesMatchDatabase, DbIsOpen, NeverCorrupt, DbOK
<1> QED BY <1>1, <1>2, <1>3, <1>4, <1>5, <1>6, <1>7, <1>8 DEF Next

(* The index, its undo records and the memory copies stay consistent in     *)
(* every behaviour of addBlock, undoLatestBlock, restarts and crashes.      *)
THEOREM Invariance == Spec => []IInv
BY InitIInv, NextIInv, PTL DEF Spec

(* Type correctness. *)
THEOREM TypeCorrect == Spec => []TypeOK
<1>1. IInv => TypeOK
  BY DEF IInv
<1> QED BY <1>1, Invariance, PTL

(* For every block tree: whatever reorgs, restarts and crashes happened,    *)
(* the database is the replay of its own header list.                       *)
THEOREM IndexCorrect == Spec => []IndexIsReplay
<1>1. IInv => IndexIsReplay
  BY DEF IInv, DbOK, IndexIsReplay
<1> QED BY <1>1, Invariance, PTL

(* No undo record outlives the block it was written for. *)
THEOREM UndoCorrect == Spec => []UndoMatchesChain
<1>1. IInv => UndoMatchesChain
  BY DEF IInv, DbOK, UndoMatchesChain
<1> QED BY <1>1, Invariance, PTL

(* No load check, undo sanity check or internal check of addBlock can fail. *)
THEOREM ChecksNeverFail == Spec => []NeverCorrupt
<1>1. IInv => NeverCorrupt
  BY DEF IInv
<1> QED BY <1>1, Invariance, PTL

(* Tip, height, blkInfos, txNumNext and utxoCt in memory are those a        *)
(* restart would load.                                                      *)
THEOREM CopiesCorrect == Spec => []CopiesMatchDatabase
<1>1. IInv => CopiesMatchDatabase
  BY DEF IInv
<1> QED BY <1>1, Invariance, PTL

-----------------------------------------------------------------------------
(* On top of the inductive invariant: what a power loss may take away, the   *)
(* latch file, the window of undo records, the counter of unspent outputs,   *)
(* and the refinement of HeaderChain, the interface the Controller uses.     *)

IsPrefixOf(s, t) == Len(s) <= Len(t) /\ s = SubSeq(t, 1, Len(s))

(***************************************************************************)
(* The strengthening for durability: the present state is one a crash may  *)
(* bring back, every such state is the present one with the newest blocks  *)
(* missing, and what was announced is in all of them.  While the database  *)
(* is not open there is nothing to lose and nothing in memory.             *)
(***************************************************************************)
DInv ==
    /\ db \in durable
    /\ \A d \in durable : IsPrefixOf(d.chain, db.chain)
    /\ \A d \in durable : IsPrefixOf(announced, d.chain)
    /\ ~ DbIsOpen => durable = {db} /\ mem = EmptyMem

(***************************************************************************)
(* The strengthening for the latch file: an owed rewind is kept by the     *)
(* file while the process is down, and by the flag read from it while a    *)
(* start is under way; the file is there whenever the database may be open. *)
(***************************************************************************)
LInv ==
    /\ phase \in {"latched", "unclean", "running", "closed"} => latch
    /\ rewind = "owed" => \/ phase = "down" /\ latch
                          \/ phase \in {"latching", "latched", "unclean"} /\ unclean

(***************************************************************************)
(* The strengthening for the expiry of undo records: a record older than   *)
(* the window has a block without a record between the end of its own      *)
(* window and the tip, so that no undo can bring it back into the window.  *)
(***************************************************************************)
Sheltered(h) ==
    \E k \in h + mem.undoDepth .. Len(db.chain) - 1 : k \notin UndoHeights(db.undo)

EInv ==
    DbIsOpen => \A h \in UndoHeights(db.undo) :
        IF h >= Len(db.chain) - mem.undoDepth THEN h >= mem.earliestUndo ELSE Sheltered(h)

(* The strengthening for the counter: the sets it counts are finite. *)
CountOK(d) == IsFiniteSet(d.utxo) /\ d.utxoCt = Cardinality(d.utxo)

CInv == \A d \in durable \cup {db} : CountOK(d)

-----------------------------------------------------------------------------
(* Prefixes *)

(* A list is a prefix of itself. *)
LEMMA PrefixOfItself ==
    ASSUME NEW S, NEW s \in Seq(S)
    PROVE  IsPrefixOf(s, s)
BY DEF IsPrefixOf

(* A prefix of a list is a prefix of the list with one element more. *)
LEMMA PrefixOfAppend ==
    ASSUME NEW S, NEW s \in Seq(S), NEW t \in Seq(S), NEW e \in S, IsPrefixOf(s, t)
    PROVE  IsPrefixOf(s, Append(t, e))
<1>1. Len(s) \in 0 .. Len(t) /\ s = SubSeq(t, 1, Len(s))
  BY DEF IsPrefixOf
<1>2. SubSeq(Append(t, e), 1, Len(s)) = SubSeq(t, 1, Len(s))
  BY <1>1
<1>3. Len(Append(t, e)) = Len(t) + 1
  OBVIOUS
<1> QED BY <1>1, <1>2, <1>3 DEF IsPrefixOf

-----------------------------------------------------------------------------
(* What the actions do, once the checks they make are known to succeed *)

(* addBlock never takes its error path. *)
LEMMA AddBlockSteps ==
    ASSUME IInv, NEW b \in Blocks, NEW saveUndo \in BOOLEAN, NEW notify \in BOOLEAN,
           AddBlock(b, saveUndo, notify)
    PROVE  /\ phase = "running" /\ phase' = phase
           /\ latch' = latch /\ unclean' = unclean /\ rewind' = rewind
           /\ Verifies(b) /\ Len(db.chain) < MaxHeaders
           /\ db' = AddedDb(b, saveUndo, Len(db.chain))
           /\ mem' = AddedMem(b, saveUndo, Len(db.chain))
           /\ db'.chain = Append(db.chain, b)
           /\ durable' = IF notify THEN {db'} ELSE durable \cup {db'}
           /\ announced' = IF notify THEN db'.chain ELSE announced
<1>1. phase = "running" /\ Verifies(b) /\ Len(db.chain) < MaxHeaders
  BY DEF AddBlock
<1>2. AddBlockChecks(b)
  BY <1>1, AddPreservesDbOK DEF IInv
<1>3. /\ db' = AddedDb(b, saveUndo, Len(db.chain))
      /\ mem' = AddedMem(b, saveUndo, Len(db.chain))
      /\ durable' = IF notify THEN {db'} ELSE durable \cup {db'}
      /\ announced' = IF notify THEN db'.chain ELSE announced
      /\ phase' = phase /\ latch' = latch /\ unclean' = unclean /\ rewind' = rewind
  BY <1>2 DEF AddBlock, latchVars
<1>4. db'.chain = Append(db.chain, b)
  BY <1>3 DEF AddedDb
<1> QED BY <1>1, <1>3, <1>4

(* An undo never takes its error path. *)
LEMMA UndoSteps ==
    ASSUME IInv, UndoLatestBlock \/ UncleanUndo
    PROVE  /\ phase \in {"unclean", "running"} /\ phase' = "running" /\ latch' = latch
           /\ unclean' = unclean /\ CanUndo
           /\ phase = "unclean" => rewind' = "none"
           /\ phase = "running" => rewind' = rewind
           /\ \E u \in UndoRecords(mem.height) : db' = UndoneDb(u) /\ mem' = UndoneMem(u)
           /\ durable' = {db'} /\ announced' = db'.chain
<1>1. phase \in {"unclean", "running"} /\ CanUndo /\ UndoTip
  BY DEF UndoLatestBlock, UncleanUndo
<1>2. \A u \in UndoRecords(mem.height) : UndoIsSane(u)
  BY <1>1, UndoPreservesDbOK DEF IInv, CanUndo
<1>3. /\ phase = "unclean" => rewind' = "none"
      /\ phase = "running" => rewind' = rewind
  BY DEF UndoLatestBlock, UncleanUndo
<1> QED BY <1>1, <1>2, <1>3 DEF UndoTip, latchVars

(* A start never takes its error path. *)
LEMMA StartupSteps ==
    ASSUME IInv, NEW depth \in UndoDepths, Startup(depth)
    PROVE  /\ phase = "latched" /\ phase' = (IF unclean THEN "unclean" ELSE "running")
           /\ latch' = latch /\ unclean' = unclean /\ rewind' = rewind
           /\ announced' = announced
           /\ db' = [db EXCEPT !.undo = TrimmedUndos(db.undo, depth)]
           /\ mem' = LoadedMem(db', depth)
           /\ db'.chain = db.chain /\ db'.utxo = db.utxo /\ db'.utxoCt = db.utxoCt
           /\ db'.undo = TrimmedUndos(db.undo, depth)
           /\ durable' = IF db' = db THEN durable ELSE {db'}
<1>1. HeadersVerify(db.chain) /\ TxCountsAddUp(db)
  BY ReplayPassesLoadChecks DEF IInv
<1>2. /\ phase = "latched" /\ phase' = (IF unclean THEN "unclean" ELSE "running")
      /\ latch' = latch /\ unclean' = unclean /\ rewind' = rewind
      /\ announced' = announced
      /\ db' = [db EXCEPT !.undo = TrimmedUndos(db.undo, depth)]
      /\ mem' = LoadedMem(db', depth)
      /\ durable' = IF db' = db THEN durable ELSE {db'}
  BY <1>1 DEF Startup, latchVars
<1>3. db \in Database
  BY DEF IInv, TypeOK
<1> QED BY <1>2, <1>3 DEF Database

-----------------------------------------------------------------------------
(* Durability *)

(* The chains of all states involved are lists of blocks. *)
LEMMA ChainTypes ==
    ASSUME IInv
    PROVE  /\ db.chain \in Seq(Blocks) /\ announced \in Seq(Blocks)
           /\ \A d \in durable : d.chain \in Seq(Blocks)
BY DEF IInv, TypeOK, Database

(* Every operation keeps the durability invariant. *)
LEMMA NextDInv == IInv /\ DInv /\ [Next]_vars => DInv'
<1> SUFFICES ASSUME IInv, DInv, [Next]_vars PROVE DInv'
  OBVIOUS
<1>0. /\ db.chain \in Seq(Blocks) /\ announced \in Seq(Blocks)
      /\ \A d \in durable : d.chain \in Seq(Blocks)
      /\ db'.chain \in Seq(Blocks)
  <2>1. IInv'
    BY NextIInv
  <2>2. db'.chain \in Seq(Blocks)
    BY <2>1 DEF IInv, TypeOK, Database
  <2> QED BY <2>2, ChainTypes
<1>1. ASSUME NEW b \in Blocks, NEW saveUndo \in BOOLEAN, NEW notify \in BOOLEAN,
             AddBlock(b, saveUndo, notify)
      PROVE  DInv'
  <2>1. /\ phase = "running" /\ phase' = phase
        /\ db'.chain = Append(db.chain, b)
        /\ durable' = IF notify THEN {db'} ELSE durable \cup {db'}
        /\ announced' = IF notify THEN db'.chain ELSE announced
    BY <1>1, AddBlockSteps
  <2>2. DbIsOpen'
    BY <2>1 DEF DbIsOpen
  <2>3. IsPrefixOf(db'.chain, db'.chain)
    BY <1>0, PrefixOfItself
  <2>4. CASE notify
    BY <2>1, <2>2, <2>3, <2>4 DEF DInv
  <2>5. CASE ~ notify
    <3>1. \A d \in durable : IsPrefixOf(d.chain, db'.chain)
      BY <2>1, <1>0, PrefixOfAppend DEF DInv
    <3>2. IsPrefixOf(announced, db'.chain)
      BY <2>1, <1>0, PrefixOfAppend DEF DInv
    <3> QED BY <2>1, <2>2, <2>3, <2>5, <3>1, <3>2 DEF DInv
  <2> QED BY <2>4, <2>5
<1>2. ASSUME UndoLatestBlock \/ UncleanUndo
      PROVE  DInv'
  <2>1. /\ phase' = "running" /\ durable' = {db'} /\ announced' = db'.chain
    BY <1>2, UndoSteps
  <2>2. DbIsOpen'
    BY <2>1 DEF DbIsOpen
  <2> QED BY <2>1, <2>2, <1>0, PrefixOfItself DEF DInv
<1>3. ASSUME NEW depth \in UndoDepths, Startup(depth)
      PROVE  DInv'
  <2>1. /\ phase' \in {"unclean", "running"} /\ announced' = announced /\ db'.chain = db.chain
        /\ durable' = IF db' = db THEN durable ELSE {db'}
    BY <1>3, StartupSteps
  <2>2. DbIsOpen'
    BY <2>1 DEF DbIsOpen
  <2>3. CASE db' = db
    BY <2>1, <2>2, <2>3 DEF DInv
  <2>4. CASE db' # db
    BY <2>1, <2>2, <2>4, <1>0, PrefixOfItself DEF DInv
  <2> QED BY <2>3, <2>4
<1>4. CASE UncleanProceed
  BY <1>4 DEF UncleanProceed, DInv, DbIsOpen
<1>5. CASE CloseDb
  BY <1>5, <1>0, PrefixOfItself DEF CloseDb, DInv
<1>6. CASE Crash
  BY <1>6, <1>0, PrefixOfItself DEF Crash, DInv
<1>8. ASSUME DetectLatch \/ CreateLatch \/ AbortStartup \/ RemoveLatch
      PROVE  DInv'
  <2>1. /\ db' = db /\ durable' = durable /\ mem' = mem /\ announced' = announced
        /\ ~ DbIsOpen
    BY <1>8 DEF DetectLatch, CreateLatch, AbortStartup, RemoveLatch, DbIsOpen
  <2> QED BY <2>1 DEF DInv
<1>7. CASE UNCHANGED vars
  BY <1>7 DEF vars, DInv, DbIsOpen
<1> QED BY <1>1, <1>2, <1>3, <1>4, <1>5, <1>6, <1>7, <1>8 DEF Next

(* The durability invariant holds in every behaviour. *)
THEOREM DurabilityInvariance == Spec => []DInv
<1>1. Init => DInv
  BY PrefixOfItself DEF Init, DInv, EmptyDb, IsPrefixOf
<1> QED BY <1>1, NextDInv, Invariance, PTL DEF Spec

(* No crash takes the database back behind what subscribers were told of,   *)
(* or behind an undo that returned.                                         *)
THEOREM AnnouncedCorrect == Spec => []AnnouncedIsDurable
<1>1. DInv => AnnouncedIsDurable
  BY DEF DInv, AnnouncedIsDurable, IsPrefixOf
<1> QED BY <1>1, DurabilityInvariance, PTL

-----------------------------------------------------------------------------
(* The latch file *)

(* Every operation keeps an owed rewind until a start has seen to it. *)
LEMMA NextLInv == IInv /\ LInv /\ [Next]_vars => LInv'
<1> SUFFICES ASSUME IInv, LInv, [Next]_vars PROVE LInv'
  OBVIOUS
<1>1. ASSUME NEW b \in Blocks, NEW saveUndo \in BOOLEAN, NEW notify \in BOOLEAN,
             AddBlock(b, saveUndo, notify)
      PROVE  LInv'
  BY <1>1, AddBlockSteps DEF LInv
<1>2. ASSUME UndoLatestBlock \/ UncleanUndo
      PROVE  LInv'
  BY <1>2, UndoSteps DEF LInv
<1>3. ASSUME NEW depth \in UndoDepths, Startup(depth)
      PROVE  LInv'
  BY <1>3, StartupSteps DEF LInv
<1>4. CASE UncleanProceed
  BY <1>4 DEF UncleanProceed, latchVars, LInv
<1>5. CASE DetectLatch
  BY <1>5 DEF DetectLatch, LInv
<1>6. CASE CreateLatch
  BY <1>6 DEF CreateLatch, LInv
<1>7. CASE AbortStartup
  BY <1>7 DEF AbortStartup, LInv
<1>8. CASE CloseDb
  BY <1>8 DEF CloseDb, latchVars, LInv
<1>9. CASE RemoveLatch
  BY <1>9 DEF RemoveLatch, LInv
<1>10. CASE Crash
  <2>1. /\ phase' = "down" /\ latch' = latch
        /\ rewind' = "owed" => phase \in {"unclean", "running", "latched", "closed"}
    BY <1>10 DEF Crash, latchVars
  <2>2. rewind' = "owed" => latch
    BY <2>1 DEF LInv
  <2> QED BY <2>1, <2>2 DEF LInv
<1>11. CASE UNCHANGED vars
  BY <1>11 DEF vars, LInv
<1> QED BY <1>1, <1>2, <1>3, <1>4, <1>5, <1>6, <1>7, <1>8, <1>9, <1>10, <1>11 DEF Next

(* A stop with the database open is answered by a rewind before the next    *)
(* run adds a block, through any number of starts that fail or are stopped, *)
(* except when one is stopped between removing and creating the latch file. *)
THEOREM LatchCorrect == Spec => []UncleanStopIsRewound
<1>1. Init => LInv
  BY DEF Init, LInv
<1>2. Spec => []LInv
  BY <1>1, NextLInv, Invariance, PTL DEF Spec
<1>3. LInv => UncleanStopIsRewound
  BY DEF LInv, UncleanStopIsRewound
<1> QED BY <1>2, <1>3, PTL

-----------------------------------------------------------------------------
(* The expiry of undo records *)

(* The heights with an undo record after addBlock and its expiry. *)
LEMMA AddedUndoHeights ==
    ASSUME NEW b \in Blocks, NEW saveUndo \in BOOLEAN, NEW height \in Nat
    PROVE  UndoHeights(AddedDb(b, saveUndo, height).undo)
             = (UndoHeights(db.undo) \cup {h \in {height} : saveUndo})
                 \ ExpiredHeights(height, EarliestWith(saveUndo, height))
<1> DEFINE X == ExpiredHeights(height, EarliestWith(saveUndo, height))
           W == UndosWith(b, saveUndo, height)
<1>1. UndoInfo(b, height, mem.txNumNext).height = height
  BY DEF UndoInfo
<1>2. UndoHeights(W) = UndoHeights(db.undo) \cup {h \in {height} : saveUndo}
  BY <1>1 DEF UndoHeights, UndosWith
<1>3. AddedDb(b, saveUndo, height).undo = {u \in W : u.height \notin X}
  BY DEF AddedDb
<1>4. UndoHeights({u \in W : u.height \notin X}) = UndoHeights(W) \ X
  BY DEF UndoHeights
<1> QED BY <1>2, <1>3, <1>4

(* A record that leaves the window with the new block is the one that is    *)
(* deleted; the older ones stay sheltered.                                  *)
LEMMA AddKeepsEInv ==
    ASSUME IInv, EInv, NEW b \in Blocks, NEW saveUndo \in BOOLEAN, NEW notify \in BOOLEAN,
           AddBlock(b, saveUndo, notify)
    PROVE  EInv'
<1> DEFINE n == Len(db.chain)
           d == mem.undoDepth
           H == UndoHeights(db.undo)
           first == EarliestWith(saveUndo, n)
<1>1. /\ phase = "running" /\ mem' = AddedMem(b, saveUndo, n) /\ db' = AddedDb(b, saveUndo, n)
      /\ db'.chain = Append(db.chain, b)
  BY AddBlockSteps
<1>2. /\ n \in Nat /\ d \in Nat /\ mem.earliestUndo \in Nat /\ H \subseteq Nat
      /\ db.chain \in Seq(Blocks)
  BY DEF IInv, TypeOK, Database, Memory, UndoHeights, UndoRecord
<1>3. Len(db'.chain) = n + 1 /\ mem'.undoDepth = d
  BY <1>1, <1>2, AppendFacts DEF AddedMem
<1>4. UndoHeights(db'.undo) = (H \cup {h \in {n} : saveUndo}) \ ExpiredHeights(n, first)
  BY <1>1, <1>2, AddedUndoHeights
<1>5. mem'.earliestUndo = IF ExpiredHeights(n, first) = {} THEN first ELSE n - d + 1
  BY <1>1 DEF AddedMem
<1>6. first \in Nat /\ first <= mem.earliestUndo /\ (saveUndo => first <= n)
  BY <1>2 DEF EarliestWith
<1>7. \A h \in H : /\ h >= n - d => h >= mem.earliestUndo
                   /\ h < n - d => \E k \in h + d .. n - 1 : k \notin H
  BY <1>1, <1>2 DEF EInv, DbIsOpen, Sheltered
<1>8. \A h : h \in ExpiredHeights(n, first) <=> h = n - d /\ h >= 0 /\ h >= first
  BY DEF ExpiredHeights
<1> HIDE DEF n, d, H, first
<1>9. ASSUME NEW h \in UndoHeights(db'.undo), h >= n + 1 - d
      PROVE  h >= mem'.earliestUndo
  <2>1. h \in H \/ (h = n /\ saveUndo)
    BY <1>4
  <2>2. h \in Nat /\ h >= first
    <3>1. h \in Nat
      BY <2>1, <1>2
    <3>2. CASE h \in H
      <4>1. h >= n - d
        BY <3>1, <1>2, <1>9
      <4> QED BY <3>1, <3>2, <4>1, <1>2, <1>6, <1>7
    <3>3. CASE h = n /\ saveUndo
      BY <3>1, <3>3, <1>2, <1>6
    <3> QED BY <2>1, <3>1, <3>2, <3>3
  <2> QED BY <2>2, <1>2, <1>5, <1>9
<1>10. ASSUME NEW h \in UndoHeights(db'.undo), h < n + 1 - d
       PROVE  \E k \in h + d .. n : k \notin UndoHeights(db'.undo)
  <2>1. CASE h \in H /\ h < n - d
    <3>1. PICK k \in h + d .. n - 1 : k \notin H
      BY <2>1, <1>7
    <3>2. h \in Nat /\ k \in h + d .. n /\ k # n
      BY <2>1, <3>1, <1>2
    <3> QED BY <3>1, <3>2, <1>4
  <2>2. CASE h \in H /\ h >= n - d
    <3>1. h \in Nat /\ h = n - d /\ h >= first
      BY <2>2, <1>2, <1>6, <1>7, <1>10
    <3> QED BY <3>1, <1>4, <1>8
  <2>3. CASE h = n /\ saveUndo /\ h \notin H
    <3>1. d = 0 /\ h = n - d /\ h >= 0 /\ h >= first
      BY <2>3, <1>2, <1>6, <1>10
    <3> QED BY <3>1, <1>4, <1>8
  <2>4. h \in Nat
    BY <1>2, <1>4
  <2> QED BY <2>1, <2>2, <2>3, <2>4, <1>2, <1>4
<1>11. UndoHeights(db'.undo) \subseteq Nat
  BY <1>2, <1>4
<1> QED BY <1>2, <1>3, <1>9, <1>10, <1>11 DEF EInv, Sheltered

(* The undone block had a record, so it sheltered no older one: the window  *)
(* that moves back by one height finds no record there.                     *)
LEMMA UndoKeepsEInv ==
    ASSUME IInv, EInv, UndoLatestBlock \/ UncleanUndo
    PROVE  EInv'
<1> DEFINE n == Len(db.chain)
           d == mem.undoDepth
           H == UndoHeights(db.undo)
<1>1. /\ phase \in {"unclean", "running"} /\ CanUndo
      /\ \E u \in UndoRecords(mem.height) : db' = UndoneDb(u) /\ mem' = UndoneMem(u)
  BY UndoSteps
<1>2. /\ n \in Nat /\ d \in Nat /\ mem.earliestUndo \in Nat /\ H \subseteq Nat
      /\ db.chain \in Seq(Blocks) /\ mem.height = n - 1 /\ n - 1 > 0
  BY <1>1 DEF IInv, TypeOK, Database, Memory, UndoHeights, UndoRecord, CanUndo,
              CopiesMatchDatabase, DbIsOpen
<1>3. PICK u \in UndoRecords(mem.height) : db' = UndoneDb(u) /\ mem' = UndoneMem(u)
  BY <1>1
<1>4. u \in db.undo /\ u.height = n - 1
  BY <1>2 DEF UndoRecords
<1>5. /\ n - 1 \in H /\ UndoHeights(db'.undo) = H \ {n - 1}
      /\ db'.chain = SubSeq(db.chain, 1, n - 1)
      /\ mem'.undoDepth = d
      /\ mem'.earliestUndo = IF mem.earliestUndo >= n - 1 THEN InvalidUndoHeight
                             ELSE mem.earliestUndo
  BY <1>3, <1>4 DEF UndoneDb, UndoneMem, UndoHeights
<1>6. Len(db'.chain) = n - 1
  BY <1>2, <1>5, PrefixFacts
<1>7. \A h \in H : /\ h >= n - d => h >= mem.earliestUndo
                   /\ h < n - d => \E k \in h + d .. n - 1 : k \notin H
  BY <1>1, <1>2 DEF EInv, DbIsOpen, Sheltered
<1>12. \A h \in H : h <= n - 1
  <2>1. \A v \in db.undo : v.height < n /\ v.height \in Nat
    BY DEF IInv, DbOK, UndoMatchesChainOf, TypeOK, Database, UndoRecord
  <2> QED BY <2>1, <1>2 DEF UndoHeights
<1> HIDE DEF n, d, H
<1>8. ASSUME NEW h \in H, h < n - d
      PROVE  \E k \in h + d .. n - 2 : k \notin H \ {n - 1}
  <2>1. PICK k \in h + d .. n - 1 : k \notin H
    BY <1>7, <1>8
  <2>2. h \in Nat /\ k # n - 1
    BY <2>1, <1>2, <1>5
  <2>3. k \in h + d .. n - 2
    BY <2>1, <2>2, <1>2
  <2> QED BY <2>1, <2>3
<1>9. ASSUME NEW h \in UndoHeights(db'.undo), h >= n - 1 - d
      PROVE  h >= mem'.earliestUndo
  <2>1. h \in H /\ h # n - 1 /\ h \in Nat
    BY <1>2, <1>5
  <2>2. h >= n - d
    <3>1. CASE h < n - d
      <4>1. PICK k \in h + d .. n - 2 : k \notin H \ {n - 1}
        BY <2>1, <3>1, <1>8
      <4> QED BY <4>1, <2>1, <1>2, <1>9
    <3> QED BY <3>1, <2>1, <1>2
  <2>3. h >= mem.earliestUndo /\ h < n - 1
    BY <2>1, <2>2, <1>2, <1>7, <1>12
  <2> QED BY <2>1, <2>3, <1>2, <1>5
<1>10. ASSUME NEW h \in UndoHeights(db'.undo), h < n - 1 - d
       PROVE  \E k \in h + d .. n - 2 : k \notin UndoHeights(db'.undo)
  <2>1. h \in H /\ h < n - d
    <3>1. h \in H /\ h \in Nat
      BY <1>2, <1>5
    <3> QED BY <3>1, <1>2, <1>10
  <2> QED BY <2>1, <1>5, <1>8
<1>11. UndoHeights(db'.undo) \subseteq Nat /\ (n - 1) - 1 = n - 2
  BY <1>2, <1>5
<1>13. ASSUME NEW h \in UndoHeights(db'.undo)
       PROVE  IF h >= (n - 1) - d THEN h >= mem'.earliestUndo
              ELSE \E k \in h + d .. (n - 1) - 1 : k \notin UndoHeights(db'.undo)
  <2>1. h \in Nat
    BY <1>11
  <2>2. h < n - 1 - d \/ h >= n - 1 - d
    BY <2>1, <1>2
  <2> QED BY <2>1, <2>2, <1>2, <1>9, <1>10, <1>11
<1> QED BY <1>5, <1>6, <1>13 DEF EInv, Sheltered

(* A start keeps records that lie less than max_reorg apart, so that above  *)
(* the window of each of them there is none.                                *)
LEMMA StartupKeepsEInv ==
    ASSUME IInv, NEW depth \in UndoDepths, Startup(depth)
    PROVE  EInv'
<1> DEFINE n == Len(db.chain)
           K == UndoHeights(db'.undo)
<1>1. /\ mem' = LoadedMem(db', depth) /\ db'.chain = db.chain
      /\ db'.undo = TrimmedUndos(db.undo, depth)
  BY StartupSteps
<1>2. /\ n \in Nat /\ depth \in Nat \ {0} /\ db'.undo \subseteq db.undo
      /\ K \subseteq Nat
  BY <1>1, Limits DEF IInv, TypeOK, Database, UndoHeights, UndoRecord, TrimmedUndos,
                      ContiguousUndos
<1>3. mem'.undoDepth = depth /\ mem'.earliestUndo = EarliestOf(db'.undo)
  BY <1>1 DEF LoadedMem
<1>4. \A h, k \in K : k - h < depth
  BY <1>1, <1>2 DEF UndoHeights, TrimmedUndos, ContiguousUndos
<1>5. \A h \in K : h >= mem'.earliestUndo
  <2> SUFFICES ASSUME NEW h \in K PROVE h >= mem'.earliestUndo
    OBVIOUS
  <2>1. K # {} /\ db'.undo # {}
    BY DEF UndoHeights
  <2>2. PICK e \in K : \A k \in K : e <= k
    BY <2>1, <1>2, SmallestHeight
  <2>3. mem'.earliestUndo = CHOOSE e1 \in K : \A k \in K : e1 <= k
    BY <1>3, <2>1 DEF EarliestOf
  <2> HIDE DEF K
  <2>4. mem'.earliestUndo \in K /\ \A k \in K : mem'.earliestUndo <= k
    BY <2>2, <2>3
  <2> QED BY <2>4, <1>2
<1> HIDE DEF K, n
<1>6. ASSUME NEW h \in K, ~ (h >= n - depth)
      PROVE  \E k \in h + depth .. n - 1 : k \notin K
  <2>1. h \in Nat /\ h + depth \in h + depth .. n - 1
    BY <1>2, <1>6
  <2>2. h + depth \notin K
    <3>1. (h + depth) - h = depth
      BY <2>1, <1>2
    <3> QED BY <3>1, <1>2, <1>4
  <2> QED BY <2>1, <2>2
<1> QED BY <1>1, <1>3, <1>5, <1>6 DEF EInv, Sheltered, n, K

(* Every operation keeps the window of records in order. *)
LEMMA NextEInv == IInv /\ EInv /\ [Next]_vars => EInv'
<1> SUFFICES ASSUME IInv, EInv, [Next]_vars PROVE EInv'
  OBVIOUS
<1>1. ASSUME NEW b \in Blocks, NEW saveUndo \in BOOLEAN, NEW notify \in BOOLEAN,
             AddBlock(b, saveUndo, notify)
      PROVE  EInv'
  BY <1>1, AddKeepsEInv
<1>2. ASSUME UndoLatestBlock \/ UncleanUndo
      PROVE  EInv'
  BY <1>2, UndoKeepsEInv
<1>3. ASSUME NEW depth \in UndoDepths, Startup(depth)
      PROVE  EInv'
  BY <1>3, StartupKeepsEInv
<1>4. CASE UncleanProceed
  BY <1>4 DEF UncleanProceed, EInv, Sheltered, DbIsOpen
<1>5. ASSUME DetectLatch \/ CreateLatch \/ AbortStartup \/ CloseDb \/ RemoveLatch \/ Crash
      PROVE  EInv'
  <2>1. ~ DbIsOpen'
    BY <1>5 DEF DetectLatch, CreateLatch, AbortStartup, CloseDb, RemoveLatch, Crash, DbIsOpen
  <2> QED BY <2>1 DEF EInv
<1>6. CASE UNCHANGED vars
  BY <1>6 DEF vars, EInv, Sheltered, DbIsOpen
<1> QED BY <1>1, <1>2, <1>3, <1>4, <1>5, <1>6 DEF Next

(* For every block tree and every max_reorg: no undo record that is still   *)
(* within the window is out of reach of the expiry in addBlock.             *)
THEOREM ExpiryCorrect == Spec => []EveryUndoWillExpire
<1>1. Init => EInv
  BY DEF Init, EInv, DbIsOpen
<1>2. Spec => []EInv
  BY <1>1, NextEInv, Invariance, PTL DEF Spec
<1>3. EInv => EveryUndoWillExpire
  BY DEF EInv, EveryUndoWillExpire, UndoHeights
<1> QED BY <1>2, <1>3, PTL

-----------------------------------------------------------------------------
(* The counter of unspent outputs *)

(* Adding new members and removing present ones adds up. *)
LEMMA CountExchange ==
    ASSUME NEW U, NEW A, NEW R, IsFiniteSet(U), IsFiniteSet(A), IsFiniteSet(R),
           R \subseteq U, A \cap U = {}
    PROVE  /\ IsFiniteSet((U \cup A) \ R)
           /\ Cardinality((U \cup A) \ R) = Cardinality(U) + Cardinality(A) - Cardinality(R)
<1>1. U \cap A = {} /\ (U \cup A) \cap R = R
  OBVIOUS
<1>2. /\ IsFiniteSet(U \cup A)
      /\ Cardinality(U \cup A) = Cardinality(U) + Cardinality(A) - Cardinality(U \cap A)
  BY FS_Union
<1>3. /\ IsFiniteSet((U \cup A) \ R)
      /\ Cardinality((U \cup A) \ R) = Cardinality(U \cup A) - Cardinality((U \cup A) \cap R)
  BY <1>2, FS_Difference
<1>4. Cardinality(U) \in Nat /\ Cardinality(A) \in Nat /\ Cardinality(R) \in Nat
  BY FS_CardinalityType
<1>5. Cardinality(U \cap A) = 0
  BY <1>1, FS_EmptySet
<1>6. Cardinality((U \cup A) \cap R) = Cardinality(R)
  BY <1>1, Zenon
<1>7. Cardinality(U \cup A) = Cardinality(U) + Cardinality(A)
  BY <1>2, <1>4, <1>5
<1> QED BY <1>3, <1>4, <1>6, <1>7

(* A block's outputs are new to the UTXO set it is added to, and the ones   *)
(* it spends are in it.                                                     *)
LEMMA AddKeepsCount ==
    ASSUME IInv, CountOK(db), phase = "running",
           NEW b \in Blocks, NEW saveUndo \in BOOLEAN, Verifies(b)
    PROVE  CountOK(AddedDb(b, saveUndo, Len(db.chain)))
<1>1. db.utxo = UtxoAt[Parent[b]]
  BY DEF IInv, DbOK, IndexIsReplayOf, Verifies, CopiesMatchDatabase, DbIsOpen
<1>2. Spends[b] \subseteq db.utxo /\ Creates[b] \cap db.utxo = {}
  BY <1>1, LedgerTruth
<1>3. IsFiniteSet(db.utxo) /\ IsFiniteSet(Creates[b]) /\ IsFiniteSet(Spends[b])
  BY BlockTree DEF CountOK
<1>4. /\ IsFiniteSet((db.utxo \cup Creates[b]) \ Spends[b])
      /\ Cardinality((db.utxo \cup Creates[b]) \ Spends[b])
           = Cardinality(db.utxo) + Cardinality(Creates[b]) - Cardinality(Spends[b])
  BY <1>2, <1>3, CountExchange
<1>5. mem.utxoCt = db.utxoCt
  BY DEF IInv, CopiesMatchDatabase, DbIsOpen
<1> QED BY <1>4, <1>5 DEF CountOK, AddedDb

(* The undo record of the tip lists what is in the UTXO set because of it,  *)
(* and what is not in it because of it.                                     *)
LEMMA UndoKeepsCount ==
    ASSUME IInv, CountOK(db), phase \in {"unclean", "running"}, mem.height > 0,
           NEW u \in UndoRecords(mem.height)
    PROVE  CountOK(UndoneDb(u))
<1>1. /\ db.chain \in Seq(Blocks) /\ mem.height = Len(db.chain) - 1
      /\ u \in db.undo /\ u.height = mem.height
  BY DEF IInv, TypeOK, Database, CopiesMatchDatabase, DbIsOpen, UndoRecords
<1>2. PICK b \in Blocks : b = db.chain[u.height + 1] /\ b = TipOf(db.chain)
  BY <1>1 DEF TipOf
<1>3. u.addUndos = Creates[b] /\ u.delUndos = Spends[b]
  <2>1. u = UndoInfo(b, u.height, TxNum0[b])
    BY <1>1, <1>2 DEF IInv, DbOK, UndoMatchesChainOf
  <2>2. /\ UndoInfo(b, u.height, TxNum0[b]).addUndos = Creates[b]
        /\ UndoInfo(b, u.height, TxNum0[b]).delUndos = Spends[b]
    BY DEF UndoInfo
  <2> QED BY <2>1, <2>2
<1>4. db.utxo = (UtxoAt[Parent[b]] \ Spends[b]) \cup Creates[b]
  BY <1>2, LedgerTruth DEF IInv, DbOK, IndexIsReplayOf
<1>5. Spends[b] \subseteq UtxoAt[Parent[b]] /\ Creates[b] \cap UtxoAt[Parent[b]] = {}
  BY <1>2, LedgerTruth
<1>6. Creates[b] \subseteq db.utxo /\ Spends[b] \cap db.utxo = {}
  BY <1>4, <1>5
<1>7. IsFiniteSet(db.utxo) /\ IsFiniteSet(Creates[b]) /\ IsFiniteSet(Spends[b])
  BY <1>2, BlockTree DEF CountOK
<1>8. /\ IsFiniteSet((db.utxo \cup Spends[b]) \ Creates[b])
      /\ Cardinality((db.utxo \cup Spends[b]) \ Creates[b])
           = Cardinality(db.utxo) + Cardinality(Spends[b]) - Cardinality(Creates[b])
  BY <1>6, <1>7, CountExchange
<1>9. mem.utxoCt = db.utxoCt
  BY DEF IInv, CopiesMatchDatabase, DbIsOpen
<1> QED BY <1>3, <1>8, <1>9 DEF CountOK, UndoneDb

(* Every operation keeps the counters exact. *)
LEMMA NextCInv == IInv /\ CInv /\ [Next]_vars => CInv'
<1> SUFFICES ASSUME IInv, CInv, [Next]_vars PROVE CInv'
  OBVIOUS
<1>0. CountOK(db) /\ \A d \in durable : CountOK(d)
  BY DEF CInv
<1>1. ASSUME NEW b \in Blocks, NEW saveUndo \in BOOLEAN, NEW notify \in BOOLEAN,
             AddBlock(b, saveUndo, notify)
      PROVE  CInv'
  <2>1. CountOK(db') /\ durable' \subseteq durable \cup {db'}
    BY <1>0, <1>1, AddBlockSteps, AddKeepsCount
  <2> QED BY <1>0, <2>1 DEF CInv, CountOK
<1>2. ASSUME UndoLatestBlock \/ UncleanUndo
      PROVE  CInv'
  <2>1. CountOK(db') /\ durable' = {db'}
    BY <1>0, <1>2, UndoSteps, UndoKeepsCount DEF CanUndo
  <2> QED BY <2>1 DEF CInv, CountOK
<1>3. ASSUME NEW depth \in UndoDepths, Startup(depth)
      PROVE  CInv'
  <2>1. CountOK(db') /\ durable' \subseteq durable \cup {db'}
    BY <1>0, <1>3, StartupSteps DEF CountOK
  <2> QED BY <1>0, <2>1 DEF CInv, CountOK
<1>4. CASE UncleanProceed
  BY <1>4 DEF UncleanProceed, CInv, CountOK
<1>5. CASE CloseDb
  BY <1>5, <1>0 DEF CloseDb, CInv, CountOK
<1>8. CASE DetectLatch \/ CreateLatch \/ AbortStartup \/ RemoveLatch
  BY <1>8 DEF DetectLatch, CreateLatch, AbortStartup, RemoveLatch, CInv, CountOK
<1>6. CASE Crash
  BY <1>6, <1>0 DEF Crash, CInv, CountOK
<1>7. CASE UNCHANGED vars
  BY <1>7 DEF vars, CInv, CountOK
<1> QED BY <1>1, <1>2, <1>3, <1>4, <1>5, <1>6, <1>7, <1>8 DEF Next

(* The saved counter is the size of the UTXO set, across reorgs and crashes. *)
THEOREM CountCorrect == Spec => []UtxoCtIsExact
<1>1. Init => CInv
  <2>1. EmptyDb.utxo = {} /\ EmptyDb.utxoCt = 0
    BY DEF EmptyDb
  <2>2. CountOK(EmptyDb)
    BY <2>1, FS_EmptySet DEF CountOK
  <2> QED BY <2>2 DEF Init, CInv, CountOK
<1>2. Spec => []CInv
  BY <1>1, NextCInv, Invariance, PTL DEF Spec
<1>3. CInv => UtxoCtIsExact
  BY DEF CInv, CountOK, UtxoCtIsExact
<1> QED BY <1>2, <1>3, PTL

-----------------------------------------------------------------------------
(* The refinement of HeaderChain *)

(* Trimming the records at a startup trims their heights the way Open does. *)
LEMMA TrimmedHeights ==
    ASSUME NEW undo, \A u \in undo : u.height \in Nat, NEW depth \in Nat \ {0}
    PROVE  UndoHeights(TrimmedUndos(undo, depth)) = Abstract!KeptAtOpen(UndoHeights(undo), depth)
<1> DEFINE H == UndoHeights(undo)
           K == Abstract!KeptAtOpen(H, depth)
<1>1. H \subseteq Nat /\ \A u \in undo : u.height \in H
  BY DEF UndoHeights
<1>2. ASSUME NEW u \in undo
      PROVE  u \in TrimmedUndos(undo, depth) <=> u.height \in K
  <2>1. u \in TrimmedUndos(undo, depth) <=>
          \A v \in undo : /\ v.height > u.height => \A h \in u.height .. v.height : h \in H
                          /\ v.height - u.height < depth
    BY DEF TrimmedUndos, ContiguousUndos
  <2>2. u.height \in K <=>
          \A k \in H : k > u.height =>
              k - u.height < depth /\ (u.height .. k) \subseteq H
    BY <1>1 DEF Abstract!KeptAtOpen
  <2>3. ASSUME NEW v \in undo
        PROVE  (/\ v.height > u.height => \A h \in u.height .. v.height : h \in H
                /\ v.height - u.height < depth)
               <=> (v.height > u.height =>
                      v.height - u.height < depth /\ (u.height .. v.height) \subseteq H)
    <3>1. u.height \in Nat /\ v.height \in Nat
      OBVIOUS
    <3>2. (u.height .. v.height) \subseteq H <=> \A h \in u.height .. v.height : h \in H
      OBVIOUS
    <3>3. ~ (v.height > u.height) => v.height - u.height < depth
      BY <3>1
    <3> QED BY <3>2, <3>3
  <2>4. (\A k \in H : k > u.height => k - u.height < depth /\ (u.height .. k) \subseteq H)
        <=> \A v \in undo : v.height > u.height =>
              v.height - u.height < depth /\ (u.height .. v.height) \subseteq H
    BY DEF UndoHeights
  <2> QED BY <2>1, <2>2, <2>3, <2>4
<1>3. TrimmedUndos(undo, depth) \subseteq undo /\ K \subseteq H
  BY DEF TrimmedUndos, ContiguousUndos, Abstract!KeptAtOpen
<1> QED BY <1>2, <1>3 DEF UndoHeights

(* The smallest height kept, computed from the records or from the heights. *)
LEMMA EarliestOfHeights ==
    ASSUME NEW undo
    PROVE  EarliestOf(undo) = IF UndoHeights(undo) = {} THEN InvalidUndoHeight
                              ELSE CHOOSE h \in UndoHeights(undo) :
                                     \A k \in UndoHeights(undo) : h <= k
<1>1. undo = {} <=> UndoHeights(undo) = {}
  BY DEF UndoHeights
<1> QED BY <1>1 DEF EarliestOf

(* Every step of the database is a step of the header list, or none. *)
LEMMA NextRefines == IInv /\ DInv /\ [Next]_vars => [Abstract!Next]_(Abstract!hcVars)
<1> SUFFICES ASSUME IInv, DInv, [Next]_vars PROVE [Abstract!Next]_(Abstract!hcVars)
  OBVIOUS
<1>0. /\ db \in Database /\ mem \in Memory /\ db.chain \in Seq(Blocks)
      /\ db.undo \subseteq UndoRecord
      /\ phase \in {"unclean", "running"} =>
           mem.tip = TipOf(db.chain) /\ mem.height = Len(db.chain) - 1
  BY DEF IInv, TypeOK, Database, CopiesMatchDatabase, DbIsOpen
<1>1. ASSUME NEW b \in Blocks, NEW saveUndo \in BOOLEAN, NEW notify \in BOOLEAN,
             AddBlock(b, saveUndo, notify)
      PROVE  Abstract!Next
  <2> DEFINE n == Len(db.chain)
  <2>1. /\ phase = "running" /\ phase' = phase /\ Verifies(b) /\ n < MaxHeaders
        /\ db' = AddedDb(b, saveUndo, n) /\ mem' = AddedMem(b, saveUndo, n)
        /\ db'.chain = Append(db.chain, b)
    BY <1>1, AddBlockSteps
  <2>2. Parent[b] = Abstract!Tip
    BY <1>0, <2>1 DEF Verifies, TipOf, Abstract!Tip
  <2>3. UndoHeights(db'.undo)
          = (UndoHeights(db.undo) \cup {h \in {n} : saveUndo})
              \ ExpiredHeights(n, EarliestWith(saveUndo, n))
    <3>1. n \in Nat
      BY <1>0
    <3> QED BY <2>1, <3>1, AddedUndoHeights
  <2>4. /\ mem'.earliestUndo = (IF ExpiredHeights(n, EarliestWith(saveUndo, n)) = {}
                                THEN EarliestWith(saveUndo, n) ELSE n - mem.undoDepth + 1)
        /\ mem'.undoDepth = mem.undoDepth
    BY <2>1 DEF AddedMem
  <2>5. Abstract!Extend(b, saveUndo)
    BY <2>1, <2>2, <2>3, <2>4 DEF Abstract!Extend, ExpiredHeights, EarliestWith, DbIsOpen
  <2> QED BY <2>5 DEF Abstract!Next
<1>2. ASSUME UndoLatestBlock \/ UncleanUndo
      PROVE  Abstract!Next
  <2>1. /\ phase \in {"unclean", "running"} /\ phase' = "running" /\ CanUndo
        /\ \E u \in UndoRecords(mem.height) : db' = UndoneDb(u) /\ mem' = UndoneMem(u)
    BY <1>2, UndoSteps
  <2>2. PICK u \in UndoRecords(mem.height) : db' = UndoneDb(u) /\ mem' = UndoneMem(u)
    BY <2>1
  <2>3. /\ mem.height = Len(db.chain) - 1 /\ mem.height > 0
        /\ u \in db.undo /\ u.height = mem.height
    BY <1>0, <2>1 DEF UndoRecords, CanUndo
  <2>4. Abstract!Height = mem.height /\ Abstract!CanRetract
    BY <2>3 DEF Abstract!Height, Abstract!CanRetract, UndoHeights
  <2>5. /\ db'.chain = SubSeq(db.chain, 1, mem.height)
        /\ db'.undo = {v \in db.undo : v.height # mem.height}
        /\ mem'.undoDepth = mem.undoDepth
        /\ mem'.earliestUndo = IF mem.earliestUndo >= mem.height THEN InvalidUndoHeight
                               ELSE mem.earliestUndo
    BY <2>2, <2>3 DEF UndoneDb, UndoneMem
  <2>6. UndoHeights(db'.undo) = UndoHeights(db.undo) \ {mem.height}
    BY <2>5 DEF UndoHeights
  <2>7. Abstract!Retract
    BY <2>1, <2>4, <2>5, <2>6 DEF Abstract!Retract, DbIsOpen
  <2> QED BY <2>7 DEF Abstract!Next
<1>3. ASSUME NEW d \in UndoDepths, Startup(d)
      PROVE  Abstract!Next
  <2>1. /\ phase = "latched" /\ phase' \in {"unclean", "running"}
        /\ mem' = LoadedMem(db', d)
        /\ db'.chain = db.chain /\ db'.undo = TrimmedUndos(db.undo, d)
    BY <1>3, StartupSteps
  <2>2. d \in Nat \ {0} /\ \A u \in db.undo : u.height \in Nat
    BY <1>0, Limits DEF UndoRecord
  <2>3. UndoHeights(db'.undo) = Abstract!KeptAtOpen(UndoHeights(db.undo), d)
    BY <2>1, <2>2, TrimmedHeights
  <2>4. mem'.undoDepth = d /\ mem'.earliestUndo = EarliestOf(db'.undo)
    BY <2>1 DEF LoadedMem
  <2>5. Abstract!Open(d)
    BY <2>1, <2>3, <2>4, EarliestOfHeights DEF Abstract!Open, DbIsOpen
  <2> QED BY <2>5 DEF Abstract!Next
<1>4. CASE UncleanProceed
  BY <1>4 DEF UncleanProceed, Abstract!hcVars, DbIsOpen
<1>5. CASE CloseDb
  <2>1. Abstract!Close
    BY <1>5 DEF CloseDb, EmptyMem, Abstract!Close, Abstract!Closed, DbIsOpen
  <2> QED BY <2>1 DEF Abstract!Next
<1>8. ASSUME DetectLatch \/ CreateLatch \/ AbortStartup \/ RemoveLatch
      PROVE  UNCHANGED Abstract!hcVars
  <2>1. db' = db /\ mem' = mem /\ DbIsOpen' = DbIsOpen
    BY <1>8 DEF DetectLatch, CreateLatch, AbortStartup, RemoveLatch, DbIsOpen
  <2> QED BY <2>1 DEF Abstract!hcVars
<1>9. CASE Crash /\ ~ DbIsOpen
  <2>1. db' = db /\ mem' = mem /\ DbIsOpen' = DbIsOpen
    BY <1>9 DEF Crash, DInv, DbIsOpen
  <2> QED BY <2>1 DEF Abstract!hcVars
<1>6. CASE Crash /\ DbIsOpen
  <2> DEFINE n == Len(db'.chain)
  <2>1. /\ phase \in {"unclean", "running"} /\ phase' = "down" /\ mem' = EmptyMem
        /\ db' \in durable
    BY <1>6 DEF Crash, DbIsOpen
  <2>2. DbOK(db') /\ db'.chain \in Seq(Blocks) /\ db'.undo \subseteq UndoRecord
    BY <2>1 DEF IInv, DbOK, Database
  <2>3. n \in 0 .. Len(db.chain) /\ db'.chain = SubSeq(db.chain, 1, n)
    BY <1>0, <2>1, <2>2 DEF DInv, IsPrefixOf
  <2>4. UndoHeights(db'.undo) \in SUBSET (0 .. n - 1)
    <3>1. \A u \in db'.undo : u.height \in Nat /\ u.height < n
      BY <2>2 DEF DbOK, UndoMatchesChainOf, UndoRecord
    <3>2. n \in Nat
      BY <2>2
    <3> QED BY <3>1, <3>2 DEF UndoHeights
  <2>5. Abstract!Lose(n)
    BY <2>1, <2>3, <2>4 DEF Abstract!Lose, Abstract!Closed, EmptyMem, DbIsOpen
  <2> QED BY <2>3, <2>5 DEF Abstract!Next
<1>7. CASE UNCHANGED vars
  BY <1>7 DEF vars, Abstract!hcVars, DbIsOpen
<1> QED BY <1>1, <1>2, <1>3, <1>4, <1>5, <1>6, <1>7, <1>8, <1>9 DEF Next

(* The database with its memory copies implements the header list the       *)
(* Controller is built on, for every block tree.                            *)
THEOREM Refinement == Spec => ImplementsHeaderChain
<1>1. Init => Abstract!Init
  BY DEF Init, Abstract!Init, EmptyDb, EmptyMem, UndoHeights, DbIsOpen
<1> QED BY <1>1, NextRefines, Invariance, DurabilityInvariance, PTL
        DEF Spec, ImplementsHeaderChain, Abstract!Spec
=============================================================================
