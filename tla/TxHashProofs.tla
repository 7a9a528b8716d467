------------------------------ MODULE TxHashProofs ------------------------------
(***************************************************************************)
(* Proofs about TxHashCaches: the cache of hashes by TxNum is right for    *)
(* every number of threads, blocks and transactions, and every size of the *)
(* cache.                                                                  *)
(***************************************************************************)
EXTENDS TxHashCaches, TLAPS

Info == [id : Nat, txNum0 : Nat, nTx : Nat \ {0}]
Tx == Nat \X Nat

EndOf(bi) == bi.txNum0 + bi.nTx
LastInfo == blkInfos[Len(blkInfos)]

(* The variables of the Controller's thread. *)
ChainTypes ==
    /\ made \in Nat /\ nRecs \in Nat
    /\ blkInfos \in Seq(Info) /\ blkInfos # << >>
    /\ txNums \in Seq(Tx)
    /\ ctl \in {"idle", "add", "undo", "truncated"}

(* The local variables of a client thread. *)
Locals ==
    [pc : {"idle", "lookup", "read", "insert", "done", "info", "readblock", "insertblock"},
     height : Nat, pos : Nat, bi : Info \cup {NoInfo}, ret : Tx \cup Seq(Tx)]

ReaderTypes == rd \in [Readers -> Locals]

(* Every block has TxNums of its own, in the order of the chain. *)
RangesAreOrdered ==
    \A i, j \in 1 .. Len(blkInfos) : i < j => EndOf(blkInfos[i]) <= blkInfos[j].txNum0

(* How far the counts in memory are ahead of the database, or behind it. *)
CountsAgree ==
    /\ ctl = "idle" => nRecs = EndOf(LastInfo) /\ Len(txNums) = nRecs
    /\ ctl = "add" => nRecs = EndOf(LastInfo) /\ Len(txNums) = LastInfo.txNum0
    /\ ctl = "undo" => EndOf(LastInfo) <= Len(txNums)
    /\ ctl = "truncated" => nRecs = EndOf(LastInfo) /\ nRecs <= Len(txNums)

(* The blocks whose hashes are in the database. *)
Written == IF ctl = "add" THEN 1 .. Len(blkInfos) - 1 ELSE 1 .. Len(blkInfos)

HashesInPlace ==
    \A i \in Written : \A k \in 0 .. blkInfos[i].nTx - 1 :
        txNums[blkInfos[i].txNum0 + k + 1] = TxHash(blkInfos[i].id, k)

(* A thread with blocksLock knows a block of the present chain, and keeps   *)
(* the Controller's thread out.                                             *)
ReadersAreCurrent ==
    \A r \in Readers : HoldsBlocksLock(r) =>
        /\ ctl = "idle"
        /\ rd[r].height \in 0 .. Len(blkInfos) - 1
        /\ rd[r].bi = blkInfos[rd[r].height + 1]
        /\ rd[r].pos \in 0 .. rd[r].bi.nTx - 1
        /\ rd[r].pc = "insert" => rd[r].ret = TxHash(rd[r].bi.id, rd[r].pos)

(* Nothing is cached while TxNums are being recycled. *)
CacheIsClear == ctl \in {"undo", "truncated"} => DOMAIN num2Hash = {}

CacheTypes == DOMAIN num2Hash \subseteq Nat

IInv ==
    /\ ChainTypes /\ ReaderTypes /\ CacheTypes
    /\ RangesAreOrdered /\ CountsAgree /\ HashesInPlace
    /\ ReadersAreCurrent /\ CacheIsClear
    /\ NumCacheIsRight

-----------------------------------------------------------------------------
(* The operators of the caches *)

(* An insertion may push entries out; what is left besides the new entry    *)
(* was there before.                                                        *)
LEMMA InsertFacts ==
    ASSUME NEW c, NEW k, NEW v, NEW cap, NEW f \in Inserts(c, k, v, cap)
    PROVE  /\ DOMAIN f \subseteq DOMAIN c \cup {k}
           /\ f[k] = v
           /\ \A x \in DOMAIN f : x # k => x \in DOMAIN c /\ f[x] = c[x]
<1>1. PICK keep \in SUBSET DOMAIN c : f = [x \in keep \cup {k} |-> IF x = k THEN v ELSE c[x]]
  BY DEF Inserts
<1> QED BY <1>1

(* What appending one list to another does. *)
LEMMA ConcatFacts ==
    ASSUME NEW S, NEW s \in Seq(S), NEW t \in Seq(S)
    PROVE  /\ s \o t \in Seq(S) /\ Len(s \o t) = Len(s) + Len(t)
           /\ \A i \in 1 .. Len(s) : (s \o t)[i] = s[i]
OBVIOUS

(* What a prefix of a list is. *)
LEMMA PrefixFacts ==
    ASSUME NEW S, NEW s \in Seq(S), NEW k \in 0 .. Len(s)
    PROVE  /\ SubSeq(s, 1, k) \in Seq(S) /\ Len(SubSeq(s, 1, k)) = k
           /\ \A i \in 1 .. k : SubSeq(s, 1, k)[i] = s[i]
OBVIOUS

-----------------------------------------------------------------------------
(* The steps of the client threads *)

(* The thread sees a block of the chain, so its TxNum is one of the         *)
(* database's, and the hash there is the one it is looking for.             *)
LEMMA ReaderFacts ==
    ASSUME IInv, NEW r \in Readers, HoldsBlocksLock(r)
    PROVE  /\ ctl = "idle"
           /\ rd[r].height \in 0 .. Len(blkInfos) - 1
           /\ rd[r].bi = blkInfos[rd[r].height + 1] /\ rd[r].bi \in Info
           /\ rd[r].pos \in 0 .. rd[r].bi.nTx - 1
           /\ txNumOf(r) \in Nat /\ txNumOf(r) < Len(txNums)
           /\ txNums[txNumOf(r) + 1] = TxHash(rd[r].bi.id, rd[r].pos)
           /\ TxHash(rd[r].bi.id, rd[r].pos) \in Tx
<1> DEFINE i == rd[r].height + 1
           n == Len(blkInfos)
<1>1. /\ ctl = "idle" /\ rd[r].height \in 0 .. n - 1
      /\ rd[r].bi = blkInfos[i] /\ rd[r].pos \in 0 .. rd[r].bi.nTx - 1
  BY DEF IInv, ReadersAreCurrent
<1>2. n \in Nat \ {0} /\ i \in 1 .. n /\ blkInfos[i] \in Info /\ blkInfos[n] \in Info
  BY <1>1 DEF IInv, ChainTypes
<1>3. EndOf(blkInfos[i]) <= EndOf(blkInfos[n])
  <2>1. CASE i = n
    BY <1>2, <2>1 DEF EndOf, Info
  <2>2. CASE i < n
    BY <1>2, <2>2, SMTT(30) DEF IInv, RangesAreOrdered, EndOf, Info
  <2> QED BY <1>2, <2>1, <2>2
<1>4. Len(txNums) = EndOf(blkInfos[n])
  BY <1>1 DEF IInv, CountsAgree, LastInfo
<1>5. txNumOf(r) \in Nat /\ txNumOf(r) < Len(txNums)
  <2>1. rd[r].bi.txNum0 \in Nat /\ rd[r].bi.nTx \in Nat /\ rd[r].pos \in Nat
        /\ rd[r].pos < rd[r].bi.nTx /\ Len(txNums) \in Nat
    <3>1. rd[r].bi \in Info
      BY <1>1, <1>2
    <3>2. rd[r].bi.txNum0 \in Nat /\ rd[r].bi.nTx \in Nat
      BY <3>1 DEF Info
    <3>3. Len(txNums) \in Nat
      BY DEF IInv, ChainTypes
    <3> QED BY <1>1, <3>2, <3>3
  <2>2. rd[r].bi.txNum0 + rd[r].bi.nTx <= Len(txNums)
    BY <1>1, <1>3, <1>4 DEF EndOf
  <2> QED BY <2>1, <2>2 DEF txNumOf
<1>6. txNums[txNumOf(r) + 1] = TxHash(rd[r].bi.id, rd[r].pos)
  <2>1. i \in Written
    BY <1>1, <1>2 DEF Written
  <2>2. txNums[blkInfos[i].txNum0 + rd[r].pos + 1] = TxHash(blkInfos[i].id, rd[r].pos)
    BY <1>1, <2>1 DEF IInv, HashesInPlace
  <2> QED BY <1>1, <2>2 DEF txNumOf
<1>7. TxHash(rd[r].bi.id, rd[r].pos) \in Tx
  BY <1>1, <1>2, SMTT(30) DEF TxHash, Tx, Info
<1> QED BY <1>1, <1>2, <1>5, <1>6, <1>7

(* A step that changes only one thread's variables, and leaves that thread  *)
(* without the lock or with what it should know, keeps the invariant.       *)
LEMMA ReaderStep ==
    ASSUME IInv, UNCHANGED <<chainVars, num2Hash>>,
           NEW r \in Readers, NEW loc \in Locals, rd' = [rd EXCEPT ![r] = loc],
           loc.pc \in {"lookup", "read", "insert"} =>
               /\ ctl = "idle"
               /\ loc.height \in 0 .. Len(blkInfos) - 1
               /\ loc.bi = blkInfos[loc.height + 1]
               /\ loc.pos \in 0 .. loc.bi.nTx - 1
               /\ loc.pc = "insert" => loc.ret = TxHash(loc.bi.id, loc.pos)
    PROVE  IInv'
<1>1. rd \in [Readers -> Locals] /\ rd' \in [Readers -> Locals]
  BY DEF IInv, ReaderTypes
<1>2. ReadersAreCurrent'
  BY <1>1 DEF IInv, ReadersAreCurrent, HoldsBlocksLock, chainVars
<1> QED BY <1>1, <1>2
        DEF IInv, ChainTypes, ReaderTypes, CacheTypes, RangesAreOrdered, CountsAgree, LastInfo,
            HashesInPlace, Written, CacheIsClear, NumCacheIsRight, chainVars

(* Every step of a client thread keeps the invariant. *)
LEMMA ReadersKeepIInv ==
    ASSUME IInv, NEW r \in Readers,
           \/ \E height \in 0 .. MaxHeight, pos \in Positions : hashForHeightAndPos(r, height, pos)
           \/ LookupNum(r) \/ ReadNum(r) \/ InsertNum(r)
           \/ \E height \in 0 .. MaxHeight : LookupHeight(r, height)
           \/ GetBlkInfo(r) \/ ReadBlock(r) \/ InsertHeight(r)
    PROVE  IInv'
<1>1. /\ rd \in [Readers -> Locals] /\ rd[r] \in Locals
      /\ blkInfos \in Seq(Info) /\ txNums \in Seq(Tx) /\ Len(blkInfos) \in Nat
  BY DEF IInv, ReaderTypes, ChainTypes
<1>2. Idle \in Locals /\ Idle.pc = "idle"
  BY DEF Idle, Locals, Tx, Info, NoInfo
<1>3. ASSUME NEW height \in 0 .. MaxHeight, NEW pos \in Positions,
             hashForHeightAndPos(r, height, pos)
      PROVE  IInv'
  <2>1. Positions \subseteq Nat
    BY CacheConstants DEF Positions
  <2>2. height \in Nat /\ pos \in Nat
    BY <2>1, CacheConstants
  <2>3. CASE height < Len(blkInfos) /\ pos < blkInfos[height + 1].nTx
    <3> DEFINE loc == [Idle EXCEPT !.pc = "lookup", !.height = height, !.pos = pos,
                                   !.bi = blkInfos[height + 1]]
    <3>1. blkInfos[height + 1] \in Info
      BY <1>1, <2>2, <2>3
    <3>2. /\ loc \in Locals /\ loc.pc = "lookup" /\ loc.height = height /\ loc.pos = pos
          /\ loc.bi = blkInfos[height + 1]
      BY <1>2, <2>2, <3>1 DEF Locals
    <3>4. rd' = [rd EXCEPT ![r] = loc] /\ ctl = "idle" /\ UNCHANGED <<chainVars, num2Hash>>
      BY <1>3, <2>3 DEF hashForHeightAndPos, Unlocked, cacheVars
    <3>5. /\ loc.height \in 0 .. Len(blkInfos) - 1 /\ loc.bi = blkInfos[loc.height + 1]
          /\ loc.pos \in 0 .. loc.bi.nTx - 1 /\ loc.pc # "insert"
      BY <1>1, <2>2, <2>3, <3>1, <3>2, SMTT(30) DEF Info
    <3> HIDE DEF loc
    <3> QED BY <3>2, <3>4, <3>5, ReaderStep
  <2>4. CASE ~ (height < Len(blkInfos) /\ pos < blkInfos[height + 1].nTx)
    <3>1. rd' = [rd EXCEPT ![r] = Idle] /\ UNCHANGED <<chainVars, num2Hash>>
      BY <1>3, <2>4 DEF hashForHeightAndPos, cacheVars
    <3> QED BY <1>2, <3>1, ReaderStep
  <2> QED BY <2>3, <2>4
<1>4. CASE LookupNum(r)
  <2>1. rd[r].pc = "lookup" /\ UNCHANGED <<chainVars, num2Hash>>
    BY <1>4 DEF LookupNum, cacheVars
  <2>2. HoldsBlocksLock(r)
    BY <2>1 DEF HoldsBlocksLock
  <2>3. CASE txNumOf(r) \in DOMAIN num2Hash
    <3> DEFINE loc == [rd[r] EXCEPT !.pc = "done", !.ret = num2Hash[txNumOf(r)]]
    <3>1. num2Hash[txNumOf(r)] \in Tx
      BY <1>1, <2>2, <2>3, ReaderFacts DEF IInv, NumCacheIsRight
    <3>2. loc \in Locals /\ loc.pc = "done"
      BY <1>1, <3>1 DEF Locals
    <3>3. rd' = [rd EXCEPT ![r] = loc]
      BY <1>4, <2>3 DEF LookupNum
    <3> HIDE DEF loc
    <3> QED BY <2>1, <3>2, <3>3, ReaderStep
  <2>4. CASE txNumOf(r) \notin DOMAIN num2Hash
    <3> DEFINE loc == [rd[r] EXCEPT !.pc = "read"]
    <3>1. /\ loc \in Locals /\ loc.pc = "read" /\ loc.height = rd[r].height
          /\ loc.bi = rd[r].bi /\ loc.pos = rd[r].pos
      BY <1>1 DEF Locals
    <3>2. rd' = [rd EXCEPT ![r] = loc]
      BY <1>4, <2>4 DEF LookupNum
    <3> HIDE DEF loc
    <3> QED BY <2>1, <2>2, <3>1, <3>2, ReaderFacts, ReaderStep
  <2> QED BY <2>3, <2>4
<1>5. CASE ReadNum(r)
  <2>1. rd[r].pc = "read" /\ UNCHANGED <<chainVars, num2Hash>>
    BY <1>5 DEF ReadNum, cacheVars
  <2>2. HoldsBlocksLock(r)
    BY <2>1 DEF HoldsBlocksLock
  <2>3. CASE CanRead(txNumOf(r), 1)
    <3> DEFINE loc == [rd[r] EXCEPT !.pc = "insert", !.ret = txNums[txNumOf(r) + 1]]
    <3>1. txNums[txNumOf(r) + 1] = TxHash(rd[r].bi.id, rd[r].pos)
          /\ txNums[txNumOf(r) + 1] \in Tx
      BY <2>2, ReaderFacts
    <3>2. /\ loc \in Locals /\ loc.pc = "insert" /\ loc.height = rd[r].height
          /\ loc.bi = rd[r].bi /\ loc.pos = rd[r].pos
          /\ loc.ret = TxHash(rd[r].bi.id, rd[r].pos)
      BY <1>1, <3>1 DEF Locals
    <3>3. rd' = [rd EXCEPT ![r] = loc]
      BY <1>5, <2>3 DEF ReadNum
    <3> HIDE DEF loc
    <3> QED BY <2>1, <2>2, <3>2, <3>3, ReaderFacts, ReaderStep
  <2>4. CASE ~ CanRead(txNumOf(r), 1)
    <3>1. rd' = [rd EXCEPT ![r] = Idle]
      BY <1>5, <2>4 DEF ReadNum
    <3> QED BY <1>2, <2>1, <3>1, ReaderStep
  <2> QED BY <2>3, <2>4
<1>6. CASE InsertNum(r)
  <2>1. /\ rd[r].pc = "insert" /\ HoldsBlocksLock(r) /\ UNCHANGED chainVars
        /\ num2Hash' \in Inserts(num2Hash, txNumOf(r), rd[r].ret, NumCap)
        /\ rd' = [rd EXCEPT ![r].pc = "done"]
    BY <1>6 DEF InsertNum, HoldsBlocksLock
  <2>2. /\ ctl = "idle" /\ txNumOf(r) \in Nat /\ txNumOf(r) < Len(txNums)
        /\ rd[r].ret = txNums[txNumOf(r) + 1]
    BY <2>1, ReaderFacts DEF IInv, ReadersAreCurrent
  <2>3. /\ DOMAIN num2Hash' \subseteq DOMAIN num2Hash \cup {txNumOf(r)}
        /\ num2Hash'[txNumOf(r)] = rd[r].ret
        /\ \A x \in DOMAIN num2Hash' : x # txNumOf(r) =>
             x \in DOMAIN num2Hash /\ num2Hash'[x] = num2Hash[x]
    BY <2>1, InsertFacts
  <2>4. CacheTypes' /\ NumCacheIsRight' /\ CacheIsClear'
    BY <2>1, <2>2, <2>3 DEF IInv, CacheTypes, NumCacheIsRight, CacheIsClear, chainVars
  <2>5. rd' \in [Readers -> Locals]
    BY <1>1, <2>1 DEF Locals
  <2>6. ReadersAreCurrent'
    BY <1>1, <2>1, <2>5 DEF IInv, ReadersAreCurrent, HoldsBlocksLock, chainVars
  <2> QED BY <2>1, <2>4, <2>5, <2>6
          DEF IInv, ChainTypes, ReaderTypes, RangesAreOrdered, CountsAgree, LastInfo,
              HashesInPlace, Written, chainVars
<1>7. ASSUME NEW height \in 0 .. MaxHeight, LookupHeight(r, height)
      PROVE  IInv'
  <2> DEFINE asks == [Idle EXCEPT !.pc = "info", !.height = height]
             loc == IF height \in DOMAIN height2Hashes THEN Idle ELSE asks
  <2>1. loc \in Locals /\ loc.pc \in {"idle", "info"}
    <3>1. height \in Nat
      BY CacheConstants
    <3>2. asks \in Locals /\ asks.pc = "info"
      BY <1>2, <3>1 DEF Locals
    <3> QED BY <1>2, <3>2
  <2>2. rd' = [rd EXCEPT ![r] = loc] /\ UNCHANGED <<chainVars, num2Hash>>
    BY <1>7 DEF LookupHeight, cacheVars
  <2> HIDE DEF loc
  <2> QED BY <2>1, <2>2, ReaderStep
<1>8. CASE GetBlkInfo(r)
  <2> DEFINE loc == IF rd[r].height < Len(blkInfos)
                    THEN [rd[r] EXCEPT !.pc = "readblock", !.bi = blkInfos[rd[r].height + 1]]
                    ELSE Idle
  <2>1. rd[r].height < Len(blkInfos) => blkInfos[rd[r].height + 1] \in Info
    BY <1>1 DEF Locals
  <2>2. loc \in Locals /\ loc.pc \in {"idle", "readblock"}
    BY <1>1, <1>2, <2>1 DEF Locals
  <2>3. rd' = [rd EXCEPT ![r] = loc] /\ UNCHANGED <<chainVars, num2Hash>>
    BY <1>8 DEF GetBlkInfo, cacheVars
  <2> HIDE DEF loc
  <2> QED BY <2>2, <2>3, ReaderStep
<1>9. CASE ReadBlock(r)
  <2> DEFINE bi == rd[r].bi
             hashes == SubSeq(txNums, bi.txNum0 + 1, bi.txNum0 + bi.nTx)
             loc == IF CanRead(bi.txNum0, bi.nTx)
                    THEN [rd[r] EXCEPT !.pc = "insertblock", !.ret = hashes]
                    ELSE Idle
  <2>1. bi.txNum0 \in Nat /\ bi.nTx \in Nat
    BY <1>1 DEF Locals, Info, NoInfo
  <2>2. CanRead(bi.txNum0, bi.nTx) => hashes \in Seq(Tx)
    BY <1>1, <2>1 DEF CanRead
  <2>3. loc \in Locals /\ loc.pc \in {"idle", "insertblock"}
    BY <1>1, <1>2, <2>2 DEF Locals
  <2>4. rd' = [rd EXCEPT ![r] = loc] /\ UNCHANGED <<chainVars, num2Hash>>
    BY <1>9 DEF ReadBlock, cacheVars
  <2> HIDE DEF loc
  <2> QED BY <2>3, <2>4, ReaderStep
<1>10. CASE InsertHeight(r)
  <2>1. rd' = [rd EXCEPT ![r] = Idle] /\ UNCHANGED <<chainVars, num2Hash>>
    BY <1>10 DEF InsertHeight
  <2> QED BY <1>2, <2>1, ReaderStep
<1> QED BY <1>3, <1>4, <1>5, <1>6, <1>7, <1>8, <1>9, <1>10

-----------------------------------------------------------------------------
(* The steps of the Controller's thread *)

(* Nothing that a client thread with the lock knows is touched, since there *)
(* is no such thread.                                                       *)
LEMMA AddKeepsIInv ==
    ASSUME IInv, NEW nTx \in BlockSizes, addBlock(nTx)
    PROVE  IInv'
<1> DEFINE n == Len(blkInfos)
           new == [id |-> made + 1, txNum0 |-> nRecs, nTx |-> nTx]
<1>1. /\ ctl = "idle" /\ \A r \in Readers : ~ HoldsBlocksLock(r)
      /\ made' = made + 1 /\ blkInfos' = Append(blkInfos, new) /\ nRecs' = nRecs + nTx
      /\ ctl' = "add" /\ txNums' = txNums /\ rd' = rd /\ num2Hash' = num2Hash
  BY DEF addBlock, CanLock, Unlocked, cacheVars
<1>2. /\ blkInfos \in Seq(Info) /\ n \in Nat \ {0} /\ new \in Info /\ nTx \in Nat \ {0}
      /\ made \in Nat /\ nRecs \in Nat /\ \A i \in 1 .. n : blkInfos[i] \in Info
  <2>1. /\ blkInfos \in Seq(Info) /\ blkInfos # << >> /\ made \in Nat /\ nRecs \in Nat
    BY DEF IInv, ChainTypes
  <2>2. nTx \in Nat \ {0}
    BY CacheConstants
  <2>3. new \in Info
    BY <2>1, <2>2 DEF Info
  <2>4. n \in Nat \ {0} /\ \A i \in 1 .. n : blkInfos[i] \in Info
    BY <2>1
  <2> QED BY <2>1, <2>2, <2>3, <2>4
<1>3. /\ Len(blkInfos') = n + 1 /\ blkInfos'[n + 1] = new /\ blkInfos' \in Seq(Info)
      /\ \A i \in 1 .. n : blkInfos'[i] = blkInfos[i]
  BY <1>1, <1>2
<1>4. EndOf(blkInfos[n]) = nRecs /\ Len(txNums) = nRecs
  BY <1>1 DEF IInv, CountsAgree, LastInfo
<1>5. ChainTypes'
  BY <1>1, <1>2, <1>3 DEF IInv, ChainTypes
<1>6. RangesAreOrdered'
  <2> SUFFICES ASSUME NEW i \in 1 .. n + 1, NEW j \in 1 .. n + 1, i < j
               PROVE  EndOf(blkInfos'[i]) <= blkInfos'[j].txNum0
    BY <1>3 DEF RangesAreOrdered, EndOf
  <2>1. i \in 1 .. n /\ blkInfos'[i] = blkInfos[i]
    BY <1>2, <1>3
  <2>2. CASE j = n + 1
    <3>1. EndOf(blkInfos[i]) <= EndOf(blkInfos[n])
      <4>1. CASE i = n
        BY <1>2, <4>1 DEF EndOf, Info
      <4>2. CASE i < n
        <5>1. EndOf(blkInfos[i]) <= blkInfos[n].txNum0
          BY <1>2, <2>1, <4>2 DEF IInv, RangesAreOrdered
        <5>2. blkInfos[i] \in Info /\ blkInfos[n] \in Info
          BY <1>2, <2>1
        <5> QED BY <5>1, <5>2 DEF EndOf, Info
      <4> QED BY <1>2, <2>1, <4>1, <4>2
    <3> QED BY <1>3, <1>4, <2>1, <2>2, <3>1
  <2>3. CASE j # n + 1
    <3>1. j \in 1 .. n /\ blkInfos'[j] = blkInfos[j]
      BY <1>2, <1>3, <2>3
    <3> QED BY <2>1, <3>1 DEF IInv, RangesAreOrdered
  <2> QED BY <2>2, <2>3
<1>7. CountsAgree'
  BY <1>1, <1>2, <1>3, <1>4 DEF CountsAgree, LastInfo, EndOf
<1>8. HashesInPlace'
  <2>1. Written' = 1 .. n /\ Written = 1 .. n
    BY <1>1, <1>2, <1>3 DEF Written
  <2>2. \A i \in 1 .. n : \A k \in 0 .. blkInfos[i].nTx - 1 :
            txNums[blkInfos[i].txNum0 + k + 1] = TxHash(blkInfos[i].id, k)
    BY <2>1 DEF IInv, HashesInPlace
  <2> QED BY <1>1, <1>3, <2>1, <2>2, ZenonT(30) DEF HashesInPlace, TxHash
<1>9. ReadersAreCurrent'
  BY <1>1 DEF ReadersAreCurrent, HoldsBlocksLock
<1> QED BY <1>1, <1>5, <1>6, <1>7, <1>8, <1>9
        DEF IInv, ReaderTypes, CacheTypes, CacheIsClear, NumCacheIsRight

(* The batch puts the hashes of the block where its TxNums are. *)
LEMMA WriteAddKeepsIInv ==
    ASSUME IInv, WriteAdd
    PROVE  IInv'
<1> DEFINE n == Len(blkInfos)
           b == blkInfos[n]
           m == Len(txNums)
<1>1. /\ ctl = "add" /\ ctl' = "idle" /\ txNums' = txNums \o HashesOf(b)
      /\ made' = made /\ blkInfos' = blkInfos /\ nRecs' = nRecs /\ rd' = rd
      /\ num2Hash' = num2Hash
  BY DEF WriteAdd, cacheVars
<1>2. /\ blkInfos \in Seq(Info) /\ n \in Nat \ {0} /\ b \in Info /\ txNums \in Seq(Tx)
      /\ m \in Nat /\ \A i \in 1 .. n : blkInfos[i] \in Info
  BY DEF IInv, ChainTypes
<1>3. b.txNum0 \in Nat /\ b.nTx \in Nat \ {0} /\ b.id \in Nat
  BY <1>2 DEF Info
<1>4. /\ HashesOf(b) \in Seq(Tx) /\ Len(HashesOf(b)) = b.nTx
      /\ \A k \in 0 .. b.nTx - 1 : HashesOf(b)[k + 1] = TxHash(b.id, k)
  <2>1. \A k \in 1 .. b.nTx : TxHash(b.id, k - 1) \in Tx
    BY <1>3 DEF TxHash, Tx
  <2>2. HashesOf(b) = [k \in 1 .. b.nTx |-> TxHash(b.id, k - 1)]
    BY DEF HashesOf
  <2> HIDE DEF b
  <2>3. HashesOf(b) \in Seq(Tx) /\ Len(HashesOf(b)) = b.nTx
    BY <1>3, <2>1, <2>2
  <2>4. ASSUME NEW k \in 0 .. b.nTx - 1 PROVE HashesOf(b)[k + 1] = TxHash(b.id, k)
    <3>1. k + 1 \in 1 .. b.nTx /\ (k + 1) - 1 = k
      BY <1>3
    <3> QED BY <2>2, <3>1
  <2> QED BY <2>3, <2>4
<1>5. m = b.txNum0 /\ nRecs = b.txNum0 + b.nTx
  BY <1>1 DEF IInv, CountsAgree, LastInfo, EndOf
<1> HIDE DEF b
<1>6. /\ txNums' \in Seq(Tx) /\ Len(txNums') = m + b.nTx
      /\ \A i \in 1 .. m : txNums'[i] = txNums[i]
      /\ \A k \in 0 .. b.nTx - 1 : txNums'[m + k + 1] = TxHash(b.id, k)
  <2>0. \E t : t = HashesOf(b)
    OBVIOUS
  <2>t. PICK t : t = HashesOf(b)
    BY <2>0
  <2>a. txNums \in Seq(Tx) /\ t \in Seq(Tx) /\ Len(t) = b.nTx /\ txNums' = txNums \o t
    BY <1>1, <1>2, <1>4, <2>t
  <2>1. /\ txNums' \in Seq(Tx) /\ Len(txNums') = m + b.nTx
        /\ \A i \in 1 .. m : txNums'[i] = txNums[i]
    BY <2>a, ConcatFacts
  <2>2. ASSUME NEW k \in 0 .. b.nTx - 1 PROVE txNums'[m + k + 1] = HashesOf(b)[k + 1]
    BY <1>1, <1>2, <1>3, <1>4
  <2> QED BY <1>4, <2>1, <2>2
<1>7. ChainTypes'
  BY <1>1, <1>6 DEF IInv, ChainTypes
<1>8. CountsAgree'
  BY <1>1, <1>3, <1>5, <1>6 DEF CountsAgree, LastInfo, EndOf, b
<1>9. HashesInPlace'
  <2> SUFFICES ASSUME NEW i \in 1 .. n, NEW k \in 0 .. blkInfos[i].nTx - 1
               PROVE  txNums'[blkInfos[i].txNum0 + k + 1] = TxHash(blkInfos[i].id, k)
    BY <1>1 DEF HashesInPlace, Written, TxHash
  <2>1. CASE i = n
    BY <1>5, <1>6, <2>1 DEF b
  <2>2. CASE i # n
    <3>1. i \in Written /\ i < n
      BY <1>1, <1>2, <2>2 DEF Written
    <3>2. txNums[blkInfos[i].txNum0 + k + 1] = TxHash(blkInfos[i].id, k)
      BY <3>1 DEF IInv, HashesInPlace
    <3>3. blkInfos[i].txNum0 + blkInfos[i].nTx <= m
      BY <1>2, <1>5, <3>1 DEF IInv, RangesAreOrdered, EndOf, b
    <3>4. blkInfos[i].txNum0 \in Nat /\ blkInfos[i].nTx \in Nat
      BY <1>2 DEF Info
    <3>5. blkInfos[i].txNum0 + k + 1 \in 1 .. m
      BY <1>2, <3>3, <3>4
    <3> QED BY <1>6, <3>2, <3>5
  <2> QED BY <2>1, <2>2
<1>10. NumCacheIsRight'
  <2> SUFFICES ASSUME NEW x \in DOMAIN num2Hash
               PROVE  x < Len(txNums') /\ num2Hash[x] = txNums'[x + 1]
    BY <1>1 DEF NumCacheIsRight
  <2>1. x \in Nat /\ x < m /\ num2Hash[x] = txNums[x + 1]
    BY DEF IInv, CacheTypes, NumCacheIsRight
  <2> QED BY <1>2, <1>3, <1>6, <2>1, SMTT(30)
<1>11. ReadersAreCurrent'
  BY <1>1 DEF IInv, ReadersAreCurrent, HoldsBlocksLock
<1> QED BY <1>1, <1>7, <1>8, <1>9, <1>10, <1>11
        DEF IInv, ReaderTypes, CacheTypes, CacheIsClear, RangesAreOrdered, EndOf

(* An undo forgets the whole cache before any TxNum is recycled. *)
LEMMA UndoKeepsIInv ==
    ASSUME IInv, undoLatestBlock
    PROVE  IInv'
<1> DEFINE n == Len(blkInfos)
<1>1. /\ ctl = "idle" /\ \A r \in Readers : ~ HoldsBlocksLock(r)
      /\ n > 1 /\ blkInfos' = SubSeq(blkInfos, 1, n - 1) /\ num2Hash' = << >>
      /\ made' = made /\ nRecs' = nRecs /\ ctl' = "undo" /\ txNums' = txNums /\ rd' = rd
  BY DEF undoLatestBlock, CanLock, Unlocked
<1>2. /\ blkInfos \in Seq(Info) /\ n \in Nat /\ \A i \in 1 .. n : blkInfos[i] \in Info
  BY DEF IInv, ChainTypes
<1>3. /\ Len(blkInfos') = n - 1 /\ blkInfos' \in Seq(Info) /\ blkInfos' # << >>
      /\ \A i \in 1 .. n - 1 : blkInfos'[i] = blkInfos[i]
  <2>1. n - 1 \in 0 .. n /\ n - 1 # 0
    BY <1>1, <1>2
  <2>2. /\ Len(blkInfos') = n - 1 /\ blkInfos' \in Seq(Info)
        /\ \A i \in 1 .. n - 1 : blkInfos'[i] = blkInfos[i]
    BY <1>1, <1>2, <2>1, PrefixFacts
  <2>3. blkInfos' # << >>
    BY <2>1, <2>2
  <2> QED BY <2>2, <2>3
<1>4. ChainTypes'
  BY <1>1, <1>3 DEF IInv, ChainTypes
<1>5. RangesAreOrdered'
  BY <1>1, <1>2, <1>3 DEF IInv, RangesAreOrdered, EndOf
<1>6. CountsAgree'
  <2>1. EndOf(blkInfos[n - 1]) <= blkInfos[n].txNum0
    BY <1>1, <1>2 DEF IInv, RangesAreOrdered
  <2>2. EndOf(blkInfos[n]) = Len(txNums)
    BY <1>1 DEF IInv, CountsAgree, LastInfo
  <2>3. n - 1 \in 1 .. n /\ n \in 1 .. n
    BY <1>1, <1>2
  <2>4. /\ blkInfos[n - 1].txNum0 \in Nat /\ blkInfos[n - 1].nTx \in Nat
        /\ blkInfos[n].txNum0 \in Nat /\ blkInfos[n].nTx \in Nat
    BY <1>2, <2>3 DEF Info
  <2>5. EndOf(blkInfos[n - 1]) <= Len(txNums)
    BY <2>1, <2>2, <2>4 DEF EndOf
  <2>6. LastInfo' = blkInfos[n - 1]
    BY <1>1, <1>2, <1>3 DEF LastInfo
  <2> QED BY <1>1, <2>5, <2>6 DEF CountsAgree, EndOf
<1>7. HashesInPlace'
  <2>1. Written' = 1 .. n - 1 /\ Written = 1 .. n
    BY <1>1, <1>3 DEF Written
  <2> SUFFICES ASSUME NEW i \in 1 .. n - 1, NEW k \in 0 .. blkInfos'[i].nTx - 1
               PROVE  txNums'[blkInfos'[i].txNum0 + k + 1] = TxHash(blkInfos'[i].id, k)
    BY <2>1 DEF HashesInPlace, TxHash
  <2>2. blkInfos'[i] = blkInfos[i] /\ i \in Written
    BY <1>2, <1>3, <2>1
  <2>3. k \in 0 .. blkInfos[i].nTx - 1
    BY <2>2
  <2>4. txNums[blkInfos[i].txNum0 + k + 1] = TxHash(blkInfos[i].id, k)
    BY <2>2, <2>3 DEF IInv, HashesInPlace
  <2> QED BY <1>1, <2>2, <2>4
<1>8. ReadersAreCurrent'
  BY <1>1 DEF ReadersAreCurrent, HoldsBlocksLock
<1>9. CacheTypes' /\ CacheIsClear' /\ NumCacheIsRight'
  BY <1>1 DEF CacheTypes, CacheIsClear, NumCacheIsRight
<1> QED BY <1>1, <1>4, <1>5, <1>6, <1>7, <1>8, <1>9 DEF IInv, ReaderTypes

(* The record file is shortened while the database still holds the keys. *)
LEMMA TruncateKeepsIInv ==
    ASSUME IInv, TruncateTxNums
    PROVE  IInv'
<1>1. /\ ctl = "undo" /\ ctl' = "truncated" /\ nRecs' = EndOf(LastInfo)
      /\ made' = made /\ blkInfos' = blkInfos /\ txNums' = txNums /\ rd' = rd
      /\ num2Hash' = num2Hash
  BY DEF TruncateTxNums, cacheVars, EndOf, LastInfo
<1>2. LastInfo \in Info
  BY DEF IInv, ChainTypes, LastInfo
<1>3. EndOf(LastInfo) \in Nat
  BY <1>2 DEF EndOf, Info
<1>4. ChainTypes'
  BY <1>1, <1>3 DEF IInv, ChainTypes
<1>5. CountsAgree'
  BY <1>1 DEF IInv, CountsAgree, LastInfo, EndOf
<1>6. HashesInPlace'
  BY <1>1 DEF IInv, HashesInPlace, Written, TxHash
<1>7. ReadersAreCurrent'
  BY <1>1 DEF IInv, ReadersAreCurrent, HoldsBlocksLock
<1> QED BY <1>1, <1>4, <1>5, <1>6, <1>7
        DEF IInv, ReaderTypes, CacheTypes, CacheIsClear, NumCacheIsRight, RangesAreOrdered, EndOf

(* The keys that go are the ones past the last block that is left. *)
LEMMA WriteUndoKeepsIInv ==
    ASSUME IInv, WriteUndo
    PROVE  IInv'
<1> DEFINE n == Len(blkInfos)
<1>1. /\ ctl = "truncated" /\ ctl' = "idle" /\ txNums' = SubSeq(txNums, 1, nRecs)
      /\ made' = made /\ blkInfos' = blkInfos /\ nRecs' = nRecs /\ rd' = rd
      /\ num2Hash' = num2Hash
  BY DEF WriteUndo, cacheVars
<1>2. /\ blkInfos \in Seq(Info) /\ n \in Nat \ {0} /\ txNums \in Seq(Tx)
      /\ \A i \in 1 .. n : blkInfos[i] \in Info
  BY DEF IInv, ChainTypes
<1>3. nRecs = EndOf(blkInfos[n]) /\ nRecs \in 0 .. Len(txNums)
  BY <1>1 DEF IInv, ChainTypes, CountsAgree, LastInfo
<1>4. /\ txNums' \in Seq(Tx) /\ Len(txNums') = nRecs
      /\ \A i \in 1 .. nRecs : txNums'[i] = txNums[i]
  BY <1>1, <1>2, <1>3
<1>5. ChainTypes'
  BY <1>1, <1>4 DEF IInv, ChainTypes
<1>6. CountsAgree'
  BY <1>1, <1>3, <1>4 DEF CountsAgree, LastInfo, EndOf
<1>7. HashesInPlace'
  <2> SUFFICES ASSUME NEW i \in 1 .. n, NEW k \in 0 .. blkInfos[i].nTx - 1
               PROVE  txNums'[blkInfos[i].txNum0 + k + 1] = TxHash(blkInfos[i].id, k)
    BY <1>1 DEF HashesInPlace, Written, TxHash
  <2>1. txNums[blkInfos[i].txNum0 + k + 1] = TxHash(blkInfos[i].id, k)
    BY <1>1 DEF IInv, HashesInPlace, Written
  <2>2. /\ blkInfos[i].txNum0 \in Nat /\ blkInfos[i].nTx \in Nat
        /\ blkInfos[n].txNum0 \in Nat /\ blkInfos[n].nTx \in Nat
    BY <1>2 DEF Info
  <2>3. EndOf(blkInfos[i]) <= nRecs
    <3>1. CASE i = n
      BY <1>3, <2>2, <3>1 DEF EndOf
    <3>2. CASE i # n
      <4>1. EndOf(blkInfos[i]) <= blkInfos[n].txNum0
        BY <1>2, <3>2 DEF IInv, RangesAreOrdered
      <4> QED BY <1>3, <2>2, <4>1 DEF EndOf
    <3> QED BY <3>1, <3>2
  <2>4. blkInfos[i].txNum0 + k + 1 \in 1 .. nRecs
    <3>1. nRecs \in Nat /\ blkInfos[i].txNum0 + blkInfos[i].nTx <= nRecs
      BY <1>3, <2>3 DEF EndOf
    <3>2. blkInfos[i].txNum0 \in Nat /\ blkInfos[i].nTx \in Nat
      BY <2>2
    <3> QED BY <3>1, <3>2
  <2> QED BY <1>4, <2>1, <2>4
<1>8. ReadersAreCurrent'
  BY <1>1 DEF IInv, ReadersAreCurrent, HoldsBlocksLock
<1>9. NumCacheIsRight'
  BY <1>1 DEF IInv, CacheIsClear, NumCacheIsRight
<1> QED BY <1>1, <1>5, <1>6, <1>7, <1>8, <1>9
        DEF IInv, ReaderTypes, CacheTypes, CacheIsClear, RangesAreOrdered, EndOf

-----------------------------------------------------------------------------
(* The theorems *)

LEMMA InitIInv == Init => IInv
<1> SUFFICES ASSUME Init PROVE IInv
  OBVIOUS
<1> DEFINE genesis == [id |-> 1, txNum0 |-> 0, nTx |-> 1]
<1>1. /\ made = 1 /\ ctl = "idle" /\ nRecs = 1 /\ blkInfos = <<genesis>>
      /\ txNums = HashesOf(genesis) /\ num2Hash = << >> /\ rd = [r \in Readers |-> Idle]
  BY DEF Init
<1>2. genesis \in Info /\ blkInfos[1] = genesis /\ Len(blkInfos) = 1
  BY <1>1 DEF Info
<1>3. /\ txNums \in Seq(Tx) /\ Len(txNums) = 1 /\ txNums[1] = TxHash(1, 0)
  <2>1. txNums = [k \in 1 .. 1 |-> TxHash(1, k - 1)]
    BY <1>1 DEF HashesOf
  <2>2. \A k \in 1 .. 1 : TxHash(1, k - 1) \in Tx
    BY DEF TxHash, Tx
  <2> QED BY <2>1, <2>2
<1>4. ChainTypes
  BY <1>1, <1>2, <1>3 DEF ChainTypes
<1>5. Idle \in Locals /\ Idle.pc = "idle"
  BY DEF Idle, Locals, Tx, Info, NoInfo
<1>6. ReaderTypes /\ ReadersAreCurrent
  BY <1>1, <1>5 DEF ReaderTypes, ReadersAreCurrent, HoldsBlocksLock
<1>7. RangesAreOrdered /\ CountsAgree
  BY <1>1, <1>2, <1>3 DEF RangesAreOrdered, CountsAgree, LastInfo, EndOf
<1>8. HashesInPlace
  BY <1>1, <1>2, <1>3 DEF HashesInPlace, Written
<1> QED BY <1>1, <1>4, <1>6, <1>7, <1>8
        DEF IInv, CacheTypes, CacheIsClear, NumCacheIsRight

(* Every step keeps the invariant. *)
LEMMA NextIInv == IInv /\ [Next]_vars => IInv'
<1> SUFFICES ASSUME IInv, [Next]_vars PROVE IInv'
  OBVIOUS
<1>1. CASE UNCHANGED vars
  BY <1>1 DEF vars, chainVars, cacheVars, IInv, ChainTypes, ReaderTypes, CacheTypes,
              RangesAreOrdered, EndOf, CountsAgree, LastInfo, HashesInPlace, Written, TxHash,
              ReadersAreCurrent, HoldsBlocksLock, CacheIsClear, NumCacheIsRight
<1>2. CASE Next
  BY <1>2, ReadersKeepIInv, AddKeepsIInv, WriteAddKeepsIInv, UndoKeepsIInv, TruncateKeepsIInv,
     WriteUndoKeepsIInv DEF Next
<1> QED BY <1>1, <1>2

(* The inductive invariant holds in every behaviour. *)
THEOREM Invariance == Spec => []IInv
BY InitIInv, NextIInv, PTL DEF Spec

(* lruNum2Hash never holds a hash the database does not have under that     *)
(* TxNum, whatever undos recycled.                                          *)
THEOREM NumCacheCorrect == Spec => []NumCacheIsRight
<1>1. IInv => NumCacheIsRight
  BY DEF IInv
<1> QED BY <1>1, Invariance, PTL

(* hashForHeightAndPos answers with the transaction that the present chain  *)
(* has at this height and position, from the cache or from the database.    *)
THEOREM PosAnswersCorrect == Spec => PosAnswersAreRight
<1> DEFINE Right == \A r \in Readers :
               rd[r].pc \in {"lookup", "insert"} /\ rd'[r].pc = "done" =>
                   /\ rd[r].height < Len(blkInfos)
                   /\ rd'[r].ret = TxHash(blkInfos[rd[r].height + 1].id, rd[r].pos)
<1>1. IInv /\ [Next]_vars => [Right]_vars
  <2> SUFFICES ASSUME IInv, Next, NEW r \in Readers,
                      rd[r].pc \in {"lookup", "insert"}, rd'[r].pc = "done"
               PROVE  /\ rd[r].height < Len(blkInfos)
                      /\ rd'[r].ret = TxHash(blkInfos[rd[r].height + 1].id, rd[r].pos)
    OBVIOUS
  <2>1. HoldsBlocksLock(r) /\ rd \in [Readers -> Locals] /\ rd[r] \in Locals
    BY DEF HoldsBlocksLock, IInv, ReaderTypes
  <2>2. /\ rd[r].height \in 0 .. Len(blkInfos) - 1 /\ rd[r].bi = blkInfos[rd[r].height + 1]
        /\ Len(blkInfos) \in Nat
        /\ txNums[txNumOf(r) + 1] = TxHash(rd[r].bi.id, rd[r].pos)
        /\ rd[r].pc = "insert" => rd[r].ret = TxHash(rd[r].bi.id, rd[r].pos)
    BY <2>1, ReaderFacts DEF IInv, ReadersAreCurrent, ChainTypes
  <2>3. rd'[r].ret = TxHash(rd[r].bi.id, rd[r].pos)
    <3>1. LookupNum(r) \/ InsertNum(r)
      <4>1. rd' # rd
        OBVIOUS
      <4>2. ASSUME NEW q \in Readers, q # r, rd'[r] # rd[r]
            PROVE  ~ (\/ \E height \in 0 .. MaxHeight, pos \in Positions :
                               hashForHeightAndPos(q, height, pos)
                      \/ LookupNum(q) \/ ReadNum(q) \/ InsertNum(q)
                      \/ \E height \in 0 .. MaxHeight : LookupHeight(q, height)
                      \/ GetBlkInfo(q) \/ ReadBlock(q) \/ InsertHeight(q))
        BY <2>1, <4>2 DEF hashForHeightAndPos, LookupNum, ReadNum, InsertNum, LookupHeight,
                          GetBlkInfo, ReadBlock, InsertHeight
      <4>3. rd'[r] # rd[r]
        OBVIOUS
      <4>4. ~ (\/ \E height \in 0 .. MaxHeight, pos \in Positions :
                        hashForHeightAndPos(r, height, pos)
               \/ ReadNum(r)
               \/ \E height \in 0 .. MaxHeight : LookupHeight(r, height)
               \/ GetBlkInfo(r) \/ ReadBlock(r) \/ InsertHeight(r))
        BY DEF hashForHeightAndPos, Waiting, ReadNum, LookupHeight, GetBlkInfo, ReadBlock,
               InsertHeight
      <4>5. ~ (\/ \E nTx \in BlockSizes : addBlock(nTx)
               \/ WriteAdd \/ undoLatestBlock \/ TruncateTxNums \/ WriteUndo)
        BY <4>1 DEF addBlock, WriteAdd, undoLatestBlock, TruncateTxNums, WriteUndo
      <4> QED BY <4>2, <4>3, <4>4, <4>5 DEF Next
    <3>2. CASE InsertNum(r)
      <4>1. rd[r].pc = "insert" /\ rd' = [rd EXCEPT ![r].pc = "done"]
        BY <3>2 DEF InsertNum
      <4>2. rd'[r].ret = rd[r].ret
        BY <2>1, <4>1 DEF Locals
      <4> QED BY <2>2, <4>1, <4>2
    <3>3. CASE LookupNum(r)
      <4>1. txNumOf(r) \in DOMAIN num2Hash
        BY <2>1, <3>3 DEF LookupNum, Locals
      <4>2. rd' = [rd EXCEPT ![r] = [rd[r] EXCEPT !.pc = "done", !.ret = num2Hash[txNumOf(r)]]]
        BY <3>3, <4>1 DEF LookupNum
      <4>3. rd'[r].ret = num2Hash[txNumOf(r)]
        BY <2>1, <4>2 DEF Locals
      <4> QED BY <2>2, <4>1, <4>3 DEF IInv, NumCacheIsRight
    <3> QED BY <3>1, <3>2, <3>3
  <2> QED BY <2>2, <2>3
<1> QED BY <1>1, Invariance, PTL DEF Spec, PosAnswersAreRight
=============================================================================
