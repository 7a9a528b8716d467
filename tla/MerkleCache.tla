------------------------------- MODULE MerkleCache -------------------------------
(***************************************************************************)
(* Merkle::Cache, the cached level of the merkle tree over the block ids,  *)
(* from which client threads compute the proofs for cp_height.  The cache  *)
(* has its own lock; the headers it is computed from are read from the     *)
(* record array, which the Controller's thread shortens before it          *)
(* truncates the cache, and lengthens before the record can be read.       *)
(*                                                                         *)
(* A hash is modelled by what it is the hash of: two hashes are equal iff  *)
(* they are hashes of the same things.                                     *)
(***************************************************************************)
EXTENDS Integers, Sequences, SequencesExt

CONSTANTS
    Readers,     \* client threads
    InitLens,    \* possible numbers of headers at startup
    MaxLen,      \* bound on the number of headers
    MaxUndos     \* bound on the number of blocks undone

ASSUME MerkleConstants == InitLens \subseteq 0 .. MaxLen /\ MaxLen \in Nat /\ MaxUndos \in Nat

VARIABLES
    db,      \* the headers in the database; blocks of different branches differ
    nRecs,   \* DBRecordArray::nRecs of the headers
    undos,   \* number of blocks undone
    ctl,     \* where the Controller's thread is in addBlock or undoLatestBlock
    cache,   \* length, depthHigher, level, initialized of Merkle::Cache
    lock,    \* {} or the client thread in branchAndRoot
    rd       \* local variables of the client threads

vars == <<db, nRecs, undos, ctl, cache, lock, rd>>

-----------------------------------------------------------------------------
(* Merkle.h and Merkle.cpp: pure functions *)

Leaf(h, b) == <<(MaxUndos + 1) * h + b>>
Hash(a, b) == <<a, b>>

(* 1 << k *)
Pow2[k \in Nat] == IF k = 0 THEN 1 ELSE 2 * Pow2[k - 1]

branchLength(count) == CHOOSE k \in 0 .. count : Pow2[k] >= count /\ (k > 0 => Pow2[k - 1] < count)

treeDepth(count) == branchLength(count) + 1

EvenOut(hashes) == IF Len(hashes) % 2 = 1 THEN Append(hashes, Last(hashes)) ELSE hashes

recomputeHashes(hashes) ==
    [i \in 1 .. Len(hashes) \div 2 |-> Hash(hashes[2 * i - 1], hashes[2 * i])]

Sibling(index) == IF index % 2 = 0 THEN index + 1 ELSE index - 1

(* What the vector of hashes holds after i turns of the loop. *)
Turns(hashVec, length) ==
    LET hashes[i \in 0 .. length] ==
            EvenOut(IF i = 0 THEN hashVec ELSE recomputeHashes(hashes[i - 1]))
    IN  hashes

(* Merkle::branchAndRoot with an explicit length, which pads the branch. *)
branchAndRootOfLength(hashVec, index, length) ==
    LET hashes == Turns(hashVec, length)
    IN  [branch |-> [i \in 1 .. length |-> hashes[i - 1][Sibling(index \div Pow2[i - 1]) + 1]],
         root   |-> hashes[length][1]]

branchAndRoot(hashVec, index) == branchAndRootOfLength(hashVec, index, branchLength(Len(hashVec)))

(* Merkle::level: the row depthHigher rows above the leaves. *)
levelOf(hashes, depthHigher) ==
    LET size == Pow2[depthHigher]
    IN  [k \in 1 .. (Len(hashes) + size - 1) \div size |->
            branchAndRootOfLength(SubSeq(hashes, (k - 1) * size + 1,
                                         IF k * size < Len(hashes) THEN k * size ELSE Len(hashes)),
                                  0, depthHigher).root]

(* Merkle::branchAndRootFromLevel; its failure is the empty branch and root. *)
Inconsistent == [branch |-> <<>>, root |-> <<>>]

branchAndRootFromLevel(level, leafHashes, index, depthHigher) ==
    LET leafIndex == (index \div Pow2[depthHigher]) * Pow2[depthHigher]
        up        == index \div Pow2[depthHigher]
        leafPair  == branchAndRootOfLength(leafHashes, index - leafIndex, depthHigher)
        levelPair == branchAndRoot(level, up)
    IN  IF up >= Len(level) \/ leafPair.root # level[up + 1] THEN Inconsistent
        ELSE [branch |-> leafPair.branch \o levelPair.branch, root |-> levelPair.root]

-----------------------------------------------------------------------------
(* Merkle::Cache *)

segmentLength == Pow2[cache.depthHigher]
leafStart(index) == (index \div segmentLength) * segmentLength

(* merkleCacheHelperFunc, DBRecordArray::readRecords: a read of no record at *)
(* all, past nRecs, or of a record that is not yet written, is an error.     *)
CanGetHashes(from, count) == count > 0 /\ from + count <= nRecs /\ from + count <= Len(db)
getHashes(from, count) == [i \in 1 .. count |-> Leaf(from + i - 1, db[from + i])]

NoCache == [initialized |-> FALSE, length |-> 0, depthHigher |-> 0, level |-> <<>>]

initialize_nolock(n) ==
    LET depthHigher == treeDepth(n) \div 2
    IN  [initialized |-> TRUE, length |-> n, depthHigher |-> depthHigher,
         level |-> levelOf(getHashes(0, n), depthHigher)]

Extended(l) ==
    LET start == leafStart(cache.length)
    IN  [cache EXCEPT !.length = l,
                      !.level = SubSeq(cache.level, 1, start \div segmentLength)
                                \o levelOf(getHashes(start, l - start), cache.depthHigher)]

CanExtendTo(l) ==
    LET start == leafStart(cache.length)
    IN  CanGetHashes(start, l - start) /\ start \div segmentLength <= Len(cache.level)

Idle == [pc |-> "idle", length |-> 0, index |-> 0, leaves |-> <<>>, ret |-> Inconsistent,
         reorg |-> FALSE]
Waiting(r) == rd[r].pc \in {"idle", "done", "failed"}

(* The handlers ask for a height up to cp_height, and for a cp_height up to  *)
(* the tip, which they cannot read while a block is added or undone; a       *)
(* cp_height of 0 asks for no proof.                                         *)
Request(r, length, index) ==
    /\ Waiting(r)
    /\ ctl = "idle"
    /\ rd' = [rd EXCEPT ![r] = [Idle EXCEPT !.pc = "ask", !.length = length, !.index = index]]
    /\ UNCHANGED <<db, nRecs, undos, ctl, cache, lock>>

Fail(r) ==
    /\ rd' = [rd EXCEPT ![r].pc = "failed"]
    /\ lock' = {}

Step(r, pc) == rd' = [rd EXCEPT ![r].pc = pc]

Acquire(r) ==
    /\ rd[r].pc = "ask"
    /\ \/ cache.initialized /\ lock = {} /\ lock' = {r} /\ Step(r, "extend")
       \/ ~ cache.initialized /\ Step(r, "failed") /\ UNCHANGED lock
    /\ UNCHANGED <<db, nRecs, undos, ctl, cache>>

extendTo(r) ==
    LET l == rd[r].length
    IN  /\ rd[r].pc = "extend"
        /\ \/ l <= cache.length /\ Step(r, "leaves") /\ UNCHANGED <<cache, lock>>
           \/ /\ l > cache.length /\ CanExtendTo(l)
              /\ cache' = Extended(l) /\ Step(r, "leaves") /\ UNCHANGED lock
           \/ l > cache.length /\ ~ CanExtendTo(l) /\ Fail(r) /\ UNCHANGED cache
        /\ UNCHANGED <<db, nRecs, undos, ctl>>

(* The leaves of the segment of the requested header; a tree of less than a  *)
(* segment is answered from them alone.                                      *)
GetLeaves(r) ==
    LET ls    == leafStart(rd[r].index)
        count == IF segmentLength < rd[r].length - ls THEN segmentLength ELSE rd[r].length - ls
        got   == getHashes(ls, count)
    IN  /\ rd[r].pc = "leaves"
        /\ \/ ~ CanGetHashes(ls, count) /\ Fail(r)
           \/ /\ CanGetHashes(ls, count)
              /\ IF rd[r].length < segmentLength
                 THEN /\ rd' = [rd EXCEPT ![r].pc = "done",
                                           ![r].ret = branchAndRoot(got, rd[r].index)]
                      /\ lock' = {}
                 ELSE /\ rd' = [rd EXCEPT ![r].pc = "level", ![r].leaves = got]
                      /\ UNCHANGED lock
        /\ UNCHANGED <<db, nRecs, undos, ctl, cache>>

AnswerFrom(r, level) ==
    LET ret == branchAndRootFromLevel(level, rd[r].leaves, rd[r].index, cache.depthHigher)
    IN  /\ rd' = [rd EXCEPT ![r].pc = IF ret = Inconsistent THEN "failed" ELSE "done",
                             ![r].ret = ret]
        /\ lock' = {}

(* Mutant: the last entry of the level stands for a full segment. *)
levelForWholeSegments(r) ==
    /\ rd[r].pc = "level"
    /\ AnswerFrom(r, SubSeq(cache.level, 1, (rd[r].length + segmentLength - 1) \div segmentLength))
    /\ UNCHANGED <<db, nRecs, undos, ctl, cache>>

levelFor(r) ==
    LET l     == rd[r].length
        limit == l \div segmentLength
        start == leafStart(l)
        ok    == limit < Len(cache.level) /\ CanGetHashes(start, l - start)
    IN  /\ rd[r].pc = "level"
        /\ \/ l = cache.length /\ AnswerFrom(r, cache.level)
           \/ l # cache.length /\ ~ ok /\ Fail(r)
           \/ /\ l # cache.length /\ ok
              /\ AnswerFrom(r, SubSeq(cache.level, 1, limit)
                               \o levelOf(getHashes(start, l - start), cache.depthHigher))
        /\ UNCHANGED <<db, nRecs, undos, ctl, cache>>

-----------------------------------------------------------------------------
(* The Controller's thread *)

appendHeader ==
    /\ ctl = "idle"
    /\ nRecs < MaxLen
    /\ nRecs' = nRecs + 1
    /\ ctl' = "add"
    /\ UNCHANGED <<db, undos, cache, lock, rd>>

WriteAdd ==
    /\ ctl = "add"
    /\ db' = Append(db, undos)
    /\ ctl' = "idle"
    /\ UNCHANGED <<nRecs, undos, cache, lock, rd>>

deleteHeadersPastHeight ==
    /\ ctl = "idle"
    /\ nRecs > 1
    /\ undos < MaxUndos
    /\ undos' = undos + 1
    /\ nRecs' = nRecs - 1
    /\ ctl' = "undo"
    /\ rd' = [r \in Readers |-> [rd[r] EXCEPT !.reorg = TRUE]]
    /\ UNCHANGED <<db, cache, lock>>

(* Mutant: the length is not rounded down to whole segments. *)
truncateInSegment ==
    /\ ctl = "undo"
    /\ lock = {}
    /\ cache' = IF ~ cache.initialized \/ cache.length <= nRecs THEN cache
                ELSE [cache EXCEPT !.length = nRecs,
                                   !.level = SubSeq(@, 1, (nRecs + segmentLength - 1) \div segmentLength)]
    /\ ctl' = "truncated"
    /\ UNCHANGED <<db, nRecs, undos, lock, rd>>

truncate ==
    /\ ctl = "undo"
    /\ cache.initialized => lock = {}
    /\ cache' = IF ~ cache.initialized \/ cache.length <= nRecs THEN cache
                ELSE [cache EXCEPT !.length = leafStart(nRecs),
                                   !.level = SubSeq(@, 1, nRecs \div segmentLength)]
    /\ ctl' = "truncated"
    /\ UNCHANGED <<db, nRecs, undos, lock, rd>>

WriteUndo ==
    /\ ctl = "truncated"
    /\ db' = SubSeq(db, 1, nRecs)
    /\ ctl' = "idle"
    /\ UNCHANGED <<nRecs, undos, cache, lock, rd>>

updateMerkleCache ==
    /\ ctl = "idle"
    /\ ~ cache.initialized
    /\ nRecs > 1
    /\ lock = {}
    /\ cache' = initialize_nolock(nRecs)
    /\ UNCHANGED <<db, nRecs, undos, ctl, lock, rd>>

-----------------------------------------------------------------------------

(* loadCheckHeadersInDB initializes the cache when there are headers. *)
Init ==
    /\ nRecs \in InitLens
    /\ db = [i \in 1 .. nRecs |-> 0]
    /\ undos = 0 /\ ctl = "idle" /\ lock = {}
    /\ cache = IF nRecs > 0 THEN initialize_nolock(nRecs) ELSE NoCache
    /\ rd = [r \in Readers |-> Idle]

Next ==
    \/ \E r \in Readers :
           \/ \E length \in 2 .. nRecs : \E index \in 0 .. length - 1 : Request(r, length, index)
           \/ Acquire(r)
           \/ extendTo(r)
           \/ GetLeaves(r)
           \/ levelFor(r)
    \/ appendHeader
    \/ WriteAdd
    \/ deleteHeadersPastHeight
    \/ truncate
    \/ WriteUndo
    \/ updateMerkleCache

Spec == Init /\ [][Next]_vars

-----------------------------------------------------------------------------
(* Properties *)

(* The merkle tree over a list of leaves: Tree(leaves)[k][s] is the hash of  *)
(* the 2^k leaves from the s-th on, or of those that there are; a node whose *)
(* right half would be empty is the hash of its left half with itself.       *)
Tree(leaves) ==
    LET node[k \in Nat] ==
            [s \in 0 .. Len(leaves) - 1 |->
                IF k = 0 THEN leaves[s + 1]
                ELSE LET right == s + Pow2[k - 1]
                     IN  Hash(node[k - 1][s], node[k - 1][IF right < Len(leaves) THEN right ELSE s])]
    IN  node

RootOf(leaves) == Tree(leaves)[branchLength(Len(leaves))][0]

(* What a client computes from a header, its height and a branch. *)
RootFromBranch(leaf, index, branch) ==
    LET h[i \in 0 .. Len(branch)] ==
            IF i = 0 THEN leaf
            ELSE IF (index \div Pow2[i - 1]) % 2 = 1 THEN Hash(branch[i], h[i - 1])
            ELSE Hash(h[i - 1], branch[i])
    IN  h[Len(branch)]

(* The row of the merkle tree over the first n headers of the database with  *)
(* one node for every segment of 2^d headers.                                *)
RowOfSegments(n, d) ==
    [k \in 1 .. (n + Pow2[d] - 1) \div Pow2[d] |-> Tree(getHashes(0, n))[d][(k - 1) * Pow2[d]]]

(* The cached level is the row of the merkle tree over the first `length`    *)
(* headers of the database, also while a block is added or undone, and also  *)
(* when a reorg stopped inside a segment.                                    *)
LevelIsRight ==
    cache.initialized =>
        /\ cache.length <= Len(db)
        /\ cache.level = RowOfSegments(cache.length, cache.depthHigher)

(* An answered proof leads from the header to the root of the merkle tree    *)
(* over the first cp_height + 1 headers as they are in the database then,    *)
(* however calls, new blocks and reorgs interleave.                          *)
AnswersAreRight ==
    [][\A r \in Readers : rd[r].pc \in {"leaves", "level"} /\ rd'[r].pc = "done" =>
          LET n     == rd[r].length
              index == rd[r].index
              ret   == rd'[r].ret
          IN  /\ n <= Len(db)
              /\ ret.root = RootOf(getHashes(0, n))
              /\ RootFromBranch(Leaf(index, db[index + 1]), index, ret.branch) = ret.root]_vars

(* Storage.h on headerBranchAndRoot: "May throw in rare circumstances if     *)
(* there was a reorg and cp_height is no longer <= chain height."  No other  *)
(* call throws.                                                              *)
ThrowsOnlyAfterReorg ==
    \A r \in Readers : rd[r].pc = "failed" => rd[r].reorg
=============================================================================
