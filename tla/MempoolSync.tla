---------------------------- MODULE MempoolSync ----------------------------
(***************************************************************************)
(* How the copy of the mempool follows bitcoind: SynchMempoolTask and      *)
(* SynchDSPsTask, the blocks that are added and undone between them, and   *)
(* the script hashes each of them reports to the subscriptions.            *)
(*                                                                         *)
(* The Controller runs one of these at a time, so they share one stage;    *)
(* bitcoind moves on at every point between two of their steps.            *)
(***************************************************************************)
EXTENDS Mempool

CONSTANTS
    kRedoCtMax,           \* rounds of a task that may be redone
    kFailedDownloadMax,   \* downloads that may fail while none succeeded
    MaxEvents             \* bound: what happens at bitcoind, and requests that fail

ASSUME MempoolSyncConstants == kRedoCtMax \in Nat /\ kFailedDownloadMax \in Nat

VARIABLES
    chain,     \* bitcoind's blocks, after a genesis block without transactions of interest
    pool,      \* bitcoind's mempool
    proofs,    \* bitcoind's double-spend proofs
    events,    \* events so far
    db,        \* the blocks in the database
    mp,        \* Storage::Pvt::mempool
    stage,     \* "synching" the blocks, or a task's State
    task,      \* the members of SynchMempoolTask
    dsp,       \* the members of SynchDSPsTask
    owed,      \* history: script hashes whose history changed and that were not reported since
    lost,      \* history: those of them that were dropped without a report
    evicted,   \* history: transactions that left bitcoind's mempool
    fresh      \* history: the last step on mp was a task's success, on a list that bitcoind
               \* made with db's blocks in its chain

bitcoind == <<chain, pool, proofs, evicted>>
indexer  == <<db, mp, stage, task, dsp, owed, lost, fresh>>
vars     == <<bitcoind, events, indexer>>

Stages == {"synching", "Start", "DlTxs", "GetDSPList", "DownloadingNewDSPs"}

Genesis == [branch |-> 0, txs |-> {}]

Confirmed(blocks) == UNION {blocks[i].txs : i \in DOMAIN blocks}

(* The utxo set of a chain. *)
Utxos(blocks) ==
    (Coins \cup UNION {Outs[t] : t \in Confirmed(blocks)}) \ UNION {Ins[t] : t \in Confirmed(blocks)}

(* What getHistory gives for a script hash: the confirmed transactions with *)
(* their heights, then the vector of the mempool, where a transaction with  *)
(* unconfirmed parents has height -1 and another one 0.                     *)
History(blocks, m, h) ==
    <<{ti \in Confirmed(blocks) \X DOMAIN blocks :
           ti[1] \in blocks[ti[2]].txs /\ h \in ShsOf(ti[1])},
      [k \in DOMAIN m.hx[h] |->
          <<m.hx[h][k], IF hasUnconfirmedParents(m.txs, m.hx[h][k]) THEN -1 ELSE 0>>]>>

Changed == {h \in ShSet : History(db, mp, h) # History(db', mp', h)}

(* enqueueNotifications of hs, in a step that throws away what it knows of  *)
(* the script hashes in dropped.                                            *)
Report(hs, dropped) ==
    /\ owed' = (owed \cup Changed) \ hs
    /\ lost' = (lost \cup dropped) \ hs

-----------------------------------------------------------------------------
(* bitcoind *)

Conflicts(ts, t) == {u \in ts \ {t} : Ins[u] \cap Ins[t] # {}}

(* The transactions of ts all of whose ancestors are in ts or in the chain. *)
Viable(ts, utxos) ==
    UNION {s \in SUBSET ts : \A t \in s : Ins[t] \subseteq utxos \cup UNION {Outs[u] : u \in s}}

ConflictFree == {ts \in SUBSET Txs : \A t \in ts : Conflicts(ts, t) = {}}

ValidSets(utxos) == {ts \in ConflictFree : Viable(ts, utxos) = ts}

Event == events < MaxEvents /\ events' = events + 1

(* A proof is kept as long as its transaction. *)
PoolBecomes(ts) ==
    /\ pool' = ts
    /\ evicted' = evicted \cup (pool \ ts)
    /\ proofs' = {d \in proofs : DspTx[d] \in ts}

(* t replaces what conflicts with it. *)
Accept(t) ==
    /\ Event /\ UNCHANGED indexer
    /\ t \notin pool \cup Confirmed(chain)
    /\ LET kept == Viable(pool \ Conflicts(pool, t), Utxos(chain))
       IN  /\ Ins[t] \subseteq Utxos(chain) \cup UNION {Outs[u] : u \in kept}
           /\ PoolBecomes(kept \cup {t})
    /\ UNCHANGED chain

Evict(t) ==
    /\ Event /\ UNCHANGED indexer
    /\ t \in pool
    /\ PoolBecomes(Viable(pool \ {t}, Utxos(chain)))
    /\ UNCHANGED chain

(* A block on top of blocks, where the transactions of ts are unconfirmed.  *)
(* What it conflicts with leaves the mempool.                               *)
Connect(blocks, ts, branch) ==
    \E block \in ValidSets(Utxos(blocks)) :
        /\ block # {}
        /\ block \cap Confirmed(blocks) = {}
        /\ chain' = Append(blocks, [branch |-> branch, txs |-> block])
        /\ PoolBecomes(Viable({t \in ts \ block : Conflicts(block, t) = {}}, Utxos(chain')))

Mine == Event /\ UNCHANGED indexer /\ Connect(chain, pool, Last(chain).branch)

(* Another block takes the place of the last one, whose transactions go     *)
(* back to the mempool.                                                     *)
Reorg ==
    /\ Event /\ UNCHANGED indexer
    /\ Len(chain) > 1
    /\ LET block == Last(chain)
           back  == {t \in block.txs : Conflicts(pool, t) = {}}
       IN  Connect(Front(chain), pool \cup back, block.branch + 1)

DoubleSpendProof(d) ==
    /\ Event /\ UNCHANGED indexer
    /\ d \notin proofs
    /\ DspTx[d] \in pool
    /\ proofs' = proofs \cup {d}
    /\ UNCHANGED <<chain, pool, evicted>>

BitcoindMoves ==
    \/ \E t \in Txs : Accept(t) \/ Evict(t)
    \/ \E d \in Dsps : DoubleSpendProof(d)
    \/ Mine
    \/ Reorg

-----------------------------------------------------------------------------
(* Blocks: what Storage::addBlock and undoLatestBlock do to the mempool *)

Idle == stage = "synching" /\ UNCHANGED <<stage, task, dsp>>

addBlock ==
    /\ Idle
    /\ IsStrictPrefix(db, chain)
    /\ LET block == chain[Len(db) + 1]
       IN  /\ db' = Append(db, block)
           /\ mp' = confirmedInBlock(mp, block.txs)
           /\ Report(ConfirmAffected(mp, block.txs) \cup ShsOfAll(block.txs), {})
    /\ fresh' = FALSE
    /\ UNCHANGED <<bitcoind, events>>

(* All that is in the mempool m, and in the block that is undone. *)
UndoAffected(m) == {h \in ShSet : m.hx[h] # <<>>} \cup ShsOfAll(Last(db).txs)

undoLatestBlock(m) ==
    /\ Len(db) > 1
    /\ db' = Front(db)
    /\ mp' = clear
    /\ Report(UndoAffected(m), ShsOfAll(InMempool(mp) \ InMempool(m)))
    /\ fresh' = FALSE

(* The block at bitcoind's tip is another one than ours. *)
DoUndoAndRetry ==
    /\ Idle
    /\ Len(chain) <= Len(db) /\ chain # db
    /\ undoLatestBlock(mp)
    /\ UNCHANGED <<bitcoind, events>>

(* The next block has another parent: addBlock throws, but only after       *)
(* confirmedInBlock, and the block below it is undone.                      *)
addBlockThrows ==
    /\ Idle
    /\ Len(chain) > Len(db) /\ ~ IsPrefix(db, chain)
    /\ undoLatestBlock(confirmedInBlock(mp, chain[Len(db) + 1].txs))
    /\ UNCHANGED <<bitcoind, events>>

-----------------------------------------------------------------------------
(* SynchMempoolTask *)

NewTask == [need |-> {}, got |-> {}, failed |-> {}, tentative |-> {}, redoCt |-> 0,
            affected |-> {}, listedAhead |-> FALSE]

NewDspTask == [need |-> {}, got |-> [d \in Dsps |-> {}]]

(* The blocks are synched: a task is made. *)
SynchMempool ==
    /\ stage = "synching"
    /\ db = chain
    /\ stage' = "Start"
    /\ task' = NewTask
    /\ UNCHANGED <<bitcoind, events, db, mp, dsp, owed, lost, fresh>>

(* The destructor of the task reports what it has affected. *)
EndTask(affected, dropped, next) ==
    /\ stage' = next
    /\ task' = NewTask
    /\ Report(affected, dropped)

(* Mutant: the redone round starts with nothing affected. *)
RedoForgets(affected, dropped) ==
    IF task.redoCt + 1 > kRedoCtMax THEN EndTask(affected, dropped, "synching")
    ELSE /\ stage' = "Start"
         /\ task' = [NewTask EXCEPT !.redoCt = task.redoCt + 1]
         /\ Report({}, dropped)

(* clear() keeps redoCt and the affected script hashes. *)
redoFromStart(affected, dropped) ==
    IF task.redoCt + 1 > kRedoCtMax THEN EndTask(affected, dropped, "synching")
    ELSE /\ stage' = "Start"
         /\ task' = [NewTask EXCEPT !.redoCt = task.redoCt + 1, !.affected = affected]
         /\ Report({}, dropped)

(* Mutant: only what was in our mempool. *)
TentativeOldOnly == InMempool(mp)

(* What is not looked up in the database: transactions that are, or were up *)
(* to now, in the mempool.                                                  *)
Tentative == InMempool(mp) \cup pool

(* Mutant: with nothing new there is nothing to do. *)
DroppedIfNew == IF pool \subseteq InMempool(mp) THEN {} ELSE InMempool(mp) \ pool

Dropped == InMempool(mp) \ pool

(* The reply to getrawmempool.  Dropping what is gone may drop more, its    *)
(* descendants, although bitcoind has them.                                 *)
doGetRawMempool ==
    LET affected == task.affected \cup DropAffected(mp, Dropped)
    IN  /\ stage = "Start"
        /\ UNCHANGED <<bitcoind, events, db, dsp>>
        /\ mp' = dropTxs(mp, Dropped)
        /\ IF InMempool(mp) \ InMempool(mp') # Dropped THEN redoFromStart(affected, {})
           ELSE /\ stage' = "DlTxs"
                /\ task' = [task EXCEPT !.need = pool \ InMempool(mp),
                                        !.tentative = Tentative,
                                        !.affected = affected,
                                        !.listedAhead = IsPrefix(db, chain)]
                /\ Report({}, {})
        /\ fresh' = FALSE

(* The replies to getrawtransaction, in any order; bitcoind has a txindex.  *)
Downloaded(t) ==
    /\ stage = "DlTxs"
    /\ t \in task.need \cap (pool \cup Confirmed(chain))
    /\ task' = [task EXCEPT !.need = @ \ {t}, !.got = @ \cup {t}]
    /\ UNCHANGED <<bitcoind, events, db, mp, stage, dsp, owed, lost, fresh>>

DownloadFailed(t) ==
    /\ stage = "DlTxs"
    /\ UNCHANGED <<bitcoind, events, db, mp, dsp, fresh>>
    /\ t \in task.need \ (pool \cup Confirmed(chain))
    /\ IF task.got = {} /\ Cardinality(task.failed \cup {t}) > kFailedDownloadMax
       THEN EndTask(task.affected, {}, "synching")
       ELSE /\ task' = [task EXCEPT !.need = @ \ {t}, !.failed = @ \cup {t}]
            /\ UNCHANGED <<stage, owed, lost>>

(* What Precache::threadFunc looks up in the database for a transaction.    *)
Precached(t) == Ins[t] \ CreatedBy(Ins[t], task.tentative)

NotInDb == {t \in task.got : ~ (Precached(t) \subseteq Utxos(db))}

PrecacheErrors ==
    /\ stage = "DlTxs"
    /\ UNCHANGED <<bitcoind, events, db, mp, dsp, fresh>>
    /\ NotInDb # {}
    /\ EndTask(task.affected, {}, "synching")

(* Downloaded transactions with a parent that failed fail too. *)
FailedParents ==
    Closure(task.failed, [t \in Txs |-> {u \in task.got : Ins[u] \cap Outs[t] # {}}])

AllDownloaded == stage = "DlTxs" /\ task.need = {} /\ NotInDb = {}

NewTxs == task.got \ FailedParents

Cached == UNION {Precached(t) : t \in task.got}

processResults ==
    LET affected == task.affected \cup ShsOfAll(NewTxs)
    IN  /\ AllDownloaded
        /\ UNCHANGED <<bitcoind, events, db, dsp>>
        /\ ~ NotFound(mp, NewTxs, Cached)
        /\ mp' = addNewTxs(mp, NewTxs, task.affected)
        /\ EndTask(affected, {}, "GetDSPList")
        /\ fresh' = task.listedAhead

(* addNewTxs throws after it added the outputs and some of the inputs.  The *)
(* mempool is cleared, and only these are remembered as affected.           *)
ConsistencyError ==
    /\ AllDownloaded
    /\ UNCHANGED <<bitcoind, events, db, dsp>>
    /\ NotFound(mp, NewTxs, Cached)
    /\ mp' = clear
    /\ \E inputs \in SUBSET {Sh[o] : o \in UNION {Ins[t] : t \in NewTxs}} :
           redoFromStart(task.affected \cup inputs \cup {Sh[o] : o \in UNION {Outs[t] : t \in NewTxs}},
                         ShsOfAll(InMempool(mp)))
    /\ fresh' = FALSE

(* A request times out or the connection is lost: genericTaskErrored. *)
RequestFails ==
    /\ stage \in {"Start", "DlTxs"}
    /\ UNCHANGED <<bitcoind, db, mp, dsp, fresh>>
    /\ Event
    /\ EndTask(task.affected, {}, "synching")

-----------------------------------------------------------------------------
(* SynchDSPsTask; the Controller goes on when it fails as when it succeeds *)

HasProof(d) == mp.dsps[d] # {}

EndDsps == stage' = "synching" /\ dsp' = NewDspTask

doGetDSPList ==
    /\ stage = "GetDSPList"
    /\ LET new == {d \in proofs : ~ HasProof(d)}
       IN  IF new = {} THEN EndDsps
           ELSE stage' = "DownloadingNewDSPs" /\ dsp' = [dsp EXCEPT !.need = new]
    /\ UNCHANGED <<bitcoind, events, db, mp, task, owed, lost, fresh>>

(* Descendants of t in bitcoind's mempool, and t itself. *)
Descendants(t) == pool \ Viable(pool \ {t}, Utxos(chain))

(* Both phases of getdsproof; the second one has the descendants.  A proof  *)
(* that is gone is ignored.                                                 *)
dlNext(d) ==
    /\ stage = "DownloadingNewDSPs"
    /\ d \in dsp.need
    /\ dsp' = [need |-> dsp.need \ {d},
               got  |-> [dsp.got EXCEPT ![d] = IF d \in proofs THEN Descendants(DspTx[d]) ELSE {}]]
    /\ UNCHANGED <<bitcoind, events, db, mp, stage, task, owed, lost, fresh>>

(* What a downloaded proof is linked to: nothing if its own transaction is  *)
(* not known yet.                                                           *)
Linked(d) ==
    IF DspTx[d] \in dsp.got[d] \cap InMempool(mp) THEN dsp.got[d] \cap InMempool(mp) ELSE {}

doProcessDownloads ==
    /\ stage = "DownloadingNewDSPs"
    /\ dsp.need = {}
    /\ mp' = [mp EXCEPT !.dsps = [d \in Dsps |-> IF HasProof(d) THEN @[d] ELSE Linked(d)]]
    /\ EndDsps
    /\ UNCHANGED <<bitcoind, events, db, task, owed, lost, fresh>>

DspRequestFails ==
    /\ stage \in {"GetDSPList", "DownloadingNewDSPs"}
    /\ Event
    /\ EndDsps
    /\ UNCHANGED <<bitcoind, db, mp, task, owed, lost, fresh>>

-----------------------------------------------------------------------------

Init ==
    /\ chain = <<Genesis>> /\ db = chain
    /\ pool \in ValidSets(Coins)
    /\ proofs = {} /\ events = 0 /\ evicted = {}
    /\ mp = clear
    /\ stage = "synching" /\ task = NewTask /\ dsp = NewDspTask
    /\ owed = {} /\ lost = {} /\ fresh = FALSE

Step ==
    \/ addBlock \/ DoUndoAndRetry \/ addBlockThrows
    \/ SynchMempool \/ doGetRawMempool
    \/ \E t \in Txs : Downloaded(t) \/ DownloadFailed(t)
    \/ PrecacheErrors \/ processResults \/ ConsistencyError
    \/ doGetDSPList \/ doProcessDownloads
    \/ \E d \in Dsps : dlNext(d)

Next == BitcoindMoves \/ Step \/ RequestFails \/ DspRequestFails

(* The Controller's timer starts the next round, and bitcoind answers or    *)
(* the request times out.  Some Step is enabled in every state (otherwise   *)
(* there is a deadlock once bitcoind rests), so this is WF_vars(Step).      *)
Spec == Init /\ [][Next]_vars /\ []<><<Step>>_vars

-----------------------------------------------------------------------------
(* Properties *)

(* Types; a round is redone at most kRedoCtMax times (redoFromStart), and   *)
(* only what the list or the mempool had is ever downloaded.                *)
TypeOK ==
    /\ pool \subseteq Txs /\ proofs \subseteq Dsps /\ evicted \subseteq Txs
    /\ Confirmed(chain) \cup Confirmed(db) \subseteq Txs
    /\ InMempool(mp) \subseteq Txs
    /\ mp.hx \in [ShSet -> Seq(Txs)] /\ mp.dsps \in [Dsps -> SUBSET Txs]
    /\ stage \in Stages
    /\ task.need \cup task.got \cup task.failed \subseteq task.tentative
    /\ task.redoCt \in 0 .. kRedoCtMax
    /\ owed \cup lost \cup task.affected \subseteq ShSet

(* After any sequence of adds, drops, confirmations and undos the structure *)
(* is the one built from its transactions alone: every spend is counted as  *)
(* confirmed or unconfirmed as it is, every output unspent in the mempool   *)
(* is an utxo again, families are linked both ways, and the vectors hold    *)
(* each transaction once, in the order of getHistory.                       *)
MempoolIsExact ==
    [txs |-> mp.txs, hx |-> mp.hx] = Rebuilt(InMempool(mp))

(* When a task succeeded on a list of a bitcoind that had our blocks, no    *)
(* output is spent twice in the mempool and every confirmed spend is of an  *)
(* output that our database has unspent, although the list, the downloads   *)
(* and the look-ups were made at different times.                           *)
SyncedIsConsistent ==
    fresh => \A t \in InMempool(mp) :
                /\ Conflicts(InMempool(mp), t) = {}
                /\ mp.txs[t].conf \subseteq Utxos(db)

(* A script hash whose history changed was reported to the subscriptions,   *)
(* or is going to be when the running task ends, however it ends.  The two  *)
(* places that lose one are known: ConsistencyError and addBlockThrows.     *)
NobodyMissesAChange == owed \subseteq task.affected \cup lost

(* A proof that is kept is linked to its own transaction, to transactions   *)
(* of the mempool only, to descendants only, and to all of them except      *)
(* those that left bitcoind's mempool meanwhile, and what descends from     *)
(* these.                                                                   *)
DspsCoverDescendants ==
    \A d \in {e \in Dsps : HasProof(e)} :
        LET family == WithDescendants(mp, {DspTx[d]})
        IN  /\ DspTx[d] \in mp.dsps[d]
            /\ mp.dsps[d] \subseteq family \cap InMempool(mp)
            /\ family \subseteq mp.dsps[d] \cup WithDescendants(mp, evicted)

(* Once bitcoind rests, we have its blocks and its mempool, whatever was    *)
(* redone, failed or undone on the way.                                     *)
CatchesUp == <>[](db = chain /\ InMempool(mp) = pool)

=============================================================================
