------------------------------- MODULE Mempool -------------------------------
(***************************************************************************)
(* Mempool.cpp and DSProof.cpp: the in-memory copy of bitcoind's mempool   *)
(* as a value m = [txs, hx, dsps], and what addNewTxs, dropTxs,            *)
(* confirmedInBlock and the double-spend proofs make of it.                *)
(*                                                                         *)
(* A transaction is a number, smaller for a smaller hash; it is known by   *)
(* the outputs it spends and creates.  Amounts, fees, sizes and the rpa    *)
(* prefix table are left out; none of the properties looks at them.        *)
(***************************************************************************)
EXTENDS Integers, FiniteSets, SequencesExt

CONSTANTS
    Txs,      \* transactions, as numbers in the order of their hashes
    Coins,    \* outputs that are confirmed before everything else
    Ins,      \* [Txs -> sets of outputs]: what a transaction spends
    Outs,     \* [Txs -> sets of outputs]: what it creates
    Sh,       \* output -> its script hash (HashX)
    Dsps,     \* double-spend proofs
    DspTx     \* [Dsps -> Txs]: DSProof::txHash

Outputs == Coins \cup UNION {Outs[t] : t \in Txs}

ShSet == {Sh[o] : o \in Outputs}

ASSUME MempoolConstants ==
    /\ Txs \subseteq Nat /\ IsFiniteSet(Txs)
    /\ \A t, u \in Txs : t # u => Outs[t] \cap Outs[u] = {}
    /\ \A t \in Txs : Outs[t] \cap Coins = {}
    /\ \A t \in Txs : Ins[t] \subseteq Outputs /\ Ins[t] # {}
    \* A hash covers what is spent, so no transactions spend from each other in a circle.
    /\ \A ts \in (SUBSET Txs) \ {{}} : \E t \in ts : \A u \in ts : Ins[t] \cap Outs[u] = {}
    /\ \A d \in Dsps : DspTx[d] \in Txs

(* tx->hashXs has these keys. *)
ShsOf(t) == {Sh[o] : o \in Ins[t] \cup Outs[t]}

ShsOfAll(ts) == UNION {ShsOf(t) : t \in ts}

(* The transactions of ts that an output of os is created by. *)
Creators(os, ts) == {t \in ts : os \cap Outs[t] # {}}

CreatedBy(os, ts) == {o \in os : \E t \in ts : o \in Outs[t]}

(* What the loops that grow a set until it does not change any more reach   *)
(* from ts: the smallest set that holds ts and next[t] for each of its t.   *)
Closure(ts, next) ==
    LET closed == {s \in SUBSET Txs : ts \subseteq s /\ \A t \in s : next[t] \subseteq s}
    IN  {t \in Txs : \A s \in closed : t \in s}

(* The numbers of ts in their order: the k-th one has k - 1 below it. *)
InOrder(ts) ==
    [k \in 1 .. Cardinality(ts) |-> CHOOSE t \in ts : Cardinality({u \in ts : u < t}) = k - 1]

-----------------------------------------------------------------------------
(* The structure *)

(***************************************************************************)
(* txs: for a transaction the spends of confirmed outputs (conf) and of    *)
(* outputs of the mempool (unconf), its outputs not spent in the mempool   *)
(* (utxo), and its parents and children there.                             *)
(* hx: the vector hashXTxs has for a script hash, empty when there is none *)
(* (a vector is erased when its last transaction leaves).                  *)
(* dsps: DSProof::descendants, empty for a proof that is not there;        *)
(* txDspsMap is the inverse relation.                                      *)
(***************************************************************************)
clear == [txs |-> <<>>, hx |-> [h \in ShSet |-> <<>>], dsps |-> [d \in Dsps |-> {}]]

InMempool(m) == DOMAIN m.txs

hasUnconfirmedParents(txs, t) == txs[t].parents # {}

(* In the order of Tx::operator<: those with unconfirmed parents last, and  *)
(* by hash among themselves.                                                *)
Sorted(txs, ts) ==
    LET late == {t \in ts : hasUnconfirmedParents(txs, t)}
    IN  InOrder(ts \ late) \o InOrder(late)

(* growTxHashSetToIncludeDescendants *)
WithDescendants(m, ts) ==
    Closure(ts, [t \in Txs |-> IF t \in InMempool(m) THEN m.txs[t].children ELSE {}])

(* DSPs::rmTx for each of ts: a proof goes with its own transaction. *)
rmTxs(dsps, ts) == [d \in Dsps |-> IF DspTx[d] \in ts THEN {} ELSE dsps[d] \ ts]

-----------------------------------------------------------------------------
(* addNewTxs *)

(* Mutant: an input that is not found is ignored. *)
AllFound(m, new, cached) == FALSE

(* An input found neither in the mempool nor in what was read from the db:  *)
(* ConsistencyError.                                                        *)
NotFound(m, new, cached) ==
    \E t \in new : ~ (Ins[t] \subseteq cached \cup UNION {Outs[u] : u \in InMempool(m) \cup new})

(* Mutant: only the proofs of parents that were there before. *)
DspsOfOldParents(dsps, parentsOf, new) ==
    [d \in Dsps |-> dsps[d] \cup {t \in new : parentsOf[t] \cap dsps[d] # {}}]

(* Proofs linked to a parent are linked to the new transaction as well.     *)
DspsGrown(dsps, parentsOf, new) ==
    [d \in Dsps |-> Closure(dsps[d], [t \in Txs |-> {u \in new : t \in parentsOf[u]}])]

TxsAdded(m, new) ==
    LET all       == InMempool(m) \cup new
        spent     == UNION {Ins[t] : t \in new}
        spenders(t) == {c \in new : Ins[c] \cap Outs[t] # {}}
    IN  [t \in all |->
           IF t \in new
           THEN [conf |-> Ins[t] \ CreatedBy(Ins[t], all), unconf |-> CreatedBy(Ins[t], all),
                 utxo |-> Outs[t] \ spent, parents |-> Creators(Ins[t], all),
                 children |-> spenders(t)]
           ELSE [m.txs[t] EXCEPT !.utxo = @ \ spent, !.children = @ \cup spenders(t)]]

(* The vectors are sorted for every script hash in affected, which holds    *)
(* those of earlier rounds of the task too.                                 *)
addNewTxs(m, new, affected) ==
    LET txs == TxsAdded(m, new)
    IN  [txs  |-> txs,
         hx   |-> [h \in ShSet |->
                     IF h \in affected \cup ShsOfAll(new)
                     THEN Sorted(txs, ToSet(m.hx[h]) \cup {t \in new : h \in ShsOf(t)})
                     ELSE m.hx[h]],
         dsps |-> DspsGrown(m.dsps, [t \in new |-> txs[t].parents], new)]

-----------------------------------------------------------------------------
(* dropTxs and confirmedInBlock *)

Without(txs, ts) ==
    [t \in DOMAIN txs \ ts |-> [txs[t] EXCEPT !.parents = @ \ ts, !.children = @ \ ts]]

(* The elements of s that are not in ts, in their order. *)
Filtered(s, ts) ==
    LET kept == InOrder({i \in DOMAIN s : s[i] \notin ts})
    IN  [k \in DOMAIN kept |-> s[kept[k]]]

(* rmTxsInHashXTxs *)
HxWithout(hx, ts, affected) ==
    [h \in ShSet |-> IF h \in affected THEN Filtered(hx[h], ts) ELSE hx[h]]

(* Mutant: a parent does not get its output back. *)
NotCredited(m, ts) == Without(m.txs, ts)

(* The parents that stay have the outputs that the dropped ones spent. *)
Credited(m, ts) ==
    LET txs  == Without(m.txs, ts)
        back == UNION {m.txs[t].unconf : t \in ts \cap InMempool(m)}
    IN  [t \in DOMAIN txs |-> [txs[t] EXCEPT !.utxo = @ \cup (back \cap Outs[t])]]

DropAffected(m, ts) == ShsOfAll(WithDescendants(m, ts) \cap InMempool(m))

dropTxs(m, ts) ==
    LET all == WithDescendants(m, ts)
    IN  [txs  |-> Credited(m, all),
         hx   |-> HxWithout(m.hx, all, DropAffected(m, ts)),
         dsps |-> rmTxs(m.dsps, all)]

(* Children that stay, of transactions that are in the block. *)
Recategorized(m, block) == {t \in InMempool(m) \ block : m.txs[t].parents \cap block # {}}

recategorizeSpends(m, block) ==
    [t \in InMempool(m) |->
        IF t \in Recategorized(m, block)
        THEN [m.txs[t] EXCEPT !.conf   = @ \cup CreatedBy(m.txs[t].unconf, block),
                              !.unconf = @ \ CreatedBy(m.txs[t].unconf, block)]
        ELSE m.txs[t]]

(* Mutant: nothing is sorted. *)
NothingToSort(m, block) == {}

(* The script hashes of children that spend nothing unconfirmed any more:   *)
(* their place in the vectors, and their height for clients, changes.       *)
NeedingSort(m, block) ==
    ShsOfAll({t \in Recategorized(m, block) : recategorizeSpends(m, block)[t].unconf = {}})

ConfirmAffected(m, block) == ShsOfAll(block \cap InMempool(m)) \cup NeedingSort(m, block)

confirmedInBlock(m, block) ==
    LET txs == Without(recategorizeSpends(m, block), block)
        hx  == HxWithout(m.hx, block, ConfirmAffected(m, block))
    IN  [txs  |-> txs,
         hx   |-> [h \in ShSet |-> IF h \in NeedingSort(m, block) THEN Sorted(txs, ToSet(hx[h]))
                                   ELSE hx[h]],
         dsps |-> rmTxs(m.dsps, block)]

-----------------------------------------------------------------------------

(* What the structure must be, given only which transactions it holds. *)
Rebuilt(ts) ==
    LET txs == [t \in ts |->
                  [conf |-> Ins[t] \ CreatedBy(Ins[t], ts), unconf |-> CreatedBy(Ins[t], ts),
                   utxo |-> Outs[t] \ UNION {Ins[u] : u \in ts},
                   parents |-> Creators(Ins[t], ts),
                   children |-> {u \in ts : Ins[u] \cap Outs[t] # {}}]]
    IN  [txs |-> txs, hx |-> [h \in ShSet |-> Sorted(txs, {t \in ts : h \in ShsOf(t)})]]
=============================================================================
