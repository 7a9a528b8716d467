------------------------------ MODULE MCChainStore ------------------------------
(***************************************************************************)
(* A small block tree for ChainStore: a genesis block, a trunk and two     *)
(* branches that fork at different heights.  The branch blocks spend the   *)
(* same outputs as the trunk blocks they replace, so that a reorg has      *)
(* something to restore.                                                   *)
(***************************************************************************)
EXTENDS ChainStore, TLC

CONSTANTS g, a1, a2, a3, b2, b3, none, s1, s2

MCBlocks == {g, a1, a2, a3, b2, b3}
MCScriptHashes == {s1, s2}
MCTXOs == {"cg", "c1", "c2", "c3", "d2", "d3", "x2", "y2"}

MCParent == g :> none @@ a1 :> g @@ a2 :> a1 @@ a3 :> a2 @@ b2 :> a1 @@ b3 :> b2

MCNTx == g :> 1 @@ a1 :> 1 @@ a2 :> 2 @@ a3 :> 2 @@ b2 :> 2 @@ b3 :> 1

MCSpends == g :> {} @@ a1 :> {} @@ a2 :> {"cg"} @@ a3 :> {"x2"} @@ b2 :> {"cg"} @@ b3 :> {}

MCCreates == g :> {"cg"} @@ a1 :> {"c1"} @@ a2 :> {"c2", "x2"} @@ a3 :> {"c3"}
                @@ b2 :> {"d2", "y2"} @@ b3 :> {"d3"}

MCTouch == g :> {<<s1, 0>>} @@ a1 :> {<<s2, 0>>} @@ a2 :> {<<s1, 1>>, <<s2, 1>>}
                @@ a3 :> {<<s1, 0>>, <<s2, 1>>} @@ b2 :> {<<s1, 1>>} @@ b3 :> {<<s2, 0>>}

MCTxNum0[b \in MCBlocks] ==
    IF MCParent[b] = none THEN 0 ELSE MCTxNum0[MCParent[b]] + MCNTx[MCParent[b]]

MCUtxoAt[b \in MCBlocks \cup {none}] ==
    IF b = none THEN {} ELSE (MCUtxoAt[MCParent[b]] \ MCSpends[b]) \cup MCCreates[b]

MCHistAt[b \in MCBlocks \cup {none}] ==
    IF b = none THEN {}
    ELSE MCHistAt[MCParent[b]] \cup {<<e[1], MCTxNum0[b] + e[2]>> : e \in MCTouch[b]}
=============================================================================
