------------------------------- MODULE MCController -------------------------------
(***************************************************************************)
(* Block trees and bitcoind behaviours for the Controller.                 *)
(***************************************************************************)
EXTENDS Controller, TLC

CONSTANTS g, a1, a2, a3, a4, b1, b2, b3, c3, c4, d2, d3, none

MCBlocks == {g, a1, a2, a3, a4, b1, b2, b3, c3, c4, d2, d3}

MCParent == g :> none @@ a1 :> g @@ a2 :> a1 @@ a3 :> a2 @@ a4 :> a3
                @@ b1 :> g @@ b2 :> b1 @@ b3 :> b2 @@ c3 :> b2 @@ c4 :> c3
                @@ d2 :> a1 @@ d3 :> d2

MCHeightOf[b \in MCBlocks] == IF MCParent[b] = none THEN 0 ELSE MCHeightOf[MCParent[b]] + 1

(* A reorg of one block to a longer branch, then one of one block again. *)
TwoReorgs == {<<g, a1>>, <<a1, b3>>, <<b3, c4>>}

(* bitcoind syncs up, reorgs to a longer branch, and then its best chain     *)
(* gets shorter (invalidateblock).                                           *)
SyncReorgShrink == {<<g, a1>>, <<a1, a2>>, <<a2, d3>>, <<d3, d2>>}

(* The chain only grows. *)
Growing == {<<g, a1>>, <<a1, a2>>, <<a1, a4>>, <<a2, a3>>, <<a3, a4>>, <<a2, a4>>}
=============================================================================
