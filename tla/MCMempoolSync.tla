--------------------------- MODULE MCMempoolSync ---------------------------
(***************************************************************************)
(* Transaction 3 creates two outputs; 2 spends one of them, 1 spends the   *)
(* other one and the output of 2, so 1 has two parents, which are          *)
(* confirmed one after the other, and comes before 2 by its hash.  5       *)
(* spends the output of 1.  4 double-spends 3; the proof d is of 3.        *)
(***************************************************************************)
EXTENDS MempoolSync

MCTxs   == 1 .. 5
MCCoins == {"c"}
MCIns   == <<{"3b", "2a"}, {"3a"}, {"c"}, {"c"}, {"1a"}>>
MCOuts  == <<{"1a"}, {"2a"}, {"3a", "3b"}, {"4a"}, {"5a"}>>
MCSh    == [o \in {"c", "1a", "2a", "3a", "3b", "4a", "5a"} |->
               CASE o \in {"c", "3a", "1a"} -> "A"
                 [] o \in {"3b", "2a"}      -> "B"
                 [] o \in {"4a", "5a"}      -> "C"]
MCDsps  == {"d"}
MCDspTx == [d \in MCDsps |-> 3]
=============================================================================
