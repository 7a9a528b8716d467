------------------------------- MODULE HeaderChain -------------------------------
(***************************************************************************)
(* What Storage promises to the Controller: a list of linked headers that  *)
(* grows and shrinks by one at its end, and for some of its heights an     *)
(* undo record.  ChainStore is shown to implement this specification; the  *)
(* Controller module is built on its actions.                              *)
(***************************************************************************)
EXTENDS Integers, Sequences

CONSTANTS
    Blocks,            \* every block of the block tree bitcoind may serve
    NoBlock,           \* the predecessor of a genesis block
    Parent,            \* hashPrevBlock, [Blocks -> Blocks \cup {NoBlock}]
    UndoDepths,        \* values the option max_reorg may have at a startup
    MaxHeaders,        \* bound on the length of the header list
    InvalidUndoHeight  \* larger than any height

VARIABLES
    chain,     \* the header list
    undoHts,   \* heights that have an undo record
    earliest,  \* Storage's earliestUndoHeight
    depth,     \* configuredUndoDepth(): max_reorg of this run of the program
    up         \* the database is open

hcVars == <<chain, undoHts, earliest, depth, up>>

Tip == IF chain = <<>> THEN NoBlock ELSE chain[Len(chain)]

Height == Len(chain) - 1

hasUndo == earliest # InvalidUndoHeight

-----------------------------------------------------------------------------

(* addBlock: appends, saves an undo record if told to, expires one height. *)
Extend(b, saveUndo) ==
    LET height   == Len(chain)
        first    == IF saveUndo /\ height < earliest THEN height ELSE earliest
        expired  == {h \in {height - depth} : h >= 0 /\ h >= first}
    IN  /\ up
        /\ height < MaxHeaders
        /\ Parent[b] = Tip
        /\ chain' = Append(chain, b)
        /\ undoHts' = (undoHts \cup {h \in {height} : saveUndo}) \ expired
        /\ earliest' = IF expired = {} THEN first ELSE height - depth + 1
        /\ UNCHANGED <<depth, up>>

(* UndoInfoMissing is thrown exactly when this does not hold. *)
CanRetract == Height > 0 /\ Height \in undoHts

(* undoLatestBlock *)
Retract ==
    /\ up
    /\ CanRetract
    /\ chain' = SubSeq(chain, 1, Height)
    /\ undoHts' = undoHts \ {Height}
    /\ earliest' = IF earliest >= Height THEN InvalidUndoHeight ELSE earliest
    /\ UNCHANGED <<depth, up>>

(* loadCheckEarliestUndo: the newest run of consecutive heights, at most d. *)
KeptAtOpen(hts, d) ==
    {h \in hts : \A k \in hts : k > h => k - h < d /\ (h .. k) \subseteq hts}

Open(d) ==
    /\ ~ up
    /\ up' = TRUE
    /\ depth' = d
    /\ undoHts' = KeptAtOpen(undoHts, d)
    /\ earliest' = IF undoHts' = {} THEN InvalidUndoHeight
                   ELSE CHOOSE h \in undoHts' : \A k \in undoHts' : h <= k
    /\ UNCHANGED chain

Closed == up' = FALSE /\ depth' = 0 /\ earliest' = InvalidUndoHeight

Close ==
    /\ up
    /\ Closed
    /\ UNCHANGED <<chain, undoHts>>

(* A crash keeps the list up to some point; the undo records are then the   *)
(* ones the database had at that point.                                     *)
Lose(n) ==
    /\ up
    /\ Closed
    /\ chain' = SubSeq(chain, 1, n)
    /\ undoHts' \in SUBSET (0 .. n - 1)

-----------------------------------------------------------------------------

Init ==
    /\ chain = <<>>
    /\ undoHts = {}
    /\ earliest = InvalidUndoHeight
    /\ depth = 0
    /\ up = FALSE

Next ==
    \/ \E b \in Blocks, saveUndo \in BOOLEAN : Extend(b, saveUndo)
    \/ Retract
    \/ \E d \in UndoDepths : Open(d)
    \/ Close
    \/ \E n \in 0 .. Len(chain) : Lose(n)

Spec == Init /\ [][Next]_hcVars
=============================================================================
