----------------------------- MODULE ActivationCache -----------------------------
(***************************************************************************)
(* Storage::blake2bActivationHeight: the height of the first v2 header,    *)
(* found by a binary search and cached in an atomic.  Server threads       *)
(* search and store without a lock over the whole call; the Controller's   *)
(* thread adds and undoes blocks under exclusive locks, which a searching  *)
(* thread only waits for when it asks for the tip or for a header.         *)
(***************************************************************************)
EXTENDS Integers, Sequences

CONSTANTS
    Readers,       \* server threads
    MaxHeaders     \* bound on the length of the header list

ASSUME ActivationConstants == MaxHeaders \in Nat

VARIABLES
    hdrs,   \* the header list: FALSE for a v1 header, TRUE for a v2 header
    cache,  \* blake2bActivationHeightCache
    wr,     \* what the Controller's thread holds the locks for
    rd,     \* local variables of the searching threads
    moved,     \* history: threads during whose search the header list changed
    overtaken  \* history: a thread stored the result of such a search

vars == <<hdrs, cache, wr, rd, moved, overtaken>>

kNoBlake2bHeightCached == -2
NoFork == -1

Tip == Len(hdrs) - 1

(* headerForHeight(h) has a value and it is a v2 header. *)
isV2(h) == h \in 0 .. Tip /\ hdrs[h + 1]

(* The answer a search over a list that holds still has to give. *)
FirstV2 ==
    IF \E h \in 0 .. Tip : isV2(h)
    THEN CHOOSE h \in 0 .. Tip : isV2(h) /\ \A k \in 0 .. h - 1 : ~ isV2(k)
    ELSE NoFork

Unlocked == wr = "none"

Idle == [pc |-> "idle", tip |-> -1, lo |-> 0, hi |-> 0, ret |-> NoFork]

-----------------------------------------------------------------------------
(* blake2bActivationHeight *)

(* A known answer is returned at once. *)
LoadCache(r) ==
    /\ rd[r].pc = "idle"
    /\ rd' = [rd EXCEPT ![r].pc = IF cache = kNoBlake2bHeightCached THEN "tip" ELSE "idle"]
    /\ moved' = moved \ {r}
    /\ UNCHANGED <<hdrs, cache, wr, overtaken>>

(* An empty list is not cached. *)
LatestTip(r) ==
    /\ rd[r].pc = "tip"
    /\ Unlocked
    /\ rd' = [rd EXCEPT ![r] = IF Tip < 0 THEN Idle ELSE [@ EXCEPT !.pc = "check", !.tip = Tip]]
    /\ UNCHANGED <<hdrs, cache, wr, moved, overtaken>>

CheckTip(r) ==
    /\ rd[r].pc = "check"
    /\ Unlocked
    /\ rd' = [rd EXCEPT ![r] =
                   IF isV2(rd[r].tip) THEN [@ EXCEPT !.pc = "search", !.hi = rd[r].tip]
                   ELSE [@ EXCEPT !.pc = "store"]]
    /\ UNCHANGED <<hdrs, cache, wr, moved, overtaken>>

(* Mutant: the lower bound does not move past a v1 header. *)
SearchStepTooLow(r) ==
    LET mid == (rd[r].lo + rd[r].hi) \div 2
    IN  /\ rd[r].pc = "search"
        /\ Unlocked
        /\ rd' = [rd EXCEPT ![r] = IF @.lo + 1 >= @.hi
                                   THEN [@ EXCEPT !.pc = "store", !.ret = rd[r].lo]
                                   ELSE IF isV2(mid) THEN [@ EXCEPT !.hi = mid]
                                   ELSE [@ EXCEPT !.lo = mid]]
        /\ UNCHANGED <<hdrs, cache, wr, moved, overtaken>>

SearchStep(r) ==
    LET mid == rd[r].lo + (rd[r].hi - rd[r].lo) \div 2
    IN  /\ rd[r].pc = "search"
        /\ Unlocked
        /\ rd' = [rd EXCEPT ![r] = IF @.lo >= @.hi
                                   THEN [@ EXCEPT !.pc = "store", !.ret = rd[r].lo]
                                   ELSE IF isV2(mid) THEN [@ EXCEPT !.hi = mid]
                                   ELSE [@ EXCEPT !.lo = mid + 1]]
        /\ UNCHANGED <<hdrs, cache, wr, moved, overtaken>>

StoreCache(r) ==
    /\ rd[r].pc = "store"
    /\ cache' = rd[r].ret
    /\ rd' = [rd EXCEPT ![r] = Idle]
    /\ overtaken' = (overtaken \/ r \in moved)
    /\ UNCHANGED <<hdrs, wr, moved>>

-----------------------------------------------------------------------------
(* addBlock and undoLatestBlock, in the Controller's thread *)

Searching == {r \in Readers : rd[r].pc # "idle"}

(* The header layout switches once and never switches back. *)
AppendHeader(v2) ==
    /\ Unlocked
    /\ Len(hdrs) < MaxHeaders
    /\ isV2(Tip) => v2
    /\ hdrs' = Append(hdrs, v2)
    /\ wr' = "add"
    /\ moved' = moved \cup Searching
    /\ UNCHANGED <<cache, rd, overtaken>>

(* Mutant: every v2 block is taken for the first one. *)
ExtendCacheAlways ==
    /\ wr = "add"
    /\ cache' = IF isV2(Tip) THEN Tip ELSE cache
    /\ wr' = "none"
    /\ UNCHANGED <<hdrs, rd, moved, overtaken>>

(* After the batch was written, still under the locks. *)
ExtendCache ==
    /\ wr = "add"
    /\ cache' = IF cache = NoFork /\ isV2(Tip) THEN Tip ELSE cache
    /\ wr' = "none"
    /\ UNCHANGED <<hdrs, rd, moved, overtaken>>

(* deleteHeadersPastHeight: first the cache, then the headers. *)
ForgetCache ==
    /\ Unlocked
    /\ Tip > 0
    /\ cache' = IF cache >= 0 /\ cache > Tip - 1 THEN kNoBlake2bHeightCached ELSE cache
    /\ wr' = "undo"
    /\ moved' = moved \cup Searching
    /\ UNCHANGED <<hdrs, rd, overtaken>>

TruncateHeaders ==
    /\ wr = "undo"
    /\ hdrs' = SubSeq(hdrs, 1, Tip)
    /\ wr' = "none"
    /\ UNCHANGED <<cache, rd, moved, overtaken>>

-----------------------------------------------------------------------------

(* loadCheckHeadersInDB fills the cache before any other thread runs. *)
Warm == cache = IF Tip < 0 THEN kNoBlake2bHeightCached ELSE FirstV2

Init ==
    /\ hdrs \in UNION {[1 .. n -> BOOLEAN] : n \in 0 .. 2}
    /\ \A h \in 1 .. Tip : isV2(h - 1) => isV2(h)
    /\ Warm
    /\ wr = "none" /\ rd = [r \in Readers |-> Idle] /\ moved = {} /\ overtaken = FALSE

Next ==
    \/ \E r \in Readers :
           \/ LoadCache(r)
           \/ LatestTip(r)
           \/ CheckTip(r)
           \/ SearchStep(r)
           \/ StoreCache(r)
    \/ \E v2 \in BOOLEAN : AppendHeader(v2)
    \/ ExtendCache
    \/ ForgetCache
    \/ TruncateHeaders

Spec == Init /\ [][Next]_vars

-----------------------------------------------------------------------------
(* Properties *)

(* A search during which no block was added or undone ends with the height   *)
(* of the first v2 header, also when others search at the same time.         *)
SearchIsRight ==
    \A r \in Readers : rd[r].pc = "store" /\ r \notin moved => rd[r].ret = FirstV2

(* addBlock extends the cache by an assignment: "if we knew there was no v2  *)
(* header before this one, then this one is the first".  The cache is empty  *)
(* or holds the height of the first v2 header, through reorgs across it and  *)
(* whoever is searching, as long as no thread has stored the result of a     *)
(* search that a block overtook.                                             *)
CacheIsRight ==
    Unlocked /\ ~ overtaken => cache \in {kNoBlake2bHeightCached, FirstV2}
=============================================================================
