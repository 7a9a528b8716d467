----------------------------- MODULE ActivationProofs -----------------------------
(***************************************************************************)
(* Proofs about ActivationCache: the binary search finds the first v2      *)
(* header, and the cache is right through reorgs, for every number of      *)
(* threads and every length of the header list.                            *)
(***************************************************************************)
EXTENDS ActivationCache, TLAPS

Locals ==
    [pc : {"idle", "tip", "check", "search", "store"}, tip : Int, lo : Int, hi : Int, ret : Int]

Types ==
    /\ hdrs \in Seq(BOOLEAN)
    /\ cache \in Int
    /\ wr \in {"none", "add", "undo"}
    /\ rd \in [Readers -> Locals]
    /\ overtaken \in BOOLEAN

(* The header layout switches at most once. *)
Monotone == \A i, j \in 1 .. Len(hdrs) : i <= j /\ hdrs[i] => hdrs[j]

(* c is the answer of a search over the headers up to height t. *)
FirstUpTo(t, c) ==
    \/ c = NoFork /\ \A k \in 0 .. t : ~ isV2(k)
    \/ c \in 0 .. t /\ isV2(c) /\ \A k \in 0 .. c - 1 : ~ isV2(k)

(* A search that has not asked for a header yet is as it was initialized. *)
Fresh(l) == l.lo = 0 /\ l.ret = NoFork

FreshStarts == \A r \in Readers : rd[r].pc \in {"idle", "tip", "check"} => Fresh(rd[r])

(* The bounds of a search enclose the first v2 header. *)
SearchesAreOnTrack ==
    \A r \in Readers : r \notin moved =>
        /\ rd[r].pc = "check" => rd[r].tip = Tip /\ Tip >= 0
        /\ rd[r].pc = "search" =>
               /\ 0 <= rd[r].lo /\ rd[r].lo <= rd[r].hi /\ rd[r].hi <= Tip
               /\ isV2(rd[r].hi) /\ \A k \in 0 .. rd[r].lo - 1 : ~ isV2(k)
        /\ rd[r].pc = "store" => FirstUpTo(Tip, rd[r].ret)

(* Whoever searches while the Controller's thread has the locks was overtaken. *)
LockedOut ==
    ~ Unlocked => \A r \in Readers : r \notin moved => rd[r].pc \in {"idle", "tip"}

(* While a header comes or goes, the cache is about the headers below it. *)
CacheFollows ==
    ~ overtaken /\ cache # kNoBlake2bHeightCached =>
        FirstUpTo(IF Unlocked THEN Tip ELSE Tip - 1, cache)

UndoLeavesAHeader == ~ Unlocked => Tip >= 0

IInv ==
    /\ Types
    /\ Monotone
    /\ FreshStarts
    /\ SearchesAreOnTrack
    /\ LockedOut
    /\ CacheFollows
    /\ UndoLeavesAHeader

-----------------------------------------------------------------------------
(* What a search has to find *)

(* There is one answer, the one FirstV2 names. *)
LEMMA FirstIsUnique ==
    ASSUME hdrs \in Seq(BOOLEAN), NEW c \in Int, FirstUpTo(Tip, c)
    PROVE  c = FirstV2
<1>0. Tip \in Int
  BY DEF Tip
<1>1. CASE c = NoFork /\ \A k \in 0 .. Tip : ~ isV2(k)
  BY <1>1 DEF FirstV2
<1>2. CASE c \in 0 .. Tip /\ isV2(c) /\ \A k \in 0 .. c - 1 : ~ isV2(k)
  <2> DEFINE P(h) == isV2(h) /\ \A k \in 0 .. h - 1 : ~ isV2(k)
  <2>1. \E h \in 0 .. Tip : isV2(h)
    BY <1>2
  <2>2. FirstV2 = CHOOSE h \in 0 .. Tip : P(h)
    BY <2>1 DEF FirstV2
  <2>3. P(c) /\ c \in 0 .. Tip
    BY <1>2
  <2>4. FirstV2 \in 0 .. Tip /\ P(FirstV2)
    BY <2>2, <2>3
  <2>5. ~ (c < FirstV2) /\ ~ (FirstV2 < c)
    BY <2>3, <2>4
  <2> QED BY <2>4, <2>5
<1> QED BY <1>1, <1>2 DEF FirstUpTo

(* Below a v1 header there are only v1 headers. *)
LEMMA BelowV1 ==
    ASSUME Types, Monotone, NEW h \in 0 .. Tip, ~ isV2(h)
    PROVE  \A k \in 0 .. h : ~ isV2(k)
<1> SUFFICES ASSUME NEW k \in 0 .. h, isV2(k) PROVE FALSE
  OBVIOUS
<1>1. Len(hdrs) \in Nat /\ k \in Int /\ h \in Int
  BY DEF Types, Tip
<1>2. k + 1 \in 1 .. Len(hdrs) /\ h + 1 \in 1 .. Len(hdrs) /\ k + 1 <= h + 1
  BY <1>1 DEF Tip
<1>3. hdrs[k + 1] /\ ~ hdrs[h + 1]
  BY DEF isV2
<1> QED BY <1>2, <1>3 DEF Monotone

-----------------------------------------------------------------------------
(* The steps of the searching threads *)

(* What a step of thread r leaves alone, and what is to be shown of it. *)
LEMMA ReaderStep ==
    ASSUME IInv, NEW r \in Readers, NEW l \in Locals,
           rd' = [rd EXCEPT ![r] = l], hdrs' = hdrs, wr' = wr, moved' = moved,
           cache' = cache, overtaken' = overtaken,
           l.pc \in {"idle", "tip", "check"} => Fresh(l),
           Unlocked \/ r \in moved,
           r \notin moved =>
               /\ l.pc = "check" => l.tip = Tip /\ Tip >= 0
               /\ l.pc = "search" =>
                      /\ 0 <= l.lo /\ l.lo <= l.hi /\ l.hi <= Tip
                      /\ isV2(l.hi) /\ \A k \in 0 .. l.lo - 1 : ~ isV2(k)
               /\ l.pc = "store" => FirstUpTo(Tip, l.ret)
    PROVE  IInv'
<1>1. rd'[r] = l /\ \A q \in Readers : q # r => rd'[q] = rd[q]
  BY DEF IInv, Types
<1>2. Types'
  BY DEF IInv, Types
<1>3. Monotone' /\ CacheFollows' /\ UndoLeavesAHeader'
  BY DEF IInv, Monotone, CacheFollows, UndoLeavesAHeader, FirstUpTo, isV2, Tip, Unlocked
<1>4. FreshStarts'
  BY <1>1 DEF IInv, FreshStarts
<1>5. SearchesAreOnTrack'
  <2> SUFFICES ASSUME NEW q \in Readers, q \notin moved
               PROVE  /\ rd'[q].pc = "check" => rd'[q].tip = Tip /\ Tip >= 0
                      /\ rd'[q].pc = "search" =>
                             /\ 0 <= rd'[q].lo /\ rd'[q].lo <= rd'[q].hi /\ rd'[q].hi <= Tip
                             /\ isV2(rd'[q].hi) /\ \A k \in 0 .. rd'[q].lo - 1 : ~ isV2(k)
                      /\ rd'[q].pc = "store" => FirstUpTo(Tip, rd'[q].ret)
    BY DEF SearchesAreOnTrack, FirstUpTo, isV2, Tip
  <2>1. CASE q = r
    BY <1>1, <2>1
  <2>2. CASE q # r
    BY <1>1, <2>2 DEF IInv, SearchesAreOnTrack
  <2> QED BY <2>1, <2>2
<1>6. LockedOut'
  BY <1>1 DEF IInv, LockedOut, Unlocked
<1> QED BY <1>2, <1>3, <1>4, <1>5, <1>6 DEF IInv

(* The load starts a new search, which nothing has overtaken. *)
LEMMA LoadKeepsIInv ==
    ASSUME IInv, NEW r \in Readers, LoadCache(r)
    PROVE  IInv'
<1> DEFINE p == IF cache = kNoBlake2bHeightCached THEN "tip" ELSE "idle"
<1>1. /\ rd[r].pc = "idle" /\ rd' = [rd EXCEPT ![r].pc = p]
      /\ moved' = moved \ {r} /\ hdrs' = hdrs /\ cache' = cache /\ wr' = wr
      /\ overtaken' = overtaken
  BY DEF LoadCache
<1>2. p \in {"tip", "idle"}
  OBVIOUS
<1> HIDE DEF p
<1>3. rd \in [Readers -> Locals] /\ rd[r] \in Locals
  BY DEF IInv, Types
<1>4. /\ rd' \in [Readers -> Locals]
      /\ rd'[r].pc = p /\ rd'[r].lo = rd[r].lo /\ rd'[r].ret = rd[r].ret
      /\ \A q \in Readers : q # r => rd'[q] = rd[q]
  BY <1>1, <1>2, <1>3 DEF Locals
<1>5. Types' /\ Monotone' /\ CacheFollows' /\ UndoLeavesAHeader'
  BY <1>1, <1>4 DEF IInv, Types, Monotone, CacheFollows, UndoLeavesAHeader, FirstUpTo, isV2, Tip,
                    Unlocked
<1>6. FreshStarts'
  BY <1>1, <1>2, <1>4 DEF IInv, FreshStarts, Fresh
<1>7. SearchesAreOnTrack'
  <2> SUFFICES ASSUME NEW q \in Readers, q \notin moved'
               PROVE  /\ rd'[q].pc = "check" => rd'[q].tip = Tip /\ Tip >= 0
                      /\ rd'[q].pc = "search" =>
                             /\ 0 <= rd'[q].lo /\ rd'[q].lo <= rd'[q].hi /\ rd'[q].hi <= Tip
                             /\ isV2(rd'[q].hi) /\ \A k \in 0 .. rd'[q].lo - 1 : ~ isV2(k)
                      /\ rd'[q].pc = "store" => FirstUpTo(Tip, rd'[q].ret)
    BY <1>1 DEF SearchesAreOnTrack, FirstUpTo, isV2, Tip
  <2>1. CASE q = r
    BY <1>2, <1>4, <2>1
  <2>2. CASE q # r
    BY <1>1, <1>4, <2>2 DEF IInv, SearchesAreOnTrack
  <2> QED BY <2>1, <2>2
<1>8. LockedOut'
  BY <1>1, <1>2, <1>4 DEF IInv, LockedOut, Unlocked
<1> QED BY <1>5, <1>6, <1>7, <1>8 DEF IInv

(* The search is about the list as it was when the tip was read. *)
LEMMA TipKeepsIInv ==
    ASSUME IInv, NEW r \in Readers, LatestTip(r)
    PROVE  IInv'
<1> DEFINE l == IF Tip < 0 THEN Idle ELSE [rd[r] EXCEPT !.pc = "check", !.tip = Tip]
<1>1. /\ rd[r].pc = "tip" /\ Unlocked /\ rd' = [rd EXCEPT ![r] = l]
      /\ hdrs' = hdrs /\ cache' = cache /\ wr' = wr /\ moved' = moved /\ overtaken' = overtaken
  BY DEF LatestTip
<1>2. rd[r] \in Locals /\ Tip \in Int /\ Fresh(rd[r])
  BY <1>1 DEF IInv, Types, Tip, FreshStarts
<1>3. Idle \in Locals /\ Fresh(Idle) /\ Idle.pc = "idle"
  BY DEF Idle, Locals, Fresh, NoFork
<1>4. /\ l \in Locals /\ Fresh(l) /\ l.pc \in {"idle", "check"}
      /\ l.pc = "check" => l.tip = Tip /\ Tip >= 0
  <2>1. CASE Tip < 0
    BY <1>3, <2>1
  <2>2. CASE ~ (Tip < 0)
    <3>1. l = [rd[r] EXCEPT !.pc = "check", !.tip = Tip]
      BY <2>2
    <3> HIDE DEF l
    <3>2. l \in Locals /\ l.pc = "check" /\ l.tip = Tip /\ l.lo = rd[r].lo /\ l.ret = rd[r].ret
      BY <1>2, <3>1 DEF Locals
    <3>3. Tip >= 0
      BY <1>2, <2>2
    <3> QED BY <1>2, <3>2, <3>3 DEF Fresh
  <2> QED BY <2>1, <2>2
<1> HIDE DEF l
<1> QED BY <1>1, <1>4, ReaderStep

(* The tip is v2, or no header is. *)
LEMMA CheckKeepsIInv ==
    ASSUME IInv, NEW r \in Readers, CheckTip(r)
    PROVE  IInv'
<1> DEFINE l == IF isV2(rd[r].tip) THEN [rd[r] EXCEPT !.pc = "search", !.hi = rd[r].tip]
                ELSE [rd[r] EXCEPT !.pc = "store"]
<1>1. /\ rd[r].pc = "check" /\ Unlocked /\ rd' = [rd EXCEPT ![r] = l]
      /\ hdrs' = hdrs /\ cache' = cache /\ wr' = wr /\ moved' = moved /\ overtaken' = overtaken
  BY DEF CheckTip
<1>2. rd[r] \in Locals /\ Tip \in Int /\ rd[r].lo = 0 /\ rd[r].ret = NoFork
  BY <1>1 DEF IInv, Types, Tip, FreshStarts, Fresh
<1>3. r \notin moved => rd[r].tip = Tip /\ Tip >= 0
  BY <1>1 DEF IInv, SearchesAreOnTrack
<1>4. CASE isV2(rd[r].tip)
  <2>1. /\ l \in Locals /\ l.pc = "search" /\ l.lo = 0 /\ l.hi = rd[r].tip
    BY <1>2, <1>4 DEF Locals
  <2> HIDE DEF l
  <2>2. r \notin moved => 0 <= l.lo /\ l.lo <= l.hi /\ l.hi <= Tip /\ isV2(l.hi)
    BY <1>2, <1>3, <1>4, <2>1
  <2>3. \A k \in 0 .. l.lo - 1 : ~ isV2(k)
    BY <2>1
  <2> QED BY <1>1, <2>1, <2>2, <2>3, ReaderStep
<1>5. CASE ~ isV2(rd[r].tip)
  <2>1. l \in Locals /\ l.pc = "store" /\ l.ret = NoFork
    BY <1>2, <1>5 DEF Locals
  <2>2. r \notin moved => FirstUpTo(Tip, NoFork)
    <3> SUFFICES ASSUME r \notin moved PROVE \A k \in 0 .. Tip : ~ isV2(k)
      BY DEF FirstUpTo
    <3>1. Tip \in 0 .. Tip /\ ~ isV2(Tip)
      BY <1>2, <1>3, <1>5
    <3> QED BY <3>1, BelowV1 DEF IInv
  <2> HIDE DEF l
  <2> QED BY <1>1, <2>1, <2>2, ReaderStep
<1> QED BY <1>4, <1>5

(* The bounds close in on the first v2 header, from both sides. *)
LEMMA SearchKeepsIInv ==
    ASSUME IInv, NEW r \in Readers, SearchStep(r)
    PROVE  IInv'
<1> DEFINE mid == rd[r].lo + (rd[r].hi - rd[r].lo) \div 2
           l == IF rd[r].lo >= rd[r].hi THEN [rd[r] EXCEPT !.pc = "store", !.ret = rd[r].lo]
                ELSE IF isV2(mid) THEN [rd[r] EXCEPT !.hi = mid]
                ELSE [rd[r] EXCEPT !.lo = mid + 1]
<1>1. /\ rd[r].pc = "search" /\ Unlocked /\ rd' = [rd EXCEPT ![r] = l]
      /\ hdrs' = hdrs /\ cache' = cache /\ wr' = wr /\ moved' = moved /\ overtaken' = overtaken
  BY DEF SearchStep
<1>2. rd[r] \in Locals /\ Tip \in Int
  BY DEF IInv, Types, Tip
<1>3. rd[r].lo \in Int /\ rd[r].hi \in Int
  BY <1>2 DEF Locals
<1>4. r \notin moved =>
          /\ 0 <= rd[r].lo /\ rd[r].lo <= rd[r].hi /\ rd[r].hi <= Tip
          /\ isV2(rd[r].hi) /\ \A k \in 0 .. rd[r].lo - 1 : ~ isV2(k)
  BY <1>1 DEF IInv, SearchesAreOnTrack
<1>5. mid \in Int /\ (rd[r].lo < rd[r].hi => rd[r].lo <= mid /\ mid < rd[r].hi)
  BY <1>3
<1> HIDE DEF mid
<1>6. CASE rd[r].lo >= rd[r].hi
  <2>1. l \in Locals /\ l.pc = "store" /\ l.ret = rd[r].lo
    BY <1>2, <1>3, <1>6 DEF Locals
  <2>2. r \notin moved => FirstUpTo(Tip, rd[r].lo)
    <3> SUFFICES ASSUME r \notin moved PROVE FirstUpTo(Tip, rd[r].lo)
      OBVIOUS
    <3>1. rd[r].lo = rd[r].hi /\ rd[r].lo \in 0 .. Tip
      BY <1>2, <1>3, <1>4, <1>6
    <3> QED BY <1>4, <3>1 DEF FirstUpTo
  <2> HIDE DEF l
  <2> QED BY <1>1, <2>1, <2>2, ReaderStep
<1>7. CASE ~ (rd[r].lo >= rd[r].hi) /\ isV2(mid)
  <2>1. l \in Locals /\ l.pc = "search" /\ l.lo = rd[r].lo /\ l.hi = mid
    BY <1>1, <1>2, <1>5, <1>7 DEF Locals
  <2>2. rd[r].lo <= mid /\ (r \notin moved => mid <= Tip)
    BY <1>2, <1>3, <1>4, <1>5, <1>7
  <2> HIDE DEF l
  <2> QED BY <1>1, <1>4, <1>7, <2>1, <2>2, ReaderStep
<1>8. CASE ~ (rd[r].lo >= rd[r].hi) /\ ~ isV2(mid)
  <2>1. l \in Locals /\ l.pc = "search" /\ l.lo = mid + 1 /\ l.hi = rd[r].hi
    BY <1>1, <1>2, <1>5, <1>8 DEF Locals
  <2>2. r \notin moved => /\ 0 <= mid + 1 /\ mid + 1 <= rd[r].hi
                          /\ \A k \in 0 .. mid : ~ isV2(k)
    <3> SUFFICES ASSUME r \notin moved
                 PROVE  0 <= mid + 1 /\ mid + 1 <= rd[r].hi /\ \A k \in 0 .. mid : ~ isV2(k)
      OBVIOUS
    <3>1. mid \in 0 .. Tip /\ 0 <= mid + 1 /\ mid + 1 <= rd[r].hi
      BY <1>2, <1>3, <1>4, <1>5, <1>8
    <3> QED BY <1>8, <3>1, BelowV1 DEF IInv
  <2>3. (mid + 1) - 1 = mid
    BY <1>5
  <2> HIDE DEF l
  <2> QED BY <1>1, <1>4, <2>1, <2>2, <2>3, ReaderStep
<1> QED BY <1>6, <1>7, <1>8

(* The store is the end of a search: its result, or an overtaken one. *)
LEMMA StoreKeepsIInv ==
    ASSUME IInv, NEW r \in Readers, StoreCache(r)
    PROVE  IInv'
<1>1. /\ rd[r].pc = "store" /\ cache' = rd[r].ret /\ rd' = [rd EXCEPT ![r] = Idle]
      /\ overtaken' = (overtaken \/ r \in moved) /\ hdrs' = hdrs /\ wr' = wr /\ moved' = moved
  BY DEF StoreCache
<1>2. rd \in [Readers -> Locals] /\ rd[r].ret \in Int
  BY DEF IInv, Types, Locals
<1>3. Idle \in Locals /\ Fresh(Idle) /\ Idle.pc = "idle"
  BY DEF Idle, Locals, Fresh, NoFork
<1>4. rd'[r] = Idle /\ \A q \in Readers : q # r => rd'[q] = rd[q]
  BY <1>1, <1>2
<1>5. Types'
  <2>1. rd' \in [Readers -> Locals]
    BY <1>1, <1>2, <1>3
  <2> QED BY <1>1, <1>2, <2>1 DEF IInv, Types
<1>6. Monotone' /\ UndoLeavesAHeader'
  BY <1>1 DEF IInv, Monotone, UndoLeavesAHeader, Tip, Unlocked
<1>7. FreshStarts'
  BY <1>3, <1>4 DEF IInv, FreshStarts
<1>8. SearchesAreOnTrack'
  <2> SUFFICES ASSUME NEW q \in Readers, q \notin moved
               PROVE  /\ rd'[q].pc = "check" => rd'[q].tip = Tip /\ Tip >= 0
                      /\ rd'[q].pc = "search" =>
                             /\ 0 <= rd'[q].lo /\ rd'[q].lo <= rd'[q].hi /\ rd'[q].hi <= Tip
                             /\ isV2(rd'[q].hi) /\ \A k \in 0 .. rd'[q].lo - 1 : ~ isV2(k)
                      /\ rd'[q].pc = "store" => FirstUpTo(Tip, rd'[q].ret)
    BY <1>1 DEF SearchesAreOnTrack, FirstUpTo, isV2, Tip
  <2>1. CASE q = r
    BY <1>3, <1>4, <2>1
  <2>2. CASE q # r
    BY <1>4, <2>2 DEF IInv, SearchesAreOnTrack
  <2> QED BY <2>1, <2>2
<1>9. LockedOut'
  BY <1>1, <1>3, <1>4 DEF IInv, LockedOut, Unlocked
<1>10. CacheFollows'
  <2> SUFFICES ASSUME ~ overtaken' PROVE FirstUpTo(IF Unlocked THEN Tip ELSE Tip - 1, rd[r].ret)
    BY <1>1 DEF CacheFollows, FirstUpTo, isV2, Tip, Unlocked
  <2>1. r \notin moved
    BY <1>1
  <2>2. Unlocked
    BY <1>1, <2>1 DEF IInv, LockedOut
  <2> QED BY <1>1, <2>1, <2>2 DEF IInv, SearchesAreOnTrack
<1> QED BY <1>5, <1>6, <1>7, <1>8, <1>9, <1>10 DEF IInv

-----------------------------------------------------------------------------
(* The steps of the Controller's thread *)

(* Whoever is searching when the locks are taken has been overtaken. *)
LEMMA LocksOvertake ==
    ASSUME IInv, rd' = rd, moved' = moved \cup Searching
    PROVE  FreshStarts' /\ SearchesAreOnTrack' /\ LockedOut'
<1>1. \A r \in Readers : r \notin moved' => rd[r].pc = "idle"
  BY DEF Searching
<1> QED BY <1>1 DEF IInv, FreshStarts, SearchesAreOnTrack, LockedOut

(* The new header leaves the ones below it as they are. *)
LEMMA AppendKeepsIInv ==
    ASSUME IInv, NEW v2 \in BOOLEAN, AppendHeader(v2)
    PROVE  IInv'
<1> DEFINE n == Len(hdrs)
<1>1. /\ wr = "none" /\ wr' = "add" /\ (isV2(Tip) => v2) /\ hdrs' = Append(hdrs, v2)
      /\ moved' = moved \cup Searching /\ cache' = cache /\ rd' = rd /\ overtaken' = overtaken
  BY DEF AppendHeader, Unlocked
<1>2. hdrs \in Seq(BOOLEAN) /\ n \in Nat
  BY DEF IInv, Types
<1>3. /\ hdrs' \in Seq(BOOLEAN) /\ Len(hdrs') = n + 1 /\ hdrs'[n + 1] = v2
      /\ \A i \in 1 .. n : hdrs'[i] = hdrs[i]
  BY <1>1, <1>2
<1>4. Tip = n - 1 /\ Tip' = n
  BY <1>2, <1>3 DEF Tip
<1>5. Types'
  BY <1>1, <1>3 DEF IInv, Types
<1>6. Monotone'
  <2> SUFFICES ASSUME NEW i \in 1 .. n + 1, NEW j \in 1 .. n + 1, i <= j, hdrs'[i]
               PROVE  hdrs'[j]
    BY <1>3 DEF Monotone
  <2>1. CASE j \in 1 .. n
    <3>1. i \in 1 .. n
      BY <1>2, <2>1
    <3> QED BY <1>3, <2>1, <3>1 DEF IInv, Monotone
  <2>2. CASE i = n + 1
    <3>1. j = n + 1
      BY <1>2, <2>2
    <3> QED BY <2>2, <3>1
  <2>3. CASE i \in 1 .. n /\ j = n + 1
    <3>1. n \in 1 .. n /\ i <= n /\ Tip \in 0 .. Tip /\ Tip + 1 = n
      BY <1>2, <1>4, <2>3
    <3>2. hdrs[n]
      BY <1>3, <2>3, <3>1 DEF IInv, Monotone
    <3>3. isV2(Tip)
      BY <3>1, <3>2 DEF isV2
    <3> QED BY <1>1, <1>3, <2>3, <3>3
  <2>4. (j \in 1 .. n) \/ i = n + 1 \/ (i \in 1 .. n /\ j = n + 1)
    BY <1>2
  <2> QED BY <2>1, <2>2, <2>3, <2>4
<1>7. \A k \in 0 .. Tip : isV2(k)' <=> isV2(k)
  <2> SUFFICES ASSUME NEW k \in 0 .. Tip PROVE isV2(k)' <=> isV2(k)
    OBVIOUS
  <2>1. k \in 0 .. Tip' /\ k + 1 \in 1 .. n
    BY <1>2, <1>4
  <2> QED BY <1>3, <2>1 DEF isV2
<1>8. CacheFollows'
  <2> SUFFICES ASSUME ~ overtaken, cache # kNoBlake2bHeightCached, NEW c, c = cache
               PROVE  \/ c = NoFork /\ \A k \in 0 .. Tip : ~ isV2(k)'
                      \/ c \in 0 .. Tip /\ isV2(c)' /\ \A k \in 0 .. c - 1 : ~ isV2(k)'
    <3>1. Tip' - 1 = Tip
      BY <1>2, <1>4
    <3> QED BY <1>1, <3>1 DEF CacheFollows, FirstUpTo, Unlocked
  <2>1. FirstUpTo(Tip, cache)
    BY <1>1 DEF IInv, CacheFollows, Unlocked
  <2>2. CASE cache = NoFork /\ \A k \in 0 .. Tip : ~ isV2(k)
    BY <1>7, <2>2
  <2>3. CASE c \in 0 .. Tip /\ isV2(c) /\ \A k \in 0 .. c - 1 : ~ isV2(k)
    <3>1. \A k \in 0 .. c - 1 : k \in 0 .. Tip
      BY <1>2, <1>4, <2>3
    <3> QED BY <1>7, <2>3, <3>1
  <2> QED BY <2>1, <2>2, <2>3 DEF FirstUpTo
<1>9. UndoLeavesAHeader'
  BY <1>2, <1>4 DEF UndoLeavesAHeader
<1> QED BY <1>1, <1>5, <1>6, <1>8, <1>9, LocksOvertake DEF IInv

(* "No v2 header below" and "this one is v2" is "this one is the first". *)
LEMMA ExtendKeepsIInv ==
    ASSUME IInv, ExtendCache
    PROVE  IInv'
<1>1. /\ wr = "add" /\ wr' = "none" /\ hdrs' = hdrs /\ rd' = rd /\ moved' = moved
      /\ cache' = IF cache = NoFork /\ isV2(Tip) THEN Tip ELSE cache
      /\ overtaken' = overtaken
  BY DEF ExtendCache
<1>2. Tip \in Int /\ cache \in Int /\ 0 <= Tip
  BY <1>1 DEF IInv, Types, Tip, UndoLeavesAHeader, Unlocked
<1>3. Types'
  BY <1>1, <1>2 DEF IInv, Types
<1>4. Monotone' /\ FreshStarts' /\ LockedOut' /\ UndoLeavesAHeader'
  BY <1>1 DEF IInv, Monotone, FreshStarts, LockedOut, UndoLeavesAHeader, Unlocked
<1>5. SearchesAreOnTrack'
  BY <1>1 DEF IInv, LockedOut, SearchesAreOnTrack, Unlocked
<1>6. CacheFollows'
  <2> SUFFICES ASSUME ~ overtaken, cache' # kNoBlake2bHeightCached
               PROVE  FirstUpTo(Tip, cache')
    BY <1>1 DEF CacheFollows, FirstUpTo, isV2, Tip, Unlocked
  <2>1. cache # kNoBlake2bHeightCached
    BY <1>1 DEF kNoBlake2bHeightCached, NoFork
  <2>2. FirstUpTo(Tip - 1, cache)
    BY <1>1, <2>1 DEF IInv, CacheFollows, Unlocked
  <2>3. CASE cache = NoFork /\ \A k \in 0 .. Tip - 1 : ~ isV2(k)
    <3>1. CASE isV2(Tip)
      BY <1>1, <1>2, <2>3, <3>1 DEF FirstUpTo
    <3>2. CASE ~ isV2(Tip)
      <4>1. \A k \in 0 .. Tip : k = Tip \/ k \in 0 .. Tip - 1
        BY <1>2
      <4> QED BY <1>1, <2>3, <3>2, <4>1 DEF FirstUpTo
    <3> QED BY <3>1, <3>2
  <2>4. CASE cache \in 0 .. Tip - 1 /\ isV2(cache) /\ \A k \in 0 .. cache - 1 : ~ isV2(k)
    <3>1. cache' = cache /\ cache \in 0 .. Tip
      BY <1>1, <1>2, <2>4 DEF NoFork
    <3> QED BY <2>4, <3>1 DEF FirstUpTo
  <2> QED BY <2>2, <2>3, <2>4 DEF FirstUpTo
<1> QED BY <1>3, <1>4, <1>5, <1>6 DEF IInv

(* A cached height that would go is forgotten before the header is. *)
LEMMA ForgetKeepsIInv ==
    ASSUME IInv, ForgetCache
    PROVE  IInv'
<1>1. /\ wr = "none" /\ Tip > 0 /\ wr' = "undo" /\ hdrs' = hdrs /\ rd' = rd
      /\ cache' = IF cache >= 0 /\ cache > Tip - 1 THEN kNoBlake2bHeightCached ELSE cache
      /\ moved' = moved \cup Searching /\ overtaken' = overtaken
  BY DEF ForgetCache, Unlocked
<1>2. Tip \in Int /\ cache \in Int /\ kNoBlake2bHeightCached \in Int
  BY DEF IInv, Types, Tip, kNoBlake2bHeightCached
<1>3. Types'
  BY <1>1, <1>2 DEF IInv, Types
<1>4. Monotone' /\ UndoLeavesAHeader'
  BY <1>1, <1>2 DEF IInv, Monotone, UndoLeavesAHeader, Tip
<1>5. CacheFollows'
  <2> SUFFICES ASSUME ~ overtaken, cache' # kNoBlake2bHeightCached
               PROVE  FirstUpTo(Tip - 1, cache')
    BY <1>1 DEF CacheFollows, FirstUpTo, isV2, Tip, Unlocked
  <2>1. cache' = cache /\ ~ (cache >= 0 /\ cache > Tip - 1)
    BY <1>1
  <2>2. FirstUpTo(Tip, cache)
    BY <1>1, <2>1 DEF IInv, CacheFollows, Unlocked
  <2>3. CASE cache = NoFork /\ \A k \in 0 .. Tip : ~ isV2(k)
    <3>1. \A k \in 0 .. Tip - 1 : k \in 0 .. Tip
      BY <1>2
    <3> QED BY <2>1, <2>3, <3>1 DEF FirstUpTo
  <2>4. CASE cache \in 0 .. Tip /\ isV2(cache) /\ \A k \in 0 .. cache - 1 : ~ isV2(k)
    <3>1. cache \in 0 .. Tip - 1
      BY <1>2, <2>1, <2>4
    <3> QED BY <2>1, <2>4, <3>1 DEF FirstUpTo
  <2> QED BY <2>2, <2>3, <2>4 DEF FirstUpTo
<1> QED BY <1>1, <1>3, <1>4, <1>5, LocksOvertake DEF IInv

(* What is left is what the cache is already about. *)
LEMMA TruncateKeepsIInv ==
    ASSUME IInv, TruncateHeaders
    PROVE  IInv'
<1>1. /\ wr = "undo" /\ wr' = "none" /\ hdrs' = SubSeq(hdrs, 1, Tip)
      /\ cache' = cache /\ rd' = rd /\ moved' = moved /\ overtaken' = overtaken
  BY DEF TruncateHeaders
<1>2. hdrs \in Seq(BOOLEAN) /\ Len(hdrs) \in Nat /\ Tip = Len(hdrs) - 1 /\ Tip >= 0
  BY <1>1 DEF IInv, Types, Tip, UndoLeavesAHeader, Unlocked
<1>3. /\ hdrs' \in Seq(BOOLEAN) /\ Len(hdrs') = Tip
      /\ \A i \in 1 .. Tip : hdrs'[i] = hdrs[i]
  BY <1>1, <1>2
<1>4. Tip' = Tip - 1
  BY <1>3 DEF Tip
<1>5. Types'
  BY <1>1, <1>3 DEF IInv, Types
<1>6. Monotone'
  BY <1>2, <1>3, SMTT(30) DEF IInv, Monotone
<1>7. FreshStarts' /\ LockedOut' /\ UndoLeavesAHeader'
  BY <1>1 DEF IInv, FreshStarts, LockedOut, UndoLeavesAHeader, Unlocked
<1>8. SearchesAreOnTrack'
  BY <1>1 DEF IInv, LockedOut, SearchesAreOnTrack, Unlocked
<1>9. \A k \in 0 .. Tip - 1 : isV2(k)' <=> isV2(k)
  <2> SUFFICES ASSUME NEW k \in 0 .. Tip - 1 PROVE isV2(k)' <=> isV2(k)
    OBVIOUS
  <2>1. k \in 0 .. Tip' /\ k \in 0 .. Tip /\ k + 1 \in 1 .. Tip
    BY <1>2, <1>4
  <2> QED BY <1>3, <2>1 DEF isV2
<1>10. CacheFollows'
  <2> SUFFICES ASSUME ~ overtaken, cache # kNoBlake2bHeightCached, NEW c, c = cache
               PROVE  \/ c = NoFork /\ \A k \in 0 .. Tip - 1 : ~ isV2(k)'
                      \/ c \in 0 .. Tip - 1 /\ isV2(c)' /\ \A k \in 0 .. c - 1 : ~ isV2(k)'
    BY <1>1, <1>4 DEF CacheFollows, FirstUpTo, Unlocked
  <2>1. FirstUpTo(Tip - 1, cache)
    BY <1>1 DEF IInv, CacheFollows, Unlocked
  <2>2. CASE cache = NoFork /\ \A k \in 0 .. Tip - 1 : ~ isV2(k)
    BY <1>9, <2>2
  <2>3. CASE c \in 0 .. Tip - 1 /\ isV2(c) /\ \A k \in 0 .. c - 1 : ~ isV2(k)
    <3>1. \A k \in 0 .. c - 1 : k \in 0 .. Tip - 1
      BY <1>2, <2>3
    <3> QED BY <1>9, <2>3, <3>1
  <2> QED BY <2>1, <2>2, <2>3 DEF FirstUpTo
<1> QED BY <1>5, <1>6, <1>7, <1>8, <1>10 DEF IInv

-----------------------------------------------------------------------------
(* The theorems *)

(* A list of two headers at most, searched before any thread runs. *)
LEMMA InitIInv == Init => IInv
<1> SUFFICES ASSUME Init PROVE IInv
  OBVIOUS
<1>1. /\ wr = "none" /\ rd = [r \in Readers |-> Idle] /\ overtaken = FALSE
      /\ \A h \in 1 .. Tip : isV2(h - 1) => isV2(h)
      /\ cache = IF Tip < 0 THEN kNoBlake2bHeightCached ELSE FirstV2
  BY DEF Init, Warm
<1>2. PICK n \in 0 .. 2 : hdrs \in [1 .. n -> BOOLEAN]
  BY DEF Init
<1>3. hdrs \in Seq(BOOLEAN) /\ Len(hdrs) = n /\ Tip = n - 1
  BY <1>2 DEF Tip
<1>4. n = 2 => (isV2(0) => isV2(1))
  <2> SUFFICES ASSUME n = 2, isV2(0) PROVE isV2(1)
    OBVIOUS
  <2>1. 1 \in 1 .. Tip /\ 1 - 1 = 0
    BY <1>3
  <2> QED BY <1>1, <2>1
<1>5. Monotone
  BY <1>2, <1>3, <1>4 DEF Monotone, isV2
<1>6. Idle \in Locals /\ Fresh(Idle) /\ Idle.pc = "idle"
  BY DEF Idle, Locals, Fresh, NoFork
<1>7. Tip >= 0 => FirstUpTo(Tip, FirstV2) /\ FirstV2 \in Int
  <2> SUFFICES ASSUME Tip >= 0 PROVE FirstUpTo(Tip, FirstV2) /\ FirstV2 \in Int
    OBVIOUS
  <2>1. PICK c \in {-1, 0, 1} : FirstUpTo(Tip, c)
    <3>1. CASE isV2(0)
      BY <1>2, <1>3, <3>1 DEF FirstUpTo
    <3>2. CASE ~ isV2(0) /\ isV2(1)
      <4>1. 1 \in 0 .. Tip
        BY <1>3, <3>2 DEF isV2
      <4>2. \A k \in 0 .. 1 - 1 : k = 0
        OBVIOUS
      <4> QED BY <3>2, <4>1, <4>2 DEF FirstUpTo
    <3>3. CASE ~ isV2(0) /\ ~ isV2(1)
      <4>1. \A k \in 0 .. Tip : k = 0 \/ k = 1
        BY <1>2, <1>3
      <4> QED BY <3>3, <4>1 DEF FirstUpTo, NoFork
    <3> QED BY <3>1, <3>2, <3>3
  <2> QED BY <1>3, <2>1, FirstIsUnique
<1>8. Types
  <2>1. cache \in Int
    BY <1>1, <1>3, <1>7 DEF kNoBlake2bHeightCached
  <2>2. rd \in [Readers -> Locals]
    BY <1>1, <1>6
  <2> QED BY <1>1, <1>3, <2>1, <2>2 DEF Types
<1>9. CacheFollows
  BY <1>1, <1>3, <1>7 DEF CacheFollows, Unlocked
<1>10. FreshStarts /\ SearchesAreOnTrack /\ LockedOut /\ UndoLeavesAHeader
  BY <1>1, <1>6 DEF FreshStarts, SearchesAreOnTrack, LockedOut, UndoLeavesAHeader, Unlocked
<1> QED BY <1>5, <1>8, <1>9, <1>10 DEF IInv

(* Every step keeps the invariant. *)
LEMMA NextIInv == IInv /\ [Next]_vars => IInv'
<1> SUFFICES ASSUME IInv, [Next]_vars PROVE IInv'
  OBVIOUS
<1>1. ASSUME NEW r \in Readers,
             LoadCache(r) \/ LatestTip(r) \/ CheckTip(r) \/ SearchStep(r) \/ StoreCache(r)
      PROVE  IInv'
  BY <1>1, LoadKeepsIInv, TipKeepsIInv, CheckKeepsIInv, SearchKeepsIInv, StoreKeepsIInv
<1>2. ASSUME NEW v2 \in BOOLEAN, AppendHeader(v2) PROVE IInv'
  BY <1>2, AppendKeepsIInv
<1>3. CASE ExtendCache
  BY <1>3, ExtendKeepsIInv
<1>4. CASE ForgetCache
  BY <1>4, ForgetKeepsIInv
<1>5. CASE TruncateHeaders
  BY <1>5, TruncateKeepsIInv
<1>6. CASE UNCHANGED vars
  BY <1>6 DEF vars, IInv, Types, Monotone, FreshStarts, SearchesAreOnTrack, LockedOut, CacheFollows,
              UndoLeavesAHeader, FirstUpTo, isV2, Tip, Unlocked
<1> QED BY <1>1, <1>2, <1>3, <1>4, <1>5, <1>6 DEF Next

(* The inductive invariant holds in every reachable state. *)
THEOREM Invariance == Spec => []IInv
BY InitIInv, NextIInv, PTL DEF Spec

(* blake2bActivationHeight's binary search: for every number of threads and  *)
(* every length of the list, a search that no block overtook ends at the     *)
(* first v2 header, or finds that there is none.                             *)
THEOREM SearchCorrect == Spec => []SearchIsRight
<1>1. IInv => SearchIsRight
  <2> SUFFICES ASSUME IInv, NEW r \in Readers, rd[r].pc = "store", r \notin moved
               PROVE  rd[r].ret = FirstV2
    BY DEF SearchIsRight
  <2>1. hdrs \in Seq(BOOLEAN) /\ rd[r].ret \in Int /\ FirstUpTo(Tip, rd[r].ret)
    BY DEF IInv, Types, Locals, SearchesAreOnTrack
  <2> QED BY <2>1, FirstIsUnique
<1> QED BY <1>1, Invariance, PTL

(* The cached activation height, which addBlock extends by an assignment and *)
(* an undo forgets, is empty or the height of the first v2 header whenever   *)
(* the locks are free, unless an overtaken search was stored.                *)
THEOREM CacheCorrect == Spec => []CacheIsRight
<1>1. IInv => CacheIsRight
  <2> SUFFICES ASSUME IInv, Unlocked, ~ overtaken, cache # kNoBlake2bHeightCached
               PROVE  cache = FirstV2
    BY DEF CacheIsRight
  <2>1. hdrs \in Seq(BOOLEAN) /\ cache \in Int /\ FirstUpTo(Tip, cache)
    BY DEF IInv, Types, CacheFollows
  <2> QED BY <2>1, FirstIsUnique
<1> QED BY <1>1, Invariance, PTL
=============================================================================
