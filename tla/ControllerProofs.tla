----------------------------- MODULE ControllerProofs -----------------------------
(***************************************************************************)
(* Proofs about Controller, for every block tree, every behaviour of       *)
(* bitcoind, and every number of tasks and of faults.                      *)
(***************************************************************************)
EXTENDS Controller, FiniteSetTheorems, WellFoundedInduction, TLAPS

Sm == [state : States, ht : Int, suppressSaveUndo : BOOLEAN, infoTask : Slots \cup {0},
       dlResults : SUBSET Pairs, dlResultsHtNext : Nat, endHeight : Nat]

Task == [kind : {"free", "info", "download", "mempool", "dsps"}, silent : BOOLEAN,
         todo : SUBSET Nat, got : SUBSET Pairs]

ChainTypes ==
    /\ chain \in Seq(Blocks) /\ Len(chain) <= MaxHeaders /\ undoHts \subseteq 0 .. MaxHeaders
    /\ earliest \in Nat /\ depth \in Nat /\ up \in BOOLEAN

(* The best blocks bitcoind comes to have. *)
BestBlocks == {FirstBest} \cup {s[2] : s \in Switches}

LoopTypes ==
    /\ conn \in BOOLEAN /\ poll \in BOOLEAN /\ kick \in BOOLEAN /\ fatal \in BOOLEAN
    /\ owed \in BOOLEAN /\ serving \in BOOLEAN /\ zmq \in BOOLEAN /\ cut \in BOOLEAN
    /\ best \in Blocks /\ best \in BestBlocks /\ again \in Nat /\ faults \in 0 .. MaxFaults
    /\ bare \in Int

SmTypes == sm \in Sm /\ tasks \in [Slots -> Task]

(* Only downloads have blocks under way, and what an info task has got is   *)
(* a best block of bitcoind and its height.                                 *)
TasksAreKept ==
    \A t \in Slots :
        /\ tasks[t].kind # "download" => tasks[t].todo = {}
        /\ tasks[t].kind \in {"free", "mempool", "dsps"} => tasks[t].got = {}
        /\ tasks[t].kind = "info" => \A r \in tasks[t].got :
               r[1] = HeightOf[r[2]] /\ r[2] \in BestBlocks

(* A process that has not opened the database yet has done nothing. *)
NothingBeforeStart == ~ up => sm.state = "none" /\ ~ conn /\ ~ fatal

(* A download begins past the tip and ends at the height it was started for. *)
Targets ==
    /\ sm.state = "GetBlocks" => sm.ht > Height
    /\ sm.state = "DownloadingBlocks" =>
           /\ sm.dlResultsHtNext = Len(chain) /\ sm.dlResultsHtNext <= sm.endHeight
           /\ sm.endHeight = sm.ht

(* Where the block of a height that is still missing may be. *)
UnderWay(h) ==
    \/ \E r \in sm.dlResults : r[1] = h
    \/ \E t \in Slots :
           /\ tasks[t].kind = "download"
           /\ h \in tasks[t].todo \/ \E r \in tasks[t].got : r[1] = h

Waiting == {"none", "WaitingForChainInfo", "SynchingMempool", "SynchingDSPs", "DownloadingBlocks"}

(* NeverStalls, state by state. *)
Moves ==
    up /\ ~ fatal =>
        /\ sm.state = "none" => again > 0 \/ poll \/ kick \/ ~ conn
        /\ sm.state = "WaitingForChainInfo" =>
               sm.infoTask \in Slots /\ tasks[sm.infoTask].kind = "info"
        /\ sm.state = "SynchingMempool" => \E t \in Slots : tasks[t].kind = "mempool"
        /\ sm.state = "SynchingDSPs" => \E t \in Slots : tasks[t].kind = "dsps"
        /\ sm.state = "DownloadingBlocks" =>
               \A h \in sm.dlResultsHtNext .. sm.endHeight : UnderWay(h)
        /\ sm.state \notin Waiting => again > 0

IInv ==
    /\ ChainTypes
    /\ LoopTypes
    /\ SmTypes
    /\ TasksAreKept
    /\ NothingBeforeStart
    /\ Targets
    /\ Moves

-----------------------------------------------------------------------------
(* The undo records, when max_reorg is D in every run of the program and *)
(* none of them crashed                                                  *)

(* The newest D blocks. *)
Window(D) == {h \in 0 .. Height : h > Height - D}

Downloads == {"GetBlocks", "DownloadingBlocks"}

(* T is at least the height of every download so far, and bitcoind's height *)
(* has not been reported to be less: blocks within D of T have a record,    *)
(* unless records were suppressed there or further up.                      *)
Reported(D, T) ==
    /\ T <= HeightOf[best]
    /\ sm.state \in Downloads => sm.ht <= T
    /\ sm.state = "WaitingForChainInfo" =>
           \A r \in tasks[sm.infoTask].got : r[1] \in T .. HeightOf[best]
    /\ \A h \in 0 .. Height : h > T - D /\ h > bare => h \in undoHts

NothingMissing(D) == ~ cut => \E T \in Int : Reported(D, T)

DepthIs(D) == up => depth = D

(* Storage has forgotten what is too old, and knows of what is left. *)
NothingTooOld(D) ==
    /\ undoHts \subseteq Window(D)
    /\ up => \A h \in undoHts : earliest <= h

(* A download without records leaves none behind: it only begins when there *)
(* is none, and a block without one cannot be undone.                       *)
Bareness ==
    /\ sm.state \in Downloads /\ sm.suppressSaveUndo => undoHts = {}
    /\ bare <= Height
    /\ \A h \in undoHts : h > bare

SynchedIsExact(D) ==
    sm.state \in Synched /\ ~ cut => undoHts = {h \in Window(D) : h > bare}

WInv(D) ==
    /\ DepthIs(D)
    /\ NothingTooOld(D)
    /\ Bareness
    /\ NothingMissing(D)
    /\ SynchedIsExact(D)

-----------------------------------------------------------------------------
(* Numbers and slots *)

(* Natural numbers have a least one. *)
LEMMA LeastNatural ==
    ASSUME NEW S, S \subseteq Nat, S # {}
    PROVE  \E m \in S : \A k \in S : m <= k
<1>1. PICK m \in S : \A k \in S : ~ (<<k, m>> \in OpToRel(<, Nat))
  BY NatLessThanWellFounded, WFMin
<1>2. \A k \in S : ~ (k < m)
  BY <1>1 DEF OpToRel
<1> QED BY <1>2

(* In a finite set of numbers, every rank below the size of the set is the  *)
(* rank of an element: i tasks started in different free slots.             *)
LEMMA RanksAreFilled ==
    ASSUME NEW S, S \subseteq Nat, IsFiniteSet(S), NEW i \in Nat, i < Cardinality(S)
    PROVE  \E t \in S : Cardinality({u \in S : u < t}) = i
<1> DEFINE rank(t) == Cardinality({u \in S : u < t})
           Bad == {j \in Nat : j < Cardinality(S) /\ ~ \E t \in S : rank(t) = j}
<1> SUFFICES ASSUME Bad # {} PROVE FALSE
  OBVIOUS
<1>1. Bad \subseteq Nat
  OBVIOUS
<1>2. PICK j \in Bad : \A k \in Bad : j <= k
  BY <1>1, LeastNatural
<1>3. j \in Nat /\ j < Cardinality(S) /\ ~ \E t \in S : rank(t) = j
  OBVIOUS
<1>4. Cardinality(S) \in Nat
  BY FS_CardinalityType
<1>5. CASE j = 0
  <2>1. S # {}
    BY <1>3, <1>4, <1>5, FS_EmptySet
  <2>2. PICK t \in S : \A k \in S : t <= k
    BY <2>1, LeastNatural
  <2>a. \A u \in S : ~ (u < t)
    BY <2>2
  <2>3. {u \in S : u < t} = {}
    BY <2>a
  <2>4. rank(t) = 0
    BY <2>3, FS_EmptySet
  <2> QED BY <1>3, <1>5, <2>4
<1>6. CASE j # 0
  <2>1. j - 1 \in Nat /\ j - 1 < Cardinality(S) /\ ~ (j <= j - 1)
    BY <1>3, <1>4, <1>6
  <2>2. j - 1 \notin Bad
    BY <1>2, <2>1
  <2>3. PICK t \in S : rank(t) = j - 1
    BY <2>1, <2>2
  <2> DEFINE below == {u \in S : u < t}
             above == {u \in S : t < u}
  <2>4. IsFiniteSet(below) /\ Cardinality(below) = j - 1
    <3>1. below \in SUBSET S
      OBVIOUS
    <3> QED BY <2>3, <3>1, FS_Subset
  <2>5. IsFiniteSet(below \cup {t}) /\ Cardinality(below \cup {t}) = j
    <3>1. t \notin below
      OBVIOUS
    <3>2. Cardinality(below \cup {t}) = Cardinality(below) + 1 /\ IsFiniteSet(below \cup {t})
      BY <2>4, <3>1, FS_AddElement
    <3> QED BY <1>3, <2>4, <3>2
  <2>6. above # {}
    <3> SUFFICES ASSUME above = {} PROVE FALSE
      OBVIOUS
    <3>1. \A u \in S : u < t \/ u = t
      OBVIOUS
    <3>2. S = below \cup {t}
      BY <3>1
    <3>3. Cardinality(S) = j
      BY <2>5, <3>2
    <3> QED BY <1>3, <1>4, <3>3
  <2>7. above \subseteq Nat
    OBVIOUS
  <2>8. PICK v \in above : \A k \in above : v <= k
    BY <2>6, <2>7, LeastNatural
  <2>9. \A u \in S : u < v <=> u < t \/ u = t
    BY <2>8
  <2>10. {u \in S : u < v} = below \cup {t}
    BY <2>9
  <2> QED BY <1>3, <2>5, <2>8, <2>10
<1> QED BY <1>5, <1>6

(* A free slot is found whenever there is one. *)
LEMMA FirstFreeIsFree ==
    ASSUME Free # {}
    PROVE  FirstFree \in Free /\ FirstFree \in Slots
<1>1. Free \subseteq Nat /\ Free \subseteq Slots
  BY ControllerConstants DEF Free, Slots
<1>2. \E t \in Free : \A u \in Free : t <= u
  BY <1>1, LeastNatural
<1> QED BY <1>1, <1>2 DEF FirstFree

(* The records the model starts from. *)
LEMMA EmptyRecords ==
    /\ NoTask \in Task /\ NoTask.kind = "free" /\ NoTask.todo = {} /\ NoTask.got = {}
    /\ NoSm \in Sm /\ NoSm.state = "none"
<1>1. NoTask \in Task /\ NoTask.kind = "free" /\ NoTask.todo = {} /\ NoTask.got = {}
  BY DEF NoTask, Task
<1>2. NoSm \in Sm /\ NoSm.state = "none"
  BY DEF NoSm, Sm, States
<1> QED BY <1>1, <1>2

(* New tasks. *)
LEMMA NewTasks ==
    /\ \A silent \in BOOLEAN :
           /\ InfoTask(silent) \in Task /\ InfoTask(silent).kind = "info"
           /\ InfoTask(silent).todo = {} /\ InfoTask(silent).got = {}
    /\ \A hts \in SUBSET Nat :
           /\ DownloadTask(hts) \in Task /\ DownloadTask(hts).kind = "download"
           /\ DownloadTask(hts).todo = hts /\ DownloadTask(hts).got = {}
    /\ \A k \in {"mempool", "dsps"} :
           /\ SynchTask(k) \in Task /\ SynchTask(k).kind = k
           /\ SynchTask(k).todo = {} /\ SynchTask(k).got = {}
<1>1. ASSUME NEW silent \in BOOLEAN
      PROVE  /\ InfoTask(silent) \in Task /\ InfoTask(silent).kind = "info"
             /\ InfoTask(silent).todo = {} /\ InfoTask(silent).got = {}
  BY EmptyRecords DEF InfoTask, Task
<1>2. ASSUME NEW hts \in SUBSET Nat
      PROVE  /\ DownloadTask(hts) \in Task /\ DownloadTask(hts).kind = "download"
             /\ DownloadTask(hts).todo = hts /\ DownloadTask(hts).got = {}
  BY EmptyRecords DEF DownloadTask, Task
<1>3. ASSUME NEW k \in {"mempool", "dsps"}
      PROVE  /\ SynchTask(k) \in Task /\ SynchTask(k).kind = k
             /\ SynchTask(k).todo = {} /\ SynchTask(k).got = {}
  BY EmptyRecords DEF SynchTask, Task
<1> QED BY <1>1, <1>2, <1>3

(* A new task takes a free slot, and the others stay. *)
LEMMA TaskStarts ==
    ASSUME IInv, Free # {}, NEW k \in Task, tasks' = WithTask(k), k.todo = {}, k.got = {}
    PROVE  /\ tasks' \in [Slots -> Task] /\ TasksAreKept'
           /\ FirstFree \in Slots /\ tasks'[FirstFree] = k
<1>1. FirstFree \in Slots
  BY FirstFreeIsFree
<1>2. tasks \in [Slots -> Task]
  BY DEF IInv, SmTypes
<1>3. /\ tasks' \in [Slots -> Task] /\ tasks'[FirstFree] = k
      /\ \A t \in Slots : t # FirstFree => tasks'[t] = tasks[t]
  BY <1>1, <1>2 DEF WithTask
<1>4. TasksAreKept'
  <2> SUFFICES ASSUME NEW t \in Slots
               PROVE  /\ tasks'[t].kind # "download" => tasks'[t].todo = {}
                      /\ tasks'[t].kind \in {"free", "mempool", "dsps"} => tasks'[t].got = {}
                      /\ tasks'[t].kind = "info" => \A r \in tasks'[t].got :
                             r[1] = HeightOf[r[2]] /\ r[2] \in BestBlocks
    BY DEF TasksAreKept
  <2>1. CASE t = FirstFree
    BY <1>3, <2>1
  <2>2. CASE t # FirstFree
    BY <1>3, <2>2 DEF IInv, TasksAreKept
  <2> QED BY <2>1, <2>2
<1> QED BY <1>1, <1>3, <1>4

(* A task that is over leaves its slot, and the others stay. *)
LEMMA TaskEnds ==
    ASSUME IInv, NEW t \in Slots, tasks' = rmTask(t)
    PROVE  /\ tasks' \in [Slots -> Task] /\ TasksAreKept'
           /\ \A u \in Slots : u # t => tasks'[u] = tasks[u]
<1>1. tasks \in [Slots -> Task]
  BY DEF IInv, SmTypes
<1>2. /\ tasks' \in [Slots -> Task] /\ tasks'[t] = NoTask
      /\ \A u \in Slots : u # t => tasks'[u] = tasks[u]
  BY <1>1, EmptyRecords DEF rmTask
<1>3. TasksAreKept'
  <2> SUFFICES ASSUME NEW u \in Slots
               PROVE  /\ tasks'[u].kind # "download" => tasks'[u].todo = {}
                      /\ tasks'[u].kind \in {"free", "mempool", "dsps"} => tasks'[u].got = {}
                      /\ tasks'[u].kind = "info" => \A r \in tasks'[u].got :
                             r[1] = HeightOf[r[2]] /\ r[2] \in BestBlocks
    BY DEF TasksAreKept
  <2>1. CASE u = t
    BY <1>2, <2>1, EmptyRecords
  <2>2. CASE u # t
    BY <1>2, <2>2 DEF IInv, TasksAreKept
  <2> QED BY <2>1, <2>2
<1> QED BY <1>2, <1>3

(* Moving on to a state in which nothing is awaited but a queued call. *)
LEMMA GoesTo ==
    ASSUME IInv, NEW st \in States \ (Waiting \cup {"GetBlocks"}), NEW n \in Nat,
           n > 0, Goto(st, n)
    PROVE  /\ sm' \in Sm /\ sm'.state = st /\ again' = n
           /\ Targets' /\ Moves'
<1>1. sm \in Sm /\ sm' = [sm EXCEPT !.state = st] /\ again' = n
  BY DEF IInv, SmTypes, Goto
<1>2. sm' \in Sm /\ sm'.state = st
  BY <1>1 DEF Sm
<1>3. Targets' /\ Moves'
  BY <1>1, <1>2 DEF Targets, Moves, Waiting
<1> QED BY <1>1, <1>2, <1>3

-----------------------------------------------------------------------------
(* Controller::process *)

(* A new machine waits for the task it started. *)
LEMMA BeginKeeps ==
    ASSUME IInv, NEW silent \in BOOLEAN, NEW n \in Nat, ProcessBegin(silent, n)
    PROVE  SmTypes' /\ TasksAreKept' /\ Targets' /\ Moves'
<1>1. /\ Free # {} /\ tasks' = WithTask(InfoTask(silent))
      /\ sm' = [NoSm EXCEPT !.state = "WaitingForChainInfo", !.infoTask = FirstFree]
  BY DEF ProcessBegin
<1>2. /\ InfoTask(silent) \in Task /\ InfoTask(silent).kind = "info"
      /\ InfoTask(silent).todo = {} /\ InfoTask(silent).got = {}
  BY NewTasks
<1>3. PICK k \in Task : k = InfoTask(silent)
  BY <1>2
<1>4. /\ tasks' \in [Slots -> Task] /\ TasksAreKept'
      /\ FirstFree \in Slots /\ tasks'[FirstFree] = k
  BY <1>1, <1>2, <1>3, TaskStarts
<1>5. sm' \in Sm /\ sm'.state = "WaitingForChainInfo" /\ sm'.infoTask = FirstFree
  BY <1>1, <1>4, EmptyRecords DEF Sm, States
<1>6. Targets'
  BY <1>5 DEF Targets
<1>7. Moves'
  BY <1>2, <1>3, <1>4, <1>5 DEF Moves, Waiting
<1> QED BY <1>4, <1>5, <1>6, <1>7 DEF SmTypes

(* Every missing height is in the list of one of the new tasks. *)
LEMMA GetBlocksKeeps ==
    ASSUME IInv, NEW n \in Nat, ProcessGetBlocks(n)
    PROVE  SmTypes' /\ TasksAreKept' /\ Targets' /\ Moves'
<1> DEFINE base == FirstMissing
           nTasks == IF sm.ht - Height < DL_CONCURRENCY THEN sm.ht - Height ELSE DL_CONCURRENCY
           rank(t) == Cardinality({u \in Free : u < t})
           part(i) == {h \in base .. sm.ht : (h - base) % nTasks = i}
<1>1. /\ sm.state = "GetBlocks" /\ Cardinality(Free) >= nTasks
      /\ tasks' = [t \in Slots |-> IF t \in Free /\ rank(t) < nTasks
                                   THEN DownloadTask(part(rank(t))) ELSE tasks[t]]
      /\ sm' = [sm EXCEPT !.state = "DownloadingBlocks", !.dlResultsHtNext = base,
                          !.endHeight = sm.ht]
      /\ chain' = chain
  BY DEF ProcessGetBlocks, hcVars
<1>2. sm \in Sm /\ tasks \in [Slots -> Task] /\ Len(chain) \in Nat
  BY DEF IInv, SmTypes, ChainTypes
<1>3. sm.ht \in Int /\ sm.ht > Height /\ Height = Len(chain) - 1
  BY <1>1, <1>2 DEF IInv, Targets, Sm, Height
<1>4. /\ base = Len(chain) /\ base \in Nat /\ sm.ht \in Nat /\ base <= sm.ht
      /\ nTasks \in Nat \ {0}
  BY <1>2, <1>3, ControllerConstants DEF FirstMissing
<1>5. \A i : part(i) \in SUBSET Nat
  BY <1>4
<1>6. \A h \in base .. sm.ht : (h - base) % nTasks \in 0 .. nTasks - 1
  BY <1>4
<1> HIDE DEF base, nTasks
<1>7. Free \subseteq Slots /\ Free \subseteq Nat /\ IsFiniteSet(Free)
  <2>1. Slots = 1 .. MaxTasks /\ MaxTasks \in Nat
    BY ControllerConstants DEF Slots
  <2>2. IsFiniteSet(1 .. MaxTasks)
    BY <2>1, FS_Interval
  <2>3. Free \in SUBSET Slots
    BY DEF Free
  <2>4. IsFiniteSet(Slots) /\ Slots \subseteq Nat
    BY <2>1, <2>2
  <2>5. IsFiniteSet(Free)
    BY <2>3, <2>4, FS_Subset
  <2> QED BY <2>3, <2>4, <2>5
<1>8. Cardinality(Free) \in Nat
  BY <1>7, FS_CardinalityType
<1> HIDE DEF part, rank
<1>9. \A t \in Slots : /\ t \in Free /\ rank(t) < nTasks =>
                              tasks'[t] = DownloadTask(part(rank(t)))
                       /\ ~ (t \in Free /\ rank(t) < nTasks) => tasks'[t] = tasks[t]
  BY <1>1
<1>10. \A t \in Slots : tasks'[t] \in Task
  <2> SUFFICES ASSUME NEW t \in Slots PROVE tasks'[t] \in Task
    OBVIOUS
  <2>1. part(rank(t)) \in SUBSET Nat
    BY <1>5
  <2>2. DownloadTask(part(rank(t))) \in Task
    BY <2>1, NewTasks
  <2> QED BY <1>2, <1>9, <2>2
<1>11. sm' \in Sm /\ tasks' \in [Slots -> Task]
  <2>1. tasks' \in [Slots -> Task]
    BY <1>1, <1>10
  <2>2. sm' \in Sm
    BY <1>1, <1>2, <1>4 DEF Sm, States
  <2> QED BY <2>1, <2>2
<1>12. /\ sm'.state = "DownloadingBlocks" /\ sm'.dlResultsHtNext = base /\ sm'.endHeight = sm.ht
       /\ sm'.ht = sm.ht /\ sm'.dlResults = sm.dlResults
  BY <1>1, <1>2 DEF Sm
<1>13. TasksAreKept'
  <2> SUFFICES ASSUME NEW t \in Slots
               PROVE  /\ tasks'[t].kind # "download" => tasks'[t].todo = {}
                      /\ tasks'[t].kind \in {"free", "mempool", "dsps"} => tasks'[t].got = {}
                      /\ tasks'[t].kind = "info" => \A r \in tasks'[t].got :
                             r[1] = HeightOf[r[2]] /\ r[2] \in BestBlocks
    BY DEF TasksAreKept
  <2>1. CASE t \in Free /\ rank(t) < nTasks
    <3>1. part(rank(t)) \in SUBSET Nat
      BY <1>5
    <3> QED BY <1>9, <2>1, <3>1, NewTasks
  <2>2. CASE ~ (t \in Free /\ rank(t) < nTasks)
    BY <1>9, <2>2 DEF IInv, TasksAreKept
  <2> QED BY <2>1, <2>2
<1>14. Targets'
  BY <1>1, <1>4, <1>12 DEF Targets
<1>15. \A h \in base .. sm.ht : \E t \in Slots : tasks'[t].kind = "download" /\ h \in tasks'[t].todo
  <2> SUFFICES ASSUME NEW h \in base .. sm.ht
               PROVE  \E t \in Slots : tasks'[t].kind = "download" /\ h \in tasks'[t].todo
    OBVIOUS
  <2>1. PICK i \in 0 .. nTasks - 1 : i = (h - base) % nTasks
    BY <1>6
  <2>2. i \in Nat /\ i < Cardinality(Free) /\ i < nTasks
    BY <1>1, <1>4, <1>8
  <2>3. PICK t \in Free : rank(t) = i
    BY <1>7, <2>2, RanksAreFilled DEF rank
  <2>4. t \in Slots /\ tasks'[t] = DownloadTask(part(i))
    BY <1>7, <1>9, <2>2, <2>3
  <2>5. h \in part(i)
    BY <2>1 DEF part
  <2>6. tasks'[t].kind = "download" /\ tasks'[t].todo = part(i)
    BY <1>5, <2>4, NewTasks
  <2> QED BY <2>4, <2>5, <2>6
<1>16. Moves'
  BY <1>12, <1>15 DEF Moves, Waiting, UnderWay
<1> QED BY <1>11, <1>13, <1>14, <1>16 DEF SmTypes

(* The other states of process(). *)
LEMMA OtherStatesKeep ==
    ASSUME IInv, NEW n \in Nat, up' = up, chain' = chain, fatal' = fatal,
           \/ ProcessCoinUnknown(n) \/ ProcessWaiting(n) \/ ProcessIdle(n)
           \/ ProcessStartOver(n) \/ ProcessStartOverLater(n)
           \/ ProcessSynch(n) \/ ProcessSynchFinished(n)
    PROVE  SmTypes' /\ TasksAreKept' /\ Targets' /\ Moves'
<1>1. SmTypes /\ TasksAreKept /\ Targets /\ Moves
  BY DEF IInv
<1>2. n + 1 \in Nat /\ n + 1 > 0
  OBVIOUS
<1>3. CASE ProcessCoinUnknown(n)
  <2>1. tasks' = tasks /\ sm' = [NoSm EXCEPT !.state = "Failure"] /\ again' = n + 1
    BY <1>3 DEF ProcessCoinUnknown
  <2>2. sm' \in Sm /\ sm'.state = "Failure"
    BY <2>1, EmptyRecords DEF Sm, States
  <2> QED BY <1>1, <1>2, <2>1, <2>2 DEF SmTypes, TasksAreKept, Targets, Moves, Waiting
<1>4. CASE ProcessWaiting(n)
  <2>1. tasks' = tasks /\ sm.state = "WaitingForChainInfo"
    BY <1>4 DEF ProcessWaiting
  <2>2. CASE sm' = sm
    BY <1>1, <2>1, <2>2 DEF SmTypes, TasksAreKept, Targets, Height, Moves, Waiting
  <2>3. CASE Goto("Failure", n + 1)
    <3>1. sm' \in Sm /\ Targets' /\ Moves'
      BY <1>2, <2>3, GoesTo DEF States, Waiting
    <3> QED BY <1>1, <2>1, <3>1 DEF SmTypes, TasksAreKept
  <2> QED BY <1>4, <2>2, <2>3 DEF ProcessWaiting
<1>5. CASE ProcessIdle(n)
  <2>1. /\ tasks' = tasks /\ sm' = sm
        /\ sm.state \in {"DownloadingBlocks", "SynchingMempool", "SynchingDSPs"}
    BY <1>5 DEF ProcessIdle
  <2> QED BY <1>1, <2>1 DEF SmTypes, TasksAreKept, Targets, Height, Moves, Waiting, UnderWay
<1>6. CASE ProcessStartOver(n)
  <2>1. tasks' = tasks /\ sm' = NoSm /\ again' = n + 1
    BY <1>6 DEF ProcessStartOver
  <2> QED BY <1>1, <1>2, <2>1, EmptyRecords DEF SmTypes, TasksAreKept, Targets, Moves, Waiting
<1>7. CASE ProcessStartOverLater(n)
  <2>1. tasks' = tasks /\ sm' = NoSm /\ poll'
    BY <1>7 DEF ProcessStartOverLater
  <2> QED BY <1>1, <2>1, EmptyRecords DEF SmTypes, TasksAreKept, Targets, Moves, Waiting
<1>8. CASE ProcessSynch(n)
  <2>1. PICK kind \in {"mempool", "dsps"}, st \in {"SynchingMempool", "SynchingDSPs"} :
            /\ Free # {} /\ tasks' = WithTask(SynchTask(kind)) /\ Goto(st, n)
            /\ kind = "mempool" <=> st = "SynchingMempool"
    BY <1>8 DEF ProcessSynch
  <2>2. PICK k \in Task : k = SynchTask(kind) /\ k.kind = kind /\ k.todo = {} /\ k.got = {}
    BY NewTasks
  <2>3. /\ tasks' \in [Slots -> Task] /\ TasksAreKept'
        /\ FirstFree \in Slots /\ tasks'[FirstFree] = k
    BY <2>1, <2>2, TaskStarts
  <2>4. sm' \in Sm /\ sm'.state = st
    BY <1>1, <2>1 DEF SmTypes, Sm, States, Goto
  <2> QED BY <2>1, <2>2, <2>3, <2>4 DEF SmTypes, Targets, Moves, Waiting
<1>9. CASE ProcessSynchFinished(n)
  <2>1. PICK st \in {"SynchDSPs", "End"} : tasks' = tasks /\ Goto(st, n + 1)
    BY <1>9 DEF ProcessSynchFinished
  <2>2. st \in States \ (Waiting \cup {"GetBlocks"})
    BY DEF States, Waiting
  <2>3. sm' \in Sm /\ Targets' /\ Moves'
    BY <1>2, <2>1, <2>2, GoesTo
  <2> QED BY <1>1, <2>1, <2>3 DEF SmTypes, TasksAreKept
<1> QED BY <1>3, <1>4, <1>5, <1>6, <1>7, <1>8, <1>9

(* A call of process(), whoever makes it. *)
LEMMA ProcessKeepsIInv ==
    ASSUME IInv, up, ~ fatal, NEW silent \in BOOLEAN, NEW n \in Nat, process(silent, n),
           best' = best, conn' = conn, kick' \in BOOLEAN, owed' = owed, serving' = serving,
           zmq' \in BOOLEAN, cut' = cut /\ bare' = bare
    PROVE  IInv'
<1>1. UNCHANGED hcVars /\ fatal' = fatal
  BY DEF process, ProcessBegin, ProcessCoinUnknown, ProcessWaiting, ProcessGetBlocks, ProcessIdle,
         ProcessStartOver, ProcessStartOverLater, ProcessSynch, ProcessSynchFinished
<1>2. up' = up /\ chain' = chain /\ undoHts' = undoHts /\ earliest' = earliest /\ depth' = depth
  BY <1>1 DEF hcVars
<1>a. again' = n \/ again' = n + 1
  BY DEF process, ProcessBegin, ProcessCoinUnknown, ProcessWaiting, ProcessGetBlocks, ProcessIdle,
         ProcessStartOver, ProcessStartOverLater, ProcessSynch, ProcessSynchFinished, Goto
<1>b. poll' = TRUE \/ poll' = FALSE
  BY DEF process, ProcessBegin, ProcessCoinUnknown, ProcessWaiting, ProcessGetBlocks, ProcessIdle,
         ProcessStartOver, ProcessStartOverLater, ProcessSynch, ProcessSynchFinished
<1>3. again' \in Nat /\ poll' \in BOOLEAN
  <2>1. again' \in Nat
    BY <1>a
  <2>2. poll' \in BOOLEAN
    BY <1>b
  <2> QED BY <2>1, <2>2
<1>4. faults' = faults \/ (faults < MaxFaults /\ faults' = faults + 1)
  BY DEF process, ProcessBegin, ProcessCoinUnknown, ProcessWaiting, ProcessGetBlocks, ProcessIdle,
         ProcessStartOver, ProcessStartOverLater, ProcessSynch, ProcessSynchFinished
<1>5. faults' \in 0 .. MaxFaults
  BY <1>4, ControllerConstants DEF IInv, LoopTypes
<1>6. ChainTypes' /\ NothingBeforeStart'
  BY <1>2 DEF IInv, ChainTypes, NothingBeforeStart
<1>7. LoopTypes'
  BY <1>1, <1>3, <1>5 DEF IInv, LoopTypes
<1>8. SmTypes' /\ TasksAreKept' /\ Targets' /\ Moves'
  BY <1>1, <1>2, BeginKeeps, GetBlocksKeeps, OtherStatesKeep DEF process
<1> QED BY <1>6, <1>7, <1>8 DEF IInv

-----------------------------------------------------------------------------
(* What calls process() *)

(* Queued calls, timers and notifications. *)
LEMMA CallsKeepIInv ==
    ASSUME IInv, Again \/ on_Poll \/ on_PollZmq \/ CallProcessTimer
    PROVE  IInv'
<1>1. up /\ ~ fatal /\ again \in Nat /\ kick \in BOOLEAN /\ zmq \in BOOLEAN /\ poll \in BOOLEAN
  BY DEF Again, on_Poll, on_PollZmq, CallProcessTimer, CanRun, IInv, LoopTypes
<1>2. CASE Again
  <2>1. /\ again > 0 /\ process(FALSE, again - 1)
        /\ best' = best /\ conn' = conn /\ kick' = kick /\ owed' = owed /\ serving' = serving
        /\ zmq' = zmq /\ cut' = cut /\ bare' = bare
    BY <1>2 DEF Again
  <2>2. PICK n \in Nat : n = again - 1
    BY <1>1, <2>1
  <2> QED BY <1>1, <2>1, <2>2, ProcessKeepsIInv
<1>3. CASE CallProcessTimer
  <2>1. /\ process(FALSE, again) /\ kick' = FALSE
        /\ best' = best /\ conn' = conn /\ owed' = owed /\ serving' = serving
        /\ zmq' = zmq /\ cut' = cut /\ bare' = bare
    BY <1>3 DEF CallProcessTimer
  <2> QED BY <1>1, <2>1, ProcessKeepsIInv
<1>4. CASE (on_Poll \/ on_PollZmq) /\ sm.state = "none"
  <2>1. /\ process(TRUE, again) /\ zmq' \in BOOLEAN
        /\ best' = best /\ conn' = conn /\ kick' = kick /\ owed' = owed /\ serving' = serving
        /\ cut' = cut /\ bare' = bare
    BY <1>1, <1>4 DEF on_Poll, on_PollZmq
  <2> QED BY <1>1, <2>1, ProcessKeepsIInv
<1>5. CASE (on_Poll \/ on_PollZmq) /\ sm.state # "none"
  <2>1. /\ UNCHANGED hcVars /\ sm' = sm /\ tasks' = tasks /\ again' = again /\ fatal' = fatal
        /\ faults' = faults /\ best' = best /\ conn' = conn /\ kick' = kick /\ owed' = owed
        /\ serving' = serving /\ cut' = cut /\ bare' = bare /\ zmq' \in BOOLEAN /\ poll' \in BOOLEAN
    BY <1>1, <1>5 DEF on_Poll, on_PollZmq
  <2>2. /\ up' = up /\ chain' = chain /\ undoHts' = undoHts /\ earliest' = earliest
        /\ depth' = depth
    BY <2>1 DEF hcVars
  <2>3. ChainTypes' /\ LoopTypes' /\ SmTypes' /\ TasksAreKept' /\ NothingBeforeStart'
    BY <2>1, <2>2 DEF IInv, ChainTypes, LoopTypes, SmTypes, TasksAreKept, NothingBeforeStart
  <2>4. Targets' /\ Moves'
    BY <1>5, <2>1, <2>2 DEF IInv, Targets, Height, Moves, UnderWay
  <2> QED BY <2>3, <2>4 DEF IInv
<1> QED BY <1>2, <1>3, <1>4, <1>5

(* The connection to bitcoind, and its best block. *)
LEMMA ConnectionsKeepIInv ==
    ASSUME IInv, allConnectionsLost \/ gotFirstGoodConnection \/ NewBestBlock
    PROVE  IInv'
<1>1. /\ UNCHANGED hcVars /\ sm' = sm /\ tasks' = tasks /\ again' = again /\ fatal' = fatal
      /\ owed' = owed /\ serving' = serving
  BY DEF allConnectionsLost, gotFirstGoodConnection, NewBestBlock
<1>2. up' = up /\ chain' = chain /\ undoHts' = undoHts /\ earliest' = earliest /\ depth' = depth
  BY <1>1 DEF hcVars
<1>3. LoopTypes
  BY DEF IInv
<1>4. LoopTypes'
  <2>1. CASE allConnectionsLost
    <3>1. faults' \in 0 .. MaxFaults
      BY <1>3, <2>1, ControllerConstants DEF LoopTypes, allConnectionsLost
    <3> QED BY <1>1, <1>3, <2>1, <3>1 DEF LoopTypes, allConnectionsLost
  <2>2. CASE gotFirstGoodConnection
    BY <1>1, <1>3, <2>2 DEF LoopTypes, gotFirstGoodConnection
  <2>3. CASE NewBestBlock
    <3>1. best' \in Blocks /\ best' \in BestBlocks
      BY <2>3, ControllerConstants DEF NewBestBlock, BestBlocks
    <3>2. zmq' \in BOOLEAN /\ cut' \in BOOLEAN /\ bare' \in Int
      BY <1>3, <2>3 DEF NewBestBlock, LoopTypes
    <3>3. conn' = conn /\ poll' = poll /\ kick' = kick /\ faults' = faults
      BY <2>3 DEF NewBestBlock
    <3> QED BY <1>1, <1>3, <3>1, <3>2, <3>3 DEF LoopTypes
  <2> QED BY <2>1, <2>2, <2>3
<1>5. ChainTypes' /\ SmTypes' /\ TasksAreKept'
  BY <1>1, <1>2 DEF IInv, ChainTypes, SmTypes, TasksAreKept
<1>6. NothingBeforeStart'
  BY <1>1, <1>2 DEF IInv, NothingBeforeStart, allConnectionsLost, gotFirstGoodConnection,
                    NewBestBlock, CanRun
<1>7. Targets'
  BY <1>1, <1>2 DEF IInv, Targets, Height
<1>8. Moves'
  <2>1. (again > 0 \/ poll \/ kick \/ ~ conn) => (again' > 0 \/ poll' \/ kick' \/ ~ conn')
    BY DEF allConnectionsLost, gotFirstGoodConnection, NewBestBlock
  <2> QED BY <1>1, <1>2, <2>1 DEF IInv, Moves, UnderWay
<1> QED BY <1>4, <1>5, <1>6, <1>7, <1>8 DEF IInv

-----------------------------------------------------------------------------
(* Tasks *)

(* Asking bitcoind changes nothing but the task. *)
LEMMA AnswersKeepIInv ==
    ASSUME IInv, NEW t \in Slots, AnswerChainInfo(t) \/ AnswerBlockHash(t)
    PROVE  IInv'
<1>1. /\ UNCHANGED <<hcVars, best, conn, sm, again, poll, kick, fatal, owed, serving, zmq, cut, bare,
                     faults>>
  BY DEF AnswerChainInfo, AnswerBlockHash
<1>2. up' = up /\ chain' = chain /\ undoHts' = undoHts /\ earliest' = earliest /\ depth' = depth
  BY <1>1 DEF hcVars
<1>3. tasks \in [Slots -> Task] /\ tasks[t] \in Task /\ best \in Blocks /\ best \in BestBlocks
  BY DEF IInv, SmTypes, LoopTypes
<1>4. HeightOf[best] \in Nat
  BY <1>3, ControllerConstants
<1>5. PICK k \in Task :
          /\ tasks' = [tasks EXCEPT ![t] = k] /\ k.kind = tasks[t].kind
          /\ k.kind # "download" => k.todo = {}
          /\ k.kind \in {"free", "mempool", "dsps"} => k.got = {}
          /\ k.kind = "info" => \A r \in k.got : r[1] = HeightOf[r[2]] /\ r[2] \in BestBlocks
          /\ \A h : (h \in tasks[t].todo \/ \E r \in tasks[t].got : r[1] = h) =>
                        (h \in k.todo \/ \E r \in k.got : r[1] = h)
  <2>0. TasksAreKept
    BY DEF IInv
  <2>1. CASE AnswerChainInfo(t)
    <3> DEFINE k == [tasks[t] EXCEPT !.got = {<<HeightOf[best], best>>}]
    <3>1. /\ tasks' = [tasks EXCEPT ![t] = k] /\ tasks[t].kind = "info" /\ tasks[t].got = {}
      BY <1>3, <2>1 DEF AnswerChainInfo
    <3>2. {<<HeightOf[best], best>>} \in SUBSET Pairs
      BY <1>3, <1>4 DEF Pairs
    <3>3. /\ k \in Task /\ k.kind = "info" /\ k.todo = tasks[t].todo
          /\ k.got = {<<HeightOf[best], best>>}
      BY <1>3, <3>1, <3>2 DEF Task
    <3>4. tasks[t].todo = {}
      BY <2>0, <3>1 DEF TasksAreKept
    <3> HIDE DEF k
    <3>5. \A r \in k.got : r[1] = HeightOf[r[2]] /\ r[2] \in BestBlocks
      BY <1>3, <3>3
    <3>6. \A h : ~ (h \in tasks[t].todo \/ \E r \in tasks[t].got : r[1] = h)
      BY <3>1, <3>4
    <3> QED BY <3>1, <3>3, <3>4, <3>5, <3>6
  <2>2. CASE AnswerBlockHash(t)
    <3>0. PICK h \in tasks[t].todo : \E b \in BlockAt(best, h) :
              tasks' = [tasks EXCEPT ![t].todo = @ \ {h}, ![t].got = @ \cup {<<h, b>>}]
      BY <2>2 DEF AnswerBlockHash
    <3>1. PICK b \in BlockAt(best, h) :
              tasks' = [tasks EXCEPT ![t].todo = @ \ {h}, ![t].got = @ \cup {<<h, b>>}]
      BY <3>0
    <3> DEFINE k == [tasks[t] EXCEPT !.todo = tasks[t].todo \ {h},
                                    !.got = tasks[t].got \cup {<<h, b>>}]
    <3>2. tasks' = [tasks EXCEPT ![t] = k] /\ tasks[t].kind = "download"
      BY <1>3, <2>2, <3>1 DEF AnswerBlockHash
    <3>3. b \in Blocks
      BY <3>1 DEF BlockAt
    <3>4. h \in Nat /\ tasks[t].todo \subseteq Nat /\ tasks[t].got \subseteq Pairs
      BY <1>3 DEF Task
    <3>5. tasks[t].got \cup {<<h, b>>} \in SUBSET Pairs
      BY <3>3, <3>4 DEF Pairs
    <3>6. /\ k \in Task /\ k.kind = "download" /\ k.todo = tasks[t].todo \ {h}
          /\ k.got = tasks[t].got \cup {<<h, b>>}
      BY <1>3, <3>2, <3>4, <3>5 DEF Task
    <3> HIDE DEF k
    <3>7. \A x : (x \in tasks[t].todo \/ \E r \in tasks[t].got : r[1] = x) =>
                     (x \in k.todo \/ \E r \in k.got : r[1] = x)
      <4>1. <<h, b>> \in k.got /\ <<h, b>>[1] = h
        BY <3>6
      <4> QED BY <3>6, <4>1
    <3> QED BY <3>2, <3>6, <3>7
  <2> QED BY <2>1, <2>2
<1>6. /\ tasks' \in [Slots -> Task] /\ tasks'[t] = k
      /\ \A u \in Slots : u # t => tasks'[u] = tasks[u]
  BY <1>3, <1>5
<1>7. TasksAreKept'
  <2> SUFFICES ASSUME NEW u \in Slots
               PROVE  /\ tasks'[u].kind # "download" => tasks'[u].todo = {}
                      /\ tasks'[u].kind \in {"free", "mempool", "dsps"} => tasks'[u].got = {}
                      /\ tasks'[u].kind = "info" => \A r \in tasks'[u].got :
                             r[1] = HeightOf[r[2]] /\ r[2] \in BestBlocks
    BY DEF TasksAreKept
  <2>1. CASE u = t
    BY <1>5, <1>6, <2>1
  <2>2. CASE u # t
    BY <1>6, <2>2 DEF IInv, TasksAreKept
  <2> QED BY <2>1, <2>2
<1>8. ChainTypes' /\ LoopTypes' /\ SmTypes' /\ NothingBeforeStart' /\ Targets'
  BY <1>1, <1>2, <1>6 DEF IInv, ChainTypes, LoopTypes, SmTypes, NothingBeforeStart, Targets, Height
<1>9. Moves'
  <2>1. \A u \in Slots : tasks'[u].kind = tasks[u].kind
    BY <1>5, <1>6
  <2>2. \A h : UnderWay(h) => UnderWay(h)'
    BY <1>1, <1>5, <1>6 DEF UnderWay
  <2> QED BY <1>1, <1>2, <2>1, <2>2 DEF IInv, Moves
<1> QED BY <1>7, <1>8, <1>9 DEF IInv

(* A step that leaves Storage and bitcoind alone, with a machine that moves  *)
(* on to a state with a queued call, or is not concerned.                    *)
LEMMA TaskOver ==
    ASSUME IInv, up, ~ fatal, NEW t \in Slots, tasks' = rmTask(t),
           \/ /\ sm' = sm /\ (again' = again \/ again' = again + 1)
              /\ sm.state = "WaitingForChainInfo" => sm.infoTask # t
              /\ sm.state = "SynchingMempool" => tasks[t].kind # "mempool"
              /\ sm.state = "SynchingDSPs" => tasks[t].kind # "dsps"
              /\ sm.state = "DownloadingBlocks" => tasks[t].kind # "download"
           \/ \E st \in States \ (Waiting \cup {"GetBlocks"}) : Goto(st, again + 1),
           UNCHANGED <<hcVars, best, conn, poll, kick, fatal, zmq, cut, bare>>,
           owed' \in BOOLEAN, serving' \in BOOLEAN,
           faults' = faults \/ (faults < MaxFaults /\ faults' = faults + 1)
    PROVE  IInv'
<1>1. /\ up' = up /\ chain' = chain /\ undoHts' = undoHts /\ earliest' = earliest
      /\ depth' = depth /\ best' = best /\ conn' = conn /\ poll' = poll /\ kick' = kick
      /\ fatal' = fatal /\ zmq' = zmq /\ cut' = cut /\ bare' = bare
  BY DEF hcVars
<1>2. again \in Nat /\ again + 1 \in Nat /\ again + 1 > 0
  BY DEF IInv, LoopTypes
<1>3. faults' \in 0 .. MaxFaults
  BY ControllerConstants DEF IInv, LoopTypes
<1>4. /\ tasks' \in [Slots -> Task] /\ TasksAreKept'
      /\ \A u \in Slots : u # t => tasks'[u] = tasks[u]
  BY TaskEnds
<1>5. ChainTypes' /\ NothingBeforeStart'
  BY <1>1 DEF IInv, ChainTypes, NothingBeforeStart
<1>6. CASE \E st \in States \ (Waiting \cup {"GetBlocks"}) : Goto(st, again + 1)
  <2>1. PICK st \in States \ (Waiting \cup {"GetBlocks"}) : Goto(st, again + 1)
    BY <1>6
  <2>2. sm' \in Sm /\ again' = again + 1 /\ Targets' /\ Moves'
    BY <1>2, <2>1, GoesTo
  <2>3. LoopTypes'
    BY <1>1, <1>2, <1>3, <2>2 DEF IInv, LoopTypes
  <2> QED BY <1>4, <1>5, <2>2, <2>3 DEF IInv, SmTypes
<1>7. CASE /\ sm' = sm /\ (again' = again \/ again' = again + 1)
           /\ sm.state = "WaitingForChainInfo" => sm.infoTask # t
           /\ sm.state = "SynchingMempool" => tasks[t].kind # "mempool"
           /\ sm.state = "SynchingDSPs" => tasks[t].kind # "dsps"
           /\ sm.state = "DownloadingBlocks" => tasks[t].kind # "download"
  <2>1. LoopTypes' /\ SmTypes' /\ Targets'
    BY <1>1, <1>2, <1>3, <1>4, <1>7 DEF IInv, LoopTypes, SmTypes, Targets, Height
  <2>2. again > 0 => again' > 0
    BY <1>2, <1>7
  <2>3. sm.state = "DownloadingBlocks" => \A h : UnderWay(h) => UnderWay(h)'
    BY <1>4, <1>7 DEF UnderWay
  <2>4. Moves'
    BY <1>1, <1>4, <1>7, <2>2, <2>3 DEF IInv, Moves
  <2> QED BY <1>4, <1>5, <2>1, <2>4 DEF IInv
<1> QED BY <1>6, <1>7

(* A task failed, or succeeded and has nothing more to hand over. *)
LEMMA TaskReportsKeepIInv ==
    ASSUME IInv, NEW t \in Slots,
           RequestFailed(t) \/ HeightOutOfRange(t) \/ SynchSucceeded(t) \/ RetryRecommended(t)
    PROVE  IInv'
<1>1. Moves /\ LoopTypes
  BY DEF IInv
<1>2. CASE RequestFailed(t) \/ HeightOutOfRange(t)
  <2>1. /\ up /\ ~ fatal /\ tasks' = rmTask(t) /\ tasks[t].kind # "free"
        /\ UNCHANGED <<hcVars, best, conn, poll, kick, fatal, zmq, cut, bare>>
        /\ owed' = owed /\ serving' = serving
    BY <1>2 DEF RequestFailed, HeightOutOfRange, Errored, CanRun
  <2>2. faults' = faults \/ (faults < MaxFaults /\ faults' = faults + 1)
    BY <1>2 DEF RequestFailed, HeightOutOfRange
  <2>3. owed' \in BOOLEAN /\ serving' \in BOOLEAN
    BY <1>1, <2>1 DEF LoopTypes
  <2>4. \/ sm' = sm /\ again' = again /\ tasks[t].kind = "dsps" /\ sm.state # "SynchingDSPs"
        \/ sm' = sm /\ again' = again /\ sm.state \in {"none", "Failure"}
        \/ \E st \in {"SynchDSPsFinished", "Failure"} : Goto(st, again + 1)
    BY <1>2 DEF RequestFailed, HeightOutOfRange, Errored
  <2>5. sm.state = "WaitingForChainInfo" /\ tasks[t].kind = "dsps" => sm.infoTask # t
    BY <1>1, <2>1 DEF Moves
  <2>6. {"SynchDSPsFinished", "Failure"} \subseteq States \ (Waiting \cup {"GetBlocks"})
    BY DEF States, Waiting
  <2>7. CASE \E st \in {"SynchDSPsFinished", "Failure"} : Goto(st, again + 1)
    BY <2>1, <2>2, <2>3, <2>6, <2>7, TaskOver
  <2>8. CASE ~ \E st \in {"SynchDSPsFinished", "Failure"} : Goto(st, again + 1)
    <3>1. /\ sm' = sm /\ again' = again
          /\ sm.state = "WaitingForChainInfo" => sm.infoTask # t
          /\ sm.state = "SynchingMempool" => tasks[t].kind # "mempool"
          /\ sm.state = "SynchingDSPs" => tasks[t].kind # "dsps"
          /\ sm.state = "DownloadingBlocks" => tasks[t].kind # "download"
      BY <2>4, <2>5, <2>8
    <3> QED BY <2>1, <2>2, <2>3, <3>1, TaskOver
  <2> QED BY <2>7, <2>8
<1>3. CASE SynchSucceeded(t)
  <2>1. /\ up /\ ~ fatal /\ tasks' = rmTask(t) /\ tasks[t].kind \in {"mempool", "dsps"}
        /\ UNCHANGED <<hcVars, best, conn, poll, kick, fatal, zmq, cut, bare>>
        /\ owed' = owed /\ serving' = serving /\ faults' = faults
    BY <1>3 DEF SynchSucceeded, CanRun
  <2>2. owed' \in BOOLEAN /\ serving' \in BOOLEAN
    BY <1>1, <2>1 DEF LoopTypes
  <2>3. \/ /\ sm' = sm /\ again' = again
           /\ ~ (sm.state = "SynchingMempool" /\ tasks[t].kind = "mempool")
           /\ ~ (sm.state = "SynchingDSPs" /\ tasks[t].kind = "dsps")
        \/ \E st \in {"SynchDSPsFinished", "SynchMempoolFinished"} : Goto(st, again + 1)
    BY <1>3 DEF SynchSucceeded
  <2>4. sm.state = "WaitingForChainInfo" => sm.infoTask # t
    BY <1>1, <2>1 DEF Moves
  <2>5. {"SynchDSPsFinished", "SynchMempoolFinished"} \subseteq States \ (Waiting \cup {"GetBlocks"})
    BY DEF States, Waiting
  <2>6. CASE \E st \in {"SynchDSPsFinished", "SynchMempoolFinished"} : Goto(st, again + 1)
    BY <2>1, <2>2, <2>5, <2>6, TaskOver
  <2>7. CASE ~ \E st \in {"SynchDSPsFinished", "SynchMempoolFinished"} : Goto(st, again + 1)
    <3>1. /\ sm' = sm /\ again' = again
          /\ sm.state = "WaitingForChainInfo" => sm.infoTask # t
          /\ sm.state = "SynchingMempool" => tasks[t].kind # "mempool"
          /\ sm.state = "SynchingDSPs" => tasks[t].kind # "dsps"
          /\ sm.state = "DownloadingBlocks" => tasks[t].kind # "download"
      BY <2>1, <2>3, <2>4, <2>7
    <3> QED BY <2>1, <2>2, <3>1, TaskOver
  <2> QED BY <2>6, <2>7
<1>4. CASE RetryRecommended(t)
  <2>1. /\ up /\ ~ fatal /\ tasks' = rmTask(t)
        /\ UNCHANGED <<hcVars, best, conn, poll, kick, fatal, zmq, cut, bare>>
        /\ owed' = owed /\ serving' = serving /\ faults < MaxFaults /\ faults' = faults + 1
        /\ again' = again + 1
        /\ sm' = IF sm.state = "none" THEN sm ELSE [sm EXCEPT !.state = "Retry"]
    BY <1>4 DEF RetryRecommended, CanRun
  <2>2. owed' \in BOOLEAN /\ serving' \in BOOLEAN
    BY <1>1, <2>1 DEF LoopTypes
  <2>3. CASE sm.state = "none"
    BY <2>1, <2>2, <2>3, TaskOver
  <2>4. CASE sm.state # "none"
    <3>1. Goto("Retry", again + 1)
      BY <2>1, <2>4 DEF Goto
    <3>2. \E st \in States \ (Waiting \cup {"GetBlocks"}) : Goto(st, again + 1)
      BY <3>1 DEF States, Waiting
    <3> QED BY <2>1, <2>2, <3>2, TaskOver
  <2> QED BY <2>3, <2>4
<1> QED BY <1>2, <1>3, <1>4

-----------------------------------------------------------------------------
(* Storage *)

(* addBlock *)
LEMMA ExtendFacts ==
    ASSUME ChainTypes, NEW b \in Blocks, NEW saveUndo \in BOOLEAN, Extend(b, saveUndo)
    PROVE  ChainTypes' /\ Len(chain') = Len(chain) + 1 /\ up' = up /\ depth' = depth
<1> DEFINE n == Len(chain)
           first == IF saveUndo /\ n < earliest THEN n ELSE earliest
           expired == {h \in {n - depth} : h >= 0 /\ h >= first}
<1>1. /\ n < MaxHeaders /\ chain' = Append(chain, b)
      /\ undoHts' = (undoHts \cup {h \in {n} : saveUndo}) \ expired
      /\ earliest' = IF expired = {} THEN first ELSE n - depth + 1
      /\ depth' = depth /\ up' = up
  BY DEF Extend
<1>2. n \in Nat /\ earliest \in Nat /\ depth \in Nat /\ first \in Nat /\ chain \in Seq(Blocks)
  BY DEF ChainTypes
<1>3. chain' \in Seq(Blocks) /\ Len(chain') = n + 1 /\ Len(chain') <= MaxHeaders
  BY <1>1, <1>2, ControllerConstants
<1>4. undoHts' \subseteq 0 .. MaxHeaders
  <2>1. n \in 0 .. MaxHeaders /\ undoHts \subseteq 0 .. MaxHeaders
    BY <1>1, <1>2, ControllerConstants DEF ChainTypes
  <2> QED BY <1>1, <2>1
<1>5. earliest' \in Nat
  <2>1. CASE expired = {}
    BY <1>1, <1>2, <2>1
  <2>2. CASE expired # {}
    <3>1. n - depth >= 0
      BY <2>2
    <3> QED BY <1>1, <1>2, <2>2, <3>1
  <2> QED BY <2>1, <2>2
<1> QED BY <1>1, <1>3, <1>4, <1>5 DEF ChainTypes

(* undoLatestBlock *)
LEMMA RetractFacts ==
    ASSUME ChainTypes, Retract
    PROVE  ChainTypes' /\ Len(chain') = Height /\ up' = up /\ depth' = depth
<1>1. /\ Height > 0 /\ chain' = SubSeq(chain, 1, Height) /\ undoHts' = undoHts \ {Height}
      /\ earliest' = IF earliest >= Height THEN InvalidUndoHeight ELSE earliest
      /\ depth' = depth /\ up' = up
  BY DEF Retract, CanRetract
<1>2. chain \in Seq(Blocks) /\ Len(chain) \in Nat /\ Height = Len(chain) - 1
  BY DEF ChainTypes, Height
<1>3. Height \in 0 .. Len(chain) /\ Height <= MaxHeaders
  BY <1>1, <1>2, ControllerConstants DEF ChainTypes
<1>4. chain' \in Seq(Blocks) /\ Len(chain') = Height
  BY <1>1, <1>2, <1>3
<1>5. earliest' \in Nat
  BY <1>1, ControllerConstants DEF ChainTypes
<1> QED BY <1>1, <1>3, <1>4, <1>5 DEF ChainTypes

(* An undo ends the round, or the program. *)
LEMMA UndoEndsTheRound ==
    ASSUME IInv, up, ~ fatal, DoUndoAndRetry
    PROVE  /\ ChainTypes' /\ up' = up /\ sm' \in Sm /\ Targets' /\ Moves'
           /\ again' \in Nat /\ fatal' \in BOOLEAN /\ sm'.state \in {"Retry", "Failure"}
<1>1. again \in Nat /\ again + 1 \in Nat /\ again + 1 > 0 /\ sm \in Sm /\ fatal \in BOOLEAN
  BY DEF IInv, LoopTypes, SmTypes
<1>2. CASE CanRetract
  <2>1. Retract /\ Goto("Retry", again + 1) /\ fatal' = fatal
    BY <1>2 DEF DoUndoAndRetry
  <2>2. ChainTypes' /\ up' = up
    BY <2>1, RetractFacts DEF IInv
  <2>3. sm' \in Sm /\ sm'.state = "Retry" /\ again' = again + 1 /\ Targets' /\ Moves'
    BY <1>1, <2>1, GoesTo DEF States, Waiting
  <2> QED BY <1>1, <2>1, <2>2, <2>3
<1>3. CASE ~ CanRetract
  <2>1. UNCHANGED hcVars /\ Goto("Failure", again) /\ fatal' = TRUE
    BY <1>3 DEF DoUndoAndRetry
  <2>2. ChainTypes' /\ up' = up
    BY <2>1 DEF IInv, ChainTypes, hcVars
  <2>3. sm' \in Sm /\ sm'.state = "Failure" /\ again' = again
    BY <1>1, <2>1 DEF Goto, Sm, States
  <2>4. Targets' /\ Moves'
    BY <2>1, <2>3 DEF Targets, Moves
  <2> QED BY <1>1, <2>1, <2>2, <2>3, <2>4
<1> QED BY <1>2, <1>3

(* getblockchaininfo was answered: the machine that asked moves on. *)
LEMMA ChainInfoKeepsIInv ==
    ASSUME IInv, NEW t \in Slots, ChainInfoSucceeded(t)
    PROVE  IInv'
<1>1. /\ up /\ ~ fatal /\ tasks[t].kind = "info" /\ tasks' = rmTask(t)
      /\ UNCHANGED <<best, conn, poll, kick, zmq, cut, bare, faults>>
  BY DEF ChainInfoSucceeded, CanRun
<1>2. PICK r \in tasks[t].got : GotChainInfo(t, r[1], r[2])
  BY DEF ChainInfoSucceeded
<1>3. tasks \in [Slots -> Task] /\ sm \in Sm /\ LoopTypes /\ r \in Pairs
  BY DEF IInv, SmTypes, Task
<1>4. r[1] \in Nat
  BY <1>3 DEF Pairs
<1>5. again \in Nat /\ again + 1 \in Nat /\ again + 1 > 0 /\ owed \in BOOLEAN /\ serving \in BOOLEAN
  BY <1>3 DEF LoopTypes
<1> DEFINE ibd == r[2] \in InIBD
<1>6. CASE sm.state # "WaitingForChainInfo" \/ sm.infoTask # t
  <2>1. UNCHANGED <<hcVars, sm, again, fatal, owed, serving>>
    BY <1>2, <1>6 DEF GotChainInfo
  <2> QED BY <1>1, <1>5, <1>6, <2>1, TaskOver
<1>7. CASE ~ (sm.state # "WaitingForChainInfo" \/ sm.infoTask # t) /\ r[1] < 1 /\ ibd
  <2>1. Goto("BitcoinDIsInHeaderDL", again + 1) /\ UNCHANGED <<hcVars, fatal, owed, serving>>
    BY <1>2, <1>7 DEF GotChainInfo
  <2>2. \E st \in States \ (Waiting \cup {"GetBlocks"}) : Goto(st, again + 1)
    BY <2>1 DEF States, Waiting
  <2> QED BY <1>1, <1>5, <2>1, <2>2, TaskOver
<1>8. CASE /\ ~ (sm.state # "WaitingForChainInfo" \/ sm.infoTask # t) /\ ~ (r[1] < 1 /\ ibd)
           /\ SameTip(r[1], r[2])
  <2>1. UpToDate(tasks[t].silent, ibd)
    BY <1>2, <1>8 DEF GotChainInfo
  <2>2. /\ UNCHANGED <<hcVars, fatal>>
        /\ Goto("RetryInIBD", again + 1) \/ Goto("SynchMempool", again + 1)
    BY <2>1 DEF UpToDate
  <2>3. owed' \in BOOLEAN /\ serving' \in BOOLEAN
    BY <2>1 DEF UpToDate
  <2>4. \E st \in States \ (Waiting \cup {"GetBlocks"}) : Goto(st, again + 1)
    BY <2>2 DEF States, Waiting
  <2> QED BY <1>1, <2>2, <2>3, <2>4, TaskOver
<1>9. CASE /\ ~ (sm.state # "WaitingForChainInfo" \/ sm.infoTask # t) /\ ~ (r[1] < 1 /\ ibd)
           /\ ~ SameTip(r[1], r[2]) /\ Height >= r[1]
  <2>1. DoUndoAndRetry /\ owed' = owed /\ serving' = serving
    BY <1>2, <1>9 DEF GotChainInfo
  <2>2. /\ ChainTypes' /\ up' = up /\ sm' \in Sm /\ Targets' /\ Moves'
        /\ again' \in Nat /\ fatal' \in BOOLEAN
    BY <1>1, <2>1, UndoEndsTheRound
  <2>3. tasks' \in [Slots -> Task] /\ TasksAreKept'
    BY <1>1, TaskEnds
  <2>4. LoopTypes'
    BY <1>1, <1>3, <2>1, <2>2 DEF LoopTypes
  <2> QED BY <1>1, <2>2, <2>3, <2>4 DEF IInv, SmTypes, NothingBeforeStart
<1>10. CASE /\ ~ (sm.state # "WaitingForChainInfo" \/ sm.infoTask # t) /\ ~ (r[1] < 1 /\ ibd)
            /\ ~ SameTip(r[1], r[2]) /\ ~ (Height >= r[1])
  <2>1. /\ sm' = [sm EXCEPT !.state = "GetBlocks", !.ht = r[1],
                            !.suppressSaveUndo = SuppressSaveUndo(r[1], ibd)]
        /\ again' = again + 1 /\ owed' = TRUE /\ UNCHANGED <<hcVars, fatal, serving>>
    BY <1>2, <1>10 DEF GotChainInfo
  <2>a. SuppressSaveUndo(r[1], ibd) \in BOOLEAN
    BY DEF SuppressSaveUndo
  <2>2. PICK s \in BOOLEAN : s = SuppressSaveUndo(r[1], ibd)
    BY <2>a
  <2>b. PICK x \in Int : x = r[1]
    BY <1>4
  <2>c. sm \in Sm /\ sm' = [sm EXCEPT !.state = "GetBlocks", !.ht = x, !.suppressSaveUndo = s]
    BY <1>3, <2>1, <2>2, <2>b
  <2>3. sm' \in Sm /\ sm'.state = "GetBlocks" /\ sm'.ht = r[1]
    <3>1. sm' \in Sm /\ sm'.state = "GetBlocks" /\ sm'.ht = x
      BY <2>c DEF Sm, States
    <3> QED BY <2>b, <3>1
  <2>4. tasks' \in [Slots -> Task] /\ TasksAreKept'
    BY <1>1, TaskEnds
  <2>5. Height \in Int /\ r[1] > Height
    BY <1>4, <1>10 DEF IInv, ChainTypes, Height
  <2>6. ChainTypes' /\ Height' = Height /\ up' = up
    BY <2>1 DEF IInv, ChainTypes, Height, hcVars
  <2>7. LoopTypes'
    BY <1>1, <1>3, <1>5, <2>1 DEF LoopTypes
  <2>8. Targets' /\ Moves'
    BY <1>5, <2>1, <2>3, <2>5, <2>6 DEF Targets, Moves, Waiting
  <2> QED BY <1>1, <2>3, <2>4, <2>6, <2>7, <2>8 DEF IInv, SmTypes, NothingBeforeStart
<1> QED BY <1>6, <1>7, <1>8, <1>9, <1>10

(* A block that a task hands over replaces one for the same height. *)
LEMMA PutBlockKeepsIInv ==
    ASSUME IInv, NEW t \in Slots, on_putBlock(t)
    PROVE  IInv'
<1>1. /\ up /\ ~ fatal /\ tasks[t].kind = "download"
      /\ UNCHANGED <<hcVars, best, conn, again, poll, kick, fatal, owed, serving, zmq, cut, bare,
                     faults>>
  BY DEF on_putBlock, CanRun
<1>2. up' = up /\ chain' = chain /\ undoHts' = undoHts /\ earliest' = earliest /\ depth' = depth
  BY <1>1 DEF hcVars
<1>3. PICK r \in tasks[t].got :
          /\ sm' = IF sm.state = "DownloadingBlocks"
                   THEN [sm EXCEPT !.dlResults = {q \in @ : q[1] # r[1]} \cup {r}] ELSE sm
          /\ tasks' = IF tasks[t].todo = {} /\ tasks[t].got = {r} THEN rmTask(t)
                      ELSE [tasks EXCEPT ![t].got = @ \ {r}]
  BY DEF on_putBlock
<1>4. tasks \in [Slots -> Task] /\ tasks[t] \in Task /\ sm \in Sm
  BY DEF IInv, SmTypes
<1>5. r \in Pairs /\ tasks[t].got \subseteq Pairs /\ sm.dlResults \subseteq Pairs
  BY <1>4 DEF Task, Sm
<1> DEFINE res == {q \in sm.dlResults : q[1] # r[1]} \cup {r}
<1>6. res \in SUBSET Pairs /\ \A h : (\E q \in sm.dlResults : q[1] = h) \/ h = r[1] =>
                                         \E q \in res : q[1] = h
  BY <1>5
<1>7. /\ sm' \in Sm /\ sm'.state = sm.state /\ sm'.ht = sm.ht /\ sm'.infoTask = sm.infoTask
      /\ sm'.dlResultsHtNext = sm.dlResultsHtNext /\ sm'.endHeight = sm.endHeight
      /\ sm.state = "DownloadingBlocks" => sm'.dlResults = res
  <2>1. CASE sm.state = "DownloadingBlocks"
    <3>1. sm' = [sm EXCEPT !.dlResults = res]
      BY <1>3, <2>1
    <3> HIDE DEF res
    <3> QED BY <1>4, <1>6, <3>1 DEF Sm
  <2>2. CASE sm.state # "DownloadingBlocks"
    BY <1>3, <1>4, <2>2
  <2> QED BY <2>1, <2>2
<1>8. /\ tasks' \in [Slots -> Task] /\ TasksAreKept'
      /\ \A u \in Slots : u # t => tasks'[u] = tasks[u]
      /\ \A h : (h \in tasks[t].todo \/ \E q \in tasks[t].got : q[1] = h) =>
                   \/ h = r[1]
                   \/ /\ tasks'[t].kind = "download"
                      /\ h \in tasks'[t].todo \/ \E q \in tasks'[t].got : q[1] = h
  <2>1. CASE tasks[t].todo = {} /\ tasks[t].got = {r}
    <3>1. tasks' = rmTask(t)
      BY <1>3, <2>1
    <3> QED BY <2>1, <3>1, TaskEnds
  <2>2. CASE ~ (tasks[t].todo = {} /\ tasks[t].got = {r})
    <3> DEFINE k == [tasks[t] EXCEPT !.got = tasks[t].got \ {r}]
    <3>1. tasks' = [tasks EXCEPT ![t] = k]
      BY <1>3, <1>4, <2>2
    <3>2. tasks[t].got \ {r} \in SUBSET Pairs
      BY <1>5
    <3>3. /\ k \in Task /\ k.kind = "download" /\ k.todo = tasks[t].todo
          /\ k.got = tasks[t].got \ {r}
      BY <1>1, <1>4, <3>2 DEF Task
    <3> HIDE DEF k
    <3>4. /\ tasks' \in [Slots -> Task] /\ tasks'[t] = k
          /\ \A u \in Slots : u # t => tasks'[u] = tasks[u]
      BY <1>4, <3>1, <3>3
    <3>5. TasksAreKept'
      <4> SUFFICES ASSUME NEW u \in Slots
                   PROVE  /\ tasks'[u].kind # "download" => tasks'[u].todo = {}
                          /\ tasks'[u].kind \in {"free", "mempool", "dsps"} => tasks'[u].got = {}
                          /\ tasks'[u].kind = "info" =>
                                 \A q \in tasks'[u].got : q[1] = HeightOf[q[2]] /\ q[2] \in BestBlocks
        BY DEF TasksAreKept
      <4>1. CASE u = t
        BY <3>3, <3>4, <4>1
      <4>2. CASE u # t
        BY <3>4, <4>2 DEF IInv, TasksAreKept
      <4> QED BY <4>1, <4>2
    <3> QED BY <3>3, <3>4, <3>5
  <2> QED BY <2>1, <2>2
<1>9. ChainTypes' /\ LoopTypes' /\ SmTypes' /\ NothingBeforeStart'
  BY <1>1, <1>2, <1>7, <1>8 DEF IInv, ChainTypes, LoopTypes, SmTypes, NothingBeforeStart
<1>10. Targets'
  BY <1>2, <1>7 DEF IInv, Targets, Height
<1>11. Moves'
  <2> HIDE DEF res
  <2>1. sm.state = "DownloadingBlocks" => \A h : UnderWay(h) => UnderWay(h)'
    BY <1>6, <1>7, <1>8 DEF UnderWay
  <2>2. Moves
    BY DEF IInv
  <2>3. sm.state = "WaitingForChainInfo" => tasks'[sm.infoTask] = tasks[sm.infoTask]
    BY <1>1, <1>8, <2>2 DEF Moves
  <2>4. \A u \in Slots : tasks[u].kind \in {"mempool", "dsps"} => tasks'[u] = tasks[u]
    BY <1>1, <1>8
  <2> QED BY <1>1, <1>2, <1>7, <2>1, <2>2, <2>3, <2>4 DEF Moves
<1> QED BY <1>8, <1>9, <1>10, <1>11 DEF IInv

(* One round of the loop that drains what was downloaded. *)
LEMMA VerifyKeepsIInv ==
    ASSUME IInv, VerifyAndAddBlock
    PROVE  IInv'
<1>1. /\ up /\ ~ fatal /\ sm.state = "DownloadingBlocks"
      /\ UNCHANGED <<best, conn, tasks, poll, kick, owed, serving, zmq, cut, faults>>
  BY DEF VerifyAndAddBlock, Draining
<1>2. PICK r \in sm.dlResults :
          /\ r[1] = sm.dlResultsHtNext
          /\ IF Parent[r[2]] = Tip
             THEN /\ Extend(r[2], SaveUndoInfo(r[1]))
                  /\ sm' = [sm EXCEPT !.dlResults = @ \ {r}, !.dlResultsHtNext = @ + 1,
                              !.state = IF r[1] = sm.endHeight THEN "FinishedDL" ELSE @]
                  /\ again' = IF r[1] = sm.endHeight THEN again + 1 ELSE again
                  /\ bare' = (IF sm.suppressSaveUndo THEN r[1] ELSE bare)
                  /\ UNCHANGED fatal
             ELSE DoUndoAndRetry /\ bare' = bare
  BY DEF VerifyAndAddBlock
<1>3. sm \in Sm /\ tasks \in [Slots -> Task] /\ LoopTypes /\ ChainTypes /\ TasksAreKept
  BY DEF IInv, SmTypes
<1>4. TasksAreKept' /\ tasks' \in [Slots -> Task]
  BY <1>1, <1>3 DEF TasksAreKept
<1>5. CASE Parent[r[2]] # Tip
  <2>1. /\ ChainTypes' /\ up' = up /\ sm' \in Sm /\ Targets' /\ Moves'
        /\ again' \in Nat /\ fatal' \in BOOLEAN
    BY <1>1, <1>2, <1>5, UndoEndsTheRound
  <2>2. LoopTypes'
    <3>1. bare' = bare
      BY <1>2, <1>5
    <3> QED BY <1>1, <1>3, <2>1, <3>1 DEF LoopTypes
  <2> QED BY <1>1, <1>4, <2>1, <2>2 DEF IInv, SmTypes, NothingBeforeStart
<1>6. CASE Parent[r[2]] = Tip
  <2> DEFINE st == IF r[1] = sm.endHeight THEN "FinishedDL" ELSE sm.state
             rest == sm.dlResults \ {r}
             next == sm.dlResultsHtNext + 1
  <2>1. /\ Extend(r[2], SaveUndoInfo(r[1]))
        /\ sm' = [sm EXCEPT !.dlResults = rest, !.dlResultsHtNext = next, !.state = st]
        /\ again' = IF r[1] = sm.endHeight THEN again + 1 ELSE again
        /\ fatal' = fatal
    BY <1>2, <1>6
  <2>2. r \in Pairs /\ sm.dlResults \subseteq Pairs /\ sm.dlResultsHtNext \in Nat /\ sm.endHeight \in Nat
    BY <1>3 DEF Sm
  <2>3. r[2] \in Blocks /\ r[1] \in Nat
    BY <2>2 DEF Pairs
  <2>4. SaveUndoInfo(r[1]) \in BOOLEAN
    BY DEF SaveUndoInfo
  <2>5. ChainTypes' /\ Len(chain') = Len(chain) + 1 /\ up' = up
    BY <1>3, <2>1, <2>3, <2>4, ExtendFacts
  <2>6. rest \in SUBSET Pairs /\ next \in Nat /\ st \in States
    BY <1>1, <2>2 DEF States
  <2>7. st = IF r[1] = sm.endHeight THEN "FinishedDL" ELSE "DownloadingBlocks"
    BY <1>1
  <2>8. again \in Nat /\ again' \in Nat /\ (r[1] = sm.endHeight => again' > 0)
    BY <1>3, <2>1 DEF LoopTypes
  <2>9. next = sm.dlResultsHtNext + 1 /\ rest = sm.dlResults \ {r}
    OBVIOUS
  <2> HIDE DEF st, rest, next
  <2>10. /\ sm' \in Sm /\ sm'.state = st /\ sm'.dlResults = rest /\ sm'.dlResultsHtNext = next
         /\ sm'.endHeight = sm.endHeight /\ sm'.ht = sm.ht
    BY <1>3, <2>1, <2>6 DEF Sm
  <2>11. LoopTypes'
    <3>1. bare' \in Int
      BY <1>2, <1>3, <1>6, <2>3 DEF LoopTypes
    <3> QED BY <1>1, <1>3, <2>1, <2>8, <3>1 DEF LoopTypes
  <2>12. /\ sm.dlResultsHtNext = Len(chain) /\ sm.dlResultsHtNext <= sm.endHeight
         /\ sm.endHeight = sm.ht
    BY <1>1 DEF IInv, Targets
  <2>13. Targets'
    <3>1. r[1] # sm.endHeight => next <= sm.endHeight
      BY <1>2, <2>2, <2>9, <2>12
    <3>2. next = Len(chain')
      BY <2>5, <2>9, <2>12
    <3> QED BY <2>7, <2>10, <2>12, <3>1, <3>2 DEF Targets
  <2>14. r[1] # sm.endHeight => \A h \in next .. sm.endHeight : UnderWay(h)'
    <3> SUFFICES ASSUME NEW h \in next .. sm.endHeight PROVE UnderWay(h)'
      OBVIOUS
    <3>1. h \in sm.dlResultsHtNext .. sm.endHeight /\ h # r[1]
      BY <1>2, <2>2, <2>6, <2>9
    <3>2. UnderWay(h)
      BY <1>1, <3>1 DEF IInv, Moves
    <3> QED BY <1>1, <2>9, <2>10, <3>1, <3>2 DEF UnderWay
  <2>15. Moves'
    BY <2>7, <2>8, <2>10, <2>14 DEF Moves, Waiting
  <2> QED BY <1>1, <1>4, <2>5, <2>10, <2>11, <2>13, <2>15 DEF IInv, SmTypes, NothingBeforeStart
<1> QED BY <1>5, <1>6

-----------------------------------------------------------------------------
(* Restarts *)

(* What loadCheckEarliestUndo finds has the right types. *)
LEMMA OpenFacts ==
    ASSUME ChainTypes, NEW d \in UndoDepths, Open(d)
    PROVE  ChainTypes' /\ chain' = chain /\ undoHts' \subseteq undoHts /\ up' /\ depth' = d
<1>1. /\ up' = TRUE /\ depth' = d /\ undoHts' = KeptAtOpen(undoHts, d) /\ chain' = chain
      /\ earliest' = IF undoHts' = {} THEN InvalidUndoHeight
                     ELSE CHOOSE h \in undoHts' : \A k \in undoHts' : h <= k
  BY DEF Open
<1>2. undoHts' \subseteq undoHts /\ undoHts' \subseteq 0 .. MaxHeaders
  BY <1>1 DEF KeptAtOpen, ChainTypes
<1>3. earliest' \in Nat
  <2>1. CASE undoHts' = {}
    BY <1>1, <2>1, ControllerConstants
  <2>2. CASE undoHts' # {}
    <3>1. undoHts' \subseteq Nat
      BY <1>2, ControllerConstants
    <3>2. \E h \in undoHts' : \A k \in undoHts' : h <= k
      BY <2>2, <3>1, LeastNatural
    <3>3. earliest' \in undoHts'
      BY <1>1, <2>2, <3>2
    <3> QED BY <3>1, <3>3
  <2> QED BY <2>1, <2>2
<1>4. d \in Nat
  BY ControllerConstants
<1> QED BY <1>1, <1>2, <1>3, <1>4 DEF ChainTypes

(* A process ends at any moment and another one starts from the database. *)
LEMMA RestartsKeepIInv ==
    ASSUME IInv, Stop \/ Crash \/ Start
    PROVE  IInv'
<1>1. CASE Stop \/ Crash
  <2>1. /\ up' = FALSE /\ depth' = 0 /\ earliest' = InvalidUndoHeight /\ cut' \in BOOLEAN
        /\ sm' = NoSm /\ tasks' = [t \in Slots |-> NoTask] /\ again' = 0
        /\ conn' = FALSE /\ poll' = FALSE /\ kick' = FALSE /\ fatal' = FALSE
        /\ owed' = FALSE /\ serving' = FALSE /\ zmq' = FALSE /\ best' = best /\ bare' = bare
        /\ faults < MaxFaults /\ faults' = faults + 1
    BY <1>1 DEF IInv, LoopTypes, Stop, Crash, ProcessEnds, Close, Lose, Closed
  <2>2. faults' \in 0 .. MaxFaults
    BY <2>1, ControllerConstants DEF IInv, LoopTypes
  <2>3. ChainTypes'
    <3>1. CASE Stop
      BY <2>1, <3>1, ControllerConstants DEF IInv, ChainTypes, Stop, Close
    <3>2. CASE Crash
      <4>1. PICK n \in 0 .. Len(chain) : Lose(n)
        BY <3>2 DEF Crash
      <4>2. chain \in Seq(Blocks) /\ Len(chain) \in Nat /\ n \in Nat /\ n <= MaxHeaders
        BY ControllerConstants DEF IInv, ChainTypes
      <4>3. chain' \in Seq(Blocks) /\ Len(chain') <= MaxHeaders
        BY <4>1, <4>2 DEF Lose
      <4>4. undoHts' \subseteq 0 .. MaxHeaders
        BY <4>1, <4>2, ControllerConstants DEF Lose
      <4> QED BY <2>1, <4>3, <4>4, ControllerConstants DEF ChainTypes
    <3> QED BY <1>1, <3>1, <3>2
  <2>4. LoopTypes'
    BY <2>1, <2>2 DEF IInv, LoopTypes
  <2>5. SmTypes' /\ TasksAreKept'
    BY <2>1, EmptyRecords DEF SmTypes, TasksAreKept
  <2>6. NothingBeforeStart' /\ Targets' /\ Moves'
    BY <2>1, EmptyRecords DEF NothingBeforeStart, Targets, Moves
  <2> QED BY <2>3, <2>4, <2>5, <2>6 DEF IInv
<1>2. CASE Start
  <2>1. PICK d \in UndoDepths : Open(d)
    BY <1>2 DEF Start
  <2>2. /\ best' = best /\ conn' = conn /\ sm' = sm /\ tasks' = tasks /\ again' = again
        /\ poll' = poll /\ kick' = kick /\ fatal' = fatal /\ owed' = owed /\ serving' = serving
        /\ zmq' = zmq /\ cut' = cut /\ bare' = bare /\ faults' = faults
    BY <1>2 DEF Start, ctlVars
  <2>3. ChainTypes' /\ up'
    BY <2>1, OpenFacts DEF IInv
  <2>4. sm.state = "none" /\ ~ conn
    BY <2>1 DEF Open, IInv, NothingBeforeStart
  <2>5. LoopTypes' /\ SmTypes' /\ TasksAreKept'
    BY <2>2 DEF IInv, LoopTypes, SmTypes, TasksAreKept
  <2>6. NothingBeforeStart' /\ Targets' /\ Moves'
    BY <2>2, <2>3, <2>4 DEF NothingBeforeStart, Targets, Moves, Waiting
  <2> QED BY <2>3, <2>5, <2>6 DEF IInv
<1> QED BY <1>1, <1>2

-----------------------------------------------------------------------------
(* The theorems about the state machine *)

(* The first start, with an empty database. *)
LEMMA InitIInv == CtlInit => IInv
<1> SUFFICES ASSUME CtlInit PROVE IInv
  OBVIOUS
<1>1. chain = << >> /\ undoHts = {} /\ earliest = InvalidUndoHeight /\ depth = 0 /\ up = FALSE
  BY DEF CtlInit, Init
<1>2. /\ best = FirstBest /\ conn = FALSE /\ sm = NoSm /\ tasks = [t \in Slots |-> NoTask]
      /\ again = 0 /\ poll = FALSE /\ kick = FALSE /\ fatal = FALSE /\ owed = FALSE
      /\ serving = FALSE /\ zmq = FALSE /\ cut = FALSE /\ bare = -1 /\ faults = 0
  BY DEF CtlInit
<1>3. ChainTypes
  <2>1. earliest \in Nat /\ depth \in Nat /\ chain \in Seq(Blocks) /\ Len(chain) <= MaxHeaders
    BY <1>1, ControllerConstants
  <2>2. undoHts \subseteq 0 .. MaxHeaders /\ up \in BOOLEAN
    BY <1>1
  <2> QED BY <2>1, <2>2 DEF ChainTypes
<1>4. LoopTypes
  <2>1. /\ best \in Blocks /\ best \in BestBlocks /\ again \in Nat /\ faults \in 0 .. MaxFaults
        /\ bare \in Int
    BY <1>2, ControllerConstants DEF BestBlocks
  <2> QED BY <1>2, <2>1 DEF LoopTypes
<1>5. SmTypes /\ TasksAreKept
  BY <1>2, EmptyRecords DEF SmTypes, TasksAreKept
<1>6. NothingBeforeStart /\ Targets /\ Moves
  BY <1>1, <1>2, EmptyRecords DEF NothingBeforeStart, Targets, Moves
<1> QED BY <1>3, <1>4, <1>5, <1>6 DEF IInv

(* Every step keeps the invariant. *)
LEMMA NextIInv == IInv /\ [CtlNext]_vars => IInv'
<1> SUFFICES ASSUME IInv, [CtlNext]_vars PROVE IInv'
  OBVIOUS
<1>1. CASE Again \/ on_Poll \/ on_PollZmq \/ CallProcessTimer
  BY <1>1, CallsKeepIInv
<1>2. CASE allConnectionsLost \/ gotFirstGoodConnection \/ NewBestBlock
  BY <1>2, ConnectionsKeepIInv
<1>3. CASE VerifyAndAddBlock
  BY <1>3, VerifyKeepsIInv
<1>4. ASSUME NEW t \in Slots, TaskStep(t) \/ RequestFailed(t) \/ RetryRecommended(t) PROVE IInv'
  BY <1>4, AnswersKeepIInv, TaskReportsKeepIInv, ChainInfoKeepsIInv, PutBlockKeepsIInv
     DEF TaskStep
<1>5. CASE Stop \/ Crash \/ Start
  BY <1>5, RestartsKeepIInv
<1>6. CASE UNCHANGED vars
  <2>1. UNCHANGED hcVars /\ UNCHANGED ctlVars
    BY <1>6 DEF vars
  <2>2. ChainTypes' /\ LoopTypes' /\ SmTypes' /\ TasksAreKept' /\ NothingBeforeStart'
    BY <2>1 DEF hcVars, ctlVars, IInv, ChainTypes, LoopTypes, SmTypes, TasksAreKept,
                NothingBeforeStart
  <2>3. Targets' /\ Moves'
    BY <2>1 DEF hcVars, ctlVars, IInv, Targets, Height, Moves, UnderWay
  <2> QED BY <2>2, <2>3 DEF IInv
<1> QED BY <1>1, <1>2, <1>3, <1>4, <1>5, <1>6 DEF CtlNext

(* The inductive invariant holds in every reachable state. *)
THEOREM Invariance == CtlSpec => []IInv
BY InitIInv, NextIInv, PTL DEF CtlSpec

(* Type correctness of the Controller, its tasks and its view of Storage. *)
THEOREM TypeCorrect == CtlSpec => []CtlTypeOK
<1>1. IInv => CtlTypeOK
  <2> SUFFICES ASSUME IInv PROVE CtlTypeOK
    OBVIOUS
  <2>1. /\ sm.state \in States /\ sm.ht \in Int /\ sm.suppressSaveUndo \in BOOLEAN
        /\ sm.infoTask \in Slots \cup {0} /\ sm.dlResults \subseteq Pairs
        /\ sm.dlResultsHtNext \in Nat /\ sm.endHeight \in Nat
    BY DEF IInv, SmTypes, Sm
  <2>2. \A t \in Slots :
          /\ tasks[t].kind \in {"free", "info", "download", "mempool", "dsps"}
          /\ tasks[t].silent \in BOOLEAN
          /\ tasks[t].todo \subseteq Nat /\ tasks[t].got \subseteq Pairs
    BY DEF IInv, SmTypes, Task
  <2>3. ChainTypes /\ LoopTypes
    BY DEF IInv
  <2> QED BY <2>1, <2>2, <2>3 DEF CtlTypeOK, ChainTypes, LoopTypes
<1> QED BY <1>1, Invariance, PTL

(* process_DownloadingBlocks hands appendHeader the height after the tip,    *)
(* for every block tree, every behaviour of bitcoind and every mixture of    *)
(* stale tasks.                                                              *)
THEOREM AppendsCorrect == CtlSpec => []AppendsAtTip
<1>1. IInv => AppendsAtTip
  BY DEF IInv, Targets, AppendsAtTip
<1> QED BY <1>1, Invariance, PTL

(* The state machine always has something coming that makes it move: no      *)
(* interleaving of tasks, timers, lost connections and restarts leaves it    *)
(* waiting for nothing.                                                      *)
THEOREM StallFree == CtlSpec => []NeverStalls
<1>1. IInv => NeverStalls
  <2> SUFFICES ASSUME IInv, up, ~ fatal PROVE NeverStalls
    BY DEF NeverStalls
  <2>1. Moves
    BY DEF IInv
  <2> QED BY <2>1 DEF NeverStalls, Moves, Waiting, UnderWay
<1> QED BY <1>1, Invariance, PTL

-----------------------------------------------------------------------------
(* The undo records *)

(* Steps that leave Storage and bitcoind alone and start no download. *)
LEMMA CalmSteps ==
    ASSUME IInv, NEW D \in Nat, WInv(D), UNCHANGED <<hcVars, best, cut, bare>>,
           sm'.state \in Downloads =>
               /\ sm.state \in Downloads
               /\ sm'.ht = sm.ht /\ sm'.suppressSaveUndo = sm.suppressSaveUndo,
           sm'.state \in Synched => sm.state \in Synched,
           sm'.state = "WaitingForChainInfo" =>
               \A r \in tasks'[sm'.infoTask].got :
                   \/ r[1] = HeightOf[best]
                   \/ /\ sm.state = "WaitingForChainInfo"
                      /\ r \in tasks[sm.infoTask].got
    PROVE  WInv(D)'
<1>1. /\ up' = up /\ chain' = chain /\ undoHts' = undoHts /\ earliest' = earliest
      /\ depth' = depth /\ best' = best /\ cut' = cut /\ bare' = bare
  BY DEF hcVars
<1>2. Height' = Height /\ Window(D)' = Window(D)
  BY <1>1 DEF Height, Window
<1>3. DepthIs(D)' /\ NothingTooOld(D)' /\ Bareness' /\ SynchedIsExact(D)'
  BY <1>1, <1>2 DEF WInv, DepthIs, NothingTooOld, Bareness, SynchedIsExact
<1>4. NothingMissing(D)'
  <2> SUFFICES ASSUME ~ cut PROVE \E T \in Int : Reported(D, T)'
    BY <1>1 DEF NothingMissing
  <2>1. PICK T \in Int : Reported(D, T)
    BY DEF WInv, NothingMissing
  <2>2. HeightOf[best] \in Nat
    BY ControllerConstants DEF IInv, LoopTypes
  <2>3. T <= HeightOf[best] /\ HeightOf[best] \in T .. HeightOf[best]
    BY <2>1, <2>2 DEF Reported
  <2>4. Reported(D, T)'
    BY <1>1, <1>2, <2>1, <2>2, <2>3 DEF Reported, Downloads
  <2> QED BY <2>4
<1> QED BY <1>3, <1>4 DEF WInv

(* process() and what calls it. *)
LEMMA CallsKeepWInv ==
    ASSUME IInv, NEW D \in Nat, WInv(D), Again \/ on_Poll \/ on_PollZmq \/ CallProcessTimer
    PROVE  WInv(D)'
<1>1. best' = best /\ cut' = cut /\ bare' = bare
  BY DEF Again, on_Poll, on_PollZmq, CallProcessTimer
<1>2. sm \in Sm /\ tasks \in [Slots -> Task]
  BY DEF IInv, SmTypes
<1>3. CASE UNCHANGED <<hcVars, sm, tasks>>
  BY <1>1, <1>3, CalmSteps
<1>4. ASSUME NEW silent \in BOOLEAN, NEW n, process(silent, n) PROVE WInv(D)'
  <2>1. UNCHANGED hcVars
    BY <1>4 DEF process, ProcessBegin, ProcessCoinUnknown, ProcessWaiting, ProcessGetBlocks,
                ProcessIdle, ProcessStartOver, ProcessStartOverLater, ProcessSynch,
                ProcessSynchFinished
  <2>2. CASE ProcessBegin(silent, n)
    <3>1. /\ Free # {} /\ tasks' = WithTask(InfoTask(silent))
          /\ sm' = [NoSm EXCEPT !.state = "WaitingForChainInfo", !.infoTask = FirstFree]
      BY <2>2 DEF ProcessBegin
    <3>2. FirstFree \in Slots
      BY <3>1, FirstFreeIsFree
    <3>3. sm'.state = "WaitingForChainInfo" /\ sm'.infoTask = FirstFree
      BY <3>1, EmptyRecords DEF Sm
    <3>4. tasks'[FirstFree] = InfoTask(silent) /\ InfoTask(silent).got = {}
      BY <1>2, <3>1, <3>2, NewTasks DEF WithTask
    <3> QED BY <1>1, <2>1, <3>3, <3>4, CalmSteps DEF Downloads, Synched
  <2>3. CASE ProcessCoinUnknown(n)
    <3>1. sm' = [NoSm EXCEPT !.state = "Failure"]
      BY <2>3 DEF ProcessCoinUnknown
    <3>2. sm'.state = "Failure"
      BY <3>1, EmptyRecords DEF Sm
    <3> QED BY <1>1, <2>1, <3>2, CalmSteps DEF Downloads, Synched
  <2>4. CASE ProcessWaiting(n)
    <3>1. tasks' = tasks /\ (sm' = sm \/ sm' = [sm EXCEPT !.state = "Failure"])
      BY <2>4 DEF ProcessWaiting, Goto
    <3>2. sm' = sm \/ sm'.state = "Failure"
      BY <1>2, <3>1 DEF Sm
    <3> QED BY <1>1, <2>1, <3>1, <3>2, CalmSteps DEF Downloads, Synched
  <2>5. CASE ProcessGetBlocks(n)
    <3>1. /\ sm.state = "GetBlocks"
          /\ sm' = [sm EXCEPT !.state = "DownloadingBlocks", !.dlResultsHtNext = FirstMissing,
                              !.endHeight = sm.ht]
      BY <2>5 DEF ProcessGetBlocks
    <3>2. /\ sm'.state = "DownloadingBlocks" /\ sm'.ht = sm.ht
          /\ sm'.suppressSaveUndo = sm.suppressSaveUndo
      BY <1>2, <3>1 DEF Sm
    <3> QED BY <1>1, <2>1, <3>1, <3>2, CalmSteps DEF Downloads, Synched
  <2>6. CASE ProcessIdle(n)
    BY <1>3, <2>1, <2>6 DEF ProcessIdle
  <2>7. CASE ProcessStartOver(n) \/ ProcessStartOverLater(n)
    <3>1. sm'.state = "none"
      BY <2>7, EmptyRecords DEF ProcessStartOver, ProcessStartOverLater
    <3> QED BY <1>1, <2>1, <3>1, CalmSteps DEF Downloads, Synched
  <2>8. CASE ProcessSynch(n) \/ ProcessSynchFinished(n)
    <3>1. PICK st \in {"SynchingMempool", "SynchingDSPs", "SynchDSPs", "End"} :
              sm' = [sm EXCEPT !.state = st]
      BY <2>8 DEF ProcessSynch, ProcessSynchFinished, Goto
    <3>2. sm'.state = st
      BY <1>2, <3>1 DEF Sm
    <3>3. sm.state \in Synched
      BY <2>8 DEF ProcessSynch, ProcessSynchFinished, Synched
    <3> QED BY <1>1, <2>1, <3>2, <3>3, CalmSteps DEF Downloads, Synched
  <2> QED BY <1>4, <2>2, <2>3, <2>4, <2>5, <2>6, <2>7, <2>8 DEF process
<1>5. \/ UNCHANGED <<hcVars, sm, tasks>>
      \/ \E silent \in BOOLEAN : \E n : process(silent, n)
  BY DEF Again, on_Poll, on_PollZmq, CallProcessTimer
<1> QED BY <1>3, <1>4, <1>5

(* Tasks that ask, fail, or hand over something else than chain info. *)
LEMMA TasksKeepWInv ==
    ASSUME IInv, NEW D \in Nat, WInv(D), NEW t \in Slots,
           \/ AnswerChainInfo(t) \/ AnswerBlockHash(t) \/ RequestFailed(t) \/ HeightOutOfRange(t)
           \/ SynchSucceeded(t) \/ RetryRecommended(t) \/ on_putBlock(t)
    PROVE  WInv(D)'
<1>1. UNCHANGED <<hcVars, best, cut, bare>>
  BY DEF AnswerChainInfo, AnswerBlockHash, RequestFailed, HeightOutOfRange, Errored, SynchSucceeded,
         RetryRecommended, on_putBlock
<1>2. sm \in Sm /\ tasks \in [Slots -> Task] /\ tasks[t] \in Task
  BY DEF IInv, SmTypes
<1>3. sm.state = "WaitingForChainInfo" /\ up /\ ~ fatal =>
          sm.infoTask \in Slots /\ tasks[sm.infoTask].kind = "info"
  BY DEF IInv, Moves
<1>4. CASE AnswerChainInfo(t)
  <2>1. /\ sm' = sm /\ up /\ ~ fatal
        /\ tasks' = [tasks EXCEPT ![t].got = {<<HeightOf[best], best>>}]
    BY <1>4 DEF AnswerChainInfo
  <2>2. \A u \in Slots : \A r \in tasks'[u].got : r[1] = HeightOf[best] \/ r \in tasks[u].got
    BY <1>2, <2>1 DEF Task
  <2> QED BY <1>1, <1>3, <2>1, <2>2, CalmSteps
<1>5. CASE AnswerBlockHash(t)
  <2>1. /\ sm' = sm /\ up /\ ~ fatal /\ tasks[t].kind = "download"
        /\ \A u \in Slots : u # t => tasks'[u] = tasks[u]
    BY <1>2, <1>5 DEF AnswerBlockHash
  <2>2. sm.state = "WaitingForChainInfo" => tasks'[sm.infoTask] = tasks[sm.infoTask]
    BY <1>3, <2>1
  <2> QED BY <1>1, <2>1, <2>2, CalmSteps
<1>6. CASE on_putBlock(t)
  <2>1. PICK r \in tasks[t].got :
            /\ sm' = IF sm.state = "DownloadingBlocks"
                     THEN [sm EXCEPT !.dlResults = {q \in @ : q[1] # r[1]} \cup {r}] ELSE sm
            /\ tasks' = IF tasks[t].todo = {} /\ tasks[t].got = {r} THEN rmTask(t)
                        ELSE [tasks EXCEPT ![t].got = @ \ {r}]
    BY <1>6 DEF on_putBlock
  <2>2. up /\ ~ fatal /\ tasks[t].kind = "download"
    BY <1>6 DEF on_putBlock, CanRun
  <2>3. \A u \in Slots : u # t => tasks'[u] = tasks[u]
    BY <1>2, <2>1 DEF rmTask
  <2>4. /\ sm'.state = sm.state /\ sm'.ht = sm.ht /\ sm'.infoTask = sm.infoTask
        /\ sm'.suppressSaveUndo = sm.suppressSaveUndo
    <3>1. CASE sm.state = "DownloadingBlocks"
      <4>1. PICK res : sm' = [sm EXCEPT !.dlResults = res]
        BY <2>1, <3>1
      <4> QED BY <1>2, <4>1 DEF Sm
    <3>2. CASE sm.state # "DownloadingBlocks"
      BY <2>1, <3>2
    <3> QED BY <3>1, <3>2
  <2>5. sm.state = "WaitingForChainInfo" => tasks'[sm.infoTask] = tasks[sm.infoTask]
    BY <1>3, <2>2, <2>3
  <2> QED BY <1>1, <2>4, <2>5, CalmSteps
<1>7. CASE \/ RequestFailed(t) \/ HeightOutOfRange(t) \/ SynchSucceeded(t) \/ RetryRecommended(t)
  <2>1. up /\ ~ fatal /\ tasks' = rmTask(t)
    BY <1>7 DEF RequestFailed, HeightOutOfRange, Errored, SynchSucceeded, RetryRecommended, CanRun
  <2>2. \/ sm' = sm
        \/ \E st \in {"Failure", "Retry"} : sm' = [sm EXCEPT !.state = st]
        \/ /\ sm.state \in {"SynchingMempool", "SynchingDSPs"}
           /\ \E st \in {"SynchMempoolFinished", "SynchDSPsFinished"} :
                  sm' = [sm EXCEPT !.state = st]
    BY <1>7 DEF RequestFailed, HeightOutOfRange, Errored, SynchSucceeded, RetryRecommended, Goto
  <2>3. \/ sm' = sm
        \/ sm'.state \in {"Failure", "Retry"}
        \/ /\ sm.state \in {"SynchingMempool", "SynchingDSPs"}
           /\ sm'.state \in {"SynchMempoolFinished", "SynchDSPsFinished"}
    BY <1>2, <2>2 DEF Sm
  <2>4. \A u \in Slots : tasks'[u].got \subseteq tasks[u].got
    BY <1>2, <2>1, EmptyRecords DEF rmTask
  <2>5. sm' = sm /\ sm.state = "WaitingForChainInfo" =>
            tasks'[sm'.infoTask].got \subseteq tasks[sm.infoTask].got
    BY <1>3, <2>1, <2>4
  <2> QED BY <1>1, <2>3, <2>5, CalmSteps DEF Downloads, Synched
<1> QED BY <1>4, <1>5, <1>6, <1>7

(* Bitcoind's best block only gets higher, or the promise is off. *)
LEMMA ConnectionsKeepWInv ==
    ASSUME IInv, NEW D \in Nat, WInv(D),
           allConnectionsLost \/ gotFirstGoodConnection \/ NewBestBlock
    PROVE  WInv(D)'
<1>1. CASE allConnectionsLost \/ gotFirstGoodConnection
  <2>1. UNCHANGED <<hcVars, best, cut, bare>> /\ sm' = sm /\ tasks' = tasks
    BY <1>1 DEF allConnectionsLost, gotFirstGoodConnection
  <2> QED BY <2>1, CalmSteps
<1>2. CASE NewBestBlock
  <2>1. /\ UNCHANGED hcVars /\ sm' = sm /\ tasks' = tasks /\ best' \in Blocks
        /\ cut' = (cut \/ HeightOf[best'] < HeightOf[best]) /\ bare' = bare
    BY <1>2, ControllerConstants DEF NewBestBlock
  <2>2. /\ up' = up /\ chain' = chain /\ undoHts' = undoHts /\ earliest' = earliest
        /\ depth' = depth
    BY <2>1 DEF hcVars
  <2>3. Height' = Height /\ Window(D)' = Window(D)
    BY <2>2 DEF Height, Window
  <2>4. ~ cut' => ~ cut /\ HeightOf[best'] >= HeightOf[best]
    <3>1. HeightOf[best] \in Nat /\ HeightOf[best'] \in Nat
      BY <2>1, ControllerConstants DEF IInv, LoopTypes
    <3>2. ~ cut' => ~ cut /\ ~ (HeightOf[best'] < HeightOf[best])
      BY <2>1
    <3> QED BY <3>1, <3>2
  <2>5. DepthIs(D)' /\ NothingTooOld(D)' /\ Bareness' /\ SynchedIsExact(D)'
    BY <2>1, <2>2, <2>3, <2>4
       DEF WInv, DepthIs, NothingTooOld, Bareness, SynchedIsExact
  <2>6. NothingMissing(D)'
    <3> SUFFICES ASSUME ~ cut' PROVE \E T \in Int : Reported(D, T)'
      BY DEF NothingMissing
    <3>1. PICK T \in Int : Reported(D, T)
      BY <2>4 DEF WInv, NothingMissing
    <3>2. HeightOf[best] \in Nat /\ HeightOf[best'] \in Nat /\ HeightOf[best] <= HeightOf[best']
      BY <2>1, <2>4, ControllerConstants DEF IInv, LoopTypes
    <3>3. T <= HeightOf[best']
      BY <3>1, <3>2 DEF Reported
    <3>4. T .. HeightOf[best] \subseteq T .. HeightOf[best']
      BY <3>2
    <3>5. Reported(D, T)'
      BY <2>1, <2>2, <2>3, <3>1, <3>3, <3>4 DEF Reported
    <3> QED BY <3>5
  <2> QED BY <2>5, <2>6 DEF WInv
<1> QED BY <1>1, <1>2

(* addBlock expires the one height that leaves the window. *)
LEMMA ExtendWindow ==
    ASSUME ChainTypes, NEW D \in Nat, up, depth = D, NothingTooOld(D),
           NEW b \in Blocks, NEW saveUndo \in BOOLEAN, Extend(b, saveUndo)
    PROVE  /\ NothingTooOld(D)'
           /\ \A h \in undoHts : h > Len(chain) - D => h \in undoHts'
           /\ saveUndo /\ D > 0 => Len(chain) \in undoHts'
<1> DEFINE n == Len(chain)
           first == IF saveUndo /\ n < earliest THEN n ELSE earliest
           expired == {h \in {n - D} : h >= 0 /\ h >= first}
<1>1. /\ undoHts' = (undoHts \cup {h \in {n} : saveUndo}) \ expired
      /\ earliest' = IF expired = {} THEN first ELSE n - D + 1
  BY DEF Extend
<1>2. n \in Nat /\ earliest \in Nat /\ first \in Nat /\ first <= earliest /\ Height = n - 1
  BY DEF ChainTypes, Height
<1>3. Height' = n
  <2>1. Len(chain') = n + 1
    BY ExtendFacts
  <2> QED BY <1>2, <2>1 DEF Height
<1>4. \A h \in undoHts : h \in Nat /\ h <= n - 1 /\ h >= n - D /\ first <= h
  <2> SUFFICES ASSUME NEW h \in undoHts
               PROVE  h \in Nat /\ h <= n - 1 /\ h >= n - D /\ first <= h
    OBVIOUS
  <2>1. h \in 0 .. n - 1 /\ h > n - 1 - D
    BY <1>2 DEF NothingTooOld, Window
  <2>2. earliest <= h
    BY DEF NothingTooOld
  <2> QED BY <1>2, <2>1, <2>2
<1>5. saveUndo => first <= n
  BY <1>2
<1> HIDE DEF first
<1>6. ASSUME NEW h \in undoHts' PROVE h \in 0 .. n /\ h > n - D /\ earliest' <= h
  <2>1. h \notin expired /\ h \in Nat /\ h <= n /\ h >= n - D /\ first <= h
    BY <1>1, <1>2, <1>4, <1>5, <1>6
  <2>2. h # n - D
    BY <1>2, <2>1
  <2>3. h > n - D
    BY <1>2, <2>1, <2>2
  <2>4. earliest' <= h
    BY <1>1, <1>2, <2>1, <2>3
  <2> QED BY <1>2, <2>1, <2>3, <2>4
<1>7. NothingTooOld(D)'
  BY <1>3, <1>6 DEF NothingTooOld, Window
<1>8. \A h \in undoHts : h > n - D => h \in undoHts'
  BY <1>1, <1>2, <1>4
<1>9. saveUndo /\ D > 0 => n \in undoHts'
  <2> SUFFICES ASSUME saveUndo, D > 0 PROVE n \in undoHts'
    OBVIOUS
  <2>1. n # n - D
    BY <1>2
  <2> QED BY <1>1, <2>1
<1> QED BY <1>7, <1>8, <1>9

(* An undo takes the newest record away, and the block it belongs to. *)
LEMMA RetractWindow ==
    ASSUME ChainTypes, NEW D \in Nat, up, NothingTooOld(D), Retract
    PROVE  /\ NothingTooOld(D)' /\ Height' = Height - 1
           /\ \A h \in undoHts : h <= Height - 1 => h \in undoHts'
<1>1. /\ undoHts' = undoHts \ {Height} /\ Height > 0
      /\ earliest' = IF earliest >= Height THEN InvalidUndoHeight ELSE earliest
  BY DEF Retract, CanRetract
<1>2. Height \in Nat /\ earliest \in Nat
  BY <1>1 DEF ChainTypes, Height
<1>3. Height' = Height - 1
  BY RetractFacts DEF Height
<1>4. \A h \in undoHts : h \in 0 .. Height /\ h > Height - D /\ earliest <= h
  BY DEF NothingTooOld, Window
<1>5. ASSUME NEW h \in undoHts' PROVE h \in 0 .. Height - 1 /\ h > Height - 1 - D /\ earliest' <= h
  <2>1. h \in undoHts /\ h # Height
    BY <1>1, <1>5
  <2>2. h \in 0 .. Height /\ h > Height - D /\ earliest <= h
    BY <1>4, <2>1
  <2>3. earliest' = earliest
    BY <1>1, <1>2, <2>1, <2>2
  <2> QED BY <1>2, <2>1, <2>2, <2>3
<1>6. NothingTooOld(D)'
  BY <1>3, <1>5 DEF NothingTooOld, Window
<1>7. \A h \in undoHts : h <= Height - 1 => h \in undoHts'
  BY <1>1, <1>2
<1> QED BY <1>3, <1>6, <1>7

(* A restart keeps a run of records that ends at the tip. *)
LEMMA OpenWindow ==
    ASSUME ChainTypes, NEW D \in UndoDepths, NothingTooOld(D), Open(D)
    PROVE  /\ NothingTooOld(D)' /\ Height' = Height
           /\ \A h \in undoHts : (h .. Height) \subseteq undoHts => h \in undoHts'
<1>1. /\ undoHts' = KeptAtOpen(undoHts, D) /\ chain' = chain
      /\ earliest' = IF undoHts' = {} THEN InvalidUndoHeight
                     ELSE CHOOSE h \in undoHts' : \A k \in undoHts' : h <= k
  BY DEF Open
<1>2. Height' = Height /\ Height \in Int /\ D \in Nat
  BY <1>1, ControllerConstants DEF Height, ChainTypes
<1>3. \A h \in undoHts : h \in 0 .. Height /\ h > Height - D
  BY DEF NothingTooOld, Window
<1>4. undoHts' \subseteq undoHts
  BY <1>1 DEF KeptAtOpen
<1>5. \A h \in undoHts' : earliest' <= h
  <2> SUFFICES ASSUME undoHts' # {} PROVE \A h \in undoHts' : earliest' <= h
    OBVIOUS
  <2>1. undoHts' \subseteq Nat
    BY <1>3, <1>4
  <2>2. \E h \in undoHts' : \A k \in undoHts' : h <= k
    BY <2>1, LeastNatural
  <2> QED BY <1>1, <2>2
<1>6. NothingTooOld(D)'
  BY <1>2, <1>3, <1>4, <1>5 DEF NothingTooOld, Window
<1>7. ASSUME NEW h \in undoHts, (h .. Height) \subseteq undoHts PROVE h \in undoHts'
  <2> SUFFICES ASSUME NEW k \in undoHts, k > h PROVE k - h < D /\ (h .. k) \subseteq undoHts
    BY <1>1 DEF KeptAtOpen
  <2>1. h \in 0 .. Height /\ h > Height - D /\ k \in 0 .. Height
    BY <1>3
  <2>2. k - h < D
    BY <1>2, <2>1
  <2>3. (h .. k) \subseteq h .. Height
    BY <1>2, <2>1
  <2> QED BY <1>7, <2>2, <2>3
<1> QED BY <1>2, <1>6, <1>7

(* process_DoUndoAndRetry *)
LEMMA UndoKeepsWInv ==
    ASSUME IInv, NEW D \in Nat, WInv(D), up, ~ fatal, DoUndoAndRetry,
           best' = best, cut' = cut, bare' = bare
    PROVE  WInv(D)'
<1>1. sm'.state \in {"Retry", "Failure"}
  BY UndoEndsTheRound
<1>2. sm'.state \notin Downloads /\ sm'.state \notin Synched /\ sm'.state # "WaitingForChainInfo"
  BY <1>1 DEF Downloads, Synched
<1>3. CASE CanRetract
  <2>1. Retract
    BY <1>3 DEF DoUndoAndRetry
  <2>2. ChainTypes /\ Height \in Int /\ depth = D
    BY DEF IInv, ChainTypes, Height, WInv, DepthIs
  <2>3. /\ NothingTooOld(D)' /\ Height' = Height - 1
        /\ \A h \in undoHts : h <= Height - 1 => h \in undoHts'
    BY <2>1, <2>2, RetractWindow DEF WInv
  <2>4. up' = up /\ depth' = depth
    BY <2>1, <2>2, RetractFacts
  <2>5. Bareness'
    <3>1. Height \in undoHts /\ undoHts' \subseteq undoHts
      BY <2>1 DEF Retract, CanRetract
    <3>2. bare \in Int /\ bare < Height /\ \A h \in undoHts : h > bare
      BY <2>2, <3>1 DEF IInv, LoopTypes, WInv, Bareness
    <3> QED BY <1>2, <2>2, <2>3, <3>1, <3>2 DEF Bareness
  <2>7. DepthIs(D)' /\ SynchedIsExact(D)'
    BY <1>2, <2>2, <2>4 DEF DepthIs, SynchedIsExact
  <2>6. NothingMissing(D)'
    <3> SUFFICES ASSUME ~ cut PROVE \E T \in Int : Reported(D, T)'
      BY DEF NothingMissing
    <3>1. PICK T \in Int : Reported(D, T)
      BY DEF WInv, NothingMissing
    <3>2. \A h \in 0 .. Height' : h \in 0 .. Height /\ h <= Height - 1
      BY <2>2, <2>3
    <3>3. Reported(D, T)'
      BY <1>2, <2>3, <3>1, <3>2 DEF Reported
    <3> QED BY <3>3
  <2> QED BY <2>3, <2>5, <2>6, <2>7 DEF WInv
<1>4. CASE ~ CanRetract
  <2>1. UNCHANGED hcVars
    BY <1>4 DEF DoUndoAndRetry
  <2> QED BY <1>2, <2>1, CalmSteps
<1> QED BY <1>3, <1>4

(* The answer of getblockchaininfo: the round is over, or a download begins. *)
LEMMA ChainInfoKeepsWInv ==
    ASSUME IInv, NEW D \in Nat, WInv(D), NEW t \in Slots, ChainInfoSucceeded(t)
    PROVE  WInv(D)'
<1>1. /\ up /\ ~ fatal /\ tasks[t].kind = "info" /\ tasks' = rmTask(t)
      /\ best' = best /\ cut' = cut /\ bare' = bare
  BY DEF ChainInfoSucceeded, CanRun
<1>2. PICK r \in tasks[t].got : GotChainInfo(t, r[1], r[2])
  BY DEF ChainInfoSucceeded
<1>3. tasks \in [Slots -> Task] /\ sm \in Sm /\ r \in Pairs /\ Height \in Int /\ depth = D
  BY <1>1 DEF IInv, SmTypes, Task, ChainTypes, Height, WInv, DepthIs
<1>4. r[1] \in Nat /\ r[2] \in Blocks /\ r[1] = HeightOf[r[2]] /\ r[2] \in BestBlocks
  BY <1>1, <1>3 DEF Pairs, IInv, TasksAreKept
<1> DEFINE ibd == r[2] \in InIBD
<1>6. CASE sm.state # "WaitingForChainInfo" \/ sm.infoTask # t
  <2>1. UNCHANGED <<hcVars, sm>>
    BY <1>2, <1>6 DEF GotChainInfo
  <2>2. \A u \in Slots : tasks'[u].got \subseteq tasks[u].got
    BY <1>1, <1>3, EmptyRecords DEF rmTask
  <2>3. sm.state = "WaitingForChainInfo" => sm.infoTask \in Slots
    BY <1>1 DEF IInv, Moves
  <2> QED BY <1>1, <2>1, <2>2, <2>3, CalmSteps
<1>7. CASE ~ (sm.state # "WaitingForChainInfo" \/ sm.infoTask # t) /\ r[1] < 1 /\ ibd
  <2>1. sm' = [sm EXCEPT !.state = "BitcoinDIsInHeaderDL"] /\ UNCHANGED hcVars
    BY <1>2, <1>7 DEF GotChainInfo, Goto
  <2>2. sm'.state = "BitcoinDIsInHeaderDL"
    BY <1>3, <2>1 DEF Sm
  <2> QED BY <1>1, <2>1, <2>2, CalmSteps DEF Downloads, Synched
<1>8. CASE /\ ~ (sm.state # "WaitingForChainInfo" \/ sm.infoTask # t) /\ ~ (r[1] < 1 /\ ibd)
           /\ SameTip(r[1], r[2]) /\ ibd
  <2>1. sm' = [sm EXCEPT !.state = "RetryInIBD"] /\ UNCHANGED hcVars
    BY <1>2, <1>8 DEF GotChainInfo, Goto, UpToDate
  <2>2. sm'.state = "RetryInIBD"
    BY <1>3, <2>1 DEF Sm
  <2> QED BY <1>1, <2>1, <2>2, CalmSteps DEF Downloads, Synched
<1>9. CASE /\ ~ (sm.state # "WaitingForChainInfo" \/ sm.infoTask # t) /\ ~ (r[1] < 1 /\ ibd)
           /\ SameTip(r[1], r[2]) /\ ~ ibd
  <2>1. sm' = [sm EXCEPT !.state = "SynchMempool"] /\ UNCHANGED hcVars
    BY <1>2, <1>9 DEF GotChainInfo, Goto, UpToDate
  <2>2. sm'.state = "SynchMempool"
    BY <1>3, <2>1 DEF Sm
  <2>3. /\ up' = up /\ chain' = chain /\ undoHts' = undoHts /\ earliest' = earliest
        /\ depth' = depth /\ Height' = Height /\ Window(D)' = Window(D)
    BY <2>1 DEF hcVars, Height, Window
  <2>4. ~ cut => {h \in Window(D) : h > bare} \subseteq undoHts
    <3> SUFFICES ASSUME ~ cut, NEW h \in 0 .. Height, h > Height - D, h > bare
                 PROVE  h \in undoHts
      BY DEF Window
    <3>1. PICK T \in Int : Reported(D, T)
      BY DEF WInv, NothingMissing
    <3>2. r[1] \in T .. HeightOf[best]
      BY <1>2, <1>9, <3>1 DEF Reported
    <3>3. Height = r[1]
      BY <1>9 DEF SameTip
    <3>4. h > T - D
      BY <1>3, <3>2, <3>3
    <3> QED BY <3>1, <3>4 DEF Reported
  <2>5. SynchedIsExact(D)'
    BY <1>1, <2>3, <2>4 DEF WInv, NothingTooOld, Bareness, SynchedIsExact
  <2>6. DepthIs(D)' /\ NothingTooOld(D)' /\ Bareness'
    BY <1>1, <2>2, <2>3 DEF WInv, DepthIs, NothingTooOld, Bareness, Downloads
  <2>7. NothingMissing(D)'
    <3> SUFFICES ASSUME ~ cut PROVE \E T \in Int : Reported(D, T)'
      BY <1>1 DEF NothingMissing
    <3>1. PICK T \in Int : Reported(D, T)
      BY DEF WInv, NothingMissing
    <3>2. Reported(D, T)'
      BY <1>1, <2>2, <2>3, <3>1 DEF Reported, Downloads
    <3> QED BY <3>2
  <2> QED BY <2>5, <2>6, <2>7 DEF WInv
<1>10. CASE /\ ~ (sm.state # "WaitingForChainInfo" \/ sm.infoTask # t) /\ ~ (r[1] < 1 /\ ibd)
            /\ ~ SameTip(r[1], r[2]) /\ Height >= r[1]
  <2>1. DoUndoAndRetry
    BY <1>2, <1>10 DEF GotChainInfo
  <2> QED BY <1>1, <2>1, UndoKeepsWInv
<1>11. CASE /\ ~ (sm.state # "WaitingForChainInfo" \/ sm.infoTask # t) /\ ~ (r[1] < 1 /\ ibd)
            /\ ~ SameTip(r[1], r[2]) /\ ~ (Height >= r[1])
  <2>1. /\ sm' = [sm EXCEPT !.state = "GetBlocks", !.ht = r[1],
                            !.suppressSaveUndo = SuppressSaveUndo(r[1], ibd)]
        /\ UNCHANGED hcVars
    BY <1>2, <1>11 DEF GotChainInfo
  <2>2. PICK x, s : /\ x = r[1] /\ s = SuppressSaveUndo(r[1], ibd)
                    /\ sm' = [sm EXCEPT !.state = "GetBlocks", !.ht = x, !.suppressSaveUndo = s]
    BY <2>1
  <2>3. sm'.state = "GetBlocks" /\ sm'.ht = x /\ sm'.suppressSaveUndo = s
    BY <1>3, <2>2 DEF Sm
  <2>4. s => undoHts = {}
    <3> SUFFICES ASSUME s, NEW h \in undoHts PROVE FALSE
      OBVIOUS
    <3>1. earliest = InvalidUndoHeight
      BY <2>2 DEF SuppressSaveUndo, hasUndo
    <3>2. h \in 0 .. MaxHeaders /\ earliest <= h
      BY <1>1 DEF IInv, ChainTypes, WInv, NothingTooOld
    <3> QED BY <3>1, <3>2, ControllerConstants
  <2>5. /\ up' = up /\ chain' = chain /\ undoHts' = undoHts /\ earliest' = earliest
        /\ depth' = depth /\ Height' = Height /\ Window(D)' = Window(D)
    BY <2>1 DEF hcVars, Height, Window
  <2>6. DepthIs(D)' /\ NothingTooOld(D)' /\ Bareness' /\ SynchedIsExact(D)'
    BY <1>1, <2>3, <2>4, <2>5
       DEF WInv, DepthIs, NothingTooOld, Bareness, SynchedIsExact, Synched
  <2>7. NothingMissing(D)'
    <3> SUFFICES ASSUME ~ cut PROVE \E T \in Int : Reported(D, T)'
      BY <1>1 DEF NothingMissing
    <3>1. PICK T \in Int : Reported(D, T)
      BY DEF WInv, NothingMissing
    <3>2. r[1] \in T .. HeightOf[best]
      BY <1>2, <1>11, <3>1 DEF Reported
    <3>3. HeightOf[best] \in Nat
      BY ControllerConstants DEF IInv, LoopTypes
    <3>4. x \in Int /\ T <= x /\ x <= HeightOf[best]
      BY <2>2, <3>2, <3>3
    <3>5. \A h \in 0 .. Height : h > x - D => h > T - D
      BY <1>3, <3>4
    <3>6. Reported(D, x)'
      BY <1>1, <2>3, <2>5, <3>1, <3>4, <3>5 DEF Reported, Downloads
    <3> QED BY <3>4, <3>6
  <2> QED BY <2>6, <2>7 DEF WInv
<1> QED BY <1>6, <1>7, <1>8, <1>9, <1>10, <1>11

(* A block near the height of the download gets its record. *)
LEMMA VerifyKeepsWInv ==
    ASSUME IInv, NEW D \in Nat, WInv(D), VerifyAndAddBlock
    PROVE  WInv(D)'
<1>1. up /\ ~ fatal /\ sm.state = "DownloadingBlocks" /\ best' = best /\ cut' = cut
  BY DEF VerifyAndAddBlock, Draining
<1>2. PICK r \in sm.dlResults :
          /\ r[1] = sm.dlResultsHtNext
          /\ IF Parent[r[2]] = Tip
             THEN /\ Extend(r[2], SaveUndoInfo(r[1]))
                  /\ sm' = [sm EXCEPT !.dlResults = @ \ {r}, !.dlResultsHtNext = @ + 1,
                              !.state = IF r[1] = sm.endHeight THEN "FinishedDL" ELSE @]
                  /\ bare' = (IF sm.suppressSaveUndo THEN r[1] ELSE bare)
             ELSE DoUndoAndRetry /\ bare' = bare
  BY DEF VerifyAndAddBlock
<1>3. CASE Parent[r[2]] # Tip
  BY <1>1, <1>2, <1>3, UndoKeepsWInv
<1>4. CASE Parent[r[2]] = Tip
  <2> DEFINE n == Len(chain)
             save == SaveUndoInfo(r[1])
  <2>1. Extend(r[2], save)
    BY <1>2, <1>4
  <2>2. ChainTypes /\ sm \in Sm /\ n \in Nat /\ Height = n - 1 /\ depth = D /\ NothingTooOld(D)
    BY <1>1 DEF IInv, ChainTypes, SmTypes, Height, WInv, DepthIs
  <2>3. r \in Pairs /\ r[2] \in Blocks
    BY <2>2 DEF Sm, Pairs
  <2>4. r[1] = n /\ n <= sm.ht /\ sm.ht \in Int
    BY <1>1, <1>2, <2>2 DEF IInv, Targets, Sm
  <2>12. /\ bare \in Int /\ bare <= Height /\ \A h \in undoHts : h > bare
         /\ sm.suppressSaveUndo => undoHts = {}
         /\ bare' = (IF sm.suppressSaveUndo THEN n ELSE bare) /\ sm.suppressSaveUndo \in BOOLEAN
    BY <1>1, <1>2, <1>4, <2>2, <2>4 DEF IInv, LoopTypes, WInv, Bareness, Downloads, Sm
  <2>5. save \in BOOLEAN /\ (save <=> ~ sm.suppressSaveUndo /\ n > sm.ht - D)
    BY <2>2, <2>4 DEF SaveUndoInfo
  <2> HIDE DEF save
  <2>6. /\ NothingTooOld(D)' /\ \A h \in undoHts : h > n - D => h \in undoHts'
        /\ save /\ D > 0 => n \in undoHts'
    BY <1>1, <2>1, <2>2, <2>3, <2>5, ExtendWindow
  <2>7. up' = up /\ depth' = depth /\ Len(chain') = n + 1
    BY <2>1, <2>2, <2>3, <2>5, ExtendFacts
  <2>8. Height' = n
    BY <2>2, <2>7 DEF Height
  <2>9. /\ sm'.state \in {"FinishedDL", "DownloadingBlocks"} /\ sm'.ht = sm.ht
        /\ sm'.suppressSaveUndo = sm.suppressSaveUndo
    <3>1. PICK x, y, st : /\ st \in {"FinishedDL", "DownloadingBlocks"}
                          /\ sm' = [sm EXCEPT !.dlResults = x, !.dlResultsHtNext = y,
                                              !.state = st]
      BY <1>1, <1>2, <1>4, ZenonT(30)
    <3> QED BY <2>2, <3>1 DEF Sm
  <2>10. DepthIs(D)' /\ SynchedIsExact(D)'
    BY <1>1, <2>2, <2>7, <2>9 DEF WInv, DepthIs, SynchedIsExact, Downloads, Synched
  <2>13. Bareness'
    <3>1. undoHts' \subseteq undoHts \cup {h \in {n} : save}
      BY <2>1 DEF Extend
    <3>2. CASE sm.suppressSaveUndo
      <4>1. undoHts' = {} /\ bare' = n
        BY <2>5, <2>12, <3>1, <3>2
      <4> QED BY <2>2, <2>8, <4>1 DEF Bareness
    <3>3. CASE ~ sm.suppressSaveUndo
      <4>1. bare' = bare /\ bare < n
        BY <2>2, <2>12, <3>3
      <4>2. \A h \in undoHts' : h > bare'
        BY <2>2, <2>12, <3>1, <4>1
      <4>3. bare' <= Height'
        BY <2>2, <2>8, <2>12, <4>1
      <4> QED BY <2>9, <3>3, <4>2, <4>3 DEF Bareness
    <3> QED BY <2>12, <3>2, <3>3
  <2>11. NothingMissing(D)'
    <3> SUFFICES ASSUME ~ cut PROVE \E T \in Int : Reported(D, T)'
      BY <1>1 DEF NothingMissing
    <3>1. PICK T \in Int : Reported(D, T)
      BY DEF WInv, NothingMissing
    <3>2. sm.ht <= T /\ T <= HeightOf[best]
      BY <1>1, <3>1 DEF Reported, Downloads
    <3>3. ASSUME NEW h \in 0 .. n, h > T - D, h > bare' PROVE h \in undoHts'
      <4>1. CASE h = n
        <5>1. n > sm.ht - D /\ D > 0
          BY <2>2, <2>4, <3>2, <3>3, <4>1
        <5>2. ~ sm.suppressSaveUndo
          BY <2>2, <2>12, <3>3, <4>1
        <5> QED BY <2>5, <2>6, <4>1, <5>1, <5>2
      <4>2. CASE h # n
        <5>1. h \in 0 .. Height /\ h > n - D
          BY <2>2, <2>4, <3>2, <3>3, <4>2
        <5>2. h > bare
          BY <2>2, <2>12, <3>3
        <5>3. h \in undoHts
          BY <3>1, <3>3, <5>1, <5>2 DEF Reported
        <5> QED BY <2>6, <5>1, <5>3
      <4> QED BY <4>1, <4>2
    <3>4. Reported(D, T)'
      BY <1>1, <2>8, <2>9, <3>2, <3>3 DEF Reported
    <3> QED BY <3>4
  <2> QED BY <2>6, <2>10, <2>11, <2>13 DEF WInv
<1> QED BY <1>3, <1>4

(* The database keeps its records, and a restart finds them. *)
LEMMA RestartsKeepWInv ==
    ASSUME IInv, NEW D \in Nat, UndoDepths = {D}, WInv(D), Stop \/ Start
    PROVE  WInv(D)'
<1>1. CASE Stop
  <2>1. /\ up' = FALSE /\ chain' = chain /\ undoHts' = undoHts /\ sm' = NoSm
        /\ best' = best /\ cut' = cut /\ bare' = bare
    BY <1>1 DEF Stop, ProcessEnds, Close, Closed
  <2>2. Height' = Height /\ Window(D)' = Window(D) /\ sm'.state = "none"
    BY <2>1, EmptyRecords DEF Height, Window
  <2>3. /\ DepthIs(D)' /\ NothingTooOld(D)' /\ Bareness' /\ SynchedIsExact(D)'
    BY <2>1, <2>2
       DEF WInv, DepthIs, NothingTooOld, Bareness, SynchedIsExact, Downloads, Synched
  <2>4. NothingMissing(D)'
    <3> SUFFICES ASSUME ~ cut PROVE \E T \in Int : Reported(D, T)'
      BY <2>1 DEF NothingMissing
    <3>1. PICK T \in Int : Reported(D, T)
      BY DEF WInv, NothingMissing
    <3>2. Reported(D, T)'
      BY <2>1, <2>2, <3>1 DEF Reported, Downloads
    <3> QED BY <3>2
  <2> QED BY <2>3, <2>4 DEF WInv
<1>2. CASE Start
  <2>1. PICK d \in UndoDepths : Open(d)
    BY <1>2 DEF Start
  <2>2. D \in UndoDepths /\ Open(D)
    BY <2>1
  <2>3. best' = best /\ sm' = sm /\ cut' = cut /\ bare' = bare
    BY <1>2 DEF Start, ctlVars
  <2>4. ~ up /\ sm.state = "none" /\ ChainTypes /\ Height \in Int
    BY <2>2 DEF Open, IInv, NothingBeforeStart, ChainTypes, Height
  <2>5. /\ NothingTooOld(D)' /\ Height' = Height
        /\ \A h \in undoHts : (h .. Height) \subseteq undoHts => h \in undoHts'
    BY <2>2, <2>4, OpenWindow DEF WInv
  <2>6. depth' = D
    BY <2>2 DEF Open
  <2>7. DepthIs(D)' /\ Bareness' /\ SynchedIsExact(D)'
    <3>1. undoHts' \subseteq undoHts
      BY <2>2, <2>4, OpenFacts
    <3> QED BY <2>3, <2>4, <2>5, <2>6, <3>1
            DEF WInv, DepthIs, Bareness, SynchedIsExact, Downloads, Synched
  <2>8. NothingMissing(D)'
    <3> SUFFICES ASSUME ~ cut PROVE \E T \in Int : Reported(D, T)'
      BY <2>3 DEF NothingMissing
    <3>1. PICK T \in Int : Reported(D, T)
      BY DEF WInv, NothingMissing
    <3>2. ASSUME NEW h \in 0 .. Height, h > T - D, h > bare PROVE h \in undoHts'
      <4>1. \A k \in h .. Height : k \in 0 .. Height /\ k > T - D /\ k > bare
        BY <2>4, <3>2 DEF IInv, LoopTypes
      <4>2. (h .. Height) \subseteq undoHts
        BY <3>1, <4>1 DEF Reported
      <4>3. h \in undoHts
        BY <3>1, <3>2 DEF Reported
      <4> QED BY <2>5, <4>2, <4>3
    <3>3. Reported(D, T)'
      BY <2>3, <2>4, <2>5, <3>1, <3>2 DEF Reported, Downloads
    <3> QED BY <3>3
  <2> QED BY <2>5, <2>7, <2>8 DEF WInv
<1> QED BY <1>1, <1>2

(* Every step keeps what is known of the undo records; a crash ends it. *)
LEMMA NextWInv ==
    ASSUME NEW D \in Nat, UndoDepths = {D}
    PROVE  IInv /\ (~ cut => WInv(D)) /\ [CtlNext]_vars => (~ cut => WInv(D))'
<1> SUFFICES ASSUME IInv, ~ cut => WInv(D), [CtlNext]_vars, ~ cut' PROVE WInv(D)'
  OBVIOUS
<1>1. CASE Again \/ on_Poll \/ on_PollZmq \/ CallProcessTimer
  <2>1. ~ cut
    BY <1>1 DEF Again, on_Poll, on_PollZmq, CallProcessTimer
  <2> QED BY <1>1, <2>1, CallsKeepWInv
<1>2. CASE allConnectionsLost \/ gotFirstGoodConnection \/ NewBestBlock
  <2>1. ~ cut
    BY <1>2 DEF allConnectionsLost, gotFirstGoodConnection, NewBestBlock
  <2> QED BY <1>2, <2>1, ConnectionsKeepWInv
<1>3. CASE VerifyAndAddBlock
  <2>1. ~ cut
    BY <1>3 DEF VerifyAndAddBlock
  <2> QED BY <1>3, <2>1, VerifyKeepsWInv
<1>4. ASSUME NEW t \in Slots, TaskStep(t) \/ RequestFailed(t) \/ RetryRecommended(t)
      PROVE  WInv(D)'
  <2>1. ~ cut
    BY <1>4 DEF TaskStep, AnswerChainInfo, AnswerBlockHash, HeightOutOfRange, ChainInfoSucceeded,
                on_putBlock, SynchSucceeded, RequestFailed, Errored, RetryRecommended
  <2> QED BY <1>4, <2>1, TasksKeepWInv, ChainInfoKeepsWInv DEF TaskStep
<1>5. CASE Stop \/ Start
  <2>1. ~ cut
    BY <1>5 DEF Stop, Start, ctlVars
  <2> QED BY <1>5, <2>1, RestartsKeepWInv
<1>6. CASE Crash
  BY <1>6 DEF Crash
<1>7. CASE UNCHANGED vars
  <2>1. UNCHANGED <<hcVars, best, cut, bare>> /\ sm' = sm /\ tasks' = tasks
    BY <1>7 DEF vars, ctlVars
  <2> QED BY <2>1, CalmSteps
<1> QED BY <1>1, <1>2, <1>3, <1>4, <1>5, <1>6, <1>7 DEF CtlNext

(* When max_reorg has one value D, whatever it is: as long as bitcoind's     *)
(* chain never gets shorter and the program does not crash, a round that     *)
(* ends with bitcoind's tip leaves an undo record for each of the newest D   *)
(* blocks above the last one whose record suppressSaveUndo withheld, and for *)
(* no other.  Nothing is assumed of when bitcoind reports the end of its     *)
(* initial download.                                                         *)
THEOREM UndoWindowCorrect ==
    ASSUME NEW D \in Nat, UndoDepths = {D}
    PROVE  CtlSpec => []UndoWindowIsExact
<1>1. CtlInit => WInv(D)
  <2> SUFFICES ASSUME CtlInit PROVE WInv(D)
    OBVIOUS
  <2>1. chain = << >> /\ undoHts = {} /\ up = FALSE
    BY DEF CtlInit, Init
  <2>2. best = FirstBest /\ sm = NoSm /\ bare = -1
    BY DEF CtlInit
  <2>3. sm.state = "none" /\ HeightOf[best] \in Nat
    BY <2>2, EmptyRecords, ControllerConstants
  <2>4. Height = -1
    BY <2>1 DEF Height
  <2>5. Reported(D, 0)
    BY <2>3, <2>4 DEF Reported, Downloads
  <2>6. NothingMissing(D)
    BY <2>5 DEF NothingMissing
  <2>7. DepthIs(D) /\ NothingTooOld(D) /\ Bareness /\ SynchedIsExact(D)
    BY <2>1, <2>2, <2>3, <2>4
       DEF DepthIs, NothingTooOld, Bareness, SynchedIsExact, Downloads, Synched
  <2> QED BY <2>6, <2>7 DEF WInv
<1>2. IInv /\ (~ cut => WInv(D)) /\ [CtlNext]_vars => (~ cut => WInv(D))'
  BY NextWInv
<1>3. IInv /\ (~ cut => WInv(D)) => UndoWindowIsExact
  <2> SUFFICES ASSUME IInv, WInv(D), sm.state \in Synched, ~ cut
               PROVE  undoHts = {h \in 0 .. Height : h > Height - depth /\ h > bare}
    BY DEF UndoWindowIsExact
  <2>1. up
    BY DEF IInv, NothingBeforeStart, ChainTypes, Synched
  <2>2. depth = D /\ undoHts = {h \in Window(D) : h > bare}
    BY <2>1 DEF WInv, DepthIs, SynchedIsExact
  <2> QED BY <2>2 DEF Window
<1> QED BY <1>1, <1>2, <1>3, Invariance, PTL DEF CtlSpec
=============================================================================
