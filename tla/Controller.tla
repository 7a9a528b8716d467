------------------------------- MODULE Controller -------------------------------
(***************************************************************************)
(* Controller.cpp: the state machine that keeps Storage's header list in   *)
(* step with bitcoind, together with the tasks it starts (GetChainInfo,    *)
(* DownloadBlocks, SynchMempool, SynchDSPs), its timers and bitcoind       *)
(* itself, whose best chain may change at any moment.                      *)
(*                                                                         *)
(* Every handler runs in the Controller's thread, so a handler is one      *)
(* step, except that the loop that drains downloaded blocks is one step    *)
(* per block (nothing else of that thread runs in between, see Draining).  *)
(* Tasks have threads of their own: asking bitcoind and handing the answer *)
(* to the Controller are separate steps.  The RPA index is switched off.   *)
(***************************************************************************)
EXTENDS HeaderChain, FiniteSets

CONSTANTS
    HeightOf,        \* [Blocks -> Nat]
    Switches,        \* pairs <<b, c>>: bitcoind's best block may move from b to c
    FirstBest,       \* bitcoind's best block when the program starts
    InIBD,           \* best blocks with which bitcoind reports initialblockdownload
    HeaderHeight,    \* headers: the height of the best header bitcoind knows
    DL_CONCURRENCY,  \* download tasks started for one range of blocks
    HasDSProofRPC,   \* bitcoind has the dsproof rpc
    HasZmq,          \* bitcoind publishes hashblock and the program was built with zmq
    MaxTasks,        \* bound on tasks that exist at the same time
    MaxFaults        \* bound on lost connections, failed or slow requests and restarts

ASSUME ControllerConstants ==
    /\ HeightOf \in [Blocks -> Nat]
    /\ \A b \in Blocks : HeightOf[b] = IF Parent[b] = NoBlock THEN 0 ELSE HeightOf[Parent[b]] + 1
    /\ Switches \subseteq Blocks \X Blocks /\ FirstBest \in Blocks /\ InIBD \subseteq Blocks
    /\ UndoDepths \subseteq Nat /\ MaxHeaders \in Nat
    /\ InvalidUndoHeight \in Nat /\ InvalidUndoHeight > MaxHeaders
    /\ HeaderHeight \in Nat /\ MaxFaults \in Nat
    /\ DL_CONCURRENCY \in Nat \ {0} /\ MaxTasks \in Nat \ {0}
    /\ HasDSProofRPC \in BOOLEAN /\ HasZmq \in BOOLEAN

VARIABLES
    best,      \* bitcoind's best block
    conn,      \* there is a good connection to bitcoind
    sm,        \* the StateMachine object; state "none" when there is none
    tasks,     \* the CtlTask objects, by slot
    again,     \* number of process() calls queued by AGAIN()
    poll,      \* pollTimer is running
    kick,      \* callProcessTimer is running
    fatal,     \* Fatal() was called: the program is about to exit
    owed,      \* history: synchronizing was emitted and upToDate was not, since
    serving,   \* SrvMgr exists: upToDate was emitted at least once
    zmq,       \* a zmq hashblock notification is on its way
    cut,       \* history: bitcoind's best chain, or the list in a crash, got shorter
    bare,      \* history: the last height whose undo record was suppressed, or -1
    faults     \* faults so far

ctlVars == <<best, conn, sm, tasks, again, poll, kick, fatal, owed, serving, zmq, cut,
             bare, faults>>
vars == <<hcVars, ctlVars>>

-----------------------------------------------------------------------------
(* Tasks and the state machine as records *)

Slots == 1 .. MaxTasks

NoTask == [kind |-> "free", silent |-> FALSE, todo |-> {}, got |-> {}]

(* got: the answer of getblockchaininfo, as {<<blocks, bestblockhash>>}. *)
InfoTask(silent) == [NoTask EXCEPT !.kind = "info", !.silent = silent]

(* todo: heights not yet asked for; got: <<height, block>> on their way. *)
DownloadTask(heights) == [NoTask EXCEPT !.kind = "download", !.todo = heights]

SynchTask(kind) == [NoTask EXCEPT !.kind = kind]

NoSm == [state |-> "none", ht |-> -1, suppressSaveUndo |-> FALSE, infoTask |-> 0,
         dlResults |-> {}, dlResultsHtNext |-> 0, endHeight |-> 0]

Free == {t \in Slots : tasks[t].kind = "free"}

FirstFree == CHOOSE t \in Free : \A u \in Free : t <= u

WithTask(task) == [tasks EXCEPT ![FirstFree] = task]

rmTask(t) == [tasks EXCEPT ![t] = NoTask]

(* The block of bitcoind's best chain at a height, as a set. *)
BlockAt(tip, h) ==
    LET Step[b \in Blocks] == IF HeightOf[b] <= h THEN b ELSE Step[Parent[b]]
    IN  {b \in Blocks : HeightOf[b] = h /\ b = Step[tip]}

(* process_DownloadingBlocks has a block it can go on with: no other event  *)
(* of the Controller's thread is handled before it is done.                 *)
Draining ==
    /\ sm.state = "DownloadingBlocks"
    /\ \E r \in sm.dlResults : r[1] = sm.dlResultsHtNext

CanRun == up /\ ~ fatal /\ ~ Draining

-----------------------------------------------------------------------------
(* Controller::process, one operator per state.  n is the number of        *)
(* process() calls still queued once this one has been taken.              *)

Goto(state, n) == sm' = [sm EXCEPT !.state = state] /\ again' = n

(* Begin: a new StateMachine asks for getblockchaininfo. *)
ProcessBegin(silent, n) ==
    /\ sm.state = "none"
    /\ Free # {}
    /\ tasks' = WithTask(InfoTask(silent))
    /\ sm' = [NoSm EXCEPT !.state = "WaitingForChainInfo", !.infoTask = FirstFree]
    /\ again' = n
    /\ poll' = FALSE
    /\ UNCHANGED <<hcVars, fatal, faults>>

(* Begin, while bitcoind has not told which coin it is on; the database     *)
(* knows once it holds blocks.                                              *)
ProcessCoinUnknown(n) ==
    /\ sm.state = "none"
    /\ chain = <<>>
    /\ faults < MaxFaults /\ faults' = faults + 1
    /\ sm' = [NoSm EXCEPT !.state = "Failure"]
    /\ again' = n + 1
    /\ poll' = FALSE
    /\ UNCHANGED <<hcVars, tasks, fatal>>

(* A spurious call; after more than 30 seconds it gives up on the request. *)
ProcessWaiting(n) ==
    /\ sm.state = "WaitingForChainInfo"
    /\ \/ again' = n /\ UNCHANGED <<sm, faults>>
       \/ /\ faults < MaxFaults
          /\ faults' = faults + 1
          /\ Goto("Failure", n + 1)
    /\ poll' = FALSE
    /\ UNCHANGED <<hcVars, tasks, fatal>>

(* Mutant: starts with the tip. *)
FromTheTip == Height

FirstMissing == Height + 1

ProcessGetBlocks(n) ==
    LET base   == FirstMissing
        nTasks == IF sm.ht - Height < DL_CONCURRENCY THEN sm.ht - Height ELSE DL_CONCURRENCY
        rank(t) == Cardinality({u \in Free : u < t})
        part(i) == {h \in base .. sm.ht : (h - base) % nTasks = i}
    IN  /\ sm.state = "GetBlocks"
        /\ Cardinality(Free) >= nTasks
        /\ tasks' = [t \in Slots |-> IF t \in Free /\ rank(t) < nTasks
                                     THEN DownloadTask(part(rank(t))) ELSE tasks[t]]
        /\ sm' = [sm EXCEPT !.state = "DownloadingBlocks", !.dlResultsHtNext = base,
                            !.endHeight = sm.ht]
        /\ again' = n
        /\ poll' = FALSE
        /\ UNCHANGED <<hcVars, fatal, faults>>

(* Nothing to do: the answer of a task will bring the machine forward. *)
ProcessIdle(n) ==
    /\ sm.state \in {"DownloadingBlocks", "SynchingMempool", "SynchingDSPs"}
    /\ again' = n
    /\ poll' = FALSE
    /\ UNCHANGED <<hcVars, sm, tasks, fatal, faults>>

(* FinishedDL and Retry start over at once. *)
ProcessStartOver(n) ==
    /\ sm.state \in {"FinishedDL", "Retry", "RetryInIBD"}
    /\ sm' = NoSm
    /\ again' = n + 1
    /\ poll' = FALSE
    /\ UNCHANGED <<hcVars, tasks, fatal, faults>>

(* Mutant: the poll timer is not armed again after a failure. *)
StartOverLaterUnlessFailed(n) ==
    /\ sm.state \in {"Failure", "End", "BitcoinDIsInHeaderDL", "RetryInIBD"}
    /\ sm' = NoSm
    /\ again' = n
    /\ poll' = (sm.state # "Failure")
    /\ UNCHANGED <<hcVars, tasks, fatal, faults>>

(* The others start over when the poll timer fires; so does RetryInIBD      *)
(* when the round took less than a second.                                  *)
ProcessStartOverLater(n) ==
    /\ sm.state \in {"Failure", "End", "BitcoinDIsInHeaderDL", "RetryInIBD"}
    /\ sm' = NoSm
    /\ again' = n
    /\ poll' = TRUE
    /\ UNCHANGED <<hcVars, tasks, fatal, faults>>

ProcessSynch(n) ==
    /\ sm.state \in {"SynchMempool", "SynchDSPs"}
    /\ Free # {}
    /\ IF sm.state = "SynchMempool"
       THEN tasks' = WithTask(SynchTask("mempool")) /\ Goto("SynchingMempool", n)
       ELSE tasks' = WithTask(SynchTask("dsps")) /\ Goto("SynchingDSPs", n)
    /\ poll' = FALSE
    /\ UNCHANGED <<hcVars, fatal, faults>>

ProcessSynchFinished(n) ==
    /\ sm.state \in {"SynchMempoolFinished", "SynchDSPsFinished"}
    /\ IF sm.state = "SynchMempoolFinished" /\ HasDSProofRPC
       THEN Goto("SynchDSPs", n + 1)
       ELSE Goto("End", n + 1)
    /\ poll' = FALSE
    /\ UNCHANGED <<hcVars, tasks, fatal, faults>>

process(silent, n) ==
    \/ ProcessBegin(silent, n)
    \/ ProcessCoinUnknown(n)
    \/ ProcessWaiting(n)
    \/ ProcessGetBlocks(n)
    \/ ProcessIdle(n)
    \/ ProcessStartOver(n)
    \/ ProcessStartOverLater(n)
    \/ ProcessSynch(n)
    \/ ProcessSynchFinished(n)

-----------------------------------------------------------------------------
(* What calls process() *)

(* AGAIN(): a queued call. *)
Again ==
    /\ CanRun
    /\ again > 0
    /\ process(FALSE, again - 1)
    /\ UNCHANGED <<best, conn, kick, owed, serving, zmq, cut, bare>>

(* on_Poll, from the poll timer.  It does nothing while a StateMachine      *)
(* exists.                                                                  *)
on_Poll ==
    /\ CanRun
    /\ poll
    /\ IF sm.state = "none" THEN process(TRUE, again)
       ELSE /\ poll' = FALSE
            /\ UNCHANGED <<hcVars, sm, tasks, again, fatal, faults>>
    /\ UNCHANGED <<best, conn, kick, owed, serving, zmq, cut, bare>>

(***************************************************************************)
(* on_Poll, from a zmq hashblock notification, which comes at any moment   *)
(* after bitcoind's best block changed.  While a StateMachine exists it is *)
(* only remembered, to make the next poll come at once.                    *)
(***************************************************************************)
on_PollZmq ==
    /\ CanRun
    /\ zmq
    /\ zmq' = FALSE
    /\ IF sm.state = "none" THEN process(TRUE, again)
       ELSE UNCHANGED <<hcVars, sm, tasks, again, poll, fatal, faults>>
    /\ UNCHANGED <<best, conn, kick, owed, serving, cut, bare>>

CallProcessTimer ==
    /\ CanRun
    /\ kick
    /\ kick' = FALSE
    /\ process(FALSE, again)
    /\ UNCHANGED <<best, conn, owed, serving, zmq, cut, bare>>

(* BitcoinDMgr: allConnectionsLost and gotFirstGoodConnection. *)
allConnectionsLost ==
    /\ CanRun
    /\ conn
    /\ faults < MaxFaults
    /\ faults' = faults + 1
    /\ conn' = FALSE
    /\ poll' = FALSE
    /\ kick' = FALSE
    /\ zmq' = FALSE
    /\ UNCHANGED <<hcVars, best, sm, tasks, again, fatal, owed, serving, cut, bare>>

gotFirstGoodConnection ==
    /\ CanRun
    /\ ~ conn
    /\ conn' = TRUE
    /\ kick' = TRUE
    /\ UNCHANGED <<hcVars, best, sm, tasks, again, poll, fatal, owed, serving, zmq,
                   cut, bare, faults>>
-----------------------------------------------------------------------------
(* Tasks *)

(* getblockchaininfo is answered with bitcoind's best block of that moment. *)
AnswerChainInfo(t) ==
    /\ up /\ ~ fatal /\ conn
    /\ tasks[t].kind = "info" /\ tasks[t].got = {}
    /\ tasks' = [tasks EXCEPT ![t].got = {<<HeightOf[best], best>>}]
    /\ UNCHANGED <<hcVars, best, conn, sm, again, poll, kick, fatal,
                   owed, serving, zmq, cut, bare, faults>>

(* getblockhash fixes which block a download task gets for a height; the    *)
(* task asks for its heights in order, answers arrive in any order.         *)
AnswerBlockHash(t) ==
    /\ up /\ ~ fatal /\ conn
    /\ tasks[t].kind = "download"
    /\ \E h \in tasks[t].todo :
         /\ \A k \in tasks[t].todo : h <= k
         /\ \E b \in BlockAt(best, h) :
              tasks' = [tasks EXCEPT ![t].todo = @ \ {h}, ![t].got = @ \cup {<<h, b>>}]
    /\ UNCHANGED <<hcVars, best, conn, sm, again, poll, kick, fatal,
                   owed, serving, zmq, cut, bare, faults>>

(***************************************************************************)
(* A task emits errored; what it sent before was queued before.  The       *)
(* handler, genericTaskErrored, fails the StateMachine that exists now,    *)
(* whichever one started the task; only the SynchDSPs task is forgiven.    *)
(***************************************************************************)
Errored(t) ==
    /\ CanRun
    /\ tasks[t].kind # "free" /\ tasks[t].got = {}
    /\ tasks' = rmTask(t)
    /\ IF tasks[t].kind = "dsps"
       THEN IF sm.state = "SynchingDSPs" THEN Goto("SynchDSPsFinished", again + 1)
            ELSE UNCHANGED <<sm, again>>
       ELSE IF sm.state \in {"none", "Failure"} THEN UNCHANGED <<sm, again>>
            ELSE Goto("Failure", again + 1)
    /\ UNCHANGED <<hcVars, best, conn, poll, kick, fatal, owed, serving, zmq, cut, bare>>

(* The request failed or timed out, or there was no connection. *)
RequestFailed(t) ==
    /\ Errored(t)
    /\ IF conn THEN faults < MaxFaults /\ faults' = faults + 1 ELSE UNCHANGED faults

(* getblockhash for a height bitcoind does not have any more. *)
HeightOutOfRange(t) ==
    /\ conn
    /\ \E h \in tasks[t].todo : h > HeightOf[best]
    /\ Errored(t)
    /\ UNCHANGED faults

(* SynchMempool and SynchDSPs succeed. *)
SynchSucceeded(t) ==
    /\ CanRun /\ conn
    /\ tasks[t].kind \in {"mempool", "dsps"}
    /\ tasks' = rmTask(t)
    /\ IF sm.state = "SynchingMempool" /\ tasks[t].kind = "mempool"
       THEN Goto("SynchMempoolFinished", again + 1)
       ELSE IF sm.state = "SynchingDSPs" /\ tasks[t].kind = "dsps"
            THEN Goto("SynchDSPsFinished", again + 1)
            ELSE UNCHANGED <<sm, again>>
    /\ UNCHANGED <<hcVars, best, conn, poll, kick, fatal, owed, serving, zmq,
                   cut, bare, faults>>

(* retryRecommended: SynchMempool saw its view of the mempool go stale. *)
RetryRecommended(t) ==
    /\ CanRun /\ conn
    /\ tasks[t].kind = "mempool"
    /\ faults < MaxFaults /\ faults' = faults + 1
    /\ tasks' = rmTask(t)
    /\ again' = again + 1
    /\ sm' = IF sm.state = "none" THEN sm ELSE [sm EXCEPT !.state = "Retry"]
    /\ UNCHANGED <<hcVars, best, conn, poll, kick, fatal, owed, serving, zmq, cut, bare>>

-----------------------------------------------------------------------------
(* The answer of getblockchaininfo, and the blocks *)

(* Mutant: the download goes on after the undo. *)
DoUndoAndGoOn ==
    IF CanRetract
    THEN Retract /\ UNCHANGED <<sm, again, fatal>>
    ELSE fatal' = TRUE /\ Goto("Failure", again) /\ UNCHANGED hcVars

(* process_DoUndoAndRetry *)
DoUndoAndRetry ==
    IF CanRetract
    THEN Retract /\ Goto("Retry", again + 1) /\ UNCHANGED fatal
    ELSE fatal' = TRUE /\ Goto("Failure", again) /\ UNCHANGED hcVars

SuppressSaveUndo(ht, ibd) ==
    /\ ibd /\ ~ hasUndo
    /\ ht > 0
    /\ HeaderHeight - ht > depth

(* Height and hash are bitcoind's: nothing is emitted on a silent round. *)
UpToDate(silent, ibd) ==
    /\ IF ibd THEN Goto("RetryInIBD", again + 1) ELSE Goto("SynchMempool", again + 1)
    /\ owed' = (owed /\ (ibd \/ silent))
    /\ serving' = (serving \/ ~ (ibd \/ silent))
    /\ UNCHANGED <<hcVars, fatal>>

(* Mutant: the same height is taken for the same block. *)
SameHeight(ht, hash) == Height = ht

SameTip(ht, hash) == Height = ht /\ hash = Tip

GotChainInfo(t, ht, hash) ==
    LET ibd == hash \in InIBD
    IN  IF sm.state # "WaitingForChainInfo" \/ sm.infoTask # t
        THEN UNCHANGED <<hcVars, sm, again, fatal, owed, serving>>
        ELSE IF ht < 1 /\ ibd
        THEN /\ Goto("BitcoinDIsInHeaderDL", again + 1)
             /\ UNCHANGED <<hcVars, fatal, owed, serving>>
        ELSE IF SameTip(ht, hash)
        THEN UpToDate(tasks[t].silent, ibd)
        ELSE IF Height >= ht
        THEN DoUndoAndRetry /\ UNCHANGED <<owed, serving>>
        ELSE /\ sm' = [sm EXCEPT !.state = "GetBlocks", !.ht = ht,
                                 !.suppressSaveUndo = SuppressSaveUndo(ht, ibd)]
             /\ again' = again + 1
             /\ owed' = TRUE
             /\ UNCHANGED <<hcVars, fatal, serving>>

ChainInfoSucceeded(t) ==
    /\ CanRun
    /\ tasks[t].kind = "info"
    /\ \E r \in tasks[t].got : GotChainInfo(t, r[1], r[2])
    /\ tasks' = rmTask(t)
    /\ UNCHANGED <<best, conn, poll, kick, zmq, cut, bare, faults>>

(* on_putBlock: any task that still exists may put a block, also one that   *)
(* an earlier StateMachine started.                                         *)
on_putBlock(t) ==
    /\ CanRun
    /\ tasks[t].kind = "download"
    /\ \E r \in tasks[t].got :
         /\ sm' = IF sm.state = "DownloadingBlocks"
                  THEN [sm EXCEPT !.dlResults = {q \in @ : q[1] # r[1]} \cup {r}]
                  ELSE sm
         /\ tasks' = IF tasks[t].todo = {} /\ tasks[t].got = {r} THEN rmTask(t)
                     ELSE [tasks EXCEPT ![t].got = @ \ {r}]
    /\ UNCHANGED <<hcVars, best, conn, again, poll, kick, fatal, owed, serving, zmq,
                   cut, bare, faults>>

(* Mutant: one block too few. *)
SaveUndoInfoTooLate(height) == ~ sm.suppressSaveUndo /\ height > sm.ht - depth + 1

SaveUndoInfo(height) == ~ sm.suppressSaveUndo /\ height > sm.ht - depth

(* One round of the loop of process_DownloadingBlocks. *)
VerifyAndAddBlock ==
    /\ up /\ ~ fatal
    /\ Draining
    /\ \E r \in sm.dlResults :
         /\ r[1] = sm.dlResultsHtNext
         /\ IF Parent[r[2]] = Tip
            THEN /\ Extend(r[2], SaveUndoInfo(r[1]))
                 /\ sm' = [sm EXCEPT !.dlResults = @ \ {r}, !.dlResultsHtNext = @ + 1,
                             !.state = IF r[1] = sm.endHeight THEN "FinishedDL" ELSE @]
                 /\ again' = IF r[1] = sm.endHeight THEN again + 1 ELSE again
                 /\ bare' = IF sm.suppressSaveUndo THEN r[1] ELSE bare
                 /\ UNCHANGED fatal
            ELSE DoUndoAndRetry /\ UNCHANGED bare
    /\ UNCHANGED <<best, conn, tasks, poll, kick, owed, serving, zmq, cut, faults>>

-----------------------------------------------------------------------------
(* bitcoind, restarts *)

NewBestBlock ==
    /\ \E s \in Switches : s[1] = best /\ best' = s[2]
    /\ zmq' = (zmq \/ (HasZmq /\ conn /\ serving))
    /\ cut' = (cut \/ HeightOf[best'] < HeightOf[best])
    /\ UNCHANGED <<hcVars, conn, sm, tasks, again, poll, kick, fatal, owed, serving,
                   bare, faults>>

(* Everything but the database goes with the process. *)
ProcessEnds ==
    /\ faults < MaxFaults /\ faults' = faults + 1
    /\ sm' = NoSm /\ tasks' = [t \in Slots |-> NoTask] /\ again' = 0
    /\ conn' = FALSE /\ poll' = FALSE /\ kick' = FALSE /\ fatal' = FALSE
    /\ owed' = FALSE /\ serving' = FALSE /\ zmq' = FALSE
    /\ UNCHANGED <<best, bare>>

(* The program is told to end, at any moment, and closes the database. *)
Stop == ProcessEnds /\ Close /\ UNCHANGED cut

(* The program or the machine crashes: the newest blocks may be lost, and   *)
(* some more are undone when the next process finds that it was not closed. *)
Crash == ProcessEnds /\ (\E n \in 0 .. Len(chain) : Lose(n)) /\ cut' = TRUE

Start == (\E d \in UndoDepths : Open(d)) /\ UNCHANGED ctlVars

-----------------------------------------------------------------------------

CtlInit ==
    /\ Init
    /\ best = FirstBest /\ conn = FALSE /\ sm = NoSm
    /\ tasks = [t \in Slots |-> NoTask]
    /\ again = 0 /\ poll = FALSE /\ kick = FALSE /\ fatal = FALSE /\ owed = FALSE
    /\ serving = FALSE /\ zmq = FALSE /\ cut = FALSE /\ bare = -1
    /\ faults = 0

TaskStep(t) ==
    \/ AnswerChainInfo(t)
    \/ AnswerBlockHash(t)
    \/ HeightOutOfRange(t)
    \/ ChainInfoSucceeded(t)
    \/ on_putBlock(t)
    \/ SynchSucceeded(t)

CtlNext ==
    \/ Again
    \/ on_Poll
    \/ on_PollZmq
    \/ CallProcessTimer
    \/ allConnectionsLost
    \/ gotFirstGoodConnection
    \/ VerifyAndAddBlock
    \/ \E t \in Slots : TaskStep(t) \/ RequestFailed(t) \/ RetryRecommended(t)
    \/ NewBestBlock
    \/ Stop
    \/ Crash
    \/ Start

CtlSpec == CtlInit /\ [][CtlNext]_vars
(***************************************************************************)
(* The event loop and the threads of the tasks keep running, every request *)
(* is answered or times out, and a lost connection is retried for ever     *)
(* (BitcoinDMgr).  Faults are bounded, so from some point on none occurs;  *)
(* Rare gathers the steps that only follow a fault or a new best block.    *)
(***************************************************************************)
Rare == Start \/ gotFirstGoodConnection \/ CallProcessTimer \/ on_PollZmq

FairSpec ==
    /\ CtlSpec
    /\ WF_vars(Again) /\ WF_vars(on_Poll) /\ WF_vars(VerifyAndAddBlock) /\ WF_vars(Rare)
    /\ \A t \in Slots : WF_vars(TaskStep(t))

-----------------------------------------------------------------------------
(* Properties *)

Pairs == Nat \X Blocks

States == {"none", "WaitingForChainInfo", "GetBlocks", "DownloadingBlocks", "FinishedDL", "End",
           "Failure", "BitcoinDIsInHeaderDL", "Retry", "RetryInIBD", "SynchMempool",
           "SynchingMempool", "SynchMempoolFinished", "SynchDSPs", "SynchingDSPs",
           "SynchDSPsFinished"}

(* Every variable of the Controller and of its view of Storage has its type. *)
CtlTypeOK ==
    /\ chain \in Seq(Blocks) /\ undoHts \subseteq 0 .. MaxHeaders
    /\ earliest \in Nat /\ depth \in Nat /\ up \in BOOLEAN
    /\ best \in Blocks /\ {conn, poll, kick, fatal, owed, serving, zmq, cut} \subseteq BOOLEAN
    /\ sm.state \in States /\ sm.ht \in Int /\ sm.suppressSaveUndo \in BOOLEAN
    /\ sm.infoTask \in Slots \cup {0} /\ sm.dlResults \subseteq Pairs
    /\ sm.dlResultsHtNext \in Nat /\ sm.endHeight \in Nat
    /\ \A t \in Slots :
         /\ tasks[t].kind \in {"free", "info", "download", "mempool", "dsps"}
         /\ tasks[t].silent \in BOOLEAN
         /\ tasks[t].todo \subseteq Nat /\ tasks[t].got \subseteq Pairs
    /\ again \in Nat /\ faults \in 0 .. MaxFaults /\ bare \in Int

(* While blocks are downloaded, the next height the machine will add is the  *)
(* one after Storage's tip, whatever earlier machines and their tasks did:   *)
(* appendHeader never sees a height other than the one it expects.           *)
AppendsAtTip ==
    sm.state = "DownloadingBlocks" =>
        sm.dlResultsHtNext = Len(chain) /\ sm.dlResultsHtNext <= sm.endHeight

(* Something is always scheduled that brings the machine forward: a queued   *)
(* call, a timer, a connection attempt, or a task that will report to the    *)
(* present state - and for a download, one for every block still missing.    *)
NeverStalls ==
    up /\ ~ fatal =>
        CASE sm.state = "none" -> again > 0 \/ poll \/ kick \/ ~ conn
          [] sm.state = "WaitingForChainInfo" -> tasks[sm.infoTask].kind = "info"
          [] sm.state = "SynchingMempool" -> \E t \in Slots : tasks[t].kind = "mempool"
          [] sm.state = "SynchingDSPs" -> \E t \in Slots : tasks[t].kind = "dsps"
          [] sm.state = "DownloadingBlocks" ->
               \A h \in sm.dlResultsHtNext .. sm.endHeight :
                   \/ \E r \in sm.dlResults : r[1] = h
                   \/ \E t \in Slots :
                          /\ tasks[t].kind = "download"
                          /\ h \in tasks[t].todo \/ \E r \in tasks[t].got : r[1] = h
          [] OTHER -> again > 0

Synched == {"SynchMempool", "SynchingMempool", "SynchMempoolFinished", "SynchDSPs",
            "SynchingDSPs", "SynchDSPsFinished", "End"}

(* As long as bitcoind's chain never gets shorter and the program does not   *)
(* crash: when a round ends with the tip bitcoind reported, of the newest    *)
(* max_reorg blocks exactly those have an undo record that lie above the     *)
(* last block whose record was suppressed during bitcoind's initial download *)
(* (suppressSaveUndo), and no other height has one - after interrupted       *)
(* downloads and reorgs too, although records are only saved for blocks near *)
(* bitcoind's height and addBlock expires one height per block.  Where the   *)
(* flag initialblockdownload goes away less than max_reorg blocks above a    *)
(* suppressed one, the window is short: bare says by how much.               *)
UndoWindowIsExact ==
    sm.state \in Synched /\ ~ cut =>
        undoHts = {h \in 0 .. Height : h > Height - depth /\ h > bare}

(* Once bitcoind's best block stays the same, Storage's tip becomes that     *)
(* block, through reorgs, failures, stale tasks and restarts - unless the    *)
(* program has given up for lack of an undo record, or bitcoind has only     *)
(* headers so far.                                                           *)
Converges ==
    LET onlyHeaders == best \in InIBD /\ HeightOf[best] < 1
    IN  <>[](fatal \/ (up /\ (Tip = best \/ onlyHeaders)))

(* Controller.h on synchronizing: "After this completes successfully,        *)
(* upToDate will be emitted exactly once."                                   *)
UpToDateFollowsSynchronizing == sm.state = "End" => ~ owed

(* max_reorg is "the maximum number of blocks we can rewind back on chain    *)
(* reorg": as long as bitcoind replaces no more blocks than that, an undo    *)
(* record is never missing.                                                  *)
ReorgWithinMaxReorgSurvives == ~ fatal
=============================================================================
