--------------------------- MODULE ClientRequests ---------------------------
(***************************************************************************)
(* What a server does with the requests of its clients: it answers some at *)
(* once, hands some to the thread pool and some to bitcoind (BitcoinDMgr), *)
(* for requests that come one by one and for those of a batch.  The model  *)
(* has the throttle on requests to bitcoind, the limits per ip address and *)
(* of the pool, the batch processor, and clients that disconnect at any    *)
(* time.  Clients live in the threads of several servers; all of them here *)
(* come from one ip address.                                               *)
(***************************************************************************)
EXTENDS BitcoinDMgr, FiniteSetsExt

CONSTANTS
    BatchSizes,         \* the sizes of batches
    bdReqHi, bdReqLo, decayPerSec,
    maxBatch,           \* items in batches of one ip address
    extantLimit         \* jobs of the thread pool

Clients == Senders

ASSUME ClientAssumption ==
    /\ BatchSizes \subseteq Nat \ {0}
    /\ bdReqHi \in Nat /\ bdReqLo \in Nat /\ bdReqHi >= bdReqLo
    /\ decayPerSec \in Nat \ {0}
    /\ maxBatch \in Nat /\ extantLimit \in Nat
    /\ None \notin Clients

VARIABLES
    life,               \* up, closing (do_disconnect was called) or gone
    batch,              \* none, rejecting, open, finished or deleted
    items,              \* the requests of the batch
    next,               \* how many of them were taken
    again,              \* process() of the batch is queued
    processingPaused,   \* the batch waits for the end of the pause
    inactivity,         \* the inactivity timer of the batch runs
    killed,
    responses,          \* those the batch has
    nExtantBatchRequests,   \* the share of these clients
    bdReqCtr, readPaused, decayTimer,
    perIP,              \* perIPData->bdReqCtr
    cached,             \* there is a cached result
    route,              \* where a request went
    job,                \* its job in the pool
    extant,             \* the pool's counter
    \* history
    calls,              \* callbacks of a request to bitcoind that ran
    replies             \* answers to a request the client was sent

batchVars    == <<batch, items, next, again, processingPaused, inactivity, killed,
                  responses, nExtantBatchRequests>>
throttleVars == <<bdReqCtr, readPaused, decayTimer, perIP>>
poolVars     == <<job, extant>>
vars == <<bdVars, life, batchVars, throttleVars, cached, route, poolVars, calls, replies>>

TypeOK ==
    /\ BDTypeOK
    /\ life \in [Clients -> {"up", "closing", "gone"}]
    /\ batch \in [Clients -> {"none", "rejecting", "open", "finished", "deleted"}]
    /\ items \in [Clients -> Seq(Reqs)]
    /\ next \in [Clients -> Nat]
    /\ again \in [Clients -> BOOLEAN] /\ processingPaused \in [Clients -> BOOLEAN]
    /\ inactivity \in [Clients -> BOOLEAN] /\ killed \in [Clients -> BOOLEAN]
    /\ responses \in [Clients -> Seq(Reqs)]
    /\ nExtantBatchRequests \in Nat
    /\ bdReqCtr \in [Clients -> Nat] /\ perIP \in Nat
    /\ readPaused \in [Clients -> BOOLEAN] /\ decayTimer \in [Clients -> BOOLEAN]
    /\ cached \in BOOLEAN
    /\ route \in [Reqs -> {None, "now", "refused", "pool", "bitcoind"}]
    /\ job \in [Reqs -> {None, "rejecting", "queued", "ran", "deleted"}]
    /\ extant \in Nat
    /\ calls \in [Reqs -> Nat] /\ replies \in [Reqs -> Nat]

Init ==
    /\ BDInit
    /\ life = [c \in Clients |-> "up"]
    /\ batch = [c \in Clients |-> "none"]
    /\ items = [c \in Clients |-> <<>>]
    /\ next = [c \in Clients |-> 0]
    /\ again = [c \in Clients |-> FALSE]
    /\ processingPaused = [c \in Clients |-> FALSE]
    /\ inactivity = [c \in Clients |-> FALSE]
    /\ killed = [c \in Clients |-> FALSE]
    /\ responses = [c \in Clients |-> <<>>]
    /\ nExtantBatchRequests = 0
    /\ bdReqCtr = [c \in Clients |-> 0]
    /\ readPaused = [c \in Clients |-> FALSE]
    /\ decayTimer = [c \in Clients |-> FALSE]
    /\ perIP = 0 /\ cached = FALSE
    /\ route = [r \in Reqs |-> None]
    /\ job = [r \in Reqs |-> None] /\ extant = 0
    /\ calls = [r \in Reqs |-> 0] /\ replies = [r \in Reqs |-> 0]

Own(c) == {r \in Reqs : owner[r] = c}
Batched(c, r) == Contains(items[c], r)

\* What the next n requests of any client are.
Fresh == {r \in Reqs : owner[r] = None}
NextIds(n) == [i \in 1 .. n |-> CHOOSE r \in Fresh : Cardinality({x \in Fresh : x < r}) = i - 1]

hasNext(c) == next[c] < Len(items[c])
Item(c) == items[c][next[c] + 1]

\* Mutant: a batch is complete when all its items were taken.
isCompleteEarly(c, n, resp) == n >= Len(items[c])

isComplete(c, n, resp) == n >= Len(items[c]) /\ Len(resp) >= Len(items[c])

\* A client whose thread is not in the middle of a call.
Free(c) == life[c] # "gone" /\ \A r \in Own(c) : job[r] # "rejecting"

-----------------------------------------------------------------------------
(* Answers to the client *)

(***************************************************************************)
(* _sendResult and _sendError: nothing is sent on a closed connection.     *)
(* batchResponseFilter gives the response to its batch, and drops it when  *)
(* that is gone.  The response may exceed the cost limit of the address,   *)
(* which kills the batch; a killed or a complete batch is processed again. *)
(***************************************************************************)
Deliver(c, r) ==
    \/ /\ life[c] = "up" /\ ~Batched(c, r)
       /\ replies' = [replies EXCEPT ![r] = @ + 1]
       /\ UNCHANGED <<responses, killed, again>>
    \/ /\ life[c] = "up" /\ Batched(c, r) /\ batch[c] = "open"
       /\ responses' = [responses EXCEPT ![c] = Append(@, r)]
       /\ \E kill \in BOOLEAN :
             /\ killed' = [killed EXCEPT ![c] = @ \/ kill]
             /\ again' = [again EXCEPT ![c] = @ \/ kill \/ isComplete(c, next'[c], responses'[c])]
       /\ UNCHANGED replies
    \/ /\ life[c] # "up" \/ (Batched(c, r) /\ batch[c] # "open")
       /\ UNCHANGED <<responses, killed, again, replies>>

-----------------------------------------------------------------------------
(* The throttle *)

(***************************************************************************)
(* generic_async_to_bitcoind counts the request, and stops reading from    *)
(* the client at the high mark; then submits it, or finds a cached result  *)
(* that is young enough, which it queues for the client.                   *)
(***************************************************************************)
Throttle(c) ==
    LET ctr   == bdReqCtr[c] + 1
        pause == ctr >= bdReqHi /\ ~readPaused[c]
    IN  /\ perIP' = perIP + 1
        /\ bdReqCtr' = [bdReqCtr EXCEPT ![c] = ctr]
        /\ readPaused' = [readPaused EXCEPT ![c] = @ \/ pause]
        /\ decayTimer' = [decayTimer EXCEPT ![c] = @ \/ pause]

generic_async_to_bitcoind(c, r) ==
    /\ Throttle(c)
    /\ \/ /\ cached
          /\ inbox' = [inbox EXCEPT ![c] = Append(@, Event("cached", r))]
          /\ UNCHANGED <<attached, mgrQ>>
       \/ submitRequest(r) /\ UNCHANGED inbox

\* Mutant: the batch is not told that the pause is over.
TickForgetsBatch(c, decay) ==
    LET ctr    == bdReqCtr[c] - Min({decay, bdReqCtr[c]})
        resume == readPaused[c] /\ ctr <= bdReqLo
    IN  /\ decayTimer[c] /\ Free(c)
        /\ bdReqCtr' = [bdReqCtr EXCEPT ![c] = ctr]
        /\ readPaused' = [readPaused EXCEPT ![c] = @ /\ ~resume]
        /\ decayTimer' = [decayTimer EXCEPT ![c] = ctr > 0]
        /\ UNCHANGED <<bdVars, life, batchVars, perIP, cached, route, poolVars, calls, replies>>

(***************************************************************************)
(* The decay timer ticks five times a second; every fifth tick lowers the  *)
(* counter.  A batch that waits for the end of the pause is resumed.       *)
(***************************************************************************)
Tick(c, decay) ==
    LET ctr    == bdReqCtr[c] - Min({decay, bdReqCtr[c]})
        resume == readPaused[c] /\ ctr <= bdReqLo
    IN  /\ decayTimer[c] /\ Free(c)
        /\ bdReqCtr' = [bdReqCtr EXCEPT ![c] = ctr]
        /\ readPaused' = [readPaused EXCEPT ![c] = @ /\ ~resume]
        /\ again' = [again EXCEPT ![c] = @ \/ (resume /\ processingPaused[c])]
        /\ decayTimer' = [decayTimer EXCEPT ![c] = ctr > 0]
        /\ UNCHANGED <<bdVars, life, batch, items, next, processingPaused, inactivity, killed,
                       responses, nExtantBatchRequests, perIP, cached, route, poolVars,
                       calls, replies>>

-----------------------------------------------------------------------------
(* The thread pool *)

\* submitWork: the job counts before the limit is looked at.
submitWork(r) ==
    /\ extant' = extant + 1
    /\ job' = [job EXCEPT ![r] = IF extant' > extantLimit THEN "rejecting" ELSE "queued"]

\* Mutant: the job that is not started is not counted down.
JobRejectedLeaks(c, r) ==
    /\ r \in Own(c) /\ job[r] = "rejecting"
    /\ job' = [job EXCEPT ![r] = "deleted"]
    /\ next' = next
    /\ Deliver(c, r)
    /\ UNCHANGED <<bdVars, life, batch, items, processingPaused, inactivity,
                   nExtantBatchRequests, throttleVars, cached, route, extant, calls>>

\* The rest of submitWork when there are too many jobs.
JobRejected(c, r) ==
    /\ r \in Own(c) /\ job[r] = "rejecting"
    /\ extant' = extant - 1
    /\ job' = [job EXCEPT ![r] = "deleted"]
    /\ next' = next
    /\ Deliver(c, r)
    /\ UNCHANGED <<bdVars, life, batch, items, processingPaused, inactivity, nExtantBatchRequests,
                   throttleVars, cached, route, calls>>

\* Job::run: `completed` or `failed` reaches the client unless it is gone.
JobRuns(r) ==
    LET c == owner[r]
    IN  /\ job[r] = "queued"
        /\ job' = [job EXCEPT ![r] = "ran"]
        /\ inbox' = IF life[c] = "gone" THEN inbox
                      ELSE [inbox EXCEPT ![c] = Append(@, Event("job", r))]
        /\ UNCHANGED <<connVars, mgrQ, goodSet, reqContextTable, timedOut, bd, owner, attached,
                       replied, life, batchVars, throttleVars, cached, route, extant,
                       calls, replies>>

JobDeleted(r) ==
    /\ job[r] = "ran"
    /\ job' = [job EXCEPT ![r] = "deleted"]
    /\ extant' = extant - 1
    /\ UNCHANGED <<bdVars, life, batchVars, throttleVars, cached, route, calls, replies>>

-----------------------------------------------------------------------------
(* Requests of a client *)

(***************************************************************************)
(* An error that drops the client is sent at once, in a batch too, past    *)
(* the batch, which is then not processed any further.                     *)
(***************************************************************************)
Refuse(c, r) ==
    /\ replies' = [replies EXCEPT ![r] = @ + 1]
    /\ life' = [life EXCEPT ![c] = "closing"]
    /\ again' = [again EXCEPT ![c] = @ /\ ~Batched(c, r)]
    /\ UNCHANGED <<responses, killed>>

(***************************************************************************)
(* onMessage: the handler of the method answers at once (or throws, which  *)
(* is answered at once too), or goes to the pool or to bitcoind.           *)
(***************************************************************************)
onMessage(c, r) ==
    \E where \in {"now", "refused", "pool", "bitcoind"} :
        /\ route' = [route EXCEPT ![r] = where]
        /\ \/ /\ where = "now"
              /\ Deliver(c, r)
              /\ UNCHANGED <<life, throttleVars, poolVars, inbox, attached, mgrQ>>
           \/ /\ where = "refused"
              /\ Refuse(c, r)
              /\ UNCHANGED <<throttleVars, poolVars, inbox, attached, mgrQ>>
           \/ /\ where = "pool"
              /\ submitWork(r)
              /\ UNCHANGED <<life, responses, killed, again, replies, throttleVars, inbox,
                             attached, mgrQ>>
           \/ /\ where = "bitcoind"
              /\ generic_async_to_bitcoind(c, r)
              /\ UNCHANGED <<life, responses, killed, again, replies, poolVars>>

\* on_readyRead takes a line of the socket, unless reading is paused.
Read(c) ==
    /\ life[c] = "up" /\ Free(c) /\ ~readPaused[c]
    /\ Fresh # {}
    /\ LET r == NextIds(1)[1]
       IN  /\ owner' = [owner EXCEPT ![r] = c]
           /\ onMessage(c, r)
    /\ next' = next
    /\ UNCHANGED <<connVars, goodSet, reqContextTable, timedOut, bd, replied, batch,
                   items, processingPaused, inactivity, nExtantBatchRequests, cached, calls>>

Size(c) == Len(items[c])

(***************************************************************************)
(* enqueueNewBatch: canAcceptBatch counts the items before it looks at the *)
(* limit.  Clients of the same address that are not modelled may have      *)
(* batches too.                                                            *)
(***************************************************************************)
EnqueueBatch(c, n) ==
    /\ batch[c] = "none" /\ life[c] = "up" /\ Free(c) /\ ~readPaused[c]
    /\ n <= Cardinality(Fresh)
    /\ items' = [items EXCEPT ![c] = NextIds(n)]
    /\ owner' = [r \in Reqs |-> IF Contains(items'[c], r) THEN c ELSE owner[r]]
    /\ nExtantBatchRequests' = nExtantBatchRequests + n
    /\ \E others \in 0 .. maxBatch :
           IF nExtantBatchRequests' + others > maxBatch
             THEN /\ batch' = [batch EXCEPT ![c] = "rejecting"]
                  /\ again' = again
             ELSE /\ batch' = [batch EXCEPT ![c] = "open"]
                  /\ again' = [again EXCEPT ![c] = TRUE]
    /\ UNCHANGED <<connVars, mgrQ, goodSet, reqContextTable, timedOut, bd, attached, replied,
                   inbox, life, next, processingPaused, inactivity, killed, responses,
                   throttleVars, cached, route, poolVars, calls, replies>>

(***************************************************************************)
(* The batch object is destroyed: at once when it is rejected (the client  *)
(* is told that the limit is exceeded), later when it has finished.        *)
(***************************************************************************)
BatchDestroyed(c) ==
    /\ batch[c] \in {"rejecting", "finished"} /\ Free(c)
    /\ batch' = [batch EXCEPT ![c] = "deleted"]
    /\ nExtantBatchRequests' = nExtantBatchRequests - Size(c)
    /\ responses' = [responses EXCEPT ![c] = <<>>]
    /\ UNCHANGED <<bdVars, life, items, next, again, processingPaused, inactivity, killed,
                   throttleVars, cached, route, poolVars, calls, replies>>

Finish(c) ==
    /\ batch' = [batch EXCEPT ![c] = "finished"]
    /\ again' = [again EXCEPT ![c] = FALSE]
    /\ inactivity' = [inactivity EXCEPT ![c] = FALSE]
    /\ processingPaused' = [processingPaused EXCEPT ![c] = FALSE]

Processes(c) == batch[c] = "open" /\ again[c] /\ Free(c)

(***************************************************************************)
(* process, of a batch whose client is dropped (which sends nothing), that *)
(* was killed (which sends one error), or that has all its responses.      *)
(***************************************************************************)
ProcessEnds(c) ==
    /\ Processes(c)
    /\ Finish(c)
    /\ \/ life[c] = "closing" /\ replies' = replies
       \/ life[c] = "up" /\ killed[c] /\ replies' = replies
       \/ /\ life[c] = "up" /\ ~killed[c]
          /\ isComplete(c, next[c], responses[c])
          /\ replies' = [r \in Reqs |->
                replies[r] + Cardinality({i \in DOMAIN responses[c] : responses[c][i] = r})]
    /\ UNCHANGED <<bdVars, life, items, next, killed, responses, nExtantBatchRequests,
                   throttleVars, cached, route, poolVars, calls>>

Continues(c) == Processes(c) /\ life[c] = "up" /\ ~killed[c]

\* process, while reading is paused: nothing is queued.
ProcessPauses(c) ==
    /\ Continues(c) /\ hasNext(c) /\ readPaused[c]
    /\ processingPaused' = [processingPaused EXCEPT ![c] = TRUE]
    /\ again' = [again EXCEPT ![c] = FALSE]
    /\ UNCHANGED <<bdVars, life, batch, items, next, inactivity, killed, responses,
                   nExtantBatchRequests, throttleVars, cached, route, poolVars, calls, replies>>

\* process, of the next item, after which it is queued again.
ProcessItem(c) ==
    /\ Continues(c) /\ hasNext(c) /\ ~readPaused[c]
    /\ processingPaused' = [processingPaused EXCEPT ![c] = FALSE]
    /\ next' = [next EXCEPT ![c] = @ + 1]
    /\ onMessage(c, Item(c))
    /\ UNCHANGED <<connVars, goodSet, reqContextTable, timedOut, bd, owner, replied, batch,
                   items, inactivity, nExtantBatchRequests, cached, calls>>

\* process, when all items are under way: the inactivity timer is started.
ProcessWaits(c) ==
    /\ Continues(c) /\ ~hasNext(c) /\ ~isComplete(c, next[c], responses[c])
    /\ inactivity' = [inactivity EXCEPT ![c] = TRUE]
    /\ again' = [again EXCEPT ![c] = FALSE]
    /\ UNCHANGED <<bdVars, life, batch, items, next, processingPaused, killed, responses,
                   nExtantBatchRequests, throttleVars, cached, route, poolVars, calls, replies>>

\* The inactivity timer: one error for the batch, and the client is dropped.
BatchTimeout(c) ==
    /\ batch[c] = "open" /\ inactivity[c] /\ Free(c)
    /\ Finish(c)
    /\ life' = [life EXCEPT ![c] = "closing"]
    /\ UNCHANGED <<bdVars, items, next, killed, responses, nExtantBatchRequests, throttleVars,
                   cached, route, poolVars, calls, replies>>

-----------------------------------------------------------------------------
(* Events in the thread of a client *)

\* Mutant: the counter is lowered although the timer may have done it already.
UncountBelowZero(c) ==
    /\ bdReqCtr' = [bdReqCtr EXCEPT ![c] = @ - 1]
    /\ perIP' = perIP - 1
    /\ UNCHANGED <<readPaused, decayTimer>>

\* What all callbacks of generic_async_to_bitcoind do to the counters.
Uncount(c) ==
    /\ bdReqCtr' = [bdReqCtr EXCEPT ![c] = @ - Min({@, 1})]
    /\ perIP' = perIP - 1
    /\ UNCHANGED <<readPaused, decayTimer>>

Callback(c, r) ==
    /\ Uncount(c)
    /\ calls' = [calls EXCEPT ![r] = @ + 1]
    /\ next' = next
    /\ Deliver(c, r)

NoCallback == UNCHANGED <<throttleVars, calls, next, responses, killed, again, replies>>

Arrived(c, kinds) == inbox[c] # <<>> /\ Head(inbox[c]).type \in kinds /\ Free(c)

(***************************************************************************)
(* The handlers of results, error and fail.  A result (not an error, which *)
(* is a reply too) of a request that may be cached is put in the cache.    *)
(***************************************************************************)
BitcoinDReplied(c) ==
    LET e == Head(inbox[c])
    IN  /\ Arrived(c, {"reply", "fail"})
        /\ HandledReply(c)
        /\ IF FirstReply(e.of) THEN Callback(c, e.of) ELSE NoCallback
        /\ \/ cached' = cached
           \/ /\ FirstReply(e.of) /\ e.type = "reply"
              /\ cached' = TRUE
        /\ UNCHANGED <<connVars, goodSet, reqContextTable, timedOut, bd, owner, life, batch,
                       items, processingPaused, inactivity, nExtantBatchRequests, route, poolVars>>

CachedReply(c) ==
    /\ Arrived(c, {"cached"})
    /\ inbox' = [inbox EXCEPT ![c] = Tail(@)]
    /\ Callback(c, Head(inbox[c]).of)
    /\ UNCHANGED <<connVars, mgrQ, goodSet, reqContextTable, timedOut, bd, owner, attached, replied,
                   life, batch, items, processingPaused, inactivity, nExtantBatchRequests, cached,
                   route, poolVars>>

JobReplied(c) ==
    /\ Arrived(c, {"job"})
    /\ inbox' = [inbox EXCEPT ![c] = Tail(@)]
    /\ next' = next
    /\ Deliver(c, Head(inbox[c]).of)
    /\ UNCHANGED <<connVars, mgrQ, goodSet, reqContextTable, timedOut, bd, owner, attached, replied,
                   life, batch, items, processingPaused, inactivity, nExtantBatchRequests, throttleVars,
                   cached, route, poolVars, calls>>

\* do_disconnect: the peer hangs up, or the server drops it.
Close(c) ==
    /\ life[c] = "up" /\ Free(c)
    /\ life' = [life EXCEPT ![c] = "closing"]
    /\ UNCHANGED <<bdVars, batchVars, throttleVars, cached, route, poolVars, calls, replies>>

\* The client is destroyed, and its batch, timers and queued events with it.
Destruct(c) ==
    /\ life[c] = "closing" /\ Free(c)
    /\ life' = [life EXCEPT ![c] = "gone"]
    /\ SenderGone(c)
    /\ nExtantBatchRequests' = nExtantBatchRequests -
           IF batch[c] \in {"open", "finished", "rejecting"} THEN Size(c) ELSE 0
    /\ batch' = [batch EXCEPT ![c] = "deleted"]
    /\ again' = [again EXCEPT ![c] = FALSE]
    /\ processingPaused' = [processingPaused EXCEPT ![c] = FALSE]
    /\ inactivity' = [inactivity EXCEPT ![c] = FALSE]
    /\ responses' = [responses EXCEPT ![c] = <<>>]
    /\ bdReqCtr' = [bdReqCtr EXCEPT ![c] = 0]
    /\ readPaused' = [readPaused EXCEPT ![c] = FALSE]
    /\ decayTimer' = [decayTimer EXCEPT ![c] = FALSE]
    /\ UNCHANGED <<connVars, goodSet, reqContextTable, timedOut, bd, owner, replied, items, next, killed,
                   perIP, cached, route, poolVars, calls, replies>>

\* expireOldCachedResults, and clearCachedResultsTable on a first connection.
CacheExpires ==
    /\ cached /\ cached' = FALSE
    /\ UNCHANGED <<bdVars, life, batchVars, throttleVars, route, poolVars, calls, replies>>

ClientStep(c) ==
    \/ BitcoinDReplied(c) \/ CachedReply(c) \/ JobReplied(c)
    \/ \E r \in Own(c) : JobRejected(c, r)
    \/ ProcessEnds(c) \/ ProcessPauses(c) \/ ProcessItem(c) \/ ProcessWaits(c)
    \/ BatchDestroyed(c)

PoolStep == \E r \in Reqs : JobRuns(r) \/ JobDeleted(r)

Others == UNCHANGED <<life, batchVars, throttleVars, cached, route, poolVars, calls, replies>>

Next ==
    \/ BDNext /\ Others
    \/ \E c \in Clients :
          \/ ClientStep(c)
          \/ Read(c) \/ (\E n \in BatchSizes : EnqueueBatch(c, n)) \/ BatchTimeout(c)
          \/ Close(c) \/ Destruct(c)
          \/ Tick(c, 0) \/ Tick(c, decayPerSec)
    \/ PoolStep
    \/ CacheExpires

Spec == Init /\ [][Next]_vars

-----------------------------------------------------------------------------
(* Properties *)

\* The requests that went to bitcoind and whose callback did not run.
Outstanding == {r \in Reqs : route[r] = "bitcoind" /\ calls[r] = 0}

\* Those whose client went away: no callback will run.
LeftBehind == {r \in Outstanding : life[owner[r]] = "gone"}

(***************************************************************************)
(* submitRequest promises its sender that one of the three functions is    *)
(* called, and once, although an answer, a timeout and a lost connection   *)
(* may all be queued for it; and no client is sent two answers to one      *)
(* request.                                                                *)
(***************************************************************************)
AnsweredOnce == \A r \in Reqs : calls[r] <= 1 /\ replies[r] <= 1

(***************************************************************************)
(* A client gets the answers to a batch all at once, one for each item, or *)
(* none of them: no answer of an item comes alone, before or after the     *)
(* batch was killed, timed out or was completed.  The exception is the     *)
(* error that drops the client, which is then the only answer.             *)
(***************************************************************************)
BatchIsWhole ==
    \A c \in Clients :
        LET refused == {r \in ToSet(items[c]) : route[r] = "refused"}
        IN  IF refused = {}
              THEN \A r, q \in ToSet(items[c]) : replies[r] = replies[q]
              ELSE \A r \in ToSet(items[c]) \ refused : replies[r] = 0

(***************************************************************************)
(* As long as a client exists, each of its requests to bitcoind is on the  *)
(* way to its callback: it is queued for the manager or for the client, or *)
(* it is in the table, connected to the client, where the next round of    *)
(* the timeout checker finds it.  This holds although the connection may   *)
(* break, or not be listening, when the request is sent.                   *)
(***************************************************************************)
PendingWillEnd ==
    \A r \in Outstanding : life[owner[r]] # "gone" =>
        \/ Contains(mgrQ, Event("submit", r))
        \/ \E i \in DOMAIN inbox[owner[r]] : inbox[owner[r]][i].of = r
        \/ r \in (reqContextTable \cap attached) \ timedOut

(***************************************************************************)
(* "everything related to this request will be cleaned up automatically":  *)
(* a context is not kept by its sender once it has replied, nor by a       *)
(* sender that is gone, and the table has no entry without a context,      *)
(* except for those whose removal is queued.                               *)
(***************************************************************************)
ContextsAreReleased ==
    /\ \A r \in attached : r \notin replied /\ life[owner[r]] # "gone"
    /\ \A r \in reqContextTable : Alive(r) \/ Contains(mgrQ, Event("destroyed", r))

(***************************************************************************)
(* The counters that limit what clients may ask for are those of what is   *)
(* really under way, whatever way it ends.  The one of requests to         *)
(* bitcoind per ip address, bdReqCtr of PerIPData ("active right now"), is *)
(* never too low, and exact as long as no client of the address went away  *)
(* with a request at bitcoind: what such a client leaves behind is not     *)
(* counted down any more.  The throttle of a client is never above its     *)
(* outstanding requests, as the timer lowers it too.                       *)
(***************************************************************************)
CountersAreExact ==
    /\ perIP >= Cardinality(Outstanding \ LeftBehind)
    /\ LeftBehind = {} => perIP = Cardinality(Outstanding)
    /\ \A c \in Clients : bdReqCtr[c] <= Cardinality(Outstanding \cap Own(c))
    /\ nExtantBatchRequests = Cardinality({r \in Reqs : \E c \in Clients :
           batch[c] \in {"rejecting", "open", "finished"} /\ Batched(c, r)})
    /\ extant = Cardinality({r \in Reqs : job[r] \in {"rejecting", "queued", "ran"}})
    /\ Cardinality({r \in Reqs : job[r] \in {"queued", "ran"}}) <= extantLimit

(***************************************************************************)
(* Nobody waits for something that is not going to happen: a client that   *)
(* is not read from has a timer that will resume it, and a batch that is   *)
(* not queued waits for the end of a pause, or has its timer running and   *)
(* some response missing.                                                  *)
(***************************************************************************)
WaitersWillBeWoken ==
    \A c \in Clients :
        /\ readPaused[c] => decayTimer[c]
        /\ batch[c] = "open" /\ life[c] = "up" /\ ~again[c] =>
               \/ processingPaused[c] /\ readPaused[c]
               \/ inactivity[c] /\ ~hasNext(c) /\ ~isComplete(c, next[c], responses[c])
=============================================================================
