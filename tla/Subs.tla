----------------------------------- MODULE Subs -----------------------------------
(***************************************************************************)
(* ScriptHashSubsMgr and the requests that use it: client threads          *)
(* subscribe to a script hash, pool threads compute its status, Storage    *)
(* enqueues the script hashes whose history changed, and the manager's     *)
(* thread notifies the subscribers in batches.                             *)
(*                                                                         *)
(* One script hash is followed, "key"; nobody subscribes to the others.  A *)
(* status is named by the version of the history it was computed from, 0   *)
(* for none: hist[v] is its value, and two versions may have the same      *)
(* value, as after a reorg.                                                *)
(***************************************************************************)
EXTENDS Integers, Sequences, FiniteSets, TLC

CONSTANTS
    Clients,      \* connections
    Keys,         \* script hashes
    Statuses,     \* values of a status hash
    maxSubs,      \* options->maxSubsGlobally
    MaxChanges    \* bound on the changes of the histories

ASSUME SubsConstants == /\ "key" \in Keys /\ 0 \notin Statuses
                        /\ maxSubs \in Nat \ {0} /\ MaxChanges \in Nat
                        /\ \E s, t \in Statuses : s # t

VARIABLES
    hist,       \* status values by version; the last one is the present status
    affected,   \* script hashes of a finished change that are not enqueued yet
    pending,    \* pendingNotificatons
    armings,    \* queueNoLongerEmpty signals on their way to the manager's thread
    timer,      \* the notification timer is in the timer map
    subs,       \* the Subscription object in the table, 0 for none
    obj,        \* Subscription objects
    nt,         \* doNotifyAllPending, in the manager's thread
    cl,         \* the request each client has under way
    gone,       \* clients destroyed, whose subscription was not told yet
    told,       \* the last status among the messages sent to a client and those
                \* queued for its thread, None before the first one
    crossed,    \* history: clients whose last message may not be the newest
    taken       \* history: version up to which changes were enqueued, and taken

vars == <<hist, affected, pending, armings, timer, subs, obj, nt, cl, gone, told, crossed, taken>>

None == 0
Objects == 1 .. maxSubs
Now == Len(hist)

(* overtaken is a history field: cachedStatus was computed before a change   *)
(* that doNotifyAllPending had handled when it was stored.                   *)
NewSubscription == [clients |-> {}, lastStatusNotified |-> None, cachedStatus |-> None,
                    overtaken |-> FALSE]
NoRequest == [pc |-> "idle", sub |-> None, weak |-> FALSE, status |-> None]
NtIdle == [pc |-> "idle", sub |-> None, status |-> None]

(* A Subscription lives as long as the table, a call or the notifier holds   *)
(* a reference.                                                              *)
Referenced(table, notifier, requests) ==
    ({table, notifier} \cup {requests[c].sub : c \in Clients}) \ {None}

Live == Referenced(subs, nt.sub, cl)

(* A client's request waits for a pool thread, which has yet to answer it. *)
Computing(c) == cl[c].pc \in {"status", "cache", "answer"}

Kept(objs, live) == [o \in Objects |-> IF o \in live THEN objs[o] ELSE NewSubscription]

-----------------------------------------------------------------------------
(* Storage: histories change under its locks, then the keys are enqueued *)

HistoryChanges(k) ==
    /\ affected = {} /\ Len(hist) <= MaxChanges
    /\ hist' = IF k = "key" THEN Append(hist, CHOOSE s \in Statuses : s # hist[Now]) ELSE hist
    /\ affected' = {k}
    /\ UNCHANGED <<pending, armings, timer, subs, obj, nt, cl, gone, told, crossed, taken>>

(* Mutant: the queue is tested after the keys were merged into it. *)
enqueueAfterMerge ==
    /\ affected # {}
    /\ pending' = pending \cup affected
    /\ armings' = IF pending' = {} THEN armings + 1 ELSE armings
    /\ affected' = {}
    /\ taken' = IF "key" \in affected THEN [taken EXCEPT !.enqueued = Now] ELSE taken
    /\ UNCHANGED <<hist, timer, subs, obj, nt, cl, gone, told, crossed>>

(* Mutant: the signal is sent whether or not the queue was empty. *)
enqueueAlwaysSignals ==
    /\ affected # {}
    /\ pending' = pending \cup affected
    /\ armings' = armings + 1
    /\ affected' = {}
    /\ taken' = IF "key" \in affected THEN [taken EXCEPT !.enqueued = Now] ELSE taken
    /\ UNCHANGED <<hist, timer, subs, obj, nt, cl, gone, told, crossed>>

enqueueNotifications ==
    /\ affected # {}
    /\ pending' = pending \cup affected
    /\ armings' = IF pending = {} THEN armings + 1 ELSE armings
    /\ affected' = {}
    /\ taken' = IF "key" \in affected THEN [taken EXCEPT !.enqueued = Now] ELSE taken
    /\ UNCHANGED <<hist, timer, subs, obj, nt, cl, gone, told, crossed>>

-----------------------------------------------------------------------------
(* The manager's thread: one handler after the other *)

(* queueNoLongerEmpty: a timer that exists is left alone. *)
StartTimer ==
    /\ nt.pc = "idle" /\ armings > 0
    /\ armings' = armings - 1
    /\ timer' = TRUE
    /\ UNCHANGED <<hist, affected, pending, subs, obj, nt, cl, gone, told, crossed, taken>>

(* doNotifyAllPending, with the table's lock: take what is pending. *)
TakePending ==
    /\ nt.pc = "idle" /\ timer
    /\ pending' = {}
    /\ nt' = IF "key" \in pending /\ subs # None
             THEN [NtIdle EXCEPT !.pc = "clients", !.sub = subs]
             ELSE [NtIdle EXCEPT !.pc = "done"]
    /\ taken' = IF "key" \in pending THEN [taken EXCEPT !.done = taken.enqueued] ELSE taken
    /\ UNCHANGED <<hist, affected, armings, timer, subs, obj, cl, gone, told, crossed>>

(* Mutant: a skipped notification leaves the cached status. *)
SkipKeepingCache ==
    /\ nt.pc = "clients"
    /\ IF obj[nt.sub].clients = {}
       THEN /\ nt' = [NtIdle EXCEPT !.pc = "done"]
            /\ obj' = Kept([obj EXCEPT ![nt.sub].lastStatusNotified = None],
                           Referenced(subs, None, cl))
       ELSE UNCHANGED obj /\ nt' = [nt EXCEPT !.pc = "status"]
    /\ UNCHANGED <<hist, affected, pending, armings, timer, subs, cl, gone, told, crossed, taken>>

(* With the subscription's lock: nobody to notify, so forget both statuses. *)
SkipWithoutClients ==
    /\ nt.pc = "clients"
    /\ IF obj[nt.sub].clients = {}
       THEN /\ nt' = [NtIdle EXCEPT !.pc = "done"]
            /\ obj' = Kept([obj EXCEPT ![nt.sub] = NewSubscription], Referenced(subs, None, cl))
       ELSE UNCHANGED obj /\ nt' = [nt EXCEPT !.pc = "status"]
    /\ UNCHANGED <<hist, affected, pending, armings, timer, subs, cl, gone, told, crossed, taken>>

(* Without it: getFullStatus. *)
NotifierGetsStatus ==
    /\ nt.pc = "status"
    /\ nt' = [nt EXCEPT !.pc = "notify", !.status = Now]
    /\ UNCHANGED <<hist, affected, pending, armings, timer, subs, obj, cl, gone, told, crossed,
                   taken>>

(* With it again: remember the status, and emit it unless it is the last one. *)
(* It is queued for the threads of the clients: for one whose answer is still *)
(* to come, in front of the answer.                                           *)
Notify ==
    LET o == nt.sub
        last == obj[o].lastStatusNotified
        doemit == last = None \/ hist[last] # hist[nt.status]
        receivers == IF doemit THEN obj[o].clients \ gone ELSE {}
    IN  /\ nt.pc = "notify"
        /\ nt' = [NtIdle EXCEPT !.pc = "done"]
        /\ obj' = Kept([obj EXCEPT ![o].lastStatusNotified = nt.status,
                                   ![o].cachedStatus = nt.status, ![o].overtaken = FALSE],
                       Referenced(subs, None, cl))
        /\ told' = [c \in Clients |-> IF c \in receivers THEN hist[nt.status] ELSE told[c]]
        /\ crossed' = (crossed \ receivers) \cup {c \in receivers : Computing(c)}
        /\ UNCHANGED <<hist, affected, pending, armings, timer, subs, cl, gone, taken>>

(* The single-shot timer is taken out of the map when its function returned. *)
StopTimer ==
    /\ nt.pc = "done"
    /\ timer' = FALSE
    /\ nt' = NtIdle
    /\ UNCHANGED <<hist, affected, pending, armings, subs, obj, cl, gone, told, crossed, taken>>

(* On its timer, or when SrvMgr asks for it. *)
removeZombies ==
    /\ nt.pc = "idle"
    /\ subs # None /\ obj[subs].clients = {}
    /\ subs' = None
    /\ obj' = Kept(obj, Referenced(None, nt.sub, cl))
    /\ UNCHANGED <<hist, affected, pending, armings, timer, nt, cl, gone, told, crossed, taken>>

(* The destroyed signal of a client; its id is never used again. *)
ClientDestroyed(c) ==
    /\ nt.pc = "idle"
    /\ c \in gone /\ cl[c].pc = "idle"
    /\ obj' = [o \in Objects |-> [obj[o] EXCEPT !.clients = @ \ {c}]]
    /\ gone' = gone \ {c}
    /\ UNCHANGED <<hist, affected, pending, armings, timer, subs, nt, cl, told, crossed, taken>>

-----------------------------------------------------------------------------
(* Requests: subscribe, get_status (a weak subscription), unsubscribe *)

(* getOrMakeSubRef, with the table's lock.  A client that is subscribed does  *)
(* not ask for the status too.                                                *)
getOrMakeSubRef(c, weak) ==
    /\ c \notin gone /\ cl[c].pc = "idle"
    /\ weak => \A o \in Live : c \notin obj[o].clients
    /\ Cardinality(Live) < maxSubs
    /\ LET new == CHOOSE o \in Objects : o \notin Live
           o   == IF subs # None THEN subs ELSE new
       IN  /\ subs' = o
           /\ obj' = IF subs # None THEN obj ELSE [obj EXCEPT ![o] = NewSubscription]
           /\ cl' = [cl EXCEPT ![c] = [pc |-> "attach", sub |-> o, weak |-> weak, status |-> None]]
    /\ UNCHANGED <<hist, affected, pending, armings, timer, nt, gone, told, crossed, taken>>

(* subscribe, with the subscription's lock, and impl_generic_send_sub_status: *)
(* the cached status is sent at once, or else a pool thread has to find it.   *)
(* It is sent before a message that is still queued for the client's thread,  *)
(* of this subscription or of an earlier one: then that one stays the last.   *)
subscribe(c) ==
    LET o == cl[c].sub
        isNew == ~ cl[c].weak /\ c \notin obj[o].clients
        cached == obj[o].cachedStatus
        sent == ~ cl[c].weak /\ cached # None
    IN  /\ cl[c].pc = "attach"
        /\ \/ /\ told' = IF sent THEN [told EXCEPT ![c] = hist[cached]] ELSE told
              /\ crossed' = IF isNew THEN crossed \ {c} ELSE crossed
           \/ /\ sent /\ (isNew \/ told[c] # None)
              /\ crossed' = IF isNew THEN crossed \cup {c} ELSE crossed
              /\ UNCHANGED told
        /\ cl' = [cl EXCEPT ![c] = IF cached # None THEN NoRequest
                                   ELSE [@ EXCEPT !.pc = "status", !.sub = None]]
        /\ obj' = Kept(IF isNew THEN [obj EXCEPT ![o].clients = @ \cup {c}] ELSE obj,
                       Referenced(subs, nt.sub, cl'))
        /\ UNCHANGED <<hist, affected, pending, armings, timer, subs, nt, gone, taken>>

(* A job whose client is gone does nothing. *)
JobGetsStatus(c) ==
    /\ cl[c].pc = "status"
    /\ cl' = [cl EXCEPT ![c] = IF c \in gone THEN NoRequest
                               ELSE [@ EXCEPT !.pc = "cache", !.status = Now]]
    /\ UNCHANGED <<hist, affected, pending, armings, timer, subs, obj, nt, gone, told, crossed,
                   taken>>

(* Into the subscription that is in the table by then.  The answer to        *)
(* get_status is of no consequence after that.                               *)
maybeCacheStatusResult(c) ==
    LET s == cl[c].status
    IN  /\ cl[c].pc = "cache"
        /\ obj' = IF subs # None /\ obj[subs].lastStatusNotified = None
                                /\ obj[subs].cachedStatus = None
                  THEN [obj EXCEPT ![subs].cachedStatus = s, ![subs].overtaken = s < taken.done]
                  ELSE obj
        /\ cl' = [cl EXCEPT ![c] = IF @.weak \/ c \in gone THEN NoRequest
                                   ELSE [@ EXCEPT !.pc = "answer"]]
        /\ UNCHANGED <<hist, affected, pending, armings, timer, subs, nt, gone, told, crossed,
                       taken>>

(* The completion of the job is queued for the client's thread, behind what  *)
(* is queued there already, and dropped when the client is gone.             *)
JobAnswers(c) ==
    /\ cl[c].pc = "answer"
    /\ told' = IF c \in gone THEN told ELSE [told EXCEPT ![c] = hist[cl[c].status]]
    /\ cl' = [cl EXCEPT ![c] = NoRequest]
    /\ UNCHANGED <<hist, affected, pending, armings, timer, subs, obj, nt, gone, crossed, taken>>

(* What the client was told, or is queued for it, no longer counts. *)
unsubscribe(c) ==
    /\ c \notin gone /\ cl[c].pc # "attach"
    /\ subs # None /\ c \in obj[subs].clients
    /\ obj' = [obj EXCEPT ![subs].clients = @ \ {c}]
    /\ told' = [told EXCEPT ![c] = None]
    /\ crossed' = crossed \ {c}
    /\ UNCHANGED <<hist, affected, pending, armings, timer, subs, nt, cl, gone, taken>>

(* Of no consequence for a client without subscription and request. *)
Disconnect(c) ==
    /\ c \notin gone /\ cl[c].pc # "attach"
    /\ cl[c].pc # "idle" \/ \E o \in Live : c \in obj[o].clients
    /\ gone' = gone \cup {c}
    /\ told' = [told EXCEPT ![c] = None]
    /\ crossed' = crossed \ {c}
    /\ UNCHANGED <<hist, affected, pending, armings, timer, subs, obj, nt, cl, taken>>

-----------------------------------------------------------------------------

Init ==
    /\ hist = <<CHOOSE s \in Statuses : TRUE>>
    /\ affected = {"key"} \* by the change that gave it its first status
    /\ pending = {} /\ armings = 0 /\ timer = FALSE
    /\ subs = None /\ obj = [o \in Objects |-> NewSubscription] /\ nt = NtIdle
    /\ cl = [c \in Clients |-> NoRequest] /\ gone = {}
    /\ told = [c \in Clients |-> None] /\ crossed = {}
    /\ taken = [enqueued |-> 0, done |-> 0]

DoNotifyAllPending ==
    \/ TakePending
    \/ SkipWithoutClients
    \/ NotifierGetsStatus
    \/ Notify
    \/ StopTimer

Next ==
    \/ \E k \in Keys : HistoryChanges(k)
    \/ enqueueNotifications
    \/ StartTimer
    \/ DoNotifyAllPending
    \/ removeZombies
    \/ \E c \in Clients :
           \/ ClientDestroyed(c)
           \/ \E weak \in BOOLEAN : getOrMakeSubRef(c, weak)
           \/ subscribe(c)
           \/ JobGetsStatus(c)
           \/ maybeCacheStatusResult(c)
           \/ JobAnswers(c)
           \/ unsubscribe(c)
           \/ Disconnect(c)

Spec == Init /\ [][Next]_vars

ClientSymmetry == Permutations(Clients)

-----------------------------------------------------------------------------
(* Properties *)

(* Every variable of the subscriptions manager has its type. *)
SubsTypeOK ==
    /\ hist \in Seq(Statuses) /\ affected \subseteq Keys /\ pending \subseteq Keys
    /\ armings \in 0 .. 1 /\ timer \in BOOLEAN /\ subs \in Objects \cup {None}
    /\ \A o \in Objects :
         /\ obj[o].clients \subseteq Clients /\ obj[o].overtaken \in BOOLEAN
         /\ {obj[o].lastStatusNotified, obj[o].cachedStatus} \subseteq 0 .. Now
    /\ nt.pc \in {"idle", "clients", "status", "notify", "done"}
    /\ nt.sub \in Objects \cup {None} /\ nt.status \in 0 .. Now
    /\ \A c \in Clients :
         /\ cl[c].pc \in {"idle", "attach", "status", "cache", "answer"}
         /\ told[c] \in Statuses \cup {None} /\ cl[c].status \in 0 .. Now

(* The timer is armed only by the call that finds the queue empty, and is    *)
(* taken down when its function returns.  No key is left behind: while one   *)
(* is pending, the timer will fire or a signal will arm it, also for what is *)
(* enqueued while doNotifyAllPending is under way.                           *)
PendingWillBeTaken == pending # {} => armings > 0 \/ (timer /\ nt.pc = "idle")

Quiet == affected = {} /\ pending = {} /\ nt.pc = "idle"

(* SubsMgr.h on cachedStatus: it may be delayed, "but that's ok as a future  *)
(* notification to a client will rectify the situation".  When no            *)
(* notification is due any more, the last status that a client of the        *)
(* subscription in the table was sent, as answer or as notification, is the  *)
(* present one.  Two cases are excepted.  A client's messages crossed: a     *)
(* notification came before the answer to its subscribe request (a comment   *)
(* in Servers.cpp has this race), or what was queued for it came after the   *)
(* answer; it may be left with the older status until the next notification. *)
(* And the cached status was overtaken by a change before it was stored.     *)
LastToldIsCurrent ==
    Quiet /\ subs # None /\ ~ obj[subs].overtaken =>
        \A c \in obj[subs].clients \ (gone \cup crossed) :
            cl[c].pc = "idle" => told[c] = hist[Now]
===================================================================================
