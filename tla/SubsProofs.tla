-------------------------------- MODULE SubsProofs --------------------------------
(***************************************************************************)
(* What the subscriptions manager promises, for every number of clients,   *)
(* of changes and of subscriptions.  SubsTypeOK and PendingWillBeTaken are *)
(* inductive once the timer, the signals and the queue are tied together   *)
(* (Armed); LastToldIsCurrent rests on how a cached status, a status a job *)
(* has under way and the last message to a client compare with the changes *)
(* that were taken from the queue (CacheFollows and ClientsFollow).        *)
(***************************************************************************)
EXTENDS Subs, FiniteSetTheorems, TLAPS

Subscriptions == [clients : SUBSET Clients, lastStatusNotified : Nat, cachedStatus : Nat,
                  overtaken : BOOLEAN]
Notifiers == [pc : {"idle", "clients", "status", "notify", "done"},
              sub : Objects \cup {None}, status : Nat]
Requests == [pc : {"idle", "attach", "status", "cache", "answer"}, sub : Objects \cup {None},
             weak : BOOLEAN, status : Nat]
Messages == Statuses \cup {None}

(* The variables, and the versions that are not of the future. *)
Types ==
    /\ hist \in Seq(Statuses) /\ Now \in Nat \ {0}
    /\ affected \subseteq Keys /\ pending \subseteq Keys
    /\ armings \in 0 .. 1 /\ timer \in BOOLEAN /\ subs \in Objects \cup {None}
    /\ obj \in [Objects -> Subscriptions] /\ nt \in Notifiers
    /\ cl \in [Clients -> Requests] /\ gone \subseteq Clients
    /\ told \in [Clients -> Messages] /\ crossed \subseteq Clients
    /\ taken \in [enqueued : Nat, done : Nat]

NoneOfTheFuture ==
    /\ \A o \in Objects : obj[o].lastStatusNotified <= Now /\ obj[o].cachedStatus <= Now
    /\ nt.status <= Now
    /\ \A c \in Clients : cl[c].status <= Now

(* What is not enqueued, or not taken yet, is still on its way. *)
ChangesAreKept ==
    /\ taken.done <= taken.enqueued /\ taken.enqueued <= Now
    /\ "key" \notin affected => taken.enqueued = Now
    /\ "key" \notin pending => taken.done = taken.enqueued

(* Something is pending exactly when either a signal or the timer is due.    *)
Armed ==
    /\ timer /\ nt.pc = "idle" => armings = 0
    /\ pending # {} <=> armings = 1 \/ (timer /\ nt.pc = "idle")
    /\ nt.pc # "idle" => timer

Notifying == nt.pc \in {"clients", "status", "notify"}

(* The notifier holds the subscription that is in the table, as only its own *)
(* thread takes one out; and its status is not older than what it took.      *)
NotifierHoldsTable ==
    /\ Notifying => nt.sub = subs /\ subs # None
    /\ ~ Notifying => nt.sub = None
    /\ nt.pc = "notify" => nt.status # None /\ nt.status >= taken.done

(* A client whose request holds a subscription that left the table is not    *)
(* among the clients of the one that replaced it; nor is one that asks for   *)
(* the status only.                                                          *)
RequestsAreKept ==
    \A c \in Clients :
        /\ cl[c].pc = "attach" <=> cl[c].sub # None
        /\ cl[c].pc \in {"cache", "answer"} <=> cl[c].status # None
        /\ cl[c].pc = "attach" /\ subs # None /\ cl[c].sub # subs => c \notin obj[subs].clients
        /\ cl[c].weak /\ subs # None => c \notin obj[subs].clients

(* The cached status is that of the last notification, if there was one.     *)
(* Unless it was overtaken it is not older than what the notifier took,      *)
(* except while the notifier is at work.                                     *)
CacheFollows ==
    subs # None =>
        /\ obj[subs].lastStatusNotified # None =>
               obj[subs].cachedStatus = obj[subs].lastStatusNotified
        /\ obj[subs].overtaken =>
               obj[subs].cachedStatus # None /\ obj[subs].lastStatusNotified = None
        /\ ~ Notifying /\ ~ obj[subs].overtaken /\ obj[subs].cachedStatus # None =>
               obj[subs].cachedStatus >= taken.done

(* The last message to a client that was notified is what the notification   *)
(* said; no answer is to come after it.                                      *)
Notified(c) == ~ Computing(c) /\ told[c] = hist[obj[subs].lastStatusNotified]

(* The last message to a client, or the answer it is about to get, is the    *)
(* status of a version that is not older than what was taken.                *)
UpToDate(c) ==
    /\ ~ Computing(c) => \E v \in 1 .. Now : v >= taken.done /\ told[c] = hist[v]
    /\ cl[c].pc \in {"cache", "answer"} => cl[c].status >= taken.done

(* After a notification the last message to each client is what it said;     *)
(* before the first one it is, or is about to be, a status that is not older *)
(* than what the notifier took.                                              *)
ClientsFollow ==
    subs # None =>
        \A c \in obj[subs].clients \ (gone \cup crossed) :
            /\ obj[subs].lastStatusNotified # None => Notified(c)
            /\ obj[subs].lastStatusNotified = None /\ ~ Notifying /\ ~ obj[subs].overtaken =>
                   UpToDate(c)

IInv ==
    /\ Types /\ NoneOfTheFuture /\ ChangesAreKept /\ Armed
    /\ NotifierHoldsTable /\ RequestsAreKept /\ CacheFollows /\ ClientsFollow

-----------------------------------------------------------------------------
(* Operators *)

(* The fields of a subscription nobody used yet. *)
LEMMA NewFacts ==
    /\ NewSubscription \in Subscriptions
    /\ NewSubscription.clients = {} /\ NewSubscription.lastStatusNotified = None
    /\ NewSubscription.cachedStatus = None /\ NewSubscription.overtaken = FALSE
BY DEF NewSubscription, Subscriptions, None

(* The fields of the notifier's and of a client's idle records. *)
LEMMA IdleFacts ==
    /\ NtIdle \in Notifiers /\ NtIdle.pc = "idle" /\ NtIdle.sub = None /\ NtIdle.status = None
    /\ NoRequest \in Requests /\ NoRequest.pc = "idle" /\ NoRequest.sub = None
    /\ NoRequest.status = None /\ NoRequest.weak = FALSE
BY DEF NtIdle, Notifiers, NoRequest, Requests, None

(* A subscription that is referenced keeps its contents. *)
LEMMA KeptFacts ==
    ASSUME NEW objs \in [Objects -> Subscriptions], NEW live
    PROVE  /\ Kept(objs, live) \in [Objects -> Subscriptions]
           /\ \A o \in Objects : Kept(objs, live)[o] = IF o \in live THEN objs[o]
                                                       ELSE NewSubscription
BY NewFacts DEF Kept

(* The one in the table is referenced. *)
LEMMA TableIsKept ==
    ASSUME NEW objs \in [Objects -> Subscriptions], NEW t \in Objects, NEW n, NEW reqs
    PROVE  Kept(objs, Referenced(t, n, reqs))[t] = objs[t]
<1>1. t \in Referenced(t, n, reqs)
  BY SubsConstants DEF Referenced, Objects, None
<1> QED BY <1>1, KeptFacts

(* None is no subscription. *)
LEMMA NoneIsNoObject == None \notin Objects
BY SubsConstants DEF None, Objects

(* What the types say of one subscription. *)
LEMMA SubFacts ==
    ASSUME Types, NEW o \in Objects
    PROVE  /\ obj[o] \in Subscriptions /\ obj[o].clients \subseteq Clients
           /\ obj[o].lastStatusNotified \in Nat /\ obj[o].cachedStatus \in Nat
           /\ obj[o].overtaken \in BOOLEAN
BY DEF Types, Subscriptions

(* What the types say of one client. *)
LEMMA ClientFacts ==
    ASSUME Types, NEW c \in Clients
    PROVE  /\ cl[c] \in Requests /\ cl[c].pc \in {"idle", "attach", "status", "cache", "answer"}
           /\ cl[c].sub \in Objects \cup {None} /\ cl[c].weak \in BOOLEAN
           /\ cl[c].status \in Nat /\ told[c] \in Messages
BY DEF Types, Requests

(* The status of a version is a status. *)
LEMMA VersionFacts ==
    ASSUME Types, NEW v \in 1 .. Now
    PROVE  hist[v] \in Messages /\ hist[v] # None
<1>1. hist[v] \in Statuses
  BY DEF Types, Now
<1> QED BY <1>1, SubsConstants DEF Messages, None

-----------------------------------------------------------------------------
(* One lemma per action *)

(* The first state. *)
LEMMA InitIsGood == Init => IInv
<1> SUFFICES ASSUME Init PROVE IInv
  OBVIOUS
<1>1. hist \in Seq(Statuses) /\ Now = 1
  <2>1. (CHOOSE s \in Statuses : TRUE) \in Statuses
    BY SubsConstants
  <2> QED BY <2>1 DEF Init, Now
<1>2. taken.enqueued = 0 /\ taken.done = 0 /\ taken \in [enqueued : Nat, done : Nat]
  BY DEF Init
<1>3. Types
  <2>1. None \in Nat /\ subs \in Objects \cup {None}
    BY DEF Init, None
  <2>2. /\ obj \in [Objects -> Subscriptions] /\ cl \in [Clients -> Requests]
        /\ told \in [Clients -> Messages] /\ nt \in Notifiers
    BY <2>1, NewFacts, IdleFacts DEF Init, Messages
  <2>3. /\ affected \subseteq Keys /\ pending \subseteq Keys /\ armings \in 0 .. 1
        /\ gone \subseteq Clients /\ crossed \subseteq Clients
    BY SubsConstants DEF Init
  <2>4. timer \in BOOLEAN
    BY DEF Init
  <2> QED BY <1>1, <1>2, <2>1, <2>2, <2>3, <2>4 DEF Types
<1>4. NoneOfTheFuture
  BY <1>1, NewFacts, IdleFacts DEF NoneOfTheFuture, Init, None
<1>5. ChangesAreKept /\ Armed /\ NotifierHoldsTable
  BY <1>1, <1>2, IdleFacts DEF ChangesAreKept, Armed, NotifierHoldsTable, Notifying, Init, None
<1>6. RequestsAreKept /\ CacheFollows /\ ClientsFollow
  BY IdleFacts DEF RequestsAreKept, CacheFollows, ClientsFollow, Init, None
<1> QED BY <1>3, <1>4, <1>5, <1>6 DEF IInv

(* A new version: what anybody knows keeps its value. *)
LEMMA HistoryChangesIsGood ==
    ASSUME IInv, NEW k \in Keys, HistoryChanges(k)
    PROVE  IInv'
<1>1. /\ affected = {} /\ affected' = {k}
      /\ UNCHANGED <<pending, armings, timer, subs, obj, nt, cl, gone, told, crossed, taken>>
  BY DEF HistoryChanges
<1>2. /\ hist' \in Seq(Statuses) /\ Now' \in Nat /\ Now' >= Now
      /\ k # "key" => Now' = Now
      /\ \A v \in 1 .. Now : hist'[v] = hist[v]
  <2> DEFINE new == CHOOSE s \in Statuses : s # hist[Now]
  <2>1. new \in Statuses
    BY SubsConstants
  <2> HIDE DEF new
  <2>2. hist' = IF k = "key" THEN Append(hist, new) ELSE hist
    BY DEF HistoryChanges, new
  <2> QED BY <2>1, <2>2 DEF IInv, Types, Now
<1>3. Types'
  BY <1>1, <1>2 DEF IInv, Types
<1>4. NoneOfTheFuture'
  <2>1. \A o \in Objects : obj[o].lastStatusNotified \in Nat /\ obj[o].cachedStatus \in Nat
    BY SubFacts DEF IInv
  <2>2. \A c \in Clients : cl[c].status \in Nat
    BY ClientFacts DEF IInv
  <2>3. nt.status \in Nat /\ Now \in Nat
    BY DEF IInv, Types, Notifiers
  <2> QED BY <1>1, <1>2, <2>1, <2>2, <2>3 DEF IInv, NoneOfTheFuture
<1>5. ChangesAreKept'
  <2>1. taken.enqueued \in Nat /\ taken.done \in Nat /\ Now \in Nat
    BY DEF IInv, Types
  <2> QED BY <1>1, <1>2, <2>1 DEF IInv, ChangesAreKept
<1>6. Armed' /\ NotifierHoldsTable' /\ RequestsAreKept' /\ CacheFollows'
  BY <1>1 DEF IInv, Armed, NotifierHoldsTable, RequestsAreKept, CacheFollows, Notifying
<1>7. ClientsFollow'
  <2> SUFFICES ASSUME subs # None, NEW c \in obj[subs].clients \ (gone \cup crossed)
               PROVE  /\ obj[subs].lastStatusNotified # None => Notified(c)'
                      /\ obj[subs].lastStatusNotified = None /\ ~ Notifying /\ ~ obj[subs].overtaken =>
                             UpToDate(c)'
    BY <1>1 DEF ClientsFollow, Notifying
  <2>1. subs \in Objects /\ c \in Clients
    BY SubFacts DEF IInv, Types
  <2>2. obj[subs].lastStatusNotified \in Nat /\ obj[subs].lastStatusNotified <= Now /\ Now \in Nat
    BY <2>1, SubFacts DEF IInv, NoneOfTheFuture, Types
  <2>3. ASSUME obj[subs].lastStatusNotified # None PROVE Notified(c)'
    <3>1. Notified(c)
      BY <2>3 DEF IInv, ClientsFollow
    <3>2. obj[subs].lastStatusNotified \in 1 .. Now
      BY <2>2, <2>3 DEF None
    <3> QED BY <1>1, <1>2, <3>1, <3>2 DEF Notified, Computing
  <2>4. ASSUME UpToDate(c) PROVE UpToDate(c)'
    <3>1. \A v \in 1 .. Now : v \in 1 .. Now' /\ hist'[v] = hist[v]
      BY <1>2, <2>2
    <3> QED BY <1>1, <2>4, <3>1 DEF UpToDate, Computing
  <2> QED BY <1>1, <2>3, <2>4 DEF IInv, ClientsFollow
<1> QED BY <1>3, <1>4, <1>5, <1>6, <1>7 DEF IInv

(* The parts about subscriptions and requests, when a step leaves them alone  *)
(* and does not end the work of the notifier.                                *)
LEMMA FollowersUntouched ==
    ASSUME IInv, UNCHANGED <<hist, subs, obj, cl, gone, told, crossed>>,
           Notifying => Notifying', taken'.done = taken.done \/ Notifying' \/ subs = None
    PROVE  RequestsAreKept' /\ CacheFollows' /\ ClientsFollow'
BY DEF IInv, RequestsAreKept, CacheFollows, ClientsFollow, Notified, UpToDate, Computing, Now

(* A change that is enqueued finds the queue empty, and signals, or finds     *)
(* what will take it along.                                                  *)
LEMMA EnqueueIsGood ==
    ASSUME IInv, enqueueNotifications
    PROVE  IInv'
<1>1. /\ affected # {} /\ pending' = pending \cup affected
      /\ armings' = IF pending = {} THEN armings + 1 ELSE armings
      /\ affected' = {} /\ hist' = hist /\ timer' = timer /\ nt' = nt
      /\ UNCHANGED <<hist, subs, obj, cl, gone, told, crossed>>
      /\ Now' = Now
  BY DEF enqueueNotifications, Now
<1>2. /\ taken \in [enqueued : Nat, done : Nat] /\ Now \in Nat
      /\ taken' = IF "key" \in affected THEN [taken EXCEPT !.enqueued = Now] ELSE taken
  BY DEF enqueueNotifications, IInv, Types
<1>3. /\ taken' \in [enqueued : Nat, done : Nat] /\ taken'.done = taken.done
      /\ taken'.enqueued = IF "key" \in affected THEN Now ELSE taken.enqueued
  BY <1>2
<1>4. pending = {} => armings = 0
  BY DEF IInv, Armed, Types
<1>5. Types'
  BY <1>1, <1>3, <1>4 DEF IInv, Types
<1>6. NoneOfTheFuture'
  BY <1>1 DEF IInv, NoneOfTheFuture
<1>7. ChangesAreKept'
  BY <1>1, <1>2, <1>3 DEF IInv, ChangesAreKept
<1>8. Armed'
  BY <1>1, <1>4 DEF IInv, Armed
<1>9. NotifierHoldsTable'
  BY <1>1, <1>3 DEF IInv, NotifierHoldsTable, Notifying
<1>10. RequestsAreKept' /\ CacheFollows' /\ ClientsFollow'
  BY <1>1, <1>3, FollowersUntouched DEF Notifying
<1> QED BY <1>5, <1>6, <1>7, <1>8, <1>9, <1>10 DEF IInv

(* The signal arrives. *)
LEMMA StartTimerIsGood ==
    ASSUME IInv, StartTimer
    PROVE  IInv'
<1>1. /\ nt.pc = "idle" /\ armings = 1 /\ armings' = 0 /\ timer' = TRUE
      /\ UNCHANGED <<hist, affected, pending, subs, obj, nt, cl, gone, told, crossed, taken>>
      /\ Now' = Now
  BY DEF StartTimer, IInv, Types, Now
<1>2. Types' /\ NoneOfTheFuture' /\ ChangesAreKept'
  BY <1>1 DEF IInv, Types, NoneOfTheFuture, ChangesAreKept
<1>3. Armed' /\ NotifierHoldsTable'
  BY <1>1 DEF IInv, Armed, NotifierHoldsTable, Notifying
<1>4. RequestsAreKept' /\ CacheFollows' /\ ClientsFollow'
  BY <1>1, FollowersUntouched DEF Notifying
<1> QED BY <1>2, <1>3, <1>4 DEF IInv

(* The notifier takes the queue: from here on it is at work on what the      *)
(* changes it took mean for the subscription.                                *)
LEMMA TakePendingIsGood ==
    ASSUME IInv, TakePending
    PROVE  IInv'
<1>1. /\ nt.pc = "idle" /\ timer /\ pending' = {} /\ Now' = Now
      /\ UNCHANGED <<hist, affected, armings, timer, subs, obj, cl, gone, told, crossed>>
  BY DEF TakePending, Now
<1>2. /\ nt' \in Notifiers /\ nt'.status = None
      /\ IF "key" \in pending /\ subs # None THEN nt'.pc = "clients" /\ nt'.sub = subs
                                             ELSE nt'.pc = "done" /\ nt'.sub = None
  <2>1. nt' = IF "key" \in pending /\ subs # None
              THEN [NtIdle EXCEPT !.pc = "clients", !.sub = subs]
              ELSE [NtIdle EXCEPT !.pc = "done"]
    BY DEF TakePending
  <2>2. subs \in Objects \cup {None}
    BY DEF IInv, Types
  <2> QED BY <2>1, <2>2, IdleFacts DEF Notifiers
<1>3. /\ taken' \in [enqueued : Nat, done : Nat] /\ taken'.enqueued = taken.enqueued
      /\ taken'.done = IF "key" \in pending THEN taken.enqueued ELSE taken.done
  <2>1. /\ taken \in [enqueued : Nat, done : Nat]
        /\ taken' = IF "key" \in pending THEN [taken EXCEPT !.done = taken.enqueued] ELSE taken
    BY DEF TakePending, IInv, Types
  <2> QED BY <2>1
<1>4. Types'
  BY <1>1, <1>2, <1>3 DEF IInv, Types
<1>5. NoneOfTheFuture' /\ ChangesAreKept'
  BY <1>1, <1>2, <1>3 DEF IInv, NoneOfTheFuture, ChangesAreKept, Types, None
<1>6. Armed'
  BY <1>1, <1>2 DEF IInv, Armed
<1>7. NotifierHoldsTable'
  BY <1>1, <1>2 DEF IInv, NotifierHoldsTable, Notifying
<1>8. ~ Notifying
  BY <1>1 DEF Notifying
<1>9. RequestsAreKept' /\ CacheFollows' /\ ClientsFollow'
  BY <1>1, <1>2, <1>3, <1>8, FollowersUntouched DEF Notifying
<1> QED BY <1>4, <1>5, <1>6, <1>7, <1>9 DEF IInv

(* The notifier's own work begins: the present status is that of everything  *)
(* it took.                                                                  *)
LEMMA NotifierGetsStatusIsGood ==
    ASSUME IInv, NotifierGetsStatus
    PROVE  IInv'
<1>1. /\ nt.pc = "status" /\ Now' = Now
      /\ UNCHANGED <<hist, affected, pending, armings, timer, subs, obj, cl, gone, told, crossed,
                     taken>>
  BY DEF NotifierGetsStatus, Now
<1>2. nt' \in Notifiers /\ nt'.pc = "notify" /\ nt'.sub = nt.sub /\ nt'.status = Now
  <2>1. nt \in Notifiers /\ Now \in Nat /\ nt' = [nt EXCEPT !.pc = "notify", !.status = Now]
    BY DEF NotifierGetsStatus, IInv, Types
  <2> QED BY <2>1 DEF Notifiers
<1>3. Types' /\ NoneOfTheFuture' /\ ChangesAreKept'
  BY <1>1, <1>2 DEF IInv, Types, NoneOfTheFuture, ChangesAreKept
<1>4. Armed'
  BY <1>1, <1>2 DEF IInv, Armed
<1>5. NotifierHoldsTable'
  BY <1>1, <1>2 DEF IInv, NotifierHoldsTable, Notifying, ChangesAreKept, Types, None
<1>6. RequestsAreKept' /\ CacheFollows' /\ ClientsFollow'
  BY <1>1, <1>2, FollowersUntouched DEF Notifying
<1> QED BY <1>3, <1>4, <1>5, <1>6 DEF IInv

(* The timer's function returned; what was enqueued meanwhile has its signal. *)
LEMMA StopTimerIsGood ==
    ASSUME IInv, StopTimer
    PROVE  IInv'
<1>1. /\ nt.pc = "done" /\ timer' = FALSE /\ nt' = NtIdle /\ Now' = Now
      /\ UNCHANGED <<hist, affected, pending, armings, subs, obj, cl, gone, told, crossed, taken>>
  BY DEF StopTimer, Now
<1>2. Types'
  BY <1>1, IdleFacts DEF IInv, Types
<1>3. NoneOfTheFuture' /\ ChangesAreKept'
  <2>1. nt'.status = 0 /\ Now \in Nat
    BY <1>1, IdleFacts DEF None, IInv, Types
  <2> QED BY <1>1, <2>1 DEF IInv, NoneOfTheFuture, ChangesAreKept
<1>4. Armed' /\ NotifierHoldsTable'
  BY <1>1, IdleFacts DEF IInv, Armed, NotifierHoldsTable, Notifying
<1>5. RequestsAreKept' /\ CacheFollows' /\ ClientsFollow'
  BY <1>1, FollowersUntouched DEF Notifying
<1> QED BY <1>2, <1>3, <1>4, <1>5 DEF IInv

(* Nobody is subscribed: both statuses are forgotten.  Otherwise nothing      *)
(* happens yet.                                                              *)
LEMMA SkipIsGood ==
    ASSUME IInv, SkipWithoutClients
    PROVE  IInv'
<1>1. /\ nt.pc = "clients" /\ Now' = Now /\ nt.sub = subs /\ subs \in Objects /\ subs # None
      /\ UNCHANGED <<hist, affected, pending, armings, timer, subs, cl, gone, told, crossed, taken>>
  BY DEF SkipWithoutClients, Now, IInv, NotifierHoldsTable, Notifying, Types
<1>2. Now \in Nat /\ nt \in Notifiers /\ obj \in [Objects -> Subscriptions]
  BY DEF IInv, Types
<1>3. CASE obj[subs].clients # {}
  <2>1. obj' = obj /\ nt' \in Notifiers
        /\ nt'.pc = "status" /\ nt'.sub = subs /\ nt'.status = nt.status
    <3>1. obj' = obj /\ nt' = [nt EXCEPT !.pc = "status"]
      BY <1>1, <1>3 DEF SkipWithoutClients
    <3> QED BY <1>1, <1>2, <3>1 DEF Notifiers
  <2>2. Types' /\ NoneOfTheFuture' /\ ChangesAreKept'
    BY <1>1, <2>1 DEF IInv, Types, NoneOfTheFuture, ChangesAreKept
  <2>3. Armed' /\ NotifierHoldsTable'
    BY <1>1, <2>1 DEF IInv, Armed, NotifierHoldsTable, Notifying
  <2>4. RequestsAreKept' /\ CacheFollows' /\ ClientsFollow'
    BY <1>1, <2>1, FollowersUntouched DEF Notifying
  <2> QED BY <2>2, <2>3, <2>4 DEF IInv
<1>4. CASE obj[subs].clients = {}
  <2> DEFINE objs == [obj EXCEPT ![subs] = NewSubscription]
  <2>1. nt' \in Notifiers /\ nt'.pc = "done" /\ nt'.sub = None /\ nt'.status = 0
    <3>1. nt' = [NtIdle EXCEPT !.pc = "done"]
      BY <1>1, <1>4 DEF SkipWithoutClients
    <3> QED BY <3>1, IdleFacts DEF Notifiers, None
  <2>2. obj' = Kept(objs, Referenced(subs, None, cl))
    BY <1>1, <1>4 DEF SkipWithoutClients
  <2>3. /\ objs \in [Objects -> Subscriptions] /\ objs[subs] = NewSubscription
        /\ \A o \in Objects : objs[o] \in {obj[o], NewSubscription}
    BY <1>1, <1>2, NewFacts
  <2> HIDE DEF objs
  <2>4. /\ obj' \in [Objects -> Subscriptions] /\ obj'[subs] = NewSubscription
        /\ \A o \in Objects : obj'[o] \in {obj[o], NewSubscription}
    <3>1. obj' \in [Objects -> Subscriptions]
          /\ \A o \in Objects : obj'[o] \in {objs[o], NewSubscription}
      BY <2>2, <2>3, KeptFacts
    <3>2. obj'[subs] = objs[subs]
      BY <1>1, <2>2, <2>3, TableIsKept
    <3> QED BY <2>3, <3>1, <3>2
  <2>5. Types'
    BY <1>1, <2>1, <2>4 DEF IInv, Types
  <2>6. NoneOfTheFuture'
    <3>1. \A o \in Objects : obj'[o].lastStatusNotified <= Now /\ obj'[o].cachedStatus <= Now
      BY <1>2, <2>4, NewFacts DEF IInv, NoneOfTheFuture, None
    <3> QED BY <1>1, <1>2, <2>1, <3>1 DEF IInv, NoneOfTheFuture
  <2>7. ChangesAreKept' /\ Armed' /\ NotifierHoldsTable'
    BY <1>1, <2>1 DEF IInv, ChangesAreKept, Armed, NotifierHoldsTable, Notifying
  <2>8. RequestsAreKept' /\ CacheFollows' /\ ClientsFollow'
    BY <1>1, <2>4, NewFacts DEF IInv, RequestsAreKept, CacheFollows, ClientsFollow
  <2> QED BY <2>5, <2>6, <2>7, <2>8 DEF IInv
<1> QED BY <1>3, <1>4

(* The subscription is told: from here on the last message to its clients is  *)
(* what the notification said, unless an answer is to come after it.         *)
LEMMA NotifyIsGood ==
    ASSUME IInv, Notify
    PROVE  IInv'
<1> DEFINE last == obj[subs].lastStatusNotified
           doemit == last = None \/ hist[last] # hist[nt.status]
           receivers == IF doemit THEN obj[subs].clients \ gone ELSE {}
<1>1. /\ nt.pc = "notify" /\ Now' = Now /\ nt.sub = subs /\ subs \in Objects /\ subs # None
      /\ nt.status # None /\ nt.status >= taken.done
      /\ UNCHANGED <<hist, affected, pending, armings, timer, subs, cl, gone, taken>>
  BY DEF Notify, Now, IInv, NotifierHoldsTable, Notifying, Types
<1>2. /\ Now \in Nat /\ nt \in Notifiers /\ obj \in [Objects -> Subscriptions]
      /\ nt.status \in Nat /\ nt.status <= Now /\ taken.done \in Nat
      /\ told \in [Clients -> Messages] /\ crossed \subseteq Clients
      /\ obj[subs].clients \subseteq Clients
  BY <1>1, SubFacts DEF IInv, Types, Notifiers, NoneOfTheFuture
<1>3. PICK s \in Nat : s = nt.status
  BY <1>2
<1>4. nt' \in Notifiers /\ nt'.pc = "done" /\ nt'.sub = None /\ nt'.status = 0
  <2>1. nt' = [NtIdle EXCEPT !.pc = "done"]
    BY DEF Notify
  <2> QED BY <2>1, IdleFacts DEF Notifiers, None
<1>5. PICK objs \in [Objects -> Subscriptions] :
          /\ obj' = Kept(objs, Referenced(subs, None, cl))
          /\ \A o \in Objects \ {subs} : objs[o] = obj[o]
          /\ objs[subs].clients = obj[subs].clients /\ objs[subs].lastStatusNotified = s
          /\ objs[subs].cachedStatus = s /\ objs[subs].overtaken = FALSE
  <2>1. PICK x \in Subscriptions :
            /\ x = [obj[subs] EXCEPT !.lastStatusNotified = s, !.cachedStatus = s,
                                     !.overtaken = FALSE]
            /\ x.clients = obj[subs].clients /\ x.lastStatusNotified = s
            /\ x.cachedStatus = s /\ x.overtaken = FALSE
    <3>1. PICK y \in Subscriptions : y = obj[subs]
      BY <1>1, <1>2
    <3>2. PICK b \in BOOLEAN : b = FALSE
      OBVIOUS
    <3> DEFINE z == [y EXCEPT !.lastStatusNotified = s, !.cachedStatus = s, !.overtaken = b]
    <3>3. z \in Subscriptions /\ z.clients = y.clients /\ z.lastStatusNotified = s
          /\ z.cachedStatus = s /\ z.overtaken = b
      BY DEF Subscriptions
    <3> HIDE DEF z
    <3> QED BY <3>1, <3>2, <3>3 DEF z
  <2> DEFINE new == [obj EXCEPT ![subs] = x]
  <2>2. obj' = Kept(new, Referenced(subs, None, cl))
    BY <1>1, <1>3, <2>1 DEF Notify
  <2>3. new \in [Objects -> Subscriptions] /\ new[subs] = x
    BY <1>1, <1>2, <2>1
  <2>4. \A o \in Objects \ {subs} : new[o] = obj[o]
    BY <1>1, <1>2
  <2> HIDE DEF new
  <2> QED BY <2>1, <2>2, <2>3, <2>4
<1>6. obj' \in [Objects -> Subscriptions]
      /\ \A o \in Objects : obj'[o] \in {objs[o], NewSubscription}
  BY <1>5, KeptFacts
<1>7. obj'[subs] = objs[subs]
  BY <1>1, <1>5, TableIsKept
<1>8. /\ \A c \in Clients : told'[c] = IF c \in receivers THEN hist[s] ELSE told[c]
      /\ told' \in [Clients -> Messages]
  <2>1. told' = [c \in Clients |-> IF c \in receivers THEN hist[s] ELSE told[c]]
    BY <1>1, <1>3 DEF Notify
  <2>2. hist[s] \in Messages
    <3>1. s \in 1 .. Now
      BY <1>1, <1>2, <1>3 DEF None
    <3> QED BY <3>1, VersionFacts DEF IInv
  <2> QED BY <1>2, <2>1, <2>2
<1>9. crossed' = (crossed \ receivers) \cup {c \in receivers : Computing(c)}
  BY <1>1, <1>3 DEF Notify
<1> HIDE DEF receivers
<1>10. receivers \subseteq obj[subs].clients
  BY DEF receivers
<1>11. Types'
  BY <1>1, <1>2, <1>4, <1>6, <1>8, <1>9, <1>10 DEF IInv, Types
<1>12. NoneOfTheFuture'
  <2>1. \A o \in Objects : obj'[o].lastStatusNotified <= Now /\ obj'[o].cachedStatus <= Now
    BY <1>1, <1>2, <1>3, <1>5, <1>6, NewFacts DEF IInv, NoneOfTheFuture, None
  <2> QED BY <1>1, <1>2, <1>4, <2>1 DEF IInv, NoneOfTheFuture
<1>13. ChangesAreKept' /\ Armed' /\ NotifierHoldsTable'
  BY <1>1, <1>4 DEF IInv, ChangesAreKept, Armed, NotifierHoldsTable, Notifying
<1>14. RequestsAreKept'
  BY <1>1, <1>5, <1>7 DEF IInv, RequestsAreKept
<1>15. CacheFollows'
  BY <1>1, <1>3, <1>5, <1>7 DEF CacheFollows
<1>16. ClientsFollow'
  <2> SUFFICES ASSUME NEW c \in obj[subs].clients \ (gone \cup crossed')
               PROVE  Notified(c)'
    BY <1>1, <1>3, <1>5, <1>7 DEF ClientsFollow
  <2>1. c \in Clients
    BY <1>2
  <2>2. CASE c \in receivers
    <3>1. ~ Computing(c) /\ told'[c] = hist[s]
      BY <1>8, <1>9, <2>1, <2>2
    <3> QED BY <1>1, <1>5, <1>7, <3>1 DEF Notified, Computing
  <2>3. CASE c \notin receivers
    <3>1. last # None /\ hist[last] = hist[s]
      BY <1>3, <2>3 DEF receivers
    <3>2. c \notin crossed
      BY <1>9, <2>3
    <3>3. Notified(c)
      BY <1>1, <3>1, <3>2 DEF IInv, ClientsFollow
    <3>4. told'[c] = told[c]
      BY <1>8, <2>1, <2>3
    <3> QED BY <1>1, <1>5, <1>7, <3>1, <3>3, <3>4 DEF Notified, Computing
  <2> QED BY <2>2, <2>3
<1> QED BY <1>11, <1>12, <1>13, <1>14, <1>15, <1>16 DEF IInv

(* What a step may not do to the clients and their requests that follow the   *)
(* subscription of the table: the same subscription, with the same statuses,  *)
(* has no client it did not have, and nobody is taken for up to date anew.   *)
LEMMA FewerFollowers ==
    ASSUME IInv, UNCHANGED <<hist, subs, nt, taken>>, subs # None,
           obj'[subs].lastStatusNotified = obj[subs].lastStatusNotified,
           obj'[subs].cachedStatus = obj[subs].cachedStatus,
           obj'[subs].overtaken = obj[subs].overtaken,
           \A c \in obj'[subs].clients \ (gone' \cup crossed') :
               /\ c \in obj[subs].clients \ (gone \cup crossed)
               /\ cl'[c] = cl[c] /\ told'[c] = told[c]
    PROVE  CacheFollows' /\ ClientsFollow'
<1>1. Notifying' <=> Notifying
  BY DEF Notifying
<1>2. CacheFollows'
  BY <1>1 DEF IInv, CacheFollows
<1>3. ClientsFollow'
  <2> SUFFICES ASSUME NEW c \in obj'[subs].clients \ (gone' \cup crossed')
               PROVE  /\ obj[subs].lastStatusNotified # None => Notified(c)'
                      /\ obj[subs].lastStatusNotified = None /\ ~ Notifying /\ ~ obj[subs].overtaken =>
                             UpToDate(c)'
    BY <1>1 DEF ClientsFollow
  <2>1. /\ obj[subs].lastStatusNotified # None => Notified(c)
        /\ obj[subs].lastStatusNotified = None /\ ~ Notifying /\ ~ obj[subs].overtaken => UpToDate(c)
    BY DEF IInv, ClientsFollow
  <2> QED BY <2>1 DEF Notified, UpToDate, Computing, Now
<1> QED BY <1>2, <1>3

(* A subscription nobody uses leaves the table. *)
LEMMA RemoveZombiesIsGood ==
    ASSUME IInv, removeZombies
    PROVE  IInv'
<1>1. /\ nt.pc = "idle" /\ subs' = None /\ Now' = Now
      /\ obj' = Kept(obj, Referenced(None, nt.sub, cl))
      /\ UNCHANGED <<hist, affected, pending, armings, timer, nt, cl, gone, told, crossed, taken>>
  BY DEF removeZombies, Now
<1>2. Now \in Nat /\ obj \in [Objects -> Subscriptions]
  BY DEF IInv, Types
<1>3. obj' \in [Objects -> Subscriptions] /\ \A o \in Objects : obj'[o] \in {obj[o], NewSubscription}
  BY <1>1, <1>2, KeptFacts
<1>4. Types'
  BY <1>1, <1>3 DEF IInv, Types
<1>5. NoneOfTheFuture'
  <2>1. \A o \in Objects : obj'[o].lastStatusNotified <= Now /\ obj'[o].cachedStatus <= Now
    BY <1>2, <1>3, NewFacts DEF IInv, NoneOfTheFuture, None
  <2> QED BY <1>1, <2>1 DEF IInv, NoneOfTheFuture
<1>6. ChangesAreKept' /\ Armed' /\ NotifierHoldsTable'
  BY <1>1 DEF IInv, ChangesAreKept, Armed, NotifierHoldsTable, Notifying
<1>7. RequestsAreKept' /\ CacheFollows' /\ ClientsFollow'
  BY <1>1 DEF IInv, RequestsAreKept, CacheFollows, ClientsFollow
<1> QED BY <1>4, <1>5, <1>6, <1>7 DEF IInv

(* A client that is gone leaves every subscription. *)
LEMMA ClientDestroyedIsGood ==
    ASSUME IInv, NEW c \in Clients, ClientDestroyed(c)
    PROVE  IInv'
<1>1. /\ nt.pc = "idle" /\ Now' = Now /\ gone' = gone \ {c} /\ cl[c].pc = "idle"
      /\ obj' = [o \in Objects |-> [obj[o] EXCEPT !.clients = @ \ {c}]]
      /\ UNCHANGED <<hist, affected, pending, armings, timer, subs, nt, cl, told, crossed, taken>>
  BY DEF ClientDestroyed, Now
<1>2. \A o \in Objects :
          /\ obj'[o] \in Subscriptions /\ obj'[o].clients = obj[o].clients \ {c}
          /\ obj'[o].lastStatusNotified = obj[o].lastStatusNotified
          /\ obj'[o].cachedStatus = obj[o].cachedStatus /\ obj'[o].overtaken = obj[o].overtaken
  <2> TAKE o \in Objects
  <2>1. obj[o] \in Subscriptions /\ obj[o].clients \ {c} \in SUBSET Clients
    BY SubFacts DEF IInv
  <2>2. PICK x \in Subscriptions, cs \in SUBSET Clients :
            x = obj[o] /\ cs = obj[o].clients \ {c}
    BY <2>1
  <2>3. obj'[o] = [x EXCEPT !.clients = cs]
    BY <1>1, <2>2
  <2>4. /\ obj'[o] \in Subscriptions /\ obj'[o].clients = cs
        /\ obj'[o].lastStatusNotified = x.lastStatusNotified
        /\ obj'[o].cachedStatus = x.cachedStatus /\ obj'[o].overtaken = x.overtaken
    BY <2>3 DEF Subscriptions
  <2> QED BY <2>2, <2>4
<1>3. Types'
  <2>1. obj' \in [Objects -> Subscriptions]
    BY <1>1, <1>2
  <2> QED BY <1>1, <2>1 DEF IInv, Types
<1>4. NoneOfTheFuture'
  BY <1>1, <1>2 DEF IInv, NoneOfTheFuture
<1>5. ChangesAreKept' /\ Armed' /\ NotifierHoldsTable'
  BY <1>1 DEF IInv, ChangesAreKept, Armed, NotifierHoldsTable, Notifying
<1>6. CASE subs # None
  <2>1. subs \in Objects
    BY <1>6 DEF IInv, Types
  <2>2. RequestsAreKept'
    BY <1>1, <1>2, <2>1 DEF IInv, RequestsAreKept
  <2>3. CacheFollows' /\ ClientsFollow'
    BY <1>1, <1>2, <1>6, <2>1, FewerFollowers
  <2> QED BY <1>3, <1>4, <1>5, <2>2, <2>3 DEF IInv
<1>7. CASE subs = None
  <2>1. RequestsAreKept' /\ CacheFollows' /\ ClientsFollow'
    BY <1>1, <1>7 DEF IInv, RequestsAreKept, CacheFollows, ClientsFollow
  <2> QED BY <1>3, <1>4, <1>5, <2>1 DEF IInv
<1> QED BY <1>6, <1>7

(* A client leaves the subscription in the table. *)
LEMMA UnsubscribeIsGood ==
    ASSUME IInv, NEW c \in Clients, unsubscribe(c)
    PROVE  IInv'
<1>1. /\ Now' = Now /\ subs # None /\ subs \in Objects
      /\ obj' = [obj EXCEPT ![subs].clients = @ \ {c}]
      /\ told' = [told EXCEPT ![c] = None] /\ crossed' = crossed \ {c}
      /\ UNCHANGED <<hist, affected, pending, armings, timer, subs, nt, cl, gone, taken>>
  BY DEF unsubscribe, Now, IInv, Types
<1>2. /\ obj' \in [Objects -> Subscriptions]
      /\ \A o \in Objects :
             /\ obj'[o].clients = IF o = subs THEN obj[o].clients \ {c} ELSE obj[o].clients
             /\ obj'[o].lastStatusNotified = obj[o].lastStatusNotified
             /\ obj'[o].cachedStatus = obj[o].cachedStatus /\ obj'[o].overtaken = obj[o].overtaken
  <2>1. obj \in [Objects -> Subscriptions] /\ obj[subs].clients \ {c} \in SUBSET Clients
    BY <1>1, SubFacts DEF IInv, Types
  <2>2. PICK x \in Subscriptions :
            /\ x = [obj[subs] EXCEPT !.clients = obj[subs].clients \ {c}]
            /\ x.clients = obj[subs].clients \ {c}
            /\ x.lastStatusNotified = obj[subs].lastStatusNotified
            /\ x.cachedStatus = obj[subs].cachedStatus /\ x.overtaken = obj[subs].overtaken
    <3>1. PICK y \in Subscriptions, cs \in SUBSET Clients :
              y = obj[subs] /\ cs = obj[subs].clients \ {c}
      BY <1>1, <2>1
    <3> DEFINE z == [y EXCEPT !.clients = cs]
    <3>2. /\ z \in Subscriptions /\ z.clients = cs
          /\ z.lastStatusNotified = y.lastStatusNotified
          /\ z.cachedStatus = y.cachedStatus /\ z.overtaken = y.overtaken
      BY DEF Subscriptions
    <3> HIDE DEF z
    <3> QED BY <3>1, <3>2 DEF z
  <2>3. obj' = [obj EXCEPT ![subs] = x]
    BY <1>1, <2>2
  <2> QED BY <1>1, <2>1, <2>2, <2>3
<1>3. told \in [Clients -> Messages] /\ None \in Messages
  BY DEF IInv, Types, Messages
<1>4. Types'
  BY <1>1, <1>2, <1>3 DEF IInv, Types
<1>5. NoneOfTheFuture'
  BY <1>1, <1>2 DEF IInv, NoneOfTheFuture
<1>6. ChangesAreKept' /\ Armed' /\ NotifierHoldsTable'
  BY <1>1 DEF IInv, ChangesAreKept, Armed, NotifierHoldsTable, Notifying
<1>7. RequestsAreKept'
  BY <1>1, <1>2 DEF IInv, RequestsAreKept
<1>8. \A d \in obj'[subs].clients : told'[d] = told[d] /\ d # c /\ d \in obj[subs].clients
  BY <1>1, <1>2, <1>3, SubFacts DEF IInv
<1>9. CacheFollows' /\ ClientsFollow'
  BY <1>1, <1>2, <1>8, FewerFollowers
<1> QED BY <1>4, <1>5, <1>6, <1>7, <1>9 DEF IInv

(* A client goes; its subscription is told later. *)
LEMMA DisconnectIsGood ==
    ASSUME IInv, NEW c \in Clients, Disconnect(c)
    PROVE  IInv'
<1>1. /\ Now' = Now /\ gone' = gone \cup {c}
      /\ told' = [told EXCEPT ![c] = None] /\ crossed' = crossed \ {c}
      /\ UNCHANGED <<hist, affected, pending, armings, timer, subs, obj, nt, cl, taken>>
  BY DEF Disconnect, Now
<1>2. told \in [Clients -> Messages] /\ None \in Messages
  BY DEF IInv, Types, Messages
<1>3. Types'
  BY <1>1, <1>2 DEF IInv, Types
<1>4. NoneOfTheFuture'
  BY <1>1 DEF IInv, NoneOfTheFuture
<1>5. ChangesAreKept' /\ Armed' /\ NotifierHoldsTable' /\ RequestsAreKept'
  BY <1>1 DEF IInv, ChangesAreKept, Armed, NotifierHoldsTable, Notifying, RequestsAreKept
<1>6. CacheFollows' /\ ClientsFollow'
  <2>1. CASE subs = None
    BY <1>1, <2>1 DEF CacheFollows, ClientsFollow
  <2>2. CASE subs # None
    <3>1. obj[subs].clients \subseteq Clients
      BY <2>2, SubFacts DEF IInv, Types
    <3>2. \A d \in obj'[subs].clients \ (gone' \cup crossed') :
              /\ d \in obj[subs].clients \ (gone \cup crossed)
              /\ cl'[d] = cl[d] /\ told'[d] = told[d]
      BY <1>1, <1>2, <3>1
    <3> QED BY <1>1, <2>2, <3>2, FewerFollowers
  <2> QED BY <2>1, <2>2
<1> QED BY <1>3, <1>4, <1>5, <1>6 DEF IInv

(* There is a free object whenever the limit of subscriptions allows one.     *)
LEMMA FreeObject ==
    ASSUME Types, Cardinality(Live) < maxSubs
    PROVE  \E o \in Objects : o \notin Live
<1>1. Live \subseteq Objects
  BY DEF Types, Notifiers, Requests, Live, Referenced
<1>2. Cardinality(Objects) = maxSubs
  BY SubsConstants, FS_Interval DEF Objects
<1>3. Live # Objects
  BY <1>2, SubsConstants
<1> QED BY <1>1, <1>3

(* A request takes the subscription in the table, or makes one. *)
LEMMA GetOrMakeIsGood ==
    ASSUME IInv, NEW c \in Clients, NEW weak \in BOOLEAN, getOrMakeSubRef(c, weak)
    PROVE  IInv'
<1> DEFINE o == IF subs # None THEN subs ELSE CHOOSE x \in Objects : x \notin Live
           req == [pc |-> "attach", sub |-> o, weak |-> weak, status |-> None]
<1>1. /\ cl[c].pc = "idle" /\ Now' = Now /\ subs' = o
      /\ obj' = IF subs # None THEN obj ELSE [obj EXCEPT ![o] = NewSubscription]
      /\ cl' = [cl EXCEPT ![c] = req]
      /\ UNCHANGED <<hist, affected, pending, armings, timer, nt, gone, told, crossed, taken>>
  BY DEF getOrMakeSubRef, Now
<1>2. o \in Objects
  <2>1. \E x \in Objects : x \notin Live
    BY FreeObject DEF IInv, getOrMakeSubRef
  <2> QED BY <2>1 DEF IInv, Types
<1> HIDE DEF o
<1>3. req \in Requests /\ req.pc = "attach" /\ req.sub = o /\ req.status = None
      /\ req.weak = weak
  BY <1>2 DEF Requests, None
<1> HIDE DEF req
<1>4. /\ obj \in [Objects -> Subscriptions] /\ cl \in [Clients -> Requests] /\ Now \in Nat
      /\ o # None
  BY <1>2, NoneIsNoObject DEF IInv, Types
<1>5. /\ obj' \in [Objects -> Subscriptions] /\ cl' \in [Clients -> Requests] /\ cl'[c] = req
      /\ \A x \in Objects : obj'[x] \in {obj[x], NewSubscription}
      /\ \A d \in Clients \ {c} : cl'[d] = cl[d]
  BY <1>1, <1>2, <1>3, <1>4, NewFacts
<1>6. Types'
  BY <1>1, <1>2, <1>5 DEF IInv, Types
<1>7. NoneOfTheFuture'
  <2>1. \A x \in Objects : obj'[x].lastStatusNotified <= Now /\ obj'[x].cachedStatus <= Now
    BY <1>4, <1>5, NewFacts DEF IInv, NoneOfTheFuture, None
  <2>2. \A d \in Clients : cl'[d].status <= Now
    BY <1>3, <1>4, <1>5 DEF IInv, NoneOfTheFuture, None
  <2> QED BY <1>1, <2>1, <2>2 DEF IInv, NoneOfTheFuture
<1>8. ChangesAreKept' /\ Armed'
  BY <1>1 DEF IInv, ChangesAreKept, Armed
<1>9. CASE subs # None
  <2>1. subs' = subs /\ obj' = obj /\ req.sub = subs
    BY <1>1, <1>3, <1>9 DEF o
  <2>2. NotifierHoldsTable'
    BY <1>1, <2>1 DEF IInv, NotifierHoldsTable, Notifying
  <2>3. RequestsAreKept'
    <3>1. weak => c \notin obj[subs].clients
      BY <1>9 DEF getOrMakeSubRef, Live, Referenced
    <3> QED BY <1>3, <1>4, <1>5, <2>1, <3>1 DEF IInv, RequestsAreKept
  <2>4. CacheFollows'
    BY <1>1, <2>1 DEF IInv, CacheFollows, Notifying
  <2>5. ClientsFollow'
    <3>1. Notifying' <=> Notifying
      BY <1>1 DEF Notifying
    <3>2. \A d \in obj[subs].clients : d \in Clients
      BY <1>9, SubFacts DEF IInv, Types
    <3>3. \A d \in Clients : Notified(d) => Notified(d)'
      BY <1>1, <1>3, <1>5, <2>1 DEF Notified, Computing
    <3>4. \A d \in Clients : UpToDate(d) => UpToDate(d)'
      BY <1>1, <1>3, <1>5, <2>1 DEF UpToDate, Computing
    <3> QED BY <1>1, <2>1, <3>1, <3>2, <3>3, <3>4 DEF IInv, ClientsFollow
  <2> QED BY <1>6, <1>7, <1>8, <2>2, <2>3, <2>4, <2>5 DEF IInv
<1>10. CASE subs = None
  <2>1. obj'[subs'] = NewSubscription
    BY <1>1, <1>2, <1>4, <1>10
  <2>2. NotifierHoldsTable'
    BY <1>1, <1>10 DEF IInv, NotifierHoldsTable, Notifying
  <2>3. RequestsAreKept'
    BY <1>3, <1>4, <1>5, <2>1, NewFacts DEF IInv, RequestsAreKept
  <2>4. CacheFollows' /\ ClientsFollow'
    BY <2>1, NewFacts DEF CacheFollows, ClientsFollow
  <2> QED BY <1>6, <1>7, <1>8, <2>2, <2>3, <2>4 DEF IInv
<1> QED BY <1>9, <1>10

(* A pool thread finds the present status, which has everything the notifier  *)
(* took.                                                                     *)
LEMMA JobGetsStatusIsGood ==
    ASSUME IInv, NEW c \in Clients, JobGetsStatus(c)
    PROVE  IInv'
<1>1. /\ cl[c].pc = "status" /\ Now' = Now
      /\ UNCHANGED <<hist, affected, pending, armings, timer, subs, obj, nt, gone, told, crossed,
                     taken>>
  BY DEF JobGetsStatus, Now
<1>2. cl \in [Clients -> Requests] /\ Now \in Nat \ {0}
  BY DEF IInv, Types
<1>3. PICK req \in Requests :
          /\ cl' = [cl EXCEPT ![c] = req] /\ req.sub = None
          /\ IF c \in gone THEN req.pc = "idle" /\ req.status = None
                           ELSE req.pc = "cache" /\ req.status = Now
          /\ req.weak => cl[c].weak
  <2>1. CASE c \in gone
    <3>1. cl' = [cl EXCEPT ![c] = NoRequest]
      BY <2>1 DEF JobGetsStatus
    <3> QED BY <2>1, <3>1, IdleFacts
  <2>2. CASE c \notin gone
    <3>1. PICK x \in Requests : x = cl[c]
      BY <1>2
    <3> DEFINE y == [x EXCEPT !.pc = "cache", !.status = Now]
    <3>2. cl' = [cl EXCEPT ![c] = y]
      BY <2>2, <3>1 DEF JobGetsStatus
    <3>3. y \in Requests /\ y.sub = x.sub /\ y.pc = "cache" /\ y.status = Now /\ y.weak = x.weak
      BY <1>2 DEF Requests
    <3>4. x.sub = None
      BY <1>1, <3>1 DEF IInv, RequestsAreKept
    <3> HIDE DEF y
    <3> QED BY <2>2, <3>1, <3>2, <3>3, <3>4
  <2> QED BY <2>1, <2>2
<1>4. /\ cl' \in [Clients -> Requests] /\ cl'[c] = req
      /\ \A d \in Clients \ {c} : cl'[d] = cl[d]
  BY <1>2, <1>3
<1>5. Types'
  BY <1>1, <1>4 DEF IInv, Types
<1>6. NoneOfTheFuture'
  <2>1. \A d \in Clients : cl'[d].status <= Now
    BY <1>2, <1>3, <1>4 DEF IInv, NoneOfTheFuture, None
  <2> QED BY <1>1, <2>1 DEF IInv, NoneOfTheFuture
<1>7. ChangesAreKept' /\ Armed' /\ NotifierHoldsTable'
  BY <1>1 DEF IInv, ChangesAreKept, Armed, NotifierHoldsTable, Notifying
<1>8. RequestsAreKept'
  <2>1. Now # None
    BY <1>2 DEF None
  <2> QED BY <1>1, <1>3, <1>4, <2>1 DEF IInv, RequestsAreKept
<1>9. CASE subs = None
  BY <1>1, <1>5, <1>6, <1>7, <1>8, <1>9 DEF IInv, CacheFollows, ClientsFollow
<1>10. CASE subs # None
  <2>1. obj[subs].clients \subseteq Clients
    BY <1>10, SubFacts DEF IInv, Types
  <2>2. CASE c \in gone' \cup crossed' \/ c \notin obj[subs].clients
    <3>1. \A d \in obj'[subs].clients \ (gone' \cup crossed') :
              /\ d \in obj[subs].clients \ (gone \cup crossed)
              /\ cl'[d] = cl[d] /\ told'[d] = told[d]
      BY <1>1, <1>4, <2>1, <2>2
    <3>2. CacheFollows' /\ ClientsFollow'
      BY <1>1, <1>10, <3>1, FewerFollowers
    <3> QED BY <1>5, <1>6, <1>7, <1>8, <3>2 DEF IInv
  <2>3. CASE c \notin gone' \cup crossed' /\ c \in obj[subs].clients
    <3>1. obj[subs].lastStatusNotified = None
      BY <1>1, <1>10, <2>3 DEF IInv, ClientsFollow, Notified, Computing
    <3>2. CacheFollows'
      BY <1>1 DEF IInv, CacheFollows, Notifying
    <3>3. UpToDate(c)'
      <4>1. cl'[c].pc = "cache" /\ cl'[c].status = Now
        BY <1>1, <1>3, <1>4, <2>3
      <4>2. Now >= taken.done
        BY <1>2 DEF IInv, ChangesAreKept, Types
      <4> QED BY <1>1, <4>1, <4>2 DEF UpToDate, Computing
    <3>4. \A d \in Clients \ {c} : UpToDate(d) => UpToDate(d)'
      BY <1>1, <1>4 DEF UpToDate, Computing
    <3>5. ClientsFollow'
      BY <1>1, <2>1, <3>1, <3>3, <3>4 DEF IInv, ClientsFollow, Notifying
    <3> QED BY <1>5, <1>6, <1>7, <1>8, <3>2, <3>5 DEF IInv
  <2> QED BY <2>2, <2>3
<1> QED BY <1>9, <1>10

(* A request joins its subscription, and is answered from the cache if it     *)
(* can be.                                                                   *)
LEMMA SubscribeIsGood ==
    ASSUME IInv, NEW c \in Clients, subscribe(c)
    PROVE  IInv'
<1> DEFINE o == cl[c].sub
           isNew == ~ cl[c].weak /\ c \notin obj[o].clients
           cached == obj[o].cachedStatus
           sent == ~ cl[c].weak /\ cached # None
<1>1. /\ cl[c].pc = "attach" /\ Now' = Now
      /\ UNCHANGED <<hist, affected, pending, armings, timer, subs, nt, gone, taken>>
  BY DEF subscribe, Now
<1>2. /\ cl \in [Clients -> Requests] /\ obj \in [Objects -> Subscriptions] /\ Now \in Nat
      /\ told \in [Clients -> Messages] /\ o \in Objects
  BY <1>1 DEF IInv, Types, Requests, RequestsAreKept
<1>3. cached \in Nat /\ cached <= Now /\ cl[c].weak \in BOOLEAN
  BY <1>2, SubFacts, ClientFacts DEF IInv, NoneOfTheFuture
<1>4. cached # None => cached \in 1 .. Now /\ hist[cached] \in Messages
  <2>1. cached # None => cached \in 1 .. Now
    BY <1>2, <1>3 DEF None
  <2> QED BY <2>1, VersionFacts DEF IInv
<1>5. PICK req \in Requests :
          /\ cl' = [cl EXCEPT ![c] = req] /\ req.sub = None /\ req.status = None
          /\ req.pc = IF cached # None THEN "idle" ELSE "status"
          /\ req.weak => cl[c].weak
  <2>1. CASE cached # None
    <3>1. cl' = [cl EXCEPT ![c] = NoRequest]
      BY <2>1 DEF subscribe
    <3> QED BY <2>1, <3>1, IdleFacts
  <2>2. CASE cached = None
    <3>1. PICK x \in Requests : x = cl[c]
      BY <1>2
    <3> DEFINE y == [x EXCEPT !.pc = "status", !.sub = None]
    <3>2. cl' = [cl EXCEPT ![c] = y]
      BY <2>2, <3>1 DEF subscribe
    <3>3. y \in Requests /\ y.sub = None /\ y.pc = "status" /\ y.status = x.status
          /\ y.weak = x.weak
      BY DEF Requests
    <3>4. x.status = None
      BY <1>1, <3>1 DEF IInv, RequestsAreKept
    <3> HIDE DEF y
    <3> QED BY <2>2, <3>1, <3>2, <3>3, <3>4
  <2> QED BY <2>1, <2>2
<1>6. PICK objs \in [Objects -> Subscriptions] :
          /\ obj' = Kept(objs, Referenced(subs, nt.sub, cl'))
          /\ \A x \in Objects \ {o} : objs[x] = obj[x]
          /\ objs[o].clients = IF isNew THEN obj[o].clients \cup {c} ELSE obj[o].clients
          /\ objs[o].lastStatusNotified = obj[o].lastStatusNotified
          /\ objs[o].cachedStatus = cached /\ objs[o].overtaken = obj[o].overtaken
  <2>1. CASE isNew
    <3>1. PICK x \in Subscriptions, cs \in SUBSET Clients :
              x = obj[o] /\ cs = obj[o].clients \cup {c}
      BY <1>2, SubFacts DEF IInv
    <3> DEFINE y == [x EXCEPT !.clients = cs]
               new == [obj EXCEPT ![o] = y]
    <3>2. obj' = Kept(new, Referenced(subs, nt.sub, cl'))
      BY <2>1, <3>1 DEF subscribe
    <3>3. y \in Subscriptions /\ y.clients = cs
          /\ y.lastStatusNotified = x.lastStatusNotified
          /\ y.cachedStatus = x.cachedStatus /\ y.overtaken = x.overtaken
      BY DEF Subscriptions
    <3> HIDE DEF y
    <3>4. new \in [Objects -> Subscriptions] /\ new[o] = y
          /\ \A x1 \in Objects \ {o} : new[x1] = obj[x1]
      BY <1>2, <3>3
    <3> HIDE DEF new
    <3> QED BY <2>1, <3>1, <3>2, <3>3, <3>4
  <2>2. CASE ~ isNew
    BY <1>2, <2>2 DEF subscribe
  <2> QED BY <2>1, <2>2
<1>7. /\ told' \in [Clients -> Messages] /\ \A d \in Clients \ {c} : told'[d] = told[d]
      /\ crossed' \subseteq crossed \cup {c} /\ crossed \subseteq crossed' \cup {c}
      /\ told'[c] \in {told[c], IF sent THEN hist[cached] ELSE told[c]}
      /\ isNew /\ sent => told'[c] = hist[cached] \/ c \in crossed'
      /\ ~ isNew => crossed' = crossed
  <2>1. CASE /\ told' = IF sent THEN [told EXCEPT ![c] = hist[cached]] ELSE told
             /\ crossed' = IF isNew THEN crossed \ {c} ELSE crossed
    <3>1. CASE sent
      BY <1>2, <1>4, <2>1, <3>1
    <3>2. CASE ~ sent
      BY <1>2, <2>1, <3>2
    <3> QED BY <3>1, <3>2
  <2>2. CASE /\ sent /\ (isNew \/ told[c] # None) /\ told' = told
             /\ crossed' = IF isNew THEN crossed \cup {c} ELSE crossed
    BY <1>2, <2>2
  <2> QED BY <2>1, <2>2 DEF subscribe
<1> HIDE DEF sent
<1>8. /\ cl' \in [Clients -> Requests] /\ cl'[c] = req
      /\ \A d \in Clients \ {c} : cl'[d] = cl[d]
  BY <1>2, <1>5
<1>9. /\ obj' \in [Objects -> Subscriptions]
      /\ \A x \in Objects : obj'[x] \in {objs[x], NewSubscription}
      /\ subs \in Objects => obj'[subs] = objs[subs]
  BY <1>6, KeptFacts, TableIsKept
<1>10. Types'
  BY <1>1, <1>7, <1>8, <1>9 DEF IInv, Types
<1>11. NoneOfTheFuture'
  <2>1. \A x \in Objects : objs[x].lastStatusNotified <= Now /\ objs[x].cachedStatus <= Now
    BY <1>2, <1>6 DEF IInv, NoneOfTheFuture
  <2>2. \A x \in Objects : obj'[x].lastStatusNotified <= Now /\ obj'[x].cachedStatus <= Now
    BY <1>2, <1>9, <2>1, NewFacts DEF None
  <2>3. \A d \in Clients : cl'[d].status <= Now
    BY <1>2, <1>5, <1>8 DEF IInv, NoneOfTheFuture, None
  <2> QED BY <1>1, <2>2, <2>3 DEF IInv, NoneOfTheFuture
<1>12. ChangesAreKept' /\ Armed' /\ NotifierHoldsTable'
  BY <1>1 DEF IInv, ChangesAreKept, Armed, NotifierHoldsTable, Notifying
<1>13. RequestsAreKept'
  <2>1. ASSUME NEW d \in Clients \ {c}, subs # None, cl[d].pc = "attach", cl[d].sub # subs
        PROVE  d \notin obj'[subs].clients
    <3>1. d \notin obj[subs].clients /\ subs \in Objects
      BY <2>1 DEF IInv, RequestsAreKept, Types
    <3> QED BY <1>6, <1>9, <3>1
  <2>2. /\ cl'[c].sub = None /\ cl'[c].status = None /\ cl'[c].pc \in {"idle", "status"}
        /\ cl'[c].weak => cl[c].weak
    BY <1>5, <1>8
  <2>3. ASSUME NEW d \in Clients, subs # None, cl'[d].weak
        PROVE  d \notin obj'[subs].clients
    <3>1. d \notin obj[subs].clients /\ subs \in Objects /\ (d = c => ~ isNew)
      BY <1>8, <2>2, <2>3 DEF IInv, RequestsAreKept, Types
    <3> QED BY <1>6, <1>9, <3>1
  <2> QED BY <1>1, <1>8, <2>1, <2>2, <2>3 DEF IInv, RequestsAreKept
<1>14. CASE subs = None
  BY <1>1, <1>10, <1>11, <1>12, <1>13, <1>14 DEF IInv, CacheFollows, ClientsFollow
<1>15. CASE subs # None /\ o # subs
  <2>1. /\ subs \in Objects /\ obj'[subs] = obj[subs] /\ c \notin obj[subs].clients
        /\ obj[subs].clients \subseteq Clients
    BY <1>1, <1>6, <1>9, <1>15, SubFacts DEF IInv, Types, RequestsAreKept
  <2>2. \A d \in obj'[subs].clients \ (gone' \cup crossed') :
            /\ d \in obj[subs].clients \ (gone \cup crossed)
            /\ cl'[d] = cl[d] /\ told'[d] = told[d]
    BY <1>1, <1>7, <1>8, <2>1
  <2>3. CacheFollows' /\ ClientsFollow'
    BY <1>1, <1>15, <2>1, <2>2, FewerFollowers
  <2> QED BY <1>10, <1>11, <1>12, <1>13, <2>3 DEF IInv
<1>16. CASE subs # None /\ o = subs
  <2>1. /\ obj'[subs].clients = IF isNew THEN obj[subs].clients \cup {c} ELSE obj[subs].clients
        /\ obj'[subs].lastStatusNotified = obj[subs].lastStatusNotified
        /\ obj'[subs].cachedStatus = obj[subs].cachedStatus /\ cached = obj[subs].cachedStatus
        /\ obj'[subs].overtaken = obj[subs].overtaken
        /\ (Notifying' <=> Notifying)
        /\ obj[subs].clients \subseteq Clients
    BY <1>1, <1>2, <1>6, <1>9, <1>16, SubFacts DEF Notifying, IInv
  <2>2. CacheFollows'
    BY <1>1, <2>1 DEF IInv, CacheFollows
  <2>3. \A d \in Clients \ {c} : Notified(d) => Notified(d)'
    BY <1>1, <1>7, <1>8, <2>1 DEF Notified, Computing
  <2>4. \A d \in Clients \ {c} : UpToDate(d) => UpToDate(d)'
    BY <1>1, <1>7, <1>8, <2>1 DEF UpToDate, Computing
  <2>5. ASSUME c \in obj'[subs].clients
        PROVE  ~ cl[c].weak /\ (c \notin gone \cup crossed' /\ ~ isNew =>
                                    c \in obj[subs].clients \ (gone \cup crossed))
    BY <1>7, <1>16, <2>1, <2>5 DEF IInv, RequestsAreKept
  <2>6. ASSUME c \in obj'[subs].clients \ (gone \cup crossed'),
               obj[subs].lastStatusNotified # None
        PROVE  Notified(c)'
    <3>1. cached = obj[subs].lastStatusNotified /\ cached # None
      BY <1>16, <2>1, <2>6 DEF IInv, CacheFollows
    <3>2. cl'[c].pc = "idle" /\ sent
      BY <1>5, <1>8, <2>5, <2>6, <3>1 DEF sent
    <3>3. told'[c] = hist[cached]
      <4>1. CASE isNew
        BY <1>7, <2>6, <3>2, <4>1
      <4>2. CASE ~ isNew
        <5>1. Notified(c)
          BY <1>16, <2>5, <2>6, <4>2 DEF IInv, ClientsFollow
        <5> QED BY <1>7, <3>1, <3>2, <5>1 DEF Notified
      <4> QED BY <4>1, <4>2
    <3> QED BY <1>1, <2>1, <3>1, <3>2, <3>3 DEF Notified, Computing
  <2>7. ASSUME c \in obj'[subs].clients \ (gone \cup crossed'),
               obj[subs].lastStatusNotified = None, ~ Notifying, ~ obj[subs].overtaken
        PROVE  UpToDate(c)'
    <3>1. CASE cached = None
      BY <1>5, <1>8, <3>1 DEF UpToDate, Computing
    <3>2. CASE cached # None
      <4>1. cached >= taken.done /\ cached \in 1 .. Now
        BY <1>4, <1>16, <2>1, <2>7, <3>2 DEF IInv, CacheFollows
      <4>2. cl'[c].pc = "idle" /\ sent
        BY <1>5, <1>8, <2>5, <2>7, <3>2 DEF sent
      <4>3. \E v \in 1 .. Now : v >= taken.done /\ told'[c] = hist[v]
        <5>1. CASE told'[c] = hist[cached]
          BY <4>1, <5>1
        <5>2. CASE told'[c] # hist[cached]
          <6>1. told'[c] = told[c] /\ ~ isNew
            BY <1>7, <2>7, <4>2, <5>2
          <6>2. UpToDate(c) /\ ~ Computing(c)
            BY <1>1, <1>16, <2>5, <2>7, <6>1 DEF IInv, ClientsFollow, Computing
          <6> QED BY <6>1, <6>2 DEF UpToDate
        <5> QED BY <5>1, <5>2
      <4> QED BY <1>1, <4>2, <4>3 DEF UpToDate, Computing
    <3> QED BY <3>1, <3>2
  <2>8. ClientsFollow'
    <3> SUFFICES ASSUME NEW d \in obj'[subs].clients \ (gone \cup crossed')
                 PROVE  /\ obj[subs].lastStatusNotified # None => Notified(d)'
                        /\ obj[subs].lastStatusNotified = None /\ ~ Notifying
                           /\ ~ obj[subs].overtaken => UpToDate(d)'
      BY <1>1, <2>1 DEF ClientsFollow
    <3>1. CASE d = c
      BY <2>6, <2>7, <3>1
    <3>2. CASE d # c
      <4>1. d \in obj[subs].clients \ (gone \cup crossed) /\ d \in Clients \ {c}
        BY <1>7, <2>1, <3>2
      <4> QED BY <1>16, <2>3, <2>4, <4>1 DEF IInv, ClientsFollow
    <3> QED BY <3>1, <3>2
  <2> QED BY <1>10, <1>11, <1>12, <1>13, <2>2, <2>8 DEF IInv
<1> QED BY <1>14, <1>15, <1>16

(* A job stores the status it found; the answer to the client is next. *)
LEMMA MaybeCacheIsGood ==
    ASSUME IInv, NEW c \in Clients, maybeCacheStatusResult(c)
    PROVE  IInv'
<1> DEFINE stores == subs # None /\ obj[subs].lastStatusNotified = None
                     /\ obj[subs].cachedStatus = None
<1>1. /\ cl[c].pc = "cache" /\ Now' = Now
      /\ UNCHANGED <<hist, affected, pending, armings, timer, subs, nt, gone, told, crossed, taken>>
  BY DEF maybeCacheStatusResult, Now
<1>2. /\ cl \in [Clients -> Requests] /\ obj \in [Objects -> Subscriptions] /\ Now \in Nat
      /\ taken.done \in Nat
      /\ cl[c].status \in Nat /\ cl[c].status # None /\ cl[c].status <= Now
  BY <1>1, ClientFacts DEF IInv, Types, RequestsAreKept, NoneOfTheFuture
<1>3. PICK s \in Nat : s = cl[c].status
  BY <1>2
<1>4. PICK late \in BOOLEAN : late <=> s < taken.done
  OBVIOUS
<1>5. /\ obj' \in [Objects -> Subscriptions]
      /\ \A x \in Objects : x # subs \/ ~ stores => obj'[x] = obj[x]
      /\ stores => /\ obj'[subs].clients = obj[subs].clients
                   /\ obj'[subs].lastStatusNotified = None
                   /\ obj'[subs].cachedStatus = s /\ (obj'[subs].overtaken <=> late)
  <2>1. CASE stores
    <3>1. subs \in Objects
      BY <2>1 DEF IInv, Types
    <3>2. PICK x \in Subscriptions : x = obj[subs]
      BY <1>2, <3>1
    <3> DEFINE y == [x EXCEPT !.cachedStatus = s, !.overtaken = late]
    <3>3. y \in Subscriptions /\ y.clients = x.clients
          /\ y.lastStatusNotified = x.lastStatusNotified /\ y.cachedStatus = s /\ y.overtaken = late
      BY DEF Subscriptions
    <3>4. obj' = [obj EXCEPT ![subs] = y]
      <4>1. obj' = [obj EXCEPT ![subs].cachedStatus = s, ![subs].overtaken = (s < taken.done)]
        BY <1>3, <2>1 DEF maybeCacheStatusResult
      <4>2. late = (s < taken.done)
        BY <1>4
      <4> QED BY <3>2, <4>1, <4>2
    <3> HIDE DEF y
    <3> QED BY <1>2, <2>1, <3>1, <3>2, <3>3, <3>4
  <2>2. CASE ~ stores
    BY <1>2, <2>2 DEF maybeCacheStatusResult
  <2> QED BY <2>1, <2>2
<1>6. PICK req \in Requests :
          /\ cl' = [cl EXCEPT ![c] = req] /\ req.sub = None /\ (req.weak => cl[c].weak)
          /\ IF cl[c].weak \/ c \in gone THEN req.pc = "idle" /\ req.status = None
                                          ELSE req.pc = "answer" /\ req.status = s
  <2>1. CASE cl[c].weak \/ c \in gone
    <3>1. cl' = [cl EXCEPT ![c] = NoRequest]
      BY <2>1 DEF maybeCacheStatusResult
    <3> QED BY <2>1, <3>1, IdleFacts
  <2>2. CASE ~ (cl[c].weak \/ c \in gone)
    <3>1. PICK x \in Requests : x = cl[c]
      BY <1>2
    <3> DEFINE y == [x EXCEPT !.pc = "answer"]
    <3>2. cl' = [cl EXCEPT ![c] = y]
      BY <2>2, <3>1 DEF maybeCacheStatusResult
    <3>3. y \in Requests /\ y.sub = x.sub /\ y.pc = "answer" /\ y.status = x.status
          /\ y.weak = x.weak
      BY DEF Requests
    <3>4. x.sub = None
      BY <1>1, <3>1 DEF IInv, RequestsAreKept
    <3> HIDE DEF y
    <3> QED BY <1>3, <2>2, <3>1, <3>2, <3>3, <3>4
  <2> QED BY <2>1, <2>2
<1>7. /\ cl' \in [Clients -> Requests] /\ cl'[c] = req
      /\ \A d \in Clients \ {c} : cl'[d] = cl[d]
  BY <1>2, <1>6
<1>8. Types'
  BY <1>1, <1>5, <1>7 DEF IInv, Types
<1>9. NoneOfTheFuture'
  <2>1. \A x \in Objects : obj'[x].lastStatusNotified <= Now /\ obj'[x].cachedStatus <= Now
    BY <1>2, <1>3, <1>5 DEF IInv, NoneOfTheFuture, None
  <2>2. \A d \in Clients : cl'[d].status <= Now
    BY <1>2, <1>3, <1>6, <1>7 DEF IInv, NoneOfTheFuture, None
  <2> QED BY <1>1, <2>1, <2>2 DEF IInv, NoneOfTheFuture
<1>10. ChangesAreKept' /\ Armed' /\ NotifierHoldsTable'
  BY <1>1 DEF IInv, ChangesAreKept, Armed, NotifierHoldsTable, Notifying
<1>11. subs # None => subs \in Objects /\ obj'[subs].clients = obj[subs].clients
                      /\ obj'[subs].lastStatusNotified = obj[subs].lastStatusNotified
                      /\ obj[subs].clients \subseteq Clients
  <2>1. subs # None => subs \in Objects
    BY DEF IInv, Types
  <2> QED BY <1>5, <2>1, SubFacts DEF IInv
<1>12. RequestsAreKept'
  BY <1>1, <1>2, <1>3, <1>6, <1>7, <1>11 DEF IInv, RequestsAreKept
<1>13. CASE subs = None
  BY <1>1, <1>8, <1>9, <1>10, <1>12, <1>13 DEF IInv, CacheFollows, ClientsFollow
<1>14. CASE subs # None
  <2>1. Notifying' <=> Notifying
    BY <1>1 DEF Notifying
  <2>2. CacheFollows'
    <3>1. CASE stores
      BY <1>1, <1>2, <1>3, <1>4, <1>5, <3>1 DEF CacheFollows
    <3>2. CASE ~ stores
      BY <1>1, <1>5, <1>11, <2>1, <3>2 DEF IInv, CacheFollows
    <3> QED BY <3>1, <3>2
  <2>3. ~ obj'[subs].overtaken => ~ obj[subs].overtaken
    BY <1>5, <1>11, <1>14 DEF IInv, CacheFollows
  <2>4. \A d \in Clients \ {c} : Notified(d) => Notified(d)'
    BY <1>1, <1>7, <1>11, <1>14 DEF Notified, Computing
  <2>5. \A d \in Clients \ {c} : UpToDate(d) => UpToDate(d)'
    BY <1>1, <1>7 DEF UpToDate, Computing
  <2>6. ~ Notified(c)
    BY <1>1 DEF Notified, Computing
  <2>7. ASSUME c \in obj[subs].clients \ (gone \cup crossed), UpToDate(c)
        PROVE  UpToDate(c)'
    <3>1. s >= taken.done
      BY <1>1, <1>3, <2>7 DEF UpToDate
    <3>2. ~ cl[c].weak
      BY <1>14, <2>7 DEF IInv, RequestsAreKept
    <3>3. cl'[c].pc = "answer" /\ cl'[c].status = s
      BY <1>6, <1>7, <2>7, <3>2
    <3> QED BY <1>1, <3>1, <3>3 DEF UpToDate, Computing
  <2>8. ClientsFollow'
    <3> SUFFICES ASSUME NEW d \in obj[subs].clients \ (gone \cup crossed)
                 PROVE  /\ obj[subs].lastStatusNotified # None => Notified(d)'
                        /\ obj[subs].lastStatusNotified = None /\ ~ Notifying
                           /\ ~ obj'[subs].overtaken => UpToDate(d)'
      BY <1>1, <1>11, <2>1 DEF ClientsFollow
    <3>1. d \in Clients
      BY <1>11, <1>14
    <3>2. /\ obj[subs].lastStatusNotified # None => Notified(d)
          /\ obj[subs].lastStatusNotified = None /\ ~ Notifying
             /\ ~ obj'[subs].overtaken => UpToDate(d)
      BY <1>14, <2>3 DEF IInv, ClientsFollow
    <3>3. CASE d = c
      BY <2>6, <2>7, <3>2, <3>3
    <3>4. CASE d # c
      BY <2>4, <2>5, <3>1, <3>2, <3>4
    <3> QED BY <3>3, <3>4
  <2> QED BY <1>8, <1>9, <1>10, <1>12, <2>2, <2>8 DEF IInv
<1> QED BY <1>13, <1>14

(* The answer to a client is the last message to it: had it been notified    *)
(* since it asked, its messages would have crossed.                          *)
LEMMA JobAnswersIsGood ==
    ASSUME IInv, NEW c \in Clients, JobAnswers(c)
    PROVE  IInv'
<1>1. /\ cl[c].pc = "answer" /\ Now' = Now /\ cl' = [cl EXCEPT ![c] = NoRequest]
      /\ told' = IF c \in gone THEN told ELSE [told EXCEPT ![c] = hist[cl[c].status]]
      /\ UNCHANGED <<hist, affected, pending, armings, timer, subs, obj, nt, gone, crossed, taken>>
  BY DEF JobAnswers, Now
<1>2. /\ cl \in [Clients -> Requests] /\ told \in [Clients -> Messages] /\ Now \in Nat
      /\ cl[c].status \in 1 .. Now
  BY <1>1, ClientFacts DEF IInv, Types, RequestsAreKept, NoneOfTheFuture, None
<1>3. hist[cl[c].status] \in Messages
  BY <1>2, VersionFacts DEF IInv
<1>4. /\ cl' \in [Clients -> Requests] /\ cl'[c] = NoRequest
      /\ told' \in [Clients -> Messages]
      /\ c \notin gone => told'[c] = hist[cl[c].status]
      /\ \A d \in Clients \ {c} : cl'[d] = cl[d] /\ told'[d] = told[d]
  BY <1>1, <1>2, <1>3, IdleFacts
<1>5. Types'
  BY <1>1, <1>4 DEF IInv, Types
<1>6. NoneOfTheFuture'
  <2>1. \A d \in Clients : cl'[d].status <= Now
    BY <1>2, <1>4, IdleFacts DEF IInv, NoneOfTheFuture, None
  <2> QED BY <1>1, <2>1 DEF IInv, NoneOfTheFuture
<1>7. ChangesAreKept' /\ Armed' /\ NotifierHoldsTable' /\ CacheFollows'
  BY <1>1 DEF IInv, ChangesAreKept, Armed, NotifierHoldsTable, CacheFollows, Notifying
<1>8. RequestsAreKept'
  BY <1>1, <1>4, IdleFacts DEF IInv, RequestsAreKept
<1>9. ClientsFollow'
  <2> SUFFICES ASSUME subs # None, NEW d \in obj[subs].clients \ (gone \cup crossed)
               PROVE  /\ obj[subs].lastStatusNotified # None => Notified(d)'
                      /\ obj[subs].lastStatusNotified = None /\ ~ Notifying
                         /\ ~ obj[subs].overtaken => UpToDate(d)'
    BY <1>1 DEF ClientsFollow, Notifying
  <2>1. d \in Clients
    BY SubFacts DEF IInv, Types
  <2>2. /\ obj[subs].lastStatusNotified # None => Notified(d)
        /\ obj[subs].lastStatusNotified = None /\ ~ Notifying
           /\ ~ obj[subs].overtaken => UpToDate(d)
    BY DEF IInv, ClientsFollow
  <2>3. CASE d # c
    BY <1>1, <1>4, <2>1, <2>2, <2>3 DEF Notified, UpToDate, Computing
  <2>4. CASE d = c
    <3>1. obj[subs].lastStatusNotified = None
      BY <1>1, <2>2, <2>4 DEF Notified, Computing
    <3>2. ASSUME UpToDate(c) PROVE UpToDate(c)'
      <4>1. cl[c].status >= taken.done /\ told'[c] = hist[cl[c].status]
        BY <1>1, <1>4, <2>4, <3>2 DEF UpToDate
      <4>2. \E v \in 1 .. Now : v >= taken.done /\ told'[c] = hist[v]
        BY <1>2, <4>1
      <4> QED BY <1>1, <1>4, <4>2, IdleFacts DEF UpToDate, Computing
    <3> QED BY <2>2, <2>4, <3>1, <3>2
  <2> QED BY <2>3, <2>4
<1> QED BY <1>5, <1>6, <1>7, <1>8, <1>9 DEF IInv

-----------------------------------------------------------------------------
(* The theorems *)

(* Every step of the manager, its clients and the jobs keeps IInv. *)
THEOREM Invariance == Spec => []IInv
<1>1. Init => IInv
  BY InitIsGood
<1>2. ASSUME IInv, [Next]_vars PROVE IInv'
  <2>1. CASE UNCHANGED vars
    BY <1>2, <2>1
       DEF vars, IInv, Types, NoneOfTheFuture, ChangesAreKept, Armed, Notifying, Now,
           NotifierHoldsTable, RequestsAreKept, CacheFollows, ClientsFollow, Notified, UpToDate,
           Computing
  <2>2. ASSUME NEW k \in Keys, HistoryChanges(k) PROVE IInv'
    BY <1>2, <2>2, HistoryChangesIsGood
  <2>3. CASE enqueueNotifications \/ StartTimer \/ removeZombies
    BY <1>2, <2>3, EnqueueIsGood, StartTimerIsGood, RemoveZombiesIsGood
  <2>4. CASE DoNotifyAllPending
    BY <1>2, <2>4, TakePendingIsGood, SkipIsGood, NotifierGetsStatusIsGood, NotifyIsGood,
       StopTimerIsGood DEF DoNotifyAllPending
  <2>5. ASSUME NEW c \in Clients,
               \/ ClientDestroyed(c) \/ \E weak \in BOOLEAN : getOrMakeSubRef(c, weak)
               \/ subscribe(c) \/ JobGetsStatus(c) \/ maybeCacheStatusResult(c)
               \/ JobAnswers(c) \/ unsubscribe(c) \/ Disconnect(c)
        PROVE  IInv'
    BY <1>2, <2>5, ClientDestroyedIsGood, GetOrMakeIsGood, SubscribeIsGood, JobGetsStatusIsGood,
       MaybeCacheIsGood, JobAnswersIsGood, UnsubscribeIsGood, DisconnectIsGood
  <2> QED BY <1>2, <2>1, <2>2, <2>3, <2>4, <2>5 DEF Next
<1> QED BY <1>1, <1>2, PTL DEF Spec

(* The variables keep their types; above all there is never a second signal  *)
(* under way to the manager's thread.                                        *)
THEOREM TypeCorrect == Spec => []SubsTypeOK
<1>1. IInv => SubsTypeOK
  <2> SUFFICES ASSUME IInv PROVE SubsTypeOK
    OBVIOUS
  <2>1. /\ hist \in Seq(Statuses) /\ affected \subseteq Keys /\ pending \subseteq Keys
        /\ armings \in 0 .. 1 /\ timer \in BOOLEAN /\ subs \in Objects \cup {None} /\ Now \in Nat
    BY DEF IInv, Types
  <2>2. \A o \in Objects :
            /\ obj[o].clients \subseteq Clients /\ obj[o].overtaken \in BOOLEAN
            /\ {obj[o].lastStatusNotified, obj[o].cachedStatus} \subseteq 0 .. Now
    BY <2>1, SubFacts DEF IInv, NoneOfTheFuture
  <2>3. /\ nt.pc \in {"idle", "clients", "status", "notify", "done"}
        /\ nt.sub \in Objects \cup {None} /\ nt.status \in 0 .. Now
    BY <2>1 DEF IInv, Types, Notifiers, NoneOfTheFuture
  <2>4. \A c \in Clients :
            /\ cl[c].pc \in {"idle", "attach", "status", "cache", "answer"}
            /\ told[c] \in Statuses \cup {None} /\ cl[c].status \in 0 .. Now
    BY <2>1, ClientFacts DEF IInv, NoneOfTheFuture, Messages
  <2> QED BY <2>1, <2>2, <2>3, <2>4 DEF SubsTypeOK
<1> QED BY <1>1, Invariance, PTL

(* No key is left in the queue without a timer or a signal that will take it. *)
THEOREM PendingIsTaken == Spec => []PendingWillBeTaken
<1>1. IInv => PendingWillBeTaken
  BY DEF IInv, Armed, Types, PendingWillBeTaken
<1> QED BY <1>1, Invariance, PTL

(* When nothing is due, the last message to a client is the present status. *)
THEOREM LastToldCorrect == Spec => []LastToldIsCurrent
<1>1. IInv => LastToldIsCurrent
  <2> SUFFICES ASSUME IInv, Quiet, subs # None, ~ obj[subs].overtaken,
                      NEW c \in obj[subs].clients \ (gone \cup crossed), cl[c].pc = "idle"
               PROVE  told[c] = hist[Now]
    BY DEF LastToldIsCurrent
  <2>1. subs \in Objects /\ c \in Clients /\ ~ Notifying /\ Now \in Nat \ {0}
    BY SubFacts DEF IInv, Types, Quiet, Notifying
  <2>2. taken.done = Now
    BY DEF IInv, ChangesAreKept, Quiet
  <2>3. obj[subs].lastStatusNotified \in Nat /\ obj[subs].lastStatusNotified <= Now
    BY <2>1, SubFacts DEF IInv, NoneOfTheFuture
  <2>4. CASE obj[subs].lastStatusNotified # None
    <3>1. obj[subs].lastStatusNotified >= taken.done
      BY <2>1, <2>4 DEF IInv, CacheFollows
    <3>2. obj[subs].lastStatusNotified = Now
      BY <2>1, <2>2, <2>3, <3>1
    <3> QED BY <2>4, <3>2 DEF IInv, ClientsFollow, Notified
  <2>5. CASE obj[subs].lastStatusNotified = None
    <3>1. PICK v \in 1 .. Now : v >= taken.done /\ told[c] = hist[v]
      BY <2>1, <2>5 DEF IInv, ClientsFollow, UpToDate, Computing
    <3>2. v = Now
      BY <2>1, <2>2, <3>1
    <3> QED BY <3>1, <3>2
  <2> QED BY <2>4, <2>5
<1> QED BY <1>1, Invariance, PTL
===================================================================================
