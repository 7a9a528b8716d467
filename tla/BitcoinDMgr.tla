---------------------------- MODULE BitcoinDMgr ----------------------------
(***************************************************************************)
(* The requests to bitcoind: BitcoinDMgr, its connections (BitcoinD) and   *)
(* the context object every request has (ReqCtxObj).  Four kinds of        *)
(* threads work on a request: its sender's, the manager's, the one of the  *)
(* connection that carries it, and bitcoind.  They only meet in the event  *)
(* queues of Qt, which are first-in first-out per thread, and in the       *)
(* status of a connection, which the manager reads while the connection's  *)
(* own thread changes it.                                                  *)
(*                                                                         *)
(* A request stands for its id: every caller takes it from newId, so the   *)
(* branch for an id that is in the table already cannot be reached.        *)
(***************************************************************************)
EXTENDS Naturals, Sequences, FiniteSets, SequencesExt

CONSTANTS
    BDs,                \* the BitcoinD connections
    Reqs,               \* the ids newId hands out, in their order
    Senders,            \* the objects requests are submitted for
    MaxLosses           \* bound on the connections that break by themselves

ASSUME BDAssumption == /\ Reqs \subseteq Nat /\ IsFiniteSet(Reqs)
                       /\ MaxLosses \in Nat

VARIABLES
    \* a connection, changed by its own thread
    connected,          \* the connections whose status is Connected
    hooked,             \* those whose on_connected ran, until `disconnected`
    needAuth,           \* those that wait for the first answer of a session
    sendQ,              \* the sendRequest events of its thread
    asked,              \* what was written to its socket and not answered
    losses,             \* how many connections broke
    \* the manager
    mgrQ,               \* the events of its thread
    goodSet,
    reqContextTable,    \* the ids in the table
    timedOut,           \* the contexts the timeout checker has failed
    bd,                 \* the connection of a context
    \* the contexts, and the event queue of every sender
    owner,              \* the sender of a request
    attached,           \* contexts connected to their sender: it keeps them
    replied,
    inbox

connVars == <<connected, hooked, needAuth, sendQ, asked, losses>>
ctxVars  == <<owner, attached, replied, inbox>>
bdVars   == <<connVars, mgrQ, goodSet, reqContextTable, timedOut, bd, ctxVars>>

None == "none"

Event(t, x) == [type |-> t, of |-> x]

BDTypeOK ==
    /\ connected \subseteq BDs /\ hooked \subseteq BDs /\ needAuth \subseteq BDs
    /\ sendQ \in [BDs -> Seq(Reqs)] /\ asked \in [BDs -> SUBSET Reqs]
    /\ losses \in 0 .. MaxLosses
    /\ \A i \in DOMAIN mgrQ :
           \/ mgrQ[i].type \in {"authenticated", "lost"} /\ mgrQ[i].of \in BDs
           \/ mgrQ[i].type \in {"submit", "message", "destroyed"} /\ mgrQ[i].of \in Reqs
    /\ goodSet \subseteq BDs
    /\ reqContextTable \subseteq Reqs /\ timedOut \subseteq Reqs
    /\ bd \in [Reqs -> BDs \cup {None}]
    /\ owner \in [Reqs -> Senders \cup {None}]
    /\ attached \subseteq Reqs /\ replied \subseteq Reqs

\* The servers are started after the first synch: the connections are good.
BDInit ==
    /\ connected = BDs /\ hooked = BDs /\ needAuth = {}
    /\ sendQ = [b \in BDs |-> <<>>] /\ asked = [b \in BDs |-> {}]
    /\ losses = 0
    /\ mgrQ = <<>> /\ goodSet = BDs
    /\ reqContextTable = {} /\ timedOut = {}
    /\ bd = [r \in Reqs |-> None]
    /\ owner = [r \in Reqs |-> None]
    /\ attached = {} /\ replied = {}
    /\ inbox = [s \in Senders |-> <<>>]

isGood(b) == b \in connected /\ b \notin needAuth

(***************************************************************************)
(* A context lives as long as a lambda that holds it: the connections to   *)
(* its sender, an event that is queued for the sender, or the lambda that  *)
(* submitRequest queued for the manager.  The weak reference in the table  *)
(* does not count.                                                         *)
(***************************************************************************)
Held(r, att, box, q) ==
    \/ r \in att
    \/ \E i \in DOMAIN box[owner[r]] : box[owner[r]][i].of = r
    \/ Contains(q, Event("submit", r))

Alive(r) == Held(r, attached, inbox, mgrQ)

(***************************************************************************)
(* The last lambda that held any of the requests rs is gone: deleteLater   *)
(* queues the destruction, whose `destroyed` handler is for the table.     *)
(***************************************************************************)
Release(rs, att, box, q) ==
    q \o SetToSeq({Event("destroyed", r) :
            r \in {x \in rs \cap reqContextTable : ~Held(x, att, box, q)}})

(***************************************************************************)
(* A signal of a context reaches its sender only while they are connected. *)
(***************************************************************************)
Emit(rs, signal) ==
    [s \in Senders |-> inbox[s] \o SetToSeq(
        {Event(signal, r) : r \in {x \in rs \cap attached : owner[x] = s}})]

-----------------------------------------------------------------------------
(* The thread of a connection *)

(***************************************************************************)
(* reconnect, on its timer: the socket is connected, and its status says   *)
(* so before on_connected runs.  needAuth is still that of the last        *)
(* session.                                                                *)
(***************************************************************************)
SocketConnects(b) ==
    /\ b \notin connected /\ b \notin hooked
    /\ connected' = connected \cup {b}
    /\ UNCHANGED <<hooked, needAuth, sendQ, asked, losses, mgrQ, goodSet,
                   reqContextTable, timedOut, bd, ctxVars>>

\* on_connected: the signals are connected, and a ping is sent.
OnConnected(b) ==
    /\ b \in connected /\ b \notin hooked
    /\ hooked' = hooked \cup {b}
    /\ needAuth' = needAuth \cup {b}
    /\ UNCHANGED <<connected, sendQ, asked, losses, mgrQ, goodSet,
                   reqContextTable, timedOut, bd, ctxVars>>

\* The first good message of a session, the answer to the ping as a rule.
Authenticates(b, q) ==
    IF b \in needAuth THEN Append(q, Event("authenticated", b)) ELSE q

PingAnswered(b) ==
    /\ b \in hooked \cap needAuth
    /\ needAuth' = needAuth \ {b}
    /\ mgrQ' = Authenticates(b, mgrQ)
    /\ UNCHANGED <<connected, hooked, sendQ, asked, losses, goodSet,
                   reqContextTable, timedOut, bd, ctxVars>>

(***************************************************************************)
(* The socket breaks, or the connection is stale and is dropped: the       *)
(* status changes, and the handler of `disconnected` runs, unless          *)
(* on_connected did not connect it yet.                                    *)
(***************************************************************************)
SocketLost(b) ==
    /\ b \in connected /\ losses < MaxLosses
    /\ losses' = losses + 1
    /\ connected' = connected \ {b}
    /\ hooked' = hooked \ {b}
    /\ asked' = [asked EXCEPT ![b] = {}]
    /\ mgrQ' = IF b \in hooked THEN Append(mgrQ, Event("lost", b)) ELSE mgrQ
    /\ UNCHANGED <<needAuth, sendQ, goodSet, reqContextTable, timedOut, bd, ctxVars>>

(***************************************************************************)
(* _sendRequest: on a connection that broke meanwhile the request is       *)
(* dropped, and nobody is told.  A socket that is connected again, but     *)
(* whose on_connected did not run yet, is not written to.  (Too many       *)
(* unanswered requests close the connection, which SocketLost may do at    *)
(* any time.)                                                              *)
(***************************************************************************)
SendRequest(b) ==
    /\ sendQ[b] # <<>>
    /\ sendQ' = [sendQ EXCEPT ![b] = Tail(@)]
    /\ asked' = IF b \in hooked THEN [asked EXCEPT ![b] = @ \cup {Head(sendQ[b])}]
                                ELSE asked
    /\ UNCHANGED <<connected, hooked, needAuth, losses, mgrQ, goodSet,
                   reqContextTable, timedOut, bd, ctxVars>>

(***************************************************************************)
(* bitcoind answers one of the requests, with a result or an error.  Both  *)
(* are forwarded to the manager; only a result authenticates.              *)
(***************************************************************************)
Answer(b, r) ==
    /\ b \in hooked /\ r \in asked[b]
    /\ asked' = [asked EXCEPT ![b] = @ \ {r}]
    /\ \E isResult \in BOOLEAN :
           /\ needAuth' = IF isResult THEN needAuth \ {b} ELSE needAuth
           /\ mgrQ' = Append(IF isResult THEN Authenticates(b, mgrQ) ELSE mgrQ,
                             Event("message", r))
    /\ UNCHANGED <<connected, hooked, sendQ, losses, goodSet,
                   reqContextTable, timedOut, bd, ctxVars>>

-----------------------------------------------------------------------------
(* The thread of the manager *)

Handles(t, x) == mgrQ # <<>> /\ Head(mgrQ) = Event(t, x)

(***************************************************************************)
(* The lambda of submitRequest.  getBitcoinD goes round-robin through the  *)
(* connections that are in goodSet and good right now: any of them.        *)
(* sendRequest is a signal: without a receiver (the connection is not      *)
(* hooked) it is lost.                                                     *)
(***************************************************************************)
Usable == {b \in goodSet : isGood(b)}

Submitted(r) ==
    /\ Handles("submit", r)
    /\ \/ /\ Usable = {}
          /\ inbox' = Emit({r}, "fail")
          /\ mgrQ' = Tail(mgrQ)
          /\ UNCHANGED <<bd, reqContextTable, sendQ>>
       \/ \E b \in Usable :
             /\ bd' = [bd EXCEPT ![r] = b]
             /\ reqContextTable' = reqContextTable \cup {r}
             /\ sendQ' = IF b \in hooked THEN [sendQ EXCEPT ![b] = Append(@, r)] ELSE sendQ
             /\ mgrQ' = IF Held(r, attached, inbox, Tail(mgrQ)) THEN Tail(mgrQ)
                          ELSE Append(Tail(mgrQ), Event("destroyed", r))
             /\ UNCHANGED inbox
    /\ UNCHANGED <<connected, hooked, needAuth, asked, losses, goodSet, timedOut, owner,
                   attached, replied>>

\* A late signal: the status of the connection counts, not the signal.
Authenticated(b) ==
    /\ Handles("authenticated", b)
    /\ mgrQ' = Tail(mgrQ)
    /\ goodSet' = IF isGood(b) THEN goodSet \cup {b} ELSE goodSet
    /\ UNCHANGED <<connVars, reqContextTable, timedOut, bd, ctxVars>>

notifyFailForRequestsMatchingBitcoinD(b) ==
    Emit({r \in reqContextTable : Alive(r) /\ bd[r] = b}, "fail")

LostConnection(b) ==
    /\ Handles("lost", b)
    /\ mgrQ' = Tail(mgrQ)
    /\ inbox' = notifyFailForRequestsMatchingBitcoinD(b)
    /\ goodSet' = IF isGood(b) THEN goodSet ELSE goodSet \ {b}
    /\ UNCHANGED <<connVars, reqContextTable, timedOut, bd, owner, attached, replied>>

(***************************************************************************)
(* handleMessageCommon: the entry is taken from the table; an answer for   *)
(* an entry that is gone, or whose context is, is a zombie.                *)
(***************************************************************************)
Message(r) ==
    /\ Handles("message", r)
    /\ mgrQ' = Tail(mgrQ)
    /\ reqContextTable' = reqContextTable \ {r}
    /\ inbox' = IF r \in reqContextTable THEN Emit({r}, "reply") ELSE inbox
    /\ UNCHANGED <<connVars, goodSet, timedOut, bd, owner, attached, replied>>

Destroyed(r) ==
    /\ Handles("destroyed", r)
    /\ mgrQ' = Tail(mgrQ)
    /\ reqContextTable' = reqContextTable \ {r}
    /\ UNCHANGED <<connVars, goodSet, timedOut, bd, ctxVars>>

\* Mutant: a request whose connection is down is left to the lost signal.
TimeoutOnlyIfConnected(r) ==
    /\ r \in reqContextTable \ timedOut /\ Alive(r)
    /\ timedOut' = timedOut \cup {r}
    /\ inbox' = IF bd[r] \in hooked THEN Emit({r}, "fail") ELSE inbox
    /\ UNCHANGED <<connVars, mgrQ, goodSet, reqContextTable, bd, owner, attached, replied>>

\* One overdue request; time is not modelled, so any request may be overdue.
requestTimeoutChecker(r) ==
    /\ r \in reqContextTable \ timedOut /\ Alive(r)
    /\ timedOut' = timedOut \cup {r}
    /\ inbox' = Emit({r}, "fail")
    /\ UNCHANGED <<connVars, mgrQ, goodSet, reqContextTable, bd, owner, attached, replied>>

MgrStep ==
    \/ \E r \in Reqs : Submitted(r) \/ Message(r) \/ Destroyed(r)
    \/ \E b \in BDs : Authenticated(b) \/ LostConnection(b)

ConnStep(b) ==
    \/ SocketConnects(b) \/ OnConnected(b) \/ PingAnswered(b)
    \/ SocketLost(b) \/ SendRequest(b)
    \/ \E r \in Reqs : Answer(b, r)

BDNext ==
    \/ MgrStep
    \/ \E r \in Reqs : requestTimeoutChecker(r)
    \/ \E b \in BDs : ConnStep(b)

-----------------------------------------------------------------------------
(* The thread of a sender *)

\* submitRequest, of a result that is not in the cache.
submitRequest(r) ==
    /\ attached' = attached \cup {r}
    /\ mgrQ' = Append(mgrQ, Event("submit", r))

\* Mutant: the handler leaves the context connected.
StaysConnected(r) == attached

(***************************************************************************)
(* The end of every handler in the sender's thread: the context is         *)
(* disconnected from the sender.                                           *)
(***************************************************************************)
Disconnected(r) == attached \ {r}

\* Mutant: `replied` is not looked at.
EveryReply(r) == TRUE

\* An event that was queued before runs although its context is disconnected.
FirstReply(r) == r \notin replied

HandledReply(s) ==
    LET r == Head(inbox[s]).of
    IN  /\ inbox' = [inbox EXCEPT ![s] = Tail(@)]
        /\ replied' = replied \cup {r}
        /\ attached' = Disconnected(r)
        /\ mgrQ' = Release({r}, attached', inbox', mgrQ)

\* The sender is destroyed: its connections and its queue go with it.
SenderGone(s) ==
    LET mine == {r \in Reqs : owner[r] = s}
    IN  /\ inbox' = [inbox EXCEPT ![s] = <<>>]
        /\ attached' = attached \ mine
        /\ mgrQ' = Release({r \in mine : Alive(r)}, attached', inbox', mgrQ)
=============================================================================
