----------------------------- MODULE RequestsProofs -----------------------------
(***************************************************************************)
(* What servers promise about the requests of their clients, for every     *)
(* number of clients, of connections to bitcoind and of requests.  The     *)
(* inductive invariant IInv follows each request on its way: the route it  *)
(* took, the events that are queued for it, the context that is kept for   *)
(* it, and the answer it is still owed (Owed), which is the one thing that *)
(* each Deliver takes away.                                                *)
(***************************************************************************)
EXTENDS ClientRequests, FunctionTheorems, FiniteSetTheorems, SequenceTheorems,
        WellFoundedInduction, TLAPS

MgrEvents == [type : {"authenticated", "lost"}, of : BDs]
             \cup [type : {"submit", "message", "destroyed"}, of : Reqs]
Kinds     == {"reply", "fail", "cached", "job"}
BoxEvents == [type : Kinds, of : Reqs]

(* The variables, but for the counters, which Counts is about. *)
Types ==
    /\ connected \subseteq BDs /\ hooked \subseteq BDs /\ needAuth \subseteq BDs
    /\ sendQ \in [BDs -> Seq(Reqs)] /\ asked \in [BDs -> SUBSET Reqs]
    /\ losses \in 0 .. MaxLosses
    /\ mgrQ \in Seq(MgrEvents) /\ goodSet \subseteq BDs
    /\ reqContextTable \subseteq Reqs /\ timedOut \subseteq Reqs
    /\ bd \in [Reqs -> BDs \cup {None}]
    /\ owner \in [Reqs -> Clients \cup {None}]
    /\ attached \subseteq Reqs /\ replied \subseteq Reqs
    /\ inbox \in [Clients -> Seq(BoxEvents)]
    /\ life \in [Clients -> {"up", "closing", "gone"}]
    /\ batch \in [Clients -> {"none", "rejecting", "open", "finished", "deleted"}]
    /\ items \in [Clients -> Seq(Reqs)] /\ next \in [Clients -> Nat]
    /\ again \in [Clients -> BOOLEAN] /\ processingPaused \in [Clients -> BOOLEAN]
    /\ inactivity \in [Clients -> BOOLEAN] /\ killed \in [Clients -> BOOLEAN]
    /\ responses \in [Clients -> Seq(Reqs)]
    /\ bdReqCtr \in [Clients -> Nat]
    /\ readPaused \in [Clients -> BOOLEAN] /\ decayTimer \in [Clients -> BOOLEAN]
    /\ cached \in BOOLEAN
    /\ route \in [Reqs -> {None, "now", "refused", "pool", "bitcoind"}]
    /\ job \in [Reqs -> {None, "rejecting", "queued", "ran", "deleted"}]
    /\ calls \in [Reqs -> Nat] /\ replies \in [Reqs -> Nat]

-----------------------------------------------------------------------------
(* The way of a request *)

Submits(r)  == Contains(mgrQ, Event("submit", r))
Destroys(r) == Contains(mgrQ, Event("destroyed", r))
Got(t, r)   == \E c \in Clients : Contains(inbox[c], Event(t, r))
AtMostOnce(q, e) == \A i, j \in 1 .. Len(q) : q[i] = e /\ q[j] = e => i = j

(* A client only gets events of its own requests. *)
EventsAreOwn ==
    \A c \in Clients, r \in Reqs : \A t \in Kinds : Contains(inbox[c], Event(t, r)) => owner[r] = c

(* A request is submitted once, and a job or the cache answer it once; that  *)
(* a context answers once is not for the queue to see to.                    *)
EventsComeOnce ==
    \A r \in Reqs :
        /\ AtMostOnce(mgrQ, Event("submit", r))
        /\ \A c \in Clients : AtMostOnce(inbox[c], Event("cached", r))
                              /\ AtMostOnce(inbox[c], Event("job", r))

(* Nothing is known of a request no handler was called for. *)
Unrouted(r) ==
    /\ calls[r] = 0 /\ job[r] = None
    /\ r \notin attached \cup replied \cup reqContextTable \cup timedOut
    /\ ~ Submits(r) /\ ~ Destroys(r)
    /\ \A t \in Kinds : ~ Got(t, r)

(* A context its sender keeps has not answered. *)
Attached(r) ==
    /\ route[r] = "bitcoind" /\ calls[r] = 0 /\ r \notin replied
    /\ life[owner[r]] # "gone" /\ ~ Got("cached", r)

(* A request that is queued for the manager. *)
Queued(r) ==
    /\ route[r] = "bitcoind" /\ r \notin reqContextTable \cup timedOut \cup replied
    /\ r \in attached \/ life[owner[r]] = "gone"
    /\ ~ Got("reply", r) /\ ~ Got("fail", r) /\ ~ Got("cached", r)

(* Something holds the context of a request. *)
Keeps(r) == r \in attached \/ Submits(r) \/ Got("reply", r) \/ Got("fail", r)

(* What the cache answers was never given to the manager. *)
FromCache(r) ==
    /\ route[r] = "bitcoind" /\ calls[r] = 0
    /\ r \notin attached \cup replied \cup reqContextTable

Path(r) ==
    /\ route[r] = None => Unrouted(r)
    /\ route[r] # None => owner[r] \in Clients
    /\ r \in attached => Attached(r)
    /\ r \in replied => route[r] = "bitcoind" /\ calls[r] = 1
    /\ Got("reply", r) \/ Got("fail", r) => r \in attached \cup replied
    /\ Submits(r) => Queued(r)
    /\ Got("cached", r) => FromCache(r)
    /\ Destroys(r) => route[r] = "bitcoind" /\ r \notin attached
    /\ r \in reqContextTable => route[r] = "bitcoind" /\ (Keeps(r) \/ Destroys(r))
    /\ route[r] = "bitcoind" /\ calls[r] = 0 /\ life[owner[r]] # "gone" =>
           \/ Submits(r) \/ Got("reply", r) \/ Got("fail", r) \/ Got("cached", r)
           \/ r \in (reqContextTable \cap attached) \ timedOut
    /\ job[r] # None <=> route[r] = "pool"
    /\ Got("job", r) => job[r] \in {"ran", "deleted"}
    /\ calls[r] <= 1 /\ (route[r] # "bitcoind" => calls[r] = 0)

Paths == \A r \in Reqs : Path(r)

-----------------------------------------------------------------------------
(* Answers *)

(* The answer to a request is still to come. *)
Owed(r) ==
    \/ route[r] = None
    \/ job[r] \in {"rejecting", "queued"}
    \/ Got("job", r)
    \/ route[r] = "bitcoind" /\ calls[r] = 0

(* An answer that is to come was given to nobody. *)
OwedIsNotGiven ==
    \A r \in Reqs : Owed(r) => replies[r] = 0 /\ \A c \in Clients : ~ Contains(responses[c], r)

(* The items of a batch are requests of the client, each of them once; those *)
(* that were not taken have no route.                                        *)
ItemsAreOwn ==
    \A c \in Clients :
        /\ next[c] <= Len(items[c])
        /\ \A i \in 1 .. Len(items[c]) : owner[items[c][i]] = c
        /\ \A i, j \in 1 .. Len(items[c]) : items[c][i] = items[c][j] => i = j
        /\ \A i \in 1 .. Len(items[c]) : i > next[c] => route[items[c][i]] = None
        /\ batch[c] = "none" => items[c] = <<>>

(* The responses of a batch are answers to its items, each of them once. *)
ResponsesAreItems ==
    \A c \in Clients :
        /\ \A i \in 1 .. Len(responses[c]) : Contains(items[c], responses[c][i])
        /\ \A i, j \in 1 .. Len(responses[c]) : responses[c][i] = responses[c][j] => i = j

(* Who was refused is being dropped; no answer of a batch that is not        *)
(* finished was sent but the one that refuses an item.                       *)
BatchWaits ==
    /\ \A r \in Reqs : route[r] = "refused" => life[owner[r]] # "up"
    /\ \A c \in Clients : batch[c] \in {"none", "rejecting", "open"} =>
           \A i \in 1 .. Len(items[c]) :
               route[items[c][i]] # "refused" => replies[items[c][i]] = 0

(* A client gets all answers of a batch or none, or only those that refuse.  *)
AllOrNone ==
    \A c \in Clients : \A r, q \in Reqs :
        Batched(c, r) /\ Batched(c, q) =>
            /\ route[r] = "refused" /\ route[q] # "refused" => replies[q] = 0
            /\ (\A x \in Reqs : Batched(c, x) => route[x] # "refused") => replies[r] = replies[q]

(* Where the requests are. *)
Way == Types /\ EventsAreOwn /\ EventsComeOnce /\ Paths

(* What their clients were sent. *)
Answers ==
    /\ OwedIsNotGiven /\ ItemsAreOwn /\ ResponsesAreItems /\ BatchWaits /\ AllOrNone
    /\ \A r \in Reqs : replies[r] <= 1

(* perIP counts what clients that are gone have left behind, too. *)
Counts ==
    /\ perIP = Cardinality(Outstanding)
    /\ \A c \in Clients : bdReqCtr[c] <= Cardinality(Outstanding \cap Own(c))
    /\ nExtantBatchRequests = Cardinality({r \in Reqs : \E c \in Clients :
           batch[c] \in {"rejecting", "open", "finished"} /\ Batched(c, r)})
    /\ extant = Cardinality({r \in Reqs : job[r] \in {"rejecting", "queued", "ran"}})
    /\ Cardinality({r \in Reqs : job[r] \in {"queued", "ran"}}) <= extantLimit

IInv == Way /\ Answers /\ Counts /\ WaitersWillBeWoken

-----------------------------------------------------------------------------
(* Events and queues *)

(* Events are the same when their kinds and their subjects are. *)
LEMMA EventsDiffer ==
    ASSUME NEW t, NEW x, NEW u, NEW y
    PROVE  Event(t, x) = Event(u, y) <=> t = u /\ x = y
<1>1. Event(t, x).type = t /\ Event(t, x).of = x /\ Event(u, y).type = u /\ Event(u, y).of = y
  BY DEF Event
<1> QED BY <1>1 DEF Event

(* What an event added at the end of a queue makes of it. *)
LEMMA AppendFacts ==
    ASSUME NEW S, NEW q \in Seq(S), NEW e \in S
    PROVE  /\ Append(q, e) \in Seq(S)
           /\ \A x : Contains(Append(q, e), x) <=> Contains(q, x) \/ x = e
           /\ \A x : AtMostOnce(q, x) /\ (x = e => ~ Contains(q, x)) => AtMostOnce(Append(q, e), x)
<1>1. /\ Append(q, e) \in Seq(S) /\ Len(Append(q, e)) = Len(q) + 1 /\ Len(q) \in Nat
      /\ \A i \in 1 .. Len(q) : Append(q, e)[i] = q[i]
      /\ Append(q, e)[Len(q) + 1] = e
  OBVIOUS
<1>2. ASSUME NEW x PROVE Contains(Append(q, e), x) <=> Contains(q, x) \/ x = e
  BY <1>1 DEF Contains
<1>3. ASSUME NEW x, AtMostOnce(q, x), x = e => ~ Contains(q, x)
      PROVE  AtMostOnce(Append(q, e), x)
  BY <1>1, <1>3 DEF AtMostOnce, Contains
<1> QED BY <1>1, <1>2, <1>3

(* What is left of a queue when its first event was handled. *)
LEMMA TailFacts ==
    ASSUME NEW S, NEW q \in Seq(S), q # <<>>
    PROVE  /\ Head(q) \in S /\ Tail(q) \in Seq(S) /\ Contains(q, Head(q))
           /\ \A x : Contains(Tail(q), x) => Contains(q, x)
           /\ \A x : Contains(q, x) /\ x # Head(q) => Contains(Tail(q), x)
           /\ \A x : AtMostOnce(q, x) => AtMostOnce(Tail(q), x)
           /\ AtMostOnce(q, Head(q)) => ~ Contains(Tail(q), Head(q))
<1>1. /\ Head(q) \in S /\ Tail(q) \in Seq(S) /\ Len(Tail(q)) = Len(q) - 1 /\ Len(q) \in Nat \ {0}
      /\ \A i \in 1 .. Len(Tail(q)) : Tail(q)[i] = q[i + 1]
      /\ Head(q) = q[1]
  OBVIOUS
<1>2. Contains(q, Head(q))
  BY <1>1 DEF Contains
<1>3. ASSUME NEW x, Contains(Tail(q), x) PROVE Contains(q, x)
  <2>1. PICK i \in 1 .. Len(Tail(q)) : Tail(q)[i] = x
    BY <1>3 DEF Contains
  <2>2. i + 1 \in 1 .. Len(q) /\ q[i + 1] = x
    BY <1>1, <2>1
  <2> QED BY <2>2 DEF Contains
<1>4. ASSUME NEW x, Contains(q, x), x # Head(q) PROVE Contains(Tail(q), x)
  <2>1. PICK i \in 1 .. Len(q) : q[i] = x
    BY <1>4 DEF Contains
  <2>2. i - 1 \in 1 .. Len(Tail(q))
    BY <1>1, <1>4, <2>1
  <2>3. Tail(q)[i - 1] = x
    BY <1>1, <2>1, <2>2
  <2> QED BY <2>2, <2>3 DEF Contains
<1>5. ASSUME NEW x, AtMostOnce(q, x) PROVE AtMostOnce(Tail(q), x)
  <2> SUFFICES ASSUME NEW i \in 1 .. Len(Tail(q)), NEW j \in 1 .. Len(Tail(q)),
                      Tail(q)[i] = x, Tail(q)[j] = x
               PROVE  i = j
    BY DEF AtMostOnce
  <2>1. i + 1 \in 1 .. Len(q) /\ j + 1 \in 1 .. Len(q) /\ q[i + 1] = x /\ q[j + 1] = x
    BY <1>1
  <2>2. i + 1 = j + 1
    BY <1>5, <2>1 DEF AtMostOnce
  <2> QED BY <2>2
<1>6. ASSUME AtMostOnce(q, Head(q)), Contains(Tail(q), Head(q)) PROVE FALSE
  <2>1. PICK i \in 1 .. Len(Tail(q)) : Tail(q)[i] = Head(q)
    BY <1>6 DEF Contains
  <2>2. 1 \in 1 .. Len(q) /\ i + 1 \in 1 .. Len(q) /\ q[i + 1] = q[1] /\ q[1] = Head(q)
    BY <1>1, <2>1
  <2>3. i + 1 = 1
    BY <1>6, <2>2 DEF AtMostOnce
  <2> QED BY <2>1, <2>3
<1> QED BY <1>1, <1>2, <1>3, <1>4, <1>5, <1>6

(* What several events added at the end of a queue make of it. *)
LEMMA ConcatFacts ==
    ASSUME NEW S, NEW q \in Seq(S), NEW p \in Seq(S)
    PROVE  /\ q \o p \in Seq(S)
           /\ \A x : Contains(q \o p, x) <=> Contains(q, x) \/ Contains(p, x)
           /\ \A x : AtMostOnce(q, x) /\ ~ Contains(p, x) => AtMostOnce(q \o p, x)
<1>1. /\ q \o p \in Seq(S) /\ Len(q \o p) = Len(q) + Len(p) /\ Len(q) \in Nat /\ Len(p) \in Nat
      /\ \A i \in 1 .. Len(q) : (q \o p)[i] = q[i]
      /\ \A i \in Len(q) + 1 .. Len(q) + Len(p) : (q \o p)[i] = p[i - Len(q)]
  OBVIOUS
<1>2. ASSUME NEW x, Contains(q \o p, x) PROVE Contains(q, x) \/ Contains(p, x)
  <2>1. PICK i \in 1 .. Len(q \o p) : (q \o p)[i] = x
    BY <1>2 DEF Contains
  <2>2. CASE i \in 1 .. Len(q)
    BY <1>1, <2>1, <2>2 DEF Contains
  <2>3. CASE i \notin 1 .. Len(q)
    <3>1. i \in Len(q) + 1 .. Len(q) + Len(p)
      BY <1>1, <2>3
    <3>2. i - Len(q) \in 1 .. Len(p) /\ p[i - Len(q)] = x
      BY <1>1, <2>1, <3>1
    <3> QED BY <3>2 DEF Contains
  <2> QED BY <2>2, <2>3
<1>3. ASSUME NEW x, Contains(q, x) PROVE Contains(q \o p, x)
  <2>1. PICK i \in 1 .. Len(q) : q[i] = x
    BY <1>3 DEF Contains
  <2>2. i \in 1 .. Len(q \o p) /\ (q \o p)[i] = x
    BY <1>1, <2>1
  <2> QED BY <2>2 DEF Contains
<1>4. ASSUME NEW x, Contains(p, x) PROVE Contains(q \o p, x)
  <2>1. PICK i \in 1 .. Len(p) : p[i] = x
    BY <1>4 DEF Contains
  <2>2. Len(q) + i \in Len(q) + 1 .. Len(q) + Len(p) /\ (Len(q) + i) - Len(q) = i
    BY <1>1, <2>1
  <2>3. Len(q) + i \in 1 .. Len(q \o p) /\ (q \o p)[Len(q) + i] = x
    BY <1>1, <2>1, <2>2
  <2> QED BY <2>3 DEF Contains
<1>5. ASSUME NEW x, AtMostOnce(q, x), ~ Contains(p, x) PROVE AtMostOnce(q \o p, x)
  <2> SUFFICES ASSUME NEW i \in 1 .. Len(q \o p), NEW j \in 1 .. Len(q \o p),
                      (q \o p)[i] = x, (q \o p)[j] = x
               PROVE  i = j
    BY DEF AtMostOnce
  <2>1. ASSUME NEW k \in 1 .. Len(q \o p), (q \o p)[k] = x
        PROVE  k \in 1 .. Len(q) /\ q[k] = x
    <3>1. CASE k \in 1 .. Len(q)
      BY <1>1, <2>1, <3>1
    <3>2. CASE k \notin 1 .. Len(q)
      <4>1. k \in Len(q) + 1 .. Len(q) + Len(p)
        BY <1>1, <3>2
      <4>2. k - Len(q) \in 1 .. Len(p) /\ p[k - Len(q)] = x
        BY <1>1, <2>1, <4>1
      <4> QED BY <1>5, <4>2 DEF Contains
    <3> QED BY <3>1, <3>2
  <2> QED BY <1>5, <2>1 DEF AtMostOnce
<1> QED BY <1>1, <1>2, <1>3, <1>4, <1>5

(* The members of a finite set in some order. *)
LEMMA SetToSeqFacts ==
    ASSUME NEW S, IsFiniteSet(S)
    PROVE  SetToSeq(S) \in Seq(S) /\ \A x : Contains(SetToSeq(S), x) <=> x \in S
<1> DEFINE n == Cardinality(S)
           f == SetToSeq(S)
<1>1. n \in Nat /\ ExistsBijection(1 .. n, S)
  BY FS_CardinalityType
<1>2. \E g \in [1 .. n -> S] : IsInjective(g)
  BY <1>1 DEF ExistsBijection, Bijection, Injection
<1>3. f \in [1 .. n -> S] /\ IsInjective(f)
  BY <1>2 DEF SetToSeq
<1> HIDE DEF f
<1>4. f \in Injection(1 .. n, S)
  BY <1>3 DEF Injection
<1>5. Cardinality(1 .. n) = n
  BY <1>1, FS_Interval
<1>6. f \in Surjection(1 .. n, S)
  BY <1>4, <1>5, FS_Injection
<1>7. \A x \in S : \E i \in 1 .. n : f[i] = x
  BY <1>6 DEF Surjection
<1>8. f \in Seq(S) /\ Len(f) = n
  BY <1>1, <1>3
<1>9. \A x : Contains(f, x) <=> x \in S
  BY <1>3, <1>7, <1>8 DEF Contains
<1> QED BY <1>8, <1>9 DEF f

(* A finite set of requests has as many events of one kind at most. *)
LEMMA EventsAreFinite ==
    ASSUME NEW R, IsFiniteSet(R), NEW t
    PROVE  IsFiniteSet({Event(t, r) : r \in R})
<1> DEFINE E == {Event(t, r) : r \in R}
           f == [r \in R |-> Event(t, r)]
<1>1. f \in Surjection(R, E)
  <2>1. f \in [R -> E]
    OBVIOUS
  <2>2. \A e \in E : \E r \in R : f[r] = e
    OBVIOUS
  <2> QED BY <2>1, <2>2 DEF Surjection
<1> QED BY <1>1, FS_Surjection

(* An event of a client is of one of the four kinds, about one request. *)
LEMMA BoxEventFacts ==
    /\ \A t \in Kinds, r \in Reqs : Event(t, r) \in BoxEvents
    /\ \A e \in BoxEvents : e.type \in Kinds /\ e.of \in Reqs /\ e = Event(e.type, e.of)
BY DEF BoxEvents, Event

(* The events of the manager that are about a request. *)
LEMMA MgrEventFacts ==
    /\ \A t \in {"submit", "message", "destroyed"}, r \in Reqs : Event(t, r) \in MgrEvents
    /\ \A t \in {"authenticated", "lost"}, b \in BDs : Event(t, b) \in MgrEvents
BY DEF MgrEvents, Event

(* Requests are finitely many. *)
LEMMA FinitelyMany == ASSUME NEW R \in SUBSET Reqs PROVE IsFiniteSet(R)
BY BDAssumption, FS_Subset

(* A signal is queued for the senders of those contexts that are attached. *)
LEMMA EmitFacts ==
    ASSUME Types, EventsAreOwn, EventsComeOnce, NEW rs \in SUBSET Reqs,
           NEW signal \in {"reply", "fail"}
    PROVE  /\ Emit(rs, signal) \in [Clients -> Seq(BoxEvents)]
           /\ \A c \in Clients, x \in Reqs : \A t \in Kinds :
                  Contains(Emit(rs, signal)[c], Event(t, x)) <=>
                      \/ Contains(inbox[c], Event(t, x))
                      \/ t = signal /\ x \in rs /\ x \in attached /\ owner[x] = c
           /\ \A c \in Clients, r \in Reqs : AtMostOnce(Emit(rs, signal)[c], Event("cached", r))
                                             /\ AtMostOnce(Emit(rs, signal)[c], Event("job", r))
<1> DEFINE box == Emit(rs, signal)
<1> DEFINE R(c) == {x \in rs \cap attached : owner[x] = c}
           E(c) == {Event(signal, r) : r \in R(c)}
<1>1. box = [c \in Clients |-> inbox[c] \o SetToSeq(E(c))]
  BY DEF Emit, Clients
<1> HIDE DEF box
<1>2. ASSUME NEW c \in Clients
      PROVE  /\ box[c] \in Seq(BoxEvents)
             /\ \A e : Contains(box[c], e) <=> Contains(inbox[c], e) \/ e \in E(c)
             /\ \A r \in Reqs : AtMostOnce(box[c], Event("cached", r))
                                /\ AtMostOnce(box[c], Event("job", r))
  <2>1. IsFiniteSet(E(c))
    <3>1. R(c) \in SUBSET Reqs
      OBVIOUS
    <3>2. IsFiniteSet(R(c))
      BY <3>1, FinitelyMany
    <3> HIDE DEF R
    <3> QED BY <3>2, EventsAreFinite
  <2>2. E(c) \subseteq BoxEvents
    BY BoxEventFacts DEF Kinds
  <2> HIDE DEF E
  <2>3. SetToSeq(E(c)) \in Seq(E(c)) /\ \A x : Contains(SetToSeq(E(c)), x) <=> x \in E(c)
    BY <2>1, SetToSeqFacts
  <2>4. SetToSeq(E(c)) \in Seq(BoxEvents)
    BY <2>2, <2>3, SeqMonotonic
  <2>5. inbox[c] \in Seq(BoxEvents) /\ box[c] = inbox[c] \o SetToSeq(E(c))
    BY <1>1 DEF Types
  <2>6. /\ box[c] \in Seq(BoxEvents)
        /\ \A e : Contains(box[c], e) <=> Contains(inbox[c], e) \/ e \in E(c)
        /\ \A e : AtMostOnce(inbox[c], e) /\ e \notin E(c) => AtMostOnce(box[c], e)
    BY <2>3, <2>4, <2>5, ConcatFacts
  <2>7. \A r \in Reqs : Event("cached", r) \notin E(c) /\ Event("job", r) \notin E(c)
    BY EventsDiffer DEF E
  <2> QED BY <2>6, <2>7 DEF EventsComeOnce
<1>3. \A c \in Clients, x \in Reqs : \A t \in Kinds :
          Event(t, x) \in E(c) <=> t = signal /\ x \in rs /\ x \in attached /\ owner[x] = c
  BY EventsDiffer
<1> HIDE DEF E
<1>4. box \in [Clients -> Seq(BoxEvents)]
  BY <1>1, <1>2
<1> QED BY <1>2, <1>3, <1>4 DEF box

(* Who holds a context. *)
LEMMA HeldFacts ==
    ASSUME NEW box \in [Clients -> Seq(BoxEvents)], NEW att, NEW q, NEW r \in Reqs,
           owner[r] \in Clients,
           \A c \in Clients : \A t \in Kinds : Contains(box[c], Event(t, r)) => owner[r] = c
    PROVE  Held(r, att, box, q) <=> \/ r \in att \/ Contains(q, Event("submit", r))
                                    \/ \E t \in Kinds : \E c \in Clients : Contains(box[c], Event(t, r))
<1> DEFINE b == box[owner[r]]
<1>1. b \in Seq(BoxEvents) /\ DOMAIN b = 1 .. Len(b)
  OBVIOUS
<1>2. ASSUME NEW i \in DOMAIN b, b[i].of = r PROVE \E t \in Kinds : Contains(b, Event(t, r))
  <2>1. b[i] \in BoxEvents
    BY <1>1
  <2>2. b[i] = Event(b[i].type, r) /\ b[i].type \in Kinds
    BY <1>2, <2>1, BoxEventFacts
  <2> QED BY <1>1, <2>2 DEF Contains
<1>3. ASSUME NEW t \in Kinds, Contains(b, Event(t, r)) PROVE \E i \in DOMAIN b : b[i].of = r
  <2>1. Event(t, r).of = r
    BY DEF Event
  <2> QED BY <1>1, <1>3, <2>1 DEF Contains
<1>4. (\E i \in DOMAIN b : b[i].of = r) <=> \E t \in Kinds : \E c \in Clients : Contains(box[c], Event(t, r))
  BY <1>2, <1>3
<1> QED BY <1>4 DEF Held

(* What is queued when contexts are let go of. *)
LEMMA ReleaseFacts ==
    ASSUME reqContextTable \subseteq Reqs, NEW rs \in SUBSET Reqs, NEW att, NEW box,
           NEW q \in Seq(MgrEvents)
    PROVE  /\ Release(rs, att, box, q) \in Seq(MgrEvents)
           /\ \A x \in Reqs :
                  /\ Contains(Release(rs, att, box, q), Event("submit", x)) <=>
                         Contains(q, Event("submit", x))
                  /\ Contains(Release(rs, att, box, q), Event("destroyed", x)) <=>
                         \/ Contains(q, Event("destroyed", x))
                         \/ x \in rs /\ x \in reqContextTable /\ ~ Held(x, att, box, q)
                  /\ AtMostOnce(q, Event("submit", x)) =>
                         AtMostOnce(Release(rs, att, box, q), Event("submit", x))
<1> DEFINE R == {x \in rs \cap reqContextTable : ~ Held(x, att, box, q)}
           E == {Event("destroyed", r) : r \in R}
           p == Release(rs, att, box, q)
<1>1. p = q \o SetToSeq(E)
  BY DEF Release
<1>2. IsFiniteSet(E)
  <2>1. R \in SUBSET Reqs
    OBVIOUS
  <2>2. IsFiniteSet(R)
    BY <2>1, FinitelyMany
  <2> HIDE DEF R
  <2> QED BY <2>2, EventsAreFinite
<1>3. E \subseteq MgrEvents
  BY MgrEventFacts
<1>4. \A x \in Reqs : Event("destroyed", x) \in E <=>
                          x \in rs /\ x \in reqContextTable /\ ~ Held(x, att, box, q)
  BY EventsDiffer
<1>5. \A r \in Reqs : Event("submit", r) \notin E
  BY EventsDiffer
<1> HIDE DEF E, p
<1>6. SetToSeq(E) \in Seq(E) /\ \A x : Contains(SetToSeq(E), x) <=> x \in E
  BY <1>2, SetToSeqFacts
<1>7. SetToSeq(E) \in Seq(MgrEvents)
  BY <1>3, <1>6, SeqMonotonic
<1>8. /\ p \in Seq(MgrEvents)
      /\ \A e : Contains(p, e) <=> Contains(q, e) \/ e \in E
      /\ \A e : AtMostOnce(q, e) /\ e \notin E => AtMostOnce(p, e)
  BY <1>1, <1>6, <1>7, ConcatFacts
<1> QED BY <1>4, <1>5, <1>8 DEF p

-----------------------------------------------------------------------------
(* What a step may do to the way of a request *)

(* Nothing. *)
SameWay(r) ==
    /\ owner'[r] = owner[r] /\ route'[r] = route[r] /\ job'[r] = job[r] /\ calls'[r] = calls[r]
    /\ (r \in attached' <=> r \in attached) /\ (r \in replied' <=> r \in replied)
    /\ (r \in reqContextTable' <=> r \in reqContextTable)
    /\ (r \in timedOut' <=> r \in timedOut)
    /\ (Submits(r)' <=> Submits(r)) /\ (Destroys(r)' <=> Destroys(r))
    /\ \A t \in Kinds : Got(t, r)' <=> Got(t, r)
    /\ route[r] # None => (life'[owner[r]] = "gone" <=> life[owner[r]] = "gone")

(* A request whose way is not changed is still on it. *)
LEMMA SamePath ==
    ASSUME NEW r \in Reqs, Path(r), SameWay(r)
    PROVE  Path(r)'
<1>1. "reply" \in Kinds /\ "fail" \in Kinds /\ "cached" \in Kinds /\ "job" \in Kinds
  BY DEF Kinds
<1>2. Unrouted(r)' <=> Unrouted(r)
  BY DEF SameWay, Unrouted
<1>3. (Keeps(r)' <=> Keeps(r)) /\ (FromCache(r)' <=> FromCache(r))
  BY <1>1 DEF SameWay, Keeps, FromCache
<1>4. Attached(r)' <=> Attached(r)
  BY <1>1 DEF SameWay, Attached, None
<1>5. Queued(r)' <=> Queued(r)
  BY <1>1 DEF SameWay, Queued, None
<1>6. CASE route[r] = "bitcoind"
  BY <1>1, <1>2, <1>3, <1>4, <1>5, <1>6 DEF Path, SameWay, None
<1>7. CASE route[r] # "bitcoind"
  BY <1>1, <1>2, <1>3, <1>4, <1>5, <1>7 DEF Path, SameWay
<1> QED BY <1>6, <1>7

(* The signal of an attached context is queued for its sender, which ends     *)
(* its stay in the queue of the manager or leaves it in the table.           *)
Signalled(r) ==
    /\ owner'[r] = owner[r] /\ route'[r] = route[r] /\ job'[r] = job[r] /\ calls'[r] = calls[r]
    /\ r \in attached /\ r \in attached' /\ (r \in replied' <=> r \in replied)
    /\ r \in reqContextTable' => r \in reqContextTable
    /\ ~ Submits(r)' /\ (Destroys(r)' <=> Destroys(r))
    /\ \A t \in Kinds : Got(t, r) => Got(t, r)'
    /\ Got("reply", r)' \/ Got("fail", r)'
    /\ (Got("cached", r)' <=> Got("cached", r)) /\ (Got("job", r)' <=> Got("job", r))
    /\ route[r] # None => (life'[owner[r]] = "gone" <=> life[owner[r]] = "gone")

(* A request whose context was told is on its way to its callback. *)
LEMMA SignalledPath ==
    ASSUME NEW r \in Reqs, Path(r), Signalled(r)
    PROVE  Path(r)'
<1>1. "reply" \in Kinds /\ "fail" \in Kinds /\ "cached" \in Kinds /\ "job" \in Kinds
  BY DEF Kinds
<1>2. route[r] = "bitcoind" /\ Attached(r)
  BY DEF Path, Signalled, Attached
<1> QED BY <1>1, <1>2 DEF Path, Signalled, Unrouted, Attached, Queued, FromCache, Keeps, None

(* A context nobody keeps leaves the queue of the manager, or the table. *)
Dropped(r) ==
    /\ owner'[r] = owner[r] /\ route'[r] = route[r] /\ job'[r] = job[r] /\ calls'[r] = calls[r]
    /\ r \notin attached /\ r \notin attached' /\ (r \in replied' <=> r \in replied)
    /\ r \in reqContextTable' => r \in reqContextTable /\ (Destroys(r)' <=> Destroys(r))
    /\ r \in timedOut' => r \in timedOut \/ ~ Submits(r)'
    /\ (Submits(r)' => Submits(r)) /\ (Destroys(r)' => Destroys(r))
    /\ \A t \in Kinds : Got(t, r)' <=> Got(t, r)
    /\ route[r] # None /\ (life'[owner[r]] = "gone" <=> life[owner[r]] = "gone")

(* A request whose context is dropped is owed nothing any more, or has an     *)
(* event queued.                                                             *)
LEMMA DroppedPath ==
    ASSUME NEW r \in Reqs, Path(r), Dropped(r)
    PROVE  Path(r)'
<1>1. "reply" \in Kinds /\ "fail" \in Kinds /\ "cached" \in Kinds /\ "job" \in Kinds
  BY DEF Kinds
<1>2. (Submits(r) => Queued(r)) /\ (r \in reqContextTable => ~ Submits(r))
  BY DEF Path, Queued
<1>3. Submits(r)' => Queued(r)'
  BY <1>1, <1>2 DEF Dropped, Queued
<1>4. Got("cached", r)' => FromCache(r)'
  BY <1>1 DEF Dropped, Path, FromCache
<1>5. r \in reqContextTable' => route'[r] = "bitcoind" /\ (Keeps(r)' \/ Destroys(r)')
  BY <1>1, <1>2 DEF Dropped, Path, Keeps
<1>6. route'[r] = "bitcoind" /\ calls'[r] = 0 /\ life'[owner'[r]] # "gone" =>
           \/ Submits(r)' \/ Got("reply", r)' \/ Got("fail", r)' \/ Got("cached", r)'
           \/ r \in (reqContextTable' \cap attached') \ timedOut'
  BY <1>1, <1>2 DEF Dropped, Path, Queued
<1> QED BY <1>1, <1>3, <1>4, <1>5, <1>6 DEF Path, Dropped, Unrouted

(* The queue of the manager has the same submissions and destructions.  *)
SameRequests(q, p) ==
    /\ p \in Seq(MgrEvents)
    /\ \A r \in Reqs :
           /\ Contains(p, Event("submit", r)) <=> Contains(q, Event("submit", r))
           /\ Contains(p, Event("destroyed", r)) <=> Contains(q, Event("destroyed", r))
           /\ AtMostOnce(q, Event("submit", r)) => AtMostOnce(p, Event("submit", r))

(* A connection's events are of no other kind. *)
LEMMA ConnEvent ==
    ASSUME NEW q \in Seq(MgrEvents), NEW t \in {"authenticated", "lost", "message"}, NEW x,
           Event(t, x) \in MgrEvents
    PROVE  SameRequests(q, Append(q, Event(t, x)))
<1>1. \A r \in Reqs : Event("submit", r) # Event(t, x) /\ Event("destroyed", r) # Event(t, x)
  BY EventsDiffer
<1> QED BY <1>1, AppendFacts DEF SameRequests

(* So is the end of their handling. *)
LEMMA ConnEventHandled ==
    ASSUME NEW q \in Seq(MgrEvents), NEW t \in {"authenticated", "lost", "message"}, NEW x,
           q # <<>>, Head(q) = Event(t, x)
    PROVE  SameRequests(q, Tail(q))
<1>1. \A r \in Reqs : Event("submit", r) # Event(t, x) /\ Event("destroyed", r) # Event(t, x)
  BY EventsDiffer
<1> QED BY <1>1, TailFacts DEF SameRequests

(* A step of a connection that leaves the requests alone. *)
LEMMA SameQueues ==
    ASSUME Way, Others, UNCHANGED <<ctxVars, reqContextTable, timedOut>>,
           SameRequests(mgrQ, mgrQ')
    PROVE  EventsAreOwn' /\ EventsComeOnce' /\ Paths'
<1>1. UNCHANGED <<owner, attached, replied, inbox, life, job, route, calls>>
  BY DEF ctxVars, Others, poolVars
<1>2. EventsAreOwn' /\ EventsComeOnce'
  BY <1>1 DEF Way, EventsAreOwn, EventsComeOnce, SameRequests
<1>3. ASSUME NEW r \in Reqs PROVE Path(r)'
  <2>1. SameWay(r)
    BY <1>1 DEF SameRequests, SameWay, Submits, Destroys, Got
  <2> QED BY <2>1, SamePath DEF Way, Paths
<1> QED BY <1>2, <1>3 DEF Paths

(* The threads of the connections. *)
LEMMA ConnStepKeepsWay ==
    ASSUME Way, Others, NEW b \in BDs, ConnStep(b)
    PROVE  Way' /\ UNCHANGED <<owner, inbox>>
<1>1. /\ UNCHANGED <<ctxVars, reqContextTable, timedOut, goodSet, bd>>
      /\ UNCHANGED <<owner, attached, replied, inbox>>
      /\ UNCHANGED <<life, batchVars, throttleVars, cached, route, poolVars, calls, replies>>
  BY DEF ConnStep, SocketConnects, OnConnected, PingAnswered, SocketLost, SendRequest, Answer,
         ctxVars, Others
<1>2. Types
  BY DEF Way
<1>3. mgrQ \in Seq(MgrEvents) /\ SameRequests(mgrQ, mgrQ)
  BY <1>2 DEF Types, SameRequests
<1>4. /\ connected' \subseteq BDs /\ hooked' \subseteq BDs /\ needAuth' \subseteq BDs
      /\ sendQ' \in [BDs -> Seq(Reqs)] /\ asked' \in [BDs -> SUBSET Reqs]
      /\ losses' \in 0 .. MaxLosses /\ SameRequests(mgrQ, mgrQ')
  <2>1. CASE SocketConnects(b) \/ OnConnected(b)
    BY <1>2, <1>3, <2>1 DEF SocketConnects, OnConnected, Types
  <2>2. Event("authenticated", b) \in MgrEvents /\ Event("lost", b) \in MgrEvents
    BY MgrEventFacts
  <2>3. CASE PingAnswered(b)
    <3>1. mgrQ' = Append(mgrQ, Event("authenticated", b))
      BY <2>3 DEF PingAnswered, Authenticates
    <3>2. SameRequests(mgrQ, mgrQ')
      BY <1>3, <2>2, <3>1, ConnEvent
    <3> QED BY <1>2, <2>3, <3>2 DEF PingAnswered, Types
  <2>4. CASE SocketLost(b)
    <3>1. mgrQ' = IF b \in hooked THEN Append(mgrQ, Event("lost", b)) ELSE mgrQ
      BY <2>4 DEF SocketLost
    <3>2. SameRequests(mgrQ, mgrQ')
      BY <1>3, <2>2, <3>1, ConnEvent
    <3>3. losses' \in 0 .. MaxLosses
      BY <1>2, <2>4, BDAssumption DEF SocketLost, Types
    <3> QED BY <1>2, <2>4, <3>2, <3>3 DEF SocketLost, Types
  <2>5. CASE SendRequest(b)
    <3>1. sendQ[b] \in Seq(Reqs) /\ sendQ[b] # <<>>
      BY <1>2, <2>5 DEF SendRequest, Types
    <3>2. Tail(sendQ[b]) \in Seq(Reqs) /\ Head(sendQ[b]) \in Reqs
      BY <3>1
    <3>3. sendQ' \in [BDs -> Seq(Reqs)] /\ asked' \in [BDs -> SUBSET Reqs]
      BY <1>2, <2>5, <3>2 DEF SendRequest, Types
    <3> QED BY <1>2, <1>3, <2>5, <3>3 DEF SendRequest, Types
  <2>6. ASSUME NEW r \in Reqs, Answer(b, r)
        PROVE  /\ connected' \subseteq BDs /\ hooked' \subseteq BDs /\ needAuth' \subseteq BDs
               /\ sendQ' \in [BDs -> Seq(Reqs)] /\ asked' \in [BDs -> SUBSET Reqs]
               /\ losses' \in 0 .. MaxLosses /\ SameRequests(mgrQ, mgrQ')
    <3>1. PICK q : /\ q \in {mgrQ, Append(mgrQ, Event("authenticated", b))}
                   /\ mgrQ' = Append(q, Event("message", r))
      BY <2>6 DEF Answer, Authenticates
    <3>2. SameRequests(mgrQ, q)
      BY <1>3, <2>2, <3>1, ConnEvent
    <3>3. Event("message", r) \in MgrEvents
      BY MgrEventFacts
    <3>4. SameRequests(q, mgrQ')
      BY <3>1, <3>2, <3>3, ConnEvent DEF SameRequests
    <3>5. SameRequests(mgrQ, mgrQ')
      BY <3>2, <3>4 DEF SameRequests
    <3> QED BY <1>2, <2>6, <3>5 DEF Answer, Types
  <2> QED BY <2>1, <2>3, <2>4, <2>5, <2>6 DEF ConnStep
<1>5. Types'
  BY <1>1, <1>2, <1>4 DEF Types, SameRequests, batchVars, throttleVars, poolVars
<1>6. EventsAreOwn' /\ EventsComeOnce' /\ Paths'
  BY <1>1, <1>4, SameQueues
<1> QED BY <1>1, <1>5, <1>6 DEF Way

(* An attached context has a sender. *)
LEMMA RoutedHasOwner ==
    ASSUME Way, NEW r \in Reqs, route[r] # None \/ r \in attached \/ r \in reqContextTable
    PROVE  route[r] # None /\ owner[r] \in Clients
BY DEF Way, Paths, Path, Attached, None

(* A signal is what each attached context gets, and nobody else. *)
LEMMA EmitWay ==
    ASSUME Way, NEW rs \in SUBSET Reqs, NEW signal \in {"reply", "fail"},
           inbox' = Emit(rs, signal), owner' = owner
    PROVE  /\ inbox' \in [Clients -> Seq(BoxEvents)] /\ EventsAreOwn'
           /\ \A c \in Clients, r \in Reqs : AtMostOnce(inbox'[c], Event("cached", r))
                                             /\ AtMostOnce(inbox'[c], Event("job", r))
           /\ \A x \in Reqs : \A t \in Kinds :
                  Got(t, x)' <=> Got(t, x) \/ (t = signal /\ x \in rs \cap attached)
<1>1. Types /\ EventsAreOwn /\ EventsComeOnce
  BY DEF Way
<1>2. /\ inbox' \in [Clients -> Seq(BoxEvents)]
      /\ \A c \in Clients, x \in Reqs : \A t \in Kinds :
             Contains(inbox'[c], Event(t, x)) <=>
                 \/ Contains(inbox[c], Event(t, x))
                 \/ t = signal /\ x \in rs /\ x \in attached /\ owner[x] = c
      /\ \A c \in Clients, r \in Reqs : AtMostOnce(inbox'[c], Event("cached", r))
                                        /\ AtMostOnce(inbox'[c], Event("job", r))
  BY <1>1, EmitFacts
<1>3. EventsAreOwn'
  BY <1>2 DEF Way, EventsAreOwn
<1>4. \A x \in attached : owner[x] \in Clients
  BY RoutedHasOwner DEF Way, Types
<1>5. ASSUME NEW x \in Reqs, NEW t \in Kinds
      PROVE  Got(t, x)' <=> Got(t, x) \/ (t = signal /\ x \in rs \cap attached)
  BY <1>2, <1>4 DEF Got
<1> QED BY <1>2, <1>3, <1>5

(* Requests in the table whose contexts are told, where nothing else changes  *)
(* for any request.                                                          *)
LEMMA EmitPath ==
    ASSUME Way, Others, NEW rs \in SUBSET reqContextTable, NEW signal \in {"reply", "fail"},
           inbox' = Emit(rs, signal), UNCHANGED <<owner, attached, replied>>,
           SameRequests(mgrQ, mgrQ'), reqContextTable' \subseteq reqContextTable,
           \A r \in Reqs \ rs : /\ r \in reqContextTable' <=> r \in reqContextTable
                                /\ r \in timedOut' <=> r \in timedOut
    PROVE  /\ inbox' \in [Clients -> Seq(BoxEvents)] /\ EventsAreOwn' /\ EventsComeOnce' /\ Paths'
           /\ \A r \in Reqs : Got("job", r)' <=> Got("job", r)
<1>1. UNCHANGED <<life, job, route, calls>>
  BY DEF Others, poolVars
<1>2. rs \in SUBSET Reqs
  BY DEF Way, Types
<1>3. /\ inbox' \in [Clients -> Seq(BoxEvents)] /\ EventsAreOwn'
      /\ \A c \in Clients, r \in Reqs : AtMostOnce(inbox'[c], Event("cached", r))
                                        /\ AtMostOnce(inbox'[c], Event("job", r))
      /\ \A x \in Reqs : \A t \in Kinds :
             Got(t, x)' <=> Got(t, x) \/ (t = signal /\ x \in rs \cap attached)
  BY <1>2, EmitWay
<1>4. EventsComeOnce'
  BY <1>3 DEF Way, EventsComeOnce, SameRequests
<1>5. ASSUME NEW r \in Reqs PROVE Path(r)'
  <2>1. Path(r) /\ (Submits(r)' <=> Submits(r)) /\ (Destroys(r)' <=> Destroys(r))
    BY DEF Way, Paths, SameRequests, Submits, Destroys
  <2>2. CASE r \notin rs
    <3>1. SameWay(r)
      BY <1>1, <1>3, <2>1, <2>2 DEF SameWay
    <3> QED BY <2>1, <3>1, SamePath
  <2>3. CASE r \in rs
    <3>1. ~ Submits(r) /\ route[r] # None
      BY <2>1, <2>3, RoutedHasOwner DEF Path, Queued
    <3>2. CASE r \in attached
      <4>1. Signalled(r)
        BY <1>1, <1>3, <2>1, <2>3, <3>1, <3>2 DEF Signalled, Kinds
      <4> QED BY <2>1, <4>1, SignalledPath
    <3>3. CASE r \notin attached
      <4>1. Dropped(r)
        BY <1>1, <1>3, <2>1, <2>3, <3>1, <3>3 DEF Dropped
      <4> QED BY <2>1, <4>1, DroppedPath
    <3> QED BY <3>2, <3>3
  <2> QED BY <2>2, <2>3
<1>6. \A r \in Reqs : Got("job", r)' <=> Got("job", r)
  BY <1>3 DEF Kinds
<1> QED BY <1>3, <1>4, <1>5, <1>6 DEF Paths

(* The handlers of the manager for what connections report, and its timer. *)
LEMMA ReportKeepsWay ==
    ASSUME Way, Others,
           \/ \E b \in BDs : Authenticated(b) \/ LostConnection(b)
           \/ \E r \in Reqs : Message(r) \/ requestTimeoutChecker(r)
    PROVE  Way' /\ owner' = owner /\ \A r \in Reqs : Got("job", r)' <=> Got("job", r)
<1>1. Types /\ mgrQ \in Seq(MgrEvents)
  BY DEF Way, Types
<1>2. UNCHANGED <<life, batchVars, throttleVars, cached, route, poolVars, calls, replies>>
  BY DEF Others
<1>3. ASSUME NEW b \in BDs, Authenticated(b)
      PROVE  Way' /\ owner' = owner /\ \A r \in Reqs : Got("job", r)' <=> Got("job", r)
  <2>1. /\ UNCHANGED <<connVars, reqContextTable, timedOut, bd, ctxVars>> /\ mgrQ' = Tail(mgrQ)
        /\ mgrQ # <<>> /\ Head(mgrQ) = Event("authenticated", b) /\ goodSet' \subseteq BDs
    BY <1>1, <1>3 DEF Authenticated, Handles, Types
  <2>2. SameRequests(mgrQ, mgrQ')
    BY <1>1, <2>1, ConnEventHandled
  <2>3. Types'
    BY <1>1, <1>2, <2>1, <2>2
       DEF Types, SameRequests, connVars, ctxVars, batchVars, throttleVars, poolVars
  <2>4. EventsAreOwn' /\ EventsComeOnce' /\ Paths'
    BY <2>1, <2>2, SameQueues
  <2> QED BY <2>1, <2>3, <2>4 DEF Way, ctxVars, Got
<1>4. ASSUME NEW b \in BDs, LostConnection(b)
      PROVE  Way' /\ owner' = owner /\ \A r \in Reqs : Got("job", r)' <=> Got("job", r)
  <2> DEFINE rs == {r \in reqContextTable : Alive(r) /\ bd[r] = b}
  <2>1. /\ UNCHANGED <<connVars, reqContextTable, timedOut, bd, owner, attached, replied>>
        /\ mgrQ' = Tail(mgrQ) /\ mgrQ # <<>> /\ Head(mgrQ) = Event("lost", b)
        /\ goodSet' \subseteq BDs /\ inbox' = Emit(rs, "fail")
    BY <1>1, <1>4 DEF LostConnection, Handles, Types, notifyFailForRequestsMatchingBitcoinD
  <2>2. SameRequests(mgrQ, mgrQ')
    BY <1>1, <2>1, ConnEventHandled
  <2>3. rs \in SUBSET reqContextTable
    OBVIOUS
  <2> HIDE DEF rs
  <2>4. /\ inbox' \in [Clients -> Seq(BoxEvents)] /\ EventsAreOwn' /\ EventsComeOnce' /\ Paths'
        /\ \A r \in Reqs : Got("job", r)' <=> Got("job", r)
    BY <2>1, <2>2, <2>3, EmitPath
  <2>5. Types'
    BY <1>1, <1>2, <2>1, <2>2, <2>4
       DEF Types, SameRequests, connVars, batchVars, throttleVars, poolVars
  <2> QED BY <2>1, <2>4, <2>5 DEF Way
<1>5. ASSUME NEW r \in Reqs, Message(r)
      PROVE  Way' /\ owner' = owner /\ \A x \in Reqs : Got("job", x)' <=> Got("job", x)
  <2>1. /\ UNCHANGED <<connVars, goodSet, timedOut, bd, owner, attached, replied>>
        /\ mgrQ' = Tail(mgrQ) /\ mgrQ # <<>> /\ Head(mgrQ) = Event("message", r)
        /\ reqContextTable' = reqContextTable \ {r}
        /\ inbox' = IF r \in reqContextTable THEN Emit({r}, "reply") ELSE inbox
    BY <1>5 DEF Message, Handles
  <2>2. SameRequests(mgrQ, mgrQ')
    BY <1>1, <2>1, ConnEventHandled
  <2>3. CASE r \notin reqContextTable
    <3>1. UNCHANGED <<ctxVars, reqContextTable, timedOut>>
      BY <2>1, <2>3 DEF ctxVars
    <3>2. EventsAreOwn' /\ EventsComeOnce' /\ Paths'
      BY <2>2, <3>1, SameQueues
    <3>3. Types'
      BY <1>1, <1>2, <2>1, <2>2, <3>1
         DEF Types, SameRequests, connVars, ctxVars, batchVars, throttleVars, poolVars
    <3> QED BY <3>1, <3>2, <3>3 DEF Way, ctxVars, Got
  <2>4. CASE r \in reqContextTable
    <3>1. {r} \in SUBSET reqContextTable /\ inbox' = Emit({r}, "reply")
      BY <2>1, <2>4
    <3>2. /\ inbox' \in [Clients -> Seq(BoxEvents)] /\ EventsAreOwn' /\ EventsComeOnce' /\ Paths'
          /\ \A x \in Reqs : Got("job", x)' <=> Got("job", x)
      BY <2>1, <2>2, <3>1, EmitPath
    <3>3. Types'
      BY <1>1, <1>2, <2>1, <2>2, <3>2
         DEF Types, SameRequests, connVars, batchVars, throttleVars, poolVars
    <3> QED BY <2>1, <3>2, <3>3 DEF Way
  <2> QED BY <2>3, <2>4
<1>6. ASSUME NEW r \in Reqs, requestTimeoutChecker(r)
      PROVE  Way' /\ owner' = owner /\ \A x \in Reqs : Got("job", x)' <=> Got("job", x)
  <2>1. /\ UNCHANGED <<connVars, mgrQ, goodSet, reqContextTable, bd, owner, attached, replied>>
        /\ timedOut' = timedOut \cup {r} /\ inbox' = Emit({r}, "fail")
        /\ {r} \in SUBSET reqContextTable
    BY <1>6 DEF requestTimeoutChecker
  <2>2. SameRequests(mgrQ, mgrQ')
    BY <1>1, <2>1 DEF SameRequests
  <2>3. /\ inbox' \in [Clients -> Seq(BoxEvents)] /\ EventsAreOwn' /\ EventsComeOnce' /\ Paths'
        /\ \A x \in Reqs : Got("job", x)' <=> Got("job", x)
    BY <2>1, <2>2, EmitPath
  <2>4. Types'
    BY <1>1, <1>2, <2>1, <2>2, <2>3
       DEF Types, SameRequests, connVars, batchVars, throttleVars, poolVars
  <2> QED BY <2>1, <2>3, <2>4 DEF Way
<1> QED BY <1>3, <1>4, <1>5, <1>6

(* The manager handles a submission: it fails for want of a connection, or    *)
(* the request is entered in the table.                                      *)
LEMMA SubmittedKeepsWay ==
    ASSUME Way, Others, NEW r \in Reqs, Submitted(r)
    PROVE  Way' /\ owner' = owner /\ \A x \in Reqs : Got("job", x)' <=> Got("job", x)
<1>1. Types /\ EventsAreOwn /\ EventsComeOnce /\ Paths /\ mgrQ \in Seq(MgrEvents)
  BY DEF Way, Types
<1>2. /\ UNCHANGED <<life, batchVars, throttleVars, cached, route, poolVars, calls, replies>>
      /\ UNCHANGED <<life, job, route, calls>>
  BY DEF Others, poolVars
<1>3. /\ mgrQ # <<>> /\ Head(mgrQ) = Event("submit", r)
      /\ UNCHANGED <<connected, hooked, needAuth, asked, losses, goodSet, timedOut, owner,
                     attached, replied>>
  BY DEF Submitted, Handles
<1> DEFINE q == Tail(mgrQ)
<1>4. /\ q \in Seq(MgrEvents) /\ Submits(r)
      /\ \A x \in Reqs : /\ AtMostOnce(q, Event("submit", x))
                         /\ Contains(q, Event("submit", x)) <=> Submits(x) /\ x # r
                         /\ Contains(q, Event("destroyed", x)) <=> Destroys(x)
  <2>1. \A x \in Reqs : /\ Event("submit", x) = Head(mgrQ) <=> x = r
                        /\ Event("destroyed", x) # Head(mgrQ)
    BY <1>3, EventsDiffer
  <2> QED BY <1>1, <1>3, <2>1, TailFacts DEF EventsComeOnce, Submits, Destroys
<1> HIDE DEF q
<1>5. /\ Path(r) /\ Queued(r) /\ route[r] = "bitcoind" /\ owner[r] \in Clients
      /\ r \in attached => Attached(r)
  BY <1>1, <1>4 DEF Paths, Path, Queued, None
<1>6. CASE Usable = {} /\ inbox' = Emit({r}, "fail") /\ mgrQ' = q
           /\ UNCHANGED <<bd, reqContextTable, sendQ>>
  <2>1. /\ inbox' \in [Clients -> Seq(BoxEvents)] /\ EventsAreOwn'
        /\ \A c \in Clients, x \in Reqs : AtMostOnce(inbox'[c], Event("cached", x))
                                           /\ AtMostOnce(inbox'[c], Event("job", x))
        /\ \A x \in Reqs : \A t \in Kinds :
               Got(t, x)' <=> Got(t, x) \/ (t = "fail" /\ x \in {r} \cap attached)
    BY <1>3, <1>6, EmitWay
  <2>2. EventsComeOnce'
    BY <1>4, <1>6, <2>1 DEF EventsComeOnce
  <2>3. ASSUME NEW x \in Reqs PROVE Path(x)'
    <3>1. /\ Path(x) /\ (Submits(x)' <=> Submits(x) /\ x # r) /\ (Destroys(x)' <=> Destroys(x))
      BY <1>1, <1>4, <1>6 DEF Paths, Submits, Destroys
    <3>2. CASE x # r
      <4>1. SameWay(x)
        BY <1>2, <1>3, <1>6, <2>1, <3>1, <3>2 DEF SameWay
      <4> QED BY <3>1, <4>1, SamePath
    <3>3. CASE x = r /\ r \in attached
      <4>1. Signalled(r)
        BY <1>2, <1>3, <1>5, <1>6, <2>1, <3>1, <3>3 DEF Signalled, Kinds
      <4> QED BY <1>5, <3>3, <4>1, SignalledPath
    <3>4. CASE x = r /\ r \notin attached
      <4>1. Dropped(r)
        BY <1>2, <1>3, <1>5, <1>6, <2>1, <3>1, <3>4 DEF Dropped, Kinds, None
      <4> QED BY <1>5, <3>4, <4>1, DroppedPath
    <3> QED BY <3>2, <3>3, <3>4
  <2>4. Types'
    BY <1>1, <1>2, <1>3, <1>4, <1>6, <2>1 DEF Types, batchVars, throttleVars, poolVars
  <2> QED BY <1>1, <1>3, <2>1, <2>2, <2>3, <2>4 DEF Way, Paths, Kinds
<1>7. ASSUME NEW b \in Usable,
             bd' = [bd EXCEPT ![r] = b], reqContextTable' = reqContextTable \cup {r},
             sendQ' = IF b \in hooked THEN [sendQ EXCEPT ![b] = Append(@, r)] ELSE sendQ,
             mgrQ' = IF Held(r, attached, inbox, q) THEN q ELSE Append(q, Event("destroyed", r)),
             UNCHANGED inbox
      PROVE  Way' /\ owner' = owner /\ \A x \in Reqs : Got("job", x)' <=> Got("job", x)
  <2>1. Held(r, attached, inbox, q) <=>
            r \in attached \/ \E t \in Kinds : Got(t, r)
    <3>1. inbox \in [Clients -> Seq(BoxEvents)]
      BY <1>1 DEF Types
    <3>2. \A c \in Clients : \A t \in Kinds : Contains(inbox[c], Event(t, r)) => owner[r] = c
      BY <1>1 DEF EventsAreOwn
    <3>3. Held(r, attached, inbox, q) <=>
              \/ r \in attached \/ Contains(q, Event("submit", r))
              \/ \E t \in Kinds : \E c \in Clients : Contains(inbox[c], Event(t, r))
      BY <1>5, <3>1, <3>2, HeldFacts
    <3> QED BY <1>4, <3>3 DEF Got
  <2>2. ~ \E t \in Kinds : Got(t, r)
    <3>1. job[r] = None /\ ~ Got("job", r)
      BY <1>5 DEF Path, None
    <3> QED BY <1>5, <3>1 DEF Queued, Kinds
  <2>3. /\ mgrQ' \in Seq(MgrEvents)
        /\ \A x \in Reqs : /\ AtMostOnce(mgrQ', Event("submit", x))
                           /\ Submits(x)' <=> Submits(x) /\ x # r
                           /\ Destroys(x)' <=> Destroys(x) \/ (x = r /\ r \notin attached)
    <3>1. CASE r \in attached
      <4>1. mgrQ' = q
        BY <1>7, <2>1, <3>1
      <4> QED BY <1>4, <3>1, <4>1 DEF Submits, Destroys
    <3>2. CASE r \notin attached
      <4>1. mgrQ' = Append(q, Event("destroyed", r)) /\ Event("destroyed", r) \in MgrEvents
        BY <1>7, <2>1, <2>2, <3>2, MgrEventFacts
      <4>2. /\ mgrQ' \in Seq(MgrEvents)
            /\ \A e : Contains(mgrQ', e) <=> Contains(q, e) \/ e = Event("destroyed", r)
            /\ \A e : /\ AtMostOnce(q, e) 
                      /\ (e = Event("destroyed", r) => ~ Contains(q, e))
                      => AtMostOnce(mgrQ', e)
        BY <1>4, <4>1, AppendFacts
      <4>3. \A x \in Reqs : /\ Event("submit", x) # Event("destroyed", r)
                            /\ Event("destroyed", x) = Event("destroyed", r) <=> x = r
        BY EventsDiffer
      <4>4. ASSUME NEW x \in Reqs
            PROVE  /\ AtMostOnce(mgrQ', Event("submit", x))
                   /\ Submits(x)' <=> Submits(x) /\ x # r
                   /\ Destroys(x)' <=> Destroys(x) \/ (x = r /\ r \notin attached)
        <5>1. AtMostOnce(mgrQ', Event("submit", x))
          BY <1>4, <4>2, <4>3
        <5>2. Submits(x)' <=> Submits(x) /\ x # r
          BY <1>4, <4>2, <4>3 DEF Submits
        <5>3. Destroys(x)' <=> Destroys(x) \/ (x = r /\ r \notin attached)
          BY <1>4, <3>2, <4>2, <4>3 DEF Destroys
        <5> QED BY <5>1, <5>2, <5>3
      <4> QED BY <4>2, <4>4
    <3> QED BY <3>1, <3>2
  <2>4. EventsAreOwn' /\ EventsComeOnce'
    BY <1>1, <1>3, <1>7, <2>3 DEF EventsAreOwn, EventsComeOnce
  <2>5. \A x \in Reqs : \A t \in Kinds : Got(t, x)' <=> Got(t, x)
    BY <1>7 DEF Got
  <2>6. ASSUME NEW x \in Reqs PROVE Path(x)'
    <3>1. CASE x # r
      <4>1. SameWay(x)
        BY <1>2, <1>3, <1>7, <2>3, <2>5, <3>1 DEF SameWay
      <4> QED BY <1>1, <4>1, SamePath DEF Paths
    <3>2. CASE x = r
      <4>1. \A t \in Kinds : ~ Got(t, r)'
        BY <2>2, <2>5
      <4>2. ~ Submits(r)' /\ (Destroys(r)' <=> Destroys(r) \/ r \notin attached)
            /\ r \in reqContextTable'
        BY <1>7, <2>3
      <4> QED BY <1>2, <1>3, <1>5, <3>2, <4>1, <4>2
              DEF Path, Attached, Queued, FromCache, Keeps, Kinds, None
    <3> QED BY <3>1, <3>2
  <2>7. b \in BDs
    BY <1>1 DEF Usable, Types
  <2>8. sendQ' \in [BDs -> Seq(Reqs)] /\ bd' \in [Reqs -> BDs \cup {None}]
        /\ reqContextTable' \subseteq Reqs
    <3>1. sendQ[b] \in Seq(Reqs) /\ Append(sendQ[b], r) \in Seq(Reqs)
      BY <1>1, <2>7, AppendFacts DEF Types
    <3> QED BY <1>1, <1>7, <2>7, <3>1 DEF Types
  <2>9. Types'
    BY <1>1, <1>2, <1>3, <1>7, <2>3, <2>8 DEF Types, batchVars, throttleVars, poolVars
  <2> QED BY <1>3, <2>4, <2>5, <2>6, <2>9 DEF Way, Paths, Kinds
<1> QED BY <1>6, <1>7 DEF Submitted, q

(* The manager hears of the end of a context. *)
LEMMA DestroyedKeepsWay ==
    ASSUME Way, Others, NEW r \in Reqs, Destroyed(r)
    PROVE  Way' /\ UNCHANGED <<owner, inbox>>
<1>1. Types /\ EventsAreOwn /\ EventsComeOnce /\ Paths /\ mgrQ \in Seq(MgrEvents)
  BY DEF Way, Types
<1>2. /\ UNCHANGED <<life, batchVars, throttleVars, cached, route, poolVars, calls, replies>>
      /\ UNCHANGED <<life, job, route, calls>>
  BY DEF Others, poolVars
<1>3. /\ mgrQ # <<>> /\ Head(mgrQ) = Event("destroyed", r) /\ mgrQ' = Tail(mgrQ)
      /\ reqContextTable' = reqContextTable \ {r}
      /\ UNCHANGED <<connVars, goodSet, timedOut, bd, ctxVars>>
      /\ UNCHANGED <<owner, attached, replied, inbox>>
  BY DEF Destroyed, Handles, ctxVars
<1>4. /\ mgrQ' \in Seq(MgrEvents) /\ Destroys(r)
      /\ \A x \in Reqs : /\ AtMostOnce(mgrQ', Event("submit", x))
                         /\ Submits(x)' <=> Submits(x)
                         /\ Destroys(x)' => Destroys(x)
                         /\ x # r => (Destroys(x)' <=> Destroys(x))
  <2>1. \A x \in Reqs : /\ Event("destroyed", x) = Head(mgrQ) <=> x = r
                        /\ Event("submit", x) # Head(mgrQ)
    BY <1>3, EventsDiffer
  <2> QED BY <1>1, <1>3, <2>1, TailFacts DEF EventsComeOnce, Submits, Destroys
<1>5. EventsAreOwn' /\ EventsComeOnce'
  BY <1>1, <1>3, <1>4 DEF EventsAreOwn, EventsComeOnce
<1>6. \A x \in Reqs : \A t \in Kinds : Got(t, x)' <=> Got(t, x)
  BY <1>3 DEF Got
<1>7. ASSUME NEW x \in Reqs PROVE Path(x)'
  <2>1. CASE x # r
    <3>1. SameWay(x)
      BY <1>2, <1>3, <1>4, <1>6, <2>1 DEF SameWay
    <3> QED BY <1>1, <3>1, SamePath DEF Paths
  <2>2. CASE x = r
    <3>1. Path(r) /\ r \notin attached /\ route[r] # None
      BY <1>1, <1>4 DEF Paths, Path, None
    <3>2. Dropped(r)
      BY <1>2, <1>3, <1>4, <1>6, <3>1 DEF Dropped
    <3> QED BY <2>2, <3>1, <3>2, DroppedPath
  <2> QED BY <2>1, <2>2
<1>8. Types'
  BY <1>1, <1>2, <1>3, <1>4 DEF Types, connVars, ctxVars, batchVars, throttleVars, poolVars
<1> QED BY <1>3, <1>5, <1>7, <1>8 DEF Way, Paths

-----------------------------------------------------------------------------
(* The clients *)

(* A client is given the answer of the cache or of a job. *)
LEMMA BoxAppend ==
    ASSUME Types, EventsComeOnce, NEW c \in Clients, NEW r \in Reqs,
           NEW k \in {"cached", "job"}, ~ Got(k, r),
           inbox' = [inbox EXCEPT ![c] = Append(@, Event(k, r))]
    PROVE  /\ inbox' \in [Clients -> Seq(BoxEvents)]
           /\ \A d \in Clients, x \in Reqs : /\ AtMostOnce(inbox'[d], Event("cached", x))
                                             /\ AtMostOnce(inbox'[d], Event("job", x))
           /\ \A d \in Clients, x \in Reqs : \A u \in Kinds :
                  Contains(inbox'[d], Event(u, x)) <=>
                      Contains(inbox[d], Event(u, x)) \/ (d = c /\ u = k /\ x = r)
           /\ \A x \in Reqs : \A u \in Kinds : Got(u, x)' <=> Got(u, x) \/ (u = k /\ x = r)
<1>1. inbox \in [Clients -> Seq(BoxEvents)] /\ inbox[c] \in Seq(BoxEvents)
  BY DEF Types
<1>2. Event(k, r) \in BoxEvents /\ ~ Contains(inbox[c], Event(k, r)) /\ k \in Kinds
  BY BoxEventFacts DEF Kinds, Got
<1>3. /\ inbox'[c] = Append(inbox[c], Event(k, r))
      /\ \A d \in Clients \ {c} : inbox'[d] = inbox[d]
  BY <1>1
<1>4. /\ inbox'[c] \in Seq(BoxEvents)
      /\ \A e : Contains(inbox'[c], e) <=> Contains(inbox[c], e) \/ e = Event(k, r)
      /\ \A e : AtMostOnce(inbox[c], e) => AtMostOnce(inbox'[c], e)
  BY <1>1, <1>2, <1>3, AppendFacts
<1>5. inbox' \in [Clients -> Seq(BoxEvents)]
  BY <1>1, <1>4
<1>6. ASSUME NEW d \in Clients, NEW x \in Reqs, NEW u \in Kinds
      PROVE  Contains(inbox'[d], Event(u, x)) <=>
                 Contains(inbox[d], Event(u, x)) \/ (d = c /\ u = k /\ x = r)
  <2>1. Event(u, x) = Event(k, r) <=> u = k /\ x = r
    BY EventsDiffer
  <2> QED BY <1>3, <1>4, <2>1
<1>7. ASSUME NEW d \in Clients, NEW x \in Reqs
      PROVE  AtMostOnce(inbox'[d], Event("cached", x)) /\ AtMostOnce(inbox'[d], Event("job", x))
  <2>1. AtMostOnce(inbox[d], Event("cached", x)) /\ AtMostOnce(inbox[d], Event("job", x))
    BY DEF EventsComeOnce
  <2> QED BY <1>3, <1>4, <2>1
<1>8. ASSUME NEW x \in Reqs, NEW u \in Kinds
      PROVE  Got(u, x)' <=> Got(u, x) \/ (u = k /\ x = r)
  BY <1>6 DEF Got
<1> QED BY <1>5, <1>6, <1>7, <1>8

(* A client handles the first of its events. *)
LEMMA BoxTail ==
    ASSUME Types, EventsAreOwn, EventsComeOnce, NEW c \in Clients, inbox[c] # <<>>,
           NEW k \in Kinds, NEW r \in Reqs, Head(inbox[c]) = Event(k, r),
           inbox' = [inbox EXCEPT ![c] = Tail(@)], owner' = owner
    PROVE  /\ inbox' \in [Clients -> Seq(BoxEvents)] /\ owner[r] = c /\ Got(k, r)
           /\ EventsAreOwn'
           /\ \A d \in Clients, x \in Reqs : /\ AtMostOnce(inbox'[d], Event("cached", x))
                                             /\ AtMostOnce(inbox'[d], Event("job", x))
           /\ \A x \in Reqs : \A u \in Kinds : Got(u, x)' => Got(u, x)
           /\ \A x \in Reqs : \A u \in Kinds : Got(u, x) /\ (u # k \/ x # r) => Got(u, x)'
           /\ k \in {"cached", "job"} => ~ Got(k, r)'
<1>1. inbox \in [Clients -> Seq(BoxEvents)] /\ inbox[c] \in Seq(BoxEvents)
  BY DEF Types
<1>2. /\ inbox'[c] = Tail(inbox[c])
      /\ \A d \in Clients \ {c} : inbox'[d] = inbox[d]
  BY <1>1
<1>3. /\ inbox'[c] \in Seq(BoxEvents) /\ Contains(inbox[c], Event(k, r))
      /\ \A e : Contains(inbox'[c], e) => Contains(inbox[c], e)
      /\ \A e : Contains(inbox[c], e) /\ e # Event(k, r) => Contains(inbox'[c], e)
      /\ \A e : AtMostOnce(inbox[c], e) => AtMostOnce(inbox'[c], e)
      /\ AtMostOnce(inbox[c], Event(k, r)) => ~ Contains(inbox'[c], Event(k, r))
  BY <1>1, <1>2, TailFacts
<1>4. inbox' \in [Clients -> Seq(BoxEvents)]
  BY <1>1, <1>3
<1>5. owner[r] = c /\ Got(k, r)
  BY <1>3 DEF EventsAreOwn, Got
<1>6. ASSUME NEW d \in Clients, NEW x \in Reqs, NEW u \in Kinds
      PROVE  /\ Contains(inbox'[d], Event(u, x)) => Contains(inbox[d], Event(u, x))
             /\ Contains(inbox[d], Event(u, x)) /\ (u # k \/ x # r) =>
                    Contains(inbox'[d], Event(u, x))
  <2>1. Event(u, x) = Event(k, r) <=> u = k /\ x = r
    BY EventsDiffer
  <2> QED BY <1>2, <1>3, <2>1
<1>7. EventsAreOwn'
  BY <1>6 DEF EventsAreOwn
<1>8. ASSUME NEW d \in Clients, NEW x \in Reqs
      PROVE  AtMostOnce(inbox'[d], Event("cached", x)) /\ AtMostOnce(inbox'[d], Event("job", x))
  <2>1. AtMostOnce(inbox[d], Event("cached", x)) /\ AtMostOnce(inbox[d], Event("job", x))
    BY DEF EventsComeOnce
  <2> QED BY <1>2, <1>3, <2>1
<1>9. ASSUME NEW x \in Reqs, NEW u \in Kinds
      PROVE  /\ Got(u, x)' => Got(u, x)
             /\ Got(u, x) /\ (u # k \/ x # r) => Got(u, x)'
  BY <1>6 DEF Got
<1>10. ASSUME k \in {"cached", "job"} PROVE ~ Got(k, r)'
  <2>1. ~ Contains(inbox'[c], Event(k, r))
    BY <1>3, <1>10 DEF EventsComeOnce
  <2>2. \A d \in Clients \ {c} : ~ Contains(inbox'[d], Event(k, r))
    BY <1>5, <1>6 DEF EventsAreOwn
  <2> QED BY <2>1, <2>2 DEF Got
<1> QED BY <1>4, <1>5, <1>7, <1>8, <1>9, <1>10

(* The events a client takes are those of its requests. *)
LEMMA ArrivedFacts ==
    ASSUME Types, NEW c \in Clients, inbox[c] # <<>>
    PROVE  /\ Head(inbox[c]).type \in Kinds /\ Head(inbox[c]).of \in Reqs
           /\ Head(inbox[c]) = Event(Head(inbox[c]).type, Head(inbox[c]).of)
<1>1. inbox[c] \in Seq(BoxEvents)
  BY DEF Types
<1>2. Head(inbox[c]) \in BoxEvents
  BY <1>1, TailFacts
<1> QED BY <1>2, BoxEventFacts

(* What an answer changes. *)
LEMMA DeliverTypes ==
    ASSUME Types, next' \in [Clients -> Nat], NEW c \in Clients, NEW r \in Reqs, Deliver(c, r)
    PROVE  /\ responses' \in [Clients -> Seq(Reqs)] /\ killed' \in [Clients -> BOOLEAN]
           /\ again' \in [Clients -> BOOLEAN] /\ replies' \in [Reqs -> Nat]
<1>1. /\ responses \in [Clients -> Seq(Reqs)] /\ killed \in [Clients -> BOOLEAN]
      /\ again \in [Clients -> BOOLEAN] /\ replies \in [Reqs -> Nat]
  BY DEF Types
<1>2. CASE /\ life[c] = "up" /\ ~Batched(c, r)
           /\ replies' = [replies EXCEPT ![r] = @ + 1]
           /\ UNCHANGED <<responses, killed, again>>
  BY <1>1, <1>2
<1>3. CASE /\ responses' = [responses EXCEPT ![c] = Append(@, r)]
           /\ \E kill \in BOOLEAN :
                 /\ killed' = [killed EXCEPT ![c] = @ \/ kill]
                 /\ again' = [again EXCEPT ![c] = @ \/ kill \/ isComplete(c, next'[c], responses'[c])]
           /\ UNCHANGED replies
  <2>1. responses' \in [Clients -> Seq(Reqs)]
    <3>1. Append(responses[c], r) \in Seq(Reqs)
      BY <1>1, AppendFacts
    <3> QED BY <1>1, <1>3, <3>1
  <2>2. PICK kill \in BOOLEAN :
                 /\ killed' = [killed EXCEPT ![c] = @ \/ kill]
                 /\ again' = [again EXCEPT ![c] = @ \/ kill \/ isComplete(c, next'[c], responses'[c])]
    BY <1>3
  <2>3. (killed[c] \/ kill) \in BOOLEAN
        /\ (again[c] \/ kill \/ isComplete(c, next'[c], responses'[c])) \in BOOLEAN
    OBVIOUS
  <2>4. killed' \in [Clients -> BOOLEAN]
    BY <1>1, <2>2, <2>3
  <2>5. again' \in [Clients -> BOOLEAN]
    BY <1>1, <2>2, <2>3
  <2> QED BY <1>1, <1>3, <2>1, <2>4, <2>5
<1>4. CASE UNCHANGED <<responses, killed, again, replies>>
  BY <1>1, <1>4
<1> QED BY <1>2, <1>3, <1>4 DEF Deliver

(* No client is destroyed by the step, and none comes back. *)
SameLives == \A c \in Clients : life'[c] = "gone" <=> life[c] = "gone"

(* A step that concerns the batches and the counters only. *)
LEMMA QuietWay ==
    ASSUME Way, Types', UNCHANGED <<bdVars, route, job, calls>>, SameLives
    PROVE  Way' /\ owner' = owner /\ \A x \in Reqs : Got("job", x)' <=> Got("job", x)
<1>1. UNCHANGED <<mgrQ, reqContextTable, timedOut, owner, attached, replied, inbox>>
  BY DEF bdVars, ctxVars
<1>2. EventsAreOwn' /\ EventsComeOnce'
  BY <1>1 DEF Way, EventsAreOwn, EventsComeOnce
<1>3. ASSUME NEW r \in Reqs PROVE Path(r)'
  <2>1. Path(r) /\ (route[r] # None => owner[r] \in Clients)
    BY DEF Way, Paths, Path
  <2>2. SameWay(r)
    BY <1>1, <2>1 DEF SameWay, Submits, Destroys, Got, SameLives
  <2> QED BY <2>1, <2>2, SamePath
<1> QED BY <1>1, <1>2, <1>3 DEF Way, Paths, Got

(* The job of a request goes on. *)
JobMoves(r) ==
    /\ owner'[r] = owner[r] /\ route'[r] = route[r] /\ calls'[r] = calls[r]
    /\ job[r] # None /\ job'[r] # None
    /\ Got("job", r)' => job'[r] \in {"ran", "deleted"}
    /\ (r \in attached' <=> r \in attached) /\ (r \in replied' <=> r \in replied)
    /\ (r \in reqContextTable' <=> r \in reqContextTable)
    /\ (r \in timedOut' <=> r \in timedOut)
    /\ (Submits(r)' <=> Submits(r)) /\ (Destroys(r)' <=> Destroys(r))
    /\ \A t \in Kinds \ {"job"} : Got(t, r)' <=> Got(t, r)

(* A request to the pool is nowhere else. *)
LEMMA JobMovesPath ==
    ASSUME NEW r \in Reqs, Path(r), JobMoves(r)
    PROVE  Path(r)'
<1>1. {"reply", "fail", "cached"} \subseteq Kinds \ {"job"}
  BY DEF Kinds
<1>2. route[r] = "pool" /\ route[r] # None /\ route[r] # "bitcoind"
  BY DEF Path, JobMoves, None
<1>3. /\ r \notin attached /\ r \notin replied /\ ~ Submits(r) /\ ~ Destroys(r)
      /\ r \notin reqContextTable /\ ~ Got("reply", r) /\ ~ Got("fail", r) /\ ~ Got("cached", r)
      /\ calls[r] = 0 /\ owner[r] \in Clients
  BY <1>2 DEF Path, Attached, Queued, FromCache
<1>4. /\ r \notin attached' /\ r \notin replied' /\ ~ Submits(r)' /\ ~ Destroys(r)'
      /\ r \notin reqContextTable' /\ ~ Got("reply", r)' /\ ~ Got("fail", r)' /\ ~ Got("cached", r)'
      /\ calls'[r] = 0 /\ owner'[r] \in Clients /\ route'[r] = "pool" /\ job'[r] # None
      /\ Got("job", r)' => job'[r] \in {"ran", "deleted"}
  BY <1>1, <1>2, <1>3 DEF JobMoves
<1>5. calls'[r] <= 1
  BY <1>4
<1> QED BY <1>2, <1>4, <1>5 DEF Path, JobMoves

(* The cache answers a request. *)
CacheMoves(r) ==
    /\ owner'[r] = owner[r] /\ route'[r] = route[r] /\ job'[r] = job[r]
    /\ FromCache(r) /\ calls'[r] = 1 /\ ~ Got("cached", r)'
    /\ (r \in attached' <=> r \in attached) /\ (r \in replied' <=> r \in replied)
    /\ (r \in reqContextTable' <=> r \in reqContextTable)
    /\ (Submits(r)' <=> Submits(r)) /\ (Destroys(r)' <=> Destroys(r))
    /\ \A t \in Kinds \ {"cached"} : Got(t, r)' <=> Got(t, r)

(* The manager knows nothing of a request the cache answers. *)
LEMMA CacheMovesPath ==
    ASSUME NEW r \in Reqs, Path(r), Got("cached", r), CacheMoves(r)
    PROVE  Path(r)'
<1>1. {"reply", "fail", "job"} \subseteq Kinds \ {"cached"}
  BY DEF Kinds
<1>2. route[r] = "bitcoind" /\ calls[r] = 0 /\ r \notin attached /\ r \notin replied
      /\ r \notin reqContextTable /\ ~ Submits(r) /\ ~ Got("reply", r) /\ ~ Got("fail", r)
      /\ owner[r] \in Clients /\ job[r] = None /\ ~ Got("job", r)
  BY DEF CacheMoves, FromCache, Path, Queued, None
<1>3. calls'[r] = 1 /\ calls'[r] <= 1
  BY DEF CacheMoves
<1> QED BY <1>1, <1>2, <1>3 DEF CacheMoves, Path, None

(* A sender handles a signal of a context. *)
Answered(r) ==
    /\ owner'[r] = owner[r] /\ route'[r] = route[r] /\ job'[r] = job[r]
    /\ Got("reply", r) \/ Got("fail", r)
    /\ calls'[r] = IF r \in replied THEN calls[r] ELSE calls[r] + 1
    /\ r \notin attached' /\ r \in replied'
    /\ r \in reqContextTable' <=> r \in reqContextTable
    /\ (Submits(r)' <=> Submits(r)) /\ (Destroys(r) => Destroys(r)')
    /\ Destroys(r)' => Destroys(r) \/ r \in reqContextTable
    /\ r \in reqContextTable => Destroys(r)' \/ Got("reply", r)' \/ Got("fail", r)' \/ Submits(r)
    /\ \A t \in Kinds : Got(t, r)' => Got(t, r)

(* A context that has answered is not kept. *)
LEMMA AnsweredPath ==
    ASSUME NEW r \in Reqs, Path(r), Answered(r), calls[r] \in Nat
    PROVE  Path(r)'
<1>1. "reply" \in Kinds /\ "fail" \in Kinds /\ "cached" \in Kinds /\ "job" \in Kinds
  BY DEF Kinds
<1>2. route[r] = "bitcoind" /\ route[r] # None /\ r \in attached \cup replied
  BY DEF Path, Answered, Attached, None
<1>3. job[r] = None /\ ~ Got("job", r) /\ ~ Got("cached", r) /\ ~ Submits(r)
      /\ owner[r] \in Clients
  BY <1>2 DEF Path, Answered, Attached, FromCache, Queued, None
<1>4. calls'[r] = 1
  <2>1. CASE r \in replied
    BY <2>1 DEF Answered, Path
  <2>2. CASE r \notin replied
    BY <1>2, <2>2 DEF Answered, Path, Attached
  <2> QED BY <2>1, <2>2
<1>5. calls'[r] <= 1
  BY <1>4
<1> QED BY <1>1, <1>2, <1>3, <1>4, <1>5 DEF Answered, Path, Keeps, None

(* The client of a request goes. *)
Orphaned(r) ==
    /\ owner'[r] = owner[r] /\ route'[r] = route[r] /\ job'[r] = job[r] /\ calls'[r] = calls[r]
    /\ r \notin attached' /\ (r \in replied' <=> r \in replied)
    /\ (r \in reqContextTable' <=> r \in reqContextTable)
    /\ (r \in timedOut' <=> r \in timedOut)
    /\ (Submits(r)' <=> Submits(r)) /\ (Destroys(r) => Destroys(r)')
    /\ Destroys(r)' => Destroys(r) \/ r \in reqContextTable
    /\ r \in reqContextTable /\ Keeps(r) => Destroys(r)' \/ Submits(r)
    /\ \A t \in Kinds : ~ Got(t, r)'
    /\ life'[owner[r]] = "gone"

(* No context is kept for a client that is gone. *)
LEMMA OrphanedPath ==
    ASSUME NEW r \in Reqs, Path(r), Orphaned(r)
    PROVE  Path(r)'
<1>1. "reply" \in Kinds /\ "fail" \in Kinds /\ "cached" \in Kinds /\ "job" \in Kinds
  BY DEF Kinds
<1>2. (Unrouted(r) => Unrouted(r)')
  BY DEF Orphaned, Unrouted
<1>3. Submits(r)' => Queued(r)'
  BY <1>1 DEF Orphaned, Path, Queued
<1>4. r \in reqContextTable' => route'[r] = "bitcoind" /\ (Keeps(r)' \/ Destroys(r)')
  BY DEF Orphaned, Path, Keeps
<1>5. Destroys(r)' => route'[r] = "bitcoind" /\ r \notin attached'
  BY DEF Orphaned, Path
<1> QED BY <1>1, <1>2, <1>3, <1>4, <1>5 DEF Orphaned, Path

(* A handler is called for a request, which sends it one of its ways. *)
Routed(r) ==
    /\ route[r] = None /\ owner'[r] \in Clients /\ life'[owner'[r]] # "gone"
    /\ calls'[r] = calls[r] /\ (r \in replied' <=> r \in replied)
    /\ (r \in reqContextTable' <=> r \in reqContextTable)
    /\ (r \in timedOut' <=> r \in timedOut) /\ (Destroys(r)' <=> Destroys(r))
    /\ \A t \in Kinds \ {"cached"} : Got(t, r)' <=> Got(t, r)
    /\ \/ /\ route'[r] \in {"now", "refused"} /\ job'[r] = job[r]
          /\ (r \in attached' <=> r \in attached) /\ (Submits(r)' <=> Submits(r))
          /\ (Got("cached", r)' <=> Got("cached", r))
       \/ /\ route'[r] = "pool" /\ job'[r] # None
          /\ (r \in attached' <=> r \in attached) /\ (Submits(r)' <=> Submits(r))
          /\ (Got("cached", r)' <=> Got("cached", r))
       \/ /\ route'[r] = "bitcoind" /\ job'[r] = job[r]
          /\ (r \in attached' <=> r \in attached) /\ (Submits(r)' <=> Submits(r))
          /\ Got("cached", r)'
       \/ /\ route'[r] = "bitcoind" /\ job'[r] = job[r]
          /\ r \in attached' /\ Submits(r)'
          /\ (Got("cached", r)' <=> Got("cached", r))

(* Each way begins at its beginning. *)
LEMMA RoutedPath ==
    ASSUME NEW r \in Reqs, Path(r), Routed(r)
    PROVE  Path(r)'
<1>1. Kinds = {"reply", "fail", "cached", "job"}
  BY DEF Kinds
<1>2. Unrouted(r)
  BY DEF Path, Routed
<1>3. /\ calls'[r] = 0 /\ r \notin replied' /\ r \notin reqContextTable' /\ r \notin timedOut'
      /\ ~ Destroys(r)' /\ ~ Got("reply", r)' /\ ~ Got("fail", r)' /\ ~ Got("job", r)'
      /\ calls'[r] <= 1
  BY <1>1, <1>2 DEF Routed, Unrouted
<1>4. r \notin attached /\ ~ Submits(r) /\ ~ Got("cached", r) /\ job[r] = None
  BY <1>1, <1>2 DEF Unrouted
<1> QED BY <1>1, <1>3, <1>4 DEF Routed, Path, Attached, Queued, FromCache, Keeps, None

(* The handler of a request of a client that is connected. *)
LEMMA OnMessageWay ==
    ASSUME Way, NEW c \in Clients, NEW r \in Reqs, route[r] = None, life[c] = "up",
           owner' \in [Reqs -> Clients \cup {None}], owner'[r] = c,
           \A x \in Reqs \ {r} : owner'[x] = owner[x],
           onMessage(c, r), UNCHANGED <<reqContextTable, timedOut, replied, calls>>
    PROVE  /\ EventsAreOwn' /\ EventsComeOnce' /\ Paths'
           /\ attached' \subseteq Reqs /\ mgrQ' \in Seq(MgrEvents)
           /\ inbox' \in [Clients -> Seq(BoxEvents)]
           /\ \A x \in Reqs : Got("job", x)' <=> Got("job", x)
<1>1. Types /\ EventsAreOwn /\ EventsComeOnce /\ Paths /\ mgrQ \in Seq(MgrEvents)
      /\ route \in [Reqs -> {None, "now", "refused", "pool", "bitcoind"}]
      /\ job \in [Reqs -> {None, "rejecting", "queued", "ran", "deleted"}]
      /\ life \in [Clients -> {"up", "closing", "gone"}] /\ attached \subseteq Reqs
      /\ inbox \in [Clients -> Seq(BoxEvents)]
  BY DEF Way, Types
<1>2. Unrouted(r) /\ Path(r)
  BY <1>1 DEF Paths, Path
<1>3. /\ \A x \in Reqs \ {r} : route'[x] = route[x] /\ job'[x] = job[x]
      /\ SameLives /\ life'[c] # "gone"
  <2>1. \A x \in Reqs \ {r} : route'[x] = route[x]
    BY <1>1 DEF onMessage
  <2>2. \A x \in Reqs \ {r} : job'[x] = job[x]
    BY <1>1 DEF onMessage, poolVars, submitWork
  <2>3. life' = life \/ life' = [life EXCEPT ![c] = "closing"]
    BY DEF onMessage, Refuse
  <2> QED BY <1>1, <2>1, <2>2, <2>3 DEF SameLives
<1>4. CASE /\ UNCHANGED <<inbox, attached, mgrQ>>
           /\ \/ route'[r] \in {"now", "refused"} /\ job'[r] = job[r]
              \/ route'[r] = "pool" /\ job'[r] # None
  <2>1. \A x \in Reqs : /\ Submits(x)' <=> Submits(x)
                        /\ Destroys(x)' <=> Destroys(x)
                        /\ \A t \in Kinds : Got(t, x)' <=> Got(t, x)
    BY <1>4 DEF Submits, Destroys, Got
  <2>2. EventsAreOwn' /\ EventsComeOnce'
    BY <1>1, <1>2, <1>4 DEF EventsAreOwn, EventsComeOnce, Unrouted, Got
  <2>3. Routed(r)
    BY <1>3, <1>4, <2>1 DEF Routed, Kinds
  <2>4. ASSUME NEW x \in Reqs \ {r} PROVE Path(x)'
    <3>1. Path(x) /\ (route[x] # None => owner[x] \in Clients)
      BY <1>1 DEF Paths, Path
    <3>2. SameWay(x)
      BY <1>3, <1>4, <2>1, <3>1 DEF SameWay, SameLives
    <3> QED BY <3>1, <3>2, SamePath
  <2> QED BY <1>1, <1>2, <1>4, <2>1, <2>2, <2>3, <2>4, RoutedPath DEF Paths, Kinds
<1>5. CASE /\ UNCHANGED <<attached, mgrQ>> /\ route'[r] = "bitcoind" /\ job'[r] = job[r]
           /\ inbox' = [inbox EXCEPT ![c] = Append(@, Event("cached", r))]
  <2>1. ~ Got("cached", r) /\ "cached" \in {"cached", "job"} /\ "cached" \in Kinds
    BY <1>2 DEF Unrouted, Kinds
  <2>2. /\ inbox' \in [Clients -> Seq(BoxEvents)]
        /\ \A d \in Clients, x \in Reqs : /\ AtMostOnce(inbox'[d], Event("cached", x))
                                          /\ AtMostOnce(inbox'[d], Event("job", x))
        /\ \A d \in Clients, x \in Reqs : \A u \in Kinds :
               Contains(inbox'[d], Event(u, x)) <=>
                   Contains(inbox[d], Event(u, x)) \/ (d = c /\ u = "cached" /\ x = r)
        /\ \A x \in Reqs : \A u \in Kinds : Got(u, x)' <=> Got(u, x) \/ (u = "cached" /\ x = r)
    BY <1>1, <1>5, <2>1, BoxAppend
  <2>3. \A x \in Reqs : (Submits(x)' <=> Submits(x)) /\ (Destroys(x)' <=> Destroys(x))
    BY <1>5 DEF Submits, Destroys
  <2>4. EventsAreOwn'
    BY <1>1, <1>2, <2>2 DEF EventsAreOwn, Unrouted, Got
  <2>5. EventsComeOnce'
    BY <1>1, <1>5, <2>2 DEF EventsComeOnce
  <2>6. Routed(r)
    BY <1>3, <1>5, <2>1, <2>2, <2>3 DEF Routed
  <2>7. ASSUME NEW x \in Reqs \ {r} PROVE Path(x)'
    <3>1. Path(x) /\ (route[x] # None => owner[x] \in Clients)
      BY <1>1 DEF Paths, Path
    <3>2. SameWay(x)
      BY <1>3, <1>5, <2>2, <2>3, <3>1 DEF SameWay, SameLives
    <3> QED BY <3>1, <3>2, SamePath
  <2> QED BY <1>1, <1>2, <1>5, <2>2, <2>4, <2>5, <2>6, <2>7, RoutedPath DEF Paths, Kinds
<1>6. CASE /\ inbox' = inbox /\ route'[r] = "bitcoind" /\ job'[r] = job[r] /\ submitRequest(r)
  <2>1. attached' = attached \cup {r} /\ mgrQ' = Append(mgrQ, Event("submit", r))
        /\ Event("submit", r) \in MgrEvents
    BY <1>6, MgrEventFacts DEF submitRequest
  <2>2. ~ Contains(mgrQ, Event("submit", r))
    BY <1>2 DEF Unrouted, Submits
  <2>3. /\ mgrQ' \in Seq(MgrEvents)
        /\ \A e : Contains(mgrQ', e) <=> Contains(mgrQ, e) \/ e = Event("submit", r)
        /\ \A e : AtMostOnce(mgrQ, e) /\ (e = Event("submit", r) => ~ Contains(mgrQ, e))
                      => AtMostOnce(mgrQ', e)
    BY <1>1, <2>1, AppendFacts
  <2>4. \A x \in Reqs : /\ Event("submit", x) = Event("submit", r) <=> x = r
                        /\ Event("destroyed", x) # Event("submit", r)
    BY EventsDiffer
  <2>5. \A x \in Reqs : (Submits(x)' <=> Submits(x) \/ x = r) /\ (Destroys(x)' <=> Destroys(x))
    BY <2>3, <2>4 DEF Submits, Destroys
  <2>6. \A x \in Reqs : \A t \in Kinds : Got(t, x)' <=> Got(t, x)
    BY <1>6 DEF Got
  <2>7. EventsAreOwn'
    BY <1>1, <1>2, <1>6 DEF EventsAreOwn, Unrouted, Got
  <2>8. EventsComeOnce'
    BY <1>1, <1>6, <2>2, <2>3, <2>4 DEF EventsComeOnce
  <2>9. Routed(r)
    BY <1>3, <1>6, <2>1, <2>5, <2>6 DEF Routed, Kinds
  <2>10. ASSUME NEW x \in Reqs \ {r} PROVE Path(x)'
    <3>1. Path(x) /\ (route[x] # None => owner[x] \in Clients)
      BY <1>1 DEF Paths, Path
    <3>2. SameWay(x)
      BY <1>3, <2>1, <2>5, <2>6, <3>1 DEF SameWay, SameLives
    <3> QED BY <3>1, <3>2, SamePath
  <2> QED BY <1>1, <1>2, <1>6, <2>1, <2>3, <2>6, <2>7, <2>8, <2>9, <2>10, RoutedPath DEF Paths, Kinds
<1>7. PICK where \in {"now", "refused", "pool", "bitcoind"} :
        /\ route' = [route EXCEPT ![r] = where]
        /\ \/ /\ where = "now"
              /\ UNCHANGED <<poolVars, inbox, attached, mgrQ>>
           \/ /\ where = "refused"
              /\ UNCHANGED <<poolVars, inbox, attached, mgrQ>>
           \/ /\ where = "pool"
              /\ submitWork(r)
              /\ UNCHANGED <<inbox, attached, mgrQ>>
           \/ /\ where = "bitcoind"
              /\ generic_async_to_bitcoind(c, r)
              /\ UNCHANGED poolVars
  BY DEF onMessage
<1>8. route'[r] = where
  BY <1>1, <1>7
<1>9. CASE where \in {"now", "refused"}
  BY <1>4, <1>7, <1>8, <1>9 DEF poolVars
<1>10. CASE where = "pool"
  <2>1. job'[r] # None
    BY <1>1, <1>7, <1>10 DEF submitWork, None
  <2> QED BY <1>4, <1>7, <1>8, <1>10, <2>1
<1>11. CASE where = "bitcoind"
  BY <1>5, <1>6, <1>7, <1>8, <1>11 DEF poolVars, generic_async_to_bitcoind
<1> QED BY <1>7, <1>9, <1>10, <1>11

(* Natural numbers have a least one. *)
LEMMA LeastNatural ==
    ASSUME NEW S, S \subseteq Nat, S # {}
    PROVE  \E m \in S : \A k \in S : m <= k
<1>1. PICK m \in S : \A k \in S : ~ (<<k, m>> \in OpToRel(<, Nat))
  BY NatLessThanWellFounded, WFMin
<1>2. \A k \in S : ~ (k < m)
  BY <1>1 DEF OpToRel
<1> QED BY <1>2

(* In a finite set of numbers, every rank below the size of the set is the    *)
(* rank of an element: the ids of requests are handed out in their order.    *)
LEMMA RanksAreFilled ==
    ASSUME NEW S, S \subseteq Nat, IsFiniteSet(S), NEW i \in Nat, i < Cardinality(S)
    PROVE  \E t \in S : Cardinality({u \in S : u < t}) = i
<1> DEFINE rank(t) == Cardinality({u \in S : u < t})
           Bad == {j \in Nat : j < Cardinality(S) /\ ~ \E t \in S : rank(t) = j}
<1> SUFFICES ASSUME Bad # {} PROVE FALSE
  OBVIOUS
<1>1. Bad \subseteq Nat
  OBVIOUS
<1>2. PICK j \in Bad : \A k \in Bad : j <= k
  BY <1>1, LeastNatural
<1>3. j \in Nat /\ j < Cardinality(S) /\ ~ \E t \in S : rank(t) = j
  OBVIOUS
<1>4. Cardinality(S) \in Nat
  BY FS_CardinalityType
<1>5. CASE j = 0
  <2>1. S # {}
    BY <1>3, <1>4, <1>5, FS_EmptySet
  <2>2. PICK t \in S : \A k \in S : t <= k
    BY <2>1, LeastNatural
  <2>a. \A u \in S : ~ (u < t)
    BY <2>2
  <2>3. {u \in S : u < t} = {}
    BY <2>a
  <2>4. rank(t) = 0
    BY <2>3, FS_EmptySet
  <2> QED BY <1>3, <1>5, <2>4
<1>6. CASE j # 0
  <2>1. j - 1 \in Nat /\ j - 1 < Cardinality(S) /\ ~ (j <= j - 1)
    BY <1>3, <1>4, <1>6
  <2>2. j - 1 \notin Bad
    BY <1>2, <2>1
  <2>3. PICK t \in S : rank(t) = j - 1
    BY <2>1, <2>2
  <2> DEFINE below == {u \in S : u < t}
             above == {u \in S : t < u}
  <2>4. IsFiniteSet(below) /\ Cardinality(below) = j - 1
    <3>1. below \in SUBSET S
      OBVIOUS
    <3> QED BY <2>3, <3>1, FS_Subset
  <2>5. IsFiniteSet(below \cup {t}) /\ Cardinality(below \cup {t}) = j
    <3>1. t \notin below
      OBVIOUS
    <3>2. Cardinality(below \cup {t}) = Cardinality(below) + 1 /\ IsFiniteSet(below \cup {t})
      BY <2>4, <3>1, FS_AddElement
    <3> QED BY <1>3, <2>4, <3>2
  <2>6. above # {}
    <3> SUFFICES ASSUME above = {} PROVE FALSE
      OBVIOUS
    <3>1. \A u \in S : u < t \/ u = t
      OBVIOUS
    <3>2. S = below \cup {t}
      BY <3>1
    <3>3. Cardinality(S) = j
      BY <2>5, <3>2
    <3> QED BY <1>3, <1>4, <3>3
  <2>7. above \subseteq Nat
    OBVIOUS
  <2>8. PICK v \in above : \A k \in above : v <= k
    BY <2>6, <2>7, LeastNatural
  <2>9. \A u \in S : u < v <=> u < t \/ u = t
    BY <2>8
  <2>10. {u \in S : u < v} = below \cup {t}
    BY <2>9
  <2> QED BY <1>3, <2>5, <2>8, <2>10
<1> QED BY <1>5, <1>6

(* Ids that are handed out are new, and differ. *)
LEMMA NextIdsAreFresh ==
    ASSUME Types, NEW n \in Nat, n <= Cardinality(Fresh)
    PROVE  /\ NextIds(n) \in Seq(Reqs) /\ Len(NextIds(n)) = n
           /\ \A i \in 1 .. n : NextIds(n)[i] \in Fresh
           /\ \A i, j \in 1 .. n : NextIds(n)[i] = NextIds(n)[j] => i = j
<1>1. Fresh \subseteq Nat /\ IsFiniteSet(Fresh) /\ Cardinality(Fresh) \in Nat /\ Fresh \subseteq Reqs
  BY BDAssumption, FinitelyMany, FS_CardinalityType DEF Fresh
<1> DEFINE rank(r) == Cardinality({x \in Fresh : x < r})
<1>2. ASSUME NEW i \in 1 .. n
      PROVE  NextIds(n)[i] \in Fresh /\ rank(NextIds(n)[i]) = i - 1
  <2>1. i - 1 \in Nat /\ i - 1 < Cardinality(Fresh)
    BY <1>1
  <2>2. \E r \in Fresh : rank(r) = i - 1
    BY <1>1, <2>1, RanksAreFilled
  <2>3. NextIds(n)[i] = CHOOSE r \in Fresh : rank(r) = i - 1
    BY DEF NextIds
  <2> QED BY <2>2, <2>3
<1>3. ASSUME NEW i \in 1 .. n, NEW j \in 1 .. n, NextIds(n)[i] = NextIds(n)[j] PROVE i = j
  <2>1. i - 1 = j - 1
    BY <1>2, <1>3
  <2> QED BY <2>1
<1>4. NextIds(n) \in [1 .. n -> Reqs]
  <2>1. \A i \in 1 .. n : NextIds(n)[i] \in Reqs
    BY <1>1, <1>2
  <2> QED BY <2>1 DEF NextIds
<1>5. NextIds(n) \in Seq(Reqs) /\ Len(NextIds(n)) = n
  BY <1>4
<1> QED BY <1>2, <1>3, <1>5

(* What else the handler of a request changes. *)
LEMMA OnMessageTypes ==
    ASSUME Types, next' \in [Clients -> Nat], NEW c \in Clients, NEW r \in Reqs, onMessage(c, r)
    PROVE  /\ life' \in [Clients -> {"up", "closing", "gone"}]
           /\ responses' \in [Clients -> Seq(Reqs)] /\ killed' \in [Clients -> BOOLEAN]
           /\ again' \in [Clients -> BOOLEAN] /\ replies' \in [Reqs -> Nat]
           /\ bdReqCtr' \in [Clients -> Nat]
           /\ readPaused' \in [Clients -> BOOLEAN] /\ decayTimer' \in [Clients -> BOOLEAN]
           /\ route' \in [Reqs -> {None, "now", "refused", "pool", "bitcoind"}]
           /\ job' \in [Reqs -> {None, "rejecting", "queued", "ran", "deleted"}]
<1>1. /\ life \in [Clients -> {"up", "closing", "gone"}]
      /\ responses \in [Clients -> Seq(Reqs)] /\ killed \in [Clients -> BOOLEAN]
      /\ again \in [Clients -> BOOLEAN] /\ replies \in [Reqs -> Nat]
      /\ bdReqCtr \in [Clients -> Nat]
      /\ readPaused \in [Clients -> BOOLEAN] /\ decayTimer \in [Clients -> BOOLEAN]
      /\ route \in [Reqs -> {None, "now", "refused", "pool", "bitcoind"}]
      /\ job \in [Reqs -> {None, "rejecting", "queued", "ran", "deleted"}]
  BY DEF Types
<1>2. route' \in [Reqs -> {None, "now", "refused", "pool", "bitcoind"}]
  BY <1>1 DEF onMessage
<1>3. job' \in [Reqs -> {None, "rejecting", "queued", "ran", "deleted"}]
  BY <1>1 DEF onMessage, submitWork, poolVars
<1>4. life' \in [Clients -> {"up", "closing", "gone"}]
  BY <1>1 DEF onMessage, Refuse
<1>5. /\ responses' \in [Clients -> Seq(Reqs)] /\ killed' \in [Clients -> BOOLEAN]
      /\ again' \in [Clients -> BOOLEAN] /\ replies' \in [Reqs -> Nat]
  <2>1. CASE Deliver(c, r)
    BY <2>1, DeliverTypes
  <2>2. CASE Refuse(c, r)
    <3>1. again' \in [Clients -> BOOLEAN]
      <4>1. again' = [again EXCEPT ![c] = again[c] /\ ~ Batched(c, r)]
        BY <2>2 DEF Refuse
      <4>2. (again[c] /\ ~ Batched(c, r)) \in BOOLEAN
        OBVIOUS
      <4> QED BY <1>1, <4>1, <4>2
    <3> QED BY <1>1, <2>2, <3>1 DEF Refuse
  <2>3. CASE UNCHANGED <<responses, killed, again, replies>>
    BY <1>1, <2>3
  <2> QED BY <2>1, <2>2, <2>3 DEF onMessage
<1>6. /\ bdReqCtr' \in [Clients -> Nat]
      /\ readPaused' \in [Clients -> BOOLEAN] /\ decayTimer' \in [Clients -> BOOLEAN]
  <2>1. CASE UNCHANGED throttleVars
    BY <1>1, <2>1 DEF throttleVars
  <2>2. CASE Throttle(c)
    <3> DEFINE ctr   == bdReqCtr[c] + 1
               pause == ctr >= bdReqHi /\ ~ readPaused[c]
    <3>1. /\ bdReqCtr' = [bdReqCtr EXCEPT ![c] = ctr]
          /\ readPaused' = [readPaused EXCEPT ![c] = readPaused[c] \/ pause]
          /\ decayTimer' = [decayTimer EXCEPT ![c] = decayTimer[c] \/ pause]
      BY <2>2 DEF Throttle
    <3>2. ctr \in Nat
      BY <1>1
    <3> HIDE DEF ctr, pause
    <3>3. (readPaused[c] \/ pause) \in BOOLEAN /\ (decayTimer[c] \/ pause) \in BOOLEAN
      OBVIOUS
    <3>4. readPaused' \in [Clients -> BOOLEAN]
      BY <1>1, <3>1, <3>3
    <3>5. decayTimer' \in [Clients -> BOOLEAN]
      BY <1>1, <3>1, <3>3
    <3> QED BY <1>1, <3>1, <3>2, <3>4, <3>5
  <2> QED BY <2>1, <2>2 DEF onMessage, generic_async_to_bitcoind
<1> QED BY <1>2, <1>3, <1>4, <1>5, <1>6

(* A request that is read, or taken from a batch. *)
LEMMA ReadKeepsWay ==
    ASSUME Way, NEW c \in Clients, Read(c)
    PROVE  /\ Way' /\ \A x \in Reqs : Got("job", x)' <=> Got("job", x)
           /\ NextIds(1)[1] \in Fresh /\ route[NextIds(1)[1]] = None
<1>1. Types /\ owner \in [Reqs -> Clients \cup {None}]
  BY DEF Way, Types
<1>2. PICK r : r = NextIds(1)[1]
  OBVIOUS
<1>3. /\ owner' = [owner EXCEPT ![r] = c] /\ onMessage(c, r) /\ life[c] = "up" /\ next' = next
      /\ UNCHANGED <<connVars, goodSet, reqContextTable, timedOut, bd, replied, batch,
                     items, processingPaused, inactivity, nExtantBatchRequests, cached, calls>>
  BY <1>2 DEF Read
<1>4. r \in Fresh
  <2>1. IsFiniteSet(Fresh) /\ Fresh # {}
    BY FinitelyMany DEF Fresh, Read
  <2>2. Cardinality(Fresh) \in Nat /\ Cardinality(Fresh) # 0
    BY <2>1, FS_CardinalityType, FS_EmptySet
  <2>3. 1 \in Nat /\ 1 <= Cardinality(Fresh) /\ 1 \in 1 .. 1
    BY <2>2
  <2> QED BY <1>1, <1>2, <2>3, NextIdsAreFresh
<1>5. r \in Reqs /\ owner[r] = None
  BY <1>4 DEF Fresh
<1>6. route[r] = None
  BY <1>5, ClientAssumption DEF Way, Paths, Path
<1>7. /\ owner' \in [Reqs -> Clients \cup {None}] /\ owner'[r] = c
      /\ \A x \in Reqs \ {r} : owner'[x] = owner[x]
  BY <1>1, <1>3, <1>5
<1>8. /\ EventsAreOwn' /\ EventsComeOnce' /\ Paths'
      /\ attached' \subseteq Reqs /\ mgrQ' \in Seq(MgrEvents)
      /\ inbox' \in [Clients -> Seq(BoxEvents)]
      /\ \A x \in Reqs : Got("job", x)' <=> Got("job", x)
  BY <1>3, <1>5, <1>6, <1>7, OnMessageWay
<1>9. Types'
  <2>1. next' \in [Clients -> Nat]
    BY <1>1, <1>3 DEF Types
  <2>2. /\ life' \in [Clients -> {"up", "closing", "gone"}]
        /\ responses' \in [Clients -> Seq(Reqs)] /\ killed' \in [Clients -> BOOLEAN]
        /\ again' \in [Clients -> BOOLEAN] /\ replies' \in [Reqs -> Nat]
        /\ bdReqCtr' \in [Clients -> Nat]
        /\ readPaused' \in [Clients -> BOOLEAN] /\ decayTimer' \in [Clients -> BOOLEAN]
        /\ route' \in [Reqs -> {None, "now", "refused", "pool", "bitcoind"}]
        /\ job' \in [Reqs -> {None, "rejecting", "queued", "ran", "deleted"}]
    BY <1>1, <1>3, <1>5, <2>1, OnMessageTypes
  <2> QED BY <1>1, <1>3, <1>7, <1>8, <2>1, <2>2 DEF Types, connVars
<1> QED BY <1>2, <1>4, <1>6, <1>8, <1>9 DEF Way

(* The next item of a batch. *)
LEMMA ProcessItemKeepsWay ==
    ASSUME Way, ItemsAreOwn, NEW c \in Clients, ProcessItem(c)
    PROVE  /\ Way' /\ owner' = owner /\ \A x \in Reqs : Got("job", x)' <=> Got("job", x)
           /\ Item(c) \in Reqs /\ route[Item(c)] = None /\ owner[Item(c)] = c
           /\ next[c] + 1 \in 1 .. Len(items[c])
<1>1. Types /\ items[c] \in Seq(Reqs) /\ next[c] \in Nat /\ owner \in [Reqs -> Clients \cup {None}]
      /\ next \in [Clients -> Nat] /\ processingPaused \in [Clients -> BOOLEAN]
  BY DEF Way, Types
<1>2. /\ next' = [next EXCEPT ![c] = @ + 1] /\ onMessage(c, Item(c)) /\ life[c] = "up"
      /\ next[c] < Len(items[c])
      /\ processingPaused' = [processingPaused EXCEPT ![c] = FALSE]
      /\ UNCHANGED <<connVars, goodSet, reqContextTable, timedOut, bd, owner, replied, batch,
                     items, inactivity, nExtantBatchRequests, cached, calls>>
  BY DEF ProcessItem, Continues, hasNext
<1>3. next[c] + 1 \in 1 .. Len(items[c]) /\ next[c] + 1 > next[c]
  BY <1>1, <1>2
<1>4. Item(c) \in Reqs /\ route[Item(c)] = None /\ owner[Item(c)] = c
  BY <1>1, <1>3 DEF Item, ItemsAreOwn
<1>5. PICK r \in Reqs : r = Item(c)
  BY <1>4
<1>6. /\ EventsAreOwn' /\ EventsComeOnce' /\ Paths'
      /\ attached' \subseteq Reqs /\ mgrQ' \in Seq(MgrEvents)
      /\ inbox' \in [Clients -> Seq(BoxEvents)]
      /\ \A x \in Reqs : Got("job", x)' <=> Got("job", x)
  BY <1>1, <1>2, <1>4, <1>5, OnMessageWay
<1>7. Types'
  <2>1. next' \in [Clients -> Nat] /\ processingPaused' \in [Clients -> BOOLEAN]
    BY <1>1, <1>2
  <2>2. /\ life' \in [Clients -> {"up", "closing", "gone"}]
        /\ responses' \in [Clients -> Seq(Reqs)] /\ killed' \in [Clients -> BOOLEAN]
        /\ again' \in [Clients -> BOOLEAN] /\ replies' \in [Reqs -> Nat]
        /\ bdReqCtr' \in [Clients -> Nat]
        /\ readPaused' \in [Clients -> BOOLEAN] /\ decayTimer' \in [Clients -> BOOLEAN]
        /\ route' \in [Reqs -> {None, "now", "refused", "pool", "bitcoind"}]
        /\ job' \in [Reqs -> {None, "rejecting", "queued", "ran", "deleted"}]
    BY <1>1, <1>2, <1>5, <2>1, OnMessageTypes
  <2> QED BY <1>1, <1>2, <1>6, <2>1, <2>2 DEF Types, connVars
<1> QED BY <1>2, <1>3, <1>4, <1>6, <1>7 DEF Way

(* The smaller of two numbers. *)
LEMMA MinFacts ==
    ASSUME NEW a \in Nat, NEW b \in Nat
    PROVE  Min({a, b}) \in Nat /\ Min({a, b}) = IF a <= b THEN a ELSE b
<1>1. PICK m \in {a, b} : m = IF a <= b THEN a ELSE b
  OBVIOUS
<1>2. \A y \in {a, b} : m <= y
  BY <1>1
<1>3. \A x \in {a, b} : (\A y \in {a, b} : x <= y) => x = m
  BY <1>1
<1>4. Min({a, b}) = m
  BY <1>2, <1>3 DEF Min
<1> QED BY <1>1, <1>4

(* A callback lowers the throttle of its client. *)
LEMMA UncountTypes ==
    ASSUME Types, NEW c \in Clients, Uncount(c)
    PROVE  /\ bdReqCtr' \in [Clients -> Nat]
           /\ bdReqCtr'[c] = IF bdReqCtr[c] = 0 THEN 0 ELSE bdReqCtr[c] - 1
           /\ \A d \in Clients \ {c} : bdReqCtr'[d] = bdReqCtr[d]
<1>1. bdReqCtr \in [Clients -> Nat] /\ bdReqCtr[c] \in Nat
  BY DEF Types
<1>2. PICK m : m = Min({bdReqCtr[c], 1})
  OBVIOUS
<1>3. m \in Nat /\ m = IF bdReqCtr[c] <= 1 THEN bdReqCtr[c] ELSE 1
  BY <1>1, <1>2, MinFacts
<1>4. bdReqCtr' = [bdReqCtr EXCEPT ![c] = bdReqCtr[c] - m]
  BY <1>2 DEF Uncount
<1>5. bdReqCtr[c] - m \in Nat /\ bdReqCtr[c] - m = IF bdReqCtr[c] = 0 THEN 0 ELSE bdReqCtr[c] - 1
  BY <1>1, <1>3
<1> QED BY <1>1, <1>4, <1>5

(* A signal of a context, the first one or a later one. *)
LEMMA BitcoinDRepliedKeepsWay ==
    ASSUME Way, NEW c \in Clients, BitcoinDReplied(c)
    PROVE  /\ Way' /\ owner' = owner /\ \A x \in Reqs : Got("job", x)' <=> Got("job", x)
           /\ Head(inbox[c]).of \in Reqs /\ owner[Head(inbox[c]).of] = c
           /\ route[Head(inbox[c]).of] = "bitcoind"
           /\ FirstReply(Head(inbox[c]).of) => calls[Head(inbox[c]).of] = 0
<1>1. Types /\ EventsAreOwn /\ EventsComeOnce /\ Paths
  BY DEF Way
<1>2. PICK k, r : k = Head(inbox[c]).type /\ r = Head(inbox[c]).of
  OBVIOUS
<1>3. inbox[c] # <<>> /\ k \in {"reply", "fail"}
  BY <1>2 DEF BitcoinDReplied, Arrived
<1>4. k \in Kinds /\ r \in Reqs /\ Head(inbox[c]) = Event(k, r)
  BY <1>1, <1>2, <1>3, ArrivedFacts
<1>5. /\ inbox' = [inbox EXCEPT ![c] = Tail(@)] /\ replied' = replied \cup {r}
      /\ attached' = attached \ {r} /\ mgrQ' = Release({r}, attached', inbox', mgrQ)
      /\ IF r \notin replied THEN Callback(c, r) ELSE NoCallback
      /\ cached' \in {cached, TRUE}
      /\ UNCHANGED <<connVars, goodSet, reqContextTable, timedOut, bd, owner, life, batch,
                     items, processingPaused, inactivity, nExtantBatchRequests, route, poolVars>>
  BY <1>2 DEF BitcoinDReplied, HandledReply, Disconnected, FirstReply
<1>6. /\ inbox' \in [Clients -> Seq(BoxEvents)] /\ owner[r] = c /\ Got(k, r) /\ EventsAreOwn'
      /\ \A d \in Clients, x \in Reqs : /\ AtMostOnce(inbox'[d], Event("cached", x))
                                        /\ AtMostOnce(inbox'[d], Event("job", x))
      /\ \A x \in Reqs : \A u \in Kinds : Got(u, x)' => Got(u, x)
      /\ \A x \in Reqs : \A u \in Kinds : Got(u, x) /\ (u # k \/ x # r) => Got(u, x)'
  BY <1>1, <1>3, <1>4, <1>5, BoxTail, ZenonT(30)
<1>7. /\ Path(r) /\ r \in attached \cup replied /\ route[r] = "bitcoind"
      /\ r \notin replied => calls[r] = 0
  BY <1>1, <1>3, <1>4, <1>6 DEF Paths, Path, Attached
<1>8. job[r] = None /\ ~ Got("job", r) /\ ~ Got("cached", r) /\ ~ Submits(r)
  BY <1>3, <1>6, <1>7 DEF Path, Attached, FromCache, Queued, None
<1>9. Held(r, attached', inbox', mgrQ) <=> Got("reply", r)' \/ Got("fail", r)'
  <2>1. \A d \in Clients : \A t \in Kinds : Contains(inbox'[d], Event(t, r)) => owner[r] = d
    BY <1>4, <1>5, <1>6 DEF EventsAreOwn
  <2>2. Held(r, attached', inbox', mgrQ) <=>
            \/ r \in attached' \/ Contains(mgrQ, Event("submit", r))
            \/ \E t \in Kinds : \E d \in Clients : Contains(inbox'[d], Event(t, r))
    BY <1>4, <1>6, <2>1, HeldFacts
  <2>3. ~ Got("job", r)' /\ ~ Got("cached", r)'
    BY <1>4, <1>6, <1>8 DEF Kinds
  <2> QED BY <1>5, <1>8, <2>2, <2>3 DEF Got, Kinds, Submits
<1>10. /\ mgrQ' \in Seq(MgrEvents)
       /\ \A x \in Reqs :
             /\ Submits(x)' <=> Submits(x)
             /\ Destroys(x)' <=> Destroys(x) \/ (x = r /\ r \in reqContextTable
                                                 /\ ~ Held(r, attached', inbox', mgrQ))
             /\ AtMostOnce(mgrQ', Event("submit", x))
  <2>1. reqContextTable \subseteq Reqs /\ mgrQ \in Seq(MgrEvents) /\ {r} \in SUBSET Reqs
    BY <1>1, <1>4 DEF Types
  <2>2. PICK att, box : att = attached' /\ box = inbox'
    OBVIOUS
  <2>3. mgrQ' = Release({r}, att, box, mgrQ)
    BY <1>5, <2>2
  <2>4. /\ mgrQ' \in Seq(MgrEvents)
        /\ \A x \in Reqs :
              /\ Contains(mgrQ', Event("submit", x)) <=> Contains(mgrQ, Event("submit", x))
              /\ Contains(mgrQ', Event("destroyed", x)) <=>
                     \/ Contains(mgrQ, Event("destroyed", x))
                     \/ x \in {r} /\ x \in reqContextTable /\ ~ Held(x, att, box, mgrQ)
              /\ AtMostOnce(mgrQ, Event("submit", x)) => AtMostOnce(mgrQ', Event("submit", x))
    BY <2>1, <2>3, ReleaseFacts
  <2> QED BY <1>1, <2>2, <2>4 DEF Submits, Destroys, EventsComeOnce
<1>11. EventsComeOnce'
  BY <1>6, <1>10 DEF EventsComeOnce
<1>12. /\ calls' = IF r \in replied THEN calls ELSE [calls EXCEPT ![r] = @ + 1]
       /\ next' = next /\ UNCHANGED <<readPaused, decayTimer>>
  BY <1>5 DEF Callback, NoCallback, Uncount, throttleVars
<1>13. calls \in [Reqs -> Nat]
  BY <1>1 DEF Types
<1>14. ASSUME NEW x \in Reqs PROVE Path(x)'
  <2>1. CASE x # r
    <3>1. Path(x) /\ (route[x] # None => owner[x] \in Clients)
      BY <1>1 DEF Paths, Path
    <3>2. \A t \in Kinds : Got(t, x)' <=> Got(t, x)
      BY <1>6, <2>1
    <3>3. SameWay(x)
      BY <1>5, <1>10, <1>12, <1>13, <2>1, <3>1, <3>2 DEF SameWay, poolVars
    <3> QED BY <3>1, <3>3, SamePath
  <2>2. CASE x = r
    <3>1. calls'[r] = IF r \in replied THEN calls[r] ELSE calls[r] + 1
      BY <1>4, <1>12, <1>13
    <3>2. Got("reply", r) \/ Got("fail", r)
      BY <1>3, <1>6
    <3>3. /\ Destroys(r) => Destroys(r)'
          /\ Destroys(r)' => Destroys(r) \/ r \in reqContextTable
          /\ r \in reqContextTable => Destroys(r)' \/ Got("reply", r)' \/ Got("fail", r)'
      BY <1>4, <1>9, <1>10
    <3>4. Answered(r)
      BY <1>4, <1>5, <1>6, <1>10, <3>1, <3>2, <3>3 DEF Answered, poolVars
    <3> QED BY <1>4, <1>7, <1>13, <2>2, <3>4, AnsweredPath
  <2> QED BY <2>1, <2>2
<1>15. Types'
  <2>1. next' \in [Clients -> Nat]
    BY <1>1, <1>12 DEF Types
  <2>2. calls' \in [Reqs -> Nat]
    BY <1>4, <1>12, <1>13
  <2>3. /\ bdReqCtr' \in [Clients -> Nat]
        /\ responses' \in [Clients -> Seq(Reqs)] /\ killed' \in [Clients -> BOOLEAN]
        /\ again' \in [Clients -> BOOLEAN] /\ replies' \in [Reqs -> Nat]
    <3>1. CASE Callback(c, r)
      BY <1>1, <1>4, <2>1, <3>1, UncountTypes, DeliverTypes DEF Callback
    <3>2. CASE NoCallback
      BY <1>1, <3>2 DEF NoCallback, throttleVars, Types
    <3> QED BY <1>5, <3>1, <3>2
  <2>4. cached' \in BOOLEAN
    BY <1>1, <1>5 DEF Types
  <2>5. attached' \subseteq Reqs /\ replied' \subseteq Reqs
    BY <1>1, <1>4, <1>5 DEF Types
  <2> QED BY <1>1, <1>5, <1>6, <1>10, <1>12, <2>1, <2>2, <2>3, <2>4, <2>5
          DEF Types, connVars, poolVars
<1>16. \A x \in Reqs : Got("job", x)' <=> Got("job", x)
  BY <1>3, <1>6 DEF Kinds
<1> QED BY <1>2, <1>4, <1>5, <1>6, <1>7, <1>11, <1>14, <1>15, <1>16 DEF Way, Paths, FirstReply

(* The answer of the cache. *)
LEMMA CachedReplyKeepsWay ==
    ASSUME Way, NEW c \in Clients, CachedReply(c)
    PROVE  /\ Way' /\ owner' = owner /\ \A x \in Reqs : Got("job", x)' <=> Got("job", x)
           /\ Head(inbox[c]).of \in Reqs /\ owner[Head(inbox[c]).of] = c
           /\ route[Head(inbox[c]).of] = "bitcoind" /\ calls[Head(inbox[c]).of] = 0
<1>1. Types /\ EventsAreOwn /\ EventsComeOnce /\ Paths /\ calls \in [Reqs -> Nat]
  BY DEF Way, Types
<1>2. PICK r : r = Head(inbox[c]).of
  OBVIOUS
<1>3. inbox[c] # <<>> /\ Head(inbox[c]).type = "cached"
  BY DEF CachedReply, Arrived
<1>4. "cached" \in Kinds /\ r \in Reqs /\ Head(inbox[c]) = Event("cached", r)
  BY <1>1, <1>2, <1>3, ArrivedFacts DEF Kinds
<1>5. /\ inbox' = [inbox EXCEPT ![c] = Tail(@)] /\ Callback(c, r)
      /\ UNCHANGED <<connVars, mgrQ, goodSet, reqContextTable, timedOut, bd, owner, attached,
                     replied, life, batch, items, processingPaused, inactivity,
                     nExtantBatchRequests, cached, route, poolVars>>
  BY <1>2 DEF CachedReply
<1>6. /\ inbox' \in [Clients -> Seq(BoxEvents)] /\ owner[r] = c /\ Got("cached", r) /\ EventsAreOwn'
      /\ \A d \in Clients, x \in Reqs : /\ AtMostOnce(inbox'[d], Event("cached", x))
                                        /\ AtMostOnce(inbox'[d], Event("job", x))
      /\ \A x \in Reqs : \A u \in Kinds : Got(u, x)' => Got(u, x)
      /\ \A x \in Reqs : \A u \in Kinds : Got(u, x) /\ (u # "cached" \/ x # r) => Got(u, x)'
      /\ ~ Got("cached", r)'
  <2>1. PICK k \in Kinds : k = "cached"
    BY <1>4
  <2>a. /\ r \in Reqs /\ inbox[c] # <<>> /\ Head(inbox[c]) = Event(k, r)
        /\ inbox' = [inbox EXCEPT ![c] = Tail(@)] /\ owner' = owner
    BY <1>3, <1>4, <1>5, <2>1
  <2>2. /\ inbox' \in [Clients -> Seq(BoxEvents)] /\ owner[r] = c /\ Got(k, r) /\ EventsAreOwn'
        /\ \A d \in Clients, x \in Reqs : /\ AtMostOnce(inbox'[d], Event("cached", x))
                                          /\ AtMostOnce(inbox'[d], Event("job", x))
        /\ \A x \in Reqs : \A u \in Kinds : Got(u, x)' => Got(u, x)
        /\ \A x \in Reqs : \A u \in Kinds : Got(u, x) /\ (u # k \/ x # r) => Got(u, x)'
        /\ k \in {"cached", "job"} => ~ Got(k, r)'
    BY <1>1, <2>a, BoxTail, ZenonT(30)
  <2> QED BY <2>1, <2>2
<1>7. Path(r) /\ FromCache(r) /\ route[r] = "bitcoind" /\ calls[r] = 0
  BY <1>1, <1>4, <1>6 DEF Paths, Path, FromCache
<1>8. /\ calls' = [calls EXCEPT ![r] = @ + 1] /\ next' = next /\ Deliver(c, r)
      /\ UNCHANGED <<readPaused, decayTimer>>
  BY <1>5 DEF Callback, Uncount
<1>9. calls'[r] = 1 /\ \A x \in Reqs \ {r} : calls'[x] = calls[x]
  BY <1>1, <1>4, <1>7, <1>8
<1>10. \A x \in Reqs : (Submits(x)' <=> Submits(x)) /\ (Destroys(x)' <=> Destroys(x))
  BY <1>5 DEF Submits, Destroys
<1>11. EventsComeOnce'
  BY <1>1, <1>5, <1>6 DEF EventsComeOnce
<1>12. ASSUME NEW x \in Reqs PROVE Path(x)'
  <2>1. CASE x # r
    <3>1. Path(x) /\ (route[x] # None => owner[x] \in Clients)
      BY <1>1 DEF Paths, Path
    <3>2. \A t \in Kinds : Got(t, x)' <=> Got(t, x)
      BY <1>6, <2>1
    <3>3. SameWay(x)
      BY <1>5, <1>9, <1>10, <2>1, <3>1, <3>2 DEF SameWay, poolVars
    <3> QED BY <3>1, <3>3, SamePath
  <2>2. CASE x = r
    <3>1. \A t \in Kinds \ {"cached"} : Got(t, r)' <=> Got(t, r)
      BY <1>4, <1>6
    <3>2. CacheMoves(r)
      BY <1>4, <1>5, <1>6, <1>7, <1>9, <1>10, <3>1 DEF CacheMoves, poolVars
    <3> QED BY <1>4, <1>6, <1>7, <2>2, <3>2, CacheMovesPath
  <2> QED BY <2>1, <2>2
<1>13. Types'
  <2>1. next' \in [Clients -> Nat]
    BY <1>1, <1>8 DEF Types
  <2>2. calls' \in [Reqs -> Nat]
    BY <1>1, <1>4, <1>8
  <2>3. /\ bdReqCtr' \in [Clients -> Nat]
        /\ responses' \in [Clients -> Seq(Reqs)] /\ killed' \in [Clients -> BOOLEAN]
        /\ again' \in [Clients -> BOOLEAN] /\ replies' \in [Reqs -> Nat]
    BY <1>1, <1>4, <1>5, <2>1, UncountTypes, DeliverTypes DEF Callback
  <2> QED BY <1>1, <1>5, <1>6, <1>8, <2>1, <2>2, <2>3 DEF Types, connVars, poolVars
<1>14. \A x \in Reqs : Got("job", x)' <=> Got("job", x)
  BY <1>6 DEF Kinds
<1> QED BY <1>2, <1>4, <1>5, <1>6, <1>7, <1>11, <1>12, <1>13, <1>14 DEF Way, Paths

(* What concerns the job of one request. *)
LEMMA JobWay ==
    ASSUME Way, NEW r \in Reqs, Types', EventsAreOwn', EventsComeOnce',
           UNCHANGED <<mgrQ, owner, attached, replied, reqContextTable, timedOut, route, calls, life>>,
           job[r] # None, job'[r] # None, Got("job", r)' => job'[r] \in {"ran", "deleted"},
           \A x \in Reqs \ {r} : job'[x] = job[x],
           \A x \in Reqs : \A t \in Kinds : t # "job" \/ x # r => (Got(t, x)' <=> Got(t, x))
    PROVE  Way'
<1>1. \A x \in Reqs : (Submits(x)' <=> Submits(x)) /\ (Destroys(x)' <=> Destroys(x))
  BY DEF Submits, Destroys
<1>2. ASSUME NEW x \in Reqs PROVE Path(x)'
  <2>1. Path(x)
    BY DEF Way, Paths
  <2>2. CASE x # r
    <3>1. SameWay(x)
      BY <1>1, <2>2 DEF SameWay
    <3> QED BY <2>1, <3>1, SamePath
  <2>3. CASE x = r
    <3>1. \A t \in Kinds \ {"job"} : Got(t, r)' <=> Got(t, r)
      OBVIOUS
    <3>2. JobMoves(r)
      BY <1>1, <3>1 DEF JobMoves
    <3> QED BY <2>1, <2>3, <3>2, JobMovesPath
  <2> QED BY <2>2, <2>3
<1> QED BY <1>2 DEF Way, Paths

(* The result of a job reaches the client. *)
LEMMA JobRepliedKeepsWay ==
    ASSUME Way, NEW c \in Clients, JobReplied(c)
    PROVE  /\ Way' /\ owner' = owner /\ Head(inbox[c]).of \in Reqs
           /\ owner[Head(inbox[c]).of] = c /\ Got("job", Head(inbox[c]).of)
           /\ route[Head(inbox[c]).of] = "pool" /\ job[Head(inbox[c]).of] \in {"ran", "deleted"}
           /\ \A x \in Reqs : Got("job", x)' <=> Got("job", x) /\ x # Head(inbox[c]).of
<1>1. Types /\ EventsAreOwn /\ EventsComeOnce /\ Paths
  BY DEF Way
<1>2. PICK r : r = Head(inbox[c]).of
  OBVIOUS
<1>3. inbox[c] # <<>> /\ Head(inbox[c]).type = "job"
  BY DEF JobReplied, Arrived
<1>4. "job" \in Kinds /\ r \in Reqs /\ Head(inbox[c]) = Event("job", r)
  BY <1>1, <1>2, <1>3, ArrivedFacts DEF Kinds
<1>5. /\ inbox' = [inbox EXCEPT ![c] = Tail(@)] /\ Deliver(c, r) /\ next' = next
      /\ UNCHANGED <<connVars, mgrQ, goodSet, reqContextTable, timedOut, bd, owner, attached,
                     replied, life, batch, items, processingPaused, inactivity,
                     nExtantBatchRequests, throttleVars, cached, route, poolVars, calls>>
  BY <1>2 DEF JobReplied
<1>6. /\ inbox' \in [Clients -> Seq(BoxEvents)] /\ owner[r] = c /\ Got("job", r) /\ EventsAreOwn'
      /\ \A d \in Clients, x \in Reqs : /\ AtMostOnce(inbox'[d], Event("cached", x))
                                        /\ AtMostOnce(inbox'[d], Event("job", x))
      /\ \A x \in Reqs : \A u \in Kinds : Got(u, x)' => Got(u, x)
      /\ \A x \in Reqs : \A u \in Kinds : Got(u, x) /\ (u # "job" \/ x # r) => Got(u, x)'
      /\ ~ Got("job", r)'
  <2>1. PICK k \in Kinds : k = "job"
    BY <1>4
  <2>a. /\ r \in Reqs /\ inbox[c] # <<>> /\ Head(inbox[c]) = Event(k, r)
        /\ inbox' = [inbox EXCEPT ![c] = Tail(@)] /\ owner' = owner
    BY <1>3, <1>4, <1>5, <2>1
  <2>2. /\ inbox' \in [Clients -> Seq(BoxEvents)] /\ owner[r] = c /\ Got(k, r) /\ EventsAreOwn'
        /\ \A d \in Clients, x \in Reqs : /\ AtMostOnce(inbox'[d], Event("cached", x))
                                          /\ AtMostOnce(inbox'[d], Event("job", x))
        /\ \A x \in Reqs : \A u \in Kinds : Got(u, x)' => Got(u, x)
        /\ \A x \in Reqs : \A u \in Kinds : Got(u, x) /\ (u # k \/ x # r) => Got(u, x)'
        /\ k \in {"cached", "job"} => ~ Got(k, r)'
    BY <1>1, <2>a, BoxTail, ZenonT(30)
  <2> QED BY <2>1, <2>2
<1>7. job[r] \in {"ran", "deleted"} /\ job[r] # None /\ route[r] = "pool"
  BY <1>1, <1>4, <1>6 DEF Paths, Path, None
<1>8. EventsComeOnce'
  BY <1>1, <1>5, <1>6 DEF EventsComeOnce
<1>9. Types'
  <2>1. next' \in [Clients -> Nat]
    BY <1>1, <1>5 DEF Types
  <2>2. /\ responses' \in [Clients -> Seq(Reqs)] /\ killed' \in [Clients -> BOOLEAN]
        /\ again' \in [Clients -> BOOLEAN] /\ replies' \in [Reqs -> Nat]
    BY <1>1, <1>4, <1>5, <2>1, DeliverTypes
  <2> QED BY <1>1, <1>5, <1>6, <2>1, <2>2 DEF Types, connVars, throttleVars, poolVars
<1>10. UNCHANGED <<mgrQ, owner, attached, replied, reqContextTable, timedOut, route, calls, life>>
       /\ job' = job
  BY <1>5 DEF poolVars
<1>11. \A x \in Reqs : \A t \in Kinds : t # "job" \/ x # r => (Got(t, x)' <=> Got(t, x))
  BY <1>6
<1>12. Way'
  BY <1>4, <1>6, <1>7, <1>8, <1>9, <1>10, <1>11, JobWay
<1> QED BY <1>2, <1>4, <1>6, <1>7, <1>10, <1>12

(* A job that is refused, that is run, and that is deleted. *)
LEMMA JobRejectedKeepsWay ==
    ASSUME Way, NEW c \in Clients, NEW r \in Reqs, JobRejected(c, r)
    PROVE  Way' /\ UNCHANGED <<owner, inbox>> /\ owner[r] = c /\ route[r] = "pool" /\ ~ Got("job", r)
<1>1. Types /\ EventsAreOwn /\ EventsComeOnce /\ Paths
      /\ job \in [Reqs -> {None, "rejecting", "queued", "ran", "deleted"}]
  BY DEF Way, Types
<1>2. /\ job[r] = "rejecting" /\ job' = [job EXCEPT ![r] = "deleted"] /\ next' = next
      /\ Deliver(c, r) /\ owner[r] = c
      /\ UNCHANGED <<bdVars, life, batch, items, processingPaused, inactivity,
                     nExtantBatchRequests, throttleVars, cached, route, calls>>
  BY DEF JobRejected, Own
<1>3. UNCHANGED <<mgrQ, owner, attached, replied, reqContextTable, timedOut, route, calls, life, inbox>>
  BY <1>2 DEF bdVars, ctxVars
<1>4. EventsAreOwn' /\ EventsComeOnce'
  BY <1>1, <1>3 DEF EventsAreOwn, EventsComeOnce
<1>5. \A x \in Reqs : \A t \in Kinds : Got(t, x)' <=> Got(t, x)
  BY <1>3 DEF Got
<1>6. /\ job[r] # None /\ job'[r] = "deleted" /\ job'[r] # None
      /\ \A x \in Reqs \ {r} : job'[x] = job[x]
  BY <1>1, <1>2 DEF None
<1>7. Types'
  <2>1. next' \in [Clients -> Nat] /\ job' \in [Reqs -> {None, "rejecting", "queued", "ran", "deleted"}]
    BY <1>1, <1>2 DEF Types
  <2>2. /\ responses' \in [Clients -> Seq(Reqs)] /\ killed' \in [Clients -> BOOLEAN]
        /\ again' \in [Clients -> BOOLEAN] /\ replies' \in [Reqs -> Nat]
    BY <1>1, <1>2, <2>1, DeliverTypes
  <2> QED BY <1>1, <1>2, <2>1, <2>2 DEF Types, bdVars, ctxVars, connVars, throttleVars
<1>8. Way'
  BY <1>3, <1>4, <1>5, <1>6, <1>7, JobWay
<1>9. route[r] = "pool" /\ ~ Got("job", r)
  BY <1>1, <1>2, <1>6 DEF Paths, Path
<1> QED BY <1>2, <1>3, <1>8, <1>9

(* The pool runs a job, whose result is queued for the client. *)
LEMMA JobRunsKeepsWay ==
    ASSUME Way, NEW r \in Reqs, JobRuns(r)
    PROVE  /\ Way' /\ owner' = owner /\ job[r] = "queued" /\ job'[r] = "ran"
           /\ \A x \in Reqs \ {r} : job'[x] = job[x] /\ (Got("job", x)' <=> Got("job", x))
<1>1. Types /\ EventsAreOwn /\ EventsComeOnce /\ Paths
      /\ job \in [Reqs -> {None, "rejecting", "queued", "ran", "deleted"}]
  BY DEF Way, Types
<1>2. PICK c : c = owner[r]
  OBVIOUS
<1>3. /\ job[r] = "queued" /\ job' = [job EXCEPT ![r] = "ran"]
      /\ inbox' = IF life[c] = "gone" THEN inbox
                    ELSE [inbox EXCEPT ![c] = Append(@, Event("job", r))]
      /\ UNCHANGED <<connVars, mgrQ, goodSet, reqContextTable, timedOut, bd, owner, attached,
                     replied, life, batchVars, throttleVars, cached, route, extant,
                     calls, replies>>
  BY <1>2 DEF JobRuns
<1>4. c \in Clients /\ ~ Got("job", r)
  BY <1>1, <1>2, <1>3 DEF Paths, Path, None
<1>5. /\ job[r] # None /\ job'[r] = "ran" /\ job'[r] # None
      /\ \A x \in Reqs \ {r} : job'[x] = job[x]
  BY <1>1, <1>3 DEF None
<1>6. /\ inbox' \in [Clients -> Seq(BoxEvents)] /\ EventsAreOwn' /\ EventsComeOnce'
      /\ \A x \in Reqs : \A t \in Kinds : t # "job" \/ x # r => (Got(t, x)' <=> Got(t, x))
  <2>1. CASE life[c] = "gone"
    <3>1. inbox' = inbox
      BY <1>3, <2>1
    <3> QED BY <1>1, <1>3, <3>1 DEF Types, EventsAreOwn, EventsComeOnce, Got
  <2>2. CASE life[c] # "gone"
    <3>1. inbox' = [inbox EXCEPT ![c] = Append(@, Event("job", r))] /\ "job" \in {"cached", "job"}
      BY <1>3, <2>2
    <3>2. /\ inbox' \in [Clients -> Seq(BoxEvents)]
          /\ \A d \in Clients, x \in Reqs : /\ AtMostOnce(inbox'[d], Event("cached", x))
                                            /\ AtMostOnce(inbox'[d], Event("job", x))
          /\ \A d \in Clients, x \in Reqs : \A u \in Kinds :
                 Contains(inbox'[d], Event(u, x)) <=>
                     Contains(inbox[d], Event(u, x)) \/ (d = c /\ u = "job" /\ x = r)
          /\ \A x \in Reqs : \A u \in Kinds : Got(u, x)' <=> Got(u, x) \/ (u = "job" /\ x = r)
      BY <1>1, <1>4, <3>1, BoxAppend
    <3>3. EventsAreOwn'
      BY <1>1, <1>2, <1>3, <3>2 DEF EventsAreOwn
    <3>4. EventsComeOnce'
      BY <1>1, <1>3, <3>2 DEF EventsComeOnce
    <3> QED BY <3>2, <3>3, <3>4
  <2> QED BY <2>1, <2>2
<1>7. Types'
  <2>1. job' \in [Reqs -> {None, "rejecting", "queued", "ran", "deleted"}]
    BY <1>1, <1>3
  <2> QED BY <1>1, <1>3, <1>6, <2>1 DEF Types, connVars, batchVars, throttleVars
<1>8. Way'
  BY <1>3, <1>5, <1>6, <1>7, JobWay
<1> QED BY <1>3, <1>5, <1>6, <1>8 DEF Kinds

(* The pool deletes a job that has run. *)
LEMMA JobDeletedKeepsWay ==
    ASSUME Way, NEW r \in Reqs, JobDeleted(r)
    PROVE  Way' /\ UNCHANGED <<owner, inbox>>
<1>1. Types /\ EventsAreOwn /\ EventsComeOnce
      /\ job \in [Reqs -> {None, "rejecting", "queued", "ran", "deleted"}]
  BY DEF Way, Types
<1>2. /\ job[r] = "ran" /\ job' = [job EXCEPT ![r] = "deleted"]
      /\ UNCHANGED <<bdVars, life, batchVars, throttleVars, cached, route, calls, replies>>
  BY DEF JobDeleted
<1>3. UNCHANGED <<mgrQ, owner, attached, replied, reqContextTable, timedOut, route, calls, life, inbox>>
  BY <1>2 DEF bdVars, ctxVars
<1>4. EventsAreOwn' /\ EventsComeOnce'
  BY <1>1, <1>3 DEF EventsAreOwn, EventsComeOnce
<1>5. \A x \in Reqs : \A t \in Kinds : Got(t, x)' <=> Got(t, x)
  BY <1>3 DEF Got
<1>6. /\ job[r] # None /\ job'[r] = "deleted" /\ job'[r] # None
      /\ \A x \in Reqs \ {r} : job'[x] = job[x]
  BY <1>1, <1>2 DEF None
<1>7. Types'
  <2>1. job' \in [Reqs -> {None, "rejecting", "queued", "ran", "deleted"}]
    BY <1>1, <1>2
  <2> QED BY <1>1, <1>2, <2>1 DEF Types, bdVars, ctxVars, connVars, batchVars, throttleVars
<1>8. Way'
  BY <1>3, <1>4, <1>5, <1>6, <1>7, JobWay
<1> QED BY <1>3, <1>8

(* A request no handler was called for has no way to go. *)
LEMMA UnroutedPath ==
    ASSUME NEW r \in Reqs, route'[r] = None, Unrouted(r)'
    PROVE  Path(r)'
<1>1. /\ r \notin attached' /\ r \notin replied' /\ r \notin reqContextTable'
      /\ ~ Submits(r)' /\ ~ Destroys(r)' /\ ~ Got("reply", r)' /\ ~ Got("fail", r)'
      /\ ~ Got("cached", r)' /\ ~ Got("job", r)' /\ calls'[r] = 0 /\ job'[r] = None
      /\ calls'[r] <= 1
  BY DEF Unrouted, Kinds
<1> QED BY <1>1 DEF Path, None

(* A batch takes its ids. *)
LEMMA EnqueueBatchKeepsWay ==
    ASSUME Way, NEW c \in Clients, NEW n \in BatchSizes, EnqueueBatch(c, n)
    PROVE  /\ Way' /\ inbox' = inbox
           /\ n \in Nat /\ items'[c] \in Seq(Reqs) /\ Len(items'[c]) = n
           /\ \A d \in Clients \ {c} : items'[d] = items[d]
           /\ \A i \in 1 .. n : items'[c][i] \in Reqs /\ owner[items'[c][i]] = None
                                /\ owner'[items'[c][i]] = c /\ route[items'[c][i]] = None
           /\ \A i, j \in 1 .. n : items'[c][i] = items'[c][j] => i = j
           /\ \A r \in Reqs : owner[r] # None => owner'[r] = owner[r]
           /\ \A r \in Reqs : owner[r] # owner'[r] => route[r] = None /\ Contains(items'[c], r)
<1>1. Types /\ EventsAreOwn /\ EventsComeOnce /\ Paths
      /\ owner \in [Reqs -> Clients \cup {None}] /\ items \in [Clients -> Seq(Reqs)]
      /\ batch \in [Clients -> {"none", "rejecting", "open", "finished", "deleted"}]
      /\ again \in [Clients -> BOOLEAN]
  BY DEF Way, Types
<1>2. /\ n <= Cardinality(Fresh) /\ items' = [items EXCEPT ![c] = NextIds(n)]
      /\ owner' = [r \in Reqs |-> IF Contains(items'[c], r) THEN c ELSE owner[r]]
      /\ UNCHANGED <<connVars, mgrQ, goodSet, reqContextTable, timedOut, bd, attached, replied,
                     inbox, life, next, processingPaused, inactivity, killed, responses,
                     throttleVars, cached, route, poolVars, calls, replies>>
  BY DEF EnqueueBatch
<1>3. n \in Nat
  BY ClientAssumption
<1>4. /\ NextIds(n) \in Seq(Reqs) /\ Len(NextIds(n)) = n
      /\ \A i \in 1 .. n : NextIds(n)[i] \in Fresh
      /\ \A i, j \in 1 .. n : NextIds(n)[i] = NextIds(n)[j] => i = j
  BY <1>1, <1>2, <1>3, NextIdsAreFresh
<1>5. PICK new \in Seq(Reqs) : new = NextIds(n)
  BY <1>4
<1>6. /\ items'[c] = new /\ Len(new) = n /\ items' \in [Clients -> Seq(Reqs)]
      /\ \A d \in Clients \ {c} : items'[d] = items[d]
      /\ \A i \in 1 .. n : new[i] \in Fresh
      /\ \A i, j \in 1 .. n : new[i] = new[j] => i = j
  BY <1>1, <1>2, <1>4, <1>5
<1>7. \A r \in Reqs : Contains(new, r) => owner[r] = None
  BY <1>6 DEF Contains, Fresh
<1>8. \A r \in Reqs : owner[r] = None => route[r] = None
  BY <1>1, ClientAssumption DEF Paths, Path
<1>9. /\ owner' \in [Reqs -> Clients \cup {None}]
      /\ \A r \in Reqs : owner'[r] = IF Contains(new, r) THEN c ELSE owner[r]
  BY <1>1, <1>2, <1>6
<1>10. \A r \in Reqs : /\ owner[r] # None => owner'[r] = owner[r]
                       /\ owner[r] # owner'[r] => route[r] = None /\ Contains(new, r)
  BY <1>7, <1>8, <1>9
<1>11. \A i \in 1 .. n : /\ new[i] \in Reqs /\ owner[new[i]] = None
                         /\ owner'[new[i]] = c /\ route[new[i]] = None
  <2>1. \A i \in 1 .. n : new[i] \in Reqs /\ Contains(new, new[i])
    BY <1>6 DEF Contains
  <2> QED BY <1>7, <1>8, <1>9, <2>1
<1>12. \A x \in Reqs : /\ Submits(x)' <=> Submits(x)
                       /\ Destroys(x)' <=> Destroys(x)
                       /\ \A t \in Kinds : Got(t, x)' <=> Got(t, x)
  BY <1>2 DEF Submits, Destroys, Got
<1>13. \A x \in Reqs : route[x] = None => Unrouted(x)
  BY <1>1 DEF Paths, Path
<1>14. EventsAreOwn' /\ EventsComeOnce'
  <2>1. EventsComeOnce'
    BY <1>1, <1>2 DEF EventsComeOnce
  <2>2. \A d \in Clients, x \in Reqs : \A t \in Kinds :
            Contains(inbox[d], Event(t, x)) => owner[x] = d /\ owner[x] # None
    BY <1>1, ClientAssumption DEF EventsAreOwn
  <2> QED BY <1>2, <1>10, <2>1, <2>2 DEF EventsAreOwn
<1>15. ASSUME NEW x \in Reqs PROVE Path(x)'
  <2>1. CASE owner'[x] = owner[x]
    <3>1. SameWay(x)
      BY <1>2, <1>12, <2>1 DEF SameWay, poolVars
    <3> QED BY <1>1, <3>1, SamePath DEF Paths
  <2>2. CASE owner'[x] # owner[x]
    <3>1. route[x] = None /\ Unrouted(x)
      BY <1>10, <1>13, <2>2
    <3>2. route'[x] = None /\ Unrouted(x)'
      BY <1>2, <1>12, <3>1 DEF Unrouted, poolVars
    <3> QED BY <3>2, UnroutedPath
  <2> QED BY <2>1, <2>2
<1>16. Types'
  <2>1. batch' \in [Clients -> {"none", "rejecting", "open", "finished", "deleted"}]
        /\ again' \in [Clients -> BOOLEAN]
    BY <1>1 DEF EnqueueBatch
  <2> QED BY <1>1, <1>2, <1>6, <1>9, <2>1 DEF Types, connVars, throttleVars, poolVars
<1>17. Way' /\ inbox' = inbox
  BY <1>2, <1>14, <1>15, <1>16 DEF Way, Paths
<1>18. new = items'[c]
  BY <1>6
<1> QED BY <1>3, <1>6, <1>10, <1>11, <1>17, <1>18

(* A client is destroyed, and its contexts with it. *)
LEMMA DestructKeepsWay ==
    ASSUME Way, NEW c \in Clients, Destruct(c)
    PROVE  /\ Way' /\ owner' = owner
           /\ \A x \in Reqs : Got("job", x)' <=> Got("job", x) /\ owner[x] # c
<1>1. Types /\ EventsAreOwn /\ EventsComeOnce /\ Paths
      /\ inbox \in [Clients -> Seq(BoxEvents)] /\ life \in [Clients -> {"up", "closing", "gone"}]
      /\ reqContextTable \subseteq Reqs /\ mgrQ \in Seq(MgrEvents) /\ attached \subseteq Reqs
  BY DEF Way, Types
<1> DEFINE mine == {r \in Reqs : owner[r] = c}
           dead == {r \in mine : Alive(r)}
<1>2. /\ life' = [life EXCEPT ![c] = "gone"] /\ inbox' = [inbox EXCEPT ![c] = <<>>]
      /\ attached' = attached \ mine /\ mgrQ' = Release(dead, attached', inbox', mgrQ)
      /\ UNCHANGED <<connVars, goodSet, reqContextTable, timedOut, bd, owner, replied, items, next,
                     killed, perIP, cached, route, poolVars, calls, replies>>
  BY DEF Destruct, SenderGone
<1>3. /\ inbox' \in [Clients -> Seq(BoxEvents)] /\ inbox'[c] = <<>>
      /\ \A d \in Clients \ {c} : inbox'[d] = inbox[d]
  BY <1>1, <1>2
<1>4. \A e : ~ Contains(inbox'[c], e)
  BY <1>3 DEF Contains
<1>5. ASSUME NEW x \in Reqs, NEW t \in Kinds PROVE Got(t, x)' <=> Got(t, x) /\ owner[x] # c
  <2>1. \A d \in Clients : Contains(inbox[d], Event(t, x)) => owner[x] = d
    BY <1>1 DEF EventsAreOwn
  <2> QED BY <1>3, <1>4, <2>1 DEF Got
<1>6. EventsAreOwn' 
  BY <1>1, <1>2, <1>3, <1>4 DEF EventsAreOwn
<1>7. \A d \in Clients, x \in Reqs : /\ AtMostOnce(inbox'[d], Event("cached", x))
                                     /\ AtMostOnce(inbox'[d], Event("job", x))
  <2>1. \A e : AtMostOnce(inbox'[c], e)
    BY <1>3 DEF AtMostOnce
  <2> QED BY <1>1, <1>3, <2>1 DEF EventsComeOnce
<1>8. ASSUME NEW x \in Reqs, owner[x] = c
      PROVE  /\ Keeps(x) => Alive(x)
             /\ Held(x, attached', inbox', mgrQ) <=> Submits(x)
             /\ x \notin attached' /\ x \in mine
  <2>1. \A d \in Clients : \A t \in Kinds : Contains(inbox[d], Event(t, x)) => owner[x] = d
    BY <1>1 DEF EventsAreOwn
  <2>2. Held(x, attached, inbox, mgrQ) <=>
            \/ x \in attached \/ Contains(mgrQ, Event("submit", x))
            \/ \E t \in Kinds : \E d \in Clients : Contains(inbox[d], Event(t, x))
    BY <1>1, <1>8, <2>1, HeldFacts
  <2>3. Keeps(x) => Alive(x)
    BY <2>2 DEF Keeps, Alive, Got, Submits, Kinds
  <2>4. x \notin attached' /\ x \in mine
    BY <1>2, <1>8
  <2>5. \A d \in Clients : \A t \in Kinds : Contains(inbox'[d], Event(t, x)) => owner[x] = d
    BY <1>2, <1>6 DEF EventsAreOwn
  <2>6. Held(x, attached', inbox', mgrQ) <=>
            \/ x \in attached' \/ Contains(mgrQ, Event("submit", x))
            \/ \E t \in Kinds : \E d \in Clients : Contains(inbox'[d], Event(t, x))
    BY <1>3, <1>8, <2>5, HeldFacts
  <2>7. \A t \in Kinds : \A d \in Clients : ~ Contains(inbox'[d], Event(t, x))
    BY <1>4, <1>8, <2>5
  <2> QED BY <2>3, <2>4, <2>6, <2>7 DEF Submits
<1>9. dead \in SUBSET Reqs /\ \A x \in dead : owner[x] = c
  OBVIOUS
<1>10. \A x \in Reqs : owner[x] # c => (x \in attached' <=> x \in attached)
  BY <1>2
<1>11. \A x \in Reqs : owner[x] = c => (x \in dead <=> Alive(x))
  OBVIOUS
<1>12. attached' \subseteq Reqs
  BY <1>1, <1>2
<1> HIDE DEF mine, dead
<1>13. /\ mgrQ' \in Seq(MgrEvents)
       /\ \A x \in Reqs :
              /\ Submits(x)' <=> Submits(x)
              /\ Destroys(x)' <=> \/ Destroys(x)
                                  \/ /\ x \in dead /\ x \in reqContextTable
                                     /\ ~ Held(x, attached', inbox', mgrQ)
              /\ AtMostOnce(mgrQ', Event("submit", x))
  <2>1. PICK att, box : att = attached' /\ box = inbox'
    OBVIOUS
  <2>2. mgrQ' = Release(dead, att, box, mgrQ)
    BY <1>2, <2>1
  <2>3. /\ mgrQ' \in Seq(MgrEvents)
        /\ \A x \in Reqs :
              /\ Contains(mgrQ', Event("submit", x)) <=> Contains(mgrQ, Event("submit", x))
              /\ Contains(mgrQ', Event("destroyed", x)) <=>
                     \/ Contains(mgrQ, Event("destroyed", x))
                     \/ x \in dead /\ x \in reqContextTable /\ ~ Held(x, att, box, mgrQ)
              /\ AtMostOnce(mgrQ, Event("submit", x)) => AtMostOnce(mgrQ', Event("submit", x))
    BY <1>1, <1>9, <2>2, ReleaseFacts
  <2> QED BY <1>1, <2>1, <2>3 DEF Submits, Destroys, EventsComeOnce
<1>14. EventsComeOnce'
  BY <1>7, <1>13 DEF EventsComeOnce
<1>15. ASSUME NEW x \in Reqs PROVE Path(x)'
  <2>1. Path(x)
    BY <1>1 DEF Paths
  <2>2. CASE owner[x] # c
    <3>1. x \notin dead
      BY <1>9, <2>2
    <3>2. \A t \in Kinds : Got(t, x)' <=> Got(t, x)
      BY <1>5, <2>2
    <3>3. route[x] # None => (life'[owner[x]] = "gone" <=> life[owner[x]] = "gone")
      BY <1>1, <1>2, <2>1, <2>2 DEF Path
    <3>4. SameWay(x)
      BY <1>2, <1>10, <1>13, <2>2, <3>1, <3>2, <3>3 DEF SameWay, poolVars
    <3> QED BY <2>1, <3>4, SamePath
  <2>3. CASE owner[x] = c
    <3>1. \A t \in Kinds : ~ Got(t, x)'
      BY <1>5, <2>3
    <3>2. life'[owner[x]] = "gone"
      BY <1>1, <1>2, <2>3
    <3>3. /\ x \notin attached' /\ (Submits(x)' <=> Submits(x)) /\ (Destroys(x) => Destroys(x)')
          /\ Destroys(x)' => Destroys(x) \/ x \in reqContextTable
          /\ x \in reqContextTable /\ Keeps(x) => Destroys(x)' \/ Submits(x)
      BY <1>8, <1>11, <1>13, <2>3
    <3>4. Orphaned(x)
      BY <1>2, <3>1, <3>2, <3>3 DEF Orphaned, poolVars
    <3> QED BY <2>1, <3>4, OrphanedPath
  <2> QED BY <2>2, <2>3
<1>16. Types'
  <2>1. /\ batch' = [batch EXCEPT ![c] = "deleted"]
        /\ again' = [again EXCEPT ![c] = FALSE]
        /\ processingPaused' = [processingPaused EXCEPT ![c] = FALSE]
        /\ inactivity' = [inactivity EXCEPT ![c] = FALSE]
        /\ responses' = [responses EXCEPT ![c] = <<>>]
        /\ bdReqCtr' = [bdReqCtr EXCEPT ![c] = 0]
        /\ readPaused' = [readPaused EXCEPT ![c] = FALSE]
        /\ decayTimer' = [decayTimer EXCEPT ![c] = FALSE]
    BY DEF Destruct
  <2>2. /\ batch' \in [Clients -> {"none", "rejecting", "open", "finished", "deleted"}]
        /\ again' \in [Clients -> BOOLEAN] /\ processingPaused' \in [Clients -> BOOLEAN]
        /\ inactivity' \in [Clients -> BOOLEAN] /\ responses' \in [Clients -> Seq(Reqs)]
        /\ bdReqCtr' \in [Clients -> Nat] /\ readPaused' \in [Clients -> BOOLEAN]
        /\ decayTimer' \in [Clients -> BOOLEAN]
        /\ life' \in [Clients -> {"up", "closing", "gone"}]
    <3>1. <<>> \in Seq(Reqs)
      OBVIOUS
    <3> QED BY <1>1, <1>2, <2>1, <3>1 DEF Types
  <2> QED BY <1>1, <1>2, <1>3, <1>12, <1>13, <2>2 DEF Types, connVars, poolVars
<1>17. \A x \in Reqs : Got("job", x)' <=> Got("job", x) /\ owner[x] # c
  BY <1>5 DEF Kinds
<1> QED BY <1>2, <1>6, <1>14, <1>15, <1>16, <1>17 DEF Way, Paths

(* How often an answer is among the responses of a batch. *)
Times(c, r) == Cardinality({i \in DOMAIN responses[c] : responses[c][i] = r})

(* It is a number; zero when it is not among them, one when it is there and  *)
(* responses do not repeat.                                                  *)
LEMMA TimesFacts ==
    ASSUME Types, NEW c \in Clients, NEW r
    PROVE  /\ Times(c, r) \in Nat
           /\ ~ Contains(responses[c], r) => Times(c, r) = 0
           /\ Contains(responses[c], r) /\ AtMostOnce(responses[c], r) => Times(c, r) = 1
<1> DEFINE S == {i \in DOMAIN responses[c] : responses[c][i] = r}
<1>1. /\ responses[c] \in Seq(Reqs) /\ DOMAIN responses[c] = 1 .. Len(responses[c])
      /\ Len(responses[c]) \in Nat
  BY DEF Types
<1>2. IsFiniteSet(1 .. Len(responses[c]))
  <2>1. \A n \in Nat : IsFiniteSet(1 .. n)
    BY FS_Interval
  <2> QED BY Zenon, <1>1, <2>1
<1>3. IsFiniteSet(S) /\ S \subseteq 1 .. Len(responses[c])
  BY <1>1, <1>2, FS_Subset
<1>4. Times(c, r) = Cardinality(S) /\ Cardinality(S) \in Nat
  BY <1>3, FS_CardinalityType DEF Times
<1>5. ASSUME ~ Contains(responses[c], r) PROVE Times(c, r) = 0
  <2>1. S = {}
    BY <1>1, <1>5 DEF Contains
  <2> QED BY <1>4, <2>1, FS_EmptySet
<1>6. ASSUME Contains(responses[c], r), AtMostOnce(responses[c], r) PROVE Times(c, r) = 1
  <2>1. PICK i \in 1 .. Len(responses[c]) : responses[c][i] = r
    BY <1>6 DEF Contains
  <2>2. S = {i}
    BY <1>1, <1>6, <2>1 DEF AtMostOnce
  <2> QED BY <1>4, <2>2, FS_Singleton
<1> QED BY <1>4, <1>5, <1>6

(* What processing a batch that ends sends. *)
LEMMA ProcessEndsSends ==
    ASSUME Types, NEW c \in Clients, ProcessEnds(c)
    PROVE  /\ replies' \in [Reqs -> Nat]
           /\ \/ replies' = replies
              \/ /\ life[c] = "up" /\ isComplete(c, next[c], responses[c])
                 /\ \A r \in Reqs : replies'[r] = replies[r] + Times(c, r)
<1>1. replies \in [Reqs -> Nat]
  BY DEF Types
<1>2. CASE replies' = replies
  BY <1>1, <1>2
<1>3. CASE /\ life[c] = "up" /\ isComplete(c, next[c], responses[c])
           /\ replies' = [r \in Reqs |-> replies[r] + Times(c, r)]
  <2>1. \A r \in Reqs : replies[r] + Times(c, r) \in Nat
    BY <1>1, TimesFacts
  <2> HIDE DEF Times
  <2> QED BY <1>3, <2>1
<1> QED BY <1>2, <1>3 DEF ProcessEnds, Times

(* How the decay timer lowers the throttle of a client. *)
LEMMA TickLowers ==
    ASSUME Types, NEW c \in Clients, NEW decay \in Nat, Tick(c, decay)
    PROVE  /\ bdReqCtr' \in [Clients -> Nat] /\ bdReqCtr'[c] <= bdReqCtr[c]
           /\ \A d \in Clients \ {c} : bdReqCtr'[d] = bdReqCtr[d]
           /\ bdReqCtr'[c] = bdReqCtr[c] - Min({decay, bdReqCtr[c]})
<1>1. bdReqCtr \in [Clients -> Nat] /\ bdReqCtr[c] \in Nat
  BY DEF Types
<1>2. PICK m : m = Min({decay, bdReqCtr[c]})
  OBVIOUS
<1>3. m \in Nat /\ m <= bdReqCtr[c]
  BY <1>1, <1>2, MinFacts
<1>4. bdReqCtr' = [bdReqCtr EXCEPT ![c] = bdReqCtr[c] - m]
  BY <1>2 DEF Tick
<1>5. bdReqCtr[c] - m \in Nat /\ bdReqCtr[c] - m <= bdReqCtr[c]
  BY <1>1, <1>3
<1> QED BY <1>1, <1>2, <1>4, <1>5

(* The steps that concern the batches and the throttle of a client. *)
Quiet(c) ==
    \/ ProcessEnds(c) \/ ProcessPauses(c) \/ ProcessWaits(c)
    \/ BatchDestroyed(c) \/ BatchTimeout(c) \/ Close(c)
    \/ Tick(c, 0) \/ Tick(c, decayPerSec)

(* They leave the requests on their way. *)
LEMMA QuietKeepsWay ==
    ASSUME Way, NEW c \in Clients, Quiet(c)
    PROVE  /\ Way' /\ owner' = owner /\ \A x \in Reqs : Got("job", x)' <=> Got("job", x)
           /\ UNCHANGED <<items, next, job, extant, route, calls, perIP>>
<1>1. Types
  BY DEF Way
<1>2. /\ UNCHANGED <<bdVars, route, poolVars, calls, items, next, perIP>>
      /\ UNCHANGED <<job, extant>>
  BY DEF Quiet, ProcessEnds, ProcessPauses, ProcessWaits, BatchDestroyed, BatchTimeout, Close, Tick,
         poolVars, batchVars, throttleVars
<1>3. /\ batch \in [Clients -> {"none", "rejecting", "open", "finished", "deleted"}]
      /\ life \in [Clients -> {"up", "closing", "gone"}]
      /\ again \in [Clients -> BOOLEAN] /\ processingPaused \in [Clients -> BOOLEAN]
      /\ inactivity \in [Clients -> BOOLEAN] /\ killed \in [Clients -> BOOLEAN]
      /\ responses \in [Clients -> Seq(Reqs)] /\ replies \in [Reqs -> Nat]
      /\ bdReqCtr \in [Clients -> Nat] /\ cached \in BOOLEAN
      /\ readPaused \in [Clients -> BOOLEAN] /\ decayTimer \in [Clients -> BOOLEAN]
  BY <1>1 DEF Types
<1> DEFINE Rest == /\ batch' \in [Clients -> {"none", "rejecting", "open", "finished", "deleted"}]
                   /\ life' \in [Clients -> {"up", "closing", "gone"}] /\ SameLives
                   /\ again' \in [Clients -> BOOLEAN] /\ processingPaused' \in [Clients -> BOOLEAN]
                   /\ inactivity' \in [Clients -> BOOLEAN] /\ killed' \in [Clients -> BOOLEAN]
                   /\ responses' \in [Clients -> Seq(Reqs)] /\ replies' \in [Reqs -> Nat]
                   /\ bdReqCtr' \in [Clients -> Nat] /\ cached' \in BOOLEAN
                   /\ readPaused' \in [Clients -> BOOLEAN] /\ decayTimer' \in [Clients -> BOOLEAN]
<1>4. Rest
  <2>1. CASE ProcessEnds(c)
    <3>1. replies' \in [Reqs -> Nat]
      BY <1>1, <2>1, ProcessEndsSends
    <3>2. /\ batch' = [batch EXCEPT ![c] = "finished"]
          /\ again' = [again EXCEPT ![c] = FALSE]
          /\ inactivity' = [inactivity EXCEPT ![c] = FALSE]
          /\ processingPaused' = [processingPaused EXCEPT ![c] = FALSE]
          /\ UNCHANGED <<life, killed, responses, throttleVars, cached>>
      BY <2>1 DEF ProcessEnds, Finish
    <3> QED BY <1>3, <3>1, <3>2 DEF throttleVars, SameLives
  <2>2. CASE ProcessPauses(c) \/ ProcessWaits(c)
    BY <1>3, <2>2 DEF ProcessPauses, ProcessWaits, throttleVars, SameLives
  <2>3. CASE BatchDestroyed(c)
    <3>1. <<>> \in Seq(Reqs)
      OBVIOUS
    <3> QED BY <1>3, <2>3, <3>1 DEF BatchDestroyed, throttleVars, SameLives
  <2>4. CASE BatchTimeout(c)
    <3>1. life[c] # "gone"
      BY <2>4 DEF BatchTimeout, Free
    <3> QED BY <1>3, <2>4, <3>1 DEF BatchTimeout, Finish, throttleVars, SameLives
  <2>5. CASE Close(c)
    BY <1>3, <2>5 DEF Close, throttleVars, batchVars, SameLives
  <2>6. ASSUME NEW decay \in Nat, Tick(c, decay) PROVE Rest
    <3> DEFINE ctr    == bdReqCtr[c] - Min({decay, bdReqCtr[c]})
               resume == readPaused[c] /\ ctr <= bdReqLo
    <3>1. bdReqCtr' \in [Clients -> Nat]
      BY <1>1, <2>6, TickLowers
    <3>2. /\ readPaused' = [readPaused EXCEPT ![c] = readPaused[c] /\ ~ resume]
          /\ again' = [again EXCEPT ![c] = again[c] \/ (resume /\ processingPaused[c])]
          /\ decayTimer' = [decayTimer EXCEPT ![c] = ctr > 0]
          /\ UNCHANGED <<life, batch, processingPaused, inactivity, killed, responses, cached, replies>>
      BY <2>6 DEF Tick
    <3>3. (readPaused[c] /\ ~ resume) \in BOOLEAN /\ (ctr > 0) \in BOOLEAN
          /\ (again[c] \/ (resume /\ processingPaused[c])) \in BOOLEAN
      OBVIOUS
    <3> HIDE DEF ctr, resume
    <3>4. readPaused' \in [Clients -> BOOLEAN]
      BY <1>3, <3>2, <3>3
    <3>5. again' \in [Clients -> BOOLEAN]
      BY <1>3, <3>2, <3>3
    <3>6. decayTimer' \in [Clients -> BOOLEAN]
      BY <1>3, <3>2, <3>3
    <3> QED BY <1>3, <3>1, <3>2, <3>4, <3>5, <3>6 DEF SameLives
  <2>7. 0 \in Nat /\ decayPerSec \in Nat
    BY ClientAssumption
  <2> HIDE DEF Rest
  <2> QED BY <2>1, <2>2, <2>3, <2>4, <2>5, <2>6, <2>7 DEF Quiet
<1>5. Types'
  BY <1>1, <1>2, <1>4 DEF Types, bdVars, connVars, ctxVars
<1>6. Way' /\ owner' = owner /\ \A x \in Reqs : Got("job", x)' <=> Got("job", x)
  BY <1>2, <1>4, <1>5, QuietWay
<1> QED BY <1>2, <1>6

(* The end of what is cached concerns no request. *)
LEMMA CacheExpiresKeepsWay ==
    ASSUME Way, CacheExpires
    PROVE  Way' /\ owner' = owner /\ \A x \in Reqs : Got("job", x)' <=> Got("job", x)
<1>1. UNCHANGED <<bdVars, life, batchVars, throttleVars, route, poolVars, calls, replies>>
      /\ cached' = FALSE
  BY DEF CacheExpires
<1>2. cached' \in BOOLEAN
  BY <1>1
<1>3. Types'
  BY <1>1, <1>2 DEF Way, Types, bdVars, connVars, ctxVars, batchVars, throttleVars, poolVars
<1>4. SameLives
  BY <1>1 DEF SameLives
<1> QED BY <1>1, <1>3, <1>4, QuietWay DEF poolVars

-----------------------------------------------------------------------------
(* What clients are told *)

(* Batches go on, and no request changes its route. *)
Steady ==
    /\ items' = items
    /\ \A x \in Reqs : owner[x] # None => owner'[x] = owner[x]
    /\ \A c \in Clients : next[c] <= next'[c] /\ next'[c] <= Len(items[c])
    /\ \A x \in Reqs :
           \/ route'[x] = route[x]
           \/ /\ route[x] = None /\ route'[x] # None
              /\ \A c \in Clients : \A i \in 1 .. Len(items[c]) : items[c][i] = x => i <= next'[c]
    /\ \A c \in Clients :
           /\ batch'[c] = "none" => batch[c] = "none"
           /\ batch'[c] \in {"none", "rejecting", "open"} =>
                  batch[c] \in {"none", "rejecting", "open"}
           /\ life[c] # "up" => life'[c] # "up"

(* Nothing is owed that was not owed, and nobody is refused. *)
NothingNew ==
    \A x \in Reqs : /\ Owed(x)' => Owed(x)
                    /\ route'[x] = "refused" => route[x] = "refused"

(* Items stay what they are. *)
LEMMA SteadyItems ==
    ASSUME Way, Way', ItemsAreOwn, Steady
    PROVE  ItemsAreOwn'
<1>1. ASSUME NEW c \in Clients
      PROVE  /\ items'[c] = items[c] /\ items[c] \in Seq(Reqs) /\ Len(items[c]) \in Nat
             /\ next[c] \in Nat /\ next'[c] \in Nat /\ next[c] <= next'[c]
             /\ \A i \in 1 .. Len(items[c]) : items[c][i] \in Reqs
  BY DEF Way, Types, Steady
<1>2. ASSUME NEW c \in Clients, NEW i \in 1 .. Len(items[c])
      PROVE  owner'[items[c][i]] = c
  <2>1. items[c][i] \in Reqs /\ owner[items[c][i]] = c /\ c # None
    BY <1>1, ClientAssumption DEF ItemsAreOwn
  <2> QED BY <2>1 DEF Steady
<1>3. ASSUME NEW c \in Clients, NEW i \in 1 .. Len(items[c]), i > next'[c]
      PROVE  route'[items[c][i]] = None
  <2>1. i > next[c] /\ i \in Nat /\ ~ (i <= next'[c])
    BY <1>1, <1>3
  <2>2. items[c][i] \in Reqs /\ route[items[c][i]] = None
    BY <1>1, <2>1 DEF ItemsAreOwn
  <2> QED BY <2>1, <2>2 DEF Steady
<1> QED BY <1>1, <1>2, <1>3 DEF ItemsAreOwn, Steady

(* An answer that is owed is not one of those that refuse. *)
LEMMA OwedIsNotRefused ==
    ASSUME Way, NEW r \in Reqs, Owed(r)
    PROVE  route[r] # "refused"
BY DEF Way, Paths, Path, Owed, None

(* The client of a request is the client of the batch it is in. *)
LEMMA BatchedIsOwn ==
    ASSUME Types, ItemsAreOwn, NEW c \in Clients, NEW r, Batched(c, r)
    PROVE  /\ owner[r] = c /\ r \in Reqs
           /\ \E i \in 1 .. Len(items[c]) : items[c][i] = r
BY DEF Batched, Contains, ItemsAreOwn, Types

(* A step that tells clients nothing. *)
LEMMA SilentStep ==
    ASSUME Way, Way', Answers, Steady, NothingNew, replies' = replies,
           \A c \in Clients : responses'[c] \in {responses[c], <<>>}
    PROVE  Answers'
<1>1. ItemsAreOwn'
  BY SteadyItems DEF Answers
<1>2. \A x \in Reqs : route'[x] = "refused" <=> route[x] = "refused"
  BY DEF NothingNew, Steady, None
<1>3. \A c \in Clients : items'[c] = items[c] /\ \A x : Batched(c, x)' <=> Batched(c, x)
  BY DEF Steady, Batched
<1>4. AllOrNone'
  BY <1>2, <1>3 DEF AllOrNone, Answers
<1>5. \A c \in Clients : \A x : Contains(responses'[c], x) => Contains(responses[c], x)
  BY DEF Contains
<1>6. OwedIsNotGiven'
  BY <1>5 DEF OwedIsNotGiven, Answers, NothingNew
<1>7. ResponsesAreItems'
  <2>1. ASSUME NEW c \in Clients
        PROVE  /\ \A i \in 1 .. Len(responses'[c]) : Contains(items'[c], responses'[c][i])
               /\ \A i, j \in 1 .. Len(responses'[c]) : responses'[c][i] = responses'[c][j] => i = j
    <3>1. CASE responses'[c] = responses[c]
      BY <1>3, <3>1 DEF Answers, ResponsesAreItems
    <3>2. CASE responses'[c] = <<>>
      BY <3>2
    <3> QED BY <3>1, <3>2
  <2> QED BY <2>1 DEF ResponsesAreItems
<1>8. BatchWaits'
  <2>1. ASSUME NEW r \in Reqs, route'[r] = "refused" PROVE life'[owner'[r]] # "up"
    <3>1. route[r] = "refused" /\ route[r] # None
      BY <1>2, <2>1 DEF None
    <3>2. owner[r] \in Clients /\ owner[r] # None
      BY <3>1, RoutedHasOwner, ClientAssumption
    <3> QED BY <3>1, <3>2 DEF Steady, Answers, BatchWaits
  <2>2. ASSUME NEW c \in Clients, batch'[c] \in {"none", "rejecting", "open"},
               NEW i \in 1 .. Len(items'[c]), route'[items'[c][i]] # "refused"
        PROVE  replies'[items'[c][i]] = 0
    <3>1. items'[c][i] = items[c][i] /\ i \in 1 .. Len(items[c])
      BY <1>3
    <3>2. items[c] \in Seq(Reqs)
      BY DEF Way, Types
    <3>3. items[c][i] \in Reqs
      BY <3>1, <3>2
    <3> QED BY <1>2, <2>2, <3>1, <3>3 DEF Steady, Answers, BatchWaits
  <2> QED BY <2>1, <2>2 DEF BatchWaits
<1> QED BY <1>1, <1>4, <1>6, <1>7, <1>8 DEF Answers

(* A step that answers a request that was owed its answer. *)
LEMMA DeliverStep ==
    ASSUME Way, Way', Answers, Steady, NothingNew, UNCHANGED <<life, batch>>,
           NEW c \in Clients, NEW r \in Reqs, Deliver(c, r), owner'[r] = c, Owed(r), ~ Owed(r)'
    PROVE  Answers'
<1>1. ItemsAreOwn' /\ Types /\ Types' /\ ItemsAreOwn
  BY SteadyItems DEF Answers, Way
<1>2. \A x \in Reqs : route'[x] = "refused" <=> route[x] = "refused"
  BY DEF NothingNew, Steady, None
<1>3. \A d \in Clients : items'[d] = items[d] /\ \A x : Batched(d, x)' <=> Batched(d, x)
  BY DEF Steady, Batched
<1>4. replies[r] = 0 /\ \A d \in Clients : ~ Contains(responses[d], r)
  BY DEF Answers, OwedIsNotGiven
<1>5. \A x \in Reqs : route'[x] = "refused" => life'[owner'[x]] # "up"
  <2>1. ASSUME NEW x \in Reqs, route'[x] = "refused" PROVE life'[owner'[x]] # "up"
    <3>1. route[x] = "refused" /\ route[x] # None
      BY <1>2, <2>1 DEF None
    <3>2. owner[x] \in Clients /\ owner[x] # None
      BY <3>1, RoutedHasOwner, ClientAssumption
    <3> QED BY <3>1, <3>2 DEF Steady, Answers, BatchWaits
  <2> QED BY <2>1
<1>6. /\ responses \in [Clients -> Seq(Reqs)] /\ replies \in [Reqs -> Nat]
      /\ \A d \in Clients : \A i \in 1 .. Len(items[d]) : items[d][i] \in Reqs
  <2>1. Types
    BY <1>1
  <2>2. responses \in [Clients -> Seq(Reqs)] /\ replies \in [Reqs -> Nat]
        /\ items \in [Clients -> Seq(Reqs)]
    BY <2>1 DEF Types
  <2>3. ASSUME NEW d \in Clients, NEW i \in 1 .. Len(items[d]) PROVE items[d][i] \in Reqs
    <3>1. items[d] \in Seq(Reqs)
      BY <2>2
    <3> QED BY <3>1
  <2> QED BY <2>2, <2>3
<1>7. CASE /\ ~ Batched(c, r) /\ replies' = [replies EXCEPT ![r] = @ + 1]
           /\ responses' = responses
  <2>1. replies'[r] = 1 /\ \A x \in Reqs \ {r} : replies'[x] = replies[x]
    BY <1>4, <1>6, <1>7
  <2>2. ASSUME NEW d \in Clients, NEW x \in Reqs, Batched(d, x) PROVE x # r
    <3> SUFFICES ASSUME x = r PROVE FALSE
      OBVIOUS
    <3>1. \E i \in 1 .. Len(items'[d]) : items'[d][i] = r
      BY <1>3, <2>2 DEF Batched, Contains
    <3>2. owner'[r] = d
      BY <1>1, <3>1 DEF ItemsAreOwn
    <3> QED BY <1>7, <2>2, <3>2
  <2>3. AllOrNone'
    BY <1>2, <1>3, <2>1, <2>2 DEF AllOrNone, Answers
  <2>4. OwedIsNotGiven'
    BY <1>7, <2>1 DEF OwedIsNotGiven, Answers, NothingNew
  <2>5. ResponsesAreItems'
    BY <1>3, <1>7 DEF Answers, ResponsesAreItems
  <2>6. \A x \in Reqs : replies'[x] <= 1
    BY <2>1 DEF Answers
  <2>7. ASSUME NEW d \in Clients, batch'[d] \in {"none", "rejecting", "open"},
               NEW i \in 1 .. Len(items'[d]), route'[items'[d][i]] # "refused"
        PROVE  replies'[items'[d][i]] = 0
    <3>1. items'[d][i] = items[d][i] /\ i \in 1 .. Len(items[d]) /\ items[d][i] \in Reqs
      BY <1>3, <1>6
    <3>2. Batched(d, items[d][i])
      BY <3>1 DEF Batched, Contains
    <3>3. replies'[items[d][i]] = replies[items[d][i]]
      BY <2>1, <2>2, <3>1, <3>2
    <3>4. route[items[d][i]] # "refused" /\ batch[d] \in {"none", "rejecting", "open"}
      BY <1>2, <2>7, <3>1
    <3> QED BY <3>1, <3>3, <3>4 DEF Answers, BatchWaits
  <2> QED BY <1>1, <1>5, <2>3, <2>4, <2>5, <2>6, <2>7 DEF Answers, BatchWaits
<1>8. ASSUME replies' = replies PROVE AllOrNone' /\ BatchWaits' /\ \A x \in Reqs : replies'[x] <= 1
  <2>1. AllOrNone'
    BY <1>2, <1>3, <1>8 DEF AllOrNone, Answers
  <2>2. ASSUME NEW d \in Clients, batch'[d] \in {"none", "rejecting", "open"},
               NEW i \in 1 .. Len(items'[d]), route'[items'[d][i]] # "refused"
        PROVE  replies'[items'[d][i]] = 0
    <3>1. items'[d][i] = items[d][i] /\ i \in 1 .. Len(items[d]) /\ items[d][i] \in Reqs
      BY <1>3, <1>6
    <3>2. route[items[d][i]] # "refused" /\ batch[d] \in {"none", "rejecting", "open"}
      BY <1>2, <2>2, <3>1
    <3> QED BY <1>8, <3>1, <3>2 DEF Answers, BatchWaits
  <2>3. \A x \in Reqs : replies'[x] <= 1
    BY <1>8 DEF Answers
  <2> QED BY <1>5, <2>1, <2>2, <2>3 DEF BatchWaits
<1>9. CASE /\ Batched(c, r) /\ replies' = replies
           /\ responses' = [responses EXCEPT ![c] = Append(@, r)]
  <2>1. /\ responses'[c] = Append(responses[c], r) /\ responses[c] \in Seq(Reqs)
        /\ \A d \in Clients \ {c} : responses'[d] = responses[d]
    BY <1>6, <1>9
  <2>2. \A x : Contains(responses'[c], x) <=> Contains(responses[c], x) \/ x = r
    BY <2>1, AppendFacts
  <2>3. \A x \in Reqs : Owed(x)' => x # r
    OBVIOUS
  <2>4. OwedIsNotGiven'
    BY <1>9, <2>1, <2>2, <2>3 DEF OwedIsNotGiven, Answers, NothingNew
  <2>5. ASSUME NEW d \in Clients
        PROVE  /\ \A i \in 1 .. Len(responses'[d]) : Contains(items'[d], responses'[d][i])
               /\ \A i, j \in 1 .. Len(responses'[d]) : responses'[d][i] = responses'[d][j] => i = j
    <3>1. CASE d # c
      BY <1>3, <2>1, <3>1 DEF Answers, ResponsesAreItems
    <3>2. CASE d = c
      <4>1. /\ Len(responses'[c]) = Len(responses[c]) + 1 /\ Len(responses[c]) \in Nat
            /\ \A i \in 1 .. Len(responses[c]) : responses'[c][i] = responses[c][i]
            /\ responses'[c][Len(responses[c]) + 1] = r
        BY <2>1
      <4>2. \A i \in 1 .. Len(responses[c]) : responses[c][i] # r
        BY <1>4 DEF Contains
      <4>3. \A i \in 1 .. Len(responses[c]) : Contains(items[c], responses[c][i])
        BY DEF Answers, ResponsesAreItems
      <4>4. \A i, j \in 1 .. Len(responses[c]) : responses[c][i] = responses[c][j] => i = j
        BY DEF Answers, ResponsesAreItems
      <4>5. Contains(items'[c], r) /\ items'[c] = items[c]
        BY <1>3, <1>9 DEF Batched
      <4>6. \A i \in 1 .. Len(responses'[c]) : i \in 1 .. Len(responses[c]) \/ i = Len(responses[c]) + 1
        BY <4>1
      <4>7. \A i \in 1 .. Len(responses'[c]) : Contains(items'[c], responses'[c][i])
        BY <4>1, <4>3, <4>5, <4>6
      <4>8. \A i, j \in 1 .. Len(responses'[c]) : responses'[c][i] = responses'[c][j] => i = j
        <5> SUFFICES ASSUME NEW i \in 1 .. Len(responses'[c]), NEW j \in 1 .. Len(responses'[c]),
                            responses'[c][i] = responses'[c][j]
                     PROVE  i = j
          OBVIOUS
        <5>1. CASE i \in 1 .. Len(responses[c]) /\ j \in 1 .. Len(responses[c])
          BY <4>1, <4>4, <5>1
        <5>2. CASE i \in 1 .. Len(responses[c]) /\ j = Len(responses[c]) + 1
          BY <4>1, <4>2, <5>2
        <5>3. CASE i = Len(responses[c]) + 1 /\ j \in 1 .. Len(responses[c])
          BY <4>1, <4>2, <5>3
        <5> QED BY <4>6, <5>1, <5>2, <5>3
      <4> QED BY <3>2, <4>7, <4>8
    <3> QED BY <3>1, <3>2
  <2>6. ResponsesAreItems'
    BY <2>5 DEF ResponsesAreItems
  <2> QED BY <1>1, <1>8, <1>9, <2>4, <2>6 DEF Answers
<1>10. CASE UNCHANGED <<responses, replies>>
  <2>1. OwedIsNotGiven'
    BY <1>10 DEF OwedIsNotGiven, Answers, NothingNew
  <2>2. ResponsesAreItems'
    BY <1>3, <1>10 DEF ResponsesAreItems, Answers
  <2> QED BY <1>1, <1>8, <1>10, <2>1, <2>2 DEF Answers
<1> QED BY <1>7, <1>9, <1>10 DEF Deliver

(* A request that is refused is the only one of its batch that is answered. *)
LEMMA RefuseStep ==
    ASSUME Way, Way', Answers, Steady, batch' = batch,
           NEW c \in Clients, NEW r \in Reqs, Refuse(c, r), owner'[r] = c, route'[r] = "refused",
           life[c] = "up", Owed(r), Batched(c, r) => batch[c] = "open",
           \A x \in Reqs \ {r} : (Owed(x)' => Owed(x)) /\ route'[x] = route[x]
    PROVE  Answers'
<1>1. ItemsAreOwn' /\ Types /\ Types' /\ ItemsAreOwn
  BY SteadyItems DEF Answers, Way
<1>2. /\ replies' = [replies EXCEPT ![r] = @ + 1] /\ life' = [life EXCEPT ![c] = "closing"]
      /\ responses' = responses
  BY DEF Refuse
<1>3. \A d \in Clients : items'[d] = items[d] /\ \A x : Batched(d, x)' <=> Batched(d, x)
  BY DEF Steady, Batched
<1>4. replies[r] = 0 /\ replies \in [Reqs -> Nat] /\ life \in [Clients -> {"up", "closing", "gone"}]
  BY <1>1 DEF Answers, OwedIsNotGiven, Types
<1>5. replies'[r] = 1 /\ \A x \in Reqs \ {r} : replies'[x] = replies[x]
  BY <1>2, <1>4
<1>6. ~ Owed(r)'
  <2>1. route'[r] # None /\ route'[r] # "pool" /\ route'[r] # "bitcoind"
    BY DEF None
  <2>2. Path(r)'
    BY DEF Way, Paths
  <2>3. job'[r] = None /\ ~ Got("job", r)'
    BY <2>1, <2>2 DEF Path, None
  <2> QED BY <2>1, <2>3 DEF Owed, None
<1>7. OwedIsNotGiven'
  BY <1>2, <1>5, <1>6 DEF OwedIsNotGiven, Answers
<1>8. ResponsesAreItems'
  BY <1>2, <1>3 DEF ResponsesAreItems, Answers
<1>9. \A x \in Reqs : replies'[x] <= 1
  BY <1>5 DEF Answers
<1>10. \A d \in Clients : Batched(d, r) => d = c
  <2>1. ASSUME NEW d \in Clients, Batched(d, r) PROVE d = c
    <3>1. \E i \in 1 .. Len(items'[d]) : items'[d][i] = r
      BY <1>3, <2>1 DEF Batched, Contains
    <3> QED BY <1>1, <3>1 DEF ItemsAreOwn
  <2> QED BY <2>1
<1>11. BatchWaits'
  <2>1. ASSUME NEW x \in Reqs, route'[x] = "refused" PROVE life'[owner'[x]] # "up"
    <3>1. CASE x = r
      BY <1>2, <1>4, <3>1
    <3>2. CASE x # r
      <4>1. route[x] = "refused" /\ route[x] # None
        BY <2>1, <3>2 DEF None
      <4>2. owner[x] \in Clients /\ owner[x] # None
        BY <4>1, RoutedHasOwner, ClientAssumption
      <4>3. life[owner[x]] # "up" /\ owner'[x] = owner[x]
        BY <4>1, <4>2 DEF Steady, Answers, BatchWaits
      <4> QED BY <1>2, <1>4, <4>2, <4>3
    <3> QED BY <3>1, <3>2
  <2>2. ASSUME NEW d \in Clients, batch'[d] \in {"none", "rejecting", "open"},
               NEW i \in 1 .. Len(items'[d]), route'[items'[d][i]] # "refused"
        PROVE  replies'[items'[d][i]] = 0
    <3>0. items[d] \in Seq(Reqs)
      BY <1>1 DEF Types
    <3>1. items'[d][i] = items[d][i] /\ i \in 1 .. Len(items[d]) /\ items[d][i] \in Reqs
      BY <1>3, <3>0
    <3>2. items[d][i] # r
      BY <2>2, <3>1
    <3>3. route[items[d][i]] # "refused" /\ batch[d] \in {"none", "rejecting", "open"}
      BY <2>2, <3>1, <3>2
    <3> QED BY <1>5, <3>1, <3>2, <3>3 DEF Answers, BatchWaits
  <2> QED BY <2>1, <2>2 DEF BatchWaits
<1>12. AllOrNone'
  <2> SUFFICES ASSUME NEW d \in Clients, NEW x \in Reqs, NEW q \in Reqs, Batched(d, x), Batched(d, q)
               PROVE  /\ route'[x] = "refused" /\ route'[q] # "refused" => replies'[q] = 0
                      /\ (\A y \in Reqs : Batched(d, y) => route'[y] # "refused") =>
                             replies'[x] = replies'[q]
    BY <1>3 DEF AllOrNone
  <2>1. CASE ~ Batched(d, r)
    <3>1. \A y \in Reqs : Batched(d, y) => y # r
      BY <2>1
    <3> QED BY <1>5, <3>1 DEF AllOrNone, Answers
  <2>2. CASE Batched(d, r)
    <3>1. d = c /\ batch[c] = "open"
      BY <1>10, <2>2
    <3>2. ASSUME route'[q] # "refused" PROVE replies'[q] = 0
      <4>1. q # r /\ route[q] # "refused"
        BY <3>2
      <4>2. PICK i \in 1 .. Len(items[c]) : items[c][i] = q
        BY <3>1 DEF Batched, Contains
      <4>3. replies[q] = 0
        BY <3>1, <4>1, <4>2 DEF Answers, BatchWaits
      <4> QED BY <1>5, <4>1, <4>3
    <3> QED BY <2>2, <3>2
  <2> QED BY <2>1, <2>2
<1> QED BY <1>1, <1>7, <1>8, <1>9, <1>11, <1>12 DEF Answers

(* A sequence without repetitions has as many members as it is long. *)
LEMMA MembersAreCounted ==
    ASSUME NEW S, NEW s \in Seq(S), \A i, j \in 1 .. Len(s) : s[i] = s[j] => i = j
    PROVE  /\ IsFiniteSet({x \in S : Contains(s, x)})
           /\ Cardinality({x \in S : Contains(s, x)}) = Len(s)
<1> DEFINE M == {x \in S : Contains(s, x)}
<1>1. Len(s) \in Nat /\ s \in [1 .. Len(s) -> S]
  OBVIOUS
<1>2. s \in [1 .. Len(s) -> M] /\ \A x \in M : \E i \in 1 .. Len(s) : s[i] = x
  BY <1>1 DEF Contains
<1> HIDE DEF M
<1>3. s \in Bijection(1 .. Len(s), M)
  BY <1>1, <1>2 DEF Bijection, Injection, Surjection, IsInjective
<1>4. ExistsBijection(1 .. Len(s), M)
  BY <1>3 DEF ExistsBijection
<1>5. IsFiniteSet(M) /\ Cardinality(M) = Len(s)
  BY <1>1, <1>4, FS_NatBijection, FS_CountingElements
<1> QED BY <1>5 DEF M

(* A batch that is complete has a response for each of its items. *)
LEMMA CompleteHasAll ==
    ASSUME Types, ItemsAreOwn, ResponsesAreItems, NEW c \in Clients,
           isComplete(c, next[c], responses[c]), NEW r \in Reqs, Batched(c, r)
    PROVE  Contains(responses[c], r) /\ AtMostOnce(responses[c], r)
<1> DEFINE I == {x \in Reqs : Contains(items[c], x)}
           R == {x \in Reqs : Contains(responses[c], x)}
<1>1. items[c] \in Seq(Reqs) /\ responses[c] \in Seq(Reqs)
  BY DEF Types
<1>2. Len(responses[c]) >= Len(items[c]) /\ Len(responses[c]) \in Nat /\ Len(items[c]) \in Nat
  BY <1>1 DEF isComplete
<1>3. \A i, j \in 1 .. Len(items[c]) : items[c][i] = items[c][j] => i = j
  BY DEF ItemsAreOwn
<1>4. \A i, j \in 1 .. Len(responses[c]) : responses[c][i] = responses[c][j] => i = j
  BY DEF ResponsesAreItems
<1>5. IsFiniteSet(I) /\ Cardinality(I) = Len(items[c])
  BY <1>1, <1>3, MembersAreCounted
<1>6. IsFiniteSet(R) /\ Cardinality(R) = Len(responses[c])
  BY <1>1, <1>4, MembersAreCounted
<1>7. R \in SUBSET I
  BY SMTT(30) DEF ResponsesAreItems, Contains
<1>8. r \in I
  BY DEF Batched
<1>9. \A x \in R : Contains(responses[c], x)
  OBVIOUS
<1> HIDE DEF I, R
<1>10. Cardinality(R) <= Cardinality(I) /\ (Cardinality(I) = Cardinality(R) => I = R)
  BY <1>5, <1>7, FS_Subset
<1>11. Cardinality(I) = Cardinality(R)
  BY <1>2, <1>5, <1>6, <1>10
<1>12. Contains(responses[c], r)
  BY <1>8, <1>9, <1>10, <1>11
<1> QED BY <1>4, <1>12 DEF AtMostOnce

(* The answers of a batch are sent together. *)
LEMMA ProcessEndsStep ==
    ASSUME Way, Way', Answers, Steady, NothingNew, NEW c \in Clients, ProcessEnds(c)
    PROVE  Answers'
<1>1. ItemsAreOwn' /\ Types /\ ItemsAreOwn /\ ResponsesAreItems /\ Paths
  BY SteadyItems DEF Answers, Way
<1>2. /\ batch[c] = "open" /\ batch' = [batch EXCEPT ![c] = "finished"] /\ responses' = responses
      /\ UNCHANGED <<items, route, bdVars, life>>
  BY DEF ProcessEnds, Processes, Finish
<1>3. CASE replies' = replies
  <2>1. \A d \in Clients : responses'[d] \in {responses[d], <<>>}
    BY <1>2
  <2> QED BY <1>3, <2>1, SilentStep
<1>4. CASE /\ life[c] = "up" /\ isComplete(c, next[c], responses[c])
           /\ \A r \in Reqs : replies'[r] = replies[r] + Times(c, r)
  <2>1. ASSUME NEW r \in Reqs, Batched(c, r)
        PROVE  replies[r] = 0 /\ replies'[r] = 1 /\ route[r] # "refused"
    <3>1. owner[r] = c /\ \E i \in 1 .. Len(items[c]) : items[c][i] = r
      BY <1>1, <2>1, BatchedIsOwn
    <3>2. route[r] # "refused"
      BY <1>4, <3>1 DEF Answers, BatchWaits
    <3>3. replies[r] = 0
      BY <1>2, <3>1, <3>2 DEF Answers, BatchWaits
    <3>4. Contains(responses[c], r) /\ AtMostOnce(responses[c], r)
      BY <1>1, <1>4, <2>1, CompleteHasAll
    <3>5. Times(c, r) = 1
      BY <1>1, <3>4, TimesFacts
    <3> QED BY <1>4, <3>2, <3>3, <3>5
  <2>2. ASSUME NEW r \in Reqs, ~ Batched(c, r) PROVE replies'[r] = replies[r]
    <3>1. ~ Contains(responses[c], r)
      BY <1>1, <2>2 DEF ResponsesAreItems, Batched, Contains
    <3>2. Times(c, r) = 0 /\ replies[r] \in Nat
      BY <1>1, <3>1, TimesFacts DEF Types
    <3> QED BY <1>4, <3>2
  <2>3. \A d \in Clients \ {c}, r \in Reqs : Batched(d, r) => ~ Batched(c, r)
    BY <1>1, BatchedIsOwn
  <2>4. \A d \in Clients : \A r : Batched(d, r)' <=> Batched(d, r)
    BY <1>2 DEF Batched
  <2>5. OwedIsNotGiven'
    <3>1. \A r \in Reqs : Owed(r) => ~ Batched(c, r)
      <4>1. ASSUME NEW r \in Reqs, Owed(r), Batched(c, r) PROVE FALSE
        <5>1. Contains(responses[c], r)
          BY <1>1, <1>4, <4>1, CompleteHasAll
        <5> QED BY <4>1, <5>1 DEF Answers, OwedIsNotGiven
      <4> QED BY <4>1
    <3> QED BY <1>2, <2>2, <3>1 DEF OwedIsNotGiven, Answers, NothingNew
  <2>6. ResponsesAreItems'
    BY <1>1, <1>2 DEF ResponsesAreItems
  <2>7. \A r \in Reqs : replies'[r] <= 1
    BY <2>1, <2>2 DEF Answers
  <2>8. BatchWaits'
    <3>1. \A r \in Reqs : route'[r] = "refused" => life'[owner'[r]] # "up"
      <4>1. owner' = owner /\ life' = life /\ route' = route
        BY <1>2 DEF bdVars, ctxVars
      <4> QED BY <4>1 DEF Answers, BatchWaits
    <3>2. ASSUME NEW d \in Clients, batch'[d] \in {"none", "rejecting", "open"},
                 NEW i \in 1 .. Len(items'[d]), route'[items'[d][i]] # "refused"
          PROVE  replies'[items'[d][i]] = 0
      <4>0. items[d] \in Seq(Reqs) /\ batch \in [Clients -> {"none", "rejecting", "open", "finished", "deleted"}]
        BY <1>1 DEF Types
      <4>1. items'[d][i] = items[d][i] /\ i \in 1 .. Len(items[d]) /\ items[d][i] \in Reqs
        BY <1>2, <4>0
      <4>2. d # c /\ batch[d] \in {"none", "rejecting", "open"}
        BY <1>2, <3>2, <4>0
      <4>3. Batched(d, items[d][i])
        BY <4>1 DEF Batched, Contains
      <4>4. replies'[items[d][i]] = replies[items[d][i]]
        BY <2>2, <2>3, <4>1, <4>2, <4>3
      <4> QED BY <1>2, <3>2, <4>1, <4>2, <4>4 DEF Answers, BatchWaits
    <3> QED BY <3>1, <3>2 DEF BatchWaits
  <2>9. AllOrNone'
    <3> SUFFICES ASSUME NEW d \in Clients, NEW x \in Reqs, NEW q \in Reqs, Batched(d, x), Batched(d, q)
                 PROVE  /\ route[x] = "refused" /\ route[q] # "refused" => replies'[q] = 0
                        /\ (\A y \in Reqs : Batched(d, y) => route[y] # "refused") =>
                               replies'[x] = replies'[q]
      BY <1>2, <2>4 DEF AllOrNone
    <3>1. CASE d = c
      BY <2>1, <3>1
    <3>2. CASE d # c
      <4>1. replies'[x] = replies[x] /\ replies'[q] = replies[q]
        BY <2>2, <2>3, <3>2
      <4> QED BY <4>1 DEF Answers, AllOrNone
    <3> QED BY <3>1, <3>2
  <2> QED BY <1>1, <2>5, <2>6, <2>7, <2>8, <2>9 DEF Answers
<1> QED BY <1>1, <1>3, <1>4, ProcessEndsSends

(* A batch begins with nothing said. *)
LEMMA EnqueueBatchStep ==
    ASSUME Way, Answers, NEW c \in Clients, NEW n \in BatchSizes, EnqueueBatch(c, n)
    PROVE  Answers'
<1>1. /\ Way' /\ inbox' = inbox
      /\ n \in Nat /\ items'[c] \in Seq(Reqs) /\ Len(items'[c]) = n
      /\ \A d \in Clients \ {c} : items'[d] = items[d]
      /\ \A i \in 1 .. n : items'[c][i] \in Reqs /\ owner[items'[c][i]] = None
                           /\ owner'[items'[c][i]] = c /\ route[items'[c][i]] = None
      /\ \A i, j \in 1 .. n : items'[c][i] = items'[c][j] => i = j
      /\ \A r \in Reqs : owner[r] # None => owner'[r] = owner[r]
      /\ \A r \in Reqs : owner[r] # owner'[r] => route[r] = None /\ Contains(items'[c], r)
  BY EnqueueBatchKeepsWay
<1>2. Types /\ ItemsAreOwn /\ ResponsesAreItems /\ Paths
  BY DEF Way, Answers
<1>3. /\ batch[c] = "none" /\ UNCHANGED <<life, next, responses, route, job, calls, replies>>
      /\ batch'[c] \in {"rejecting", "open"} /\ \A d \in Clients \ {c} : batch'[d] = batch[d]
  <2>1. batch \in [Clients -> {"none", "rejecting", "open", "finished", "deleted"}]
    BY <1>2 DEF Types
  <2> QED BY <2>1 DEF EnqueueBatch, poolVars
<1>4. items[c] = <<>> /\ next[c] = 0 /\ responses[c] = <<>>
  <2>1. items[c] = <<>> /\ next[c] <= Len(items[c]) /\ next[c] \in Nat /\ responses[c] \in Seq(Reqs)
    BY <1>2, <1>3 DEF ItemsAreOwn, Types
  <2>2. next[c] = 0 /\ \A x : ~ Contains(items[c], x)
    BY <2>1 DEF Contains
  <2>3. \A i \in 1 .. Len(responses[c]) : FALSE
    BY <1>2, <2>2 DEF ResponsesAreItems
  <2>4. Len(responses[c]) = 0
    BY <2>1, <2>3
  <2> QED BY <2>1, <2>2, <2>4
<1>5. \A r \in Reqs : Owed(r)' <=> Owed(r)
  BY <1>1, <1>3 DEF Owed, Got
<1>6. OwedIsNotGiven'
  BY <1>3, <1>5 DEF OwedIsNotGiven, Answers
<1>7. ItemsAreOwn'
  <2>1. ASSUME NEW d \in Clients, d # c
        PROVE  \A i \in 1 .. Len(items'[d]) : owner'[items'[d][i]] = d
    <3>1. items'[d] = items[d] /\ items[d] \in Seq(Reqs) /\ d # None
      BY <1>1, <1>2, <2>1, ClientAssumption DEF Types
    <3>2. \A i \in 1 .. Len(items[d]) : items[d][i] \in Reqs /\ owner[items[d][i]] = d
      BY <1>2, <3>1 DEF ItemsAreOwn
    <3> QED BY <1>1, <3>1, <3>2
  <2>2. ASSUME NEW d \in Clients, d # c
        PROVE  /\ next'[d] <= Len(items'[d])
               /\ \A i, j \in 1 .. Len(items'[d]) : items'[d][i] = items'[d][j] => i = j
               /\ \A i \in 1 .. Len(items'[d]) : i > next'[d] => route'[items'[d][i]] = None
               /\ batch'[d] = "none" => items'[d] = <<>>
    BY <1>1, <1>2, <1>3, <2>2 DEF ItemsAreOwn
  <2>3. /\ next'[c] <= Len(items'[c])
        /\ \A i \in 1 .. Len(items'[c]) : owner'[items'[c][i]] = c
        /\ \A i, j \in 1 .. Len(items'[c]) : items'[c][i] = items'[c][j] => i = j
        /\ \A i \in 1 .. Len(items'[c]) : i > next'[c] => route'[items'[c][i]] = None
        /\ batch'[c] # "none"
    BY <1>1, <1>3, <1>4
  <2> QED BY <2>1, <2>2, <2>3 DEF ItemsAreOwn
<1>8. ResponsesAreItems'
  <2>1. ASSUME NEW d \in Clients
        PROVE  /\ \A i \in 1 .. Len(responses[d]) : Contains(items'[d], responses[d][i])
               /\ \A i, j \in 1 .. Len(responses[d]) : responses[d][i] = responses[d][j] => i = j
    <3>1. CASE d = c
      BY <1>4, <3>1
    <3>2. CASE d # c
      BY <1>1, <1>2, <3>2 DEF ResponsesAreItems
    <3> QED BY <3>1, <3>2
  <2> QED BY <1>3, <2>1 DEF ResponsesAreItems
<1>9. \A i \in 1 .. n : replies[items'[c][i]] = 0 /\ route[items'[c][i]] # "refused"
  BY <1>1 DEF Answers, OwedIsNotGiven, Owed, None
<1>10. BatchWaits'
  <2>1. ASSUME NEW r \in Reqs, route[r] = "refused" PROVE life[owner'[r]] # "up"
    <3>1. route[r] # None
      BY <2>1 DEF None
    <3>2. owner'[r] = owner[r]
      BY <1>1, <3>1
    <3> QED BY <2>1, <3>2 DEF Answers, BatchWaits
  <2>2. ASSUME NEW d \in Clients, batch'[d] \in {"none", "rejecting", "open"},
               NEW i \in 1 .. Len(items'[d]), route[items'[d][i]] # "refused"
        PROVE  replies[items'[d][i]] = 0
    <3>1. CASE d = c
      BY <1>1, <1>9, <3>1
    <3>2. CASE d # c
      BY <1>1, <1>3, <2>2, <3>2 DEF Answers, BatchWaits
    <3> QED BY <3>1, <3>2
  <2> QED BY <1>3, <2>1, <2>2 DEF BatchWaits
<1>11. AllOrNone'
  <2> SUFFICES ASSUME NEW d \in Clients, NEW x \in Reqs, NEW q \in Reqs,
                      Contains(items'[d], x), Contains(items'[d], q)
               PROVE  /\ route[x] = "refused" /\ route[q] # "refused" => replies[q] = 0
                      /\ (\A y \in Reqs : Contains(items'[d], y) => route[y] # "refused") =>
                             replies[x] = replies[q]
    BY <1>3 DEF AllOrNone, Batched
  <2>1. CASE d = c
    <3>1. replies[x] = 0 /\ replies[q] = 0
      BY <1>1, <1>9, <2>1 DEF Contains
    <3> QED BY <3>1
  <2>2. CASE d # c
    <3>1. items'[d] = items[d]
      BY <1>1, <2>2
    <3> QED BY <3>1 DEF Answers, AllOrNone, Batched
  <2> QED BY <2>1, <2>2
<1>12. \A r \in Reqs : replies'[r] <= 1
  BY <1>3 DEF Answers
<1> QED BY <1>6, <1>7, <1>8, <1>10, <1>11, <1>12 DEF Answers

(* A step that takes no request leaves batches as they are. *)
LEMMA StillSteady ==
    ASSUME Types, ItemsAreOwn, UNCHANGED <<items, next, route, owner>>,
           \A c \in Clients : /\ life[c] # "up" => life'[c] # "up"
                              /\ \/ batch'[c] = batch[c]
                                 \/ batch'[c] \in {"finished", "deleted"}
    PROVE  Steady
<1>1. \A c \in Clients : next[c] \in Nat /\ next[c] <= Len(items[c])
  BY DEF Types, ItemsAreOwn
<1>2. \A c \in Clients : next[c] <= next'[c] /\ next'[c] <= Len(items[c])
  BY <1>1
<1> QED BY <1>2 DEF Steady

(* What is no longer owed stays so as long as no job and no call begins. *)
LEMMA StillNothingNew ==
    ASSUME UNCHANGED route,
           \A x \in Reqs : /\ calls'[x] = 0 => calls[x] = 0
                           /\ job'[x] \in {"rejecting", "queued"} => job[x] = job'[x]
                           /\ Got("job", x)' => Got("job", x) \/ job[x] = "queued"
    PROVE  NothingNew
BY DEF NothingNew, Owed

(* What bitcoind's connections and the manager do is kept from the clients. *)
LEMMA BDNextKeepsAnswers ==
    ASSUME Way, Answers, BDNext, Others
    PROVE  Way' /\ Answers' /\ owner' = owner
<1>1. Way' /\ owner' = owner /\ \A x \in Reqs : Got("job", x)' <=> Got("job", x)
  <2>1. CASE \E b \in BDs : ConnStep(b)
    BY <2>1, ConnStepKeepsWay DEF Got
  <2>2. CASE \E r \in Reqs : Submitted(r)
    BY <2>2, SubmittedKeepsWay
  <2>3. CASE \E r \in Reqs : Destroyed(r)
    BY <2>3, DestroyedKeepsWay DEF Got
  <2>4. CASE \/ \E b \in BDs : Authenticated(b) \/ LostConnection(b)
             \/ \E r \in Reqs : Message(r) \/ requestTimeoutChecker(r)
    BY <2>4, ReportKeepsWay
  <2> QED BY <2>1, <2>2, <2>3, <2>4 DEF BDNext, MgrStep
<1>2. UNCHANGED <<life, batch, items, next, responses, route, job, calls, replies>>
  BY DEF Others, batchVars, poolVars
<1>3. Types /\ ItemsAreOwn
  BY DEF Way, Answers
<1>4. Steady
  BY <1>1, <1>2, <1>3, StillSteady
<1>5. NothingNew
  BY <1>1, <1>2, StillNothingNew
<1> QED BY <1>1, <1>2, <1>4, <1>5, SilentStep

(* Steps of a client's batch, timers and connection. *)
LEMMA QuietKeepsAnswers ==
    ASSUME Way, Answers, NEW c \in Clients, Quiet(c)
    PROVE  Answers'
<1>1. /\ Way' /\ owner' = owner /\ \A x \in Reqs : Got("job", x)' <=> Got("job", x)
      /\ UNCHANGED <<items, next, job, extant, route, calls, perIP>>
  BY QuietKeepsWay
<1>2. Types /\ ItemsAreOwn
  BY DEF Way, Answers
<1>3. \A d \in Clients : /\ life[d] # "up" => life'[d] # "up"
                         /\ \/ batch'[d] = batch[d]
                            \/ batch'[d] \in {"finished", "deleted"}
  BY <1>2 DEF Quiet, ProcessEnds, ProcessPauses, ProcessWaits, BatchDestroyed, BatchTimeout, Close,
              Tick, Finish, Types, batchVars
<1>4. Steady
  BY <1>1, <1>2, <1>3, StillSteady
<1>5. NothingNew
  BY <1>1, StillNothingNew
<1>6. CASE ProcessEnds(c)
  BY <1>1, <1>4, <1>5, <1>6, ProcessEndsStep
<1>7. CASE ~ ProcessEnds(c)
  <2>1. replies' = replies
    BY <1>7 DEF Quiet, ProcessPauses, ProcessWaits, BatchDestroyed, BatchTimeout, Close, Tick
  <2>2. \A d \in Clients : responses'[d] \in {responses[d], <<>>}
    BY <1>2, <1>7 DEF Quiet, ProcessPauses, ProcessWaits, BatchDestroyed, BatchTimeout, Close,
              Tick, Types, batchVars
  <2> QED BY <1>1, <1>4, <1>5, <2>1, <2>2, SilentStep
<1> QED BY <1>6, <1>7

(* The steps of the pool, and the end of a cached result, of a client. *)
LEMMA ApartKeepsAnswers ==
    ASSUME Way, Answers,
           \/ \E r \in Reqs : JobRuns(r) \/ JobDeleted(r)
           \/ CacheExpires
           \/ \E c \in Clients : Destruct(c)
    PROVE  Way' /\ Answers' /\ owner' = owner
<1>1. Types /\ ItemsAreOwn
  BY DEF Way, Answers
<1>2. Way' /\ owner' = owner
  BY JobRunsKeepsWay, JobDeletedKeepsWay, CacheExpiresKeepsWay, DestructKeepsWay
<1>3. /\ UNCHANGED <<items, next, route, calls, replies>>
      /\ \A d \in Clients : /\ life[d] # "up" => life'[d] # "up"
                            /\ \/ batch'[d] = batch[d]
                               \/ batch'[d] \in {"finished", "deleted"}
                            /\ responses'[d] \in {responses[d], <<>>}
  BY <1>1 DEF JobRuns, JobDeleted, CacheExpires, Destruct, batchVars, Types
<1>4. \A x \in Reqs : /\ job'[x] \in {"rejecting", "queued"} => job[x] = job'[x]
                      /\ Got("job", x)' => Got("job", x) \/ job[x] = "queued"
  <2>1. CASE \E r \in Reqs : JobRuns(r)
    BY <2>1, JobRunsKeepsWay
  <2>2. CASE \E r \in Reqs : JobDeleted(r)
    <3>1. PICK r \in Reqs : JobDeleted(r)
      BY <2>2
    <3>2. inbox' = inbox
      BY <3>1, JobDeletedKeepsWay
    <3> QED BY <1>1, <3>1, <3>2 DEF JobDeleted, Types, Got
  <2>3. CASE CacheExpires
    BY <2>3, CacheExpiresKeepsWay DEF CacheExpires, poolVars
  <2>4. CASE \E c \in Clients : Destruct(c)
    BY <2>4, DestructKeepsWay DEF Destruct, poolVars
  <2> QED BY <2>1, <2>2, <2>3, <2>4
<1>5. Steady
  BY <1>1, <1>2, <1>3, StillSteady
<1>6. NothingNew
  BY <1>3, <1>4, StillNothingNew
<1> QED BY <1>2, <1>3, <1>5, <1>6, SilentStep

(* The answer of bitcoind or of the cache is given once. *)
LEMMA ReplyKeepsAnswers ==
    ASSUME Way, Answers, NEW c \in Clients, BitcoinDReplied(c) \/ CachedReply(c)
    PROVE  Way' /\ Answers' /\ owner' = owner
<1>1. Types /\ ItemsAreOwn
  BY DEF Way, Answers
<1>2. PICK r \in Reqs :
         /\ r = Head(inbox[c]).of /\ owner[r] = c /\ route[r] = "bitcoind"
         /\ Way' /\ owner' = owner /\ \A x \in Reqs : Got("job", x)' <=> Got("job", x)
  BY BitcoinDRepliedKeepsWay, CachedReplyKeepsWay
<1>3. UNCHANGED <<items, next, route, life, batch, job>>
  BY DEF BitcoinDReplied, CachedReply, Callback, NoCallback, poolVars
<1>4. Steady
  BY <1>1, <1>2, <1>3, StillSteady
<1>5. CASE BitcoinDReplied(c) /\ ~ FirstReply(r)
  <2>1. UNCHANGED <<calls, replies, responses>>
    BY <1>2, <1>5 DEF BitcoinDReplied, NoCallback
  <2>2. NothingNew
    BY <1>2, <1>3, <2>1, StillNothingNew
  <2> QED BY <1>2, <1>4, <2>1, <2>2, SilentStep
<1>6. CASE CachedReply(c) \/ FirstReply(r)
  <2>1. Callback(c, r) /\ calls[r] = 0
    BY <1>2, <1>6, BitcoinDRepliedKeepsWay, CachedReplyKeepsWay DEF BitcoinDReplied, CachedReply
  <2>2. Deliver(c, r) /\ calls' = [calls EXCEPT ![r] = @ + 1]
    BY <2>1 DEF Callback
  <2>3. calls \in [Reqs -> Nat]
    BY <1>1 DEF Types
  <2>4. calls'[r] = 1 /\ \A x \in Reqs : calls'[x] = 0 => calls[x] = 0
    BY <1>2, <2>1, <2>2, <2>3
  <2>5. NothingNew
    BY <1>2, <1>3, <2>4, StillNothingNew
  <2>6. Owed(r)
    BY <1>2, <2>1 DEF Owed
  <2>7. job[r] = None /\ ~ Got("job", r)
    BY <1>2 DEF Way, Paths, Path, None
  <2>8. ~ Owed(r)'
    BY <1>2, <1>3, <2>4, <2>7 DEF Owed, None
  <2> QED BY <1>2, <1>3, <1>4, <2>2, <2>5, <2>6, <2>8, DeliverStep
<1> QED BY <1>5, <1>6

(* A job answers once, by its result or because it is rejected. *)
LEMMA JobReplyKeepsAnswers ==
    ASSUME Way, Answers, NEW c \in Clients, JobReplied(c) \/ \E x \in Own(c) : JobRejected(c, x)
    PROVE  Way' /\ Answers' /\ owner' = owner
<1>1. Types /\ ItemsAreOwn
  BY DEF Way, Answers
<1>2. PICK r \in Reqs :
         /\ \/ JobReplied(c) /\ r = Head(inbox[c]).of
            \/ JobRejected(c, r)
         /\ Way' /\ owner' = owner /\ owner[r] = c /\ route[r] = "pool"
         /\ \A x \in Reqs : Got("job", x)' <=> Got("job", x) /\ x # r
  <2>1. CASE JobReplied(c)
    BY <2>1, JobRepliedKeepsWay
  <2>2. CASE \E x \in Own(c) : JobRejected(c, x)
    <3>1. PICK x \in Reqs : JobRejected(c, x)
      BY <2>2 DEF Own
    <3> QED BY <3>1, JobRejectedKeepsWay DEF Got
  <2> QED BY <2>1, <2>2
<1>3. UNCHANGED <<items, next, route, life, batch, calls>> /\ Deliver(c, r)
  BY <1>2 DEF JobReplied, JobRejected
<1>4. Steady
  BY <1>1, <1>2, <1>3, StillSteady
<1>5. /\ Owed(r) /\ job'[r] \notin {"rejecting", "queued"}
      /\ \A x \in Reqs : job'[x] \in {"rejecting", "queued"} => job[x] = job'[x]
  <2>1. CASE JobReplied(c) /\ r = Head(inbox[c]).of
    BY <2>1, JobRepliedKeepsWay DEF JobReplied, poolVars, Owed
  <2>2. CASE JobRejected(c, r)
    BY <1>1, <2>2 DEF JobRejected, Owed, Types
  <2> QED BY <1>2, <2>1, <2>2
<1>6. NothingNew
  BY <1>2, <1>3, <1>5, StillNothingNew
<1>7. ~ Owed(r)'
  BY <1>2, <1>3, <1>5 DEF Owed, None
<1> QED BY <1>2, <1>3, <1>4, <1>5, <1>6, <1>7, DeliverStep

(* A request that is taken is answered, refused, or owed an answer. *)
LEMMA OnMessageAnswers ==
    ASSUME Way, Way', Answers, NEW c \in Clients, NEW r \in Reqs, route[r] = None, life[c] = "up",
           onMessage(c, r), owner'[r] = c, UNCHANGED <<items, batch, calls>>,
           \A x \in Reqs : owner[x] # None => owner'[x] = owner[x],
           \A d \in Clients : next[d] <= next'[d] /\ next'[d] <= Len(items[d]),
           \A d \in Clients : \A i \in 1 .. Len(items[d]) : items[d][i] = r => i <= next'[d],
           Batched(c, r) => batch[c] = "open",
           \A x \in Reqs : Got("job", x)' <=> Got("job", x)
    PROVE  Answers'
<1>1. PICK where \in {"now", "refused", "pool", "bitcoind"} :
         /\ route' = [route EXCEPT ![r] = where]
         /\ \/ /\ where = "now"
               /\ Deliver(c, r)
               /\ UNCHANGED <<life, poolVars>>
            \/ /\ where = "refused"
               /\ Refuse(c, r)
               /\ UNCHANGED poolVars
            \/ /\ where = "pool"
               /\ submitWork(r)
               /\ UNCHANGED <<life, responses, replies>>
            \/ /\ where = "bitcoind"
               /\ UNCHANGED <<life, responses, replies, poolVars>>
  BY DEF onMessage
<1>2. /\ route'[r] = where /\ where # None
      /\ \A x \in Reqs \ {r} : route'[x] = route[x] /\ job'[x] = job[x]
  <2>1. route \in [Reqs -> {None, "now", "refused", "pool", "bitcoind"}]
    BY DEF Way, Types
  <2>2. job \in [Reqs -> {None, "rejecting", "queued", "ran", "deleted"}]
    BY DEF Way, Types
  <2>3. route'[r] = where /\ \A x \in Reqs \ {r} : route'[x] = route[x]
    BY <1>1, <2>1
  <2>4. where # None
    BY <1>1 DEF None
  <2>5. job' = job \/ \E v : job' = [job EXCEPT ![r] = v]
    BY <1>1 DEF submitWork, poolVars
  <2>6. \A x \in Reqs \ {r} : job'[x] = job[x]
    BY <2>2, <2>5
  <2> QED BY <2>3, <2>4, <2>6
<1>3. Owed(r) /\ job[r] = None /\ ~ Got("job", r)
  <2>1. Unrouted(r) /\ "job" \in Kinds
    BY DEF Way, Paths, Path, Kinds
  <2> QED BY <2>1 DEF Unrouted, Owed
<1>4. \A d \in Clients : life[d] # "up" => life'[d] # "up"
  <2>1. life \in [Clients -> {"up", "closing", "gone"}]
    BY DEF Way, Types
  <2>2. life' = life \/ life' = [life EXCEPT ![c] = "closing"]
    BY <1>1 DEF Refuse
  <2> QED BY <2>1, <2>2
<1>5. Steady
  BY <1>2, <1>4 DEF Steady
<1>6. \A x \in Reqs \ {r} : (Owed(x)' => Owed(x)) /\ route'[x] = route[x]
  BY <1>2 DEF Owed
<1>7. CASE where = "refused"
  BY <1>1, <1>2, <1>3, <1>5, <1>6, <1>7, RefuseStep
<1>8. CASE where # "refused"
  <2>1. NothingNew
    BY <1>2, <1>3, <1>6, <1>8 DEF NothingNew
  <2>2. CASE where = "now"
    <3>1. job'[r] = None /\ route'[r] = "now" /\ ~ Got("job", r)'
      BY <1>1, <1>2, <1>3, <2>2 DEF poolVars
    <3>2. ~ Owed(r)'
      BY <3>1 DEF Owed, None
    <3> QED BY <1>1, <1>3, <1>5, <2>1, <2>2, <3>2, DeliverStep
  <2>3. CASE where # "now"
    BY <1>1, <1>5, <1>8, <2>1, <2>3, SilentStep
  <2> QED BY <2>2, <2>3
<1> QED BY <1>7, <1>8

(* A request that is read is not part of a batch. *)
LEMMA ReadKeepsAnswers ==
    ASSUME Way, Answers, NEW c \in Clients, Read(c)
    PROVE  Way' /\ Answers'
<1>1. Types /\ ItemsAreOwn
  BY DEF Way, Answers
<1>2. PICK r \in Reqs : r = NextIds(1)[1] /\ owner[r] = None /\ route[r] = None
  BY ReadKeepsWay DEF Fresh
<1>3. Way' /\ \A x \in Reqs : Got("job", x)' <=> Got("job", x)
  BY ReadKeepsWay
<1>4. /\ life[c] = "up" /\ onMessage(c, r) /\ owner' = [owner EXCEPT ![r] = c]
      /\ UNCHANGED <<items, batch, calls, next>>
  BY <1>2 DEF Read
<1>5. owner'[r] = c /\ \A x \in Reqs : owner[x] # None => owner'[x] = owner[x]
  BY <1>1, <1>2, <1>4 DEF Types
<1>6. \A d \in Clients : next[d] \in Nat /\ next[d] <= Len(items[d])
  BY <1>1 DEF Types, ItemsAreOwn
<1>7. \A d \in Clients : next[d] <= next'[d] /\ next'[d] <= Len(items[d])
  BY <1>4, <1>6
<1>8. \A d \in Clients : \A i \in 1 .. Len(items[d]) : items[d][i] # r
  BY <1>1, <1>2, ClientAssumption DEF ItemsAreOwn
<1>9. ~ Batched(c, r)
  BY <1>1, <1>8 DEF Batched, Contains, Types
<1> QED BY <1>2, <1>3, <1>4, <1>5, <1>7, <1>8, <1>9, OnMessageAnswers

(* The item that is processed is the next one of an open batch. *)
LEMMA ProcessItemKeepsAnswers ==
    ASSUME Way, Answers, NEW c \in Clients, ProcessItem(c)
    PROVE  Way' /\ Answers' /\ owner' = owner
<1>1. Types /\ ItemsAreOwn
  BY DEF Way, Answers
<1>2. PICK r \in Reqs : r = Item(c) /\ owner[r] = c /\ route[r] = None
  BY <1>1, ProcessItemKeepsWay
<1>3. /\ Way' /\ owner' = owner /\ \A x \in Reqs : Got("job", x)' <=> Got("job", x)
      /\ next[c] + 1 \in 1 .. Len(items[c])
  BY <1>1, ProcessItemKeepsWay
<1>4. /\ life[c] = "up" /\ batch[c] = "open" /\ onMessage(c, r)
      /\ next' = [next EXCEPT ![c] = @ + 1] /\ UNCHANGED <<items, batch, calls>>
  BY <1>2 DEF ProcessItem, Continues, Processes
<1>5. \A d \in Clients : next[d] \in Nat /\ next[d] <= Len(items[d]) /\ items[d] \in Seq(Reqs)
  BY <1>1 DEF Types, ItemsAreOwn
<1>6. next'[c] = next[c] + 1 /\ \A d \in Clients \ {c} : next'[d] = next[d]
  BY <1>1, <1>4 DEF Types
<1>7. \A d \in Clients : next[d] <= next'[d] /\ next'[d] <= Len(items[d])
  BY <1>3, <1>5, <1>6
<1>8. ASSUME NEW d \in Clients, NEW i \in 1 .. Len(items[d]), items[d][i] = r
      PROVE  i <= next'[d]
  <2>1. d = c
    BY <1>1, <1>2, <1>8 DEF ItemsAreOwn
  <2>2. items[c][next[c] + 1] = items[c][i]
    BY <1>2, <1>8, <2>1 DEF Item
  <2>3. i = next[c] + 1
    BY <1>1, <1>3, <1>8, <2>1, <2>2 DEF ItemsAreOwn
  <2> QED BY <1>3, <1>6, <2>1, <2>3
<1> QED BY <1>2, <1>3, <1>4, <1>7, <1>8, OnMessageAnswers

-----------------------------------------------------------------------------
(* Counters *)

(* The parts of Counts. *)
CallsAreCounted ==
    /\ perIP = Cardinality(Outstanding)
    /\ \A c \in Clients : bdReqCtr[c] <= Cardinality(Outstanding \cap Own(c))

InBatches == {r \in Reqs : \E c \in Clients :
                  batch[c] \in {"rejecting", "open", "finished"} /\ Batched(c, r)}
ItemsAreCounted == nExtantBatchRequests = Cardinality(InBatches)

Extant  == {r \in Reqs : job[r] \in {"rejecting", "queued", "ran"}}
Allowed == {r \in Reqs : job[r] \in {"queued", "ran"}}
JobsAreCounted == extant = Cardinality(Extant) /\ Cardinality(Allowed) <= extantLimit

(* They are all of it. *)
LEMMA CountersAreTheirParts ==
    /\ Counts <=> CallsAreCounted /\ ItemsAreCounted /\ JobsAreCounted
    /\ Counts' <=> CallsAreCounted' /\ ItemsAreCounted' /\ JobsAreCounted'
BY DEF Counts, CallsAreCounted, ItemsAreCounted, JobsAreCounted, InBatches, Extant, Allowed

(* A set of requests with one more. *)
LEMMA OneMore ==
    ASSUME NEW R \in SUBSET Reqs, NEW r \in Reqs, r \notin R
    PROVE  /\ Cardinality(R) \in Nat /\ Cardinality(R \cup {r}) = Cardinality(R) + 1
<1>1. IsFiniteSet(R)
  BY FinitelyMany
<1> QED BY <1>1, FS_AddElement, FS_CardinalityType

(* A set of requests with one less. *)
LEMMA OneLess ==
    ASSUME NEW R \in SUBSET Reqs, NEW r \in R
    PROVE  /\ Cardinality(R) \in Nat /\ Cardinality(R \ {r}) = Cardinality(R) - 1
<1>1. IsFiniteSet(R)
  BY FinitelyMany
<1> QED BY <1>1, FS_RemoveElement, FS_CardinalityType

(* Two sets that share nothing. *)
LEMMA DisjointUnion ==
    ASSUME NEW S, IsFiniteSet(S), NEW T, IsFiniteSet(T), S \cap T = {}
    PROVE  Cardinality(S \cup T) = Cardinality(S) + Cardinality(T)
<1>1. Cardinality(S) \in Nat /\ Cardinality(T) \in Nat
  BY FS_CardinalityType
<1>2. Cardinality(S \cap T) = 0
  BY FS_EmptySet
<1>3. Cardinality(S \cup T) = Cardinality(S) + Cardinality(T) - Cardinality(S \cap T)
  BY Zenon, FS_Union
<1> QED BY <1>1, <1>2, <1>3

(* A request that has a route has an owner, who does not change. *)
OwnersStay == \A x \in Reqs : owner[x] # None => owner'[x] = owner[x]

(* So has one that waits for bitcoind. *)
LEMMA OutstandingAreOwned ==
    ASSUME Way, OwnersStay, NEW x \in Outstanding
    PROVE  x \in Reqs /\ owner[x] \in Clients /\ owner'[x] = owner[x]
<1>1. x \in Reqs /\ route[x] # None
  BY DEF Outstanding, None
<1>2. owner[x] \in Clients
  BY <1>1, RoutedHasOwner
<1> QED BY <1>1, <1>2, ClientAssumption DEF OwnersStay

(* No call begins or ends. *)
LEMMA CallsStay ==
    ASSUME Way, Way', OwnersStay, CallsAreCounted, Outstanding' = Outstanding, perIP' = perIP,
           \A c \in Clients : bdReqCtr'[c] = bdReqCtr[c] \/ bdReqCtr'[c] <= bdReqCtr[c]
    PROVE  CallsAreCounted'
<1>1. ASSUME NEW c \in Clients PROVE (Outstanding \cap Own(c))' = Outstanding \cap Own(c)
  BY OutstandingAreOwned DEF Own, Outstanding
<1>2. ASSUME NEW c \in Clients PROVE bdReqCtr'[c] <= Cardinality(Outstanding \cap Own(c))
  <2>1. bdReqCtr[c] \in Nat
    BY DEF Way, Types
  <2>2. bdReqCtr'[c] \in Nat
    BY DEF Way, Types
  <2>3. Cardinality(Outstanding \cap Own(c)) \in Nat
    BY FinitelyMany, FS_CardinalityType DEF Own, Outstanding
  <2>4. bdReqCtr[c] <= Cardinality(Outstanding \cap Own(c))
    BY DEF CallsAreCounted
  <2> QED BY <2>1, <2>2, <2>3, <2>4
<1> QED BY <1>1, <1>2 DEF CallsAreCounted

(* A call begins. *)
LEMMA CallBegins ==
    ASSUME Way, Way', OwnersStay, CallsAreCounted, NEW c \in Clients, NEW r \in Reqs,
           r \notin Outstanding, owner'[r] = c, Outstanding' = Outstanding \cup {r},
           perIP' = perIP + 1, bdReqCtr'[c] = bdReqCtr[c] + 1,
           \A d \in Clients \ {c} : bdReqCtr'[d] = bdReqCtr[d]
    PROVE  CallsAreCounted'
<1>1. Cardinality(Outstanding') = Cardinality(Outstanding) + 1
  BY OneMore DEF Outstanding
<1>2. ASSUME NEW d \in Clients
      PROVE  (Outstanding \cap Own(d))' = IF d = c THEN (Outstanding \cap Own(c)) \cup {r}
                                                   ELSE Outstanding \cap Own(d)
  BY OutstandingAreOwned DEF Own, Outstanding
<1>3. ASSUME NEW d \in Clients PROVE bdReqCtr'[d] <= Cardinality((Outstanding \cap Own(d))')
  <2> DEFINE n == Cardinality(Outstanding \cap Own(d))
  <2>1. bdReqCtr[d] \in Nat
    BY DEF Way, Types
  <2>2. n \in Nat /\ (d = c => Cardinality((Outstanding \cap Own(c)) \cup {r}) = n + 1)
    <3>1. Outstanding \cap Own(d) \in SUBSET Reqs /\ r \notin Outstanding \cap Own(d)
      BY DEF Outstanding
    <3> QED BY <3>1, OneMore
  <2>3. bdReqCtr[d] <= n
    BY DEF CallsAreCounted
  <2> HIDE DEF n
  <2>4. CASE d = c
    <3>1. (Outstanding \cap Own(d))' = (Outstanding \cap Own(c)) \cup {r}
      BY <1>2, <2>4
    <3>2. Cardinality((Outstanding \cap Own(d))') = n + 1
      BY <2>2, <2>4, <3>1
    <3>3. bdReqCtr'[d] = bdReqCtr[d] + 1
      BY <2>4
    <3> QED BY <2>1, <2>2, <2>3, <3>2, <3>3
  <2>5. CASE d # c
    <3>1. (Outstanding \cap Own(d))' = Outstanding \cap Own(d) /\ bdReqCtr'[d] = bdReqCtr[d]
      BY <1>2, <2>5
    <3> QED BY <2>3, <3>1 DEF n
  <2> QED BY <2>4, <2>5
<1> QED BY <1>1, <1>3 DEF CallsAreCounted

(* A call ends, whose client may have been told by its timer before. *)
LEMMA CallEnds ==
    ASSUME Way, Way', OwnersStay, CallsAreCounted, NEW c \in Clients, NEW r \in Outstanding,
           owner[r] = c, Outstanding' = Outstanding \ {r}, perIP' = perIP - 1,
           bdReqCtr'[c] = IF bdReqCtr[c] = 0 THEN 0 ELSE bdReqCtr[c] - 1,
           \A d \in Clients \ {c} : bdReqCtr'[d] = bdReqCtr[d]
    PROVE  CallsAreCounted'
<1>1. Cardinality(Outstanding') = Cardinality(Outstanding) - 1
  BY OneLess DEF Outstanding
<1>2. ASSUME NEW d \in Clients
      PROVE  (Outstanding \cap Own(d))' = IF d = c THEN (Outstanding \cap Own(c)) \ {r}
                                                   ELSE Outstanding \cap Own(d)
  BY OutstandingAreOwned DEF Own, Outstanding
<1>3. ASSUME NEW d \in Clients PROVE bdReqCtr'[d] <= Cardinality((Outstanding \cap Own(d))')
  <2> DEFINE n == Cardinality(Outstanding \cap Own(d))
  <2>1. bdReqCtr[d] \in Nat
    BY DEF Way, Types
  <2>2. bdReqCtr[d] <= n
    BY DEF CallsAreCounted
  <2>3. CASE d = c
    <3>1. Outstanding \cap Own(c) \in SUBSET Reqs /\ r \in Outstanding \cap Own(c)
      BY DEF Outstanding, Own
    <3>2. n \in Nat /\ Cardinality((Outstanding \cap Own(c)) \ {r}) = n - 1
      BY <2>3, <3>1, OneLess
    <3>3. n - 1 \in Nat
      <4>1. IsFiniteSet((Outstanding \cap Own(c)) \ {r})
        BY <3>1, FinitelyMany
      <4> QED BY <3>2, <4>1, FS_CardinalityType
    <3> HIDE DEF n
    <3>4. (Outstanding \cap Own(d))' = (Outstanding \cap Own(c)) \ {r}
      BY <1>2, <2>3
    <3>5. Cardinality((Outstanding \cap Own(d))') = n - 1
      BY <3>2, <3>4
    <3>6. bdReqCtr'[d] = IF bdReqCtr[d] = 0 THEN 0 ELSE bdReqCtr[d] - 1
      BY <2>3
    <3> QED BY <2>1, <2>2, <3>2, <3>3, <3>5, <3>6
  <2>4. CASE d # c
    <3>1. (Outstanding \cap Own(d))' = Outstanding \cap Own(d) /\ bdReqCtr'[d] = bdReqCtr[d]
      BY <1>2, <2>4
    <3> QED BY <2>2, <3>1
  <2> QED BY <2>3, <2>4
<1> QED BY <1>1, <1>3 DEF CallsAreCounted

(* A job begins, which is allowed as long as the limit is not reached. *)
LEMMA JobBegins ==
    ASSUME Types, JobsAreCounted, NEW r \in Reqs, job[r] = None, submitWork(r)
    PROVE  JobsAreCounted'
<1>1. /\ r \notin Extant /\ r \notin Allowed /\ Extant \in SUBSET Reqs /\ Allowed \in SUBSET Reqs
      /\ Allowed \subseteq Extant
  BY DEF Extant, Allowed, None
<1>2. extant = Cardinality(Extant) /\ Cardinality(Allowed) <= extantLimit /\ extantLimit \in Nat
  BY ClientAssumption DEF JobsAreCounted
<1>3. /\ Cardinality(Extant) \in Nat /\ Cardinality(Extant \cup {r}) = Cardinality(Extant) + 1
      /\ Cardinality(Allowed) \in Nat /\ Cardinality(Allowed \cup {r}) = Cardinality(Allowed) + 1
  BY <1>1, OneMore
<1>4. Cardinality(Allowed) <= Cardinality(Extant)
  BY <1>1, FinitelyMany, FS_Subset
<1>5. extant' = extant + 1
  BY DEF submitWork
<1>6. CASE extant' > extantLimit
  <2>1. job' = [job EXCEPT ![r] = "rejecting"]
    BY <1>6 DEF submitWork
  <2>2. Extant' = Extant \cup {r} /\ Allowed' = Allowed
    BY <1>1, <2>1 DEF Extant, Allowed, Types
  <2> QED BY <1>2, <1>3, <1>5, <2>2 DEF JobsAreCounted
<1>7. CASE ~ (extant' > extantLimit)
  <2>1. job' = [job EXCEPT ![r] = "queued"]
    BY <1>7 DEF submitWork
  <2>2. Extant' = Extant \cup {r} /\ Allowed' = Allowed \cup {r}
    BY <1>1, <2>1 DEF Extant, Allowed, Types
  <2>3. Cardinality(Allowed \cup {r}) <= extantLimit
    BY <1>2, <1>3, <1>4, <1>5, <1>7
  <2> QED BY <1>2, <1>3, <1>5, <2>2, <2>3 DEF JobsAreCounted
<1> QED BY <1>6, <1>7

(* A job ends, whether it ran or was rejected. *)
LEMMA JobEnds ==
    ASSUME Types, JobsAreCounted, NEW r \in Reqs, job[r] \in {"rejecting", "ran"},
           extant' = extant - 1, job' = [job EXCEPT ![r] = "deleted"]
    PROVE  JobsAreCounted'
<1>1. r \in Extant /\ Extant \in SUBSET Reqs /\ Allowed \in SUBSET Reqs
  BY DEF Extant, Allowed
<1>2. Extant' = Extant \ {r} /\ Allowed' = Allowed \ {r}
  BY DEF Extant, Allowed, Types
<1>3. Cardinality(Extant \ {r}) = Cardinality(Extant) - 1
  BY <1>1, OneLess
<1>4. Cardinality(Allowed \ {r}) <= extantLimit
  <2>1. Cardinality(Allowed \ {r}) <= Cardinality(Allowed)
    BY <1>1, FinitelyMany, FS_Subset
  <2>2. Cardinality(Allowed \ {r}) \in Nat /\ Cardinality(Allowed) \in Nat
    BY <1>1, FinitelyMany, FS_CardinalityType
  <2> QED BY <2>1, <2>2, ClientAssumption DEF JobsAreCounted
<1> QED BY <1>2, <1>3, <1>4 DEF JobsAreCounted

(* The jobs are as many as before. *)
LEMMA JobsStay ==
    ASSUME JobsAreCounted, extant' = extant,
           \A x \in Reqs : job'[x] = job[x] \/ (job[x] = "queued" /\ job'[x] = "ran")
    PROVE  JobsAreCounted'
<1>1. Extant' = Extant /\ Allowed' = Allowed
  BY DEF Extant, Allowed
<1> QED BY <1>1 DEF JobsAreCounted

(* The items of batches are as many as before. *)
LEMMA ItemsStay ==
    ASSUME ItemsAreCounted, UNCHANGED <<items, nExtantBatchRequests>>,
           \A c \in Clients : batch'[c] = batch[c] \/ (batch[c] = "open" /\ batch'[c] = "finished")
    PROVE  ItemsAreCounted'
<1>1. InBatches' = InBatches
  BY DEF InBatches, Batched
<1> QED BY <1>1 DEF ItemsAreCounted

(* The batches of two clients share no item. *)
LEMMA BatchesAreApart ==
    ASSUME Types, ItemsAreOwn, NEW c \in Clients, NEW d \in Clients, NEW r \in Reqs,
           Batched(c, r), Batched(d, r)
    PROVE  c = d
BY BatchedIsOwn

(* A batch is destroyed. *)
LEMMA BatchEnds ==
    ASSUME Types, ItemsAreOwn, ItemsAreCounted, NEW c \in Clients, items' = items,
           batch' = [batch EXCEPT ![c] = "deleted"],
           nExtantBatchRequests' = nExtantBatchRequests -
               IF batch[c] \in {"open", "finished", "rejecting"} THEN Size(c) ELSE 0
    PROVE  ItemsAreCounted'
<1> DEFINE B == {r \in Reqs : Contains(items[c], r)}
<1>1. /\ batch'[c] = "deleted" /\ \A d \in Clients \ {c} : batch'[d] = batch[d]
  BY DEF Types
<1>2. InBatches \in SUBSET Reqs /\ InBatches' \in SUBSET Reqs
  BY DEF InBatches
<1>3. IsFiniteSet(InBatches) /\ Cardinality(InBatches) \in Nat
  BY <1>2, FinitelyMany, FS_CardinalityType
<1>4. nExtantBatchRequests = Cardinality(InBatches)
  BY DEF ItemsAreCounted
<1>5. CASE batch[c] \in {"open", "finished", "rejecting"}
  <2>1. items[c] \in Seq(Reqs) /\ Size(c) = Len(items[c])
    BY DEF Types, Size
  <2>2. IsFiniteSet(B) /\ Cardinality(B) = Len(items[c])
    BY <2>1, MembersAreCounted DEF ItemsAreOwn
  <2>3. InBatches = InBatches' \cup B
    BY <1>1, <1>5 DEF InBatches, Batched
  <2>4. InBatches' \cap B = {}
    BY <1>1, BatchesAreApart DEF InBatches, Batched
  <2>5. IsFiniteSet(InBatches')
    BY <1>2, FinitelyMany
  <2> HIDE DEF B
  <2>6. Cardinality(InBatches) = Cardinality(InBatches') + Cardinality(B)
    BY <2>2, <2>3, <2>4, <2>5, DisjointUnion
  <2>7. Cardinality(InBatches') \in Nat /\ Len(items[c]) \in Nat
    BY <2>1, <2>5, FS_CardinalityType
  <2>8. nExtantBatchRequests' = nExtantBatchRequests - Len(items[c])
    BY <1>5, <2>1
  <2> QED BY <1>4, <2>2, <2>6, <2>7, <2>8 DEF ItemsAreCounted
<1>6. CASE batch[c] \notin {"open", "finished", "rejecting"}
  <2>1. InBatches' = InBatches
    BY <1>1, <1>6 DEF InBatches, Batched
  <2> QED BY <1>3, <1>4, <1>6, <2>1 DEF ItemsAreCounted
<1> QED BY <1>5, <1>6

(* A batch is made, and counts whether it is accepted or not. *)
LEMMA BatchBegins ==
    ASSUME Way, ItemsAreOwn, ItemsAreCounted, NEW c \in Clients, NEW n \in BatchSizes,
           EnqueueBatch(c, n)
    PROVE  ItemsAreCounted'
<1> DEFINE B == {r \in Reqs : Contains(items'[c], r)}
<1>1. /\ items'[c] \in Seq(Reqs) /\ Len(items'[c]) = n /\ n \in Nat
      /\ \A d \in Clients \ {c} : items'[d] = items[d]
      /\ \A i \in 1 .. n : owner[items'[c][i]] = None
      /\ \A i, j \in 1 .. n : items'[c][i] = items'[c][j] => i = j
  BY EnqueueBatchKeepsWay
<1>2. /\ batch[c] = "none" /\ batch'[c] \in {"rejecting", "open"}
      /\ \A d \in Clients \ {c} : batch'[d] = batch[d]
      /\ nExtantBatchRequests' = nExtantBatchRequests + n
  BY DEF EnqueueBatch, Way, Types
<1>3. InBatches \in SUBSET Reqs
  BY DEF InBatches
<1>4. IsFiniteSet(InBatches)
  BY <1>3, FinitelyMany
<1>5. Cardinality(InBatches) \in Nat /\ nExtantBatchRequests = Cardinality(InBatches)
  BY <1>4, FS_CardinalityType DEF ItemsAreCounted
<1>6. IsFiniteSet(B) /\ Cardinality(B) = n
  BY <1>1, MembersAreCounted
<1>7. InBatches' = InBatches \cup B
  BY <1>1, <1>2 DEF InBatches, Batched
<1>8. ASSUME NEW x \in InBatches \cap B PROVE FALSE
  <2>1. PICK d \in Clients : Batched(d, x)
    BY <1>8 DEF InBatches
  <2>2. owner[x] = d
    BY <2>1, BatchedIsOwn DEF Way
  <2>3. owner[x] = None
    BY <1>1, <1>8 DEF Contains
  <2> QED BY <2>2, <2>3, ClientAssumption
<1> HIDE DEF B
<1>9. Cardinality(InBatches') = Cardinality(InBatches) + n
  BY <1>4, <1>6, <1>7, <1>8, DisjointUnion
<1> QED BY <1>2, <1>5, <1>9 DEF ItemsAreCounted

(* What is counted is left alone. *)
NothingCounted ==
    /\ UNCHANGED <<owner, route, calls, perIP, extant, items, nExtantBatchRequests>>
    /\ \A x \in Reqs : job'[x] = job[x] \/ (job[x] = "queued" /\ job'[x] = "ran")
    /\ \A c \in Clients : batch'[c] = batch[c] \/ (batch[c] = "open" /\ batch'[c] = "finished")
    /\ \A c \in Clients : bdReqCtr'[c] = bdReqCtr[c] \/ bdReqCtr'[c] <= bdReqCtr[c]

(* Then the counters stay exact. *)
LEMMA NothingCountedKeepsCounters ==
    ASSUME Way, Way', Counts, NothingCounted
    PROVE  Counts'
<1>1. CallsAreCounted /\ ItemsAreCounted /\ JobsAreCounted
  BY CountersAreTheirParts
<1>2. Outstanding' = Outstanding /\ OwnersStay
  BY DEF NothingCounted, Outstanding, OwnersStay
<1>3. CallsAreCounted'
  BY <1>1, <1>2, CallsStay DEF NothingCounted
<1>4. ItemsAreCounted' /\ JobsAreCounted'
  BY <1>1, ItemsStay, JobsStay DEF NothingCounted
<1> QED BY <1>3, <1>4, CountersAreTheirParts

(* The counters are not for bitcoind and the manager. *)
LEMMA BDNextKeepsCounters ==
    ASSUME Way, Answers, Counts, BDNext, Others
    PROVE  Counts'
<1>1. Way' /\ owner' = owner
  BY BDNextKeepsAnswers
<1>2. NothingCounted
  BY <1>1 DEF Others, batchVars, throttleVars, poolVars, NothingCounted
<1> QED BY <1>1, <1>2, NothingCountedKeepsCounters

(* A timer lowers its own counter; the end of a batch is counted. *)
LEMMA QuietKeepsCounters ==
    ASSUME Way, Answers, Counts, NEW c \in Clients, Quiet(c)
    PROVE  Counts'
<1>1. Way' /\ owner' = owner /\ UNCHANGED <<items, next, job, extant, route, calls, perIP>>
  BY QuietKeepsWay
<1>2. Types /\ ItemsAreOwn /\ decayPerSec \in Nat /\ 0 \in Nat
  BY ClientAssumption DEF Way, Answers
<1>3. CASE Tick(c, 0) \/ Tick(c, decayPerSec)
  <2>1. \A d \in Clients : bdReqCtr'[d] = bdReqCtr[d] \/ bdReqCtr'[d] <= bdReqCtr[d]
    BY <1>2, <1>3, TickLowers
  <2>2. UNCHANGED <<batch, nExtantBatchRequests>>
    BY <1>3 DEF Tick
  <2>3. NothingCounted
    BY <1>1, <2>1, <2>2 DEF NothingCounted
  <2> QED BY <1>1, <2>3, NothingCountedKeepsCounters
<1>4. CASE BatchDestroyed(c)
  <2>1. /\ batch[c] \in {"rejecting", "finished"} /\ batch' = [batch EXCEPT ![c] = "deleted"]
        /\ nExtantBatchRequests' = nExtantBatchRequests - Size(c) /\ bdReqCtr' = bdReqCtr
    BY <1>4 DEF BatchDestroyed, throttleVars
  <2>2. CallsAreCounted /\ ItemsAreCounted /\ JobsAreCounted
    BY CountersAreTheirParts
  <2>3. ItemsAreCounted'
    BY <1>1, <1>2, <2>1, <2>2, BatchEnds
  <2>4. JobsAreCounted'
    BY <1>1, <2>2, JobsStay
  <2>5. Outstanding' = Outstanding /\ OwnersStay
    BY <1>1 DEF Outstanding, OwnersStay
  <2>6. CallsAreCounted'
    BY <1>1, <2>1, <2>2, <2>5, CallsStay
  <2> QED BY <2>3, <2>4, <2>6, CountersAreTheirParts
<1>5. CASE ProcessEnds(c) \/ ProcessPauses(c) \/ ProcessWaits(c) \/ BatchTimeout(c) \/ Close(c)
  <2>1. UNCHANGED <<bdReqCtr, nExtantBatchRequests>>
    BY <1>5 DEF ProcessEnds, ProcessPauses, ProcessWaits, BatchTimeout, Close, throttleVars, batchVars
  <2>2. \A d \in Clients : batch'[d] = batch[d] \/ (batch[d] = "open" /\ batch'[d] = "finished")
    BY <1>2, <1>5 DEF ProcessEnds, Processes, ProcessPauses, ProcessWaits, BatchTimeout, Close,
                      Finish, Types, batchVars
  <2>3. NothingCounted
    BY <1>1, <2>1, <2>2 DEF NothingCounted
  <2> QED BY <1>1, <2>3, NothingCountedKeepsCounters
<1> QED BY <1>3, <1>4, <1>5 DEF Quiet

(* Jobs and destroyed clients are counted down; calls of the latter are not. *)
LEMMA ApartKeepsCounters ==
    ASSUME Way, Answers, Counts,
           \/ \E r \in Reqs : JobRuns(r) \/ JobDeleted(r)
           \/ CacheExpires
           \/ \E c \in Clients : Destruct(c)
    PROVE  Counts'
<1>1. Way' /\ owner' = owner
  BY ApartKeepsAnswers
<1>2. Types /\ ItemsAreOwn
  BY DEF Way, Answers
<1>3. UNCHANGED <<route, calls, perIP, items>>
  BY DEF JobRuns, JobDeleted, CacheExpires, Destruct, batchVars, throttleVars
<1>4. CallsAreCounted /\ ItemsAreCounted /\ JobsAreCounted
  BY CountersAreTheirParts
<1>5. CASE CacheExpires \/ \E r \in Reqs : JobRuns(r)
  <2>1. UNCHANGED <<nExtantBatchRequests, batch, bdReqCtr, extant>>
    BY <1>5 DEF CacheExpires, JobRuns, batchVars, throttleVars, poolVars
  <2>2. \A x \in Reqs : job'[x] = job[x] \/ (job[x] = "queued" /\ job'[x] = "ran")
    BY <1>2, <1>5 DEF CacheExpires, JobRuns, poolVars, Types
  <2>3. NothingCounted
    BY <1>1, <1>3, <2>1, <2>2 DEF NothingCounted
  <2> QED BY <1>1, <2>3, NothingCountedKeepsCounters
<1>6. Outstanding' = Outstanding /\ OwnersStay
  BY <1>1, <1>3 DEF Outstanding, OwnersStay
<1>7. CASE \E r \in Reqs : JobDeleted(r)
  <2>1. PICK r \in Reqs : JobDeleted(r)
    BY <1>7
  <2>2. UNCHANGED <<nExtantBatchRequests, batch, bdReqCtr>>
    BY <2>1 DEF JobDeleted, batchVars, throttleVars
  <2>3. JobsAreCounted'
    BY <1>2, <1>4, <2>1, JobEnds DEF JobDeleted
  <2>4. ItemsAreCounted'
    BY <1>3, <1>4, <2>2, ItemsStay
  <2>5. CallsAreCounted'
    BY <1>1, <1>3, <1>4, <1>6, <2>2, CallsStay
  <2> QED BY <2>3, <2>4, <2>5, CountersAreTheirParts
<1>8. CASE \E c \in Clients : Destruct(c)
  <2>1. PICK c \in Clients : Destruct(c)
    BY <1>8
  <2>2. UNCHANGED <<job, extant>>
    BY <2>1 DEF Destruct, poolVars
  <2>3. JobsAreCounted'
    BY <1>4, <2>2, JobsStay
  <2>4. ItemsAreCounted'
    BY <1>2, <1>3, <1>4, <2>1, BatchEnds DEF Destruct
  <2>5. ASSUME NEW d \in Clients PROVE bdReqCtr'[d] = bdReqCtr[d] \/ bdReqCtr'[d] <= bdReqCtr[d]
    BY <1>2, <2>1 DEF Destruct, Types
  <2>6. CallsAreCounted'
    BY <1>1, <1>3, <1>4, <1>6, <2>5, CallsStay
  <2> QED BY <2>3, <2>4, <2>6, CountersAreTheirParts
<1> QED BY <1>5, <1>7, <1>8

(* The first answer of bitcoind ends the call, and is counted once. *)
LEMMA ReplyKeepsCounters ==
    ASSUME Way, Answers, Counts, NEW c \in Clients, BitcoinDReplied(c) \/ CachedReply(c)
    PROVE  Counts'
<1>1. Types /\ calls \in [Reqs -> Nat]
  BY DEF Way, Types
<1>2. PICK r \in Reqs :
         /\ r = Head(inbox[c]).of /\ owner[r] = c /\ route[r] = "bitcoind"
         /\ Way' /\ owner' = owner
  BY BitcoinDRepliedKeepsWay, CachedReplyKeepsWay
<1>3. UNCHANGED <<items, nExtantBatchRequests, route, batch, job, extant>>
  BY DEF BitcoinDReplied, CachedReply, poolVars
<1>4. CASE BitcoinDReplied(c) /\ ~ FirstReply(r)
  <2>1. UNCHANGED <<calls, perIP, bdReqCtr>>
    BY <1>2, <1>4 DEF BitcoinDReplied, NoCallback, throttleVars
  <2>2. NothingCounted
    BY <1>2, <1>3, <2>1 DEF NothingCounted
  <2> QED BY <1>2, <2>2, NothingCountedKeepsCounters
<1>5. CASE CachedReply(c) \/ FirstReply(r)
  <2>1. Callback(c, r) /\ calls[r] = 0
    BY <1>2, <1>5, BitcoinDRepliedKeepsWay, CachedReplyKeepsWay DEF BitcoinDReplied, CachedReply
  <2>2. Uncount(c) /\ perIP' = perIP - 1 /\ calls' = [calls EXCEPT ![r] = @ + 1]
    BY <2>1 DEF Callback, Uncount
  <2>3. /\ bdReqCtr'[c] = IF bdReqCtr[c] = 0 THEN 0 ELSE bdReqCtr[c] - 1
        /\ \A d \in Clients \ {c} : bdReqCtr'[d] = bdReqCtr[d]
    BY <1>1, <2>2, UncountTypes
  <2>4. calls'[r] = 1 /\ \A x \in Reqs \ {r} : calls'[x] = calls[x]
    BY <1>1, <2>1, <2>2
  <2>5. r \in Outstanding /\ Outstanding' = Outstanding \ {r} /\ OwnersStay
    BY <1>2, <1>3, <2>1, <2>4 DEF Outstanding, OwnersStay
  <2>6. CallsAreCounted /\ ItemsAreCounted /\ JobsAreCounted
    BY CountersAreTheirParts
  <2>7. CallsAreCounted'
    BY <1>2, <2>2, <2>3, <2>5, <2>6, CallEnds
  <2>8. ItemsAreCounted' /\ JobsAreCounted'
    BY <1>3, <2>6, ItemsStay, JobsStay
  <2> QED BY <2>7, <2>8, CountersAreTheirParts
<1> QED BY <1>4, <1>5

(* A rejected job is counted down. *)
LEMMA JobReplyKeepsCounters ==
    ASSUME Way, Answers, Counts, NEW c \in Clients,
           JobReplied(c) \/ \E x \in Own(c) : JobRejected(c, x)
    PROVE  Counts'
<1>1. Way' /\ owner' = owner
  BY JobReplyKeepsAnswers
<1>2. UNCHANGED <<items, nExtantBatchRequests, route, batch, perIP, bdReqCtr, calls>>
  BY DEF JobReplied, JobRejected, throttleVars
<1>3. CASE JobReplied(c)
  <2>1. UNCHANGED <<job, extant>>
    BY <1>3 DEF JobReplied, poolVars
  <2>2. NothingCounted
    BY <1>1, <1>2, <2>1 DEF NothingCounted
  <2> QED BY <1>1, <2>2, NothingCountedKeepsCounters
<1>4. CASE \E x \in Own(c) : JobRejected(c, x)
  <2>1. PICK r \in Reqs : JobRejected(c, r)
    BY <1>4 DEF Own
  <2>2. CallsAreCounted /\ ItemsAreCounted /\ JobsAreCounted /\ Types
    BY CountersAreTheirParts DEF Way
  <2>3. JobsAreCounted'
    BY <2>1, <2>2, JobEnds DEF JobRejected
  <2>4. ItemsAreCounted'
    BY <1>2, <2>2, ItemsStay
  <2>5. Outstanding' = Outstanding /\ OwnersStay
    BY <1>1, <1>2 DEF Outstanding, OwnersStay
  <2>6. CallsAreCounted'
    BY <1>1, <1>2, <2>2, <2>5, CallsStay
  <2> QED BY <2>3, <2>4, <2>6, CountersAreTheirParts
<1> QED BY <1>3, <1>4

(* A request that is taken begins a call, a job or nothing. *)
LEMMA OnMessageCounters ==
    ASSUME Way, Way', Counts, NEW c \in Clients, NEW r \in Reqs, route[r] = None,
           onMessage(c, r), owner'[r] = c, OwnersStay,
           UNCHANGED <<items, batch, calls, nExtantBatchRequests>>
    PROVE  Counts'
<1>1. PICK where \in {"now", "refused", "pool", "bitcoind"} :
         /\ route' = [route EXCEPT ![r] = where]
         /\ \/ /\ where \in {"now", "refused"}
               /\ UNCHANGED <<throttleVars, poolVars>>
            \/ /\ where = "pool"
               /\ submitWork(r)
               /\ UNCHANGED throttleVars
            \/ /\ where = "bitcoind"
               /\ Throttle(c)
               /\ UNCHANGED poolVars
  BY DEF onMessage, generic_async_to_bitcoind
<1>2. /\ Types /\ route \in [Reqs -> {None, "now", "refused", "pool", "bitcoind"}]
      /\ bdReqCtr \in [Clients -> Nat]
  BY DEF Way, Types
<1>3. route'[r] = where /\ \A x \in Reqs \ {r} : route'[x] = route[x]
  BY <1>1, <1>2
<1>4. r \notin Outstanding /\ calls[r] = 0 /\ job[r] = None
  BY DEF Outstanding, None, Way, Paths, Path, Unrouted
<1>5. CallsAreCounted /\ ItemsAreCounted /\ JobsAreCounted
  BY CountersAreTheirParts
<1>6. ItemsAreCounted'
  BY <1>5, ItemsStay
<1>7. JobsAreCounted'
  <2>1. CASE where = "pool"
    BY <1>1, <1>2, <1>4, <1>5, <2>1, JobBegins
  <2>2. CASE where # "pool"
    BY <1>1, <1>5, <2>2, JobsStay DEF poolVars
  <2> QED BY <2>1, <2>2
<1>8. CallsAreCounted'
  <2>1. CASE where = "bitcoind"
    <3>1. Outstanding' = Outstanding \cup {r}
      BY <1>3, <1>4, <2>1 DEF Outstanding
    <3>2. /\ perIP' = perIP + 1 /\ bdReqCtr'[c] = bdReqCtr[c] + 1
          /\ \A d \in Clients \ {c} : bdReqCtr'[d] = bdReqCtr[d]
      BY <1>1, <1>2, <2>1 DEF Throttle
    <3> QED BY <1>4, <1>5, <3>1, <3>2, CallBegins
  <2>2. CASE where # "bitcoind"
    <3>1. Outstanding' = Outstanding
      BY <1>3, <1>4, <2>2 DEF Outstanding
    <3>2. UNCHANGED <<perIP, bdReqCtr>>
      BY <1>1, <2>2 DEF throttleVars
    <3> QED BY <1>5, <3>1, <3>2, CallsStay
  <2> QED BY <2>1, <2>2
<1> QED BY <1>6, <1>7, <1>8, CountersAreTheirParts

(* It is so for a request that is read, and for an item of a batch. *)
LEMMA TakenKeepsCounters ==
    ASSUME Way, Answers, Counts, NEW c \in Clients, Read(c) \/ ProcessItem(c)
    PROVE  Counts'
<1>1. Way'
  BY ReadKeepsAnswers, ProcessItemKeepsAnswers
<1>2. Types /\ ItemsAreOwn
  BY DEF Way, Answers
<1>3. PICK r \in Reqs : route[r] = None /\ onMessage(c, r) /\ owner'[r] = c /\ OwnersStay
  <2>1. CASE Read(c)
    <3>1. PICK r \in Reqs : r = NextIds(1)[1] /\ owner[r] = None /\ route[r] = None
      BY <2>1, ReadKeepsWay DEF Fresh
    <3>2. onMessage(c, r) /\ owner' = [owner EXCEPT ![r] = c]
      BY <2>1, <3>1 DEF Read
    <3>3. owner'[r] = c /\ OwnersStay
      BY <1>2, <3>1, <3>2 DEF Types, OwnersStay
    <3> QED BY <3>1, <3>2, <3>3
  <2>2. CASE ProcessItem(c)
    <3>1. PICK r \in Reqs : r = Item(c) /\ owner[r] = c /\ route[r] = None /\ owner' = owner
      BY <1>2, <2>2, ProcessItemKeepsWay
    <3> QED BY <2>2, <3>1 DEF ProcessItem, OwnersStay
  <2> QED BY <2>1, <2>2
<1>4. UNCHANGED <<items, batch, calls, nExtantBatchRequests>>
  BY DEF Read, ProcessItem
<1> QED BY <1>1, <1>3, <1>4, OnMessageCounters

(* The items of a new batch are counted. *)
LEMMA EnqueueBatchKeepsCounters ==
    ASSUME Way, Answers, Counts, NEW c \in Clients, NEW n \in BatchSizes,
           EnqueueBatch(c, n)
    PROVE  Counts'
<1>1. Way' /\ OwnersStay
  BY EnqueueBatchKeepsWay DEF OwnersStay
<1>2. UNCHANGED <<route, calls, perIP, bdReqCtr, job, extant>>
  BY DEF EnqueueBatch, throttleVars, poolVars
<1>3. CallsAreCounted /\ ItemsAreCounted /\ JobsAreCounted
  BY CountersAreTheirParts
<1>4. ItemsAreCounted'
  BY <1>3, BatchBegins DEF Answers
<1>5. JobsAreCounted'
  BY <1>2, <1>3, JobsStay
<1>6. Outstanding' = Outstanding
  BY <1>2 DEF Outstanding
<1>7. CallsAreCounted'
  BY <1>1, <1>2, <1>3, <1>6, CallsStay
<1> QED BY <1>4, <1>5, <1>7, CountersAreTheirParts

-----------------------------------------------------------------------------
(* Waiting *)

(* WaitersWillBeWoken, of one client. *)
Woken(c) ==
    /\ readPaused[c] => decayTimer[c]
    /\ batch[c] = "open" /\ life[c] = "up" /\ ~again[c] =>
           \/ processingPaused[c] /\ readPaused[c]
           \/ inactivity[c] /\ ~hasNext(c) /\ ~isComplete(c, next[c], responses[c])

(* Nothing of a client's batch and of its throttle changes. *)
SameBatch(c)    == UNCHANGED <<life[c], batch[c], items[c], next[c], again[c],
                               processingPaused[c], inactivity[c], responses[c]>>
SameThrottle(c) == UNCHANGED <<readPaused[c], decayTimer[c]>>

(* Then it is woken as it was. *)
LEMMA SameIsWoken ==
    ASSUME NEW c \in Clients, Woken(c), SameBatch(c), SameThrottle(c)
    PROVE  Woken(c)'
BY DEF Woken, SameBatch, SameThrottle, hasNext, isComplete

(* A response wakes a batch that is complete with it. *)
LEMMA DeliverWakes ==
    ASSUME Types, NEW c \in Clients, NEW r \in Reqs, Deliver(c, r), WaitersWillBeWoken,
           UNCHANGED <<life, batch, items, next, processingPaused, inactivity, readPaused, decayTimer>>
    PROVE  WaitersWillBeWoken'
<1>1. \A d \in Clients : Woken(d)
  BY DEF WaitersWillBeWoken, Woken
<1>2. ASSUME NEW d \in Clients, d # c PROVE Woken(d)'
  <2>1. responses'[d] = responses[d] /\ again'[d] = again[d]
    BY <1>2 DEF Deliver, Types
  <2>2. SameBatch(d) /\ SameThrottle(d)
    BY <2>1 DEF SameBatch, SameThrottle
  <2> QED BY <1>1, <2>2, SameIsWoken
<1>3. Woken(c)'
  <2>1. CASE UNCHANGED <<responses, again>>
    <3>1. SameBatch(c) /\ SameThrottle(c)
      BY <2>1 DEF SameBatch, SameThrottle
    <3> QED BY <1>1, <3>1, SameIsWoken
  <2>2. CASE ~ UNCHANGED <<responses, again>>
    <3>1. PICK kill \in BOOLEAN :
             again' = [again EXCEPT ![c] = @ \/ kill \/ isComplete(c, next'[c], responses'[c])]
      BY <2>2 DEF Deliver
    <3>2. again'[c] = (again[c] \/ kill \/ isComplete(c, next'[c], responses'[c]))
      BY <3>1 DEF Types
    <3>3. ~ again'[c] => ~ again[c] /\ ~ isComplete(c, next'[c], responses'[c])
      BY <3>2
    <3>4. isComplete(c, next[c], responses[c])' <=> isComplete(c, next'[c], responses'[c])
      BY DEF isComplete
    <3> QED BY <1>1, <3>3, <3>4 DEF Woken, hasNext
  <2> QED BY <2>1, <2>2
<1> QED BY <1>2, <1>3 DEF WaitersWillBeWoken, Woken

(* What happens elsewhere changes nothing for those who wait. *)
LEMMA ElsewhereWakes ==
    ASSUME WaitersWillBeWoken,
           \/ BDNext /\ Others
           \/ \E r \in Reqs : JobRuns(r) \/ JobDeleted(r)
           \/ CacheExpires
    PROVE  WaitersWillBeWoken'
<1>1. UNCHANGED <<life, batchVars, throttleVars>>
  BY DEF Others, JobRuns, JobDeleted, CacheExpires
<1>2. UNCHANGED <<life, batch, items, next, again, processingPaused, inactivity, responses,
                  readPaused, decayTimer>>
  BY <1>1 DEF batchVars, throttleVars
<1> QED BY <1>2 DEF WaitersWillBeWoken, hasNext, isComplete

(* Answers wake their batch. *)
LEMMA ReplyWakes ==
    ASSUME Way, WaitersWillBeWoken, NEW c \in Clients,
           \/ BitcoinDReplied(c) \/ CachedReply(c) \/ JobReplied(c)
           \/ \E x \in Own(c) : JobRejected(c, x)
    PROVE  WaitersWillBeWoken'
<1>1. Types
  BY DEF Way
<1>2. UNCHANGED <<life, batch, items, next, processingPaused, inactivity, readPaused, decayTimer>>
  BY DEF BitcoinDReplied, CachedReply, JobReplied, JobRejected, Callback, NoCallback, Uncount, throttleVars
<1>3. CASE UNCHANGED <<responses, again>>
  BY <1>2, <1>3 DEF WaitersWillBeWoken, hasNext, isComplete
<1>4. CASE ~ UNCHANGED <<responses, again>>
  <2>1. \E r \in Reqs : Deliver(c, r)
    <3>1. CASE JobReplied(c)
      BY <3>1, JobRepliedKeepsWay DEF JobReplied
    <3>2. CASE CachedReply(c)
      BY <3>2, CachedReplyKeepsWay DEF CachedReply, Callback
    <3>3. CASE BitcoinDReplied(c)
      BY <1>4, <3>3, BitcoinDRepliedKeepsWay DEF BitcoinDReplied, Callback, NoCallback
    <3>4. CASE \E x \in Own(c) : JobRejected(c, x)
      BY <3>4 DEF JobRejected, Own
    <3> QED BY <3>1, <3>2, <3>3, <3>4
  <2> QED BY <1>1, <1>2, <2>1, DeliverWakes
<1> QED BY <1>3, <1>4

(* The decay timer keeps running as long as reading is paused, and resumes *)
(* the batch that waits for its end.                                       *)
LEMMA TickWakes ==
    ASSUME Types, NEW c \in Clients, NEW decay \in Nat, Tick(c, decay), Woken(c)
    PROVE  Woken(c)'
<1> DEFINE ctr == bdReqCtr[c] - Min({decay, bdReqCtr[c]})
           resume == readPaused[c] /\ ctr <= bdReqLo
<1>1. ctr \in Nat /\ bdReqLo \in Nat
  <2>1. bdReqCtr' \in [Clients -> Nat] /\ bdReqCtr'[c] = ctr
    BY TickLowers
  <2> QED BY <2>1, ClientAssumption
<1>2. /\ UNCHANGED <<life, batch, items, next, processingPaused, inactivity, responses>>
      /\ readPaused' = [readPaused EXCEPT ![c] = @ /\ ~resume]
      /\ again' = [again EXCEPT ![c] = @ \/ (resume /\ processingPaused[c])]
      /\ decayTimer' = [decayTimer EXCEPT ![c] = ctr > 0]
  BY DEF Tick
<1>3. /\ readPaused[c] \in BOOLEAN /\ again[c] \in BOOLEAN /\ processingPaused[c] \in BOOLEAN
      /\ readPaused \in [Clients -> BOOLEAN] /\ again \in [Clients -> BOOLEAN]
      /\ decayTimer \in [Clients -> BOOLEAN]
  BY DEF Types
<1> HIDE DEF ctr
<1>4. readPaused'[c] = (readPaused[c] /\ ~resume) /\ decayTimer'[c] = (ctr > 0)
  BY <1>2, <1>3
<1>5. again'[c] = (again[c] \/ (resume /\ processingPaused[c]))
  BY <1>2, <1>3
<1>6. ASSUME readPaused'[c] PROVE decayTimer'[c]
  <2>1. ~ (ctr <= bdReqLo)
    BY <1>4, <1>6
  <2>2. ctr > 0
    BY <1>1, <2>1
  <2> QED BY <1>4, <2>2
<1>7. hasNext(c)' = hasNext(c) /\ isComplete(c, next[c], responses[c])' = isComplete(c, next[c], responses[c])
  BY <1>2 DEF hasNext, isComplete
<1> HIDE DEF resume
<1>8. batch'[c] = "open" /\ life'[c] = "up" /\ ~again'[c] =>
         \/ processingPaused'[c] /\ readPaused'[c]
         \/ inactivity'[c] /\ ~hasNext(c)' /\ ~isComplete(c, next[c], responses[c])'
  BY <1>2, <1>3, <1>4, <1>5, <1>7 DEF Woken
<1> QED BY <1>6, <1>8 DEF Woken

(* A batch that waits has something to wait for. *)
LEMMA QuietWakes ==
    ASSUME Way, WaitersWillBeWoken, NEW c \in Clients, Quiet(c) \/ Destruct(c)
    PROVE  WaitersWillBeWoken'
<1>1. Types /\ decayPerSec \in Nat /\ 0 \in Nat
  BY ClientAssumption DEF Way
<1>2. \A d \in Clients : Woken(d)
  BY DEF WaitersWillBeWoken, Woken
<1>3. ASSUME NEW d \in Clients, d # c PROVE Woken(d)'
  <2>1. SameBatch(d) /\ SameThrottle(d)
    BY <1>1, <1>3 DEF SameBatch, SameThrottle, Quiet, ProcessEnds, ProcessPauses, ProcessWaits,
          BatchDestroyed, BatchTimeout, Close, Tick, Finish, Destruct, Types, batchVars, throttleVars
  <2> QED BY <1>2, <2>1, SameIsWoken
<1>4. Woken(c)'
  <2>1. CASE Tick(c, 0) \/ Tick(c, decayPerSec)
    BY <1>1, <1>2, <2>1, TickWakes
  <2>2. CASE Destruct(c)
    <3>1. ~ readPaused'[c] /\ batch'[c] = "deleted"
      BY <1>1, <2>2 DEF Destruct, Types
    <3> QED BY <3>1 DEF Woken
  <2>3. CASE Quiet(c) /\ ~ Tick(c, 0) /\ ~ Tick(c, decayPerSec)
    <3>1. UNCHANGED <<readPaused, decayTimer>>
      BY <2>3 DEF Quiet, ProcessEnds, ProcessPauses, ProcessWaits, BatchDestroyed, BatchTimeout,
                  Close, throttleVars
    <3>2. CASE ProcessEnds(c) \/ BatchTimeout(c) \/ BatchDestroyed(c)
      <4>1. batch'[c] # "open"
        BY <1>1, <3>2 DEF ProcessEnds, BatchTimeout, BatchDestroyed, Finish, Types
      <4> QED BY <1>2, <3>1, <4>1 DEF Woken
    <3>3. CASE Close(c)
      <4>1. life'[c] # "up"
        BY <1>1, <3>3 DEF Close, Types
      <4> QED BY <1>2, <3>1, <4>1 DEF Woken
    <3>4. CASE ProcessPauses(c)
      <4>1. processingPaused'[c] /\ readPaused[c]
        BY <1>1, <3>4 DEF ProcessPauses, Types
      <4> QED BY <1>2, <3>1, <4>1 DEF Woken
    <3>5. CASE ProcessWaits(c)
      <4>1. /\ inactivity'[c] /\ UNCHANGED <<items, next, responses>>
            /\ ~hasNext(c) /\ ~isComplete(c, next[c], responses[c])
        BY <1>1, <3>5 DEF ProcessWaits, Types
      <4>2. ~hasNext(c)' /\ ~isComplete(c, next[c], responses[c])'
        BY <4>1 DEF hasNext, isComplete
      <4> QED BY <1>2, <3>1, <4>1, <4>2 DEF Woken
    <3> QED BY <2>3, <3>2, <3>3, <3>4, <3>5 DEF Quiet
  <2> QED BY <2>1, <2>2, <2>3
<1> QED BY <1>3, <1>4 DEF WaitersWillBeWoken, Woken

(* A pause that begins starts the timer; a batch whose item is taken is      *)
(* processed again, unless the client is dropped.                            *)
LEMMA OnMessageWakes ==
    ASSUME Types, NEW c \in Clients, NEW r \in Reqs, onMessage(c, r), ~ readPaused[c],
           WaitersWillBeWoken, UNCHANGED <<batch, items, inactivity>>,
           \A d \in Clients \ {c} : processingPaused'[d] = processingPaused[d] /\ next'[d] = next[d],
           \/ ~ Batched(c, r) /\ next'[c] = next[c]
           \/ again[c]
    PROVE  WaitersWillBeWoken'
<1>1. \A d \in Clients : Woken(d)
  BY DEF WaitersWillBeWoken, Woken
<1>2. /\ \A d \in Clients \ {c} : readPaused'[d] = readPaused[d] /\ decayTimer'[d] = decayTimer[d]
      /\ readPaused'[c] => decayTimer'[c]
  <2>1. CASE UNCHANGED throttleVars
    BY <1>1, <2>1 DEF throttleVars, Woken
  <2>2. CASE Throttle(c)
    BY <2>2 DEF Throttle, Types
  <2> QED BY <2>1, <2>2 DEF onMessage, generic_async_to_bitcoind
<1>3. /\ \A d \in Clients \ {c} : /\ life'[d] = life[d] /\ again'[d] = again[d]
                                  /\ responses'[d] = responses[d]
      /\ \/ life'[c] # "up"
         \/ again[c] /\ again'[c]
         \/ ~ again[c] /\ UNCHANGED <<life, again, responses>>
         \/ Batched(c, r) /\ ~ again[c]
  <2>1. CASE Deliver(c, r) /\ UNCHANGED life
    <3>1. CASE UNCHANGED <<responses, again>>
      BY <2>1, <3>1 DEF Types
    <3>2. CASE ~ UNCHANGED <<responses, again>>
      <4>1. PICK kill \in BOOLEAN :
               /\ Batched(c, r) /\ responses' = [responses EXCEPT ![c] = Append(@, r)]
               /\ again' = [again EXCEPT ![c] = @ \/ kill \/ isComplete(c, next'[c], responses'[c])]
        BY <2>1, <3>2 DEF Deliver
      <4>2. again'[c] = (again[c] \/ kill \/ isComplete(c, next'[c], responses'[c]))
        BY <4>1 DEF Types
      <4>3. \A d \in Clients \ {c} : again'[d] = again[d] /\ responses'[d] = responses[d]
        BY <4>1 DEF Types
      <4> QED BY <2>1, <4>1, <4>2, <4>3
    <3> QED BY <3>1, <3>2
  <2>2. CASE Refuse(c, r)
    BY <2>2 DEF Refuse, Types
  <2>3. CASE UNCHANGED <<life, responses, again>>
    BY <2>3 DEF Types
  <2> QED BY <2>1, <2>2, <2>3 DEF onMessage
<1>4. ASSUME NEW d \in Clients, d # c PROVE Woken(d)'
  <2>1. SameBatch(d) /\ SameThrottle(d)
    BY <1>2, <1>3, <1>4 DEF SameBatch, SameThrottle
  <2> QED BY <1>1, <2>1, SameIsWoken
<1>5. Woken(c)'
  <2>1. CASE life'[c] # "up" \/ again'[c]
    BY <1>2, <2>1 DEF Woken
  <2>2. CASE life'[c] = "up" /\ ~ again'[c]
    <3>1. ~ again[c] /\ UNCHANGED <<life, again, responses>> /\ next'[c] = next[c]
      BY <1>3, <2>2
    <3>2. /\ hasNext(c)' <=> hasNext(c)
          /\ isComplete(c, next[c], responses[c])' <=> isComplete(c, next[c], responses[c])
      BY <3>1 DEF hasNext, isComplete
    <3> QED BY <1>1, <1>2, <3>1, <3>2 DEF Woken
  <2> QED BY <2>1, <2>2
<1> QED BY <1>4, <1>5 DEF WaitersWillBeWoken, Woken

(* It is so for a request that is read, and for an item of a batch. *)
LEMMA TakenWakes ==
    ASSUME Way, Answers, WaitersWillBeWoken, NEW c \in Clients, Read(c) \/ ProcessItem(c)
    PROVE  WaitersWillBeWoken'
<1>1. Types /\ ItemsAreOwn
  BY DEF Way, Answers
<1>2. CASE Read(c)
  <2>1. PICK r \in Reqs : r = NextIds(1)[1] /\ owner[r] = None
    BY <1>2, ReadKeepsWay DEF Fresh
  <2>2. /\ onMessage(c, r) /\ ~ readPaused[c]
        /\ UNCHANGED <<batch, items, inactivity, processingPaused, next>>
    BY <1>2, <2>1 DEF Read
  <2>3. ~ Batched(c, r)
    BY <1>1, <2>1, BatchedIsOwn, ClientAssumption
  <2> QED BY <1>1, <2>2, <2>3, OnMessageWakes
<1>3. CASE ProcessItem(c)
  <2>1. PICK r \in Reqs : r = Item(c)
    BY <1>1, <1>3, ProcessItemKeepsWay
  <2>2. /\ onMessage(c, r) /\ ~ readPaused[c] /\ again[c] /\ UNCHANGED <<batch, items, inactivity>>
        /\ processingPaused' = [processingPaused EXCEPT ![c] = FALSE]
        /\ next' = [next EXCEPT ![c] = @ + 1]
    BY <1>3, <2>1 DEF ProcessItem, Continues, Processes
  <2>3. \A d \in Clients \ {c} : processingPaused'[d] = processingPaused[d] /\ next'[d] = next[d]
    BY <1>1, <2>2 DEF Types
  <2> QED BY <1>1, <2>2, <2>3, OnMessageWakes
<1> QED BY <1>2, <1>3

(* A batch that is accepted is processed. *)
LEMMA EnqueueBatchWakes ==
    ASSUME Way, WaitersWillBeWoken, NEW c \in Clients, NEW n \in BatchSizes, EnqueueBatch(c, n)
    PROVE  WaitersWillBeWoken'
<1>1. Types
  BY DEF Way
<1>2. \A d \in Clients : Woken(d)
  BY DEF WaitersWillBeWoken, Woken
<1>3. /\ UNCHANGED <<life, next, processingPaused, inactivity, responses, readPaused, decayTimer>>
      /\ batch'[c] = "rejecting" \/ again'[c]
      /\ \A d \in Clients \ {c} : /\ batch'[d] = batch[d] /\ again'[d] = again[d]
                                  /\ items'[d] = items[d]
  BY <1>1 DEF EnqueueBatch, throttleVars, Types
<1>4. ASSUME NEW d \in Clients, d # c PROVE Woken(d)'
  <2>1. SameBatch(d) /\ SameThrottle(d)
    BY <1>3, <1>4 DEF SameBatch, SameThrottle
  <2> QED BY <1>2, <2>1, SameIsWoken
<1>5. Woken(c)'
  BY <1>2, <1>3 DEF Woken
<1> QED BY <1>4, <1>5 DEF WaitersWillBeWoken, Woken

-----------------------------------------------------------------------------
(* The invariant *)

(* No request was made, and everybody is free. *)
LEMMA InitIInv ==
    ASSUME Init
    PROVE  IInv
<1> USE DEF None
<1>1. Types
  <2>1. /\ sendQ \in [BDs -> Seq(Reqs)] /\ asked \in [BDs -> SUBSET Reqs] /\ mgrQ \in Seq(MgrEvents)
        /\ inbox \in [Clients -> Seq(BoxEvents)] /\ losses \in 0 .. MaxLosses
    BY BDAssumption DEF Init, BDInit, Clients
  <2>2. /\ connected \subseteq BDs /\ hooked \subseteq BDs /\ needAuth \subseteq BDs
        /\ goodSet \subseteq BDs /\ reqContextTable \subseteq Reqs /\ timedOut \subseteq Reqs
        /\ attached \subseteq Reqs /\ replied \subseteq Reqs
        /\ bd \in [Reqs -> BDs \cup {None}] /\ owner \in [Reqs -> Clients \cup {None}]
    BY DEF Init, BDInit
  <2>3. items \in [Clients -> Seq(Reqs)] /\ responses \in [Clients -> Seq(Reqs)]
    BY DEF Init
  <2>4. /\ next \in [Clients -> Nat] /\ bdReqCtr \in [Clients -> Nat]
        /\ calls \in [Reqs -> Nat] /\ replies \in [Reqs -> Nat]
    BY DEF Init
  <2>5. /\ again \in [Clients -> BOOLEAN] /\ processingPaused \in [Clients -> BOOLEAN]
        /\ inactivity \in [Clients -> BOOLEAN] /\ killed \in [Clients -> BOOLEAN]
        /\ readPaused \in [Clients -> BOOLEAN] /\ decayTimer \in [Clients -> BOOLEAN]
        /\ cached \in BOOLEAN
    BY DEF Init
  <2>6. /\ life \in [Clients -> {"up", "closing", "gone"}]
        /\ batch \in [Clients -> {"none", "rejecting", "open", "finished", "deleted"}]
        /\ route \in [Reqs -> {None, "now", "refused", "pool", "bitcoind"}]
        /\ job \in [Reqs -> {None, "rejecting", "queued", "ran", "deleted"}]
    BY DEF Init
  <2> QED BY <2>1, <2>2, <2>3, <2>4, <2>5, <2>6 DEF Types
<1>2. \A c \in Clients, e \in BoxEvents : ~ Contains(inbox[c], e)
  BY DEF Init, BDInit, Contains, Clients
<1>3. \A t, r : ~ Contains(mgrQ, Event(t, r))
  BY DEF Init, BDInit, Contains
<1>4. \A r \in Reqs : \A t \in Kinds : ~ Got(t, r)
  BY <1>2, BoxEventFacts DEF Got
<1>5. EventsAreOwn
  BY <1>4 DEF EventsAreOwn, Got
<1>6. EventsComeOnce
  <2>1. mgrQ = <<>> /\ \A c \in Clients : inbox[c] = <<>>
    BY DEF Init, BDInit, Clients
  <2> QED BY <2>1 DEF EventsComeOnce, AtMostOnce
<1>7. Paths
  <2> SUFFICES ASSUME NEW r \in Reqs PROVE Path(r)
    BY DEF Paths
  <2>1. /\ route[r] = None /\ job[r] = None /\ calls[r] = 0
        /\ r \notin attached \cup replied \cup reqContextTable \cup timedOut
    BY DEF Init, BDInit
  <2>2. ~ Submits(r) /\ ~ Destroys(r)
    BY <1>3 DEF Submits, Destroys
  <2>3. Unrouted(r)
    BY <1>4, <2>1, <2>2 DEF Unrouted
  <2>4. ~ Got("reply", r) /\ ~ Got("fail", r) /\ ~ Got("cached", r) /\ ~ Got("job", r)
    BY <1>4 DEF Kinds
  <2> QED BY <2>1, <2>2, <2>3, <2>4 DEF Path
<1>8. Answers
  <2>1. \A c \in Clients : items[c] = <<>> /\ responses[c] = <<>> /\ next[c] = 0 /\ batch[c] = "none"
    BY DEF Init
  <2>2. \A r \in Reqs : replies[r] = 0 /\ route[r] = None
    BY DEF Init
  <2>3. \A c \in Clients : \A r : ~ Contains(responses[c], r) /\ ~ Batched(c, r)
    BY <2>1 DEF Batched, Contains
  <2>4. OwedIsNotGiven /\ AllOrNone /\ \A r \in Reqs : replies[r] <= 1
    BY <2>2, <2>3 DEF OwedIsNotGiven, AllOrNone
  <2>5. ItemsAreOwn /\ ResponsesAreItems /\ BatchWaits
    BY <2>1, <2>2 DEF ItemsAreOwn, ResponsesAreItems, BatchWaits
  <2> QED BY <2>4, <2>5 DEF Answers
<1>9. Counts
  <2>1. Outstanding = {} /\ InBatches = {} /\ Extant = {} /\ Allowed = {}
    BY DEF Init, Outstanding, InBatches, Extant, Allowed
  <2>2. Cardinality({}) = 0 /\ \A c \in Clients : Outstanding \cap Own(c) = {}
    BY <2>1, FS_EmptySet
  <2>3. perIP = 0 /\ nExtantBatchRequests = 0 /\ extant = 0 /\ \A c \in Clients : bdReqCtr[c] = 0
    BY DEF Init
  <2>4. CallsAreCounted
    BY <2>1, <2>2, <2>3 DEF CallsAreCounted
  <2>5. ItemsAreCounted /\ JobsAreCounted
    BY <2>1, <2>2, <2>3, ClientAssumption DEF ItemsAreCounted, JobsAreCounted
  <2> QED BY <2>4, <2>5, CountersAreTheirParts
<1>10. WaitersWillBeWoken
  BY DEF Init, WaitersWillBeWoken
<1> QED BY <1>1, <1>5, <1>6, <1>7, <1>8, <1>9, <1>10 DEF IInv, Way

(* A step that changes nothing. *)
LEMMA StutterIInv ==
    ASSUME IInv, UNCHANGED vars
    PROVE  IInv'
<1>1. UNCHANGED <<bdVars, life, batchVars, throttleVars, cached, route, poolVars, calls, replies>>
  BY DEF vars
<1>2. Way /\ Answers /\ Counts /\ WaitersWillBeWoken /\ Types /\ ItemsAreOwn
  BY DEF IInv, Way, Answers
<1>3. UNCHANGED <<items, next, responses, batch, again, processingPaused, inactivity,
                  nExtantBatchRequests, readPaused, decayTimer, perIP, bdReqCtr, job, extant>>
  BY <1>1 DEF batchVars, throttleVars, poolVars
<1>4. Types'
  BY <1>1, <1>2 DEF Types, bdVars, connVars, ctxVars, batchVars, throttleVars, poolVars
<1>5. Way' /\ owner' = owner /\ \A x \in Reqs : Got("job", x)' <=> Got("job", x)
  BY <1>1, <1>2, <1>3, <1>4, QuietWay DEF SameLives
<1>6. Steady /\ NothingNew
  BY <1>1, <1>2, <1>3, <1>5, StillSteady, StillNothingNew
<1>7. Answers'
  BY <1>1, <1>2, <1>3, <1>5, <1>6, SilentStep
<1>8. Counts'
  BY <1>1, <1>2, <1>3, <1>5, NothingCountedKeepsCounters DEF NothingCounted
<1>9. WaitersWillBeWoken'
  BY <1>1, <1>2, <1>3 DEF WaitersWillBeWoken, hasNext, isComplete
<1> QED BY <1>5, <1>7, <1>8, <1>9 DEF IInv

(* Every step keeps the invariant. *)
LEMMA NextIInv ==
    ASSUME IInv, Next
    PROVE  IInv'
<1>1. Way /\ Answers /\ Counts /\ WaitersWillBeWoken
  BY DEF IInv
<1>2. CASE BDNext /\ Others
  BY <1>1, <1>2, BDNextKeepsAnswers, BDNextKeepsCounters, ElsewhereWakes DEF IInv
<1>3. CASE PoolStep \/ CacheExpires
  BY <1>1, <1>3, ApartKeepsAnswers, ApartKeepsCounters, ElsewhereWakes DEF IInv, PoolStep
<1>4. ASSUME NEW c \in Clients, Quiet(c) PROVE IInv'
  BY <1>1, <1>4, QuietKeepsWay, QuietKeepsAnswers, QuietKeepsCounters, QuietWakes DEF IInv
<1>5. ASSUME NEW c \in Clients, Destruct(c) PROVE IInv'
  BY <1>1, <1>5, ApartKeepsAnswers, ApartKeepsCounters, QuietWakes DEF IInv
<1>6. ASSUME NEW c \in Clients, BitcoinDReplied(c) \/ CachedReply(c) PROVE IInv'
  BY <1>1, <1>6, ReplyKeepsAnswers, ReplyKeepsCounters, ReplyWakes DEF IInv
<1>7. ASSUME NEW c \in Clients, JobReplied(c) \/ \E x \in Own(c) : JobRejected(c, x) PROVE IInv'
  BY <1>1, <1>7, JobReplyKeepsAnswers, JobReplyKeepsCounters, ReplyWakes DEF IInv
<1>8. ASSUME NEW c \in Clients, Read(c) \/ ProcessItem(c) PROVE IInv'
  BY <1>1, <1>8, ReadKeepsAnswers, ProcessItemKeepsAnswers, TakenKeepsCounters, TakenWakes DEF IInv
<1>9. ASSUME NEW c \in Clients, NEW n \in BatchSizes, EnqueueBatch(c, n) PROVE IInv'
  BY <1>1, <1>9, EnqueueBatchKeepsWay, EnqueueBatchStep, EnqueueBatchKeepsCounters,
     EnqueueBatchWakes DEF IInv
<1> QED BY <1>2, <1>3, <1>4, <1>5, <1>6, <1>7, <1>8, <1>9 DEF Next, ClientStep, Quiet

-----------------------------------------------------------------------------
(* Theorems *)

(* IInv holds in every reachable state: the routes, the queues, the contexts *)
(* and the answers of requests fit together in all interleavings of clients, *)
(* the manager, its connections and the thread pool.                         *)
THEOREM Invariance == Spec => []IInv
<1>1. Init => IInv
  BY InitIInv
<1>2. IInv /\ [Next]_vars => IInv'
  BY NextIInv, StutterIInv
<1> QED BY <1>1, <1>2, PTL DEF Spec

(* Every variable has its type; the counters that are of natural numbers     *)
(* cannot be decremented below zero, whatever way requests end.              *)
THEOREM TypeCorrect == Spec => []TypeOK
<1>1. ASSUME IInv PROVE TypeOK
  <2>1. Types
    BY <1>1 DEF IInv, Way
  <2>2. BDTypeOK
    <3>1. ASSUME NEW i \in DOMAIN mgrQ
          PROVE  \/ mgrQ[i].type \in {"authenticated", "lost"} /\ mgrQ[i].of \in BDs
                 \/ mgrQ[i].type \in {"submit", "message", "destroyed"} /\ mgrQ[i].of \in Reqs
      <4>1. mgrQ[i] \in MgrEvents
        BY <2>1, <3>1 DEF Types
      <4> QED BY <4>1 DEF MgrEvents
    <3> QED BY <2>1, <3>1 DEF BDTypeOK, Types, Clients
  <2>3. Outstanding \in SUBSET Reqs /\ InBatches \in SUBSET Reqs /\ Extant \in SUBSET Reqs
    BY DEF Outstanding, InBatches, Extant
  <2>4. /\ Cardinality(Outstanding) \in Nat /\ Cardinality(InBatches) \in Nat
        /\ Cardinality(Extant) \in Nat
    BY <2>3, FinitelyMany, FS_CardinalityType
  <2>5. perIP \in Nat /\ nExtantBatchRequests \in Nat /\ extant \in Nat
    BY <1>1, <2>4, CountersAreTheirParts
       DEF IInv, CallsAreCounted, ItemsAreCounted, JobsAreCounted
  <2> QED BY <2>1, <2>2, <2>5 DEF TypeOK, Types
<1> QED BY <1>1, Invariance, PTL

(* Of the three functions a request to bitcoind may call, one is called at   *)
(* most, and once, and no client is sent two answers to one request, in      *)
(* whatever order answers, timeouts and lost connections are handled.        *)
THEOREM AnsweredOnceCorrect == Spec => []AnsweredOnce
<1>1. IInv => AnsweredOnce
  BY DEF IInv, Way, Paths, Path, Answers, AnsweredOnce
<1> QED BY <1>1, Invariance, PTL

(* A client gets the answers to a batch all at once or not at all, but for   *)
(* the error that drops it.                                                  *)
THEOREM BatchIsWholeCorrect == Spec => []BatchIsWhole
<1>1. ASSUME IInv PROVE BatchIsWhole
  <2>1. Types /\ ItemsAreOwn /\ AllOrNone
    BY <1>1 DEF IInv, Way, Answers
  <2> SUFFICES ASSUME NEW c \in Clients
               PROVE  LET refused == {r \in ToSet(items[c]) : route[r] = "refused"}
                      IN  IF refused = {}
                            THEN \A r, q \in ToSet(items[c]) : replies[r] = replies[q]
                            ELSE \A r \in ToSet(items[c]) \ refused : replies[r] = 0
    BY DEF BatchIsWhole
  <2>2. \A r \in ToSet(items[c]) : r \in Reqs /\ Batched(c, r)
    BY <2>1 DEF ToSet, Batched, Contains, Types
  <2>3. \A r \in Reqs : Batched(c, r) => r \in ToSet(items[c])
    BY <2>1 DEF ToSet, Batched, Contains, Types
  <2> QED BY <2>1, <2>2, <2>3 DEF AllOrNone
<1> QED BY <1>1, Invariance, PTL

(* As long as a client exists, each request it has sent to bitcoind is on    *)
(* its way to its callback, whatever connections break.                      *)
THEOREM PendingCorrect == Spec => []PendingWillEnd
<1>1. ASSUME IInv PROVE PendingWillEnd
  <2>1. Types /\ EventsAreOwn /\ Paths
    BY <1>1 DEF IInv, Way
  <2> SUFFICES ASSUME NEW r \in Reqs, r \in Outstanding, life[owner[r]] # "gone"
               PROVE  \/ Contains(mgrQ, Event("submit", r))
                      \/ \E i \in DOMAIN inbox[owner[r]] : inbox[owner[r]][i].of = r
                      \/ r \in (reqContextTable \cap attached) \ timedOut
    BY DEF PendingWillEnd, Outstanding
  <2>2. \/ Submits(r) \/ r \in (reqContextTable \cap attached) \ timedOut
        \/ \E t \in Kinds : Got(t, r)
    BY <2>1 DEF Paths, Path, Outstanding, Kinds
  <2>3. ASSUME NEW t \in Kinds, Got(t, r)
        PROVE  \E i \in DOMAIN inbox[owner[r]] : inbox[owner[r]][i].of = r
    <3>1. PICK c \in Clients : Contains(inbox[c], Event(t, r))
      BY <2>3 DEF Got
    <3>2. owner[r] = c
      BY <2>1, <3>1 DEF EventsAreOwn
    <3>3. inbox[c] \in Seq(BoxEvents)
      BY <2>1 DEF Types
    <3>4. PICK i \in 1 .. Len(inbox[c]) : inbox[c][i] = Event(t, r)
      BY <3>1, <3>3 DEF Contains
    <3>5. i \in DOMAIN inbox[c] /\ inbox[c][i].of = r
      BY <3>3, <3>4 DEF Event
    <3> QED BY <3>2, <3>5
  <2> QED BY <2>2, <2>3 DEF Submits
<1> QED BY <1>1, Invariance, PTL

(* A context is not kept after it has replied nor after its sender is gone,  *)
(* and no entry stays in the table of the manager without its context.       *)
THEOREM ContextsCorrect == Spec => []ContextsAreReleased
<1>1. ASSUME IInv PROVE ContextsAreReleased
  <2>1. Types /\ EventsAreOwn /\ Paths /\ Way
    BY <1>1 DEF IInv, Way
  <2>2. ASSUME NEW r \in attached PROVE r \notin replied /\ life[owner[r]] # "gone"
    BY <2>1 DEF Paths, Path, Attached, Types
  <2>3. ASSUME NEW r \in reqContextTable PROVE Alive(r) \/ Contains(mgrQ, Event("destroyed", r))
    <3>1. r \in Reqs /\ owner[r] \in Clients /\ (Keeps(r) \/ Destroys(r))
      BY <2>1, <2>3, RoutedHasOwner DEF Paths, Path, Types
    <3>2. inbox \in [Clients -> Seq(BoxEvents)]
      BY <2>1 DEF Types
    <3>3. \A c \in Clients : \A t \in Kinds : Contains(inbox[c], Event(t, r)) => owner[r] = c
      BY <2>1, <3>1 DEF EventsAreOwn
    <3>4. Alive(r) <=> \/ r \in attached \/ Contains(mgrQ, Event("submit", r))
                       \/ \E t \in Kinds : \E c \in Clients : Contains(inbox[c], Event(t, r))
      BY <3>1, <3>2, <3>3, HeldFacts DEF Alive
    <3>5. "reply" \in Kinds /\ "fail" \in Kinds
      BY DEF Kinds
    <3> QED BY <3>1, <3>4, <3>5 DEF Keeps, Submits, Destroys, Got
  <2> QED BY <2>2, <2>3 DEF ContextsAreReleased
<1> QED BY <1>1, Invariance, PTL

(* The counters that limit what clients may ask for are exact, but for what  *)
(* clients that are gone left in the one of requests to bitcoind, which is   *)
(* then too high, never too low.                                             *)
THEOREM CountersCorrect == Spec => []CountersAreExact
<1>1. IInv => CountersAreExact
  <2> SUFFICES ASSUME IInv PROVE CountersAreExact
    OBVIOUS
  <2>1. Counts /\ IsFiniteSet(Reqs)
    BY BDAssumption DEF IInv
  <2>2. Outstanding \subseteq Reqs /\ Outstanding \ LeftBehind \subseteq Outstanding
    BY DEF Outstanding
  <2>3. IsFiniteSet(Outstanding)
    BY <2>1, <2>2, FS_Subset
  <2>4. /\ Cardinality(Outstanding \ LeftBehind) \in Nat /\ Cardinality(Outstanding) \in Nat
        /\ Cardinality(Outstanding \ LeftBehind) <= Cardinality(Outstanding)
    BY <2>2, <2>3, FS_Subset, FS_CardinalityType
  <2> QED BY <2>1, <2>4 DEF Counts, CountersAreExact
<1> QED BY <1>1, Invariance, PTL

(* Neither a client that is not read from nor a batch that is not queued     *)
(* waits for something that is not going to happen.                          *)
THEOREM WakeCorrect == Spec => []WaitersWillBeWoken
<1>1. IInv => WaitersWillBeWoken
  BY DEF IInv
<1> QED BY <1>1, Invariance, PTL
=============================================================================
