------------------------------ MODULE GeeCache ------------------------------
(***************************************************************************)
(* gee-cache/day7-proto-buf/geecache: a cluster of nodes that serve one    *)
(* group.  Group.Get looks in the node's main cache and otherwise loads    *)
(* the key through the node's singleflight group, whose fn asks the peer   *)
(* that owns the key, over HTTP, and falls back on the user's getter.      *)
(*                                                                         *)
(* A client's goroutine and the goroutine that serves a peer's request run *)
(* the same Get.  The singleflight groups of all nodes are one instance of *)
(* Coalesce, which SingleFlight implements, over <<node, key>> pairs: its  *)
(* actions are used here, extended with what the cache does in the step.   *)
(*                                                                         *)
(* Entries have unit size here: Capacity is the store's budget in entries  *)
(* (module LRU counts the bytes).                                          *)
(***************************************************************************)
EXTENDS Integers, Sequences, SequencesExt, FiniteSets

CONSTANTS
    Nodes, Keys,
    Clients,      \* goroutines of API requests; each does one Get
    Handlers,     \* goroutines a node's HTTP server runs for its peers
    Capacity,     \* entries a store holds, 0 for unbounded
    PeerLists,    \* what Set may be called with: sequences of nodes
    Replicas,     \* virtual nodes of each node
    Hash,         \* of the virtual nodes <<i, node>> and of the keys
    Wire,         \* the key a peer sees: path-unescaped (QueryEscape(key))
    Volatile,     \* bounds: the keys whose value in the source changes,
    MaxVersion,   \* and how often; requests whose client is gone,
    MaxAbandoned, \* at one time
    Peer, NoAnswer, Nobody, NoKey, NoFlight, NoRing

Procs == Clients \cup Handlers
Value == [key : Keys, ver : 0 .. MaxVersion]
\* The error of the getter for a key, or of the request to a peer.
Errors == [error : Keys \cup {Peer}]

ASSUME PeersAssumption ==
    PeerLists \subseteq Seq(Nodes) \ {<< >>} /\ Replicas \in Nat \ {0}
ASSUME BoundsAssumption == Capacity \in Nat /\ MaxVersion \in Nat
ASSUME HashAssumption == Hash \in [(0 .. Replicas - 1) \X Nodes \cup Keys -> Nat]
\* Wire makes a plus of every space and keeps the rest.
ASSUME WireAssumption ==
    Wire \in [Keys -> Keys] /\ \A k \in Keys : Wire[Wire[k]] = Wire[k]
ASSUME AnswerAssumption == Peer \notin Keys /\ NoAnswer \notin Value \cup Errors
ASSUME EmptyAssumption ==
    NoKey \notin Nodes \X Keys /\ NoFlight \notin Value \cup Errors \cup {NoAnswer}
ASSUME ProcsAssumption == Clients \cap Handlers = {} /\ Nobody \notin Procs

VARIABLES
    db,          \* the data source behind the getter: current version per key
    store,       \* mainCache of each node, most recently used entry first
    ring,        \* HTTPPool.peers of each node, as the owner of each key
    at,          \* where each goroutine is
    want,        \* the <<node, key>> it was asked for
    from,        \* the goroutine waiting for a handler's answer
    ans,         \* the answer of its Get
    read,        \* what the getter returned to it
    disagreed,   \* history: two nodes have had different owners for a key
    flight, on, leading, out   \* the nodes' singleflight groups (Coalesce)

sfVars == <<flight, on, leading, out>>
ownVars == <<db, store, ring, at, want, from, ans, read, disagreed>>
ownVarsButAt == <<db, store, ring, want, from, ans, read, disagreed>>
vars == <<db, store, ring, at, want, from, ans, read, disagreed,
          flight, on, leading, out>>

CH == INSTANCE ConsistentHash

SF == INSTANCE Coalesce WITH
        Callers <- Procs, Keys <- Nodes \X Keys, Results <- Value \cup Errors,
        NoResult <- NoAnswer, MayPanic <- FALSE

NodeOf(p) == want[p][1]
KeyOf(p)  == want[p][2]
Owner(n, k) == ring[n][k]

\* The store as a sequence of entries: lookup, refresh, insertion.
Cached(n, k) == \E i \in DOMAIN store[n] : store[n][i].key = k
Pos(n, k) == CHOOSE i \in DOMAIN store[n] : store[n][i].key = k
EntryOf(n, k) == store[n][Pos(n, k)]
Others(n, k) == IF Cached(n, k) THEN RemoveAt(store[n], Pos(n, k)) ELSE store[n]
\* Mutant: one entry too many.
Fitting_OffByOne(s) == IF Capacity = 0 \/ Len(s) <= Capacity + 1
                       THEN s ELSE SubSeq(s, 1, Capacity + 1)
Fitting(s) == IF Capacity = 0 \/ Len(s) <= Capacity
              THEN s ELSE SubSeq(s, 1, Capacity)
Touched(n, e) == Fitting(<<e>> \o Others(n, e.key))

-----------------------------------------------------------------------------
Init ==
    /\ db = [k \in Keys |-> 0]
    /\ store = [n \in Nodes |-> << >>]
    /\ ring = [n \in Nodes |-> NoRing]
    /\ at = [p \in Procs |-> "free"]
    /\ want = [p \in Procs |-> NoKey]
    /\ from = [q \in Handlers |-> Nobody]
    /\ ans = [p \in Procs |-> NoAnswer]
    /\ read = [p \in Procs |-> NoAnswer]
    /\ disagreed = FALSE
    /\ SF!Init

\* Goroutine p moves from a to b.
Move(p, a, b) == at[p] = a /\ at' = [at EXCEPT ![p] = b]

-----------------------------------------------------------------------------
(* The world around the nodes *)

\* Somebody updates the data behind the getter.
SourceUpdate(k) ==
    /\ k \in Volatile /\ db[k] < MaxVersion
    /\ db' = [db EXCEPT ![k] = @ + 1]
    /\ UNCHANGED <<store, ring, at, want, from, ans, read, disagreed, sfVars>>

\* NewHTTPPool has no ring: RegisterPeers has not been called, and the HTTP
\* server is not up.
Registered(n) == ring[n] # NoRing

\* HTTPPool.Set: a new ring.
NewRing == [l \in PeerLists |->
    LET m == CH!Add(CH!New(Replicas, Hash), l) IN [k \in Keys |-> CH!Get(m, k)]]
Installs(n, l) ==
    /\ ring' = [ring EXCEPT ![n] = NewRing[l]]
    /\ disagreed' = (disagreed \/ \E o \in Nodes \ {n} :
                        Registered(o) /\ ring[o] # ring'[n])

\* startCacheServer: peers.Set, RegisterPeers, then ListenAndServe.
RegisterPeers(n, l) ==
    /\ ~Registered(n)
    /\ Installs(n, l)
    /\ UNCHANGED <<db, store, at, want, from, ans, read, sfVars>>

\* Set again, with another list of peers, under p.mu.
Set(n, l) ==
    /\ Registered(n)
    /\ ring[n] # NewRing[l]
    /\ Installs(n, l)
    /\ UNCHANGED <<db, store, at, want, from, ans, read, sfVars>>

\* A client asks node n for key k.
ApiGet(c, n, k) ==
    /\ Move(c, "free", "lookup")
    /\ want' = [want EXCEPT ![c] = <<n, k>>]
    /\ UNCHANGED <<db, store, ring, from, ans, read, disagreed, sfVars>>

-----------------------------------------------------------------------------
(* Group.Get *)

\* mainCache.get finds the key and makes it the most recent.  Keys are never
\* empty: Get refuses an empty one before it looks.
Hit(p) ==
    LET n == NodeOf(p)
        e == EntryOf(n, KeyOf(p)) IN
    /\ Move(p, "lookup", "answer")
    /\ Cached(n, KeyOf(p))
    /\ store' = [store EXCEPT ![n] = Touched(n, e)]
    /\ ans' = [ans EXCEPT ![p] = e.value]
    /\ UNCHANGED <<db, ring, want, from, read, disagreed, sfVars>>

\* mainCache.get misses, and load is on its way to loader.Do.
Miss(p) ==
    /\ Move(p, "lookup", "load")
    /\ ~Cached(NodeOf(p), KeyOf(p))
    /\ UNCHANGED <<ownVarsButAt, sfVars>>

\* Do, where this goroutine is the first: it runs load's closure.
Lead(p) ==
    /\ Move(p, "load", "pick")
    /\ SF!Lead(p, want[p])
    /\ UNCHANGED ownVarsButAt

\* Do, where another is loading the key on this node: wait.
Join(p) ==
    /\ Move(p, "load", "do")
    /\ SF!Join(p, want[p])
    /\ UNCHANGED ownVarsButAt

\* Do after the closure: the entry is deleted.
Close(p) ==
    /\ at[p] = "do"
    /\ SF!Close(p)
    /\ UNCHANGED ownVars

\* Do returns to load, and load to Get's caller.
DoReturns(p) ==
    /\ Move(p, "do", "answer")
    /\ SF!Leave(p)
    /\ ans' = [ans EXCEPT ![p] = out[p]]
    /\ UNCHANGED <<db, store, ring, want, from, read, disagreed>>

-----------------------------------------------------------------------------
(* load's closure *)

\* Mutant: a node is its own peer.
IsRemote_NoSelfCheck(n, k) == Registered(n)

\* PickPeer names another node.
IsRemote(n, k) == Registered(n) /\ Owner(n, k) # n

\* No peers yet, or this node owns the key.
PickSelf(p) ==
    /\ Move(p, "pick", "getter")
    /\ ~IsRemote(NodeOf(p), KeyOf(p))
    /\ UNCHANGED <<ownVarsButAt, sfVars>>

\* PickPeer and the request: a goroutine of the owner's server takes it.  The
\* key went through QueryEscape and comes back as a path: Wire[k].
PickPeer(p, q) ==
    LET n == NodeOf(p)
        k == KeyOf(p) IN
    /\ at[p] = "pick" /\ at[q] = "free"
    /\ IsRemote(n, k)
    /\ Registered(Owner(n, k))
    /\ at' = [at EXCEPT ![p] = "remote", ![q] = "lookup"]
    /\ want' = [want EXCEPT ![q] = <<Owner(n, k), Wire[k]>>]
    /\ from' = [from EXCEPT ![q] = p]
    /\ UNCHANGED <<db, store, ring, ans, read, disagreed, sfVars>>

\* The connection is refused: the owner's server is not up.
PeerDown(p) ==
    /\ Move(p, "pick", "getter")
    /\ IsRemote(NodeOf(p), KeyOf(p))
    /\ ~Registered(Owner(NodeOf(p), KeyOf(p)))
    /\ UNCHANGED <<ownVarsButAt, sfVars>>

Abandoned == {q \in Handlers : at[q] # "free" /\ from[q] = Nobody}

\* Mutant: a peer's failure is the load's.
PeerBreaks_NoFallback(p, q) ==
    /\ Cardinality(Abandoned) < MaxAbandoned
    /\ from[q] = p
    /\ Move(p, "remote", "do")
    /\ SF!Land(p, [error |-> Peer])
    /\ from' = [from EXCEPT ![q] = Nobody]
    /\ UNCHANGED <<db, store, ring, want, ans, read, disagreed>>

\* The connection breaks while the peer works: the request fails here, and the
\* goroutine over there goes on.  (http.Get has no timeout: otherwise it waits.)
PeerBreaks(p, q) ==
    /\ Cardinality(Abandoned) < MaxAbandoned
    /\ from[q] = p
    /\ Move(p, "remote", "getter")
    /\ from' = [from EXCEPT ![q] = Nobody]
    /\ UNCHANGED <<db, store, ring, want, ans, read, disagreed, sfVars>>

\* The goroutine of a peer request ends; the others move as in a.
Done(q, a) ==
    /\ at' = [a EXCEPT ![q] = "free"]
    /\ from' = [from EXCEPT ![q] = Nobody]
    /\ want' = [want EXCEPT ![q] = NoKey]
    /\ ans' = [ans EXCEPT ![q] = NoAnswer]

\* The peer's ServeHTTP answers 200: getFromPeer returns its value, which is
\* not added to this node's store.
PeerAnswers(p, q) ==
    /\ from[q] = p /\ at[p] = "remote" /\ at[q] = "answer"
    /\ ans[q] \in Value
    /\ Done(q, [at EXCEPT ![p] = "do"])
    /\ SF!Land(p, ans[q])
    /\ UNCHANGED <<db, store, ring, read, disagreed>>

\* It answers 500: load logs the error and falls back on the getter.
PeerAnswersError(p, q) ==
    /\ from[q] = p /\ at[p] = "remote" /\ at[q] = "answer"
    /\ ans[q] \in Errors
    /\ Done(q, [at EXCEPT ![p] = "getter"])
    /\ UNCHANGED <<db, store, ring, read, disagreed, sfVars>>

\* Nobody reads the answer any more.
AnswerLost(q) ==
    /\ from[q] = Nobody /\ at[q] = "answer"
    /\ Done(q, at)
    /\ UNCHANGED <<db, store, ring, read, disagreed, sfVars>>

\* getLocally: the user's getter reads the source ...
GetterReturns(p) ==
    /\ Move(p, "getter", "fill")
    /\ read' = [read EXCEPT ![p] = [key |-> KeyOf(p), ver |-> db[KeyOf(p)]]]
    /\ UNCHANGED <<db, store, ring, want, from, ans, disagreed, sfVars>>

\* ... or fails, and so does the load.
GetterFails(p) ==
    /\ Move(p, "getter", "do")
    /\ SF!Land(p, [error |-> KeyOf(p)])
    /\ UNCHANGED <<db, store, ring, want, from, ans, read, disagreed>>

\* populateCache ...
Fill(p) ==
    LET n == NodeOf(p) IN
    /\ Move(p, "fill", "land")
    /\ store' = [store EXCEPT ![n] =
                     Touched(n, [key |-> KeyOf(p), value |-> read[p]])]
    /\ UNCHANGED <<db, ring, want, from, ans, read, disagreed, sfVars>>

\* ... and the closure returns to Do.
LoadReturns(p) ==
    /\ Move(p, "land", "do")
    /\ SF!Land(p, read[p])
    /\ read' = [read EXCEPT ![p] = NoAnswer]
    /\ UNCHANGED <<db, store, ring, want, from, ans, disagreed>>

-----------------------------------------------------------------------------
\* What goroutine p does by itself.
Step(p) ==
    \/ Hit(p) \/ Miss(p)
    \/ Lead(p) \/ Join(p) \/ Close(p) \/ DoReturns(p)
    \/ PickSelf(p) \/ PeerDown(p)
    \/ \E q \in Handlers : PickPeer(p, q)
    \/ GetterReturns(p) \/ Fill(p) \/ LoadReturns(p)

\* What the goroutine of a peer request does once it has its answer.
Reply(q) ==
    \/ \E p \in Procs : PeerAnswers(p, q) \/ PeerAnswersError(p, q)
    \/ AnswerLost(q)

\* What happens to the nodes from outside.
Environment ==
    \/ \E k \in Keys : SourceUpdate(k)
    \/ \E n \in Nodes, l \in PeerLists : RegisterPeers(n, l) \/ Set(n, l)
    \/ \E c \in Clients, n \in Nodes, k \in Keys : ApiGet(c, n, k)
    \/ \E p \in Procs, q \in Handlers : PeerBreaks(p, q)
    \/ \E p \in Procs : GetterFails(p)

Next ==
    \/ \E p \in Procs : Step(p)
    \/ \E q \in Handlers : Reply(q)
    \/ Environment

Spec == Init /\ [][Next]_vars

-----------------------------------------------------------------------------
(* Properties *)

Entry == [key : Keys, value : Value]
At == {"free", "lookup", "load", "do", "pick", "remote", "getter", "fill", "land", "answer"}

TypeOK ==
    /\ db \in [Keys -> 0 .. MaxVersion]
    /\ store \in [Nodes -> Seq(Entry)]
    /\ \A n \in Nodes :
          /\ Capacity # 0 => Len(store[n]) <= Capacity
          /\ \A i, j \in DOMAIN store[n] : store[n][i].key = store[n][j].key => i = j
    /\ ring \in [Nodes -> {NewRing[l] : l \in PeerLists} \cup {NoRing}]
    /\ at \in [Procs -> At]
    /\ want \in [Procs -> (Nodes \X Keys) \cup {NoKey}]
    /\ from \in [Handlers -> Procs \cup {Nobody}]
    /\ ans \in [Procs -> Value \cup Errors \cup {NoAnswer}]
    /\ read \in [Procs -> Value \cup {NoAnswer}]
    /\ disagreed \in BOOLEAN

\* The key a Get for k may be answered for: its own or, when a peer was asked,
\* the key the peer saw.
Seen(k) == {k, Wire[k]}

\* Whatever goroutines and peers an answer came through, it is a value of the
\* key asked for, up to the escaping of the key in the peer's URL, or else the
\* getter's error for that key: peers that are down, break off or answer 500
\* are made up for by the local getter.
AnswersOwnKey ==
    /\ \A p \in Procs :
          /\ ans[p] \in Value => ans[p].key \in Seen(KeyOf(p))
          /\ ans[p] \in Errors => ans[p].error = KeyOf(p)
    /\ \A n \in Nodes : \A e \in ToSet(store[n]) : e.value.key = e.key

\* "PeerGetter answers how to get the given group/key from that node"
\* (gee-cache/doc/geecache-day5.md:362): an answer is a value of its key.
OwnKey == \A p \in Procs : ans[p] \in Value => ans[p].key = KeyOf(p)

\* The loads of a key on a node are one after the other, so a slow load never
\* overwrites what a later one has put in the cache.
NeverFillsOlder ==
    [][\A n \in Nodes : \A e \in ToSet(store[n]), f \in ToSet(store'[n]) :
          e.key = f.key => e.value.ver <= f.value.ver]_store

\* q is what p waits for: the leader of the flight p is on, or the goroutine
\* that serves the request p sent to a peer.
WaitsFor(p, q) ==
    \/ /\ p \notin leading /\ on[p] # NoKey /\ out[p] = NoAnswer
       /\ q \in leading /\ on[q] = on[p]
    \/ q \in Handlers /\ from[q] = p

\* Goroutines wait for one another in a circle, across nodes, only if two nodes
\* have disagreed on the owner of a key.
NoWaitCycle ==
    disagreed \/
    \A S \in (SUBSET Procs) \ {{}} :
        \E p \in S : \A q \in S : ~WaitsFor(p, q)
=============================================================================
