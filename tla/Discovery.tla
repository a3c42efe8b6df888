------------------------------ MODULE Discovery -----------------------------
(***************************************************************************)
(* gee-rpc/day7-registry: the registry (registry/registry.go), the servers *)
(* that register by heartbeats, and a client's GeeRegistryDiscovery        *)
(* (xclient/discovery_gee.go over discovery.go), which caches the list.    *)
(*                                                                         *)
(* Time is a clock that ticks.  A heartbeat reaches the registry at most   *)
(* Delay after the ticker's time, its own travel included; Get and GetAll  *)
(* take as long as they take.  Refresh holds the lock of the discovery     *)
(* while its request is out, and Get takes the lock a second time for the  *)
(* selection.  The registry lists its servers when it answers, and the     *)
(* client dates the list when the answer has come: http.Get has no         *)
(* timeout, so nothing bounds the time in between.                         *)
(***************************************************************************)
EXTENDS Integers, FiniteSets

CONSTANTS
    Servers,        \* that send heartbeats
    Static,         \* that only a user's Update names
    Getters,        \* goroutines that call Get and GetAll
    Timeout,        \* of the registry, 0 for never
    Interval,       \* between two heartbeats of a server
    Delay,          \* how late a heartbeat may arrive
    UpdateTimeout,  \* of the discovery
    MaxTime         \* bound of the clock

Addresses == Servers \cup Static
None == -1

ASSUME AddressAssumption == Addresses \subseteq Nat /\ Servers \cap Static = {}
                            /\ IsFiniteSet(Addresses)
ASSUME TimeAssumption ==
    /\ {Timeout, Delay, MaxTime} \subseteq Nat
    /\ {Interval, UpdateTimeout} \subseteq Nat \ {0}
ASSUME PromptAssumption == Timeout = 0 \/ Interval + Delay < Timeout
ASSUME GettersAssumption == None \notin Getters

VARIABLES
    now,         \* the clock
    start,       \* the registry: when each address was last put, None if absent
    up,          \* the registry answers
    living,      \* the servers whose process runs
    beating,     \* the Heartbeat goroutine of each server runs
    due,         \* when its ticker fires next, 0 if the goroutine has ended
    list,        \* the discovery: d.servers, kept sorted
    index,       \* d.index
    lastUpdate,  \* d.lastUpdate
    mu,          \* the getter whose Refresh holds d.mu over its request
    pc,          \* where each getter is
    answer,      \* the registry's answer to the GET, on its way
    travel,      \* history: how long the answer that is `list` was on its way
    asked,       \* history: when the Refresh of a getter returned, then 0
    seen,        \* history: when each server was last put
    missed       \* history: servers whose last heartbeat did not get through

registryVars == <<start, up, seen, missed>>
serverVars == <<living, beating, due>>
listVars == <<list, index, lastUpdate, travel>>
getVars == <<mu, pc, answer, asked>>
vars == <<now, start, up, living, beating, due, list, index, lastUpdate, mu, pc,
          answer, travel, asked, seen, missed>>

NoAnswer == [servers |-> {}, at |-> 0]

Init ==
    /\ now = 0
    /\ start = [s \in Servers |-> None]
    /\ up = TRUE
    /\ living = {}
    /\ beating = [s \in Servers |-> FALSE]
    /\ due = [s \in Servers |-> 0]
    /\ list = {}
    /\ index \in 0 .. 1
    /\ lastUpdate = -UpdateTimeout  \* the zero time: long ago
    /\ mu = None
    /\ pc = [g \in Getters |-> "idle"]
    /\ answer = NoAnswer
    /\ travel = 0
    /\ asked = [g \in Getters |-> 0]
    /\ seen = [s \in Servers |-> None]
    /\ missed = {}

-----------------------------------------------------------------------------
(* The registry *)

\* putServer, in time `now`: a known server is renewed.
\* Mutant: only a new server gets the time.
Renewed_Kept(s) == IF start[s] = None THEN now ELSE start[s]
Renewed(s) == now

\* aliveServers: what is too old is deleted.
Alive(s) == start[s] # None /\ (Timeout = 0 \/ start[s] + Timeout > now)

\* Mutant: what is too old is listed a last time.
Listed_Known == {s \in Servers : start[s] # None}
Listed == {s \in Servers : Alive(s)}

RegistryCrashes ==
    /\ up
    /\ up' = FALSE
    /\ start' = [s \in Servers |-> None]
    /\ missed' = Servers
    /\ UNCHANGED <<now, seen, serverVars, listVars, getVars>>

RegistryRestarts ==
    /\ ~up
    /\ up' = TRUE
    /\ UNCHANGED <<now, start, seen, missed, serverVars, listVars, getVars>>

-----------------------------------------------------------------------------
(* Heartbeat *)

Arrives(s) ==
    /\ up
    /\ start' = [start EXCEPT ![s] = Renewed(s)]
    /\ seen' = [seen EXCEPT ![s] = now]
    /\ missed' = missed \ {s}

\* Somebody else answers, an error perhaps: sendHeartbeat does not look.
Swallowed(s) ==
    /\ missed' = missed \cup {s}
    /\ UNCHANGED <<start, seen>>

\* sendHeartbeat, and the loop that goes on only without an error, which may
\* also meet the answer to a heartbeat that arrived.  The ticker fires again
\* at `next`.
Send(s, next) ==
    /\ Arrives(s) \/ Swallowed(s)
    /\ \/ /\ beating' = [beating EXCEPT ![s] = TRUE]
          /\ due' = [due EXCEPT ![s] = next]
       \/ /\ beating' = [beating EXCEPT ![s] = FALSE]
          /\ due' = [due EXCEPT ![s] = 0]
    /\ UNCHANGED <<now, up, listVars, getVars>>

\* A process starts and calls Heartbeat, which sends the first one at once.
StartServer(s) ==
    /\ s \notin living
    /\ living' = living \cup {s}
    /\ Send(s, now + Interval)

Tick(s) ==
    /\ beating[s]
    /\ now >= due[s]
    /\ Send(s, due[s] + Interval)
    /\ UNCHANGED living

ServerDies(s) ==
    /\ s \in living
    /\ living' = living \ {s}
    /\ beating' = [beating EXCEPT ![s] = FALSE]
    /\ due' = [due EXCEPT ![s] = 0]
    /\ UNCHANGED <<now, registryVars, listVars, getVars>>

\* The clock goes on unless a heartbeat would be later than Delay.
Clock ==
    /\ now < MaxTime
    /\ \A s \in Servers : beating[s] => now < due[s] + Delay
    /\ now' = now + 1
    /\ UNCHANGED <<registryVars, serverVars, listVars, getVars>>

-----------------------------------------------------------------------------
(* GeeRegistryDiscovery *)

Fresh == lastUpdate + UpdateTimeout > now

Update(servers) ==
    /\ mu = None
    /\ list' = servers
    /\ lastUpdate' = now
    /\ travel' = 0
    /\ UNCHANGED <<now, registryVars, serverVars, index, getVars>>

\* Refresh returns at once: the list is new enough.
RefreshNot(g) ==
    /\ mu = None
    /\ pc[g] = "idle"
    /\ Fresh
    /\ pc' = [pc EXCEPT ![g] = "select"]
    /\ asked' = [asked EXCEPT ![g] = now]
    /\ UNCHANGED <<now, registryVars, serverVars, listVars, mu, answer>>

\* http.Get, with d.mu held and without a timeout.
RefreshStart(g) ==
    /\ mu = None
    /\ pc[g] = "idle"
    /\ ~Fresh
    /\ mu' = g
    /\ pc' = [pc EXCEPT ![g] = "fetch"]
    /\ UNCHANGED <<now, registryVars, serverVars, listVars, answer, asked>>

\* The registry answers the GET: aliveServers.
RegistryAnswers(g) ==
    /\ up
    /\ pc[g] = "fetch"
    /\ pc' = [pc EXCEPT ![g] = "receive"]
    /\ answer' = [servers |-> Listed, at |-> now]
    /\ start' = [s \in Servers |-> IF Alive(s) THEN start[s] ELSE None]
    /\ UNCHANGED <<now, up, seen, missed, serverVars, listVars, mu, asked>>

\* http.Get returns: the client takes the list, and dates it, now.
Fetched(g, servers, age) ==
    /\ list' = servers
    /\ lastUpdate' = now
    /\ travel' = age
    /\ mu' = None
    /\ pc' = [pc EXCEPT ![g] = "select"]
    /\ answer' = NoAnswer
    /\ asked' = [asked EXCEPT ![g] = now]
    /\ UNCHANGED <<now, registryVars, serverVars, index>>

\* The registry's answer has come.
RefreshEnds(g) ==
    /\ pc[g] = "receive"
    /\ Fetched(g, answer.servers, now - answer.at)

\* Another answer, an error page: it lacks the header, and the status is not
\* looked at, so the list is empty.
RefreshPage(g) ==
    /\ pc[g] = "fetch"
    /\ Fetched(g, {}, 0)

\* Mutant: Unlock is not deferred, and an error skips it.
Released_Kept == mu
Released == None

RefreshFails(g) ==
    /\ pc[g] \in {"fetch", "receive"}
    /\ mu' = Released
    /\ pc' = [pc EXCEPT ![g] = "idle"]
    /\ answer' = NoAnswer
    /\ UNCHANGED <<now, registryVars, serverVars, listVars, asked>>

\* MultiServersDiscovery.Get and GetAll, on a list that may have been
\* replaced since: an error if it is empty, any server, the one whose turn it
\* is, or all of them.  Only the turn leaves a trace.
Select(g) ==
    /\ pc[g] = "select" /\ mu = None
    /\ pc' = [pc EXCEPT ![g] = "idle"]
    /\ asked' = [asked EXCEPT ![g] = 0]
    /\ \/ UNCHANGED index
       \/ list # {} /\ index' = (index + 1) % Cardinality(list)
    /\ UNCHANGED <<now, registryVars, serverVars, list, lastUpdate, travel, mu,
                   answer>>

-----------------------------------------------------------------------------
Finish(g) ==
    RefreshEnds(g) \/ RefreshPage(g) \/ RefreshFails(g) \/ Select(g)

Next ==
    \/ Clock \/ RegistryCrashes \/ RegistryRestarts
    \/ \E s \in Servers : StartServer(s) \/ Tick(s) \/ ServerDies(s)
    \/ Update(Static)
    \/ \E g \in Getters : RefreshNot(g) \/ RefreshStart(g) \/ RegistryAnswers(g)
                           \/ Finish(g)

Spec == Init /\ [][Next]_vars

\* Goroutines run, d.mu is fair, and http.Get ends, one way or another.
FairSpec == Spec /\ \A g \in Getters : SF_vars(Finish(g))

-----------------------------------------------------------------------------
(* Properties *)

\* Every variable stays in its range; only the getter whose request is out
\* holds the lock, and the round robin index never leaves the numbers.
TypeOK ==
    /\ now \in 0 .. MaxTime
    /\ start \in [Servers -> Nat \cup {None}]
    /\ seen \in [Servers -> Nat \cup {None}]
    /\ up \in BOOLEAN
    /\ living \subseteq Servers
    /\ beating \in [Servers -> BOOLEAN]
    /\ due \in [Servers -> Nat]
    /\ list \subseteq Addresses
    /\ index \in Nat
    /\ lastUpdate \in Nat \cup {-UpdateTimeout}
    /\ mu \in Getters \cup {None}
    /\ pc \in [Getters -> {"idle", "fetch", "receive", "select"}]
    /\ answer \in [servers : SUBSET Servers, at : Nat]
    /\ travel \in Nat
    /\ asked \in [Getters -> Nat]
    /\ missed \subseteq Servers
    /\ \A g \in Getters : pc[g] \in {"fetch", "receive"} <=> mu = g
    /\ \A s \in Servers : beating[s] => s \in living

\* A server that sends in time is not expired: from a heartbeat that arrived
\* until one that does not, or until the registry crashes, aliveServers lists
\* it at every moment, heartbeats that come as late as they may included.
PromptServerStays ==
    \A s \in Servers : beating[s] /\ s \notin missed => Alive(s)

\* Two caches and an answer on its way, one bound: a server that Get or GetAll
\* can name was put into the registry less than both timeouts, and the time the
\* list was on its way, before the Refresh of that call returned, in whatever
\* order getters, Update, crashes and expiry interleave.  The travel is part of
\* the bound: the list is dated when it has come, and http.Get has no timeout,
\* so the two timeouts by themselves bound nothing.
FreshChoice ==
    \A g \in Getters : \A s \in list \cap Servers : pc[g] = "select" =>
        /\ seen[s] # None
        /\ Timeout # 0 => seen[s] + Timeout + travel + UpdateTimeout > asked[g]

\* A Get or GetAll that has started ends, also when the request of another
\* one, for which it waits, fails.
EveryGetEnds ==
    \A g \in Getters : pc[g] # "idle" ~> pc[g] = "idle"
=============================================================================
