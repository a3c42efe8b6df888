# 7days-golang in TLA+

Specifications, model-checking configurations and machine-checked proofs for
the programs of this repository. Each program (`gee-web`, `gee-cache`,
`gee-orm`, `gee-rpc`, `gee-bolt`) is kept in the repository as a series of
snapshots, one per "day"; the later day contains the earlier ones, so a module
here models the **last** snapshot of a component and names its lines.

## 1. The system and its parts

| Component | Source | State it keeps | Operations | Interacts with |
|---|---|---|---|---|
| singleflight | `gee-cache/day7-proto-buf/geecache/singleflight` | map key -> call in flight; call = WaitGroup, value, error | `Do` | called by `Group.load`, runs its loader callback outside the lock |
| LRU store | `geecache/lru`, `geecache/cache.go` | list in recency order, index, byte count | `Add`, `Get`, `RemoveOldest`, `Len` | behind a mutex in `cache`, called by `Group` |
| consistent hash | `geecache/consistenthash` | sorted hashes, hash -> peer | `Add`, `Get` | rebuilt by `HTTPPool.Set`, read by `PickPeer` |
| cache group and peers | `geecache/geecache.go`, `geecache/http.go` | main cache, peers, loader per node | `Get`, `load`, `getFromPeer`, `getLocally`, `RegisterPeers`, `Set`, `PickPeer`, `ServeHTTP` | calls the user's getter and other nodes over HTTP, which call `Get` there |
| RPC client | `gee-rpc/day7-registry/client.go` | sequence number, pending calls, closing, shutdown, two mutexes | `Go`, `Call`, `send`, `receive`, `terminateCalls`, `Close`, `dialTimeout` | shares the connection with the codec; completes calls through channels |
| RPC codec | `codec/*.go` | buffered writer, gob streams | `Write`, `ReadHeader`, `ReadBody`, `Close` | both ends of a connection |
| RPC server | `server.go`, `service.go` | service map, per-connection `sending` mutex and WaitGroup | `ServeConn`, `serveCodec`, `readRequest`, `handleRequest`, `sendResponse`, `Register` | one goroutine per request plus one for the method call |
| registry, discovery | `registry/`, `xclient/discovery*.go` | servers with their last heartbeat; the client's copy with its time | `putServer`, `aliveServers`, `Heartbeat`, `Refresh`, `Get`, `GetAll`, `Update` | HTTP GET and POST |
| XClient | `xclient/xclient.go` | cached clients per address | `Call`, `Broadcast`, `Close` | discovery, RPC client |
| ORM session and clauses | `gee-orm/day7-migrate` | SQL text and variables, clause fragments, current table, transaction | `Raw`, `Exec`, `Clear`, `Insert`, `Find`, `Update`, `Delete`, `Count`, `Begin`, `Commit`, `Rollback`, `Transaction`, `Migrate`, hooks | `database/sql` |
| web router and context | `gee-web/day7-panic-recover/gee` | per-method trie, handlers, per-request handler index | `addRoute`, `getRoute`, `Next`, `Use`, `Recovery` | `net/http` |
| B+ tree database | `gee-bolt/day2-mmap`, `day3-tree` | mmap of the file, nodes of sorted keys | `Open`, `mmap`, `Sync`, `Close`, `put`, `del`, `index` | the file system |
| WASM demos, documentation site | `demo-wasm`, `tools`, `docs` | none of interest | | |

### What is hard, and what makes each part correct

* **singleflight.** Concurrent callers, a callback run outside the lock, a
  result handed over through a WaitGroup. One execution per key at a time;
  every duplicate gets the result of the call it joined; nothing outlives the
  original; every `Do` returns unless the callback panicked.
* **LRU.** The list, the index and the byte count must agree after every
  operation; eviction takes the least recently used entry and no more entries
  than it must; `Add` ends.
* **cache group.** The miss and the `Do` are two critical sections, so two
  concurrent callers can both load; a node's answer comes from another node
  whose goroutine is a caller of that node's singleflight, so a waiting cycle
  across nodes is possible when the nodes disagree on a key's owner; a failed
  peer falls back on the local getter; `RegisterPeers` runs beside requests.
* **RPC client.** Two locks, a reader goroutine, callers that give up, a
  connection that breaks between registering a call and writing it. Every
  call is completed once and only once, with its own reply; none is lost when
  the connection breaks; nothing is registered after shutdown.
* **RPC server.** Concurrent handlers share a connection; a timeout races a
  late answer; the request stream must stay in step with the decoder. One
  response per request, whole messages on the wire, the connection closed
  only after its handlers ended.
* **registry and discovery.** Heartbeats race expiry; a client's list may be
  stale or emptied; a dead server is dropped in time and a prompt one is not;
  a failed refresh does not keep its lock.
* **XClient.** Dials that give up while the client is being made, clients that
  break between two uses, calls that cancel one another: no connection leaks,
  and a broadcast's outcome is that of its calls.
* **ORM.** A session is a mutable builder that hooks can re-enter; a
  transaction must be committed or rolled back once, whatever the callback
  does; a failed migration must leave the old table.
* **router, context.** Insertion order of static and wildcard routes must not
  change what a path matches; each middleware runs once; a panic becomes one
  response.
* **bolt.** The pairs of a node stay in order, each key once, whatever `put` and
  `del` do.

## 2. Plan

The order is that of the risk: what runs concurrently, over a network, or
survives a failure half done comes first.

| Step | Modules | What they say | State |
|---|---|---|---|
| 1 | `Coalesce`, `SingleFlight`, `SingleFlight_proof` | `Do` at the grain of its critical sections; what callers may rely on; proofs, the refinement included, for any number of goroutines | done |
| 2 | `LRU`, `Sequential_proof` | the byte-bounded store, its eviction loop turn by turn; proofs for stores of any length | done |
| 3 | `ConsistentHash` | the ring as a value, with hashes that may collide; proofs in `GeeCache_proof` | done |
| 4 | `GeeCache`, `GeeCache_proof` | nodes, peers and clients, built on `Coalesce` and `ConsistentHash`; proofs for any number of each | done, but for the table of groups |
| 5 | `Answering`, `RpcClient`, `RpcClient_proof` | what a client promises its callers, and the client on one connection that keeps it; proofs, the refinement included, for any number of calls | done |
| 6 | `Exchange`, `RpcServer`, `RpcServer_proof` | what a server promises on one connection, and the server that keeps it; proofs, the refinement included, for any number of requests | done, but for the HTTP upgrade |
| 7 | `Discovery`, `Discovery_proof` | heartbeats, expiry and the client's copy of the list on one clock; proofs for any timeouts | done |
| 8 | `XClient`, `XClient_proof` | clients cached per address, dialling with a timeout, `Broadcast`; proofs for any number of each | done |
| 9 | `Orm`, `Orm_proof` | a session a hook can re-enter, transactions, a migration of several statements; proofs for any tables and number of statements | done |
| 10 | `Router`, `Web`, `Sequential_proof` | the trie against matching by definition; a chain of handlers that call `Next`, fail or panic; proofs for any routes, paths and chains | done |
| 11 | `BoltNode`, `Sequential_proof` | the pairs of a tree node | done |

A component that uses another uses what that one was shown to promise:
`GeeCache` takes its singleflight groups from `Coalesce` and its rings from
`ConsistentHash`, `Web` its routes from `Router`, and `XClient` lets a call on a
client end only as `Answering` allows; `SingleFlight`, `RpcServer` and `RpcClient`
are shown to implement `Coalesce`, `Exchange` and `Answering`.

Every safety property and every action property that a passing run checks is
proved; liveness stays with TLC. `Sequential_proof` holds the proofs about what
runs in one goroutine (`LRU`, `BoltNode`, `Router`, `Web`), which share their
lemmas about sequences.

## 3. The modules

### SingleFlight

`Group` and `call` of `singleflight.go`. `m` is `g.m`; `calls` is the heap of
call objects, each with its key, WaitGroup counter and result; `pc`, `key` and
`cur` are a goroutine's position, argument and local `c`. Both critical
sections are short and cannot block, so each is one action (`Join` or `Lead`;
`Delete`); the run of `fn` and the store of its result (`FnReturn`), `wg.Done`
(`WgDone`), the return (`Return`) and a waiter's return (`WaitReturn`) are
actions of their own. `FnPanic` unwinds `Do`, which defers nothing: neither
`WgDone` nor `Delete` happens. A goroutine that has panicked, or returned, may
call `Do` again: above `Do` somebody recovers, as `net/http` does for every
handler. `old` and `res` are history.

### Coalesce

What `SingleFlight` promises, without map, WaitGroup and lock: a key has a
flight, callers lead or join it, the leader lands it with a result that all on
it are given, closes it and leaves. `SingleFlight!Flights` maps the heap to
flights; `ImplementsCoalesce` is the refinement. The mapping takes a result
for landed when `wg` is zero, not when it is stored: until `wg.Done` nobody may
read it.

### LRU

`Cache` of `lru.go`. `ll` is the list as a sequence, `cache` the key set of the
index, `nbytes` the byte count. `Add` is `AddOld` or `AddNew`, then `Evict` for
each turn of its loop, then `AddReturn`; `adding` says that the loop runs.
`recent` and `latest` are history: what the order and the values should be.
`OnEvicted` is nil wherever `geecache` creates a store, and is left out.

### GeeCache

`Group`, `cache` and `HTTPPool` on every node. A client's goroutine (`Clients`)
and the goroutine that serves a peer's request (`Handlers`) run the same `Get`:
`Hit` or `Miss` under the cache's mutex, then `Lead` or `Join` of the node's
singleflight group, which is `Coalesce` over pairs of node and key. The leader
runs `load`'s closure: `PickSelf`, or `PickPeer` (the request reaches a
goroutine of the owner) or `PeerDown`; then the peer's answer
(`PeerAnswers`, `PeerAnswersError`), or none (`PeerBreaks`), and in the cases of
failure `getLocally`: `GetterReturns` reads the source, `Fill` puts the value
in the cache, `LoadReturns` leaves the closure. The environment updates the
source, lets the getter fail, starts a node's server (`RegisterPeers`), gives a
node another list of peers (`Set`) and takes the client of a request away
(`AnswerLost`). An error is a record that says whose it is, the getter's for a
key or the peer's, because only the first may reach a caller. `Wire` is what
`url.QueryEscape` and the path's unescaping make of a key. Entries have one size
here (`LRU` counts bytes). `ring` is what `NewRing` makes of a list with
`ConsistentHash`; `disagreed` remembers that two nodes once had different owners
for a key.

### ConsistentHash

`Map` of `consistenthash.go` as a value. `New`, `Add`, one node at a time
(`AddNode`), and `Get`; `hash` is any function from names to numbers, so that
hashes may collide. The sorted slice is the set of its points.

### RpcClient and Answering

`Client` and `Call` of `client.go`, with what the codec's `Write` does to the
connection. `pc` follows an invocation through `send` (`Lock`, `Register` or
`Refuse`, `Prepare`, `Write` or `WriteFails` and `CloseCodec`, `TakeBack`,
`Complete`, `Unlock`) and through `Call`'s `select` (`Finish`, or `Expire` and
`Abandon`). `rpc` follows `receive` (`ReadHeader`, `RemoveCall`, then one of
`SkipBody`, `RemoteError`, `ReadBody`, `BodyFails`, then `ReceiveDone`) and
`terminateCalls` (`Terminate`, `TerminateCall` for each pending call in any
order, `TerminateEnds`). `sending` is that mutex with its holder. Sections
under `mu` are atomic, except `terminateCalls`, which may block in `done()`
while it holds `mu`: `muHeld` keeps the others out. `queue` are the Done
channels: one of capacity one for each `Call`, and one shared by the calls of
`Go`. The server is a contract: it answers a request at most once, in any order,
with that request's number (`wire`). The connection can break at any moment,
the writer's first failed flush goes unnoticed (`sticky`), and what was read
ahead may still be delivered. `completed` is history.

`Answering` is the promise to callers: a call is taken while the client is
available, or refused; a call that was taken gets one outcome, its own answer or
a failure; once the client has ended nothing is answered any more. `RpcClient!A`
maps to it: a call is `taken` once it has a number, its `outcome` is its `Error`
and `Reply` from `done()` on, and `status` is what `closing` and `shutdown` say.

### RpcServer and Exchange

`ServeConn` on one connection. `stream` is what the client has sent and the
decoder has not taken: options, then a header and a body per request. `pc`
follows the loop (`ReadOptions` or `RejectOptions`, then `ReadHeader`,
`ReadBody` or `BodyFails` per request, `HeaderFails` at the end, `EndConn`) and
the goroutine of each request (`Respond` or `TimerFires`); all of them send
through `Lock`, `WriteHeader`, `WriteBody` or `EncodeFails`, and `Unlock`.
`work` is the method of each request, which runs on after a timeout. The
client sends requests that are good, name an unknown service, do not fit the
argument, or are cut off after the header. `Exchange` is the promise: a request
is asked, worked on, answered at most once with what its method returned or
with an error, and the line is hung up only when nothing is left to answer.
`RpcServer!E` maps the stream and the halves sent to it: a request is `asked` when
its header is read, and its `answer` is there with the body of its response.

### Discovery

The registry, its servers and one client's `GeeRegistryDiscovery` on one clock.
`start` is the registry's map of times; `beating` and `due` are the goroutine
and the ticker of `Heartbeat`; `mu`, `list` and `lastUpdate` the client's copy.
`Tick` sends a heartbeat that arrives, is swallowed by somebody who answers in
the registry's place (`sendHeartbeat` does not look at the status), or is lost;
whichever it was, `http.Client.Do` may return an error, which ends the goroutine.
`RefreshStart` takes the lock and keeps it over the request; `RegistryAnswers` is
`aliveServers`, at the registry, and its `answer` is then on its way for as long as
it takes, since `http.Get` has no timeout. `RefreshEnds` receives it and dates it
with the client's clock, `RefreshPage` (any other answer, whose missing header
becomes an empty list) and `RefreshFails` are the other ends; `Select` takes the
lock again. `RegistryCrashes` forgets all servers. `seen`, `missed`, `asked` and
`travel` (how long the list was on its way) are history.

### XClient

`Call` is a `Broadcast` to one server. Each address has a worker: `DialCached`,
or `DialNew` and `XDial` under `xc.mu` (`Connect` or `ConnectFails`, then
`Made`, `GivesUp`'s error, or `Abandon` when the timer is first), then the call
on the client (`CallStarts`, `CallRefused`, `CallSucceeds`, `CallFails`) and
`Report`, which records the first error and the reply under the broadcast's own
mutex. The goroutine that makes the client runs on after `Abandon`
(`MakeClient`, `MakeFails`). `CloseAll` is `XClient.Close`.

### Orm

A `Session`, the function `Transaction` wraps, and `Migrate` as such a
function. `disk` is what is committed, `work` what the open transaction sees;
`clause` is the WHERE collected. `Call` is an Insert, Update, Delete or Find up
to its Before hook, which may do nothing (`HookReturns`), execute a statement on
the session it was given (`HookExecutes`), or panic: into the function's end
(`UserExits`) or into a `recover` of the user's, who then goes on with the session and
whatever `Where` has left in it (`HookPanics`). `Execute` is the statement; every
statement clears the clauses, as `Exec` defers it. `Deferred` is the deferred
function of `Transaction`, with each way in which the function can have ended: an
error and a panic roll back, all else commits, `runtime.Goexit` included, because
`recover()` and `err` are nil then. `HasTable` to `RenameTable` are the statements of
`Migrate`, any of which may fail.

### Router and Web

A text, of a pattern, a prefix or a path, is what is between its slashes, the empty
parts included; `ParsePattern` drops those and what follows a `*`. `Router` has the
trie of one method as a value, over parsed patterns: a node is known by the parts on
the way to it (no two children of a node have the same part, since `insert` goes to
the one there is), and has a pattern, or `NoPattern`, and the parts of its children
in order. `Way` is where `insert` comes to, `Insert` what it leaves; `Results` is
what `search` returns from each node, a recursive function rather than a `RECURSIVE`
operator, so that it can be proved about. Beside them is what they are compared
with: `Matches` (what a pattern says) and `Shadowed` (a wildcard was registered
before the fixed part beside it).

`Web` registers routes in groups and then serves one request: `Serve` builds the
chain of handlers (`Middlewares`, then the route's). The route is looked up by the
parsed path, the groups by the path as it was asked for (`HasPrefix`), as in the
code: the two disagree on a path with a slash too many, and `CleanPath` and
`CleanPrefix` say where they cannot. Then `stack`, `index` and `entered`
follow `Context.Next`, which handlers call from inside its loop. `Recover` is
Recovery's deferred function, with the turn of the loop that follows it; without it
a panic ends in `net/http` (`Crash`). `WebInit`, `WebNext` and `WebSpec` have longer
names than elsewhere because `Next` is a method here.

### BoltNode

The pairs of a node of the tree as a sequence: `Index`, `Put`, `Del`. The node
is a value and there is nothing to run: what they do is proved.

## 4. The runs

| Run | Checks | Shows |
|---|---|---|
| `singleflight` | `TypeOK`, `OneInFlight`, `SameResult`, `ImplementsCoalesce`, `DoReturnsUnlessPanic` | three goroutines, two keys, two call objects, `fn` may panic: one execution per key, one result for all duplicates, no call outlives its leader's return, and only a panic makes a `Do` wait for ever |
| `lru` | `TypeOK`, `PartsAgree`, `HoldsMostRecent`, `EvictsJustEnough`, `AddReturns` | three keys of two lengths, two values of two lengths, four budgets: list, index and byte count are one store, which is the latest values of the most recently used keys |
| `geecache` | `TypeOK`, `AnswersOwnKey`, `NoWaitCycle`, `NeverFillsOlder` | two nodes whose rings change and may disagree, breaking connections, a failing getter: answers are the key's, nobody waits in a circle unless the nodes have disagreed, a slow load never overwrites a later one |
| `rpcclient` | `TypeOK`, `CompletedOnce`, `RightReply`, `NotLost`, `ImplementsAnswering`, `EveryCallEnds` | a `Call` and two `Go`s that share a Done channel of capacity one: outcomes are a call's own, given once and never changed |
| `rpcserver` | `TypeOK`, `ResponsesWhole`, `EveryRequestAnswered`, `ImplementsExchange` | three requests of any kind, with and without a handle timeout |
| `discovery` | `TypeOK`, `PromptServerStays`, `FreshChoice`, `EveryGetEnds` | a server, a registry that crashes, two getters whose answers travel as long as they like, and a user's `Update` |
| `xclient` | `TypeOK`, `NoLeak`, `BroadcastOutcome`, `EveryOpReturns` | two operations on two servers, two connections, `Close` at any moment |
| `orm` | `TypeOK`, `AllOrNothing`, `Migrated`, `NoResidue` | a session, a transaction or a migration whose statements, hooks and commit may fail |
| `web` | `WebTypeOK`, `RouteFound`, `GroupMiddlewareRuns`, `HandlersInOrder` | every sequence of three routes in three groups, then a request, with or without a slash too many |
| `geecache_escape` | `OwnKey`, violated | finding 1 |
| `orm_hook` | `ChangesOnlyMatching`, violated | finding 2 |
| `web_route` | `RouteMatches`, violated | finding 3 |

Run one with `tlc -config <name>.cfg <module>`; `PROJECT.json` names the module
and the configuration of each. A module whose constants a configuration can
spell is run as it is; the others have an `MC` module beside them.

### Bounds

* `singleflight`: `MaxCalls = 2` call objects, which `Do` enforces before it
  starts. A leftover result needs a finished call and a new one; a broken
  lookup needs two goroutines in it; the third goroutine is the one that comes
  between `wg.Done` and `delete`. One result is enough for the invariants,
  which tell a result from none and calls from one another; the proofs hold
  for any set.
* `lru`: no counter grows, so the state space is finite as it stands. Entries
  take two to five bytes; the budgets are 0 (unbounded), 3 (a big entry is
  evicted by its own `Add`), 5 (one big entry exactly, or two small) and 9.
* `geecache`: stores of one entry, so that every fill evicts; one update
  (`MaxVersion = 1`) of one key (`Volatile`), enough for an older value to
  overtake a newer one; one `Get` per client; two handlers, because each
  client's request makes one; at most one request whose client is gone
  (`MaxAbandoned`). The lists of peers give two rings that agree on one key
  and not on the other. That nobody waits for ever is checked as `NoWaitCycle`:
  goroutines wait only for one another or for a getter or a peer that answers
  or breaks, so without a circle somebody moves. A chain of waits longer than
  two needs more handlers than TLC can take.
* `rpcclient`: each invocation is one call, so the sequence numbers are bounded
  by their number; `uint64` does not wrap. Three calls are the least in which
  one is being written, one is in `receive`'s hands and one is pending while
  the connection ends; capacity one makes `done()` block.
* `rpcserver`: `N = 3`. One request takes the stream out of step, one is lost
  behind it, and one is still being handled; the loop is a fourth sender.
* `discovery`: `MaxTime = 5` with a registry timeout of 3, heartbeats every 1,
  up to 1 late, and a client's list that is fresh for 2: a server can be put,
  renewed in time or late, expire while an answer that lists it travels, and be
  named from a copy that came late. The bound of `FreshChoice` without `travel` is
  violated within these numbers (a server put at 0, listed at 2, received at 5).
  One server (two do not finish within minutes), and two addresses only `Update`
  names, since nothing relates two servers but their places in the list.
  `Interval + Delay < Timeout` is what `Heartbeat` itself chooses when it is left
  the choice (a minute less than the registry's default).
* `xclient`: two connections are the least with one that is replaced; two
  operations the least that meet in `dial`.
* `orm`: three statements: one that collects a condition, one of a hook in
  between, and the one that suffers. Three columns, of which the struct has
  two, and every initial table: all mixtures of columns to add and to drop.
* `web`: three routes: two that meet in a node and one behind them. The paths
  include a part that continues the prefix of a group, parts no route has,
  more parts than any route, a doubled slash in front and one at the end. `MaxCalls = 2`, because calling `Next` twice is
  the case to worry about.

`CHECK_DEADLOCK FALSE` stands in the configurations whose work is finite (each
client asks once, calls and statements are bounded, the clock stops) or which
model a wait for ever; `lru` never stops and is checked for deadlock. Symmetry is used for
goroutines in the two `geecache` configurations, which check safety only.

### Fairness

* `SingleFlight!FairSpec`: the scheduler runs every goroutine that can run
  (`WF` of each goroutine's steps); `fn` ends, by returning or by panicking.
  Calling `Do` is never forced.
* `LRU!FairSpec`: the loop of `Add` is sequential code.
* `RpcClient!FairSpec`: `WF` of each invocation's steps and of `receive`'s, and
  of `Drain`, the user of the shared channel, who reads what `Go` puts there.
  Weak fairness is enough for `sending`, which each invocation takes once.
  Answers, the end of a context, `Close` and a break are not forced; that is
  why `EveryCallEnds` begins with a connection that has gone.
* `RpcServer!FairSpec`: `WF` of the loop, of each handler and its timer. A
  method must return only where no timeout stands in for it. The client is not
  forced to send anything.
* `Discovery!FairSpec`: `SF` of a getter's steps once it has begun, because a
  getter waits for `d.mu`, which Go's mutexes hand on fairly, while others take
  it again and again; `http.Get` ends. Neither the clock nor heartbeats nor the
  registry are forced.
* `XClient!FairSpec`: as long as some goroutine of the program can move, one does. Each
  operation has finitely many steps and runs once, so nobody can be overtaken
  for ever. A dial has a timeout, and a call that was sent is answered or fails
  (`RpcClient` shows it does when the connection goes).

## 5. Findings

1. **A key with a space is loaded as another key** (`http.go:118`). It is
   escaped for a query and travels in a path: the peer looks up, and returns,
   the value of the key with a plus.
2. **A hook that executes a statement makes the Delete it runs in delete every
   row** (`record.go:115`; `Update` likewise, `:94`). Delete's Before hook runs
   after the caller's `Where` and before the statement is built; the hook's own
   `Exec` clears the clauses of the session they share.
3. **A route can take another route's place** (`trie.go:26`). `insert` follows a
   wildcard child for a fixed part, so that after `/:x` the route `/a` ends in the
   node of `/:x`: every path of one part then gets the handler of `/a`.

While these were modelled, more came up that the models show (a step of the
model allows it) but that no run states as a property:

* A panic in `fn` leaves singleflight's call in the map and its duplicates
  waiting (`singleflight.go:38`); `DoReturnsUnlessPanic` is the most that holds.
* Two `Get`s of one key can both fetch it, one after the other: the cache lookup
  and `Do` are two steps (`geecache.go:72`, against the comment at `:89`).
* `receive` may write a reply after `Call` has returned with its context's error
  (`client.go:155`).
* The deadline of a `Call` does not cover sending (`client.go:187`, against
  `gee-rpc/doc/geerpc-day4.md:48`).
* A request for an unknown service leaves its body in the stream, and the
  requests behind it are lost (`server.go:152`, against
  `gee-rpc/doc/geerpc-day1.md:324`); `EveryRequestAnswered` excepts them.
* The heartbeat goroutine ends at the first error, and a server that lives on is
  dropped for good (`registry.go:108`, against `gee-rpc/doc/geerpc-day7.md:409`);
  `PromptServerStays` ends with the first heartbeat that is lost.
* `runtime.Goexit` inside of a `Transaction` commits what was half done
  (`geeorm.go:72-74`: `recover()` and `err` are both nil), against
  `gee-orm/doc/geeorm-day6.md:279` ("全部成功才 `Commit`") and `:287`, which
  commits when the closure has returned a nil error. `t.FailNow` in a test is such an
  exit. `AllOrNothing` excepts it by name, and `Deferred` does commit.
* A request for `//v1/a` finds the route `/v1/a` and skips the middleware of the
  group `/v1`, and one for `/v1` skips that of a group registered as `/v1/`:
  `parsePattern` drops empty parts (`router.go:26`), the comparison of the prefix
  does not (`gee.go:122`), against `gee-web/doc/gee-day5.md:58` (all middlewares that
  apply to the route). `GroupMiddlewareRuns` speaks of `CleanPath` and `CleanPrefix`
  only; the run has such paths, and the property without `CleanPath` fails in it.
* How old a server named by `Get` may be has no bound: the list is dated when it
  arrives (`discovery_gee.go:46`), and `http.Get` (`:34`) waits for it without a
  timeout. `FreshChoice` therefore adds the time it travelled to its bound.
* A hook that panics leaves the condition of its Update or Delete in the session;
  if the user recovers and goes on, the next statement of the session takes it
  (`raw.go:59` clears after a statement, and none was executed). `NoResidue` speaks
  of conditions that a statement was executed after.
* A group whose prefix has a parameter guards none of its routes (`gee.go:122`
  compares strings), and a `:x` before a `*f` can turn a path that a route matches
  into a 404 (`trie.go:26` again); `GroupMiddlewareRuns` and `RouteFound` except
  both.
* Outside of the models: `Refresh` and `sendHeartbeat` never close the body of
  the response; `Find` returns without closing its rows when a Scan fails
  (`record.go:49`); `Broadcast` never calls `cancel` when all went well.

## 6. The proofs

Each holds for every value of the constants: any sets of goroutines, keys and
results and any `MaxCalls`; any finite set of invocations and any capacity of
the shared channel; any number of requests; any hash function, number of
replicas and lists of peers; any number of nodes, clients and peer goroutines
and any capacity of the stores; any sizes of keys and values and any budget; any
rows, columns and number of statements; any sets of servers and getters and any
timeouts; any sets of addresses and operations; nodes of any length; any groups, routes,
paths and number of calls of `Next`. They
assume what the modules' `ASSUME`s and the theorems' own hypotheses say, and
nothing else. The `ASSUME`s give the constants their kinds, with two exceptions
that say something of the world: `PromptAssumption` (a heartbeat that gets through
does so before the timeout) and `WireAssumption` (`Wire` makes a plus of every
space and keeps the rest, so doing it twice changes nothing more).

| Theorem | States |
|---|---|
| `SingleFlight_proof!TypeCorrect` | `[]TypeOK` |
| `AtMostOneInFlight` | `[]OneInFlight` |
| `MapAgrees` | `[]MapHoldsInFlight` |
| `DuplicatesGetTheSame` | `[]SameResult` |
| `NothingLeftOver` | `[]NoLeftoverResult` |
| `OneWrite` | `ResultWrittenOnce` |
| `Implements` | `ImplementsCoalesce`: `Do` implements `Coalesce` |
| `Sequential_proof!TypeCorrect` | `[]TypeOK` (of `LRU`) |
| `NothingLost` | `[]PartsAgree` |
| `LeastRecentGoesFirst` | `[]HoldsMostRecent` |
| `EvictionIsTight` | `[]EvictsJustEnough` |
| `PutReplaces` | `Put` keeps the order of a node and replaces one pair |
| `DelRemoves` | `Del` keeps the order and removes one pair |
| `PutIsFound`, `DelIsMissed` | what `index` finds on the node a `put` or a `del` leaves |
| `RouteRight` | where no route is shadowed, `GetRoute` finds one exactly if one matches |
| `WebTypeCorrect` | `[]WebTypeOK` |
| `RoutesFound` | `[]RouteFound` |
| `GroupsServe` | `[]GroupMiddlewareRuns` |
| `HandlersOrdered` | `HandlersInOrder`, its action property included |
| `GeeCache_proof!TypeCorrect` | `[]TypeOK` |
| `OwnAnswers` | `[]AnswersOwnKey` |
| `NeverOlder` | `NeverFillsOlder` |
| `NobodyWaitsForAll` | `[]NoWaitCycle` |
| `GetIsANode` | `Get` names a node that was added |
| `OnlyToTheNewNode` | adding a node moves keys only to it |
| `OrderIsIrrelevant` | two nodes whose points do not meet may be added in either order |
| `OwnerIsAPeer` | the ring of a list of any length gives each key an owner in the list |
| `SamePeersSameRing` | two lists of the same peers give one ring, unless hashes collide |
| `RpcClient_proof!TypeCorrect` | `[]TypeOK` |
| `DoneOnce` | `[]CompletedOnce` |
| `RepliesMatch` | `[]RightReply` |
| `NothingLost` | `[]NotLost` |
| `KeepsPromise` | `ImplementsAnswering`: the client implements `Answering` |
| `Discovery_proof!TypeCorrect` | `[]TypeOK` |
| `PromptStays` | `[]PromptServerStays` |
| `ChoiceIsFresh` | `[]FreshChoice` |
| `XClient_proof!TypeCorrect` | `[]TypeOK` |
| `ConnectionsKept` | `[]NoLeak` |
| `OutcomeOfAll` | `[]BroadcastOutcome` |
| `RpcServer_proof!TypeCorrect` | `[]TypeOK` |
| `Whole` | `[]ResponsesWhole` |
| `Implements` | `ImplementsExchange`: the server implements `Exchange` |
| `Orm_proof!TypeCorrect` | `[]TypeOK` |
| `Atomic` | `[]AllOrNothing` |
| `MigrationDone` | `[]Migrated` |
| `NoLeftoverClause` | `[]NoResidue` |

**SingleFlight.** `OneInFlight` is not inductive: that two goroutines do not run
`fn` for one key follows from `MapHoldsInFlight` (who runs `fn` has the map's
entry), which needs that only the creator of a call writes or unlinks it
(`LeaderInv`: a goroutine leads a call of its own that it has not left). What a
duplicate returns needs `CallInv` (a counter at zero means the result is there)
and `AnswerInv` (an answer given is the result of its call for good). That no
answer is left over needs `FreshInv` (the call a goroutine leads is new, and a
call it waits for, if left before, was left by a panic) and `LeftInv` (such a
call never releases anybody). That every step is one of `Coalesce` or none
(`Implements`) needs `WaitersInv` besides: a waiter whose call still has its
counter at one finds that call in the map under its key. So `wg.Done`, which
releases whoever holds the call, lands the flight for exactly those who are on
it. Storing the result and, after a panic, unwinding are no steps of `Coalesce`.

**RpcClient.** Three parties may complete a call: its own `send`, `receive` and
`terminateCalls`. `IInv` says where a call can be: `Numbers` and `Owners` tie
a sequence number, wherever it travels (pending, the header, the wire, the
response in hand), to the one call it was given to; `Hands` says what `receive`
holds is not pending; `Completion` says a call in the hands of one of the three
is open, and that a sent call that is open is in somebody's hands or pending;
`Locks` says nobody is between registering and writing once `shutdown` is set,
because `terminateCalls` takes `sending` first; `Outcome` says a call has an
error or its own reply before it is completed. `IInv` also holds in the
instances of the runs: it was checked there before it was proved.

That numbers do not run out (`Numbering`) counts: `seq - 1` is the number of
registered calls, at most the number of invocations.

That every step is one of `Answering` or none (`KeepsPromise`) rests on
`KeepsOutcome` (nobody writes the error or the reply of a call that is complete)
and on `Refusals`, invariant together with `IInv`: only a call without a number
is refused, by a client that is no longer available and stays so. Completing a
call is a step of `Answering` for whoever does it: a refusal or a failure in
`send`, an answer or a failure in `receive`, a failure in `terminateCalls`. Writing
its error or reply before that is none.

**ConsistentHash** (in `GeeCache_proof`). Everything rests on `First` being
defined, that is, on a non-empty set of numbers having a least element, which
the library's facts about well-founded relations give (`FirstIsLeast`).
`OnlyToTheNewNode` then compares the closest point before and after: if it is no
point of the new node, it was on the ring already, and no point of the old ring
was closer. `OrderIsIrrelevant` is about two nodes added to any ring;
`OwnerIsAPeer` and `SamePeersSameRing` are about lists of any length. Both rest on
`AddedRing`: what the first `i` nodes of a list make of the ring is as it says for
0 and, if for `i`, for `i + 1`; the set of such `i` is all numbers, because a
non-empty set of others would have a least element. Where points of two peers
meet the order of the list decides, which is how two nodes can disagree
(`disagreed`) though they were given the same peers.

**GeeCache.** Three properties, three reasons, on one picture of the goroutines:
`ProcInv` ties what a goroutine has been asked, has read and has answered to
where it is; `FlightInv` says who leads has the flight of its own key on its own
node, alone, until it closes it; `FromInv` says a handler at work has one
goroutine waiting for it, at its `remote`, for the key the handler was asked for.
`OwnAnswers` then needs `KeyInv`: what is on its way through flights, answers and
stores suits the key it is on its way to; each hop over the wire applies `Wire`
again, and only because twice is once (`WireAssumption`) the keys stay within
`Seen`. `NeverOlder` needs `VersionInv`: what a leader has read is at least as new as
what its node stores for that key, because nobody else fills that key meanwhile.
`NobodyWaitsForAll` needs `RingInv`: as long as nobody has disagreed, requests have
gone to the owner of the key they were sent for. The owner asks on only if it
does not own what `Wire` made of that key, and then once. Each goroutine thus
has a rank (the hops left, then duplicates above their leader) that falls
along `WaitsFor` (`RankFalls`), and in any set of goroutines one of least rank
waits for none of the set.

**LRU** (in `Sequential_proof`). `HoldsMostRecent` is nearly inductive, and carries the
rest: `RecentInv` says the list's keys are those of `recent`, place by place, and no
key is twice in `recent`, so none is twice in the list. A hit or an overwrite then
takes a key out of both at the same place (`FrontKeeps`); a new key is in
neither, or in `recent` behind the list's end, where an eviction left it. That the
byte count follows needs to know what an entry more or less does to a sum
over the list (`BytesOfPushed`, `BytesOfRemoved`), by induction over positions.
`BudgetInv` says of the whole time what `EvictsJustEnough` says of the end. With a
negative budget, which the code accepts, the loop never ends: `EvictsJustEnough` says
nothing of it, and `AddReturns` excepts it.

**Orm.** `AllOrNothing` and `Migrated` speak of the end; `IInv` says what holds on the
way. Until the deferred function runs the transaction is open and the disk as it
was (`TxInv`), unless the function ended the transaction itself, which
`AllOrNothing` excepts; what it finds is what was done when the function ended, and
how it ended (`EndInv`), and what is returned says which of the two the disk became
(`OutcomeInv`), unless the end was a `Goexit`. `MigrationInv` has a line for the statements of `Migrate`:
nothing has changed before the first ALTER, columns only are added up to the
copy (`Widened`), the copy has the columns of the struct (`Copied`), and what the
last statement leaves is the migrated table. `NoLeftoverClause` needs `ClauseInv`:
a condition that is there was collected after the last statement.

**Discovery.** Every time stamp has its place. `Stamp` relates a server's stamp in
the registry to its ticker: no heartbeat is more than `Delay` late, and the next
one is due within `Interval` of the last that arrived, which with
`PromptAssumption` leaves no moment at which `Alive` is false. `Copied` says what the
client's list, or the answer that is on its way to it, was like when the registry
made it, and how long it travelled; `Current` that a getter about to select saw a
list that was fresh. `FreshChoice` adds the two timeouts and the travel up, and is
false without the last.

**XClient.** `NoLeak` is inductive only together with what `xc.mu` gives: the one
worker in `XDial` finds nothing in the cache for its address and makes a
connection for it (`Dialling`), so caching it drops no other; and a connection that is
open was made for an address (`ConnsInv`). For `BroadcastOutcome`, `Told` says
what the workers that are done have left behind, and `Works` that an operation
has one worker for each of its servers from its start on; all steps but those of
operations leave both alone (`MovesOn`, `OpsKept`).

**RpcServer.** The refinement needs an invariant of its own: a step is one of
`Exchange` only because of where requests are. `StreamInv` says a header in the
stream is of a request greater than all that were read, so that reading one is
asking anew; `LoopInv` and `HandlerInv` say a request is either with the loop or
with its handler, and that a response with a reply has a method that returned it;
`AnswerInv` says a request that was read is, on an open connection, pending with one
of them or answered, and never both. That is why a timer and a method that race
answer once, and why nothing is unanswered when the loop, after `wg.Wait`,
closes. `LockInv` ties a response half sent to the holder of the mutex, which is
what `ResponsesWhole` needs. One lemma per action keeps the invariant
(`SendKeeps` to `WriteBodyKeeps`); one per step of `Exchange` turns the change of
the mapped state into that step (`AskStep`, `WorkStep`, `AnswerStep`, `LineStep`),
and the lemmas `ClientRefines` to `SendRefines` cite them. The theorem is about safety:
that every request is answered in the end stays with the run.

**BoltNode** (in `Sequential_proof`). `IndexSplits` says where `sort.Search` ends in
pairs that are in order; `Inserted` and `Removed` say what happens to the
indices. `PutReplaces` needs that the new key keeps the old key's place
(`KeepsPlace`); `PutIsFound` and `DelIsMissed` then say what `index` finds on the node
that is left. The code does not check it, and without it a `put` leaves a node
out of order, in which `index` no longer finds what is there.

**Router** (in `Sequential_proof`). `Results` and `Way` are recursive functions, and a
recursive definition says only that its value is chosen among those that satisfy it:
`WayIs`, `ResultsAre` and, for `ParsePattern`, `ParseIs` show there is one, by building it height by height. `IsTrie`
is what `Insert` keeps whatever is inserted: a node's beginnings are nodes, and
each is a child of the one before. `Sound` is what a search from a node returns:
a pattern exactly if there is a `Candidate` below it, a node where the search may end
and that agrees with the path on the way; it holds where the path ends and, if at all
children, at their parent (`SoundAbove`), because the search tries every child that
matches and comes back from those that return nothing. That candidates are the
routes that match needs `Grown`: the nodes are the beginnings of the routes, and each
pattern is at its own node. It is lost when a wildcard takes a route in, and is
inductive only with its third part: of two children, the first came with the earlier
route. So a wildcard that `insert` would follow in place of the part itself was
registered before it, which is what `Shadowed` says (`OwnChild`).

**Web** (in `Sequential_proof`). `HandlersInOrder` needs `OrderInv`: as long as nobody
fails, `index` is the number of handlers entered, or behind the chain; after a `Fail`
it is behind the chain for good. That `index` is bounded at all is not obvious: every
`Next` and every return adds one, and each handler may call `Next` while others wait
for it. `Weighs` gives every handler on the stack what it may still add, its
return included; a call takes one from it, a handler put on top adds its own share,
and those below have called `Next` once at least (`Called`). Behind the chain no
handler is added, so the index and the weight never exceed the limit. For
`GroupMiddlewareRuns`, `RouteInv` says every pattern begins with the prefix of its
group, and a path that matches it therefore with the same parts (`PrefixMatches`).
That is of parsed texts; the middleware is chosen by the text itself. `Rounds` and
`RoundsKeep` say what `ParsePattern` makes of a text part by part, and `CleanRounds` and
`CleanPathParts` that it drops nothing of a clean one but its first part, and
perhaps its last: there the parsed prefix and the written one are compared alike.

### Only model-checked

Liveness (`DoReturnsUnlessPanic`, `AddReturns`, `EveryCallEnds`,
`EveryRequestAnswered`, `EveryGetEnds`, `EveryOpReturns`) is out of the prover's
reach. Induction over data
is done by hand where a proof needs it (the ring's `Add`, the bytes of a list, the
way of `insert`, the depth of a search):
the library's induction theorems take an operator as a parameter, which the
provers cannot instantiate, so those lemmas argue with the least element of
a set of numbers. `ConsistentHash`, `LRU`, `Router` and `Web` write what needs it
as recursive functions.

## 7. What is not modelled

* `gee-bolt`'s memory-mapped file: `Open`, `Sync` and `Close` of a file that
  nothing reads or writes yet. Its pages are casts of memory; `node.go` is
  in `BoltNode`, but nothing calls it.
* Reflection over struct types (the ORM's schema, the RPC's services), SQL
  dialects, the WASM demos and the documentation tools: no state or protocol of
  their own.
* The encodings: gob, JSON, protobuf, SQL texts, HTTP messages. `parseOptions`
  and the words of the CONNECT handshake. `Limit` and `OrderBy`, which are
  collected and cleared as `Where` is.
* What a web handler writes, templates and static files; the process-wide table
  of cache groups and malformed paths; the RPC debug page.
* The empty cache key, which `Get` refuses before it looks; a route whose pattern is
  the empty string (the search never finds it), or that adds to its group's prefix
  without a slash of its own.
* Torn reads of `g.peers`, which `RegisterPeers` sets and the first requests
  read without a lock: the model lets a request see it unset or set, but not the
  half-written interface value the race permits.
* `MultiServersDiscovery` by itself: it is `Discovery` in which nobody refreshes.
* Earlier days of each program: three quarters of the repository's Go code are
  earlier copies of the files modelled here, and the last one contains them.
  Lines of those copies, tests and documentation are therefore not in the map.
