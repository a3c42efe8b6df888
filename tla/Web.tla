--------------------------------- MODULE Web --------------------------------
(***************************************************************************)
(* gee-web/day7-panic-recover/gee: an Engine that registers routes in      *)
(* groups and then serves a request (gee.go, router.go), which runs the    *)
(* middlewares of the groups and the handler of the route through          *)
(* Context.Next (context.go), and Recovery (recovery.go).                  *)
(*                                                                         *)
(* What a handler does is free: it answers, calls Next as often as it      *)
(* likes, fails, panics, returns; the response is left out.  Each group    *)
(* has one middleware; the root group may have Recovery before it, as      *)
(* gee.Default has.  One method.  What is registered in a group starts     *)
(* with a slash, and is not empty: the code never finds a pattern "".      *)
(***************************************************************************)
EXTENDS Router, FiniteSets

CONSTANTS
    Groups,     \* their prefixes, in the order of engine.groups; root first
    Comps,      \* the patterns that are registered in a group
    Paths,      \* of requests
    Extends,    \* pairs of parts: the first continues the second as a string
    MaxRoutes,  \* bounds: routes registered,
    MaxCalls    \* and calls of Next and Fail by one handler

ASSUME WebAssumption ==
    /\ Groups \in Seq(Seq(Parts) \ {<< >>})
    /\ Len(Groups) > 0 /\ Groups[1] = << Empty >>
    /\ Comps \subseteq Seq(Parts) /\ Paths \subseteq Seq(Parts) \ {<< >>}
    /\ \A comp \in Comps : Len(comp) > 1 /\ comp[1] = Empty
    /\ MaxRoutes \in Nat /\ MaxCalls \in Nat \ {0}

VARIABLES
    recovery,  \* the engine uses Recovery
    routes,    \* history: the group and the parsed pattern of each route
    trie,
    path,      \* of the request being served
    chain,     \* c.handlers
    index,     \* c.index
    stack,     \* the handlers that run: their number, and calls so far
    entered,   \* history: the handlers that were entered, in order
    failed,    \* history: Fail was called
    phase      \* "register", "serve", "done", "crash" of the connection

requestVars == <<path, chain, index, stack, entered, failed>>
webVars == <<recovery, routes, trie, path, chain, index, stack, entered,
             failed, phase>>

WebInit ==
    /\ recovery \in BOOLEAN
    /\ routes = << >>
    /\ trie = NewRoot
    /\ path = << >>
    /\ chain = << >>
    /\ index = 0
    /\ stack = << >>
    /\ entered = << >>
    /\ failed = FALSE
    /\ phase = "register"

-----------------------------------------------------------------------------
(* Engine *)

Register(g, comp) ==
    /\ phase = "register"
    /\ Len(routes) < MaxRoutes
    /\ LET text == Groups[g] \o Tail(comp)
       IN  /\ routes' = Append(routes, [group |-> g, pattern |-> ParsePattern(text)])
           /\ trie' = AddRoute(trie, text)
    /\ UNCHANGED <<recovery, requestVars, phase>>

\* strings.HasPrefix of the path as it was asked for, with all its slashes:
\* the last part of the prefix may go on.
\* Mutant: the prefix is asked for with a slash behind it.
HasPrefix_Slash(p, prefix) ==
    Len(p) > Len(prefix) /\ SubSeq(p, 1, Len(prefix)) = prefix
HasPrefix(p, prefix) ==
    LET n == Len(prefix)
    IN  /\ n <= Len(p)
        /\ SubSeq(p, 1, n - 1) = SubSeq(prefix, 1, n - 1)
        /\ prefix[n] \in {Empty, p[n]} \/ <<p[n], prefix[n]>> \in Extends

\* Index numbers count from 1 here.  The key of the handler is the pattern
\* found: the last one registered under it.
Handler(p) ==
    LET found == GetRoute(trie, p)
    IN  IF found = NoPattern THEN [kind |-> "notfound", of |-> NoPattern]
        ELSE [kind |-> "handler", of |-> found]

\* The middlewares of the groups that serve the path, in the order of groups.
Middlewares(p) ==
    LET upTo[g \in 0 .. Len(Groups)] ==
            IF g = 0 THEN << >>
            ELSE IF HasPrefix(p, Groups[g])
            THEN Append(upTo[g - 1], [kind |-> "group", of |-> g])
            ELSE upTo[g - 1]
    IN  upTo[Len(Groups)]

\* ServeHTTP and router.handle, up to the first handler of c.Next().
Serve(p) ==
    LET first == IF recovery THEN <<[kind |-> "recovery", of |-> 1]>> ELSE << >>
    IN  /\ phase = "register"
        /\ phase' = "serve"
        /\ path' = p
        /\ chain' = first \o Append(Middlewares(p), Handler(p))
        /\ index' = 1
        /\ stack' = << [h |-> 1, calls |-> 0] >>
        /\ entered' = << 1 >>
        /\ UNCHANGED <<recovery, routes, trie, failed>>

-----------------------------------------------------------------------------
(* Context *)

Top == stack[Len(stack)]
Below == SubSeq(stack, 1, Len(stack) - 1)
Running == phase = "serve" /\ stack # << >>
IsRecovery(f) == chain[f.h].kind = "recovery"

\* The handler that runs does one thing more.
Busy == Running /\ Top.calls < MaxCalls
Counted == Append(Below, [Top EXCEPT !.calls = @ + 1])

\* The loop of Next, at index i, with `frames` waiting for it to end: it runs
\* the next handler, or returns to the last of them, or out of ServeHTTP.
Loop(i, frames) ==
    /\ index' = i
    /\ IF i <= Len(chain)
       THEN /\ stack' = Append(frames, [h |-> i, calls |-> 0])
            /\ entered' = Append(entered, i)
            /\ UNCHANGED phase
       ELSE /\ stack' = frames
            /\ phase' = IF frames = << >> THEN "done" ELSE phase
            /\ UNCHANGED entered

\* Mutant: Next starts at the handler that runs.
NextIndex_Same == index
NextIndex == index + 1

CallNext ==
    /\ Busy
    /\ Loop(NextIndex, Counted)
    /\ UNCHANGED <<recovery, routes, trie, path, chain, failed>>

\* A handler returns to the loop that ran it.  Recovery calls Next first.
Return ==
    /\ Running
    /\ IsRecovery(Top) => Top.calls > 0
    /\ Loop(index + 1, Below)
    /\ UNCHANGED <<recovery, routes, trie, path, chain, failed>>

\* Mutant: Fail answers, and the chain goes on.
FailIndex_Same == index
FailIndex == Len(chain) + 1

\* Also from HTML, after its Status, when the template cannot be executed.
Fail ==
    /\ Busy /\ ~IsRecovery(Top)
    /\ index' = FailIndex
    /\ failed' = TRUE
    /\ stack' = Counted
    /\ UNCHANGED <<recovery, routes, trie, path, chain, entered, phase>>

\* A panic unwinds to the Recovery that runs: it fails the request and
\* returns, and the loop that ran it goes on by one and ends ...
Recover ==
    /\ Running /\ ~IsRecovery(Top)
    /\ recovery
    /\ index' = FailIndex + 1
    /\ failed' = TRUE
    /\ stack' = << >>
    /\ phase' = "done"
    /\ UNCHANGED <<recovery, routes, trie, path, chain, entered>>

\* ... and without one net/http cuts the connection.
Crash ==
    /\ Running /\ ~recovery
    /\ stack' = << >>
    /\ phase' = "crash"
    /\ UNCHANGED <<recovery, routes, trie, path, chain, index, entered, failed>>

-----------------------------------------------------------------------------
HandlerStep == CallNext \/ Return \/ Fail \/ Recover \/ Crash

WebNext ==
    \/ \E g \in DOMAIN Groups, comp \in Comps : Register(g, comp)
    \/ \E p \in Paths : Serve(p)
    \/ HandlerStep

WebSpec == WebInit /\ [][WebNext]_webVars

-----------------------------------------------------------------------------
(* Properties *)

Patterns == [i \in DOMAIN routes |-> routes[i].pattern]
Unambiguous == \A j \in DOMAIN routes : ~Shadowed(Patterns, j)
Serving == phase # "register"
Found == GetRoute(trie, path)

\* Every variable stays in its range: the stack holds different handlers in
\* the order of the chain, and a request that is over has none.
WebTypeOK ==
    /\ recovery \in BOOLEAN /\ failed \in BOOLEAN
    /\ phase \in {"register", "serve", "done", "crash"}
    /\ index \in 0 .. Len(chain) + 1 + Len(chain) * MaxCalls
    /\ \A i \in DOMAIN stack : /\ stack[i].h \in DOMAIN chain
                               /\ stack[i].calls \in 0 .. MaxCalls
                               /\ i > 1 => stack[i - 1].h < stack[i].h
    /\ phase = "serve" <=> stack # << >>

\* Where no wildcard was registered before the fixed parts it competes with,
\* a request finds a route exactly if one of those registered matches it, and
\* what it finds does match: the search comes back from branches that end.
\* Found in whatever way, a pattern has its parameters in the path: no index
\* leaves it, and a "*" stands for one part at least.
RouteFound ==
    Serving =>
        /\ Unambiguous =>
              /\ Found # NoPattern <=> \E i \in DOMAIN routes : Matches(Patterns[i], path)
              /\ Found # NoPattern => Matches(Found, path)
        /\ Found # NoPattern =>
              \A i \in DOMAIN Found : Found[i] \in Wild =>
                  i <= Len(ParsePattern(path)) /\ Params(Found, path)[i] # << >>

\* Written with one slash before each part; a path may have a last one.
CleanPath(p) == p[1] = Empty /\ \A k \in 2 .. Len(p) - 1 : p[k] # Empty
CleanPrefix(prefix) ==
    prefix[1] = Empty /\ \A k \in 2 .. Len(prefix) : prefix[k] \notin Wild \cup {Empty}

\* What a request finds was registered, and the middlewares of its groups run
\* before its handler, if no route is shadowed, the prefix of the group has no
\* parameter, and the slashes of the prefix and of the path are single ones.
\* With others it is false of the code: the trie does not see them, and the
\* comparison of the prefix does.  "//v1/a" finds the route "/v1/a" and leaves
\* the middleware of the group "/v1" out, as "/v1" does that of a group "/v1/".
GroupMiddlewareRuns ==
    Serving /\ Unambiguous /\ Found # NoPattern =>
        LET own == {routes[i].group : i \in {j \in DOMAIN routes : routes[j].pattern = Found}}
        IN  /\ own # {}
            /\ CleanPath(path) =>
                  \A g \in own : CleanPrefix(Groups[g]) =>
                      \E h \in DOMAIN chain : chain[h] = [kind |-> "group", of |-> g]

\* Handlers run one after the other in the order of the chain, each at most
\* once however often they call Next, all of them unless one fails or panics,
\* and after a Fail no other is entered.
HandlersInOrder ==
    /\ [](entered = [i \in 1 .. Len(entered) |-> i])
    /\ [](phase = "done" /\ ~failed => Len(entered) = Len(chain))
    /\ [][failed => entered' = entered]_webVars

\* What the docs say of a route: a fixed part matches itself, a ":" one part.
RouteMatches == Serving /\ Found # NoPattern => Matches(Found, path)
=============================================================================
