------------------------------- MODULE XClient ------------------------------
(***************************************************************************)
(* gee-rpc/day7-registry/xclient/xclient.go: an XClient that keeps one     *)
(* Client per server for its Calls and Broadcasts, and dialTimeout of      *)
(* client.go, which makes them.  dial holds xc.mu over the whole of XDial. *)
(*                                                                         *)
(* Discovery is an interface: Get names an address, GetAll some, the       *)
(* choice is free.  Of a Client only this is used here: a call on one that *)
(* is not available fails, one that has started ends either way, and when  *)
(* the receive loop has ended it fails (Answering, and EveryCallEnds of    *)
(* RpcClient, which implements it).                                        *)
(***************************************************************************)
EXTENDS Naturals, FiniteSets

CONSTANTS
    Addresses,
    Ops,       \* invocations of Call and Broadcast
    MaxConns,  \* bound on the connections ever made
    None

Conns == 1 .. MaxConns
Workers == Ops \X Addresses  \* the goroutine of an operation for an address

ASSUME FiniteAssumption ==
    IsFiniteSet(Addresses) /\ IsFiniteSet(Ops) /\ MaxConns \in Nat
ASSUME NoneAssumption == None \notin Conns \cup Addresses \cup Workers

VARIABLES
    clients,  \* xc.clients
    mu,       \* the worker that holds xc.mu over XDial
    conn,     \* each connection: "none", "up", "lost" to the peer, "closed"
    client,   \* its Client: "making", "running" receive, "ended", "failed"
    addr,     \* the address it was made for
    closing,  \* client.closing
    servers,  \* the addresses an operation works on
    op,       \* "idle", "running", "returned"
    at,       \* where each worker is
    using,    \* the connection it makes or uses
    result,   \* how its call ended
    err,      \* of an operation: e, or what Call returns
    reply     \* of an operation: whose reply it was given

connVars == <<conn, client, addr, closing>>
opVars == <<servers, op, err, reply>>
workVars == <<at, using, result>>
vars == <<clients, mu, conn, client, addr, closing, servers, op, at, using,
          result, err, reply>>

Init ==
    /\ clients = [a \in Addresses |-> None]
    /\ mu = None
    /\ conn = [k \in Conns |-> "none"]
    /\ client = [k \in Conns |-> "none"]
    /\ addr = [k \in Conns |-> None]
    /\ closing = {}
    /\ servers = [o \in Ops |-> {}]
    /\ op = [o \in Ops |-> "idle"]
    /\ at = [w \in Workers |-> "none"]
    /\ using = [w \in Workers |-> None]
    /\ result = [w \in Workers |-> "none"]
    /\ err = [o \in Ops |-> FALSE]
    /\ reply = [o \in Ops |-> None]

Move(w, a, b) == at[w] = a /\ at' = [at EXCEPT ![w] = b]

\* The call of a worker has ended, with what xc.call returns.
Ends(w, a, res) ==
    /\ Move(w, a, "report")
    /\ result' = [result EXCEPT ![w] = res]
    /\ using' = [using EXCEPT ![w] = None]

-----------------------------------------------------------------------------
(* Call and Broadcast *)

\* A Broadcast has a goroutine for each server of GetAll.  A Call goes the
\* same way with the one server of Get, in the goroutine of its caller.
Start(o, as) ==
    /\ op[o] = "idle"
    /\ op' = [op EXCEPT ![o] = "running"]
    /\ servers' = [servers EXCEPT ![o] = as]
    /\ at' = [w \in Workers |-> IF w[1] = o /\ w[2] \in as THEN "dial" ELSE at[w]]
    /\ UNCHANGED <<clients, mu, connVars, using, result, err, reply>>

\* Mutant: e is the outcome of the last call, whatever it was.
Failure_Last(w) == result[w] = "error"
Failure(w) == err[w[1]] \/ result[w] = "error"

\* The end of a goroutine, under Broadcast's own mutex: the first error stays
\* and cancels the others (a call may always fail); the first reply is copied
\* (a reply that is nil is left alone, which nothing here depends on).
Report(w) ==
    /\ Move(w, "report", "done")
    /\ err' = [err EXCEPT ![w[1]] = Failure(w)]
    /\ reply' = IF result[w] = "ok" /\ reply[w[1]] = None
                THEN [reply EXCEPT ![w[1]] = w[2]] ELSE reply
    /\ UNCHANGED <<clients, mu, connVars, servers, op, using, result>>

Through(o) == \A a \in servers[o] : at[<<o, a>>] = "done"

Return(o) ==
    /\ op[o] = "running"
    /\ Through(o)
    /\ op' = [op EXCEPT ![o] = "returned"]
    /\ UNCHANGED <<clients, mu, connVars, workVars, servers, err, reply>>

-----------------------------------------------------------------------------
(* dial *)

Available(k) == client[k] = "running" /\ k \notin closing

DialCached(w) ==
    /\ mu = None
    /\ clients[w[2]] # None
    /\ Available(clients[w[2]])
    /\ Move(w, "dial", "call")
    /\ using' = [using EXCEPT ![w] = clients[w[2]]]
    /\ UNCHANGED <<clients, mu, connVars, opVars, result>>

\* client.Close() of the clients cached for `as`.
Close(as) ==
    LET ks == {clients[a] : a \in as} \ {None}
    IN  /\ closing' = closing \cup ks
        /\ conn' = [k \in Conns |-> IF k \in ks THEN "closed" ELSE conn[k]]

\* No client, or one that is gone, which is closed: on to XDial, with xc.mu.
DialNew(w) ==
    /\ mu = None
    /\ clients[w[2]] # None => ~Available(clients[w[2]])
    /\ Move(w, "dial", "connect")
    /\ mu' = w
    /\ Close({w[2]})
    /\ clients' = [clients EXCEPT ![w[2]] = None]
    /\ UNCHANGED <<client, addr, opVars, using, result>>

-----------------------------------------------------------------------------
(* dialTimeout *)

\* net.DialTimeout, then NewClient in a goroutine.
Connect(w, k) ==
    /\ Move(w, "connect", "making")
    /\ conn[k] = "none"
    /\ conn' = [conn EXCEPT ![k] = "up"]
    /\ client' = [client EXCEPT ![k] = "making"]
    /\ addr' = [addr EXCEPT ![k] = w[2]]
    /\ using' = [using EXCEPT ![w] = k]
    /\ UNCHANGED <<clients, mu, closing, opVars, result>>

\* NewClient or NewHTTPClient sends the options and starts receive, or fails,
\* as it must when the connection was closed under it before it was through.
MakeClient(k) ==
    /\ client[k] = "making"
    /\ client' = [client EXCEPT ![k] = "running"]
    /\ conn[k] # "closed"
    /\ UNCHANGED <<clients, mu, conn, addr, closing, opVars, workVars>>

MakeFails(k) ==
    /\ client[k] = "making"
    /\ client' = [client EXCEPT ![k] = "failed"]
    /\ UNCHANGED <<clients, mu, conn, addr, closing, opVars, workVars>>

\* dialTimeout receives the client, and dial caches it.
Made(w) ==
    /\ Move(w, "making", "call")
    /\ client[using[w]] \in {"running", "ended"}
    /\ clients' = [clients EXCEPT ![w[2]] = using[w]]
    /\ mu' = None
    /\ UNCHANGED <<connVars, opVars, using, result>>

\* Mutant: Unlock is not deferred, and an error skips it.
Released_Kept == mu
Released == None

ConnectFails(w) ==
    /\ Ends(w, "connect", "error")
    /\ mu' = Released
    /\ UNCHANGED <<clients, connVars, opVars>>

\* Mutant: the connection is only closed when NewClient has failed.
GivesUp_Failed(w) == client[using[w]] = "failed"
GivesUp(w) == TRUE

\* The result is an error, or the timer fires first, even with the client
\* ready: the deferred function closes the connection.
Abandon(w) ==
    /\ Ends(w, "making", "error")
    /\ mu' = Released
    /\ conn' = [conn EXCEPT ![using[w]] = IF GivesUp(w) THEN "closed" ELSE @]
    /\ UNCHANGED <<clients, client, addr, closing, opVars>>

-----------------------------------------------------------------------------
(* The Client *)

CallStarts(w) ==
    /\ Move(w, "call", "wait")
    /\ Available(using[w])
    /\ UNCHANGED <<clients, mu, connVars, opVars, using, result>>

\* The client was closed, or lost, since dial looked at it.
CallRefused(w) ==
    /\ Ends(w, "call", "error")
    /\ ~Available(using[w])
    /\ UNCHANGED <<clients, mu, connVars, opVars>>

CallSucceeds(w) ==
    /\ Ends(w, "wait", "ok")
    /\ client[using[w]] # "ended"
    /\ UNCHANGED <<clients, mu, connVars, opVars>>

\* The server says so, the connection goes, the context is cancelled.
CallFails(w) ==
    /\ Ends(w, "wait", "error")
    /\ UNCHANGED <<clients, mu, connVars, opVars>>

\* receive ends and sets shutdown; it does not close the connection.
ReceiveEnds(k) ==
    /\ client[k] = "running"
    /\ conn[k] # "up"
    /\ client' = [client EXCEPT ![k] = "ended"]
    /\ UNCHANGED <<clients, mu, conn, addr, closing, opVars, workVars>>

PeerGoes(k) ==
    /\ conn[k] = "up"
    /\ conn' = [conn EXCEPT ![k] = "lost"]
    /\ UNCHANGED <<clients, mu, client, addr, closing, opVars, workVars>>

-----------------------------------------------------------------------------
\* XClient.Close; the XClient can be used afterwards, and then dials again.
CloseAll ==
    /\ mu = None
    /\ \E a \in Addresses : clients[a] # None
    /\ Close(Addresses)
    /\ clients' = [a \in Addresses |-> None]
    /\ UNCHANGED <<mu, client, addr, opVars, workVars>>

LockStep(w) == DialCached(w) \/ DialNew(w)

WorkStep(w) ==
    \/ (\E k \in Conns : Connect(w, k)) \/ ConnectFails(w)
    \/ Made(w) \/ Abandon(w)
    \/ CallStarts(w) \/ CallRefused(w) \/ CallSucceeds(w) \/ CallFails(w)
    \/ Report(w)

ConnStep(k) == MakeClient(k) \/ MakeFails(k) \/ ReceiveEnds(k)

Next ==
    \/ \E o \in Ops : Return(o) \/ \E as \in SUBSET Addresses : Start(o, as)
    \/ \E w \in Workers : LockStep(w) \/ WorkStep(w)
    \/ \E k \in Conns : ConnStep(k) \/ PeerGoes(k)
    \/ CloseAll

Spec == Init /\ [][Next]_vars

ProgramStep ==
    \/ \E o \in Ops : Return(o)
    \/ \E w \in Workers : LockStep(w) \/ WorkStep(w)
    \/ \E k \in Conns : ConnStep(k)

\* As long as some goroutine can take a step, some goroutine does; a dial has
\* a timeout, and a call that was sent is answered or fails.  That is enough:
\* every operation has finitely many steps and runs once.
FairSpec == Spec /\ WF_vars(ProgramStep)

-----------------------------------------------------------------------------
(* Properties *)

Holding == {"connect", "making"}

\* Every variable stays in its range; xc.mu is held by the one worker that
\* is in XDial.
TypeOK ==
    /\ clients \in [Addresses -> Conns \cup {None}]
    /\ mu \in Workers \cup {None}
    /\ conn \in [Conns -> {"none", "up", "lost", "closed"}]
    /\ client \in [Conns -> {"none", "making", "running", "ended", "failed"}]
    /\ addr \in [Conns -> Addresses \cup {None}]
    /\ closing \subseteq Conns
    /\ servers \in [Ops -> SUBSET Addresses]
    /\ op \in [Ops -> {"idle", "running", "returned"}]
    /\ at \in [Workers -> Holding \cup {"none", "dial", "call", "wait", "report", "done"}]
    /\ using \in [Workers -> Conns \cup {None}]
    /\ result \in [Workers -> {"none", "ok", "error"}]
    /\ err \in [Ops -> BOOLEAN]
    /\ reply \in [Ops -> Addresses \cup {None}]
    /\ \A w \in Workers : at[w] \in Holding <=> mu = w

\* No connection leaks: one that is open is in the cache under its address,
\* where Close and the next dial find it, or is being made; a client that
\* dialTimeout no longer waited for is not among them, and one that was
\* replaced is closed.
NoLeak ==
    \A k \in Conns : conn[k] \in {"up", "lost"} =>
        \/ clients[addr[k]] = k
        \/ \E w \in Workers : at[w] = "making" /\ using[w] = k

\* A Broadcast returns nil exactly when every server has carried it out, and
\* then with the reply of one of them; with no server at all there is none.
BroadcastOutcome ==
    \A o \in Ops : op[o] = "returned" =>
        /\ err[o] = (\E a \in servers[o] : result[<<o, a>>] # "ok")
        /\ ~err[o] /\ servers[o] # {} => reply[o] \in servers[o]

\* Every operation returns, though all dials wait for one another.
EveryOpReturns == \A o \in Ops : op[o] # "idle" ~> op[o] = "returned"
=============================================================================
