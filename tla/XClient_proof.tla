--------------------------- MODULE XClient_proof ----------------------------
(***************************************************************************)
(* No connection leaks and a Broadcast returns what its calls came to: for *)
(* any sets of addresses and operations and any number of connections.     *)
(***************************************************************************)
EXTENDS XClient, TLAPS

\* The worker in XDial has no client in the cache, and makes one for its
\* address.
Dialling(w) ==
    /\ at[w] \in Holding => clients[w[2]] = None
    /\ at[w] = "making" => using[w] \in Conns /\ addr[using[w]] = w[2]

\* A worker exists for the servers of an operation that has started.
Works(o, a) ==
    /\ at[<<o, a>>] # "none" => op[o] # "idle"
    /\ op[o] # "idle" => (a \in servers[o] <=> at[<<o, a>>] # "none")
    /\ at[<<o, a>>] \in {"report", "done"} => result[<<o, a>>] # "none"

\* What an operation has been told by the workers that are done.
Told(o) ==
    /\ \A a \in Addresses :
          at[<<o, a>>] = "done" /\ result[<<o, a>>] = "error" => err[o]
    /\ err[o] => \E a \in Addresses :
          at[<<o, a>>] = "done" /\ result[<<o, a>>] = "error"
    /\ \A a \in Addresses :
          at[<<o, a>>] = "done" /\ result[<<o, a>>] = "ok" => reply[o] # None
    /\ reply[o] # None => op[o] # "idle" /\ reply[o] \in servers[o]
    /\ op[o] = "returned" => Through(o)

OpsInv == \A o \in Ops : Told(o) /\ \A a \in Addresses : Works(o, a)

WorkersInv == \A w \in Workers : Dialling(w)

\* A connection that is open was made for an address.
ConnsInv ==
    NoLeak /\ \A k \in Conns : conn[k] \in {"up", "lost"} => addr[k] \in Addresses

IInv == TypeOK /\ ConnsInv /\ WorkersInv /\ OpsInv

-----------------------------------------------------------------------------
USE NoneAssumption

LEMMA WorkerIsPair ==
  ASSUME NEW w \in Workers
  PROVE  w[1] \in Ops /\ w[2] \in Addresses /\ w = <<w[1], w[2]>>
BY DEF Workers

LEMMA InitHolds == Init => IInv
<1> SUFFICES ASSUME Init  PROVE IInv
  OBVIOUS
<1>1. TypeOK
  BY DEF Init, TypeOK, Holding
<1>2. ConnsInv
  BY DEF Init, NoLeak, ConnsInv
<1>3. WorkersInv
  BY DEF Init, WorkersInv, Dialling, Holding
<1>4. OpsInv
  <2>1. ASSUME NEW o \in Ops, NEW a \in Addresses  PROVE at[<<o, a>>] = "none"
    BY DEF Init, Workers
  <2> QED  BY <2>1 DEF Init, OpsInv, Told, Works
<1> QED  BY <1>1, <1>2, <1>3, <1>4 DEF IInv

-----------------------------------------------------------------------------
(* What operations have been told: steps that do not report leave it alone. *)

\* A worker that moves on, but neither starts nor is done, tells its
\* operation nothing.
LEMMA MovesOn ==
  ASSUME NEW w \in Workers, NEW b, TypeOK, OpsInv, UNCHANGED opVars,
         at' = [at EXCEPT ![w] = b],
         at[w] \notin {"none", "done"}, b \notin {"none", "done"},
         \/ b # "report" /\ result' = result
         \/ b = "report" /\ \E res \in {"ok", "error"} :
                               result' = [result EXCEPT ![w] = res]
  PROVE  OpsInv'
<1>1. /\ UNCHANGED <<servers, op, err, reply>>
      /\ \A v \in Workers : at'[v] = IF v = w THEN b ELSE at[v]
      /\ \A v \in Workers : v # w => result'[v] = result[v]
      /\ b = "report" => result'[w] # "none"
  BY DEF TypeOK, opVars
<1>2. ASSUME NEW o \in Ops, NEW a \in Addresses
      PROVE  /\ Works(o, a)'
             /\ at'[<<o, a>>] = "done" <=> at[<<o, a>>] = "done"
             /\ at[<<o, a>>] = "done" => result'[<<o, a>>] = result[<<o, a>>]
  <2>1. <<o, a>> \in Workers /\ Works(o, a)
    BY DEF Workers, OpsInv
  <2>2. CASE <<o, a>> = w
    BY <1>1, <2>1, <2>2 DEF Works
  <2>3. CASE <<o, a>> # w
    BY <1>1, <2>1, <2>3 DEF Works
  <2> QED  BY <2>2, <2>3
<1>3. ASSUME NEW o \in Ops  PROVE Told(o)'
  <2>1. Told(o) /\ servers[o] \subseteq Addresses
    BY DEF OpsInv, TypeOK
  <2> QED  BY <1>1, <1>2, <2>1 DEF Told, Through
<1> QED  BY <1>2, <1>3 DEF OpsInv

LEMMA OpsKept ==
  OpsInv /\ UNCHANGED <<opVars, at, result>> => OpsInv'
BY DEF OpsInv, opVars, Told, Works, Through

\* The steps of operations themselves.
LEMMA OpStep ==
  ASSUME NEW o \in Ops, TypeOK, OpsInv,
         \/ Return(o)
         \/ \E as \in SUBSET Addresses : Start(o, as)
         \/ \E a \in Addresses : Report(<<o, a>>)
  PROVE  OpsInv'
<1>1. /\ \A q \in Ops : Told(q) /\ servers[q] \subseteq Addresses
      /\ \A q \in Ops, a \in Addresses : Works(q, a) /\ <<q, a>> \in Workers
  BY DEF OpsInv, TypeOK, Workers
<1>2. CASE Return(o)
  <2>1. /\ op[o] = "running" /\ Through(o)
        /\ \A q \in Ops : op'[q] = IF q = o THEN "returned" ELSE op[q]
        /\ UNCHANGED <<servers, at, result, err, reply>>
    BY <1>2 DEF Return, TypeOK, workVars
  <2>2. ASSUME NEW q \in Ops  PROVE Told(q)'
    <3>1. CASE q = o
      BY <1>1, <2>1, <3>1 DEF Told, Through
    <3>2. CASE q # o
      BY <1>1, <2>1, <3>2 DEF Told, Through
    <3> QED  BY <3>1, <3>2
  <2>3. ASSUME NEW q \in Ops, NEW a \in Addresses  PROVE Works(q, a)'
    BY <1>1, <2>1 DEF Works
  <2> QED  BY <2>2, <2>3 DEF OpsInv
<1>3. ASSUME NEW as \in SUBSET Addresses, Start(o, as)  PROVE OpsInv'
  <2> DEFINE Kept(q) ==
        /\ op'[q] = op[q] /\ servers'[q] = servers[q]
        /\ err'[q] = err[q] /\ reply'[q] = reply[q]
        /\ \A c \in Addresses : /\ at'[<<q, c>>] = at[<<q, c>>]
                                /\ result'[<<q, c>>] = result[<<q, c>>]
  <2>1. /\ op[o] = "idle"
        /\ \A q \in Ops : op'[q] = IF q = o THEN "running" ELSE op[q]
        /\ \A q \in Ops : servers'[q] = IF q = o THEN as ELSE servers[q]
        /\ \A q \in Ops, a \in Addresses :
              at'[<<q, a>>] = IF q = o /\ a \in as THEN "dial" ELSE at[<<q, a>>]
        /\ UNCHANGED <<result, err, reply>>
    BY <1>1, <1>3 DEF Start, TypeOK
  <2>2. \A a \in Addresses : at[<<o, a>>] = "none"
    BY <1>1, <2>1 DEF Works
  <2>3. ASSUME NEW q \in Ops  PROVE Told(q)'
    <3>1. CASE q = o
      BY <1>1, <2>1, <2>2, <3>1 DEF Told, Through
    <3>2. CASE q # o
      <4>1. Told(q) /\ Kept(q) /\ servers[q] \subseteq Addresses
        BY <1>1, <2>1, <3>2
      <4> QED  BY <4>1 DEF Told, Through
    <3> QED  BY <3>1, <3>2
  <2>4. ASSUME NEW q \in Ops, NEW a \in Addresses  PROVE Works(q, a)'
    <3>1. CASE q = o
      BY <1>1, <2>1, <2>2, <3>1 DEF Works
    <3>2. CASE q # o
      <4>1. Works(q, a) /\ Kept(q)
        BY <1>1, <2>1, <3>2
      <4> QED  BY <4>1 DEF Works
    <3> QED  BY <3>1, <3>2
  <2> QED  BY <2>3, <2>4 DEF OpsInv
<1>4. ASSUME NEW a \in Addresses, Report(<<o, a>>)  PROVE OpsInv'
  <2>1. /\ at[<<o, a>>] = "report"
        /\ \A v \in Workers : at'[v] = IF v = <<o, a>> THEN "done" ELSE at[v]
        /\ \A q \in Ops \ {o} : err'[q] = err[q] /\ reply'[q] = reply[q]
        /\ err'[o] = (err[o] \/ result[<<o, a>>] = "error")
        /\ reply'[o] = IF result[<<o, a>>] = "ok" /\ reply[o] = None
                       THEN a ELSE reply[o]
        /\ UNCHANGED <<servers, op, result>>
    <3>1. <<o, a>> \in Workers /\ <<o, a>>[1] = o /\ <<o, a>>[2] = a
      BY <1>1
    <3> QED  BY <1>4, <3>1 DEF Report, Move, Failure, TypeOK
  <2>2. result[<<o, a>>] \in {"ok", "error"} /\ a \in servers[o]
        /\ op[o] \notin {"idle", "returned"} /\ a # None
    BY <1>1, <2>1 DEF Works, Told, Through, TypeOK
  <2>3. ASSUME NEW q \in Ops  PROVE Told(q)'
    <3>1. CASE q = o
      <4>1. \A c \in Addresses :
               at'[<<o, c>>] = IF c = a THEN "done" ELSE at[<<o, c>>]
        BY <1>1, <2>1
      <4>2. Told(o)
        BY <1>1
      <4>3. /\ \A c \in Addresses :
                  at'[<<o, c>>] = "done" /\ result[<<o, c>>] = "error" => err'[o]
            /\ err'[o] => \E c \in Addresses :
                  at'[<<o, c>>] = "done" /\ result[<<o, c>>] = "error"
        BY <2>1, <4>1, <4>2 DEF Told
      <4>4. /\ \A c \in Addresses :
                  at'[<<o, c>>] = "done" /\ result[<<o, c>>] = "ok"
                  => reply'[o] # None
            /\ reply'[o] # None => reply'[o] \in servers[o]
        BY <2>1, <2>2, <4>1, <4>2 DEF Told
      <4> QED  BY <2>1, <2>2, <3>1, <4>3, <4>4 DEF Told
    <3>2. CASE q # o
      <4>1. /\ \A c \in Addresses : at'[<<q, c>>] = at[<<q, c>>]
            /\ servers[q] \subseteq Addresses
        BY <1>1, <2>1, <3>2
      <4> QED  BY <1>1, <2>1, <3>2, <4>1 DEF Told, Through
    <3> QED  BY <3>1, <3>2
  <2>4. ASSUME NEW q \in Ops, NEW c \in Addresses  PROVE Works(q, c)'
    BY <1>1, <2>1, <2>2 DEF Works
  <2> QED  BY <2>3, <2>4 DEF OpsInv
<1> QED  BY <1>2, <1>3, <1>4

-----------------------------------------------------------------------------
(* Connections: who opens, keeps and closes them. *)

\* A step that opens no connection, leaves the cache alone and lets no worker
\* into or out of the making of a client.
LEMMA CacheKept ==
  ASSUME ConnsInv, WorkersInv, UNCHANGED <<clients, addr>>,
         \A k \in Conns : conn'[k] \in {"up", "lost"} => conn[k] \in {"up", "lost"},
         \A w \in Workers : /\ at'[w] \in Holding => at[w] \in Holding
                            /\ at'[w] = "making" <=> at[w] = "making"
                            /\ at[w] = "making" => using'[w] = using[w]
  PROVE  ConnsInv' /\ WorkersInv'
BY DEF ConnsInv, NoLeak, WorkersInv, Dialling

\* A worker that moves outside of XDial.
LEMMA CallStep ==
  ASSUME NEW w \in Workers, IInv,
         \/ DialCached(w) \/ CallStarts(w) \/ CallRefused(w) \/ CallSucceeds(w)
         \/ CallFails(w) \/ ConnectFails(w)
  PROVE  IInv'
<1>1. TypeOK /\ w[1] \in Ops /\ w[2] \in Addresses
  BY WorkerIsPair DEF IInv
<1>2. TypeOK'
  BY <1>1 DEF TypeOK, DialCached, CallStarts, CallRefused, CallSucceeds,
              CallFails, ConnectFails, Ends, Move, Released, Holding, connVars,
              opVars
<1>3. ConnsInv' /\ WorkersInv'
  <2>1. /\ UNCHANGED <<clients, addr, conn>>
        /\ \A v \in Workers : v # w => at'[v] = at[v] /\ using'[v] = using[v]
        /\ at[w] # "making" /\ at'[w] \notin Holding
    BY <1>1 DEF TypeOK, DialCached, CallStarts, CallRefused, CallSucceeds,
                CallFails, ConnectFails, Ends, Move, Holding, connVars
  <2>2. at[w] # "making" /\ at'[w] # "making"
    BY <2>1 DEF Holding
  <2> QED  BY <2>1, <2>2, CacheKept DEF IInv
<1>4. OpsInv'
  <2>1. CASE DialCached(w)
    BY <1>1, <2>1, MovesOn DEF IInv, DialCached, Move
  <2>2. CASE CallStarts(w)
    BY <1>1, <2>2, MovesOn DEF IInv, CallStarts, Move
  <2>3. ASSUME NEW a \in {"call", "wait", "connect"}, NEW res \in {"ok", "error"},
               Ends(w, a, res), UNCHANGED opVars
        PROVE  OpsInv'
    <3>1. /\ at' = [at EXCEPT ![w] = "report"]
          /\ at[w] \notin {"none", "done"}
          /\ result' = [result EXCEPT ![w] = res]
      BY <2>3 DEF Ends, Move
    <3> QED  BY <1>1, <2>3, <3>1, MovesOn DEF IInv
  <2> QED  BY <2>1, <2>2, <2>3
           DEF CallRefused, CallSucceeds, CallFails, ConnectFails
<1> QED  BY <1>2, <1>3, <1>4 DEF IInv

LEMMA ConnectionStep ==
  ASSUME NEW k \in Conns, IInv, ConnStep(k) \/ PeerGoes(k)
  PROVE  IInv'
<1>1. TypeOK
  BY DEF IInv
<1>2. TypeOK'
  BY <1>1 DEF TypeOK, ConnStep, MakeClient, MakeFails, ReceiveEnds, PeerGoes,
              opVars, workVars
<1>3. /\ UNCHANGED <<clients, addr, at, using, result, opVars>>
      /\ \A c \in Conns : conn'[c] \in {"up", "lost"} => conn[c] \in {"up", "lost"}
  BY <1>1 DEF TypeOK, ConnStep, MakeClient, MakeFails, ReceiveEnds, PeerGoes,
              workVars
<1>4. ConnsInv' /\ WorkersInv'
  BY <1>3, CacheKept DEF IInv
<1> QED  BY <1>2, <1>3, <1>4, OpsKept DEF IInv

LEMMA OperationStep ==
  ASSUME NEW o \in Ops, IInv,
         \/ Return(o)
         \/ \E as \in SUBSET Addresses : Start(o, as)
         \/ \E a \in Addresses : Report(<<o, a>>)
  PROVE  IInv'
<1>1. TypeOK /\ \A a \in Addresses : Works(o, a)
  BY DEF IInv, OpsInv
<1>2. UNCHANGED <<clients, mu, connVars, using, result>>
  BY DEF Return, Start, Report, workVars
<1>3. \A w \in Workers : \/ at'[w] = at[w]
                         \/ at[w] \notin Holding /\ at'[w] \in {"dial", "done"}
  <2>1. CASE Return(o)
    BY <2>1 DEF Return, workVars
  <2>2. ASSUME NEW as \in SUBSET Addresses, Start(o, as),
               NEW w \in Workers, at'[w] # at[w]
        PROVE  at[w] \notin Holding /\ at'[w] \in {"dial", "done"}
    <3>1. w[1] = o /\ w[2] \in Addresses /\ w = <<o, w[2]>> /\ at'[w] = "dial"
      BY <2>2, WorkerIsPair DEF Start
    <3>2. op[o] = "idle" /\ Works(o, w[2])
      BY <1>1, <2>2, <3>1 DEF Start
    <3> QED  BY <3>1, <3>2 DEF Works, Holding
  <2>3. ASSUME NEW a \in Addresses, Report(<<o, a>>)
        PROVE  \A w \in Workers : \/ at'[w] = at[w]
                                  \/ at[w] \notin Holding /\ at'[w] = "done"
    BY <1>1, <2>3 DEF Report, Move, TypeOK, Holding
  <2> QED  BY <2>1, <2>2, <2>3
<1>4. TypeOK'
  <2>1. /\ servers' \in [Ops -> SUBSET Addresses]
        /\ op' \in [Ops -> {"idle", "running", "returned"}]
        /\ err' \in [Ops -> BOOLEAN]
        /\ reply' \in [Ops -> Addresses \cup {None}]
        /\ at' \in [Workers -> Holding \cup {"none", "dial", "call", "wait",
                                             "report", "done"}]
    <3>1. CASE Return(o)
      BY <1>1, <3>1 DEF Return, TypeOK, workVars
    <3>2. ASSUME NEW as \in SUBSET Addresses, Start(o, as)
          PROVE  /\ op' \in [Ops -> {"idle", "running", "returned"}]
                 /\ servers' \in [Ops -> SUBSET Addresses]
                 /\ UNCHANGED <<err, reply>>
                 /\ at' \in [Workers -> Holding \cup {"none", "dial", "call",
                                                      "wait", "report", "done"}]
      <4>1. /\ op' \in [Ops -> {"idle", "running", "returned"}]
            /\ servers' \in [Ops -> SUBSET Addresses]
            /\ UNCHANGED <<err, reply>>
        BY <1>1, <3>2 DEF Start, TypeOK
      <4>2. at' = [w \in Workers |->
                     IF w[1] = o /\ w[2] \in as THEN "dial" ELSE at[w]]
        BY <3>2 DEF Start
      <4>3. \A w \in Workers : at[w] \in Holding \cup
               {"none", "dial", "call", "wait", "report", "done"}
        BY <1>1 DEF TypeOK
      <4> QED  BY <4>1, <4>2, <4>3
    <3>3. ASSUME NEW a \in Addresses, Report(<<o, a>>)
          PROVE  /\ err' \in [Ops -> BOOLEAN]
                 /\ reply' \in [Ops -> Addresses \cup {None}]
                 /\ at' \in [Workers -> Holding \cup {"none", "dial", "call",
                                                      "wait", "report", "done"}]
                 /\ UNCHANGED <<servers, op>>
      BY <1>1, <3>3 DEF Report, Move, Failure, TypeOK
    <3> QED  BY <1>1, <3>1, <3>2, <3>3 DEF TypeOK
  <2>2. \A w \in Workers : at'[w] \in Holding <=> at[w] \in Holding
    BY <1>3 DEF Holding
  <2> QED  BY <1>1, <1>2, <2>1, <2>2 DEF TypeOK, connVars
<1>5. ConnsInv' /\ WorkersInv'
  BY <1>2, <1>3, CacheKept DEF IInv, connVars, Holding
<1> QED  BY <1>1, <1>4, <1>5, OpStep DEF IInv

\* The clients of `as` are closed and taken from the cache: by dial for one
\* address, by Close for all.
LEMMA Closed ==
  ASSUME NEW as \in SUBSET Addresses, TypeOK, ConnsInv, Close(as),
         clients' = [a \in Addresses |-> IF a \in as THEN None ELSE clients[a]],
         UNCHANGED <<client, addr, using>>,
         \A w \in Workers : at[w] = "making" => at'[w] = "making"
  PROVE  /\ ConnsInv'
         /\ conn' \in [Conns -> {"none", "up", "lost", "closed"}]
         /\ closing' \subseteq Conns
         /\ clients' \in [Addresses -> Conns \cup {None}]
<1> DEFINE ks == {clients[a] : a \in as} \ {None}
<1>1. ks \subseteq Conns /\ \A a \in as : clients[a] \in Conns => clients[a] \in ks
  <2>1. as \subseteq Addresses /\ None \notin Conns
        /\ \A a \in Addresses : clients[a] \in Conns \cup {None}
    BY DEF TypeOK
  <2> QED  BY <2>1
<1>2. /\ closing' = closing \cup ks
      /\ conn' = [k \in Conns |-> IF k \in ks THEN "closed" ELSE conn[k]]
  BY DEF Close
<1> HIDE DEF ks
<1>3. /\ closing' \subseteq Conns
      /\ conn' \in [Conns -> {"none", "up", "lost", "closed"}]
      /\ clients' \in [Addresses -> Conns \cup {None}]
  <2>1. closing' \subseteq Conns
    BY <1>1, <1>2 DEF TypeOK
  <2>2. \A k \in Conns : conn[k] \in {"none", "up", "lost", "closed"}
    BY DEF TypeOK
  <2>3. conn' \in [Conns -> {"none", "up", "lost", "closed"}]
    BY <1>2, <2>2
  <2>4. \A a \in Addresses : clients[a] \in Conns \cup {None}
    BY DEF TypeOK
  <2> QED  BY <2>1, <2>3, <2>4
<1>4. ASSUME NEW k \in Conns, conn'[k] \in {"up", "lost"}
      PROVE  conn[k] \in {"up", "lost"} /\ \A a \in as : clients[a] # k
  BY <1>1, <1>2, <1>4
<1>5. ASSUME NEW k \in Conns, conn'[k] \in {"up", "lost"}
      PROVE  /\ addr[k] \in Addresses
             /\ \/ clients'[addr[k]] = k
                \/ \E w \in Workers : at'[w] = "making" /\ using[w] = k
  BY <1>4, <1>5 DEF ConnsInv, NoLeak
<1> QED  BY <1>3, <1>5 DEF ConnsInv, NoLeak

\* dial goes on to XDial, and Close.
LEMMA CloseStep ==
  ASSUME IInv, CloseAll \/ \E w \in Workers : DialNew(w)
  PROVE  IInv'
<1>1. TypeOK /\ WorkersInv /\ OpsInv /\ mu = None
  BY DEF IInv, CloseAll, DialNew
<1>2. \A w \in Workers : at[w] \notin Holding
  BY <1>1 DEF TypeOK
<1>3. CASE CloseAll
  <2>1. clients' = [a \in Addresses |-> IF a \in Addresses THEN None ELSE clients[a]]
    BY <1>3 DEF CloseAll
  <2>2. UNCHANGED <<mu, client, addr, opVars, at, using, result>> /\ Close(Addresses)
    BY <1>3 DEF CloseAll, workVars
  <2>3. /\ ConnsInv'
        /\ conn' \in [Conns -> {"none", "up", "lost", "closed"}]
        /\ closing' \subseteq Conns
        /\ clients' \in [Addresses -> Conns \cup {None}]
    BY <1>1, <2>1, <2>2, Closed DEF IInv
  <2>4. TypeOK'
    BY <1>1, <2>2, <2>3 DEF TypeOK, opVars
  <2>5. WorkersInv'
    BY <1>2, <2>2 DEF WorkersInv, Dialling, Holding
  <2> QED  BY <1>1, <2>2, <2>3, <2>4, <2>5, OpsKept DEF IInv
<1>4. ASSUME NEW w \in Workers, DialNew(w)  PROVE IInv'
  <2>1. w[2] \in Addresses /\ {w[2]} \in SUBSET Addresses
    BY WorkerIsPair
  <2>2. /\ clients' = [a \in Addresses |-> IF a \in {w[2]} THEN None ELSE clients[a]]
        /\ mu' = w /\ UNCHANGED <<client, addr, opVars, using, result>>
        /\ at[w] = "dial" /\ at' = [at EXCEPT ![w] = "connect"]
        /\ Close({w[2]})
    BY <1>1, <1>4, <2>1 DEF DialNew, Move, TypeOK
  <2>3. /\ ConnsInv'
        /\ conn' \in [Conns -> {"none", "up", "lost", "closed"}]
        /\ closing' \subseteq Conns
        /\ clients' \in [Addresses -> Conns \cup {None}]
    BY <1>1, <1>2, <2>1, <2>2, Closed DEF IInv, Holding
  <2>4. TypeOK'
    BY <1>1, <1>2, <2>2, <2>3 DEF TypeOK, opVars, Holding
  <2>5. WorkersInv'
    BY <1>1, <1>2, <2>1, <2>2 DEF WorkersInv, Dialling, Holding, TypeOK
  <2>6. OpsInv'
    BY <1>1, <2>2, MovesOn
  <2> QED  BY <2>3, <2>4, <2>5, <2>6 DEF IInv
<1> QED  BY <1>3, <1>4

\* The steps of the worker in XDial that make a connection, give it to the
\* cache, or give it up.
LEMMA DialStep ==
  ASSUME NEW w \in Workers, IInv,
         Made(w) \/ Abandon(w) \/ \E k \in Conns : Connect(w, k)
  PROVE  IInv'
<1>1. /\ TypeOK /\ ConnsInv /\ WorkersInv /\ OpsInv
      /\ at[w] \in Holding /\ w[2] \in Addresses
  BY WorkerIsPair DEF IInv, Made, Abandon, Connect, Ends, Move, Holding
<1>2. /\ mu = w /\ \A v \in Workers : v # w => at[v] \notin Holding
      /\ clients[w[2]] = None
  BY <1>1 DEF TypeOK, WorkersInv, Dialling
<1>3. ASSUME NEW k \in Conns, Connect(w, k)  PROVE IInv'
  <2>1. /\ at[w] = "connect" /\ at' = [at EXCEPT ![w] = "making"]
        /\ conn[k] = "none" /\ conn' = [conn EXCEPT ![k] = "up"]
        /\ addr' = [addr EXCEPT ![k] = w[2]]
        /\ using' = [using EXCEPT ![w] = k]
        /\ UNCHANGED <<clients, mu, closing, opVars, result>>
        /\ client' = [client EXCEPT ![k] = "making"]
    BY <1>3 DEF Connect, Move
  <2>2. TypeOK'
    BY <1>1, <1>2, <2>1 DEF TypeOK, opVars, Holding
  <2>3. ConnsInv'
    <3>1. ASSUME NEW c \in Conns, conn'[c] \in {"up", "lost"}
          PROVE  /\ addr'[c] \in Addresses
                 /\ \/ clients'[addr'[c]] = c
                    \/ \E v \in Workers : at'[v] = "making" /\ using'[v] = c
      <4>1. CASE c = k
        BY <1>1, <2>1, <4>1 DEF TypeOK
      <4>2. CASE c # k
        BY <1>1, <1>2, <2>1, <3>1, <4>2 DEF TypeOK, ConnsInv, NoLeak, Holding
      <4> QED  BY <4>1, <4>2
    <3> QED  BY <3>1 DEF ConnsInv, NoLeak
  <2>4. WorkersInv'
    BY <1>1, <1>2, <2>1 DEF WorkersInv, Dialling, Holding, TypeOK
  <2>5. OpsInv'
    BY <1>1, <2>1, MovesOn
  <2> QED  BY <2>2, <2>3, <2>4, <2>5 DEF IInv
<1>4. CASE Made(w)
  <2>1. /\ at[w] = "making" /\ at' = [at EXCEPT ![w] = "call"]
        /\ clients' = [clients EXCEPT ![w[2]] = using[w]] /\ mu' = None
        /\ UNCHANGED <<connVars, opVars, using, result>>
        /\ using[w] \in Conns /\ addr[using[w]] = w[2]
    BY <1>1, <1>4 DEF Made, Move, WorkersInv, Dialling
  <2>2. TypeOK'
    BY <1>1, <1>2, <2>1 DEF TypeOK, opVars, connVars, Holding
  <2>3. ConnsInv'
    <3>1. ASSUME NEW c \in Conns, conn[c] \in {"up", "lost"}
          PROVE  clients'[addr[c]] = c /\ addr[c] \in Addresses
      <4>1. addr[c] \in Addresses /\ c # None
        BY <1>1, <3>1 DEF ConnsInv
      <4>2. CASE c = using[w]
        BY <1>1, <2>1, <4>1, <4>2 DEF TypeOK
      <4>3. CASE c # using[w]
        BY <1>1, <1>2, <2>1, <3>1, <4>1, <4>3 DEF TypeOK, ConnsInv, NoLeak, Holding
      <4> QED  BY <4>1, <4>2, <4>3
    <3> QED  BY <2>1, <3>1 DEF ConnsInv, NoLeak, connVars
  <2>4. WorkersInv'
    BY <1>1, <1>2, <2>1 DEF WorkersInv, Dialling, Holding, TypeOK
  <2>5. OpsInv'
    BY <1>1, <2>1, MovesOn
  <2> QED  BY <2>2, <2>3, <2>4, <2>5 DEF IInv
<1>5. CASE Abandon(w)
  <2>1. /\ at[w] = "making" /\ at' = [at EXCEPT ![w] = "report"]
        /\ result' = [result EXCEPT ![w] = "error"]
        /\ using' = [using EXCEPT ![w] = None]
        /\ mu' = None
        /\ conn' = [conn EXCEPT ![using[w]] = "closed"]
        /\ UNCHANGED <<clients, client, addr, closing, opVars>>
    BY <1>5 DEF Abandon, Ends, Move, Released, GivesUp
  <2>2. TypeOK'
    BY <1>1, <1>2, <2>1 DEF TypeOK, opVars, Holding
  <2>3. ConnsInv'
    BY <1>1, <1>2, <2>1 DEF TypeOK, ConnsInv, NoLeak, Holding
  <2>4. WorkersInv'
    BY <1>1, <1>2, <2>1 DEF WorkersInv, Dialling, Holding, TypeOK
  <2>5. OpsInv'
    BY <1>1, <2>1, MovesOn
  <2> QED  BY <2>2, <2>3, <2>4, <2>5 DEF IInv
<1> QED  BY <1>3, <1>4, <1>5

LEMMA StepKeeps == IInv /\ [Next]_vars => IInv'
<1> SUFFICES ASSUME IInv, [Next]_vars  PROVE IInv'
  OBVIOUS
<1>1. CASE UNCHANGED vars
  <2>1. TypeOK' /\ OpsInv' /\ ConnsInv' /\ WorkersInv'
    BY <1>1, OpsKept, CacheKept
       DEF IInv, vars, connVars, opVars, workVars, TypeOK
  <2> QED  BY <2>1 DEF IInv
<1>2. ASSUME NEW o \in Ops, Return(o) \/ \E as \in SUBSET Addresses : Start(o, as)
      PROVE  IInv'
  BY <1>2, OperationStep
<1>3. ASSUME NEW w \in Workers, LockStep(w) \/ WorkStep(w)  PROVE IInv'
  <2>1. CASE Report(w)
    BY <2>1, WorkerIsPair, OperationStep
  <2> QED  BY <1>3, <2>1, CallStep, CloseStep, DialStep DEF LockStep, WorkStep
<1>4. ASSUME NEW k \in Conns, ConnStep(k) \/ PeerGoes(k)  PROVE IInv'
  BY <1>4, ConnectionStep
<1>5. CASE CloseAll
  BY <1>5, CloseStep
<1> QED  BY <1>1, <1>2, <1>3, <1>4, <1>5 DEF Next

LEMMA Invariance == Spec => []IInv
BY InitHolds, StepKeeps, PTL DEF Spec

-----------------------------------------------------------------------------
(* The theorems *)

\* The type invariant, with xc.mu held by the one worker in XDial, for any
\* number of addresses, operations and connections.
THEOREM TypeCorrect == Spec => []TypeOK
<1>1. IInv => TypeOK
  BY DEF IInv
<1> QED  BY <1>1, Invariance, PTL

\* No connection leaks: whatever dials, fails, is abandoned, replaced or
\* closed, an open connection is in the cache or being made.
THEOREM ConnectionsKept == Spec => []NoLeak
<1>1. IInv => NoLeak
  BY DEF IInv, ConnsInv
<1> QED  BY <1>1, Invariance, PTL

\* What Call and Broadcast return is what the calls of all their servers came
\* to, in whatever order these end.
THEOREM OutcomeOfAll == Spec => []BroadcastOutcome
<1>1. IInv => BroadcastOutcome
  <2> SUFFICES ASSUME IInv, NEW o \in Ops, op[o] = "returned"
               PROVE  /\ err[o] = (\E a \in servers[o] : result[<<o, a>>] # "ok")
                      /\ ~err[o] /\ servers[o] # {} => reply[o] \in servers[o]
    BY DEF BroadcastOutcome
  <2>1. /\ Told(o) /\ Through(o) /\ servers[o] \subseteq Addresses
        /\ err[o] \in BOOLEAN
        /\ \A a \in Addresses : Works(o, a) /\ <<o, a>> \in Workers
    BY DEF IInv, OpsInv, Told, TypeOK, Workers
  <2>2. \A a \in servers[o] : at[<<o, a>>] = "done" /\
                              result[<<o, a>>] \in {"ok", "error"}
    BY <2>1 DEF IInv, TypeOK, Works, Through
  <2>3. \A a \in Addresses : at[<<o, a>>] = "done" => a \in servers[o]
    BY <2>1 DEF Works
  <2>4. err[o] <=> \E a \in servers[o] : result[<<o, a>>] # "ok"
    BY <2>1, <2>2, <2>3 DEF Told
  <2>5. ~err[o] /\ servers[o] # {} => reply[o] \in servers[o]
    BY <2>1, <2>2, <2>4 DEF Told
  <2> QED  BY <2>1, <2>4, <2>5
<1> QED  BY <1>1, Invariance, PTL
=============================================================================
