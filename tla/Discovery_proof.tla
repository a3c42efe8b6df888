-------------------------- MODULE Discovery_proof ---------------------------
(***************************************************************************)
(* A prompt server stays listed, and Get names no server that is too old:  *)
(* for any sets of servers and getters, any timeouts, and a clock of any   *)
(* length.                                                                 *)
(***************************************************************************)
EXTENDS Discovery, FiniteSetTheorems, TLAPS

\* The times a server leaves behind: in the registry, and in its ticker.
Stamp(s) ==
    /\ start[s] # None => start[s] = seen[s]
    /\ seen[s] <= now
    /\ beating[s] => now <= due[s] + Delay
    /\ beating[s] /\ s \notin missed =>
          start[s] # None /\ due[s] <= start[s] + Interval

\* A server in the client's list was alive when the registry made the list,
\* and so was one in an answer that is on its way.
Copied(s) ==
    /\ s \in list =>
          /\ seen[s] # None
          /\ Timeout # 0 => seen[s] + Timeout + travel > lastUpdate
    /\ s \in answer.servers =>
          /\ seen[s] # None
          /\ Timeout # 0 => seen[s] + Timeout > answer.at

\* A Get that is about to select has seen a list that was fresh.
Current(g) == pc[g] = "select" => asked[g] < lastUpdate + UpdateTimeout

IInv ==
    /\ TypeOK
    /\ lastUpdate <= now /\ answer.at <= now
    /\ \A s \in Servers : Stamp(s) /\ Copied(s)
    /\ \A g \in Getters : Current(g)

-----------------------------------------------------------------------------
USE AddressAssumption, TimeAssumption, PromptAssumption, GettersAssumption

LEMMA Numbers ==
  /\ None = -1
  /\ Timeout \in Nat /\ Delay \in Nat /\ MaxTime \in Nat
  /\ Interval \in Nat \ {0} /\ UpdateTimeout \in Nat \ {0}
BY DEF None

\* The round robin index: of a list that is not empty, one of its places.
LEMMA Place ==
  ASSUME NEW L \in SUBSET Addresses, L # {}, NEW i \in Nat
  PROVE  (i + 1) % Cardinality(L) \in Nat
<1>1. IsFiniteSet(L)
  BY FS_Subset
<1>2. Cardinality(L) \in Nat \ {0}
  BY <1>1, FS_CardinalityType, FS_EmptySet
<1> QED  BY <1>2

LEMMA Initial == Init => IInv
<1> SUFFICES ASSUME Init  PROVE IInv
  OBVIOUS
<1>1. TypeOK
  BY Numbers DEF Init, TypeOK, Addresses, NoAnswer
<1>2. lastUpdate <= now /\ answer.at <= now
  BY Numbers DEF Init, NoAnswer
<1>3. ASSUME NEW s \in Servers  PROVE Stamp(s) /\ Copied(s)
  BY Numbers DEF Init, Stamp, Copied, NoAnswer
<1>4. ASSUME NEW g \in Getters  PROVE Current(g)
  BY DEF Init, Current
<1> QED  BY <1>1, <1>2, <1>3, <1>4 DEF IInv

-----------------------------------------------------------------------------
(* One lemma for each kind of step. *)

\* The variables the registry, the servers and the clock leave alone, and the
\* part of the invariant that is about them.
LEMMA ClockStep ==
  IInv /\ Clock => IInv'
<1> SUFFICES ASSUME IInv, Clock  PROVE IInv'
  OBVIOUS
<1> USE Numbers
<1>1. TypeOK'
  BY DEF IInv, Clock, TypeOK, registryVars, serverVars, listVars, getVars
<1>2. (lastUpdate <= now /\ answer.at <= now)'
  BY DEF IInv, Clock, TypeOK, listVars, getVars
<1>3. ASSUME NEW s \in Servers  PROVE Stamp(s)' /\ Copied(s)'
  <2>1. Stamp(s) /\ Copied(s)
    BY DEF IInv
  <2>2. Stamp(s)'
    BY <2>1 DEF IInv, Clock, TypeOK, Stamp, registryVars, serverVars
  <2>3. Copied(s)'
    BY <2>1 DEF Clock, Copied, registryVars, listVars, getVars
  <2> QED  BY <2>2, <2>3
<1>4. ASSUME NEW g \in Getters  PROVE Current(g)'
  BY DEF IInv, Clock, Current, listVars, getVars
<1> QED  BY <1>1, <1>2, <1>3, <1>4 DEF IInv

LEMMA RegistryStep ==
  IInv /\ (RegistryCrashes \/ RegistryRestarts) => IInv'
<1> SUFFICES ASSUME IInv, RegistryCrashes \/ RegistryRestarts  PROVE IInv'
  OBVIOUS
<1> USE Numbers
<1>1. /\ UNCHANGED <<now, seen, serverVars, listVars, getVars>>
      /\ up' \in BOOLEAN
      /\ \/ start' = [s \in Servers |-> None] /\ missed' = Servers
         \/ start' = start /\ missed' = missed
  BY DEF RegistryCrashes, RegistryRestarts
<1>2. TypeOK'
  BY <1>1 DEF IInv, TypeOK, serverVars, listVars, getVars
<1>3. (lastUpdate <= now /\ answer.at <= now)'
  BY <1>1 DEF IInv, listVars, getVars
<1>4. ASSUME NEW s \in Servers  PROVE Stamp(s)' /\ Copied(s)'
  <2>1. Stamp(s) /\ Copied(s)
    BY DEF IInv
  <2>2. Stamp(s)'
    BY <1>1, <2>1 DEF Stamp, serverVars
  <2>3. Copied(s)'
    BY <1>1, <2>1 DEF Copied, listVars, getVars
  <2> QED  BY <2>2, <2>3
<1>5. ASSUME NEW g \in Getters  PROVE Current(g)'
  BY <1>1 DEF IInv, Current, listVars, getVars
<1> QED  BY <1>2, <1>3, <1>4, <1>5 DEF IInv

\* A heartbeat, the first one or one of the ticker's, which is next due at d.
LEMMA SendStep ==
  ASSUME NEW s \in Servers, NEW d \in Nat, NEW alive \in SUBSET Servers,
         IInv, Send(s, d), living' = alive, living \subseteq alive, s \in alive,
         now <= d + Delay, d <= now + Interval
  PROVE  IInv'
<1> USE Numbers
<1>1. /\ now' = now /\ up' = up /\ UNCHANGED <<listVars, getVars>>
      /\ start' \in [Servers -> Nat \cup {None}]
      /\ seen' \in [Servers -> Nat \cup {None}]
      /\ missed' \subseteq Servers
      /\ beating' \in [Servers -> BOOLEAN]
      /\ \A t \in Servers \ {s} : /\ start'[t] = start[t] /\ seen'[t] = seen[t]
                                  /\ beating'[t] = beating[t]
                                  /\ t \in missed' <=> t \in missed
      /\ \/ start'[s] = now /\ seen'[s] = now
         \/ start'[s] = start[s] /\ seen'[s] = seen[s] /\ s \in missed'
  <2>1. TypeOK
    BY DEF IInv
  <2>2. /\ now' = now /\ up' = up /\ UNCHANGED <<listVars, getVars>>
        /\ beating' \in [Servers -> BOOLEAN]
        /\ \A t \in Servers \ {s} : beating'[t] = beating[t]
    BY <2>1 DEF Send, TypeOK
  <2>3. CASE Arrives(s)
    BY <2>1, <2>2, <2>3 DEF Arrives, Renewed, TypeOK
  <2>4. CASE Swallowed(s)
    BY <2>1, <2>2, <2>4 DEF Swallowed, TypeOK
  <2> QED  BY <2>3, <2>4 DEF Send
<1>2. /\ due' \in [Servers -> Nat]
      /\ beating'[s] => due'[s] = d
      /\ \A t \in Servers \ {s} : due'[t] = due[t]
  BY DEF IInv, TypeOK, Send
<1>3. TypeOK'
  BY <1>1, <1>2 DEF IInv, TypeOK, listVars, getVars
<1>4. (lastUpdate <= now /\ answer.at <= now)'
  BY <1>1 DEF IInv, listVars, getVars
<1>5. ASSUME NEW t \in Servers  PROVE Stamp(t)' /\ Copied(t)'
  <2>1. /\ Stamp(t) /\ Copied(t) /\ TypeOK
        /\ lastUpdate <= now /\ answer.at <= now
    BY DEF IInv
  <2>2. /\ lastUpdate' = lastUpdate /\ list' = list
        /\ travel' = travel /\ answer' = answer
        /\ travel \in Nat /\ answer.at \in Nat
        /\ start[t] \in Nat \cup {None} /\ seen[t] \in Nat \cup {None}
        /\ now \in Nat /\ due[t] \in Nat
        /\ lastUpdate \in Int
    BY <1>1, <2>1 DEF TypeOK, listVars, getVars
  <2>3. CASE t # s
    BY <1>1, <1>2, <2>1, <2>2, <2>3 DEF Stamp, Copied
  <2>4. CASE t = s
    BY <1>1, <1>2, <2>1, <2>2, <2>4 DEF Stamp, Copied
  <2> QED  BY <2>3, <2>4
<1>6. ASSUME NEW g \in Getters  PROVE Current(g)'
  BY <1>1 DEF IInv, Current, listVars, getVars
<1> QED  BY <1>3, <1>4, <1>5, <1>6 DEF IInv

LEMMA ServerStep ==
  ASSUME NEW s \in Servers, IInv, StartServer(s) \/ Tick(s) \/ ServerDies(s)
  PROVE  IInv'
<1> USE Numbers
<1>1. TypeOK /\ Stamp(s) /\ now \in Nat /\ due[s] \in Nat /\ living \subseteq Servers
  BY DEF IInv, TypeOK
<1>2. CASE StartServer(s)
  <2>1. Send(s, now + Interval) /\ living' = living \cup {s}
    BY <1>2 DEF StartServer
  <2>2. /\ now + Interval \in Nat /\ living \cup {s} \in SUBSET Servers
        /\ living \subseteq living \cup {s} /\ s \in living \cup {s}
        /\ now <= (now + Interval) + Delay /\ now + Interval <= now + Interval
    BY <1>1
  <2> QED  BY ONLY IInv, <2>1, <2>2, SendStep
<1>3. CASE Tick(s)
  <2>1. /\ Send(s, due[s] + Interval) /\ living' = living
        /\ beating[s] /\ now >= due[s]
    BY <1>3 DEF Tick
  <2>2. s \in living /\ now <= due[s] + Delay
    BY <1>1, <2>1 DEF TypeOK, Stamp
  <2>3. /\ due[s] + Interval \in Nat /\ living \in SUBSET Servers
        /\ living \subseteq living
        /\ now <= (due[s] + Interval) + Delay
        /\ due[s] + Interval <= now + Interval
    BY <1>1, <2>1, <2>2
  <2> QED  BY ONLY IInv, <2>1, <2>2, <2>3, SendStep
<1>4. CASE ServerDies(s)
  <2>1. TypeOK'
    BY <1>1, <1>4 DEF ServerDies, TypeOK, registryVars, listVars, getVars
  <2>2. ASSUME NEW t \in Servers  PROVE Stamp(t)' /\ Copied(t)'
    <3>1. Stamp(t) /\ Copied(t)
      BY DEF IInv
    <3>2. beating'[t] => beating[t] /\ due'[t] = due[t]
      BY <1>1, <1>4 DEF ServerDies, TypeOK
    <3> QED  BY <1>4, <3>1, <3>2
             DEF ServerDies, Stamp, Copied, registryVars, listVars, getVars
  <2> QED  BY <1>4, <2>1, <2>2
           DEF IInv, ServerDies, Current, listVars, getVars
<1> QED  BY <1>2, <1>3, <1>4

\* The registry makes its answer: what it lists is alive at that moment, and
\* deleting the rest takes nothing from the others.
LEMMA AnswerStep ==
  ASSUME NEW g \in Getters, IInv, RegistryAnswers(g)
  PROVE  IInv'
<1> USE Numbers
<1>1. /\ pc[g] = "fetch" /\ pc' = [pc EXCEPT ![g] = "receive"]
      /\ answer' = [servers |-> Listed, at |-> now]
      /\ start' = [s \in Servers |-> IF Alive(s) THEN start[s] ELSE None]
      /\ UNCHANGED <<now, up, seen, missed, serverVars, listVars, mu, asked>>
  BY DEF RegistryAnswers
<1>2. TypeOK /\ lastUpdate <= now /\ now \in Nat /\ Listed \subseteq Servers
  BY DEF IInv, TypeOK, Listed
<1>3. TypeOK'
  BY <1>1, <1>2 DEF TypeOK, serverVars, listVars
<1>4. (lastUpdate <= now /\ answer.at <= now)'
  BY <1>1, <1>2 DEF listVars
<1>5. ASSUME NEW s \in Servers  PROVE Stamp(s)' /\ Copied(s)'
  <2>1. /\ Stamp(s) /\ Copied(s) /\ now \in Nat /\ due[s] \in Nat
        /\ start[s] \in Nat \cup {None} /\ seen[s] \in Nat \cup {None}
    BY DEF IInv, TypeOK
  <2>2. start'[s] = IF Alive(s) THEN start[s] ELSE None
    BY <1>1
  <2>3. beating[s] /\ s \notin missed => Alive(s)
    BY <2>1 DEF Stamp, Alive
  <2>4. Stamp(s)'
    BY <1>1, <2>1, <2>2, <2>3 DEF Stamp, serverVars
  <2>5. answer'.servers = Listed /\ answer'.at = now
    BY <1>1
  <2>6. s \in Listed => seen[s] # None /\ (Timeout # 0 => seen[s] + Timeout > now)
    BY <2>1 DEF Stamp, Listed, Alive
  <2>7. Copied(s)'
    BY <1>1, <2>1, <2>5, <2>6 DEF Copied, listVars
  <2> QED  BY <2>4, <2>7
<1>6. ASSUME NEW h \in Getters  PROVE Current(h)'
  BY <1>1, <1>2 DEF IInv, Current, TypeOK, listVars
<1> QED  BY <1>3, <1>4, <1>5, <1>6 DEF IInv

\* A list that replaces the client's, `age` after the registry made it.
LEMMA ListStep ==
  ASSUME NEW L \in SUBSET Addresses, NEW age \in Nat, IInv,
         list' = L, lastUpdate' = now, travel' = age, index' = index,
         answer' \in {answer, NoAnswer},
         UNCHANGED <<now, registryVars, serverVars>>,
         pc' \in [Getters -> {"idle", "fetch", "receive", "select"}],
         mu' \in Getters \cup {None},
         \A g \in Getters : pc'[g] \in {"fetch", "receive"} <=> mu' = g,
         asked' \in [Getters -> Nat],
         \A s \in Servers : s \in L =>
            seen[s] # None /\ (Timeout # 0 => seen[s] + Timeout + age > now),
         \A g \in Getters : pc'[g] = "select" =>
            asked'[g] = now \/ (pc[g] = "select" /\ asked'[g] = asked[g])
  PROVE  IInv'
<1> USE Numbers
<1>1. /\ TypeOK /\ lastUpdate <= now /\ now \in Nat /\ lastUpdate \in Int
      /\ answer.at <= now /\ answer.at \in Nat
    BY DEF IInv, TypeOK
<1>2. TypeOK'
  BY <1>1 DEF TypeOK, registryVars, serverVars, NoAnswer
<1>3. (lastUpdate <= now /\ answer.at <= now)'
  BY <1>1 DEF NoAnswer
<1>4. ASSUME NEW s \in Servers  PROVE Stamp(s)' /\ Copied(s)'
  <2>1. Stamp(s) /\ Copied(s)
    BY DEF IInv
  <2>2. Stamp(s)'
    BY <2>1 DEF Stamp, registryVars, serverVars
  <2>3. s \in answer'.servers => answer' = answer
    BY DEF NoAnswer
  <2>4. Copied(s)'
    BY <2>1, <2>3 DEF Copied, registryVars
  <2> QED  BY <2>2, <2>4
<1>5. ASSUME NEW g \in Getters  PROVE Current(g)'
  <2>1. Current(g) /\ asked[g] \in Nat
    BY <1>1 DEF IInv, TypeOK
  <2> QED  BY <1>1, <2>1 DEF Current
<1> QED  BY <1>2, <1>3, <1>4, <1>5 DEF IInv

LEMMA GetterStep ==
  ASSUME NEW g \in Getters, IInv,
         RefreshNot(g) \/ RefreshStart(g) \/ RefreshFails(g) \/ Select(g)
  PROVE  IInv'
<1> USE Numbers
<1>1. /\ TypeOK /\ lastUpdate <= now /\ now \in Nat /\ list \subseteq Addresses
      /\ answer.at <= now
  BY DEF IInv, TypeOK
<1>2. /\ UNCHANGED <<now, registryVars, serverVars, list, lastUpdate, travel>>
      /\ index' \in Nat
      /\ answer' \in {answer, NoAnswer}
  <2>1. list # {} => (index + 1) % Cardinality(list) \in Nat
    BY <1>1, Place DEF TypeOK
  <2> QED  BY <1>1, <2>1
           DEF RefreshNot, RefreshStart, RefreshFails, Select, listVars, TypeOK
<1>3. /\ pc' \in [Getters -> {"idle", "fetch", "receive", "select"}]
      /\ asked' \in [Getters -> Nat]
      /\ mu' \in Getters \cup {None}
      /\ \A h \in Getters : pc'[h] \in {"fetch", "receive"} <=> mu' = h
      /\ \A h \in Getters : pc'[h] = "select" =>
            \/ pc[h] = "select" /\ asked'[h] = asked[h]
            \/ asked'[h] = now /\ Fresh
  <2>1. CASE RefreshNot(g)
    BY <1>1, <2>1 DEF RefreshNot, TypeOK
  <2>2. CASE RefreshStart(g)
    BY <1>1, <2>2 DEF RefreshStart, TypeOK
  <2>3. CASE RefreshFails(g)
    BY <1>1, <2>3 DEF RefreshFails, Released, TypeOK
  <2>4. CASE Select(g)
    BY <1>1, <2>4 DEF Select, TypeOK
  <2> QED  BY <2>1, <2>2, <2>3, <2>4
<1>4. TypeOK'
  BY <1>1, <1>2, <1>3 DEF TypeOK, registryVars, serverVars, NoAnswer
<1>5. ASSUME NEW s \in Servers  PROVE Stamp(s)' /\ Copied(s)'
  <2>1. Stamp(s) /\ Copied(s)
    BY DEF IInv
  <2>2. s \in answer'.servers => answer' = answer
    BY <1>2 DEF NoAnswer
  <2> QED  BY <1>2, <2>1, <2>2 DEF Stamp, Copied, registryVars, serverVars
<1>6. ASSUME NEW h \in Getters  PROVE Current(h)'
  <2>1. Current(h)
    BY DEF IInv
  <2> QED  BY <1>1, <1>2, <1>3, <2>1 DEF Current, Fresh
<1>7. (lastUpdate <= now /\ answer.at <= now)'
  BY <1>1, <1>2 DEF NoAnswer
<1> QED  BY <1>4, <1>5, <1>6, <1>7 DEF IInv

LEMMA Inductive == IInv /\ [Next]_vars => IInv'
<1> SUFFICES ASSUME IInv, [Next]_vars  PROVE IInv'
  OBVIOUS
<1> USE Numbers
<1>1. CASE Clock
  BY <1>1, ClockStep
<1>2. CASE RegistryCrashes \/ RegistryRestarts
  BY <1>2, RegistryStep
<1>3. CASE \E s \in Servers : StartServer(s) \/ Tick(s) \/ ServerDies(s)
  BY <1>3, ServerStep
<1>4. CASE Update(Static)
  <2>1. /\ list' = Static /\ lastUpdate' = now /\ travel' = 0
        /\ UNCHANGED <<now, registryVars, serverVars, index, getVars>>
    BY <1>4 DEF Update
  <2>2. Static \in SUBSET Addresses /\ Static \cap Servers = {}
    BY DEF Addresses
  <2>3. TypeOK
    BY DEF IInv
  <2> QED  BY <2>1, <2>2, <2>3, ListStep DEF getVars, TypeOK
<1>5. ASSUME NEW g \in Getters, NEW L \in SUBSET Addresses, NEW age \in Nat,
             Fetched(g, L, age),
             \A s \in Servers : s \in L =>
               seen[s] # None /\ (Timeout # 0 => seen[s] + Timeout + age > now),
             pc[g] \in {"fetch", "receive"}
      PROVE  IInv'
  <2>1. /\ list' = L /\ lastUpdate' = now /\ travel' = age /\ mu' = None
        /\ pc' = [pc EXCEPT ![g] = "select"] /\ answer' = NoAnswer
        /\ asked' = [asked EXCEPT ![g] = now]
        /\ UNCHANGED <<now, registryVars, serverVars, index>>
    BY <1>5 DEF Fetched
  <2>2. TypeOK
    BY DEF IInv
  <2>3. /\ pc' \in [Getters -> {"idle", "fetch", "receive", "select"}]
        /\ asked' \in [Getters -> Nat]
        /\ mu' \in Getters \cup {None}
        /\ \A h \in Getters : pc'[h] \in {"fetch", "receive"} <=> mu' = h
        /\ \A h \in Getters : pc'[h] = "select" =>
              asked'[h] = now \/ (pc[h] = "select" /\ asked'[h] = asked[h])
    BY <1>5, <2>1, <2>2 DEF TypeOK
  <2> QED  BY <1>5, <2>1, <2>3, ListStep
<1>6. ASSUME NEW g \in Getters, RefreshEnds(g) \/ RefreshPage(g)  PROVE IInv'
  <2>1. CASE RefreshEnds(g)
    <3>1. pc[g] = "receive" /\ Fetched(g, answer.servers, now - answer.at)
      BY <2>1 DEF RefreshEnds
    <3>2. /\ answer.servers \in SUBSET Addresses /\ now - answer.at \in Nat
          /\ answer.at \in Nat /\ now \in Nat
      BY DEF IInv, TypeOK, Addresses
    <3>3. ASSUME NEW s \in Servers, s \in answer.servers
          PROVE  /\ seen[s] # None
                 /\ Timeout # 0 => seen[s] + Timeout + (now - answer.at) > now
      <4>1. Copied(s) /\ seen[s] \in Nat \cup {None}
        BY DEF IInv, TypeOK
      <4> QED  BY <3>2, <3>3, <4>1 DEF Copied
    <3> QED  BY <1>5, <3>1, <3>2, <3>3
  <2>2. CASE RefreshPage(g)
    <3>1. pc[g] = "fetch" /\ Fetched(g, {}, 0)
      BY <2>2 DEF RefreshPage
    <3> QED  BY <1>5, <3>1
  <2> QED  BY <1>6, <2>1, <2>2
<1>7. CASE \E g \in Getters : RefreshNot(g) \/ RefreshStart(g)
                              \/ RefreshFails(g) \/ Select(g)
  BY <1>7, GetterStep
<1>8. CASE \E g \in Getters : RegistryAnswers(g)
  BY <1>8, AnswerStep
<1>9. CASE UNCHANGED vars
  BY <1>9 DEF IInv, TypeOK, Stamp, Copied, Current, vars
<1> QED
  BY <1>1, <1>2, <1>3, <1>4, <1>6, <1>7, <1>8, <1>9 DEF Next, Finish

LEMMA Invariance == Spec => []IInv
BY Initial, Inductive, PTL DEF Spec

-----------------------------------------------------------------------------
\* Every variable keeps its type, and exactly the getter whose request is out
\* holds the lock.
THEOREM TypeCorrect == Spec => []TypeOK
<1>1. IInv => TypeOK
  BY DEF IInv
<1> QED  BY <1>1, Invariance, PTL

\* A server whose heartbeats come in time is listed at every moment, for any
\* timeout that exceeds the interval and the delay.
THEOREM PromptStays == Spec => []PromptServerStays
<1>1. IInv => PromptServerStays
  <2> SUFFICES ASSUME IInv, NEW s \in Servers, beating[s], s \notin missed
               PROVE  Alive(s)
    BY DEF PromptServerStays
  <2>1. Stamp(s) /\ now \in Nat /\ due[s] \in Nat /\ start[s] \in Nat \cup {None}
    BY DEF IInv, TypeOK
  <2> QED  BY <2>1, Numbers DEF Stamp, Alive
<1> QED  BY <1>1, Invariance, PTL

\* A server that Get can name was put less than both timeouts, and the time
\* the registry's answer was on its way, before the Refresh of that Get
\* returned.
THEOREM ChoiceIsFresh == Spec => []FreshChoice
<1>1. IInv => FreshChoice
  <2> SUFFICES ASSUME IInv, NEW g \in Getters, NEW s \in list \cap Servers,
                      pc[g] = "select"
               PROVE  /\ seen[s] # None
                      /\ Timeout # 0 =>
                           seen[s] + Timeout + travel + UpdateTimeout > asked[g]
    BY DEF FreshChoice
  <2>1. /\ Copied(s) /\ Current(g) /\ lastUpdate \in Int /\ asked[g] \in Nat
        /\ seen[s] \in Nat \cup {None} /\ travel \in Nat
    BY Numbers DEF IInv, TypeOK
  <2> QED  BY <2>1, Numbers DEF Copied, Current
<1> QED  BY <1>1, Invariance, PTL
=============================================================================
