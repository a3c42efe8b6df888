---------------------------- MODULE GeeCache_proof ----------------------------
(***************************************************************************)
(* The ring finds an owner among the peers it was given, and the same      *)
(* owner from the same peers, for any hash function and lists of any       *)
(* length.  On such rings, answers are of the key that was asked for, a    *)
(* cache never goes back to an older value, and nobody waits in a circle   *)
(* as long as the nodes agree, for any number of nodes and requests.       *)
(*                                                                         *)
(* A goroutine leads a flight of its own key alone (FlightInv); a handler  *)
(* at work has one goroutine waiting for it (FromInv).  What travels suits *)
(* its key (KeyInv), what a leader has read is no older than what is       *)
(* stored (VersionInv), and requests go to owners (RingInv).               *)
(***************************************************************************)
EXTENDS GeeCache, TLAPS, WellFoundedInduction

\* A non-empty set of numbers has a least element: First is defined.
LEMMA FirstIsLeast ==
  ASSUME NEW S \in SUBSET Nat, S # {}
  PROVE  /\ CH!First(S) \in S
         /\ \A y \in S : CH!First(S) <= y
<1> DEFINE R == {ss \in Nat \X Nat : ss[1] < ss[2]}
<1>1. IsWellFoundedOn(R, Nat)
  BY NatLessThanWellFounded DEF OpToRel
<1>2. PICK x \in S : \A y \in S : ~ (<<y, x>> \in R)
  <2> HIDE DEF R
  <2> QED  BY <1>1, WFMin, Zenon
<1>3. ASSUME NEW y \in S  PROVE x <= y
  <2>1. x \in Nat /\ y \in Nat
    OBVIOUS
  <2>2. ~ (y < x)
    BY <1>2, <2>1
  <2> QED  BY <2>1, <2>2
<1> QED  BY <1>3 DEF CH!First

\* There is one least element.
LEMMA LeastIsFirst ==
  ASSUME NEW S \in SUBSET Nat, NEW x \in S, \A y \in S : x <= y
  PROVE  CH!First(S) = x
<1>1. CH!First(S) \in S /\ CH!First(S) <= x
  BY FirstIsLeast
<1>2. x <= CH!First(S)
  BY <1>1
<1>3. x \in Nat /\ CH!First(S) \in Nat
  BY <1>1
<1> QED  BY <1>1, <1>2, <1>3

\* What a key's hash is closest to is a point of the ring.
LEMMA ClosestIsPoint ==
  ASSUME NEW m, CH!IsMap(m), m.keys # {}, NEW h \in Nat
  PROVE  CH!Closest(m, h) \in m.keys
BY FirstIsLeast DEF CH!Closest, CH!IsMap

\* Add leaves a Map: every point has an owner, and only points have.
LEMMA AddNodeIsMap ==
  ASSUME NEW m, CH!IsMap(m), NEW node, m.replicas \in Nat, CH!Hashes(m, node)
  PROVE  /\ CH!IsMap(CH!AddNode(m, node))
         /\ CH!AddNode(m, node).hash = m.hash
         /\ CH!AddNode(m, node).replicas = m.replicas
         /\ CH!AddNode(m, node).keys = m.keys \cup CH!Points(m, node)
         /\ \A x \in CH!Points(m, node) : CH!AddNode(m, node).hashMap[x] = node
         /\ \A x \in m.keys \ CH!Points(m, node) :
               CH!AddNode(m, node).hashMap[x] = m.hashMap[x]
<1> DEFINE a == CH!AddNode(m, node)
<1>1. CH!Points(m, node) \subseteq Nat
  BY DEF CH!Points, CH!Hashes, CH!IsMap
<1> DEFINE K == m.keys \cup CH!Points(m, node)
           F == [x \in K |-> IF x \in CH!Points(m, node) THEN node
                             ELSE m.hashMap[x]]
<1>2. a = [hash |-> m.hash, replicas |-> m.replicas, keys |-> K, hashMap |-> F]
  BY DEF CH!AddNode
<1> HIDE DEF a
<1>3. CH!IsMap(a)
  BY <1>1, <1>2 DEF CH!IsMap
<1> QED  BY <1>2, <1>3 DEF a

\* On a ring of some nodes, Get answers with one of them (geecache relies on
\* it: the owner it picks is an address it was given).
THEOREM GetIsANode ==
  ASSUME NEW m, CH!IsMap(m), m.keys # {}, NEW N,
         \A x \in m.keys : m.hashMap[x] \in N,
         NEW key \in DOMAIN m.hash
  PROVE  CH!Get(m, key) \in N
<1>1. m.hash[key] \in Nat
  BY DEF CH!IsMap
<1> QED  BY <1>1, ClosestIsPoint DEF CH!Get

\* A node that joins takes keys from the others and moves none between them,
\* also where its points fall on points of the others: the owner of a key
\* afterwards is the owner before or the new node.
THEOREM OnlyToTheNewNode ==
  ASSUME NEW m, CH!IsMap(m), m.keys # {}, m.replicas \in Nat,
         NEW node, CH!Hashes(m, node), NEW key \in DOMAIN m.hash
  PROVE  CH!Get(CH!AddNode(m, node), key) \in {CH!Get(m, key), node}
<1> DEFINE a == CH!AddNode(m, node)
           h == m.hash[key]
           P == CH!Points(m, node)
           x == CH!Closest(a, h)
<1>1. /\ CH!IsMap(a)
      /\ a.hash = m.hash
      /\ a.keys = m.keys \cup P
      /\ \A y \in P : a.hashMap[y] = node
      /\ \A y \in m.keys \ P : a.hashMap[y] = m.hashMap[y]
  BY AddNodeIsMap
<1>2. h \in Nat /\ m.keys \subseteq Nat /\ a.keys \subseteq Nat
  BY <1>1 DEF CH!IsMap
<1>3. CH!Get(a, key) = a.hashMap[x]
  BY <1>1 DEF CH!Get
<1>4. CH!Get(m, key) = m.hashMap[CH!Closest(m, h)]
  BY DEF CH!Get
<1> HIDE DEF a, h, P
<1>5. x \in a.keys
  BY <1>1, <1>2, ClosestIsPoint
<1>6. CASE x \in P
  BY <1>1, <1>3, <1>6 DEF a
<1>7. CASE x \notin P
  <2>1. x \in m.keys
    BY <1>1, <1>5, <1>7
  <2> DEFINE old == {y \in m.keys : y >= h}
             new == {y \in a.keys : y >= h}
  <2>2. old \subseteq new /\ old \subseteq Nat /\ new \subseteq Nat
    BY <1>1, <1>2
  <2>3. CASE new # {}
    <3>1. x = CH!First(new)
      BY <2>3 DEF CH!Closest
    <3>2. x \in new /\ \A y \in new : x <= y
      BY <2>2, <2>3, <3>1, FirstIsLeast
    <3>3. x \in old /\ \A y \in old : x <= y
      BY <2>1, <2>2, <3>2
    <3>4. CH!First(old) = x
      <4> HIDE DEF old, x
      <4> QED  BY <2>2, <3>3, LeastIsFirst
    <3>5. CH!Closest(m, h) = x
      BY <3>3, <3>4 DEF CH!Closest
    <3> QED  BY <1>1, <1>3, <1>4, <1>7, <2>1, <3>5 DEF a
  <2>4. CASE new = {}
    <3>1. x = CH!First(a.keys)
      BY <2>4 DEF CH!Closest
    <3>2. \A y \in a.keys : x <= y
      BY <1>2, <1>5, <3>1, FirstIsLeast
    <3>3. \A y \in m.keys : x <= y
      BY <1>1, <3>2
    <3>4. CH!First(m.keys) = x
      <4> HIDE DEF x
      <4> QED  BY <1>2, <2>1, <3>3, LeastIsFirst
    <3>5. CH!Closest(m, h) = x
      BY <2>2, <2>4, <3>4 DEF CH!Closest
    <3> QED  BY <1>1, <1>3, <1>4, <1>7, <2>1, <3>5 DEF a
  <2> QED  BY <2>3, <2>4
<1> QED  BY <1>6, <1>7

\* Two nodes whose points do not meet may be added in either order: peers
\* that were given one set of addresses in different orders agree on the
\* owner of every key, unless two hashes collide.
THEOREM OrderIsIrrelevant ==
  ASSUME NEW m, CH!IsMap(m), m.replicas \in Nat, NEW n1, NEW n2,
         CH!Hashes(m, n1), CH!Hashes(m, n2),
         CH!Points(m, n1) \cap CH!Points(m, n2) = {}
  PROVE  CH!AddNode(CH!AddNode(m, n1), n2) = CH!AddNode(CH!AddNode(m, n2), n1)
<1> DEFINE P1 == CH!Points(m, n1)
           P2 == CH!Points(m, n2)
           a1 == CH!AddNode(m, n1)
           a2 == CH!AddNode(m, n2)
<1>1. /\ CH!IsMap(a1) /\ a1.hash = m.hash /\ a1.replicas = m.replicas
      /\ a1.keys = m.keys \cup P1
      /\ \A x \in P1 : a1.hashMap[x] = n1
      /\ \A x \in m.keys \ P1 : a1.hashMap[x] = m.hashMap[x]
  BY AddNodeIsMap
<1>2. /\ CH!IsMap(a2) /\ a2.hash = m.hash /\ a2.replicas = m.replicas
      /\ a2.keys = m.keys \cup P2
      /\ \A x \in P2 : a2.hashMap[x] = n2
      /\ \A x \in m.keys \ P2 : a2.hashMap[x] = m.hashMap[x]
  BY AddNodeIsMap
<1>3. CH!Points(a1, n2) = P2 /\ CH!Points(a2, n1) = P1
  BY <1>1, <1>2 DEF CH!Points
<1> DEFINE keys == m.keys \cup P1 \cup P2
           owner == [x \in keys |-> IF x \in P1 THEN n1
                                    ELSE IF x \in P2 THEN n2
                                    ELSE m.hashMap[x]]
           both == [hash |-> m.hash, replicas |-> m.replicas, keys |-> keys,
                    hashMap |-> owner]
<1> HIDE DEF P1, P2, a1, a2
<1>4. CH!AddNode(a1, n2) = both
  <2>1. owner = [x \in a1.keys \cup P2 |-> IF x \in P2 THEN n2
                                           ELSE a1.hashMap[x]]
    <3>1. P1 \cap P2 = {}
      BY DEF P1, P2
    <3> QED  BY <1>1, <3>1
  <2>2. a1.keys \cup P2 = keys
    BY <1>1
  <2> HIDE DEF keys, owner
  <2> QED  BY <1>1, <1>3, <2>1, <2>2 DEF CH!AddNode
<1>5. CH!AddNode(a2, n1) = both
  <2>1. owner = [x \in a2.keys \cup P1 |-> IF x \in P1 THEN n1
                                           ELSE a2.hashMap[x]]
    BY <1>2
  <2>2. a2.keys \cup P1 = keys
    BY <1>2
  <2> HIDE DEF keys, owner
  <2> QED  BY <1>2, <1>3, <2>1, <2>2 DEF CH!AddNode
<1> QED  BY <1>4, <1>5 DEF a1, a2
\* A set of numbers with 0, and with the successor of each member, has all.
LEMMA Induction ==
  ASSUME NEW S \in SUBSET Nat, 0 \in S, \A i \in S : i + 1 \in S
  PROVE  S = Nat
<1> SUFFICES ASSUME S # Nat PROVE FALSE
  OBVIOUS
<1> DEFINE x == CH!First(Nat \ S)
<1>1. x \in Nat \ S /\ \A y \in Nat \ S : x <= y
  BY FirstIsLeast
<1> HIDE DEF x
<1>2. x - 1 \in Nat /\ x - 1 \notin Nat \ S
  BY <1>1
<1> QED  BY <1>1, <1>2

\* Add is AddNode for one node after the other.
LEMMA AddSteps ==
  ASSUME NEW m, NEW N, NEW nodes \in Seq(N)
  PROVE  \E f : /\ CH!Add(m, nodes) = f[Len(nodes)]
                /\ f[0] = m
                /\ \A i \in 1 .. Len(nodes) :
                      f[i] = CH!AddNode(f[i - 1], nodes[i])
<1> DEFINE Adds(f, n) ==
              f = [i \in 0 .. n |-> IF i = 0 THEN m
                                    ELSE CH!AddNode(f[i - 1], nodes[i])]
           S == {n \in Nat : \E f : Adds(f, n)}
<1>1. 0 \in S
  <2> DEFINE f == [i \in 0 .. 0 |-> m]
  <2>1. Adds(f, 0)
    BY 0 .. 0 = {0}
  <2> QED  BY <2>1
<1>2. ASSUME NEW n \in S  PROVE n + 1 \in S
  <2>1. PICK f : Adds(f, n)
    OBVIOUS
  <2> DEFINE g == [i \in 0 .. n + 1 |-> IF i = n + 1
                                        THEN CH!AddNode(f[n], nodes[n + 1])
                                        ELSE f[i]]
  <2>2. ASSUME NEW i \in 0 .. n + 1
        PROVE  g[i] = IF i = 0 THEN m ELSE CH!AddNode(g[i - 1], nodes[i])
    <3>1. n \in Nat
      OBVIOUS
    <3>2. CASE i = n + 1
      <4>1. g[i] = CH!AddNode(f[n], nodes[n + 1]) /\ g[i - 1] = f[n] /\ i # 0
        BY <3>1, <3>2
      <4> QED  BY <3>2, <4>1
    <3>3. CASE i = 0
      BY <2>1, <3>1, <3>3
    <3>4. CASE i \in 1 .. n
      <4>1. f[i] = CH!AddNode(f[i - 1], nodes[i])
        BY <2>1, <3>1, <3>4
      <4>2. g[i] = f[i] /\ g[i - 1] = f[i - 1] /\ i # 0
        BY <3>1, <3>4
      <4> QED  BY <4>1, <4>2
    <3> QED  BY <3>1, <3>2, <3>3, <3>4
  <2>3. Adds(g, n + 1)
    <3> DEFINE h == [i \in 0 .. n + 1 |-> IF i = 0 THEN m
                                    ELSE CH!AddNode(g[i - 1], nodes[i])]
    <3>1. g = h
      BY <2>2
    <3> QED  BY <3>1
  <2> HIDE DEF g, Adds
  <2> QED  BY <2>3
<1>3. Len(nodes) \in S
  <2>1. S \in SUBSET Nat
    OBVIOUS
  <2>2. \A n \in S : n + 1 \in S
    BY <1>2
  <2>3. S = Nat
    <3> HIDE DEF S
    <3> QED  BY <1>1, <2>1, <2>2, Induction
  <2> HIDE DEF S
  <2> QED  BY <2>3
<1> DEFINE f == CHOOSE f : Adds(f, Len(nodes))
<1>4. Adds(f, Len(nodes))
  <2> HIDE DEF Adds
  <2> QED  BY <1>3
<1>5. CH!Add(m, nodes) = f[Len(nodes)]
  BY DEF CH!Add
<1> HIDE DEF f
<1>6. Len(nodes) \in Nat
  OBVIOUS
<1>7. f[0] = m /\ \A i \in 1 .. Len(nodes) :
                     f[i] = CH!AddNode(f[i - 1], nodes[i])
  BY <1>4, <1>6
<1> QED  BY <1>5, <1>7

\* The ring that Add makes of a list of nodes: every point belongs to a node
\* of the list, and every node has points.
LEMMA AddedRing ==
  ASSUME NEW N, NEW nodes \in Seq(N), NEW m, CH!IsMap(m),
         m.replicas \in Nat \ {0}, m.keys = {},
         \A node \in N : CH!Hashes(m, node)
  PROVE  LET a == CH!Add(m, nodes)
         IN  /\ CH!IsMap(a) /\ a.hash = m.hash
             /\ nodes # << >> => a.keys # {}
             /\ \A j \in 1 .. Len(nodes) :
                   CH!Points(m, nodes[j]) \subseteq a.keys
             /\ \A x \in a.keys : \E j \in 1 .. Len(nodes) :
                   x \in CH!Points(m, nodes[j]) /\ a.hashMap[x] = nodes[j]
<1>1. PICK f : /\ CH!Add(m, nodes) = f[Len(nodes)]
               /\ f[0] = m
               /\ \A i \in 1 .. Len(nodes) :
                     f[i] = CH!AddNode(f[i - 1], nodes[i])
  BY AddSteps
<1> DEFINE Ring(i) == /\ CH!IsMap(f[i]) /\ f[i].hash = m.hash
                      /\ f[i].replicas = m.replicas
                      /\ i # 0 => f[i].keys # {}
                      /\ \A j \in 1 .. i :
                            CH!Points(m, nodes[j]) \subseteq f[i].keys
                      /\ \A x \in f[i].keys : \E j \in 1 .. i :
                            /\ x \in CH!Points(m, nodes[j])
                            /\ f[i].hashMap[x] = nodes[j]
           S == {i \in Nat : i \in 0 .. Len(nodes) => Ring(i)}
<1>2. Len(nodes) \in Nat
  OBVIOUS
<1>3. 0 \in S
  <2>1. 1 .. 0 = {}
    OBVIOUS
  <2> QED  BY <1>1, <2>1
<1>4. ASSUME NEW i \in S  PROVE i + 1 \in S
  <2> SUFFICES ASSUME i + 1 \in 0 .. Len(nodes)  PROVE Ring(i + 1)
    OBVIOUS
  <2>1. Ring(i) /\ i + 1 \in 1 .. Len(nodes)
    BY <1>2
  <2> DEFINE node == nodes[i + 1]
  <2>2. node \in N /\ f[i + 1] = CH!AddNode(f[i], node)
    BY <1>1, <1>2, <2>1
  <2>3. CH!Hashes(f[i], node) /\ CH!Points(f[i], node) # {}
    <3>1. /\ f[i].replicas = m.replicas /\ f[i].hash = m.hash
          /\ 0 \in 0 .. m.replicas - 1
      BY <2>1
    <3>2. CH!Hashes(m, node)
      BY <2>2
    <3>3. CH!Hashes(f[i], node)
      BY <3>1, <3>2 DEF CH!Hashes
    <3>4. m.hash[<<0, node>>] \in CH!Points(f[i], node)
      BY <3>1 DEF CH!Points
    <3> QED  BY <3>3, <3>4
  <2> HIDE DEF node
  <2>4. /\ CH!IsMap(f[i + 1]) /\ f[i + 1].hash = m.hash
        /\ f[i + 1].replicas = m.replicas
        /\ f[i + 1].keys = f[i].keys \cup CH!Points(f[i], node)
        /\ \A x \in CH!Points(f[i], node) : f[i + 1].hashMap[x] = node
        /\ \A x \in f[i].keys \ CH!Points(f[i], node) :
              f[i + 1].hashMap[x] = f[i].hashMap[x]
    BY <2>1, <2>2, <2>3, AddNodeIsMap
  <2>5. CH!Points(f[i], node) = CH!Points(m, node)
    BY <2>1 DEF CH!Points
  <2>6. /\ i \in Nat /\ i + 1 \in 1 .. i + 1 /\ i + 1 # 0
        /\ \A j \in 1 .. i + 1 : j \in 1 .. i \/ j = i + 1
        /\ \A j \in 1 .. i : j \in 1 .. i + 1
    OBVIOUS
  <2>7. ASSUME NEW j \in 1 .. i + 1
        PROVE  CH!Points(m, nodes[j]) \subseteq f[i + 1].keys
    BY <2>1, <2>4, <2>5, <2>6 DEF node
  <2>8. ASSUME NEW x \in f[i + 1].keys
        PROVE  \E j \in 1 .. i + 1 : /\ x \in CH!Points(m, nodes[j])
                                     /\ f[i + 1].hashMap[x] = nodes[j]
    <3>1. CASE x \in CH!Points(m, node)
      BY <2>4, <2>5, <2>6, <3>1 DEF node
    <3>2. CASE x \notin CH!Points(m, node)
      <4>1. x \in f[i].keys /\ f[i + 1].hashMap[x] = f[i].hashMap[x]
        BY <2>4, <2>5, <3>2
      <4> QED  BY <2>1, <2>6, <4>1
    <3> QED  BY <3>1, <3>2
  <2>9. f[i + 1].keys # {}
    BY <2>3, <2>4
  <2> QED  BY <2>4, <2>7, <2>8, <2>9
<1>5. Ring(Len(nodes))
  <2>1. S \in SUBSET Nat
    OBVIOUS
  <2>2. \A i \in S : i + 1 \in S
    BY <1>4
  <2>3. S = Nat
    <3> HIDE DEF S
    <3> QED  BY <1>3, <2>1, <2>2, Induction
  <2>4. Len(nodes) \in S
    <3> HIDE DEF S
    <3> QED  BY <1>2, <2>3
  <2> QED  BY <1>2, <2>4
<1>6. nodes # << >> => Len(nodes) # 0
  OBVIOUS
<1> QED  BY <1>1, <1>5, <1>6

\* The ring of a list of peers: its points are those of the peers, and each
\* belongs to a peer it is a point of.
LEMMA RingOfList ==
  ASSUME NEW l \in PeerLists
  PROVE  LET m == CH!New(Replicas, Hash)
             a == CH!Add(m, l)
         IN  /\ CH!IsMap(a) /\ a.hash = Hash /\ a.keys # {}
             /\ \A j \in 1 .. Len(l) : CH!Points(m, l[j]) \subseteq a.keys
             /\ \A x \in a.keys : \E j \in 1 .. Len(l) :
                   x \in CH!Points(m, l[j]) /\ a.hashMap[x] = l[j]
<1> DEFINE m == CH!New(Replicas, Hash)
<1>1. l \in Seq(Nodes) /\ l # << >>
  BY PeersAssumption
<1>2. /\ m.hash = Hash /\ m.replicas = Replicas /\ m.keys = {}
      /\ m = [hash |-> Hash, replicas |-> Replicas, keys |-> {},
              hashMap |-> << >>]
  BY DEF CH!New
<1> HIDE DEF m
<1>3. DOMAIN Hash = (0 .. Replicas - 1) \X Nodes \cup Keys
      /\ \A name \in DOMAIN Hash : Hash[name] \in Nat
  BY HashAssumption
<1>4. CH!IsMap(m)
  <2>1. << >> = [x \in {} |-> m.hashMap[x]]
    OBVIOUS
  <2> QED  BY <1>2, <1>3, <2>1 DEF CH!IsMap
<1>5. \A node \in Nodes : CH!Hashes(m, node)
  BY <1>2, <1>3 DEF CH!Hashes
<1>6. m.replicas \in Nat \ {0} /\ m.keys = {} /\ m.hash = Hash
  BY <1>2, PeersAssumption
<1> QED  BY <1>1, <1>4, <1>5, <1>6, AddedRing DEF m

\* Whatever list of peers a node is given, PickPeer finds the owner of every
\* key among the nodes of that list.
THEOREM OwnerIsAPeer ==
  ASSUME NEW l \in PeerLists
  PROVE  NewRing[l] \in [Keys -> {l[i] : i \in 1 .. Len(l)}]
<1> DEFINE N == {l[i] : i \in 1 .. Len(l)}
           m == CH!New(Replicas, Hash)
           a == CH!Add(m, l)
<1>1. /\ CH!IsMap(a) /\ a.hash = Hash /\ a.keys # {}
      /\ \A x \in a.keys : \E j \in 1 .. Len(l) :
            x \in CH!Points(m, l[j]) /\ a.hashMap[x] = l[j]
  BY RingOfList
<1> HIDE DEF m, a
<1>2. \A x \in a.keys : a.hashMap[x] \in N
  BY <1>1
<1> HIDE DEF N
<1>3. \A k \in Keys : k \in DOMAIN a.hash
  BY <1>1, HashAssumption
<1>4. \A k \in Keys : CH!Get(a, k) \in N
  BY <1>1, <1>2, <1>3, GetIsANode
<1>5. NewRing[l] = [k \in Keys |-> CH!Get(a, k)]
  BY DEF NewRing, a, m
<1> QED  BY <1>4, <1>5 DEF N

\* Two nodes that were given the same peers, in whatever order and however
\* often each, agree on the owner of every key, unless virtual nodes of two
\* peers have one hash.
THEOREM SamePeersSameRing ==
  ASSUME NEW l1 \in PeerLists, NEW l2 \in PeerLists,
         {l1[i] : i \in 1 .. Len(l1)} = {l2[i] : i \in 1 .. Len(l2)},
         \A i, j \in 1 .. Len(l1) : l1[i] # l1[j] =>
            \A x, y \in 0 .. Replicas - 1 :
               Hash[<<x, l1[i]>>] # Hash[<<y, l1[j]>>]
  PROVE  NewRing[l1] = NewRing[l2]
<1> DEFINE m == CH!New(Replicas, Hash)
           a1 == CH!Add(m, l1)
           a2 == CH!Add(m, l2)
<1>1. /\ CH!IsMap(a1) /\ a1.hash = Hash
      /\ \A j \in 1 .. Len(l1) : CH!Points(m, l1[j]) \subseteq a1.keys
      /\ \A x \in a1.keys : \E j \in 1 .. Len(l1) :
            x \in CH!Points(m, l1[j]) /\ a1.hashMap[x] = l1[j]
  BY RingOfList
<1>2. /\ CH!IsMap(a2) /\ a2.hash = Hash
      /\ \A j \in 1 .. Len(l2) : CH!Points(m, l2[j]) \subseteq a2.keys
      /\ \A x \in a2.keys : \E j \in 1 .. Len(l2) :
            x \in CH!Points(m, l2[j]) /\ a2.hashMap[x] = l2[j]
  BY RingOfList
<1>3. m.hash = Hash /\ m.replicas = Replicas
  BY DEF CH!New
<1> HIDE DEF m, a1, a2
<1>4. \A i \in 1 .. Len(l1) : \E j \in 1 .. Len(l2) : l1[i] = l2[j]
  OBVIOUS
<1>5. \A j \in 1 .. Len(l2) : \E i \in 1 .. Len(l1) : l2[j] = l1[i]
  OBVIOUS
<1>6. ASSUME NEW i \in 1 .. Len(l1), NEW j \in 1 .. Len(l1),
             NEW x \in CH!Points(m, l1[i]), x \in CH!Points(m, l1[j])
      PROVE  l1[i] = l1[j]
  BY <1>3, <1>6 DEF CH!Points
<1>7. a1.keys = a2.keys
  <2>1. ASSUME NEW x \in a1.keys  PROVE x \in a2.keys
    <3>1. PICK i \in 1 .. Len(l1) : x \in CH!Points(m, l1[i])
      BY <1>1
    <3>2. PICK j \in 1 .. Len(l2) : l1[i] = l2[j]
      BY <1>4
    <3> QED  BY <1>2, <3>1, <3>2
  <2>2. ASSUME NEW x \in a2.keys  PROVE x \in a1.keys
    <3>1. PICK j \in 1 .. Len(l2) : x \in CH!Points(m, l2[j])
      BY <1>2
    <3>2. PICK i \in 1 .. Len(l1) : l2[j] = l1[i]
      BY <1>5
    <3> QED  BY <1>1, <3>1, <3>2
  <2> QED  BY <2>1, <2>2
<1>8. ASSUME NEW x \in a1.keys  PROVE a1.hashMap[x] = a2.hashMap[x]
  <2>1. PICK i \in 1 .. Len(l1) :
           x \in CH!Points(m, l1[i]) /\ a1.hashMap[x] = l1[i]
    BY <1>1
  <2>2. PICK j \in 1 .. Len(l2) :
           x \in CH!Points(m, l2[j]) /\ a2.hashMap[x] = l2[j]
    BY <1>2, <1>7
  <2>3. PICK k \in 1 .. Len(l1) : l2[j] = l1[k]
    BY <1>5
  <2> QED  BY <1>6, <2>1, <2>2, <2>3
<1>9. a1.hashMap = a2.hashMap
  BY <1>1, <1>2, <1>7, <1>8 DEF CH!IsMap
<1>10. \A k \in Keys : CH!Get(a1, k) = CH!Get(a2, k)
  BY <1>1, <1>2, <1>7, <1>9 DEF CH!Get, CH!Closest
<1> QED  BY <1>10 DEF NewRing, a1, a2, m


-----------------------------------------------------------------------------
(* The cluster *)

Answers == Value \cup Errors

\* The parts of the type invariant the proof uses.
EntriesOK(s) ==
    /\ s \in Seq(Entry)
    /\ Capacity # 0 => Len(s) <= Capacity
    /\ \A i, j \in DOMAIN s : s[i].key = s[j].key => i = j

\* The states of a goroutine whose flight is in the air, and of one that is
\* on no flight.
Flying == {"pick", "remote", "getter", "fill", "land"}
Grounded == {"free", "lookup", "load", "answer"}

\* Where a goroutine is, and what it has been asked for, answered and read.
ProcInv ==
    \A p \in Procs :
        /\ want[p] = NoKey <=> at[p] = "free"
        /\ ans[p] # NoAnswer <=> at[p] = "answer"
        /\ read[p] # NoAnswer <=> at[p] \in {"fill", "land"}

\* The flights: who leads has the flight of its own key, alone, until it
\* closes it.
FlightInv ==
    /\ flight \in [Nodes \X Keys -> Answers \cup {NoAnswer, NoFlight}]
    /\ on \in [Procs -> Nodes \X Keys \cup {NoKey}]
    /\ leading \subseteq Procs
    /\ out \in [Procs -> Answers \cup {NoAnswer}]
    /\ \A p \in Procs :
          /\ at[p] \in Grounded => /\ on[p] = NoKey /\ out[p] = NoAnswer
                                   /\ p \notin leading
          /\ at[p] \notin Grounded => on[p] = want[p]
          /\ at[p] \in Flying <=> p \in leading /\ out[p] = NoAnswer
    /\ \A p \in leading : flight[on[p]] # NoFlight
    /\ \A p, q \in leading : on[p] = on[q] => p = q

\* The goroutine a handler answers waits for it, and for no other.
FromInv ==
    /\ \A q \in Handlers : at[q] = "free" => from[q] = Nobody
    /\ \A q \in Handlers : from[q] # Nobody =>
          /\ from[q] # q
          /\ at[from[q]] = "remote"
          /\ want[q][2] = Wire[want[from[q]][2]]
          /\ \A r \in Handlers : from[r] = from[q] => r = q

\* A result for key k.
Suits(r, k) ==
    /\ r \in Value => r.key \in Seen(k)
    /\ r \in Errors => r.error = k

\* Whatever is on its way is a result for the key it is on its way to.
KeyInv ==
    /\ \A nk \in Nodes \X Keys : Suits(flight[nk], nk[2])
    /\ \A p \in Procs : /\ Suits(ans[p], want[p][2])
                        /\ Suits(out[p], on[p][2])
                        /\ read[p] # NoAnswer => read[p].key = want[p][2]
    /\ \A n \in Nodes : \A i \in DOMAIN store[n] :
          store[n][i].value.key = store[n][i].key

\* What is stored is no newer than the source; what a leader has read is no
\* older than what is stored, and no newer than the source.
VersionInv ==
    /\ \A n \in Nodes : \A i \in DOMAIN store[n] :
          store[n][i].value.ver <= db[store[n][i].key]
    /\ \A p \in Procs : read[p] # NoAnswer =>
          /\ read[p].ver <= db[want[p][2]]
          /\ \A i \in DOMAIN store[want[p][1]] :
                store[want[p][1]][i].key = want[p][2] =>
                    store[want[p][1]][i].value.ver <= read[p].ver

\* While nobody has disagreed the registered nodes have one ring, and requests
\* have gone to the owner it names.
RingInv ==
    ~disagreed =>
        /\ \A n, o \in Nodes :
              Registered(n) /\ Registered(o) => ring[n] = ring[o]
        /\ \A q \in Handlers : from[q] # Nobody =>
              LET n == want[from[q]][1]
                  k == want[from[q]][2] IN
              /\ Registered(n) /\ Registered(want[q][1])
              /\ want[q][1] = Owner(n, k) /\ Owner(n, k) # n

IInv ==
    /\ TypeOK /\ ProcInv /\ FlightInv /\ FromInv /\ KeyInv /\ VersionInv
    /\ RingInv

-----------------------------------------------------------------------------
(* Results, and what a goroutine is asked for *)

LEMMA NotBoth == Value \cap Errors = {}
<1> SUFFICES ASSUME NEW v \in Value, v \in Errors  PROVE FALSE
  OBVIOUS
<1>1. "key" \in DOMAIN v
  BY DEF Value
<1>2. DOMAIN v = {"error"}
  BY DEF Errors
<1> QED  BY <1>1, <1>2

\* No result is one of the marks for "none".
LEMMA AllDifferent ==
  /\ NoAnswer \notin Answers /\ NoFlight \notin Answers /\ NoFlight # NoAnswer
  /\ NoKey \notin Nodes \X Keys /\ Nobody \notin Procs
  /\ Clients \cap Handlers = {}
BY AnswerAssumption, EmptyAssumption, ProcsAssumption DEF Answers

LEMMA Asked ==
  ASSUME IInv, NEW p \in Procs, at[p] # "free"
  PROVE  /\ want[p] \in Nodes \X Keys /\ want[p] = <<NodeOf(p), KeyOf(p)>>
         /\ NodeOf(p) \in Nodes /\ KeyOf(p) \in Keys
BY DEF IInv, TypeOK, ProcInv, NodeOf, KeyOf

\* A registered node's ring names nodes.
LEMMA RingTyped ==
  ASSUME TypeOK, NEW n \in Nodes, Registered(n), NEW k \in Keys
  PROVE  ring[n][k] \in Nodes
<1>1. PICK l \in PeerLists : ring[n] = NewRing[l]
  BY DEF TypeOK, Registered
<1>2. \A i \in 1 .. Len(l) : l[i] \in Nodes
  BY PeersAssumption
<1> QED  BY <1>1, <1>2, OwnerIsAPeer

-----------------------------------------------------------------------------
(* The store *)

LEMMA Removed ==
  ASSUME NEW X, NEW s \in Seq(X), NEW i \in DOMAIN s
  PROVE  /\ RemoveAt(s, i) \in Seq(X)
         /\ Len(RemoveAt(s, i)) = Len(s) - 1
         /\ \A j \in 1 .. Len(s) - 1 :
               RemoveAt(s, i)[j] = IF j < i THEN s[j] ELSE s[j + 1]
<1>1. i \in 1 .. Len(s) /\ Len(s) \in Nat
  OBVIOUS
<1> DEFINE a == SubSeq(s, 1, i - 1)
           b == SubSeq(s, i + 1, Len(s))
<1>2. a \in Seq(X) /\ Len(a) = i - 1 /\ \A j \in 1 .. i - 1 : a[j] = s[j]
  BY <1>1
<1>3. /\ b \in Seq(X) /\ Len(b) = Len(s) - i
      /\ \A j \in 1 .. Len(s) - i : b[j] = s[i + j]
  BY <1>1
<1>4. RemoveAt(s, i) = a \o b
  BY DEF RemoveAt
<1> HIDE DEF a, b
<1>5. /\ a \o b \in Seq(X) /\ Len(a \o b) = Len(s) - 1
      /\ \A j \in 1 .. i - 1 : (a \o b)[j] = a[j]
      /\ \A j \in i .. Len(s) - 1 : (a \o b)[j] = b[j - (i - 1)]
  BY <1>1, <1>2, <1>3
<1>6. ASSUME NEW j \in i .. Len(s) - 1  PROVE (a \o b)[j] = s[j + 1]
  <2>1. j - (i - 1) \in 1 .. Len(s) - i /\ i + (j - (i - 1)) = j + 1
    BY <1>1
  <2>2. b[j - (i - 1)] = s[j + 1]
    BY <1>3, <2>1
  <2> QED  BY <1>5, <2>2
<1> QED  BY <1>1, <1>2, <1>4, <1>5, <1>6

\* Touched puts the entry in front and keeps others, each key once and no more
\* than fit.
LEMMA TouchedOK ==
  ASSUME NEW n \in Nodes, EntriesOK(store[n]), NEW e \in Entry
  PROVE  /\ EntriesOK(Touched(n, e))
         /\ \A i \in DOMAIN Touched(n, e) :
               \/ Touched(n, e)[i] = e
               \/ \E j \in DOMAIN store[n] :
                     Touched(n, e)[i] = store[n][j] /\ store[n][j].key # e.key
<1> DEFINE s == store[n]
           o == Others(n, e.key)
           t == <<e>> \o o
<1>1. /\ s \in Seq(Entry) /\ Len(s) \in Nat /\ DOMAIN s = 1 .. Len(s)
      /\ \A i, j \in DOMAIN s : s[i].key = s[j].key => i = j
  BY DEF EntriesOK
<1>2. /\ o \in Seq(Entry)
      /\ \A i \in DOMAIN o : \E j \in DOMAIN s : o[i] = s[j] /\ s[j].key # e.key
      /\ \A i, j \in DOMAIN o : o[i].key = o[j].key => i = j
  <2>1. CASE ~Cached(n, e.key)
    BY <1>1, <2>1 DEF Others, Cached
  <2>2. CASE Cached(n, e.key)
    <3> DEFINE x == Pos(n, e.key)
    <3>1. x \in 1 .. Len(s) /\ s[x].key = e.key /\ o = RemoveAt(s, x)
      BY <1>1, <2>2 DEF Cached, Pos, Others
    <3> HIDE DEF x, o, s
    <3>2. /\ o \in Seq(Entry) /\ DOMAIN o = 1 .. Len(s) - 1
          /\ \A j \in 1 .. Len(s) - 1 : o[j] = IF j < x THEN s[j] ELSE s[j + 1]
      BY <1>1, <3>1, Removed
    <3>3. ASSUME NEW i \in DOMAIN o
          PROVE  \E j \in DOMAIN s : o[i] = s[j] /\ s[j].key # e.key
      <4>1. CASE i < x
        BY <1>1, <3>1, <3>2, <4>1
      <4>2. CASE ~(i < x)
        <5>1. i + 1 \in DOMAIN s /\ i + 1 # x /\ o[i] = s[i + 1]
          BY <1>1, <3>1, <3>2, <4>2
        <5> QED  BY <1>1, <3>1, <5>1
      <4> QED  BY <4>1, <4>2
    <3>4. ASSUME NEW i \in DOMAIN o, NEW j \in DOMAIN o, o[i].key = o[j].key
          PROVE  i = j
      <4> DEFINE At_(k) == IF k < x THEN k ELSE k + 1
      <4>1. /\ At_(i) \in DOMAIN s /\ At_(j) \in DOMAIN s
            /\ o[i] = s[At_(i)] /\ o[j] = s[At_(j)]
        BY <1>1, <3>1, <3>2
      <4>2. At_(i) = At_(j)
        BY <1>1, <3>4, <4>1
      <4> QED  BY <1>1, <3>1, <3>2, <4>2
    <3> QED  BY <3>2, <3>3, <3>4
  <2> QED  BY <2>1, <2>2
<1> HIDE DEF o, s
<1>3. /\ t \in Seq(Entry) /\ Len(t) = Len(o) + 1 /\ t[1] = e
      /\ \A i \in 2 .. Len(t) : t[i] = o[i - 1] /\ i - 1 \in DOMAIN o
  BY <1>2
<1> HIDE DEF t
<1>4. \A i \in DOMAIN t : \/ t[i] = e
                          \/ \E j \in DOMAIN s : t[i] = s[j] /\ s[j].key # e.key
  <2> SUFFICES ASSUME NEW i \in DOMAIN t, i # 1
               PROVE  \E j \in DOMAIN s : t[i] = s[j] /\ s[j].key # e.key
    BY <1>3
  <2>1. t[i] = o[i - 1] /\ i - 1 \in DOMAIN o
    BY <1>3
  <2> QED  BY <1>2, <2>1
<1>5. ASSUME NEW i \in DOMAIN t, NEW j \in DOMAIN t, t[i].key = t[j].key
      PROVE  i = j
  <2>1. \A k \in DOMAIN t : k # 1 => t[k].key # e.key
    <3> SUFFICES ASSUME NEW k \in DOMAIN t, k # 1  PROVE t[k].key # e.key
      OBVIOUS
    <3>1. t[k] = o[k - 1] /\ k - 1 \in DOMAIN o
      BY <1>3
    <3> QED  BY <1>2, <3>1
  <2>2. CASE i = 1 \/ j = 1
    BY <1>3, <1>5, <2>1, <2>2
  <2>3. CASE i # 1 /\ j # 1
    <3>1. /\ t[i] = o[i - 1] /\ i - 1 \in DOMAIN o
          /\ t[j] = o[j - 1] /\ j - 1 \in DOMAIN o
          /\ i \in Nat /\ j \in Nat
      BY <1>3, <2>3
    <3>2. i - 1 = j - 1
      BY <1>2, <1>5, <3>1
    <3> QED  BY <3>1, <3>2
  <2> QED  BY <2>2, <2>3
<1> DEFINE f == Fitting(t)
<1>6. /\ f \in Seq(Entry)
      /\ Capacity # 0 => Len(f) <= Capacity
      /\ DOMAIN f \subseteq DOMAIN t
      /\ \A i \in DOMAIN f : f[i] = t[i]
  <2>1. CASE Capacity = 0 \/ Len(t) <= Capacity
    BY <1>3, <2>1 DEF Fitting
  <2>2. CASE ~(Capacity = 0 \/ Len(t) <= Capacity)
    BY <1>3, <2>2, BoundsAssumption DEF Fitting
  <2> QED  BY <2>1, <2>2
<1>7. f = Touched(n, e)
  BY DEF t, o, Touched
<1> HIDE DEF f
<1>8. EntriesOK(f)
  BY <1>5, <1>6 DEF EntriesOK
<1> QED  BY <1>4, <1>6, <1>7, <1>8 DEF s

LEMMA StoreOK ==
  ASSUME TypeOK, NEW n \in Nodes
  PROVE  EntriesOK(store[n])
BY DEF TypeOK, EntriesOK

LEMMA CachedEntry ==
  ASSUME TypeOK, NEW n \in Nodes, NEW k, Cached(n, k)
  PROVE  /\ Pos(n, k) \in DOMAIN store[n] /\ EntryOf(n, k) \in Entry
         /\ EntryOf(n, k) = store[n][Pos(n, k)] /\ EntryOf(n, k).key = k
<1>1. Pos(n, k) \in DOMAIN store[n] /\ store[n][Pos(n, k)].key = k
  BY DEF Cached, Pos
<1>2. store[n] \in Seq(Entry)
  BY DEF TypeOK
<1> QED  BY <1>1, <1>2 DEF EntryOf

-----------------------------------------------------------------------------
(* The flights *)

\* A landing gives the result to everybody on the flight, and to nobody else.
LEMMA LandKeeps ==
  ASSUME TypeOK, FlightInv, KeyInv, NEW p \in Procs, at[p] \in Flying,
         want[p] \in Nodes \X Keys,
         NEW r \in Answers, Suits(r, want[p][2]), SF!Land(p, r),
         at'[p] = "do", want'[p] = want[p],
         \A x \in Procs \ {p} :
            \/ at[x] \in Grounded /\ at'[x] \in Grounded
            \/ at'[x] = at[x] /\ want'[x] = want[x]
  PROVE  /\ FlightInv'
         /\ \A nk \in Nodes \X Keys : Suits(flight'[nk], nk[2])
         /\ \A x \in Procs : Suits(out'[x], on'[x][2])
<1>1. /\ p \in leading /\ out[p] = NoAnswer /\ on[p] = want[p]
      /\ flight' = [flight EXCEPT ![on[p]] = r]
      /\ out' = [x \in Procs |-> IF on[x] = on[p] /\ out[x] = NoAnswer THEN r
                                 ELSE out[x]]
      /\ on' = on /\ leading' = leading
  BY DEF FlightInv, SF!Land
<1>2. r # NoAnswer /\ r # NoFlight
  BY AllDifferent
<1>3. /\ flight' \in [Nodes \X Keys -> Answers \cup {NoAnswer, NoFlight}]
      /\ on' \in [Procs -> Nodes \X Keys \cup {NoKey}]
      /\ leading' \subseteq Procs
      /\ out' \in [Procs -> Answers \cup {NoAnswer}]
  BY <1>1 DEF FlightInv
<1>4. ASSUME NEW x \in Procs
      PROVE  /\ at'[x] \in Grounded => /\ on'[x] = NoKey /\ out'[x] = NoAnswer
                                       /\ x \notin leading'
             /\ at'[x] \notin Grounded => on'[x] = want'[x]
             /\ at'[x] \in Flying <=> x \in leading' /\ out'[x] = NoAnswer
  <2>1. CASE x = p
    BY <1>1, <1>2, <2>1 DEF Flying, Grounded
  <2>2. CASE x # p /\ at[x] \in Grounded /\ at'[x] \in Grounded
    BY <1>1, <2>2, AllDifferent DEF FlightInv, Flying, Grounded
  <2>3. CASE x # p /\ at'[x] = at[x] /\ want'[x] = want[x]
    <3>1. x \in leading => on[x] # on[p]
      BY <1>1, <2>3 DEF FlightInv
    <3>2. at[x] \in Grounded => on[x] # on[p]
      BY <1>1, AllDifferent DEF FlightInv
    <3> QED  BY <1>1, <2>3, <3>1, <3>2 DEF FlightInv
  <2> QED  BY <2>1, <2>2, <2>3
<1>5. /\ \A x \in leading' : flight'[on'[x]] # NoFlight
      /\ \A x, y \in leading' : on'[x] = on'[y] => x = y
  BY <1>1, <1>2 DEF FlightInv
<1>6. FlightInv'
  BY <1>3, <1>4, <1>5 DEF FlightInv
<1>7. \A nk \in Nodes \X Keys : Suits(flight'[nk], nk[2])
  BY <1>1 DEF KeyInv
<1>8. \A x \in Procs : Suits(out'[x], on'[x][2])
  BY <1>1 DEF KeyInv
<1> QED  BY <1>6, <1>7, <1>8

LEMMA SourceUpdateKeeps ==
  ASSUME IInv, NEW k \in Keys, SourceUpdate(k)
  PROVE  IInv'
<1>0. /\ TypeOK /\ ProcInv /\ FlightInv /\ FromInv /\ KeyInv /\ VersionInv
      /\ RingInv
  BY DEF IInv
<1>1. TypeOK'
  <2>1. db' \in [Keys -> 0 .. MaxVersion]
    BY <1>0, BoundsAssumption DEF SourceUpdate, TypeOK
  <2> QED  BY <1>0, <2>1 DEF SourceUpdate, TypeOK
<1>2. ProcInv'
  BY <1>0, AllDifferent DEF SourceUpdate, ProcInv
<1>3. FlightInv'
  BY <1>0, AllDifferent DEF SourceUpdate, sfVars, FlightInv
<1>4. FromInv'
  BY <1>0, ProcsAssumption DEF SourceUpdate, FromInv
<1>5. KeyInv'
  BY <1>0, AllDifferent DEF SourceUpdate, sfVars, KeyInv
<1>6. VersionInv'
  <2>1. \A j \in Keys : db[j] \in Nat /\ db'[j] \in Nat /\ db[j] <= db'[j]
    BY <1>0, BoundsAssumption DEF SourceUpdate, TypeOK
  <2>2. ASSUME NEW n \in Nodes, NEW i \in DOMAIN store'[n]
        PROVE  store'[n][i].value.ver <= db'[store'[n][i].key]
    <3>1. store[n][i] \in Entry /\ store' = store
      BY <1>0 DEF SourceUpdate, TypeOK
    <3>2. store[n][i].value.ver \in Nat /\ store[n][i].key \in Keys
      BY <3>1, BoundsAssumption DEF Entry, Value
    <3>3. store[n][i].value.ver <= db[store[n][i].key]
      BY <1>0, <3>1 DEF VersionInv
    <3> QED  BY <2>1, <3>1, <3>2, <3>3
  <2>3. ASSUME NEW p \in Procs, read'[p] # NoAnswer
        PROVE  read'[p].ver <= db'[want'[p][2]]
    <3>1. read' = read /\ want' = want /\ read[p] \in Value
      BY <1>0, <2>3 DEF SourceUpdate, TypeOK
    <3>2. want[p][2] \in Keys /\ read[p].ver \in Nat
      <4>1. at[p] # "free"
        BY <1>0, <2>3, <3>1 DEF ProcInv
      <4>2. want[p][2] \in Keys
        BY <4>1, Asked
      <4> QED  BY <3>1, <4>2, BoundsAssumption DEF Value
    <3>3. read[p].ver <= db[want[p][2]]
      BY <1>0, <2>3, <3>1 DEF VersionInv
    <3> QED  BY <2>1, <3>1, <3>2, <3>3
  <2> QED  BY <1>0, <2>2, <2>3 DEF SourceUpdate, VersionInv
<1>7. RingInv'
  BY <1>0, ProcsAssumption DEF SourceUpdate, RingInv, Registered, Owner
<1> QED  BY <1>1, <1>2, <1>3, <1>4, <1>5, <1>6, <1>7 DEF IInv

LEMMA RegisterPeersKeeps ==
  ASSUME IInv, NEW n \in Nodes, NEW l \in PeerLists, RegisterPeers(n, l)
  PROVE  IInv'
<1>0. /\ TypeOK /\ ProcInv /\ FlightInv /\ FromInv /\ KeyInv /\ VersionInv
      /\ RingInv
  BY DEF IInv
<1>1. TypeOK'
  BY <1>0, AllDifferent DEF RegisterPeers, Installs, TypeOK
<1>2. ProcInv'
  BY <1>0, AllDifferent DEF RegisterPeers, ProcInv
<1>3. FlightInv'
  BY <1>0, AllDifferent DEF RegisterPeers, sfVars, FlightInv
<1>4. FromInv'
  BY <1>0, ProcsAssumption DEF RegisterPeers, FromInv
<1>5. KeyInv'
  BY <1>0, AllDifferent DEF RegisterPeers, sfVars, KeyInv
<1>6. VersionInv'
  BY <1>0, AllDifferent DEF RegisterPeers, VersionInv
<1>7. RingInv'
  <2> SUFFICES ASSUME ~disagreed'  PROVE RingInv'
    BY DEF RingInv
  <2>1. /\ ring' = [ring EXCEPT ![n] = NewRing[l]] /\ ring'[n] = NewRing[l]
        /\ ~disagreed /\ want' = want /\ from' = from
        /\ \A o \in Nodes \ {n} : Registered(o) => ring[o] = ring'[n]
    BY <1>0 DEF RegisterPeers, Installs, TypeOK
  <2>2. \A o, r \in Nodes :
           Registered(o)' /\ Registered(r)' => ring'[o] = ring'[r]
    BY <1>0, <2>1 DEF Registered
  <2>3. ASSUME NEW q \in Handlers, from'[q] # Nobody
        PROVE  LET a == want'[from'[q]][1]
                   k == want'[from'[q]][2]
               IN  /\ ring'[a] # NoRing /\ ring'[want'[q][1]] # NoRing
                   /\ want'[q][1] = ring'[a][k] /\ ring'[a][k] # a
    <3> DEFINE a == want[from[q]][1]
               k == want[from[q]][2]
               b == want[q][1]
    <3>1. /\ from[q] \in Procs /\ q \in Procs
          /\ at[from[q]] = "remote" /\ at[q] # "free"
      BY <1>0, <2>1, <2>3 DEF FromInv, TypeOK, Procs
    <3>2. a \in Nodes /\ b \in Nodes
      BY <1>0, <3>1 DEF ProcInv, TypeOK
    <3>3. Registered(a) /\ Registered(b) /\ b = ring[a][k] /\ b # a
      BY <1>0, <2>1, <2>3 DEF RingInv, Owner
    <3>4. ring[a] = ring[b]
      BY <1>0, <2>1, <3>2, <3>3 DEF RingInv
    <3>5. ring'[a] = ring[a] /\ ring'[b] = ring[b]
      BY <1>0, <2>1, <3>2, <3>3, <3>4 DEF TypeOK
    <3> QED  BY <2>1, <3>3, <3>5 DEF Registered
  <2> QED  BY <2>2, <2>3 DEF RingInv, Owner, Registered
<1> QED  BY <1>1, <1>2, <1>3, <1>4, <1>5, <1>6, <1>7 DEF IInv

LEMMA SetKeeps ==
  ASSUME IInv, NEW n \in Nodes, NEW l \in PeerLists, Set(n, l)
  PROVE  IInv'
<1>0. /\ TypeOK /\ ProcInv /\ FlightInv /\ FromInv /\ KeyInv /\ VersionInv
      /\ RingInv
  BY DEF IInv
<1>1. TypeOK'
  BY <1>0, AllDifferent DEF Set, Installs, TypeOK
<1>2. ProcInv'
  BY <1>0, AllDifferent DEF Set, ProcInv
<1>3. FlightInv'
  BY <1>0, AllDifferent DEF Set, sfVars, FlightInv
<1>4. FromInv'
  BY <1>0, ProcsAssumption DEF Set, FromInv
<1>5. KeyInv'
  BY <1>0, AllDifferent DEF Set, sfVars, KeyInv
<1>6. VersionInv'
  BY <1>0, AllDifferent DEF Set, VersionInv
<1>7. RingInv'
  <2> SUFFICES ASSUME ~disagreed'  PROVE RingInv'
    BY DEF RingInv
  <2>1. /\ ring' = [ring EXCEPT ![n] = NewRing[l]] /\ ring'[n] = NewRing[l]
        /\ ~disagreed /\ want' = want /\ from' = from
        /\ \A o \in Nodes \ {n} : Registered(o) => ring[o] = ring'[n]
    BY <1>0 DEF Set, Installs, TypeOK
  <2>2. \A o, r \in Nodes :
           Registered(o)' /\ Registered(r)' => ring'[o] = ring'[r]
    BY <1>0, <2>1 DEF Registered
  <2>3. ASSUME NEW q \in Handlers, from'[q] # Nobody
        PROVE  LET a == want'[from'[q]][1]
                   k == want'[from'[q]][2]
               IN  /\ ring'[a] # NoRing /\ ring'[want'[q][1]] # NoRing
                   /\ want'[q][1] = ring'[a][k] /\ ring'[a][k] # a
    <3> DEFINE a == want[from[q]][1]
               k == want[from[q]][2]
               b == want[q][1]
    <3>1. /\ from[q] \in Procs /\ q \in Procs
          /\ at[from[q]] = "remote" /\ at[q] # "free"
      BY <1>0, <2>1, <2>3 DEF FromInv, TypeOK, Procs
    <3>2. a \in Nodes /\ b \in Nodes
      BY <1>0, <3>1 DEF ProcInv, TypeOK
    <3>3. Registered(a) /\ Registered(b) /\ b = ring[a][k] /\ b # a
      BY <1>0, <2>1, <2>3 DEF RingInv, Owner
    <3>4. ring[a] = ring[b]
      BY <1>0, <2>1, <3>2, <3>3 DEF RingInv
    <3>5. ring'[a] = ring[a] /\ ring'[b] = ring[b]
      BY <1>0, <2>1, <3>2, <3>3, <3>4 DEF TypeOK
    <3> QED  BY <2>1, <3>3, <3>5 DEF Registered
  <2> QED  BY <2>2, <2>3 DEF RingInv, Owner, Registered
<1> QED  BY <1>1, <1>2, <1>3, <1>4, <1>5, <1>6, <1>7 DEF IInv

LEMMA ApiGetKeeps ==
  ASSUME IInv, NEW c \in Clients, NEW n \in Nodes, NEW k \in Keys,
         ApiGet(c, n, k)
  PROVE  IInv'
<1>0. /\ TypeOK /\ ProcInv /\ FlightInv /\ FromInv /\ KeyInv /\ VersionInv
      /\ RingInv
  BY DEF IInv
<1>1. TypeOK'
  BY <1>0, AllDifferent DEF ApiGet, Move, TypeOK, At
<1>2. ProcInv'
  BY <1>0, AllDifferent DEF ApiGet, Move, TypeOK, ProcInv
<1>3. FlightInv'
  BY <1>0, AllDifferent DEF ApiGet, Move, sfVars, FlightInv, Flying, Grounded
<1>4. FromInv'
  BY <1>0, ProcsAssumption DEF ApiGet, Move, FromInv
<1>5. KeyInv'
  <2>1. \A x \in Procs : ans[x] = NoAnswer \/ want'[x] = want[x]
    BY <1>0 DEF ApiGet, Move, ProcInv
  <2>2. \A x \in Procs : read[x] = NoAnswer \/ want'[x] = want[x]
    BY <1>0 DEF ApiGet, Move, ProcInv
  <2>3. \A k_ : Suits(NoAnswer, k_)
    BY AllDifferent DEF Suits, Answers
  <2> QED  BY <1>0, <2>1, <2>2, <2>3 DEF ApiGet, KeyInv, sfVars
<1>6. VersionInv'
  BY <1>0, AllDifferent DEF ApiGet, Move, ProcInv, VersionInv
<1>7. RingInv'
  BY <1>0, ProcsAssumption
     DEF ApiGet, Move, FromInv, RingInv, Registered, Owner
<1> QED  BY <1>1, <1>2, <1>3, <1>4, <1>5, <1>6, <1>7 DEF IInv

LEMMA HitKeeps ==
  ASSUME IInv, NEW p \in Procs, Hit(p)
  PROVE  IInv'
<1>0. /\ TypeOK /\ ProcInv /\ FlightInv /\ FromInv /\ KeyInv /\ VersionInv
      /\ RingInv
  BY DEF IInv
<1> DEFINE n == NodeOf(p)
           e == EntryOf(n, KeyOf(p))
<1>a. /\ at[p] = "lookup" /\ at' = [at EXCEPT ![p] = "answer"]
      /\ Cached(n, KeyOf(p))
      /\ store' = [store EXCEPT ![n] = Touched(n, e)]
      /\ ans' = [ans EXCEPT ![p] = e.value]
      /\ UNCHANGED <<db, ring, want, from, read, disagreed, sfVars>>
  BY DEF Hit, Move
<1>b. /\ n \in Nodes /\ KeyOf(p) \in Keys
      /\ n = want[p][1] /\ KeyOf(p) = want[p][2]
  BY <1>a, Asked
<1>c. /\ e \in Entry /\ e.key = KeyOf(p)
      /\ \E i \in DOMAIN store[n] : e = store[n][i]
  BY <1>0, <1>a, <1>b, CachedEntry
<1>d. /\ EntriesOK(store'[n])
      /\ \A i \in DOMAIN store'[n] : \E j \in DOMAIN store[n] :
            store'[n][i] = store[n][j]
  BY <1>0, <1>a, <1>b, <1>c, StoreOK, TouchedOK
<1>e. \A o \in Nodes \ {n} : store'[o] = store[o]
  BY <1>0, <1>a, <1>b
<1>f. e.value \in Value
  BY <1>c DEF Entry
<1> HIDE DEF n, e
<1>1. TypeOK'
  <2>1. /\ at' \in [Procs -> At]
        /\ ans' \in [Procs -> Value \cup Errors \cup {NoAnswer}]
    BY <1>0, <1>a, <1>f DEF TypeOK, At
  <2>2. \A o \in Nodes : EntriesOK(store'[o])
    BY <1>0, <1>d, <1>e, StoreOK
  <2> QED  BY <1>0, <1>a, <2>1, <2>2 DEF TypeOK, EntriesOK
<1>2. ProcInv'
  BY <1>0, <1>a, <1>f, AllDifferent DEF TypeOK, ProcInv, Answers
<1>3. FlightInv'
  BY <1>0, AllDifferent DEF Hit, Move, sfVars, FlightInv, Flying, Grounded
<1>4. FromInv'
  BY <1>0, ProcsAssumption DEF Hit, Move, FromInv
<1>5. KeyInv'
  <2>1. \A o \in Nodes : \A i \in DOMAIN store'[o] :
           store'[o][i].value.key = store'[o][i].key
    BY <1>0, <1>d, <1>e DEF KeyInv
  <2>2. Suits(e.value, want[p][2])
    BY <1>0, <1>b, <1>c, <1>f, NotBoth DEF KeyInv, Suits, Seen
  <2>3. \A x \in Procs : Suits(ans'[x], want[x][2])
    BY <1>0, <1>a, <2>2 DEF KeyInv
  <2> QED  BY <1>0, <1>a, <2>1, <2>3 DEF KeyInv, sfVars
<1>6. VersionInv'
  <2>1. \A o \in Nodes : \A i \in DOMAIN store'[o] :
           \E j \in DOMAIN store[o] : store'[o][i] = store[o][j]
    BY <1>d, <1>e
  <2>2. \A x \in Procs : read[x] # NoAnswer => want[x][1] \in Nodes
    BY <1>0 DEF ProcInv, TypeOK
  <2>3. ASSUME NEW o \in Nodes, NEW i \in DOMAIN store'[o]
        PROVE  /\ store'[o][i].value.ver <= db[store'[o][i].key]
               /\ \A x \in Procs : read[x] # NoAnswer /\ want[x][1] = o =>
                      (store'[o][i].key = want[x][2] =>
                          store'[o][i].value.ver <= read[x].ver)
    BY <1>0, <2>1 DEF VersionInv
  <2> QED  BY <1>0, <1>a, <2>2, <2>3 DEF VersionInv
<1>7. RingInv'
  BY <1>0, ProcsAssumption DEF Hit, RingInv, Registered, Owner
<1> QED  BY <1>1, <1>2, <1>3, <1>4, <1>5, <1>6, <1>7 DEF IInv

LEMMA MissKeeps ==
  ASSUME IInv, NEW p \in Procs, Miss(p)
  PROVE  IInv'
<1>0. /\ TypeOK /\ ProcInv /\ FlightInv /\ FromInv /\ KeyInv /\ VersionInv
      /\ RingInv
  BY DEF IInv
<1>1. TypeOK'
  BY <1>0, AllDifferent DEF Miss, Move, ownVarsButAt, TypeOK, At
<1>2. ProcInv'
  BY <1>0, AllDifferent DEF Miss, Move, ownVarsButAt, ProcInv
<1>3. FlightInv'
  BY <1>0, AllDifferent
     DEF Miss, Move, ownVarsButAt, sfVars, FlightInv, Flying, Grounded
<1>4. FromInv'
  BY <1>0, ProcsAssumption DEF Miss, Move, ownVarsButAt, FromInv
<1>5. KeyInv'
  BY <1>0, AllDifferent DEF Miss, ownVarsButAt, sfVars, KeyInv
<1>6. VersionInv'
  BY <1>0, AllDifferent DEF Miss, ownVarsButAt, VersionInv
<1>7. RingInv'
  BY <1>0, ProcsAssumption DEF Miss, ownVarsButAt, RingInv, Registered, Owner
<1> QED  BY <1>1, <1>2, <1>3, <1>4, <1>5, <1>6, <1>7 DEF IInv

LEMMA LeadKeeps ==
  ASSUME IInv, NEW p \in Procs, Lead(p)
  PROVE  IInv'
<1>0. /\ TypeOK /\ ProcInv /\ FlightInv /\ FromInv /\ KeyInv /\ VersionInv
      /\ RingInv
  BY DEF IInv
<1>1. TypeOK'
  BY <1>0, AllDifferent DEF Lead, Move, ownVarsButAt, TypeOK, At
<1>2. ProcInv'
  BY <1>0, AllDifferent DEF Lead, Move, ownVarsButAt, ProcInv
<1>3. FlightInv'
  BY <1>0, AllDifferent
     DEF Lead, Move, ownVarsButAt, SF!Lead, SF!NoneYet, TypeOK, ProcInv,
         FlightInv, Flying, Grounded
<1>4. FromInv'
  BY <1>0, ProcsAssumption DEF Lead, Move, ownVarsButAt, FromInv
<1>5. KeyInv'
  BY <1>0, AllDifferent
     DEF Lead, Move, ownVarsButAt, SF!Lead, ProcInv, FlightInv, KeyInv, At,
         Flying, Suits, Seen, Procs
<1>6. VersionInv'
  BY <1>0, AllDifferent DEF Lead, ownVarsButAt, VersionInv
<1>7. RingInv'
  BY <1>0, ProcsAssumption DEF Lead, ownVarsButAt, RingInv, Registered, Owner
<1> QED  BY <1>1, <1>2, <1>3, <1>4, <1>5, <1>6, <1>7 DEF IInv

LEMMA JoinKeeps ==
  ASSUME IInv, NEW p \in Procs, Join(p)
  PROVE  IInv'
<1>0. /\ TypeOK /\ ProcInv /\ FlightInv /\ FromInv /\ KeyInv /\ VersionInv
      /\ RingInv
  BY DEF IInv
<1>1. TypeOK'
  BY <1>0, AllDifferent DEF Join, Move, ownVarsButAt, TypeOK, At
<1>2. ProcInv'
  BY <1>0, AllDifferent DEF Join, Move, ownVarsButAt, ProcInv
<1>3. FlightInv'
  BY <1>0, AllDifferent
     DEF Join, Move, ownVarsButAt, SF!Join, TypeOK, ProcInv, FlightInv,
         Flying, Grounded
<1>4. FromInv'
  BY <1>0, ProcsAssumption DEF Join, Move, ownVarsButAt, FromInv
<1>5. KeyInv'
  BY <1>0, AllDifferent
     DEF Join, Move, ownVarsButAt, SF!Join, TypeOK, ProcInv, FlightInv, KeyInv
<1>6. VersionInv'
  BY <1>0, AllDifferent DEF Join, ownVarsButAt, VersionInv
<1>7. RingInv'
  BY <1>0, ProcsAssumption DEF Join, ownVarsButAt, RingInv, Registered, Owner
<1> QED  BY <1>1, <1>2, <1>3, <1>4, <1>5, <1>6, <1>7 DEF IInv

LEMMA CloseKeeps ==
  ASSUME IInv, NEW p \in Procs, Close(p)
  PROVE  IInv'
<1>0. /\ TypeOK /\ ProcInv /\ FlightInv /\ FromInv /\ KeyInv /\ VersionInv
      /\ RingInv
  BY DEF IInv
<1>1. TypeOK'
  BY <1>0, AllDifferent DEF Close, ownVars, TypeOK
<1>2. ProcInv'
  BY <1>0, AllDifferent DEF Close, ownVars, ProcInv
<1>3. FlightInv'
  BY <1>0, AllDifferent DEF Close, ownVars, SF!Close, ProcInv, FlightInv
<1>4. FromInv'
  BY <1>0, ProcsAssumption DEF Close, ownVars, FromInv
<1>5. KeyInv'
  <2>1. \A k : Suits(NoFlight, k)
    BY AllDifferent DEF Suits, Answers
  <2>2. \A nk \in Nodes \X Keys :
           flight'[nk] = flight[nk] \/ flight'[nk] = NoFlight
    BY <1>0 DEF Close, SF!Close
  <2> QED  BY <1>0, <2>1, <2>2
           DEF Close, SF!Close, ownVars, KeyInv
<1>6. VersionInv'
  BY <1>0, AllDifferent DEF Close, ownVars, VersionInv
<1>7. RingInv'
  BY <1>0, ProcsAssumption DEF Close, ownVars, RingInv, Registered, Owner
<1> QED  BY <1>1, <1>2, <1>3, <1>4, <1>5, <1>6, <1>7 DEF IInv

LEMMA DoReturnsKeeps ==
  ASSUME IInv, NEW p \in Procs, DoReturns(p)
  PROVE  IInv'
<1>0. /\ TypeOK /\ ProcInv /\ FlightInv /\ FromInv /\ KeyInv /\ VersionInv
      /\ RingInv
  BY DEF IInv
<1>a. /\ at[p] = "do" /\ at' = [at EXCEPT ![p] = "answer"]
      /\ ans' = [ans EXCEPT ![p] = out[p]] /\ out[p] # NoAnswer
      /\ on' = [on EXCEPT ![p] = NoKey] /\ out' = [out EXCEPT ![p] = NoAnswer]
      /\ UNCHANGED <<db, store, ring, want, from, read, disagreed, flight, leading>>
  BY DEF DoReturns, Move, SF!Leave
<1>b. out[p] \in Answers /\ on[p] = want[p]
  BY <1>0, <1>a DEF FlightInv
<1>1. TypeOK'
  <2>1. /\ at' \in [Procs -> At]
        /\ ans' \in [Procs -> Value \cup Errors \cup {NoAnswer}]
    BY <1>0, <1>a, <1>b DEF TypeOK, At, Answers
  <2> QED  BY <1>0, <1>a, <2>1 DEF TypeOK
<1>2. ProcInv'
  BY <1>0, AllDifferent DEF DoReturns, Move, SF!Leave, TypeOK, ProcInv
<1>3. FlightInv'
  BY <1>0, AllDifferent
     DEF DoReturns, Move, SF!Leave, TypeOK, FlightInv, Flying, Grounded
<1>4. FromInv'
  BY <1>0, ProcsAssumption DEF DoReturns, Move, FromInv
<1>5. KeyInv'
  <2>1. \A k : Suits(NoAnswer, k)
    BY AllDifferent DEF Suits, Answers
  <2>2. \A x \in Procs : Suits(ans'[x], want'[x][2])
    BY <1>0, <1>a, <1>b DEF KeyInv
  <2>3. \A x \in Procs : Suits(out'[x], on'[x][2])
    BY <1>0, <1>a, <2>1 DEF KeyInv, FlightInv
  <2> QED  BY <1>0, <1>a, <2>2, <2>3 DEF KeyInv
<1>6. VersionInv'
  BY <1>0, AllDifferent DEF DoReturns, VersionInv
<1>7. RingInv'
  BY <1>0, ProcsAssumption DEF DoReturns, RingInv, Registered, Owner
<1> QED  BY <1>1, <1>2, <1>3, <1>4, <1>5, <1>6, <1>7 DEF IInv

LEMMA PickSelfKeeps ==
  ASSUME IInv, NEW p \in Procs, PickSelf(p)
  PROVE  IInv'
<1>0. /\ TypeOK /\ ProcInv /\ FlightInv /\ FromInv /\ KeyInv /\ VersionInv
      /\ RingInv
  BY DEF IInv
<1>1. TypeOK'
  BY <1>0, AllDifferent DEF PickSelf, Move, ownVarsButAt, TypeOK, At
<1>2. ProcInv'
  BY <1>0, AllDifferent DEF PickSelf, Move, ownVarsButAt, ProcInv
<1>3. FlightInv'
  BY <1>0, AllDifferent
     DEF PickSelf, Move, ownVarsButAt, sfVars, FlightInv, Flying, Grounded
<1>4. FromInv'
  BY <1>0, ProcsAssumption DEF PickSelf, Move, ownVarsButAt, FromInv
<1>5. KeyInv'
  BY <1>0, AllDifferent DEF PickSelf, ownVarsButAt, sfVars, KeyInv
<1>6. VersionInv'
  BY <1>0, AllDifferent DEF PickSelf, ownVarsButAt, VersionInv
<1>7. RingInv'
  BY <1>0, ProcsAssumption
     DEF PickSelf, ownVarsButAt, RingInv, Registered, Owner
<1> QED  BY <1>1, <1>2, <1>3, <1>4, <1>5, <1>6, <1>7 DEF IInv

LEMMA PickPeerKeeps ==
  ASSUME IInv, NEW p \in Procs, NEW q \in Handlers, PickPeer(p, q)
  PROVE  IInv'
<1>0. /\ TypeOK /\ ProcInv /\ FlightInv /\ FromInv /\ KeyInv /\ VersionInv
      /\ RingInv
  BY DEF IInv
<1> DEFINE n == NodeOf(p)
           k == KeyOf(p)
           o == Owner(n, k)
<1>a. /\ at[p] = "pick" /\ at[q] = "free" /\ p # q
      /\ Registered(n) /\ o # n /\ Registered(o)
      /\ at' = [at EXCEPT ![p] = "remote", ![q] = "lookup"]
      /\ want' = [want EXCEPT ![q] = <<o, Wire[k]>>]
      /\ from' = [from EXCEPT ![q] = p]
      /\ UNCHANGED <<db, store, ring, ans, read, disagreed, sfVars>>
  BY DEF PickPeer, IsRemote
<1>b. /\ q \in Procs /\ n \in Nodes /\ k \in Keys
      /\ want[p] = <<n, k>> /\ want[p] # NoKey
  BY <1>a, Asked, AllDifferent DEF Procs
<1>c. o \in Nodes /\ Wire[k] \in Keys
  BY <1>0, <1>a, <1>b, RingTyped, WireAssumption DEF Owner
<1> HIDE DEF n, k, o
<1>1. TypeOK'
  <2>1. at' \in [Procs -> At]
    BY <1>0, <1>a DEF TypeOK, At
  <2>2. want' \in [Procs -> (Nodes \X Keys) \cup {NoKey}]
    BY <1>0, <1>a, <1>c DEF TypeOK
  <2>3. from' \in [Handlers -> Procs \cup {Nobody}]
    BY <1>0, <1>a DEF TypeOK
  <2> QED  BY <1>0, <1>a, <2>1, <2>2, <2>3 DEF TypeOK
<1>2. ProcInv'
  <2>1. <<o, Wire[k]>> # NoKey
    BY <1>c, AllDifferent
  <2> QED  BY <1>0, <1>a, <1>b, <2>1 DEF TypeOK, ProcInv
<1>3. FlightInv'
  BY <1>0, AllDifferent
     DEF PickPeer, sfVars, TypeOK, FlightInv, Flying, Grounded
<1>4. FromInv'
  BY <1>0, ProcsAssumption
     DEF PickPeer, IsRemote, Registered, TypeOK, ProcInv, FromInv, Procs,
         NodeOf, KeyOf
<1>5. KeyInv'
  <2>1. \A j : Suits(NoAnswer, j)
    BY AllDifferent DEF Suits, Answers
  <2>2. ans[q] = NoAnswer /\ read[q] = NoAnswer
    BY <1>0, <1>a, <1>b DEF ProcInv
  <2>3. \A x \in Procs \ {q} : want'[x] = want[x]
    BY <1>0, <1>a
  <2>4. ASSUME NEW x \in Procs
        PROVE  /\ Suits(ans'[x], want'[x][2]) /\ Suits(out'[x], on'[x][2])
               /\ read'[x] # NoAnswer => read'[x].key = want'[x][2]
    BY <1>0, <1>a, <2>1, <2>2, <2>3 DEF KeyInv, sfVars
  <2> QED  BY <1>0, <1>a, <2>4 DEF KeyInv, sfVars
<1>6. VersionInv'
  BY <1>0, AllDifferent DEF PickPeer, ProcInv, VersionInv
<1>7. RingInv'
  <2> SUFFICES ASSUME ~disagreed'  PROVE RingInv'
    BY DEF RingInv
  <2>1. \A a, b \in Nodes :
           Registered(a)' /\ Registered(b)' => ring'[a] = ring'[b]
    BY <1>0, <1>a DEF RingInv, Registered
  <2>2. ASSUME NEW r \in Handlers, from'[r] # Nobody
        PROVE  LET a == want'[from'[r]][1]
                   j == want'[from'[r]][2]
               IN  /\ ring'[a] # NoRing /\ ring'[want'[r][1]] # NoRing
                   /\ want'[r][1] = ring'[a][j] /\ ring'[a][j] # a
    <3>1. CASE r = q
      <4>1. from'[r] = p /\ want'[p] = <<n, k>> /\ want'[r] = <<o, Wire[k]>>
        BY <1>0, <1>a, <1>b, <3>1 DEF TypeOK
      <4>2. ring'[n][k] = o /\ ring' = ring
        BY <1>a DEF o, Owner
      <4> QED  BY <1>a, <4>1, <4>2 DEF Registered
    <3>2. CASE r # q
      <4>1. from'[r] = from[r] /\ r \in Procs /\ from[r] \in Procs
        BY <1>0, <1>a, <2>2, <3>2 DEF TypeOK, Procs
      <4>2. from[r] # q
        BY <1>0, <1>a, <2>2, <4>1 DEF FromInv
      <4>3. want'[r] = want[r] /\ want'[from[r]] = want[from[r]]
        BY <1>0, <1>a, <3>2, <4>1, <4>2
      <4> QED  BY <1>0, <1>a, <2>2, <4>1, <4>3 DEF RingInv, Registered, Owner
    <3> QED  BY <3>1, <3>2
  <2> QED  BY <2>1, <2>2 DEF RingInv, Owner, Registered
<1> QED  BY <1>1, <1>2, <1>3, <1>4, <1>5, <1>6, <1>7 DEF IInv

LEMMA PeerDownKeeps ==
  ASSUME IInv, NEW p \in Procs, PeerDown(p)
  PROVE  IInv'
<1>0. /\ TypeOK /\ ProcInv /\ FlightInv /\ FromInv /\ KeyInv /\ VersionInv
      /\ RingInv
  BY DEF IInv
<1>1. TypeOK'
  BY <1>0, AllDifferent DEF PeerDown, Move, ownVarsButAt, TypeOK, At
<1>2. ProcInv'
  BY <1>0, AllDifferent DEF PeerDown, Move, ownVarsButAt, ProcInv
<1>3. FlightInv'
  BY <1>0, AllDifferent
     DEF PeerDown, Move, ownVarsButAt, sfVars, FlightInv, Flying, Grounded
<1>4. FromInv'
  BY <1>0, ProcsAssumption DEF PeerDown, Move, ownVarsButAt, FromInv
<1>5. KeyInv'
  BY <1>0, AllDifferent DEF PeerDown, ownVarsButAt, sfVars, KeyInv
<1>6. VersionInv'
  BY <1>0, AllDifferent DEF PeerDown, ownVarsButAt, VersionInv
<1>7. RingInv'
  BY <1>0, ProcsAssumption
     DEF PeerDown, ownVarsButAt, RingInv, Registered, Owner
<1> QED  BY <1>1, <1>2, <1>3, <1>4, <1>5, <1>6, <1>7 DEF IInv

LEMMA PeerBreaksKeeps ==
  ASSUME IInv, NEW p \in Procs, NEW q \in Handlers, PeerBreaks(p, q)
  PROVE  IInv'
<1>0. /\ TypeOK /\ ProcInv /\ FlightInv /\ FromInv /\ KeyInv /\ VersionInv
      /\ RingInv
  BY DEF IInv
<1>1. TypeOK'
  BY <1>0, AllDifferent DEF PeerBreaks, Move, TypeOK, At
<1>2. ProcInv'
  BY <1>0, AllDifferent DEF PeerBreaks, Move, ProcInv
<1>3. FlightInv'
  BY <1>0, AllDifferent
     DEF PeerBreaks, Move, sfVars, FlightInv, Flying, Grounded
<1>4. FromInv'
  BY <1>0, ProcsAssumption DEF PeerBreaks, Move, TypeOK, FromInv
<1>5. KeyInv'
  BY <1>0, AllDifferent DEF PeerBreaks, sfVars, KeyInv
<1>6. VersionInv'
  BY <1>0, AllDifferent DEF PeerBreaks, VersionInv
<1>7. RingInv'
  BY <1>0, ProcsAssumption DEF PeerBreaks, RingInv, Registered, Owner
<1> QED  BY <1>1, <1>2, <1>3, <1>4, <1>5, <1>6, <1>7 DEF IInv

LEMMA PeerAnswersKeeps ==
  ASSUME IInv, NEW p \in Procs, NEW q \in Handlers, PeerAnswers(p, q)
  PROVE  IInv'
<1>0. /\ TypeOK /\ ProcInv /\ FlightInv /\ FromInv /\ KeyInv /\ VersionInv
      /\ RingInv
  BY DEF IInv
<1>a. /\ from[q] = p /\ at[p] = "remote" /\ at[q] = "answer" /\ p # q
      /\ ans[q] \in Value /\ SF!Land(p, ans[q])
      /\ at' = [at EXCEPT ![p] = "do", ![q] = "free"]
      /\ want' = [want EXCEPT ![q] = NoKey] /\ ans' = [ans EXCEPT ![q] = NoAnswer]
      /\ UNCHANGED <<db, store, ring, read, disagreed>>
  BY <1>0 DEF PeerAnswers, Done
<1>b. /\ p \in Procs /\ q \in Procs /\ want[p] \in Nodes \X Keys
      /\ want[q][2] = Wire[want[p][2]]
  BY <1>0, <1>a, Asked, AllDifferent DEF FromInv, Procs
<1>c. ans[q].key \in Seen(want[p][2])
  <2>1. ans[q].key \in {want[q][2], Wire[want[q][2]]}
    BY <1>0, <1>a, <1>b DEF KeyInv, Suits, Seen
  <2>2. Wire[want[q][2]] = want[q][2]
    BY <1>b, WireAssumption
  <2> QED  BY <1>b, <2>1, <2>2 DEF Seen
<1>d. /\ FlightInv'
      /\ \A nk \in Nodes \X Keys : Suits(flight'[nk], nk[2])
      /\ \A x \in Procs : Suits(out'[x], on'[x][2])
  <2>1. ans[q] \in Answers /\ Suits(ans[q], want[p][2])
    BY <1>a, <1>c, NotBoth DEF Answers, Suits
  <2>2. /\ at'[p] = "do" /\ want'[p] = want[p]
        /\ \A x \in Procs \ {p} :
              \/ at[x] \in Grounded /\ at'[x] \in Grounded
              \/ at'[x] = at[x] /\ want'[x] = want[x]
    BY <1>0, <1>a DEF TypeOK, Grounded
  <2>3. at[p] \in Flying
    BY <1>a DEF Flying
  <2> QED  BY <1>0, <1>a, <1>b, <2>1, <2>2, <2>3, LandKeeps
<1>1. TypeOK'
  BY <1>0, AllDifferent DEF PeerAnswers, Done, TypeOK, At
<1>2. ProcInv'
  BY <1>0, AllDifferent DEF PeerAnswers, Done, TypeOK, ProcInv
<1>3. FlightInv'
  BY <1>d
<1>4. FromInv'
  <2>1. q \in Procs /\ p # q /\ from[q] = p /\ at[p] = "remote"
    BY <1>0 DEF PeerAnswers, Procs
  <2>2. ASSUME NEW r \in Handlers, r # q
        PROVE  /\ from'[r] = from[r]
               /\ at'[r] = "free" => from'[r] = Nobody
               /\ want'[r] = want[r]
               /\ from[r] # Nobody => /\ from[r] # q /\ from[r] # p
                                      /\ at'[from[r]] = at[from[r]]
                                      /\ want'[from[r]] = want[from[r]]
    <3>1. /\ r \in Procs /\ from'[r] = from[r] /\ want'[r] = want[r]
          /\ r = p \/ at'[r] = at[r]
      BY <1>0, <2>2 DEF PeerAnswers, Done, TypeOK, Procs
    <3>2. at'[r] = "free" => from'[r] = Nobody
      BY <1>0, <2>1, <2>2, <3>1 DEF PeerAnswers, Done, FromInv, TypeOK
    <3>3. ASSUME from[r] # Nobody
          PROVE  /\ from[r] # q /\ from[r] # p
                 /\ at'[from[r]] = at[from[r]] /\ want'[from[r]] = want[from[r]]
      <4>1. from[r] # q /\ from[r] # p /\ from[r] \in Procs
        BY <1>0, <2>1, <2>2, <3>3, ProcsAssumption
           DEF PeerAnswers, FromInv, TypeOK
      <4> QED  BY <1>0, <4>1 DEF PeerAnswers, Done, TypeOK
    <3> QED  BY <3>1, <3>2, <3>3
  <2>3. from'[q] = Nobody
    BY <1>0 DEF PeerAnswers, Done, TypeOK
  <2> QED  BY <1>0, <2>2, <2>3 DEF FromInv
<1>5. KeyInv'
  <2>1. \A j : Suits(NoAnswer, j)
    BY AllDifferent DEF Suits, Answers
  <2>2. read[q] = NoAnswer
    BY <1>0, <1>a, <1>b DEF ProcInv
  <2>3. ASSUME NEW x \in Procs
        PROVE  /\ Suits(ans'[x], want'[x][2])
               /\ read'[x] # NoAnswer => read'[x].key = want'[x][2]
    <3>1. CASE x = q
      BY <1>0, <1>a, <2>1, <2>2, <3>1 DEF TypeOK
    <3>2. CASE x # q
      <4>1. ans'[x] = ans[x] /\ want'[x] = want[x] /\ read'[x] = read[x]
        BY <1>0, <1>a, <3>2
      <4> QED  BY <1>0, <4>1 DEF KeyInv
    <3> QED  BY <3>1, <3>2
  <2> QED  BY <1>0, <1>a, <1>d, <2>3 DEF KeyInv
<1>6. VersionInv'
  BY <1>0, AllDifferent
     DEF PeerAnswers, Done, TypeOK, ProcInv, KeyInv, VersionInv, Flying
<1>7. RingInv'
  BY <1>0, ProcsAssumption
     DEF PeerAnswers, Done, TypeOK, FromInv, RingInv, Registered, Owner
<1> QED  BY <1>1, <1>2, <1>3, <1>4, <1>5, <1>6, <1>7 DEF IInv

LEMMA PeerAnswersErrorKeeps ==
  ASSUME IInv, NEW p \in Procs, NEW q \in Handlers, PeerAnswersError(p, q)
  PROVE  IInv'
<1>0. /\ TypeOK /\ ProcInv /\ FlightInv /\ FromInv /\ KeyInv /\ VersionInv
      /\ RingInv
  BY DEF IInv
<1>1. TypeOK'
  BY <1>0, AllDifferent DEF PeerAnswersError, Done, TypeOK, At
<1>2. ProcInv'
  BY <1>0, AllDifferent DEF PeerAnswersError, Done, TypeOK, ProcInv
<1>3. FlightInv'
  BY <1>0, AllDifferent
     DEF PeerAnswersError, Done, sfVars, TypeOK, FlightInv, Flying, Grounded
<1>4. FromInv'
  <2>1. q \in Procs /\ p # q /\ from[q] = p /\ at[p] = "remote"
    BY <1>0 DEF PeerAnswersError, Procs
  <2>2. ASSUME NEW r \in Handlers, r # q
        PROVE  /\ from'[r] = from[r]
               /\ at'[r] = "free" => from'[r] = Nobody
               /\ want'[r] = want[r]
               /\ from[r] # Nobody => /\ from[r] # q /\ from[r] # p
                                      /\ at'[from[r]] = at[from[r]]
                                      /\ want'[from[r]] = want[from[r]]
    <3>1. /\ r \in Procs /\ from'[r] = from[r] /\ want'[r] = want[r]
          /\ r = p \/ at'[r] = at[r]
      BY <1>0, <2>2 DEF PeerAnswersError, Done, TypeOK, Procs
    <3>2. at'[r] = "free" => from'[r] = Nobody
      BY <1>0, <2>1, <2>2, <3>1 DEF PeerAnswersError, Done, FromInv, TypeOK
    <3>3. ASSUME from[r] # Nobody
          PROVE  /\ from[r] # q /\ from[r] # p
                 /\ at'[from[r]] = at[from[r]] /\ want'[from[r]] = want[from[r]]
      <4>1. from[r] # q /\ from[r] # p /\ from[r] \in Procs
        BY <1>0, <2>1, <2>2, <3>3, ProcsAssumption
           DEF PeerAnswersError, FromInv, TypeOK
      <4> QED  BY <1>0, <4>1 DEF PeerAnswersError, Done, TypeOK
    <3> QED  BY <3>1, <3>2, <3>3
  <2>3. from'[q] = Nobody
    BY <1>0 DEF PeerAnswersError, Done, TypeOK
  <2> QED  BY <1>0, <2>2, <2>3 DEF FromInv
<1>5. KeyInv'
  BY <1>0, AllDifferent
     DEF PeerAnswersError, Done, sfVars, TypeOK, ProcInv, FlightInv, KeyInv,
         Flying, Grounded
<1>6. VersionInv'
  BY <1>0, AllDifferent DEF PeerAnswersError, Done, TypeOK, ProcInv, VersionInv
<1>7. RingInv'
  BY <1>0, ProcsAssumption
     DEF PeerAnswersError, Done, TypeOK, FromInv, RingInv, Registered, Owner
<1> QED  BY <1>1, <1>2, <1>3, <1>4, <1>5, <1>6, <1>7 DEF IInv

LEMMA AnswerLostKeeps ==
  ASSUME IInv, NEW q \in Handlers, AnswerLost(q)
  PROVE  IInv'
<1>0. /\ TypeOK /\ ProcInv /\ FlightInv /\ FromInv /\ KeyInv /\ VersionInv
      /\ RingInv
  BY DEF IInv
<1>1. TypeOK'
  BY <1>0, AllDifferent DEF AnswerLost, Done, TypeOK, At
<1>2. ProcInv'
  BY <1>0, AllDifferent DEF AnswerLost, Done, TypeOK, ProcInv
<1>3. FlightInv'
  BY <1>0, AllDifferent
     DEF AnswerLost, Done, sfVars, FlightInv, Flying, Grounded
<1>4. FromInv'
  BY <1>0, ProcsAssumption DEF AnswerLost, Done, FromInv
<1>5. KeyInv'
  BY <1>0, AllDifferent
     DEF AnswerLost, Done, sfVars, TypeOK, ProcInv, FlightInv, KeyInv, At,
         Grounded
<1>6. VersionInv'
  BY <1>0, AllDifferent DEF AnswerLost, Done, sfVars, ProcInv, VersionInv
<1>7. RingInv'
  BY <1>0, ProcsAssumption
     DEF AnswerLost, Done, FromInv, RingInv, Registered, Owner
<1> QED  BY <1>1, <1>2, <1>3, <1>4, <1>5, <1>6, <1>7 DEF IInv

LEMMA GetterReturnsKeeps ==
  ASSUME IInv, NEW p \in Procs, GetterReturns(p)
  PROVE  IInv'
<1>0. /\ TypeOK /\ ProcInv /\ FlightInv /\ FromInv /\ KeyInv /\ VersionInv
      /\ RingInv
  BY DEF IInv
<1> DEFINE k == KeyOf(p)
           v == [key |-> k, ver |-> db[k]]
<1>a. /\ at[p] = "getter" /\ at' = [at EXCEPT ![p] = "fill"]
      /\ read' = [read EXCEPT ![p] = v]
      /\ UNCHANGED <<db, store, ring, want, from, ans, disagreed, sfVars>>
  BY DEF GetterReturns, Move
<1>b. k \in Keys /\ k = want[p][2] /\ NodeOf(p) \in Nodes /\ NodeOf(p) = want[p][1]
  BY <1>a, Asked
<1>c. v \in Value /\ v.key = k /\ v.ver = db[k] /\ v # NoAnswer
  BY <1>0, <1>b, AllDifferent DEF TypeOK, Value, Answers
<1> HIDE DEF v, k
<1>1. TypeOK'
  <2>1. /\ at' \in [Procs -> At] /\ read' \in [Procs -> Value \cup {NoAnswer}]
    BY <1>0, <1>a, <1>c DEF TypeOK, At
  <2> QED  BY <1>0, <1>a, <2>1 DEF TypeOK
<1>2. ProcInv'
  BY <1>0, <1>a, <1>c DEF TypeOK, ProcInv
<1>3. FlightInv'
  BY <1>0, AllDifferent
     DEF GetterReturns, Move, sfVars, FlightInv, Flying, Grounded
<1>4. FromInv'
  BY <1>0, ProcsAssumption DEF GetterReturns, Move, FromInv
<1>5. KeyInv'
  BY <1>0, <1>a, <1>b, <1>c DEF KeyInv, sfVars
<1>6. VersionInv'
  <2>1. db[k] \in Nat
    BY <1>0, <1>b, BoundsAssumption DEF TypeOK
  <2>2. read'[p] = v /\ \A x \in Procs \ {p} : read'[x] = read[x]
    BY <1>0, <1>a DEF TypeOK
  <2>3. \A i \in DOMAIN store[want[p][1]] :
           store[want[p][1]][i].key = k => store[want[p][1]][i].value.ver <= db[k]
    BY <1>0, <1>b DEF VersionInv
  <2>4. ASSUME NEW x \in Procs, read'[x] # NoAnswer
        PROVE  /\ read'[x].ver <= db[want[x][2]]
               /\ \A i \in DOMAIN store[want[x][1]] :
                     store[want[x][1]][i].key = want[x][2] =>
                         store[want[x][1]][i].value.ver <= read'[x].ver
    <3>1. CASE x = p
      BY <1>b, <1>c, <2>1, <2>2, <2>3, <3>1
    <3>2. CASE x # p
      BY <1>0, <2>2, <2>4, <3>2 DEF VersionInv
    <3> QED  BY <3>1, <3>2
  <2> QED  BY <1>0, <1>a, <2>4 DEF VersionInv
<1>7. RingInv'
  BY <1>0, ProcsAssumption DEF GetterReturns, RingInv, Registered, Owner
<1> QED  BY <1>1, <1>2, <1>3, <1>4, <1>5, <1>6, <1>7 DEF IInv

LEMMA GetterFailsKeeps ==
  ASSUME IInv, NEW p \in Procs, GetterFails(p)
  PROVE  IInv'
<1>0. /\ TypeOK /\ ProcInv /\ FlightInv /\ FromInv /\ KeyInv /\ VersionInv
      /\ RingInv
  BY DEF IInv
<1> DEFINE r == [error |-> KeyOf(p)]
<1>a. /\ at[p] = "getter" /\ at' = [at EXCEPT ![p] = "do"] /\ SF!Land(p, r)
      /\ UNCHANGED <<db, store, ring, want, from, ans, read, disagreed>>
  BY DEF GetterFails, Move
<1>b. KeyOf(p) \in Keys /\ KeyOf(p) = want[p][2] /\ want[p] \in Nodes \X Keys
  BY <1>a, Asked
<1>c. r \in Errors /\ r.error = want[p][2]
  BY <1>b DEF Errors
<1> HIDE DEF r
<1>d. /\ FlightInv'
      /\ \A nk \in Nodes \X Keys : Suits(flight'[nk], nk[2])
      /\ \A x \in Procs : Suits(out'[x], on'[x][2])
  <2>1. r \in Answers /\ Suits(r, want[p][2]) /\ at[p] \in Flying
    BY <1>a, <1>c, NotBoth DEF Answers, Suits, Flying
  <2>2. /\ at'[p] = "do" /\ want'[p] = want[p]
        /\ \A x \in Procs \ {p} : at'[x] = at[x] /\ want'[x] = want[x]
    BY <1>0, <1>a DEF TypeOK
  <2> QED  BY <1>0, <1>a, <1>b, <2>1, <2>2, LandKeeps
<1>1. TypeOK'
  BY <1>0, AllDifferent DEF GetterFails, Move, TypeOK, At
<1>2. ProcInv'
  BY <1>0, AllDifferent DEF GetterFails, Move, ProcInv
<1>3. FlightInv'
  BY <1>d
<1>4. FromInv'
  BY <1>0, ProcsAssumption DEF GetterFails, Move, FromInv
<1>5. KeyInv'
  BY <1>0, <1>a, <1>d DEF KeyInv
<1>6. VersionInv'
  BY <1>0, AllDifferent DEF GetterFails, VersionInv
<1>7. RingInv'
  BY <1>0, ProcsAssumption DEF GetterFails, RingInv, Registered, Owner
<1> QED  BY <1>1, <1>2, <1>3, <1>4, <1>5, <1>6, <1>7 DEF IInv

LEMMA FillKeeps ==
  ASSUME IInv, NEW p \in Procs, Fill(p)
  PROVE  IInv'
<1>0. /\ TypeOK /\ ProcInv /\ FlightInv /\ FromInv /\ KeyInv /\ VersionInv
      /\ RingInv
  BY DEF IInv
<1> DEFINE n == NodeOf(p)
           e == [key |-> KeyOf(p), value |-> read[p]]
<1>a. /\ at[p] = "fill" /\ at' = [at EXCEPT ![p] = "land"]
      /\ store' = [store EXCEPT ![n] = Touched(n, e)]
      /\ UNCHANGED <<db, ring, want, from, ans, read, disagreed, sfVars>>
  BY DEF Fill, Move
<1>b. /\ n \in Nodes /\ KeyOf(p) \in Keys
      /\ n = want[p][1] /\ KeyOf(p) = want[p][2] /\ want[p] = <<n, KeyOf(p)>>
  BY <1>a, Asked
<1>c. /\ read[p] \in Value /\ read[p] # NoAnswer /\ read[p].key = KeyOf(p)
      /\ e \in Entry /\ e.key = KeyOf(p) /\ e.value = read[p]
  BY <1>0, <1>a, <1>b DEF ProcInv, TypeOK, KeyInv, Entry
<1> HIDE DEF n, e
<1>d. /\ EntriesOK(store'[n])
      /\ \A i \in DOMAIN store'[n] :
            \/ store'[n][i] = e
            \/ \E j \in DOMAIN store[n] :
                  store'[n][i] = store[n][j] /\ store[n][j].key # e.key
  <2>1. store'[n] = Touched(n, e)
    BY <1>0, <1>a, <1>b DEF TypeOK
  <2>2. EntriesOK(store[n])
    BY <1>0, <1>b, StoreOK
  <2> QED  BY <1>b, <1>c, <2>1, <2>2, TouchedOK
<1>e. \A o \in Nodes \ {n} : store'[o] = store[o]
  BY <1>0, <1>a, <1>b
<1>1. TypeOK'
  <2>1. at' \in [Procs -> At]
    BY <1>0, <1>a DEF TypeOK, At
  <2>2. \A o \in Nodes : EntriesOK(store'[o])
    BY <1>0, <1>d, <1>e, StoreOK
  <2> QED  BY <1>0, <1>a, <2>1, <2>2 DEF TypeOK, EntriesOK
<1>2. ProcInv'
  BY <1>0, AllDifferent DEF Fill, Move, ProcInv
<1>3. FlightInv'
  BY <1>0, AllDifferent DEF Fill, Move, sfVars, FlightInv, Flying, Grounded
<1>4. FromInv'
  BY <1>0, ProcsAssumption DEF Fill, Move, FromInv
<1>5. KeyInv'
  <2>1. \A o \in Nodes : \A i \in DOMAIN store'[o] :
           store'[o][i].value.key = store'[o][i].key
    BY <1>0, <1>c, <1>d, <1>e DEF KeyInv
  <2> QED  BY <1>0, <1>a, <2>1 DEF KeyInv, sfVars
<1>6. VersionInv'
  <2>1. ASSUME NEW o \in Nodes, NEW i \in DOMAIN store'[o]
        PROVE  store'[o][i].value.ver <= db'[store'[o][i].key]
    <3>1. CASE o # n
      BY <1>0, <1>a, <1>e, <3>1 DEF VersionInv
    <3>2. CASE o = n /\ store'[o][i] = e
      BY <1>0, <1>a, <1>b, <1>c, <3>2 DEF VersionInv
    <3>3. CASE o = n /\ store'[o][i] # e
      BY <1>0, <1>a, <1>b, <1>d, <3>3 DEF VersionInv
    <3> QED  BY <3>1, <3>2, <3>3
  <2>2. ASSUME NEW x \in Procs, read'[x] # NoAnswer
        PROVE  /\ read'[x].ver <= db'[want'[x][2]]
               /\ \A i \in DOMAIN store'[want'[x][1]] :
                     store'[want'[x][1]][i].key = want'[x][2] =>
                         store'[want'[x][1]][i].value.ver <= read'[x].ver
    <3>1. /\ want[x] \in Nodes \X Keys /\ at[x] \in {"fill", "land"}
          /\ read[x] # NoAnswer
      BY <1>0, <1>a, <2>2 DEF ProcInv, TypeOK
    <3>2. x # p => want[x] # want[p]
      BY <1>0, <1>a, <3>1 DEF FlightInv, Flying
    <3>3. read[x].ver <= db[want[x][2]]
      BY <1>0, <3>1 DEF VersionInv
    <3>4. ASSUME NEW i \in DOMAIN store'[want[x][1]],
                 store'[want[x][1]][i].key = want[x][2]
          PROVE  store'[want[x][1]][i].value.ver <= read[x].ver
      <4>1. CASE want[x][1] # n
        BY <1>0, <1>e, <3>1, <3>4, <4>1 DEF VersionInv
      <4>2. CASE want[x][1] = n /\ store'[n][i] = e
        <5>1. x = p
          BY <1>b, <1>c, <3>1, <3>2, <3>4, <4>2
        <5>2. read[x].ver \in Nat
          BY <1>c, <5>1, BoundsAssumption DEF Value
        <5> QED  BY <1>c, <4>2, <5>1, <5>2
      <4>3. CASE want[x][1] = n /\ store'[n][i] # e
        <5>1. PICK j \in DOMAIN store[n] : store'[n][i] = store[n][j]
          BY <1>d, <3>4, <4>3
        <5> QED  BY <1>0, <3>1, <3>4, <4>3, <5>1 DEF VersionInv
      <4> QED  BY <4>1, <4>2, <4>3
    <3> QED  BY <1>a, <3>3, <3>4
  <2> QED  BY <2>1, <2>2 DEF VersionInv
<1>7. RingInv'
  BY <1>0, ProcsAssumption DEF Fill, RingInv, Registered, Owner
<1> QED  BY <1>1, <1>2, <1>3, <1>4, <1>5, <1>6, <1>7 DEF IInv

LEMMA LoadReturnsKeeps ==
  ASSUME IInv, NEW p \in Procs, LoadReturns(p)
  PROVE  IInv'
<1>0. /\ TypeOK /\ ProcInv /\ FlightInv /\ FromInv /\ KeyInv /\ VersionInv
      /\ RingInv
  BY DEF IInv
<1>a. /\ at[p] = "land" /\ at' = [at EXCEPT ![p] = "do"]
      /\ SF!Land(p, read[p]) /\ read' = [read EXCEPT ![p] = NoAnswer]
      /\ UNCHANGED <<db, store, ring, want, from, ans, disagreed>>
  BY DEF LoadReturns, Move
<1>b. /\ want[p] \in Nodes \X Keys
      /\ read[p] \in Value /\ read[p].key = want[p][2]
  BY <1>0, <1>a, Asked DEF ProcInv, TypeOK, KeyInv
<1>d. /\ FlightInv'
      /\ \A nk \in Nodes \X Keys : Suits(flight'[nk], nk[2])
      /\ \A x \in Procs : Suits(out'[x], on'[x][2])
  <2>1. read[p] \in Answers /\ Suits(read[p], want[p][2]) /\ at[p] \in Flying
    BY <1>a, <1>b, NotBoth DEF Answers, Suits, Seen, Flying
  <2>2. /\ at'[p] = "do" /\ want'[p] = want[p]
        /\ \A x \in Procs \ {p} : at'[x] = at[x] /\ want'[x] = want[x]
    BY <1>0, <1>a DEF TypeOK
  <2> QED  BY <1>0, <1>a, <1>b, <2>1, <2>2, LandKeeps
<1>1. TypeOK'
  BY <1>0, AllDifferent DEF LoadReturns, Move, TypeOK, At
<1>2. ProcInv'
  BY <1>0, AllDifferent DEF LoadReturns, Move, TypeOK, ProcInv
<1>3. FlightInv'
  BY <1>d
<1>4. FromInv'
  BY <1>0, ProcsAssumption DEF LoadReturns, Move, FromInv
<1>5. KeyInv'
  <2>1. \A x \in Procs : read'[x] # NoAnswer => read'[x].key = want'[x][2]
    BY <1>0, <1>a DEF KeyInv
  <2> QED  BY <1>0, <1>a, <1>d, <2>1 DEF KeyInv
<1>6. VersionInv'
  BY <1>0, AllDifferent DEF LoadReturns, VersionInv
<1>7. RingInv'
  BY <1>0, ProcsAssumption DEF LoadReturns, RingInv, Registered, Owner
<1> QED  BY <1>1, <1>2, <1>3, <1>4, <1>5, <1>6, <1>7 DEF IInv

-----------------------------------------------------------------------------
LEMMA InitHolds == Init => IInv
<1> SUFFICES ASSUME Init PROVE IInv
  OBVIOUS
<1>1. TypeOK
  <2>1. store \in [Nodes -> Seq(Entry)] /\ \A n \in Nodes : store[n] = << >>
    BY DEF Init
  <2>2. /\ db \in [Keys -> 0 .. MaxVersion]
        /\ \A n \in Nodes : Capacity # 0 => Len(store[n]) <= Capacity
    BY <2>1, BoundsAssumption DEF Init
  <2>3. \A n \in Nodes : DOMAIN store[n] = {}
    BY <2>1
  <2> QED  BY <2>1, <2>2, <2>3 DEF Init, TypeOK, At
<1>2. ProcInv /\ FlightInv /\ FromInv
  BY AllDifferent
     DEF Init, SF!Init, ProcInv, FlightInv, FromInv, Flying
<1>3. KeyInv
  <2>1. \A k : Suits(NoAnswer, k) /\ Suits(NoFlight, k)
    BY AllDifferent DEF Suits, Answers
  <2> QED  BY <2>1 DEF Init, SF!Init, KeyInv
<1>4. VersionInv /\ RingInv
  BY DEF Init, VersionInv, RingInv
<1> QED  BY <1>1, <1>2, <1>3, <1>4 DEF IInv

LEMMA StutterKeeps == IInv /\ UNCHANGED vars => IInv'
<1> SUFFICES ASSUME IInv, UNCHANGED vars PROVE IInv'
  OBVIOUS
<1>1. TypeOK' /\ ProcInv' /\ FlightInv' /\ FromInv'
  BY DEF IInv, vars, TypeOK, ProcInv, FlightInv, FromInv
<1>2. KeyInv' /\ VersionInv' /\ RingInv'
  BY DEF IInv, vars, KeyInv, VersionInv, RingInv, Registered, Owner
<1> QED  BY <1>1, <1>2 DEF IInv

LEMMA NextKeeps == IInv /\ [Next]_vars => IInv'
<1> SUFFICES ASSUME IInv, [Next]_vars PROVE IInv'
  OBVIOUS
<1>1. ASSUME NEW p \in Procs, Step(p)
      PROVE  IInv'
  BY <1>1, HitKeeps, MissKeeps, LeadKeeps, JoinKeeps, CloseKeeps,
     DoReturnsKeeps,
     PickSelfKeeps, PeerDownKeeps, PickPeerKeeps, GetterReturnsKeeps, FillKeeps,
     LoadReturnsKeeps DEF Step
<1>2. ASSUME NEW q \in Handlers, Reply(q)
      PROVE  IInv'
  BY <1>2, PeerAnswersKeeps, PeerAnswersErrorKeeps, AnswerLostKeeps DEF Reply
<1>3. CASE Environment
  BY <1>3, SourceUpdateKeeps, RegisterPeersKeeps, SetKeeps, ApiGetKeeps,
     PeerBreaksKeeps, GetterFailsKeeps DEF Environment
<1> QED  BY <1>1, <1>2, <1>3, StutterKeeps DEF Next

LEMMA Invariance == Spec => []IInv
BY InitHolds, NextKeeps, PTL DEF Spec

-----------------------------------------------------------------------------
\* Every variable stays in its range: a store never holds a key twice nor more
\* entries than fit, and a request goes to a node.
THEOREM TypeCorrect == Spec => []TypeOK
<1>1. IInv => TypeOK
  BY DEF IInv
<1> QED  BY <1>1, Invariance, PTL

\* Whatever goroutines and peers an answer came through, it is a value, or the
\* getter's error, for the key that was asked for, up to what the peer's URL
\* makes of that key.
THEOREM OwnAnswers == Spec => []AnswersOwnKey
<1>1. ASSUME IInv  PROVE AnswersOwnKey
  <2>1. \A p \in Procs : /\ ans[p] \in Value => ans[p].key \in Seen(KeyOf(p))
                         /\ ans[p] \in Errors => ans[p].error = KeyOf(p)
    BY <1>1 DEF IInv, KeyInv, Suits, KeyOf
  <2>2. \A n \in Nodes : \A e \in ToSet(store[n]) : e.value.key = e.key
    BY <1>1 DEF IInv, KeyInv, ToSet
  <2> QED  BY <2>1, <2>2 DEF AnswersOwnKey
<1> QED  BY <1>1, Invariance, PTL

\* A load that was slow does not put an older value over a newer one: only the
\* leader of the key's flight on that node fills, and what it has read is as
\* new as what is there.
THEOREM NeverOlder == Spec => NeverFillsOlder
<1> DEFINE Fresh == \A n \in Nodes :
                    \A e \in ToSet(store[n]), f \in ToSet(store'[n]) :
                       e.key = f.key => e.value.ver <= f.value.ver
<1>1. ASSUME IInv, [Next]_vars, store' # store
      PROVE  Fresh
  <2>1. TypeOK /\ KeyInv /\ VersionInv /\ ProcInv
    BY <1>1 DEF IInv
  <2> SUFFICES ASSUME NEW n \in Nodes, NEW i \in DOMAIN store[n],
                      NEW j \in DOMAIN store'[n],
                      store[n][i].key = store'[n][j].key
               PROVE  store[n][i].value.ver <= store'[n][j].value.ver
    BY DEF ToSet
  <2>2. store[n][i].value.ver \in Nat
    <3>1. store[n][i] \in Entry
      BY <2>1 DEF TypeOK
    <3> QED  BY <3>1, BoundsAssumption DEF Entry, Value
  <2>3. ASSUME NEW m \in DOMAIN store[n], store'[n][j] = store[n][m]
        PROVE  store[n][i].value.ver <= store'[n][j].value.ver
    <3>1. m = i
      BY <2>1, <2>3 DEF TypeOK
    <3> QED  BY <2>2, <2>3, <3>1
  <2>4. ASSUME store'[n] = store[n]
        PROVE  store[n][i].value.ver <= store'[n][j].value.ver
    BY <2>3, <2>4
  <2>5. ASSUME NEW p \in Procs, NEW e \in Entry, at[p] # "free",
               store' = [store EXCEPT ![NodeOf(p)] = Touched(NodeOf(p), e)],
               \/ \E m \in DOMAIN store[NodeOf(p)] : e = store[NodeOf(p)][m]
               \/ read[p] # NoAnswer /\ e.key = KeyOf(p) /\ e.value = read[p]
        PROVE  store[n][i].value.ver <= store'[n][j].value.ver
    <3>1. NodeOf(p) \in Nodes
      BY <1>1, <2>5, Asked
    <3>2. CASE n # NodeOf(p)
      BY <2>1, <2>4, <2>5, <3>1, <3>2
    <3>3. CASE n = NodeOf(p)
      <4>1. store'[n] = Touched(n, e)
        BY <2>1, <2>5, <3>1, <3>3 DEF TypeOK
      <4>2. \/ store'[n][j] = e
            \/ \E m \in DOMAIN store[n] : store'[n][j] = store[n][m]
        BY <2>1, <2>5, <4>1, StoreOK, TouchedOK
      <4>3. CASE store'[n][j] = e /\ read[p] # NoAnswer /\ e.key = KeyOf(p)
                 /\ e.value = read[p]
        BY <2>1, <3>3, <4>3 DEF VersionInv, NodeOf, KeyOf
      <4> QED  BY <2>3, <2>5, <3>3, <4>2, <4>3
    <3> QED  BY <3>2, <3>3
  <2>6. ASSUME NEW p \in Procs, Hit(p)
        PROVE  store[n][i].value.ver <= store'[n][j].value.ver
    <3>1. at[p] # "free" /\ Cached(NodeOf(p), KeyOf(p))
      BY <2>6 DEF Hit, Move
    <3>2. NodeOf(p) \in Nodes
      BY <1>1, <3>1, Asked
    <3> DEFINE e == EntryOf(NodeOf(p), KeyOf(p))
    <3>3. e \in Entry /\ \E m \in DOMAIN store[NodeOf(p)] : e = store[NodeOf(p)][m]
      BY <2>1, <3>1, <3>2, CachedEntry
    <3>4. store' = [store EXCEPT ![NodeOf(p)] = Touched(NodeOf(p), e)]
      BY <2>6 DEF Hit
    <3> HIDE DEF e
    <3> QED  BY <2>5, <3>1, <3>3, <3>4
  <2>7. ASSUME NEW p \in Procs, Fill(p)
        PROVE  store[n][i].value.ver <= store'[n][j].value.ver
    <3>1. at[p] = "fill"
      BY <2>7 DEF Fill, Move
    <3>2. KeyOf(p) \in Keys /\ read[p] \in Value /\ read[p] # NoAnswer
      BY <1>1, <2>1, <3>1, Asked DEF ProcInv, TypeOK
    <3> DEFINE e == [key |-> KeyOf(p), value |-> read[p]]
    <3>3. e \in Entry /\ e.key = KeyOf(p) /\ e.value = read[p]
      BY <3>2 DEF Entry
    <3>4. store' = [store EXCEPT ![NodeOf(p)] = Touched(NodeOf(p), e)]
      BY <2>7 DEF Fill
    <3> HIDE DEF e
    <3> QED  BY <2>5, <3>1, <3>2, <3>3, <3>4
  <2>8. \E p \in Procs : Hit(p) \/ Fill(p)
    BY <1>1
       DEF Next, Step, Reply, Environment, Miss, Lead, Join, Close, DoReturns,
           PickSelf, PeerDown, PickPeer, GetterReturns, LoadReturns,
           PeerAnswers, PeerAnswersError, AnswerLost, SourceUpdate,
           RegisterPeers, Set, ApiGet, PeerBreaks, GetterFails, ownVars,
           ownVarsButAt, vars
  <2> QED  BY <2>6, <2>7, <2>8
<1>2. IInv /\ [Next]_vars => [Fresh]_store
  BY <1>1
<1> QED  BY <1>2, Invariance, PTL DEF Spec, NeverFillsOlder

-----------------------------------------------------------------------------
(* Who waits for whom *)

\* How far a goroutine can be from one that waits for nobody: a request goes to
\* the owner of its key; if the key was changed on the way it may go on once
\* more; and each of these may wait for a flight's leader.
Hops(n, k) == IF ring[n][k] = n THEN 0 ELSE IF Wire[k] = k THEN 1 ELSE 2
Rank(p) == 2 * Hops(NodeOf(p), KeyOf(p)) + IF p \in leading THEN 0 ELSE 1

LEMMA RankFalls ==
  ASSUME IInv, ~disagreed, NEW p \in Procs, NEW q \in Procs, WaitsFor(p, q)
  PROVE  Rank(q) < Rank(p)
<1>1. TypeOK /\ ProcInv /\ FlightInv /\ FromInv /\ RingInv
  BY DEF IInv
<1>2. CASE /\ p \notin leading /\ on[p] # NoKey /\ out[p] = NoAnswer
           /\ q \in leading /\ on[q] = on[p]
  <2>1. on[p] = want[p] /\ on[q] = want[q]
    BY <1>1, <1>2 DEF FlightInv
  <2>2. Hops(NodeOf(q), KeyOf(q)) = Hops(NodeOf(p), KeyOf(p))
    BY <1>2, <2>1 DEF NodeOf, KeyOf
  <2>3. Hops(NodeOf(p), KeyOf(p)) \in Nat
    BY DEF Hops
  <2> QED  BY <1>2, <2>2, <2>3 DEF Rank
<1>3. CASE q \in Handlers /\ from[q] = p
  <2> DEFINE n == want[p][1]
             k == want[p][2]
  <2>1. at[p] = "remote" /\ at[q] # "free" /\ want[q][2] = Wire[k]
    BY <1>1, <1>3, AllDifferent DEF FromInv
  <2>2. n \in Nodes /\ k \in Keys /\ want[q][1] \in Nodes
    BY <1>1, <2>1 DEF ProcInv, TypeOK
  <2>3. /\ Registered(n) /\ Registered(want[q][1])
        /\ want[q][1] = ring[n][k] /\ ring[n][k] # n
    BY <1>1, <1>3, AllDifferent DEF RingInv, Owner
  <2>4. ring[want[q][1]] = ring[n]
    BY <1>1, <2>2, <2>3 DEF RingInv
  <2>5. Wire[Wire[k]] = Wire[k]
    BY <2>2, WireAssumption
  <2>6. Hops(want[q][1], Wire[k]) < Hops(n, k)
    BY <2>3, <2>4, <2>5 DEF Hops
  <2>7. Hops(want[q][1], Wire[k]) \in Nat /\ Hops(n, k) \in Nat
    BY DEF Hops
  <2>8. p \in leading
    BY <1>1, <2>1 DEF FlightInv, Flying
  <2> HIDE DEF n, k
  <2> QED  BY <2>1, <2>6, <2>7, <2>8 DEF Rank, NodeOf, KeyOf, n, k
<1> QED  BY <1>2, <1>3 DEF WaitsFor

\* As long as no two nodes have disagreed on an owner, goroutines never wait for
\* one another in a circle, whatever the number of nodes and requests.
THEOREM NobodyWaitsForAll == Spec => []NoWaitCycle
<1>1. ASSUME IInv  PROVE NoWaitCycle
  <2> SUFFICES ASSUME ~disagreed, NEW S \in SUBSET Procs, S # {}
               PROVE  \E p \in S : \A q \in S : ~WaitsFor(p, q)
    BY DEF NoWaitCycle
  <2> DEFINE R == {Rank(p) : p \in S}
             r == CH!First(R)
  <2>1. \A p \in S : Rank(p) \in Nat
    BY DEF Rank, Hops
  <2>2. r \in R /\ \A x \in R : r <= x
    <3>1. R \in SUBSET Nat /\ R # {}
      BY <2>1
    <3> HIDE DEF R
    <3> QED  BY <3>1, FirstIsLeast
  <2>3. PICK p \in S : Rank(p) = r
    BY <2>2
  <2>4. ASSUME NEW q \in S  PROVE ~WaitsFor(p, q)
    <3>1. Rank(p) <= Rank(q)
      BY <2>2, <2>3
    <3>2. Rank(p) \in Nat /\ Rank(q) \in Nat
      BY <2>1
    <3>3. WaitsFor(p, q) => Rank(q) < Rank(p)
      BY <1>1, RankFalls
    <3> QED  BY <3>1, <3>2, <3>3
  <2> QED  BY <2>4
<1> QED  BY <1>1, Invariance, PTL
=============================================================================
