--------------------------- MODULE ConsistentHash ---------------------------
(***************************************************************************)
(* gee-cache/day7-proto-buf/geecache/consistenthash: the ring that says    *)
(* which node owns a key.  A Map is a value here: its fields are those of  *)
(* the code, hash a function from names to numbers, <<i, node>> the name   *)
(* of a node's i-th virtual node.  The sorted slice of points is the set   *)
(* of them: a point that is there twice answers as one that is there once. *)
(***************************************************************************)
EXTENDS Naturals, Sequences

New(replicas, fn) ==
    [hash |-> fn, replicas |-> replicas, keys |-> {}, hashMap |-> << >>]

Points(m, node) == {m.hash[<<i, node>>] : i \in 0 .. m.replicas - 1}

\* Add of one node: on a point that is taken the new owner replaces the old.
AddNode(m, node) ==
    LET keys == m.keys \cup Points(m, node)
    IN  [hash |-> m.hash, replicas |-> m.replicas, keys |-> keys,
         hashMap |-> [x \in keys |-> IF x \in Points(m, node) THEN node
                                     ELSE m.hashMap[x]]]

Add(m, nodes) ==
    LET added[i \in 0 .. Len(nodes)] ==
            IF i = 0 THEN m ELSE AddNode(added[i - 1], nodes[i])
    IN  added[Len(nodes)]

\* sort.Search: the first point at h or behind it, and round to the first of
\* all where there is none.
First(S) == CHOOSE x \in S : \A y \in S : x <= y
Closest(m, h) ==
    LET behind == {x \in m.keys : x >= h}
    IN  First(IF behind # {} THEN behind ELSE m.keys)

\* Get, on a ring that is not empty (on an empty one the code returns "").
Get(m, key) == m.hashMap[Closest(m, m.hash[key])]

-----------------------------------------------------------------------------
\* A Map as New and Add leave it.
IsMap(m) ==
    /\ m.keys \subseteq Nat
    /\ \A name \in DOMAIN m.hash : m.hash[name] \in Nat
    /\ m = [hash |-> m.hash, replicas |-> m.replicas, keys |-> m.keys,
            hashMap |-> m.hashMap]
    /\ m.hashMap = [x \in m.keys |-> m.hashMap[x]]

\* Every virtual node of `node` has a hash.
Hashes(m, node) == \A i \in 0 .. m.replicas - 1 : <<i, node>> \in DOMAIN m.hash
=============================================================================
