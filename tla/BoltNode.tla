------------------------------ MODULE BoltNode ------------------------------
(***************************************************************************)
(* gee-bolt/day3-tree/node.go: the pairs of one node of the tree, and put  *)
(* and del on them.  A node is the sequence kvs; keys are numbers, which   *)
(* compare as byte strings do: all that matters is the order.              *)
(***************************************************************************)
EXTENDS Naturals, SequencesExt

CONSTANT Value

KV == [key : Nat, value : Value]

\* Where sort.Search finds key: the first pair that is not before it, or one
\* past the end.  (On pairs in order; on others sort.Search finds anything.)
Index(kvs, key) ==
    CHOOSE i \in 1 .. Len(kvs) + 1 :
        /\ i <= Len(kvs) => kvs[i].key >= key
        /\ \A j \in 1 .. i - 1 : kvs[j].key < key

Exact(kvs, key) ==
    /\ Index(kvs, key) <= Len(kvs)
    /\ kvs[Index(kvs, key)].key = key

\* put: the pair of oldKey, if there is one, becomes the pair of newKey, which
\* may differ: a branch is to rename an entry when its first key changes.
Put(kvs, oldKey, newKey, value) ==
    LET new == [key |-> newKey, value |-> value]
    IN  IF Exact(kvs, oldKey) THEN ReplaceAt(kvs, Index(kvs, oldKey), new)
                              ELSE InsertAt(kvs, Index(kvs, oldKey), new)

Del(kvs, key) ==
    IF Exact(kvs, key) THEN RemoveAt(kvs, Index(kvs, key)) ELSE kvs

-----------------------------------------------------------------------------
\* What a node is to be: its pairs in the order of their keys, each key once.
InOrder(kvs) ==
    \A i, j \in 1 .. Len(kvs) : i < j => kvs[i].key < kvs[j].key

Pairs(kvs) == {kvs[i] : i \in 1 .. Len(kvs)}

\* A new key for the pair of oldKey that keeps its place among the others.
KeepsPlace(kvs, oldKey, newKey) ==
    \A c \in Pairs(kvs) : /\ c.key < oldKey => c.key < newKey
                          /\ c.key > oldKey => c.key > newKey
=============================================================================
