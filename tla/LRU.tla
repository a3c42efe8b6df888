-------------------------------- MODULE LRU ---------------------------------
(***************************************************************************)
(* gee-cache/day7-proto-buf/geecache/lru: a byte-bounded store in recency  *)
(* order.  An entry is in a doubly linked list (front = most recent) and   *)
(* in an index from key to list element; nbytes counts keys and values.    *)
(*                                                                         *)
(* The store is used under a mutex, so operations do not interleave; Add's *)
(* eviction loop is still modelled one turn at a time, because whether it  *)
(* ends, and what each turn drops, depends on the state it works on.       *)
(***************************************************************************)
EXTENDS Integers, Sequences, SequencesExt

CONSTANTS
    Keys, Values,
    KeyLen,     \* [Keys -> Nat]: len(key)
    ValueLen,   \* [Values -> Nat]: value.Len()
    Budgets,    \* the maxBytes given to New; 0 means unbounded
    None        \* no entry

ASSUME LenAssumption == KeyLen \in [Keys -> Nat] /\ ValueLen \in [Values -> Nat]
ASSUME BudgetAssumption == Budgets \subseteq Int
ASSUME NoneAssumption == None \notin Values

VARIABLES
    maxBytes,
    nbytes,
    ll,       \* the list of entries, front first
    cache,    \* the keys the index holds an element for
    adding,   \* whether Add's loop is running
    recent,   \* history: every key ever used, most recently used first
    latest,   \* history: the value last added under each key
    dropped   \* history: size of the last entry this Add evicted, 0 if none

vars == <<maxBytes, nbytes, ll, cache, adding, recent, latest, dropped>>

Entry == [key : Keys, value : Values]
Size(e) == KeyLen[e.key] + ValueLen[e.value]

\* ll.MoveToFront(c.cache[key])
Pos(k) == CHOOSE i \in DOMAIN ll : ll[i].key = k
MoveToFront(k) == <<ll[Pos(k)]>> \o RemoveAt(ll, Pos(k))

UsedNow(k) == recent' = <<k>> \o RemoveFirst(recent, k)

-----------------------------------------------------------------------------
Init ==
    /\ maxBytes \in Budgets
    /\ nbytes = 0
    /\ ll = << >>
    /\ cache = {}
    /\ adding = FALSE
    /\ recent = << >>
    /\ latest = [k \in Keys |-> None]
    /\ dropped = 0

\* The bytes an overwritten value gives back.  Mutant: those of the key too.
Freed_WithKey(k) == Size(ll[Pos(k)])
Freed(k) == ValueLen[ll[Pos(k)].value]

\* The entry as Add leaves it.
Overwritten(k, v) == [key |-> k, value |-> v]

\* Add of a key the index has: move its entry to the front, replace the value.
AddOld(k, v) ==
    /\ ~adding
    /\ k \in cache
    /\ ll' = <<Overwritten(k, v)>> \o Tail(MoveToFront(k))
    /\ nbytes' = nbytes + ValueLen[v] - Freed(k)
    /\ UsedNow(k)
    /\ latest' = [latest EXCEPT ![k] = v]
    /\ adding' = TRUE
    /\ dropped' = 0
    /\ UNCHANGED <<maxBytes, cache>>

\* Add of a key the index does not have: a new entry at the front.
AddNew(k, v) ==
    /\ ~adding
    /\ k \notin cache
    /\ ll' = <<[key |-> k, value |-> v]>> \o ll
    /\ cache' = cache \cup {k}
    /\ nbytes' = nbytes + KeyLen[k] + ValueLen[v]
    /\ UsedNow(k)
    /\ latest' = [latest EXCEPT ![k] = v]
    /\ adding' = TRUE
    /\ dropped' = 0
    /\ UNCHANGED maxBytes

\* The loop's condition.  Mutant: an entry that just fits is evicted.
OverBudget_OffByOne == maxBytes # 0 /\ maxBytes <= nbytes
OverBudget == maxBytes # 0 /\ maxBytes < nbytes

\* The index, and the byte count, after the last entry is gone.  Mutants: each
\* is left as it was.
Unindexed_Not == cache
Unindexed == cache \ {Last(ll).key}
BytesLeft_Same == nbytes
BytesLeft == nbytes - Size(Last(ll))

\* RemoveOldest on a list that is not empty.
DropBack ==
    /\ ll # << >>
    /\ ll' = Front(ll)
    /\ cache' = Unindexed
    /\ nbytes' = BytesLeft

\* One turn of Add's loop; on an empty list RemoveOldest does nothing, and the
\* loop goes round again.
Evict ==
    /\ adding
    /\ OverBudget
    /\ \/ DropBack /\ dropped' = Size(Last(ll))
       \/ ll = << >> /\ UNCHANGED <<ll, cache, nbytes, dropped>>
    /\ UNCHANGED <<maxBytes, adding, recent, latest>>

AddReturn ==
    /\ adding
    /\ ~OverBudget
    /\ adding' = FALSE
    /\ UNCHANGED <<maxBytes, nbytes, ll, cache, recent, latest, dropped>>

\* RemoveOldest, called by the user of the store.
RemoveOldest ==
    /\ ~adding
    /\ DropBack
    /\ dropped' = 0
    /\ UNCHANGED <<maxBytes, adding, recent, latest>>

\* Mutant: a hit does not refresh the entry.
Refreshed_Not(k) == ll
Refreshed(k) == MoveToFront(k)

\* Get of a key the index has (of another key it changes nothing).
Get(k) ==
    /\ ~adding
    /\ k \in cache
    /\ ll' = Refreshed(k)
    /\ UsedNow(k)
    /\ UNCHANGED <<maxBytes, nbytes, cache, adding, latest, dropped>>

Next ==
    \/ \E k \in Keys, v \in Values : AddOld(k, v) \/ AddNew(k, v)
    \/ \E k \in Keys : Get(k)
    \/ RemoveOldest
    \/ Evict
    \/ AddReturn

Spec == Init /\ [][Next]_vars

\* Add's loop is ordinary sequential code: it runs until its condition fails.
FairSpec == Spec /\ WF_vars(Evict \/ AddReturn)

-----------------------------------------------------------------------------
(* Properties *)

TypeOK ==
    /\ maxBytes \in Budgets
    /\ nbytes \in Nat
    /\ ll \in Seq(Entry)
    /\ cache \subseteq Keys
    /\ adding \in BOOLEAN
    /\ recent \in Seq(Keys)
    /\ latest \in [Keys -> Values \cup {None}]
    /\ dropped \in Nat

Bytes(list) ==
    LET sum[i \in 0 .. Len(list)] ==
            IF i = 0 THEN 0 ELSE sum[i - 1] + Size(list[i])
    IN  sum[Len(list)]

ListKeys == [i \in DOMAIN ll |-> ll[i].key]

\* The list and the index hold the same keys, each once: nothing is reachable
\* through one and not the other (lru.go:9-10); and nbytes is the size of what
\* the list holds (lru.go:40, 45, 69; TestAdd).
PartsAgree ==
    /\ cache = ToSet(ListKeys)
    /\ \A i, j \in DOMAIN ll : ll[i].key = ll[j].key => i = j
    /\ nbytes = Bytes(ll)

\* The store holds the most recently used keys, in order of use, each with the
\* value last added: whatever the mix of adds, hits and evictions, an entry
\* never outlives one used after it.
HoldsMostRecent ==
    /\ IsPrefix(ListKeys, recent)
    /\ \A i \in DOMAIN ll : ll[i].value = latest[ll[i].key]

\* When Add has returned the store is within a positive budget, and it dropped
\* no more than it had to: the last entry it evicted would not fit any more.
EvictsJustEnough ==
    ~adding =>
        /\ maxBytes > 0 => nbytes <= maxBytes
        /\ dropped # 0 => maxBytes # 0 /\ nbytes + dropped > maxBytes

\* Add's loop ends (lru.go:47-49), for every budget that is not negative: with
\* a negative one it would never see nbytes within the budget.
AddReturns == (adding /\ maxBytes >= 0) ~> ~adding
=============================================================================
