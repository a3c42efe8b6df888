---------------------------- MODULE SingleFlight ----------------------------
(***************************************************************************)
(* gee-cache/day7-proto-buf/geecache/singleflight: duplicate suppression   *)
(* of concurrent loads.  Goroutines (Callers) call Group.Do(key, fn) on    *)
(* one Group; the first caller of a key runs fn, those that find its call  *)
(* in the map wait on its WaitGroup and read the result it left there.     *)
(*                                                                         *)
(* g.m is only touched under g.mu and neither critical section blocks, so  *)
(* each is one atomic step.  The execution of fn, the store of its result, *)
(* wg.Done, the second critical section and the return are steps of their  *)
(* own, and other goroutines run between them.                             *)
(***************************************************************************)
EXTENDS Integers, Sequences

CONSTANTS
    Callers,    \* the goroutines that call Do
    Keys,       \* the keys they ask for
    Results,    \* what fn may return: values and errors alike, (c.val, c.err)
    NoResult,   \* the zero (nil, nil) of a call nobody has written yet
    MayPanic,   \* whether fn may panic (the caller's goroutine recovers above Do)
    MaxCalls,   \* bound: call objects ever allocated
    NoKey, NoFlight   \* the empty values of the abstract state (Coalesce)

ASSUME NoResultAssumption == NoResult \notin Results
ASSUME MayPanicAssumption == MayPanic \in BOOLEAN
ASSUME EmptyAssumption == NoKey \notin Keys /\ NoFlight \notin Results \cup {NoResult}
ASSUME MaxCallsAssumption == MaxCalls \in Nat

VARIABLES
    m,      \* g.m: the index in `calls` of the key's call, NoCall if absent
    calls,  \* every call object allocated, in order of allocation
    pc,     \* where each goroutine is
    key,    \* the key of the goroutine's current (or last) Do
    cur,    \* the goroutine's local variable c: an index in `calls`
    old,    \* history: the calls whose creator had left Do when this one began
    res     \* history: what the goroutine's last Do returned

vars == <<m, calls, pc, key, cur, old, res>>

NoCall == 0

\* A call object.  wg is the WaitGroup's counter; result is (c.val, c.err);
\* fate is history: whether its creator is still in Do, or how it left.
Call == [key : Keys, leader : Callers, wg : {0, 1},
         result : Results \cup {NoResult},
         fate : {"open", "returned", "panicked"}]

Outside   == {"idle"}
Leading   == {"fn", "done", "delete", "return"}   \* owns the call in cur
PC        == Outside \cup {"lock", "wait"} \cup Leading

-----------------------------------------------------------------------------
Init ==
    /\ m = [k \in Keys |-> NoCall]
    /\ calls = << >>
    /\ pc = [p \in Callers |-> "idle"]
    /\ key \in [Callers -> Keys]
    /\ cur = [p \in Callers |-> NoCall]
    /\ old = [p \in Callers |-> {}]
    /\ res = [p \in Callers |-> NoResult]

\* A goroutine calls Do(k, fn): it is on its way to g.mu.Lock().
Do(p, k) ==
    /\ pc[p] = "idle"
    /\ Len(calls) < MaxCalls
    /\ pc'  = [pc EXCEPT ![p] = "lock"]
    /\ key' = [key EXCEPT ![p] = k]
    /\ cur' = [cur EXCEPT ![p] = NoCall]
    /\ res' = [res EXCEPT ![p] = NoResult]
    /\ old' = [old EXCEPT ![p] = {c \in DOMAIN calls : calls[c].fate # "open"}]
    /\ UNCHANGED <<m, calls>>

\* g.m[key] finds nothing.  Mutant: the caller does not look.
Absent_Unchecked(k) == TRUE
Absent(k) == m[k] = NoCall

\* First critical section, the key has a call: wait for it.
Join(p) ==
    /\ pc[p] = "lock"
    /\ m[key[p]] # NoCall
    /\ pc'  = [pc EXCEPT ![p] = "wait"]
    /\ cur' = [cur EXCEPT ![p] = m[key[p]]]
    /\ UNCHANGED <<m, calls, key, old, res>>

\* Mutant: wg.Add(1) forgotten, so that Done makes the counter negative.
NewCall_NoAdd(p) == [key |-> key[p], leader |-> p, wg |-> 0,
                     result |-> NoResult, fate |-> "open"]
NewCall(p) == [key |-> key[p], leader |-> p, wg |-> 1,
               result |-> NoResult, fate |-> "open"]

\* First critical section, the key has none: allocate one and run fn.
Lead(p) ==
    /\ pc[p] = "lock"
    /\ Absent(key[p])
    /\ calls' = Append(calls, NewCall(p))
    /\ m'   = [m EXCEPT ![key[p]] = Len(calls) + 1]
    /\ cur' = [cur EXCEPT ![p] = Len(calls) + 1]
    /\ pc'  = [pc EXCEPT ![p] = "fn"]
    /\ UNCHANGED <<key, old, res>>

\* fn returns r, stored in c.val and c.err.
FnReturn(p, r) ==
    /\ pc[p] = "fn"
    /\ calls' = [calls EXCEPT ![cur[p]].result = r]
    /\ pc' = [pc EXCEPT ![p] = "done"]
    /\ UNCHANGED <<m, key, cur, old, res>>

\* fn panics: nothing in Do is deferred, so the frame unwinds past wg.Done
\* and past delete, and the call stays in the map with its counter at one.
FnPanic(p) ==
    /\ MayPanic
    /\ pc[p] = "fn"
    /\ calls' = [calls EXCEPT ![cur[p]].fate = "panicked"]
    /\ pc' = [pc EXCEPT ![p] = "idle"]
    /\ cur' = [cur EXCEPT ![p] = NoCall]
    /\ UNCHANGED <<m, key, old, res>>

\* The heap after wg.Done.  Mutant: it is forgotten.
Released_Not(c) == calls
Released(c) == [calls EXCEPT ![c].wg = @ - 1]

\* c.wg.Done()
WgDone(p) ==
    /\ pc[p] = "done"
    /\ calls' = Released(cur[p])
    /\ pc' = [pc EXCEPT ![p] = "delete"]
    /\ UNCHANGED <<m, key, cur, old, res>>

\* The map after delete.  Mutant: it is forgotten.
Deleted_Not(k) == m
Deleted(k) == [m EXCEPT ![k] = NoCall]

\* Second critical section: delete(g.m, key).
Delete(p) ==
    /\ pc[p] = "delete"
    /\ m' = Deleted(key[p])
    /\ pc' = [pc EXCEPT ![p] = "return"]
    /\ UNCHANGED <<calls, key, cur, old, res>>

\* The caller that ran fn returns (c.val, c.err).
Return(p) ==
    /\ pc[p] = "return"
    /\ res' = [res EXCEPT ![p] = calls[cur[p]].result]
    /\ calls' = [calls EXCEPT ![cur[p]].fate = "returned"]
    /\ pc' = [pc EXCEPT ![p] = "idle"]
    /\ UNCHANGED <<m, key, cur, old>>

\* The waiters of a call may go.  Mutant: they do not wait.
Finished_NoWait(c) == TRUE
Finished(c) == calls[c].wg = 0

\* c.wg.Wait() returns once the counter is zero; the duplicate reads the call.
WaitReturn(p) ==
    /\ pc[p] = "wait"
    /\ Finished(cur[p])
    /\ res' = [res EXCEPT ![p] = calls[cur[p]].result]
    /\ pc' = [pc EXCEPT ![p] = "idle"]
    /\ UNCHANGED <<m, calls, key, cur, old>>

\* The steps the goroutine takes by itself once it has called Do.
Step(p) ==
    \/ Join(p)
    \/ Lead(p)
    \/ \E r \in Results : FnReturn(p, r)
    \/ FnPanic(p)
    \/ WgDone(p)
    \/ Delete(p)
    \/ Return(p)
    \/ WaitReturn(p)

Next == \E p \in Callers : Step(p) \/ \E k \in Keys : Do(p, k)

Spec == Init /\ [][Next]_vars

\* The Go scheduler runs every runnable goroutine, and fn is assumed to end.
FairSpec == Spec /\ \A p \in Callers : WF_vars(Step(p))

-----------------------------------------------------------------------------
(* Properties *)

TypeOK ==
    /\ m \in [Keys -> Nat]
    /\ \A k \in Keys : m[k] = NoCall \/ m[k] \in DOMAIN calls
    /\ calls \in Seq(Call)
    /\ pc \in [Callers -> PC]
    /\ key \in [Callers -> Keys]
    /\ cur \in [Callers -> Nat]
    /\ \A p \in Callers : pc[p] \notin {"idle", "lock"} => cur[p] \in DOMAIN calls
    /\ old \in [Callers -> SUBSET Nat]
    /\ res \in [Callers -> Results \cup {NoResult}]

\* "only one execution is in-flight for a given key at a time"
\* (singleflight.go:19-21): two goroutines never run fn for the same key.
OneInFlight ==
    \A p, q \in Callers :
        pc[p] = "fn" /\ pc[q] = "fn" /\ key[p] = key[q] => p = q

\* The map holds a call exactly while its creator is between the insertion and
\* the deletion, or for ever once fn has panicked; and each entry is filed
\* under its own key.
MapHoldsInFlight ==
    /\ \A k \in Keys : m[k] # NoCall =>
           LET c == calls[m[k]] IN
           /\ c.key = k
           /\ \/ c.fate = "panicked"
              \/ /\ pc[c.leader] \in {"fn", "done", "delete"}
                 /\ cur[c.leader] = m[k]
    /\ \A p \in Callers : pc[p] \in {"fn", "done", "delete"} => m[key[p]] = cur[p]

\* The goroutine's last Do returned (it did not panic).
Returned(p) == pc[p] = "idle" /\ cur[p] # NoCall

\* "the duplicate caller waits for the original to complete and receives the
\* same results" (singleflight.go:21-22): a Do that has returned has the result
\* its call's fn produced, never the zero (nil, nil) of a call still running,
\* and that call was made for the key it asked for.
SameResult ==
    \A p \in Callers :
        Returned(p) =>
            /\ calls[cur[p]].key = key[p]
            /\ calls[cur[p]].result # NoResult
            /\ res[p] = calls[cur[p]].result

\* A Do never answers with a load whose own Do had already returned when this
\* one was called: nothing is kept after the original has returned, so a result
\* is never older than a call that overlaps the caller's.
NoLeftoverResult ==
    \A p \in Callers : Returned(p) => cur[p] \notin old[p]

\* A call object is written at most once, and never after a waiter may read it.
ResultWrittenOnce ==
    [][\A c \in DOMAIN calls :
          calls'[c].result # calls[c].result =>
              calls[c].result = NoResult /\ calls[c].wg = 1]_vars

\* Every Do returns (singleflight.go:21-22: the duplicate "waits for the
\* original to complete and receives the same results").
DoReturns == \A p \in Callers : pc[p] # "idle" ~> pc[p] = "idle"

\* The same where fn may panic: a Do that never returns waits for a call whose
\* creator unwound with a panic.
DoReturnsUnlessPanic ==
    \A p \in Callers :
        pc[p] # "idle" ~>
            \/ pc[p] = "idle"
            \/ pc[p] = "wait" /\ calls[cur[p]].fate = "panicked"

-----------------------------------------------------------------------------
(* Refinement *)

\* The result of a call, as its waiters may see it.
Landed(c) == IF calls[c].wg = 0 THEN calls[c].result ELSE NoResult

InDo == {p \in Callers : pc[p] \notin {"idle", "lock"}}

\* The state of Coalesce: the flight of a key, the key of the flight a
\* goroutine is on, whether it leads that flight, and what it has been given.
FlightOf(k) == IF m[k] = NoCall THEN NoFlight ELSE Landed(m[k])
KeyOn(p) == IF p \in InDo THEN key[p] ELSE NoKey
Aloft(p) == pc[p] \in {"fn", "done", "delete"}
Given(p) == IF p \in InDo THEN Landed(cur[p]) ELSE NoResult

Flights == INSTANCE Coalesce WITH
    flight  <- [k \in Keys |-> FlightOf(k)],
    on      <- [p \in Callers |-> KeyOn(p)],
    leading <- {p \in Callers : Aloft(p)},
    out     <- [p \in Callers |-> Given(p)]

\* Do shares flights as Coalesce says: its locked sections, the WaitGroup and
\* the unlocked writes between them are a step of Coalesce each, or none.
ImplementsCoalesce == Flights!Spec
=============================================================================
