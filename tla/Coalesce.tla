------------------------------ MODULE Coalesce ------------------------------
(***************************************************************************)
(* What singleflight.Group promises, without its map of calls, WaitGroups  *)
(* and lock: concurrent requests for a key share one flight.  The first    *)
(* caller leads it, the callers that come while it exists are on it too,   *)
(* everybody on it gets the result with which its leader lands it, and the *)
(* leader closes it before it leaves.                                      *)
(*                                                                         *)
(* SingleFlight implements this module; GeeCache is built on it.           *)
(***************************************************************************)
CONSTANTS Callers, Keys, Results, NoResult, MayPanic, NoKey, NoFlight

\* NoKey is not a key; NoFlight, NoResult and the results are all different (the
\* modules that instantiate this one assume it).

VARIABLES
    flight,   \* per key: NoFlight, NoResult while in the air, or its result
    on,       \* the key of the flight a caller is on
    leading,  \* the callers that lead the flight they are on
    out       \* the result a caller has been given

vars == <<flight, on, leading, out>>

Init ==
    /\ flight = [k \in Keys |-> NoFlight]
    /\ on = [p \in Callers |-> NoKey]
    /\ leading = {}
    /\ out = [p \in Callers |-> NoResult]

\* Mutant: a key may have a second flight.
NoneYet_Unchecked(k) == TRUE
NoneYet(k) == flight[k] = NoFlight

Lead(p, k) ==
    /\ on[p] = NoKey
    /\ NoneYet(k)
    /\ flight' = [flight EXCEPT ![k] = NoResult]
    /\ on' = [on EXCEPT ![p] = k]
    /\ leading' = leading \cup {p}
    /\ UNCHANGED out

\* A flight may be joined until it is closed, after it has landed too.
Join(p, k) ==
    /\ on[p] = NoKey
    /\ flight[k] # NoFlight
    /\ on' = [on EXCEPT ![p] = k]
    /\ out' = [out EXCEPT ![p] = flight[k]]
    /\ UNCHANGED <<flight, leading>>

Land(p, r) ==
    /\ p \in leading
    /\ out[p] = NoResult
    /\ flight' = [flight EXCEPT ![on[p]] = r]
    /\ out' = [q \in Callers |->
                 IF on[q] = on[p] /\ out[q] = NoResult THEN r ELSE out[q]]
    /\ UNCHANGED <<on, leading>>

Close(p) ==
    /\ p \in leading
    /\ out[p] # NoResult
    /\ flight' = [flight EXCEPT ![on[p]] = NoFlight]
    /\ leading' = leading \ {p}
    /\ UNCHANGED <<on, out>>

Leave(p) ==
    /\ p \notin leading
    /\ out[p] # NoResult
    /\ on' = [on EXCEPT ![p] = NoKey]
    /\ out' = [out EXCEPT ![p] = NoResult]
    /\ UNCHANGED <<flight, leading>>

\* The leader is gone, and its flight stays in the air for ever.
Panic(p) ==
    /\ MayPanic
    /\ p \in leading
    /\ out[p] = NoResult
    /\ on' = [on EXCEPT ![p] = NoKey]
    /\ leading' = leading \ {p}
    /\ UNCHANGED <<flight, out>>

Next ==
    \E p \in Callers :
        \/ \E k \in Keys : Lead(p, k) \/ Join(p, k)
        \/ \E r \in Results : Land(p, r)
        \/ Close(p) \/ Leave(p) \/ Panic(p)

Spec == Init /\ [][Next]_vars
=============================================================================
