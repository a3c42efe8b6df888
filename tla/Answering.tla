------------------------------ MODULE Answering -----------------------------
(***************************************************************************)
(* What a gee-rpc Client promises its callers: a call it takes gets one    *)
(* outcome, its own answer or a failure, and keeps it; it takes none once  *)
(* it is unavailable and refuses it instead, and once it has ended it      *)
(* hands out no answer.  XClient relies on this much of a Client.          *)
(***************************************************************************)
CONSTANTS
    Calls,
    None

VARIABLES
    taken,    \* the calls the Client has taken
    outcome,  \* what done() has handed to the caller of each call
    status    \* "available", "closing" or "ended"

vars == <<taken, outcome, status>>

\* A call nobody has completed.
Open == [error |-> "open", reply |-> None]

Failures == {"write", "remote", "body", "terminated"}

Init ==
    /\ taken = {}
    /\ outcome = [c \in Calls |-> Open]
    /\ status = "available"

Settle(c, e, r) ==
    /\ outcome[c] = Open
    /\ outcome' = [outcome EXCEPT ![c] = [error |-> e, reply |-> r]]
    /\ UNCHANGED <<taken, status>>

Take(c) ==
    /\ status = "available"
    /\ c \notin taken
    /\ outcome[c] = Open
    /\ taken' = taken \cup {c}
    /\ UNCHANGED <<outcome, status>>

Refuse(c) ==
    /\ status # "available"
    /\ c \notin taken
    /\ Settle(c, "shutdown", None)

\* Calls taken before a Close may still be answered.
Answer(c) ==
    /\ status # "ended"
    /\ c \in taken
    /\ Settle(c, "none", c)

\* What a failed call's reply holds is left open, but it is no other call's.
Fail(c) ==
    /\ c \in taken
    /\ \E e \in Failures, r \in {None, c} : Settle(c, e, r)

Close ==
    /\ status = "available"
    /\ status' = "closing"
    /\ UNCHANGED <<taken, outcome>>

End ==
    /\ status # "ended"
    /\ status' = "ended"
    /\ UNCHANGED <<taken, outcome>>

Next ==
    \/ \E c \in Calls : Take(c) \/ Refuse(c) \/ Answer(c) \/ Fail(c)
    \/ Close \/ End

Spec == Init /\ [][Next]_vars
=============================================================================
