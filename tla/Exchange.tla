------------------------------ MODULE Exchange ------------------------------
(***************************************************************************)
(* What a gee-rpc server promises a connection: every request it takes is  *)
(* carried out and answered at most once, a result is only sent when there *)
(* is one, nothing is answered that was not asked, and the server does not *)
(* hang up before everything it has taken is answered.                     *)
(***************************************************************************)
CONSTANTS
    Requests

VARIABLES
    asked,   \* the requests the server has taken
    result,  \* what the method has returned: "none" so far, a value, an error
    answer,  \* what the client was told
    line     \* "open", "closed" by the server in order, or "broken"

vars == <<asked, result, answer, line>>

Outcomes == {"value", "error"}

TypeOK ==
    /\ asked \subseteq Requests
    /\ result \in [Requests -> Outcomes \cup {"none"}]
    /\ answer \in [Requests -> Outcomes \cup {"none"}]
    /\ line \in {"open", "closed", "broken"}

Init ==
    /\ asked = {}
    /\ result = [r \in Requests |-> "none"]
    /\ answer = [r \in Requests |-> "none"]
    /\ line = "open"

Ask(r) ==
    /\ r \notin asked
    /\ line # "closed"
    /\ asked' = asked \cup {r}
    /\ UNCHANGED <<result, answer, line>>

\* A method may still be running when its request was answered with an error,
\* or when the line has gone.
Work(r, o) ==
    /\ r \in asked
    /\ result[r] = "none"
    /\ result' = [result EXCEPT ![r] = o]
    /\ UNCHANGED <<asked, answer, line>>

Answer(r, o) ==
    /\ line = "open"
    /\ r \in asked
    /\ answer[r] = "none"
    /\ o = "value" => result[r] = "value"
    /\ answer' = [answer EXCEPT ![r] = o]
    /\ UNCHANGED <<asked, result, line>>

HangUp ==
    /\ line = "open"
    /\ \A r \in asked : answer[r] # "none"
    /\ line' = "closed"
    /\ UNCHANGED <<asked, result, answer>>

Break ==
    /\ line = "open"
    /\ line' = "broken"
    /\ UNCHANGED <<asked, result, answer>>

Next ==
    \/ \E r \in Requests : \/ Ask(r)
                           \/ \E o \in Outcomes : Work(r, o) \/ Answer(r, o)
    \/ HangUp \/ Break

Spec == Init /\ [][Next]_vars
=============================================================================
