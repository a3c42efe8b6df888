------------------------------ MODULE RpcServer -----------------------------
(***************************************************************************)
(* gee-rpc/day7-registry/server.go: ServeConn on one connection.  A loop   *)
(* reads the options and then requests, a header and a body each; every    *)
(* request gets a goroutine that calls its method and sends the response,  *)
(* or an error when the handle timeout is over first.  The loop sends      *)
(* errors itself.  When it ends it waits for the handlers and closes.      *)
(*                                                                         *)
(* Header and body are decoded one after the other from one gob stream:    *)
(* whatever is next is taken for what is expected.  Requests are numbered  *)
(* as the client sends them; 0 stands for the options, and, as a process,  *)
(* for the loop.                                                           *)
(***************************************************************************)
EXTENDS Integers, Sequences

CONSTANTS
    N  \* how many requests a client sends at most

ASSUME NAssumption == N \in Nat

Requests == 1 .. N
Loop == 0
Senders == Requests \cup {Loop}  \* who sends responses

VARIABLES
    kind,     \* what each message the client has sent is like
    timeout,  \* opt.HandleTimeout is not 0
    stream,   \* what is sent and not decoded yet
    eof,      \* the client sends no more
    conn,     \* "open", "closed" by the server at the end, "broken"
    pc,       \* where the loop and the handlers are
    current,  \* the request the loop has read the header of
    work,     \* how the method of each request is doing
    ok,       \* the response a sender is about to write carries the reply
    sending,  \* the holder of the mutex of this name, None if free
    out       \* history: the halves of responses that were sent

vars == <<kind, timeout, stream, eof, conn, pc, current, work, ok, sending, out>>
clientVars == <<kind, timeout, eof>>
None == -1

\* A message that is too short for what it should be, or of another type, is
\* "bad": options with a wrong magic number or codec, a body that does not
\* fit the argument.  "half" is a header whose body is never sent.
Kinds == {"unsent", "good", "unknown", "bad", "half"}

Part(p, r) == [part |-> p, req |-> r]

Init ==
    /\ kind = [m \in Senders |-> "unsent"]
    /\ timeout \in BOOLEAN
    /\ stream = << >>
    /\ eof = FALSE
    /\ conn = "open"
    /\ pc = [p \in Senders |-> IF p = Loop THEN "options" ELSE "none"]
    /\ current = 0
    /\ work = [r \in Requests |-> "none"]
    /\ ok = [p \in Senders |-> FALSE]
    /\ sending = None
    /\ out = << >>

Move(p, a, b) == pc[p] = a /\ pc' = [pc EXCEPT ![p] = b]

-----------------------------------------------------------------------------
(* The client and the network *)

SendOptions(k) ==
    /\ ~eof /\ conn = "open"
    /\ kind[0] = "unsent"
    /\ k \in {"good", "bad"}
    /\ kind' = [kind EXCEPT ![0] = k]
    /\ stream' = <<Part("options", 0)>>
    /\ UNCHANGED <<timeout, eof, conn, pc, current, work, ok, sending, out>>

\* A client whose write of a body fails closes the connection.
Send(r, k) ==
    /\ ~eof /\ conn = "open"
    /\ kind[r - 1] # "unsent" /\ kind[r] = "unsent"
    /\ k # "unsent"
    /\ kind' = [kind EXCEPT ![r] = k]
    /\ stream' = stream \o IF k = "half" THEN <<Part("header", r)>>
                           ELSE <<Part("header", r), Part("body", r)>>
    /\ eof' = (k = "half")
    /\ UNCHANGED <<timeout, conn, pc, current, work, ok, sending, out>>

ClientEnds ==
    /\ ~eof
    /\ eof' = TRUE
    /\ UNCHANGED <<kind, timeout, stream, conn, pc, current, work, ok, sending,
                   out>>

ConnBreaks ==
    /\ conn = "open"
    /\ conn' = "broken"
    /\ UNCHANGED <<clientVars, stream, pc, current, work, ok, sending, out>>

-----------------------------------------------------------------------------
(* ServeConn and the loop of serveCodec *)

\* Nothing more will come.  On a broken connection the reader may still have
\* something in its buffer, or may not.
CanFail == conn # "open" \/ (eof /\ stream = << >>)

NextPart == Head(stream)

Acceptable == kind[0] = "good"

ReadOptions ==
    /\ stream # << >>
    /\ Acceptable
    /\ Move(Loop, "options", "read")
    /\ stream' = Tail(stream)
    /\ UNCHANGED <<clientVars, conn, current, work, ok, sending, out>>

\* ServeConn returns: its deferred conn.Close().
RejectOptions ==
    /\ Move(Loop, "options", "ended")
    /\ CanFail \/ (stream # << >> /\ ~Acceptable)
    /\ conn' = IF conn = "open" THEN "closed" ELSE conn
    /\ UNCHANGED <<clientVars, stream, current, work, ok, sending, out>>

\* readRequest up to findService.  An unknown service or method returns
\* before the body is read, which stays in the stream.
ReadHeader ==
    /\ stream # << >>
    /\ NextPart.part = "header"
    /\ stream' = Tail(stream)
    /\ current' = NextPart.req
    /\ IF kind[NextPart.req] = "unknown"
       THEN Move(Loop, "read", "lock") /\ ok' = [ok EXCEPT ![Loop] = FALSE]
       ELSE Move(Loop, "read", "body") /\ UNCHANGED ok
    /\ UNCHANGED <<clientVars, conn, work, sending, out>>

\* ReadHeader fails, with the connection or because it finds a body (of a
\* type that shares no field with Header): the loop breaks.
HeaderFails ==
    /\ CanFail \/ (stream # << >> /\ NextPart.part = "body")
    /\ Move(Loop, "read", "wait")
    /\ UNCHANGED <<clientVars, stream, conn, current, work, ok, sending, out>>

\* The whole request is there: wg.Add(1), go handleRequest.
ReadBody ==
    /\ stream # << >>
    /\ kind[current] = "good"
    /\ pc[Loop] = "body"
    /\ stream' = Tail(stream)
    /\ pc' = [pc EXCEPT ![Loop] = "read", ![current] = "call"]
    /\ work' = [work EXCEPT ![current] = "running"]
    /\ UNCHANGED <<clientVars, conn, current, ok, sending, out>>

\* Mutant: after any error the loop gives up.
AfterError_Break == "wait"
AfterError == "lock"

\* The body does not fit, and is used up, or does not come.
BodyFails ==
    /\ Move(Loop, "body", AfterError)
    /\ \/ CanFail /\ UNCHANGED stream
       \/ stream # << >> /\ kind[current] = "bad" /\ stream' = Tail(stream)
    /\ ok' = [ok EXCEPT ![Loop] = FALSE]
    /\ UNCHANGED <<clientVars, conn, current, work, sending, out>>

\* Mutant: wg.Wait() is missing.
AllHandled_Unchecked == TRUE
AllHandled == \A r \in Requests : pc[r] \in {"none", "done"}

\* wg.Wait(), cc.Close()
EndConn ==
    /\ AllHandled
    /\ Move(Loop, "wait", "ended")
    /\ conn' = IF conn = "open" THEN "closed" ELSE conn
    /\ UNCHANGED <<clientVars, stream, current, work, ok, sending, out>>

-----------------------------------------------------------------------------
(* handleRequest *)

\* The method returns, in the handler or in a goroutine of its own, whether
\* or not anybody waits for it.  Its result goes to `called`, a buffered channel.
Return(r, o) ==
    /\ work[r] = "running"
    /\ work' = [work EXCEPT ![r] = o]
    /\ UNCHANGED <<clientVars, stream, conn, pc, current, ok, sending, out>>

Called(r) == work[r] # "running"

Respond(r) ==
    /\ Called(r)
    /\ Move(r, "call", "lock")
    /\ ok' = [ok EXCEPT ![r] = work[r] = "value"]
    /\ UNCHANGED <<clientVars, stream, conn, current, work, sending, out>>

Timed == timeout

TimerFires(r) ==
    /\ Timed
    /\ Move(r, "call", "lock")
    /\ ok' = [ok EXCEPT ![r] = FALSE]
    /\ UNCHANGED <<clientVars, stream, conn, current, work, sending, out>>

-----------------------------------------------------------------------------
(* sendResponse, by the loop or by a handler *)

\* Mutant: the mutex is not taken.
Free_Unchecked(mutex) == TRUE
Free(mutex) == mutex = None

Lock(p) ==
    /\ Free(sending)
    /\ Move(p, "lock", "writeHeader")
    /\ sending' = p
    /\ UNCHANGED <<clientVars, stream, conn, current, work, ok, out>>

RequestOf(p) == IF p = Loop THEN current ELSE p

Half(part, p) == [part |-> part, req |-> RequestOf(p), ok |-> ok[p]]

\* What is written to a connection that has gone does not arrive.
Emit(half) == out' = IF conn = "open" THEN Append(out, half) ELSE out

WriteHeader(p) ==
    /\ Move(p, "writeHeader", "writeBody")
    /\ Emit(Half("header", p))
    /\ UNCHANGED <<clientVars, stream, conn, current, work, ok, sending>>

WriteBody(p) ==
    /\ Move(p, "writeBody", "unlock")
    /\ Emit(Half("body", p))
    /\ UNCHANGED <<clientVars, stream, conn, current, work, ok, sending>>

\* The reply cannot be encoded: the header is out, and the codec is closed.
EncodeFails(p) ==
    /\ ok[p]
    /\ Move(p, "writeBody", "unlock")
    /\ conn' = IF conn = "open" THEN "broken" ELSE conn
    /\ UNCHANGED <<clientVars, stream, current, work, ok, sending, out>>

\* The loop continues; a handler is through, wg.Done().
Unlock(p) ==
    /\ Move(p, "unlock", IF p = Loop THEN "read" ELSE "done")
    /\ sending' = None
    /\ UNCHANGED <<clientVars, stream, conn, current, work, ok, out>>

-----------------------------------------------------------------------------
SendStep(p) ==
    Lock(p) \/ WriteHeader(p) \/ WriteBody(p) \/ EncodeFails(p) \/ Unlock(p)

LoopStep ==
    \/ ReadOptions \/ RejectOptions \/ ReadHeader \/ HeaderFails
    \/ ReadBody \/ BodyFails \/ EndConn \/ SendStep(Loop)

HandlerStep(r) == Respond(r) \/ TimerFires(r) \/ SendStep(r)

MethodStep(r) == \E o \in {"value", "error"} : Return(r, o)

Next ==
    \/ \E k \in Kinds : SendOptions(k) \/ \E r \in Requests : Send(r, k)
    \/ ClientEnds \/ ConnBreaks
    \/ LoopStep
    \/ \E r \in Requests : HandlerStep(r) \/ MethodStep(r)

Spec == Init /\ [][Next]_vars

\* The goroutines of the server run, its timers fire, and what it writes is
\* read.  A method must return only where no timeout stands in for it.
FairSpec ==
    /\ Spec
    /\ WF_vars(LoopStep)
    /\ \A r \in Requests : /\ WF_vars(HandlerStep(r))
                           /\ WF_vars(~timeout /\ MethodStep(r))

-----------------------------------------------------------------------------
(* Properties *)

LoopStates == {"options", "read", "body", "wait", "ended"}
SendStates == {"lock", "writeHeader", "writeBody", "unlock"}

\* Every variable stays in its range, and the holder of `sending` is the one
\* sender between Lock and Unlock.
TypeOK ==
    /\ kind \in [Senders -> Kinds]
    /\ timeout \in BOOLEAN /\ eof \in BOOLEAN
    /\ stream \in Seq([part : {"options", "header", "body"}, req : Senders])
    /\ conn \in {"open", "closed", "broken"}
    /\ pc \in [Senders -> LoopStates \cup SendStates \cup {"none", "call", "done"}]
    /\ current \in Senders
    /\ work \in [Requests -> {"none", "running", "value", "error"}]
    /\ ok \in [Senders -> BOOLEAN]
    /\ sending \in Senders \cup {None}
    /\ out \in Seq([part : {"header", "body"}, req : Senders, ok : BOOLEAN])
    /\ \A p \in Senders : pc[p] \in SendStates \ {"lock"} => sending = p

\* Responses are whole: what the client reads is headers and bodies in turn,
\* each body that of its header, also with many handlers and the loop
\* answering at once; only a connection that breaks ends in a header.
ResponsesWhole ==
    \A i \in DOMAIN out :
        IF i % 2 = 1
        THEN /\ out[i].part = "header"
             /\ i = Len(out) => conn = "broken" \/ sending # None
        ELSE out[i] = [out[i - 1] EXCEPT !.part = "body"]

Sent(r) == kind[r] # "unsent"
InStream(r) == \E i \in DOMAIN stream : stream[i] = Part("header", r)
Answered(r, o) == \E i \in DOMAIN out : out[i] = [part |-> "body", req |-> r, ok |-> o]

\* Every request that was sent is answered, bad or half arrived, with a method
\* that hangs under a timeout, whatever the others do, unless the connection
\* breaks, or the body of an unknown service's request comes before it.
EveryRequestAnswered ==
    \A r \in Requests :
        Sent(r) ~> \/ \E o \in BOOLEAN : Answered(r, o)
                   \/ conn = "broken"
                   \/ kind[0] = "bad"
                   \/ \E q \in Requests : q < r /\ kind[q] = "unknown"

\* The state of Exchange: the requests whose header has been read, what their
\* methods have returned, and what has been sent.
AskedFor(r) == Sent(r) /\ ~InStream(r)
Outcome(r) == IF work[r] \in {"value", "error"} THEN work[r] ELSE "none"
Reply(r) == IF Answered(r, TRUE) THEN "value"
            ELSE IF Answered(r, FALSE) THEN "error" ELSE "none"

E == INSTANCE Exchange WITH
        asked <- {r \in Requests : AskedFor(r)},
        result <- [r \in Requests |-> Outcome(r)],
        answer <- [r \in Requests |-> Reply(r)],
        line <- conn

\* The server keeps the promise of Exchange: one answer to a request at most,
\* a timeout and a late result never both, no result before the method has
\* returned it, and no close before every request it has read is answered.
ImplementsExchange == E!Spec
=============================================================================
