------------------------------ MODULE RpcClient -----------------------------
(***************************************************************************)
(* gee-rpc/day7-registry/client.go: one Client on one connection.  Any     *)
(* number of goroutines call Call (synchronous, with a context) or Go      *)
(* (asynchronous); each registers its call under the next sequence number  *)
(* and writes the request, and one goroutine, receive, reads responses and *)
(* completes the calls they belong to.  When reading fails it terminates   *)
(* what is pending.                                                        *)
(*                                                                         *)
(* `sending` is held over a whole send and a whole terminateCalls; mu is   *)
(* held over short sections, atomic here, and over terminateCalls, which   *)
(* completes calls (a channel send, which may block) while holding both.   *)
(*                                                                         *)
(* The server is its contract: a request it got is answered at most once,  *)
(* in any order.  The connection may break at any time, and the codec's    *)
(* buffered writer swallows the first failed flush.                        *)
(***************************************************************************)
EXTENDS Naturals, Sequences, FiniteSets

CONSTANTS
    Sync,      \* invocations through Call, each with a channel of its own
    Async,     \* invocations through Go, which share one Done channel
    Capacity,  \* of the shared Done channel
    None

Calls == Sync \cup Async

Receiver == "receive"  \* the goroutine that runs receive, as a lock holder

ASSUME CallsAssumption ==
    /\ IsFiniteSet(Calls)
    /\ Sync \cap Async = {}
    /\ None \notin Calls \cup {Receiver}
    /\ {Receiver, "shared"} \cap Calls = {}
ASSUME CapacityAssumption == Capacity \in Nat \ {0}

VARIABLES
    pc,        \* where the goroutine of each invocation is
    seqOf,     \* call.Seq, 0 until registered
    error,     \* call.Error
    reply,     \* whose answer call.Reply holds, None if untouched
    queue,     \* the Done channels: one per Sync call, and "shared"
    completed, \* history: how often done() has completed the call
    sending,   \* the holder of client.sending, None if free
    muHeld,    \* client.mu is held by terminateCalls
    header,    \* client.header.Seq
    seq, pending, closing, shutdown,
    up,        \* the connection works: not closed here, there or between
    sticky,    \* the buffered writer has failed once and will fail for good
    wire,      \* requests the server has and has not answered
    rpc,       \* where receive is
    response,  \* the response receive has read the header of
    current,   \* the call it belongs to
    visited    \* the calls terminateCalls' loop has been at

callVars == <<pc, seqOf, error, reply, queue, completed>>
connVars == <<up, sticky, wire>>
recvVars == <<rpc, response, current, visited>>
muVars   == <<seq, pending, closing, shutdown>>
vars == <<pc, seqOf, error, reply, queue, completed, sending, muHeld, header,
          seq, pending, closing, shutdown, up, sticky, wire,
          rpc, response, current, visited>>

Seqs == 1 .. Cardinality(Calls)
ChanOf(c) == IF c \in Sync THEN c ELSE "shared"
Cap(ch) == IF ch = "shared" THEN Capacity ELSE 1

\* A request or a response: its sequence number and, as its content, the
\* invocation that wrote it.
Message == [seq : Seqs, call : Calls]
NoMessage == [seq |-> 0, call |-> None]

Errors == {"none", "shutdown", "write", "remote", "body", "terminated"}

-----------------------------------------------------------------------------
\* Mutant: the numbers start with 0, which stands for an invalid call.
FirstSeq_Zero == 0
FirstSeq == 1

Init ==
    /\ pc = [c \in Calls |-> "idle"]
    /\ seqOf = [c \in Calls |-> 0]
    /\ error = [c \in Calls |-> "none"]
    /\ reply = [c \in Calls |-> None]
    /\ queue = [ch \in Sync \cup {"shared"} |-> << >>]
    /\ completed = [c \in Calls |-> 0]
    /\ sending = None
    /\ muHeld = FALSE
    /\ header = 0
    /\ seq = FirstSeq
    /\ pending = [s \in Seqs |-> None]
    /\ closing = FALSE
    /\ shutdown = FALSE
    /\ up = TRUE
    /\ sticky = FALSE
    /\ wire = {}
    /\ rpc = "header"
    /\ response = NoMessage
    /\ current = None
    /\ visited = {}

Move(c, a, b) == pc[c] = a /\ pc' = [pc EXCEPT ![c] = b]
RMove(a, b) == rpc = a /\ rpc' = b

\* call.done(): blocks while the call's channel is full.
Done(c) ==
    /\ Len(queue[ChanOf(c)]) < Cap(ChanOf(c))
    /\ queue' = [queue EXCEPT ![ChanOf(c)] = Append(@, c)]
    /\ completed' = [completed EXCEPT ![c] = @ + 1]

-----------------------------------------------------------------------------
(* send *)

\* Mutant: the mutex is not taken.
Free_Unchecked(mutex) == TRUE
Free(mutex) == mutex = None

\* client.sending.Lock()
Lock(c) ==
    /\ Free(sending)
    /\ sending' = c
    /\ Move(c, "idle", "register")
    /\ UNCHANGED <<seqOf, error, reply, queue, completed, muHeld, header,
                   muVars, connVars, recvVars>>

Unusable == closing \/ shutdown

NextSeq == seq + 1

Register(c) ==
    /\ ~muHeld
    /\ ~Unusable
    /\ Move(c, "register", "header")
    /\ seqOf' = [seqOf EXCEPT ![c] = seq]
    /\ pending' = [pending EXCEPT ![seq] = c]
    /\ seq' = NextSeq
    /\ UNCHANGED <<error, reply, queue, completed, sending, muHeld, header,
                   closing, shutdown, connVars, recvVars>>

\* registerCall fails: the call completes with ErrShutdown.
Refuse(c) ==
    /\ ~muHeld
    /\ Unusable
    /\ Move(c, "register", "complete")
    /\ error' = [error EXCEPT ![c] = "shutdown"]
    /\ UNCHANGED <<seqOf, reply, queue, completed, sending, muHeld, header,
                   muVars, connVars, recvVars>>

\* The shared header is filled in for this request.
Prepare(c) ==
    /\ Move(c, "header", "write")
    /\ header' = seqOf[c]
    /\ UNCHANGED <<seqOf, error, reply, queue, completed, sending, muHeld,
                   muVars, connVars, recvVars>>

\* cc.Write returns nil.  On a broken connection that is still possible: the
\* error of the Flush is dropped, and only the next write will fail.
Write(c) ==
    /\ ~sticky
    /\ Move(c, "write", "unlock")
    /\ IF up
       THEN wire' = wire \cup {[seq |-> header, call |-> c]} /\ UNCHANGED sticky
       ELSE sticky' = TRUE /\ UNCHANGED wire
    /\ UNCHANGED <<seqOf, error, reply, queue, completed, sending, muHeld,
                   header, muVars, up, recvVars>>

\* cc.Write fails, for the arguments or for the connection.  What is buffered,
\* the header at least or nothing, is flushed, and then the codec is closed.
WriteFails(c) ==
    /\ Move(c, "write", "close")
    /\ \/ UNCHANGED wire
       \/ up /\ wire' = wire \cup {[seq |-> header, call |-> c]}
    /\ UNCHANGED <<seqOf, error, reply, queue, completed, sending, muHeld,
                   header, muVars, up, sticky, recvVars>>

CloseCodec(c) ==
    /\ Move(c, "close", "remove")
    /\ up' = FALSE
    /\ UNCHANGED <<seqOf, error, reply, queue, completed, sending, muHeld,
                   header, muVars, sticky, wire, recvVars>>

\* Mutant: send does not look whether receive has taken the call.
Taken_Ignored(c) == FALSE
Taken(c) == pending[seqOf[c]] = None

\* The call is taken back, unless receive has taken it.
TakeBack(c) ==
    /\ ~muHeld
    /\ \/ Move(c, "remove", "unlock") /\ Taken(c) /\ UNCHANGED error
       \/ /\ Move(c, "remove", "complete")
          /\ ~Taken(c)
          /\ error' = [error EXCEPT ![c] = "write"]
    /\ pending' = [pending EXCEPT ![seqOf[c]] = None]
    /\ UNCHANGED <<seqOf, reply, queue, completed, sending, muHeld, header,
                   seq, closing, shutdown, connVars, recvVars>>

Complete(c) ==
    /\ Move(c, "complete", "unlock")
    /\ Done(c)
    /\ UNCHANGED <<seqOf, error, reply, sending, muHeld, header, muVars,
                   connVars, recvVars>>

\* send returns: the deferred sending.Unlock().
Unlock(c) ==
    /\ Move(c, "unlock", "wait")
    /\ sending' = None
    /\ UNCHANGED <<seqOf, error, reply, queue, completed, muHeld, header,
                   muVars, connVars, recvVars>>

-----------------------------------------------------------------------------
(* The select of Call *)

\* A value is in call.Done.
Finish(c) ==
    /\ c \in Sync
    /\ queue[c] # << >>
    /\ Move(c, "wait", "returned")
    /\ queue' = [queue EXCEPT ![c] = Tail(@)]
    /\ UNCHANGED <<seqOf, error, reply, completed, sending, muHeld, header,
                   muVars, connVars, recvVars>>

\* The context is done: removeCall, and return the context's error.
Expire(c) ==
    /\ c \in Sync
    /\ Move(c, "wait", "expired")
    /\ UNCHANGED <<seqOf, error, reply, queue, completed, sending, muHeld,
                   header, muVars, connVars, recvVars>>

Abandon(c) ==
    /\ ~muHeld
    /\ Move(c, "expired", "returned")
    /\ pending' = [s \in Seqs |-> IF s = seqOf[c] THEN None ELSE pending[s]]
    /\ UNCHANGED <<seqOf, error, reply, queue, completed, sending, muHeld,
                   header, seq, closing, shutdown, connVars, recvVars>>

-----------------------------------------------------------------------------
(* receive and terminateCalls *)

\* ReadHeader returns a response to some request.  On a connection that is
\* gone it may: the decoder has read ahead.
ReadHeader(r) ==
    /\ r \in wire
    /\ RMove("header", "remove")
    /\ wire' = wire \ {r}
    /\ response' = r
    /\ UNCHANGED <<callVars, sending, muHeld, header, muVars, up, sticky,
                   current, visited>>

ReadFails ==
    /\ ~up
    /\ RMove("header", "lock")
    /\ UNCHANGED <<callVars, sending, muHeld, header, muVars, connVars,
                   response, current, visited>>

\* removeCall(h.Seq)
RemoveCall ==
    /\ RMove("remove", "body")
    /\ current' = pending[response.seq]
    /\ pending' = [pending EXCEPT ![response.seq] = None]
    /\ UNCHANGED <<callVars, sending, muHeld, header, seq, closing, shutdown,
                   connVars, response, visited>>

\* ReadBody(nil) for a call that is gone: it can fail with the connection.
SkipBody ==
    /\ current = None
    /\ RMove("body", "header") \/ (~up /\ RMove("body", "lock"))
    /\ response' = NoMessage
    /\ UNCHANGED <<callVars, sending, muHeld, header, muVars, connVars,
                   current, visited>>

\* h.Error is set: the body is skipped.
RemoteError ==
    /\ current # None
    /\ RMove("body", "done") \/ (~up /\ RMove("body", "lastDone"))
    /\ error' = [error EXCEPT ![current] = "remote"]
    /\ UNCHANGED <<pc, seqOf, reply, queue, completed, sending, muHeld, header,
                   muVars, connVars, response, current, visited>>

\* ReadBody(call.Reply)
ReadBody ==
    /\ current # None
    /\ RMove("body", "done")
    /\ reply' = [reply EXCEPT ![current] = response.call]
    /\ UNCHANGED <<pc, seqOf, error, queue, completed, sending, muHeld, header,
                   muVars, connVars, response, current, visited>>

\* The body does not fit call.Reply, or is cut off; this ends the loop.
BodyFails ==
    /\ current # None
    /\ RMove("body", "lastDone")
    /\ error' = [error EXCEPT ![current] = "body"]
    /\ UNCHANGED <<pc, seqOf, reply, queue, completed, sending, muHeld, header,
                   muVars, connVars, response, current, visited>>

ReceiveDone ==
    /\ RMove("done", "header") \/ RMove("lastDone", "lock")
    /\ Done(current)
    /\ response' = NoMessage
    /\ current' = None
    /\ UNCHANGED <<pc, seqOf, error, reply, sending, muHeld, header, muVars,
                   connVars, visited>>

\* Mutant: terminateCalls leaves shutdown alone.
Shut_Never == shutdown
Shut == TRUE

\* terminateCalls: both locks, then shutdown is set.
Terminate ==
    /\ Free(sending)
    /\ RMove("lock", "terminate")
    /\ sending' = Receiver
    /\ muHeld' = TRUE
    /\ shutdown' = Shut
    /\ UNCHANGED <<callVars, header, seq, pending, closing, connVars, response,
                   current, visited>>

\* Mutant: the loop forgets call.Error = err.
Terminated_NoError(c) == error
Terminated(c) == [error EXCEPT ![c] = "terminated"]

\* One round of the loop over pending, in any order; nothing leaves pending.
TerminateCall(c) ==
    /\ rpc = "terminate"
    /\ c \notin visited
    /\ \E s \in Seqs : pending[s] = c
    /\ visited' = visited \cup {c}
    /\ error' = Terminated(c)
    /\ Done(c)
    /\ UNCHANGED <<pc, seqOf, reply, sending, muHeld, header, muVars, connVars,
                   rpc, response, current>>

TerminateEnds ==
    /\ \A s \in Seqs : pending[s] \in visited \cup {None}
    /\ RMove("terminate", "ended")
    /\ sending' = None
    /\ muHeld' = FALSE
    /\ UNCHANGED <<callVars, header, muVars, connVars, response, current,
                   visited>>

-----------------------------------------------------------------------------
(* The user and the network *)

Close ==
    /\ ~muHeld
    /\ ~closing
    /\ closing' = TRUE
    /\ up' = FALSE
    /\ UNCHANGED <<callVars, sending, muHeld, header, seq, pending, shutdown,
                   sticky, wire, recvVars>>

ConnBreaks ==
    /\ up
    /\ up' = FALSE
    /\ UNCHANGED <<callVars, sending, muHeld, header, muVars, sticky, wire,
                   recvVars>>

\* Somebody reads the shared Done channel.
Drain ==
    /\ queue["shared"] # << >>
    /\ queue' = [queue EXCEPT !["shared"] = Tail(@)]
    /\ UNCHANGED <<pc, seqOf, error, reply, completed, sending, muHeld, header,
                   muVars, connVars, recvVars>>

-----------------------------------------------------------------------------
SendStep(c) ==
    \/ Lock(c)   \/ Register(c)   \/ Refuse(c)     \/ Prepare(c)
    \/ Write(c)  \/ WriteFails(c) \/ CloseCodec(c) \/ TakeBack(c)
    \/ Complete(c) \/ Unlock(c)

ReturnStep(c) == Finish(c) \/ Abandon(c)

ReceiveStep ==
    \/ ReadFails \/ RemoveCall \/ SkipBody \/ RemoteError \/ ReadBody
    \/ BodyFails \/ ReceiveDone
    \/ Terminate \/ (\E c \in Calls : TerminateCall(c)) \/ TerminateEnds

Next ==
    \/ \E c \in Calls : SendStep(c) \/ ReturnStep(c) \/ Expire(c)
    \/ ReceiveStep \/ (\E r \in wire : ReadHeader(r))
    \/ Close \/ ConnBreaks \/ Drain

Spec == Init /\ [][Next]_vars

\* Goroutines run, and a Done channel that is shared is read.  Nothing makes
\* a context expire, the server answer, the user close or the network break.
FairSpec ==
    /\ Spec
    /\ \A c \in Calls : WF_vars(SendStep(c)) /\ WF_vars(ReturnStep(c))
    /\ WF_vars(ReceiveStep)
    /\ WF_vars(Drain)

-----------------------------------------------------------------------------
(* Properties *)

CallTypes ==
    /\ pc \in [Calls -> {"idle", "register", "header", "write", "close",
                         "remove", "complete", "unlock", "wait", "expired",
                         "returned"}]
    /\ seqOf \in [Calls -> Seqs \cup {0}]
    /\ error \in [Calls -> Errors]
    /\ reply \in [Calls -> Calls \cup {None}]
    /\ completed \in [Calls -> Nat]

ChannelTypes ==
    /\ DOMAIN queue = Sync \cup {"shared"}
    /\ \A ch \in DOMAIN queue :
          queue[ch] \in Seq(Calls) /\ Len(queue[ch]) <= Cap(ch)

LockTypes ==
    /\ sending \in Calls \cup {None, Receiver}
    /\ rpc \in {"header", "remove", "body", "done", "lastDone", "lock",
                "terminate", "ended"}
    /\ muHeld = (rpc = "terminate")
    /\ shutdown = (rpc \in {"terminate", "ended"})
    /\ closing \in BOOLEAN

NumberTypes ==
    /\ header \in Seqs \cup {0}
    /\ seq \in 1 .. Cardinality(Calls) + 1
    /\ pending \in [Seqs -> Calls \cup {None}]

ReceiveTypes ==
    /\ response \in Message \cup {NoMessage}
    /\ current \in Calls \cup {None}
    /\ visited \subseteq Calls

ConnTypes ==
    /\ up \in BOOLEAN
    /\ sticky \in BOOLEAN
    /\ wire \subseteq Message

\* Every variable stays in its range; a channel never holds more than its
\* capacity (call.done blocks), terminateCalls keeps both locks together, and
\* a number is used up for each call at most.
TypeOK ==
    /\ CallTypes
    /\ ChannelTypes
    /\ LockTypes
    /\ NumberTypes
    /\ ReceiveTypes
    /\ ConnTypes

\* A call is completed at most once (call.done), though a failed write, a
\* response and the end of the connection may all want to: whoever takes it
\* out of pending completes it.  A second done() would block for ever.
CompletedOnce == \A c \in Calls : completed[c] <= 1

\* The answer stored in a call's Reply is the answer to that call's request:
\* sequence number, shared header and body go together (send, receive).
OwnReply == \A c \in Calls : reply[c] \in {None, c}

\* A call that is completed without an error has its answer.
SuccessHasReply ==
    \A c \in Calls : completed[c] > 0 /\ error[c] = "none" => reply[c] = c

\* A call has either no answer yet or its own, and has it if it is completed
\* without an error.
RightReply == OwnReply /\ SuccessHasReply

\* No call is lost: one that was sent and is not complete is pending, or in
\* receive's hands; once receive has ended, every call whose send is over is
\* complete, whenever it was sent.
NotLost ==
    \A c \in Calls :
        pc[c] = "wait" /\ completed[c] = 0 =>
            /\ current = c \/ \E s \in Seqs : pending[s] = c
            /\ rpc # "ended"

\* What callers see of the Client.
Seen(c) == [error |-> IF completed[c] = 0 THEN "open" ELSE error[c],
               reply |-> IF completed[c] = 0 THEN None ELSE reply[c]]

Status == IF shutdown THEN "ended" ELSE IF closing THEN "closing" ELSE "available"

A == INSTANCE Answering WITH
        taken <- {c \in Calls : seqOf[c] # 0},
        outcome <- [c \in Calls |-> Seen(c)],
        status <- Status

\* The Client keeps its promise.  A call gets one outcome and after done() it
\* is its caller's: neither send, nor receive, nor terminateCalls writes its
\* Error or Reply again.  A call on a Client that is closing or shut down is
\* refused, and after terminateCalls no call succeeds any more.
ImplementsAnswering == A!Spec

\* Once the connection has gone every invocation ends: a Call returns, and
\* the call of a Go is completed, those that start later included.
EveryCallEnds ==
    ~up ~> \A c \in Calls : pc[c] = "returned" \/ completed[c] > 0
=============================================================================
