--------------------------- MODULE RpcClient_proof ---------------------------
(***************************************************************************)
(* Proofs about RpcClient for any number of invocations.                   *)
(*                                                                         *)
(* Three parties can complete a call: its own send, receive and            *)
(* terminateCalls.  IInv says that at most one of them holds it at a time  *)
(* (Hands), that holding it means it is not complete (Completion), that a  *)
(* sequence number leads back to the one call it was given to wherever it  *)
(* travels (Numbers), and that nobody is between registering and writing   *)
(* once terminateCalls has begun (Locks).                                  *)
(*                                                                         *)
(* That the Client implements Answering takes one invariant more, on which *)
(* calls are refused (Refusals).                                           *)
(***************************************************************************)
EXTENDS RpcClient, FiniteSetTheorems, TLAPS

\* pc values in send with client.sending held, and those with a number.
InSend == {"register", "header", "write", "close", "remove", "complete", "unlock"}
Numbered == {"header", "write", "close", "remove"}

Registered == {c \in Calls : seqOf[c] # 0}
IsPending(c) == \E s \in Seqs : pending[s] = c

Numbers ==
    /\ seq = Cardinality(Registered) + 1
    /\ \A c \in Calls : seqOf[c] < seq
    /\ \A c, d \in Calls : seqOf[c] = seqOf[d] /\ seqOf[c] # 0 => c = d
    /\ \A c \in Calls : pc[c] \in {"idle", "register"} => seqOf[c] = 0
    /\ \A c \in Calls : pc[c] \in Numbered => seqOf[c] # 0
    /\ \A c \in Calls : pc[c] = "write" => header = seqOf[c]

\* Where a number is found, it belongs to the call found with it.
Owners ==
    /\ \A s \in Seqs : pending[s] # None => seqOf[pending[s]] = s
    /\ \A r \in wire : seqOf[r.call] = r.seq
    /\ response # NoMessage => seqOf[response.call] = response.seq
    /\ current # None => seqOf[current] = response.seq

Locks ==
    /\ \A c \in Calls : sending = c <=> pc[c] \in InSend
    /\ sending = Receiver <=> rpc = "terminate"
    /\ shutdown => \A c \in Calls : pc[c] \notin Numbered

Hands ==
    /\ rpc \in {"remove", "body", "done", "lastDone"} => response # NoMessage
    /\ rpc \in {"done", "lastDone"} => current # None
    /\ current # None => rpc \in {"body", "done", "lastDone"} /\ ~IsPending(current)
    /\ visited # {} => shutdown
    /\ rpc = "ended" => \A s \in Seqs : pending[s] \in visited \cup {None}

Open(c) == completed[c] = 0

Completion ==
    \A c \in Calls :
        /\ completed[c] \in {0, 1}
        /\ current = c \/ pc[c] \in {"idle", "register", "complete"} => Open(c)
        /\ IsPending(c) /\ c \notin visited => Open(c)
        /\ pc[c] \in {"idle", "register", "complete"} => current # c /\ ~IsPending(c)
        /\ c \in visited => ~Open(c)
        /\ pc[c] \in Numbered \cup {"unlock", "wait"} /\ Open(c) =>
               current = c \/ IsPending(c)

\* Where a call's error and reply stand when it is completed.
Outcome ==
    /\ \A c \in Calls : pc[c] = "complete" => error[c] # "none"
    /\ rpc \in {"done", "lastDone"} =>
          error[current] # "none" \/ reply[current] = current

IInv == TypeOK /\ Numbers /\ Owners /\ Locks /\ Hands /\ Completion
        /\ Outcome /\ OwnReply /\ SuccessHasReply
-----------------------------------------------------------------------------
\* A call that registers gets a number of its own, and there is one left.
LEMMA Numbering ==
    ASSUME IInv, NEW c \in Calls, Register(c)
    PROVE  /\ seq \in Seqs
           /\ Cardinality(Registered') = seq
<1> USE DEF IInv, TypeOK, CallTypes, NumberTypes, Numbers, Register, Move
<1>1. Registered' = Registered \cup {c} /\ c \notin Registered
  BY DEF Registered, Seqs, NextSeq
<1>2. IsFiniteSet(Registered) /\ IsFiniteSet(Registered')
  BY CallsAssumption, FS_Subset DEF Registered
<1>3. Cardinality(Registered') = Cardinality(Registered) + 1
  BY <1>1, <1>2, FS_AddElement
<1>4. Cardinality(Registered') <= Cardinality(Calls)
  BY <1>1, CallsAssumption, FS_Subset DEF Registered
<1>5. QED
  BY <1>3, <1>4 DEF Seqs

\* The lock is held by whom pc and rpc say.
LEMMA LocksStep == IInv /\ Next => Locks'
<1> SUFFICES ASSUME IInv, Next PROVE Locks'
  OBVIOUS
<1> USE CallsAssumption DEF IInv, TypeOK, CallTypes, LockTypes, Locks,
    Receiver, Free, Shut, Unusable, Numbered, InSend, muVars, callVars,
    recvVars, connVars
<1>1. ASSUME NEW c \in Calls, Lock(c) PROVE Locks'
  BY <1>1 DEF Lock, Move
<1>2. ASSUME NEW c \in Calls, Register(c) PROVE Locks'
  BY <1>2 DEF Register, Move
<1>3. ASSUME NEW c \in Calls, Refuse(c) PROVE Locks'
  BY <1>3 DEF Refuse, Move
<1>4. ASSUME NEW c \in Calls, Prepare(c) PROVE Locks'
  BY <1>4 DEF Prepare, Move
<1>5. ASSUME NEW c \in Calls, Write(c) PROVE Locks'
  BY <1>5 DEF Write, Move
<1>6. ASSUME NEW c \in Calls, WriteFails(c) PROVE Locks'
  BY <1>6 DEF WriteFails, Move
<1>7. ASSUME NEW c \in Calls, CloseCodec(c) PROVE Locks'
  BY <1>7 DEF CloseCodec, Move
<1>8. ASSUME NEW c \in Calls, TakeBack(c) PROVE Locks'
  BY <1>8 DEF TakeBack, Move
<1>9. ASSUME NEW c \in Calls, Complete(c) PROVE Locks'
  BY <1>9 DEF Complete, Move, Done
<1>10. ASSUME NEW c \in Calls, Unlock(c) PROVE Locks'
  BY <1>10 DEF Unlock, Move
<1>11. ASSUME NEW c \in Calls, Finish(c) PROVE Locks'
  BY <1>11 DEF Finish, Move
<1>12. ASSUME NEW c \in Calls, Abandon(c) PROVE Locks'
  BY <1>12 DEF Abandon, Move
<1>13. ASSUME NEW c \in Calls, Expire(c) PROVE Locks'
  BY <1>13 DEF Expire, Move
<1>14. ASSUME NEW r \in wire, ReadHeader(r) PROVE Locks'
  BY <1>14 DEF ReadHeader, RMove
<1>15. ASSUME ReadFails PROVE Locks'
  BY <1>15 DEF ReadFails, RMove
<1>16. ASSUME RemoveCall PROVE Locks'
  BY <1>16 DEF RemoveCall, RMove
<1>17. ASSUME SkipBody PROVE Locks'
  BY <1>17 DEF SkipBody, RMove
<1>18. ASSUME RemoteError PROVE Locks'
  BY <1>18 DEF RemoteError, RMove
<1>19. ASSUME ReadBody PROVE Locks'
  BY <1>19 DEF ReadBody, RMove
<1>20. ASSUME BodyFails PROVE Locks'
  BY <1>20 DEF BodyFails, RMove
<1>21. ASSUME ReceiveDone PROVE Locks'
  BY <1>21 DEF ReceiveDone, RMove, Done
<1>22. ASSUME Terminate PROVE Locks'
  BY <1>22 DEF Terminate, RMove
<1>23. ASSUME TerminateEnds PROVE Locks'
  BY <1>23 DEF TerminateEnds, RMove
<1>24. CASE UNCHANGED <<sending, pc, rpc, shutdown>>
  BY <1>24
<1>25. QED
  BY <1>1, <1>2, <1>3, <1>4, <1>5, <1>6, <1>7, <1>8, <1>9, <1>10, <1>11,
    <1>12, <1>13, <1>14, <1>15, <1>16, <1>17, <1>18, <1>19, <1>20, <1>21,
    <1>22, <1>23, <1>24 DEF Next, SendStep, ReturnStep, ReceiveStep, Close,
    ConnBreaks, Drain, TerminateCall

\* Numbers are used up one by one, and a sender's header keeps its number.
LEMMA NumbersStep == IInv /\ Next => Numbers'
<1> SUFFICES ASSUME IInv, Next PROVE Numbers'
  OBVIOUS
<1> USE CallsAssumption DEF IInv, TypeOK, CallTypes, LockTypes, Locks,
    NumberTypes, Numbers, Registered, Numbered, InSend, Free, muVars,
    callVars, recvVars, connVars
<1>1. ASSUME NEW c \in Calls, Lock(c) PROVE Numbers'
  BY <1>1 DEF Lock, Move
<1>2. ASSUME NEW c \in Calls, Register(c) PROVE Numbers'
  <2>1. seq \in Seqs /\ Cardinality(Registered') = seq
    BY <1>2, Numbering
  <2>2. seq' = seq + 1 /\ seqOf' = [seqOf EXCEPT ![c] = seq]
    BY <1>2 DEF Register, NextSeq
  <2>3. seq' = Cardinality(Registered') + 1
    BY <2>1, <2>2
  <2>4. \A d \in Calls : seqOf'[d] < seq'
    BY <2>1, <2>2 DEF Seqs
  <2>5. \A d, e \in Calls : seqOf'[d] = seqOf'[e] /\ seqOf'[d] # 0 => d = e
    BY <2>1, <2>2 DEF Seqs
  <2>6. /\ \A d \in Calls : pc'[d] \in {"idle", "register"} => seqOf'[d] = 0
        /\ \A d \in Calls : pc'[d] \in Numbered => seqOf'[d] # 0
        /\ \A d \in Calls : pc'[d] = "write" => header' = seqOf'[d]
    BY <1>2, <2>1, <2>2 DEF Register, Move, Seqs
  <2>7. QED
    BY <2>3, <2>4, <2>5, <2>6
<1>3. ASSUME NEW c \in Calls, Refuse(c) PROVE Numbers'
  BY <1>3 DEF Refuse, Move
<1>4. ASSUME NEW c \in Calls, Prepare(c) PROVE Numbers'
  BY <1>4 DEF Prepare, Move
<1>5. ASSUME NEW c \in Calls, Write(c) PROVE Numbers'
  BY <1>5 DEF Write, Move
<1>6. ASSUME NEW c \in Calls, WriteFails(c) PROVE Numbers'
  BY <1>6 DEF WriteFails, Move
<1>7. ASSUME NEW c \in Calls, CloseCodec(c) PROVE Numbers'
  BY <1>7 DEF CloseCodec, Move
<1>8. ASSUME NEW c \in Calls, TakeBack(c) PROVE Numbers'
  BY <1>8 DEF TakeBack, Move
<1>9. ASSUME NEW c \in Calls, Complete(c) PROVE Numbers'
  BY <1>9 DEF Complete, Move, Done
<1>10. ASSUME NEW c \in Calls, Unlock(c) PROVE Numbers'
  BY <1>10 DEF Unlock, Move
<1>11. ASSUME NEW c \in Calls, Finish(c) PROVE Numbers'
  BY <1>11 DEF Finish, Move
<1>12. ASSUME NEW c \in Calls, Abandon(c) PROVE Numbers'
  BY <1>12 DEF Abandon, Move
<1>13. ASSUME NEW c \in Calls, Expire(c) PROVE Numbers'
  BY <1>13 DEF Expire, Move
<1>14. CASE UNCHANGED <<seq, seqOf, pc, header>>
  BY <1>14
<1>15. QED
  BY <1>1, <1>2, <1>3, <1>4, <1>5, <1>6, <1>7, <1>8, <1>9, <1>10, <1>11,
    <1>12, <1>13, <1>14 DEF Next, SendStep, ReturnStep, ReceiveStep,
    ReadFails, RemoveCall, SkipBody, RemoteError, ReadBody, BodyFails,
    ReceiveDone, Terminate, TerminateEnds, Close, ConnBreaks, Drain,
    TerminateCall, ReadHeader

\* A number found in pending, on the wire or in receive's hands is its call's.
LEMMA OwnersStep == IInv /\ Next => Owners'
<1> SUFFICES ASSUME IInv, Next PROVE Owners'
  OBVIOUS
<1> USE CallsAssumption DEF IInv, TypeOK, CallTypes, LockTypes,
    NumberTypes, ReceiveTypes, ConnTypes, Numbers, Owners, Hands, Seqs,
    Message, NoMessage, Numbered, muVars, callVars, recvVars, connVars
<1>1. ASSUME NEW c \in Calls, Register(c) PROVE Owners'
  BY <1>1 DEF Register, Move
<1>2. ASSUME NEW c \in Calls, Write(c) PROVE Owners'
  BY <1>2 DEF Write, Move
<1>3. ASSUME NEW c \in Calls, WriteFails(c) PROVE Owners'
  BY <1>3 DEF WriteFails, Move
<1>4. ASSUME NEW c \in Calls, TakeBack(c) PROVE Owners'
  BY <1>4 DEF TakeBack, Move
<1>5. ASSUME NEW c \in Calls, Abandon(c) PROVE Owners'
  BY <1>5 DEF Abandon, Move
<1>6. ASSUME NEW r \in wire, ReadHeader(r) PROVE Owners'
  BY <1>6 DEF ReadHeader, RMove
<1>7. ASSUME RemoveCall PROVE Owners'
  BY <1>7 DEF RemoveCall, RMove
<1>8. ASSUME SkipBody PROVE Owners'
  BY <1>8 DEF SkipBody, RMove
<1>9. ASSUME ReceiveDone PROVE Owners'
  BY <1>9 DEF ReceiveDone, RMove, Done
<1>10. CASE UNCHANGED <<pending, seqOf, wire, response, current>>
  BY <1>10
<1>11. QED
  BY <1>1, <1>2, <1>3, <1>4, <1>5, <1>6, <1>7, <1>8, <1>9, <1>10 DEF Next,
    SendStep, ReturnStep, ReceiveStep, Lock, Refuse, Prepare, CloseCodec,
    Complete, Unlock, Finish, Expire, ReadFails, RemoteError, ReadBody,
    BodyFails, Terminate, TerminateEnds, Close, ConnBreaks, Drain,
    TerminateCall

\* receive holds a call only while it works on its response.
LEMMA HandsStep == IInv /\ Next => Hands'
<1> SUFFICES ASSUME IInv, Next PROVE Hands'
  OBVIOUS
<1> USE CallsAssumption DEF IInv, TypeOK, CallTypes, LockTypes,
    NumberTypes, ReceiveTypes, ConnTypes, Numbers, Owners, Completion,
    Hands, IsPending, Numbered, NoMessage, Message, Unusable, Shut, muVars,
    callVars, recvVars, connVars
<1>1. ASSUME NEW c \in Calls, Register(c) PROVE Hands'
  BY <1>1 DEF Register, Move
<1>2. ASSUME NEW c \in Calls, TakeBack(c) PROVE Hands'
  BY <1>2 DEF TakeBack, Move
<1>3. ASSUME NEW c \in Calls, Abandon(c) PROVE Hands'
  BY <1>3 DEF Abandon, Move
<1>4. ASSUME NEW r \in wire, ReadHeader(r) PROVE Hands'
  BY <1>4 DEF ReadHeader, RMove
<1>5. ASSUME ReadFails PROVE Hands'
  BY <1>5 DEF ReadFails, RMove
<1>6. ASSUME RemoveCall PROVE Hands'
  BY <1>6 DEF RemoveCall, RMove
<1>7. ASSUME SkipBody PROVE Hands'
  BY <1>7 DEF SkipBody, RMove
<1>8. ASSUME RemoteError PROVE Hands'
  BY <1>8 DEF RemoteError, RMove
<1>9. ASSUME ReadBody PROVE Hands'
  BY <1>9 DEF ReadBody, RMove
<1>10. ASSUME BodyFails PROVE Hands'
  BY <1>10 DEF BodyFails, RMove
<1>11. ASSUME ReceiveDone PROVE Hands'
  BY <1>11 DEF ReceiveDone, RMove, Done
<1>12. ASSUME Terminate PROVE Hands'
  BY <1>12 DEF Terminate, RMove
<1>13. ASSUME TerminateEnds PROVE Hands'
  BY <1>13 DEF TerminateEnds, RMove
<1>14. ASSUME NEW c \in Calls, TerminateCall(c) PROVE Hands'
  BY <1>14 DEF TerminateCall, Done
<1>15. CASE UNCHANGED <<rpc, response, current, pending, visited, shutdown>>
  BY <1>15
<1>16. QED
  BY <1>1, <1>2, <1>3, <1>4, <1>5, <1>6, <1>7, <1>8, <1>9, <1>10, <1>11,
    <1>12, <1>13, <1>14, <1>15 DEF Next, SendStep, ReturnStep, ReceiveStep,
    Lock, Refuse, Prepare, Write, WriteFails, CloseCodec, Complete, Unlock,
    Finish, Expire, Close, ConnBreaks, Drain

\* Whoever holds a call holds it alone, and it is not complete.
LEMMA CompletionStep == IInv /\ Next => Completion'
<1> SUFFICES ASSUME IInv, Next PROVE Completion'
  OBVIOUS
<1> USE CallsAssumption DEF IInv, TypeOK, CallTypes, LockTypes,
    NumberTypes, ReceiveTypes, Numbers, Owners, Locks, Completion, Hands,
    IsPending, Open, Numbered, InSend, Seqs, Taken, Unusable, Message,
    NoMessage, muVars, callVars, recvVars, connVars
<1>1. ASSUME NEW c \in Calls, Lock(c) PROVE Completion'
  BY <1>1 DEF Lock, Move
<1>2. ASSUME NEW c \in Calls, Register(c) PROVE Completion'
  <2>1. seq \in Seqs /\ pending' = [pending EXCEPT ![seq] = c]
    BY <1>2, Numbering DEF Register
  <2>2. visited = {} /\ current # c /\ ~IsPending(c) /\ Open(c) /\ c \notin visited
    BY <1>2 DEF Register, Move
  <2>3. pending[seq] = None
    BY <2>1
  <2>4. \A d \in Calls : IsPending(d)' <=> d = c \/ IsPending(d)
    BY <2>1, <2>3
  <2>5. QED
    BY <1>2, <2>2, <2>4 DEF Register, Move
<1>3. ASSUME NEW c \in Calls, Refuse(c) PROVE Completion'
  BY <1>3 DEF Refuse, Move
<1>4. ASSUME NEW c \in Calls, Prepare(c) PROVE Completion'
  BY <1>4 DEF Prepare, Move
<1>5. ASSUME NEW c \in Calls, Write(c) PROVE Completion'
  BY <1>5 DEF Write, Move
<1>6. ASSUME NEW c \in Calls, WriteFails(c) PROVE Completion'
  BY <1>6 DEF WriteFails, Move
<1>7. ASSUME NEW c \in Calls, CloseCodec(c) PROVE Completion'
  BY <1>7 DEF CloseCodec, Move
<1>8. ASSUME NEW c \in Calls, TakeBack(c) PROVE Completion'
  BY <1>8 DEF TakeBack, Move
<1>9. ASSUME NEW c \in Calls, Complete(c) PROVE Completion'
  BY <1>9 DEF Complete, Move, Done
<1>10. ASSUME NEW c \in Calls, Unlock(c) PROVE Completion'
  BY <1>10 DEF Unlock, Move
<1>11. ASSUME NEW c \in Calls, Finish(c) PROVE Completion'
  BY <1>11 DEF Finish, Move
<1>12. ASSUME NEW c \in Calls, Abandon(c) PROVE Completion'
  BY <1>12 DEF Abandon, Move
<1>13. ASSUME NEW c \in Calls, Expire(c) PROVE Completion'
  BY <1>13 DEF Expire, Move
<1>14. ASSUME RemoveCall PROVE Completion'
  <2>1. /\ response.seq \in Seqs
        /\ current' = pending[response.seq]
        /\ pending' = [pending EXCEPT ![response.seq] = None]
    BY <1>14 DEF RemoveCall, RMove
  <2>2. current = None /\ visited = {}
    BY <1>14 DEF RemoveCall, RMove
  <2>3. \A s, t \in Seqs : pending[s] # None /\ pending[s] = pending[t] => s = t
    OBVIOUS
  <2>4. \A d \in Calls : current' = d => IsPending(d) /\ ~IsPending(d)'
    <3> SUFFICES ASSUME NEW d \in Calls, pending[response.seq] = d
                 PROVE  IsPending(d) /\ ~IsPending(d)'
      BY <2>1
    <3>1. IsPending(d)
      BY <2>1
    <3>2. ASSUME NEW s \in Seqs, pending'[s] = d
          PROVE  FALSE
      <4>1. s # response.seq /\ pending[s] = d
        BY <2>1, <3>2
      <4>2. QED
        BY <2>1, <2>3, <4>1
    <3>3. QED
      BY <3>1, <3>2
  <2>5. \A d \in Calls : current' # d => (IsPending(d)' <=> IsPending(d))
    BY <2>1
  <2>6. QED
    BY <1>14, <2>2, <2>4, <2>5 DEF RemoveCall
<1>15. ASSUME ReceiveDone PROVE Completion'
  BY <1>15 DEF ReceiveDone, RMove, Done
<1>16. ASSUME NEW c \in Calls, TerminateCall(c) PROVE Completion'
  BY <1>16 DEF TerminateCall, Done
<1>17. CASE UNCHANGED <<completed, current, pc, pending, visited>>
  BY <1>17
<1>18. QED
  BY <1>1, <1>2, <1>3, <1>4, <1>5, <1>6, <1>7, <1>8, <1>9, <1>10, <1>11,
    <1>12, <1>13, <1>14, <1>15, <1>16, <1>17 DEF Next, SendStep, ReturnStep,
    ReceiveStep, ReadFails, SkipBody, RemoteError, ReadBody, BodyFails,
    Terminate, TerminateEnds, Close, ConnBreaks, Drain, ReadHeader

\* A call is completed with an error or with its reply.
LEMMA OutcomeStep == IInv /\ Next => Outcome'
<1> SUFFICES ASSUME IInv, Next PROVE Outcome'
  OBVIOUS
<1> USE CallsAssumption DEF IInv, TypeOK, CallTypes, LockTypes,
    ReceiveTypes, ConnTypes, NumberTypes, Outcome, Hands, Completion,
    Numbers, Owners, NoMessage, Message, Seqs, Open, IsPending, Terminated,
    muVars, callVars, recvVars, connVars
<1>1. ASSUME NEW c \in Calls, Lock(c) PROVE Outcome'
  BY <1>1 DEF Lock, Move
<1>2. ASSUME NEW c \in Calls, Register(c) PROVE Outcome'
  BY <1>2 DEF Register, Move
<1>3. ASSUME NEW c \in Calls, Refuse(c) PROVE Outcome'
  BY <1>3 DEF Refuse, Move
<1>4. ASSUME NEW c \in Calls, Prepare(c) PROVE Outcome'
  BY <1>4 DEF Prepare, Move
<1>5. ASSUME NEW c \in Calls, Write(c) PROVE Outcome'
  BY <1>5 DEF Write, Move
<1>6. ASSUME NEW c \in Calls, WriteFails(c) PROVE Outcome'
  BY <1>6 DEF WriteFails, Move
<1>7. ASSUME NEW c \in Calls, CloseCodec(c) PROVE Outcome'
  BY <1>7 DEF CloseCodec, Move
<1>8. ASSUME NEW c \in Calls, TakeBack(c) PROVE Outcome'
  BY <1>8 DEF TakeBack, Move
<1>9. ASSUME NEW c \in Calls, Complete(c) PROVE Outcome'
  BY <1>9 DEF Complete, Move, Done
<1>10. ASSUME NEW c \in Calls, Unlock(c) PROVE Outcome'
  BY <1>10 DEF Unlock, Move
<1>11. ASSUME NEW c \in Calls, Finish(c) PROVE Outcome'
  BY <1>11 DEF Finish, Move
<1>12. ASSUME NEW c \in Calls, Abandon(c) PROVE Outcome'
  BY <1>12 DEF Abandon, Move
<1>13. ASSUME NEW c \in Calls, Expire(c) PROVE Outcome'
  BY <1>13 DEF Expire, Move
<1>14. ASSUME NEW r \in wire, ReadHeader(r) PROVE Outcome'
  BY <1>14 DEF ReadHeader, RMove
<1>15. ASSUME ReadFails PROVE Outcome'
  BY <1>15 DEF ReadFails, RMove
<1>16. ASSUME RemoveCall PROVE Outcome'
  BY <1>16 DEF RemoveCall, RMove
<1>17. ASSUME SkipBody PROVE Outcome'
  BY <1>17 DEF SkipBody, RMove
<1>18. ASSUME RemoteError PROVE Outcome'
  BY <1>18 DEF RemoteError, RMove
<1>19. ASSUME ReadBody PROVE Outcome'
  BY <1>19 DEF ReadBody, RMove
<1>20. ASSUME BodyFails PROVE Outcome'
  BY <1>20 DEF BodyFails, RMove
<1>21. ASSUME ReceiveDone PROVE Outcome'
  BY <1>21 DEF ReceiveDone, RMove, Done
<1>22. ASSUME Terminate PROVE Outcome'
  BY <1>22 DEF Terminate, RMove
<1>23. ASSUME TerminateEnds PROVE Outcome'
  BY <1>23 DEF TerminateEnds, RMove
<1>24. ASSUME NEW c \in Calls, TerminateCall(c) PROVE Outcome'
  BY <1>24 DEF TerminateCall, Done
<1>25. CASE UNCHANGED <<pc, error, reply, rpc, current>>
  BY <1>25
<1>26. QED
  BY <1>1, <1>2, <1>3, <1>4, <1>5, <1>6, <1>7, <1>8, <1>9, <1>10, <1>11,
    <1>12, <1>13, <1>14, <1>15, <1>16, <1>17, <1>18, <1>19, <1>20, <1>21,
    <1>22, <1>23, <1>24, <1>25 DEF Next, SendStep, ReturnStep, ReceiveStep,
    Close, ConnBreaks, Drain

\* The types, variable by variable.
LEMMA CallTypesStep == IInv /\ Next => CallTypes'
<1> SUFFICES ASSUME IInv, Next PROVE CallTypes'
  OBVIOUS
<1> USE CallsAssumption DEF IInv, TypeOK, CallTypes, NumberTypes,
    ReceiveTypes, LockTypes, Hands, Errors, Terminated, Message, NoMessage,
    muVars, callVars, recvVars, connVars
<1>1. ASSUME NEW c \in Calls, Lock(c) PROVE CallTypes'
  BY <1>1 DEF Lock, Move
<1>2. ASSUME NEW c \in Calls, Register(c) PROVE CallTypes'
  <2>1. seq \in Seqs /\ seqOf' = [seqOf EXCEPT ![c] = seq]
    BY <1>2, Numbering DEF Register
  <2>2. QED
    BY <1>2, <2>1 DEF Register, Move
<1>3. ASSUME NEW c \in Calls, Refuse(c) PROVE CallTypes'
  BY <1>3 DEF Refuse, Move
<1>4. ASSUME NEW c \in Calls, Prepare(c) PROVE CallTypes'
  BY <1>4 DEF Prepare, Move
<1>5. ASSUME NEW c \in Calls, Write(c) PROVE CallTypes'
  BY <1>5 DEF Write, Move
<1>6. ASSUME NEW c \in Calls, WriteFails(c) PROVE CallTypes'
  BY <1>6 DEF WriteFails, Move
<1>7. ASSUME NEW c \in Calls, CloseCodec(c) PROVE CallTypes'
  BY <1>7 DEF CloseCodec, Move
<1>8. ASSUME NEW c \in Calls, TakeBack(c) PROVE CallTypes'
  BY <1>8 DEF TakeBack, Move
<1>9. ASSUME NEW c \in Calls, Complete(c) PROVE CallTypes'
  BY <1>9 DEF Complete, Move, Done
<1>10. ASSUME NEW c \in Calls, Unlock(c) PROVE CallTypes'
  BY <1>10 DEF Unlock, Move
<1>11. ASSUME NEW c \in Calls, Finish(c) PROVE CallTypes'
  BY <1>11 DEF Finish, Move
<1>12. ASSUME NEW c \in Calls, Abandon(c) PROVE CallTypes'
  BY <1>12 DEF Abandon, Move
<1>13. ASSUME NEW c \in Calls, Expire(c) PROVE CallTypes'
  BY <1>13 DEF Expire, Move
<1>14. ASSUME RemoteError PROVE CallTypes'
  BY <1>14 DEF RemoteError, RMove
<1>15. ASSUME ReadBody PROVE CallTypes'
  BY <1>15 DEF ReadBody, RMove
<1>16. ASSUME BodyFails PROVE CallTypes'
  BY <1>16 DEF BodyFails, RMove
<1>17. ASSUME ReceiveDone PROVE CallTypes'
  BY <1>17 DEF ReceiveDone, RMove, Done
<1>18. ASSUME NEW c \in Calls, TerminateCall(c) PROVE CallTypes'
  BY <1>18 DEF TerminateCall, Done
<1>19. CASE UNCHANGED <<pc, seqOf, error, reply, completed>>
  BY <1>19
<1>20. QED
  BY <1>1, <1>2, <1>3, <1>4, <1>5, <1>6, <1>7, <1>8, <1>9, <1>10, <1>11,
    <1>12, <1>13, <1>14, <1>15, <1>16, <1>17, <1>18, <1>19 DEF Next,
    SendStep, ReturnStep, ReceiveStep, ReadFails, RemoveCall, SkipBody,
    Terminate, TerminateEnds, Close, ConnBreaks, Drain, ReadHeader

\* A value is put in a channel only where there is room.
LEMMA ChannelTypesStep == IInv /\ Next => ChannelTypes'
<1> SUFFICES ASSUME IInv, Next PROVE ChannelTypes'
  OBVIOUS
<1> USE CallsAssumption, CapacityAssumption DEF IInv, TypeOK,
    ChannelTypes, ReceiveTypes, LockTypes, Hands, Cap, ChanOf, Calls,
    muVars, callVars, recvVars, connVars
<1>1. ASSUME NEW c \in Calls, Complete(c) PROVE ChannelTypes'
  BY <1>1 DEF Complete, Move, Done
<1>2. ASSUME NEW c \in Calls, Finish(c) PROVE ChannelTypes'
  BY <1>2 DEF Finish, Move
<1>3. ASSUME ReceiveDone PROVE ChannelTypes'
  BY <1>3 DEF ReceiveDone, RMove, Done
<1>4. ASSUME NEW c \in Calls, TerminateCall(c) PROVE ChannelTypes'
  BY <1>4 DEF TerminateCall, Done
<1>5. ASSUME Drain PROVE ChannelTypes'
  BY <1>5 DEF Drain
<1>6. CASE UNCHANGED <<queue>>
  BY <1>6
<1>7. QED
  BY <1>1, <1>2, <1>3, <1>4, <1>5, <1>6 DEF Next, SendStep, ReturnStep,
    ReceiveStep, Lock, Register, Refuse, Prepare, Write, WriteFails,
    CloseCodec, TakeBack, Unlock, Abandon, Expire, ReadFails, RemoveCall,
    SkipBody, RemoteError, ReadBody, BodyFails, Terminate, TerminateEnds,
    Close, ConnBreaks, ReadHeader

\* terminateCalls holds both locks, and shutdown is set from then on.
LEMMA LockTypesStep == IInv /\ Next => LockTypes'
<1> SUFFICES ASSUME IInv, Next PROVE LockTypes'
  OBVIOUS
<1> USE DEF IInv, TypeOK, LockTypes, Shut, Receiver, muVars, callVars,
    recvVars, connVars
<1>1. ASSUME NEW c \in Calls, Lock(c) PROVE LockTypes'
  BY <1>1 DEF Lock, Move
<1>2. ASSUME NEW c \in Calls, Unlock(c) PROVE LockTypes'
  BY <1>2 DEF Unlock, Move
<1>3. ASSUME NEW r \in wire, ReadHeader(r) PROVE LockTypes'
  BY <1>3 DEF ReadHeader, RMove
<1>4. ASSUME Close PROVE LockTypes'
  BY <1>4 DEF Close
<1>5. ASSUME ReadFails PROVE LockTypes'
  BY <1>5 DEF ReadFails, RMove
<1>6. ASSUME RemoveCall PROVE LockTypes'
  BY <1>6 DEF RemoveCall, RMove
<1>7. ASSUME SkipBody PROVE LockTypes'
  BY <1>7 DEF SkipBody, RMove
<1>8. ASSUME RemoteError PROVE LockTypes'
  BY <1>8 DEF RemoteError, RMove
<1>9. ASSUME ReadBody PROVE LockTypes'
  BY <1>9 DEF ReadBody, RMove
<1>10. ASSUME BodyFails PROVE LockTypes'
  BY <1>10 DEF BodyFails, RMove
<1>11. ASSUME ReceiveDone PROVE LockTypes'
  BY <1>11 DEF ReceiveDone, RMove, Done
<1>12. ASSUME Terminate PROVE LockTypes'
  BY <1>12 DEF Terminate, RMove
<1>13. ASSUME TerminateEnds PROVE LockTypes'
  <2>1. shutdown = TRUE /\ shutdown' = shutdown /\ closing' = closing
    BY <1>13 DEF TerminateEnds, RMove
  <2>2. rpc' = "ended" /\ muHeld' = FALSE /\ sending' = None
    BY <1>13 DEF TerminateEnds, RMove
  <2>3. QED
    BY <2>1, <2>2
<1>14. CASE UNCHANGED <<sending, rpc, muHeld, shutdown, closing>>
  BY <1>14
<1>15. QED
  BY <1>1, <1>2, <1>3, <1>4, <1>5, <1>6, <1>7, <1>8, <1>9, <1>10, <1>11,
    <1>12, <1>13, <1>14 DEF Next, SendStep, ReturnStep, ReceiveStep,
    Register, Refuse, Prepare, Write, WriteFails, CloseCodec, TakeBack,
    Complete, Finish, Abandon, Expire, ConnBreaks, Drain, TerminateCall

\* There are as many numbers as calls.
LEMMA NumberTypesStep == IInv /\ Next => NumberTypes'
<1> SUFFICES ASSUME IInv, Next PROVE NumberTypes'
  OBVIOUS
<1> USE CallsAssumption DEF IInv, TypeOK, NumberTypes, CallTypes, muVars,
    callVars, recvVars, connVars
<1>1. ASSUME NEW c \in Calls, Register(c) PROVE NumberTypes'
  <2>1. seq \in Seqs /\ seq' = seq + 1 /\ header' = header
    BY <1>1, Numbering DEF Register, NextSeq
  <2>2. Cardinality(Calls) \in Nat
    BY FS_CardinalityType
  <2>3. seq' \in 1 .. Cardinality(Calls) + 1
    BY <2>1, <2>2 DEF Seqs
  <2>4. pending' \in [Seqs -> Calls \cup {None}]
    BY <1>1 DEF Register
  <2>5. QED
    BY <2>1, <2>3, <2>4
<1>2. ASSUME NEW c \in Calls, Prepare(c) PROVE NumberTypes'
  BY <1>2 DEF Prepare, Move
<1>3. ASSUME NEW c \in Calls, TakeBack(c) PROVE NumberTypes'
  BY <1>3 DEF TakeBack, Move
<1>4. ASSUME NEW c \in Calls, Abandon(c) PROVE NumberTypes'
  BY <1>4 DEF Abandon, Move
<1>5. ASSUME RemoveCall PROVE NumberTypes'
  BY <1>5 DEF RemoveCall, RMove
<1>6. CASE UNCHANGED <<header, seq, pending>>
  BY <1>6
<1>7. QED
  BY <1>1, <1>2, <1>3, <1>4, <1>5, <1>6 DEF Next, SendStep, ReturnStep,
    ReceiveStep, Lock, Refuse, Write, WriteFails, CloseCodec, Complete,
    Unlock, Finish, Expire, ReadFails, SkipBody, RemoteError, ReadBody,
    BodyFails, ReceiveDone, Terminate, TerminateEnds, Close, ConnBreaks,
    Drain, TerminateCall, ReadHeader

\* What receive works on.
LEMMA ReceiveTypesStep == IInv /\ Next => ReceiveTypes'
<1> SUFFICES ASSUME IInv, Next PROVE ReceiveTypes'
  OBVIOUS
<1> USE DEF IInv, TypeOK, ReceiveTypes, ConnTypes, NumberTypes, Hands,
    Message, NoMessage, muVars, callVars, recvVars, connVars
<1>1. ASSUME NEW r \in wire, ReadHeader(r) PROVE ReceiveTypes'
  BY <1>1 DEF ReadHeader, RMove
<1>2. ASSUME RemoveCall PROVE ReceiveTypes'
  BY <1>2 DEF RemoveCall, RMove
<1>3. ASSUME SkipBody PROVE ReceiveTypes'
  BY <1>3 DEF SkipBody, RMove
<1>4. ASSUME ReceiveDone PROVE ReceiveTypes'
  BY <1>4 DEF ReceiveDone, RMove, Done
<1>5. ASSUME NEW c \in Calls, TerminateCall(c) PROVE ReceiveTypes'
  BY <1>5 DEF TerminateCall, Done
<1>6. CASE UNCHANGED <<response, current, visited>>
  BY <1>6
<1>7. QED
  BY <1>1, <1>2, <1>3, <1>4, <1>5, <1>6 DEF Next, SendStep, ReturnStep,
    ReceiveStep, Lock, Register, Refuse, Prepare, Write, WriteFails,
    CloseCodec, TakeBack, Complete, Unlock, Finish, Abandon, Expire,
    ReadFails, RemoteError, ReadBody, BodyFails, Terminate, TerminateEnds,
    Close, ConnBreaks, Drain

\* What is on the wire.
LEMMA ConnTypesStep == IInv /\ Next => ConnTypes'
<1> SUFFICES ASSUME IInv, Next PROVE ConnTypes'
  OBVIOUS
<1> USE DEF IInv, TypeOK, ConnTypes, CallTypes, NumberTypes, Numbers,
    Numbered, Locks, Message, InSend, muVars, callVars, recvVars, connVars
<1>1. ASSUME NEW c \in Calls, Write(c) PROVE ConnTypes'
  <2>1. header \in Seqs
    BY <1>1 DEF Write, Move
  <2>2. wire' = wire \/ wire' = wire \cup {[seq |-> header, call |-> c]}
    BY <1>1 DEF Write
  <2>3. wire' \subseteq Message
    BY <2>1, <2>2
  <2>4. QED
    BY <1>1, <2>3 DEF Write
<1>2. ASSUME NEW c \in Calls, WriteFails(c) PROVE ConnTypes'
  BY <1>2 DEF WriteFails, Move
<1>3. ASSUME NEW c \in Calls, CloseCodec(c) PROVE ConnTypes'
  BY <1>3 DEF CloseCodec, Move
<1>4. ASSUME NEW r \in wire, ReadHeader(r) PROVE ConnTypes'
  BY <1>4 DEF ReadHeader, RMove
<1>5. ASSUME Close PROVE ConnTypes'
  BY <1>5 DEF Close
<1>6. ASSUME ConnBreaks PROVE ConnTypes'
  BY <1>6 DEF ConnBreaks
<1>7. CASE UNCHANGED <<up, sticky, wire>>
  BY <1>7
<1>8. QED
  BY <1>1, <1>2, <1>3, <1>4, <1>5, <1>6, <1>7 DEF Next, SendStep,
    ReturnStep, ReceiveStep, Lock, Register, Refuse, Prepare, TakeBack,
    Complete, Unlock, Finish, Abandon, Expire, ReadFails, RemoveCall,
    SkipBody, RemoteError, ReadBody, BodyFails, ReceiveDone, Terminate,
    TerminateEnds, Drain, TerminateCall

\* receive stores an answer in the call its number leads to.
LEMMA ReplyStep == IInv /\ Next => OwnReply'
<1> SUFFICES ASSUME IInv, Next PROVE OwnReply'
  OBVIOUS
<1> USE CallsAssumption DEF IInv, TypeOK, CallTypes, ReceiveTypes,
    LockTypes, OwnReply, Hands, Numbers, Owners, Message, NoMessage, Seqs,
    muVars, callVars, recvVars, connVars
<1>1. ASSUME ReadBody PROVE OwnReply'
  BY <1>1 DEF ReadBody, RMove
<1>2. CASE UNCHANGED <<reply>>
  BY <1>2
<1>3. QED
  BY <1>1, <1>2 DEF Next, SendStep, ReturnStep, ReceiveStep, Lock, Register,
    Refuse, Prepare, Write, WriteFails, CloseCodec, TakeBack, Complete,
    Unlock, Finish, Abandon, Expire, ReadFails, RemoveCall, SkipBody,
    RemoteError, BodyFails, ReceiveDone, Terminate, TerminateEnds, Close,
    ConnBreaks, Drain, TerminateCall, ReadHeader

\* A call that is completed has its error or its reply by then.
LEMMA SuccessStep == IInv /\ Next => SuccessHasReply'
<1> SUFFICES ASSUME IInv, Next PROVE SuccessHasReply'
  OBVIOUS
<1> USE CallsAssumption DEF IInv, TypeOK, CallTypes, ReceiveTypes,
    LockTypes, NumberTypes, SuccessHasReply, Outcome, Completion, Hands,
    Owners, Numbers, Numbered, IsPending, Open, Taken, Terminated, Message,
    NoMessage, Seqs, muVars, callVars, recvVars, connVars
<1>1. ASSUME NEW c \in Calls, Refuse(c) PROVE SuccessHasReply'
  BY <1>1 DEF Refuse, Move
<1>2. ASSUME NEW c \in Calls, TakeBack(c) PROVE SuccessHasReply'
  BY <1>2 DEF TakeBack, Move
<1>3. ASSUME NEW c \in Calls, Complete(c) PROVE SuccessHasReply'
  BY <1>3 DEF Complete, Move, Done
<1>4. ASSUME RemoteError PROVE SuccessHasReply'
  BY <1>4 DEF RemoteError, RMove
<1>5. ASSUME ReadBody PROVE SuccessHasReply'
  BY <1>5 DEF ReadBody, RMove
<1>6. ASSUME BodyFails PROVE SuccessHasReply'
  BY <1>6 DEF BodyFails, RMove
<1>7. ASSUME ReceiveDone PROVE SuccessHasReply'
  BY <1>7 DEF ReceiveDone, RMove, Done
<1>8. ASSUME NEW c \in Calls, TerminateCall(c) PROVE SuccessHasReply'
  BY <1>8 DEF TerminateCall, Done
<1>9. CASE UNCHANGED <<completed, error, reply>>
  BY <1>9
<1>10. QED
  BY <1>1, <1>2, <1>3, <1>4, <1>5, <1>6, <1>7, <1>8, <1>9 DEF Next,
    SendStep, ReturnStep, ReceiveStep, Lock, Register, Prepare, Write,
    WriteFails, CloseCodec, Unlock, Finish, Abandon, Expire, ReadFails,
    RemoveCall, SkipBody, Terminate, TerminateEnds, Close, ConnBreaks,
    Drain, ReadHeader

\* Initially nothing is registered, held or complete.
LEMMA InitInv == Init => IInv
<1> SUFFICES ASSUME Init PROVE IInv
  OBVIOUS
<1> USE CallsAssumption DEF Init, Calls
<1>1. TypeOK
  <2>1. Cardinality(Calls) \in Nat
    BY FS_CardinalityType
  <2>2. CallTypes /\ ReceiveTypes /\ ConnTypes
    BY DEF CallTypes, ReceiveTypes, ConnTypes, Errors, NoMessage
  <2>3. NumberTypes
    BY <2>1 DEF NumberTypes, FirstSeq
  <2>4. ChannelTypes
    BY CapacityAssumption DEF ChannelTypes, Cap
  <2>5. LockTypes
    <3>1. (rpc = "terminate") = FALSE /\ (rpc \in {"terminate", "ended"}) = FALSE
      OBVIOUS
    <3>2. /\ sending \in Calls \cup {None, Receiver}
          /\ rpc \in {"header", "remove", "body", "done", "lastDone", "lock",
                      "terminate", "ended"}
      OBVIOUS
    <3>3. muHeld = FALSE /\ shutdown = FALSE /\ closing = FALSE
      OBVIOUS
    <3>4. QED
      BY <3>1, <3>2, <3>3, Zenon DEF LockTypes
  <2>6. QED
    BY <2>2, <2>3, <2>4, <2>5 DEF TypeOK
<1>2. Numbers
  <2>1. Registered = {}
    BY DEF Registered
  <2>2. Cardinality(Registered) = 0
    BY <2>1, FS_EmptySet
  <2>3. QED
    BY <2>2 DEF Numbers, Numbered, FirstSeq
<1>3. Owners /\ Locks /\ Hands
  BY DEF Owners, Locks, Hands, InSend, Numbered, Receiver, NoMessage
<1>4. Completion /\ Outcome /\ OwnReply /\ SuccessHasReply
  BY DEF Completion, Outcome, OwnReply, SuccessHasReply, IsPending, Open,
         Numbered
<1>5. QED
  BY <1>1, <1>2, <1>3, <1>4 DEF IInv

\* Every step preserves IInv, and so does a stuttering one.
LEMMA StepInv == IInv /\ [Next]_vars => IInv'
<1>1. IInv /\ Next => IInv'
  BY CallTypesStep, ChannelTypesStep, LockTypesStep, NumberTypesStep,
     ReceiveTypesStep, ConnTypesStep, LocksStep, NumbersStep, OwnersStep,
     HandsStep, CompletionStep, OutcomeStep, ReplyStep, SuccessStep
  DEF IInv, TypeOK
<1>2. IInv /\ UNCHANGED vars => IInv'
  BY DEF vars, IInv, TypeOK, CallTypes, ChannelTypes, LockTypes, NumberTypes,
    ReceiveTypes, ConnTypes, Numbers, Registered, Owners, Locks, Hands,
    Completion, Outcome, OwnReply, SuccessHasReply, IsPending, Open
<1>3. QED
  BY <1>1, <1>2

\* IInv holds in every reachable state.
THEOREM Inductive == Spec => []IInv
BY InitInv, StepInv, PTL DEF Spec

\* Every variable keeps its type, for any number of invocations: no channel
\* overflows, numbers do not run out, and the locks of terminateCalls and
\* shutdown agree with where receive is.
THEOREM TypeCorrect == Spec => []TypeOK
<1>1. IInv => TypeOK
  BY DEF IInv
<1>2. QED
  BY <1>1, Inductive, PTL

\* call.done runs at most once for each call.
THEOREM DoneOnce == Spec => []CompletedOnce
<1>1. IInv => CompletedOnce
  BY DEF IInv, Completion, CompletedOnce
<1>2. QED
  BY <1>1, Inductive, PTL

\* A call's Reply only ever holds the answer to its own request, and a call
\* that completes without an error has it.
THEOREM RepliesMatch == Spec => []RightReply
<1>1. IInv => RightReply
  BY DEF IInv, RightReply
<1>2. QED
  BY <1>1, Inductive, PTL

\* A call that was sent is complete, pending or in receive's hands, and once
\* receive has ended it is complete.
THEOREM NothingLost == Spec => []NotLost
<1>1. IInv => NotLost
  <2> SUFFICES ASSUME IInv, NEW c \in Calls, pc[c] = "wait", completed[c] = 0
               PROVE  /\ current = c \/ \E s \in Seqs : pending[s] = c
                      /\ rpc # "ended"
    BY DEF NotLost
  <2>1. current = c \/ IsPending(c)
    BY DEF IInv, Completion, Open
  <2>2. ASSUME rpc = "ended" PROVE FALSE
    <3>1. IsPending(c)
      BY <2>1, <2>2, CallsAssumption DEF IInv, Hands
    <3>2. c \in visited
      BY <2>2, <3>1, CallsAssumption DEF IInv, Hands, IsPending
    <3>3. QED
      BY <3>2 DEF IInv, Completion, Open
  <2>3. QED
    BY <2>1, <2>2 DEF IsPending
<1>2. QED
  BY <1>1, Inductive, PTL

-----------------------------------------------------------------------------
(* The Client keeps the promise of Answering. *)

\* Which calls are refused: those that never get a number, with ErrShutdown.
Refusals ==
    /\ \A c \in Calls :
          seqOf[c] = 0 => reply[c] = None /\ error[c] \in {"none", "shutdown"}
    /\ \A c \in Calls : error[c] = "shutdown" => seqOf[c] = 0 /\ Unusable

\* A call that receive, terminateCalls or a failed write works on has a number.
LEMMA HasNumber ==
    ASSUME IInv, NEW c \in Calls, current = c \/ IsPending(c) \/ pc[c] \in Numbered
    PROVE  seqOf[c] \in Seqs
<1> USE CallsAssumption DEF IInv, TypeOK, CallTypes
<1>1. CASE current = c
  <2>1. response \in Message
    BY <1>1 DEF Hands, ReceiveTypes
  <2> QED  BY <1>1, <2>1 DEF Owners, Message
<1>2. CASE IsPending(c)
  BY <1>2 DEF Owners, IsPending, Seqs
<1>3. CASE pc[c] \in Numbered
  BY <1>3 DEF Numbers
<1> QED  BY <1>1, <1>2, <1>3

\* A new Client has refused nobody.
LEMMA RefusalsInit == Init => Refusals
BY DEF Init, Refusals

\* Every step preserves Refusals: a refused call has no number and gets none.
LEMMA RefusalsStep == IInv /\ Refusals /\ [Next]_vars => Refusals'
<1> SUFFICES ASSUME IInv, Refusals, [Next]_vars PROVE Refusals'
  OBVIOUS
<1> USE CallsAssumption DEF IInv, TypeOK, CallTypes, Unusable, muVars,
    callVars, recvVars, connVars
<1>1. ASSUME NEW c \in Calls, Register(c) PROVE Refusals'
  <2>1. seqOf[c] = 0
    BY <1>1 DEF Register, Move, Numbers
  <2>2. error[c] = "none" /\ reply[c] = None
    BY <1>1, <2>1 DEF Register, Refusals
  <2>3. UNCHANGED <<error, reply, closing, shutdown>>
    BY <1>1 DEF Register
  <2>4. \A d \in Calls : d # c => seqOf'[d] = seqOf[d]
    BY <1>1 DEF Register
  <2> QED  BY <2>2, <2>3, <2>4 DEF Refusals
<1>2. ASSUME NEW c \in Calls, Refuse(c) PROVE Refusals'
  <2>1. seqOf[c] = 0
    BY <1>2 DEF Refuse, Move, Numbers
  <2> QED  BY <1>2, <2>1 DEF Refuse, Refusals
<1>3. ASSUME NEW c \in Calls, TakeBack(c) PROVE Refusals'
  <2>1. seqOf[c] # 0
    BY <1>3, HasNumber DEF TakeBack, Move, Numbered, Seqs
  <2> QED  BY <1>3, <2>1 DEF TakeBack, Refusals
<1>4. CASE RemoteError \/ ReadBody \/ BodyFails
  <2>1. current \in Calls /\ seqOf[current] # 0
    BY <1>4, HasNumber DEF RemoteError, ReadBody, BodyFails, ReceiveTypes, Seqs
  <2> QED  BY <1>4, <2>1 DEF RemoteError, ReadBody, BodyFails, Refusals
<1>5. ASSUME NEW c \in Calls, TerminateCall(c) PROVE Refusals'
  <2>1. seqOf[c] # 0
    BY <1>5, HasNumber DEF TerminateCall, IsPending, Seqs
  <2> QED  BY <1>5, <2>1 DEF TerminateCall, Terminated, Refusals
<1>6. CASE UNCHANGED <<seqOf, error, reply>>
           /\ (closing => closing') /\ (shutdown => shutdown')
  BY <1>6 DEF Refusals
<1>7. CASE UNCHANGED vars
  BY <1>7, <1>6 DEF vars
<1>8. ASSUME NEW c \in Calls,
             \/ Lock(c) \/ Prepare(c) \/ Write(c) \/ WriteFails(c)
             \/ CloseCodec(c) \/ Complete(c) \/ Unlock(c)
             \/ Finish(c) \/ Abandon(c) \/ Expire(c)
      PROVE  Refusals'
  BY <1>6, <1>8 DEF Lock, Prepare, Write, WriteFails, CloseCodec, Complete,
    Unlock, Finish, Abandon, Expire
<1>9. CASE \/ ReadFails \/ RemoveCall \/ SkipBody \/ ReceiveDone \/ Terminate
           \/ TerminateEnds \/ Close \/ ConnBreaks \/ Drain
           \/ \E r \in wire : ReadHeader(r)
  BY <1>6, <1>9 DEF ReadFails, RemoveCall, SkipBody, ReceiveDone, Terminate,
    Shut, TerminateEnds, Close, ConnBreaks, Drain, ReadHeader
<1> QED  BY <1>1, <1>2, <1>3, <1>4, <1>5, <1>7, <1>8, <1>9
         DEF Next, SendStep, ReturnStep, ReceiveStep

\* Refusals holds in every reachable state.
LEMMA RefusalsInvariant == Spec => [](IInv /\ Refusals)
BY InitInv, StepInv, RefusalsInit, RefusalsStep, PTL DEF Spec

\* After done() neither send, receive nor terminateCalls writes a call's Error
\* or Reply.
LEMMA KeepsOutcome ==
    ASSUME IInv, Next, NEW d \in Calls, completed[d] > 0
    PROVE  error'[d] = error[d] /\ reply'[d] = reply[d]
<1> DEFINE Final == error'[d] = error[d] /\ reply'[d] = reply[d]
<1> USE CallsAssumption DEF IInv, TypeOK, CallTypes, NumberTypes,
    ReceiveTypes, Completion, Open, IsPending, Hands, Owners, Numbers,
    Numbered, Taken, Terminated, muVars, callVars, recvVars, connVars
<1>1. ASSUME NEW c \in Calls, Refuse(c) PROVE Final
  BY <1>1 DEF Refuse, Move
<1>2. ASSUME NEW c \in Calls, TakeBack(c) PROVE Final
  <2>1. CASE Taken(c)
    BY <1>2, <2>1 DEF TakeBack, Move
  <2>2. CASE ~Taken(c)
    <3>1. seqOf[c] \in Seqs /\ pending[seqOf[c]] \in Calls
      BY <1>2, <2>2 DEF TakeBack, Move
    <3>2. IsPending(c) /\ visited = {}
      BY <1>2, <3>1 DEF TakeBack, Move, Locks
    <3>3. QED
      BY <1>2, <2>2, <3>2 DEF TakeBack, Move
  <2>3. QED
    BY <2>1, <2>2
<1>3. ASSUME RemoteError PROVE Final
  BY <1>3 DEF RemoteError, RMove
<1>4. ASSUME ReadBody PROVE Final
  BY <1>4 DEF ReadBody, RMove
<1>5. ASSUME BodyFails PROVE Final
  BY <1>5 DEF BodyFails, RMove
<1>6. ASSUME NEW c \in Calls, TerminateCall(c) PROVE Final
  <2>1. completed[c] = 0
    BY <1>6 DEF TerminateCall
  <2> QED  BY <1>6, <2>1 DEF TerminateCall
<1>7. CASE UNCHANGED <<error, reply>>
  BY <1>7
<1>8. QED
  BY <1>1, <1>2, <1>3, <1>4, <1>5, <1>6, <1>7 DEF Next, SendStep,
    ReturnStep, ReceiveStep, Lock, Register, Prepare, Write, WriteFails,
    CloseCodec, Complete, Unlock, Finish, Abandon, Expire, ReadFails,
    RemoveCall, SkipBody, ReceiveDone, Terminate, TerminateEnds, Close,
    ConnBreaks, Drain, ReadHeader

\* What a step leaves of a call's outcome.
LEMMA SeenSame ==
    ASSUME NEW c \in Calls, completed'[c] = completed[c],
           completed[c] = 0 \/ (error'[c] = error[c] /\ reply'[c] = reply[c])
    PROVE  Seen(c)' = Seen(c)
BY DEF Seen

\* A step that completes nothing leaves every outcome alone.
LEMMA OutcomesSame ==
    ASSUME IInv, Next, completed' = completed
    PROVE  [c \in Calls |-> Seen(c)]' = [c \in Calls |-> Seen(c)]
<1>1. ASSUME NEW c \in Calls  PROVE Seen(c)' = Seen(c)
  <2>1. completed[c] \in Nat
    BY DEF IInv, TypeOK, CallTypes
  <2> QED  BY <2>1, KeepsOutcome, SeenSame
<1> QED  BY <1>1

\* A step that completes one call settles its outcome, and no other.
LEMMA OneSettled ==
    ASSUME IInv, Next, NEW c \in Calls, completed[c] = 0,
           completed' = [completed EXCEPT ![c] = @ + 1]
    PROVE  [d \in Calls |-> Seen(d)]' =
               [[d \in Calls |-> Seen(d)] EXCEPT
                   ![c] = [error |-> error'[c], reply |-> reply'[c]]]
<1>1. completed \in [Calls -> Nat]
  BY DEF IInv, TypeOK, CallTypes
<1>2. Seen(c)' = [error |-> error'[c], reply |-> reply'[c]]
  BY <1>1 DEF Seen
<1>3. ASSUME NEW d \in Calls, d # c  PROVE Seen(d)' = Seen(d)
  BY <1>1, <1>3, KeepsOutcome, SeenSame
<1> QED  BY <1>2, <1>3

\* A new Client has taken no call.
LEMMA InitRefines == Init => A!Init
<1> SUFFICES ASSUME Init  PROVE A!Init
  OBVIOUS
<1>1. {c \in Calls : seqOf[c] # 0} = {}
  BY DEF Init
<1>2. [c \in Calls |-> Seen(c)] = [c \in Calls |-> A!Open]
  BY DEF Init, Seen, A!Open
<1>3. Status = "available"
  BY DEF Init, Status
<1> QED  BY <1>1, <1>2, <1>3 DEF A!Init

\* What does not register, complete, close or terminate is nothing to callers.
LEMMA Silent ==
    ASSUME IInv, Next, UNCHANGED <<seqOf, completed, closing, shutdown>>
    PROVE  UNCHANGED A!vars
<1>1. [c \in Calls |-> Seen(c)]' = [c \in Calls |-> Seen(c)]
  BY OutcomesSame
<1>2. {c \in Calls : seqOf[c] # 0}' = {c \in Calls : seqOf[c] # 0}
  OBVIOUS
<1>3. Status' = Status
  BY DEF Status
<1> QED  BY <1>1, <1>2, <1>3 DEF A!vars

\* registerCall takes a call, which nobody has completed.
LEMMA RegisterRefines ==
    ASSUME IInv, NEW c \in Calls, Register(c), Next
    PROVE  A!Take(c)
<1> USE DEF IInv, TypeOK, CallTypes
<1>1. completed' = completed /\ UNCHANGED <<closing, shutdown>>
  BY DEF Register
<1>2. pc[c] = "register" /\ ~Unusable
  BY DEF Register, Move
<1>3. seqOf[c] = 0 /\ completed[c] = 0
  BY <1>2 DEF Numbers, Completion, Open
<1>4. seq # 0
  BY Numbering DEF Seqs
<1>5. {d \in Calls : seqOf[d] # 0}' = {d \in Calls : seqOf[d] # 0} \cup {c}
  BY <1>4 DEF Register
<1>6. Status = "available" /\ Status' = Status
  BY <1>1, <1>2 DEF Status, Unusable
<1>7. [d \in Calls |-> Seen(d)]' = [d \in Calls |-> Seen(d)]
  BY <1>1, OutcomesSame
<1>8. [d \in Calls |-> Seen(d)][c] = A!Open
  BY <1>3 DEF Seen, A!Open
<1> QED  BY <1>3, <1>5, <1>6, <1>7, <1>8 DEF A!Take

\* What completes a call settles its outcome, with what is in the call then.
LEMMA DoneSettles ==
    ASSUME IInv, NEW c \in Calls, Next, Done(c), completed[c] = 0,
           UNCHANGED <<seqOf, closing, shutdown>>
    PROVE  A!Settle(c, error'[c], reply'[c])
<1>1. completed' = [completed EXCEPT ![c] = @ + 1]
  BY DEF Done
<1>2. [d \in Calls |-> Seen(d)]' =
          [[d \in Calls |-> Seen(d)] EXCEPT
              ![c] = [error |-> error'[c], reply |-> reply'[c]]]
  BY <1>1, OneSettled
<1>3. [d \in Calls |-> Seen(d)][c] = A!Open
  BY DEF Seen, A!Open
<1>4. Status' = Status /\
      {d \in Calls : seqOf[d] # 0}' = {d \in Calls : seqOf[d] # 0}
  BY DEF Status
<1> QED  BY <1>2, <1>3, <1>4 DEF A!Settle

\* send completes a call it was refused, or failed to write.
LEMMA CompleteRefines ==
    ASSUME IInv, Refusals, NEW c \in Calls, Complete(c), Next
    PROVE  A!Refuse(c) \/ A!Fail(c)
<1> USE DEF IInv, TypeOK, CallTypes
<1>1. pc[c] = "complete" /\ Done(c) /\ UNCHANGED <<error, reply>>
  BY DEF Complete, Move
<1>2. completed[c] = 0 /\ error[c] # "none"
  BY <1>1 DEF Completion, Open, Outcome
<1>3. A!Settle(c, error[c], reply[c])
  BY <1>1, <1>2, DoneSettles DEF Complete, muVars
<1>4. CASE seqOf[c] = 0
  <2>1. error[c] = "shutdown" /\ reply[c] = None /\ Unusable
    BY <1>2, <1>4 DEF Refusals
  <2>2. Status # "available"
    BY <2>1 DEF Unusable, Status
  <2> QED  BY <1>3, <1>4, <2>1, <2>2 DEF A!Refuse
<1>5. CASE seqOf[c] # 0
  <2>1. error[c] \in A!Failures /\ reply[c] \in {None, c}
    BY <1>2, <1>5 DEF Refusals, Errors, A!Failures, OwnReply
  <2> QED  BY <1>3, <1>5, <2>1 DEF A!Fail
<1> QED  BY <1>4, <1>5

\* receive answers a call, or fails it; it has not terminated yet.
LEMMA ReceiveRefines ==
    ASSUME IInv, Refusals, ReceiveDone, Next
    PROVE  \E c \in Calls : A!Answer(c) \/ A!Fail(c)
<1> USE DEF IInv, TypeOK, CallTypes
<1> DEFINE c == current
<1>1. rpc \in {"done", "lastDone"} /\ Done(c) /\ UNCHANGED <<error, reply>>
  BY DEF ReceiveDone, RMove
<1>2. c \in Calls
  BY <1>1 DEF Hands, ReceiveTypes
<1>3. seqOf[c] # 0 /\ completed[c] = 0
  BY <1>2, HasNumber DEF Completion, Open, Seqs
<1>4. A!Settle(c, error[c], reply[c])
  BY <1>1, <1>2, <1>3, DoneSettles DEF ReceiveDone, muVars
<1>5. CASE error[c] = "none"
  <2>1. reply[c] = c
    BY <1>1, <1>5 DEF Outcome
  <2>2. Status # "ended"
    BY <1>1 DEF Status, LockTypes
  <2> QED  BY <1>2, <1>3, <1>4, <1>5, <2>1, <2>2 DEF A!Answer
<1>6. CASE error[c] # "none"
  <2>1. error[c] \in A!Failures /\ reply[c] \in {None, c}
    BY <1>2, <1>3, <1>6 DEF Refusals, Errors, A!Failures, OwnReply
  <2> QED  BY <1>2, <1>3, <1>4, <2>1 DEF A!Fail
<1> QED  BY <1>5, <1>6

\* terminateCalls fails what is pending.
LEMMA TerminateRefines ==
    ASSUME IInv, NEW c \in Calls, TerminateCall(c), Next
    PROVE  A!Fail(c)
<1> USE DEF IInv, TypeOK, CallTypes
<1>1. c \notin visited /\ IsPending(c)
  BY DEF TerminateCall, IsPending
<1>2. seqOf[c] # 0 /\ completed[c] = 0
  BY <1>1, HasNumber DEF Completion, Open, Seqs
<1>3. error'[c] = "terminated" /\ reply'[c] \in {None, c}
  BY DEF TerminateCall, Terminated, OwnReply
<1>4. A!Settle(c, error'[c], reply'[c])
  BY <1>2, DoneSettles DEF TerminateCall, muVars
<1> QED  BY <1>2, <1>3, <1>4 DEF A!Fail, A!Failures

\* Close and the start of terminateCalls make the Client unavailable.
LEMMA StatusRefines ==
    ASSUME IInv, Close \/ Terminate, Next
    PROVE  A!Close \/ A!End \/ UNCHANGED A!vars
<1>1. completed' = completed /\ seqOf' = seqOf
  BY DEF Close, Terminate, callVars
<1>2. [c \in Calls |-> Seen(c)]' = [c \in Calls |-> Seen(c)]
  BY <1>1, OutcomesSame
<1>3. {c \in Calls : seqOf[c] # 0}' = {c \in Calls : seqOf[c] # 0}
  BY <1>1
<1>4. CASE Close
  <2>1. ~closing /\ closing' /\ shutdown' = shutdown
    BY <1>4 DEF Close
  <2>2. CASE shutdown
    <3>1. Status' = Status
      BY <2>1, <2>2 DEF Status
    <3> QED  BY <1>2, <1>3, <3>1 DEF A!vars
  <2>3. CASE ~shutdown
    <3>1. Status = "available" /\ Status' = "closing"
      BY <2>1, <2>3 DEF Status
    <3> QED  BY <1>2, <1>3, <3>1 DEF A!Close
  <2> QED  BY <2>2, <2>3
<1>5. CASE Terminate
  <2>1. Status # "ended"
    BY <1>5 DEF Terminate, RMove, Status, IInv, TypeOK, LockTypes
  <2>2. Status' = "ended"
    BY <1>5 DEF Terminate, Shut, Status
  <2> QED  BY <1>2, <1>3, <2>1, <2>2 DEF A!End
<1> QED  BY <1>4, <1>5

\* Every step of the Client is a step of Answering, or nothing to callers.
LEMMA StepRefines == IInv /\ Refusals /\ [Next]_vars => [A!Next]_(A!vars)
<1> SUFFICES ASSUME IInv, Refusals, [Next]_vars PROVE [A!Next]_(A!vars)
  OBVIOUS
<1> USE DEF muVars, callVars, recvVars, connVars
<1>1. ASSUME NEW c \in Calls, Register(c), Next PROVE [A!Next]_(A!vars)
  BY <1>1, RegisterRefines DEF A!Next
<1>2. ASSUME NEW c \in Calls, Complete(c), Next PROVE [A!Next]_(A!vars)
  BY <1>2, CompleteRefines DEF A!Next
<1>3. CASE ReceiveDone /\ Next
  BY <1>3, ReceiveRefines DEF A!Next
<1>4. ASSUME NEW c \in Calls, TerminateCall(c), Next PROVE [A!Next]_(A!vars)
  BY <1>4, TerminateRefines DEF A!Next
<1>5. CASE (Close \/ Terminate) /\ Next
  BY <1>5, StatusRefines DEF A!Next
<1>6. CASE UNCHANGED <<seqOf, completed, closing, shutdown>> /\ Next
  BY <1>6, Silent
<1>7. ASSUME NEW c \in Calls, Next,
             \/ Lock(c) \/ Refuse(c) \/ Prepare(c) \/ Write(c) \/ WriteFails(c)
             \/ CloseCodec(c) \/ TakeBack(c) \/ Unlock(c)
             \/ Finish(c) \/ Abandon(c) \/ Expire(c)
      PROVE  [A!Next]_(A!vars)
  <2>1. UNCHANGED <<seqOf, completed, closing, shutdown>>
    BY <1>7 DEF Lock, Refuse, Prepare, Write, WriteFails, CloseCodec,
      TakeBack, Unlock, Finish, Abandon, Expire
  <2> QED  BY <1>6, <1>7, <2>1
<1>8. ASSUME Next,
             \/ ReadFails \/ RemoveCall \/ SkipBody \/ RemoteError \/ ReadBody
             \/ BodyFails \/ TerminateEnds \/ ConnBreaks \/ Drain
             \/ \E r \in wire : ReadHeader(r)
      PROVE  [A!Next]_(A!vars)
  <2>1. UNCHANGED <<seqOf, completed, closing, shutdown>>
    BY <1>8 DEF ReadFails, RemoveCall, SkipBody, RemoteError, ReadBody,
      BodyFails, TerminateEnds, ConnBreaks, Drain, ReadHeader
  <2> QED  BY <1>6, <1>8, <2>1
<1>9. CASE UNCHANGED vars
  <2>1. /\ UNCHANGED <<seqOf, completed, error, reply, closing, shutdown>>
    BY <1>9 DEF vars
  <2>2. UNCHANGED A!vars
    BY <2>1 DEF A!vars, Seen, Status
  <2> QED  BY <2>2
<1> QED  BY <1>1, <1>2, <1>3, <1>4, <1>5, <1>7, <1>8, <1>9
         DEF Next, SendStep, ReturnStep, ReceiveStep

\* The Client keeps the promise of Answering: a call gets one outcome, its own
\* answer or a failure, and keeps it; none is taken by a Client that is closing
\* or shut down, and none succeeds once terminateCalls has begun.
THEOREM KeepsPromise == Spec => ImplementsAnswering
BY InitRefines, StepRefines, RefusalsInvariant, PTL
   DEF Spec, ImplementsAnswering, A!Spec
=============================================================================
