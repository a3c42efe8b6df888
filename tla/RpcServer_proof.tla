-------------------------- MODULE RpcServer_proof ---------------------------
(***************************************************************************)
(* Responses are whole, and the server implements Exchange: for any number *)
(* of requests, with and without a handle timeout.                         *)
(***************************************************************************)
EXTENDS RpcServer, TLAPS

\* A request that the loop, or its handler, has still to answer.
Unanswered == {"lock", "writeHeader", "writeBody"}

Pending(r) ==
    \/ r = current /\ pc[Loop] \in {"body"} \cup Unanswered
    \/ pc[r] \in {"call"} \cup Unanswered

\* The client numbers its requests, and sends nothing behind half of one.
KindInv ==
    /\ \A q, r \in Senders : q < r /\ kind[r] # "unsent" => kind[q] # "unsent"
    /\ \A r \in Requests : kind[r] = "half" => eof

\* A header in the stream has not been read, and is followed by its body.
StreamInv ==
    \A i \in DOMAIN stream :
        /\ kind[stream[i].req] # "unsent"
        /\ stream[i].part = "header" =>
              /\ stream[i].req \in Requests
              /\ current < stream[i].req
              /\ IF kind[stream[i].req] = "half" THEN i = Len(stream)
                 ELSE i + 1 \in DOMAIN stream /\
                      stream[i + 1] = Part("body", stream[i].req)
              /\ \A j \in DOMAIN stream :
                    stream[j].part = "header" /\ i < j =>
                        stream[i].req < stream[j].req

LoopInv ==
    /\ pc[Loop] \in LoopStates \cup SendStates
    /\ pc[Loop] = "body" =>
          IF stream = << >> THEN eof ELSE stream[1] = Part("body", current)
    /\ pc[Loop] \in {"body"} \cup SendStates =>
          current \in Requests /\ pc[current] = "none"
    /\ pc[Loop] \in SendStates => ~ok[Loop]
    /\ pc[Loop] = "options" =>
          /\ current = 0
          /\ kind[0] # "unsent" => stream # << >> /\ stream[1].part = "options"
    /\ current # 0 => kind[current] # "unsent"
    /\ conn = "closed" => pc[Loop] = "ended"

HandlerInv ==
    \A r \in Requests :
        /\ pc[r] \in {"none", "call", "done"} \cup SendStates
        /\ pc[r] # "none" => r <= current
        /\ work[r] # "none" => pc[r] # "none"
        /\ pc[r] \in SendStates /\ ok[r] => work[r] = "value"

\* Once the loop has ended no handler is left.
EndInv ==
    pc[Loop] = "ended" => \A r \in Requests : pc[r] \in {"none", "done"}

\* The holder of the mutex; on a connection that is open it has sent the header
\* while it writes the body, and otherwise all responses are complete.
LockInv ==
    /\ sending # None => pc[sending] \in {"writeHeader", "writeBody", "unlock"}
    /\ conn # "broken" /\ Len(out) % 2 = 1 =>
          sending # None /\ pc[sending] = "writeBody"
    /\ conn = "open" /\ sending # None /\ pc[sending] = "writeBody" =>
          Len(out) % 2 = 1 /\ out[Len(out)] = Half("header", sending)

AnswerInv ==
    /\ \A r \in Requests, o \in BOOLEAN : Answered(r, o) =>
          /\ ~Pending(r)
          /\ r <= current
          /\ o => work[r] = "value"
    /\ conn = "open" => \A r \in Requests : Sent(r) /\ ~InStream(r) =>
          Pending(r) \/ \E o \in BOOLEAN : Answered(r, o)

IInv ==
    /\ TypeOK /\ KindInv /\ StreamInv /\ LoopInv /\ HandlerInv /\ EndInv
    /\ LockInv /\ AnswerInv /\ ResponsesWhole

-----------------------------------------------------------------------------
USE NAssumption DEF Senders, Requests, Loop, None, LoopStates, SendStates,
                    Unanswered, Move

\* The parts of the stream.
LEMMA Parts ==
  ASSUME TypeOK
  PROVE  /\ DOMAIN stream = 1 .. Len(stream) /\ Len(stream) \in Nat
         /\ \A i \in DOMAIN stream :
               /\ stream[i].req \in Senders
               /\ stream[i] = Part(stream[i].part, stream[i].req)
<1> DEFINE P == [part : {"options", "header", "body"}, req : Senders]
<1>1. \A x \in P : x.req \in Senders /\ x = Part(x.part, x.req)
  BY DEF Part
<1>2. stream \in Seq(P)
  BY DEF TypeOK
<1> HIDE DEF P
<1> QED  BY <1>1, <1>2

\* The stream without its first part.
LEMMA Shorter ==
  ASSUME TypeOK, stream # << >>
  PROVE  /\ Head(stream) = stream[1]
         /\ 1 \in DOMAIN stream
         /\ Tail(stream) \in Seq([part : {"options", "header", "body"}, req : Senders])
         /\ Len(Tail(stream)) = Len(stream) - 1
         /\ DOMAIN Tail(stream) = 1 .. Len(stream) - 1
         /\ \A i \in 1 .. Len(stream) - 1 : Tail(stream)[i] = stream[i + 1]
BY DEF TypeOK

\* What was sent, with one half more.
LEMMA Longer ==
  ASSUME TypeOK, NEW p \in Senders, NEW part \in {"header", "body"}
  PROVE  /\ Append(out, Half(part, p)) \in
               Seq([part : {"header", "body"}, req : Senders, ok : BOOLEAN])
         /\ Len(out) \in Nat /\ DOMAIN out = 1 .. Len(out)
         /\ Len(Append(out, Half(part, p))) = Len(out) + 1
         /\ DOMAIN Append(out, Half(part, p)) = 1 .. Len(out) + 1
         /\ Append(out, Half(part, p))[Len(out) + 1] = Half(part, p)
         /\ \A i \in 1 .. Len(out) : Append(out, Half(part, p))[i] = out[i]
<1>1. Half(part, p) \in [part : {"header", "body"}, req : Senders, ok : BOOLEAN]
  BY DEF TypeOK, Half, RequestOf
<1>2. out \in Seq([part : {"header", "body"}, req : Senders, ok : BOOLEAN])
  BY DEF TypeOK
<1> QED  BY <1>1, <1>2

\* Steps that answer nobody.
LEMMA AnswersKept ==
  ASSUME AnswerInv, current' = current, out' = out,
         \A r \in Requests : Pending(r)' => Pending(r),
         \A r \in Requests : work[r] = "value" => work'[r] = "value",
         conn' = "open" => /\ conn = "open"
                           /\ \A r \in Requests :
                                 /\ Pending(r) => Pending(r)'
                                 /\ Sent(r)' /\ ~InStream(r)' =>
                                       Sent(r) /\ ~InStream(r)
  PROVE  AnswerInv'
BY DEF AnswerInv, Answered

\* Decoding the first part of the stream.
LEMMA Popped ==
  ASSUME TypeOK, StreamInv, stream # << >>, stream' = Tail(stream), kind' = kind,
         current' = IF stream[1].part = "header" THEN stream[1].req ELSE current
  PROVE  /\ StreamInv'
         /\ \A r \in Requests : InStream(r)' <=>
               InStream(r) /\ ~(stream[1].part = "header" /\ r = stream[1].req)
<1>1. /\ DOMAIN stream = 1 .. Len(stream) /\ Len(stream) \in Nat \ {0}
      /\ DOMAIN stream' = 1 .. Len(stream) - 1 /\ Len(stream') = Len(stream) - 1
      /\ \A i \in 1 .. Len(stream) - 1 : /\ i + 1 \in DOMAIN stream
                                         /\ stream'[i] = stream[i + 1]
      /\ \A i \in DOMAIN stream : stream[i].req \in Senders
  <2>2. 1 \in DOMAIN stream
    BY Shorter
  <2>3. /\ DOMAIN stream' = 1 .. Len(stream) - 1 /\ Len(stream') = Len(stream) - 1
        /\ \A i \in 1 .. Len(stream) - 1 : stream'[i] = stream[i + 1]
    BY Shorter
  <2> QED  BY <2>2, <2>3, Parts
<1>2. ASSUME NEW i \in DOMAIN stream'
      PROVE  /\ kind[stream'[i].req] # "unsent"
             /\ stream'[i].part = "header" =>
                  /\ stream'[i].req \in Requests
                  /\ current' < stream'[i].req
                  /\ IF kind[stream'[i].req] = "half" THEN i = Len(stream')
                     ELSE i + 1 \in DOMAIN stream' /\
                          stream'[i + 1] = Part("body", stream'[i].req)
                  /\ \A j \in DOMAIN stream' :
                        stream'[j].part = "header" /\ i < j =>
                            stream'[i].req < stream'[j].req
  <2>1. i + 1 \in DOMAIN stream /\ stream'[i] = stream[i + 1] /\ 1 < i + 1
    BY <1>1, <1>2
  <2>2. kind[stream[i + 1].req] # "unsent"
    BY <2>1 DEF StreamInv
  <2>3. ASSUME stream[i + 1].part = "header"
        PROVE  /\ stream[i + 1].req \in Requests
               /\ current < stream[i + 1].req
               /\ IF kind[stream[i + 1].req] = "half" THEN i + 1 = Len(stream)
                  ELSE i + 2 \in DOMAIN stream /\
                       stream[i + 2] = Part("body", stream[i + 1].req)
               /\ \A j \in DOMAIN stream :
                     stream[j].part = "header" /\ i + 1 < j =>
                         stream[i + 1].req < stream[j].req
    BY <2>1, <2>3 DEF StreamInv
  <2>4. stream[1].part = "header" /\ stream[i + 1].part = "header" =>
           stream[1].req < stream[i + 1].req
    BY <1>1, <2>1 DEF StreamInv
  <2> QED  BY <1>1, <1>2, <2>1, <2>2, <2>3, <2>4
<1>3. ASSUME NEW r \in Requests
      PROVE  InStream(r)' <=>
               InStream(r) /\ ~(stream[1].part = "header" /\ r = stream[1].req)
  <2>1. ASSUME NEW i \in DOMAIN stream', stream'[i] = Part("header", r)
        PROVE  InStream(r) /\ ~(stream[1].part = "header" /\ r = stream[1].req)
    <3>1. i + 1 \in DOMAIN stream /\ stream[i + 1] = Part("header", r) /\ 1 < i + 1
      BY <1>1, <2>1
    <3>2. stream[1].part = "header" => stream[1].req < r
      <4>1. 1 \in DOMAIN stream
            /\ stream[i + 1].part = "header" /\ stream[i + 1].req = r
        BY <1>1, <3>1 DEF Part
      <4> QED  BY <3>1, <4>1 DEF StreamInv
    <3>3. InStream(r) /\ stream[1].req \in Nat /\ r \in Nat
      BY <1>1, <3>1 DEF InStream
    <3> QED  BY <3>2, <3>3
  <2>2. ASSUME NEW i \in DOMAIN stream, stream[i] = Part("header", r),
               ~(stream[1].part = "header" /\ r = stream[1].req)
        PROVE  InStream(r)'
    <3>1. i # 1
      BY <2>2 DEF Part
    <3>2. i - 1 \in DOMAIN stream' /\ stream'[i - 1] = stream[i]
      BY <1>1, <2>2, <3>1
    <3> QED  BY <2>2, <3>2 DEF InStream
  <2> QED  BY <2>1, <2>2 DEF InStream
<1> QED  BY <1>2, <1>3 DEF StreamInv

\* The stream behind a request the client sends.
LEMMA Extended ==
  ASSUME TypeOK, NEW r \in Requests, NEW tail,
         \/ tail = <<Part("header", r)>>
         \/ tail = <<Part("header", r), Part("body", r)>>
  PROVE  /\ stream \o tail \in
               Seq([part : {"options", "header", "body"}, req : Senders])
         /\ Len(stream \o tail) = Len(stream) + Len(tail)
         /\ DOMAIN (stream \o tail) = 1 .. Len(stream) + Len(tail)
         /\ \A i \in DOMAIN stream : (stream \o tail)[i] = stream[i]
         /\ (stream \o tail)[Len(stream) + 1] = Part("header", r)
         /\ Len(tail) = 2 => (stream \o tail)[Len(stream) + 2] = Part("body", r)
<1>1. stream \in Seq([part : {"options", "header", "body"}, req : Senders])
  BY DEF TypeOK
<1>2. /\ Part("header", r) \in [part : {"options", "header", "body"}, req : Senders]
      /\ Part("body", r) \in [part : {"options", "header", "body"}, req : Senders]
  BY DEF Part
<1> HIDE DEF Senders, Requests
<1>3. CASE tail = <<Part("header", r)>>
  BY <1>1, <1>2, <1>3
<1>4. CASE tail = <<Part("header", r), Part("body", r)>>
  BY <1>1, <1>2, <1>4
<1> QED  BY <1>3, <1>4

\* A request that the client sends is not read yet.
LEMMA SendAsksNothing ==
  ASSUME TypeOK, NEW k \in Kinds, NEW r \in Requests, Send(r, k)
  PROVE  \A q \in Requests :
            (Sent(q) /\ ~InStream(q))' <=> Sent(q) /\ ~InStream(q)
<1> DEFINE tail == IF k = "half" THEN <<Part("header", r)>>
                   ELSE <<Part("header", r), Part("body", r)>>
<1>1. /\ kind[r] = "unsent" /\ k # "unsent"
      /\ kind' = [kind EXCEPT ![r] = k] /\ stream' = stream \o tail
  BY DEF Send
<1>2. /\ Len(tail) \in {1, 2}
      /\ \/ tail = <<Part("header", r)>>
         \/ tail = <<Part("header", r), Part("body", r)>>
  OBVIOUS
<1> HIDE DEF tail
<1>3. /\ DOMAIN stream' = 1 .. Len(stream) + Len(tail)
      /\ \A i \in DOMAIN stream : stream'[i] = stream[i]
      /\ stream'[Len(stream) + 1] = Part("header", r)
      /\ Len(tail) = 2 => stream'[Len(stream) + 2] = Part("body", r)
      /\ DOMAIN stream = 1 .. Len(stream) /\ Len(stream) \in Nat
  BY <1>1, <1>2, Extended, Parts
<1>4. InStream(r)'
  <2>1. Len(stream) + 1 \in DOMAIN stream'
    <3>1. Len(stream) \in Nat
      BY <1>3
    <3>2. Len(tail) \in Nat /\ 1 <= Len(tail)
      BY <1>2
    <3>3. Len(stream) + 1 \in 1 .. Len(stream) + Len(tail)
      BY <3>1, <3>2
    <3> QED  BY <1>3, <3>3
  <2> QED  BY <1>3, <2>1 DEF InStream
<1>5. ASSUME NEW q \in Requests, InStream(q)  PROVE InStream(q)'
  BY <1>2, <1>3, <1>5 DEF InStream
<1>6. ASSUME NEW q \in Requests, q # r, InStream(q)'  PROVE InStream(q)
  <2>1. PICK i \in DOMAIN stream' : stream'[i] = Part("header", q)
    BY <1>6 DEF InStream
  <2>2. Part("header", q) \notin {Part("header", r), Part("body", r)}
    BY <1>6 DEF Part
  <2>3. Len(tail) = 1 => i \in DOMAIN stream
    BY <1>3, <2>1, <2>2
  <2>4. Len(tail) = 2 => i \in DOMAIN stream
    BY <1>3, <2>1, <2>2
  <2> QED  BY <1>2, <1>3, <2>1, <2>3, <2>4 DEF InStream
<1>7. ~Sent(r) /\ Sent(r)' /\ \A q \in Requests : q # r => (Sent(q)' <=> Sent(q))
  BY <1>1 DEF Sent, TypeOK
<1> QED  BY <1>4, <1>5, <1>6, <1>7

\* A header answers nobody.
LEMMA HeaderAnswersNobody ==
  ASSUME TypeOK, NEW p \in Senders, WriteHeader(p)
  PROVE  \A r \in Requests, o \in BOOLEAN : Answered(r, o)' <=> Answered(r, o)
<1>1. out' = IF conn = "open" THEN Append(out, Half("header", p)) ELSE out
  BY DEF WriteHeader, Emit
<1>2. CASE conn = "open"
  BY <1>1, <1>2, Longer DEF Answered, Half
<1>3. CASE conn # "open"
  BY <1>1, <1>3 DEF Answered
<1> QED  BY <1>2, <1>3

\* A body answers the request it is for.
LEMMA BodyAnswers ==
  ASSUME TypeOK, NEW p \in Senders, WriteBody(p)
  PROVE  \A r \in Requests, o \in BOOLEAN : Answered(r, o)' <=>
            Answered(r, o) \/ (conn = "open" /\ r = RequestOf(p) /\ o = ok[p])
<1>1. out' = IF conn = "open" THEN Append(out, Half("body", p)) ELSE out
  BY DEF WriteBody, Emit
<1>2. CASE conn = "open"
  <2>1. ASSUME NEW r \in Requests, NEW o \in BOOLEAN
        PROVE  Half("body", p) = [part |-> "body", req |-> r, ok |-> o] <=>
                  r = RequestOf(p) /\ o = ok[p]
    BY DEF Half
  <2>2. /\ DOMAIN out' = 1 .. Len(out) + 1 /\ DOMAIN out = 1 .. Len(out)
        /\ Len(out) \in Nat
        /\ out'[Len(out) + 1] = Half("body", p)
        /\ \A i \in 1 .. Len(out) : out'[i] = out[i]
    BY <1>1, <1>2, Longer
  <2> QED  BY <1>2, <2>1, <2>2 DEF Answered
<1>3. CASE conn # "open"
  BY <1>1, <1>3 DEF Answered
<1> QED  BY <1>2, <1>3

\* A request that the loop has come to was asked.
LEMMA ReadMeansAsked ==
  ASSUME IInv, NEW r \in Requests, r <= current \/ pc[r] # "none" \/ work[r] # "none"
  PROVE  Sent(r) /\ ~InStream(r)
<1>1. TypeOK /\ KindInv /\ StreamInv /\ LoopInv /\ HandlerInv
  BY DEF IInv
<1>2. r <= current /\ current \in Senders /\ r \in Senders
  BY <1>1 DEF HandlerInv, TypeOK
<1>3. kind[current] # "unsent"
  BY <1>1, <1>2 DEF LoopInv
<1>4. kind[r] # "unsent"
  BY <1>1, <1>2, <1>3 DEF KindInv
<1>5. ASSUME NEW i \in DOMAIN stream, stream[i] = Part("header", r)
      PROVE  FALSE
  <2>1. stream[i].part = "header" /\ stream[i].req = r
    BY <1>5 DEF Part
  <2>2. current < r
    BY <1>1, <2>1 DEF StreamInv
  <2> QED  BY <1>2, <2>2, NAssumption DEF Senders, Requests, Loop
<1> QED  BY <1>4, <1>5 DEF Sent, InStream

\* The first thing sent is the options, and the loop waits for them.
LEMMA SendOptionsKeeps ==
  ASSUME NEW k \in Kinds, IInv, SendOptions(k)
  PROVE  IInv'
<1>1. /\ TypeOK /\ KindInv /\ StreamInv /\ LoopInv /\ HandlerInv /\ EndInv
      /\ LockInv /\ AnswerInv /\ ResponsesWhole
  BY DEF IInv
<1>2. TypeOK'
  BY <1>1
     DEF SendOptions, Part, Kinds, clientVars, TypeOK, StreamInv, LoopInv,
         HandlerInv
<1>3. KindInv' /\ StreamInv'
  BY <1>1
     DEF SendOptions, Part, Kinds, clientVars, TypeOK, StreamInv, KindInv,
         LoopInv
<1>4. LoopInv'
  BY <1>1
     DEF SendOptions, Part, Kinds, clientVars, TypeOK, StreamInv, LoopInv,
         KindInv, HandlerInv
<1>5. HandlerInv' /\ EndInv'
  BY <1>1
     DEF SendOptions, Part, Kinds, clientVars, TypeOK, EndInv, LoopInv,
         HandlerInv
<1>6. LockInv'
  BY <1>1
     DEF SendOptions, Part, Kinds, clientVars, TypeOK, LockInv, LoopInv,
         EndInv, Half, RequestOf
<1>7. ResponsesWhole'
  BY <1>1
     DEF SendOptions, Part, Kinds, clientVars, TypeOK, LockInv, ResponsesWhole
<1>8. AnswerInv'
  BY <1>1, AnswersKept
     DEF SendOptions, Part, Kinds, clientVars, TypeOK, LoopInv, HandlerInv,
         AnswerInv, Pending, Answered, InStream, Sent, KindInv
<1> QED  BY <1>2, <1>3, <1>4, <1>5, <1>6, <1>7, <1>8 DEF IInv

\* The client sends no more.
LEMMA ClientEndsKeeps ==
  ASSUME IInv, ClientEnds
  PROVE  IInv'
<1>1. /\ TypeOK /\ KindInv /\ StreamInv /\ LoopInv /\ HandlerInv /\ EndInv
      /\ LockInv /\ AnswerInv /\ ResponsesWhole
  BY DEF IInv
<1>2. TypeOK'
  BY <1>1
     DEF ClientEnds, clientVars, TypeOK, StreamInv, LoopInv, HandlerInv, Part
<1>3. KindInv' /\ StreamInv'
  BY <1>1 DEF ClientEnds, clientVars, TypeOK, StreamInv, KindInv, LoopInv, Part
<1>4. LoopInv'
  BY <1>1
     DEF ClientEnds, clientVars, TypeOK, StreamInv, LoopInv, KindInv,
         HandlerInv, Part
<1>5. HandlerInv' /\ EndInv'
  BY <1>1 DEF ClientEnds, clientVars, TypeOK, EndInv, LoopInv, HandlerInv
<1>6. LockInv'
  BY <1>1
     DEF ClientEnds, clientVars, TypeOK, LockInv, LoopInv, EndInv, Half,
         RequestOf
<1>7. ResponsesWhole'
  BY <1>1 DEF ClientEnds, clientVars, TypeOK, LockInv, ResponsesWhole
<1>8. AnswerInv'
  BY <1>1, AnswersKept
     DEF ClientEnds, clientVars, TypeOK, LoopInv, HandlerInv, AnswerInv,
         Pending, Answered, InStream, Sent, KindInv
<1> QED  BY <1>2, <1>3, <1>4, <1>5, <1>6, <1>7, <1>8 DEF IInv

\* On a broken connection a header may stay without its body.
LEMMA ConnBreaksKeeps ==
  ASSUME IInv, ConnBreaks
  PROVE  IInv'
<1>1. /\ TypeOK /\ KindInv /\ StreamInv /\ LoopInv /\ HandlerInv /\ EndInv
      /\ LockInv /\ AnswerInv /\ ResponsesWhole
  BY DEF IInv
<1>2. TypeOK'
  BY <1>1
     DEF ConnBreaks, clientVars, TypeOK, StreamInv, LoopInv, HandlerInv, Part
<1>3. KindInv' /\ StreamInv'
  BY <1>1 DEF ConnBreaks, clientVars, TypeOK, StreamInv, KindInv, LoopInv, Part
<1>4. LoopInv'
  BY <1>1
     DEF ConnBreaks, clientVars, TypeOK, StreamInv, LoopInv, KindInv,
         HandlerInv, Part
<1>5. HandlerInv' /\ EndInv'
  BY <1>1 DEF ConnBreaks, clientVars, TypeOK, EndInv, LoopInv, HandlerInv
<1>6. LockInv'
  BY <1>1
     DEF ConnBreaks, clientVars, TypeOK, LockInv, LoopInv, EndInv, Half,
         RequestOf
<1>7. ResponsesWhole'
  BY <1>1 DEF ConnBreaks, clientVars, TypeOK, LockInv, ResponsesWhole
<1>8. AnswerInv'
  BY <1>1, AnswersKept
     DEF ConnBreaks, clientVars, TypeOK, LoopInv, HandlerInv, AnswerInv,
         Pending, Answered, InStream, Sent, KindInv
<1> QED  BY <1>2, <1>3, <1>4, <1>5, <1>6, <1>7, <1>8 DEF IInv

\* Before the options are read there is no handler.
LEMMA RejectOptionsKeeps ==
  ASSUME IInv, RejectOptions
  PROVE  IInv'
<1>1. /\ TypeOK /\ KindInv /\ StreamInv /\ LoopInv /\ HandlerInv /\ EndInv
      /\ LockInv /\ AnswerInv /\ ResponsesWhole
  BY DEF IInv
<1>2. TypeOK'
  BY <1>1
     DEF RejectOptions, clientVars, TypeOK, StreamInv, LoopInv, HandlerInv,
         Part
<1>3. KindInv' /\ StreamInv'
  BY <1>1
     DEF RejectOptions, clientVars, TypeOK, StreamInv, KindInv, LoopInv, Part
<1>4. LoopInv'
  BY <1>1
     DEF RejectOptions, clientVars, TypeOK, StreamInv, LoopInv, KindInv,
         HandlerInv, Part
<1>5. HandlerInv' /\ EndInv'
  BY <1>1 DEF RejectOptions, clientVars, TypeOK, EndInv, LoopInv, HandlerInv
<1>6. LockInv'
  BY <1>1
     DEF RejectOptions, clientVars, TypeOK, LockInv, LoopInv, EndInv, Half,
         RequestOf
<1>7. ResponsesWhole'
  BY <1>1 DEF RejectOptions, clientVars, TypeOK, LockInv, ResponsesWhole
<1>8. AnswerInv'
  BY <1>1, AnswersKept
     DEF RejectOptions, clientVars, TypeOK, LoopInv, HandlerInv, AnswerInv,
         Pending, Answered, InStream, Sent, KindInv
<1> QED  BY <1>2, <1>3, <1>4, <1>5, <1>6, <1>7, <1>8 DEF IInv

\* The loop reads no more.
LEMMA HeaderFailsKeeps ==
  ASSUME IInv, HeaderFails
  PROVE  IInv'
<1>1. /\ TypeOK /\ KindInv /\ StreamInv /\ LoopInv /\ HandlerInv /\ EndInv
      /\ LockInv /\ AnswerInv /\ ResponsesWhole
  BY DEF IInv
<1>2. TypeOK'
  BY <1>1
     DEF HeaderFails, clientVars, TypeOK, StreamInv, LoopInv, HandlerInv, Part
<1>3. KindInv' /\ StreamInv'
  BY <1>1 DEF HeaderFails, clientVars, TypeOK, StreamInv, KindInv, LoopInv, Part
<1>4. LoopInv'
  BY <1>1
     DEF HeaderFails, clientVars, TypeOK, StreamInv, LoopInv, KindInv,
         HandlerInv, Part
<1>5. HandlerInv' /\ EndInv'
  BY <1>1 DEF HeaderFails, clientVars, TypeOK, EndInv, LoopInv, HandlerInv
<1>6. LockInv'
  BY <1>1
     DEF HeaderFails, clientVars, TypeOK, LockInv, LoopInv, EndInv, Half,
         RequestOf
<1>7. ResponsesWhole'
  BY <1>1 DEF HeaderFails, clientVars, TypeOK, LockInv, ResponsesWhole
<1>8. AnswerInv'
  BY <1>1, AnswersKept
     DEF HeaderFails, clientVars, TypeOK, LoopInv, HandlerInv, AnswerInv,
         Pending, Answered, InStream, Sent, KindInv
<1> QED  BY <1>2, <1>3, <1>4, <1>5, <1>6, <1>7, <1>8 DEF IInv

\* All handlers have sent their responses when the loop closes.
LEMMA EndConnKeeps ==
  ASSUME IInv, EndConn
  PROVE  IInv'
<1>1. /\ TypeOK /\ KindInv /\ StreamInv /\ LoopInv /\ HandlerInv /\ EndInv
      /\ LockInv /\ AnswerInv /\ ResponsesWhole
  BY DEF IInv
<1>2. TypeOK'
  BY <1>1
     DEF EndConn, AllHandled, clientVars, TypeOK, StreamInv, LoopInv,
         HandlerInv, Part
<1>3. KindInv' /\ StreamInv'
  BY <1>1
     DEF EndConn, AllHandled, clientVars, TypeOK, StreamInv, KindInv, LoopInv,
         Part
<1>4. LoopInv'
  BY <1>1
     DEF EndConn, AllHandled, clientVars, TypeOK, StreamInv, LoopInv, KindInv,
         HandlerInv, Part
<1>5. HandlerInv' /\ EndInv'
  BY <1>1
     DEF EndConn, AllHandled, clientVars, TypeOK, EndInv, LoopInv, HandlerInv
<1>6. LockInv'
  BY <1>1
     DEF EndConn, AllHandled, clientVars, TypeOK, LockInv, LoopInv, EndInv,
         Half, RequestOf
<1>7. ResponsesWhole'
  BY <1>1 DEF EndConn, AllHandled, clientVars, TypeOK, LockInv, ResponsesWhole
<1>8. AnswerInv'
  BY <1>1, AnswersKept
     DEF EndConn, AllHandled, clientVars, TypeOK, LoopInv, HandlerInv,
         AnswerInv, Pending, Answered, InStream, Sent, KindInv
<1> QED  BY <1>2, <1>3, <1>4, <1>5, <1>6, <1>7, <1>8 DEF IInv

\* A result that is an outcome stays one: methods return once.
LEMMA ReturnKeeps ==
  ASSUME NEW r \in Requests, NEW o \in {"value", "error"}, IInv, Return(r, o)
  PROVE  IInv'
<1>1. /\ TypeOK /\ KindInv /\ StreamInv /\ LoopInv /\ HandlerInv /\ EndInv
      /\ LockInv /\ AnswerInv /\ ResponsesWhole
  BY DEF IInv
<1>2. TypeOK'
  BY <1>1 DEF Return, clientVars, TypeOK, StreamInv, LoopInv, HandlerInv, Part
<1>3. KindInv' /\ StreamInv'
  BY <1>1 DEF Return, clientVars, TypeOK, StreamInv, KindInv, LoopInv, Part
<1>4. LoopInv'
  BY <1>1
     DEF Return, clientVars, TypeOK, StreamInv, LoopInv, KindInv, HandlerInv,
         Part
<1>5. HandlerInv' /\ EndInv'
  BY <1>1 DEF Return, clientVars, TypeOK, EndInv, LoopInv, HandlerInv
<1>6. LockInv'
  BY <1>1
     DEF Return, clientVars, TypeOK, LockInv, LoopInv, EndInv, Half, RequestOf
<1>7. ResponsesWhole'
  BY <1>1 DEF Return, clientVars, TypeOK, LockInv, ResponsesWhole
<1>8. AnswerInv'
  BY <1>1, AnswersKept
     DEF Return, clientVars, TypeOK, LoopInv, HandlerInv, AnswerInv, Pending,
         Answered, InStream, Sent, KindInv
<1> QED  BY <1>2, <1>3, <1>4, <1>5, <1>6, <1>7, <1>8 DEF IInv

\* A handler has the result of the method,
LEMMA RespondKeeps ==
  ASSUME NEW r \in Requests, IInv, Respond(r)
  PROVE  IInv'
<1>1. /\ TypeOK /\ KindInv /\ StreamInv /\ LoopInv /\ HandlerInv /\ EndInv
      /\ LockInv /\ AnswerInv /\ ResponsesWhole
  BY DEF IInv
<1>2. TypeOK'
  BY <1>1
     DEF Respond, Called, clientVars, TypeOK, StreamInv, LoopInv, HandlerInv,
         Part
<1>3. KindInv' /\ StreamInv'
  BY <1>1
     DEF Respond, Called, clientVars, TypeOK, StreamInv, KindInv, LoopInv,
         Part
<1>4. LoopInv'
  BY <1>1
     DEF Respond, Called, clientVars, TypeOK, StreamInv, LoopInv, KindInv,
         HandlerInv, Part
<1>5. HandlerInv' /\ EndInv'
  BY <1>1 DEF Respond, Called, clientVars, TypeOK, EndInv, LoopInv, HandlerInv
<1>6. LockInv'
  BY <1>1
     DEF Respond, Called, clientVars, TypeOK, LockInv, LoopInv, EndInv, Half,
         RequestOf
<1>7. ResponsesWhole'
  BY <1>1 DEF Respond, Called, clientVars, TypeOK, LockInv, ResponsesWhole
<1>8. AnswerInv'
  BY <1>1, AnswersKept
     DEF Respond, Called, clientVars, TypeOK, LoopInv, HandlerInv, AnswerInv,
         Pending, Answered, InStream, Sent, KindInv
<1> QED  BY <1>2, <1>3, <1>4, <1>5, <1>6, <1>7, <1>8 DEF IInv

\* or gives up waiting for it: it goes on to answer in either case once.
LEMMA TimerFiresKeeps ==
  ASSUME NEW r \in Requests, IInv, TimerFires(r)
  PROVE  IInv'
<1>1. /\ TypeOK /\ KindInv /\ StreamInv /\ LoopInv /\ HandlerInv /\ EndInv
      /\ LockInv /\ AnswerInv /\ ResponsesWhole
  BY DEF IInv
<1>2. TypeOK'
  BY <1>1
     DEF TimerFires, clientVars, TypeOK, StreamInv, LoopInv, HandlerInv, Part
<1>3. KindInv' /\ StreamInv'
  BY <1>1 DEF TimerFires, clientVars, TypeOK, StreamInv, KindInv, LoopInv, Part
<1>4. LoopInv'
  BY <1>1
     DEF TimerFires, clientVars, TypeOK, StreamInv, LoopInv, KindInv,
         HandlerInv, Part
<1>5. HandlerInv' /\ EndInv'
  BY <1>1 DEF TimerFires, clientVars, TypeOK, EndInv, LoopInv, HandlerInv
<1>6. LockInv'
  BY <1>1
     DEF TimerFires, clientVars, TypeOK, LockInv, LoopInv, EndInv, Half,
         RequestOf
<1>7. ResponsesWhole'
  BY <1>1 DEF TimerFires, clientVars, TypeOK, LockInv, ResponsesWhole
<1>8. AnswerInv'
  BY <1>1, AnswersKept
     DEF TimerFires, clientVars, TypeOK, LoopInv, HandlerInv, AnswerInv,
         Pending, Answered, InStream, Sent, KindInv
<1> QED  BY <1>2, <1>3, <1>4, <1>5, <1>6, <1>7, <1>8 DEF IInv

\* The mutex is free: all responses are complete.
LEMMA LockKeeps ==
  ASSUME NEW p \in Senders, IInv, Lock(p)
  PROVE  IInv'
<1>1. /\ TypeOK /\ KindInv /\ StreamInv /\ LoopInv /\ HandlerInv /\ EndInv
      /\ LockInv /\ AnswerInv /\ ResponsesWhole
  BY DEF IInv
<1>2. TypeOK'
  BY <1>1
     DEF Lock, Free, clientVars, TypeOK, StreamInv, LoopInv, HandlerInv, Part
<1>3. KindInv' /\ StreamInv'
  BY <1>1 DEF Lock, Free, clientVars, TypeOK, StreamInv, KindInv, LoopInv, Part
<1>4. LoopInv'
  BY <1>1
     DEF Lock, Free, clientVars, TypeOK, StreamInv, LoopInv, KindInv,
         HandlerInv, Part
<1>5. HandlerInv' /\ EndInv'
  BY <1>1 DEF Lock, Free, clientVars, TypeOK, EndInv, LoopInv, HandlerInv
<1>6. LockInv'
  BY <1>1
     DEF Lock, Free, clientVars, TypeOK, LockInv, LoopInv, EndInv, Half,
         RequestOf
<1>7. ResponsesWhole'
  BY <1>1 DEF Lock, Free, clientVars, TypeOK, LockInv, ResponsesWhole
<1>8. AnswerInv'
  BY <1>1, AnswersKept
     DEF Lock, Free, clientVars, TypeOK, LoopInv, HandlerInv, AnswerInv,
         Pending, Answered, InStream, Sent, KindInv
<1> QED  BY <1>2, <1>3, <1>4, <1>5, <1>6, <1>7, <1>8 DEF IInv

\* The codec is closed behind a header without a body.
LEMMA EncodeFailsKeeps ==
  ASSUME NEW p \in Senders, IInv, EncodeFails(p)
  PROVE  IInv'
<1>1. /\ TypeOK /\ KindInv /\ StreamInv /\ LoopInv /\ HandlerInv /\ EndInv
      /\ LockInv /\ AnswerInv /\ ResponsesWhole
  BY DEF IInv
<1>2. TypeOK'
  BY <1>1
     DEF EncodeFails, clientVars, TypeOK, StreamInv, LoopInv, HandlerInv, Part
<1>3. KindInv' /\ StreamInv'
  BY <1>1 DEF EncodeFails, clientVars, TypeOK, StreamInv, KindInv, LoopInv, Part
<1>4. LoopInv'
  BY <1>1
     DEF EncodeFails, clientVars, TypeOK, StreamInv, LoopInv, KindInv,
         HandlerInv, Part
<1>5. HandlerInv' /\ EndInv'
  BY <1>1 DEF EncodeFails, clientVars, TypeOK, EndInv, LoopInv, HandlerInv
<1>6. LockInv'
  BY <1>1
     DEF EncodeFails, clientVars, TypeOK, LockInv, LoopInv, EndInv, Half,
         RequestOf
<1>7. ResponsesWhole'
  BY <1>1 DEF EncodeFails, clientVars, TypeOK, LockInv, ResponsesWhole
<1>8. AnswerInv'
  BY <1>1, AnswersKept
     DEF EncodeFails, clientVars, TypeOK, LoopInv, HandlerInv, AnswerInv,
         Pending, Answered, InStream, Sent, KindInv
<1> QED  BY <1>2, <1>3, <1>4, <1>5, <1>6, <1>7, <1>8 DEF IInv

\* The holder has sent both halves, or the connection is gone.
LEMMA UnlockKeeps ==
  ASSUME NEW p \in Senders, IInv, Unlock(p)
  PROVE  IInv'
<1>1. /\ TypeOK /\ KindInv /\ StreamInv /\ LoopInv /\ HandlerInv /\ EndInv
      /\ LockInv /\ AnswerInv /\ ResponsesWhole
  BY DEF IInv
<1>2. TypeOK'
  BY <1>1 DEF Unlock, clientVars, TypeOK, StreamInv, LoopInv, HandlerInv, Part
<1>3. KindInv' /\ StreamInv'
  BY <1>1 DEF Unlock, clientVars, TypeOK, StreamInv, KindInv, LoopInv, Part
<1>4. LoopInv'
  BY <1>1
     DEF Unlock, clientVars, TypeOK, StreamInv, LoopInv, KindInv, HandlerInv,
         Part
<1>5. HandlerInv' /\ EndInv'
  BY <1>1 DEF Unlock, clientVars, TypeOK, EndInv, LoopInv, HandlerInv
<1>6. LockInv'
  BY <1>1
     DEF Unlock, clientVars, TypeOK, LockInv, LoopInv, EndInv, Half, RequestOf
<1>7. ResponsesWhole'
  BY <1>1 DEF Unlock, clientVars, TypeOK, LockInv, ResponsesWhole
<1>8. AnswerInv'
  BY <1>1, AnswersKept
     DEF Unlock, clientVars, TypeOK, LoopInv, HandlerInv, AnswerInv, Pending,
         Answered, InStream, Sent, KindInv
<1> QED  BY <1>2, <1>3, <1>4, <1>5, <1>6, <1>7, <1>8 DEF IInv

\* A request is sent behind all others, with a greater number.
LEMMA SendKeeps ==
  ASSUME NEW k \in Kinds, NEW r \in Requests, IInv, Send(r, k)
  PROVE  IInv'
<1> DEFINE tail == IF k = "half" THEN <<Part("header", r)>>
                   ELSE <<Part("header", r), Part("body", r)>>
<1>1. /\ TypeOK /\ KindInv /\ StreamInv /\ LoopInv /\ HandlerInv /\ EndInv
      /\ LockInv /\ AnswerInv /\ ResponsesWhole
  BY DEF IInv
<1>2. /\ ~eof /\ kind[r - 1] # "unsent" /\ kind[r] = "unsent" /\ k # "unsent"
      /\ kind' = [kind EXCEPT ![r] = k] /\ stream' = stream \o tail
      /\ eof' = (k = "half")
      /\ UNCHANGED <<timeout, conn, pc, current, work, ok, sending, out>>
  BY DEF Send
<1>3. /\ Len(tail) = IF k = "half" THEN 1 ELSE 2
      /\ \/ tail = <<Part("header", r)>>
         \/ tail = <<Part("header", r), Part("body", r)>>
  OBVIOUS
<1> HIDE DEF tail
<1>4. /\ Len(stream') = Len(stream) + Len(tail)
      /\ DOMAIN stream' = 1 .. Len(stream) + Len(tail)
      /\ \A i \in DOMAIN stream : stream'[i] = stream[i]
      /\ stream'[Len(stream) + 1] = Part("header", r)
      /\ k # "half" => stream'[Len(stream) + 2] = Part("body", r)
      /\ stream' \in Seq([part : {"options", "header", "body"}, req : Senders])
  BY <1>1, <1>2, <1>3, Extended
<1>5. /\ DOMAIN stream = 1 .. Len(stream) /\ Len(stream) \in Nat
      /\ \A i \in DOMAIN stream : stream[i].req \in Senders
  BY <1>1, Parts
<1>6. \A q \in Senders : kind[q] # "unsent" => q < r /\ kind'[q] = kind[q]
  BY <1>1, <1>2 DEF KindInv, TypeOK
<1>7. TypeOK'
  BY <1>1, <1>2, <1>4 DEF TypeOK
<1>8. KindInv'
  <2>1. ASSUME NEW b \in Senders, NEW a \in Senders, a < b, kind'[b] # "unsent"
        PROVE  kind'[a] # "unsent"
    <3>1. r - 1 \in Senders /\ (b = r => a = r - 1 \/ a < r - 1)
      BY <2>1
    <3>2. b = r \/ (b < r /\ kind[b] # "unsent")
      BY <1>1, <1>2, <1>6, <2>1 DEF TypeOK
    <3>3. kind[a] # "unsent"
      BY <1>1, <1>2, <2>1, <3>1, <3>2 DEF KindInv
    <3> QED  BY <1>6, <3>3
  <2>2. \A q \in Requests : kind'[q] = "half" => eof'
    BY <1>1, <1>2 DEF KindInv, TypeOK
  <2> QED  BY <2>1, <2>2 DEF KindInv
<1>9. StreamInv'
  <2>1. ASSUME NEW i \in DOMAIN stream
        PROVE  /\ kind'[stream'[i].req] # "unsent"
               /\ stream'[i].part = "header" =>
                    /\ stream'[i].req \in Requests
                    /\ current' < stream'[i].req
                    /\ IF kind'[stream'[i].req] = "half" THEN i = Len(stream')
                       ELSE i + 1 \in DOMAIN stream' /\
                            stream'[i + 1] = Part("body", stream'[i].req)
                    /\ \A j \in DOMAIN stream' :
                          stream'[j].part = "header" /\ i < j =>
                              stream'[i].req < stream'[j].req
    <3>1. /\ stream'[i] = stream[i] /\ kind[stream[i].req] # "unsent"
          /\ kind'[stream[i].req] = kind[stream[i].req] /\ stream[i].req < r
      BY <1>1, <1>4, <1>5, <1>6, <2>1 DEF StreamInv
    <3>2. ASSUME stream[i].part = "header"
          PROVE  /\ stream[i].req \in Requests /\ current < stream[i].req
                 /\ kind[stream[i].req] # "half"
                 /\ i + 1 \in DOMAIN stream
                 /\ stream[i + 1] = Part("body", stream[i].req)
                 /\ \A j \in DOMAIN stream :
                       stream[j].part = "header" /\ i < j =>
                           stream[i].req < stream[j].req
      BY <1>1, <1>2, <2>1, <3>2 DEF StreamInv, KindInv
    <3>3. ASSUME NEW j \in DOMAIN stream', j \notin DOMAIN stream,
                 stream'[j].part = "header"
          PROVE  stream'[j].req = r
      BY <1>3, <1>4, <1>5, <3>3 DEF Part
    <3> QED  BY <1>2, <1>4, <1>5, <3>1, <3>2, <3>3
  <2>2. ASSUME NEW i \in DOMAIN stream', i \notin DOMAIN stream
        PROVE  /\ stream'[i].req = r
               /\ stream'[i].part = "header" => i = Len(stream) + 1
    BY <1>3, <1>4, <1>5, <2>2 DEF Part
  <2>3. current < r /\ kind'[r] = k
    BY <1>1, <1>2, <1>6 DEF LoopInv, TypeOK
  <2>4. ASSUME NEW i \in DOMAIN stream', i \notin DOMAIN stream
        PROVE  /\ kind'[stream'[i].req] # "unsent"
               /\ stream'[i].part = "header" =>
                    /\ stream'[i].req \in Requests
                    /\ current' < stream'[i].req
                    /\ IF kind'[stream'[i].req] = "half" THEN i = Len(stream')
                       ELSE i + 1 \in DOMAIN stream' /\
                            stream'[i + 1] = Part("body", stream'[i].req)
                    /\ \A j \in DOMAIN stream' :
                          stream'[j].part = "header" /\ i < j =>
                              stream'[i].req < stream'[j].req
    BY <1>2, <1>3, <1>4, <1>5, <2>2, <2>3, <2>4 DEF Part
  <2> QED  BY <2>1, <2>4 DEF StreamInv
<1>10. LoopInv'
  BY <1>1, <1>2, <1>4, <1>5, <1>6 DEF LoopInv, TypeOK, Part
<1>11. HandlerInv' /\ EndInv' /\ LockInv' /\ ResponsesWhole'
  BY <1>1, <1>2
     DEF HandlerInv, EndInv, LockInv, ResponsesWhole, Half, RequestOf
<1>12. AnswerInv'
  <2>1. \A q \in Requests : (Sent(q) /\ ~InStream(q))' => Sent(q) /\ ~InStream(q)
    BY <1>1, SendAsksNothing
  <2>2. \A q \in Requests : Pending(q)' <=> Pending(q)
    BY <1>2 DEF Pending
  <2> QED  BY <1>1, <1>2, <2>1, <2>2, AnswersKept
<1> QED  BY <1>7, <1>8, <1>9, <1>10, <1>11, <1>12 DEF IInv


\* The options are out of the stream, and requests are left.
LEMMA ReadOptionsKeeps ==
  ASSUME IInv, ReadOptions
  PROVE  IInv'
<1>1. /\ TypeOK /\ KindInv /\ StreamInv /\ LoopInv /\ HandlerInv /\ EndInv
      /\ LockInv /\ AnswerInv /\ ResponsesWhole
  BY DEF IInv
<1>2. /\ stream # << >> /\ stream' = Tail(stream) /\ pc[Loop] = "options"
      /\ pc' = [pc EXCEPT ![Loop] = "read"]
      /\ UNCHANGED <<kind, timeout, eof, conn, current, work, ok, sending, out>>
  BY DEF ReadOptions, clientVars
<1>3. stream[1].part = "options" /\ current = 0
  <2>1. kind[0] # "unsent"
    BY DEF ReadOptions, Acceptable
  <2> QED  BY <1>1, <1>2, <2>1 DEF LoopInv
<1>4. StreamInv' /\ \A r \in Requests : InStream(r)' <=> InStream(r)
  BY <1>1, <1>2, <1>3, Popped
<1>5. TypeOK' /\ KindInv' /\ LoopInv' /\ HandlerInv' /\ EndInv' /\ LockInv'
      /\ ResponsesWhole'
  BY <1>1, <1>2, Shorter
     DEF TypeOK, KindInv, LoopInv, HandlerInv, EndInv, LockInv, ResponsesWhole,
         Half, RequestOf
<1>6. AnswerInv'
  <2>1. \A r \in Requests : Pending(r)' <=> Pending(r)
    BY <1>1, <1>2 DEF Pending, TypeOK
  <2> QED  BY <1>1, <1>2, <1>4, <2>1, AnswersKept DEF Sent
<1> QED  BY <1>1, <1>4, <1>5, <1>6 DEF IInv

\* The request read is greater than all before it, and has no handler yet.
LEMMA ReadHeaderKeeps ==
  ASSUME IInv, ReadHeader
  PROVE  IInv'
<1> DEFINE r == stream[1].req
<1>1. /\ TypeOK /\ KindInv /\ StreamInv /\ LoopInv /\ HandlerInv /\ EndInv
      /\ LockInv /\ AnswerInv /\ ResponsesWhole
  BY DEF IInv
<1>2. /\ stream # << >> /\ stream' = Tail(stream) /\ stream[1].part = "header"
      /\ current' = r /\ pc[Loop] = "read"
      /\ IF kind[r] = "unknown"
         THEN /\ pc' = [pc EXCEPT ![Loop] = "lock"]
              /\ ok' = [ok EXCEPT ![Loop] = FALSE]
         ELSE pc' = [pc EXCEPT ![Loop] = "body"] /\ ok' = ok
      /\ UNCHANGED <<kind, timeout, eof, conn, work, sending, out>>
  BY <1>1, Shorter DEF ReadHeader, NextPart, clientVars
<1>3. /\ r \in Requests /\ current < r /\ kind[r] # "unsent" /\ current \in Senders
      /\ IF kind[r] = "half" THEN Len(stream) = 1
         ELSE 2 \in DOMAIN stream /\ stream[2] = Part("body", r)
  <2>1. 1 \in DOMAIN stream
    BY <1>1, <1>2, Shorter
  <2>2. /\ kind[r] # "unsent" /\ r \in Requests /\ current < r
        /\ IF kind[r] = "half" THEN 1 = Len(stream)
           ELSE 1 + 1 \in DOMAIN stream /\ stream[1 + 1] = Part("body", r)
    BY <1>1, <1>2, <2>1 DEF StreamInv
  <2>3. current \in Senders
    BY <1>1 DEF TypeOK
  <2> QED  BY <2>2, <2>3
<1> HIDE DEF r
<1>4. StreamInv' /\ \A q \in Requests : InStream(q)' <=> InStream(q) /\ q # r
  BY <1>1, <1>2, Popped DEF r
<1>5. pc[r] = "none"
  BY <1>1, <1>3 DEF HandlerInv
<1>6. TypeOK'
  BY <1>1, <1>2, <1>3, Shorter DEF TypeOK
<1>7. LoopInv'
  <2>1. IF kind[r] = "half" THEN stream' = << >> ELSE
        stream' # << >> /\ stream'[1] = Part("body", r)
    BY <1>1, <1>2, <1>3, Shorter, Parts
  <2>2. kind[r] = "half" => eof
    BY <1>1, <1>3 DEF KindInv
  <2> QED  BY <1>1, <1>2, <1>3, <1>5, <2>1, <2>2 DEF LoopInv, TypeOK
<1>8. /\ sending # Loop
      /\ pc'[Loop] \in {"lock", "body"}
      /\ \A q \in Requests : pc'[q] = pc[q] /\ ok'[q] = ok[q]
  <2>1. sending # Loop
    BY <1>1, <1>2 DEF LockInv
  <2>2. /\ DOMAIN pc = Senders /\ DOMAIN ok = Senders
    BY <1>1 DEF TypeOK
  <2> QED  BY <1>2, <2>1, <2>2
<1>9. KindInv' /\ HandlerInv' /\ EndInv' /\ LockInv' /\ ResponsesWhole'
  <2>1. KindInv' /\ EndInv'
    BY <1>1, <1>2 DEF KindInv, EndInv, TypeOK
  <2>2. HandlerInv'
    <3>1. current' = r /\ work' = work /\ current \in Nat
      BY <1>2, <1>3
    <3>2. \A q \in Requests : pc'[q] = pc[q] /\ ok'[q] = ok[q]
      BY <1>8
    <3>3. \A q \in Requests : q <= current => q <= r
      BY <1>3
    <3> QED  BY <1>1, <3>1, <3>2, <3>3 DEF HandlerInv
  <2>3. ResponsesWhole'
    BY <1>1, <1>2 DEF ResponsesWhole
  <2>4. LockInv'
    BY <1>1, <1>2, <1>8 DEF LockInv, TypeOK, Half, RequestOf
  <2> QED  BY <2>1, <2>2, <2>3, <2>4
<1>10. AnswerInv'
  <2>1. \A q \in Requests, o \in BOOLEAN : Answered(q, o)' <=> Answered(q, o)
    BY <1>2 DEF Answered
  <2>2. \A q \in Requests : Pending(q)' <=> Pending(q) \/ q = r
    <3>1. /\ pc[Loop] \notin {"body"} \cup Unanswered
          /\ pc'[Loop] \in {"body"} \cup Unanswered
          /\ \A q \in Requests : pc'[q] = pc[q]
      BY <1>2, <1>8
    <3> QED  BY <1>2, <3>1 DEF Pending
  <2>3. \A q \in Requests : (Sent(q) /\ ~InStream(q))' =>
           q = r \/ (Sent(q) /\ ~InStream(q))
    BY <1>2, <1>4 DEF Sent
  <2>4. \A q \in Requests, o \in BOOLEAN : Answered(q, o) => q # r /\ q <= current'
    BY <1>1, <1>2, <1>3 DEF AnswerInv
  <2> QED  BY <1>1, <1>2, <2>1, <2>2, <2>3, <2>4 DEF AnswerInv
<1> QED  BY <1>4, <1>6, <1>7, <1>9, <1>10 DEF IInv


\* The request goes to a handler of its own.
LEMMA ReadBodyKeeps ==
  ASSUME IInv, ReadBody
  PROVE  IInv'
<1>1. /\ TypeOK /\ KindInv /\ StreamInv /\ LoopInv /\ HandlerInv /\ EndInv
      /\ LockInv /\ AnswerInv /\ ResponsesWhole
  BY DEF IInv
<1>2. /\ stream # << >> /\ stream' = Tail(stream) /\ pc[Loop] = "body"
      /\ pc' = [pc EXCEPT ![Loop] = "read", ![current] = "call"]
      /\ work' = [work EXCEPT ![current] = "running"]
      /\ UNCHANGED <<kind, timeout, eof, conn, current, ok, sending, out>>
  BY DEF ReadBody, clientVars
<1>3. /\ current \in Requests /\ pc[current] = "none"
      /\ stream[1] = Part("body", current)
  BY <1>1, <1>2 DEF LoopInv
<1>4. StreamInv' /\ \A r \in Requests : InStream(r)' <=> InStream(r)
  BY <1>1, <1>2, <1>3, Popped DEF Part
<1>5. /\ pc'[Loop] = "read" /\ pc'[current] = "call"
      /\ work[current] = "none" /\ work'[current] = "running"
      /\ \A r \in Requests : r # current => pc'[r] = pc[r] /\ work'[r] = work[r]
  BY <1>1, <1>2, <1>3 DEF TypeOK, HandlerInv
<1>6. TypeOK'
  BY <1>1, <1>2, <1>3, <1>5, Shorter DEF TypeOK
<1>7. KindInv' /\ LoopInv' /\ EndInv'
  BY <1>1, <1>2, <1>5 DEF KindInv, LoopInv, EndInv
<1>8. HandlerInv'
  <2>1. ok' = ok /\ current' = current
    BY <1>2
  <2>2. ASSUME NEW r \in Requests, r # current
        PROVE  pc'[r] = pc[r] /\ work'[r] = work[r]
    BY <1>5, <2>2
  <2> QED  BY <1>1, <1>3, <1>5, <2>1, <2>2 DEF HandlerInv
<1>9. LockInv' /\ ResponsesWhole'
  <2>1. sending # Loop /\ sending # current
    BY <1>1, <1>2, <1>3 DEF LockInv
  <2>2. sending # None => pc'[sending] = pc[sending]
    BY <1>1, <1>5, <2>1 DEF TypeOK
  <2> QED  BY <1>1, <1>2, <2>2 DEF LockInv, ResponsesWhole, Half, RequestOf
<1>10. AnswerInv'
  <2>1. \A r \in Requests : Pending(r)' <=> Pending(r)
    BY <1>2, <1>3, <1>5 DEF Pending
  <2>2. \A r \in Requests : work[r] = "value" => work'[r] = "value"
    BY <1>5
  <2> QED  BY <1>1, <1>2, <1>4, <2>1, <2>2, AnswersKept DEF Sent
<1> QED  BY <1>4, <1>6, <1>7, <1>8, <1>9, <1>10 DEF IInv

\* The loop answers the request itself.
LEMMA BodyFailsKeeps ==
  ASSUME IInv, BodyFails
  PROVE  IInv'
<1>1. /\ TypeOK /\ KindInv /\ StreamInv /\ LoopInv /\ HandlerInv /\ EndInv
      /\ LockInv /\ AnswerInv /\ ResponsesWhole
  BY DEF IInv
<1>2. /\ stream' = stream \/ (stream # << >> /\ stream' = Tail(stream))
      /\ pc[Loop] = "body" /\ pc' = [pc EXCEPT ![Loop] = "lock"]
      /\ ok' = [ok EXCEPT ![Loop] = FALSE]
      /\ UNCHANGED <<kind, timeout, eof, conn, current, work, sending, out>>
  BY DEF BodyFails, clientVars, AfterError
<1>3. stream # << >> => stream[1] = Part("body", current)
  BY <1>1, <1>2 DEF LoopInv
<1>4. StreamInv' /\ \A r \in Requests : InStream(r)' <=> InStream(r)
  <2>1. CASE stream' = stream
    BY <1>1, <1>2, <2>1 DEF StreamInv, InStream
  <2>2. CASE stream # << >> /\ stream' = Tail(stream)
    BY <1>1, <1>2, <1>3, <2>2, Popped DEF Part
  <2> QED  BY <1>2, <2>1, <2>2
<1>5. /\ pc'[Loop] = "lock" /\ ~ok'[Loop] /\ sending # Loop
      /\ \A r \in Requests : pc'[r] = pc[r] /\ ok'[r] = ok[r]
  <2>1. sending # Loop
    BY <1>1, <1>2 DEF LockInv
  <2>2. DOMAIN pc = Senders /\ DOMAIN ok = Senders
    BY <1>1 DEF TypeOK
  <2> QED  BY <1>2, <2>1, <2>2
<1>6. TypeOK'
  BY <1>1, <1>2, <1>5, Shorter DEF TypeOK
<1>7. KindInv' /\ LoopInv' /\ EndInv' /\ HandlerInv'
  BY <1>1, <1>2, <1>5 DEF KindInv, LoopInv, EndInv, HandlerInv
<1>8. LockInv' /\ ResponsesWhole'
  BY <1>1, <1>2, <1>5 DEF LockInv, ResponsesWhole, TypeOK, Half, RequestOf
<1>9. AnswerInv'
  <2>1. \A r \in Requests : Pending(r)' <=> Pending(r)
    BY <1>2, <1>5 DEF Pending
  <2> QED  BY <1>1, <1>2, <1>4, <2>1, AnswersKept DEF Sent
<1> QED  BY <1>4, <1>6, <1>7, <1>8, <1>9 DEF IInv

\* Half a response more: of the halves before it nothing changes.
LEMMA WriteHeaderKeeps ==
  ASSUME NEW p \in Senders, IInv, WriteHeader(p)
  PROVE  IInv'
<1>1. /\ TypeOK /\ KindInv /\ StreamInv /\ LoopInv /\ HandlerInv /\ EndInv
      /\ LockInv /\ AnswerInv /\ ResponsesWhole
  BY DEF IInv
<1>2. /\ pc[p] = "writeHeader" /\ pc' = [pc EXCEPT ![p] = "writeBody"]
      /\ out' = IF conn = "open" THEN Append(out, Half("header", p)) ELSE out
      /\ UNCHANGED <<kind, timeout, eof, stream, conn, current, work, ok, sending>>
  BY DEF WriteHeader, Emit, clientVars
<1>3. /\ sending = p /\ p # None
      /\ pc'[p] = "writeBody"
      /\ \A q \in Senders : q # p => pc'[q] = pc[q]
  BY <1>1, <1>2 DEF TypeOK
<1>4. /\ Len(out) \in Nat /\ DOMAIN out = 1 .. Len(out)
      /\ conn = "open" =>
            /\ out' \in Seq([part : {"header", "body"}, req : Senders, ok : BOOLEAN])
            /\ Len(out') = Len(out) + 1 /\ DOMAIN out' = 1 .. Len(out) + 1
            /\ out'[Len(out) + 1] = Half("header", p)
            /\ \A i \in 1 .. Len(out) : out'[i] = out[i]
  BY <1>1, <1>2, Longer
<1>5. conn = "open" => Len(out) % 2 = 0
  BY <1>1, <1>2, <1>3, <1>4 DEF LockInv
<1>6. TypeOK'
  BY <1>1, <1>2, <1>3, <1>4 DEF TypeOK
<1>7. KindInv' /\ StreamInv' /\ LoopInv' /\ HandlerInv' /\ EndInv'
  BY <1>1, <1>2, <1>3
     DEF KindInv, StreamInv, LoopInv, HandlerInv, EndInv, TypeOK
<1>8. LockInv' /\ ResponsesWhole'
  <2>1. Half("header", p)' = Half("header", p) /\ Half("header", p).part = "header"
    BY <1>2 DEF Half, RequestOf
  <2>2. CASE conn = "open"
    <3>1. Len(out') % 2 = 1
      BY <1>4, <1>5, <2>2
    <3>2. LockInv'
      BY <1>2, <1>3, <1>4, <2>1, <2>2, <3>1 DEF LockInv
    <3>3. ResponsesWhole'
      <4>1. ASSUME NEW i \in 1 .. Len(out)
            PROVE  IF i % 2 = 1
                   THEN out'[i].part = "header" /\ i # Len(out')
                   ELSE out'[i] = [out'[i - 1] EXCEPT !.part = "body"]
        <5>1. i \in DOMAIN out /\ (i % 2 # 1 => i - 1 \in 1 .. Len(out))
          BY <1>4
        <5>2. IF i % 2 = 1 THEN out[i].part = "header"
              ELSE out[i] = [out[i - 1] EXCEPT !.part = "body"]
          BY <1>1, <5>1 DEF ResponsesWhole
        <5> QED  BY <1>4, <2>2, <5>1, <5>2
      <4>2. sending' # None
        BY <1>2, <1>3
      <4>3. ASSUME NEW i \in DOMAIN out', i \notin 1 .. Len(out)
            PROVE  i % 2 = 1 /\ out'[i].part = "header"
        <5>1. i = Len(out) + 1
          BY <1>4, <2>2, <4>3
        <5> QED  BY <1>4, <2>1, <2>2, <3>1, <5>1
      <4> QED  BY <4>1, <4>2, <4>3 DEF ResponsesWhole
    <3> QED  BY <3>2, <3>3
  <2>3. CASE conn # "open"
    BY <1>1, <1>2, <1>3, <2>3 DEF LockInv, ResponsesWhole
  <2> QED  BY <2>2, <2>3
<1>9. AnswerInv'
  <2>1. \A r \in Requests, o \in BOOLEAN : Answered(r, o)' <=> Answered(r, o)
    BY <1>1, HeaderAnswersNobody
  <2>2. \A r \in Requests : Pending(r)' <=> Pending(r)
    BY <1>2, <1>3 DEF Pending
  <2> QED  BY <1>1, <1>2, <2>1, <2>2 DEF AnswerInv, Sent, InStream
<1> QED  BY <1>6, <1>7, <1>8, <1>9 DEF IInv

\* The body completes the response and answers the request.
LEMMA WriteBodyKeeps ==
  ASSUME NEW p \in Senders, IInv, WriteBody(p)
  PROVE  IInv'
<1>1. /\ TypeOK /\ KindInv /\ StreamInv /\ LoopInv /\ HandlerInv /\ EndInv
      /\ LockInv /\ AnswerInv /\ ResponsesWhole
  BY DEF IInv
<1>2. /\ pc[p] = "writeBody" /\ pc' = [pc EXCEPT ![p] = "unlock"]
      /\ out' = IF conn = "open" THEN Append(out, Half("body", p)) ELSE out
      /\ UNCHANGED <<kind, timeout, eof, stream, conn, current, work, ok, sending>>
  BY DEF WriteBody, Emit, clientVars
<1>3. /\ sending = p /\ p # None
      /\ pc'[p] = "unlock"
      /\ \A q \in Senders : q # p => pc'[q] = pc[q]
  BY <1>1, <1>2 DEF TypeOK
<1>4. /\ Len(out) \in Nat /\ DOMAIN out = 1 .. Len(out)
      /\ conn = "open" =>
            /\ out' \in Seq([part : {"header", "body"}, req : Senders, ok : BOOLEAN])
            /\ Len(out') = Len(out) + 1 /\ DOMAIN out' = 1 .. Len(out) + 1
            /\ out'[Len(out) + 1] = Half("body", p)
            /\ \A i \in 1 .. Len(out) : out'[i] = out[i]
  BY <1>1, <1>2, Longer
<1>5. conn = "open" => Len(out) % 2 = 1 /\ out[Len(out)] = Half("header", p)
  BY <1>1, <1>2, <1>3 DEF LockInv
<1>6. conn # "closed"
  BY <1>1, <1>2 DEF LoopInv, EndInv
<1>7. TypeOK'
  BY <1>1, <1>2, <1>3, <1>4 DEF TypeOK
<1>8. KindInv' /\ StreamInv' /\ LoopInv' /\ HandlerInv' /\ EndInv'
  BY <1>1, <1>2, <1>3
     DEF KindInv, StreamInv, LoopInv, HandlerInv, EndInv, TypeOK
<1>9. LockInv' /\ ResponsesWhole'
  <2>1. CASE conn = "open"
    <3>1. Len(out') % 2 = 0
      BY <1>4, <1>5, <2>1
    <3>2. LockInv'
      <4>1. sending' = p /\ pc'[p] = "unlock"
        BY <1>2, <1>3
      <4>2. pc'[sending'] = "unlock" /\ Len(out') % 2 # 1
        BY <3>1, <4>1
      <4> QED  BY <4>2 DEF LockInv
    <3>3. Half("body", p) = [Half("header", p) EXCEPT !.part = "body"]
      BY DEF Half
    <3>4. ResponsesWhole'
      <4>1. ASSUME NEW i \in 1 .. Len(out)
            PROVE  IF i % 2 = 1
                   THEN out'[i].part = "header" /\ i # Len(out')
                   ELSE out'[i] = [out'[i - 1] EXCEPT !.part = "body"]
        <5>1. i \in DOMAIN out /\ (i % 2 # 1 => i - 1 \in 1 .. Len(out))
          BY <1>4
        <5>2. IF i % 2 = 1 THEN out[i].part = "header"
              ELSE out[i] = [out[i - 1] EXCEPT !.part = "body"]
          BY <1>1, <5>1 DEF ResponsesWhole
        <5> QED  BY <1>4, <2>1, <5>1, <5>2
      <4>2. Len(out) \in 1 .. Len(out)
        BY <1>4, <1>5, <2>1
      <4>3. ASSUME NEW i \in DOMAIN out', i \notin 1 .. Len(out)
            PROVE  i % 2 # 1 /\ out'[i] = [out'[i - 1] EXCEPT !.part = "body"]
        <5>1. i = Len(out) + 1 /\ i - 1 = Len(out)
          BY <1>4, <2>1, <4>3
        <5>2. i = Len(out') /\ out'[i] = Half("body", p)
          BY <1>4, <2>1, <5>1
        <5>3. out'[i - 1] = out[Len(out)] /\ out[Len(out)] = Half("header", p)
          BY <1>4, <1>5, <2>1, <4>2, <5>1
        <5> QED  BY <3>1, <3>3, <5>2, <5>3
      <4> QED  BY <4>1, <4>3 DEF ResponsesWhole
    <3> QED  BY <3>2, <3>4
  <2>2. CASE conn = "broken"
    BY <1>1, <1>2, <1>3, <2>2 DEF LockInv, ResponsesWhole
  <2> QED  BY <1>1, <1>6, <2>1, <2>2 DEF TypeOK
<1>10. AnswerInv'
  <2> DEFINE r == RequestOf(p)
  <2>1. /\ r \in Requests /\ Pending(r) /\ r <= current
        /\ ok[p] => work[r] = "value"
    BY <1>1, <1>2 DEF RequestOf, Pending, LoopInv, HandlerInv, TypeOK
  <2>2. \A q \in Requests : Pending(q)' <=> Pending(q) /\ q # r
    <3>1. p = Loop => pc[current] = "none" /\ current \in Requests
      BY <1>1, <1>2 DEF LoopInv
    <3>2. p \in Requests => ~(p = current /\ pc[Loop] \in {"body"} \cup Unanswered)
      BY <1>1, <1>2 DEF LoopInv
    <3> QED  BY <1>2, <1>3, <3>1, <3>2 DEF Pending, RequestOf
  <2> HIDE DEF r
  <2>3. \A q \in Requests, o \in BOOLEAN : Answered(q, o)' <=>
           Answered(q, o) \/ (conn = "open" /\ q = r /\ o = ok[p])
    BY <1>1, BodyAnswers DEF r
  <2>4. ok[p] \in BOOLEAN
    BY <1>1 DEF TypeOK
  <2> QED  BY <1>1, <1>2, <2>1, <2>2, <2>3, <2>4 DEF AnswerInv, Sent, InStream
<1> QED  BY <1>7, <1>8, <1>9, <1>10 DEF IInv

-----------------------------------------------------------------------------
(* The steps of the server as steps of Exchange *)

\* A step that Exchange does not see.
Same ==
    \A r \in Requests : /\ AskedFor(r)' <=> AskedFor(r)
                        /\ Outcome(r)' = Outcome(r)
                        /\ Answered(r, TRUE)' <=> Answered(r, TRUE)
                        /\ Answered(r, FALSE)' <=> Answered(r, FALSE)

\* Exchange does not move.
LEMMA StutterStep ==
  ASSUME Same, conn' = conn
  PROVE  UNCHANGED E!vars
<1>1. \A r \in Requests : Reply(r)' = Reply(r)
  BY DEF Same, Reply
<1>2. {r \in Requests : AskedFor(r)'} = {r \in Requests : AskedFor(r)}
  BY DEF Same
<1>3. [r \in Requests |-> Outcome(r)'] = [r \in Requests |-> Outcome(r)]
  BY DEF Same
<1>4. [r \in Requests |-> Reply(r)'] = [r \in Requests |-> Reply(r)]
  BY <1>1
<1>5. UNCHANGED <<{r \in Requests : AskedFor(r)}, [r \in Requests |-> Outcome(r)],
                  [r \in Requests |-> Reply(r)], conn>>
  BY <1>2, <1>3, <1>4
<1> QED  BY <1>5 DEF E!vars

\* A header is read.
LEMMA AskStep ==
  ASSUME NEW q \in Requests, conn # "closed", conn' = conn, ~AskedFor(q),
         \A r \in Requests : /\ AskedFor(r)' <=> AskedFor(r) \/ r = q
                             /\ Outcome(r)' = Outcome(r)
                             /\ Answered(r, TRUE)' <=> Answered(r, TRUE)
                             /\ Answered(r, FALSE)' <=> Answered(r, FALSE)
  PROVE  E!Ask(q)
<1>1. \A r \in Requests : Reply(r)' = Reply(r)
  BY DEF Reply
<1>2. {r \in Requests : AskedFor(r)'} = {r \in Requests : AskedFor(r)} \cup {q}
  OBVIOUS
<1>3. [r \in Requests |-> Outcome(r)'] = [r \in Requests |-> Outcome(r)]
  OBVIOUS
<1>4. [r \in Requests |-> Reply(r)'] = [r \in Requests |-> Reply(r)]
  BY <1>1
<1> QED  BY <1>2, <1>3, <1>4 DEF E!Ask

\* A method returns.
LEMMA WorkStep ==
  ASSUME NEW q \in Requests, NEW x \in {"value", "error"}, conn' = conn,
         AskedFor(q), Outcome(q) = "none",
         \A r \in Requests : /\ AskedFor(r)' <=> AskedFor(r)
                             /\ Outcome(r)' = IF r = q THEN x ELSE Outcome(r)
                             /\ Answered(r, TRUE)' <=> Answered(r, TRUE)
                             /\ Answered(r, FALSE)' <=> Answered(r, FALSE)
  PROVE  E!Work(q, x)
<1>1. \A r \in Requests : Reply(r)' = Reply(r)
  BY DEF Reply
<1>2. {r \in Requests : AskedFor(r)'} = {r \in Requests : AskedFor(r)}
  OBVIOUS
<1>3. [r \in Requests |-> Outcome(r)'] =
         [[r \in Requests |-> Outcome(r)] EXCEPT ![q] = x]
  OBVIOUS
<1>4. [r \in Requests |-> Reply(r)'] = [r \in Requests |-> Reply(r)]
  BY <1>1
<1> QED  BY <1>2, <1>3, <1>4 DEF E!Work

\* The body of a response is sent.
LEMMA AnswerStep ==
  ASSUME NEW q \in Requests, NEW x \in {"value", "error"},
         conn = "open", conn' = conn, AskedFor(q),
         ~Answered(q, TRUE), ~Answered(q, FALSE),
         x = "value" => Outcome(q) = "value",
         \A r \in Requests :
            /\ AskedFor(r)' <=> AskedFor(r)
            /\ Outcome(r)' = Outcome(r)
            /\ Answered(r, TRUE)' <=> Answered(r, TRUE) \/ (r = q /\ x = "value")
            /\ Answered(r, FALSE)' <=> Answered(r, FALSE) \/ (r = q /\ x = "error")
  PROVE  E!Answer(q, x)
<1>1. \A r \in Requests : Reply(r)' = IF r = q THEN x ELSE Reply(r)
  BY DEF Reply
<1>2. Reply(q) = "none"
  BY DEF Reply
<1>3. {r \in Requests : AskedFor(r)'} = {r \in Requests : AskedFor(r)}
  OBVIOUS
<1>4. [r \in Requests |-> Outcome(r)'] = [r \in Requests |-> Outcome(r)]
  OBVIOUS
<1>5. [r \in Requests |-> Reply(r)'] =
         [[r \in Requests |-> Reply(r)] EXCEPT ![q] = x]
  BY <1>1
<1> QED  BY <1>2, <1>3, <1>4, <1>5 DEF E!Answer

\* The connection breaks, or is closed after all answers.
LEMMA LineStep ==
  ASSUME Same, conn = "open",
         \/ conn' = "broken"
         \/ conn' = "closed" /\ \A r \in Requests : AskedFor(r) =>
                                   Answered(r, TRUE) \/ Answered(r, FALSE)
  PROVE  E!Break \/ E!HangUp
<1>1. \A r \in Requests : Reply(r)' = Reply(r)
  BY DEF Same, Reply
<1>2. {r \in Requests : AskedFor(r)'} = {r \in Requests : AskedFor(r)}
  BY DEF Same
<1>3. [r \in Requests |-> Outcome(r)'] = [r \in Requests |-> Outcome(r)]
  BY DEF Same
<1>4. [r \in Requests |-> Reply(r)'] = [r \in Requests |-> Reply(r)]
  BY <1>1
<1>5. CASE conn' = "broken"
  BY <1>2, <1>3, <1>4, <1>5 DEF E!Break
<1>6. CASE conn' = "closed" /\ \A r \in Requests : AskedFor(r) =>
                                  Answered(r, TRUE) \/ Answered(r, FALSE)
  <2>1. \A r \in Requests : AskedFor(r) => Reply(r) # "none"
    BY <1>6 DEF Reply
  <2> QED  BY <1>2, <1>3, <1>4, <1>6, <2>1 DEF E!HangUp
<1> QED  BY <1>5, <1>6

\* Steps that read and write nothing.
LEMMA Silent ==
  UNCHANGED <<kind, stream, work, out>> => Same
BY DEF Same, AskedFor, Outcome, Answered, Sent, InStream

\* The client's steps: what it sends is asked when it is read, not before.
LEMMA ClientRefines ==
  ASSUME IInv, NEW k \in Kinds,
         ClientEnds \/ ConnBreaks \/ SendOptions(k) \/ \E r \in Requests : Send(r, k)
  PROVE  [E!Next]_(E!vars)
<1>1. TypeOK /\ KindInv /\ StreamInv /\ LoopInv
  BY DEF IInv
<1>2. CASE ClientEnds
  BY <1>2, Silent, StutterStep DEF ClientEnds
<1>3. CASE ConnBreaks
  <2>1. Same /\ conn = "open" /\ conn' = "broken"
    BY <1>3, Silent DEF ConnBreaks, clientVars
  <2> QED  BY <2>1, LineStep DEF E!Next
<1>4. CASE SendOptions(k)
  <2>1. /\ kind[0] = "unsent" /\ kind' = [kind EXCEPT ![0] = k]
        /\ UNCHANGED <<conn, work, out>>
    BY <1>4 DEF SendOptions
  <2>2. \A r \in Requests : ~Sent(r) /\ ~Sent(r)'
    BY <1>1, <2>1 DEF KindInv, Sent, TypeOK
  <2>3. Same
    BY <2>1, <2>2 DEF Same, AskedFor, Outcome, Answered
  <2> QED  BY <2>1, <2>3, StutterStep
<1>5. ASSUME NEW r \in Requests, Send(r, k)  PROVE [E!Next]_(E!vars)
  <2>1. UNCHANGED <<conn, work, out>>
    BY <1>5 DEF Send
  <2>2. \A q \in Requests : AskedFor(q)' <=> AskedFor(q)
    BY <1>1, <1>5, SendAsksNothing DEF AskedFor
  <2>3. Same
    BY <2>1, <2>2 DEF Same, Outcome, Answered
  <2> QED  BY <2>1, <2>3, StutterStep
<1> QED  BY <1>2, <1>3, <1>4, <1>5

\* The loop's steps.
LEMMA LoopRefines ==
  ASSUME IInv,
         \/ ReadOptions \/ RejectOptions \/ ReadHeader \/ HeaderFails
         \/ ReadBody \/ BodyFails \/ EndConn
  PROVE  [E!Next]_(E!vars)
<1>1. TypeOK /\ StreamInv /\ LoopInv /\ HandlerInv /\ AnswerInv
  BY DEF IInv
<1>2. ASSUME NEW a \in {"options", "body"},
             UNCHANGED <<kind, conn, current, out>>, stream # << >>,
             stream' = Tail(stream), stream[1].part # "header",
             \A r \in Requests : Outcome(r)' = Outcome(r)
      PROVE  [E!Next]_(E!vars)
  <2>1. \A r \in Requests : InStream(r)' <=> InStream(r)
    BY <1>1, <1>2, Popped
  <2>2. Same
    BY <1>2, <2>1 DEF Same, AskedFor, Sent, Answered
  <2> QED  BY <1>2, <2>2, StutterStep
<1>3. CASE ReadOptions
  <2>1. /\ stream # << >> /\ stream' = Tail(stream)
        /\ pc[Loop] = "options" /\ kind[0] = "good"
        /\ UNCHANGED <<kind, conn, current, out, work>>
    BY <1>3 DEF ReadOptions, clientVars, Acceptable
  <2>2. stream[1].part = "options"
    BY <1>1, <2>1 DEF LoopInv
  <2> QED  BY <1>2, <2>1, <2>2 DEF Outcome
<1>4. CASE HeaderFails
  BY <1>4, Silent, StutterStep DEF HeaderFails, clientVars
<1>5. CASE ReadBody
  <2>1. /\ stream # << >> /\ stream' = Tail(stream) /\ pc[Loop] = "body"
        /\ work' = [work EXCEPT ![current] = "running"]
        /\ UNCHANGED <<kind, conn, current, out>>
    BY <1>5 DEF ReadBody, clientVars
  <2>2. stream[1].part = "body" /\ current \in Requests /\ pc[current] = "none"
    BY <1>1, <2>1 DEF LoopInv, Part
  <2>3. work[current] = "none"
    BY <1>1, <2>2 DEF HandlerInv
  <2>4. \A r \in Requests : Outcome(r)' = Outcome(r)
    BY <1>1, <2>1, <2>2, <2>3 DEF Outcome, TypeOK
  <2> QED  BY <1>2, <2>1, <2>2, <2>4
<1>6. CASE BodyFails
  <2>1. /\ stream' = stream \/ (stream # << >> /\ stream' = Tail(stream))
        /\ pc[Loop] = "body"
        /\ UNCHANGED <<kind, conn, current, out, work>>
    BY <1>6 DEF BodyFails, clientVars
  <2>2. stream # << >> => stream[1].part = "body"
    BY <1>1, <2>1 DEF LoopInv, Part
  <2>3. CASE stream' = stream
    BY <2>1, <2>3, Silent, StutterStep
  <2>4. CASE stream # << >> /\ stream' = Tail(stream)
    BY <1>2, <2>1, <2>2, <2>4 DEF Outcome
  <2> QED  BY <2>1, <2>3, <2>4
<1>7. CASE ReadHeader
  <2> DEFINE q == stream[1].req
  <2>1. /\ stream # << >> /\ stream' = Tail(stream) /\ stream[1].part = "header"
        /\ current' = q /\ pc[Loop] = "read"
        /\ UNCHANGED <<kind, conn, work, out>>
    BY <1>1, <1>7, Shorter DEF ReadHeader, NextPart, clientVars
  <2>2. 1 \in DOMAIN stream
    BY <1>1, <2>1, Shorter
  <2>3. q \in Requests /\ kind[q] # "unsent"
    BY <1>1, <2>1, <2>2 DEF StreamInv
  <2>4. InStream(q)
    <3>1. stream[1] = Part("header", q)
      BY <1>1, <2>1, <2>2, Parts
    <3> QED  BY <2>2, <3>1 DEF InStream
  <2>5. \A r \in Requests : InStream(r)' <=> InStream(r) /\ r # q
    BY <1>1, <2>1, Popped
  <2> HIDE DEF q
  <2>6. conn # "closed"
    BY <1>1, <2>1 DEF LoopInv
  <2>7. E!Ask(q)
    <3>1. ~AskedFor(q)
      BY <2>4 DEF AskedFor
    <3>2. \A r \in Requests : /\ AskedFor(r)' <=> AskedFor(r) \/ r = q
                              /\ Outcome(r)' = Outcome(r)
                              /\ Answered(r, TRUE)' <=> Answered(r, TRUE)
                              /\ Answered(r, FALSE)' <=> Answered(r, FALSE)
      BY <2>1, <2>3, <2>5 DEF AskedFor, Sent, Outcome, Answered
    <3> QED  BY <2>1, <2>3, <2>6, <3>1, <3>2, AskStep
  <2> QED  BY <2>3, <2>7 DEF E!Next
<1>8. CASE RejectOptions \/ EndConn
  <2>1. Same /\ conn' = IF conn = "open" THEN "closed" ELSE conn
    BY <1>8, Silent DEF RejectOptions, EndConn, clientVars
  <2>2. ASSUME NEW r \in Requests, AskedFor(r), conn = "open"
        PROVE  Answered(r, TRUE) \/ Answered(r, FALSE)
    <3>1. ~Pending(r)
      BY <1>1, <1>8
         DEF RejectOptions, EndConn, AllHandled, Pending, LoopInv, HandlerInv
    <3> QED  BY <1>1, <2>2, <3>1 DEF AnswerInv, AskedFor
  <2>3. CASE conn = "open"
    BY <2>1, <2>2, <2>3, LineStep DEF E!Next
  <2>4. CASE conn # "open"
    BY <2>1, <2>4, StutterStep
  <2> QED  BY <2>3, <2>4
<1> QED  BY <1>3, <1>4, <1>5, <1>6, <1>7, <1>8

\* The handlers' steps up to their response.
LEMMA HandlerRefines ==
  ASSUME IInv, NEW r \in Requests,
         Respond(r) \/ TimerFires(r) \/ MethodStep(r)
  PROVE  [E!Next]_(E!vars)
<1>1. CASE Respond(r) \/ TimerFires(r)
  BY <1>1, Silent, StutterStep DEF Respond, TimerFires, clientVars
<1>2. ASSUME NEW x \in {"value", "error"}, Return(r, x)
      PROVE  [E!Next]_(E!vars)
  <2>1. /\ work[r] = "running" /\ work' = [work EXCEPT ![r] = x]
        /\ UNCHANGED <<kind, stream, conn, out>>
    BY <1>2 DEF Return, clientVars
  <2>2. AskedFor(r)
    BY <2>1, ReadMeansAsked DEF AskedFor
  <2>3. \A q \in Requests : Outcome(q)' = IF q = r THEN x ELSE Outcome(q)
    BY <2>1 DEF IInv, TypeOK, Outcome
  <2>4. Outcome(r) = "none"
    BY <2>1 DEF Outcome
  <2>5. E!Work(r, x)
    BY <2>1, <2>2, <2>3, <2>4, WorkStep DEF AskedFor, Sent, InStream, Answered
  <2> QED  BY <2>5 DEF E!Next, E!Outcomes
<1> QED  BY <1>1, <1>2 DEF MethodStep

\* Sending a response: its body is the answer.
LEMMA SendRefines ==
  ASSUME IInv, NEW p \in Senders, SendStep(p)
  PROVE  [E!Next]_(E!vars)
<1>1. TypeOK /\ LoopInv /\ HandlerInv /\ AnswerInv
  BY DEF IInv
<1>2. CASE Lock(p) \/ Unlock(p)
  BY <1>2, Silent, StutterStep DEF Lock, Unlock, clientVars
<1>3. CASE EncodeFails(p)
  <2>1. Same /\ conn' = IF conn = "open" THEN "broken" ELSE conn
    BY <1>3, Silent DEF EncodeFails, clientVars
  <2>2. CASE conn = "open"
    BY <2>1, <2>2, LineStep DEF E!Next
  <2>3. CASE conn # "open"
    BY <2>1, <2>3, StutterStep
  <2> QED  BY <2>2, <2>3
<1>4. CASE WriteHeader(p)
  <2>1. UNCHANGED <<kind, stream, conn, work>>
    BY <1>4 DEF WriteHeader, clientVars
  <2>2. Same
    BY <1>1, <1>4, <2>1, HeaderAnswersNobody
       DEF Same, AskedFor, Sent, InStream, Outcome
  <2> QED  BY <2>1, <2>2, StutterStep
<1>5. CASE WriteBody(p)
  <2> DEFINE q == RequestOf(p)
             x == IF ok[p] THEN "value" ELSE "error"
  <2>1. pc[p] = "writeBody" /\ UNCHANGED <<kind, stream, conn, work>>
    BY <1>5 DEF WriteBody, clientVars
  <2>2. /\ q \in Requests /\ Pending(q) /\ q <= current
        /\ ok[p] => work[q] = "value"
    BY <1>1, <2>1 DEF RequestOf, Pending, LoopInv, HandlerInv, TypeOK
  <2>3. \A r \in Requests, o \in BOOLEAN : Answered(r, o)' <=>
           Answered(r, o) \/ (conn = "open" /\ r = q /\ o = ok[p])
    BY <1>1, <1>5, BodyAnswers
  <2>4. AskedFor(q)
    BY <2>2, ReadMeansAsked DEF AskedFor
  <2> HIDE DEF q
  <2>5. CASE conn = "open"
    <3>1. ~Answered(q, TRUE) /\ ~Answered(q, FALSE)
      BY <1>1, <2>2 DEF AnswerInv
    <3>2. x = "value" => Outcome(q) = "value"
      BY <2>2 DEF Outcome
    <3>3. ok[p] \in BOOLEAN
      BY <1>1 DEF TypeOK
    <3>4. \A r \in Requests :
             /\ AskedFor(r)' <=> AskedFor(r)
             /\ Outcome(r)' = Outcome(r)
      BY <2>1 DEF AskedFor, Sent, InStream, Outcome
    <3>5. \A r \in Requests :
             /\ Answered(r, TRUE)' <=> Answered(r, TRUE) \/ (r = q /\ x = "value")
             /\ Answered(r, FALSE)' <=> Answered(r, FALSE) \/ (r = q /\ x = "error")
      BY <2>3, <2>5, <3>3
    <3>6. x \in {"value", "error"}
      OBVIOUS
    <3> HIDE DEF x
    <3>7. E!Answer(q, x)
      BY <2>1, <2>2, <2>4, <2>5, <3>1, <3>2, <3>4, <3>5, <3>6, AnswerStep
    <3> QED  BY <2>2, <3>6, <3>7 DEF E!Next, E!Outcomes
  <2>6. CASE conn # "open"
    <3>1. Same
      BY <2>1, <2>3, <2>6 DEF Same, AskedFor, Sent, InStream, Outcome
    <3> QED  BY <2>1, <3>1, StutterStep
  <2> QED  BY <2>5, <2>6
<1> QED  BY <1>2, <1>3, <1>4, <1>5 DEF SendStep

-----------------------------------------------------------------------------
(* The theorems *)

\* A new connection: the loop waits for the options, nothing was sent.
LEMMA InitHolds == Init => IInv
<1> SUFFICES ASSUME Init  PROVE IInv
  OBVIOUS
<1>1. /\ stream = << >> /\ out = << >> /\ current = 0 /\ sending = None
      /\ conn = "open" /\ timeout \in BOOLEAN /\ eof = FALSE
      /\ kind = [m \in Senders |-> "unsent"]
      /\ work = [r \in Requests |-> "none"]
      /\ ok = [p \in Senders |-> FALSE]
      /\ pc = [p \in Senders |-> IF p = Loop THEN "options" ELSE "none"]
  BY DEF Init
<1>2. \A r \in Requests : r \in Senders /\ r # Loop
  BY NAssumption DEF Senders, Requests, Loop
<1>3. /\ \A r \in Requests : pc[r] = "none" /\ kind[r] = "unsent"
      /\ pc[Loop] = "options"
  BY <1>1, <1>2 DEF Senders
<1>4. TypeOK
  <2>1. /\ kind \in [Senders -> Kinds]
        /\ work \in [Requests -> {"none", "running", "value", "error"}]
    BY <1>1 DEF Kinds
  <2>2. pc \in [Senders -> LoopStates \cup SendStates \cup {"none", "call", "done"}]
    BY <1>1 DEF LoopStates
  <2>3. current \in Senders
    BY <1>1 DEF Senders, Loop
  <2>4. \A p \in Senders : pc[p] \notin SendStates
    BY <1>1 DEF SendStates
  <2>5. /\ stream \in Seq([part : {"options", "header", "body"}, req : Senders])
        /\ out \in Seq([part : {"header", "body"}, req : Senders, ok : BOOLEAN])
    BY <1>1
  <2>6. /\ timeout \in BOOLEAN /\ eof \in BOOLEAN /\ ok \in [Senders -> BOOLEAN]
        /\ conn \in {"open", "closed", "broken"} /\ sending \in Senders \cup {None}
    BY <1>1
  <2>7. \A p \in Senders : pc[p] \in SendStates \ {"lock"} => sending = p
    BY <2>4
  <2> QED  BY <2>1, <2>2, <2>3, <2>5, <2>6, <2>7 DEF TypeOK
<1>5. KindInv /\ StreamInv
  BY <1>1 DEF KindInv, StreamInv
<1>6. LoopInv /\ HandlerInv /\ EndInv
  BY <1>1, <1>3
     DEF LoopInv, HandlerInv, EndInv, LoopStates, SendStates
<1>7. LockInv /\ ResponsesWhole
  BY <1>1 DEF LockInv, ResponsesWhole
<1>8. AnswerInv
  <2>1. \A r \in Requests, o \in BOOLEAN : ~Answered(r, o)
    BY <1>1 DEF Answered
  <2>2. \A r \in Requests : ~Sent(r)
    BY <1>3 DEF Sent
  <2> QED  BY <2>1, <2>2 DEF AnswerInv
<1> QED  BY <1>4, <1>5, <1>6, <1>7, <1>8 DEF IInv

\* Every step of the client, the loop, a handler or a method.
LEMMA NextKeeps == IInv /\ [Next]_vars => IInv'
<1> SUFFICES ASSUME IInv, [Next]_vars  PROVE IInv'
  OBVIOUS
<1>1. ASSUME NEW p \in Senders, SendStep(p)  PROVE IInv'
  BY <1>1, LockKeeps, WriteHeaderKeeps, WriteBodyKeeps, EncodeFailsKeeps,
     UnlockKeeps DEF SendStep
<1>2. CASE \E k \in Kinds : SendOptions(k) \/ \E r \in Requests : Send(r, k)
  BY <1>2, SendOptionsKeeps, SendKeeps
<1>3. CASE ClientEnds \/ ConnBreaks
  BY <1>3, ClientEndsKeeps, ConnBreaksKeeps
<1>4. CASE LoopStep
  <2>1. Loop \in Senders
    BY DEF Senders
  <2> QED  BY <1>1, <1>4, <2>1, ReadOptionsKeeps, RejectOptionsKeeps,
              ReadHeaderKeeps, HeaderFailsKeeps, ReadBodyKeeps, BodyFailsKeeps,
              EndConnKeeps DEF LoopStep
<1>5. ASSUME NEW r \in Requests, HandlerStep(r) \/ MethodStep(r)  PROVE IInv'
  <2>1. r \in Senders
    BY DEF Senders
  <2> QED  BY <1>1, <1>5, <2>1, RespondKeeps, TimerFiresKeeps, ReturnKeeps
              DEF HandlerStep, MethodStep
<1>6. CASE UNCHANGED vars
  <2>1. UNCHANGED <<kind, timeout, stream, eof, conn, pc, current, work, ok,
                    sending, out>>
    BY <1>6 DEF vars
  <2>2. /\ TypeOK' = TypeOK /\ KindInv' = KindInv /\ StreamInv' = StreamInv
        /\ LoopInv' = LoopInv /\ HandlerInv' = HandlerInv /\ EndInv' = EndInv
    BY <2>1 DEF TypeOK, KindInv, StreamInv, LoopInv, HandlerInv, EndInv
  <2>3. /\ LockInv' = LockInv /\ AnswerInv' = AnswerInv
        /\ ResponsesWhole' = ResponsesWhole
    BY <2>1 DEF LockInv, Half, RequestOf, AnswerInv, Answered, Pending, Sent,
                InStream, ResponsesWhole
  <2> QED  BY <2>2, <2>3 DEF IInv
<1> QED  BY <1>2, <1>3, <1>4, <1>5, <1>6 DEF Next

\* The inductive invariant holds in every state of the server.
LEMMA Invariance == Spec => []IInv
BY InitHolds, NextKeeps, PTL DEF Spec

\* Every variable of the server stays in its range, and of all senders only
\* the holder of `sending` is between Lock and Unlock.
THEOREM TypeCorrect == Spec => []TypeOK
<1>1. IInv => TypeOK
  BY DEF IInv
<1> QED  BY <1>1, Invariance, PTL

\* With any number of handlers and the loop answering at once, what goes out
\* is headers and bodies in turn, each body that of its header.
THEOREM Whole == Spec => []ResponsesWhole
<1>1. IInv => ResponsesWhole
  BY DEF IInv
<1> QED  BY <1>1, Invariance, PTL

\* A new connection is one on which nothing was asked.
LEMMA InitRefines == Init => E!Init
<1> SUFFICES ASSUME Init  PROVE E!Init
  OBVIOUS
<1>1. stream = << >> /\ out = << >> /\ conn = "open"
  BY DEF Init
<1>2. \A r \in Requests : kind[r] = "unsent" /\ work[r] = "none"
  BY DEF Init, Senders
<1>3. {r \in Requests : AskedFor(r)} = {}
  BY <1>2 DEF AskedFor, Sent
<1>4. \A r \in Requests : Outcome(r) = "none"
  BY <1>2 DEF Outcome
<1>5. \A r \in Requests : Reply(r) = "none"
  BY <1>1 DEF Reply, Answered
<1> QED  BY <1>1, <1>3, <1>4, <1>5 DEF E!Init

\* Every step of the server is a step of Exchange, or nothing to it.
LEMMA StepRefines == IInv /\ [Next]_vars => [E!Next]_(E!vars)
<1> SUFFICES ASSUME IInv, [Next]_vars  PROVE [E!Next]_(E!vars)
  OBVIOUS
<1>1. CASE \/ \E k \in Kinds : SendOptions(k) \/ \E r \in Requests : Send(r, k)
           \/ ClientEnds \/ ConnBreaks
  <2>1. "good" \in Kinds
    BY DEF Kinds
  <2> QED  BY <1>1, <2>1, ClientRefines
<1>2. CASE LoopStep
  <2>1. Loop \in Senders
    BY DEF Senders
  <2> QED  BY <1>2, <2>1, LoopRefines, SendRefines DEF LoopStep
<1>3. ASSUME NEW r \in Requests, HandlerStep(r) \/ MethodStep(r)
      PROVE  [E!Next]_(E!vars)
  <2>1. r \in Senders
    BY DEF Senders
  <2> QED  BY <1>3, <2>1, HandlerRefines, SendRefines DEF HandlerStep
<1>4. CASE UNCHANGED vars
  <2>1. UNCHANGED <<kind, stream, work, out, conn>>
    BY <1>4 DEF vars
  <2> QED  BY <2>1, Silent, StutterStep
<1> QED  BY <1>1, <1>2, <1>3, <1>4 DEF Next

\* The server keeps the promise of Exchange: a request is answered once at
\* most, though its timer and its method race, with a value only when the
\* method has returned one, and no request read is left unanswered at the end.
THEOREM Implements == Spec => ImplementsExchange
<1>1. Spec => []IInv
  BY Invariance
<1> QED  BY <1>1, InitRefines, StepRefines, PTL
            DEF Spec, ImplementsExchange, E!Spec
=============================================================================
