------------------------- MODULE SingleFlight_proof -------------------------
(***************************************************************************)
(* Proofs about SingleFlight for any number of goroutines, keys and calls. *)
(*                                                                         *)
(* None of the properties is inductive: OneInFlight needs to know that the *)
(* map entry of a key whose fn runs is the runner's own call, which needs  *)
(* that only the call's creator ever writes or unlinks it.  IInv says      *)
(* where each goroutine stands to the call it holds (CallerInv) and what   *)
(* state a call can be in (CallInv), beside the map's own invariant.       *)
(* That Do implements Coalesce needs one fact more, WaitersInv.            *)
(***************************************************************************)
EXTENDS SingleFlight, SequenceTheorems, TLAPS

\* A goroutine that leads holds a call of its own that it has not left, in the
\* state its position implies; one that waits holds a call for its key.
LeaderInv(p) ==
    pc[p] \in Leading =>
        /\ calls[cur[p]].leader = p
        /\ calls[cur[p]].fate = "open"
        /\ pc[p] \in {"fn", "done"} => calls[cur[p]].wg = 1
        /\ pc[p] \in {"delete", "return"} => calls[cur[p]].wg = 0
        /\ pc[p] = "fn" => calls[cur[p]].result = NoResult
        /\ pc[p] = "done" => calls[cur[p]].result # NoResult

HolderInv(p) ==
    pc[p] \in Leading \cup {"wait"} =>
        /\ calls[cur[p]].key = key[p]
        /\ res[p] = NoResult

\* What the goroutine saw finished when it called Do is finished, and the call
\* it holds is not among it, unless that call was left by a panic.
FreshInv(p) ==
    /\ \A c \in old[p] : c \in DOMAIN calls /\ calls[c].fate # "open"
    /\ pc[p] \in Leading => cur[p] \notin old[p]
    /\ pc[p] = "wait" /\ cur[p] \in old[p] => calls[cur[p]].wg = 1

\* A goroutine outside Do: its answer is the one its call holds for good.
AnswerInv(p) ==
    /\ pc[p] = "lock" => res[p] = NoResult
    /\ Returned(p) =>
        /\ cur[p] \in DOMAIN calls
        /\ calls[cur[p]].key = key[p]
        /\ calls[cur[p]].wg = 0
        /\ res[p] = calls[cur[p]].result
        /\ cur[p] \notin old[p]

\* Once the counter of a call is zero its result is there.
CallInv == \A c \in DOMAIN calls : calls[c].wg = 0 => calls[c].result # NoResult

\* A call its creator has left is in the map only if fn panicked.
LeftInv ==
    \A k \in Keys : m[k] # NoCall /\ calls[m[k]].fate # "open" =>
        calls[m[k]].wg = 1

IInv ==
    /\ TypeOK
    /\ MapHoldsInFlight
    /\ CallInv
    /\ \A p \in Callers :
          LeaderInv(p) /\ HolderInv(p) /\ FreshInv(p) /\ AnswerInv(p)
    /\ LeftInv

-----------------------------------------------------------------------------
\* Updating one call, or allocating one, keeps the heap a sequence of calls.
LEMMA HeapUpdate ==
    ASSUME TypeOK, NEW c \in DOMAIN calls, NEW r \in Call,
           calls' = [calls EXCEPT ![c] = r]
    PROVE  /\ calls' \in Seq(Call)
           /\ DOMAIN calls' = DOMAIN calls
           /\ Len(calls') = Len(calls)
           /\ calls'[c] = r
           /\ \A d \in DOMAIN calls : d # c => calls'[d] = calls[d]
BY ExceptSeq DEF TypeOK

LEMMA HeapAppend ==
    ASSUME TypeOK, NEW r \in Call, calls' = Append(calls, r)
    PROVE  /\ calls' \in Seq(Call)
           /\ DOMAIN calls' = DOMAIN calls \cup {Len(calls) + 1}
           /\ Len(calls) + 1 \notin DOMAIN calls
           /\ calls'[Len(calls) + 1] = r
           /\ \A d \in DOMAIN calls : calls'[d] = calls[d]
           /\ Len(calls) + 1 \in Nat \ {0}
BY AppendProperties DEF TypeOK

\* Lowering the counter of a call, or leaving it, keeps every result.
LEMMA HeapField ==
    ASSUME TypeOK, NEW p, NEW b,
           \/ calls' = [calls EXCEPT ![cur[p]].wg = b]
           \/ calls' = [calls EXCEPT ![cur[p]].fate = b]
    PROVE  \A c \in DOMAIN calls : calls'[c].result = calls[c].result
<1> SUFFICES ASSUME NEW c \in DOMAIN calls
             PROVE  calls'[c].result = calls[c].result
  OBVIOUS
<1>1. calls \in [1 .. Len(calls) -> Call]
  BY LenProperties DEF TypeOK
<1>2. calls[c] \in Call
  BY <1>1
<1>3. QED
  BY <1>1, <1>2 DEF Call

LEMMA InitInv == Init => IInv
BY NoResultAssumption DEF Init, IInv, TypeOK, MapHoldsInFlight, CallInv, LeaderInv, HolderInv,
    FreshInv, AnswerInv, Returned, LeftInv, PC, Outside, Leading, NoCall

\* Calling Do records which calls are already finished.
LEMMA DoInv ==
    ASSUME IInv, NEW p \in Callers, NEW k \in Keys, Do(p, k)
    PROVE  IInv'
<1> USE DEF NoCall, Do
<1>1. TypeOK'
  BY DEF IInv, TypeOK, PC, Outside, Leading
<1>2. MapHoldsInFlight'
  BY DEF IInv, TypeOK, MapHoldsInFlight, LeaderInv, HolderInv, Leading
<1>3. CallInv' /\ LeftInv'
  <2>1. CallInv'
    BY DEF IInv, TypeOK, CallInv, LeaderInv, Leading
  <2>2. LeftInv'
    BY DEF IInv, TypeOK, MapHoldsInFlight, LeftInv, LeaderInv, Leading
  <2>3. QED
    BY <2>1, <2>2
<1>4. ASSUME NEW q \in Callers
      PROVE  LeaderInv(q)' /\ HolderInv(q)'
  BY DEF IInv, TypeOK, MapHoldsInFlight, LeaderInv, HolderInv,
        AnswerInv, Returned, Leading
<1>5. ASSUME NEW q \in Callers
      PROVE  FreshInv(q)'
  BY DEF IInv, TypeOK, MapHoldsInFlight, LeftInv, FreshInv,
        LeaderInv, HolderInv, Leading
<1>6. ASSUME NEW q \in Callers
      PROVE  AnswerInv(q)'
  BY DEF IInv, TypeOK, CallInv, FreshInv, AnswerInv, Returned, LeaderInv,
        HolderInv, Leading
<1>7. QED
  BY <1>1, <1>2, <1>3, <1>4, <1>5, <1>6 DEF IInv

\* A duplicate takes the map's call, which is one for its key.
LEMMA JoinInv ==
    ASSUME IInv, NEW p \in Callers, Join(p)
    PROVE  IInv'
<1> USE DEF NoCall, Join
<1>1. TypeOK'
  BY DEF IInv, TypeOK, PC, Outside, Leading
<1>2. MapHoldsInFlight'
  BY DEF IInv, TypeOK, MapHoldsInFlight, LeaderInv, HolderInv, Leading
<1>3. CallInv' /\ LeftInv'
  <2>1. CallInv'
    BY DEF IInv, TypeOK, CallInv, LeaderInv, Leading
  <2>2. LeftInv'
    BY DEF IInv, TypeOK, MapHoldsInFlight, LeftInv, LeaderInv, Leading
  <2>3. QED
    BY <2>1, <2>2
<1>4. ASSUME NEW q \in Callers
      PROVE  LeaderInv(q)' /\ HolderInv(q)'
  BY DEF IInv, TypeOK, MapHoldsInFlight, LeaderInv, HolderInv,
        AnswerInv, Returned, Leading
<1>5. ASSUME NEW q \in Callers
      PROVE  FreshInv(q)'
  <2>1. CASE q = p
    <3>1. key[p] \in Keys /\ cur'[p] = m[key[p]] /\ pc'[p] = "wait"
      BY DEF IInv, TypeOK
    <3>2. cur'[p] \in old[p] => calls[cur'[p]].wg = 1
      BY <3>1 DEF IInv, FreshInv, LeftInv
    <3>3. QED
      BY <2>1, <3>1, <3>2 DEF IInv, FreshInv, Leading
  <2>2. CASE q # p
    BY <2>2 DEF IInv, TypeOK, FreshInv
  <2>3. QED
    BY <2>1, <2>2
<1>6. ASSUME NEW q \in Callers
      PROVE  AnswerInv(q)'
  BY DEF IInv, TypeOK, CallInv, FreshInv, AnswerInv, Returned, LeaderInv,
        HolderInv, Leading
<1>7. QED
  BY <1>1, <1>2, <1>3, <1>4, <1>5, <1>6 DEF IInv

\* A new leader's call is fresh, so no goroutine holds it.
LEMMA LeadInv ==
    ASSUME IInv, NEW p \in Callers, Lead(p)
    PROVE  IInv'
<1> USE DEF NoCall, Lead, Absent
<1>0. /\ calls' \in Seq(Call)
      /\ DOMAIN calls' = DOMAIN calls \cup {Len(calls) + 1}
      /\ Len(calls) + 1 \notin DOMAIN calls
      /\ Len(calls) + 1 \in Nat \ {0}
      /\ calls'[Len(calls) + 1] = NewCall(p)
      /\ \A d \in DOMAIN calls : calls'[d] = calls[d]
  <2>1. NewCall(p) \in Call /\ TypeOK
    BY DEF IInv, TypeOK, NewCall, Call
  <2>2. QED
    BY <2>1, HeapAppend
<1>1. TypeOK'
  BY <1>0 DEF NewCall, IInv, TypeOK, PC, Outside, Leading
<1>2. MapHoldsInFlight'
  <2>1. ASSUME NEW k \in Keys, m'[k] # NoCall
        PROVE  LET c == calls'[m'[k]] IN
                 /\ c.key = k
                 /\ \/ c.fate = "panicked"
                    \/ pc'[c.leader] \in {"fn", "done", "delete"} /\ cur'[c.leader] = m'[k]
    <3>1. CASE k = key[p]
      BY <1>0, <3>1 DEF NewCall, IInv, TypeOK
    <3>2. CASE k # key[p]
      <4>1. m'[k] = m[k] /\ m[k] \in DOMAIN calls /\ calls'[m[k]] = calls[m[k]]
        BY <1>0, <2>1, <3>2 DEF IInv, TypeOK
      <4>2. calls[m[k]].fate = "panicked" \/ calls[m[k]].leader # p
        BY <2>1, <4>1 DEF IInv, TypeOK, MapHoldsInFlight
      <4>3. calls[m[k]].leader \in Callers
        <5>1. calls[m[k]] \in Call
          BY <4>1, LenProperties, ElementOfSeq DEF IInv, TypeOK
        <5>2. QED
          BY <5>1 DEF Call
      <4>4. QED
        BY <2>1, <4>1, <4>2, <4>3 DEF IInv, TypeOK, MapHoldsInFlight
    <3>3. QED
      BY <3>1, <3>2
  <2>2. ASSUME NEW q \in Callers, pc'[q] \in {"fn", "done", "delete"}
        PROVE  m'[key'[q]] = cur'[q]
    BY <1>0, <2>2 DEF IInv, TypeOK, MapHoldsInFlight
  <2>3. QED
    BY <2>1, <2>2 DEF MapHoldsInFlight
<1>3. CallInv' /\ LeftInv'
  <2>1. CallInv'
    BY <1>0 DEF NewCall, IInv, TypeOK, CallInv, LeaderInv, Leading
  <2>2. LeftInv'
    BY <1>0 DEF NewCall, IInv, TypeOK, MapHoldsInFlight, LeftInv, LeaderInv, Leading
  <2>3. QED
    BY <2>1, <2>2
<1>4. ASSUME NEW q \in Callers
      PROVE  LeaderInv(q)' /\ HolderInv(q)'
  BY <1>0 DEF NewCall, IInv, TypeOK, MapHoldsInFlight, LeaderInv, HolderInv,
        AnswerInv, Returned, Leading
<1>5. ASSUME NEW q \in Callers
      PROVE  FreshInv(q)'
  BY <1>0 DEF NewCall, IInv, TypeOK, MapHoldsInFlight, LeftInv, FreshInv,
        LeaderInv, HolderInv, Leading
<1>6. ASSUME NEW q \in Callers
      PROVE  AnswerInv(q)'
  BY <1>0 DEF NewCall, IInv, TypeOK, CallInv, FreshInv, AnswerInv, Returned, LeaderInv,
        HolderInv, Leading
<1>7. QED
  BY <1>1, <1>2, <1>3, <1>4, <1>5, <1>6 DEF IInv

\* Only its creator writes a call, while its counter is one.
LEMMA FnReturnInv ==
    ASSUME IInv, NEW p \in Callers, NEW r \in Results, FnReturn(p, r)
    PROVE  IInv'
<1> USE DEF NoCall, FnReturn
<1> DEFINE new == [calls[cur[p]] EXCEPT !.result = r]
<1>0. /\ calls' \in Seq(Call)
      /\ DOMAIN calls' = DOMAIN calls
      /\ calls'[cur[p]] = new
      /\ \A d \in DOMAIN calls : d # cur[p] => calls'[d] = calls[d]
  <2>1. calls \in Seq(Call) /\ cur[p] \in DOMAIN calls /\ TypeOK
    BY DEF IInv, TypeOK
  <2>2. calls[cur[p]] \in Call
    BY <2>1, LenProperties, ElementOfSeq
  <2> new \in Call
    BY <2>2 DEF Call
  <2>3. calls' = [calls EXCEPT ![cur[p]] = new]
    BY DEF new
  <2>4. QED
    BY <2>1, <2>2, <2>3, HeapUpdate
<1>1. TypeOK'
  BY <1>0, NoResultAssumption DEF IInv, TypeOK, PC, Outside, Leading
<1>2. MapHoldsInFlight'
  BY <1>0, NoResultAssumption DEF IInv, TypeOK, MapHoldsInFlight, LeaderInv,
        HolderInv, Leading
<1>3. CallInv' /\ LeftInv'
  <2>1. CallInv'
    BY <1>0, NoResultAssumption DEF IInv, TypeOK, CallInv, LeaderInv, Leading
  <2>2. LeftInv'
    BY <1>0, NoResultAssumption DEF IInv, TypeOK, MapHoldsInFlight, LeftInv,
        LeaderInv, Leading
  <2>3. QED
    BY <2>1, <2>2
<1>4. ASSUME NEW q \in Callers
      PROVE  LeaderInv(q)' /\ HolderInv(q)'
  BY <1>0, NoResultAssumption DEF IInv, TypeOK, MapHoldsInFlight, LeaderInv,
        HolderInv, AnswerInv, Returned, Leading
<1>5. ASSUME NEW q \in Callers
      PROVE  FreshInv(q)'
  BY <1>0, NoResultAssumption DEF IInv, TypeOK, MapHoldsInFlight, LeftInv, FreshInv,
        LeaderInv, HolderInv, Leading
<1>6. ASSUME NEW q \in Callers
      PROVE  AnswerInv(q)'
  BY <1>0, NoResultAssumption DEF IInv, TypeOK, CallInv, FreshInv, AnswerInv, Returned, LeaderInv,
        HolderInv, Leading
<1>7. QED
  BY <1>1, <1>2, <1>3, <1>4, <1>5, <1>6 DEF IInv

\* A panic leaves the call in the map with its counter at one.
LEMMA FnPanicInv ==
    ASSUME IInv, NEW p \in Callers, FnPanic(p)
    PROVE  IInv'
<1> USE DEF NoCall, FnPanic
<1> DEFINE new == [calls[cur[p]] EXCEPT !.fate = "panicked"]
<1>0. /\ calls' \in Seq(Call)
      /\ DOMAIN calls' = DOMAIN calls
      /\ calls'[cur[p]] = new
      /\ \A d \in DOMAIN calls : d # cur[p] => calls'[d] = calls[d]
  <2>1. calls \in Seq(Call) /\ cur[p] \in DOMAIN calls /\ TypeOK
    BY DEF IInv, TypeOK
  <2>2. calls[cur[p]] \in Call
    BY <2>1, LenProperties, ElementOfSeq
  <2> new \in Call
    BY <2>2 DEF Call
  <2>3. calls' = [calls EXCEPT ![cur[p]] = new]
    BY DEF new
  <2>4. QED
    BY <2>1, <2>2, <2>3, HeapUpdate
<1>1. TypeOK'
  BY <1>0 DEF IInv, TypeOK, PC, Outside, Leading
<1>2. MapHoldsInFlight'
  BY <1>0 DEF IInv, TypeOK, MapHoldsInFlight, LeaderInv, HolderInv, Leading
<1>3. CallInv' /\ LeftInv'
  <2>1. CallInv'
    BY <1>0 DEF IInv, TypeOK, CallInv, LeaderInv, Leading
  <2>2. LeftInv'
    BY <1>0 DEF IInv, TypeOK, MapHoldsInFlight, LeftInv, LeaderInv, Leading
  <2>3. QED
    BY <2>1, <2>2
<1>4. ASSUME NEW q \in Callers
      PROVE  LeaderInv(q)' /\ HolderInv(q)'
  BY <1>0 DEF IInv, TypeOK, MapHoldsInFlight, LeaderInv, HolderInv,
        AnswerInv, Returned, Leading
<1>5. ASSUME NEW q \in Callers
      PROVE  FreshInv(q)'
  BY <1>0 DEF IInv, TypeOK, MapHoldsInFlight, LeftInv, FreshInv,
        LeaderInv, HolderInv, Leading
<1>6. ASSUME NEW q \in Callers
      PROVE  AnswerInv(q)'
  BY <1>0 DEF IInv, TypeOK, CallInv, FreshInv, AnswerInv, Returned, LeaderInv,
        HolderInv, Leading
<1>7. QED
  BY <1>1, <1>2, <1>3, <1>4, <1>5, <1>6 DEF IInv

\* The counter reaches zero only after the result is stored.
LEMMA WgDoneInv ==
    ASSUME IInv, NEW p \in Callers, WgDone(p)
    PROVE  IInv'
<1> USE DEF NoCall, WgDone, Released
<1> DEFINE new == [calls[cur[p]] EXCEPT !.wg = @ - 1]
<1>0. /\ calls' \in Seq(Call)
      /\ DOMAIN calls' = DOMAIN calls
      /\ calls'[cur[p]] = new
      /\ new.wg = 0 /\ new.key = calls[cur[p]].key
      /\ new.result = calls[cur[p]].result
      /\ \A d \in DOMAIN calls : d # cur[p] => calls'[d] = calls[d]
  <2>1. calls \in Seq(Call) /\ cur[p] \in DOMAIN calls /\ TypeOK
    BY DEF IInv, TypeOK
  <2>2. calls[cur[p]] \in Call
    BY <2>1, LenProperties, ElementOfSeq
  <2>5. calls[cur[p]].wg = 1
    BY DEF IInv, LeaderInv, Leading
  <2> new \in Call /\ new.wg = 0
    BY <2>2, <2>5 DEF Call
  <2>3. calls' = [calls EXCEPT ![cur[p]] = new]
    BY DEF new
  <2>4. QED
    BY <2>1, <2>2, <2>3, HeapUpdate
<1>1. TypeOK'
  BY <1>0 DEF IInv, TypeOK, PC, Outside, Leading
<1>2. MapHoldsInFlight'
  BY <1>0 DEF IInv, TypeOK, MapHoldsInFlight, LeaderInv, HolderInv, Leading
<1>3. CallInv' /\ LeftInv'
  <2>1. CallInv'
    BY <1>0 DEF IInv, TypeOK, CallInv, LeaderInv, Leading
  <2>2. LeftInv'
    BY <1>0 DEF IInv, TypeOK, MapHoldsInFlight, LeftInv, LeaderInv, Leading
  <2>3. QED
    BY <2>1, <2>2
<1>4. ASSUME NEW q \in Callers
      PROVE  LeaderInv(q)' /\ HolderInv(q)'
  BY <1>0 DEF IInv, TypeOK, MapHoldsInFlight, LeaderInv, HolderInv,
        AnswerInv, Returned, Leading
<1>5. ASSUME NEW q \in Callers
      PROVE  FreshInv(q)'
  BY <1>0 DEF IInv, TypeOK, MapHoldsInFlight, LeftInv, FreshInv,
        LeaderInv, HolderInv, Leading
<1>6. ASSUME NEW q \in Callers
      PROVE  AnswerInv(q)'
  BY <1>0 DEF IInv, TypeOK, CallInv, FreshInv, AnswerInv, Returned, LeaderInv,
        HolderInv, Leading
<1>7. QED
  BY <1>1, <1>2, <1>3, <1>4, <1>5, <1>6 DEF IInv

\* A goroutine unlinks the call that the map holds for its key: its own.
LEMMA DeleteInv ==
    ASSUME IInv, NEW p \in Callers, Delete(p)
    PROVE  IInv'
<1> USE DEF NoCall, Delete, Deleted
<1>1. TypeOK'
  BY DEF IInv, TypeOK, PC, Outside, Leading
<1>2. MapHoldsInFlight'
  BY DEF IInv, TypeOK, MapHoldsInFlight, LeaderInv, HolderInv, Leading
<1>3. CallInv' /\ LeftInv'
  <2>1. CallInv'
    BY DEF IInv, TypeOK, CallInv, LeaderInv, Leading
  <2>2. LeftInv'
    BY DEF IInv, TypeOK, MapHoldsInFlight, LeftInv, LeaderInv, Leading
  <2>3. QED
    BY <2>1, <2>2
<1>4. ASSUME NEW q \in Callers
      PROVE  LeaderInv(q)' /\ HolderInv(q)'
  BY DEF IInv, TypeOK, MapHoldsInFlight, LeaderInv, HolderInv,
        AnswerInv, Returned, Leading
<1>5. ASSUME NEW q \in Callers
      PROVE  FreshInv(q)'
  BY DEF IInv, TypeOK, MapHoldsInFlight, LeftInv, FreshInv,
        LeaderInv, HolderInv, Leading
<1>6. ASSUME NEW q \in Callers
      PROVE  AnswerInv(q)'
  BY DEF IInv, TypeOK, CallInv, FreshInv, AnswerInv, Returned, LeaderInv,
        HolderInv, Leading
<1>7. QED
  BY <1>1, <1>2, <1>3, <1>4, <1>5, <1>6 DEF IInv

\* A leader leaves a call the map no longer holds.
LEMMA ReturnInv ==
    ASSUME IInv, NEW p \in Callers, Return(p)
    PROVE  IInv'
<1> USE DEF NoCall, Return
<1> DEFINE new == [calls[cur[p]] EXCEPT !.fate = "returned"]
<1>0. /\ calls' \in Seq(Call)
      /\ DOMAIN calls' = DOMAIN calls
      /\ calls'[cur[p]] = new
      /\ \A d \in DOMAIN calls : d # cur[p] => calls'[d] = calls[d]
  <2>1. calls \in Seq(Call) /\ cur[p] \in DOMAIN calls /\ TypeOK
    BY DEF IInv, TypeOK
  <2>2. calls[cur[p]] \in Call
    BY <2>1, LenProperties, ElementOfSeq
  <2> new \in Call
    BY <2>2 DEF Call
  <2>3. calls' = [calls EXCEPT ![cur[p]] = new]
    BY DEF new
  <2>4. QED
    BY <2>1, <2>2, <2>3, HeapUpdate
<1>1. TypeOK'
  <2>1. calls[cur[p]].result \in Results \cup {NoResult}
    <3>1. calls \in Seq(Call) /\ cur[p] \in DOMAIN calls
      BY DEF IInv, TypeOK
    <3>2. calls[cur[p]] \in Call
      BY <3>1, LenProperties, ElementOfSeq
    <3>3. QED
      BY <3>2 DEF Call
  <2>2. QED
    BY <1>0, <2>1 DEF IInv, TypeOK, PC, Outside, Leading
<1>2. MapHoldsInFlight'
  BY <1>0 DEF IInv, TypeOK, MapHoldsInFlight, LeaderInv, HolderInv, Leading
<1>3. CallInv' /\ LeftInv'
  <2>1. CallInv'
    BY <1>0 DEF IInv, TypeOK, CallInv, LeaderInv, Leading
  <2>2. LeftInv'
    <3> SUFFICES ASSUME NEW k \in Keys, m[k] # NoCall, calls'[m[k]].fate # "open"
                 PROVE  calls'[m[k]].wg = 1
      BY DEF LeftInv
    <3>1. m[k] \in DOMAIN calls
      BY DEF IInv, TypeOK
    <3>2. m[k] # cur[p]
      BY DEF IInv, MapHoldsInFlight, LeaderInv, Leading
    <3>3. calls'[m[k]] = calls[m[k]]
      BY <1>0, <3>1, <3>2
    <3>4. QED
      BY <3>3 DEF IInv, LeftInv
  <2>3. QED
    BY <2>1, <2>2
<1>4. ASSUME NEW q \in Callers
      PROVE  LeaderInv(q)' /\ HolderInv(q)'
  BY <1>0 DEF IInv, TypeOK, MapHoldsInFlight, LeaderInv, HolderInv,
        AnswerInv, Returned, Leading
<1>5. ASSUME NEW q \in Callers
      PROVE  FreshInv(q)'
  BY <1>0 DEF IInv, TypeOK, MapHoldsInFlight, LeftInv, FreshInv,
        LeaderInv, HolderInv, Leading
<1>6. ASSUME NEW q \in Callers
      PROVE  AnswerInv(q)'
  BY <1>0 DEF IInv, TypeOK, CallInv, FreshInv, AnswerInv, Returned, LeaderInv,
        HolderInv, Leading
<1>7. QED
  BY <1>1, <1>2, <1>3, <1>4, <1>5, <1>6 DEF IInv

\* A released duplicate reads a call that is finished.
LEMMA WaitReturnInv ==
    ASSUME IInv, NEW p \in Callers, WaitReturn(p)
    PROVE  IInv'
<1> USE DEF NoCall, WaitReturn, Finished
<1>1. TypeOK'
  <2>1. calls[cur[p]].result \in Results \cup {NoResult}
    <3>1. calls \in Seq(Call) /\ cur[p] \in DOMAIN calls
      BY DEF IInv, TypeOK
    <3>2. calls[cur[p]] \in Call
      BY <3>1, LenProperties, ElementOfSeq
    <3>3. QED
      BY <3>2 DEF Call
  <2>2. QED
    BY <2>1 DEF IInv, TypeOK, PC, Outside, Leading
<1>2. MapHoldsInFlight'
  BY DEF IInv, TypeOK, MapHoldsInFlight, LeaderInv, HolderInv, Leading
<1>3. CallInv' /\ LeftInv'
  <2>1. CallInv'
    BY DEF IInv, TypeOK, CallInv, LeaderInv, Leading
  <2>2. LeftInv'
    BY DEF IInv, TypeOK, MapHoldsInFlight, LeftInv, LeaderInv, Leading
  <2>3. QED
    BY <2>1, <2>2
<1>4. ASSUME NEW q \in Callers
      PROVE  LeaderInv(q)' /\ HolderInv(q)'
  BY DEF IInv, TypeOK, MapHoldsInFlight, LeaderInv, HolderInv,
        AnswerInv, Returned, Leading
<1>5. ASSUME NEW q \in Callers
      PROVE  FreshInv(q)'
  BY DEF IInv, TypeOK, MapHoldsInFlight, LeftInv, FreshInv,
        LeaderInv, HolderInv, Leading
<1>6. ASSUME NEW q \in Callers
      PROVE  AnswerInv(q)'
  BY DEF IInv, TypeOK, CallInv, FreshInv, AnswerInv, Returned, LeaderInv,
        HolderInv, Leading
<1>7. QED
  BY <1>1, <1>2, <1>3, <1>4, <1>5, <1>6 DEF IInv

THEOREM Inductive == IInv /\ [Next]_vars => IInv'
<1>1. ASSUME IInv, UNCHANGED vars
      PROVE  IInv'
  BY <1>1 DEF IInv, TypeOK, MapHoldsInFlight, CallInv, LeftInv, LeaderInv,
      HolderInv, FreshInv, AnswerInv, Returned, vars
<1>2. ASSUME IInv, NEW p \in Callers, Step(p)
      PROVE  IInv'
  BY <1>2, JoinInv, LeadInv, FnReturnInv, FnPanicInv, WgDoneInv, DeleteInv,
      ReturnInv, WaitReturnInv DEF Step
<1>3. ASSUME IInv, NEW p \in Callers, NEW k \in Keys, Do(p, k)
      PROVE  IInv'
  BY <1>3, DoInv
<1>4. QED
  BY <1>1, <1>2, <1>3 DEF Next

THEOREM Invariance == Spec => []IInv
BY InitInv, Inductive, PTL DEF Spec

\* Every variable keeps its type: the map, the waiters and the leaders only
\* ever refer to calls that were allocated.
THEOREM TypeCorrect == Spec => []TypeOK
<1>1. IInv => TypeOK
  BY DEF IInv
<1>2. QED
  BY <1>1, Invariance, PTL

\* The map and the goroutines agree on which call is in flight for a key.
THEOREM MapAgrees == Spec => []MapHoldsInFlight
<1>1. IInv => MapHoldsInFlight
  BY DEF IInv
<1>2. QED
  BY <1>1, Invariance, PTL

\* Two goroutines never run fn for one key (singleflight.go:19-21): both would
\* hold the map's entry for the key, and that call has one creator.
THEOREM AtMostOneInFlight == Spec => []OneInFlight
<1>1. IInv => OneInFlight
  <2> SUFFICES ASSUME IInv, NEW p \in Callers, NEW q \in Callers,
                      pc[p] = "fn", pc[q] = "fn", key[p] = key[q]
               PROVE  p = q
    BY DEF OneInFlight
  <2>1. cur[p] = cur[q]
    BY DEF IInv, MapHoldsInFlight
  <2>2. calls[cur[p]].leader = p /\ calls[cur[q]].leader = q
    BY DEF IInv, LeaderInv, Leading
  <2>3. QED
    BY <2>1, <2>2
<1>2. QED
  BY <1>1, Invariance, PTL

\* A Do that has returned has the result of the call it led or joined
\* (singleflight.go:21-22), however many ran beside it.
THEOREM DuplicatesGetTheSame == Spec => []SameResult
<1>1. IInv => SameResult
  BY DEF IInv, SameResult, AnswerInv, Returned, LeaderInv, HolderInv, CallInv, TypeOK,
      Leading
<1>2. QED
  BY <1>1, Invariance, PTL

\* No Do answers with a call whose creator had returned when it was called:
\* the entry is deleted before the creator returns, and the calls that panics
\* leave in the map never release a waiter.
THEOREM NothingLeftOver == Spec => []NoLeftoverResult
<1>1. IInv => NoLeftoverResult
  BY DEF IInv, NoLeftoverResult, AnswerInv
<1>2. QED
  BY <1>1, Invariance, PTL

\* A call's result is stored once, while its waiters are still held back.
THEOREM OneWrite == Spec => ResultWrittenOnce
<1> DEFINE Once == \A c \in DOMAIN calls :
                      calls'[c].result # calls[c].result =>
                          calls[c].result = NoResult /\ calls[c].wg = 1
<1>1. ASSUME IInv, [Next]_vars
      PROVE  Once
  <2>1. CASE UNCHANGED vars
    BY <2>1 DEF vars
  <2>2. ASSUME NEW p \in Callers, NEW r \in Results, FnReturn(p, r)
        PROVE  Once
    BY <1>1, <2>2 DEF FnReturn, IInv, TypeOK, LeaderInv, Leading
  <2>3. ASSUME NEW p \in Callers, Lead(p)
        PROVE  Once
    <3>1. NewCall(p) \in Call /\ TypeOK
      BY <1>1 DEF IInv, TypeOK, NewCall, Call
    <3>2. \A c \in DOMAIN calls : calls'[c] = calls[c]
      BY <2>3, <3>1, HeapAppend DEF Lead
    <3>3. QED
      BY <3>2
  <2>4. ASSUME NEW p \in Callers, FnPanic(p) \/ WgDone(p) \/ Return(p)
        PROVE  Once
    <3>1. CASE WgDone(p)
      <4>1. calls' = [calls EXCEPT ![cur[p]].wg = calls[cur[p]].wg - 1]
        BY <3>1 DEF WgDone, Released
      <4>2. \A c \in DOMAIN calls : calls'[c].result = calls[c].result
        BY <4>1, HeapField, <1>1 DEF IInv
      <4>3. QED
        BY <4>2
    <3>2. CASE FnPanic(p) \/ Return(p)
      <4>1. \E f : calls' = [calls EXCEPT ![cur[p]].fate = f]
        BY <3>2 DEF FnPanic, Return
      <4>2. \A c \in DOMAIN calls : calls'[c].result = calls[c].result
        BY <4>1, HeapField, <1>1 DEF IInv
      <4>3. QED
        BY <4>2
    <3>3. QED
      BY <2>4, <3>1, <3>2
  <2>5. ASSUME NEW p \in Callers, Join(p) \/ Delete(p) \/ WaitReturn(p)
                  \/ \E k \in Keys : Do(p, k)
        PROVE  Once
    BY <2>5 DEF Join, Delete, WaitReturn, Do
  <2>6. QED
    BY <1>1, <2>1, <2>2, <2>3, <2>4, <2>5 DEF Next, Step
<1>2. QED
  BY <1>1, Invariance, PTL DEF Spec, ResultWrittenOnce

-----------------------------------------------------------------------------
(* The steps of SingleFlight as steps of Coalesce *)

\* A duplicate that still has to wait is on the flight that the map holds for
\* its key.
WaitersInv ==
    \A p \in Callers : pc[p] = "wait" /\ calls[cur[p]].wg = 1 =>
        m[key[p]] = cur[p]

RInv == IInv /\ WaitersInv

\* A step of a leader writes its own call only: a result while the counter is
\* one, the fate, or the counter, which was one and is zero then.
LEMMA StepKeepsCounter ==
  ASSUME TypeOK, NEW p \in Callers, LeaderInv(p),
         (\E r \in Results : FnReturn(p, r)) \/ FnPanic(p) \/ WgDone(p) \/ Return(p)
  PROVE  /\ DOMAIN calls' = DOMAIN calls
         /\ \A c \in DOMAIN calls :
               /\ c # cur[p] => calls'[c] = calls[c]
               /\ calls'[c].key = calls[c].key
               /\ WgDone(p) => calls'[c].result = calls[c].result
               /\ ~WgDone(p) => calls'[c].wg = calls[c].wg
               /\ FnPanic(p) \/ Return(p) => calls'[c].result = calls[c].result
         /\ WgDone(p) => calls[cur[p]].wg = 1 /\ calls'[cur[p]].wg = 0
<1>1. calls \in [1 .. Len(calls) -> Call] /\ DOMAIN calls = 1 .. Len(calls)
  BY LenProperties DEF TypeOK
<1>2. cur[p] \in DOMAIN calls
  BY DEF TypeOK, FnReturn, FnPanic, WgDone, Return
<1>3. CASE \E r \in Results : FnReturn(p, r)
  <2>1. PICK r \in Results : calls' = [calls EXCEPT ![cur[p]].result = r]
    BY <1>3 DEF FnReturn
  <2>2. pc[p] = "fn"
    BY <1>3 DEF FnReturn
  <2> QED  BY <1>1, <1>2, <2>1, <2>2 DEF WgDone, FnPanic, Return, Call
<1>4. CASE FnPanic(p) \/ Return(p)
  <2>1. PICK f : calls' = [calls EXCEPT ![cur[p]].fate = f]
    BY <1>4 DEF FnPanic, Return
  <2>2. ~WgDone(p)
    BY <1>4 DEF FnPanic, Return, WgDone
  <2> QED  BY <1>1, <1>2, <2>1, <2>2 DEF Call
<1>5. CASE WgDone(p)
  <2>1. calls' = [calls EXCEPT ![cur[p]].wg = calls[cur[p]].wg - 1]
    BY <1>5 DEF WgDone, Released
  <2>2. calls[cur[p]].wg = 1
    BY <1>5 DEF WgDone, LeaderInv, Leading
  <2> QED  BY <1>1, <1>2, <1>5, <2>1, <2>2 DEF Call
<1> QED  BY <1>3, <1>4, <1>5

\* Nobody can lead a flight of the key before the waiters are released.
LEMMA WaitersStay == RInv /\ [Next]_vars => WaitersInv'
<1> SUFFICES ASSUME RInv, [Next]_vars, NEW q \in Callers,
                    pc'[q] = "wait", calls'[cur'[q]].wg = 1
             PROVE  m'[key'[q]] = cur'[q]
  BY DEF WaitersInv
<1> USE DEF NoCall
<1>1. TypeOK /\ MapHoldsInFlight /\ WaitersInv
  BY DEF RInv, IInv
<1>2. \A p \in Callers : LeaderInv(p) /\ HolderInv(p)
  BY DEF RInv, IInv
<1>3. CASE UNCHANGED vars
  BY <1>1, <1>3 DEF vars, WaitersInv
<1>4. ASSUME NEW p \in Callers, Join(p)  PROVE m'[key'[q]] = cur'[q]
  BY <1>1, <1>4 DEF Join, TypeOK, WaitersInv
<1>5. ASSUME NEW p \in Callers, Lead(p)  PROVE m'[key'[q]] = cur'[q]
  <2>1. q # p /\ pc[q] = "wait" /\ cur'[q] = cur[q] /\ cur[q] \in DOMAIN calls
    BY <1>1, <1>5 DEF Lead, TypeOK
  <2>2. calls'[cur[q]] = calls[cur[q]]
    BY <1>1, <1>5, <2>1, HeapAppend DEF Lead, NewCall, Call, TypeOK
  <2>3. m[key[q]] = cur[q] /\ cur[q] # NoCall
    BY <1>1, <2>1, <2>2 DEF WaitersInv, TypeOK
  <2> QED  BY <1>1, <1>5, <2>1, <2>3 DEF Lead, Absent, TypeOK
<1>6. ASSUME NEW p \in Callers,
             (\E r \in Results : FnReturn(p, r)) \/ FnPanic(p) \/ WgDone(p) \/ Return(p)
      PROVE  m'[key'[q]] = cur'[q]
  <2>1. /\ q # p /\ pc[q] = "wait" /\ cur'[q] = cur[q] /\ m' = m /\ key' = key
        /\ cur[q] \in DOMAIN calls
    BY <1>1, <1>6 DEF FnReturn, FnPanic, WgDone, Return, TypeOK
  <2>2. calls[cur[q]].wg = 1
    BY <1>1, <1>2, <1>6, <2>1, StepKeepsCounter
  <2> QED  BY <1>1, <2>1, <2>2 DEF WaitersInv
<1>7. ASSUME NEW p \in Callers, Delete(p)  PROVE m'[key'[q]] = cur'[q]
  BY <1>1, <1>2, <1>7 DEF Delete, Deleted, TypeOK, WaitersInv, MapHoldsInFlight,
     LeaderInv, HolderInv, Leading
<1>8. ASSUME NEW p \in Callers, WaitReturn(p) \/ \E k \in Keys : Do(p, k)
      PROVE  m'[key'[q]] = cur'[q]
  BY <1>1, <1>8 DEF WaitReturn, Do, TypeOK, WaitersInv
<1> QED  BY <1>3, <1>4, <1>5, <1>6, <1>7, <1>8 DEF Next, Step

\* What Coalesce does not see: a goroutine on its way to the lock, a result
\* that is written, and the fate of a call.
Same ==
    /\ \A k \in Keys : FlightOf(k)' = FlightOf(k)
    /\ \A p \in Callers : /\ KeyOn(p)' = KeyOn(p)
                          /\ Given(p)' = Given(p)
                          /\ Aloft(p)' <=> Aloft(p)

\* Then Coalesce does not move.
LEMMA StutterStep ==
  ASSUME Same
  PROVE  UNCHANGED Flights!vars
<1>1. /\ [k \in Keys |-> FlightOf(k)'] = [k \in Keys |-> FlightOf(k)]
      /\ [p \in Callers |-> KeyOn(p)'] = [p \in Callers |-> KeyOn(p)]
      /\ [p \in Callers |-> Given(p)'] = [p \in Callers |-> Given(p)]
      /\ {p \in Callers : Aloft(p)'} = {p \in Callers : Aloft(p)}
  BY DEF Same
<1> QED  BY <1>1 DEF Flights!vars, Aloft

\* What a call has landed with is a result, unless it has not landed.
LEMMA LandedIsResult ==
  ASSUME TypeOK, CallInv, NEW c \in DOMAIN calls
  PROVE  /\ calls[c].wg \in {0, 1} /\ calls[c].result \in Results \cup {NoResult}
         /\ Landed(c) \in Results \cup {NoResult}
         /\ Landed(c) = NoResult <=> calls[c].wg = 1
<1>1. calls[c] \in Call
  BY LenProperties, ElementOfSeq DEF TypeOK
<1> QED  BY <1>1 DEF Call, Landed, CallInv

\* A duplicate boards the flight of its key.
LEMMA JoinRefines ==
  ASSUME RInv, NEW p \in Callers, Join(p)
  PROVE  Flights!Join(p, key[p])
<1>1. TypeOK /\ CallInv
  BY DEF RInv, IInv
<1>2. /\ pc[p] = "lock" /\ pc' = [pc EXCEPT ![p] = "wait"]
      /\ m[key[p]] # NoCall /\ cur' = [cur EXCEPT ![p] = m[key[p]]]
      /\ UNCHANGED <<m, calls, key>>
  BY DEF Join
<1>3. \A k \in Keys : FlightOf(k)' = FlightOf(k)
  BY <1>2 DEF FlightOf, Landed
<1>4. /\ \A q \in Callers : /\ KeyOn(q)' = IF q = p THEN key[p] ELSE KeyOn(q)
                            /\ Given(q)' = IF q = p THEN FlightOf(key[p]) ELSE Given(q)
                            /\ Aloft(q)' <=> Aloft(q)
      /\ KeyOn(p) = NoKey
  BY <1>1, <1>2 DEF KeyOn, Given, Aloft, InDo, Landed, FlightOf, TypeOK
<1>5. FlightOf(key[p]) # NoFlight /\ key[p] \in Keys
  <2>1. m[key[p]] \in DOMAIN calls /\ key[p] \in Keys
    BY <1>1, <1>2 DEF TypeOK
  <2> QED  BY <1>1, <1>2, <2>1, LandedIsResult, EmptyAssumption DEF FlightOf
<1>6. /\ [q \in Callers |-> KeyOn(q)'] = [[q \in Callers |-> KeyOn(q)] EXCEPT ![p] = key[p]]
      /\ [q \in Callers |-> Given(q)'] =
            [[q \in Callers |-> Given(q)] EXCEPT ![p] = FlightOf(key[p])]
      /\ [k \in Keys |-> FlightOf(k)'] = [k \in Keys |-> FlightOf(k)]
      /\ {q \in Callers : Aloft(q)'} = {q \in Callers : Aloft(q)}
  BY <1>3, <1>4
<1> QED  BY <1>4, <1>5, <1>6 DEF Flights!Join

\* The first caller of a key starts a flight: a new call has not landed.
LEMMA LeadRefines ==
  ASSUME RInv, NEW p \in Callers, Lead(p)
  PROVE  Flights!Lead(p, key[p])
<1>1. TypeOK /\ CallInv
  BY DEF RInv, IInv
<1> DEFINE c == Len(calls) + 1
<1>2. /\ pc[p] = "lock" /\ pc' = [pc EXCEPT ![p] = "fn"]
      /\ m[key[p]] = NoCall /\ m' = [m EXCEPT ![key[p]] = c]
      /\ cur' = [cur EXCEPT ![p] = c] /\ key' = key
      /\ calls' = Append(calls, NewCall(p))
  BY DEF Lead, Absent
<1>3. key[p] \in Keys
  BY <1>1 DEF TypeOK
<1>4. /\ c # NoCall /\ calls'[c].wg = 1
      /\ \A d \in DOMAIN calls : calls'[d] = calls[d]
  <2>1. NewCall(p) \in Call /\ NewCall(p).wg = 1
    BY <1>3 DEF NewCall, Call
  <2> QED  BY <1>1, <1>2, <2>1, HeapAppend DEF NoCall
<1> HIDE DEF c
<1>5. \A k \in Keys : FlightOf(k)' = IF k = key[p] THEN NoResult ELSE FlightOf(k)
  <2>1. \A k \in Keys : m'[k] = IF k = key[p] THEN c ELSE m[k]
    BY <1>1, <1>2 DEF TypeOK
  <2>2. \A k \in Keys : m[k] # NoCall => calls'[m[k]] = calls[m[k]]
    BY <1>1, <1>4 DEF TypeOK
  <2> QED  BY <1>4, <2>1, <2>2 DEF FlightOf, Landed
<1>6. /\ \A q \in Callers : /\ KeyOn(q)' = IF q = p THEN key[p] ELSE KeyOn(q)
                            /\ Given(q)' = Given(q)
                            /\ Aloft(q)' <=> Aloft(q) \/ q = p
      /\ KeyOn(p) = NoKey
  <2>1. \A q \in Callers : /\ pc'[q] = IF q = p THEN "fn" ELSE pc[q]
                           /\ cur'[q] = IF q = p THEN c ELSE cur[q]
                           /\ q \in InDo => calls'[cur[q]] = calls[cur[q]]
    BY <1>1, <1>2, <1>4 DEF TypeOK, InDo
  <2>2. \A q \in Callers : q \in InDo' <=> q \in InDo \/ q = p
    BY <2>1 DEF InDo
  <2>3. p \notin InDo /\ ~Aloft(p)
    BY <1>2 DEF InDo, Aloft
  <2>4. \A q \in Callers : KeyOn(q)' = IF q = p THEN key[p] ELSE KeyOn(q)
    BY <1>2, <2>2 DEF KeyOn
  <2>5. ASSUME NEW q \in Callers  PROVE Given(q)' = Given(q)
    <3>1. CASE q = p
      <4>1. cur'[q] = c /\ q \in InDo'
        BY <2>1, <2>2, <3>1
      <4> QED  BY <1>4, <2>3, <3>1, <4>1 DEF Given, Landed
    <3>2. CASE q # p
      BY <2>1, <2>2, <3>2 DEF Given, Landed
    <3> QED  BY <3>1, <3>2
  <2> QED  BY <1>2, <2>1, <2>3, <2>4, <2>5 DEF KeyOn, Aloft
<1>7. FlightOf(key[p]) = NoFlight
  BY <1>2 DEF FlightOf
<1>8. /\ [q \in Callers |-> KeyOn(q)'] = [[q \in Callers |-> KeyOn(q)] EXCEPT ![p] = key[p]]
      /\ [q \in Callers |-> Given(q)'] = [q \in Callers |-> Given(q)]
      /\ [k \in Keys |-> FlightOf(k)'] =
            [[k \in Keys |-> FlightOf(k)] EXCEPT ![key[p]] = NoResult]
      /\ {q \in Callers : Aloft(q)'} = {q \in Callers : Aloft(q)} \cup {p}
  BY <1>5, <1>6
<1> QED  BY <1>3, <1>6, <1>7, <1>8 DEF Flights!Lead, Flights!NoneYet

\* wg.Done lands the flight: it gives everybody who waits for it its result.
LEMMA WgDoneRefines ==
  ASSUME RInv, NEW p \in Callers, WgDone(p)
  PROVE  \E r \in Results : Flights!Land(p, r)
<1> DEFINE r == calls[cur[p]].result
<1>1. /\ TypeOK /\ CallInv /\ WaitersInv /\ MapHoldsInFlight
      /\ \A q \in Callers : LeaderInv(q) /\ HolderInv(q)
  BY DEF RInv, IInv
<1>2. /\ pc[p] = "done" /\ pc' = [pc EXCEPT ![p] = "delete"]
      /\ UNCHANGED <<m, key, cur>>
  BY DEF WgDone
<1>3. /\ cur[p] \in DOMAIN calls /\ key[p] \in Keys
      /\ calls[cur[p]].key = key[p] /\ m[key[p]] = cur[p]
  BY <1>1, <1>2 DEF TypeOK, HolderInv, Leading, MapHoldsInFlight
<1>4. /\ \A d \in DOMAIN calls : d # cur[p] => calls'[d] = calls[d]
      /\ calls[cur[p]].wg = 1 /\ calls'[cur[p]].wg = 0 /\ calls'[cur[p]].result = r
  BY <1>1, <1>3, StepKeepsCounter
<1>5. r \in Results
  BY <1>1, <1>2, <1>3, LandedIsResult DEF LeaderInv, Leading
<1>6. Landed(cur[p]) = NoResult /\ Landed(cur[p])' = r
  BY <1>2, <1>4 DEF Landed
<1> HIDE DEF r
<1>7. \A k \in Keys : FlightOf(k)' = IF k = key[p] THEN r ELSE FlightOf(k)
  <2>1. ASSUME NEW k \in Keys, m[k] # NoCall, k # key[p]
        PROVE  calls'[m[k]] = calls[m[k]]
    BY <1>1, <1>3, <1>4, <2>1 DEF TypeOK, MapHoldsInFlight
  <2>2. m[key[p]] # NoCall
    BY <1>1, <1>3, LenProperties DEF TypeOK, NoCall
  <2> QED  BY <1>2, <1>3, <1>6, <2>1, <2>2 DEF FlightOf, Landed
<1>8. \A q \in Callers : /\ KeyOn(q)' = KeyOn(q)
                         /\ Aloft(q)' <=> Aloft(q)
                         /\ q \in InDo' <=> q \in InDo
  BY <1>1, <1>2 DEF KeyOn, Aloft, InDo, TypeOK
<1>9. p \in InDo /\ KeyOn(p) = key[p] /\ Given(p) = NoResult /\ Aloft(p)
  BY <1>2, <1>6 DEF InDo, KeyOn, Given, Aloft
<1>10. ASSUME NEW q \in Callers
       PROVE  Given(q)' = IF KeyOn(q) = KeyOn(p) /\ Given(q) = NoResult THEN r ELSE Given(q)
  <2>1. CASE q \notin InDo
    BY <1>3, <1>8, <1>9, <2>1, EmptyAssumption DEF Given, KeyOn
  <2>2. CASE q \in InDo /\ cur[q] = cur[p]
    <3>1. key[q] = key[p]
      BY <1>1, <1>3, <2>2 DEF HolderInv, InDo, Leading, TypeOK, PC, Outside
    <3> QED  BY <1>2, <1>6, <1>8, <1>9, <2>2, <3>1 DEF Given, KeyOn
  <2>3. CASE q \in InDo /\ cur[q] # cur[p]
    <3>1. cur[q] \in DOMAIN calls
      BY <1>1, <2>3 DEF TypeOK, InDo
    <3>2. Given(q)' = Given(q)
      BY <1>2, <1>4, <1>8, <2>3, <3>1 DEF Given, Landed
    <3>3. ASSUME key[q] = key[p], Given(q) = NoResult  PROVE FALSE
      <4>1. calls[cur[q]].wg = 1
        BY <1>1, <2>3, <3>1, <3>3, LandedIsResult DEF Given
      <4>2. pc[q] \in {"wait", "fn", "done"}
        BY <1>1, <2>3, <4>1 DEF LeaderInv, InDo, TypeOK, PC, Outside, Leading
      <4>3. m[key[q]] = cur[q]
        BY <1>1, <4>1, <4>2 DEF WaitersInv, MapHoldsInFlight
      <4> QED  BY <1>3, <2>3, <3>3, <4>3
    <3>4. KeyOn(q) = key[q]
      BY <2>3 DEF KeyOn
    <3> QED  BY <1>9, <3>2, <3>3, <3>4
  <2> QED  BY <2>1, <2>2, <2>3
<1>11. /\ [q \in Callers |-> KeyOn(q)'] = [q \in Callers |-> KeyOn(q)]
       /\ [q \in Callers |-> Given(q)'] =
             [q \in Callers |->
                 IF KeyOn(q) = KeyOn(p) /\ Given(q) = NoResult THEN r ELSE Given(q)]
       /\ [k \in Keys |-> FlightOf(k)'] =
             [[k \in Keys |-> FlightOf(k)] EXCEPT ![key[p]] = r]
       /\ {q \in Callers : Aloft(q)'} = {q \in Callers : Aloft(q)}
  BY <1>3, <1>7, <1>8, <1>10
<1>12. Flights!Land(p, r)
  BY <1>9, <1>11 DEF Flights!Land
<1> QED  BY <1>5, <1>12

\* delete closes the flight.
LEMMA DeleteRefines ==
  ASSUME RInv, NEW p \in Callers, Delete(p)
  PROVE  Flights!Close(p)
<1>1. /\ TypeOK /\ CallInv /\ MapHoldsInFlight
      /\ \A q \in Callers : LeaderInv(q) /\ HolderInv(q)
  BY DEF RInv, IInv
<1>2. /\ pc[p] = "delete" /\ pc' = [pc EXCEPT ![p] = "return"]
      /\ m' = [m EXCEPT ![key[p]] = NoCall]
      /\ UNCHANGED <<calls, key, cur>>
  BY DEF Delete, Deleted
<1>3. \A k \in Keys : FlightOf(k)' = IF k = key[p] THEN NoFlight ELSE FlightOf(k)
  BY <1>1, <1>2 DEF FlightOf, Landed, TypeOK
<1>4. \A q \in Callers : /\ KeyOn(q)' = KeyOn(q)
                         /\ Given(q)' = Given(q)
                         /\ Aloft(q)' <=> Aloft(q) /\ q # p
  BY <1>1, <1>2 DEF KeyOn, Given, Aloft, InDo, Landed, TypeOK
<1>5. Aloft(p) /\ KeyOn(p) = key[p]
  BY <1>2 DEF Aloft, KeyOn, InDo
<1>6. Given(p) # NoResult
  <2>1. cur[p] \in DOMAIN calls /\ calls[cur[p]].wg = 0
    BY <1>1, <1>2 DEF TypeOK, LeaderInv, Leading
  <2>2. Landed(cur[p]) # NoResult
    BY <1>1, <2>1, LandedIsResult
  <2> QED  BY <1>2, <2>2 DEF Given, InDo
<1>7. /\ [q \in Callers |-> KeyOn(q)'] = [q \in Callers |-> KeyOn(q)]
      /\ [q \in Callers |-> Given(q)'] = [q \in Callers |-> Given(q)]
      /\ [k \in Keys |-> FlightOf(k)'] =
            [[k \in Keys |-> FlightOf(k)] EXCEPT ![key[p]] = NoFlight]
      /\ {q \in Callers : Aloft(q)'} = {q \in Callers : Aloft(q)} \ {p}
  BY <1>3, <1>4
<1> QED  BY <1>5, <1>6, <1>7 DEF Flights!Close

\* Who leaves Do leaves the flight: with its result, or by a panic of fn.
LEMMA LeaveRefines ==
  ASSUME RInv, NEW p \in Callers, Return(p) \/ WaitReturn(p) \/ FnPanic(p)
  PROVE  IF FnPanic(p) THEN Flights!Panic(p) ELSE Flights!Leave(p)
<1>1. /\ TypeOK /\ CallInv /\ MapHoldsInFlight
      /\ \A q \in Callers : LeaderInv(q) /\ HolderInv(q)
  BY DEF RInv, IInv
<1>2. /\ pc[p] \in {"return", "wait", "fn"} /\ pc' = [pc EXCEPT ![p] = "idle"]
      /\ UNCHANGED <<m, key>>
      /\ \A q \in Callers : q # p => cur'[q] = cur[q]
      /\ FnPanic(p) <=> pc[p] = "fn"
      /\ FnPanic(p) => MayPanic
      /\ pc[p] = "wait" => calls[cur[p]].wg = 0
  BY <1>1 DEF Return, WaitReturn, FnPanic, Finished, TypeOK
<1>3. \A c \in DOMAIN calls : Landed(c)' = Landed(c)
  <2>1. CASE WaitReturn(p)
    BY <2>1 DEF WaitReturn, Landed
  <2>2. CASE Return(p) \/ FnPanic(p)
    <3>1. ~WgDone(p)
      BY <2>2 DEF Return, FnPanic, WgDone
    <3> QED  BY <1>1, <2>2, <3>1, StepKeepsCounter DEF Landed
  <2> QED  BY <2>1, <2>2
<1>4. \A k \in Keys : FlightOf(k)' = FlightOf(k)
  BY <1>1, <1>2, <1>3 DEF FlightOf, TypeOK
<1>5. \A q \in Callers : /\ KeyOn(q)' = IF q = p THEN NoKey ELSE KeyOn(q)
                         /\ Given(q)' = IF q = p THEN NoResult ELSE Given(q)
                         /\ Aloft(q)' <=> Aloft(q) /\ q # p
  <2>1. \A q \in Callers : pc'[q] = IF q = p THEN "idle" ELSE pc[q]
    BY <1>1, <1>2 DEF TypeOK
  <2>2. \A q \in InDo : cur[q] \in DOMAIN calls
    BY <1>1 DEF TypeOK, InDo
  <2>3. \A q \in Callers : q \in InDo' <=> q \in InDo /\ q # p
    BY <2>1 DEF InDo
  <2>4. \A q \in InDo : q # p => Landed(cur[q])' = Landed(cur[q])
    BY <1>2, <1>3, <2>2 DEF InDo, Landed
  <2> QED  BY <1>2, <2>1, <2>3, <2>4 DEF KeyOn, Given, Aloft
<1>6. /\ [q \in Callers |-> KeyOn(q)'] = [[q \in Callers |-> KeyOn(q)] EXCEPT ![p] = NoKey]
      /\ [k \in Keys |-> FlightOf(k)'] = [k \in Keys |-> FlightOf(k)]
      /\ [q \in Callers |-> Given(q)'] =
            [[q \in Callers |-> Given(q)] EXCEPT ![p] = NoResult]
  BY <1>4, <1>5
<1>7. cur[p] \in DOMAIN calls /\ Given(p) = Landed(cur[p])
  BY <1>1, <1>2 DEF TypeOK, Given, InDo
<1>8. CASE FnPanic(p)
  <2>1. Given(p) = NoResult /\ Aloft(p)
    BY <1>1, <1>2, <1>7, <1>8, LandedIsResult DEF LeaderInv, Leading, Aloft
  <2>2. {q \in Callers : Aloft(q)'} = {q \in Callers : Aloft(q)} \ {p}
    BY <1>5
  <2>3. [q \in Callers |-> Given(q)'] = [q \in Callers |-> Given(q)]
    BY <1>5, <2>1
  <2> QED  BY <1>2, <1>6, <1>8, <2>1, <2>2, <2>3 DEF Flights!Panic
<1>9. CASE ~FnPanic(p)
  <2>1. Given(p) # NoResult /\ ~Aloft(p)
    BY <1>1, <1>2, <1>7, <1>9, LandedIsResult DEF LeaderInv, Leading, Aloft
  <2>2. {q \in Callers : Aloft(q)'} = {q \in Callers : Aloft(q)}
    BY <1>5, <2>1
  <2> QED  BY <1>6, <1>9, <2>1, <2>2 DEF Flights!Leave
<1> QED  BY <1>8, <1>9

\* Every step of a goroutine is a step of Coalesce, or nothing to it.
LEMMA StepRefines == RInv /\ [Next]_vars => [Flights!Next]_(Flights!vars)
<1> SUFFICES ASSUME RInv, [Next]_vars  PROVE [Flights!Next]_(Flights!vars)
  OBVIOUS
<1>1. /\ TypeOK /\ \A q \in Callers : LeaderInv(q)
  BY DEF RInv, IInv
<1>2. CASE UNCHANGED vars
  BY <1>2, StutterStep DEF vars, Same, FlightOf, KeyOn, Given, Aloft, InDo, Landed
<1>3. ASSUME NEW p \in Callers, NEW k \in Keys, Do(p, k)
      PROVE  [Flights!Next]_(Flights!vars)
  <2>1. /\ pc[p] = "idle" /\ pc' = [pc EXCEPT ![p] = "lock"]
        /\ UNCHANGED <<m, calls>>
        /\ \A q \in Callers : q # p => key'[q] = key[q] /\ cur'[q] = cur[q]
    BY <1>1, <1>3 DEF Do, TypeOK
  <2>2. \A q \in Callers : /\ q \in InDo' <=> q \in InDo
                           /\ q \in InDo => q # p
                           /\ Aloft(q)' <=> Aloft(q)
    BY <1>1, <2>1 DEF InDo, Aloft, TypeOK
  <2>3. Same
    BY <2>1, <2>2 DEF Same, FlightOf, KeyOn, Given, Landed
  <2> QED  BY <2>3, StutterStep
<1>4. ASSUME NEW p \in Callers, NEW r \in Results, FnReturn(p, r)
      PROVE  [Flights!Next]_(Flights!vars)
  <2>1. /\ pc[p] = "fn" /\ pc' = [pc EXCEPT ![p] = "done"]
        /\ UNCHANGED <<m, key, cur>>
    BY <1>4 DEF FnReturn
  <2>2. \A c \in DOMAIN calls : Landed(c)' = Landed(c)
    <3>1. calls[cur[p]].wg = 1 /\ ~WgDone(p)
      BY <1>1, <2>1 DEF LeaderInv, Leading, WgDone
    <3>2. \A c \in DOMAIN calls : /\ calls'[c].wg = calls[c].wg
                                  /\ c # cur[p] => calls'[c] = calls[c]
      BY <1>1, <1>4, <3>1, StepKeepsCounter
    <3> QED  BY <3>1, <3>2 DEF Landed
  <2>3. \A q \in Callers : (q \in InDo' <=> q \in InDo) /\ (Aloft(q)' <=> Aloft(q))
    BY <1>1, <2>1 DEF InDo, Aloft, TypeOK
  <2>4. /\ \A q \in InDo : cur[q] \in DOMAIN calls
        /\ \A k \in Keys : m[k] # NoCall => m[k] \in DOMAIN calls
    BY <1>1 DEF TypeOK, InDo
  <2>5. /\ \A q \in InDo : Landed(cur[q])' = Landed(cur[q])
        /\ \A k \in Keys : m[k] # NoCall => Landed(m[k])' = Landed(m[k])
    BY <2>1, <2>2, <2>4 DEF Landed
  <2>6. Same
    BY <2>1, <2>3, <2>5 DEF Same, FlightOf, KeyOn, Given
  <2> QED  BY <2>6, StutterStep
<1>5. ASSUME NEW p \in Callers, Join(p) \/ Lead(p)
      PROVE  Flights!Next
  <2>1. key[p] \in Keys
    BY <1>1 DEF TypeOK
  <2> QED  BY <1>5, <2>1, JoinRefines, LeadRefines DEF Flights!Next
<1>6. ASSUME NEW p \in Callers,
             FnPanic(p) \/ WgDone(p) \/ Delete(p) \/ Return(p) \/ WaitReturn(p)
      PROVE  Flights!Next
  BY <1>6, WgDoneRefines, DeleteRefines, LeaveRefines DEF Flights!Next
<1> QED  BY <1>2, <1>3, <1>4, <1>5, <1>6 DEF Next, Step

\* Before anybody has called Do nothing is in the air.
LEMMA InitRefines == Init => Flights!Init /\ RInv
<1> SUFFICES ASSUME Init  PROVE Flights!Init /\ RInv
  OBVIOUS
<1>1. /\ \A k \in Keys : FlightOf(k) = NoFlight
      /\ \A p \in Callers : KeyOn(p) = NoKey /\ Given(p) = NoResult /\ ~Aloft(p)
  BY DEF Init, FlightOf, KeyOn, Given, Aloft, InDo
<1>2. WaitersInv
  BY DEF Init, WaitersInv
<1> QED  BY <1>1, <1>2, InitInv DEF Flights!Init, RInv

\* Do is what Coalesce says: one flight of a key at a time, led by one of those
\* who are on it, and landed once, with one result for all that are on it then.
THEOREM Implements == Spec => ImplementsCoalesce
<1>1. RInv /\ [Next]_vars => RInv'
  BY WaitersStay, Inductive DEF RInv
<1>2. Spec => []RInv
  BY <1>1, InitRefines, PTL DEF Spec
<1> QED
  BY <1>2, InitRefines, StepRefines, PTL DEF Spec, ImplementsCoalesce, Flights!Spec
=============================================================================
