-------------------------- MODULE Sequential_proof ---------------------------
(***************************************************************************)
(* The components that one goroutine runs: the store of geecache (LRU), a  *)
(* node of the tree of gee-bolt (BoltNode), and the router and the context *)
(* of gee-web (Router, Web).  Nothing interleaves in them; what is hard is *)
(* their data, of any size.  The first two parts say of numbers and of     *)
(* sequences what all of them need.                                        *)
(*                                                                         *)
(* put and del do to a node what they would do to a map from keys to       *)
(* values, for nodes of any length, leave it in order, and index finds in  *)
(* it what the map would have.                                             *)
(*                                                                         *)
(* The store's list is what has been used most recently (RecentInv), the   *)
(* index and the byte count follow it, and Add's loop stops as soon as the *)
(* store is within its budget (BudgetInv), for any sizes, any budget and   *)
(* stores of any length.                                                   *)
(*                                                                         *)
(* A trie that routes were inserted into stays a trie (IsTrie); if none of *)
(* them was shadowed, its nodes are their beginnings (Grown); and a search *)
(* finds a pattern exactly if there is one it looks for (Sound).  The      *)
(* index that the handlers of a request share is bounded by what they have *)
(* left to call (Weighs), and runs through the chain once (OrderInv).      *)
(***************************************************************************)
EXTENDS LRU, BoltNode, Web, SequenceTheorems, WellFoundedInduction, TLAPS

\* A non-empty set of numbers has a least element.
LEMMA LeastNumber ==
  ASSUME NEW S \in SUBSET Nat, S # {}
  PROVE  \E x \in S : \A y \in S : x <= y
<1> DEFINE R == {ss \in Nat \X Nat : ss[1] < ss[2]}
<1>1. IsWellFoundedOn(R, Nat)
  BY NatLessThanWellFounded DEF OpToRel
<1>2. PICK x \in S : \A y \in S : ~ (<<y, x>> \in R)
  <2> HIDE DEF R
  <2> QED  BY <1>1, WFMin, Zenon
<1>3. ASSUME NEW y \in S  PROVE x <= y
  <2>1. x \in Nat /\ y \in Nat
    OBVIOUS
  <2>2. ~ (y < x)
    BY <1>2, <2>1
  <2> QED  BY <2>1, <2>2
<1> QED  BY <1>3

\* A set of numbers with 0, and with the successor of each member, has all.
LEMMA Induction ==
  ASSUME NEW S \in SUBSET Nat, 0 \in S, \A i \in S : i + 1 \in S
  PROVE  S = Nat
<1> SUFFICES ASSUME S # Nat PROVE FALSE
  OBVIOUS
<1>1. PICK x \in Nat \ S : \A y \in Nat \ S : x <= y
  BY LeastNumber
<1>2. x - 1 \in Nat /\ x - 1 \notin Nat \ S
  BY <1>1
<1> QED  BY <1>1, <1>2

\* A set with 0 in it, and with every number its next, has them all up to n.
LEMMA UpTo ==
  ASSUME NEW n \in Nat, NEW S, 0 \in S,
         \A i \in 0 .. n - 1 : i \in S => i + 1 \in S
  PROVE  0 .. n \subseteq S
<1> DEFINE T == {i \in 0 .. n : i \notin S}
<1> SUFFICES ASSUME T # {}  PROVE FALSE
  OBVIOUS
<1>1. T \in SUBSET Nat
  OBVIOUS
<1>2. PICK x \in T : \A y \in T : x <= y
  <2> HIDE DEF T
  <2> QED  BY <1>1, LeastNumber
<1>3. x - 1 \in 0 .. n - 1 /\ x - 1 \notin T
  BY <1>2
<1> QED  BY <1>2, <1>3

\* What Min of FiniteSetsExt is, of a set of numbers.
LEMMA LeastIsMin ==
  ASSUME NEW S \in SUBSET Nat, S # {}
  PROVE  Min(S) \in S /\ \A y \in S : Min(S) <= y
<1>1. \E x \in S : \A y \in S : x <= y
  BY LeastNumber
<1> QED  BY <1>1 DEF Min

\* Products of numbers that are in order.
LEMMA Multiples ==
  ASSUME NEW d \in Nat, NEW n \in Nat, d <= n, NEW m \in Nat
  PROVE  /\ d * m \in Nat /\ n * m \in Nat /\ d * m <= n * m
         /\ (d + 1) * m = d * m + m
         /\ d >= 1 => m <= d * m
OBVIOUS

\* A value that is computed step by step, each from the one before.
Iterates(g, n, a, f) ==
    g[0] = a /\ \A h \in 1 .. n : g[h] = f[<<g[h - 1], h>>]

\* What is computed step by step from any value exists.
LEMMA Iterated ==
  ASSUME NEW S, NEW n \in Nat, NEW a \in S, NEW f \in [S \X (1 .. n) -> S]
  PROVE  \E g \in [0 .. n -> S] : Iterates(g, n, a, f)
<1> DEFINE Works(m, g) == Iterates(g, m, a, f)
           T == {m \in 0 .. n : \E g \in [0 .. m -> S] : Works(m, g)}
<1>1. 0 \in T
  <2>1. [h \in 0 .. 0 |-> a] \in [0 .. 0 -> S] /\ Works(0, [h \in 0 .. 0 |-> a])
    BY DEF Iterates
  <2> HIDE DEF Works
  <2> QED  BY <2>1
<1>2. ASSUME NEW m \in 0 .. n - 1, m \in T  PROVE m + 1 \in T
  <2>1. PICK g \in [0 .. m -> S] : Works(m, g)
    BY <1>2
  <2> DEFINE next == f[<<g[m], m + 1>>]
             more == [h \in 0 .. m + 1 |-> IF h <= m THEN g[h] ELSE next]
  <2>2. next \in S
    BY <1>2
  <2> HIDE DEF next
  <2>3. more \in [0 .. m + 1 -> S]
    BY <2>2
  <2>4. more[0] = a
    BY <2>1 DEF Iterates
  <2>5. ASSUME NEW h \in 1 .. m + 1  PROVE more[h] = f[<<more[h - 1], h>>]
    <3>1. CASE h = m + 1
      BY <3>1 DEF next
    <3>2. CASE h # m + 1
      <4>1. h \in 1 .. m /\ h \in 0 .. m + 1 /\ h - 1 \in 0 .. m + 1
        BY <3>2
      <4>2. more[h] = g[h] /\ more[h - 1] = g[h - 1]
        BY <4>1
      <4> QED  BY <2>1, <4>1, <4>2 DEF Iterates
    <3> QED  BY <3>1, <3>2
  <2>6. Works(m + 1, more)
    BY <2>4, <2>5 DEF Iterates
  <2> HIDE DEF more, Works
  <2> QED  BY <2>3, <2>6
<1>3. n \in T
  <2> HIDE DEF T
  <2>1. 0 .. n \subseteq T
    BY <1>1, <1>2, UpTo
  <2> QED  BY <2>1
<1> QED  BY <1>3

-----------------------------------------------------------------------------
(* Sequences *)

\* The elements of a sequence into which e was inserted at i.
LEMMA Inserted ==
  ASSUME NEW S, NEW s \in Seq(S), NEW i \in 1 .. Len(s) + 1, NEW e \in S
  PROVE  /\ InsertAt(s, i, e) \in Seq(S)
         /\ Len(InsertAt(s, i, e)) = Len(s) + 1
         /\ \A j \in 1 .. Len(s) + 1 :
               InsertAt(s, i, e)[j] = IF j < i THEN s[j]
                                      ELSE IF j = i THEN e ELSE s[j - 1]
<1> DEFINE n == Len(s)
           front == SubSeq(s, 1, i - 1)
           back == SubSeq(s, i, n)
           most == front \o <<e>>
<1>1. n \in Nat /\ 1 <= i /\ i <= n + 1 /\ i \in Nat
  OBVIOUS
<1>2. /\ front \in Seq(S) /\ Len(front) = i - 1
      /\ \A j \in 1 .. i - 1 : front[j] = s[j]
  BY <1>1, SubSeqProperties
<1>3. /\ back \in Seq(S) /\ Len(back) = n - i + 1
      /\ \A j \in 1 .. n - i + 1 : back[j] = s[i + j - 1]
  BY <1>1, SubSeqProperties
<1> HIDE DEF front, back
<1>4. /\ most \in Seq(S) /\ Len(most) = i
      /\ \A j \in 1 .. i : most[j] = IF j < i THEN s[j] ELSE e
  BY <1>1, <1>2
<1> HIDE DEF most
<1>5. InsertAt(s, i, e) = most \o back
  BY DEF InsertAt, most, front, back
<1>6. /\ most \o back \in Seq(S) /\ Len(most \o back) = n + 1
      /\ \A j \in 1 .. n + 1 : (most \o back)[j] =
            IF j <= i THEN most[j] ELSE back[j - i]
  BY <1>1, <1>3, <1>4, ConcatProperties
<1> DEFINE all == most \o back
<1> HIDE DEF all
<1>7. ASSUME NEW j \in 1 .. n + 1
      PROVE  all[j] = IF j < i THEN s[j]
                                 ELSE IF j = i THEN e ELSE s[j - 1]
  <2>1. CASE j <= i
    BY <1>1, <1>4, <1>6, <2>1 DEF all
  <2>2. CASE j > i
    <3>1. j - i \in 1 .. n - i + 1 /\ i + (j - i) - 1 = j - 1
      BY <1>1, <2>2
    <3>2. back[j - i] = s[i + (j - i) - 1]
      BY <1>3, <3>1
    <3>3. ~ (j < i) /\ j # i /\ ~ (j <= i)
      BY <1>1, <2>2
    <3> QED  BY <1>6, <3>1, <3>2, <3>3 DEF all
  <2> QED  BY <1>1, <2>1, <2>2
<1> QED  BY <1>5, <1>6, <1>7 DEF all

\* The elements of a sequence from which the one at i was removed.
LEMMA Removed ==
  ASSUME NEW S, NEW s \in Seq(S), NEW i \in 1 .. Len(s)
  PROVE  /\ RemoveAt(s, i) \in Seq(S)
         /\ Len(RemoveAt(s, i)) = Len(s) - 1
         /\ \A j \in 1 .. Len(s) - 1 :
               RemoveAt(s, i)[j] = IF j < i THEN s[j] ELSE s[j + 1]
<1> DEFINE n == Len(s)
           front == SubSeq(s, 1, i - 1)
           back == SubSeq(s, i + 1, n)
<1>1. n \in Nat /\ 1 <= i /\ i <= n /\ i \in Nat
  OBVIOUS
<1>2. /\ front \in Seq(S) /\ Len(front) = i - 1
      /\ \A j \in 1 .. i - 1 : front[j] = s[j]
  BY <1>1, SubSeqProperties
<1>3. back \in Seq(S) /\ Len(back) = n - i
  BY <1>1, SubSeqProperties
<1>4. \A j \in 1 .. n - i : back[j] = s[i + j]
  BY <1>1, SubSeqProperties
<1>5. RemoveAt(s, i) = front \o back
  BY DEF RemoveAt
<1> HIDE DEF front, back
<1>6. /\ front \o back \in Seq(S) /\ Len(front \o back) = n - 1
      /\ \A j \in 1 .. n - 1 : (front \o back)[j] =
            IF j < i THEN front[j] ELSE back[j - (i - 1)]
  <2>1. /\ front \o back \in Seq(S)
        /\ Len(front \o back) = Len(front) + Len(back)
        /\ \A j \in 1 .. Len(front) + Len(back) : (front \o back)[j] =
              IF j <= Len(front) THEN front[j] ELSE back[j - Len(front)]
    BY <1>2, <1>3, ConcatProperties
  <2>2. Len(front) + Len(back) = n - 1
    BY <1>1, <1>2, <1>3
  <2>3. \A j \in 1 .. n - 1 : j <= Len(front) <=> j < i
    BY <1>1, <1>2
  <2> QED  BY <1>2, <2>1, <2>2, <2>3
<1> DEFINE all == front \o back
<1> HIDE DEF all
<1>7. ASSUME NEW j \in 1 .. n - 1
      PROVE  all[j] = IF j < i THEN s[j] ELSE s[j + 1]
  <2>1. CASE j < i
    BY <1>1, <1>2, <1>6, <2>1 DEF all
  <2>2. CASE j >= i
    <3>1. j - (i - 1) \in 1 .. n - i /\ i + (j - (i - 1)) = j + 1
      BY <1>1, <2>2
    <3>2. back[j - (i - 1)] = s[i + (j - (i - 1))]
      BY <1>4, <3>1
    <3>3. ~ (j < i)
      BY <1>1, <2>2
    <3> QED  BY <1>6, <3>1, <3>2, <3>3 DEF all
  <2> QED  BY <1>1, <2>1, <2>2
<1> QED  BY <1>5, <1>6, <1>7 DEF all

\* The elements of a sequence in front of which e was put.
LEMMA Pushed ==
  ASSUME NEW S, NEW s \in Seq(S), NEW e \in S
  PROVE  /\ <<e>> \o s \in Seq(S) /\ Len(<<e>> \o s) = Len(s) + 1
         /\ (<<e>> \o s)[1] = e
         /\ \A j \in 2 .. Len(s) + 1 : (<<e>> \o s)[j] = s[j - 1]
OBVIOUS

\* The elements of a sequence one of which was replaced and put in front.
LEMMA Fronted ==
  ASSUME NEW S, NEW s \in Seq(S), NEW x \in 1 .. Len(s), NEW e \in S
  PROVE  /\ <<e>> \o RemoveAt(s, x) \in Seq(S)
         /\ Len(<<e>> \o RemoveAt(s, x)) = Len(s)
         /\ (<<e>> \o RemoveAt(s, x))[1] = e
         /\ \A j \in 2 .. Len(s) : (<<e>> \o RemoveAt(s, x))[j] =
                                     IF j <= x THEN s[j - 1] ELSE s[j]
<1> DEFINE r == RemoveAt(s, x)
           n == Len(s)
           t == <<e>> \o r
<1>1. /\ r \in Seq(S) /\ Len(r) = n - 1
      /\ \A j \in 1 .. n - 1 : r[j] = IF j < x THEN s[j] ELSE s[j + 1]
  BY Removed
<1>2. n \in Nat /\ n >= 1 /\ x \in 1 .. n
  OBVIOUS
<1> HIDE DEF r, t
<1>3. /\ t \in Seq(S) /\ Len(t) = n /\ t[1] = e
      /\ \A j \in 2 .. n : t[j] = r[j - 1]
  <2>1. Len(r) + 1 = n
    BY <1>1, <1>2
  <2>2. r \in Seq(S)
    BY <1>1
  <2>3. /\ <<e>> \o r \in Seq(S) /\ Len(<<e>> \o r) = Len(r) + 1
        /\ (<<e>> \o r)[1] = e
        /\ \A j \in 2 .. Len(r) + 1 : (<<e>> \o r)[j] = r[j - 1]
    BY <2>2, Pushed
  <2> QED  BY <2>1, <2>3 DEF t
<1>4. ASSUME NEW j \in 2 .. n  PROVE t[j] = IF j <= x THEN s[j - 1] ELSE s[j]
  <2>1. j - 1 \in 1 .. n - 1 /\ (j - 1 < x <=> j <= x) /\ (j - 1) + 1 = j
    BY <1>2
  <2> QED  BY <1>1, <1>3, <2>1
<1> QED  BY <1>3, <1>4 DEF t, r

\* The first element that equals e, if there is one, is taken out.
LEMMA FirstRemoved ==
  ASSUME NEW S, NEW s \in Seq(S), NEW e \in S
  PROVE  \/ /\ \A i \in 1 .. Len(s) : s[i] # e
            /\ RemoveFirst(s, e) = s
         \/ \E x \in 1 .. Len(s) :
               s[x] = e /\ RemoveFirst(s, e) = RemoveAt(s, x)
<1>1. CASE \A i \in 1 .. Len(s) : s[i] # e
  BY <1>1 DEF RemoveFirst
<1>2. CASE \E i \in 1 .. Len(s) : s[i] = e
  <2> DEFINE I == {i \in 1 .. Len(s) : s[i] = e}
             x == Min(I)
  <2>1. SelectInSeq(s, LAMBDA v : v = e) = x
    BY <1>2 DEF SelectInSeq
  <2>2. x \in I
    <3>1. \E m \in I : \A y \in I : m <= y
      <4>1. I \in SUBSET Nat /\ I # {}
        BY <1>2
      <4> HIDE DEF I
      <4> QED  BY <4>1, LeastNumber
    <3> HIDE DEF I
    <3> QED  BY <3>1 DEF Min
  <2>3. RemoveFirst(s, e) = RemoveAt(s, SelectInSeq(s, LAMBDA v : v = e))
    BY <1>2 DEF RemoveFirst
  <2> HIDE DEF x
  <2> QED  BY <2>1, <2>2, <2>3
<1> QED  BY <1>1, <1>2

\* The first h elements of q.
Cut(q, h) == SubSeq(q, 1, h)

\* The first h elements of a sequence.
LEMMA CutIs ==
  ASSUME NEW S, NEW q \in Seq(S), NEW h \in 0 .. Len(q)
  PROVE  /\ Cut(q, h) \in Seq(S) /\ Len(Cut(q, h)) = h
         /\ \A i \in 1 .. h : Cut(q, h)[i] = q[i]
<1>1. \A i \in 1 .. h : q[i] \in S
  BY LenProperties
<1> QED  BY <1>1, SubSeqProperties DEF Cut

\* None of them, and all.
LEMMA CutEnds ==
  ASSUME NEW S, NEW q \in Seq(S)
  PROVE  Cut(q, 0) = << >> /\ Cut(q, Len(q)) = q
BY SubSeqFull, SubSeqEmpty DEF Cut

\* The beginning of a beginning.
LEMMA CutOfCut ==
  ASSUME NEW S, NEW q \in Seq(S), NEW h \in 0 .. Len(q), NEW k \in 0 .. h
  PROVE  Cut(Cut(q, h), k) = Cut(q, k)
<1>1. Cut(q, h) \in Seq(S) /\ Len(Cut(q, h)) = h
      /\ \A i \in 1 .. h : Cut(q, h)[i] = q[i]
  BY CutIs
<1>2. k \in 0 .. Len(q) /\ k \in 0 .. Len(Cut(q, h))
  BY <1>1
<1>3. Cut(q, k) \in Seq(S) /\ Len(Cut(q, k)) = k
      /\ \A i \in 1 .. k : Cut(q, k)[i] = q[i]
  BY <1>2, CutIs
<1>4. Cut(Cut(q, h), k) \in Seq(S) /\ Len(Cut(Cut(q, h), k)) = k
      /\ \A i \in 1 .. k : Cut(Cut(q, h), k)[i] = Cut(q, h)[i]
  BY <1>1, <1>2, CutIs
<1>5. \A i \in 1 .. Len(Cut(q, k)) : Cut(Cut(q, h), k)[i] = Cut(q, k)[i]
  BY <1>1, <1>3, <1>4
<1> QED  BY <1>3, <1>4, <1>5, SeqEqual

\* What is appended leaves the beginnings alone.
LEMMA CutOfAppend ==
  ASSUME NEW S, NEW q \in Seq(S), NEW x \in S, NEW k \in 0 .. Len(q)
  PROVE  Cut(Append(q, x), k) = Cut(q, k)
<1>1. Append(q, x) \in Seq(S) /\ Len(Append(q, x)) = Len(q) + 1
      /\ \A i \in 1 .. Len(q) : Append(q, x)[i] = q[i]
  BY AppendProperties
<1>2. k \in 0 .. Len(Append(q, x))
  BY <1>1
<1>3. Cut(q, k) \in Seq(S) /\ Len(Cut(q, k)) = k
      /\ \A i \in 1 .. k : Cut(q, k)[i] = q[i]
  BY CutIs
<1>4. Cut(Append(q, x), k) \in Seq(S) /\ Len(Cut(Append(q, x), k)) = k
      /\ \A i \in 1 .. k : Cut(Append(q, x), k)[i] = Append(q, x)[i]
  BY <1>1, <1>2, CutIs
<1>5. \A i \in 1 .. Len(Cut(q, k)) : Cut(Append(q, x), k)[i] = Cut(q, k)[i]
  BY <1>1, <1>3, <1>4
<1> QED  BY <1>3, <1>4, <1>5, SeqEqual

\* A beginning that is longer by one.
LEMMA CutGrows ==
  ASSUME NEW S, NEW q \in Seq(S), NEW h \in 1 .. Len(q)
  PROVE  Cut(q, h) = Append(Cut(q, h - 1), q[h])
<1>1. h \in 0 .. Len(q) /\ h - 1 \in 0 .. Len(q) /\ q[h] \in S
  BY LenProperties
<1>2. Cut(q, h) \in Seq(S) /\ Len(Cut(q, h)) = h
      /\ \A i \in 1 .. h : Cut(q, h)[i] = q[i]
  BY <1>1, CutIs
<1>3. Cut(q, h - 1) \in Seq(S) /\ Len(Cut(q, h - 1)) = h - 1
      /\ \A i \in 1 .. h - 1 : Cut(q, h - 1)[i] = q[i]
  BY <1>1, CutIs
<1>4. /\ Append(Cut(q, h - 1), q[h]) \in Seq(S)
      /\ Len(Append(Cut(q, h - 1), q[h])) = h
      /\ \A i \in 1 .. h - 1 : Append(Cut(q, h - 1), q[h])[i] = Cut(q, h - 1)[i]
      /\ Append(Cut(q, h - 1), q[h])[h] = q[h]
  BY <1>1, <1>3, AppendProperties
<1> DEFINE r == Append(Cut(q, h - 1), q[h])
<1> HIDE DEF r
<1>5. ASSUME NEW i \in 1 .. h  PROVE r[i] = Cut(q, h)[i]
  <2>1. CASE i = h
    BY <1>2, <1>4, <2>1 DEF r
  <2>2. CASE i # h
    <3>1. i \in 1 .. h - 1
      BY <2>2
    <3> QED  BY <1>2, <1>3, <1>4, <3>1 DEF r
  <2> QED  BY <2>1, <2>2
<1> QED  BY <1>2, <1>4, <1>5, SeqEqual DEF r

-----------------------------------------------------------------------------
(* The bytes of a list *)

\* The bytes of the first entries of s.
Sums(f, s) == /\ f \in [0 .. Len(s) -> Nat] /\ f[0] = 0
              /\ \A i \in 1 .. Len(s) : f[i] = f[i - 1] + Size(s[i])

\* The size of an entry is a number.
LEMMA SizeIsNat ==
  ASSUME NEW e \in Entry
  PROVE  Size(e) \in Nat
BY LenAssumption DEF Entry, Size

\* What a list weighs exists, and is what Bytes computes.
LEMMA SumsOf ==
  ASSUME NEW s \in Seq(Entry)
  PROVE  \E f : Sums(f, s) /\ Bytes(s) = f[Len(s)]
<1> DEFINE Adds(f, n) ==
              f = [i \in 0 .. n |-> IF i = 0 THEN 0 ELSE f[i - 1] + Size(s[i])]
           S == {n \in Nat : \E f : Adds(f, n)}
<1>1. 0 \in S
  <2> DEFINE f == [i \in 0 .. 0 |-> 0]
  <2>1. Adds(f, 0)
    BY 0 .. 0 = {0}
  <2> QED  BY <2>1
<1>2. ASSUME NEW n \in S  PROVE n + 1 \in S
  <2>1. PICK f : Adds(f, n)
    OBVIOUS
  <2> DEFINE g == [i \in 0 .. n + 1 |-> IF i = n + 1 THEN f[n] + Size(s[n + 1])
                                        ELSE f[i]]
  <2>2. ASSUME NEW i \in 0 .. n + 1
        PROVE  g[i] = IF i = 0 THEN 0 ELSE g[i - 1] + Size(s[i])
    <3>1. n \in Nat
      OBVIOUS
    <3>2. CASE i = n + 1
      <4>1. g[i] = f[n] + Size(s[n + 1]) /\ g[i - 1] = f[n] /\ i # 0
        BY <3>1, <3>2
      <4> QED  BY <3>2, <4>1
    <3>3. CASE i = 0
      BY <2>1, <3>1, <3>3
    <3>4. CASE i \in 1 .. n
      <4>1. f[i] = f[i - 1] + Size(s[i])
        BY <2>1, <3>1, <3>4
      <4>2. g[i] = f[i] /\ g[i - 1] = f[i - 1] /\ i # 0
        BY <3>1, <3>4
      <4> QED  BY <4>1, <4>2
    <3> QED  BY <3>1, <3>2, <3>3, <3>4
  <2>3. Adds(g, n + 1)
    <3> DEFINE h == [i \in 0 .. n + 1 |-> IF i = 0 THEN 0
                                          ELSE g[i - 1] + Size(s[i])]
    <3>1. g = h
      BY <2>2
    <3> QED  BY <3>1
  <2> HIDE DEF g, Adds
  <2> QED  BY <2>3
<1>3. Len(s) \in S
  <2>1. S \in SUBSET Nat
    OBVIOUS
  <2>2. \A n \in S : n + 1 \in S
    BY <1>2
  <2>3. S = Nat
    <3> HIDE DEF S
    <3> QED  BY <1>1, <2>1, <2>2, Induction
  <2> HIDE DEF S
  <2> QED  BY <2>3
<1> DEFINE f == CHOOSE f : Adds(f, Len(s))
<1>4. Adds(f, Len(s))
  <2> HIDE DEF Adds
  <2> QED  BY <1>3
<1>5. Bytes(s) = f[Len(s)]
  BY DEF Bytes
<1> HIDE DEF f
<1>6. Len(s) \in Nat /\ \A i \in 1 .. Len(s) : Size(s[i]) \in Nat
  BY SizeIsNat
<1>7. /\ DOMAIN f = 0 .. Len(s) /\ f = [i \in DOMAIN f |-> f[i]]
      /\ f[0] = 0
      /\ \A i \in 1 .. Len(s) : f[i] = f[i - 1] + Size(s[i])
  BY <1>4, <1>6
<1>8. \A i \in 0 .. Len(s) : f[i] \in Nat
  <2> DEFINE N == {i \in Nat : i \in 0 .. Len(s) => f[i] \in Nat}
  <2>1. 0 \in N /\ N \in SUBSET Nat
    BY <1>7
  <2>2. ASSUME NEW i \in N  PROVE i + 1 \in N
    <3> SUFFICES ASSUME i + 1 \in 0 .. Len(s)  PROVE f[i + 1] \in Nat
      OBVIOUS
    <3>1. i + 1 \in 1 .. Len(s) /\ f[i] \in Nat /\ (i + 1) - 1 = i
      BY <1>6
    <3>2. Size(s[i + 1]) \in Nat /\ f[i + 1] = f[i] + Size(s[i + 1])
      BY <1>6, <1>7, <3>1
    <3> QED  BY <3>1, <3>2
  <2>3. N = Nat
    <3> HIDE DEF N
    <3> QED  BY <2>1, <2>2, Induction
  <2> QED  BY <2>3
<1> QED  BY <1>5, <1>7, <1>8 DEF Sums

LEMMA BytesIsNat ==
  ASSUME NEW s \in Seq(Entry)
  PROVE  Bytes(s) \in Nat
<1>1. PICK f : Sums(f, s) /\ Bytes(s) = f[Len(s)]
  BY SumsOf
<1> QED  BY <1>1 DEF Sums

LEMMA BytesOfEmpty == Bytes(<< >>) = 0
<1>1. << >> \in Seq(Entry)
  OBVIOUS
<1>2. PICK f : Sums(f, << >>) /\ Bytes(<< >>) = f[Len(<< >>)]
  BY <1>1, SumsOf
<1> QED  BY <1>2 DEF Sums

\* An entry in front adds its size.
LEMMA BytesOfPushed ==
  ASSUME NEW s \in Seq(Entry), NEW e \in Entry
  PROVE  Bytes(<<e>> \o s) = Size(e) + Bytes(s)
<1> DEFINE t == <<e>> \o s
           n == Len(s)
<1>1. /\ t \in Seq(Entry) /\ Len(t) = n + 1 /\ t[1] = e
      /\ \A j \in 2 .. n + 1 : t[j] = s[j - 1]
  BY Pushed
<1> HIDE DEF t
<1>2. PICK f : Sums(f, s) /\ Bytes(s) = f[n]
  BY SumsOf
<1>3. PICK g : Sums(g, t) /\ Bytes(t) = g[n + 1]
  BY <1>1, SumsOf
<1>4. Size(e) \in Nat /\ n \in Nat
  BY SizeIsNat
<1> DEFINE S == {i \in Nat : i \in 0 .. n => g[i + 1] = Size(e) + f[i]}
<1>5. 0 \in S /\ S \in SUBSET Nat
  <2>1. 1 \in 1 .. Len(t) /\ g[1] = g[1 - 1] + Size(t[1])
    BY <1>1, <1>3, <1>4 DEF Sums
  <2>2. g[1 - 1] = 0 /\ f[0] = 0
    BY <1>2, <1>3 DEF Sums
  <2> QED  BY <1>1, <1>4, <2>1, <2>2
<1>6. ASSUME NEW i \in S  PROVE i + 1 \in S
  <2> SUFFICES ASSUME i + 1 \in 0 .. n
               PROVE  g[(i + 1) + 1] = Size(e) + f[i + 1]
    OBVIOUS
  <2>1. /\ i \in Nat /\ i \in 0 .. n /\ g[i + 1] = Size(e) + f[i]
        /\ i + 1 \in 1 .. n /\ i + 2 \in 1 .. Len(t) /\ i + 2 \in 2 .. n + 1
    BY <1>1, <1>4
  <2>2. f[i] \in Nat /\ Size(s[i + 1]) \in Nat
    <3>1. s[i + 1] \in Entry
      BY <2>1
    <3>2. f \in [0 .. n -> Nat]
      BY <1>2 DEF Sums
    <3> QED  BY <2>1, <3>1, <3>2, SizeIsNat
  <2>3. f[i + 1] = f[(i + 1) - 1] + Size(s[i + 1])
    BY <1>2, <2>1 DEF Sums
  <2>4. g[i + 2] = g[(i + 2) - 1] + Size(t[i + 2])
    BY <1>3, <2>1 DEF Sums
  <2>5. t[i + 2] = s[(i + 2) - 1]
    BY <1>1, <2>1
  <2>6. /\ (i + 2) - 1 = i + 1 /\ (i + 1) - 1 = i /\ (i + 1) + 1 = i + 2
    BY <2>1
  <2> QED  BY <1>4, <2>1, <2>2, <2>3, <2>4, <2>5, <2>6
<1>7. S = Nat
  <2> HIDE DEF S
  <2> QED  BY <1>5, <1>6, Induction
<1>8. g[n + 1] = Size(e) + f[n]
  BY <1>4, <1>7
<1> QED  BY <1>2, <1>3, <1>8 DEF t

\* An entry that is taken out takes its size with it.
LEMMA BytesOfRemoved ==
  ASSUME NEW s \in Seq(Entry), NEW x \in 1 .. Len(s)
  PROVE  Bytes(RemoveAt(s, x)) = Bytes(s) - Size(s[x])
<1> DEFINE t == RemoveAt(s, x)
           n == Len(s)
           z == Size(s[x])
<1>1. /\ t \in Seq(Entry) /\ Len(t) = n - 1
      /\ \A j \in 1 .. n - 1 : t[j] = IF j < x THEN s[j] ELSE s[j + 1]
  BY Removed
<1>2. PICK f : Sums(f, s) /\ Bytes(s) = f[n]
  BY SumsOf
<1> HIDE DEF t
<1>3. PICK g : Sums(g, t) /\ Bytes(t) = g[n - 1]
  BY <1>1, SumsOf
<1>4. z \in Nat /\ n \in Nat /\ n >= 1 /\ x \in 1 .. n
  BY SizeIsNat
<1> DEFINE S == {i \in Nat : i \in 0 .. n - 1 =>
                                g[i] = IF i < x THEN f[i] ELSE f[i + 1] - z}
<1>5. 0 \in S /\ S \in SUBSET Nat
  <2>1. g[0] = 0 /\ f[0] = 0
    BY <1>2, <1>3 DEF Sums
  <2> QED  BY <1>4, <2>1
<1>6. ASSUME NEW i \in S  PROVE i + 1 \in S
  <2> SUFFICES ASSUME i + 1 \in 0 .. n - 1
               PROVE  g[i + 1] = IF i + 1 < x THEN f[i + 1]
                                 ELSE f[(i + 1) + 1] - z
    OBVIOUS
  <2>1. /\ i \in Nat /\ i \in 0 .. n - 1 /\ i + 1 \in 1 .. n - 1
        /\ g[i] = IF i < x THEN f[i] ELSE f[i + 1] - z
        /\ i + 1 \in 1 .. n /\ i + 2 \in 1 .. n /\ i + 1 \in 1 .. Len(t)
    BY <1>1, <1>4
  <2>2. f[i] \in Nat /\ f[i + 1] \in Nat /\ f[i + 2] \in Nat
    <3>1. f \in [0 .. n -> Nat]
      BY <1>2 DEF Sums
    <3>2. i \in 0 .. n /\ i + 1 \in 0 .. n /\ i + 2 \in 0 .. n
      BY <1>4, <2>1
    <3> QED  BY <3>1, <3>2
  <2>3. f[i + 1] = f[(i + 1) - 1] + Size(s[i + 1])
    BY <1>2, <2>1 DEF Sums
  <2>4. f[i + 2] = f[(i + 2) - 1] + Size(s[i + 2])
    BY <1>2, <2>1 DEF Sums
  <2>5. g[i + 1] = g[(i + 1) - 1] + Size(t[i + 1])
    BY <1>3, <2>1 DEF Sums
  <2>6. (i + 2) - 1 = i + 1 /\ (i + 1) - 1 = i /\ (i + 1) + 1 = i + 2
    BY <2>1
  <2>7. Size(s[i + 1]) \in Nat /\ Size(s[i + 2]) \in Nat
    <3>1. s[i + 1] \in Entry /\ s[i + 2] \in Entry
      BY <2>1
    <3> QED  BY <3>1, SizeIsNat
  <2>8. CASE i + 1 < x
    <3>1. t[i + 1] = s[i + 1] /\ g[i] = f[i]
      BY <1>1, <1>4, <2>1, <2>8
    <3> QED  BY <2>3, <2>5, <2>6, <2>8, <3>1
  <2>9. CASE i + 1 = x
    <3>1. t[i + 1] = s[i + 2] /\ g[i] = f[i] /\ z = Size(s[i + 1])
      BY <1>1, <1>4, <2>1, <2>6, <2>9
    <3> QED  BY <2>2, <2>3, <2>4, <2>5, <2>6, <2>7, <2>9, <3>1
  <2>10. CASE i + 1 > x
    <3>1. t[i + 1] = s[i + 2] /\ g[i] = f[i + 1] - z
      BY <1>1, <1>4, <2>1, <2>6, <2>10
    <3> QED  BY <1>4, <2>1, <2>2, <2>4, <2>5, <2>6, <2>7, <2>10, <3>1
  <2> QED  BY <1>4, <2>1, <2>8, <2>9, <2>10
<1>7. S = Nat
  <2> HIDE DEF S
  <2> QED  BY <1>5, <1>6, Induction
<1>8. g[n - 1] = IF n - 1 < x THEN f[n - 1] ELSE f[(n - 1) + 1] - z
  <2>1. n - 1 \in S
    BY <1>4, <1>7
  <2> QED  BY <1>4, <2>1
<1>9. f[n] = f[n - 1] + Size(s[n]) /\ f[n - 1] \in Nat
  BY <1>2, <1>4 DEF Sums
<1>10. CASE x = n
  BY <1>2, <1>3, <1>4, <1>8, <1>9, <1>10 DEF t
<1>11. CASE x # n
  <2>1. ~(n - 1 < x) /\ (n - 1) + 1 = n
    BY <1>4, <1>11
  <2> QED  BY <1>2, <1>3, <1>8, <2>1 DEF t
<1> QED  BY <1>10, <1>11

-----------------------------------------------------------------------------
(* The pairs of a node *)

\* A node's pairs have numbers for keys.
LEMMA PairsAt ==
  ASSUME NEW kvs \in Seq(KV)
  PROVE  \A j \in 1 .. Len(kvs) : kvs[j] \in KV /\ kvs[j].key \in Nat
<1>1. \A j \in 1 .. Len(kvs) : kvs[j] \in KV
  OBVIOUS
<1> QED  BY <1>1 DEF KV

\* What Index finds, on any sequence of pairs.
LEMMA IndexFinds ==
  ASSUME NEW kvs \in Seq(KV), NEW key \in Nat
  PROVE  LET i == Index(kvs, key)
         IN  /\ i \in 1 .. Len(kvs) + 1
             /\ i <= Len(kvs) => kvs[i].key >= key
             /\ \A j \in 1 .. i - 1 : kvs[j].key < key
<1> DEFINE S == {i \in 1 .. Len(kvs) + 1 : i <= Len(kvs) => kvs[i].key >= key}
<1>1. Len(kvs) + 1 \in S /\ S \in SUBSET Nat
  OBVIOUS
<1>2. PICK i \in S : \A j \in S : i <= j
  <2> HIDE DEF S
  <2> QED  BY <1>1, LeastNumber
<1>3. ASSUME NEW j \in 1 .. i - 1  PROVE kvs[j].key < key
  <2>1. j \in 1 .. Len(kvs) /\ ~ (i <= j)
    BY <1>2
  <2>2. j \notin S
    BY <1>2, <2>1
  <2>3. kvs[j] \in KV
    BY <2>1
  <2> QED  BY <2>1, <2>2, <2>3 DEF KV
<1>4. \E k \in 1 .. Len(kvs) + 1 :
         /\ k <= Len(kvs) => kvs[k].key >= key
         /\ \A j \in 1 .. k - 1 : kvs[j].key < key
  BY <1>2, <1>3
<1> HIDE DEF S
<1> QED  BY <1>4 DEF Index

\* In order, every pair from Index on is behind the key or is the key's.
LEMMA IndexSplits ==
  ASSUME NEW kvs \in Seq(KV), InOrder(kvs), NEW key \in Nat
  PROVE  LET i == Index(kvs, key)
         IN  /\ i \in 1 .. Len(kvs) + 1
             /\ \A j \in 1 .. Len(kvs) : j < i => kvs[j].key < key
             /\ \A j \in 1 .. Len(kvs) : j > i => kvs[j].key > key
             /\ Exact(kvs, key) => i \in 1 .. Len(kvs) /\ kvs[i].key = key
             /\ ~ Exact(kvs, key) /\ i <= Len(kvs) => kvs[i].key > key
<1> DEFINE i == Index(kvs, key)
<1>1. /\ i \in 1 .. Len(kvs) + 1
      /\ i <= Len(kvs) => kvs[i].key >= key
      /\ \A j \in 1 .. i - 1 : kvs[j].key < key
  BY IndexFinds
<1>2. Exact(kvs, key) <=> i <= Len(kvs) /\ kvs[i].key = key
  BY DEF Exact
<1> HIDE DEF i
<1>3. \A j \in 1 .. Len(kvs) : kvs[j].key \in Nat
  BY PairsAt
<1>4. ASSUME NEW j \in 1 .. Len(kvs), j > i  PROVE kvs[j].key > key
  <2>1. i \in 1 .. Len(kvs) /\ kvs[i].key >= key
    BY <1>1, <1>4
  <2>2. kvs[i].key < kvs[j].key
    BY <1>4, <2>1 DEF InOrder
  <2> QED  BY <1>3, <2>1, <2>2
<1>5. ASSUME NEW j \in 1 .. Len(kvs), j < i  PROVE kvs[j].key < key
  BY <1>1, <1>5
<1>6. ~ Exact(kvs, key) /\ i <= Len(kvs) => kvs[i].key > key
  BY <1>1, <1>2, <1>3
<1> QED  BY <1>1, <1>2, <1>4, <1>5, <1>6 DEF i

\* put leaves the node in order and the pair of newKey in it, in the place of
\* the pair of oldKey and beside all the others, if newKey keeps oldKey's
\* place.  (node.go does not check that it does.)
THEOREM PutReplaces ==
  ASSUME NEW kvs \in Seq(KV), InOrder(kvs), NEW value \in Value,
         NEW oldKey \in Nat, NEW newKey \in Nat,
         KeepsPlace(kvs, oldKey, newKey)
  PROVE  LET new == Put(kvs, oldKey, newKey, value)
         IN  /\ new \in Seq(KV) /\ InOrder(new)
             /\ Pairs(new) = {c \in Pairs(kvs) : c.key # oldKey}
                             \cup {[key |-> newKey, value |-> value]}
<1> DEFINE new == Put(kvs, oldKey, newKey, value)
           e == [key |-> newKey, value |-> value]
           i == Index(kvs, oldKey)
           n == Len(kvs)
           others == {c \in Pairs(kvs) : c.key # oldKey}
<1>1. /\ i \in 1 .. n + 1
      /\ \A j \in 1 .. n : j < i => kvs[j].key < oldKey
      /\ \A j \in 1 .. n : j > i => kvs[j].key > oldKey
      /\ Exact(kvs, oldKey) => i \in 1 .. n /\ kvs[i].key = oldKey
      /\ ~ Exact(kvs, oldKey) /\ i <= n => kvs[i].key > oldKey
  BY IndexSplits
<1>2. new = IF Exact(kvs, oldKey) THEN ReplaceAt(kvs, i, e)
                                  ELSE InsertAt(kvs, i, e)
  BY DEF Put
<1>3. e \in KV /\ e.key = newKey
  BY DEF KV
<1> HIDE DEF i, e, new
<1>4. n \in Nat /\ \A j \in 1 .. n : kvs[j] \in KV /\ kvs[j].key \in Nat
  BY PairsAt
<1>5. \A j \in 1 .. n : /\ kvs[j].key < oldKey => kvs[j].key < newKey
                        /\ kvs[j].key > oldKey => kvs[j].key > newKey
  BY DEF KeepsPlace, Pairs
<1>6. CASE Exact(kvs, oldKey)
  <2>1. /\ new \in Seq(KV) /\ Len(new) = n
        /\ \A j \in 1 .. n : new[j] = IF j = i THEN e ELSE kvs[j]
    BY <1>1, <1>2, <1>3, <1>6 DEF ReplaceAt
  <2>2. InOrder(new)
    <3>1. ASSUME NEW j \in 1 .. n, NEW k \in 1 .. n, j < k
          PROVE  new[j].key < new[k].key
      <4>1. CASE j = i
        BY <1>1, <1>3, <1>5, <2>1, <3>1, <4>1
      <4>2. CASE k = i
        BY <1>1, <1>3, <1>5, <2>1, <3>1, <4>2
      <4>3. CASE j # i /\ k # i
        BY <2>1, <3>1, <4>3 DEF InOrder
      <4> QED  BY <4>1, <4>2, <4>3
    <3> QED  BY <2>1, <3>1 DEF InOrder
  <2>3. Pairs(new) \subseteq others \cup {e}
    <3>1. ASSUME NEW j \in 1 .. n, j # i  PROVE kvs[j].key # oldKey
      BY <1>1, <1>4, <1>6, <3>1
    <3> QED  BY <2>1, <3>1 DEF Pairs
  <2>4. others \cup {e} \subseteq Pairs(new)
    <3>1. ASSUME NEW j \in 1 .. n, kvs[j].key # oldKey
          PROVE  kvs[j] \in Pairs(new)
      <4>1. j # i
        BY <1>1, <1>6, <3>1
      <4> QED  BY <2>1, <4>1 DEF Pairs
    <3>2. e \in Pairs(new)
      BY <1>1, <1>6, <2>1 DEF Pairs
    <3> QED  BY <3>1, <3>2 DEF Pairs
  <2> QED  BY <2>1, <2>2, <2>3, <2>4 DEF new, e
<1>7. CASE ~ Exact(kvs, oldKey)
  <2>1. /\ new \in Seq(KV) /\ Len(new) = n + 1
        /\ \A j \in 1 .. n + 1 : new[j] = IF j < i THEN kvs[j]
                                          ELSE IF j = i THEN e ELSE kvs[j - 1]
    <3>1. new = InsertAt(kvs, i, e)
      BY <1>2, <1>7
    <3>2. i \in 1 .. Len(kvs) + 1 /\ e \in KV
      BY <1>1, <1>3
    <3> HIDE DEF n
    <3>3. /\ InsertAt(kvs, i, e) \in Seq(KV)
          /\ Len(InsertAt(kvs, i, e)) = Len(kvs) + 1
          /\ \A j \in 1 .. Len(kvs) + 1 : InsertAt(kvs, i, e)[j] =
                IF j < i THEN kvs[j] ELSE IF j = i THEN e ELSE kvs[j - 1]
      BY <3>2, Inserted
    <3> QED  BY <3>1, <3>3 DEF n
  <2>2. ASSUME NEW j \in 1 .. n
        PROVE  /\ kvs[j].key # oldKey
               /\ j < i => kvs[j].key < newKey
               /\ j >= i => kvs[j].key > newKey
    <3>1. CASE j < i
      BY <1>1, <1>4, <1>5, <3>1
    <3>2. CASE j >= i
      <4>1. kvs[j].key > oldKey
        BY <1>1, <1>7, <3>2
      <4> QED  BY <1>4, <1>5, <1>1, <3>2, <4>1
    <3> QED  BY <1>1, <3>1, <3>2
  <2>3. InOrder(new)
    <3>1. ASSUME NEW j \in 1 .. n + 1, NEW k \in 1 .. n + 1, j < k
          PROVE  new[j].key < new[k].key
      <4>1. CASE j = i
        <5>1. new[k] = kvs[k - 1] /\ k - 1 \in 1 .. n /\ k - 1 >= i
          BY <1>1, <1>4, <2>1, <3>1, <4>1
        <5> QED  BY <1>3, <2>1, <2>2, <4>1, <5>1, <1>4
      <4>2. CASE k = i
        <5>1. new[j] = kvs[j] /\ j \in 1 .. n /\ j < i
          BY <1>1, <1>4, <2>1, <3>1, <4>2
        <5> QED  BY <1>3, <2>1, <2>2, <4>2, <5>1
      <4>3. CASE j # i /\ k # i
        <5> DEFINE p == IF j < i THEN j ELSE j - 1
                   q == IF k < i THEN k ELSE k - 1
        <5>1. new[j] = kvs[p] /\ new[k] = kvs[q]
          BY <2>1, <4>3
        <5>2. p \in 1 .. n /\ q \in 1 .. n /\ p < q
          BY <1>1, <1>4, <3>1, <4>3
        <5> QED  BY <5>1, <5>2 DEF InOrder
      <4> QED  BY <4>1, <4>2, <4>3
    <3> QED  BY <2>1, <3>1 DEF InOrder
  <2>4. Pairs(new) \subseteq others \cup {e}
    <3>1. ASSUME NEW j \in 1 .. n + 1  PROVE new[j] \in others \cup {e}
      <4>1. CASE j < i
        BY <1>1, <1>4, <2>1, <2>2, <4>1 DEF Pairs
      <4>2. CASE j = i
        BY <2>1, <4>2
      <4>3. CASE j > i
        <5>1. j - 1 \in 1 .. n /\ new[j] = kvs[j - 1]
          BY <1>1, <1>4, <2>1, <4>3
        <5> QED  BY <2>2, <5>1 DEF Pairs
      <4> QED  BY <1>1, <4>1, <4>2, <4>3
    <3> QED  BY <2>1, <3>1 DEF Pairs
  <2>5. others \cup {e} \subseteq Pairs(new)
    <3>1. ASSUME NEW j \in 1 .. n  PROVE kvs[j] \in Pairs(new)
      <4>1. CASE j < i
        BY <1>1, <1>4, <2>1, <4>1 DEF Pairs
      <4>2. CASE j >= i
        <5>1. j + 1 \in 1 .. n + 1 /\ new[j + 1] = kvs[j]
          BY <1>1, <1>4, <2>1, <4>2
        <5> QED  BY <2>1, <5>1 DEF Pairs
      <4> QED  BY <1>1, <4>1, <4>2
    <3>2. e \in Pairs(new)
      BY <1>1, <2>1 DEF Pairs
    <3> QED  BY <3>1, <3>2 DEF Pairs
  <2> QED  BY <2>1, <2>3, <2>4, <2>5 DEF new, e
<1> QED  BY <1>6, <1>7

\* del takes the pair of the key out of the node, if there is one, and
\* nothing else, and leaves the node in order.
THEOREM DelRemoves ==
  ASSUME NEW kvs \in Seq(KV), InOrder(kvs), NEW key \in Nat
  PROVE  LET new == Del(kvs, key)
         IN  /\ new \in Seq(KV) /\ InOrder(new)
             /\ Pairs(new) = {c \in Pairs(kvs) : c.key # key}
<1> DEFINE new == Del(kvs, key)
           i == Index(kvs, key)
           n == Len(kvs)
           others == {c \in Pairs(kvs) : c.key # key}
<1>1. /\ i \in 1 .. n + 1
      /\ \A j \in 1 .. n : j < i => kvs[j].key < key
      /\ \A j \in 1 .. n : j > i => kvs[j].key > key
      /\ Exact(kvs, key) => i \in 1 .. n /\ kvs[i].key = key
      /\ ~ Exact(kvs, key) /\ i <= n => kvs[i].key > key
  BY IndexSplits
<1>2. new = IF Exact(kvs, key) THEN RemoveAt(kvs, i) ELSE kvs
  BY DEF Del
<1> HIDE DEF i, new
<1>3. n \in Nat /\ \A j \in 1 .. n : kvs[j] \in KV /\ kvs[j].key \in Nat
  BY PairsAt
<1>4. CASE Exact(kvs, key)
  <2>1. /\ new \in Seq(KV) /\ Len(new) = n - 1
        /\ \A j \in 1 .. n - 1 : new[j] = IF j < i THEN kvs[j] ELSE kvs[j + 1]
    <3>1. new = RemoveAt(kvs, i) /\ i \in 1 .. Len(kvs)
      BY <1>1, <1>2, <1>4
    <3> QED  BY <3>1, Removed
  <2>2. InOrder(new)
    <3>1. ASSUME NEW j \in 1 .. n - 1, NEW k \in 1 .. n - 1, j < k
          PROVE  new[j].key < new[k].key
      <4> DEFINE p == IF j < i THEN j ELSE j + 1
                 q == IF k < i THEN k ELSE k + 1
      <4>1. new[j] = kvs[p] /\ new[k] = kvs[q]
        BY <2>1
      <4>2. p \in 1 .. n /\ q \in 1 .. n /\ p < q
        BY <1>1, <1>3, <3>1
      <4> QED  BY <4>1, <4>2 DEF InOrder
    <3> QED  BY <2>1, <3>1 DEF InOrder
  <2>3. Pairs(new) \subseteq others
    <3>1. ASSUME NEW j \in 1 .. n - 1  PROVE new[j] \in others
      <4>1. CASE j < i
        <5>1. j \in 1 .. n /\ new[j] = kvs[j] /\ kvs[j].key < key
          BY <1>1, <1>3, <2>1, <4>1
        <5> QED  BY <1>3, <5>1 DEF Pairs
      <4>2. CASE j >= i
        <5>1. j + 1 \in 1 .. n /\ j + 1 > i /\ new[j] = kvs[j + 1]
          BY <1>1, <1>3, <2>1, <4>2
        <5>2. kvs[j + 1].key > key
          BY <1>1, <5>1
        <5> QED  BY <1>3, <5>1, <5>2 DEF Pairs
      <4> QED  BY <1>1, <4>1, <4>2
    <3> QED  BY <2>1, <3>1 DEF Pairs
  <2>4. others \subseteq Pairs(new)
    <3>1. ASSUME NEW j \in 1 .. n, kvs[j].key # key  PROVE kvs[j] \in Pairs(new)
      <4>1. j # i
        BY <1>1, <1>4, <3>1
      <4>2. CASE j < i
        <5>1. j \in 1 .. n - 1 /\ new[j] = kvs[j]
          BY <1>1, <1>3, <1>4, <2>1, <4>2
        <5> QED  BY <2>1, <5>1 DEF Pairs
      <4>3. CASE j > i
        <5>1. j - 1 \in 1 .. n - 1 /\ new[j - 1] = kvs[j]
          BY <1>1, <1>3, <1>4, <2>1, <4>3
        <5> QED  BY <2>1, <5>1 DEF Pairs
      <4> QED  BY <1>1, <4>1, <4>2, <4>3
    <3> QED  BY <3>1 DEF Pairs
  <2> QED  BY <2>1, <2>2, <2>3, <2>4 DEF new
<1>5. CASE ~ Exact(kvs, key)
  <2>1. ASSUME NEW j \in 1 .. n  PROVE kvs[j].key # key
    <3>1. j < i \/ j = i \/ j > i
      BY <1>1
    <3> QED  BY <1>1, <1>3, <1>5, <3>1
  <2> QED  BY <1>2, <1>5, <2>1 DEF Pairs, new
<1> QED  BY <1>4, <1>5

\* In order, index finds the pair of a key exactly if there is one.
LEMMA ExactFinds ==
  ASSUME NEW kvs \in Seq(KV), InOrder(kvs), NEW key \in Nat
  PROVE  /\ Exact(kvs, key) <=> \E c \in Pairs(kvs) : c.key = key
         /\ \A c \in Pairs(kvs) : c.key = key => kvs[Index(kvs, key)] = c
<1> DEFINE i == Index(kvs, key)
<1>1. /\ i \in 1 .. Len(kvs) + 1
      /\ \A j \in 1 .. Len(kvs) : j < i => kvs[j].key < key
      /\ \A j \in 1 .. Len(kvs) : j > i => kvs[j].key > key
      /\ Exact(kvs, key) => i \in 1 .. Len(kvs) /\ kvs[i].key = key
  BY IndexSplits
<1>2. Exact(kvs, key) <=> i <= Len(kvs) /\ kvs[i].key = key
  BY DEF Exact
<1> HIDE DEF i
<1>3. \A j \in 1 .. Len(kvs) : kvs[j].key \in Nat
  BY PairsAt
<1>4. ASSUME NEW j \in 1 .. Len(kvs), kvs[j].key = key  PROVE j = i
  BY <1>1, <1>3, <1>4
<1>5. ASSUME NEW c \in Pairs(kvs), c.key = key
      PROVE  Exact(kvs, key) /\ kvs[i] = c
  <2>1. PICK j \in 1 .. Len(kvs) : c = kvs[j]
    BY DEF Pairs
  <2>2. j = i
    BY <1>4, <1>5, <2>1
  <2> QED  BY <1>2, <1>5, <2>1, <2>2
<1>6. Exact(kvs, key) => \E c \in Pairs(kvs) : c.key = key
  BY <1>1 DEF Pairs
<1> QED  BY <1>5, <1>6 DEF i

\* After a put index finds the new pair, and every other key as before, but
\* for oldKey if it is another: a node is a map from keys to values.
THEOREM PutIsFound ==
  ASSUME NEW kvs \in Seq(KV), InOrder(kvs), NEW value \in Value,
         NEW oldKey \in Nat, NEW newKey \in Nat,
         KeepsPlace(kvs, oldKey, newKey)
  PROVE  LET new == Put(kvs, oldKey, newKey, value)
         IN  /\ Exact(new, newKey)
             /\ new[Index(new, newKey)] = [key |-> newKey, value |-> value]
             /\ \A key \in Nat \ {newKey} :
                   /\ Exact(new, key) <=> Exact(kvs, key) /\ key # oldKey
                   /\ Exact(new, key) =>
                         new[Index(new, key)] = kvs[Index(kvs, key)]
<1> DEFINE new == Put(kvs, oldKey, newKey, value)
           e == [key |-> newKey, value |-> value]
<1>1. /\ new \in Seq(KV) /\ InOrder(new)
      /\ Pairs(new) = {c \in Pairs(kvs) : c.key # oldKey} \cup {e}
  BY PutReplaces
<1>2. e.key = newKey
  OBVIOUS
<1> HIDE DEF new, e
<1>3. Exact(new, newKey) /\ new[Index(new, newKey)] = e
  BY <1>1, <1>2, ExactFinds
<1>4. ASSUME NEW key \in Nat \ {newKey}
      PROVE  /\ Exact(new, key) <=> Exact(kvs, key) /\ key # oldKey
             /\ Exact(new, key) => new[Index(new, key)] = kvs[Index(kvs, key)]
  <2>1. \A c : c.key = key =>
           (c \in Pairs(new) <=> c \in Pairs(kvs) /\ key # oldKey)
    BY <1>1, <1>2
  <2>2. /\ Exact(new, key) <=> \E c \in Pairs(new) : c.key = key
        /\ \A c \in Pairs(new) : c.key = key => new[Index(new, key)] = c
    BY <1>1, ExactFinds
  <2>3. /\ Exact(kvs, key) <=> \E c \in Pairs(kvs) : c.key = key
        /\ \A c \in Pairs(kvs) : c.key = key => kvs[Index(kvs, key)] = c
    BY ExactFinds
  <2> QED  BY <2>1, <2>2, <2>3
<1> QED  BY <1>3, <1>4 DEF new, e

\* After a del index finds every key as before, but for the one deleted.
THEOREM DelIsMissed ==
  ASSUME NEW kvs \in Seq(KV), InOrder(kvs), NEW gone \in Nat
  PROVE  LET new == Del(kvs, gone)
         IN  \A key \in Nat :
                /\ Exact(new, key) <=> Exact(kvs, key) /\ key # gone
                /\ Exact(new, key) =>
                      new[Index(new, key)] = kvs[Index(kvs, key)]
<1> DEFINE new == Del(kvs, gone)
<1>1. /\ new \in Seq(KV) /\ InOrder(new)
      /\ Pairs(new) = {c \in Pairs(kvs) : c.key # gone}
  BY DelRemoves
<1> HIDE DEF new
<1>2. ASSUME NEW key \in Nat
      PROVE  /\ Exact(new, key) <=> Exact(kvs, key) /\ key # gone
             /\ Exact(new, key) => new[Index(new, key)] = kvs[Index(kvs, key)]
  <2>1. \A c : c.key = key =>
           (c \in Pairs(new) <=> c \in Pairs(kvs) /\ key # gone)
    BY <1>1
  <2>2. /\ Exact(new, key) <=> \E c \in Pairs(new) : c.key = key
        /\ \A c \in Pairs(new) : c.key = key => new[Index(new, key)] = c
    BY <1>1, ExactFinds
  <2>3. /\ Exact(kvs, key) <=> \E c \in Pairs(kvs) : c.key = key
        /\ \A c \in Pairs(kvs) : c.key = key => kvs[Index(kvs, key)] = c
    BY ExactFinds
  <2> QED  BY <2>1, <2>2, <2>3
<1> QED  BY <1>2 DEF new

-----------------------------------------------------------------------------
(* The store *)

Distinct(seq) == \A i, j \in DOMAIN seq : seq[i] = seq[j] => i = j

\* The list follows the order of use.
RecentInv ==
    /\ Distinct(recent)
    /\ Len(ll) <= Len(recent)
    /\ \A i \in 1 .. Len(ll) : ll[i].key = recent[i]
                               /\ ll[i].value = latest[ll[i].key]

\* While Add's loop runs, and after it.
BudgetInv ==
    /\ ~adding /\ maxBytes > 0 => nbytes <= maxBytes
    /\ dropped # 0 => maxBytes # 0 /\ nbytes + dropped > maxBytes

IInv == TypeOK /\ PartsAgree /\ RecentInv /\ BudgetInv

\* What PartsAgree says of the positions in the list.
LEMMA Places ==
  ASSUME TypeOK, PartsAgree
  PROVE  /\ \A i \in 1 .. Len(ll) : ll[i] \in Entry /\ ll[i].key \in cache
         /\ \A k \in cache : /\ Pos(k) \in 1 .. Len(ll)
                             /\ ll[Pos(k)].key = k
<1>1. ll \in Seq(Entry) /\ DOMAIN ll = 1 .. Len(ll)
  BY DEF TypeOK
<1>2. cache = {ll[i].key : i \in 1 .. Len(ll)}
  BY <1>1 DEF PartsAgree, ToSet, ListKeys
<1>3. \A i \in 1 .. Len(ll) : ll[i] \in Entry /\ ll[i].key \in cache
  BY <1>1, <1>2
<1>4. ASSUME NEW k \in cache
      PROVE  Pos(k) \in 1 .. Len(ll) /\ ll[Pos(k)].key = k
  <2>1. \E i \in DOMAIN ll : ll[i].key = k
    BY <1>1, <1>2
  <2> QED  BY <1>1, <2>1, Zenon DEF Pos
<1> QED  BY <1>3, <1>4

\* The order of use after k: k, then the others as they were.
LEMMA UsedFirst ==
  ASSUME NEW k \in Keys, recent \in Seq(Keys), Distinct(recent), UsedNow(k)
  PROVE  /\ recent' \in Seq(Keys) /\ Distinct(recent') /\ recent'[1] = k
         /\ \/ /\ \A i \in 1 .. Len(recent) : recent[i] # k
               /\ Len(recent') = Len(recent) + 1
               /\ \A j \in 2 .. Len(recent) + 1 : recent'[j] = recent[j - 1]
            \/ \E x \in 1 .. Len(recent) :
                  /\ recent[x] = k
                  /\ Len(recent') = Len(recent)
                  /\ \A j \in 2 .. Len(recent) :
                        recent'[j] = IF j <= x THEN recent[j - 1] ELSE recent[j]
<1> DEFINE n == Len(recent)
<1>1. n \in Nat /\ DOMAIN recent = 1 .. n
  OBVIOUS
<1>2. \A i, j \in 1 .. n : recent[i] = recent[j] => i = j
  BY <1>1 DEF Distinct
<1>3. CASE /\ \A i \in 1 .. n : recent[i] # k
           /\ RemoveFirst(recent, k) = recent
  <2>1. recent' = <<k>> \o recent
    BY <1>3 DEF UsedNow
  <2>2. /\ recent' \in Seq(Keys) /\ Len(recent') = n + 1 /\ recent'[1] = k
        /\ \A j \in 2 .. n + 1 : recent'[j] = recent[j - 1]
    BY <2>1, Pushed
  <2>3. Distinct(recent')
    <3>1. DOMAIN recent' = 1 .. n + 1
      BY <2>2
    <3> SUFFICES ASSUME NEW i \in 1 .. n + 1, NEW j \in 1 .. n + 1,
                        recent'[i] = recent'[j]
                 PROVE  i = j
      BY <3>1 DEF Distinct
    <3>2. CASE i = 1 /\ j = 1
      BY <3>2
    <3>3. CASE i = 1 /\ j \in 2 .. n + 1
      <4>1. j - 1 \in 1 .. n
        BY <1>1, <3>3
      <4> QED  BY <1>3, <2>2, <3>3, <4>1
    <3>4. CASE j = 1 /\ i \in 2 .. n + 1
      <4>1. i - 1 \in 1 .. n
        BY <1>1, <3>4
      <4> QED  BY <1>3, <2>2, <3>4, <4>1
    <3>5. CASE i \in 2 .. n + 1 /\ j \in 2 .. n + 1
      <4>1. i - 1 \in 1 .. n /\ j - 1 \in 1 .. n
        BY <1>1, <3>5
      <4>2. recent[i - 1] = recent[j - 1]
        BY <2>2, <3>5
      <4>3. i - 1 = j - 1
        BY <1>2, <4>1, <4>2
      <4> QED  BY <1>1, <3>5, <4>3
    <3> QED  BY <1>1, <3>2, <3>3, <3>4, <3>5
  <2> QED  BY <1>3, <2>2, <2>3
<1>4. ASSUME NEW x \in 1 .. n, recent[x] = k,
             RemoveFirst(recent, k) = RemoveAt(recent, x)
      PROVE  /\ recent' \in Seq(Keys) /\ Distinct(recent') /\ recent'[1] = k
             /\ Len(recent') = n
             /\ \A j \in 2 .. n :
                   recent'[j] = IF j <= x THEN recent[j - 1] ELSE recent[j]
  <2>1. recent' = <<k>> \o RemoveAt(recent, x)
    BY <1>4 DEF UsedNow
  <2>2. /\ recent' \in Seq(Keys) /\ Len(recent') = n /\ recent'[1] = k
        /\ \A j \in 2 .. n :
              recent'[j] = IF j <= x THEN recent[j - 1] ELSE recent[j]
    <3>1. k \in Keys /\ recent \in Seq(Keys) /\ x \in 1 .. Len(recent)
      OBVIOUS
    <3> QED  BY <2>1, <3>1, Fronted
  <2>3. Distinct(recent')
    <3> DEFINE from(j) == IF j = 1 THEN x ELSE IF j <= x THEN j - 1 ELSE j
    <3>1. DOMAIN recent' = 1 .. n
      BY <2>2
    <3>2. ASSUME NEW j \in 1 .. n
          PROVE  from(j) \in 1 .. n /\ recent'[j] = recent[from(j)]
      <4>1. CASE j = 1
        BY <1>1, <1>4, <2>2, <4>1
      <4>2. CASE j \in 2 .. n
        <5>1. from(j) = IF j <= x THEN j - 1 ELSE j
          BY <1>1, <4>2
        <5>2. recent'[j] = recent[from(j)]
          BY <2>2, <4>2, <5>1
        <5>3. from(j) \in 1 .. n
          BY <1>1, <4>2, <5>1
        <5> QED  BY <5>2, <5>3
      <4> QED  BY <1>1, <4>1, <4>2
    <3>3. \A i, j \in 1 .. n : from(i) = from(j) => i = j
      BY <1>1
    <3> HIDE DEF from
    <3> SUFFICES ASSUME NEW i \in 1 .. n, NEW j \in 1 .. n,
                        recent'[i] = recent'[j]
                 PROVE  i = j
      BY <3>1 DEF Distinct
    <3>4. from(i) = from(j)
      BY <1>2, <3>2
    <3> QED  BY <3>3, <3>4
  <2> QED  BY <2>2, <2>3
<1>5. \/ /\ \A i \in 1 .. n : recent[i] # k
         /\ RemoveFirst(recent, k) = recent
      \/ \E x \in 1 .. n : recent[x] = k
                           /\ RemoveFirst(recent, k) = RemoveAt(recent, x)
  BY FirstRemoved
<1>6. CASE \E x \in 1 .. n : recent[x] = k
                             /\ RemoveFirst(recent, k) = RemoveAt(recent, x)
  <2>1. PICK x \in 1 .. n : recent[x] = k
                            /\ RemoveFirst(recent, k) = RemoveAt(recent, x)
    BY <1>6
  <2> QED  BY <1>4, <2>1
<1> QED  BY <1>3, <1>5, <1>6

\* Keys that follow the order of use are each in the list once.
LEMMA KeysOnce ==
  ASSUME NEW list \in Seq(Entry), NEW used \in Seq(Keys), Distinct(used),
         Len(list) <= Len(used),
         \A i \in 1 .. Len(list) : list[i].key = used[i]
  PROVE  \A i, j \in DOMAIN list : list[i].key = list[j].key => i = j
<1>1. DOMAIN list = 1 .. Len(list) /\ DOMAIN used = 1 .. Len(used)
  OBVIOUS
<1>2. \A i \in 1 .. Len(list) : i \in 1 .. Len(used)
  OBVIOUS
<1> QED  BY <1>1, <1>2 DEF Distinct

\* The keys of a list, as PartsAgree names them.
LEMMA KeysAre ==
  ASSUME NEW list \in Seq(Entry), NEW K,
         \A i \in 1 .. Len(list) : list[i].key \in K,
         \A k \in K : \E i \in 1 .. Len(list) : list[i].key = k
  PROVE  K = ToSet([i \in DOMAIN list |-> list[i].key])
BY DOMAIN list = 1 .. Len(list) DEF ToSet

\* An entry of k takes the place of the one the list has, in front.
LEMMA FrontKeeps ==
  ASSUME TypeOK, PartsAgree, RecentInv,
         NEW k \in cache, NEW e \in Entry, e.key = k,
         ll' = <<e>> \o RemoveAt(ll, Pos(k)), UsedNow(k), cache' = cache,
         latest' \in [Keys -> Values \cup {None}], latest'[k] = e.value,
         \A j \in Keys \ {k} : latest'[j] = latest[j],
         nbytes' = Size(e) + nbytes - Size(ll[Pos(k)])
  PROVE  /\ ll' \in Seq(Entry) /\ recent' \in Seq(Keys) /\ nbytes' \in Nat
         /\ PartsAgree' /\ RecentInv'
<1> DEFINE n == Len(ll)
           p == Pos(k)
<1>1. /\ ll \in Seq(Entry) /\ n \in Nat /\ p \in 1 .. n /\ ll[p].key = k
      /\ \A i \in 1 .. n : ll[i] \in Entry /\ ll[i].key \in cache
      /\ \A c \in cache : \E i \in 1 .. n : ll[i].key = c
      /\ cache \subseteq Keys
  <2>1. ll \in Seq(Entry) /\ cache \subseteq Keys
    BY DEF TypeOK
  <2>2. n \in Nat /\ p \in 1 .. n /\ ll[p].key = k
    BY Places, LenProperties, <2>1
  <2>3. \A i \in 1 .. n : ll[i] \in Entry /\ ll[i].key \in cache
    BY Places
  <2>4. \A c \in cache : \E i \in 1 .. n : ll[i].key = c
    BY Places
  <2> QED  BY <2>1, <2>2, <2>3, <2>4
<1>2. /\ ll' \in Seq(Entry) /\ Len(ll') = n /\ ll'[1] = e
      /\ \A j \in 2 .. n : ll'[j] = IF j <= p THEN ll[j - 1] ELSE ll[j]
  <2> HIDE DEF p
  <2>1. ll' = <<e>> \o RemoveAt(ll, p)
    BY DEF p
  <2>2. ll \in Seq(Entry) /\ p \in 1 .. Len(ll)
    BY <1>1
  <2> DEFINE t == <<e>> \o RemoveAt(ll, p)
  <2>3. /\ t \in Seq(Entry) /\ Len(t) = Len(ll) /\ t[1] = e
        /\ \A j \in 2 .. Len(ll) : t[j] = IF j <= p THEN ll[j - 1] ELSE ll[j]
    BY <2>2, Fronted
  <2> HIDE DEF t
  <2>4. ll' = t
    BY <2>1 DEF t
  <2> QED  BY <2>3, <2>4
<1>3. /\ recent \in Seq(Keys) /\ Distinct(recent) /\ n <= Len(recent)
      /\ Len(recent) \in Nat
      /\ \A i \in 1 .. n : ll[i].key = recent[i]
                           /\ ll[i].value = latest[ll[i].key]
  BY DEF TypeOK, RecentInv
<1>4. /\ recent' \in Seq(Keys) /\ Distinct(recent') /\ recent'[1] = k
      /\ Len(recent') = Len(recent)
      /\ \A j \in 2 .. Len(recent) :
            recent'[j] = IF j <= p THEN recent[j - 1] ELSE recent[j]
  <2>1. p \in 1 .. Len(recent) /\ recent[p] = k
    BY <1>1, <1>3
  <2>2. \A x \in 1 .. Len(recent) : recent[x] = k => x = p
    BY <1>3, <2>1 DEF Distinct
  <2>3. k \in Keys
    BY <1>1
  <2> QED  BY <1>3, <2>1, <2>2, <2>3, UsedFirst
<1> HIDE DEF p
<1>5. ASSUME NEW j \in 1 .. n
      PROVE  /\ ll'[j].key = recent'[j]
             /\ ll'[j].value = latest'[ll'[j].key]
             /\ ll'[j].key \in cache
  <2>1. CASE j = 1
    BY <1>2, <1>4, <2>1
  <2>2. CASE j \in 2 .. n
    <3> DEFINE m == IF j <= p THEN j - 1 ELSE j
    <3>1. m \in 1 .. n /\ m # p
      BY <1>1, <2>2
    <3>2. ll'[j] = ll[m]
      BY <1>2, <2>2
    <3>3. recent'[j] = recent[m]
      BY <1>3, <1>4, <2>2
    <3> HIDE DEF m
    <3>4. ll[m].key \in Keys \ {k}
      <4>1. ll[m].key # ll[p].key
        BY <1>1, <3>1 DEF PartsAgree
      <4> QED  BY <1>1, <3>1, <4>1
    <3>5. ll[m].key = recent[m] /\ ll[m].value = latest[ll[m].key]
      BY <1>3, <3>1
    <3>6. latest'[ll[m].key] = latest[ll[m].key]
      BY <3>4
    <3> QED  BY <1>1, <3>1, <3>2, <3>3, <3>5, <3>6
  <2>3. j = 1 \/ j \in 2 .. n
    BY <1>1
  <2> QED  BY <2>1, <2>2, <2>3
<1>6. RecentInv'
  BY <1>2, <1>3, <1>4, <1>5 DEF RecentInv
<1>7. ASSUME NEW c \in cache  PROVE \E j \in 1 .. n : ll'[j].key = c
  <2>1. PICK i \in 1 .. n : ll[i].key = c
    BY <1>1
  <2>2. CASE i = p
    BY <1>1, <1>2, <2>1, <2>2
  <2>3. CASE i < p
    <3>1. i + 1 \in 2 .. n /\ i + 1 <= p /\ (i + 1) - 1 = i
      BY <1>1, <2>1, <2>3
    <3>2. ll'[i + 1] = ll[i]
      BY <1>2, <3>1
    <3>3. i + 1 \in 1 .. n
      BY <1>1, <3>1
    <3> QED  BY <2>1, <3>2, <3>3
  <2>4. CASE i > p
    <3>1. i \in 2 .. n /\ ~(i <= p)
      BY <1>1, <2>1, <2>4
    <3>2. ll'[i] = ll[i]
      BY <1>2, <3>1
    <3> QED  BY <2>1, <3>1, <3>2
  <2>5. i = p \/ i < p \/ i > p
    BY <1>1, <2>1
  <2> QED  BY <2>2, <2>3, <2>4, <2>5
<1>8. nbytes' = Bytes(ll') /\ nbytes' \in Nat
  <2>1. RemoveAt(ll, p) \in Seq(Entry)
    BY <1>1, Removed
  <2>2. Bytes(ll') = Size(e) + Bytes(RemoveAt(ll, p))
    BY <2>1, BytesOfPushed DEF p
  <2>3. Bytes(RemoveAt(ll, p)) = Bytes(ll) - Size(ll[p])
    BY <1>1, BytesOfRemoved
  <2>4. Size(e) \in Nat /\ Size(ll[p]) \in Nat /\ Bytes(ll) \in Nat
    BY <1>1, SizeIsNat, BytesIsNat
  <2>5. nbytes = Bytes(ll)
    BY DEF PartsAgree
  <2>6. Bytes(ll') \in Nat
    BY <1>2, BytesIsNat
  <2> QED  BY <2>2, <2>3, <2>4, <2>5, <2>6 DEF p
<1>9. PartsAgree'
  <2>1. cache' = ToSet([i \in DOMAIN ll' |-> ll'[i].key])
    <3>1. /\ \A i \in 1 .. Len(ll') : ll'[i].key \in cache'
          /\ \A c \in cache' : \E i \in 1 .. Len(ll') : ll'[i].key = c
      BY <1>2, <1>5, <1>7
    <3> QED  BY <1>2, <3>1, KeysAre
  <2>2. \A i, j \in DOMAIN ll' : ll'[i].key = ll'[j].key => i = j
    <3> DEFINE list == ll'
               used == recent'
    <3>1. /\ list \in Seq(Entry) /\ used \in Seq(Keys) /\ Distinct(used)
          /\ Len(list) <= Len(used)
          /\ \A i \in 1 .. Len(list) : list[i].key = used[i]
      BY <1>2, <1>3, <1>4, <1>5
    <3> HIDE DEF list, used
    <3>2. \A i, j \in DOMAIN list : list[i].key = list[j].key => i = j
      BY <3>1, KeysOnce
    <3> QED  BY <3>2 DEF list
  <2> QED  BY <1>8, <2>1, <2>2 DEF PartsAgree, ListKeys
<1> QED  BY <1>2, <1>4, <1>6, <1>8, <1>9

\* The last entry, and only it, goes.
LEMMA DropKeeps ==
  ASSUME TypeOK, PartsAgree, RecentInv, DropBack, UNCHANGED <<recent, latest>>
  PROVE  /\ ll' \in Seq(Entry) /\ cache' \subseteq Keys
         /\ PartsAgree' /\ RecentInv'
         /\ Size(Last(ll)) \in Nat /\ nbytes' \in Nat
         /\ nbytes' = nbytes - Size(Last(ll))
<1> DEFINE n == Len(ll)
<1>1. /\ ll \in Seq(Entry) /\ n \in Nat /\ n >= 1
      /\ \A i \in 1 .. n : ll[i] \in Entry /\ ll[i].key \in cache
      /\ \A c \in cache : \E i \in 1 .. n : ll[i].key = c
      /\ cache \subseteq Keys
  <2>1. ll \in Seq(Entry) /\ ll # << >> /\ cache \subseteq Keys
    BY DEF TypeOK, DropBack
  <2>2. n \in Nat /\ n >= 1
    BY <2>1
  <2> QED  BY <2>1, <2>2, Places
<1>2. Last(ll) = ll[n] /\ n \in 1 .. n
  BY <1>1 DEF Last
<1>3. /\ ll' \in Seq(Entry) /\ Len(ll') = n - 1
      /\ \A j \in 1 .. n - 1 : ll'[j] = ll[j]
  <2>1. ll' = SubSeq(ll, 1, n - 1)
    BY DEF DropBack, Front
  <2>2. /\ SubSeq(ll, 1, n - 1) \in Seq(Entry)
        /\ Len(SubSeq(ll, 1, n - 1)) = n - 1
        /\ \A j \in 1 .. n - 1 : SubSeq(ll, 1, n - 1)[j] = ll[j]
    BY <1>1
  <2> QED  BY <2>1, <2>2
<1>4. ll' = RemoveAt(ll, n)
  <2>1. /\ RemoveAt(ll, n) \in Seq(Entry) /\ Len(RemoveAt(ll, n)) = n - 1
        /\ \A j \in 1 .. n - 1 :
              RemoveAt(ll, n)[j] = IF j < n THEN ll[j] ELSE ll[j + 1]
    BY <1>1, <1>2, Removed
  <2>2. \A j \in 1 .. n - 1 : j < n
    BY <1>1
  <2>3. \A j \in 1 .. n - 1 : RemoveAt(ll, n)[j] = ll[j]
    BY <2>1, <2>2
  <2>4. /\ Len(ll') = Len(RemoveAt(ll, n))
        /\ \A j \in 1 .. Len(ll') : ll'[j] = RemoveAt(ll, n)[j]
    BY <1>3, <2>1, <2>3
  <2> QED  BY <1>3, <2>1, <2>4, SeqEqual
<1>5. cache' = cache \ {ll[n].key}
  BY <1>2 DEF DropBack, Unindexed
<1>6. \A i, j \in 1 .. n : ll[i].key = ll[j].key => i = j
  BY <1>1 DEF PartsAgree
<1>7. \A j \in 1 .. n - 1 : j \in 1 .. n /\ j # n
  BY <1>1
<1>8. nbytes' = Bytes(ll') /\ nbytes' \in Nat /\ Size(ll[n]) \in Nat
      /\ nbytes' = nbytes - Size(ll[n])
  <2>1. nbytes' = nbytes - Size(ll[n])
    BY <1>2 DEF DropBack, BytesLeft
  <2>2. Bytes(ll') = Bytes(ll) - Size(ll[n])
    BY <1>1, <1>2, <1>4, BytesOfRemoved
  <2>3. Bytes(ll') \in Nat /\ Size(ll[n]) \in Nat
    BY <1>1, <1>2, <1>3, SizeIsNat, BytesIsNat
  <2>4. nbytes = Bytes(ll)
    BY DEF PartsAgree
  <2> QED  BY <2>1, <2>2, <2>3, <2>4
<1>9. PartsAgree'
  <2>1. \A j \in 1 .. Len(ll') : ll'[j].key \in cache'
    BY <1>1, <1>2, <1>3, <1>5, <1>6, <1>7
  <2>2. \A c \in cache' : \E j \in 1 .. Len(ll') : ll'[j].key = c
    <3> SUFFICES ASSUME NEW c \in cache'
                 PROVE  \E j \in 1 .. Len(ll') : ll'[j].key = c
      OBVIOUS
    <3>1. PICK i \in 1 .. n : ll[i].key = c
      BY <1>1, <1>5
    <3>2. i # n
      BY <1>5, <3>1
    <3>3. i \in 1 .. n - 1
      BY <1>1, <3>1, <3>2
    <3> QED  BY <1>3, <3>1, <3>3
  <2>3. cache' = ToSet([i \in DOMAIN ll' |-> ll'[i].key])
    BY <1>3, <2>1, <2>2, KeysAre
  <2>4. DOMAIN ll' = 1 .. n - 1
    BY <1>3
  <2>5. \A i, j \in DOMAIN ll' : ll'[i].key = ll'[j].key => i = j
    BY <1>3, <1>6, <1>7, <2>4
  <2> QED  BY <1>8, <2>3, <2>5 DEF PartsAgree, ListKeys
<1>10. RecentInv'
  BY <1>1, <1>3, <1>7 DEF RecentInv, TypeOK
<1> QED  BY <1>1, <1>2, <1>3, <1>5, <1>8, <1>9, <1>10

-----------------------------------------------------------------------------
(* The invariant is inductive *)

LEMMA InitHolds == Init => IInv
<1> SUFFICES ASSUME Init PROVE IInv
  OBVIOUS
<1>1. TypeOK
  <2>1. ll \in Seq(Entry) /\ recent \in Seq(Keys)
    BY DEF Init
  <2>2. latest \in [Keys -> Values \cup {None}]
    BY DEF Init
  <2>3. nbytes \in Nat /\ dropped \in Nat
    BY DEF Init
  <2> QED  BY <2>1, <2>2, <2>3, Zenon DEF Init, TypeOK
<1>2. PartsAgree
  BY BytesOfEmpty DEF Init, PartsAgree, ToSet, ListKeys
<1>3. RecentInv
  BY DEF Init, RecentInv, Distinct
<1>4. BudgetInv
  BY BudgetAssumption DEF Init, BudgetInv
<1> QED  BY <1>1, <1>2, <1>3, <1>4 DEF IInv

LEMMA AddOldKeeps ==
  ASSUME IInv, NEW k \in Keys, NEW v \in Values, AddOld(k, v)
  PROVE  IInv'
<1> DEFINE e == Overwritten(k, v)
           p == Pos(k)
<1>1. TypeOK /\ PartsAgree /\ RecentInv /\ k \in cache
  BY DEF IInv, AddOld
<1>2. /\ ll \in Seq(Entry) /\ p \in 1 .. Len(ll) /\ ll[p].key = k
      /\ ll[p] \in Entry
  BY <1>1, Places DEF TypeOK
<1>3. e \in Entry /\ e.key = k /\ e.value = v
  BY DEF Entry, Overwritten
<1>4. ll' = <<e>> \o RemoveAt(ll, p)
  <2> DEFINE r == RemoveAt(ll, p)
  <2>1. r \in Seq(Entry)
    BY <1>2, Removed
  <2>2. MoveToFront(k) = <<ll[p]>> \o r
    BY DEF MoveToFront
  <2> HIDE DEF r
  <2>3. Tail(<<ll[p]>> \o r) = r
    BY <1>2, <2>1
  <2>4. ll' = <<e>> \o Tail(MoveToFront(k))
    BY DEF AddOld
  <2> QED  BY <2>2, <2>3, <2>4 DEF r
<1>5. /\ UsedNow(k) /\ cache' = cache
      /\ latest' = [latest EXCEPT ![k] = v]
      /\ maxBytes' = maxBytes /\ adding' = TRUE /\ dropped' = 0
      /\ nbytes' = nbytes + ValueLen[v] - ValueLen[ll[p].value]
  BY DEF AddOld, Freed
<1>6. /\ latest' \in [Keys -> Values \cup {None}] /\ latest'[k] = e.value
      /\ \A j \in Keys \ {k} : latest'[j] = latest[j]
  BY <1>1, <1>3, <1>5 DEF TypeOK
<1>7. nbytes' = Size(e) + nbytes - Size(ll[p])
  <2>1. /\ Size(e) = KeyLen[k] + ValueLen[v]
        /\ Size(ll[p]) = KeyLen[k] + ValueLen[ll[p].value]
    BY <1>2, <1>3 DEF Size
  <2>2. KeyLen[k] \in Nat /\ ValueLen[v] \in Nat /\ nbytes \in Nat
    BY <1>1, LenAssumption DEF TypeOK
  <2>3. ValueLen[ll[p].value] \in Nat
    BY <1>2, LenAssumption DEF Entry
  <2> QED  BY <1>5, <2>1, <2>2, <2>3
<1> HIDE DEF e
<1>8. /\ ll' \in Seq(Entry) /\ recent' \in Seq(Keys) /\ nbytes' \in Nat
      /\ PartsAgree' /\ RecentInv'
  BY <1>1, <1>3, <1>4, <1>5, <1>6, <1>7, FrontKeeps
<1>9. TypeOK'
  BY <1>1, <1>5, <1>6, <1>8 DEF TypeOK
<1>10. BudgetInv'
  BY <1>5 DEF BudgetInv
<1> QED  BY <1>8, <1>9, <1>10 DEF IInv

LEMMA AddNewKeeps ==
  ASSUME IInv, NEW k \in Keys, NEW v \in Values, AddNew(k, v)
  PROVE  IInv'
<1> DEFINE e == [key |-> k, value |-> v]
           n == Len(ll)
<1>1. TypeOK /\ PartsAgree /\ RecentInv
  BY DEF IInv
<1>2. /\ k \notin cache /\ UsedNow(k) /\ cache' = cache \cup {k}
      /\ ll' = <<e>> \o ll
      /\ latest' = [latest EXCEPT ![k] = v]
      /\ maxBytes' = maxBytes /\ adding' = TRUE /\ dropped' = 0
      /\ nbytes' = nbytes + KeyLen[k] + ValueLen[v]
  BY DEF AddNew
<1>3. e \in Entry /\ e.key = k /\ e.value = v
  BY DEF Entry
<1>4. Size(e) = KeyLen[k] + ValueLen[v]
  BY DEF Size
<1> HIDE DEF e
<1>5. /\ ll \in Seq(Entry) /\ n \in Nat /\ cache \subseteq Keys
      /\ \A i \in 1 .. n : ll[i] \in Entry /\ ll[i].key \in cache
      /\ latest \in [Keys -> Values \cup {None}]
      /\ nbytes \in Nat /\ nbytes = Bytes(ll)
  BY <1>1, Places DEF TypeOK, PartsAgree
<1>6. \A c \in cache : \E i \in 1 .. n : ll[i].key = c
  BY <1>1, Places
<1>7. /\ ll' \in Seq(Entry) /\ Len(ll') = n + 1 /\ ll'[1] = e
      /\ \A j \in 2 .. n + 1 : ll'[j] = ll[j - 1]
  BY <1>2, <1>3, <1>5, Pushed
<1>8. /\ recent \in Seq(Keys) /\ Distinct(recent) /\ n <= Len(recent)
      /\ Len(recent) \in Nat
      /\ \A i \in 1 .. n : ll[i].key = recent[i]
                           /\ ll[i].value = latest[ll[i].key]
  BY <1>1 DEF TypeOK, RecentInv
<1>9. /\ recent' \in Seq(Keys) /\ Distinct(recent') /\ recent'[1] = k
      /\ n + 1 <= Len(recent')
      /\ \A j \in 2 .. n + 1 : recent'[j] = recent[j - 1]
  <2>1. \A i \in 1 .. n : recent[i] # k
    BY <1>2, <1>5, <1>8
  <2>2. \/ /\ Len(recent') = Len(recent) + 1
           /\ \A j \in 2 .. Len(recent) + 1 : recent'[j] = recent[j - 1]
        \/ \E x \in 1 .. Len(recent) :
              /\ recent[x] = k
              /\ Len(recent') = Len(recent)
              /\ \A j \in 2 .. Len(recent) :
                    recent'[j] = IF j <= x THEN recent[j - 1] ELSE recent[j]
    BY <1>2, <1>8, UsedFirst
  <2>3. recent' \in Seq(Keys) /\ Distinct(recent') /\ recent'[1] = k
    BY <1>2, <1>8, UsedFirst
  <2>4. CASE /\ Len(recent') = Len(recent) + 1
             /\ \A j \in 2 .. Len(recent) + 1 : recent'[j] = recent[j - 1]
    <3>1. n + 1 <= Len(recent')
      BY <1>5, <1>8, <2>4
    <3>2. \A j \in 2 .. n + 1 : j \in 2 .. Len(recent) + 1
      BY <1>5, <1>8
    <3> QED  BY <2>3, <2>4, <3>1, <3>2
  <2>5. ASSUME NEW x \in 1 .. Len(recent), recent[x] = k,
               Len(recent') = Len(recent),
               \A j \in 2 .. Len(recent) :
                  recent'[j] = IF j <= x THEN recent[j - 1] ELSE recent[j]
        PROVE  /\ n + 1 <= Len(recent')
               /\ \A j \in 2 .. n + 1 : recent'[j] = recent[j - 1]
    <3>1. n + 1 <= x /\ x <= Len(recent) /\ x \in Nat
      BY <1>5, <2>1, <2>5
    <3>2. \A j \in 2 .. n + 1 : j \in 2 .. Len(recent) /\ j <= x
      BY <1>5, <1>8, <3>1
    <3> QED  BY <1>5, <1>8, <2>5, <3>1, <3>2
  <2> QED  BY <2>2, <2>3, <2>4, <2>5
<1>10. ASSUME NEW j \in 1 .. n + 1
       PROVE  /\ ll'[j].key = recent'[j]
              /\ ll'[j].value = latest'[ll'[j].key]
              /\ ll'[j].key \in cache'
  <2>1. CASE j = 1
    BY <1>2, <1>3, <1>5, <1>7, <1>9, <2>1
  <2>2. CASE j \in 2 .. n + 1
    <3>1. j - 1 \in 1 .. n
      BY <1>5, <2>2
    <3>2. ll'[j] = ll[j - 1] /\ recent'[j] = recent[j - 1]
      BY <1>7, <1>9, <2>2
    <3>3. /\ ll[j - 1].key = recent[j - 1] /\ ll[j - 1].key \in cache
          /\ ll[j - 1].value = latest[ll[j - 1].key]
      BY <1>5, <1>8, <3>1
    <3>4. ll[j - 1].key # k /\ ll[j - 1].key \in Keys
      BY <1>2, <1>5, <3>3
    <3> QED  BY <1>2, <1>5, <3>2, <3>3, <3>4
  <2>3. j = 1 \/ j \in 2 .. n + 1
    BY <1>5
  <2> QED  BY <2>1, <2>2, <2>3
<1>11. RecentInv'
  BY <1>7, <1>9, <1>10 DEF RecentInv
<1>12. nbytes' = Bytes(ll') /\ nbytes' \in Nat
  <2>1. Bytes(ll') = Size(e) + Bytes(ll)
    BY <1>2, <1>3, <1>5, BytesOfPushed
  <2>2. KeyLen[k] \in Nat /\ ValueLen[v] \in Nat
    BY LenAssumption
  <2> QED  BY <1>2, <1>4, <1>5, <2>1, <2>2
<1>13. PartsAgree'
  <2>1. \A c \in cache' : \E i \in 1 .. Len(ll') : ll'[i].key = c
    <3> SUFFICES ASSUME NEW c \in cache'
                 PROVE  \E j \in 1 .. n + 1 : ll'[j].key = c
      BY <1>7
    <3>1. CASE c = k
      <4>1. 1 \in 1 .. n + 1 /\ ll'[1].key = c
        BY <1>3, <1>5, <1>7, <3>1
      <4> QED  BY <4>1
    <3>2. CASE c \in cache
      <4>1. PICK i \in 1 .. n : ll[i].key = c
        BY <1>6, <3>2
      <4>2. i + 1 \in 2 .. n + 1 /\ (i + 1) - 1 = i /\ i + 1 \in 1 .. n + 1
        BY <1>5
      <4>3. ll'[i + 1] = ll[i]
        BY <1>7, <4>2
      <4> QED  BY <4>1, <4>2, <4>3
    <3> QED  BY <1>2, <3>1, <3>2
  <2>2. \A i \in 1 .. Len(ll') : ll'[i].key \in cache'
    BY <1>7, <1>10
  <2>3. cache' = ToSet([i \in DOMAIN ll' |-> ll'[i].key])
    BY <1>7, <2>1, <2>2, KeysAre
  <2>4. \A i, j \in DOMAIN ll' : ll'[i].key = ll'[j].key => i = j
    BY <1>7, <1>9, <1>10, KeysOnce
  <2> QED  BY <1>12, <2>3, <2>4 DEF PartsAgree, ListKeys
<1>14. TypeOK'
  <2>1. latest' \in [Keys -> Values \cup {None}]
    BY <1>2, <1>5
  <2> QED  BY <1>1, <1>2, <1>5, <1>7, <1>9, <1>12, <2>1 DEF TypeOK
<1>15. BudgetInv'
  BY <1>2 DEF BudgetInv
<1> QED  BY <1>11, <1>13, <1>14, <1>15 DEF IInv

LEMMA GetKeeps ==
  ASSUME IInv, NEW k \in Keys, Get(k)
  PROVE  IInv'
<1> DEFINE p == Pos(k)
<1>1. TypeOK /\ PartsAgree /\ RecentInv /\ k \in cache
  BY DEF IInv, Get
<1>2. /\ ll \in Seq(Entry) /\ p \in 1 .. Len(ll) /\ ll[p].key = k
      /\ ll[p] \in Entry /\ nbytes \in Nat
      /\ latest \in [Keys -> Values \cup {None}]
  BY <1>1, Places DEF TypeOK
<1>3. ll' = <<ll[p]>> \o RemoveAt(ll, p)
  BY DEF Get, Refreshed, MoveToFront
<1>4. /\ UsedNow(k) /\ cache' = cache /\ latest' = latest /\ nbytes' = nbytes
      /\ maxBytes' = maxBytes /\ adding' = adding /\ dropped' = dropped
  BY DEF Get
<1>5. nbytes' = Size(ll[p]) + nbytes - Size(ll[p])
  BY <1>2, <1>4, SizeIsNat
<1>6. latest[k] = ll[p].value
  BY <1>1, <1>2 DEF RecentInv
<1>7. /\ ll' \in Seq(Entry) /\ recent' \in Seq(Keys) /\ nbytes' \in Nat
      /\ PartsAgree' /\ RecentInv'
  BY <1>1, <1>2, <1>3, <1>4, <1>5, <1>6, FrontKeeps
<1>8. TypeOK'
  BY <1>1, <1>4, <1>7 DEF TypeOK
<1>9. BudgetInv'
  BY <1>4 DEF IInv, BudgetInv
<1> QED  BY <1>7, <1>8, <1>9 DEF IInv

LEMMA RemoveOldestKeeps ==
  ASSUME IInv, RemoveOldest
  PROVE  IInv'
<1>1. /\ TypeOK /\ PartsAgree /\ RecentInv /\ DropBack
      /\ UNCHANGED <<maxBytes, adding, recent, latest>> /\ dropped' = 0
  BY DEF IInv, RemoveOldest
<1>2. /\ ll' \in Seq(Entry) /\ cache' \subseteq Keys
      /\ PartsAgree' /\ RecentInv' /\ nbytes' \in Nat
      /\ Size(Last(ll)) \in Nat /\ nbytes' = nbytes - Size(Last(ll))
  BY <1>1, DropKeeps
<1>3. TypeOK'
  BY <1>1, <1>2 DEF TypeOK
<1>4. maxBytes \in Int /\ nbytes \in Nat
  BY <1>1, BudgetAssumption DEF TypeOK
<1>5. BudgetInv'
  BY <1>1, <1>2, <1>4 DEF IInv, BudgetInv
<1> QED  BY <1>2, <1>3, <1>5 DEF IInv

LEMMA EvictKeeps ==
  ASSUME IInv, Evict
  PROVE  IInv'
<1>1. /\ TypeOK /\ PartsAgree /\ RecentInv /\ BudgetInv
      /\ adding /\ maxBytes # 0 /\ maxBytes < nbytes
      /\ UNCHANGED <<maxBytes, adding, recent, latest>>
  BY DEF IInv, Evict, OverBudget
<1>2. maxBytes \in Int /\ nbytes \in Nat
  BY <1>1, BudgetAssumption DEF TypeOK
<1>3. CASE DropBack /\ dropped' = Size(Last(ll))
  <2>1. /\ ll' \in Seq(Entry) /\ cache' \subseteq Keys
        /\ PartsAgree' /\ RecentInv' /\ nbytes' \in Nat
        /\ Size(Last(ll)) \in Nat /\ nbytes' = nbytes - Size(Last(ll))
    BY <1>1, <1>3, DropKeeps
  <2>2. TypeOK'
    BY <1>1, <1>3, <2>1 DEF TypeOK
  <2>3. BudgetInv'
    BY <1>1, <1>2, <1>3, <2>1 DEF BudgetInv
  <2> QED  BY <2>1, <2>2, <2>3 DEF IInv
<1>4. CASE ll = << >> /\ UNCHANGED <<ll, cache, nbytes, dropped>>
  BY <1>1, <1>4 DEF IInv, TypeOK, PartsAgree, ListKeys, RecentInv, BudgetInv
<1> QED  BY <1>3, <1>4 DEF Evict

LEMMA AddReturnKeeps ==
  ASSUME IInv, AddReturn
  PROVE  IInv'
<1>1. maxBytes \in Int /\ nbytes \in Nat
  BY BudgetAssumption DEF IInv, TypeOK
<1>2. BudgetInv'
  BY <1>1 DEF IInv, BudgetInv, AddReturn, OverBudget
<1>3. TypeOK' /\ PartsAgree' /\ RecentInv'
  BY DEF AddReturn, IInv, TypeOK, PartsAgree, ListKeys, RecentInv
<1> QED  BY <1>2, <1>3 DEF IInv

LEMMA NextKeeps == IInv /\ [Next]_vars => IInv'
<1> SUFFICES ASSUME IInv, [Next]_vars PROVE IInv'
  OBVIOUS
<1>1. CASE UNCHANGED vars
  BY <1>1 DEF vars, IInv, TypeOK, PartsAgree, ListKeys, RecentInv, BudgetInv
<1>2. CASE Next
  BY <1>2, AddOldKeeps, AddNewKeeps, GetKeeps, RemoveOldestKeeps, EvictKeeps,
     AddReturnKeeps DEF Next
<1> QED  BY <1>1, <1>2

LEMMA Invariance == Spec => []IInv
BY InitHolds, NextKeeps, PTL DEF Spec

\* Every step keeps the store's parts of their kinds; its byte count, in
\* particular, is never negative.
THEOREM TypeCorrect == Spec => []TypeOK
<1>1. IInv => TypeOK
  BY DEF IInv
<1> QED  BY <1>1, Invariance, PTL

\* The list and the index never come apart, and nbytes is what the entries of
\* the list take, whatever was added, overwritten and evicted before.
THEOREM NothingLost == Spec => []PartsAgree
<1>1. IInv => PartsAgree
  BY DEF IInv
<1> QED  BY <1>1, Invariance, PTL

\* What the store holds is what was used most recently: an entry never
\* outlives one that was used after it, by Add or by Get.
THEOREM LeastRecentGoesFirst == Spec => []HoldsMostRecent
<1>1. IInv => HoldsMostRecent
  <2> SUFFICES ASSUME IInv PROVE HoldsMostRecent
    OBVIOUS
  <2>1. /\ ll \in Seq(Entry) /\ recent \in Seq(Keys)
        /\ Len(ll) <= Len(recent)
        /\ \A i \in 1 .. Len(ll) : ll[i].key = recent[i]
                                   /\ ll[i].value = latest[ll[i].key]
    BY DEF IInv, TypeOK, RecentInv
  <2>2. DOMAIN ll = 1 .. Len(ll) /\ Len(ll) \in Nat /\ Len(recent) \in Nat
    BY <2>1
  <2>3. \A i \in 1 .. Len(ll) : ll[i].key \in Keys
    BY <2>1 DEF Entry
  <2>4. ListKeys \in Seq(Keys) /\ Len(ListKeys) = Len(ll)
    BY <2>2, <2>3 DEF ListKeys
  <2>5. \A i \in 1 .. Len(ll) : ListKeys[i] = recent[i]
    BY <2>1, <2>2 DEF ListKeys
  <2>6. /\ SubSeq(recent, 1, Len(ll)) \in Seq(Keys)
        /\ Len(SubSeq(recent, 1, Len(ll))) = Len(ll)
        /\ \A i \in 1 .. Len(ll) : SubSeq(recent, 1, Len(ll))[i] = recent[i]
    BY <2>1, <2>2
  <2>7. ListKeys = SubSeq(recent, 1, Len(ll))
    BY <2>4, <2>5, <2>6, SeqEqual
  <2>8. IsPrefix(ListKeys, recent)
    BY <2>1, <2>4, <2>7 DEF IsPrefix
  <2> QED  BY <2>1, <2>2, <2>8 DEF HoldsMostRecent
<1> QED  BY <1>1, Invariance, PTL

\* When Add has returned the store is within its budget, and the last entry
\* that went would not have fitted.
THEOREM EvictionIsTight == Spec => []EvictsJustEnough
<1>1. IInv => EvictsJustEnough
  BY DEF IInv, BudgetInv, EvictsJustEnough
<1> QED  BY <1>1, Invariance, PTL

-----------------------------------------------------------------------------
(* Patterns and paths, of gee-web's router *)

Parsed == {p \in Seq(Parts) : \A i \in 1 .. Len(p) - 1 : p[i] \notin Star}

\* One round of parsePattern's loop, and what the rounds make of a text.
Round(text, s, n) ==
    IF text[n] = Empty \/ Ended(s) THEN s ELSE Append(s, text[n])
Rounds(text, w) ==
    /\ w[0] = << >>
    /\ \A n \in 1 .. Len(text) : w[n] = Round(text, w[n - 1], n)
    /\ \A n \in 0 .. Len(text) : w[n] \in Parsed /\ Len(w[n]) <= n
    /\ ParsePattern(text) = w[Len(text)]

\* A round adds a part at most, and none behind a "*".
LEMMA RoundIs ==
  ASSUME NEW text \in Seq(Parts), NEW s \in Parsed, NEW n \in 1 .. Len(text)
  PROVE  /\ Round(text, s, n) \in Parsed
         /\ Len(Round(text, s, n)) \in {Len(s), Len(s) + 1}
         /\ \A i \in 1 .. Len(s) : Round(text, s, n)[i] = s[i]
<1> DEFINE part == text[n]
<1>1. part \in Parts /\ s \in Seq(Parts) /\ Len(s) \in Nat
  BY ElementOfSeq, LenProperties DEF Parsed
<1> HIDE DEF part
<1>2. /\ Append(s, part) \in Seq(Parts) /\ Len(Append(s, part)) = Len(s) + 1
      /\ \A i \in 1 .. Len(s) : Append(s, part)[i] = s[i]
  BY <1>1, AppendProperties
<1>3. CASE part = Empty \/ Ended(s)
  BY <1>1, <1>3 DEF Round, part
<1>4. CASE ~ (part = Empty \/ Ended(s))
  <2>1. Round(text, s, n) = Append(s, part)
    BY <1>4 DEF Round, part
  <2>2. ASSUME NEW i \in 1 .. Len(s)  PROVE s[i] \notin Star
    <3>1. CASE i = Len(s)
      <4>1. s # << >>
        BY <1>1, <3>1
      <4> QED  BY <1>4, <3>1, <4>1 DEF Ended
    <3>2. CASE i # Len(s)
      BY <1>1, <3>2 DEF Parsed
    <3> QED  BY <3>1, <3>2
  <2>3. \A i \in 1 .. Len(Append(s, part)) - 1 : Append(s, part)[i] \notin Star
    BY <1>1, <1>2, <2>2
  <2> QED  BY <1>2, <2>1, <2>3 DEF Parsed
<1> QED  BY <1>3, <1>4

\* parsePattern is its rounds.
LEMMA ParseIs ==
  ASSUME NEW text \in Seq(Parts)
  PROVE  \E w : Rounds(text, w)
<1> DEFINE n == Len(text)
           Step(s, k) == Round(text, s, k)
           f == [x \in Parsed \X (1 .. n) |-> Step(x[1], x[2])]
           F(w) == [k \in 0 .. n |-> IF k = 0 THEN << >> ELSE Step(w[k - 1], k)]
<1>1. n \in Nat /\ DOMAIN text = 1 .. n
  BY LenProperties
<1>2. ASSUME NEW s \in Parsed, NEW k \in 1 .. n
      PROVE  Step(s, k) \in Parsed /\ Len(Step(s, k)) \in {Len(s), Len(s) + 1}
  BY <1>2, RoundIs
<1>3. << >> \in Parsed
  BY DEF Parsed
<1> HIDE DEF Step
<1>4. f \in [Parsed \X (1 .. n) -> Parsed]
  BY <1>2
<1>5. PICK h \in [0 .. n -> Parsed] :
         h[0] = << >> /\ \A k \in 1 .. n : h[k] = f[<<h[k - 1], k>>]
  <2> DEFINE S == Parsed
             a == << >>
  <2>1. n \in Nat /\ f \in [S \X (1 .. n) -> S] /\ a \in S
    BY <1>1, <1>3, <1>4
  <2> HIDE DEF f, n, S, a
  <2>2. \E h \in [0 .. n -> S] : Iterates(h, n, a, f)
    BY <2>1, Iterated
  <2> QED  BY <2>2 DEF S, a, Iterates
<1>6. \A k \in 1 .. n : h[k] = Step(h[k - 1], k)
  <2>1. ASSUME NEW k \in 1 .. n
        PROVE  f[<<h[k - 1], k>>] = Step(h[k - 1], k)
    <3>1. h[k - 1] \in Parsed
      BY <1>1
    <3> QED  BY <3>1
  <2> QED  BY <1>5, <2>1
<1>7. h = F(h)
  <2>1. ASSUME NEW k \in 0 .. n  PROVE h[k] = F(h)[k]
    BY <1>1, <1>5, <1>6
  <2> HIDE DEF n
  <2> QED  BY <2>1
<1> DEFINE w == CHOOSE w : w = F(w)
<1>8. w = F(w)
  <2> HIDE DEF F
  <2> QED  BY <1>7
<1>9. ParsePattern(text) = w[n]
  BY Zenon DEF ParsePattern, Step, Round
<1> HIDE DEF w
<1>10. w[0] = << >> /\ \A k \in 1 .. n : w[k] = Step(w[k - 1], k)
  BY <1>1, <1>8
<1> DEFINE T == {k \in 0 .. n : w[k] \in Parsed /\ Len(w[k]) <= k}
<1>11. 0 \in T
  BY <1>1, <1>3, <1>10
<1>12. ASSUME NEW k \in 0 .. n - 1, k \in T  PROVE k + 1 \in T
  <2>1. k + 1 \in 1 .. n /\ (k + 1) - 1 = k
    BY <1>1
  <2>2. w[k + 1] = Step(w[k], k + 1) /\ w[k] \in Parsed /\ Len(w[k]) <= k
    BY <1>10, <1>12, <2>1
  <2>3. Len(w[k]) \in Nat
    BY <2>2, LenProperties DEF Parsed
  <2>4. w[k + 1] \in Parsed /\ Len(w[k + 1]) \in {Len(w[k]), Len(w[k]) + 1}
    BY <1>2, <2>1, <2>2
  <2>5. k + 1 \in 0 .. n /\ Len(w[k + 1]) <= k + 1
    BY <2>1, <2>2, <2>3, <2>4
  <2> QED  BY <2>4, <2>5
<1> HIDE DEF T
<1>13. 0 .. n \subseteq T
  BY <1>1, <1>11, <1>12, UpTo
<1>14. \A k \in 0 .. n : w[k] \in Parsed /\ Len(w[k]) <= k
  BY <1>13 DEF T
<1> QED  BY <1>9, <1>10, <1>14 DEF Rounds, Step

\* What is parsed is no longer than the text, and nothing in it follows a "*".
LEMMA ParsedIs ==
  ASSUME NEW text \in Seq(Parts)
  PROVE  /\ ParsePattern(text) \in Parsed
         /\ Len(ParsePattern(text)) <= Len(text)
<1>1. PICK w : Rounds(text, w)
  BY ParseIs
<1>2. Len(text) \in 0 .. Len(text)
  BY LenProperties
<1> QED  BY <1>1, <1>2 DEF Rounds

\* As long as the slashes of a text are single ones, each of its parts is
\* taken, up to the first "*".
LEMMA CleanRounds ==
  ASSUME NEW text \in Seq(Parts), NEW w, Rounds(text, w), NEW m \in 1 .. Len(text),
         text[1] = Empty, \A k \in 2 .. m : text[k] # Empty
  PROVE  /\ Len(w[m]) \in 0 .. m - 1
         /\ \A i \in 1 .. Len(w[m]) : w[m][i] = text[i + 1]
         /\ Len(w[m]) = m - 1 \/ Ended(w[m])
<1> DEFINE Good(n) == /\ Len(w[n]) \in 0 .. n - 1
                      /\ \A i \in 1 .. Len(w[n]) : w[n][i] = text[i + 1]
                      /\ Len(w[n]) = n - 1 \/ Ended(w[n])
           T == {n \in 0 .. m - 1 : Good(n + 1)}
<1>1. Len(text) \in Nat /\ m \in Nat
  BY LenProperties
<1>2. 0 \in T
  <2>1. 1 \in 1 .. Len(text) /\ 1 - 1 = 0 /\ 0 + 1 = 1 /\ 0 \in 0 .. m - 1
    BY <1>1
  <2>2. w[0] = << >> /\ w[1] = Round(text, w[1 - 1], 1)
    BY <2>1 DEF Rounds
  <2>3. w[1] = << >>
    BY <2>1, <2>2 DEF Round
  <2>4. Good(1)
    BY <2>3
  <2> QED  BY <2>1, <2>4
<1>3. ASSUME NEW n \in 0 .. (m - 1) - 1, n \in T  PROVE n + 1 \in T
  <2> DEFINE k == n + 1
  <2>1. /\ k \in 1 .. Len(text) /\ k + 1 \in 2 .. m /\ k + 1 \in 1 .. Len(text)
        /\ (k + 1) - 1 = k /\ k \in 0 .. Len(text) /\ k \in 0 .. m - 1 /\ k \in Nat
    BY <1>1
  <2>2. Good(k)
    BY <1>3
  <2> HIDE DEF k
  <2>3. w[k + 1] = Round(text, w[k], k + 1) /\ w[k] \in Parsed
    BY <2>1 DEF Rounds
  <2>4. text[k + 1] # Empty /\ text[k + 1] \in Parts
    BY <2>1, ElementOfSeq
  <2>5. Len(w[k]) \in Nat /\ w[k] \in Seq(Parts)
    BY <2>3, LenProperties DEF Parsed
  <2>6. CASE Ended(w[k])
    <3>1. w[k + 1] = w[k]
      BY <2>3, <2>6 DEF Round
    <3> QED  BY <2>1, <2>2, <2>5, <2>6, <3>1 DEF k
  <2>7. CASE ~ Ended(w[k])
    <3>1. w[k + 1] = Append(w[k], text[k + 1]) /\ Len(w[k]) = k - 1
      BY <2>2, <2>3, <2>4, <2>7 DEF Round
    <3>2. /\ Len(w[k + 1]) = k
          /\ \A i \in 1 .. k - 1 : w[k + 1][i] = w[k][i]
          /\ w[k + 1][k] = text[k + 1]
      BY <2>1, <2>4, <2>5, <3>1, AppendProperties
    <3>3. ASSUME NEW i \in 1 .. Len(w[k + 1])
          PROVE  w[k + 1][i] = text[i + 1]
      <4>1. i = k \/ i \in 1 .. k - 1
        BY <2>1, <3>2
      <4> QED  BY <2>2, <3>1, <3>2, <4>1
    <3>4. Good(k + 1)
      BY <2>1, <3>2, <3>3
    <3> QED  BY <2>1, <3>4 DEF k
  <2> QED  BY <2>6, <2>7
<1> HIDE DEF T
<1>4. 0 .. m - 1 \subseteq T
  <2>1. m - 1 \in Nat
    BY <1>1
  <2> QED  BY <1>2, <1>3, <2>1, UpTo
<1>5. m - 1 \in T
  BY <1>1, <1>4
<1>6. Good((m - 1) + 1) /\ (m - 1) + 1 = m
  BY <1>1, <1>5 DEF T
<1> QED  BY <1>6

\* What a round has taken the later ones keep.
LEMMA RoundsKeep ==
  ASSUME NEW text \in Seq(Parts), NEW w, Rounds(text, w), NEW m \in 0 .. Len(text)
  PROVE  /\ Len(ParsePattern(text)) >= Len(w[m])
         /\ \A i \in 1 .. Len(w[m]) : ParsePattern(text)[i] = w[m][i]
<1> DEFINE n == Len(text) - m
           Keeps(k) == /\ Len(w[m + k]) >= Len(w[m])
                       /\ \A i \in 1 .. Len(w[m]) : w[m + k][i] = w[m][i]
           T == {k \in 0 .. n : Keeps(k)}
<1>1. Len(text) \in Nat /\ m \in Nat /\ n \in Nat /\ m + n = Len(text)
  BY LenProperties
<1>2. \A k \in 0 .. n : /\ m + k \in 0 .. Len(text)
                        /\ w[m + k] \in Parsed /\ Len(w[m + k]) \in Nat
  <2>1. ASSUME NEW k \in 0 .. n
        PROVE  /\ m + k \in 0 .. Len(text)
               /\ w[m + k] \in Parsed /\ Len(w[m + k]) \in Nat
    <3>1. m + k \in 0 .. Len(text)
      BY <1>1
    <3>2. w[m + k] \in Parsed
      BY <3>1 DEF Rounds
    <3> QED  BY <3>1, <3>2, LenProperties DEF Parsed
  <2> QED  BY <2>1
<1>3. m + 0 = m /\ 0 \in 0 .. n
  BY <1>1
<1> HIDE DEF n
<1>4. Len(w[m]) \in Nat
  BY <1>2, <1>3
<1>5. 0 \in T
  BY <1>3, <1>4
<1>6. ASSUME NEW k \in 0 .. n - 1, k \in T  PROVE k + 1 \in T
  <2>1. k \in 0 .. n /\ k + 1 \in 0 .. n /\ m + (k + 1) \in 1 .. Len(text)
        /\ (m + (k + 1)) - 1 = m + k
    BY <1>1, <1>2
  <2>2. w[m + (k + 1)] = Round(text, w[m + k], m + (k + 1))
    BY <2>1 DEF Rounds
  <2>3. w[m + k] \in Parsed /\ Len(w[m + k]) \in Nat
    BY <1>2, <2>1
  <2>4. /\ Len(w[m + (k + 1)]) \in {Len(w[m + k]), Len(w[m + k]) + 1}
        /\ \A i \in 1 .. Len(w[m + k]) : w[m + (k + 1)][i] = w[m + k][i]
    BY <2>1, <2>2, <2>3, RoundIs
  <2>5. Keeps(k)
    BY <1>6
  <2>6. Keeps(k + 1)
    <3> DEFINE a == w[m + k]  b == w[m + (k + 1)]  c == w[m]
    <3>1. /\ Len(b) \in {Len(a), Len(a) + 1} /\ Len(a) \in Nat /\ Len(c) \in Nat
          /\ \A i \in 1 .. Len(a) : b[i] = a[i]
          /\ Len(a) >= Len(c) /\ \A i \in 1 .. Len(c) : a[i] = c[i]
      BY <1>4, <2>3, <2>4, <2>5
    <3> HIDE DEF a, b, c
    <3>2. Len(b) >= Len(c) /\ \A i \in 1 .. Len(c) : b[i] = c[i]
      BY <3>1
    <3> QED  BY <3>2 DEF a, b, c
  <2> QED  BY <2>1, <2>6
<1> HIDE DEF T
<1>7. 0 .. n \subseteq T
  BY <1>1, <1>5, <1>6, UpTo
<1>8. n \in T
  BY <1>1, <1>7
<1>9. Keeps(n)
  BY <1>8 DEF T
<1> QED  BY <1>1, <1>9 DEF Rounds

-----------------------------------------------------------------------------
(* The trie *)

Nodes == [pattern : Seq(Parts) \cup {NoPattern}, children : Seq(Parts)]

\* The child of the node at q for a part.
Has(t, q, part) == \E i \in DOMAIN t[q].children : t[q].children[i] = part

IsTrie(t) ==
    /\ DOMAIN t \subseteq Seq(Parts) /\ << >> \in DOMAIN t
    /\ \A q \in DOMAIN t :
          /\ t[q] \in Nodes
          /\ t[q].pattern # NoPattern => Len(t[q].pattern) = Len(q)
          /\ \A i \in DOMAIN t[q].children :
                Append(q, t[q].children[i]) \in DOMAIN t
          /\ \A h \in 0 .. Len(q) : Cut(q, h) \in DOMAIN t
          /\ \A h \in 1 .. Len(q) : Has(t, Cut(q, h - 1), q[h])

\* There is a node everywhere, an empty one where the trie has none.
LEMMA AtIs ==
  ASSUME NEW t, IsTrie(t), NEW q
  PROVE  At(t, q) \in Nodes
<1>1. << >> \in Seq(Parts)
  OBVIOUS
<1> QED  BY <1>1 DEF At, Node, Nodes, IsTrie

\* insert goes on to a child, or to a new one for the part itself.
LEMMA ChildIs ==
  ASSUME NEW t, IsTrie(t), NEW q \in Seq(Parts), NEW part \in Parts
  PROVE  \E x \in Parts :
            /\ Child(t, q, part) = Append(q, x)
            /\ Child(t, q, part) \in DOMAIN t \/ x = part
            /\ q \in DOMAIN t /\ Has(t, q, part) => Child(t, q, part) \in DOMAIN t
            /\ Child(t, q, part) \in DOMAIN t => q \in DOMAIN t
<1> DEFINE n == At(t, q)
           found == Matching(n, part)
           m == Min(found)
           x == IF found = {} THEN part ELSE n.children[m]
<1>1. n \in Nodes
  BY AtIs
<1>2. n.children \in Seq(Parts) /\ DOMAIN n.children = 1 .. Len(n.children)
      /\ Len(n.children) \in Nat
  BY <1>1, LenProperties DEF Nodes
<1>3. Child(t, q, part) = Append(q, x)
  BY DEF Child
<1>4. Append(q, x) \in DOMAIN t => q \in DOMAIN t
  <2>1. SUFFICES ASSUME Append(q, x) \in DOMAIN t  PROVE q \in DOMAIN t
    OBVIOUS
  <2>2. x \in Parts
    <3>1. CASE found = {}
      BY <3>1
    <3>2. CASE found # {}
      <4>1. found \in SUBSET Nat
        BY <1>2 DEF Matching
      <4>2. m \in found
        <5> HIDE DEF found
        <5> QED  BY <3>2, <4>1, LeastIsMin
      <4>3. m \in 1 .. Len(n.children) /\ x = n.children[m]
        BY <1>2, <3>2, <4>2 DEF Matching
      <4> QED  BY <1>2, <4>3, ElementOfSeq
    <3> QED  BY <3>1, <3>2
  <2> HIDE DEF x
  <2>3. Len(Append(q, x)) = Len(q) + 1 /\ Len(q) \in Nat
    BY <2>2, AppendProperties
  <2>4. Len(q) \in 0 .. Len(Append(q, x))
    BY <2>3
  <2>5. Cut(Append(q, x), Len(q)) \in DOMAIN t
    BY <2>1, <2>4 DEF IsTrie
  <2>6. Cut(Append(q, x), Len(q)) = q
    BY <2>2, <2>3, CutOfAppend, CutEnds
  <2> QED  BY <2>5, <2>6
<1>5. CASE found = {}
  <2>1. ~ (q \in DOMAIN t /\ Has(t, q, part))
    BY <1>5 DEF At, Has, Matching
  <2>2. x = part
    BY <1>5
  <2> QED  BY <1>3, <1>4, <2>1, <2>2
<1>6. CASE found # {}
  <2>1. found \in SUBSET Nat
    BY <1>2 DEF Matching
  <2>2. m \in found
    <3> HIDE DEF found
    <3> QED  BY <1>6, <2>1, LeastIsMin
  <2>3. m \in DOMAIN n.children
    BY <2>2 DEF Matching
  <2>4. q \in DOMAIN t
    BY <2>3 DEF At, Node
  <2>5. n = t[q]
    BY <2>4 DEF At
  <2>6. x = n.children[m] /\ x \in Parts
    BY <1>2, <1>6, <2>3, ElementOfSeq
  <2>7. Append(q, x) \in DOMAIN t
    BY <2>3, <2>4, <2>5, <2>6 DEF IsTrie
  <2> HIDE DEF x
  <2> QED  BY <1>3, <2>4, <2>6, <2>7
<1> QED  BY <1>5, <1>6

\* The way of insert, as its recursive definition gives it.
LEMMA WayIs ==
  ASSUME NEW t, IsTrie(t), NEW p \in Seq(Parts)
  PROVE  /\ Way(t, p) \in [0 .. Len(p) -> Seq(Parts)]
         /\ Way(t, p)[0] = << >>
         /\ \A h \in 1 .. Len(p) :
               Way(t, p)[h] = Child(t, Way(t, p)[h - 1], p[h])
<1> DEFINE n == Len(p)
           f == [s \in Seq(Parts) \X (1 .. n) |-> Child(t, s[1], p[s[2]])]
           F(w) == [h \in 0 .. n |->
                      IF h = 0 THEN << >> ELSE Child(t, w[h - 1], p[h])]
<1>1. n \in Nat /\ \A h \in 1 .. n : p[h] \in Parts
  BY LenProperties
<1>2. f \in [Seq(Parts) \X (1 .. n) -> Seq(Parts)]
  <2>1. ASSUME NEW q \in Seq(Parts), NEW h \in 1 .. n
        PROVE  Child(t, q, p[h]) \in Seq(Parts)
    <3>1. PICK x \in Parts : Child(t, q, p[h]) = Append(q, x)
      BY <1>1, ChildIs
    <3> QED  BY <3>1, AppendProperties
  <2> QED  BY <2>1
<1>3. << >> \in Seq(Parts)
  OBVIOUS
<1>4. PICK g \in [0 .. n -> Seq(Parts)] :
         g[0] = << >> /\ \A h \in 1 .. n : g[h] = f[<<g[h - 1], h>>]
  <2> DEFINE S == Seq(Parts)
             a == << >>
  <2>1. n \in Nat /\ f \in [S \X (1 .. n) -> S] /\ a \in S
    BY <1>1, <1>2, <1>3
  <2> HIDE DEF f, n, S, a
  <2>2. \E g \in [0 .. n -> S] : Iterates(g, n, a, f)
    BY <2>1, Iterated
  <2> QED  BY <2>2 DEF S, a, Iterates
<1>5. \A h \in 1 .. n : g[h] = Child(t, g[h - 1], p[h])
  <2>1. ASSUME NEW h \in 1 .. n
        PROVE  f[<<g[h - 1], h>>] = Child(t, g[h - 1], p[h])
    <3>1. g[h - 1] \in Seq(Parts)
      BY <1>1
    <3> QED  BY <3>1
  <2> QED  BY <1>4, <2>1
<1>6. g = F(g)
  <2>1. ASSUME NEW h \in 0 .. n  PROVE g[h] = F(g)[h]
    BY <1>1, <1>4, <1>5
  <2> HIDE DEF n
  <2> QED  BY <2>1
<1>7. Way(t, p) = F(Way(t, p))
  <2>1. Way(t, p) = CHOOSE w : w = F(w)
    BY DEF Way
  <2> HIDE DEF F
  <2> QED  BY <1>6, <2>1
<1> DEFINE w == Way(t, p)
<1> HIDE DEF w
<1>8. w = F(w)
  BY <1>7 DEF w
<1> SUFFICES /\ w \in [0 .. n -> Seq(Parts)] /\ w[0] = << >>
             /\ \A h \in 1 .. n : w[h] = Child(t, w[h - 1], p[h])
  BY DEF w
<1>9. w[0] = << >> /\ \A h \in 1 .. n : w[h] = Child(t, w[h - 1], p[h])
  BY <1>1, <1>8
<1>10. \A h \in 0 .. n : w[h] \in Seq(Parts)
  <2> DEFINE T == {h \in 0 .. n : w[h] \in Seq(Parts)}
  <2>1. 0 \in T
    <3>1. w[0] \in Seq(Parts)
      BY <1>3, <1>9
    <3>2. 0 \in 0 .. n
      BY <1>1
    <3> QED  BY <3>1, <3>2, Zenon
  <2>2. ASSUME NEW h \in 0 .. n - 1, h \in T  PROVE h + 1 \in T
    <3>1. w[h + 1] = Child(t, w[h], p[h + 1]) /\ h + 1 \in 1 .. n
      BY <1>1, <1>9
    <3>2. w[h] \in Seq(Parts) /\ p[h + 1] \in Parts
      BY <1>1, <2>2, <3>1
    <3>3. PICK x \in Parts : Child(t, w[h], p[h + 1]) = Append(w[h], x)
      BY <3>2, ChildIs
    <3>4. w[h + 1] \in Seq(Parts)
      BY <3>1, <3>2, <3>3, AppendProperties
    <3> QED  BY <3>1, <3>4
  <2> HIDE DEF T
  <2>3. 0 .. n \subseteq T
    BY <1>1, <2>1, <2>2, UpTo
  <2> QED  BY <2>3 DEF T
<1> QED  BY <1>8, <1>9, <1>10

\* One step of the way, and whether the trie has its nodes.
LEMMA WayPath ==
  ASSUME NEW t, IsTrie(t), NEW p \in Seq(Parts), NEW h \in 1 .. Len(p)
  PROVE  LET w == Way(t, p) IN
         \E x \in Parts :
            /\ w[h - 1] \in Seq(Parts) /\ w[h] = Append(w[h - 1], x)
            /\ w[h] \in DOMAIN t \/ x = p[h]
            /\ w[h] \in DOMAIN t => w[h - 1] \in DOMAIN t
            /\ w[h - 1] \in DOMAIN t /\ Has(t, w[h - 1], p[h]) => w[h] \in DOMAIN t
<1> DEFINE w == Way(t, p)
<1>1. h - 1 \in 0 .. Len(p) /\ p[h] \in Parts
  BY LenProperties
<1>2. w[h - 1] \in Seq(Parts) /\ w[h] = Child(t, w[h - 1], p[h])
  BY <1>1, WayIs
<1> HIDE DEF w
<1>3. PICK x \in Parts :
            /\ Child(t, w[h - 1], p[h]) = Append(w[h - 1], x)
            /\ Child(t, w[h - 1], p[h]) \in DOMAIN t \/ x = p[h]
            /\ w[h - 1] \in DOMAIN t /\ Has(t, w[h - 1], p[h])
               => Child(t, w[h - 1], p[h]) \in DOMAIN t
            /\ Child(t, w[h - 1], p[h]) \in DOMAIN t => w[h - 1] \in DOMAIN t
  BY <1>1, <1>2, ChildIs
<1> QED  BY <1>2, <1>3 DEF w

\* The nodes on the way lie one below the other.
LEMMA WayCuts ==
  ASSUME NEW t, IsTrie(t), NEW p \in Seq(Parts), NEW h \in 0 .. Len(p)
  PROVE  /\ Way(t, p)[h] \in Seq(Parts) /\ Len(Way(t, p)[h]) = h
         /\ \A k \in 0 .. h : Cut(Way(t, p)[h], k) = Way(t, p)[k]
<1> DEFINE w == Way(t, p)
           n == Len(p)
           Good(i) == /\ w[i] \in Seq(Parts) /\ Len(w[i]) = i
                      /\ \A k \in 0 .. i : Cut(w[i], k) = w[k]
           T == {i \in 0 .. n : Good(i)}
<1>1. n \in Nat
  BY LenProperties
<1>2. 0 \in T
  <2>1. w[0] = << >>
    BY WayIs
  <2>2. << >> \in Seq(Parts) /\ Len(<< >>) = 0
    OBVIOUS
  <2>3. Cut(w[0], 0) = w[0]
    BY <2>1, <2>2, CutEnds
  <2>4. Good(0)
    <3> HIDE DEF w
    <3> QED  BY <2>1, <2>2, <2>3
  <2> HIDE DEF Good, n
  <2> QED  BY <1>1, <2>4
<1>3. ASSUME NEW i \in 0 .. n - 1, i \in T  PROVE i + 1 \in T
  <2>1. i + 1 \in 1 .. n /\ (i + 1) - 1 = i
    BY <1>1
  <2>2. PICK x \in Parts : w[i + 1] = Append(w[i], x)
    BY <2>1, WayPath
  <2> HIDE DEF w
  <2>3. w[i] \in Seq(Parts) /\ Len(w[i]) = i
        /\ \A k \in 0 .. i : Cut(w[i], k) = w[k]
    BY <1>3
  <2>4. w[i + 1] \in Seq(Parts) /\ Len(w[i + 1]) = i + 1
    BY <2>2, <2>3, AppendProperties
  <2>5. ASSUME NEW k \in 0 .. i + 1  PROVE Cut(w[i + 1], k) = w[k]
    <3>1. CASE k = i + 1
      BY <2>4, <3>1, CutEnds
    <3>2. CASE k # i + 1
      <4>1. k \in 0 .. i
        BY <3>2
      <4>2. Cut(w[i + 1], k) = Cut(w[i], k)
        BY <2>2, <2>3, <4>1, CutOfAppend
      <4> QED  BY <2>3, <4>1, <4>2
    <3> QED  BY <3>1, <3>2
  <2>6. Good(i + 1)
    BY <2>4, <2>5
  <2> HIDE DEF Good, n
  <2> QED  BY <1>1, <2>1, <2>6
<1>4. 0 .. n \subseteq T
  <2> HIDE DEF T, n
  <2> QED  BY <1>1, <1>2, <1>3, UpTo
<1> QED  BY <1>4

-----------------------------------------------------------------------------
(* insert *)

Grows(t, p, q) ==
    \E h \in 1 .. Len(p) : Way(t, p)[h - 1] = q /\ Way(t, p)[h] \notin DOMAIN t

\* The nodes insert comes to, and what a node consists of.
Met(t, p) == {Way(t, p)[h] : h \in 0 .. Len(p)}
Whole(x) == x = [pattern |-> x.pattern, children |-> x.children]

\* The nodes after an insert.
LEMMA InsertIs ==
  ASSUME NEW t, IsTrie(t), NEW p \in Seq(Parts)
  PROVE  /\ DOMAIN Insert(t, p) = DOMAIN t \cup Met(t, p)
         /\ \A q \in DOMAIN Insert(t, p) :
               /\ Whole(Insert(t, p)[q])
               /\ Insert(t, p)[q].pattern =
                     IF q = Way(t, p)[Len(p)] THEN p ELSE At(t, q).pattern
               /\ Insert(t, p)[q].children =
                     IF Grows(t, p, q)
                     THEN Append(At(t, q).children, p[Len(q) + 1])
                     ELSE At(t, q).children
BY DEF Insert, Grows, Met, Whole

\* insert adds at most one child to a node, behind those it has.
LEMMA InsertKeeps ==
  ASSUME NEW t, IsTrie(t), NEW p \in Seq(Parts), NEW q \in DOMAIN Insert(t, p)
  PROVE  /\ Insert(t, p)[q].children \in Seq(Parts)
         /\ \A i \in DOMAIN At(t, q).children :
               /\ i \in DOMAIN Insert(t, p)[q].children
               /\ Insert(t, p)[q].children[i] = At(t, q).children[i]
         /\ \A i \in DOMAIN Insert(t, p)[q].children :
               \/ i \in DOMAIN At(t, q).children
               \/ /\ i = Len(At(t, q).children) + 1
                  /\ Grows(t, p, q)
                  /\ Insert(t, p)[q].children[i] = p[Len(q) + 1]
         /\ Grows(t, p, q) =>
               /\ Len(q) + 1 \in 1 .. Len(p)
               /\ Way(t, p)[Len(q)] = q
               /\ Way(t, p)[Len(q) + 1] \notin DOMAIN t
               /\ Way(t, p)[Len(q) + 1] = Append(q, p[Len(q) + 1])
               /\ Has(Insert(t, p), q, p[Len(q) + 1])
<1> DEFINE w == Way(t, p)
           cs == At(t, q).children
           new == Insert(t, p)[q].children
<1>1. cs \in Seq(Parts) /\ DOMAIN cs = 1 .. Len(cs) /\ Len(cs) \in Nat
  BY AtIs, LenProperties DEF Nodes
<1>2. new = IF Grows(t, p, q) THEN Append(cs, p[Len(q) + 1]) ELSE cs
  BY InsertIs
<1>3. CASE ~ Grows(t, p, q)
  BY <1>1, <1>2, <1>3
<1>4. CASE Grows(t, p, q)
  <2>1. PICK h \in 1 .. Len(p) : w[h - 1] = q /\ w[h] \notin DOMAIN t
    BY <1>4 DEF Grows
  <2>2. h - 1 \in 0 .. Len(p) /\ h \in Nat /\ p[h] \in Parts
    BY LenProperties
  <2>3. Len(q) = h - 1
    BY <2>1, <2>2, WayCuts
  <2>4. w[h] = Append(q, p[h])
    BY <2>1, WayPath
  <2>5. Len(q) + 1 = h
    BY <2>2, <2>3
  <2> HIDE DEF w
  <2>6. new = Append(cs, p[h])
    BY <1>2, <1>4, <2>5
  <2> HIDE DEF cs
  <2>7. /\ new \in Seq(Parts) /\ DOMAIN new = 1 .. Len(cs) + 1
        /\ \A i \in 1 .. Len(cs) : new[i] = cs[i]
        /\ new[Len(cs) + 1] = p[h]
    <3>1. /\ Append(cs, p[h]) \in Seq(Parts)
          /\ Len(Append(cs, p[h])) = Len(cs) + 1
          /\ \A i \in 1 .. Len(cs) : Append(cs, p[h])[i] = cs[i]
          /\ Append(cs, p[h])[Len(cs) + 1] = p[h]
      BY <1>1, <2>2, AppendProperties
    <3>2. DOMAIN Append(cs, p[h]) = 1 .. Len(cs) + 1
      BY <3>1, LenProperties
    <3> HIDE DEF new
    <3> QED  BY <2>6, <3>1, <3>2
  <2>8. Has(Insert(t, p), q, p[h])
    BY <1>1, <2>7 DEF Has
  <2> HIDE DEF new
  <2>9. /\ \A i \in DOMAIN cs : i \in DOMAIN new /\ new[i] = cs[i]
        /\ \A i \in DOMAIN new :
              i \in DOMAIN cs \/ (i = Len(cs) + 1 /\ new[i] = p[h])
    BY <1>1, <2>7
  <2> QED  BY <1>4, <2>1, <2>3, <2>4, <2>5, <2>7, <2>8, <2>9 DEF new, w, cs
<1> QED  BY <1>3, <1>4

\* insert leaves a trie.
LEMMA InsertTrie ==
  ASSUME NEW t, IsTrie(t), NEW p \in Seq(Parts)
  PROVE  IsTrie(Insert(t, p))
<1> DEFINE w == Way(t, p)
           n == Len(p)
           u == Insert(t, p)
<1>1. n \in Nat /\ n \in 0 .. n /\ 0 \in 0 .. n
  BY LenProperties
<1>2. DOMAIN u = DOMAIN t \cup {w[h] : h \in 0 .. n}
  <2>1. DOMAIN u = DOMAIN t \cup Met(t, p)
    BY InsertIs
  <2> QED  BY <2>1 DEF Met
<1>3. \A h \in 0 .. n : /\ w[h] \in Seq(Parts) /\ Len(w[h]) = h
                        /\ \A k \in 0 .. h : Cut(w[h], k) = w[k]
  BY WayCuts
<1>4. DOMAIN u \subseteq Seq(Parts) /\ << >> \in DOMAIN u
  <2> HIDE DEF u, w, n
  <2> QED  BY <1>2, <1>3 DEF IsTrie
<1>5. ASSUME NEW q \in DOMAIN u
      PROVE  /\ u[q] \in Nodes
             /\ u[q].pattern # NoPattern => Len(u[q].pattern) = Len(q)
  <2>1. At(t, q) \in Nodes
    BY AtIs
  <2>2. u[q].pattern = IF q = w[n] THEN p ELSE At(t, q).pattern
    BY InsertIs
  <2>3. u[q] = [pattern |-> u[q].pattern, children |-> u[q].children]
    <3>1. Whole(u[q])
      BY InsertIs
    <3> QED  BY <3>1 DEF Whole
  <2>4. u[q].children \in Seq(Parts)
    BY InsertKeeps
  <2>5. At(t, q).pattern # NoPattern => Len(At(t, q).pattern) = Len(q)
    BY DEF At, IsTrie, Node
  <2>6. Len(w[n]) = Len(p)
    BY <1>1, <1>3
  <2> HIDE DEF u, w, n
  <2>7. u[q].pattern \in Seq(Parts) \cup {NoPattern}
    BY <2>1, <2>2 DEF Nodes
  <2>8. u[q] \in Nodes
    BY <2>3, <2>4, <2>7 DEF Nodes
  <2> QED  BY <2>2, <2>5, <2>6, <2>8
<1>6. ASSUME NEW q \in DOMAIN u, NEW i \in DOMAIN u[q].children
      PROVE  Append(q, u[q].children[i]) \in DOMAIN u
  <2>1. CASE i \in DOMAIN At(t, q).children
    <3>1. q \in DOMAIN t
      BY <2>1 DEF At, Node
    <3>2. Append(q, t[q].children[i]) \in DOMAIN t
      BY <2>1, <3>1 DEF At, IsTrie
    <3>3. u[q].children[i] = t[q].children[i]
      BY <2>1, <3>1, InsertKeeps DEF At
    <3> QED  BY <1>2, <3>2, <3>3
  <2>2. CASE i \notin DOMAIN At(t, q).children
    <3>1. Grows(t, p, q) /\ u[q].children[i] = p[Len(q) + 1]
      BY <2>2, InsertKeeps
    <3>2. Len(q) + 1 \in 0 .. n /\ w[Len(q) + 1] = Append(q, p[Len(q) + 1])
      BY <3>1, InsertKeeps
    <3> HIDE DEF u, w, n
    <3> QED  BY <1>2, <3>1, <3>2
  <2> QED  BY <2>1, <2>2
<1>7. ASSUME NEW q \in DOMAIN u, NEW h \in 0 .. Len(q)
      PROVE  Cut(q, h) \in DOMAIN u
  <2>1. CASE q \in DOMAIN t
    BY <1>2, <2>1 DEF IsTrie
  <2>2. CASE q \notin DOMAIN t
    <3> HIDE DEF u, w
    <3>1. PICK k \in 0 .. n : q = w[k]
      BY <1>2, <2>2
    <3>2. Cut(q, h) = w[h] /\ h \in 0 .. n
      BY <1>3, <3>1
    <3> QED  BY <1>2, <3>2
  <2> QED  BY <2>1, <2>2
<1>8. ASSUME NEW q \in DOMAIN t, NEW x, Has(t, q, x)  PROVE Has(u, q, x)
  <2>1. q \in DOMAIN u /\ At(t, q) = t[q]
    BY <1>2 DEF At
  <2>2. PICK i \in DOMAIN t[q].children : t[q].children[i] = x
    BY <1>8 DEF Has
  <2>3. i \in DOMAIN u[q].children /\ u[q].children[i] = x
    BY <2>1, <2>2, InsertKeeps
  <2> QED  BY <2>3 DEF Has
<1>9. ASSUME NEW q \in DOMAIN u, NEW h \in 1 .. Len(q)
      PROVE  Has(u, Cut(q, h - 1), q[h])
  <2>1. CASE q \in DOMAIN t
    <3>1. h - 1 \in 0 .. Len(q)
      BY <1>4, LenProperties
    <3>2. Cut(q, h - 1) \in DOMAIN t /\ Has(t, Cut(q, h - 1), q[h])
      BY <2>1, <3>1 DEF IsTrie
    <3> QED  BY <1>8, <3>2
  <2>2. CASE q \notin DOMAIN t
    <3>1. PICK k \in 0 .. n : q = w[k]
      <4> HIDE DEF u, w, n
      <4> QED  BY <1>2, <2>2
    <3>2. h \in 1 .. n /\ h \in 1 .. k /\ h \in 0 .. n /\ h - 1 \in 0 .. n
          /\ h \in 0 .. k /\ h - 1 \in 0 .. k /\ h \in 1 .. h /\ h - 1 \in 0 .. h
      BY <1>1, <1>3, <3>1
    <3>3. Cut(q, h - 1) = w[h - 1] /\ Cut(q, h) = w[h]
      BY <1>3, <3>1, <3>2
    <3>4. q[h] = w[h][h]
      <4>1. q \in Seq(Parts) /\ h \in 0 .. Len(q)
        BY <1>3, <3>1, <3>2
      <4>2. Cut(q, h)[h] = q[h]
        BY <3>2, <4>1, CutIs
      <4> QED  BY <3>3, <4>2
    <3>5. CASE w[h] \in DOMAIN t
      <4>1. Len(w[h]) = h /\ Cut(w[h], h - 1) = w[h - 1]
        BY <1>3, <3>2
      <4>2. w[h - 1] \in DOMAIN t /\ Has(t, w[h - 1], w[h][h])
        <5> HIDE DEF w
        <5> QED  BY <3>2, <3>5, <4>1 DEF IsTrie
      <4> QED  BY <1>8, <3>3, <3>4, <4>2
    <3>6. CASE w[h] \notin DOMAIN t
      <4>1. Grows(t, p, w[h - 1])
        BY <3>2, <3>6 DEF Grows
      <4>2. Len(w[h - 1]) + 1 = h /\ w[h - 1] \in DOMAIN u
        <5>1. Len(w[h - 1]) = h - 1
          BY <1>3, <3>2
        <5>2. w[h - 1] \in {w[i] : i \in 0 .. n}
          BY <3>2
        <5> HIDE DEF w, u, n
        <5> QED  BY <1>2, <3>2, <5>1, <5>2
      <4>3. w[h] = Append(w[h - 1], p[h]) /\ Has(u, w[h - 1], p[h])
        BY <4>1, <4>2, InsertKeeps
      <4>4. w[h][h] = p[h]
        <5>1. w[h - 1] \in Seq(Parts) /\ p[h] \in Parts
          BY <1>3, <3>2, LenProperties
        <5> HIDE DEF w
        <5> QED  BY <4>2, <4>3, <5>1, AppendProperties
      <4> QED  BY <3>3, <3>4, <4>3, <4>4
    <3> QED  BY <3>5, <3>6
  <2> QED  BY <2>1, <2>2
<1> HIDE DEF u
<1>10. IsTrie(u)
  BY <1>4, <1>5, <1>6, <1>7, <1>9 DEF IsTrie
<1> QED  BY <1>10 DEF u

-----------------------------------------------------------------------------
(* search *)

Reach(t, parts) == {p \in DOMAIN t : Len(p) <= Len(parts)}
Ends(q, parts) == Len(q) = Len(parts) \/ (q # << >> /\ q[Len(q)] \in Star)
Under(t, r, q, i) == r[Append(q, t[q].children[i])]
Hits(t, r, q, parts) ==
    {i \in Matching(t[q], parts[Len(q) + 1]) : Under(t, r, q, i) # NoPattern}
Result(t, r, q, parts) ==
    IF Ends(q, parts) THEN t[q].pattern
    ELSE IF Hits(t, r, q, parts) = {} THEN NoPattern
    ELSE Under(t, r, q, Min(Hits(t, r, q, parts)))

\* The children of a node, and the least of those that something was found at.
LEMMA ChildrenAre ==
  ASSUME NEW t, IsTrie(t), NEW parts \in Seq(Parts), NEW q \in Reach(t, parts),
         ~ Ends(q, parts), NEW i \in DOMAIN t[q].children
  PROVE  /\ t[q].children[i] \in Parts
         /\ Append(q, t[q].children[i]) \in Reach(t, parts)
         /\ Len(Append(q, t[q].children[i])) = Len(q) + 1
<1>1. q \in Seq(Parts) /\ Len(q) \in Nat /\ Len(parts) \in Nat
  BY LenProperties DEF Reach, IsTrie
<1>2. Len(q) + 1 <= Len(parts)
  BY <1>1 DEF Ends, Reach
<1>3. t[q].children \in Seq(Parts)
  BY DEF Reach, IsTrie, Nodes
<1>4. t[q].children[i] \in Parts
  BY <1>3, LenProperties, ElementOfSeq
<1>5. Append(q, t[q].children[i]) \in DOMAIN t
  BY DEF Reach, IsTrie
<1>6. Len(Append(q, t[q].children[i])) = Len(q) + 1
  BY <1>1, <1>4, AppendProperties
<1> QED  BY <1>2, <1>4, <1>5, <1>6 DEF Reach

\* The children a search returns something from are children.
LEMMA HitsAre ==
  ASSUME NEW t, IsTrie(t), NEW parts, NEW q \in DOMAIN t, NEW r
  PROVE  /\ Hits(t, r, q, parts) \subseteq DOMAIN t[q].children
         /\ Hits(t, r, q, parts) # {} =>
               Min(Hits(t, r, q, parts)) \in Hits(t, r, q, parts)
<1>1. DOMAIN t[q].children \subseteq Nat
  <2>1. t[q].children \in Seq(Parts)
    BY DEF IsTrie, Nodes
  <2> QED  BY <2>1, LenProperties
<1>2. Hits(t, r, q, parts) \subseteq DOMAIN t[q].children
  BY DEF Hits, Matching
<1>3. Hits(t, r, q, parts) \in SUBSET Nat
  BY <1>1, <1>2
<1> QED  BY <1>2, <1>3, LeastIsMin

\* A node's result is that of its children.
LEMMA ResultLocal ==
  ASSUME NEW t, IsTrie(t), NEW parts \in Seq(Parts), NEW q \in Reach(t, parts),
         NEW r, NEW s,
         \A c \in Reach(t, parts) : Len(c) = Len(q) + 1 => r[c] = s[c]
  PROVE  Result(t, r, q, parts) = Result(t, s, q, parts)
<1>1. CASE Ends(q, parts)
  BY <1>1 DEF Result
<1>2. CASE ~ Ends(q, parts)
  <2>1. ASSUME NEW i \in DOMAIN t[q].children
        PROVE  Under(t, r, q, i) = Under(t, s, q, i)
    BY <1>2, ChildrenAre DEF Under
  <2>2. Hits(t, r, q, parts) = Hits(t, s, q, parts)
    BY <2>1 DEF Hits, Matching
  <2>3. Hits(t, r, q, parts) # {} =>
           Min(Hits(t, r, q, parts)) \in DOMAIN t[q].children
    BY HitsAre DEF Reach
  <2> QED  BY <1>2, <2>1, <2>2, <2>3 DEF Result
<1> QED  BY <1>1, <1>2

\* What search returns satisfies its recursive definition, at every node.
LEMMA ResultsAre ==
  ASSUME NEW t, IsTrie(t), NEW parts \in Seq(Parts)
  PROVE  \A q \in Reach(t, parts) :
            Results(t, parts)[q] = Result(t, Results(t, parts), q, parts)
<1> DEFINE D == Reach(t, parts)
           L == Len(parts)
           F(r) == [q \in D |-> Result(t, r, q, parts)]
           Upto(m, r) == \A q \in D : Len(q) > L - m =>
                            r[q] = Result(t, r, q, parts)
           T == {m \in 0 .. L + 1 : \E r : r = [q \in D |-> r[q]] /\ Upto(m, r)}
<1>1. L \in Nat /\ \A q \in D : Len(q) \in 0 .. L
  BY LenProperties DEF Reach, IsTrie
<1>2. 0 \in T
  <2> DEFINE r == [q \in D |-> NoPattern]
  <2>1. r = [q \in D |-> r[q]] /\ Upto(0, r)
    BY <1>1
  <2> HIDE DEF r, Upto, D
  <2> QED  BY <1>1, <2>1
<1>3. ASSUME NEW m \in 0 .. (L + 1) - 1, m \in T  PROVE m + 1 \in T
  <2>1. PICK r : r = [q \in D |-> r[q]] /\ Upto(m, r)
    BY <1>3
  <2> DEFINE s == [q \in D |-> IF Len(q) = L - m THEN Result(t, r, q, parts)
                               ELSE r[q]]
  <2>2. s = [q \in D |-> s[q]]
    OBVIOUS
  <2>3. ASSUME NEW q \in D, Len(q) > L - (m + 1)
        PROVE  s[q] = Result(t, s, q, parts)
    <3>1. \A c \in D : Len(c) = Len(q) + 1 => r[c] = s[c]
      BY <1>1, <2>3
    <3>2. Result(t, r, q, parts) = Result(t, s, q, parts)
      <4> HIDE DEF s
      <4> QED  BY <3>1, ResultLocal
    <3>3. CASE Len(q) = L - m
      <4>1. s[q] = Result(t, r, q, parts)
        BY <3>3
      <4> QED  BY <3>2, <4>1
    <3>4. CASE Len(q) # L - m
      <4>1. s[q] = r[q] /\ Len(q) > L - m
        BY <1>1, <2>3, <3>4
      <4> QED  BY <2>1, <3>2, <4>1
    <3> QED  BY <3>3, <3>4
  <2>4. Upto(m + 1, s)
    BY <2>3
  <2> HIDE DEF s, Upto, D, L
  <2>5. m + 1 \in 0 .. L + 1
    BY <1>1
  <2> QED  BY <2>2, <2>4, <2>5
<1>4. L + 1 \in T
  <2>1. L + 1 \in Nat
    BY <1>1
  <2> HIDE DEF T, L
  <2>2. 0 .. L + 1 \subseteq T
    BY <1>2, <1>3, <2>1, UpTo
  <2> QED  BY <2>1, <2>2
<1>5. PICK r : r = [q \in D |-> r[q]] /\ Upto(L + 1, r)
  BY <1>4
<1>6. r = F(r)
  <2>1. \A q \in D : r[q] = Result(t, r, q, parts)
    BY <1>1, <1>5
  <2> HIDE DEF D
  <2> QED  BY <1>5, <2>1
<1>7. Results(t, parts) = CHOOSE s : s = F(s)
  BY DEF Results, Result, Under, Hits, Ends, Reach
<1> HIDE DEF F
<1>8. Results(t, parts) = F(Results(t, parts))
  BY <1>6, <1>7
<1> QED  BY <1>8 DEF F

\* What a search from q looks for: below q, to the end of the path or to a "*".
Candidate(t, parts, q, c) ==
    /\ c \in DOMAIN t /\ t[c].pattern # NoPattern
    /\ Len(q) <= Len(c) /\ Len(c) <= Len(parts) /\ Cut(c, Len(q)) = q
    /\ Ends(c, parts)
    /\ \A i \in Len(q) + 1 .. Len(c) : c[i] \in Wild \cup {parts[i]}
    /\ \A i \in 1 .. Len(c) - 1 : i >= Len(q) => c[i] \notin Star

Sound(t, parts, q) ==
    LET result == Results(t, parts)[q] IN
    /\ result # NoPattern =>
          \E c : Candidate(t, parts, q, c) /\ result = t[c].pattern
    /\ (\E c : Candidate(t, parts, q, c)) => result # NoPattern

\* Where a search ends it is sound.
LEMMA SoundAtEnd ==
  ASSUME NEW t, IsTrie(t), NEW parts \in Seq(Parts), NEW q \in Reach(t, parts),
         Ends(q, parts)
  PROVE  Sound(t, parts, q)
<1> DEFINE result == Results(t, parts)[q]
<1>1. result = t[q].pattern
  BY ResultsAre DEF Result
<1>2. q \in DOMAIN t /\ q \in Seq(Parts) /\ Len(q) <= Len(parts)
      /\ Len(q) \in Nat /\ Len(parts) \in Nat
  BY LenProperties DEF Reach, IsTrie
<1>3. t[q].pattern # NoPattern => Candidate(t, parts, q, q)
  BY <1>2, CutEnds DEF Candidate
<1>4. ASSUME NEW c, Candidate(t, parts, q, c)  PROVE c = q
  <2>1. c \in Seq(Parts) /\ Len(c) \in Nat
    BY <1>4, LenProperties DEF Candidate, IsTrie
  <2>2. Cut(c, Len(q)) = q /\ Len(q) <= Len(c) /\ Len(c) <= Len(parts)
    BY <1>4 DEF Candidate
  <2>3. CASE Len(c) = Len(q)
    BY <2>1, <2>2, <2>3, CutEnds
  <2>4. CASE Len(c) # Len(q)
    <3>1. Len(q) # Len(parts) /\ Len(q) <= Len(c) - 1
      BY <1>2, <2>1, <2>2, <2>4
    <3>2. q # << >> /\ q[Len(q)] \in Star
      BY <3>1 DEF Ends
    <3>3. Len(q) \in 1 .. Len(q) /\ Len(q) \in 1 .. Len(c) - 1
          /\ Len(q) \in 0 .. Len(c)
      BY <1>2, <2>1, <3>1, <3>2
    <3>4. q[Len(q)] = c[Len(q)]
      BY <2>1, <2>2, <3>3, CutIs
    <3>5. c[Len(q)] \notin Star
      BY <1>2, <1>4, <3>3 DEF Candidate
    <3> QED  BY <3>2, <3>4, <3>5
  <2> QED  BY <2>3, <2>4
<1> HIDE DEF result
<1>5. /\ result # NoPattern =>
          \E c : Candidate(t, parts, q, c) /\ result = t[c].pattern
      /\ (\E c : Candidate(t, parts, q, c)) => result # NoPattern
  <2>1. ASSUME NEW c, Candidate(t, parts, q, c)  PROVE result # NoPattern
    BY <1>1, <1>4, <2>1 DEF Candidate
  <2> QED  BY <1>1, <1>3, <2>1
<1> QED  BY <1>5 DEF Sound, result

\* A child for the next part has the candidates that lie below it.
LEMMA CandidateBelow ==
  ASSUME NEW t, IsTrie(t), NEW parts \in Seq(Parts), NEW q \in Reach(t, parts),
         ~ Ends(q, parts), NEW i \in Matching(t[q], parts[Len(q) + 1]), NEW c,
         Candidate(t, parts, Append(q, t[q].children[i]), c)
  PROVE  Candidate(t, parts, q, c)
<1> DEFINE x == t[q].children[i]
           d == Append(q, x)
           k == Len(q)
<1>1. i \in DOMAIN t[q].children /\ x \in Wild \cup {parts[k + 1]}
  BY DEF Matching
<1>2. q \in Seq(Parts) /\ k \in Nat /\ x \in Parts /\ q \in DOMAIN t
  BY <1>1, ChildrenAre, LenProperties DEF Reach, IsTrie
<1>3. c \in Seq(Parts) /\ Len(c) \in Nat
  BY LenProperties DEF Candidate, IsTrie
<1> HIDE DEF x
<1>4. /\ d \in Seq(Parts) /\ Len(d) = k + 1 /\ d[k + 1] = x
      /\ \A j \in 1 .. k : d[j] = q[j]
  BY <1>2, AppendProperties
<1> HIDE DEF d
<1>5. Candidate(t, parts, d, c)
  BY DEF d, x
<1>6. k + 1 <= Len(c) /\ Len(c) <= Len(parts) /\ Cut(c, k + 1) = d
  BY <1>4, <1>5 DEF Candidate
<1>7. k + 1 \in 0 .. Len(c) /\ k \in 0 .. k + 1 /\ k \in 0 .. k
  BY <1>2, <1>3, <1>6
<1>8. Cut(c, k) = q
  <2>1. Cut(c, k) = Cut(d, k)
    BY <1>3, <1>6, <1>7, CutOfCut
  <2>2. Cut(d, k) = Cut(q, k)
    BY <1>2, <1>7, CutOfAppend DEF d
  <2> QED  BY <1>2, <2>1, <2>2, CutEnds
<1>9. \A j \in 1 .. k + 1 : c[j] = d[j]
  BY <1>3, <1>6, <1>7, CutIs
<1> HIDE DEF k
<1>10. ASSUME NEW j \in k + 1 .. Len(c)  PROVE c[j] \in Wild \cup {parts[j]}
  <2>1. CASE j = k + 1
    BY <1>1, <1>2, <1>4, <1>9, <2>1
  <2>2. CASE j # k + 1
    <3>1. j \in Len(d) + 1 .. Len(c)
      BY <1>2, <1>3, <1>4, <2>2
    <3> QED  BY <1>5, <3>1 DEF Candidate
  <2> QED  BY <2>1, <2>2
<1>11. ASSUME NEW j \in 1 .. Len(c) - 1, j >= k  PROVE c[j] \notin Star
  <2>1. CASE j = k
    <3>1. j \in 1 .. k + 1 /\ j \in 1 .. k /\ q # << >>
      BY <1>2, <2>1 DEF k
    <3>2. c[k] = q[k]
      BY <1>4, <1>9, <2>1, <3>1
    <3>3. q[k] \notin Star
      BY <3>1 DEF Ends, k
    <3> QED  BY <2>1, <3>2, <3>3
  <2>2. CASE j # k
    <3>1. j >= Len(d)
      BY <1>2, <1>4, <1>11, <2>2
    <3> QED  BY <1>5, <3>1 DEF Candidate
  <2> QED  BY <2>1, <2>2
<1>12. /\ t[c].pattern # NoPattern /\ Ends(c, parts) /\ c \in DOMAIN t
       /\ k <= Len(c)
  BY <1>2, <1>3, <1>5, <1>6 DEF Candidate
<1> QED  BY <1>6, <1>8, <1>10, <1>11, <1>12 DEF Candidate, k

\* Every candidate of a node that a search goes on from lies below a child.
LEMMA CandidateChild ==
  ASSUME NEW t, IsTrie(t), NEW parts \in Seq(Parts), NEW q \in Reach(t, parts),
         ~ Ends(q, parts), NEW c, Candidate(t, parts, q, c)
  PROVE  \E i \in Matching(t[q], parts[Len(q) + 1]) :
            Candidate(t, parts, Append(q, t[q].children[i]), c)
<1> DEFINE k == Len(q)
           x == c[k + 1]
           d == Append(q, x)
<1>1. q \in Seq(Parts) /\ k \in Nat /\ q \in DOMAIN t
  BY LenProperties DEF Reach, IsTrie
<1>2. c \in Seq(Parts) /\ Len(c) \in Nat /\ c \in DOMAIN t
  BY LenProperties DEF Candidate, IsTrie
<1>3. k <= Len(c) /\ Len(c) <= Len(parts) /\ Cut(c, k) = q
  BY DEF Candidate
<1>4. Len(c) # k
  <2>1. SUFFICES ASSUME Len(c) = k  PROVE FALSE
    OBVIOUS
  <2>2. c = q
    BY <1>2, <1>3, <2>1, CutEnds
  <2> QED  BY <2>2 DEF Candidate
<1>5. k + 1 \in 1 .. Len(c) /\ (k + 1) - 1 = k /\ k + 1 <= Len(c)
  BY <1>1, <1>2, <1>3, <1>4
<1>6. x \in Parts
  BY <1>2, <1>5, ElementOfSeq
<1>7. Cut(c, k + 1) = d
  BY <1>2, <1>3, <1>5, CutGrows
<1>8. Has(t, q, x)
  BY <1>2, <1>3, <1>5 DEF IsTrie
<1>9. PICK i \in DOMAIN t[q].children : t[q].children[i] = x
  BY <1>8 DEF Has
<1>10. x \in Wild \cup {parts[k + 1]}
  BY <1>1, <1>5 DEF Candidate
<1>11. i \in Matching(t[q], parts[k + 1])
  BY <1>9, <1>10 DEF Matching
<1>12. Len(d) = k + 1
  BY <1>1, <1>6, AppendProperties
<1>13. Candidate(t, parts, d, c)
  <2> HIDE DEF d, x
  <2>1. \A j \in Len(d) + 1 .. Len(c) : c[j] \in Wild \cup {parts[j]}
    BY <1>1, <1>2, <1>12 DEF Candidate
  <2>2. \A j \in 1 .. Len(c) - 1 : j >= Len(d) => c[j] \notin Star
    BY <1>1, <1>2, <1>12 DEF Candidate
  <2>3. t[c].pattern # NoPattern /\ Ends(c, parts)
    BY DEF Candidate
  <2> HIDE DEF k
  <2> QED  BY <1>2, <1>3, <1>5, <1>7, <1>12, <2>1, <2>2, <2>3 DEF Candidate
<1> QED  BY <1>9, <1>11, <1>13

\* Sound at its children, a search is sound at a node: it tries each of them.
LEMMA SoundAbove ==
  ASSUME NEW t, IsTrie(t), NEW parts \in Seq(Parts), NEW q \in Reach(t, parts),
         ~ Ends(q, parts),
         \A c \in Reach(t, parts) : Len(c) = Len(q) + 1 => Sound(t, parts, c)
  PROVE  Sound(t, parts, q)
<1> DEFINE r == Results(t, parts)
           hits == Hits(t, r, q, parts)
           m == Min(hits)
           d(i) == Append(q, t[q].children[i])
<1>1. q \in DOMAIN t
  BY DEF Reach
<1>2. r[q] = IF hits = {} THEN NoPattern ELSE r[d(m)]
  BY ResultsAre DEF Result, Under
<1>3. \A i : i \in hits <=> i \in Matching(t[q], parts[Len(q) + 1])
                            /\ r[d(i)] # NoPattern
  BY DEF Hits, Under
<1>4. \A i \in Matching(t[q], parts[Len(q) + 1]) : Sound(t, parts, d(i))
  <2>1. ASSUME NEW i \in Matching(t[q], parts[Len(q) + 1])
        PROVE  d(i) \in Reach(t, parts) /\ Len(d(i)) = Len(q) + 1
    BY ChildrenAre DEF Matching
  <2> QED  BY <2>1
<1>5. hits # {} => m \in hits
  BY <1>1, HitsAre
<1>6. ASSUME r[q] # NoPattern
      PROVE  \E c : Candidate(t, parts, q, c) /\ r[q] = t[c].pattern
  <2>1. m \in hits /\ r[q] = r[d(m)]
    BY <1>2, <1>5, <1>6
  <2> HIDE DEF m, hits
  <2>2. m \in Matching(t[q], parts[Len(q) + 1]) /\ r[d(m)] # NoPattern
    BY <1>3, <2>1
  <2>3. PICK c : Candidate(t, parts, d(m), c) /\ r[d(m)] = t[c].pattern
    BY <1>4, <2>2 DEF Sound
  <2>4. Candidate(t, parts, q, c)
    BY <2>2, <2>3, CandidateBelow
  <2> QED  BY <2>1, <2>3, <2>4
<1>7. ASSUME NEW c, Candidate(t, parts, q, c)  PROVE r[q] # NoPattern
  <2>1. PICK i \in Matching(t[q], parts[Len(q) + 1]) : Candidate(t, parts, d(i), c)
    BY <1>7, CandidateChild
  <2>2. r[d(i)] # NoPattern
    BY <1>4, <2>1 DEF Sound
  <2> HIDE DEF m, hits
  <2>3. i \in hits
    BY <1>3, <2>1, <2>2
  <2>4. m \in hits
    BY <1>5, <2>3
  <2> QED  BY <1>2, <1>3, <2>3, <2>4
<1> QED  BY <1>6, <1>7 DEF Sound

\* A search finds a pattern exactly if there is a candidate, and one's pattern.
LEMMA SearchSound ==
  ASSUME NEW t, IsTrie(t), NEW parts \in Seq(Parts)
  PROVE  Sound(t, parts, << >>)
<1> DEFINE L == Len(parts)
           T == {m \in 0 .. L : \A q \in Reach(t, parts) :
                                   Len(q) >= L - m => Sound(t, parts, q)}
<1>1. L \in Nat /\ \A q \in Reach(t, parts) : Len(q) \in 0 .. L
  BY LenProperties DEF Reach, IsTrie
<1>2. 0 \in T
  <2>1. ASSUME NEW q \in Reach(t, parts), Len(q) >= L - 0
        PROVE  Sound(t, parts, q)
    <3>1. Ends(q, parts)
      BY <1>1, <2>1 DEF Ends
    <3> QED  BY <3>1, SoundAtEnd
  <2> HIDE DEF L
  <2> QED  BY <1>1, <2>1
<1>3. ASSUME NEW m \in 0 .. L - 1, m \in T  PROVE m + 1 \in T
  <2>1. ASSUME NEW q \in Reach(t, parts), Len(q) >= L - (m + 1)
        PROVE  Sound(t, parts, q)
    <3>1. \A c \in Reach(t, parts) : Len(c) = Len(q) + 1 => Sound(t, parts, c)
      BY <1>1, <1>3, <2>1
    <3> QED  BY <3>1, SoundAtEnd, SoundAbove
  <2>2. m + 1 \in 0 .. L
    BY <1>1
  <2> HIDE DEF L
  <2> QED  BY <2>1, <2>2
<1>4. L \in T
  <2> HIDE DEF T, L
  <2>1. 0 .. L \subseteq T
    BY <1>1, <1>2, <1>3, UpTo
  <2> QED  BY <1>1, <2>1
<1>5. << >> \in Reach(t, parts) /\ Len(<< >>) >= L - L
  BY <1>1 DEF Reach, IsTrie
<1> QED  BY <1>4, <1>5

-----------------------------------------------------------------------------
(* Routes that are not shadowed *)

Starts(q, p) == Len(q) <= Len(p) /\ Cut(p, Len(q)) = q

\* The trie of routes of which none was shadowed: its nodes are the beginnings
\* of the routes, and a child came before another with the first route it is
\* for.
Grown(t, ps) ==
    /\ \A q \in Seq(Parts) :
          q \in DOMAIN t <=> q = << >> \/ \E i \in DOMAIN ps : Starts(q, ps[i])
    /\ \A q \in DOMAIN t :
          t[q].pattern = IF \E i \in DOMAIN ps : ps[i] = q THEN q ELSE NoPattern
    /\ \A q \in DOMAIN t :
          \A a, b \in DOMAIN t[q].children, i \in DOMAIN ps :
             b < a /\ Starts(Append(q, t[q].children[a]), ps[i])
             => \E k \in 1 .. i : Starts(Append(q, t[q].children[b]), ps[k])

\* What Shadowed says of the last of the patterns.
LEMMA NotShadowed ==
  ASSUME NEW ps \in Seq(Parsed), NEW p \in Parsed,
         ~ Shadowed(Append(ps, p), Len(ps) + 1),
         NEW h \in 1 .. Len(p), NEW i \in DOMAIN ps,
         h <= Len(ps[i]), Cut(ps[i], h - 1) = Cut(p, h - 1),
         ps[i][h] \in Wild, ps[i][h] # p[h]
  PROVE  \E k \in 1 .. i - 1 : h <= Len(ps[k]) /\ Cut(ps[k], h) = Cut(p, h)
<1> DEFINE all == Append(ps, p)
           j == Len(ps) + 1
           Same(k, l) == Len(all[k]) >= l /\ SubSeq(all[k], 1, l) = SubSeq(all[j], 1, l)
<1>1. /\ Len(ps) \in Nat /\ DOMAIN ps = 1 .. Len(ps)
      /\ all[j] = p /\ \A k \in 1 .. Len(ps) : all[k] = ps[k]
  BY LenProperties, AppendProperties
<1>2. p \in Seq(Parts) /\ ps[i] \in Seq(Parts)
  BY <1>1, ElementOfSeq DEF Parsed
<1>3. DOMAIN p = 1 .. Len(p) /\ Len(p) \in Nat /\ Len(ps[i]) \in Nat
  BY <1>2, LenProperties
<1>4. i \in 1 .. j - 1 /\ h \in DOMAIN all[j]
  BY <1>1, <1>3
<1>5. ~ (/\ Same(i, h - 1) /\ Len(all[i]) >= h
         /\ all[i][h] \in Wild \ {all[j][h]}
         /\ \A k \in 1 .. i - 1 : ~ Same(k, h))
  BY <1>4 DEF Shadowed
<1>6. Same(i, h - 1) /\ Len(all[i]) >= h /\ all[i][h] \in Wild \ {all[j][h]}
  BY <1>1, <1>3, <1>4 DEF Cut
<1>7. PICK k \in 1 .. i - 1 : Same(k, h)
  BY <1>5, <1>6
<1>8. all[k] = ps[k] /\ ps[k] \in Seq(Parts)
  BY <1>1, ElementOfSeq DEF Parsed
<1>9. Len(ps[k]) \in Nat
  BY <1>8, LenProperties
<1> HIDE DEF all, j
<1> QED  BY <1>1, <1>7, <1>8, <1>9 DEF Cut

\* insert takes a route that is not shadowed along its own parts.
LEMMA OwnChild ==
  ASSUME NEW t, IsTrie(t), NEW ps \in Seq(Parsed), Grown(t, ps),
         NEW p \in Parsed, ~ Shadowed(Append(ps, p), Len(ps) + 1),
         NEW h \in 1 .. Len(p)
  PROVE  Child(t, Cut(p, h - 1), p[h]) = Cut(p, h)
<1> DEFINE q == Cut(p, h - 1)
           n == At(t, q)
           found == Matching(n, p[h])
           m == Min(found)
           x == n.children[m]
           d == Append(q, x)
<1>1. p \in Seq(Parts) /\ Len(p) \in Nat /\ p[h] \in Parts
      /\ h - 1 \in 0 .. Len(p) /\ h \in 0 .. Len(p)
  BY LenProperties DEF Parsed
<1>2. q \in Seq(Parts) /\ Len(q) = h - 1
  BY <1>1, CutIs
<1>3. Cut(p, h) = Append(q, p[h])
  BY <1>1, CutGrows
<1>4. CASE found = {}
  BY <1>3, <1>4 DEF Child
<1>5. CASE found # {}
  <2>1. n.children \in Seq(Parts)
    BY AtIs DEF Nodes
  <2>2. DOMAIN n.children = 1 .. Len(n.children) /\ Len(n.children) \in Nat
    BY <2>1, LenProperties
  <2>3. found \in SUBSET Nat
    BY <2>2 DEF Matching
  <2>4. m \in found /\ \A a \in found : m <= a
    <3> HIDE DEF found
    <3> QED  BY <1>5, <2>3, LeastIsMin
  <2>5. m \in DOMAIN n.children /\ x \in Wild \cup {p[h]} /\ x \in Parts
    <3>1. m \in DOMAIN n.children /\ x \in Wild \cup {p[h]}
      BY <2>4 DEF Matching
    <3> QED  BY <2>1, <2>2, <3>1, ElementOfSeq
  <2>6. q \in DOMAIN t /\ n = t[q]
    BY <2>5 DEF At, Node
  <2>7. Child(t, q, p[h]) = d
    BY <1>5 DEF Child
  <2>8. SUFFICES ASSUME x # p[h]  PROVE FALSE
    BY <1>3, <2>7
  <2>9. d \in DOMAIN t
    BY <2>5, <2>6 DEF IsTrie
  <2> HIDE DEF m
  <2>10. /\ d \in Seq(Parts) /\ Len(d) = h /\ d[h] = x /\ d # << >>
         /\ Cut(d, h - 1) = q
    <3> HIDE DEF x, q
    <3>1. /\ d \in Seq(Parts) /\ Len(d) = h /\ d[h] = x /\ d # << >>
      BY <1>1, <1>2, <2>5, AppendProperties
    <3>2. h - 1 \in 0 .. Len(q)
      BY <1>1, <1>2
    <3>3. Cut(d, h - 1) = Cut(q, h - 1)
      BY <1>2, <2>5, <3>2, CutOfAppend
    <3> QED  BY <1>2, <3>1, <3>3, CutEnds
  <2> DEFINE users == {i \in DOMAIN ps : Starts(d, ps[i])}
  <2>11. DOMAIN ps = 1 .. Len(ps) /\ Len(ps) \in Nat
    BY LenProperties
  <2>12. PICK i \in users : \A k \in users : i <= k
    <3>1. users # {}
      BY <2>9, <2>10 DEF Grown
    <3>2. users \in SUBSET Nat
      BY <2>11
    <3> HIDE DEF users
    <3> QED  BY <3>1, <3>2, LeastNumber
  <2>13. i \in DOMAIN ps /\ h <= Len(ps[i]) /\ Cut(ps[i], h) = d
    BY <2>10, <2>12 DEF Starts
  <2>14. ps[i] \in Seq(Parts) /\ Len(ps[i]) \in Nat
    BY <2>11, <2>13, ElementOfSeq, LenProperties DEF Parsed
  <2>15. h \in 0 .. Len(ps[i]) /\ h - 1 \in 0 .. h /\ h \in 1 .. h
    BY <1>1, <2>13, <2>14
  <2>16. Cut(ps[i], h - 1) = q /\ ps[i][h] = x
    <3>1. Cut(ps[i], h - 1) = Cut(d, h - 1)
      BY <2>13, <2>14, <2>15, CutOfCut
    <3>2. ps[i][h] = d[h]
      BY <2>13, <2>14, <2>15, CutIs
    <3> QED  BY <2>10, <3>1, <3>2
  <2>17. PICK k \in 1 .. i - 1 : h <= Len(ps[k]) /\ Cut(ps[k], h) = Cut(p, h)
    <3>1. x \in Wild
      BY <2>5, <2>8
    <3> HIDE DEF x
    <3> QED  BY <2>8, <2>13, <2>16, <3>1, NotShadowed
  <2>18. k \in DOMAIN ps /\ k \in Nat /\ i \in Nat
    BY <2>11, <2>13
  <2> DEFINE e == Cut(p, h)
  <2>19. e \in Seq(Parts) /\ Len(e) = h
    BY <1>1, CutIs
  <2>20. Starts(e, ps[k])
    BY <2>17, <2>19 DEF Starts
  <2>21. e \in DOMAIN t
    BY <2>18, <2>19, <2>20 DEF Grown
  <2>22. Has(t, q, p[h])
    <3>1. h \in 1 .. Len(e)
      BY <2>19
    <3>2. Has(t, Cut(e, h - 1), e[h])
      <4> HIDE DEF e
      <4> QED  BY <2>21, <3>1 DEF IsTrie
    <3>3. Cut(e, h - 1) = q
      BY <1>1, <2>15, CutOfCut
    <3>4. e[h] = p[h]
      BY <1>1, <2>15, CutIs
    <3> QED  BY <3>2, <3>3, <3>4
  <2>23. PICK a \in DOMAIN n.children : n.children[a] = p[h]
    BY <2>6, <2>22 DEF Has
  <2>24. a \in found
    BY <2>23 DEF Matching
  <2>25. m < a
    <3>1. m <= a /\ m # a
      BY <2>4, <2>8, <2>23, <2>24
    <3> QED  BY <2>2, <2>5, <2>23, <3>1
  <2>26. Starts(Append(q, n.children[a]), ps[k])
    BY <1>3, <2>20, <2>23
  <2>27. PICK l \in 1 .. k : Starts(d, ps[l])
    <3> HIDE DEF q, n
    <3> QED  BY <2>5, <2>6, <2>18, <2>23, <2>25, <2>26 DEF Grown
  <2>28. l \in DOMAIN ps /\ l < i
    BY <2>11, <2>17, <2>18
  <2>29. l \in users
    BY <2>27, <2>28
  <2> HIDE DEF users
  <2> QED  BY <2>12, <2>18, <2>28, <2>29
<1> QED  BY <1>4, <1>5

\* ... at every height.
LEMMA OwnWay ==
  ASSUME NEW t, IsTrie(t), NEW ps \in Seq(Parsed), Grown(t, ps),
         NEW p \in Parsed, ~ Shadowed(Append(ps, p), Len(ps) + 1)
  PROVE  \A h \in 0 .. Len(p) : Way(t, p)[h] = Cut(p, h)
<1> DEFINE n == Len(p)
           w == Way(t, p)
           T == {h \in 0 .. n : w[h] = Cut(p, h)}
<1>1. p \in Seq(Parts) /\ n \in Nat
  BY LenProperties DEF Parsed
<1>2. 0 \in T
  BY <1>1, WayIs, CutEnds
<1>3. ASSUME NEW h \in 0 .. n - 1, h \in T  PROVE h + 1 \in T
  <2>1. h + 1 \in 1 .. n /\ (h + 1) - 1 = h /\ h + 1 \in 0 .. n
    BY <1>1
  <2>2. w[h + 1] = Child(t, w[h], p[h + 1])
    BY <1>1, <2>1, WayIs
  <2>3. Child(t, Cut(p, h), p[h + 1]) = Cut(p, h + 1)
    BY <2>1, OwnChild
  <2> HIDE DEF w
  <2> QED  BY <1>3, <2>1, <2>2, <2>3
<1> HIDE DEF T
<1>4. 0 .. n \subseteq T
  BY <1>1, <1>2, <1>3, UpTo
<1> QED  BY <1>4 DEF T

\* Before any route there is the root alone.
LEMMA RootGrown ==
  IsTrie(NewRoot) /\ Grown(NewRoot, << >>)
<1>1. DOMAIN NewRoot = {<< >>} /\ NewRoot[<< >>] = Node
  BY DEF NewRoot
<1>2. << >> \in Seq(Parts) /\ Len(<< >>) = 0
  OBVIOUS
<1>3. Cut(<< >>, 0) = << >>
  BY <1>2, CutEnds
<1>4. Node \in Nodes /\ Node.pattern = NoPattern /\ Node.children = << >>
  BY DEF Node, Nodes
<1> QED  BY <1>1, <1>2, <1>3, <1>4 DEF IsTrie, Grown

\* The beginnings of a pattern, and of what was appended to a sequence.
LEMMA StartsAre ==
  ASSUME NEW q \in Seq(Parts), NEW p \in Seq(Parts)
  PROVE  /\ Starts(q, p) <=> \E h \in 0 .. Len(p) : q = Cut(p, h)
         /\ Starts(p, p)
<1>1. Len(p) \in Nat /\ Len(q) \in Nat
  BY LenProperties
<1>2. \A h \in 0 .. Len(p) : Len(Cut(p, h)) = h
  BY CutIs
<1> QED  BY <1>1, <1>2, CutEnds DEF Starts

\* A route that is not shadowed extends the trie along its own parts.
LEMMA GrownInsert ==
  ASSUME NEW t, IsTrie(t), NEW ps \in Seq(Parsed), Grown(t, ps),
         NEW p \in Parsed, ~ Shadowed(Append(ps, p), Len(ps) + 1)
  PROVE  Grown(Insert(t, p), Append(ps, p))
<1> DEFINE u == Insert(t, p)
           all == Append(ps, p)
           n == Len(p)
<1>1. p \in Seq(Parts) /\ n \in Nat /\ n \in 0 .. n
  BY LenProperties DEF Parsed
<1>2. /\ DOMAIN ps = 1 .. Len(ps) /\ Len(ps) \in Nat
      /\ \A i \in DOMAIN ps : ps[i] \in Seq(Parts)
  BY LenProperties, ElementOfSeq DEF Parsed
<1>3. /\ DOMAIN all = 1 .. Len(ps) + 1 /\ all[Len(ps) + 1] = p
      /\ \A i \in DOMAIN ps : all[i] = ps[i]
  <2>1. all \in Seq(Parsed) /\ Len(all) = Len(ps) + 1 /\ all[Len(ps) + 1] = p
        /\ \A i \in 1 .. Len(ps) : all[i] = ps[i]
    BY AppendProperties
  <2>2. DOMAIN all = 1 .. Len(all)
    BY <2>1, LenProperties
  <2> HIDE DEF all
  <2> QED  BY <1>2, <2>1, <2>2
<1>4. \A h \in 0 .. n : Way(t, p)[h] = Cut(p, h)
  BY OwnWay
<1>5. DOMAIN u = DOMAIN t \cup {Cut(p, h) : h \in 0 .. n}
  <2>1. DOMAIN u = DOMAIN t \cup Met(t, p)
    BY <1>1, InsertIs
  <2> QED  BY <1>4, <2>1 DEF Met
<1>6. IsTrie(u)
  BY <1>1, InsertTrie
<1>7. DOMAIN u \subseteq Seq(Parts)
  BY <1>6 DEF IsTrie
<1> HIDE DEF all
<1>8. ASSUME NEW q \in Seq(Parts)
      PROVE  q \in DOMAIN u <=> q = << >> \/ \E i \in DOMAIN all : Starts(q, all[i])
  <2>1. q \in DOMAIN t <=> q = << >> \/ \E i \in DOMAIN ps : Starts(q, ps[i])
    BY DEF Grown
  <2>2. q \in {Cut(p, h) : h \in 0 .. n} <=> Starts(q, p)
    BY <1>1, StartsAre
  <2>3. (\E i \in DOMAIN all : Starts(q, all[i]))
        <=> Starts(q, p) \/ \E i \in DOMAIN ps : Starts(q, ps[i])
    BY <1>2, <1>3
  <2> HIDE DEF u
  <2> QED  BY <1>5, <2>1, <2>2, <2>3
<1>9. ASSUME NEW q \in DOMAIN u
      PROVE  u[q].pattern = IF \E i \in DOMAIN all : all[i] = q THEN q ELSE NoPattern
  <2>1. q \in Seq(Parts)
    BY <1>7
  <2>2. u[q].pattern = IF q = Way(t, p)[n] THEN p ELSE At(t, q).pattern
    BY <1>1, InsertIs
  <2>3. Way(t, p)[n] = p
    BY <1>1, <1>4, CutEnds
  <2>4. At(t, q).pattern = IF \E i \in DOMAIN ps : ps[i] = q THEN q ELSE NoPattern
    <3>1. CASE q \in DOMAIN t
      BY <3>1 DEF At, Grown
    <3>2. CASE q \notin DOMAIN t
      <4>1. ASSUME NEW i \in DOMAIN ps  PROVE ps[i] # q
        <5>1. ps[i] \in DOMAIN t
          BY <1>2, StartsAre DEF Grown
        <5> QED  BY <3>2, <5>1
      <4> QED  BY <3>2, <4>1 DEF At, Node
    <3> QED  BY <3>1, <3>2
  <2>5. (\E i \in DOMAIN all : all[i] = q) <=> p = q \/ \E i \in DOMAIN ps : ps[i] = q
    BY <1>2, <1>3
  <2> HIDE DEF u
  <2> QED  BY <2>2, <2>3, <2>4, <2>5
<1>10. ASSUME NEW q \in DOMAIN u,
              NEW a \in DOMAIN u[q].children, NEW b \in DOMAIN u[q].children,
              NEW i \in DOMAIN all,
              b < a, Starts(Append(q, u[q].children[a]), all[i])
       PROVE  \E k \in 1 .. i : Starts(Append(q, u[q].children[b]), all[k])
  <2> DEFINE cs == At(t, q).children
             qa == Append(q, u[q].children[a])
             qb == Append(q, u[q].children[b])
  <2>1. cs \in Seq(Parts) /\ DOMAIN cs = 1 .. Len(cs) /\ Len(cs) \in Nat
    BY AtIs, LenProperties DEF Nodes
  <2>2. /\ \A c \in DOMAIN cs : u[q].children[c] = cs[c]
        /\ \A c \in DOMAIN u[q].children :
              c \in DOMAIN cs \/ (c = Len(cs) + 1 /\ Grows(t, p, q)
                                  /\ u[q].children[c] = p[Len(q) + 1])
    BY <1>1, InsertKeeps
  <2>3. b \in DOMAIN cs
    <3>1. a <= Len(cs) + 1 /\ a \in Nat
      BY <2>1, <2>2
    <3>2. b \in DOMAIN cs \/ b = Len(cs) + 1
      BY <2>2
    <3> HIDE DEF cs
    <3> QED  BY <1>10, <2>1, <3>1, <3>2
  <2>4. q \in DOMAIN t /\ cs = t[q].children
    BY <2>3 DEF At, Node
  <2>5. qb \in DOMAIN t
    BY <2>2, <2>3, <2>4 DEF IsTrie
  <2>6. PICK k \in DOMAIN ps : Starts(qb, ps[k])
    <3>1. qb \in Seq(Parts) /\ qb # << >>
      <4>1. q \in Seq(Parts) /\ u[q].children[b] \in Parts
        BY <1>7, <2>1, <2>2, <2>3, ElementOfSeq
      <4> HIDE DEF u
      <4> QED  BY <4>1, AppendProperties
    <3> HIDE DEF qb
    <3> QED  BY <2>5, <3>1 DEF Grown
  <2>7. CASE i \notin DOMAIN ps
    <3>1. i = Len(ps) + 1
      BY <1>2, <1>3, <2>7
    <3>2. k \in 1 .. i /\ all[k] = ps[k]
      BY <1>2, <1>3, <2>6, <3>1
    <3> QED  BY <2>6, <3>2
  <2>8. CASE i \in DOMAIN ps
    <3>1. a \in DOMAIN cs
      <4>1. SUFFICES ASSUME a \notin DOMAIN cs  PROVE FALSE
        OBVIOUS
      <4>2. Grows(t, p, q) /\ u[q].children[a] = p[Len(q) + 1]
        BY <2>2, <4>1
      <4>3. /\ Len(q) + 1 \in 1 .. n
            /\ Way(t, p)[Len(q) + 1] \notin DOMAIN t
            /\ Way(t, p)[Len(q) + 1] = Append(q, p[Len(q) + 1])
        BY <1>1, <4>2, InsertKeeps
      <4>4. qa \notin DOMAIN t
        BY <4>2, <4>3
      <4>5. qa \in Seq(Parts)
        <5>1. p[Len(q) + 1] \in Parts /\ q \in Seq(Parts)
          BY <1>1, <1>7, <4>3, ElementOfSeq
        <5> HIDE DEF u
        <5> QED  BY <4>2, <5>1, AppendProperties
      <4>6. Starts(qa, ps[i])
        BY <1>3, <1>10, <2>8
      <4> HIDE DEF qa
      <4> QED  BY <2>8, <4>4, <4>5, <4>6 DEF Grown
    <3>2. Starts(Append(q, t[q].children[a]), ps[i])
      BY <1>3, <1>10, <2>2, <2>4, <2>8, <3>1
    <3>3. PICK l \in 1 .. i : Starts(Append(q, t[q].children[b]), ps[l])
      <4>1. a \in DOMAIN t[q].children /\ b \in DOMAIN t[q].children
        BY <2>3, <2>4, <3>1
      <4> HIDE DEF u, cs
      <4> QED  BY <1>10, <2>4, <2>8, <3>2, <4>1 DEF Grown
    <3>4. l \in DOMAIN ps
      BY <1>2, <2>8
    <3>5. all[l] = ps[l]
      BY <1>3, <3>4
    <3>6. Append(q, t[q].children[b]) = qb
      BY <2>2, <2>3, <2>4
    <3> QED  BY <3>3, <3>5, <3>6
  <2> QED  BY <2>7, <2>8
<1> HIDE DEF u
<1>11. Grown(u, all)
  BY <1>8, <1>9, <1>10 DEF Grown
<1> QED  BY <1>11 DEF u, all

-----------------------------------------------------------------------------
(* What a request finds *)

\* Whatever the order of the routes, what is found is as long as its node is
\* deep, and no longer than the path.
LEMMA RouteFits ==
  ASSUME NEW t, IsTrie(t), NEW asked \in Seq(Parts), GetRoute(t, asked) # NoPattern
  PROVE  /\ GetRoute(t, asked) \in Seq(Parts)
         /\ Len(GetRoute(t, asked)) <= Len(ParsePattern(asked))
<1> DEFINE parts == ParsePattern(asked)
           found == GetRoute(t, asked)
<1>1. parts \in Seq(Parts)
  BY ParsedIs DEF Parsed
<1>2. found = Results(t, parts)[<< >>]
  BY DEF GetRoute, Search
<1> HIDE DEF parts, found
<1>3. PICK c : Candidate(t, parts, << >>, c) /\ found = t[c].pattern
  BY <1>1, <1>2, SearchSound DEF Sound, found
<1>4. found \in Seq(Parts) \cup {NoPattern} /\ Len(found) = Len(c)
  BY <1>3 DEF Candidate, IsTrie, Nodes, found
<1> QED  BY <1>3, <1>4 DEF Candidate, found, parts

\* Every parameter of the pattern found stands for a part of the path at least.
LEMMA ParamsInPath ==
  ASSUME NEW t, IsTrie(t), NEW asked \in Seq(Parts), GetRoute(t, asked) # NoPattern,
         NEW i \in DOMAIN GetRoute(t, asked), GetRoute(t, asked)[i] \in Wild
  PROVE  /\ i <= Len(ParsePattern(asked))
         /\ Params(GetRoute(t, asked), asked)[i] # << >>
<1> DEFINE parts == ParsePattern(asked)
           found == GetRoute(t, asked)
<1>1. parts \in Seq(Parts) /\ Len(parts) \in Nat
  BY ParsedIs, LenProperties DEF Parsed
<1>2. found \in Seq(Parts) /\ Len(found) <= Len(parts)
  BY RouteFits
<1>3. DOMAIN found = 1 .. Len(found) /\ Len(found) \in Nat
  BY <1>2, LenProperties
<1>4. i \in 1 .. Len(parts)
  <2> HIDE DEF found, parts
  <2>1. i \in DOMAIN found
    BY DEF found
  <2> QED  BY <1>1, <1>2, <1>3, <2>1
<1>5. Params(found, asked)[i] =
         IF found[i] \in Param THEN << parts[i] >> ELSE SubSeq(parts, i, Len(parts))
  BY DEF Params
<1> HIDE DEF parts
<1>6. << parts[i] >> # << >>
  OBVIOUS
<1>7. SubSeq(parts, i, Len(parts)) # << >>
  <2>1. \A j \in i .. Len(parts) : parts[j] \in Parts
    BY <1>1, <1>4, ElementOfSeq
  <2>2. Len(SubSeq(parts, i, Len(parts))) = Len(parts) - i + 1
    BY <1>1, <1>4, <2>1, SubSeqProperties
  <2>3. Len(parts) - i + 1 # 0 /\ Len(<< >>) = 0
    BY <1>1, <1>4
  <2> QED  BY <1>1, <1>4, <2>2, <2>3
<1> QED  BY <1>4, <1>5, <1>6, <1>7 DEF parts

\* Where no route is shadowed, a path finds one exactly if one matches it.
THEOREM RouteRight ==
  ASSUME NEW t, IsTrie(t), NEW ps \in Seq(Parsed), Grown(t, ps),
         NEW asked \in Seq(Parts)
  PROVE  /\ GetRoute(t, asked) # NoPattern
               <=> \E i \in DOMAIN ps : Matches(ps[i], asked)
         /\ GetRoute(t, asked) # NoPattern =>
               /\ Matches(GetRoute(t, asked), asked)
               /\ \E i \in DOMAIN ps : ps[i] = GetRoute(t, asked)
<1> DEFINE parts == ParsePattern(asked)
           found == GetRoute(t, asked)
<1>1. parts \in Seq(Parts) /\ Len(parts) \in Nat
  BY ParsedIs, LenProperties DEF Parsed
<1>2. found = Results(t, parts)[<< >>]
  BY DEF GetRoute, Search
<1>3. \A i \in DOMAIN ps : ps[i] \in Parsed /\ ps[i] \in Seq(Parts)
  <2>1. \A i \in DOMAIN ps : ps[i] \in Parsed
    BY LenProperties, ElementOfSeq
  <2> QED  BY <2>1 DEF Parsed
<1>4. ASSUME NEW c, Candidate(t, parts, << >>, c)
      PROVE  /\ t[c].pattern = c /\ \E i \in DOMAIN ps : ps[i] = c
             /\ Matches(c, asked)
  <2>1. c \in DOMAIN t /\ t[c].pattern # NoPattern /\ c \in Seq(Parts)
    BY <1>4 DEF Candidate, IsTrie
  <2>2. t[c].pattern = c /\ \E i \in DOMAIN ps : ps[i] = c
    BY <2>1 DEF Grown
  <2>3. Len(c) \in Nat /\ Len(<< >>) = 0
    BY <2>1, LenProperties
  <2>4. Len(c) <= Len(parts) /\ Ends(c, parts)
    BY <1>4 DEF Candidate
  <2>5. \A i \in 1 .. Len(c) : c[i] \in Wild \cup {parts[i]}
    BY <1>4, <2>3 DEF Candidate
  <2>6. IF Len(c) > 0 /\ c[Len(c)] \in Star THEN Len(parts) >= Len(c)
        ELSE Len(parts) = Len(c)
    BY <1>1, <2>1, <2>3, <2>4, EmptySeq DEF Ends
  <2> QED  BY <2>2, <2>5, <2>6 DEF Matches
<1>5. ASSUME NEW i \in DOMAIN ps, Matches(ps[i], asked)
      PROVE  Candidate(t, parts, << >>, ps[i])
  <2> DEFINE c == ps[i]
  <2>1. c \in Parsed /\ c \in Seq(Parts) /\ Len(c) \in Nat
    BY <1>3, LenProperties
  <2>2. /\ IF Len(c) > 0 /\ c[Len(c)] \in Star THEN Len(parts) >= Len(c)
           ELSE Len(parts) = Len(c)
        /\ \A k \in 1 .. Len(c) : c[k] \in Wild \cup {parts[k]}
    BY <1>5 DEF Matches
  <2>3. c \in DOMAIN t /\ t[c].pattern = c
    <3>1. c \in DOMAIN t
      BY <2>1, StartsAre DEF Grown
    <3> QED  BY <3>1 DEF Grown
  <2>4. c # NoPattern
    BY <2>1, PartsAssumption
  <2>5. \A k \in 1 .. Len(c) - 1 : c[k] \notin Star
    BY <2>1 DEF Parsed
  <2>6. Cut(c, 0) = << >> /\ Len(<< >>) = 0
    BY <2>1, CutEnds
  <2> HIDE DEF c, parts
  <2>7. Len(c) <= Len(parts) /\ Ends(c, parts)
    <3>1. Len(c) > 0 => c # << >>
      BY <2>6
    <3> QED  BY <1>1, <2>1, <2>2, <3>1 DEF Ends
  <2>8. Candidate(t, parts, << >>, c)
    BY <2>1, <2>2, <2>3, <2>4, <2>5, <2>6, <2>7 DEF Candidate
  <2> QED  BY <2>8 DEF c
<1> HIDE DEF parts, found
<1>6. Sound(t, parts, << >>)
  BY <1>1, SearchSound
<1>7. found # NoPattern => \E c : Candidate(t, parts, << >>, c) /\ found = t[c].pattern
  BY <1>2, <1>6 DEF Sound
<1>8. (\E c : Candidate(t, parts, << >>, c)) => found # NoPattern
  BY <1>2, <1>6 DEF Sound
<1> QED  BY <1>4, <1>5, <1>7, <1>8 DEF found

-----------------------------------------------------------------------------
(* The handlers of a request *)

Handlers == [kind : {"recovery", "group", "handler", "notfound"},
             of : Nat \cup Seq(Parts) \cup {NoPattern}]
Frames == [h : Nat, calls : 0 .. MaxCalls]

\* The handlers that run, the i-th of the chain the last of them.
Piled(frames, i) ==
    /\ frames \in Seq(Frames)
    /\ \A j \in DOMAIN frames :
          /\ frames[j].h \in 1 .. Len(chain) /\ frames[j].h <= i
          /\ j <= frames[j].h
          /\ j > 1 => frames[j - 1].h < frames[j].h

\* How far the handlers that run can still move the index: s[j] is what the
\* first j of them have left, a call of Next or their return each.
Weighs(frames, s) ==
    /\ s \in [0 .. Len(frames) -> Nat] /\ s[0] = 0
    /\ \A j \in 1 .. Len(frames) :
          s[j] = s[j - 1] + (MaxCalls + 1 - frames[j].calls)

\* All have called Next that wait for it to end.
Called(s, d) == \A j \in 1 .. d : s[j] <= j * MaxCalls

Limit == Len(chain) + 1 + Len(chain) * MaxCalls

StackInv ==
    /\ Piled(stack, index)
    /\ \E s : /\ Weighs(stack, s) /\ Called(s, Len(stack) - 1)
              /\ s[Len(stack)] <= Len(stack) * MaxCalls + 1
              /\ index > Len(chain) => index + s[Len(stack)] <= Limit

OrderInv ==
    /\ entered \in Seq(Nat) /\ \A i \in DOMAIN entered : entered[i] = i
    /\ ~ failed => Len(entered) = IF index <= Len(chain) THEN index ELSE Len(chain)
    /\ failed => index > Len(chain)
    /\ phase = "done" => index > Len(chain)
    /\ phase = "register" =>
          index = 0 /\ ~ failed /\ chain = << >> /\ entered = << >>

FlowInv ==
    /\ recovery \in BOOLEAN /\ failed \in BOOLEAN
    /\ phase \in {"register", "serve", "done", "crash"}
    /\ index \in Nat
    /\ chain \in Seq(Handlers)
    /\ phase = "serve" <=> stack # << >>
    /\ StackInv
    /\ OrderInv

\* A handler is put on those that wait, or the last of them goes on.
LEMMA PiledMore ==
  ASSUME chain \in Seq(Handlers), NEW i \in Nat, NEW frames, Piled(frames, i),
         i + 1 <= Len(chain)
  PROVE  Piled(Append(frames, [h |-> i + 1, calls |-> 0]), i + 1)
<1> DEFINE f == [h |-> i + 1, calls |-> 0]
           d == Len(frames)
           more == Append(frames, f)
<1>1. Len(chain) \in Nat /\ MaxCalls \in Nat
  BY LenProperties, WebAssumption
<1>2. f \in Frames /\ f.h = i + 1
  BY <1>1 DEF Frames
<1>3. frames \in Seq(Frames)
  BY DEF Piled
<1>4. d \in Nat /\ DOMAIN frames = 1 .. d
  BY <1>3, LenProperties
<1> HIDE DEF f
<1>5. /\ more \in Seq(Frames) /\ Len(more) = d + 1
      /\ \A j \in 1 .. d : more[j] = frames[j]
      /\ more[d + 1] = f
  BY <1>2, <1>3, AppendProperties
<1>6. DOMAIN more = 1 .. d + 1
  BY <1>5, LenProperties
<1>7. /\ \A j \in 1 .. d : frames[j].h \in 1 .. Len(chain) /\ frames[j].h <= i
                           /\ j <= frames[j].h
                           /\ (j > 1 => frames[j - 1].h < frames[j].h)
  BY <1>4 DEF Piled
<1>8. d <= i
  <2>1. CASE d = 0
    BY <2>1
  <2>2. CASE d # 0
    <3>1. d \in 1 .. d
      BY <1>4, <2>2
    <3>2. frames[d].h \in Nat /\ frames[d].h <= i /\ d <= frames[d].h
      BY <1>1, <1>7, <3>1
    <3> QED  BY <1>4, <3>2
  <2> QED  BY <2>1, <2>2
<1> HIDE DEF more, d
<1>9. ASSUME NEW j \in 1 .. d + 1
      PROVE  /\ more[j].h \in 1 .. Len(chain) /\ more[j].h <= i + 1
             /\ j <= more[j].h
             /\ j > 1 => more[j - 1].h < more[j].h
  <2>1. CASE j = d + 1
    <3>1. more[j].h = i + 1
      BY <1>2, <1>5, <2>1
    <3>2. j > 1 => more[j - 1].h <= i
      <4>1. SUFFICES ASSUME j > 1  PROVE more[j - 1].h <= i
        OBVIOUS
      <4>2. j - 1 \in 1 .. d
        BY <1>4, <2>1, <4>1
      <4> QED  BY <1>5, <1>7, <4>2
    <3>3. j > 1 => more[j - 1].h \in Nat
      <4>1. SUFFICES ASSUME j > 1  PROVE more[j - 1].h \in Nat
        OBVIOUS
      <4>2. j - 1 \in 1 .. d
        BY <1>4, <2>1, <4>1
      <4> QED  BY <1>1, <1>5, <1>7, <4>2
    <3> QED  BY <1>1, <1>4, <1>8, <2>1, <3>1, <3>2, <3>3
  <2>2. CASE j # d + 1
    <3>1. j \in 1 .. d /\ (j > 1 => j - 1 \in 1 .. d)
      BY <1>4, <2>2
    <3>2. more[j] = frames[j] /\ (j > 1 => more[j - 1] = frames[j - 1])
      BY <1>5, <3>1
    <3>3. /\ frames[j].h \in 1 .. Len(chain) /\ frames[j].h <= i
          /\ j <= frames[j].h /\ (j > 1 => frames[j - 1].h < frames[j].h)
      BY <1>7, <3>1
    <3> QED  BY <1>1, <3>2, <3>3
  <2> QED  BY <2>1, <2>2
<1> QED  BY <1>5, <1>6, <1>9 DEF Piled, more, f

\* A handler that is put on the stack may call Next MaxCalls times.
LEMMA WeighsMore ==
  ASSUME NEW frames \in Seq(Frames), NEW s, Weighs(frames, s),
         Called(s, Len(frames)), NEW k \in Nat
  PROVE  \E u : /\ Weighs(Append(frames, [h |-> k, calls |-> 0]), u)
                /\ Called(u, Len(frames))
                /\ u[Len(frames) + 1] <= (Len(frames) + 1) * MaxCalls + 1
<1> DEFINE f == [h |-> k, calls |-> 0]
           d == Len(frames)
           more == Append(frames, f)
           u == [j \in 0 .. d + 1 |-> IF j = d + 1 THEN s[d] + (MaxCalls + 1) ELSE s[j]]
<1>1. d \in Nat /\ MaxCalls \in Nat
  BY LenProperties, WebAssumption
<1>2. f \in Frames /\ f.calls = 0
  BY <1>1 DEF Frames
<1> HIDE DEF f
<1>3. /\ Len(more) = d + 1 /\ more[d + 1] = f
      /\ \A j \in 1 .. d : more[j] = frames[j]
  BY <1>2, AppendProperties
<1>4. /\ s \in [0 .. d -> Nat] /\ s[0] = 0
      /\ \A j \in 1 .. d : s[j] = s[j - 1] + (MaxCalls + 1 - frames[j].calls)
  BY DEF Weighs
<1>5. /\ u \in [0 .. d + 1 -> Nat] /\ u[d + 1] = s[d] + (MaxCalls + 1)
      /\ \A j \in 0 .. d : u[j] = s[j]
  BY <1>1, <1>4
<1> HIDE DEF u, more, d
<1>6. ASSUME NEW j \in 1 .. d + 1
      PROVE  u[j] = u[j - 1] + (MaxCalls + 1 - more[j].calls)
  <2>1. CASE j = d + 1
    <3>1. d \in 0 .. d /\ j - 1 = d
      BY <1>1, <2>1
    <3> QED  BY <1>1, <1>2, <1>3, <1>5, <2>1, <3>1
  <2>2. CASE j # d + 1
    <3>1. j \in 1 .. d /\ j \in 0 .. d /\ j - 1 \in 0 .. d
      BY <1>1, <2>2
    <3> QED  BY <1>3, <1>4, <1>5, <3>1
  <2> QED  BY <2>1, <2>2
<1>7. Weighs(more, u)
  BY <1>1, <1>3, <1>4, <1>5, <1>6 DEF Weighs
<1>8. Called(u, d)
  BY <1>1, <1>5 DEF Called, d
<1>9. s[d] <= d * MaxCalls
  <2>1. CASE d = 0
    BY <1>1, <1>4, <2>1
  <2>2. CASE d # 0
    <3>1. d \in 1 .. d
      BY <1>1, <2>2
    <3> QED  BY <3>1 DEF Called, d
  <2> QED  BY <2>1, <2>2
<1>10. u[d + 1] <= (d + 1) * MaxCalls + 1
  <2>1. (d + 1) * MaxCalls = d * MaxCalls + MaxCalls /\ d * MaxCalls \in Nat
    BY <1>1, Multiples
  <2>2. s[d] \in Nat
    BY <1>1, <1>4
  <2> QED  BY <1>1, <1>5, <1>9, <2>1, <2>2
<1> QED  BY <1>7, <1>8, <1>10 DEF more, f, d

\* The loop of Next keeps the stack in order, and the index within its limit.
LEMMA LoopKeepsStack ==
  ASSUME chain \in Seq(Handlers), index \in Nat,
         NEW frames, Piled(frames, index), NEW s, Weighs(frames, s),
         Called(s, Len(frames)),
         index + 1 > Len(chain) => index + 1 + s[Len(frames)] <= Limit,
         Loop(index + 1, frames), chain' = chain
  PROVE  StackInv'
<1> DEFINE d == Len(frames)
           top == [h |-> index + 1, calls |-> 0]
<1>1. Len(chain) \in Nat /\ MaxCalls \in Nat
  BY LenProperties, WebAssumption
<1>2. frames \in Seq(Frames) /\ d \in Nat
  BY LenProperties DEF Piled
<1>3. index' = index + 1
  BY DEF Loop
<1>4. CASE index + 1 <= Len(chain)
  <2>1. stack' = Append(frames, top)
    BY <1>4 DEF Loop
  <2>2. Piled(Append(frames, top), index + 1)
    BY <1>4, PiledMore
  <2>3. PICK u : /\ Weighs(Append(frames, top), u) /\ Called(u, d)
                 /\ u[d + 1] <= (d + 1) * MaxCalls + 1
    BY <1>2, WeighsMore
  <2>4. top \in Frames
    BY <1>1 DEF Frames
  <2> HIDE DEF top
  <2>5. Len(Append(frames, top)) = d + 1
    BY <1>2, <2>4, AppendProperties
  <2>6. Len(stack') = d + 1 /\ Len(stack') - 1 = d
    BY <1>2, <2>1, <2>5
  <2>7. ~ (index' > Len(chain'))
    BY <1>1, <1>3, <1>4
  <2>8. Piled(stack, index)'
    BY <1>3, <2>1, <2>2 DEF Piled
  <2>9. Weighs(stack', u) /\ Called(u, Len(stack') - 1)
        /\ u[Len(stack')] <= Len(stack') * MaxCalls + 1
    BY <2>1, <2>3, <2>6
  <2> QED  BY <2>7, <2>8, <2>9 DEF StackInv, Weighs
<1>5. CASE ~ (index + 1 <= Len(chain))
  <2>1. stack' = frames
    BY <1>5 DEF Loop
  <2>2. Piled(stack, index)'
    <3>1. DOMAIN frames = 1 .. d
      BY <1>2, LenProperties
    <3>2. \A j \in 1 .. d : frames[j].h \in Nat
      BY <1>1, <3>1 DEF Piled
    <3>3. \A j \in 1 .. d : frames[j].h <= index + 1
      BY <3>1, <3>2 DEF Piled
    <3> QED  BY <1>3, <2>1, <3>1, <3>3 DEF Piled
  <2>3. Called(s, d - 1)
    BY <1>2 DEF Called
  <2>4. s[d] \in Nat
    BY <1>2 DEF Weighs
  <2>5. s[d] <= d * MaxCalls + 1
    <3>1. d * MaxCalls \in Nat
      BY <1>1, <1>2, Multiples
    <3>2. CASE d = 0
      BY <3>1, <3>2 DEF Weighs
    <3>3. CASE d # 0
      <4>1. d \in 1 .. d
        BY <1>2, <3>3
      <4> QED  BY <2>4, <3>1, <4>1 DEF Called
    <3> QED  BY <3>2, <3>3
  <2>6. index + 1 > Len(chain) => index + 1 + s[d] <= Limit
    OBVIOUS
  <2>7. Limit' = Limit
    BY DEF Limit
  <2> QED  BY <1>3, <2>1, <2>2, <2>3, <2>5, <2>6, <2>7 DEF StackInv, Weighs
<1> QED  BY <1>4, <1>5

\* The last of the handlers that run, and those that wait for it.
LEMMA TopIs ==
  ASSUME stack \in Seq(Frames), stack # << >>
  PROVE  LET d == Len(stack) IN
         /\ d \in Nat \ {0} /\ Top \in Frames /\ Top = stack[d]
         /\ Below \in Seq(Frames) /\ Len(Below) = d - 1
         /\ \A j \in 1 .. d - 1 : Below[j] = stack[j]
<1> DEFINE d == Len(stack)
<1>1. d \in Nat /\ d # 0
  BY EmptySeq, LenProperties
<1>2. d \in 1 .. d
  BY <1>1
<1>3. Top = stack[d] /\ Top \in Frames
  BY <1>2, ElementOfSeq DEF Top
<1>4. \A i \in 1 .. d - 1 : stack[i] \in Frames
  BY <1>1, ElementOfSeq
<1>5. Below = SubSeq(stack, 1, d - 1)
  BY DEF Below
<1> HIDE DEF d
<1>6. /\ SubSeq(stack, 1, d - 1) \in Seq(Frames)
      /\ Len(SubSeq(stack, 1, d - 1)) = d - 1
      /\ \A i \in 1 .. d - 1 : SubSeq(stack, 1, d - 1)[i] = stack[i]
  BY <1>1, <1>4, SubSeqProperties
<1> QED  BY <1>1, <1>3, <1>5, <1>6 DEF d

\* The stack after one more call of the last handler.
LEMMA CountedIs ==
  ASSUME stack \in Seq(Frames), stack # << >>, Top.calls < MaxCalls
  PROVE  LET d == Len(stack) IN
         /\ Counted \in Seq(Frames) /\ Len(Counted) = d
         /\ \A j \in 1 .. d : /\ Counted[j].h = stack[j].h
                              /\ j < d => Counted[j].calls = stack[j].calls
         /\ Counted[d].calls = stack[d].calls + 1
<1> DEFINE d == Len(stack)
           top == [Top EXCEPT !.calls = @ + 1]
<1>1. /\ d \in Nat \ {0} /\ Top \in Frames /\ Top = stack[d]
      /\ Below \in Seq(Frames) /\ Len(Below) = d - 1
      /\ \A j \in 1 .. d - 1 : Below[j] = stack[j]
  BY TopIs
<1>2. MaxCalls \in Nat
  BY WebAssumption
<1>3. top \in Frames /\ top.h = Top.h /\ top.calls = Top.calls + 1
  <2>1. Top.h \in Nat /\ Top.calls \in 0 .. MaxCalls
        /\ Top = [h |-> Top.h, calls |-> Top.calls]
    BY <1>1 DEF Frames
  <2>2. top = [h |-> Top.h, calls |-> Top.calls + 1]
    BY <2>1
  <2>3. Top.calls + 1 \in 0 .. MaxCalls
    BY <1>2, <2>1
  <2> HIDE DEF top
  <2> QED  BY <2>1, <2>2, <2>3 DEF Frames
<1>4. Counted = Append(Below, top)
  BY DEF Counted
<1> HIDE DEF d, top
<1>5. /\ Append(Below, top) \in Seq(Frames) /\ Len(Append(Below, top)) = d
      /\ \A j \in 1 .. d - 1 : Append(Below, top)[j] = Below[j]
      /\ Append(Below, top)[d] = top
  BY <1>1, <1>3, AppendProperties
<1>6. ASSUME NEW j \in 1 .. d
      PROVE  /\ Counted[j].h = stack[j].h
             /\ j < d => Counted[j].calls = stack[j].calls
  <2>1. CASE j = d
    BY <1>1, <1>3, <1>4, <1>5, <2>1
  <2>2. CASE j # d
    <3>1. j \in 1 .. d - 1
      BY <1>1, <2>2
    <3> QED  BY <1>1, <1>4, <1>5, <3>1
  <2> QED  BY <2>1, <2>2
<1> QED  BY <1>1, <1>3, <1>4, <1>5, <1>6 DEF d

\* One call of the last handler that runs is used up.
LEMMA CountedLighter ==
  ASSUME chain \in Seq(Handlers), index \in Nat,
         Piled(stack, index), stack # << >>, Top.calls < MaxCalls,
         NEW s, Weighs(stack, s), Called(s, Len(stack) - 1),
         s[Len(stack)] <= Len(stack) * MaxCalls + 1
  PROVE  /\ Piled(Counted, index) /\ Len(Counted) = Len(stack)
         /\ \E u : /\ Weighs(Counted, u) /\ Called(u, Len(Counted))
                   /\ u[Len(Counted)] = s[Len(stack)] - 1
<1> DEFINE d == Len(stack)
           u == [j \in 0 .. d |-> IF j = d THEN s[d] - 1 ELSE s[j]]
<1>1. stack \in Seq(Frames)
  BY DEF Piled
<1>2. /\ d \in Nat \ {0} /\ Top \in Frames /\ Top = stack[d]
      /\ DOMAIN stack = 1 .. d
  BY <1>1, TopIs, LenProperties
<1>3. /\ Counted \in Seq(Frames) /\ Len(Counted) = d
      /\ \A j \in 1 .. d : /\ Counted[j].h = stack[j].h
                           /\ j < d => Counted[j].calls = stack[j].calls
      /\ Counted[d].calls = stack[d].calls + 1
  BY <1>1, CountedIs
<1>4. DOMAIN Counted = 1 .. d
  BY <1>3, LenProperties
<1>5. MaxCalls \in Nat
  BY WebAssumption
<1>6. /\ s \in [0 .. d -> Nat] /\ s[0] = 0
      /\ \A j \in 1 .. d : s[j] = s[j - 1] + (MaxCalls + 1 - stack[j].calls)
  BY DEF Weighs
<1> HIDE DEF d
<1>7. Piled(Counted, index)
  <2>1. ASSUME NEW j \in 1 .. d
        PROVE  /\ Counted[j].h \in 1 .. Len(chain) /\ Counted[j].h <= index
               /\ j <= Counted[j].h
               /\ j > 1 => Counted[j - 1].h < Counted[j].h
    <3>1. /\ stack[j].h \in 1 .. Len(chain) /\ stack[j].h <= index
          /\ j <= stack[j].h /\ (j > 1 => stack[j - 1].h < stack[j].h)
      BY <1>2 DEF Piled
    <3>2. j > 1 => j - 1 \in 1 .. d
      BY <1>2
    <3> QED  BY <1>3, <3>1, <3>2
  <2> QED  BY <1>3, <1>4, <2>1 DEF Piled
<1>8. d \in 0 .. d /\ d - 1 \in 0 .. d /\ d \in 1 .. d
  BY <1>2
<1>9. stack[d].calls \in 0 .. MaxCalls /\ stack[d].calls < MaxCalls
  BY <1>2 DEF Frames
<1>10. s[d] \in Nat /\ s[d - 1] \in Nat /\ s[d] >= 1
  BY <1>5, <1>6, <1>8, <1>9
<1>11. /\ u \in [0 .. d -> Nat] /\ u[0] = 0 /\ u[d] = s[d] - 1
       /\ \A j \in 0 .. d - 1 : u[j] = s[j]
  BY <1>2, <1>6, <1>10
<1> HIDE DEF u
<1>12. ASSUME NEW j \in 1 .. d
       PROVE  u[j] = u[j - 1] + (MaxCalls + 1 - Counted[j].calls)
  <2>1. CASE j = d
    <3>1. d - 1 \in 0 .. d - 1
      BY <1>2
    <3>2. u[d - 1] = s[d - 1] /\ u[d] = s[d] - 1
      BY <1>11, <3>1
    <3>3. s[d] = s[d - 1] + (MaxCalls + 1 - stack[d].calls)
      BY <1>6, <1>8
    <3>4. Counted[d].calls = stack[d].calls + 1
      BY <1>3
    <3>5. s[d] - 1 = s[d - 1] + (MaxCalls + 1 - (stack[d].calls + 1))
      <4> DEFINE x == s[d]
                 y == s[d - 1]
                 c == stack[d].calls
      <4>1. x \in Nat /\ y \in Nat /\ c \in 0 .. MaxCalls
            /\ x = y + (MaxCalls + 1 - c) /\ MaxCalls \in Nat
        BY <1>5, <1>9, <1>10, <3>3
      <4> HIDE DEF x, y, c
      <4>2. x - 1 = y + (MaxCalls + 1 - (c + 1))
        BY <4>1
      <4> QED  BY <4>2 DEF x, y, c
    <3> QED  BY <2>1, <3>2, <3>4, <3>5
  <2>2. CASE j # d
    <3>1. j \in 0 .. d - 1 /\ j - 1 \in 0 .. d - 1 /\ j < d
      BY <1>2, <2>2
    <3> QED  BY <1>3, <1>6, <1>11, <3>1
  <2> QED  BY <2>1, <2>2
<1>13. Weighs(Counted, u)
  BY <1>3, <1>11, <1>12 DEF Weighs
<1>14. ASSUME NEW j \in 1 .. d  PROVE u[j] <= j * MaxCalls
  <2>1. CASE j = d
    <3>1. d * MaxCalls \in Nat
      BY <1>2, <1>5, Multiples
    <3>2. s[d] <= d * MaxCalls + 1
      BY DEF d
    <3> QED  BY <1>10, <1>11, <2>1, <3>1, <3>2
  <2>2. CASE j # d
    <3>1. j \in 1 .. d - 1 /\ j \in 0 .. d - 1
      BY <1>2, <2>2
    <3> QED  BY <1>11, <3>1 DEF Called, d
  <2> QED  BY <2>1, <2>2
<1>15. Called(u, d)
  BY <1>14 DEF Called
<1> QED  BY <1>3, <1>7, <1>11, <1>13, <1>15 DEF d

\* The last handler that runs is gone.
LEMMA BelowLighter ==
  ASSUME chain \in Seq(Handlers), index \in Nat,
         Piled(stack, index), stack # << >>,
         NEW s, Weighs(stack, s), Called(s, Len(stack) - 1)
  PROVE  /\ Piled(Below, index) /\ Len(Below) = Len(stack) - 1
         /\ \E u : /\ Weighs(Below, u) /\ Called(u, Len(Below))
                   /\ u[Len(Below)] = s[Len(stack) - 1]
                   /\ u[Len(Below)] + 1 <= s[Len(stack)]
<1> DEFINE d == Len(stack)
           u == [j \in 0 .. d - 1 |-> s[j]]
<1>1. stack \in Seq(Frames)
  BY DEF Piled
<1>2. /\ d \in Nat \ {0} /\ Top \in Frames /\ Top = stack[d]
      /\ DOMAIN stack = 1 .. d
      /\ Below \in Seq(Frames) /\ Len(Below) = d - 1
      /\ \A j \in 1 .. d - 1 : Below[j] = stack[j]
  BY <1>1, TopIs, LenProperties
<1>3. DOMAIN Below = 1 .. d - 1
  BY <1>2, LenProperties
<1>4. MaxCalls \in Nat
  BY WebAssumption
<1>5. /\ s \in [0 .. d -> Nat] /\ s[0] = 0
      /\ \A j \in 1 .. d : s[j] = s[j - 1] + (MaxCalls + 1 - stack[j].calls)
  BY DEF Weighs
<1> HIDE DEF d
<1>6. Piled(Below, index)
  <2>1. ASSUME NEW j \in 1 .. d - 1
        PROVE  /\ Below[j].h \in 1 .. Len(chain) /\ Below[j].h <= index
               /\ j <= Below[j].h
               /\ j > 1 => Below[j - 1].h < Below[j].h
    <3>1. j \in 1 .. d /\ (j > 1 => j - 1 \in 1 .. d - 1)
      BY <1>2
    <3>2. /\ stack[j].h \in 1 .. Len(chain) /\ stack[j].h <= index
          /\ j <= stack[j].h /\ (j > 1 => stack[j - 1].h < stack[j].h)
      BY <1>2, <3>1 DEF Piled
    <3> QED  BY <1>2, <3>1, <3>2
  <2> QED  BY <1>2, <1>3, <2>1 DEF Piled
<1>7. d \in 0 .. d /\ d - 1 \in 0 .. d /\ d \in 1 .. d /\ d - 1 \in 0 .. d - 1
  BY <1>2
<1>8. stack[d].calls \in 0 .. MaxCalls
  BY <1>2 DEF Frames
<1>9. s[d] \in Nat /\ s[d - 1] \in Nat /\ s[d - 1] + 1 <= s[d]
  BY <1>4, <1>5, <1>7, <1>8
<1>10. u \in [0 .. d - 1 -> Nat] /\ \A j \in 0 .. d - 1 : u[j] = s[j]
  BY <1>2, <1>5
<1> HIDE DEF u
<1>11. ASSUME NEW j \in 1 .. d - 1
       PROVE  u[j] = u[j - 1] + (MaxCalls + 1 - Below[j].calls)
  <2>1. j \in 1 .. d /\ j \in 0 .. d - 1 /\ j - 1 \in 0 .. d - 1
    BY <1>2
  <2> QED  BY <1>2, <1>5, <1>10, <2>1
<1>12. u[0] = 0
  <2>1. 0 \in 0 .. d - 1
    BY <1>2
  <2> QED  BY <1>5, <1>10, <2>1
<1>13. Weighs(Below, u)
  BY <1>2, <1>10, <1>11, <1>12 DEF Weighs
<1>14. Called(u, d - 1)
  <2>1. \A j \in 1 .. d - 1 : j \in 0 .. d - 1
    BY <1>2
  <2> QED  BY <1>10, <2>1 DEF Called, d
<1>15. u[d - 1] = s[d - 1]
  BY <1>7, <1>10
<1> QED  BY <1>2, <1>6, <1>9, <1>13, <1>14, <1>15 DEF d

\* No more handlers run than the chain has.
LEMMA StackShort ==
  ASSUME chain \in Seq(Handlers), NEW i, Piled(stack, i), stack # << >>
  PROVE  Len(stack) <= Len(chain)
<1>1. Len(chain) \in Nat /\ stack \in Seq(Frames)
  BY LenProperties DEF Piled
<1>2. Len(stack) \in 1 .. Len(stack) /\ DOMAIN stack = 1 .. Len(stack)
  BY <1>1, TopIs, LenProperties
<1>3. stack[Len(stack)].h \in 1 .. Len(chain) /\ Len(stack) <= stack[Len(stack)].h
  BY <1>2 DEF Piled
<1> QED  BY <1>1, <1>2, <1>3

\* A call of Next moves the index by one and uses up one call.
LEMMA CallNextKeepsStack ==
  ASSUME FlowInv, CallNext
  PROVE  StackInv'
<1> DEFINE d == Len(stack)
           N == Len(chain)
<1>1. stack # << >> /\ Top.calls < MaxCalls /\ Loop(index + 1, Counted)
      /\ chain' = chain
  BY DEF CallNext, Busy, Running, NextIndex
<1>2. chain \in Seq(Handlers) /\ index \in Nat /\ Piled(stack, index)
  BY DEF FlowInv, StackInv
<1>3. PICK s : /\ Weighs(stack, s) /\ Called(s, d - 1)
               /\ s[d] <= d * MaxCalls + 1
               /\ index > N => index + s[d] <= Limit
  BY DEF FlowInv, StackInv
<1>4. /\ Piled(Counted, index) /\ Len(Counted) = d
      /\ \E u : /\ Weighs(Counted, u) /\ Called(u, Len(Counted))
                /\ u[Len(Counted)] = s[d] - 1
  BY <1>1, <1>2, <1>3, CountedLighter
<1>5. PICK u : /\ Weighs(Counted, u) /\ Called(u, Len(Counted))
               /\ u[d] = s[d] - 1
  BY <1>4
<1>6. N \in Nat /\ MaxCalls \in Nat /\ d \in Nat \ {0} /\ d <= N
  <2>1. stack \in Seq(Frames)
    BY <1>2 DEF Piled
  <2> QED  BY <1>1, <1>2, <2>1, TopIs, StackShort, LenProperties, WebAssumption
<1>7. d * MaxCalls <= N * MaxCalls /\ d * MaxCalls \in Nat /\ N * MaxCalls \in Nat
  BY <1>6, Multiples
<1>8. s[d] \in Nat
  <2>1. d \in 0 .. d
    BY <1>6
  <2> QED  BY <1>3, <2>1 DEF Weighs
<1>9. index + 1 > N => index + 1 + u[Len(Counted)] <= Limit
  <2> DEFINE K == N * MaxCalls
             J == d * MaxCalls
             x == s[d]
             i == index
  <2>1. u[Len(Counted)] = x - 1
    BY <1>4, <1>5
  <2>2. Limit = N + 1 + K
    BY DEF Limit
  <2>3. /\ x <= J + 1 /\ J <= K /\ K \in Nat /\ J \in Nat /\ x \in Nat
        /\ N \in Nat /\ i \in Nat /\ (i > N => i + x <= N + 1 + K)
    BY <1>2, <1>3, <1>6, <1>7, <1>8, <2>2
  <2> HIDE DEF N, K, J, x, i
  <2>4. i + 1 > N => i + 1 + (x - 1) <= N + 1 + K
    BY <2>3
  <2> QED  BY <2>1, <2>2, <2>4 DEF i
<1> QED  BY <1>1, <1>2, <1>4, <1>5, <1>9, LoopKeepsStack

\* A return moves the index by one and takes a handler off.
LEMMA ReturnKeepsStack ==
  ASSUME FlowInv, Return
  PROVE  StackInv'
<1> DEFINE d == Len(stack)
           N == Len(chain)
<1>1. stack # << >> /\ Loop(index + 1, Below) /\ chain' = chain
  BY DEF Return, Running
<1>2. chain \in Seq(Handlers) /\ index \in Nat /\ Piled(stack, index)
  BY DEF FlowInv, StackInv
<1>3. PICK s : /\ Weighs(stack, s) /\ Called(s, d - 1)
               /\ s[d] <= d * MaxCalls + 1
               /\ index > N => index + s[d] <= Limit
  BY DEF FlowInv, StackInv
<1>4. /\ Piled(Below, index) /\ Len(Below) = d - 1
      /\ \E u : /\ Weighs(Below, u) /\ Called(u, Len(Below))
                /\ u[Len(Below)] = s[d - 1]
                /\ u[Len(Below)] + 1 <= s[d]
  BY <1>1, <1>2, <1>3, BelowLighter
<1>5. PICK u : /\ Weighs(Below, u) /\ Called(u, Len(Below))
               /\ u[Len(Below)] = s[d - 1]
               /\ u[Len(Below)] + 1 <= s[d]
  BY <1>4
<1>6. N \in Nat /\ MaxCalls \in Nat /\ d \in Nat \ {0} /\ d <= N
  <2>1. stack \in Seq(Frames)
    BY <1>2 DEF Piled
  <2> QED  BY <1>1, <1>2, <2>1, TopIs, StackShort, LenProperties, WebAssumption
<1>7. d * MaxCalls <= N * MaxCalls /\ d * MaxCalls \in Nat /\ N * MaxCalls \in Nat
  BY <1>6, Multiples
<1>8. s[d] \in Nat /\ s[d - 1] \in Nat
  <2>1. d \in 0 .. d /\ d - 1 \in 0 .. d
    BY <1>6
  <2> QED  BY <1>3, <2>1 DEF Weighs
<1>9. index + 1 > N => index + 1 + u[Len(Below)] <= Limit
  <2> DEFINE K == N * MaxCalls
             J == d * MaxCalls
             x == s[d]
             y == u[Len(Below)]
             i == index
  <2>1. Limit = N + 1 + K
    BY DEF Limit
  <2>2. /\ x <= J + 1 /\ J <= K /\ K \in Nat /\ J \in Nat /\ x \in Nat
        /\ N \in Nat /\ i \in Nat /\ (i > N => i + x <= N + 1 + K)
        /\ y \in Nat /\ y + 1 <= x
    BY <1>2, <1>3, <1>5, <1>6, <1>7, <1>8, <2>1
  <2> HIDE DEF N, K, J, x, y, i
  <2>3. i + 1 > N => i + 1 + y <= N + 1 + K
    BY <2>2
  <2> QED  BY <2>1, <2>3 DEF i, y
<1> QED  BY <1>1, <1>2, <1>4, <1>5, <1>9, LoopKeepsStack

\* Fail moves the index behind the chain, and what is left to the handlers is
\* bounded by their number.
LEMMA FailKeepsStack ==
  ASSUME FlowInv, Fail
  PROVE  StackInv'
<1> DEFINE d == Len(stack)
           N == Len(chain)
<1>1. stack # << >> /\ Top.calls < MaxCalls /\ index' = N + 1
      /\ stack' = Counted /\ chain' = chain
  BY DEF Fail, Busy, Running, FailIndex
<1>2. chain \in Seq(Handlers) /\ index \in Nat /\ Piled(stack, index)
  BY DEF FlowInv, StackInv
<1>3. PICK s : /\ Weighs(stack, s) /\ Called(s, d - 1)
               /\ s[d] <= d * MaxCalls + 1
  BY DEF FlowInv, StackInv
<1>4. /\ Piled(Counted, index) /\ Len(Counted) = d
      /\ \E u : /\ Weighs(Counted, u) /\ Called(u, Len(Counted))
                /\ u[Len(Counted)] = s[d] - 1
  BY <1>1, <1>2, <1>3, CountedLighter
<1>5. PICK u : /\ Weighs(Counted, u) /\ Called(u, d) /\ u[d] = s[d] - 1
  BY <1>4
<1>6. N \in Nat /\ MaxCalls \in Nat /\ d \in Nat \ {0} /\ d <= N
  <2>1. stack \in Seq(Frames)
    BY <1>2 DEF Piled
  <2> QED  BY <1>1, <1>2, <2>1, TopIs, StackShort, LenProperties, WebAssumption
<1>7. d * MaxCalls <= N * MaxCalls /\ d * MaxCalls \in Nat /\ N * MaxCalls \in Nat
  BY <1>6, Multiples
<1>8. s[d] \in Nat /\ Called(u, d - 1)
  <2>1. d \in 0 .. d /\ \A j \in 1 .. d - 1 : j \in 1 .. d
    BY <1>6
  <2> QED  BY <1>3, <1>5, <2>1 DEF Weighs, Called
<1>9. u[d] <= d * MaxCalls + 1 /\ index' + u[d] <= Limit
  <2> DEFINE K == N * MaxCalls
             J == d * MaxCalls
             x == s[d]
  <2>1. Limit = N + 1 + K
    BY DEF Limit
  <2>2. /\ x <= J + 1 /\ J <= K /\ K \in Nat /\ J \in Nat /\ x \in Nat
        /\ N \in Nat /\ index' = N + 1 /\ u[d] = x - 1
    BY <1>1, <1>3, <1>5, <1>6, <1>7, <1>8
  <2> HIDE DEF N, K, J, x
  <2>3. u[d] <= J + 1 /\ index' + u[d] <= N + 1 + K
    BY <2>2
  <2> QED  BY <2>1, <2>3 DEF J
<1>10. Piled(stack, index)'
  <2>1. DOMAIN Counted = 1 .. d
    BY <1>4, LenProperties DEF Piled
  <2>2. \A j \in 1 .. d : Counted[j].h \in 1 .. N
    BY <1>4, <2>1 DEF Piled
  <2>3. \A j \in 1 .. d : Counted[j].h <= N + 1
    BY <1>6, <2>2
  <2> QED  BY <1>1, <1>4, <2>1, <2>3 DEF Piled
<1>11. Len(stack') = d /\ Limit' = Limit
  BY <1>1, <1>4 DEF Limit
<1>12. Weighs(stack', u) /\ Called(u, Len(stack') - 1)
       /\ u[Len(stack')] <= Len(stack') * MaxCalls + 1
       /\ index' + u[Len(stack')] <= Limit'
  BY <1>1, <1>5, <1>8, <1>9, <1>11
<1> QED  BY <1>10, <1>12 DEF StackInv, Weighs

\* Nothing runs: the stack has no weight, and only the index counts.
LEMMA NoStack ==
  ASSUME stack' = << >>, chain \in Seq(Handlers), chain' = chain,
         index' > Len(chain) => index' <= Limit, index' \in Nat
  PROVE  StackInv'
<1> DEFINE s == [j \in 0 .. 0 |-> 0]
<1>1. Len(<< >>) = 0 /\ << >> \in Seq(Frames) /\ DOMAIN << >> = {}
  OBVIOUS
<1>2. s \in [0 .. 0 -> Nat] /\ s[0] = 0
  OBVIOUS
<1>3. MaxCalls \in Nat /\ Limit' = Limit
  BY WebAssumption DEF Limit
<1>4. 0 * MaxCalls = 0
  BY <1>3
<1> HIDE DEF s
<1>5. Piled(stack, index)'
  BY <1>1 DEF Piled
<1>6. Weighs(stack', s) /\ Called(s, Len(stack') - 1)
  BY <1>1, <1>2 DEF Weighs, Called
<1>7. s[Len(stack')] <= Len(stack') * MaxCalls + 1
      /\ (index' > Len(chain') => index' + s[Len(stack')] <= Limit')
  BY <1>1, <1>2, <1>3, <1>4
<1> QED  BY <1>5, <1>6, <1>7 DEF StackInv, Weighs

\* A panic that is recovered leaves the index two behind the chain at most.
LEMMA RecoverKeepsStack ==
  ASSUME FlowInv, Recover
  PROVE  StackInv'
<1> DEFINE N == Len(chain)
<1>1. stack # << >> /\ index' = N + 1 + 1 /\ stack' = << >> /\ chain' = chain
  BY DEF Recover, Running, FailIndex
<1>2. chain \in Seq(Handlers) /\ Piled(stack, index)
  BY DEF FlowInv, StackInv
<1>3. N \in Nat /\ MaxCalls \in Nat /\ N >= 1 /\ MaxCalls >= 1
  <2>1. stack \in Seq(Frames)
    BY <1>2 DEF Piled
  <2> QED  BY <1>1, <1>2, <2>1, TopIs, StackShort, LenProperties, WebAssumption
<1>4. N * MaxCalls >= MaxCalls /\ N * MaxCalls \in Nat
  BY <1>3, Multiples
<1>5. index' \in Nat /\ index' <= Limit
  BY <1>1, <1>3, <1>4 DEF Limit
<1> QED  BY <1>1, <1>2, <1>5, NoStack

\* A panic that is not leaves it where it is.
LEMMA CrashKeepsStack ==
  ASSUME FlowInv, Crash
  PROVE  StackInv'
<1>1. stack # << >> /\ index' = index /\ stack' = << >> /\ chain' = chain
  BY DEF Crash, Running
<1>2. chain \in Seq(Handlers) /\ index \in Nat /\ Piled(stack, index)
  BY DEF FlowInv, StackInv
<1>3. PICK s : /\ Weighs(stack, s)
               /\ index > Len(chain) => index + s[Len(stack)] <= Limit
  BY DEF FlowInv, StackInv
<1>4. s[Len(stack)] \in Nat
  <2>1. stack \in Seq(Frames)
    BY <1>2 DEF Piled
  <2>2. Len(stack) \in 0 .. Len(stack)
    BY <2>1, LenProperties
  <2> QED  BY <1>3, <2>2 DEF Weighs
<1>5. Limit \in Nat /\ Len(chain) \in Nat
  <2>1. Len(chain) \in Nat /\ MaxCalls \in Nat
    BY <1>2, LenProperties, WebAssumption
  <2>2. Len(chain) * MaxCalls \in Nat
    BY <2>1, Multiples
  <2> QED  BY <2>1, <2>2 DEF Limit
<1>6. index > Len(chain) => index <= Limit
  BY <1>2, <1>3, <1>4, <1>5
<1> QED  BY <1>1, <1>2, <1>6, NoStack

-----------------------------------------------------------------------------
(* Their order *)

\* The loop enters the next handler of the chain, or none.
LEMMA LoopKeepsOrder ==
  ASSUME FlowInv, phase = "serve", NEW frames, Loop(index + 1, frames),
         chain' = chain, failed' = failed
  PROVE  /\ OrderInv'
         /\ index' \in Nat
         /\ phase' \in {"serve", "done"}
         /\ frames \in Seq(Frames) => (phase' = "serve" <=> stack' # << >>)
         /\ failed => entered' = entered
<1> DEFINE N == Len(chain)
<1>1. /\ chain \in Seq(Handlers) /\ N \in Nat /\ index \in Nat
      /\ index' = index + 1 /\ failed \in BOOLEAN
  BY LenProperties DEF FlowInv, Loop
<1>2. /\ entered \in Seq(Nat) /\ \A i \in DOMAIN entered : entered[i] = i
      /\ ~ failed => Len(entered) = IF index <= N THEN index ELSE N
      /\ failed => index > N
  BY DEF FlowInv, OrderInv
<1>3. CASE index + 1 <= N
  <2>1. /\ entered' = Append(entered, index + 1) /\ phase' = "serve"
        /\ stack' = Append(frames, [h |-> index + 1, calls |-> 0])
    BY <1>3 DEF Loop
  <2>2. ~ failed /\ Len(entered) = index
    BY <1>1, <1>2, <1>3
  <2>3. /\ Append(entered, index + 1) \in Seq(Nat)
        /\ Len(Append(entered, index + 1)) = index + 1
        /\ \A i \in 1 .. index : Append(entered, index + 1)[i] = entered[i]
        /\ Append(entered, index + 1)[index + 1] = index + 1
    BY <1>1, <1>2, <2>2, AppendProperties
  <2>4. DOMAIN entered = 1 .. index /\ DOMAIN entered' = 1 .. index + 1
    BY <1>2, <2>1, <2>2, <2>3, LenProperties
  <2>5. ASSUME NEW i \in DOMAIN entered'  PROVE entered'[i] = i
    <3>1. CASE i = index + 1
      BY <2>1, <2>3, <3>1
    <3>2. CASE i # index + 1
      <4>1. i \in 1 .. index
        BY <1>1, <2>4, <3>2
      <4> QED  BY <1>2, <2>1, <2>3, <2>4, <4>1
    <3> QED  BY <3>1, <3>2
  <2>6. OrderInv'
    BY <1>1, <1>3, <2>1, <2>2, <2>3, <2>5 DEF OrderInv
  <2>7. frames \in Seq(Frames) => stack' # << >>
    <3>1. MaxCalls \in Nat
      BY WebAssumption
    <3>2. [h |-> index + 1, calls |-> 0] \in Frames
      BY <1>1, <3>1 DEF Frames
    <3> QED  BY <2>1, <3>2, AppendProperties
  <2> QED  BY <1>1, <2>1, <2>2, <2>6, <2>7
<1>4. CASE ~ (index + 1 <= N)
  <2>1. /\ entered' = entered /\ stack' = frames
        /\ phase' = IF frames = << >> THEN "done" ELSE "serve"
    BY <1>4 DEF Loop
  <2>2. OrderInv'
    BY <1>1, <1>2, <1>4, <2>1 DEF OrderInv
  <2> QED  BY <1>1, <2>1, <2>2
<1> QED  BY <1>3, <1>4

-----------------------------------------------------------------------------
(* The chain of a request *)

Middleware(g) == [kind |-> "group", of |-> g]
Serves(p, s, k) ==
    HasPrefix(p, Groups[k]) => \E i \in DOMAIN s : s[i] = Middleware(k)

\* The middlewares of a path: one for each group whose prefix it has.
LEMMA MiddlewaresAre ==
  ASSUME NEW p \in Seq(Parts)
  PROVE  /\ Middlewares(p) \in Seq(Handlers)
         /\ \A g \in DOMAIN Groups : Serves(p, Middlewares(p), g)
<1> DEFINE n == Len(Groups)
           Step(s, g) == IF HasPrefix(p, Groups[g])
                         THEN Append(s, Middleware(g)) ELSE s
           f == [x \in Seq(Handlers) \X (1 .. n) |-> Step(x[1], x[2])]
           F(w) == [g \in 0 .. n |-> IF g = 0 THEN << >> ELSE Step(w[g - 1], g)]
<1>1. n \in Nat /\ DOMAIN Groups = 1 .. n
  BY LenProperties, WebAssumption
<1>2. ASSUME NEW s \in Seq(Handlers), NEW g \in 1 .. n
      PROVE  /\ Step(s, g) \in Seq(Handlers)
             /\ \A k \in DOMAIN s : k \in DOMAIN Step(s, g) /\ Step(s, g)[k] = s[k]
             /\ Serves(p, Step(s, g), g)
  <2> DEFINE m == Middleware(g)
  <2>1. m \in Handlers
    BY <1>1 DEF Handlers, Middleware
  <2> HIDE DEF m
  <2>2. Len(s) \in Nat /\ DOMAIN s = 1 .. Len(s)
    BY LenProperties
  <2>3. /\ Append(s, m) \in Seq(Handlers) /\ Len(Append(s, m)) = Len(s) + 1
        /\ \A k \in 1 .. Len(s) : Append(s, m)[k] = s[k]
        /\ Append(s, m)[Len(s) + 1] = m
    BY <2>1, AppendProperties
  <2>4. DOMAIN Append(s, m) = 1 .. Len(s) + 1
    BY <2>3, LenProperties
  <2>5. Step(s, g) = IF HasPrefix(p, Groups[g]) THEN Append(s, m) ELSE s
    BY DEF m
  <2> HIDE DEF Step
  <2>6. CASE HasPrefix(p, Groups[g])
    <3>1. Step(s, g) = Append(s, m)
      BY <2>5, <2>6
    <3>2. Len(s) + 1 \in DOMAIN Append(s, m)
      BY <2>2, <2>4
    <3>3. Serves(p, Step(s, g), g)
      BY <2>3, <3>1, <3>2 DEF Serves, m
    <3>4. \A k \in DOMAIN s : k \in DOMAIN Append(s, m)
      BY <2>2, <2>4
    <3> QED  BY <2>2, <2>3, <3>1, <3>3, <3>4
  <2>7. CASE ~ HasPrefix(p, Groups[g])
    BY <2>5, <2>7 DEF Serves
  <2> QED  BY <2>6, <2>7
<1>3. << >> \in Seq(Handlers)
  OBVIOUS
<1> HIDE DEF Step
<1>4. f \in [Seq(Handlers) \X (1 .. n) -> Seq(Handlers)]
  BY <1>2
<1>5. PICK h \in [0 .. n -> Seq(Handlers)] :
         h[0] = << >> /\ \A g \in 1 .. n : h[g] = f[<<h[g - 1], g>>]
  <2> DEFINE S == Seq(Handlers)
             a == << >>
  <2>1. n \in Nat /\ f \in [S \X (1 .. n) -> S] /\ a \in S
    BY <1>1, <1>3, <1>4
  <2> HIDE DEF f, n, S, a
  <2>2. \E h \in [0 .. n -> S] : Iterates(h, n, a, f)
    BY <2>1, Iterated
  <2> QED  BY <2>2 DEF S, a, Iterates
<1>6. \A g \in 1 .. n : h[g] = Step(h[g - 1], g)
  <2>1. ASSUME NEW g \in 1 .. n
        PROVE  f[<<h[g - 1], g>>] = Step(h[g - 1], g)
    <3>1. h[g - 1] \in Seq(Handlers)
      BY <1>1
    <3> QED  BY <3>1
  <2> QED  BY <1>5, <2>1
<1>7. h = F(h)
  <2>1. ASSUME NEW g \in 0 .. n  PROVE h[g] = F(h)[g]
    BY <1>1, <1>5, <1>6
  <2> HIDE DEF n
  <2> QED  BY <2>1
<1> DEFINE w == CHOOSE w : w = F(w)
<1>8. w = F(w)
  <2> HIDE DEF F
  <2> QED  BY <1>7
<1>9. Middlewares(p) = w[n]
  BY Zenon DEF Middlewares, Step, Middleware
<1> HIDE DEF w
<1>10. w[0] = << >> /\ \A g \in 1 .. n : w[g] = Step(w[g - 1], g)
  <2>1. w[0] = << >>
    BY <1>1, <1>8
  <2>2. ASSUME NEW g \in 1 .. n  PROVE w[g] = Step(w[g - 1], g)
    <3>1. g \in 0 .. n /\ g # 0
      BY <1>1
    <3>2. F(w)[g] = Step(w[g - 1], g)
      BY <3>1
    <3> HIDE DEF F
    <3> QED  BY <1>8, <3>2
  <2> QED  BY <2>1, <2>2
<1> DEFINE Good(g) == /\ w[g] \in Seq(Handlers)
                      /\ \A k \in 1 .. g : Serves(p, w[g], k)
           T == {g \in 0 .. n : Good(g)}
<1>11. 0 \in T
  <2>1. w[0] \in Seq(Handlers)
    BY <1>3, <1>10
  <2>2. 0 \in 0 .. n /\ \A k \in 1 .. 0 : Serves(p, w[0], k)
    BY <1>1
  <2> QED  BY <2>1, <2>2, Zenon
<1>12. ASSUME NEW g \in 0 .. n - 1, g \in T  PROVE g + 1 \in T
  <2>1. g + 1 \in 1 .. n /\ w[g + 1] = Step(w[g], g + 1)
    <3>1. g + 1 \in 1 .. n /\ (g + 1) - 1 = g
      BY <1>1
    <3> QED  BY <1>10, <3>1
  <2>2. w[g] \in Seq(Handlers) /\ \A k \in 1 .. g : Serves(p, w[g], k)
    BY <1>12
  <2>3. /\ w[g + 1] \in Seq(Handlers)
        /\ \A k \in DOMAIN w[g] : k \in DOMAIN w[g + 1] /\ w[g + 1][k] = w[g][k]
        /\ Serves(p, w[g + 1], g + 1)
    BY <1>2, <2>1, <2>2
  <2>4. ASSUME NEW k \in 1 .. g + 1  PROVE Serves(p, w[g + 1], k)
    <3>1. CASE k = g + 1
      BY <2>3, <3>1
    <3>2. CASE k # g + 1
      <4>1. k \in 1 .. g
        BY <1>1, <3>2
      <4> QED  BY <2>2, <2>3, <4>1 DEF Serves
    <3> QED  BY <3>1, <3>2
  <2>5. g + 1 \in 0 .. n
    BY <1>1
  <2> QED  BY <2>3, <2>4, <2>5
<1> HIDE DEF T
<1>13. 0 .. n \subseteq T
  BY <1>1, <1>11, <1>12, UpTo
<1>14. n \in T
  BY <1>1, <1>13
<1>15. Good(n)
  BY <1>14 DEF T
<1> QED  BY <1>1, <1>9, <1>15

\* What ServeHTTP runs: the middlewares first, or second after Recovery.
LEMMA ChainIs ==
  ASSUME recovery \in BOOLEAN, IsTrie(trie), NEW p \in Seq(Parts), Serve(p)
  PROVE  /\ chain' \in Seq(Handlers) /\ Len(chain') >= 1
         /\ \A g \in DOMAIN Groups : Serves(p, chain', g)
<1> DEFINE ms == Middlewares(p)
           last == Handler(p)
           more == Append(ms, last)
           r == [kind |-> "recovery", of |-> 1]
           first == IF recovery THEN << r >> ELSE << >>
<1>1. ms \in Seq(Handlers) /\ \A g \in DOMAIN Groups : Serves(p, ms, g)
  BY MiddlewaresAre
<1>2. last \in Handlers
  <2>1. GetRoute(trie, p) # NoPattern => GetRoute(trie, p) \in Seq(Parts)
    BY RouteFits
  <2> HIDE DEF last
  <2>2. last = IF GetRoute(trie, p) = NoPattern
               THEN [kind |-> "notfound", of |-> NoPattern]
               ELSE [kind |-> "handler", of |-> GetRoute(trie, p)]
    BY DEF last, Handler
  <2> QED  BY <2>1, <2>2 DEF Handlers
<1>3. first \in Seq(Handlers) /\ Len(first) \in Nat
  <2>1. r \in Handlers
    BY DEF Handlers
  <2> HIDE DEF r
  <2>2. << r >> \in Seq(Handlers) /\ << >> \in Seq(Handlers)
    BY <2>1
  <2> QED  BY <2>2, LenProperties
<1>4. chain' = first \o more
  BY DEF Serve
<1> HIDE DEF ms, last, r, first
<1>5. /\ Len(ms) \in Nat /\ DOMAIN ms = 1 .. Len(ms)
      /\ more \in Seq(Handlers) /\ Len(more) = Len(ms) + 1
      /\ \A i \in 1 .. Len(ms) : more[i] = ms[i]
  BY <1>1, <1>2, LenProperties, AppendProperties
<1> HIDE DEF more
<1>6. /\ first \o more \in Seq(Handlers)
      /\ Len(first \o more) = Len(first) + Len(more)
      /\ \A i \in 1 .. Len(first) + Len(more) :
            (first \o more)[i] =
               IF i <= Len(first) THEN first[i] ELSE more[i - Len(first)]
  BY <1>3, <1>5, ConcatProperties
<1>7. DOMAIN (first \o more) = 1 .. Len(first) + Len(more)
  BY <1>6, LenProperties
<1>8. ASSUME NEW i \in 1 .. Len(ms)
      PROVE  /\ Len(first) + i \in 1 .. Len(first) + Len(more)
             /\ (first \o more)[Len(first) + i] = ms[i]
  <2>1. /\ Len(first) + i \in 1 .. Len(first) + Len(more)
        /\ ~ (Len(first) + i <= Len(first))
        /\ (Len(first) + i) - Len(first) = i
    BY <1>3, <1>5
  <2> QED  BY <1>5, <1>6, <2>1
<1>9. ASSUME NEW g \in DOMAIN Groups  PROVE Serves(p, first \o more, g)
  <2>1. SUFFICES ASSUME HasPrefix(p, Groups[g])
                 PROVE  \E i \in DOMAIN (first \o more) :
                           (first \o more)[i] = Middleware(g)
    BY DEF Serves
  <2>2. PICK i \in 1 .. Len(ms) : ms[i] = Middleware(g)
    BY <1>1, <1>5, <2>1 DEF Serves
  <2> QED  BY <1>7, <1>8, <2>2
<1> QED  BY <1>3, <1>4, <1>5, <1>6, <1>9

-----------------------------------------------------------------------------
(* The invariant of the web framework *)

\* What no step of a handler and no registration changes.
RouteInv ==
    /\ IsTrie(trie)
    /\ path \in Seq(Parts)
    /\ Patterns \in Seq(Parsed)
    /\ \A i \in DOMAIN routes :
          /\ routes[i].group \in DOMAIN Groups
          /\ \E comp \in Seq(Parts) :
                routes[i].pattern = ParsePattern(Groups[routes[i].group] \o comp)
    /\ routes \in Seq([group : Nat, pattern : Seq(Parts)])
    /\ Unambiguous => Grown(trie, Patterns)
    /\ Serving => path # << >> /\ \A g \in DOMAIN Groups : Serves(path, chain, g)

WebInv == FlowInv /\ RouteInv

\* Before a request nothing runs.
LEMMA InitFlow == WebInit => FlowInv
<1> SUFFICES ASSUME WebInit  PROVE FlowInv
  OBVIOUS
<1>1. /\ recovery \in BOOLEAN /\ failed = FALSE /\ phase = "register"
      /\ index = 0 /\ chain = << >> /\ stack = << >> /\ entered = << >>
  BY DEF WebInit
<1>2. /\ Len(<< >>) = 0 /\ << >> \in Seq(Frames) /\ << >> \in Seq(Handlers)
      /\ << >> \in Seq(Nat) /\ DOMAIN << >> = {}
  OBVIOUS
<1> DEFINE s == [j \in 0 .. 0 |-> 0]
<1>3. s \in [0 .. 0 -> Nat] /\ s[0] = 0
  OBVIOUS
<1>4. 0 * MaxCalls = 0
  BY WebAssumption
<1> HIDE DEF s
<1>5. StackInv
  <2>1. Piled(stack, index)
    BY <1>1, <1>2 DEF Piled
  <2>2. Weighs(stack, s) /\ Called(s, Len(stack) - 1)
    BY <1>1, <1>2, <1>3 DEF Weighs, Called
  <2>3. /\ s[Len(stack)] <= Len(stack) * MaxCalls + 1
        /\ ~ (index > Len(chain))
    BY <1>1, <1>2, <1>3, <1>4
  <2> QED  BY <2>1, <2>2, <2>3 DEF StackInv
<1>6. OrderInv
  BY <1>1, <1>2 DEF OrderInv
<1> QED  BY <1>1, <1>2, <1>5, <1>6 DEF FlowInv

\* A request starts with the first handler.
LEMMA ServeKeepsFlow ==
  ASSUME FlowInv, RouteInv, NEW p \in Paths, Serve(p)
  PROVE  FlowInv'
<1>1. /\ phase = "register" /\ phase' = "serve" /\ index' = 1
      /\ stack' = << [h |-> 1, calls |-> 0] >> /\ entered' = << 1 >>
      /\ recovery' = recovery /\ failed' = failed
  BY DEF Serve
<1>2. chain' \in Seq(Handlers) /\ Len(chain') >= 1 /\ Len(chain') \in Nat
  BY ChainIs, LenProperties, WebAssumption DEF FlowInv, RouteInv
<1>3. ~ failed /\ recovery \in BOOLEAN /\ failed \in BOOLEAN
  BY <1>1 DEF FlowInv, OrderInv
<1>4. MaxCalls \in Nat
  BY WebAssumption
<1> DEFINE f == [h |-> 1, calls |-> 0]
           s == [j \in 0 .. 1 |-> IF j = 0 THEN 0 ELSE MaxCalls + 1]
<1>5. f \in Frames /\ f.h = 1 /\ f.calls = 0
  BY <1>4 DEF Frames
<1>6. /\ s \in [0 .. 1 -> Nat] /\ s[0] = 0 /\ s[1] = MaxCalls + 1
  BY <1>4
<1>7. stack' = << f >>
  BY <1>1
<1> HIDE DEF f, s
<1>8. /\ << f >> \in Seq(Frames) /\ Len(<< f >>) = 1 /\ << f >>[1] = f
      /\ DOMAIN << f >> = 1 .. 1 /\ << f >> # << >>
  BY <1>5
<1>9. StackInv'
  <2>1. Piled(stack, index)'
    BY <1>1, <1>2, <1>5, <1>7, <1>8 DEF Piled
  <2>2. Weighs(stack', s)
    BY <1>4, <1>5, <1>6, <1>7, <1>8 DEF Weighs
  <2>3. Called(s, Len(stack') - 1)
    BY <1>7, <1>8 DEF Called
  <2>4. s[Len(stack')] <= Len(stack') * MaxCalls + 1
    BY <1>4, <1>6, <1>7, <1>8
  <2>5. ~ (index' > Len(chain'))
    BY <1>1, <1>2
  <2> QED  BY <2>1, <2>2, <2>3, <2>4, <2>5 DEF StackInv, Weighs
<1>10. OrderInv'
  <2>1. << 1 >> \in Seq(Nat) /\ Len(<< 1 >>) = 1 /\ DOMAIN << 1 >> = 1 .. 1
        /\ << 1 >>[1] = 1
    OBVIOUS
  <2> QED  BY <1>1, <1>2, <1>3, <2>1 DEF OrderInv
<1> QED  BY <1>1, <1>2, <1>3, <1>7, <1>8, <1>9, <1>10 DEF FlowInv

\* A handler calls Next or returns: the loop goes on by one.
LEMMA LoopKeepsFlow ==
  ASSUME FlowInv, CallNext \/ Return
  PROVE  FlowInv' /\ (failed => entered' = entered)
<1>1. /\ phase = "serve" /\ stack # << >>
      /\ chain' = chain /\ failed' = failed /\ recovery' = recovery
  BY DEF CallNext, Return, Busy, Running
<1>2. StackInv'
  BY CallNextKeepsStack, ReturnKeepsStack
<1>3. PICK frames \in Seq(Frames) : Loop(index + 1, frames)
  <2>1. stack \in Seq(Frames)
    BY DEF FlowInv, StackInv, Piled
  <2>2. CASE CallNext
    <3>1. Top.calls < MaxCalls /\ Loop(index + 1, Counted)
      BY <2>2 DEF CallNext, Busy, NextIndex
    <3> QED  BY <1>1, <2>1, <3>1, CountedIs
  <2>3. CASE Return
    <3>1. Loop(index + 1, Below)
      BY <2>3 DEF Return
    <3> QED  BY <1>1, <2>1, <3>1, TopIs
  <2> QED  BY <2>2, <2>3
<1>4. /\ OrderInv' /\ index' \in Nat /\ phase' \in {"serve", "done"}
      /\ phase' = "serve" <=> stack' # << >>
      /\ failed => entered' = entered
  BY <1>1, <1>3, LoopKeepsOrder
<1> QED  BY <1>1, <1>2, <1>4 DEF FlowInv

\* Fail puts the index behind the chain, a panic ends the request.
LEMMA StopKeepsFlow ==
  ASSUME FlowInv, Fail \/ Recover \/ Crash
  PROVE  FlowInv' /\ entered' = entered
<1>1. /\ phase = "serve" /\ stack # << >> /\ chain' = chain
      /\ recovery' = recovery /\ entered' = entered
  BY DEF Fail, Recover, Crash, Busy, Running
<1>2. StackInv'
  BY FailKeepsStack, RecoverKeepsStack, CrashKeepsStack
<1>3. /\ chain \in Seq(Handlers) /\ Len(chain) \in Nat /\ index \in Nat
      /\ failed \in BOOLEAN /\ recovery \in BOOLEAN
  BY LenProperties DEF FlowInv
<1>4. /\ entered \in Seq(Nat) /\ \A i \in DOMAIN entered : entered[i] = i
      /\ ~ failed => Len(entered) = IF index <= Len(chain) THEN index ELSE Len(chain)
      /\ failed => index > Len(chain)
  BY DEF FlowInv, OrderInv
<1>5. CASE Fail
  <2>1. index' = Len(chain) + 1 /\ failed' = TRUE /\ phase' = phase
        /\ stack' = Counted /\ Top.calls < MaxCalls
    BY <1>5 DEF Fail, FailIndex, Busy
  <2>2. Counted # << >>
    <3>1. stack \in Seq(Frames)
      BY DEF FlowInv, StackInv, Piled
    <3>2. Len(Counted) = Len(stack) /\ Len(stack) \in Nat \ {0}
      BY <1>1, <2>1, <3>1, CountedIs, TopIs
    <3>3. Len(<< >>) = 0
      OBVIOUS
    <3> QED  BY <3>2, <3>3
  <2>3. OrderInv'
    BY <1>1, <1>3, <1>4, <2>1 DEF OrderInv
  <2> QED  BY <1>1, <1>2, <1>3, <2>1, <2>2, <2>3 DEF FlowInv
<1>6. CASE Recover
  <2>1. index' = Len(chain) + 1 + 1 /\ failed' = TRUE /\ phase' = "done"
        /\ stack' = << >>
    BY <1>6 DEF Recover, FailIndex
  <2>2. OrderInv'
    BY <1>1, <1>3, <1>4, <2>1 DEF OrderInv
  <2> QED  BY <1>1, <1>2, <1>3, <2>1, <2>2 DEF FlowInv
<1>7. CASE Crash
  <2>1. index' = index /\ failed' = failed /\ phase' = "crash" /\ stack' = << >>
    BY <1>7 DEF Crash
  <2>2. OrderInv'
    BY <1>1, <1>3, <1>4, <2>1 DEF OrderInv
  <2> QED  BY <1>1, <1>2, <1>3, <2>1, <2>2 DEF FlowInv
<1> QED  BY <1>5, <1>6, <1>7

\* What is not of the request leaves the handlers that run alone.
LEMMA StillFlow ==
  ASSUME FlowInv, UNCHANGED <<recovery, chain, index, stack, entered, failed, phase>>
  PROVE  FlowInv'
BY DEF FlowInv, StackInv, OrderInv, Piled, Weighs, Called, Limit

\* Whether a route is shadowed depends on those before it only.
LEMMA ShadowedBefore ==
  ASSUME NEW ps \in Seq(Parsed), NEW p \in Parsed, NEW j \in DOMAIN ps,
         Shadowed(ps, j)
  PROVE  Shadowed(Append(ps, p), j)
<1>1. /\ Len(ps) \in Nat /\ DOMAIN ps = 1 .. Len(ps)
      /\ \A k \in 1 .. Len(ps) : Append(ps, p)[k] = ps[k]
  BY LenProperties, AppendProperties
<1> DEFINE all == Append(ps, p)
<1>2. \A k \in 1 .. j : all[k] = ps[k]
  BY <1>1
<1> HIDE DEF all
<1> DEFINE Same(qs, k, l) == /\ Len(qs[k]) >= l
                             /\ SubSeq(qs[k], 1, l) = SubSeq(qs[j], 1, l)
<1>3. PICK h \in DOMAIN ps[j], i \in 1 .. j - 1 :
         /\ Same(ps, i, h - 1) /\ Len(ps[i]) >= h
         /\ ps[i][h] \in Wild \ {ps[j][h]}
         /\ \A k \in 1 .. i - 1 : ~ Same(ps, k, h)
  BY DEF Shadowed
<1>4. i \in 1 .. j /\ j \in 1 .. j /\ \A k \in 1 .. i - 1 : k \in 1 .. j
  BY <1>1
<1>5. \A k \in 1 .. j : \A l : Same(all, k, l) <=> Same(ps, k, l)
  BY <1>2, <1>4
<1>6. all[j] = ps[j] /\ all[i] = ps[i]
  BY <1>2, <1>4
<1> HIDE DEF Same
<1>7. /\ Same(all, i, h - 1) /\ Len(all[i]) >= h
      /\ all[i][h] \in Wild \ {all[j][h]}
      /\ \A k \in 1 .. i - 1 : ~ Same(all, k, h)
  BY <1>3, <1>4, <1>5, <1>6
<1>8. h \in DOMAIN all[j]
  BY <1>6
<1> QED  BY <1>7, <1>8 DEF Shadowed, Same, all

\* The pattern of the new route is the last of the patterns.
LEMMA PatternsMore ==
  ASSUME RouteInv, NEW pattern \in Parsed, NEW g \in DOMAIN Groups,
         routes' = Append(routes, [group |-> g, pattern |-> pattern])
  PROVE  /\ Patterns' = Append(Patterns, pattern)
         /\ routes' \in Seq([group : Nat, pattern : Seq(Parts)])
         /\ \A i \in DOMAIN routes' :
               \/ i \in DOMAIN routes /\ routes'[i] = routes[i]
               \/ routes'[i] = [group |-> g, pattern |-> pattern]
<1> DEFINE r == [group |-> g, pattern |-> pattern]
           R == [group : Nat, pattern : Seq(Parts)]
           n == Len(routes)
<1>1. routes \in Seq(R) /\ n \in Nat /\ DOMAIN routes = 1 .. n
  BY LenProperties DEF RouteInv
<1>2. r \in R /\ r.pattern = pattern
  BY WebAssumption, LenProperties DEF Parsed
<1>3. routes' = Append(routes, r)
  OBVIOUS
<1> HIDE DEF r, R, n
<1>4. /\ Append(routes, r) \in Seq(R) /\ Len(Append(routes, r)) = n + 1
      /\ \A i \in 1 .. n : Append(routes, r)[i] = routes[i]
      /\ Append(routes, r)[n + 1] = r
  BY <1>1, <1>2, AppendProperties DEF n
<1>5. DOMAIN routes' = 1 .. n + 1
  BY <1>3, <1>4, LenProperties
<1>6. /\ Patterns \in Seq(Parsed) /\ DOMAIN Patterns = 1 .. n
      /\ Len(Patterns) = n /\ \A i \in 1 .. n : Patterns[i] = routes[i].pattern
  <2>1. Patterns \in Seq(Parsed) /\ DOMAIN Patterns = 1 .. n
    BY <1>1 DEF RouteInv, Patterns
  <2>2. Len(Patterns) \in Nat /\ DOMAIN Patterns = 1 .. Len(Patterns)
    BY <2>1, LenProperties
  <2>3. Len(Patterns) = n
    BY <1>1, <2>1, <2>2
  <2> QED  BY <1>1, <2>1, <2>3 DEF Patterns
<1>7. /\ Append(Patterns, pattern) \in Seq(Parsed)
      /\ DOMAIN Append(Patterns, pattern) = 1 .. n + 1
      /\ \A i \in 1 .. n : Append(Patterns, pattern)[i] = routes[i].pattern
      /\ Append(Patterns, pattern)[n + 1] = pattern
  BY <1>6, AppendProperties, LenProperties
<1>8. \A i \in 1 .. n + 1 :
         routes'[i].pattern = Append(Patterns, pattern)[i]
  <2>1. ASSUME NEW i \in 1 .. n + 1
        PROVE  routes'[i].pattern = Append(Patterns, pattern)[i]
    <3>1. CASE i = n + 1
      BY <1>2, <1>3, <1>4, <1>7, <3>1
    <3>2. CASE i # n + 1
      <4>1. i \in 1 .. n
        BY <1>1, <3>2
      <4> QED  BY <1>3, <1>4, <1>7, <4>1
    <3> QED  BY <3>1, <3>2
  <2> QED  BY <2>1
<1>9. Patterns' = Append(Patterns, pattern)
  <2>1. Patterns' = [i \in 1 .. n + 1 |-> routes'[i].pattern]
    BY <1>5 DEF Patterns
  <2>2. Append(Patterns, pattern) \in Seq(Parsed)
        /\ Len(Append(Patterns, pattern)) = n + 1
    BY <1>6, AppendProperties
  <2>3. \A i \in 1 .. n + 1 : routes'[i].pattern \in Parsed
    BY <1>7, <1>8, <2>2, ElementOfSeq, LenProperties
  <2>4. Patterns' \in Seq(Parsed) /\ Len(Patterns') = n + 1
    BY <1>1, <2>1, <2>3
  <2>5. \A i \in 1 .. n + 1 : Patterns'[i] = Append(Patterns, pattern)[i]
    BY <1>8, <2>1
  <2> QED  BY <2>2, <2>4, <2>5, SeqEqual
<1>10. ASSUME NEW i \in DOMAIN routes'
       PROVE  (i \in DOMAIN routes /\ routes'[i] = routes[i]) \/ routes'[i] = r
  <2>1. CASE i = n + 1
    BY <1>3, <1>4, <2>1
  <2>2. CASE i # n + 1
    <3>1. i \in 1 .. n
      BY <1>1, <1>5, <2>2
    <3> QED  BY <1>1, <1>3, <1>4, <3>1
  <2> QED  BY <2>1, <2>2
<1> QED  BY <1>3, <1>4, <1>9, <1>10 DEF r, R

\* A route that is registered: shadowed or not, the trie stays one.
LEMMA RegisterKeepsRoutes ==
  ASSUME FlowInv, RouteInv, NEW g \in DOMAIN Groups, NEW comp \in Comps,
         Register(g, comp)
  PROVE  RouteInv'
<1> DEFINE rest == Tail(comp)
           text == Groups[g] \o rest
           pattern == ParsePattern(text)
<1>1. text \in Seq(Parts) /\ rest \in Seq(Parts)
  <2>1. Groups[g] \in Seq(Parts) \ {<< >>}
    BY WebAssumption, ElementOfSeq, LenProperties
  <2>2. comp \in Seq(Parts) /\ comp # << >>
    BY WebAssumption
  <2>3. rest \in Seq(Parts)
    BY <2>2
  <2> QED  BY <2>1, <2>3, ConcatProperties
<1>2. pattern \in Parsed /\ pattern \in Seq(Parts)
  BY <1>1, ParsedIs DEF Parsed
<1>3. /\ routes' = Append(routes, [group |-> g, pattern |-> pattern])
      /\ trie' = AddRoute(trie, text) /\ path' = path /\ phase = "register"
      /\ phase' = phase
  BY DEF Register, requestVars
<1>4. trie' = Insert(trie, pattern)
  BY <1>3 DEF AddRoute
<1>5. /\ IsTrie(trie) /\ Patterns \in Seq(Parsed) /\ path \in Seq(Parts)
      /\ Unambiguous => Grown(trie, Patterns)
  BY DEF RouteInv
<1> HIDE DEF pattern
<1>6. IsTrie(trie')
  BY <1>2, <1>4, <1>5, InsertTrie
<1>7. /\ Patterns' = Append(Patterns, pattern)
      /\ routes' \in Seq([group : Nat, pattern : Seq(Parts)])
      /\ \A i \in DOMAIN routes' :
            \/ i \in DOMAIN routes /\ routes'[i] = routes[i]
            \/ routes'[i] = [group |-> g, pattern |-> pattern]
  BY <1>2, <1>3, PatternsMore
<1>8. Patterns' \in Seq(Parsed) /\ Len(Patterns) \in Nat
      /\ DOMAIN Patterns = 1 .. Len(Patterns)
      /\ DOMAIN Patterns' = 1 .. Len(Patterns) + 1
  BY <1>2, <1>5, <1>7, AppendProperties, LenProperties
<1>9. DOMAIN Patterns = DOMAIN routes /\ DOMAIN Patterns' = DOMAIN routes'
  BY DEF Patterns
<1>10. Unambiguous' => Grown(trie', Patterns')
  <2>1. SUFFICES ASSUME Unambiguous'  PROVE Grown(trie', Patterns')
    OBVIOUS
  <2>2. \A j \in DOMAIN Patterns' : ~ Shadowed(Append(Patterns, pattern), j)
    BY <1>7, <1>9, <2>1 DEF Unambiguous
  <2>3. ASSUME NEW j \in DOMAIN Patterns  PROVE ~ Shadowed(Patterns, j)
    <3>1. j \in DOMAIN Patterns'
      BY <1>8
    <3> QED  BY <1>2, <1>5, <2>2, <3>1, ShadowedBefore
  <2>4. Unambiguous
    BY <1>9, <2>3 DEF Unambiguous
  <2>5. ~ Shadowed(Append(Patterns, pattern), Len(Patterns) + 1)
    BY <1>8, <2>2
  <2> QED  BY <1>2, <1>4, <1>5, <1>7, <2>4, <2>5, GrownInsert
<1>11. ASSUME NEW i \in DOMAIN routes'
       PROVE  /\ routes'[i].group \in DOMAIN Groups
              /\ \E c \in Seq(Parts) :
                    routes'[i].pattern = ParsePattern(Groups[routes'[i].group] \o c)
  <2>1. CASE i \in DOMAIN routes /\ routes'[i] = routes[i]
    BY <2>1 DEF RouteInv
  <2>2. CASE routes'[i] = [group |-> g, pattern |-> pattern]
    <3>1. routes'[i].group = g /\ routes'[i].pattern = ParsePattern(Groups[g] \o rest)
      BY <2>2 DEF pattern
    <3> QED  BY <1>1, <3>1
  <2> QED  BY <1>7, <2>1, <2>2
<1>12. ~ Serving'
  BY <1>3 DEF Serving
<1> QED  BY <1>3, <1>5, <1>6, <1>7, <1>8, <1>10, <1>11, <1>12 DEF RouteInv

\* Before any is registered there are no routes.
LEMMA InitRoutes == WebInit => RouteInv
<1> SUFFICES ASSUME WebInit  PROVE RouteInv
  OBVIOUS
<1>1. routes = << >> /\ trie = NewRoot /\ path = << >> /\ phase = "register"
  BY DEF WebInit
<1>2. DOMAIN << >> = {} /\ << >> \in Seq(Parts) /\ << >> \in Seq(Parsed)
      /\ << >> \in Seq([group : Nat, pattern : Seq(Parts)])
  OBVIOUS
<1>3. Patterns = << >>
  BY <1>1, <1>2 DEF Patterns
<1>4. IsTrie(trie) /\ Grown(trie, Patterns)
  BY <1>1, <1>3, RootGrown
<1>5. ~ Serving
  BY <1>1 DEF Serving
<1> QED  BY <1>1, <1>2, <1>3, <1>4, <1>5 DEF RouteInv

\* The invariant holds initially.
LEMMA InitWeb == WebInit => WebInv
BY InitFlow, InitRoutes DEF WebInv

\* The routes and the middlewares that were found stay as they are.
LEMMA StillRoutes ==
  ASSUME RouteInv, UNCHANGED <<routes, trie, path, chain>>, Serving' = Serving
  PROVE  RouteInv'
BY DEF RouteInv, Patterns, Unambiguous, Serves

\* Every step keeps the invariant, and enters no handler after a Fail.
LEMMA NextWeb ==
  ASSUME WebInv, [WebNext]_webVars
  PROVE  WebInv' /\ (failed => entered' = entered)
<1>1. FlowInv /\ RouteInv
  BY DEF WebInv
<1>2. ASSUME NEW g \in DOMAIN Groups, NEW comp \in Comps, Register(g, comp)
      PROVE  WebInv' /\ entered' = entered
  <2>1. UNCHANGED <<recovery, chain, index, stack, entered, failed, phase>>
    BY <1>2 DEF Register, requestVars
  <2> QED  BY <1>1, <1>2, <2>1, RegisterKeepsRoutes, StillFlow DEF WebInv
<1>3. ASSUME NEW p \in Paths, Serve(p)
      PROVE  WebInv' /\ ~ failed
  <2>1. FlowInv'
    BY <1>1, <1>3, ServeKeepsFlow
  <2>2. phase = "register" /\ path' = p /\ UNCHANGED <<routes, trie>>
    BY <1>3 DEF Serve
  <2>3. p \in Seq(Parts) /\ p # << >>
    BY WebAssumption
  <2>4. \A g \in DOMAIN Groups : Serves(p, chain', g)
    BY <1>1, <1>3, <2>3, ChainIs DEF FlowInv, RouteInv
  <2>5. Patterns' = Patterns /\ Unambiguous' = Unambiguous
    BY <2>2 DEF Patterns, Unambiguous
  <2>6. RouteInv'
    BY <1>1, <2>2, <2>3, <2>4, <2>5 DEF RouteInv
  <2>7. ~ failed
    BY <1>1, <2>2 DEF FlowInv, OrderInv
  <2> QED  BY <2>1, <2>6, <2>7 DEF WebInv
<1>4. ASSUME HandlerStep
      PROVE  WebInv' /\ (failed => entered' = entered)
  <2>1. FlowInv' /\ (failed => entered' = entered)
    BY <1>1, <1>4, LoopKeepsFlow, StopKeepsFlow DEF HandlerStep
  <2>2. UNCHANGED <<routes, trie, path, chain>> /\ phase = "serve"
    BY <1>4
       DEF HandlerStep, CallNext, Return, Fail, Recover, Crash, Busy, Running
  <2>3. phase' \in {"serve", "done", "crash"}
    BY <1>4, <2>2 DEF HandlerStep, CallNext, Return, Fail, Recover, Crash, Loop
  <2>4. Serving' = Serving
    BY <2>2, <2>3 DEF Serving
  <2> QED  BY <1>1, <2>1, <2>2, <2>4, StillRoutes DEF WebInv
<1>5. CASE UNCHANGED webVars
  <2>1. /\ UNCHANGED <<recovery, chain, index, stack, entered, failed, phase>>
        /\ UNCHANGED <<routes, trie, path, chain>> /\ Serving' = Serving
    BY <1>5 DEF webVars, Serving
  <2> QED  BY <1>1, <2>1, StillFlow, StillRoutes DEF WebInv
<1> QED  BY <1>2, <1>3, <1>4, <1>5 DEF WebNext

\* In every reachable state the web framework's invariant holds.
THEOREM WebInvariant == WebSpec => []WebInv
<1>1. WebInv /\ [WebNext]_webVars => WebInv'
  BY NextWeb
<1> QED  BY InitWeb, <1>1, PTL DEF WebSpec

\* The invariant implies the type invariant: the weight is never negative.
LEMMA WebInvType == WebInv => WebTypeOK
<1> SUFFICES ASSUME WebInv  PROVE WebTypeOK
  OBVIOUS
<1>1. /\ recovery \in BOOLEAN /\ failed \in BOOLEAN
      /\ phase \in {"register", "serve", "done", "crash"}
      /\ phase = "serve" <=> stack # << >>
      /\ index \in Nat /\ chain \in Seq(Handlers) /\ Piled(stack, index)
  BY DEF WebInv, FlowInv, StackInv
<1>2. Len(chain) \in Nat /\ DOMAIN chain = 1 .. Len(chain) /\ MaxCalls \in Nat
  BY <1>1, LenProperties, WebAssumption
<1>3. stack \in Seq(Frames) /\ Len(stack) \in Nat /\ DOMAIN stack = 1 .. Len(stack)
  BY <1>1, LenProperties DEF Piled
<1>4. index \in 0 .. Limit
  <2>1. PICK s : /\ Weighs(stack, s)
                 /\ index > Len(chain) => index + s[Len(stack)] <= Limit
    BY DEF WebInv, FlowInv, StackInv
  <2>2. s[Len(stack)] \in Nat
    BY <1>3, <2>1 DEF Weighs
  <2>3. Len(chain) * MaxCalls \in Nat
    BY <1>2, Multiples
  <2>4. Limit \in Nat /\ Len(chain) <= Limit
    BY <1>2, <2>3 DEF Limit
  <2> QED  BY <1>1, <1>2, <2>1, <2>2, <2>4
<1>5. ASSUME NEW i \in DOMAIN stack
      PROVE  /\ stack[i].h \in DOMAIN chain /\ stack[i].calls \in 0 .. MaxCalls
             /\ i > 1 => stack[i - 1].h < stack[i].h
  <2>1. stack[i] \in Frames
    BY <1>3, ElementOfSeq
  <2> QED  BY <1>1, <1>2, <2>1 DEF Piled, Frames
<1> QED  BY <1>1, <1>4, <1>5 DEF WebTypeOK, Limit

\* The variables of the web framework stay in their ranges: the handlers that
\* run are different ones of the chain, and the index is bounded by the calls
\* of Next that are left to them.
THEOREM WebTypeCorrect == WebSpec => []WebTypeOK
<1> QED  BY WebInvariant, WebInvType, PTL

\* The invariant implies that searches are right.
LEMMA WebInvFound == WebInv => RouteFound
<1> SUFFICES ASSUME WebInv  PROVE RouteFound
  OBVIOUS
<1>1. /\ IsTrie(trie) /\ path \in Seq(Parts) /\ Patterns \in Seq(Parsed)
      /\ Unambiguous => Grown(trie, Patterns)
  BY DEF WebInv, RouteInv
<1>2. DOMAIN Patterns = DOMAIN routes
  BY DEF Patterns
<1>3. ASSUME Unambiguous
      PROVE  /\ Found # NoPattern
                   <=> \E i \in DOMAIN routes : Matches(Patterns[i], path)
             /\ Found # NoPattern => Matches(Found, path)
  BY <1>1, <1>2, <1>3, RouteRight DEF Found
<1>4. ASSUME Found # NoPattern, NEW i \in DOMAIN Found, Found[i] \in Wild
      PROVE  i <= Len(ParsePattern(path)) /\ Params(Found, path)[i] # << >>
  BY <1>1, <1>4, ParamsInPath DEF Found
<1> QED  BY <1>3, <1>4 DEF RouteFound

\* If no route is shadowed by a wildcard registered before it, getRoute finds
\* one exactly if one matches; its parameters are in the path in any case.
THEOREM RoutesFound == WebSpec => []RouteFound
<1> QED  BY WebInvariant, WebInvFound, PTL

\* The parts of a path with single slashes, taken from the path.
LEMMA CleanPathParts ==
  ASSUME NEW p \in Seq(Parts) \ {<< >>}, CleanPath(p)
  PROVE  /\ Len(ParsePattern(p)) \in 0 .. Len(p) - 1
         /\ \A i \in 1 .. Len(ParsePattern(p)) : ParsePattern(p)[i] = p[i + 1]
<1> DEFINE l == Len(p)
<1>1. p \in Seq(Parts) /\ l \in Nat /\ l # 0
  <2>1. p \in Seq(Parts) /\ p # << >>
    OBVIOUS
  <2> QED  BY <2>1, LenProperties, EmptySeq
<1>2. PICK w : Rounds(p, w)
  BY <1>1, ParseIs
<1>3. ParsePattern(p) = w[l]
  BY <1>2 DEF Rounds
<1>4. p[1] = Empty /\ \A k \in 2 .. l - 1 : p[k] # Empty
  BY DEF CleanPath
<1>5. CASE l = 1 \/ p[l] # Empty
  <2>1. l \in 1 .. Len(p) /\ \A k \in 2 .. l : p[k] # Empty
    BY <1>1, <1>4, <1>5
  <2> HIDE DEF l
  <2> QED  BY <1>1, <1>2, <1>3, <1>4, <2>1, CleanRounds DEF l
<1>6. CASE l # 1 /\ p[l] = Empty
  <2>1. l - 1 \in 1 .. l /\ l \in 1 .. l /\ \A k \in 2 .. l - 1 : p[k] # Empty
    <3> HIDE DEF l
    <3> QED  BY <1>1, <1>4, <1>6
  <2>2. w[l] = w[l - 1]
    BY <1>2, <1>6, <2>1 DEF Rounds, Round
  <2>3. /\ Len(w[l - 1]) \in 0 .. (l - 1) - 1
        /\ \A i \in 1 .. Len(w[l - 1]) : w[l - 1][i] = p[i + 1]
    BY <1>1, <1>2, <1>4, <2>1, CleanRounds
  <2> HIDE DEF l
  <2>4. Len(w[l - 1]) \in 0 .. l - 1
    BY <1>1, <2>3
  <2> QED  BY <1>3, <2>2, <2>3, <2>4 DEF l
<1> QED  BY <1>5, <1>6

\* A path that matches a route of a group has the prefix of the group.
LEMMA PrefixMatches ==
  ASSUME NEW prefix \in Seq(Parts) \ {<< >>}, NEW rest \in Seq(Parts),
         NEW p \in Seq(Parts) \ {<< >>}, Matches(ParsePattern(prefix \o rest), p),
         CleanPrefix(prefix), CleanPath(p)
  PROVE  HasPrefix(p, prefix)
<1> DEFINE text == prefix \o rest
           found == ParsePattern(text)
           parts == ParsePattern(p)
           k == Len(prefix)
<1>1. /\ prefix \in Seq(Parts) /\ k \in Nat /\ k # 0 /\ Len(rest) \in Nat
      /\ p \in Seq(Parts) /\ Len(p) \in Nat /\ Len(p) # 0
  <2>1. prefix \in Seq(Parts) /\ prefix # << >> /\ p \in Seq(Parts) /\ p # << >>
    OBVIOUS
  <2> QED  BY <2>1, LenProperties, EmptySeq
<1>2. /\ text \in Seq(Parts) /\ Len(text) = k + Len(rest)
      /\ \A i \in 1 .. k : text[i] = prefix[i]
  BY <1>1, ConcatProperties
<1>3. prefix[1] = Empty /\ \A i \in 2 .. k : prefix[i] \notin Wild \cup {Empty}
  BY DEF CleanPrefix
<1> HIDE DEF text, k
<1>4. PICK w : Rounds(text, w)
  BY <1>2, ParseIs
<1>5. /\ k \in 1 .. Len(text) /\ text[1] = Empty
      /\ \A i \in 2 .. k : text[i] # Empty /\ text[i] \notin Wild
  BY <1>1, <1>2, <1>3
<1>6. /\ Len(w[k]) \in 0 .. k - 1
      /\ \A i \in 1 .. Len(w[k]) : w[k][i] = text[i + 1]
      /\ Len(w[k]) = k - 1 \/ Ended(w[k])
  BY <1>2, <1>4, <1>5, CleanRounds
<1>7. ~ Ended(w[k])
  <2>1. SUFFICES ASSUME Ended(w[k])  PROVE FALSE
    OBVIOUS
  <2>2. w[k] \in Seq(Parts) /\ w[k] # << >> /\ w[k][Len(w[k])] \in Star
    BY <1>2, <1>4, <1>5, <2>1 DEF Rounds, Parsed, Ended
  <2>3. Len(w[k]) # 0
    BY <2>2, EmptySeq
  <2>4. Len(w[k]) \in 1 .. Len(w[k]) /\ Len(w[k]) + 1 \in 2 .. k
    BY <1>1, <1>6, <2>3
  <2>5. text[Len(w[k]) + 1] \in Star
    BY <1>6, <2>2, <2>4
  <2> QED  BY <1>5, <2>4, <2>5 DEF Wild
<1>8. /\ Len(found) >= k - 1
      /\ \A i \in 1 .. k - 1 : found[i] = prefix[i + 1]
  <2>1. k \in 0 .. Len(text) /\ Len(w[k]) = k - 1
    BY <1>5, <1>6, <1>7
  <2>2. /\ Len(found) >= k - 1
        /\ \A i \in 1 .. k - 1 : found[i] = w[k][i]
    BY <1>2, <1>4, <2>1, RoundsKeep
  <2>3. ASSUME NEW i \in 1 .. k - 1  PROVE found[i] = prefix[i + 1]
    <3>1. i + 1 \in 1 .. k /\ i \in 1 .. Len(w[k])
      BY <1>1, <2>1
    <3> QED  BY <1>2, <1>6, <2>2, <3>1
  <2> HIDE DEF found
  <2> QED  BY <2>2, <2>3
<1>9. /\ Len(parts) \in 0 .. Len(p) - 1
      /\ \A i \in 1 .. Len(parts) : parts[i] = p[i + 1]
  BY CleanPathParts
<1>10. Len(found) \in Nat
  BY <1>2, ParsedIs, LenProperties DEF Parsed
<1> HIDE DEF found, parts
<1>11. /\ Len(parts) >= Len(found)
       /\ \A i \in 1 .. Len(found) : found[i] \in Wild \cup {parts[i]}
  BY <1>9, <1>10 DEF Matches, found, parts, text
<1>12. ASSUME NEW i \in 1 .. k  PROVE p[i] = prefix[i]
  <2>1. CASE i = 1
    BY <1>3, <2>1 DEF CleanPath
  <2>2. CASE i # 1
    <3>1. /\ i - 1 \in 1 .. k - 1 /\ i \in 2 .. k /\ (i - 1) + 1 = i
          /\ i - 1 \in 1 .. Len(found) /\ i - 1 \in 1 .. Len(parts)
      BY <1>1, <1>8, <1>9, <1>10, <1>11, <2>2
    <3>2. found[i - 1] = prefix[i] /\ parts[i - 1] = p[i]
      BY <1>8, <1>9, <3>1
    <3>3. prefix[i] \notin Wild
      BY <1>3, <3>1
    <3> QED  BY <1>11, <3>1, <3>2, <3>3
  <2> QED  BY <2>1, <2>2
<1>13. k <= Len(p) /\ k - 1 \in 0 .. Len(p) /\ k - 1 \in 0 .. k /\ k \in 1 .. k
  BY <1>1, <1>8, <1>9, <1>10, <1>11
<1>14. /\ Cut(p, k - 1) \in Seq(Parts) /\ Len(Cut(p, k - 1)) = k - 1
       /\ \A i \in 1 .. k - 1 : Cut(p, k - 1)[i] = p[i]
  BY <1>1, <1>13, CutIs
<1>15. /\ Cut(prefix, k - 1) \in Seq(Parts) /\ Len(Cut(prefix, k - 1)) = k - 1
       /\ \A i \in 1 .. k - 1 : Cut(prefix, k - 1)[i] = prefix[i]
  BY <1>1, <1>13, CutIs DEF k
<1>16. \A i \in 1 .. k - 1 : p[i] = prefix[i]
  BY <1>1, <1>12
<1>17. Cut(p, k - 1) = Cut(prefix, k - 1)
  BY <1>14, <1>15, <1>16, SeqEqual
<1>18. p[k] = prefix[k]
  BY <1>12, <1>13
<1> QED  BY <1>13, <1>17, <1>18 DEF HasPrefix, Cut, k

\* The invariant implies that the groups of a route serve it.
LEMMA WebInvGroup == WebInv => GroupMiddlewareRuns
<1> DEFINE own == {routes[i].group :
                      i \in {j \in DOMAIN routes : routes[j].pattern = Found}}
<1> SUFFICES ASSUME WebInv, Serving, Unambiguous, Found # NoPattern
             PROVE  /\ own # {}
                    /\ CleanPath(path) =>
                          \A g \in own : CleanPrefix(Groups[g]) =>
                             \E h \in DOMAIN chain :
                                chain[h] = [kind |-> "group", of |-> g]
  BY DEF GroupMiddlewareRuns
<1>1. /\ IsTrie(trie) /\ path \in Seq(Parts) \ {<< >>} /\ Patterns \in Seq(Parsed)
      /\ Grown(trie, Patterns)
      /\ \A g \in DOMAIN Groups : Serves(path, chain, g)
  BY DEF WebInv, RouteInv
<1>2. Matches(Found, path) /\ \E i \in DOMAIN Patterns : Patterns[i] = Found
  BY <1>1, RouteRight DEF Found
<1>3. own # {}
  BY <1>2 DEF Patterns
<1>4. ASSUME CleanPath(path), NEW g \in own, CleanPrefix(Groups[g])
      PROVE  \E h \in DOMAIN chain : chain[h] = [kind |-> "group", of |-> g]
  <2>1. PICK i \in DOMAIN routes : routes[i].pattern = Found /\ routes[i].group = g
    OBVIOUS
  <2>2. /\ g \in DOMAIN Groups
        /\ \E comp \in Seq(Parts) : Found = ParsePattern(Groups[g] \o comp)
    BY <2>1 DEF WebInv, RouteInv
  <2>3. Groups[g] \in Seq(Parts) \ {<< >>}
    BY <2>2, WebAssumption, LenProperties, ElementOfSeq
  <2>4. HasPrefix(path, Groups[g])
    BY <1>1, <1>2, <1>4, <2>2, <2>3, PrefixMatches
  <2> QED  BY <1>1, <2>2, <2>4 DEF Serves, Middleware
<1> QED  BY <1>3, <1>4

\* The route a request finds was registered, and the middlewares of its groups
\* are in the chain of the request, if no part of their prefix is a wildcard and
\* the slashes of the prefix and of the path are single ones.
THEOREM GroupsServe == WebSpec => []GroupMiddlewareRuns
<1> QED  BY WebInvariant, WebInvGroup, PTL

\* The invariant implies the order of the handlers.
LEMMA WebInvOrder ==
  ASSUME WebInv
  PROVE  /\ entered = [i \in 1 .. Len(entered) |-> i]
         /\ phase = "done" /\ ~ failed => Len(entered) = Len(chain)
<1>1. /\ entered \in Seq(Nat) /\ \A i \in DOMAIN entered : entered[i] = i
      /\ ~ failed => Len(entered) = IF index <= Len(chain) THEN index ELSE Len(chain)
      /\ phase = "done" => index > Len(chain)
      /\ index \in Nat /\ Len(chain) \in Nat
  BY LenProperties DEF WebInv, FlowInv, OrderInv
<1>2. Len(entered) \in Nat /\ DOMAIN entered = 1 .. Len(entered)
  BY <1>1, LenProperties
<1> DEFINE n == Len(entered)
           s == [i \in 1 .. n |-> i]
<1>3. s \in Seq(Nat) /\ Len(s) = n /\ \A i \in 1 .. n : s[i] = i
  BY <1>2
<1>4. entered = s
  BY <1>1, <1>2, <1>3, SeqEqual
<1>5. phase = "done" /\ ~ failed => Len(entered) = Len(chain)
  <2>1. SUFFICES ASSUME phase = "done", ~ failed
                 PROVE  Len(entered) = Len(chain)
    OBVIOUS
  <2>2. index > Len(chain) /\ Len(entered) = IF index <= Len(chain) THEN index ELSE Len(chain)
    BY <1>1, <2>1
  <2> QED  BY <1>1, <2>2
<1> QED  BY <1>4, <1>5

\* However often the handlers call Next, they run in the order of the chain,
\* each once, all of them if none fails, and none after a Fail.
THEOREM HandlersOrdered == WebSpec => HandlersInOrder
<1>1. WebInv => (entered = [i \in 1 .. Len(entered) |-> i])
  BY WebInvOrder
<1>2. WebInv => (phase = "done" /\ ~ failed => Len(entered) = Len(chain))
  BY WebInvOrder
<1>3. WebInv /\ [WebNext]_webVars => [failed => entered' = entered]_webVars
  BY NextWeb
<1> QED  BY WebInvariant, <1>1, <1>2, <1>3, PTL DEF HandlersInOrder, WebSpec
=============================================================================
