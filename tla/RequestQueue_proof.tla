-------------------------- MODULE RequestQueue_proof --------------------------
(***************************************************************************)
(* What the queue operations do to the requests in a queue, and that they  *)
(* never queue a request twice.                                            *)
(***************************************************************************)
EXTENDS RequestQueue, SequenceTheorems, TLAPS

\* The elements of a sequence over S are in S, by index.
LEMMA ElemsType ==
  ASSUME NEW S, NEW s \in Seq(S)
  PROVE  /\ Elems(s) \subseteq S
         /\ Elems(s) = {s[i] : i \in 1 .. Len(s)}
BY DEF Elems

-----------------------------------------------------------------------------
(* Adding requests.                                                         *)

\* append: one element more at the end.
LEMMA AppendElems ==
  ASSUME NEW S, NEW s \in Seq(S), NEW r \in S
  PROVE  /\ Append(s, r) \in Seq(S)
         /\ Elems(Append(s, r)) = Elems(s) \cup {r}
         /\ NoRepeats(s) /\ r \notin Elems(s) => NoRepeats(Append(s, r))
<1> DEFINE t == Append(s, r)
<1>1. /\ t \in Seq(S) /\ Len(t) = Len(s) + 1 /\ Len(s) \in Nat
      /\ \A i \in 1 .. Len(s) : t[i] = s[i]
      /\ t[Len(s) + 1] = r
  OBVIOUS
<1>2. DOMAIN t = 1 .. Len(s) + 1 /\ DOMAIN s = 1 .. Len(s)
  BY <1>1
<1> HIDE DEF t
<1>3. Elems(t) = Elems(s) \cup {r}
  <2>1. ASSUME NEW e \in Elems(t) PROVE e \in Elems(s) \cup {r}
    <3>1. PICK i \in 1 .. Len(s) + 1 : e = t[i]
      BY <1>2 DEF Elems
    <3> QED
      BY <1>1, <1>2, <3>1 DEF Elems
  <2>2. ASSUME NEW e \in Elems(s) PROVE e \in Elems(t)
    BY <1>1, <1>2 DEF Elems
  <2>3. r \in Elems(t)
    BY <1>1, <1>2 DEF Elems
  <2> QED
    BY <2>1, <2>2, <2>3
<1>4. ASSUME NoRepeats(s), r \notin Elems(s) PROVE NoRepeats(t)
  <2>1. \A i \in 1 .. Len(s) : s[i] # r
    BY <1>2, <1>4 DEF Elems
  <2>2. ASSUME NEW i \in DOMAIN t, NEW j \in DOMAIN t, t[i] = t[j] PROVE i = j
    <3>1. CASE i \in 1 .. Len(s) /\ j \in 1 .. Len(s)
      BY <1>1, <1>2, <1>4, <2>2, <3>1 DEF NoRepeats
    <3>2. CASE i = Len(s) + 1 /\ j = Len(s) + 1
      BY <3>2
    <3>3. CASE i = Len(s) + 1 /\ j \in 1 .. Len(s)
      BY <1>1, <2>1, <2>2, <3>3
    <3>4. CASE i \in 1 .. Len(s) /\ j = Len(s) + 1
      BY <1>1, <2>1, <2>2, <3>4
    <3> QED
      BY <1>1, <1>2, <3>1, <3>2, <3>3, <3>4
  <2> QED
    BY <2>2 DEF NoRepeats
<1> QED
  BY <1>1, <1>3, <1>4 DEF t

\* Two queues one after the other hold the requests of both.
LEMMA ConcatElems ==
  ASSUME NEW S, NEW s \in Seq(S), NEW u \in Seq(S)
  PROVE  /\ s \o u \in Seq(S)
         /\ Elems(s \o u) = Elems(s) \cup Elems(u)
         /\ NoRepeats(s) /\ NoRepeats(u) /\ Elems(s) \cap Elems(u) = {}
              => NoRepeats(s \o u)
<1> DEFINE t == s \o u
<1>1. /\ t \in Seq(S) /\ Len(t) = Len(s) + Len(u)
      /\ \A i \in 1 .. Len(s) + Len(u) :
           t[i] = IF i <= Len(s) THEN s[i] ELSE u[i - Len(s)]
  BY ConcatProperties
<1>2. /\ DOMAIN t = 1 .. Len(s) + Len(u)
      /\ DOMAIN s = 1 .. Len(s) /\ DOMAIN u = 1 .. Len(u)
      /\ Len(s) \in Nat /\ Len(u) \in Nat
  BY <1>1
<1> HIDE DEF t
<1>3. \A i \in 1 .. Len(u) : i + Len(s) \in DOMAIN t /\ t[i + Len(s)] = u[i]
  BY <1>1, <1>2
<1>4. Elems(t) = Elems(s) \cup Elems(u)
  <2>1. ASSUME NEW e \in Elems(t) PROVE e \in Elems(s) \cup Elems(u)
    <3>1. PICK i \in 1 .. Len(s) + Len(u) : e = t[i]
      BY <1>2 DEF Elems
    <3>2. CASE i <= Len(s)
      <4>1. i \in DOMAIN s /\ e = s[i]
        BY <1>1, <1>2, <3>1, <3>2
      <4> QED
        BY <4>1 DEF Elems
    <3>3. CASE ~(i <= Len(s))
      <4>1. i - Len(s) \in DOMAIN u /\ e = u[i - Len(s)]
        BY <1>1, <1>2, <3>1, <3>3
      <4> QED
        BY <4>1 DEF Elems
    <3> QED
      BY <3>2, <3>3
  <2>2. ASSUME NEW e \in Elems(s) PROVE e \in Elems(t)
    BY <1>1, <1>2 DEF Elems
  <2>3. ASSUME NEW e \in Elems(u) PROVE e \in Elems(t)
    <3>1. PICK i \in 1 .. Len(u) : e = u[i]
      BY <1>2 DEF Elems
    <3> QED
      BY <1>3, <3>1 DEF Elems
  <2> QED
    BY <2>1, <2>2, <2>3
<1>5. ASSUME NoRepeats(s), NoRepeats(u), Elems(s) \cap Elems(u) = {}
      PROVE  NoRepeats(t)
  <2>1. ASSUME NEW i \in DOMAIN s, NEW j \in DOMAIN u PROVE s[i] # u[j]
    BY <1>5 DEF Elems
  <2>2. ASSUME NEW i \in DOMAIN t, NEW j \in DOMAIN t, t[i] = t[j] PROVE i = j
    <3>1. CASE i <= Len(s) /\ j <= Len(s)
      BY <1>1, <1>2, <1>5, <2>2, <3>1 DEF NoRepeats
    <3>2. CASE ~(i <= Len(s)) /\ ~(j <= Len(s))
      <4>1. i \in 1 .. Len(s) + Len(u) /\ j \in 1 .. Len(s) + Len(u)
        BY <1>2
      <4>2. t[i] = u[i - Len(s)] /\ t[j] = u[j - Len(s)]
        BY <1>1, <3>2, <4>1
      <4>3. i - Len(s) \in DOMAIN u /\ j - Len(s) \in DOMAIN u
        BY <1>2, <3>2, <4>1
      <4>4. i - Len(s) = j - Len(s)
        BY <1>5, <2>2, <4>2, <4>3 DEF NoRepeats
      <4> QED
        BY <1>2, <4>1, <4>4
    <3>3. CASE i <= Len(s) /\ ~(j <= Len(s))
      <4>1. i \in DOMAIN s /\ j - Len(s) \in DOMAIN u /\ s[i] = u[j - Len(s)]
        BY <1>1, <1>2, <2>2, <3>3
      <4> QED
        BY <2>1, <4>1
    <3>4. CASE ~(i <= Len(s)) /\ j <= Len(s)
      <4>1. j \in DOMAIN s /\ i - Len(s) \in DOMAIN u /\ s[j] = u[i - Len(s)]
        BY <1>1, <1>2, <2>2, <3>4
      <4> QED
        BY <2>1, <4>1
    <3> QED
      BY <3>1, <3>2, <3>3, <3>4
  <2> QED
    BY <2>2 DEF NoRepeats
<1> QED
  BY <1>1, <1>4, <1>5 DEF t

\* prepend_request: one element more at the front.
LEMMA PrependElems ==
  ASSUME NEW S, NEW s \in Seq(S), NEW r \in S
  PROVE  /\ Prepend(s, r) \in Seq(S)
         /\ Elems(Prepend(s, r)) = Elems(s) \cup {r}
         /\ NoRepeats(s) /\ r \notin Elems(s) => NoRepeats(Prepend(s, r))
<1> DEFINE q == <<r>>
<1>1. q \in Seq(S) /\ DOMAIN q = {1} /\ q[1] = r
  OBVIOUS
<1>2. Prepend(s, r) = q \o s
  BY DEF Prepend
<1> HIDE DEF q
<1>3. Elems(q) = {r} /\ NoRepeats(q)
  BY <1>1 DEF Elems, NoRepeats
<1>4. /\ q \o s \in Seq(S)
      /\ Elems(q \o s) = Elems(q) \cup Elems(s)
      /\ NoRepeats(q) /\ NoRepeats(s) /\ Elems(q) \cap Elems(s) = {}
           => NoRepeats(q \o s)
  BY <1>1, ConcatElems
<1> QED
  BY <1>2, <1>3, <1>4

\* Reversing a queue keeps its requests.
LEMMA BackwardsElems ==
  ASSUME NEW S, NEW s \in Seq(S)
  PROVE  /\ Backwards(s) \in Seq(S)
         /\ Elems(Backwards(s)) = Elems(s)
         /\ NoRepeats(s) => NoRepeats(Backwards(s))
<1> DEFINE t == Backwards(s)
<1>1. /\ Len(s) \in Nat /\ DOMAIN s = 1 .. Len(s)
      /\ \A i \in 1 .. Len(s) : s[i] \in S
  OBVIOUS
<1>2. /\ t = [i \in 1 .. Len(s) |-> s[Len(s) + 1 - i]]
      /\ DOMAIN t = 1 .. Len(s)
      /\ \A i \in 1 .. Len(s) : t[i] = s[Len(s) + 1 - i]
      /\ \A i \in 1 .. Len(s) : Len(s) + 1 - i \in 1 .. Len(s)
  BY <1>1 DEF Backwards
<1>3. t \in Seq(S)
  <2>1. t \in [1 .. Len(s) -> S]
    BY <1>1, <1>2
  <2> QED
    BY <1>1, <2>1
<1> HIDE DEF t
<1>4. Elems(t) = Elems(s)
  <2>1. ASSUME NEW e \in Elems(t) PROVE e \in Elems(s)
    BY <1>1, <1>2 DEF Elems
  <2>2. ASSUME NEW e \in Elems(s) PROVE e \in Elems(t)
    <3>1. PICK i \in 1 .. Len(s) : e = s[i]
      BY <1>1 DEF Elems
    <3>2. Len(s) + 1 - (Len(s) + 1 - i) = i
      BY <1>1
    <3>3. t[Len(s) + 1 - i] = e
      BY <1>2, <3>1, <3>2
    <3> QED
      BY <1>2, <3>3 DEF Elems
  <2> QED
    BY <2>1, <2>2
<1>5. ASSUME NoRepeats(s) PROVE NoRepeats(t)
  <2>1. ASSUME NEW i \in 1 .. Len(s), NEW j \in 1 .. Len(s), t[i] = t[j]
        PROVE  i = j
    <3>1. Len(s) + 1 - i = Len(s) + 1 - j
      BY <1>1, <1>2, <1>5, <2>1 DEF NoRepeats
    <3> QED
      BY <1>1, <3>1
  <2> QED
    BY <1>2, <2>1 DEF NoRepeats
<1> QED
  BY <1>3, <1>4, <1>5 DEF t

-----------------------------------------------------------------------------
(* Removing a request.                                                      *)

\* What is left of a queue when an element of it is cut out at index i.
LEMMA CutElems ==
  ASSUME NEW S, NEW s \in Seq(S), NEW i \in 1 .. Len(s)
  PROVE  LET t == SubSeq(s, 1, i - 1) \o SubSeq(s, i + 1, Len(s))
         IN  /\ t \in Seq(S) /\ Len(t) = Len(s) - 1
             /\ \A j \in 1 .. Len(s) - 1 :
                  t[j] = IF j < i THEN s[j] ELSE s[j + 1]
<1> DEFINE a == SubSeq(s, 1, i - 1)
           b == SubSeq(s, i + 1, Len(s))
<1>1. Len(s) \in Nat /\ \A j \in 1 .. Len(s) : s[j] \in S
  OBVIOUS
<1>2. /\ a \in Seq(S) /\ Len(a) = i - 1
      /\ \A j \in 1 .. i - 1 : a[j] = s[j]
  <2>1. \A j \in 1 .. i - 1 : s[j] \in S
    BY <1>1
  <2>2. /\ a \in Seq(S) /\ Len(a) = IF 1 <= i - 1 THEN (i - 1) - 1 + 1 ELSE 0
        /\ \A j \in 1 .. (i - 1) - 1 + 1 : a[j] = s[1 + j - 1]
    BY <2>1, SubSeqProperties
  <2> QED
    BY <2>2
<1>3. /\ b \in Seq(S) /\ Len(b) = Len(s) - i
      /\ \A j \in 1 .. Len(s) - i : b[j] = s[i + j]
  <2>1. \A j \in i + 1 .. Len(s) : s[j] \in S
    BY <1>1
  <2>2. /\ b \in Seq(S)
        /\ Len(b) = IF i + 1 <= Len(s) THEN Len(s) - (i + 1) + 1 ELSE 0
        /\ \A j \in 1 .. Len(s) - (i + 1) + 1 : b[j] = s[(i + 1) + j - 1]
    BY <1>1, <2>1, SubSeqProperties
  <2> QED
    BY <1>1, <2>2
<1> HIDE DEF a, b
<1>4. /\ a \o b \in Seq(S) /\ Len(a \o b) = Len(a) + Len(b)
      /\ \A j \in 1 .. Len(a) + Len(b) :
           (a \o b)[j] = IF j <= Len(a) THEN a[j] ELSE b[j - Len(a)]
  BY <1>2, <1>3, ConcatProperties
<1>5. Len(a \o b) = Len(s) - 1
  BY <1>1, <1>2, <1>3, <1>4
<1>6. ASSUME NEW j \in 1 .. Len(s) - 1
      PROVE  (a \o b)[j] = IF j < i THEN s[j] ELSE s[j + 1]
  <2>1. CASE j < i
    BY <1>1, <1>2, <1>3, <1>4, <2>1
  <2>2. CASE ~(j < i)
    <3>1. j - Len(a) \in 1 .. Len(s) - i /\ ~(j <= Len(a)) /\ i + (j - Len(a)) = j + 1
      BY <1>1, <1>2, <2>2
    <3>2. (a \o b)[j] = b[j - Len(a)]
      BY <1>1, <1>2, <1>3, <1>4, <3>1
    <3> QED
      BY <1>3, <2>2, <3>1, <3>2
  <2> QED
    BY <2>1, <2>2
<1> QED
  BY <1>4, <1>5, <1>6 DEF a, b

\* Removing r leaves the other requests, each as often as before.
LEMMA WithoutElems ==
  ASSUME NEW S, NEW s \in Seq(S), NEW r
  PROVE  /\ Without(s, r) \in Seq(S)
         /\ NoRepeats(s) => /\ Elems(Without(s, r)) = Elems(s) \ {r}
                            /\ NoRepeats(Without(s, r))
<1>1. CASE r \notin Elems(s)
  BY <1>1 DEF Without
<1>2. CASE r \in Elems(s)
  <2> DEFINE i == CHOOSE i \in DOMAIN s : s[i] = r
  <2>1. i \in 1 .. Len(s) /\ s[i] = r
    BY <1>2 DEF Elems
  <2> HIDE DEF i
  <2> DEFINE t == SubSeq(s, 1, i - 1) \o SubSeq(s, i + 1, Len(s))
  <2>2. Without(s, r) = t
    BY <1>2 DEF Without, i
  <2>3. /\ t \in Seq(S) /\ Len(t) = Len(s) - 1
        /\ \A j \in 1 .. Len(s) - 1 : t[j] = IF j < i THEN s[j] ELSE s[j + 1]
    BY <2>1, CutElems
  <2> HIDE DEF t
  <2>4. /\ DOMAIN t = 1 .. Len(s) - 1 /\ DOMAIN s = 1 .. Len(s)
        /\ Len(s) \in Nat
    BY <2>3
  <2>5. ASSUME NoRepeats(s) PROVE Elems(t) = Elems(s) \ {r}
    <3>1. ASSUME NEW e \in Elems(t) PROVE e \in Elems(s) \ {r}
      <4>1. PICK j \in 1 .. Len(s) - 1 : e = t[j]
        BY <2>4 DEF Elems
      <4>2. CASE j < i
        <5>1. e = s[j] /\ j \in 1 .. Len(s) /\ j # i
          BY <2>1, <2>3, <2>4, <4>1, <4>2
        <5> QED
          BY <2>1, <2>4, <2>5, <5>1 DEF Elems, NoRepeats
      <4>3. CASE ~(j < i)
        <5>1. e = s[j + 1] /\ j + 1 \in 1 .. Len(s) /\ j + 1 # i
          BY <2>1, <2>3, <2>4, <4>1, <4>3
        <5> QED
          BY <2>1, <2>4, <2>5, <5>1 DEF Elems, NoRepeats
      <4> QED
        BY <4>2, <4>3
    <3>2. ASSUME NEW e \in Elems(s) \ {r} PROVE e \in Elems(t)
      <4>1. PICK k \in 1 .. Len(s) : e = s[k]
        BY <2>4 DEF Elems
      <4>2. CASE k < i
        <5>1. k \in 1 .. Len(s) - 1 /\ t[k] = e
          BY <2>1, <2>3, <2>4, <4>1, <4>2
        <5> QED
          BY <2>4, <5>1 DEF Elems
      <4>3. CASE k > i
        <5>1. k - 1 \in 1 .. Len(s) - 1 /\ ~(k - 1 < i) /\ (k - 1) + 1 = k
          BY <2>1, <2>4, <4>3
        <5>2. t[k - 1] = e
          BY <2>3, <4>1, <5>1
        <5> QED
          BY <2>4, <5>1, <5>2 DEF Elems
      <4>4. k # i
        BY <2>1, <4>1
      <4> QED
        BY <2>1, <4>2, <4>3, <4>4
    <3> QED
      BY <3>1, <3>2
  <2>6. ASSUME NoRepeats(s) PROVE NoRepeats(t)
    <3>1. ASSUME NEW j \in 1 .. Len(s) - 1, NEW k \in 1 .. Len(s) - 1, t[j] = t[k]
          PROVE  j = k
      <4> DEFINE up(x) == IF x < i THEN x ELSE x + 1
      <4>1. /\ up(j) \in DOMAIN s /\ t[j] = s[up(j)]
            /\ up(k) \in DOMAIN s /\ t[k] = s[up(k)]
        BY <2>1, <2>3, <2>4
      <4>2. up(j) = up(k)
        <5> HIDE DEF up
        <5> QED
          BY <2>6, <3>1, <4>1 DEF NoRepeats
      <4> QED
        BY <2>1, <2>4, <4>2
    <3> QED
      BY <2>4, <3>1 DEF NoRepeats
  <2> QED
    BY <2>2, <2>3, <2>5, <2>6
<1> QED
  BY <1>1, <1>2

\* Removing an element that occurs makes a queue shorter by one.
LEMMA WithoutLen ==
  ASSUME NEW S, NEW s \in Seq(S), NEW r \in Elems(s)
  PROVE  Len(Without(s, r)) = Len(s) - 1
<1> DEFINE i == CHOOSE i \in DOMAIN s : s[i] = r
<1>1. i \in 1 .. Len(s)
  BY DEF Elems
<1>2. Without(s, r) = SubSeq(s, 1, i - 1) \o SubSeq(s, i + 1, Len(s))
  BY DEF Without
<1> QED
  BY <1>1, <1>2, CutElems

\* Removing the request at position p moves the later ones up by one.
LEMMA WithoutAt ==
  ASSUME NEW S, NEW s \in Seq(S), NoRepeats(s), NEW p \in 1 .. Len(s)
  PROVE  /\ Len(Without(s, s[p])) = Len(s) - 1
         /\ \A j \in 1 .. Len(s) - 1 :
              Without(s, s[p])[j] = IF j < p THEN s[j] ELSE s[j + 1]
<1> DEFINE i == CHOOSE i \in DOMAIN s : s[i] = s[p]
<1>1. p \in DOMAIN s /\ s[p] \in Elems(s)
  BY DEF Elems
<1>2. i \in DOMAIN s /\ s[i] = s[p]
  BY <1>1
<1>3. i = p
  BY <1>1, <1>2 DEF NoRepeats
<1>4. Without(s, s[p]) = SubSeq(s, 1, i - 1) \o SubSeq(s, i + 1, Len(s))
  BY <1>1 DEF Without
<1> HIDE DEF i
<1>5. Without(s, s[p]) = SubSeq(s, 1, p - 1) \o SubSeq(s, p + 1, Len(s))
  BY <1>3, <1>4
<1> DEFINE t == SubSeq(s, 1, p - 1) \o SubSeq(s, p + 1, Len(s))
<1>6. /\ Len(t) = Len(s) - 1
      /\ \A j \in 1 .. Len(s) - 1 : t[j] = IF j < p THEN s[j] ELSE s[j + 1]
  BY CutElems
<1>7. Without(s, s[p]) = t
  BY <1>5
<1> HIDE DEF t
<1> QED
  BY <1>6, <1>7
=============================================================================
